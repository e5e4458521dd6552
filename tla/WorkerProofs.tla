---------------------------- MODULE WorkerProofs ----------------------------
(* The accounts of the worker pool, of the processed records and of the     *)
(* approved work, for any number of events, deliveries, processes, slots,   *)
(* faults and crashes.                                                      *)
EXTENDS ApprovalQueue, FiniteSetTheorems, TLAPS

USE WorkerAssumption

-----------------------------------------------------------------------------
(* The pool.  Its invariant also needs that only pooled jobs wait for a     *)
(* slot or give one back, and the typing needs the counter's meaning: that  *)
(* is why the two are proved together.                                      *)

PooledOnly == \A j \in Jobs : pc[j] \in {"queued", "end"} => Pooled(j)

PInv == TypeOK /\ PooledOnly /\ PoolInv

\* What the pool's accounts need of the types.
PoolPart ==
    /\ PooledOnly /\ PoolInv
    /\ pc \in [Jobs -> Steps] /\ at \in [Jobs -> Procs]
    /\ queue \in [Procs -> Seq(Jobs)] /\ running \in [Procs -> Nat]

LEMMA PoolPartHolds == PInv => PoolPart
BY DEF PInv, TypeOK, PoolPart

LEMMA JobsFinite == IsFiniteSet(Jobs)
BY FS_Product DEF Jobs

LEMMA SlotsFinite ==
    \A p \in Procs : IsFiniteSet(Slots(p)) /\ Cardinality(Slots(p)) \in Nat
<1> SUFFICES ASSUME NEW p \in Procs
             PROVE IsFiniteSet(Slots(p)) /\ Cardinality(Slots(p)) \in Nat
  OBVIOUS
<1>1. Slots(p) \in SUBSET Jobs
  BY DEF Slots
<1>2. IsFiniteSet(Slots(p))
  BY <1>1, JobsFinite, FS_Subset
<1> QED
  BY <1>2, FS_CardinalityType

LEMMA SlotMembers ==
    \A p, j : /\ j \in Slots(p) <=> j \in Jobs /\ Pooled(j) /\ at[j] = p /\ pc[j] \in HandleSteps
              /\ j \in Slots(p)' <=> j \in Jobs /\ Pooled(j) /\ at'[j] = p /\ pc'[j] \in HandleSteps
BY DEF Slots, Pooled, Resuming

\* A process none of whose jobs takes or gives back a slot keeps its slots,
\* and one whose queue and waiting jobs are untouched keeps them in step.
Holds(x, p)      == Pooled(x) /\ at[x] = p /\ pc[x] \in HandleSteps
HoldsNext(x, p)  == Pooled(x) /\ at'[x] = p /\ pc'[x] \in HandleSteps
WaitsAt(x, p)    == pc[x] = "queued" /\ at[x] = p
WaitsNext(x, p)  == pc'[x] = "queued" /\ at'[x] = p

LEMMA SameSlots ==
    ASSUME NEW p, \A x \in Jobs : HoldsNext(x, p) <=> Holds(x, p)
    PROVE  Slots(p)' = Slots(p)
<1>1. ASSUME NEW x PROVE x \in Slots(p)' <=> x \in Slots(p)
  BY SlotMembers DEF Holds, HoldsNext
<1> QED
  BY <1>1 DEF Slots

LEMMA SameQueue ==
    ASSUME NEW p, QueueExact(p), queue'[p] = queue[p],
           \A x \in Jobs : WaitsNext(x, p) <=> WaitsAt(x, p)
    PROVE  QueueExact(p)'
BY DEF QueueExact, WaitsAt, WaitsNext

\* A step of one job that neither takes nor gives back a slot, nor waits.
Moves(j, s) ==
    /\ pc' = [pc EXCEPT ![j] = s]
    /\ pc[j] # "queued" /\ s # "queued"
    /\ s = "end" => Pooled(j)
    /\ Pooled(j) => (pc[j] \in HandleSteps <=> s \in HandleSteps)
    /\ UNCHANGED <<at, queue, running>>

LEMMA MovesKeepPool ==
    ASSUME PInv, NEW j \in Jobs, NEW s, Moves(j, s)
    PROVE  PooledOnly' /\ PoolInv'
<1> USE PoolPartHolds DEF PoolPart, Moves
<1>1. PooledOnly'
  BY DEF PooledOnly, Pooled, Resuming
<1>2. ASSUME NEW p \in Procs PROVE Slots(p)' = Slots(p)
  BY DEF Slots, Pooled, Resuming
<1>3. ASSUME NEW p \in Procs PROVE SlotsCounted(p)' /\ WithinLimits(p)'
  BY <1>2, <1>3 DEF PoolInv, SlotsCounted, WithinLimits
<1>4. ASSUME NEW p \in Procs PROVE QueueExact(p)'
  BY <1>4 DEF PoolInv, QueueExact
<1> QED
  BY <1>1, <1>3, <1>4 DEF PoolInv

\* A free slot goes to a job that arrives.
LEMMA StartKeepsPool ==
    ASSUME PInv, NEW j \in Jobs, EnqueueStarts(j)
    PROVE  PooledOnly' /\ PoolInv'
<1>2. PICK q \in Procs : q = at[j]
  BY DEF PInv, TypeOK
<1>1. /\ pc[j] = "absent" /\ Pooled(j) /\ q \in Procs
      /\ running[q] < MaxConcurrent
      /\ pc' = [pc EXCEPT ![j] = "check"]
      /\ running' = [running EXCEPT ![q] = @ + 1]
      /\ UNCHANGED <<at, queue>>
  BY <1>2 DEF EnqueueStarts, Arrives, Goto, PInv, TypeOK
<1> USE <1>1, <1>2, PoolPartHolds DEF PoolPart
<1>3. PooledOnly'
  BY DEF PooledOnly, Pooled, Resuming
<1>4. Slots(q)' = Slots(q) \cup {j} /\ j \notin Slots(q)
  <2>1. ASSUME NEW x \in Jobs PROVE x \in Slots(q)' <=> x \in Slots(q) \/ x = j
    <3>1. CASE x = j
      BY <3>1, SlotMembers DEF HandleSteps
    <3>2. CASE x # j
      BY <3>2, SlotMembers
    <3> QED
      BY <3>1, <3>2
  <2> QED
    BY <2>1, SlotMembers DEF HandleSteps
<1>5. ASSUME NEW p \in Procs, p # q PROVE Slots(p)' = Slots(p)
  BY <1>5, SameSlots DEF Holds, HoldsNext, HandleSteps
<1>6. ASSUME NEW p \in Procs PROVE SlotsCounted(p)' /\ WithinLimits(p)'
  <2>1. CASE p = q
    <3>1. Cardinality(Slots(q)') = Cardinality(Slots(q)) + 1
      <4>1. IsFiniteSet(Slots(q)) /\ j \notin Slots(q)
        BY <1>4, SlotsFinite
      <4>2. Cardinality(Slots(q) \cup {j}) = Cardinality(Slots(q)) + 1
        BY <4>1, FS_AddElement
      <4> QED
        BY <1>4, <4>2
    <3>2. running[q] = Cardinality(Slots(q)) /\ running'[q] = running[q] + 1
      BY DEF PoolInv, SlotsCounted
    <3>3. queue[q] = <<>>
      BY DEF PoolInv, WithinLimits
    <3> QED
      BY <2>1, <3>1, <3>2, <3>3 DEF PoolInv, SlotsCounted, WithinLimits
  <2>2. CASE p # q
    BY <1>5, <2>2 DEF PoolInv, SlotsCounted, WithinLimits
  <2> QED
    BY <2>1, <2>2
<1>7. ASSUME NEW p \in Procs PROVE QueueExact(p)'
  BY SameQueue DEF PoolInv, WaitsAt, WaitsNext
<1> QED
  BY <1>3, <1>6, <1>7 DEF PoolInv

\* All slots are taken: a job that arrives waits at the end of the queue.
LEMMA WaitKeepsPool ==
    ASSUME PInv, NEW j \in Jobs, EnqueueWaits(j)
    PROVE  PooledOnly' /\ PoolInv'
<1>2. PICK q \in Procs : q = at[j]
  BY DEF PInv, TypeOK
<1>1. /\ pc[j] = "absent" /\ Pooled(j) /\ q \in Procs
      /\ running[q] >= MaxConcurrent /\ Len(queue[q]) < MaxQueued
      /\ pc' = [pc EXCEPT ![j] = "queued"]
      /\ queue' = [queue EXCEPT ![q] = Append(@, j)]
      /\ UNCHANGED <<at, running>>
  BY <1>2 DEF EnqueueWaits, Arrives, Goto, PInv, TypeOK
<1> USE <1>1, <1>2, PoolPartHolds DEF PoolPart
<1>3. PooledOnly'
  BY DEF PooledOnly, Pooled, Resuming
<1>4. ASSUME NEW p \in Procs PROVE Slots(p)' = Slots(p)
  BY SameSlots DEF Holds, HoldsNext, HandleSteps
<1>5. /\ Len(Append(queue[q], j)) = Len(queue[q]) + 1
      /\ \A i \in 1 .. Len(queue[q]) : Append(queue[q], j)[i] = queue[q][i]
      /\ Append(queue[q], j)[Len(queue[q]) + 1] = j
      /\ Len(queue[q]) \in Nat
  OBVIOUS
<1>6. ASSUME NEW p \in Procs PROVE SlotsCounted(p)' /\ WithinLimits(p)'
  <2>1. CASE p = q
    BY <1>4, <1>5, <2>1 DEF PoolInv, SlotsCounted, WithinLimits
  <2>2. CASE p # q
    BY <1>4, <2>2 DEF PoolInv, SlotsCounted, WithinLimits
  <2> QED
    BY <2>1, <2>2
<1>7. ASSUME NEW p \in Procs PROVE QueueExact(p)'
  <2>1. CASE p = q
    <3>1. queue'[q] = Append(queue[q], j)
      OBVIOUS
    <3>2. QueueExact(q)
      BY DEF PoolInv
    <3>3. \A i \in 1 .. Len(queue[q]) : queue[q][i] # j
      BY <3>2 DEF QueueExact
    <3>4. ASSUME NEW x \in Jobs
          PROVE WaitsNext(x, q) <=> \E i \in 1 .. Len(queue'[q]) : queue'[q][i] = x
      <4>1. CASE x = j
        <5>1. Len(queue[q]) + 1 \in 1 .. Len(queue'[q]) /\ queue'[q][Len(queue[q]) + 1] = j
          BY <1>5, <3>1
        <5> QED
          BY <4>1, <5>1 DEF WaitsNext
      <4>2. CASE x # j
        <5>1. WaitsNext(x, q) <=> \E i \in 1 .. Len(queue[q]) : queue[q][i] = x
          BY <3>2, <4>2 DEF QueueExact, WaitsNext
        <5> QED
          BY <1>5, <3>1, <4>2, <5>1
      <4> QED
        BY <4>1, <4>2
    <3>5. \A i, k \in 1 .. Len(queue'[q]) : queue'[q][i] = queue'[q][k] => i = k
      <4>1. \A i \in 1 .. Len(queue'[q]) :
              \/ i \in 1 .. Len(queue[q]) /\ queue'[q][i] = queue[q][i] /\ queue[q][i] # j
              \/ i = Len(queue[q]) + 1 /\ queue'[q][i] = j
        BY <1>5, <3>1, <3>3
      <4>2. ASSUME NEW i \in 1 .. Len(queue'[q]), NEW k \in 1 .. Len(queue'[q]),
                   queue'[q][i] = queue'[q][k]
            PROVE i = k
        <5>1. CASE i \in 1 .. Len(queue[q]) /\ k \in 1 .. Len(queue[q])
          <6>1. queue[q][i] = queue[q][k]
            BY <1>5, <4>1, <4>2, <5>1
          <6> QED
            BY <3>2, <5>1, <6>1 DEF QueueExact
        <5>2. CASE i = Len(queue[q]) + 1 \/ k = Len(queue[q]) + 1
          <6> DEFINE n == Len(queue[q])
                       new == queue'[q]
                       old == queue[q]
          <6>2. n \in Nat
            BY <1>5
          <6>3. \A x \in 1 .. Len(new) :
                  \/ x \in 1 .. n /\ new[x] = old[x] /\ old[x] # j
                  \/ x = n + 1 /\ new[x] = j
            BY <4>1
          <6>4. i \in 1 .. Len(new) /\ k \in 1 .. Len(new) /\ new[i] = new[k]
            BY <4>2
          <6>5. i = n + 1 \/ k = n + 1
            BY <5>2
          <6> HIDE <1>1, <1>2, PoolPartHolds DEF PoolPart, n, new, old
          <6> QED
            BY <6>2, <6>3, <6>4, <6>5
        <5> QED
          BY <4>1, <5>1, <5>2
      <4> QED
        BY <4>2
    <3>6. QueueExact(q)'
      BY <3>4, <3>5 DEF QueueExact, WaitsNext
    <3> QED
      BY <2>1, <3>6
  <2>2. CASE p # q
    BY <1>2, <2>2, SameQueue DEF PoolInv, WaitsAt, WaitsNext
  <2> QED
    BY <2>1, <2>2
<1> QED
  BY <1>3, <1>6, <1>7 DEF PoolInv

\* A job ends: its slot is freed, or goes to the head of the queue.
LEMMA ReleaseKeepsPool ==
    ASSUME PInv, NEW j \in Jobs, Release(j)
    PROVE  PooledOnly' /\ PoolInv' /\ running' \in [Procs -> Nat]
<1>0. PICK q \in Procs : q = at[j]
  BY DEF PInv, TypeOK
<1>1. pc[j] = "end" /\ q \in Procs /\ at' = at /\ Pooled(j)
  BY <1>0 DEF Release, PInv, TypeOK, PooledOnly
<1>2. j \in Slots(q)
  BY <1>0, <1>1, SlotMembers DEF HandleSteps
<1>3. running[q] = Cardinality(Slots(q)) /\ running[q] \in Nat \ {0}
  <2>1. running[q] = Cardinality(Slots(q)) /\ running[q] \in Nat
    BY <1>1 DEF PInv, PoolInv, SlotsCounted, TypeOK
  <2>2. Cardinality(Slots(q)) # 0
    BY <1>1, <1>2, SlotsFinite, FS_EmptySet
  <2> QED
    BY <2>1, <2>2
<1>4. CASE queue[q] = <<>>
  <2>1. /\ pc' = [pc EXCEPT ![j] = "done"]
        /\ running' = [running EXCEPT ![q] = @ - 1]
        /\ queue' = queue
    BY <1>0, <1>4 DEF Release, Goto
  <2>2. q = at[j]
    BY <1>0
  <2> USE PoolPartHolds DEF PoolPart
  <2>3. PooledOnly'
    BY <1>1, <2>1 DEF PooledOnly, Pooled, Resuming
  <2>4. Slots(q)' = Slots(q) \ {j}
    BY <1>1, <2>1, <2>2, SlotMembers DEF HandleSteps
  <2>5. ASSUME NEW p \in Procs, p # q PROVE Slots(p)' = Slots(p)
    BY <1>1, <2>1, <2>2, <2>5, SameSlots DEF Holds, HoldsNext, HandleSteps
  <2>6. running' \in [Procs -> Nat]
    BY <1>1, <1>3, <2>1
  <2>7. ASSUME NEW p \in Procs PROVE SlotsCounted(p)' /\ WithinLimits(p)'
    <3>1. CASE p = q
      <4>1. Cardinality(Slots(q)') = Cardinality(Slots(q)) - 1
        BY <1>1, <1>2, <2>4, SlotsFinite, FS_RemoveElement
      <4> QED
        BY <1>1, <1>3, <1>4, <2>1, <3>1, <4>1 DEF PoolInv, SlotsCounted, WithinLimits
    <3>2. CASE p # q
      BY <2>1, <2>5, <3>2 DEF PoolInv, SlotsCounted, WithinLimits
    <3> QED
      BY <3>1, <3>2
  <2>8. ASSUME NEW p \in Procs PROVE QueueExact(p)'
    BY <1>1, <2>1, SameQueue DEF PoolInv, WaitsAt, WaitsNext
  <2> QED
    BY <2>3, <2>6, <2>7, <2>8 DEF PoolInv
<1>5. CASE queue[q] # <<>>
  <2> DEFINE h == Head(queue[q])
  <2>1. /\ pc' = [pc EXCEPT ![j] = "done", ![h] = "check"]
        /\ queue' = [queue EXCEPT ![q] = Tail(@)]
        /\ running' = running
    BY <1>0, <1>5 DEF Release
  <2>2. q = at[j]
    BY <1>0
  <2>3. /\ h \in Jobs /\ h = queue[q][1] /\ Len(queue[q]) \in Nat \ {0}
        /\ Len(Tail(queue[q])) = Len(queue[q]) - 1
        /\ \A i \in 1 .. Len(Tail(queue[q])) : Tail(queue[q])[i] = queue[q][i + 1]
    BY <1>1, <1>5 DEF PInv, TypeOK
  <2>4. pc[h] = "queued" /\ at[h] = q
    <3>1. 1 \in 1 .. Len(queue[q]) /\ QueueExact(q)
      BY <1>1, <2>3 DEF PInv, PoolInv
    <3> QED
      BY <2>3, <3>1 DEF QueueExact
  <2>5. Pooled(h)
    BY <2>3, <2>4 DEF PInv, PooledOnly
  <2> HIDE DEF h
  <2> USE PoolPartHolds DEF PoolPart
  <2>6. PooledOnly'
    BY <1>1, <2>1, <2>3 DEF PooledOnly, Pooled, Resuming
  <2>7. Slots(q)' = (Slots(q) \ {j}) \cup {h} /\ h \notin Slots(q)
    <3>1. j # h
      BY <1>1, <2>4
    <3>2. h \notin Slots(q)
      BY <2>4, SlotMembers DEF HandleSteps
    <3>3. ASSUME NEW x \in Jobs
          PROVE x \in Slots(q)' <=> (x \in Slots(q) /\ x # j) \/ x = h
      <4>1. CASE x = j
        <5>1. pc'[j] = "done"
          BY <1>1, <2>1, <3>1
        <5> QED
          BY <3>1, <4>1, <5>1, SlotMembers DEF HandleSteps
      <4>3. CASE x = h
        <5>1. pc'[h] = "check" /\ at'[h] = q
          BY <1>1, <2>1, <2>3, <2>4
        <5> QED
          BY <2>3, <2>5, <4>3, <5>1, SlotMembers DEF HandleSteps
      <4>2. CASE x # j /\ x # h
        BY <1>1, <2>1, <2>2, <2>3, <4>2, SlotMembers
      <4> QED
        BY <4>1, <4>2, <4>3
    <3> QED
      BY <2>3, <3>2, <3>3, SlotMembers
  <2>8. ASSUME NEW p \in Procs, p # q PROVE Slots(p)' = Slots(p)
    BY <1>1, <2>1, <2>2, <2>3, <2>4, <2>8, SameSlots DEF Holds, HoldsNext, HandleSteps
  <2>9. Cardinality(Slots(q)') = Cardinality(Slots(q))
    <3>1. /\ IsFiniteSet(Slots(q) \ {j})
          /\ Cardinality(Slots(q) \ {j}) = Cardinality(Slots(q)) - 1
      BY <1>1, <1>2, SlotsFinite, FS_RemoveElement
    <3>2. Cardinality((Slots(q) \ {j}) \cup {h}) = Cardinality(Slots(q) \ {j}) + 1
      BY <2>7, <3>1, FS_AddElement
    <3> QED
      BY <1>1, <2>7, <3>1, <3>2, SlotsFinite
  <2>10. ASSUME NEW p \in Procs PROVE SlotsCounted(p)' /\ WithinLimits(p)'
    <3>1. CASE p = q
      <4>1. running[q] = MaxConcurrent
        BY <1>1, <1>5 DEF PoolInv, WithinLimits
      <4> QED
        BY <1>1, <1>3, <2>1, <2>3, <2>9, <3>1, <4>1 DEF PoolInv, SlotsCounted, WithinLimits
    <3>2. CASE p # q
      BY <2>1, <2>8, <3>2 DEF PoolInv, SlotsCounted, WithinLimits
    <3> QED
      BY <3>1, <3>2
  <2>11. ASSUME NEW p \in Procs PROVE QueueExact(p)'
    <3>1. CASE p = q
      <4>1. QueueExact(q) /\ queue'[q] = Tail(queue[q])
        BY <1>1, <2>1 DEF PoolInv
      <4>n. PICK n \in Nat : n = Len(queue[q]) /\ Len(queue'[q]) = n - 1 /\ n # 0
        BY <2>3, <4>1
      <4>2. \A i \in 1 .. Len(queue'[q]) : /\ i + 1 \in 1 .. Len(queue[q]) /\ i + 1 # 1
                                           /\ queue'[q][i] = queue[q][i + 1]
        <5>1. \A i \in 1 .. n - 1 : i + 1 \in 1 .. n /\ i + 1 # 1
          BY <4>n
        <5>2. \A i \in 1 .. Len(queue'[q]) : queue'[q][i] = queue[q][i + 1]
          BY <2>3, <4>1
        <5> QED
          BY <4>n, <5>1, <5>2
      <4>3. \A i \in 1 .. Len(queue[q]) : i # 1 => /\ i - 1 \in 1 .. Len(queue'[q])
                                                   /\ queue'[q][i - 1] = queue[q][i]
        <5>1. \A i \in 1 .. n : i # 1 => i - 1 \in 1 .. n - 1 /\ (i - 1) + 1 = i
          BY <4>n
        <5> QED
          BY <4>n, <4>2, <5>1
      <4>4. \A i, k \in 1 .. Len(queue[q]) : queue[q][i] = queue[q][k] => i = k
        BY <4>1 DEF QueueExact
      <4>5. \A i, k \in 1 .. Len(queue'[q]) : queue'[q][i] = queue'[q][k] => i = k
        <5>1. ASSUME NEW i \in 1 .. Len(queue'[q]), NEW k \in 1 .. Len(queue'[q]),
                     queue'[q][i] = queue'[q][k]
              PROVE  i = k
          <6>1. /\ i + 1 \in 1 .. Len(queue[q]) /\ k + 1 \in 1 .. Len(queue[q])
                /\ queue[q][i + 1] = queue[q][k + 1]
            BY <4>2, <5>1
          <6>2. i + 1 = k + 1
            BY <4>4, <6>1
          <6> QED
            BY <6>2
        <5> QED
          BY <5>1
      <4>6. ASSUME NEW x \in Jobs
            PROVE (pc'[x] = "queued" /\ at'[x] = q)
                    <=> \E i \in 1 .. Len(queue'[q]) : queue'[q][i] = x
        <5>1. (\E i \in 1 .. Len(queue[q]) : queue[q][i] = x) <=> (pc[x] = "queued" /\ at[x] = q)
          BY <4>1 DEF QueueExact
        <5>2. CASE x = h
          <6>1. ASSUME NEW i \in 1 .. Len(queue'[q]), queue'[q][i] = h PROVE FALSE
            <7>1. /\ i + 1 \in 1 .. Len(queue[q]) /\ i + 1 # 1
                  /\ queue[q][i + 1] = queue[q][1]
              BY <2>3, <4>2, <6>1
            <7>2. 1 \in 1 .. Len(queue[q])
              BY <2>3
            <7> QED
              BY <4>4, <7>1, <7>2
          <6> QED
            BY <2>1, <2>3, <5>2, <6>1
        <5>3. CASE x # h
          <6>1. (\E i \in 1 .. Len(queue[q]) : queue[q][i] = x)
                  <=> \E i \in 1 .. Len(queue'[q]) : queue'[q][i] = x
            <7>1. ASSUME NEW i \in 1 .. Len(queue[q]), queue[q][i] = x
                  PROVE \E k \in 1 .. Len(queue'[q]) : queue'[q][k] = x
              <8>1. i # 1 /\ i - 1 \in 1 .. Len(queue'[q]) /\ queue'[q][i - 1] = x
                BY <2>3, <4>3, <5>3, <7>1
              <8> QED
                BY <8>1
            <7>2. ASSUME NEW i \in 1 .. Len(queue'[q]), queue'[q][i] = x
                  PROVE \E k \in 1 .. Len(queue[q]) : queue[q][k] = x
              <8>1. i + 1 \in 1 .. Len(queue[q]) /\ queue[q][i + 1] = x
                BY <4>2, <7>2
              <8> QED
                BY <8>1
            <7> QED
              BY <7>1, <7>2
          <6>2. (pc'[x] = "queued" /\ at'[x] = q) <=> (pc[x] = "queued" /\ at[x] = q)
            BY <1>1, <2>1, <2>3, <5>3
          <6> QED
            BY <5>1, <6>1, <6>2
        <5> QED
          BY <5>2, <5>3
      <4> QED
        BY <3>1, <4>5, <4>6 DEF QueueExact
    <3>2. CASE p # q
      <4>1. queue'[p] = queue[p] /\ QueueExact(p)
        BY <2>1, <3>2 DEF PoolInv
      <4>2. ASSUME NEW x \in Jobs PROVE WaitsNext(x, p) <=> WaitsAt(x, p)
        <5>1. CASE x = h
          BY <1>1, <2>1, <2>3, <2>4, <3>2, <5>1 DEF WaitsNext, WaitsAt
        <5>2. CASE x # h
          BY <1>1, <2>1, <2>3, <5>2 DEF WaitsNext, WaitsAt
        <5> QED
          BY <5>1, <5>2
      <4> QED
        BY <4>1, <4>2, SameQueue
    <3> QED
      BY <3>1, <3>2
  <2> QED
    BY <2>1, <2>6, <2>10, <2>11 DEF PoolInv
<1> QED
  BY <1>4, <1>5

\* A process dies: its slots and its queue are empty afterwards.
LEMMA CrashKeepsPool ==
    ASSUME PInv, NEW p \in Procs, Crash(p)
    PROVE  PooledOnly' /\ PoolInv'
<1>1. /\ pc \in [Jobs -> Steps] /\ at \in [Jobs -> Procs]
      /\ queue \in [Procs -> Seq(Jobs)] /\ running \in [Procs -> Nat]
  BY DEF PInv, TypeOK
<1>2. /\ pc' = [j \in Jobs |-> IF at[j] = p /\ Active(j) THEN "lost" ELSE pc[j]]
      /\ queue' = [queue EXCEPT ![p] = <<>>]
      /\ running' = [running EXCEPT ![p] = 0]
      /\ at' = at
  BY DEF Crash
<1>3. PooledOnly'
  BY <1>2 DEF PInv, PooledOnly, Pooled, Resuming
<1>4. ASSUME NEW x \in Jobs, at[x] = p PROVE pc'[x] \in {"absent", "done", "lost"}
  BY <1>2, <1>4 DEF Active
<1>5. ASSUME NEW q \in Procs PROVE SlotsCounted(q)' /\ WithinLimits(q)' /\ QueueExact(q)'
  <2>1. CASE q = p
    <3>1. \A x : x \notin Slots(p)'
      BY <1>2, <1>4, SlotMembers DEF HandleSteps
    <3>2. Slots(p)' = {}
      BY <3>1
    <3>3. queue'[p] = <<>> /\ running'[p] = 0 /\ Len(<<>>) = 0
      BY <1>1, <1>2
    <3>4. SlotsCounted(p)' /\ WithinLimits(p)'
      BY <3>2, <3>3, FS_EmptySet DEF SlotsCounted, WithinLimits
    <3>5. QueueExact(p)'
      BY <1>2, <1>4, <3>3 DEF QueueExact
    <3> QED
      BY <2>1, <3>4, <3>5
  <2>2. CASE q # p
    <3>1. \A x \in Jobs : at[x] = q => pc'[x] = pc[x]
      BY <1>1, <1>2, <2>2
    <3>2. Slots(q)' = Slots(q)
      BY <1>2, <3>1, SameSlots DEF Holds, HoldsNext
    <3>3. queue'[q] = queue[q] /\ running'[q] = running[q]
      BY <1>1, <1>2, <2>2
    <3>4. SlotsCounted(q) /\ WithinLimits(q) /\ QueueExact(q)
      BY DEF PInv, PoolInv
    <3>5. QueueExact(q)'
      BY <1>2, <3>1, <3>3, <3>4, SameQueue DEF WaitsAt, WaitsNext
    <3> QED
      BY <3>2, <3>3, <3>4, <3>5 DEF SlotsCounted, WithinLimits
  <2> QED
    BY <2>1, <2>2
<1> QED
  BY <1>3, <1>5 DEF PoolInv

LEMMA PoolInit == Init => PInv
<1> SUFFICES ASSUME Init PROVE PInv
  OBVIOUS
<1>1. TypeOK
  BY DEF Init, Started, TypeOK, Steps
<1>2. PooledOnly
  BY DEF Init, Started, PooledOnly
<1>3. ASSUME NEW p \in Procs PROVE SlotsCounted(p) /\ WithinLimits(p) /\ QueueExact(p)
  <2>1. Slots(p) = {}
    BY DEF Slots, Init, Started, HandleSteps
  <2>2. queue[p] = <<>> /\ running[p] = 0 /\ Len(<<>>) = 0
    BY DEF Init, Started
  <2>3. QueueExact(p)
    BY <2>2 DEF QueueExact, Init, Started
  <2> QED
    BY <2>1, <2>2, <2>3, FS_EmptySet DEF SlotsCounted, WithinLimits
<1> QED
  BY <1>1, <1>2, <1>3 DEF PInv, PoolInv

\* Every other step of a job moves it without touching the pool's accounts.
LEMMA PlainSteps ==
    ASSUME PInv, NEW j \in Jobs,
           \/ Handle(j) \/ EnqueueOverflows(j) \/ Check(j) \/ Gate(j) \/ HandlerCommits(j)
           \/ HandlerSucceeds(j) \/ HandlerFails(j) \/ HandlerRefuses(j) \/ HandlerAsks(j)
           \/ Ask(j) \/ Mark(j) \/ Log(j) \/ OverflowCheck(j) \/ Fallback(j) \/ CallFails(j)
    PROVE  \/ \E s \in Steps : Moves(j, s)
           \/ UNCHANGED <<pc, at, queue, running>>
<1> USE DEF Goto, Returns, LeavesRetry, AttemptBreaks, pool, HandleSteps, OverflowSteps, Steps
<1>0. CASE HandlerCommits(j)
  BY <1>0 DEF HandlerCommits
<1>1. CASE Handle(j)
  <2>1. Moves(j, "check")
    BY <1>1 DEF Handle, Arrives, Moves
  <2> QED
    BY <2>1
<1>2. CASE EnqueueOverflows(j)
  <2>1. Moves(j, "done") \/ Moves(j, "ovCheck")
    BY <1>2 DEF EnqueueOverflows, Arrives, Moves
  <2> QED
    BY <2>1
<1>3. CASE Check(j)
  <2>1. Moves(j, "end") \/ Moves(j, "done") \/ Moves(j, "run") \/ Moves(j, "gate")
    BY <1>3 DEF Check, Moves
  <2> QED
    BY <2>1
<1>4. CASE Gate(j)
  <2>1. Moves(j, "run") \/ Moves(j, "skipMark") \/ Moves(j, "offTask")
    BY <1>4 DEF Gate, Moves
  <2> QED
    BY <2>1
<1>5. CASE HandlerSucceeds(j)
  <2>1. Moves(j, "mark")
    BY <1>5 DEF HandlerSucceeds, Moves
  <2> QED
    BY <2>1
<1>6. CASE HandlerFails(j)
  <2>1. Moves(j, "errTask") \/ UNCHANGED <<pc, at, queue, running>>
    BY <1>6 DEF HandlerFails, Moves
  <2> QED
    BY <2>1
<1>7. CASE HandlerRefuses(j)
  <2>1. Moves(j, "errTask")
    BY <1>7 DEF HandlerRefuses, Moves
  <2> QED
    BY <2>1
<1>8. CASE HandlerAsks(j)
  <2>1. Moves(j, "errTask") \/ Moves(j, "ask")
    BY <1>8 DEF HandlerAsks, Moves
  <2> QED
    BY <2>1
<1>9. CASE Ask(j)
  <2>1. Moves(j, "askLog")
    BY <1>9 DEF Ask, Moves
  <2> QED
    BY <2>1
<1>10. CASE Mark(j)
  <2>1. Moves(j, "log") \/ Moves(j, "end") \/ Moves(j, "done")
    BY <1>10 DEF Mark, Moves
  <2> QED
    BY <2>1
<1>11. CASE Log(j)
  <2>1. Moves(j, "end") \/ Moves(j, "done")
    BY <1>11 DEF Log, Moves
  <2> QED
    BY <2>1
<1>12. CASE OverflowCheck(j)
  <2>1. Moves(j, "done") \/ Moves(j, "ovTask")
    BY <1>12 DEF OverflowCheck, Moves
  <2> QED
    BY <2>1
<1>13. CASE Fallback(j)
  <2>1. Moves(j, "offMark") \/ Moves(j, "errMark") \/ Moves(j, "ovMark")
    <3>1. \/ pc[j] = "offTask" /\ AfterTask[pc[j]] = "offMark"
          \/ pc[j] = "errTask" /\ AfterTask[pc[j]] = "errMark"
          \/ pc[j] = "ovTask" /\ AfterTask[pc[j]] = "ovMark"
      BY <1>13 DEF Fallback, AfterTask
    <3> QED
      BY <1>13, <3>1 DEF Fallback, Moves
  <2> QED
    BY <2>1
<1>14. CASE CallFails(j)
  <2>1. CallAt(pc[j]) # "none"
    BY <1>14 DEF CallFails, Calls
  <2>2. pc[j] \in {"check", "gate", "mark", "log", "ask", "askLog", "offTask", "offMark",
                   "skipMark", "errTask", "errMark", "ovCheck", "ovTask", "ovMark"}
    BY <2>1 DEF CallAt
  <2>3. Moves(j, "errMark") \/ Moves(j, "end") \/ Moves(j, "done") \/ Moves(j, "errTask")
    BY <1>14, <2>2 DEF CallFails, Moves
  <2> QED
    BY <2>3
<1> QED
  BY <1>0, <1>1, <1>2, <1>3, <1>4, <1>5, <1>6, <1>7, <1>8, <1>9, <1>10, <1>11, <1>12, <1>13,
     <1>14

\* A commit of the handler, field by field.
LEMMA CommitShape ==
    ASSUME TypeOK, NEW j \in Jobs, HandlerCommits(j)
    PROVE  /\ pc[j] = "run" /\ pc' = pc
           /\ part[j] \in 0 .. Parts /\ part[j] + 1 \in 1 .. Parts
           /\ part' \in [Jobs -> 0 .. Parts] /\ part'[j] = part[j] + 1
           /\ \A x \in Jobs : x # j => part'[x] = part[x]
           /\ effects' \in [Events -> [1 .. Parts -> Nat]]
           /\ \A e \in Events, i \in 1 .. Parts :
                 effects'[e][i] = IF e = j[1] /\ i = part[j] + 1
                                  THEN effects[e][i] + 1 ELSE effects[e][i]
<1>1. part[j] \in 0 .. Parts /\ part[j] < Parts /\ Parts \in Nat
  BY DEF HandlerCommits, TypeOK
<1>2. part[j] + 1 \in 1 .. Parts /\ part[j] + 1 \in 0 .. Parts
  BY <1>1
<1>3. part' = [part EXCEPT ![j] = part[j] + 1] /\ pc' = pc /\ pc[j] = "run"
  BY DEF HandlerCommits
<1>4. PICK e \in Events : e = j[1]
  BY DEF Jobs
<1>5. PICK k \in 1 .. Parts : k = part[j] + 1
  BY <1>2
<1>6. effects' = [effects EXCEPT ![e][k] = effects[e][k] + 1]
  BY <1>4, <1>5 DEF HandlerCommits
<1>7. effects \in [Events -> [1 .. Parts -> Nat]] /\ part \in [Jobs -> 0 .. Parts]
  BY DEF TypeOK
<1>8. effects[e][k] + 1 \in Nat
  BY <1>7
<1>9. effects' \in [Events -> [1 .. Parts -> Nat]]
  BY <1>6, <1>7, <1>8
<1>10. \A f \in Events, i \in 1 .. Parts :
          effects'[f][i] = IF f = e /\ i = k THEN effects[f][i] + 1 ELSE effects[f][i]
  BY <1>6, <1>7
<1>11. part' \in [Jobs -> 0 .. Parts] /\ part'[j] = part[j] + 1
       /\ \A x \in Jobs : x # j => part'[x] = part[x]
  BY <1>2, <1>3, <1>7
<1> QED
  BY <1>1, <1>2, <1>3, <1>4, <1>5, <1>9, <1>10, <1>11

LEMMA WorkerTypes == PInv /\ [Next]_vars => TypeOK'
<1> SUFFICES ASSUME PInv, [Next]_vars PROVE TypeOK'
  OBVIOUS
<1>0. TypeOK
  BY DEF PInv
<1> USE <1>0 DEF TypeOK, Goto, Returns, jobs, pool, incidents, Steps, HandleSteps,
                 OverflowSteps
<1>1. \A j \in Jobs : j[1] \in Events
  BY DEF Jobs
<1>6. ASSUME NEW j \in Jobs, Arrives(j)
      PROVE  /\ crossed' \in [Events -> Nat]
             /\ UNCHANGED <<at, try, part, processed, effects, tasks, enabled>>
             /\ UNCHANGED <<faults, crashes, torn, taskless>>
  <2>1. crossed' = crossed \/ crossed' = [crossed EXCEPT ![j[1]] = @ + 1]
    BY <1>6 DEF Arrives
  <2>2. crossed' \in [Events -> Nat]
    <3>1. CASE crossed' = crossed
      BY <3>1
    <3>2. CASE crossed' = [crossed EXCEPT ![j[1]] = @ + 1]
      <4>1. PICK e \in Events : e = j[1]
        BY <1>1
      <4>2. crossed[e] + 1 \in Nat /\ crossed' = [crossed EXCEPT ![e] = crossed[e] + 1]
        BY <3>2, <4>1
      <4> QED
        BY <4>2
    <3> QED
      BY <2>1, <3>1, <3>2
  <2> QED
    BY <1>6, <2>2 DEF Arrives
<1>2. ASSUME NEW j \in Jobs, Deliver(j) PROVE TypeOK'
  <2>1. CASE Handle(j)
    BY <1>6, <2>1 DEF Handle
  <2>2. CASE EnqueueStarts(j)
    BY <1>6, <2>2 DEF EnqueueStarts
  <2>3. CASE EnqueueWaits(j)
    <3>1. Append(queue[at[j]], j) \in Seq(Jobs)
      OBVIOUS
    <3> QED
      BY <1>6, <2>3, <3>1 DEF EnqueueWaits
  <2>4. CASE EnqueueOverflows(j)
    BY <1>1, <1>6, <2>4 DEF EnqueueOverflows
  <2> QED
    BY <1>2, <2>1, <2>2, <2>3, <2>4 DEF Deliver
<1>3. ASSUME NEW j \in Jobs, Work(j) \/ Ask(j) \/ CallFails(j) PROVE TypeOK'
  <2>1. CASE Check(j)
    BY <1>1, <2>1 DEF Check
  <2>2. CASE Gate(j)
    BY <1>1, <2>2 DEF Gate
  <2>3. CASE HandlerSucceeds(j)
    BY <1>1, <2>3 DEF HandlerSucceeds, LeavesRetry
  <2>14. CASE HandlerCommits(j)
    <3>1. UNCHANGED <<at, try, queue, running, processed, tasks, skipped, enabled>>
      BY <2>14 DEF HandlerCommits
    <3>2. UNCHANGED <<faults, crashes, torn, crossed, taskless>>
      BY <2>14 DEF HandlerCommits
    <3> QED
      BY <1>0, <2>14, <3>1, <3>2, CommitShape
  <2>15. ASSUME AttemptBreaks(j), pc' \in [Jobs -> Steps],
                try' \in [Jobs -> 1 .. Attempts], part' \in [Jobs -> 0 .. Parts]
         PROVE  TypeOK'
    <3>1. torn' \in [Events -> Nat]
      BY <1>1, <2>15 DEF AttemptBreaks
    <3>2. UNCHANGED <<at, queue, running, processed, effects, tasks, skipped, enabled>>
      BY <2>15 DEF AttemptBreaks
    <3>3. UNCHANGED <<faults, crashes, crossed, taskless>>
      BY <2>15 DEF AttemptBreaks
    <3> QED
      BY <2>15, <3>1, <3>2, <3>3
  <2>16. ASSUME NEW t \in Steps, LeavesRetry(j, t), AttemptBreaks(j)
         PROVE  TypeOK'
    <3>1. /\ pc' \in [Jobs -> Steps]
          /\ try' \in [Jobs -> 1 .. Attempts]
          /\ part' \in [Jobs -> 0 .. Parts]
      BY <2>16 DEF LeavesRetry
    <3> QED
      BY <2>15, <2>16, <3>1
  <2>4. CASE HandlerFails(j)
    <3>1. CASE try[j] < Attempts
      <4>1. try[j] + 1 \in 1 .. Attempts
        BY <3>1
      <4>2. ~(try[j] = Attempts)
        BY <3>1
      <4>3. /\ try' = [try EXCEPT ![j] = try[j] + 1] /\ part' = [part EXCEPT ![j] = 0]
            /\ pc' = pc /\ AttemptBreaks(j)
        BY <2>4, <4>2 DEF HandlerFails
      <4>4. try' \in [Jobs -> 1 .. Attempts] /\ part' \in [Jobs -> 0 .. Parts]
        BY <4>1, <4>3
      <4> QED
        BY <2>15, <4>3, <4>4
    <3>2. CASE try[j] = Attempts
      <4>1. ~(try[j] < Attempts)
        BY <3>2
      <4>2. LeavesRetry(j, "errTask") /\ AttemptBreaks(j)
        BY <2>4, <4>1 DEF HandlerFails
      <4> QED
        BY <2>16, <4>2
    <3> QED
      BY <2>4, <3>1, <3>2 DEF HandlerFails
  <2>5. CASE HandlerRefuses(j)
    BY <2>5, <2>16 DEF HandlerRefuses
  <2>6. CASE HandlerAsks(j)
    BY <2>6, <2>16 DEF HandlerAsks
  <2>7. CASE Mark(j)
    BY <1>1, <2>7 DEF Mark
  <2>8. CASE Log(j)
    BY <1>1, <2>8 DEF Log
  <2>9. CASE OverflowCheck(j)
    BY <1>1, <2>9 DEF OverflowCheck
  <2>10. CASE Fallback(j)
    <3>1. AfterTask[pc[j]] \in Steps
      BY <2>10 DEF Fallback, AfterTask
    <3>2. pc' \in [Jobs -> Steps] /\ tasks' \in [Events -> Nat]
      BY <1>1, <2>10, <3>1 DEF Fallback
    <3>3. /\ UNCHANGED <<at, try, part, queue, running, processed, effects, skipped, enabled>>
          /\ UNCHANGED <<faults, crashes, torn, crossed, taskless>>
      BY <2>10 DEF Fallback
    <3> QED
      BY <3>2, <3>3
  <2>11. CASE Release(j)
    <3>1. running' \in [Procs -> Nat]
      BY <2>11, ReleaseKeepsPool
    <3>2. queue' \in [Procs -> Seq(Jobs)]
      <4>1. CASE queue[at[j]] = <<>>
        BY <2>11, <4>1 DEF Release
      <4>2. CASE queue[at[j]] # <<>>
        <5>1. Tail(queue[at[j]]) \in Seq(Jobs)
          BY <4>2
        <5>2. queue' = [queue EXCEPT ![at[j]] = Tail(@)]
          BY <2>11, <4>2 DEF Release
        <5> QED
          BY <5>1, <5>2
      <4> QED
        BY <4>1, <4>2
    <3>3. pc' \in [Jobs -> Steps]
      BY <2>11 DEF Release
    <3> QED
      BY <2>11, <3>1, <3>2, <3>3 DEF Release
  <2>12. CASE Ask(j)
    BY <1>1, <2>12 DEF Ask
  <2>13. CASE CallFails(j)
    <3>1. \E s \in Steps : pc' = [pc EXCEPT ![j] = s]
      <4>1. pc' = [pc EXCEPT ![j] = "errMark"] \/ pc' = [pc EXCEPT ![j] = "end"]
              \/ pc' = [pc EXCEPT ![j] = "done"] \/ pc' = [pc EXCEPT ![j] = "errTask"]
        BY <2>13 DEF CallFails
      <4> QED
        BY <4>1
    <3>2. pc' \in [Jobs -> Steps]
      BY <3>1
    <3>3. taskless' \subseteq Events /\ faults' \in Nat
      BY <1>1, <2>13 DEF CallFails
    <3>4. /\ UNCHANGED <<at, try, part, queue, running, processed, effects, tasks, skipped>>
          /\ UNCHANGED <<enabled, crashes, torn, crossed>>
      BY <2>13 DEF CallFails
    <3> QED
      BY <3>2, <3>3, <3>4
  <2> QED
    BY <1>3, <2>1, <2>2, <2>3, <2>4, <2>5, <2>6, <2>7, <2>8, <2>9, <2>10, <2>11, <2>12, <2>13,
       <2>14 DEF Work
<1>4. ASSUME NEW p \in Procs, Crash(p) PROVE TypeOK'
  BY <1>4 DEF Crash
<1>5. CASE Toggle \/ UNCHANGED vars
  BY <1>5 DEF Toggle, vars
<1> QED
  BY <1>2, <1>3, <1>4, <1>5 DEF Next

\* A step that leaves the jobs' places and the pool alone.
LEMMA PoolUntouched ==
    ASSUME PInv, UNCHANGED <<pc, at, queue, running>>
    PROVE  PooledOnly' /\ PoolInv'
<1>1. PooledOnly'
  BY DEF PInv, PooledOnly, Pooled, Resuming
<1>2. ASSUME NEW p \in Procs PROVE SlotsCounted(p)' /\ WithinLimits(p)' /\ QueueExact(p)'
  <2>1. Slots(p)' = Slots(p)
    BY SameSlots DEF Holds, HoldsNext
  <2>2. SlotsCounted(p) /\ WithinLimits(p) /\ QueueExact(p)
    BY DEF PInv, PoolInv
  <2>3. QueueExact(p)'
    BY <2>2, SameQueue DEF WaitsAt, WaitsNext
  <2> QED
    BY <2>1, <2>2, <2>3 DEF SlotsCounted, WithinLimits
<1> QED
  BY <1>1, <1>2 DEF PoolInv

LEMMA PoolStep == PInv /\ [Next]_vars => PInv'
<1> SUFFICES ASSUME PInv, [Next]_vars PROVE PooledOnly' /\ PoolInv'
  BY WorkerTypes DEF PInv
<1>1. CASE UNCHANGED <<pc, at, queue, running>>
  BY <1>1, PoolUntouched
<1>2. ASSUME NEW j \in Jobs, Deliver(j) \/ Work(j) \/ Ask(j) \/ CallFails(j)
      PROVE PooledOnly' /\ PoolInv'
  <2>1. CASE EnqueueStarts(j)
    BY <2>1, StartKeepsPool
  <2>2. CASE EnqueueWaits(j)
    BY <2>2, WaitKeepsPool
  <2>3. CASE Release(j)
    BY <2>3, ReleaseKeepsPool
  <2>4. CASE ~(EnqueueStarts(j) \/ EnqueueWaits(j) \/ Release(j))
    <3>1. (\E s \in Steps : Moves(j, s)) \/ UNCHANGED <<pc, at, queue, running>>
      BY <1>2, <2>4, PlainSteps DEF Deliver, Work
    <3> QED
      BY <1>1, <3>1, MovesKeepPool
  <2> QED
    BY <2>1, <2>2, <2>3, <2>4
<1>3. ASSUME NEW p \in Procs, Crash(p) PROVE PooledOnly' /\ PoolInv'
  BY <1>3, CrashKeepsPool
<1>4. Toggle \/ UNCHANGED vars => UNCHANGED <<pc, at, queue, running>>
  BY DEF Toggle, vars, jobs, pool
<1> QED
  BY <1>1, <1>2, <1>3, <1>4 DEF Next

\* The variables of the worker keep their types; that the counter of running
\* jobs never goes below zero rests on what it counts.
THEOREM WorkerTypeCorrect == Spec => []TypeOK
<1>1. PInv => TypeOK
  BY DEF PInv
<1> QED
  BY <1>1, PoolInit, PoolStep, PTL DEF Spec

\* base-worker.js #enqueue and #start: a process never runs more than
\* maxConcurrent jobs nor holds more than maxQueued, its counter is exact, and
\* no job waits while a slot is free, whatever fails, dies or overlaps.
THEOREM PoolIsExact == Spec => []PoolInv
<1>1. PInv => PoolInv
  BY DEF PInv
<1> QED
  BY <1>1, PoolInit, PoolStep, PTL DEF Spec

-----------------------------------------------------------------------------
(* The processed records.  A job that is about to mark its event has an     *)
(* outcome behind it: all parts of the work, or a manual task, unless       *)
(* writing that task failed, and such an event is remembered.  A job at     *)
(* work has committed every part up to the one its attempt has reached.     *)

MarksWork  == {"mark", "log"}
MarksTask  == {"offMark", "errMark", "ovMark"}

HasOutcome(j) ==
    /\ \A i \in 1 .. part[j] : effects[j[1]][i] > 0
    /\ pc[j] \in MarksWork => WorkDone(j[1])
    /\ pc[j] \in MarksTask => tasks[j[1]] > 0 \/ j[1] \in taskless

RInv == ProcessedIsHandled /\ \A j \in Jobs : HasOutcome(j)

LEMMA RecordsInit == Init => RInv
BY DEF Init, Started, RInv, ProcessedIsHandled, HasOutcome, MarksWork, MarksTask, Jobs

\* Outcomes are never taken back: a step that brings no job to a mark, marks
\* nothing and commits nothing unseen keeps the invariant.
Grown ==
    /\ \A e \in Events : /\ \A i \in 1 .. Parts : effects'[e][i] >= effects[e][i]
                         /\ tasks'[e] >= tasks[e]
    /\ skipped \subseteq skipped' /\ taskless \subseteq taskless'

LEMMA GrownKeeps ==
    ASSUME TypeOK, TypeOK', Grown, NEW e \in Events
    PROVE  /\ WorkDone(e) => WorkDone(e)'
           /\ tasks[e] > 0 => tasks'[e] > 0
           /\ Handled(e) => Handled(e)'
<1>1. ASSUME NEW i \in 1 .. Parts, effects[e][i] > 0 PROVE effects'[e][i] > 0
  <2>1. effects'[e][i] >= effects[e][i] /\ effects'[e][i] \in Nat /\ effects[e][i] \in Nat
    BY DEF Grown, TypeOK
  <2> QED
    BY <1>1, <2>1
<1>2. WorkDone(e) => WorkDone(e)'
  BY <1>1 DEF WorkDone
<1>3. tasks[e] > 0 => tasks'[e] > 0
  <2>1. tasks'[e] >= tasks[e] /\ tasks'[e] \in Nat /\ tasks[e] \in Nat
    BY DEF Grown, TypeOK
  <2> QED
    BY <2>1
<1> QED
  BY <1>2, <1>3 DEF Handled, Grown

LEMMA RecordsFrame ==
    ASSUME RInv, TypeOK, TypeOK', Grown, processed' = processed,
           \A x \in Jobs : \/ /\ (pc'[x] = pc[x] \/ pc'[x] \notin MarksWork \cup MarksTask)
                               /\ (part'[x] = part[x] \/ part'[x] = 0)
                            \/ HasOutcome(x)'
    PROVE  RInv'
<1>0. \A x \in Jobs : x[1] \in Events
  BY DEF Jobs
<1>1. ASSUME NEW x \in Jobs, pc'[x] = pc[x] \/ pc'[x] \notin MarksWork \cup MarksTask,
             part'[x] = part[x] \/ part'[x] = 0
      PROVE HasOutcome(x)'
  <2>1. /\ WorkDone(x[1]) => WorkDone(x[1])'
        /\ tasks[x[1]] > 0 => tasks'[x[1]] > 0
    BY <1>0, GrownKeeps
  <2>2. x[1] \in taskless => x[1] \in taskless'
    BY DEF Grown
  <2>3. ASSUME NEW i \in 1 .. part'[x] PROVE effects'[x[1]][i] > 0
    <3>1. part'[x] = part[x] /\ part[x] \in 0 .. Parts
      BY <1>1 DEF TypeOK
    <3>2. i \in 1 .. Parts /\ effects[x[1]][i] > 0
      BY <3>1 DEF RInv, HasOutcome
    <3>4. x[1] \in Events
      BY <1>0
    <3>5. \A e \in Events : effects'[e][i] \in Nat /\ effects[e][i] \in Nat
      <4>1. /\ effects \in [Events -> [1 .. Parts -> Nat]]
            /\ effects' \in [Events -> [1 .. Parts -> Nat]]
        BY DEF TypeOK
      <4> QED
        BY <3>2, <4>1
    <3>3. /\ effects'[x[1]][i] >= effects[x[1]][i]
          /\ effects'[x[1]][i] \in Nat /\ effects[x[1]][i] \in Nat
      BY <3>2, <3>4, <3>5 DEF Grown
    <3> QED
      BY <3>2, <3>3
  <2>4. /\ pc[x] \in MarksWork => WorkDone(x[1])
        /\ pc[x] \in MarksTask => tasks[x[1]] > 0 \/ x[1] \in taskless
    BY DEF RInv, HasOutcome
  <2>5. /\ pc'[x] \in MarksWork => WorkDone(x[1])'
        /\ pc'[x] \in MarksTask => tasks'[x[1]] > 0 \/ x[1] \in taskless'
    BY <1>1, <2>1, <2>2, <2>4
  <2> QED
    BY <2>3, <2>5 DEF HasOutcome
<1>2. \A x \in Jobs : HasOutcome(x)'
  BY <1>1
<1>3. ProcessedIsHandled'
  <2>1. ASSUME NEW e \in processed PROVE Handled(e)' \/ e \in taskless'
    <3>1. e \in Events /\ (Handled(e) \/ e \in taskless)
      BY DEF RInv, ProcessedIsHandled, TypeOK
    <3> QED
      BY <3>1, GrownKeeps DEF Grown
  <2> QED
    BY <2>1 DEF ProcessedIsHandled
<1> QED
  BY <1>2, <1>3 DEF RInv

LEMMA ReleaseShape ==
    ASSUME PInv, NEW j \in Jobs, Release(j)
    PROVE  /\ pc[j] = "end"
           /\ \/ pc' = [pc EXCEPT ![j] = "done"]
              \/ \E h \in Jobs : /\ pc[h] = "queued"
                                  /\ pc' = [pc EXCEPT ![j] = "done", ![h] = "check"]
<1>1. PICK q \in Procs : q = at[j]
  BY DEF PInv, TypeOK
<1>2. CASE queue[q] = <<>>
  BY <1>1, <1>2 DEF Release, Goto
<1>3. CASE queue[q] # <<>>
  <2>1. Head(queue[q]) \in Jobs /\ Head(queue[q]) = queue[q][1] /\ 1 \in 1 .. Len(queue[q])
    BY <1>3 DEF PInv, TypeOK
  <2>2. pc[Head(queue[q])] = "queued"
    BY <2>1 DEF PInv, PoolInv, QueueExact
  <2> QED
    BY <1>1, <1>3, <2>1, <2>2 DEF Release
<1> QED
  BY <1>2, <1>3 DEF Release

LEMMA RecordsStep ==
    ASSUME PInv, RInv, [Next]_vars
    PROVE  RInv'
<1>0. TypeOK /\ TypeOK' /\ \A j \in Jobs : j[1] \in Events
  BY WorkerTypes DEF PInv, Jobs
<1>00. /\ \A e \in Events : /\ tasks[e] \in Nat
                            /\ \A i \in 1 .. Parts : effects[e][i] \in Nat
       /\ Parts \in Nat
  BY <1>0 DEF TypeOK
<1>1. ASSUME NEW j \in Jobs, HandlerCommits(j) PROVE RInv'
  <2>1. UNCHANGED <<processed, skipped, tasks, taskless>>
    BY <1>1 DEF HandlerCommits, incidents
  <2>2. /\ pc' = pc /\ pc[j] = "run"
        /\ part[j] \in 0 .. Parts /\ part[j] + 1 \in 1 .. Parts /\ part'[j] = part[j] + 1
        /\ \A x \in Jobs : x # j => part'[x] = part[x]
        /\ \A e \in Events, i \in 1 .. Parts :
              effects'[e][i] = IF e = j[1] /\ i = part[j] + 1
                               THEN effects[e][i] + 1 ELSE effects[e][i]
    BY <1>0, <1>1, CommitShape
  <2>3. Grown
    BY <1>00, <2>1, <2>2 DEF Grown
  <2>4. HasOutcome(j)'
    <3>1. ASSUME NEW i \in 1 .. part'[j] PROVE effects'[j[1]][i] > 0
      <4>1. i \in 1 .. (part[j] + 1) /\ i \in 1 .. Parts
        BY <2>2
      <4>2. i = part[j] + 1 \/ effects[j[1]][i] > 0
        BY <2>2, <4>1 DEF RInv, HasOutcome
      <4>3. /\ effects[j[1]][i] \in Nat
            /\ effects'[j[1]][i] = IF i = part[j] + 1 THEN effects[j[1]][i] + 1
                                   ELSE effects[j[1]][i]
        BY <1>0, <1>00, <2>2, <4>1
      <4> QED
        BY <4>2, <4>3
    <3> QED
      BY <2>2, <3>1 DEF HasOutcome, MarksWork, MarksTask
  <2> QED
    BY <1>0, <2>1, <2>2, <2>3, <2>4, RecordsFrame
<1>2. ASSUME NEW j \in Jobs, HandlerSucceeds(j) PROVE RInv'
  <2>1. /\ pc' = [pc EXCEPT ![j] = "mark"] /\ part' = [part EXCEPT ![j] = 0]
        /\ UNCHANGED <<processed, skipped, tasks, taskless, effects>> /\ part[j] = Parts
    BY <1>2 DEF HandlerSucceeds, LeavesRetry, Goto, incidents
  <2>2. Grown
    BY <1>00, <2>1 DEF Grown
  <2>3. WorkDone(j[1])'
    BY <2>1 DEF RInv, HasOutcome, WorkDone
  <2>4. HasOutcome(j)'
    <3>1. pc'[j] = "mark" /\ part'[j] = 0
      BY <1>0, <2>1 DEF TypeOK
    <3> QED
      BY <2>3, <3>1 DEF HasOutcome, MarksWork, MarksTask
  <2>5. \A x \in Jobs : x # j => pc'[x] = pc[x] /\ part'[x] = part[x]
    BY <1>0, <2>1 DEF TypeOK
  <2> QED
    BY <1>0, <2>1, <2>2, <2>4, <2>5, RecordsFrame
<1>3. ASSUME NEW j \in Jobs, Fallback(j) PROVE RInv'
  <2>1. /\ pc' = [pc EXCEPT ![j] = AfterTask[pc[j]]]
        /\ pc[j] \in {"offTask", "errTask", "ovTask"}
        /\ tasks' = [tasks EXCEPT ![j[1]] = @ + 1]
        /\ UNCHANGED <<processed, skipped, effects, taskless, part>>
    BY <1>3 DEF Fallback, Goto, AfterTask, incidents
  <2>2. AfterTask[pc[j]] \in MarksTask
    BY <2>1 DEF AfterTask, MarksTask
  <2>3. \A e \in Events : tasks'[e] = IF e = j[1] THEN tasks[e] + 1 ELSE tasks[e]
    BY <1>0, <2>1 DEF TypeOK
  <2>4. Grown
    BY <1>00, <2>1, <2>3 DEF Grown
  <2>5. HasOutcome(j)'
    <3>2. j[1] \in Events /\ tasks[j[1]] \in Nat /\ tasks'[j[1]] = tasks[j[1]] + 1
      BY <1>0, <1>00, <2>3
    <3>3. pc'[j] = AfterTask[pc[j]]
      BY <1>0, <2>1 DEF TypeOK
    <3>1. pc'[j] \in MarksTask /\ tasks'[j[1]] > 0
      BY <2>2, <3>2, <3>3
    <3> QED
      BY <2>1, <3>1 DEF RInv, HasOutcome, MarksWork, MarksTask
  <2>6. \A x \in Jobs : x # j => pc'[x] = pc[x] /\ part'[x] = part[x]
    BY <1>0, <2>1 DEF TypeOK
  <2> QED
    BY <1>0, <2>1, <2>4, <2>5, <2>6, RecordsFrame
<1>4. ASSUME NEW j \in Jobs, Mark(j) PROVE RInv'
  <2>1. /\ pc[j] \in {"mark", "offMark", "errMark", "ovMark", "skipMark"}
        /\ \E s \in {"log", "end", "done"} :
              /\ pc' = [pc EXCEPT ![j] = s]
              /\ s = "log" => pc[j] = "mark"
        /\ processed' = processed \cup {j[1]}
        /\ skipped' = IF pc[j] = "skipMark" THEN skipped \cup {j[1]} ELSE skipped
        /\ effects' = effects /\ tasks' = tasks /\ taskless' = taskless /\ part' = part
    BY <1>4 DEF Mark, Goto, Returns, incidents
  <2>2. ASSUME NEW x \in Jobs PROVE HasOutcome(x)'
    <3>1. pc'[x] = pc[x] \/ pc'[x] \notin MarksWork \cup MarksTask
            \/ (pc[x] = "mark" /\ pc'[x] = "log")
      BY <1>0, <2>1 DEF MarksWork, MarksTask, TypeOK
    <3>2. WorkDone(x[1])' <=> WorkDone(x[1])
      BY <2>1 DEF WorkDone
    <3> QED
      BY <2>1, <3>1, <3>2 DEF RInv, HasOutcome, MarksWork, MarksTask
  <2>3. Handled(j[1])' \/ j[1] \in taskless'
    <3>1. CASE pc[j] = "skipMark"
      BY <2>1, <3>1 DEF Handled
    <3>2. CASE pc[j] # "skipMark"
      BY <1>0, <2>1, <3>2 DEF RInv, HasOutcome, MarksWork, MarksTask, Handled, WorkDone
    <3> QED
      BY <3>1, <3>2
  <2>4. ASSUME NEW e \in processed PROVE Handled(e)' \/ e \in taskless'
    BY <2>1 DEF RInv, ProcessedIsHandled, Handled, WorkDone
  <2> QED
    BY <2>1, <2>2, <2>3, <2>4 DEF RInv, ProcessedIsHandled
<1>5. ASSUME UNCHANGED <<processed, effects, tasks>>, skipped \subseteq skipped',
             taskless \subseteq taskless',
             \A x \in Jobs : pc'[x] = pc[x] \/ pc'[x] \notin MarksWork \cup MarksTask,
             \A x \in Jobs : part'[x] = part[x] \/ part'[x] = 0
      PROVE RInv'
  <2>1. Grown
    BY <1>00, <1>5 DEF Grown
  <2> QED
    BY <1>0, <1>5, <2>1, RecordsFrame
<1>6. ASSUME NEW j \in Jobs, NEW s, pc' = [pc EXCEPT ![j] = s],
             s \notin MarksWork \cup MarksTask,
             UNCHANGED <<processed, effects, tasks, taskless>>, skipped \subseteq skipped',
             part' = part \/ part' = [part EXCEPT ![j] = 0]
      PROVE RInv'
  BY <1>0, <1>5, <1>6 DEF TypeOK
<1> USE DEF Goto, Returns, MarksWork, MarksTask, incidents
<1>7. ASSUME NEW j \in Jobs, Deliver(j) PROVE RInv'
  BY <1>6, <1>7 DEF Deliver, Handle, EnqueueStarts, EnqueueWaits, EnqueueOverflows, Arrives
<1>8. ASSUME NEW j \in Jobs,
             Check(j) \/ Gate(j) \/ Ask(j) \/ Log(j) \/ OverflowCheck(j)
      PROVE RInv'
  BY <1>6, <1>8 DEF Check, Gate, Ask, Log, OverflowCheck
<1>9. ASSUME NEW j \in Jobs, HandlerFails(j) \/ HandlerRefuses(j) \/ HandlerAsks(j)
      PROVE RInv'
  <2>1. UNCHANGED <<processed, effects, tasks, taskless, skipped>>
    BY <1>9 DEF HandlerFails, HandlerRefuses, HandlerAsks, AttemptBreaks
  <2>2. \/ \E s \in {"errTask", "ask"} : LeavesRetry(j, s)
        \/ pc' = pc /\ part' = [part EXCEPT ![j] = 0]
    BY <1>9 DEF HandlerFails, HandlerRefuses, HandlerAsks
  <2>3. CASE pc' = pc /\ part' = [part EXCEPT ![j] = 0]
    <3>1. \A x \in Jobs : part'[x] = part[x] \/ part'[x] = 0
      BY <1>0, <2>3 DEF TypeOK
    <3> QED
      BY <1>5, <2>1, <2>3, <3>1
  <2>4. CASE \E s \in {"errTask", "ask"} : LeavesRetry(j, s)
    BY <1>6, <2>1, <2>4 DEF LeavesRetry
  <2> QED
    BY <2>2, <2>3, <2>4
<1>10. ASSUME NEW j \in Jobs, Release(j) PROVE RInv'
  <2>1. UNCHANGED <<processed, effects, tasks, skipped, taskless, part>>
    BY <1>10 DEF Release
  <2>2. \A x \in Jobs : pc'[x] = pc[x] \/ pc'[x] \notin MarksWork \cup MarksTask
    BY <1>0, <1>10, ReleaseShape DEF TypeOK
  <2> QED
    BY <1>5, <2>1, <2>2
<1>11. ASSUME NEW j \in Jobs, CallFails(j) PROVE RInv'
  <2>1. UNCHANGED <<processed, effects, tasks, skipped, part>>
    BY <1>11 DEF CallFails
  <2>2. CASE pc[j] = "errTask"
    <3>1. pc' = [pc EXCEPT ![j] = "errMark"] /\ taskless' = taskless \cup {j[1]}
      BY <1>11, <2>2 DEF CallFails, OverflowSteps
    <3>2. Grown
      BY <1>00, <2>1, <3>1 DEF Grown
    <3>3. HasOutcome(j)'
      <4>1. pc'[j] = "errMark"
        BY <1>0, <3>1 DEF TypeOK
      <4> QED
        BY <2>1, <3>1, <4>1 DEF RInv, HasOutcome
    <3>4. \A x \in Jobs : x # j => pc'[x] = pc[x] /\ part'[x] = part[x]
      BY <1>0, <2>1, <3>1 DEF TypeOK
    <3> QED
      BY <1>0, <2>1, <3>2, <3>3, <3>4, RecordsFrame
  <2>3. CASE pc[j] # "errTask"
    <3>1. /\ \E s \in {"end", "done", "errTask"} : pc' = [pc EXCEPT ![j] = s]
          /\ taskless' = taskless
      BY <1>11, <2>3 DEF CallFails
    <3> QED
      BY <1>6, <2>1, <3>1
  <2> QED
    BY <2>2, <2>3
<1>12. ASSUME NEW p \in Procs, Crash(p) PROVE RInv'
  <2>1. /\ UNCHANGED <<processed, effects, tasks, skipped, taskless>>
        /\ \A x \in Jobs : pc'[x] = pc[x] \/ pc'[x] = "lost"
        /\ \A x \in Jobs : part'[x] = part[x] \/ part'[x] = 0
    BY <1>12 DEF Crash
  <2> QED
    BY <1>5, <2>1
<1>13. CASE Toggle \/ UNCHANGED vars
  BY <1>5, <1>13 DEF Toggle, vars, jobs
<1> QED
  BY <1>1, <1>2, <1>3, <1>4, <1>7, <1>8, <1>9, <1>10, <1>11, <1>12, <1>13 DEF Next, Work

\* base-worker.js handle(): an event that counts as processed was worked on to
\* the end, handed to the staff or skipped on purpose, whatever fails in
\* whichever part and whoever dies, but for the manual task that could not be
\* written in the catch block.
THEOREM RecordsAreBacked == Spec => []ProcessedIsHandled
<1>1. PInv /\ RInv /\ [Next]_vars => (PInv /\ RInv)'
  BY PoolStep, RecordsStep
<1>2. Init => PInv /\ RInv
  BY PoolInit, RecordsInit
<1>3. PInv /\ RInv => ProcessedIsHandled
  BY DEF RInv
<1> QED
  BY <1>1, <1>2, <1>3, PTL DEF Spec

-----------------------------------------------------------------------------
(* The price of repeats.  For an event and a part of its work, count what   *)
(* was committed or handed out and the jobs that still owe an outcome.      *)
(* Every incident pays for one more.  Beyond them, one outcome is free, and *)
(* it is spent once the event is recorded or a job is there that owes it or *)
(* is about to record it: a job that comes when nobody is left, and no      *)
(* record, finds everything paid for.                                       *)

Arriving == {"queued", "check", "ovCheck"}
Costly   == {"gate", "ask", "offTask", "errTask", "ovTask"}
Marking  == {"mark"} \cup MarksTask

Owes(x, e, i) ==
    /\ x[1] = e
    /\ \/ pc[x] \in Costly
       \/ pc[x] = "run" /\ part[x] < i
       \/ pc[x] \in Arriving /\ e \notin processed

Closes(x, e, i) == x[1] = e /\ (pc[x] \in Marking \/ (pc[x] = "run" /\ part[x] >= i))

Owing(e, i)   == {x \in Jobs : Owes(x, e, i)}
Closing(e, i) == \E x \in Jobs : Closes(x, e, i)

Spent(e, i) == effects[e][i] + tasks[e]
FreeSpent(e, i) == e \in processed \/ Owing(e, i) # {} \/ Closing(e, i)

Account(e, i) ==
    Spent(e, i) + Cardinality(Owing(e, i)) <= Paid(e) + (IF FreeSpent(e, i) THEN 1 ELSE 0)

BInv == \A e \in Events, i \in 1 .. Parts : Account(e, i)

LEMMA BudgetTypes ==
    ASSUME TypeOK, NEW e \in Events, NEW i \in 1 .. Parts
    PROVE  /\ Spent(e, i) \in Nat /\ Paid(e) \in Nat
           /\ IsFiniteSet(Owing(e, i)) /\ Cardinality(Owing(e, i)) \in Nat
<1>1. effects[e][i] \in Nat /\ tasks[e] \in Nat
  BY DEF TypeOK
<1>2. crashes \in Nat /\ faults \in Nat /\ torn[e] \in Nat /\ crossed[e] \in Nat
  BY DEF TypeOK
<1>3. Owing(e, i) \in SUBSET Jobs
  BY DEF Owing
<1>4. IsFiniteSet(Owing(e, i))
  BY <1>3, JobsFinite, FS_Subset
<1>5. Cardinality(Owing(e, i)) \in Nat
  BY <1>4, FS_CardinalityType
<1> QED
  BY <1>1, <1>2, <1>4, <1>5 DEF Spent, Paid

LEMMA BudgetTypesNext ==
    ASSUME TypeOK', NEW e \in Events, NEW i \in 1 .. Parts
    PROVE  /\ Spent(e, i)' \in Nat /\ Paid(e)' \in Nat
           /\ IsFiniteSet(Owing(e, i)') /\ Cardinality(Owing(e, i)') \in Nat
<1>1. effects'[e][i] \in Nat /\ tasks'[e] \in Nat
  BY DEF TypeOK
<1>2. crashes' \in Nat /\ faults' \in Nat /\ torn'[e] \in Nat /\ crossed'[e] \in Nat
  BY DEF TypeOK
<1>3. Owing(e, i)' \in SUBSET Jobs
  BY DEF Owing
<1>4. IsFiniteSet(Owing(e, i)')
  BY <1>3, JobsFinite, FS_Subset
<1>5. Cardinality(Owing(e, i)') \in Nat
  BY <1>4, FS_CardinalityType
<1> QED
  BY <1>1, <1>2, <1>4, <1>5 DEF Spent, Paid

\* How the number of owing jobs moves.
LEMMA FewerOwe ==
    ASSUME TypeOK, TypeOK', NEW e \in Events, NEW i \in 1 .. Parts,
           Owing(e, i)' \subseteq Owing(e, i)
    PROVE  /\ Cardinality(Owing(e, i)') <= Cardinality(Owing(e, i))
           /\ \A j \in Owing(e, i) : j \notin Owing(e, i)' =>
                 Cardinality(Owing(e, i)') <= Cardinality(Owing(e, i)) - 1
<1>1. IsFiniteSet(Owing(e, i)) /\ Cardinality(Owing(e, i)) \in Nat
  BY BudgetTypes
<1>2. Cardinality(Owing(e, i)') <= Cardinality(Owing(e, i))
  BY <1>1, FS_Subset
<1>3. ASSUME NEW j \in Owing(e, i), j \notin Owing(e, i)'
      PROVE  Cardinality(Owing(e, i)') <= Cardinality(Owing(e, i)) - 1
  <2>1. /\ IsFiniteSet(Owing(e, i) \ {j})
        /\ Cardinality(Owing(e, i) \ {j}) = Cardinality(Owing(e, i)) - 1
    BY <1>1, FS_RemoveElement
  <2>2. Owing(e, i)' \subseteq Owing(e, i) \ {j}
    BY <1>3
  <2>3. Cardinality(Owing(e, i)') <= Cardinality(Owing(e, i) \ {j})
    BY <2>1, <2>2, FS_Subset
  <2> QED
    BY <2>1, <2>3
<1> QED
  BY <1>2, <1>3

LEMMA OneMoreOwes ==
    ASSUME TypeOK, TypeOK', NEW e \in Events, NEW i \in 1 .. Parts, NEW j,
           Owing(e, i)' \subseteq Owing(e, i) \cup {j}
    PROVE  Cardinality(Owing(e, i)') <= Cardinality(Owing(e, i)) + 1
<1>1. IsFiniteSet(Owing(e, i)) /\ Cardinality(Owing(e, i)) \in Nat
  BY BudgetTypes
<1>2. /\ IsFiniteSet(Owing(e, i) \cup {j})
      /\ Cardinality(Owing(e, i) \cup {j}) = Cardinality(Owing(e, i))
         \/ Cardinality(Owing(e, i) \cup {j}) = Cardinality(Owing(e, i)) + 1
  <2>1. CASE j \in Owing(e, i)
    <3>1. Owing(e, i) \cup {j} = Owing(e, i)
      BY <2>1
    <3> QED
      BY <1>1, <3>1
  <2>2. CASE j \notin Owing(e, i)
    BY <1>1, <2>2, FS_AddElement
  <2> QED
    BY <2>1, <2>2
<1>3. Cardinality(Owing(e, i)') <= Cardinality(Owing(e, i) \cup {j})
  BY <1>2, FS_Subset
<1>4. Cardinality(Owing(e, i)') \in Nat
  BY BudgetTypesNext
<1>5. CASE Cardinality(Owing(e, i) \cup {j}) = Cardinality(Owing(e, i))
  BY <1>1, <1>3, <1>4, <1>5
<1>6. CASE Cardinality(Owing(e, i) \cup {j}) = Cardinality(Owing(e, i)) + 1
  BY <1>1, <1>3, <1>4, <1>6
<1> QED
  BY <1>2, <1>5, <1>6

\* No new debt: nothing was added to what was spent or is owed.
LEMMA BudgetQuiet ==
    ASSUME TypeOK, TypeOK', NEW e \in Events, NEW i \in 1 .. Parts, Account(e, i),
           Spent(e, i)' = Spent(e, i), Paid(e)' >= Paid(e),
           Owing(e, i)' \subseteq Owing(e, i),
           \/ ~FreeSpent(e, i) \/ FreeSpent(e, i)' \/ Paid(e)' >= Paid(e) + 1
           \/ \E j \in Owing(e, i) : j \notin Owing(e, i)'
    PROVE  Account(e, i)'
<1> DEFINE n == Cardinality(Owing(e, i))
           m == Cardinality(Owing(e, i)')
           s == Spent(e, i)
           p == Paid(e)
           q == Paid(e)'
<1>1. n \in Nat /\ m \in Nat /\ s \in Nat /\ p \in Nat /\ q \in Nat
  BY BudgetTypes, BudgetTypesNext
<1>2. m <= n /\ q >= p /\ s + n <= p + (IF FreeSpent(e, i) THEN 1 ELSE 0)
  BY FewerOwe DEF Account
<1>3. (\E j \in Owing(e, i) : j \notin Owing(e, i)') => m <= n - 1
  BY FewerOwe
<1>4. s + m <= q + (IF FreeSpent(e, i)' THEN 1 ELSE 0)
  <2> HIDE DEF n, m, s, p, q
  <2>1. CASE ~FreeSpent(e, i)
    <3>1. s + m <= q
      BY <1>1, <1>2, <2>1
    <3> QED
      BY <1>1, <3>1
  <2>2. CASE FreeSpent(e, i)'
    <3>1. s + m <= q + 1
      BY <1>1, <1>2
    <3> QED
      BY <2>2, <3>1
  <2>3. CASE m <= n - 1 \/ q >= p + 1
    <3>1. s + m <= q
      BY <1>1, <1>2, <2>3
    <3> QED
      BY <1>1, <3>1
  <2> QED
    BY <1>3, <2>1, <2>2, <2>3 DEF p, q
<1> QED
  BY <1>4 DEF Account

\* One more job owes an outcome: an incident pays for it, or nothing was left
\* that could have spent the free one.
LEMMA BudgetOwed ==
    ASSUME TypeOK, TypeOK', NEW e \in Events, NEW i \in 1 .. Parts, Account(e, i),
           Spent(e, i)' = Spent(e, i), Paid(e)' >= Paid(e),
           NEW j \in Owing(e, i)', Owing(e, i)' \subseteq Owing(e, i) \cup {j},
           ~FreeSpent(e, i) \/ Paid(e)' >= Paid(e) + 1
    PROVE  Account(e, i)'
<1> DEFINE n == Cardinality(Owing(e, i))
           m == Cardinality(Owing(e, i)')
           s == Spent(e, i)
           p == Paid(e)
           q == Paid(e)'
<1>1. n \in Nat /\ m \in Nat /\ s \in Nat /\ p \in Nat /\ q \in Nat
  BY BudgetTypes, BudgetTypesNext
<1>2. m <= n + 1 /\ q >= p /\ s + n <= p + (IF FreeSpent(e, i) THEN 1 ELSE 0)
  BY OneMoreOwes DEF Account
<1>3. FreeSpent(e, i)'
  BY DEF FreeSpent
<1>4. s + m <= q + 1
  <2> HIDE DEF n, m, s, p, q
  <2>1. CASE ~FreeSpent(e, i)
    BY <1>1, <1>2, <2>1
  <2>2. CASE q >= p + 1
    BY <1>1, <1>2, <2>2
  <2> QED
    BY <2>1, <2>2 DEF p, q
<1> QED
  BY <1>3, <1>4 DEF Account

\* An outcome: the job that owed it is about to record it.
LEMMA BudgetOutcome ==
    ASSUME TypeOK, TypeOK', NEW e \in Events, NEW i \in 1 .. Parts, Account(e, i),
           Spent(e, i)' = Spent(e, i) + 1, Paid(e)' = Paid(e),
           Owing(e, i)' \subseteq Owing(e, i),
           NEW j \in Owing(e, i), j \notin Owing(e, i)', FreeSpent(e, i)'
    PROVE  Account(e, i)'
<1> DEFINE n == Cardinality(Owing(e, i))
           m == Cardinality(Owing(e, i)')
           s == Spent(e, i)
           p == Paid(e)
<1>1. n \in Nat /\ m \in Nat /\ s \in Nat /\ p \in Nat
  BY BudgetTypes, BudgetTypesNext
<1>2. m <= n - 1 /\ s + n <= p + 1
  BY <1>1, FewerOwe DEF Account
<1>3. (s + 1) + m <= p + 1
  <2> HIDE DEF n, m, s, p
  <2> QED
    BY <1>1, <1>2
<1> QED
  BY <1>3 DEF Account

LEMMA BudgetInit == Init => BInv
<1> SUFFICES ASSUME Init, NEW e \in Events, NEW i \in 1 .. Parts PROVE Account(e, i)
  BY DEF BInv
<1>1. Owing(e, i) = {}
  BY DEF Init, Started, Owing, Owes, Costly, Arriving
<1>2. Spent(e, i) = 0
  BY DEF Init, Started, Spent
<1>3. Paid(e) = 0
  BY DEF Init, Started, Paid
<1>4. Cardinality(Owing(e, i)) = 0
  BY <1>1, FS_EmptySet
<1> QED
  BY <1>2, <1>3, <1>4 DEF Account

\* A step of one job that makes no outcome for the event and part at hand.
OneMoves(j) ==
    /\ \A x \in Jobs : x # j => pc'[x] = pc[x] /\ part'[x] = part[x]
    /\ processed \subseteq processed' /\ processed' \subseteq processed \cup {j[1]}

LEMMA OthersOwe ==
    ASSUME NEW j \in Jobs, OneMoves(j), NEW e, NEW i
    PROVE  /\ \A x \in Owing(e, i)' : x # j => x \in Owing(e, i)
           /\ \A x \in Owing(e, i) : x # j => x \in Owing(e, i)' \/ e \in processed'
           /\ \A x \in Jobs : x # j => (Closes(x, e, i)' <=> Closes(x, e, i))
<1>1. ASSUME NEW x \in Jobs, x # j
      PROVE  /\ Owes(x, e, i)' => Owes(x, e, i)
             /\ Owes(x, e, i) => Owes(x, e, i)' \/ e \in processed'
             /\ Closes(x, e, i)' <=> Closes(x, e, i)
  BY <1>1 DEF OneMoves, Owes, Closes
<1> QED
  BY <1>1 DEF Owing

LEMMA BudgetMove ==
    ASSUME TypeOK, TypeOK', NEW e \in Events, NEW i \in 1 .. Parts, Account(e, i),
           NEW j \in Jobs, OneMoves(j), Spent(e, i)' = Spent(e, i), Paid(e)' >= Paid(e),
           Owes(j, e, i)' => Owes(j, e, i) \/ Paid(e)' >= Paid(e) + 1,
           Closes(j, e, i) =>
              Closes(j, e, i)' \/ e \in processed' \/ Paid(e)' >= Paid(e) + 1
    PROVE  Account(e, i)'
<1>1. j \in Owing(e, i)' <=> Owes(j, e, i)'
  BY DEF Owing
<1>2. j \in Owing(e, i) <=> Owes(j, e, i)
  BY DEF Owing
<1>3. CASE Owes(j, e, i)' /\ ~Owes(j, e, i)
  BY <1>1, <1>3, OthersOwe, BudgetOwed
<1>4. CASE ~(Owes(j, e, i)' /\ ~Owes(j, e, i))
  <2>1. Owing(e, i)' \subseteq Owing(e, i)
    BY <1>1, <1>2, <1>4, OthersOwe
  <2>2. CASE j \in Owing(e, i) /\ j \notin Owing(e, i)'
    BY <2>1, <2>2, BudgetQuiet
  <2>3. CASE ~(j \in Owing(e, i) /\ j \notin Owing(e, i)')
    <3>1. \/ ~FreeSpent(e, i) \/ FreeSpent(e, i)' \/ Paid(e)' >= Paid(e) + 1
      <4>1. CASE e \in processed
        BY <4>1 DEF OneMoves, FreeSpent
      <4>2. ASSUME NEW x \in Owing(e, i) PROVE FreeSpent(e, i)'
        BY <2>3, OthersOwe DEF FreeSpent
      <4>3. ASSUME NEW x \in Jobs, Closes(x, e, i)
            PROVE  FreeSpent(e, i)' \/ Paid(e)' >= Paid(e) + 1
        BY <4>3, OthersOwe DEF FreeSpent, Closing
      <4> QED
        BY <4>1, <4>2, <4>3 DEF FreeSpent, Closing
    <3> QED
      BY <2>1, <3>1, BudgetQuiet
  <2> QED
    BY <2>2, <2>3
<1> QED
  BY <1>3, <1>4

\* Steps of one job that add no outcome and are no incident.
LEMMA BudgetPlain ==
    ASSUME TypeOK, TypeOK', BInv, NEW j \in Jobs, OneMoves(j),
           UNCHANGED <<effects, tasks, faults, crashes, torn, crossed>>,
           \A i \in 1 .. Parts : Owes(j, j[1], i)' => Owes(j, j[1], i),
           \A i \in 1 .. Parts :
              Closes(j, j[1], i) => Closes(j, j[1], i)' \/ j[1] \in processed'
    PROVE  BInv'
<1> SUFFICES ASSUME NEW e \in Events, NEW i \in 1 .. Parts PROVE Account(e, i)'
  BY DEF BInv
<1>1. Account(e, i)
  BY DEF BInv
<1>2. Spent(e, i)' = Spent(e, i)
  BY DEF Spent
<1>3. Paid(e)' = Paid(e) /\ Paid(e) \in Nat
  BY BudgetTypes DEF Paid
<1>4. Paid(e)' >= Paid(e)
  BY <1>3
<1>5. Owes(j, e, i)' => Owes(j, e, i)
  BY DEF Owes
<1>6. Closes(j, e, i) => Closes(j, e, i)' \/ e \in processed'
  BY DEF Closes
<1> QED
  BY <1>1, <1>2, <1>4, <1>5, <1>6, BudgetMove

\* Steps of one job that add no outcome but whose event pays for an incident.
LEMMA BudgetPays ==
    ASSUME TypeOK, TypeOK', BInv, NEW j \in Jobs, OneMoves(j),
           UNCHANGED <<effects, tasks>>,
           \A e \in Events : Paid(e)' >= Paid(e),
           Paid(j[1])' >= Paid(j[1]) + 1
    PROVE  BInv'
<1> SUFFICES ASSUME NEW e \in Events, NEW i \in 1 .. Parts PROVE Account(e, i)'
  BY DEF BInv
<1>1. Account(e, i)
  BY DEF BInv
<1>2. Spent(e, i)' = Spent(e, i)
  BY DEF Spent
<1>3. Paid(e)' >= Paid(e)
  OBVIOUS
<1>4. Owes(j, e, i)' => Owes(j, e, i) \/ Paid(e)' >= Paid(e) + 1
  BY DEF Owes
<1>5. Closes(j, e, i) => Closes(j, e, i)' \/ e \in processed' \/ Paid(e)' >= Paid(e) + 1
  BY DEF Closes
<1> QED
  BY <1>1, <1>2, <1>3, <1>4, <1>5, BudgetMove

LEMMA DeliverShape ==
    ASSUME PoolPart, NEW j \in Jobs, Deliver(j)
    PROVE  /\ pc[j] = "absent"
           /\ \E s \in {"check", "queued", "done", "ovCheck"} : pc' = [pc EXCEPT ![j] = s]
           /\ UNCHANGED <<part, processed, effects, tasks, faults, crashes, torn>>
           /\ crossed' = IF \E k \in Jobs : k[1] = j[1] /\ Active(k)
                         THEN [crossed EXCEPT ![j[1]] = @ + 1] ELSE crossed
<1>1. Arrives(j)
  BY DEF Deliver, Handle, EnqueueStarts, EnqueueWaits, EnqueueOverflows
<1>2. \E s \in {"check", "queued", "done", "ovCheck"} : pc' = [pc EXCEPT ![j] = s]
  BY DEF Deliver, Handle, EnqueueStarts, EnqueueWaits, EnqueueOverflows, Goto
<1> QED
  BY <1>1, <1>2 DEF Arrives

\* A delivery that finds an earlier one at work is an incident; one that finds
\* nobody finds the account settled, unless the event is recorded.
LEMMA DeliverBudget ==
    ASSUME PInv, TypeOK', BInv, NEW j \in Jobs, Deliver(j)
    PROVE  BInv'
<1>1. TypeOK /\ PoolPart
  BY PoolPartHolds DEF PInv
<1>2. /\ pc[j] = "absent"
      /\ UNCHANGED <<part, processed, effects, tasks, faults, crashes, torn>>
      /\ crossed' = IF \E k \in Jobs : k[1] = j[1] /\ Active(k)
                    THEN [crossed EXCEPT ![j[1]] = @ + 1] ELSE crossed
  BY <1>1, DeliverShape
<1>3. PICK s \in {"check", "queued", "done", "ovCheck"} : pc' = [pc EXCEPT ![j] = s]
  BY <1>1, DeliverShape
<1>4. OneMoves(j)
  BY <1>1, <1>2, <1>3 DEF OneMoves, TypeOK
<1>5. j[1] \in Events
  BY DEF Jobs
<1>6. CASE \E k \in Jobs : k[1] = j[1] /\ Active(k)
  <2>1. crossed' = [crossed EXCEPT ![j[1]] = crossed[j[1]] + 1]
    BY <1>2, <1>6
  <2>2. crossed \in [Events -> Nat]
    BY <1>1 DEF TypeOK
  <2>3. /\ crossed'[j[1]] = crossed[j[1]] + 1
        /\ \A e \in Events : e # j[1] => crossed'[e] = crossed[e]
    BY <1>5, <2>1, <2>2
  <2>4. faults \in Nat /\ crashes \in Nat /\ torn \in [Events -> Nat]
    BY <1>1 DEF TypeOK
  <2>5. \A e \in Events : Paid(e)' >= Paid(e)
    <3> SUFFICES ASSUME NEW e \in Events PROVE Paid(e)' >= Paid(e)
      OBVIOUS
    <3>1. crossed[e] \in Nat /\ torn[e] \in Nat /\ crossed[j[1]] \in Nat
      BY <1>5, <2>2, <2>4
    <3>2. CASE e = j[1]
      BY <1>2, <2>3, <2>4, <3>1, <3>2 DEF Paid
    <3>3. CASE e # j[1]
      BY <1>2, <2>3, <2>4, <3>1, <3>3 DEF Paid
    <3> QED
      BY <3>2, <3>3
  <2>6. Paid(j[1])' >= Paid(j[1]) + 1
    <3>1. crossed[j[1]] \in Nat /\ torn[j[1]] \in Nat
      BY <1>5, <2>2, <2>4
    <3> QED
      BY <1>2, <2>3, <2>4, <3>1 DEF Paid
  <2> QED
    BY <1>1, <1>2, <1>4, <2>5, <2>6, BudgetPays
<1>7. CASE ~\E k \in Jobs : k[1] = j[1] /\ Active(k)
  <2>1. crossed' = crossed
    BY <1>2, <1>7
  <2> SUFFICES ASSUME NEW e \in Events, NEW i \in 1 .. Parts PROVE Account(e, i)'
    BY DEF BInv
  <2>2. Account(e, i)
    BY DEF BInv
  <2>3. Spent(e, i)' = Spent(e, i)
    BY <1>2 DEF Spent
  <2>4. Paid(e)' = Paid(e) /\ Paid(e) \in Nat
    BY <1>1, <1>2, <2>1, BudgetTypes DEF Paid
  <2>5. Paid(e)' >= Paid(e)
    BY <2>4
  <2>6. ~Closes(j, e, i)
    BY <1>2 DEF Closes, Marking, MarksTask
  <2>7. CASE ~Owes(j, e, i)'
    BY <1>1, <1>4, <2>2, <2>3, <2>5, <2>6, <2>7, BudgetMove
  <2>8. CASE Owes(j, e, i)'
    <3>1. e = j[1]
      BY <2>8 DEF Owes
    <3>2. e \notin processed
      <4>1. pc'[j] = s
        BY <1>1, <1>3 DEF TypeOK
      <4> QED
        BY <1>2, <2>8, <4>1 DEF Owes, Costly, Arriving
    <3>3. \A x \in Jobs : ~Owes(x, e, i) /\ ~Closes(x, e, i)
      BY <1>7, <3>1 DEF Owes, Closes, Active, Costly, Arriving, Marking, MarksTask
    <3>4. ~FreeSpent(e, i)
      BY <3>2, <3>3 DEF FreeSpent, Owing, Closing
    <3>5. j \in Owing(e, i)' /\ Owing(e, i)' \subseteq Owing(e, i) \cup {j}
      BY <1>4, <2>8, OthersOwe DEF Owing
    <3> QED
      BY <1>1, <2>2, <2>3, <2>5, <3>4, <3>5, BudgetOwed
  <2> QED
    BY <2>7, <2>8
<1> QED
  BY <1>6, <1>7

\* A commit of a part is an outcome of that part and of no other.
LEMMA CommitBudget ==
    ASSUME TypeOK, TypeOK', BInv, NEW j \in Jobs, HandlerCommits(j)
    PROVE  BInv'
<1>1. /\ pc' = pc /\ pc[j] = "run"
      /\ part[j] \in 0 .. Parts /\ part[j] + 1 \in 1 .. Parts /\ part'[j] = part[j] + 1
      /\ \A x \in Jobs : x # j => part'[x] = part[x]
      /\ \A e \in Events, i \in 1 .. Parts :
            effects'[e][i] = IF e = j[1] /\ i = part[j] + 1
                             THEN effects[e][i] + 1 ELSE effects[e][i]
  BY CommitShape
<1>2. UNCHANGED <<processed, tasks, faults, crashes, torn, crossed>>
  BY DEF HandlerCommits, incidents
<1>3. OneMoves(j)
  BY <1>1, <1>2 DEF OneMoves
<1> SUFFICES ASSUME NEW e \in Events, NEW i \in 1 .. Parts PROVE Account(e, i)'
  BY DEF BInv
<1>4. Account(e, i)
  BY DEF BInv
<1>5. Paid(e)' = Paid(e) /\ Paid(e) \in Nat
  BY <1>2, BudgetTypes DEF Paid
<1>6. Paid(e)' >= Paid(e)
  BY <1>5
<1>7. CASE e = j[1] /\ i = part[j] + 1
  <2>1. Spent(e, i)' = Spent(e, i) + 1
    <3>1. effects'[e][i] = effects[e][i] + 1 /\ tasks'[e] = tasks[e]
      BY <1>1, <1>2, <1>7
    <3>2. effects[e][i] \in Nat /\ tasks[e] \in Nat
      BY DEF TypeOK
    <3> QED
      BY <3>1, <3>2 DEF Spent
  <2>2. Owes(j, e, i)
    BY <1>1, <1>7 DEF Owes
  <2>3. ~Owes(j, e, i)' /\ Closes(j, e, i)'
    BY <1>1, <1>7 DEF Owes, Closes, Costly, Arriving
  <2>4. j \in Owing(e, i) /\ j \notin Owing(e, i)' /\ FreeSpent(e, i)'
    BY <2>2, <2>3 DEF Owing, FreeSpent, Closing
  <2>5. Owing(e, i)' \subseteq Owing(e, i)
    BY <1>3, <2>2, OthersOwe DEF Owing
  <2> QED
    BY <1>4, <1>5, <2>1, <2>4, <2>5, BudgetOutcome
<1>8. CASE ~(e = j[1] /\ i = part[j] + 1)
  <2>1. Spent(e, i)' = Spent(e, i)
    BY <1>1, <1>2, <1>8 DEF Spent
  <2>2. e = j[1] => (part'[j] < i <=> part[j] < i) /\ (part'[j] >= i <=> part[j] >= i)
    BY <1>1, <1>8
  <2>3. Owes(j, e, i)' => Owes(j, e, i)
    BY <1>1, <1>2, <2>2 DEF Owes
  <2>4. Closes(j, e, i) => Closes(j, e, i)'
    BY <1>1, <2>2 DEF Closes
  <2> QED
    BY <1>3, <1>4, <1>6, <2>1, <2>3, <2>4, BudgetMove
<1> QED
  BY <1>7, <1>8

\* A manual task is an outcome of every part.
LEMMA FallbackBudget ==
    ASSUME TypeOK, TypeOK', BInv, NEW j \in Jobs, Fallback(j)
    PROVE  BInv'
<1>1. UNCHANGED <<part, processed, effects, faults, crashes, torn, crossed>>
  BY DEF Fallback, incidents
<1>2. tasks' = [tasks EXCEPT ![j[1]] = tasks[j[1]] + 1] /\ tasks \in [Events -> Nat]
  BY DEF Fallback, TypeOK
<1>3. pc[j] \in Costly /\ \E s \in MarksTask : pc' = [pc EXCEPT ![j] = s]
  <2>1. \/ pc[j] = "offTask" /\ AfterTask[pc[j]] = "offMark"
        \/ pc[j] = "errTask" /\ AfterTask[pc[j]] = "errMark"
        \/ pc[j] = "ovTask" /\ AfterTask[pc[j]] = "ovMark"
    BY DEF Fallback, AfterTask
  <2> QED
    BY <2>1 DEF Fallback, Goto, Costly, MarksTask
<1>4. PICK s \in MarksTask : pc' = [pc EXCEPT ![j] = s]
  BY <1>3
<1>5. pc'[j] = s /\ \A x \in Jobs : x # j => pc'[x] = pc[x]
  BY <1>4 DEF TypeOK
<1>6. OneMoves(j)
  BY <1>1, <1>5 DEF OneMoves
<1> SUFFICES ASSUME NEW e \in Events, NEW i \in 1 .. Parts PROVE Account(e, i)'
  BY DEF BInv
<1>7. Account(e, i)
  BY DEF BInv
<1>8. Paid(e)' = Paid(e) /\ Paid(e) \in Nat
  BY <1>1, BudgetTypes DEF Paid
<1>9. Paid(e)' >= Paid(e)
  BY <1>8
<1>10. CASE e = j[1]
  <2>1. Spent(e, i)' = Spent(e, i) + 1
    <3>1. effects'[e][i] = effects[e][i] /\ tasks'[e] = tasks[e] + 1
      BY <1>1, <1>2, <1>10
    <3>2. effects[e][i] \in Nat /\ tasks[e] \in Nat
      BY DEF TypeOK
    <3> QED
      BY <3>1, <3>2 DEF Spent
  <2>2. Owes(j, e, i)
    BY <1>3, <1>10 DEF Owes
  <2>3. ~Owes(j, e, i)' /\ Closes(j, e, i)'
    BY <1>5, <1>10 DEF Owes, Closes, Costly, Arriving, Marking, MarksTask
  <2>4. j \in Owing(e, i) /\ j \notin Owing(e, i)' /\ FreeSpent(e, i)'
    BY <2>2, <2>3 DEF Owing, FreeSpent, Closing
  <2>5. Owing(e, i)' \subseteq Owing(e, i)
    BY <1>6, <2>2, OthersOwe DEF Owing
  <2> QED
    BY <1>7, <1>8, <2>1, <2>4, <2>5, BudgetOutcome
<1>11. CASE e # j[1]
  <2>1. Spent(e, i)' = Spent(e, i)
    BY <1>1, <1>2, <1>11 DEF Spent
  <2>2. ~Owes(j, e, i)' /\ ~Closes(j, e, i)
    BY <1>11 DEF Owes, Closes
  <2> QED
    BY <1>6, <1>7, <1>9, <2>1, <2>2, BudgetMove
<1> QED
  BY <1>10, <1>11

\* An attempt that breaks after a commit is an incident; before the first one
\* it leaves the job owing what it owed.
LEMMA BreakBudget ==
    ASSUME TypeOK, TypeOK', BInv, NEW j \in Jobs,
           HandlerFails(j) \/ HandlerRefuses(j) \/ HandlerAsks(j)
    PROVE  BInv'
<1>1. /\ pc[j] = "run"
      /\ torn' = IF part[j] > 0 THEN [torn EXCEPT ![j[1]] = @ + 1] ELSE torn
      /\ UNCHANGED <<processed, effects, tasks, faults, crashes, crossed>>
  BY DEF HandlerFails, HandlerRefuses, HandlerAsks, AttemptBreaks
<1>2. /\ pc' = pc \/ (\E s \in {"errTask", "ask"} : pc' = [pc EXCEPT ![j] = s])
      /\ part' = [part EXCEPT ![j] = 0]
  BY DEF HandlerFails, HandlerRefuses, HandlerAsks, LeavesRetry, Goto
<1>3. /\ pc'[j] = "run" \/ pc'[j] \in {"errTask", "ask"}
      /\ part'[j] = 0 /\ part[j] \in 0 .. Parts
      /\ \A x \in Jobs : x # j => pc'[x] = pc[x] /\ part'[x] = part[x]
  BY <1>1, <1>2 DEF TypeOK
<1>4. OneMoves(j)
  BY <1>1, <1>3 DEF OneMoves
<1>5. j[1] \in Events
  BY DEF Jobs
<1>6. CASE part[j] > 0
  <2>1. torn' = [torn EXCEPT ![j[1]] = torn[j[1]] + 1]
    BY <1>1, <1>6
  <2>2. torn \in [Events -> Nat] /\ crossed \in [Events -> Nat]
    BY DEF TypeOK
  <2>3. /\ torn'[j[1]] = torn[j[1]] + 1
        /\ \A e \in Events : e # j[1] => torn'[e] = torn[e]
    BY <1>5, <2>1, <2>2
  <2>4. faults \in Nat /\ crashes \in Nat
    BY DEF TypeOK
  <2>5. \A e \in Events : Paid(e)' >= Paid(e)
    <3> SUFFICES ASSUME NEW e \in Events PROVE Paid(e)' >= Paid(e)
      OBVIOUS
    <3>1. torn[e] \in Nat /\ crossed[e] \in Nat /\ torn[j[1]] \in Nat
      BY <1>5, <2>2
    <3>2. CASE e = j[1]
      BY <1>1, <2>3, <2>4, <3>1, <3>2 DEF Paid
    <3>3. CASE e # j[1]
      BY <1>1, <2>3, <2>4, <3>1, <3>3 DEF Paid
    <3> QED
      BY <3>2, <3>3
  <2>6. Paid(j[1])' >= Paid(j[1]) + 1
    <3>1. torn[j[1]] \in Nat /\ crossed[j[1]] \in Nat
      BY <1>5, <2>2
    <3> QED
      BY <1>1, <2>3, <2>4, <3>1 DEF Paid
  <2> QED
    BY <1>1, <1>4, <2>5, <2>6, BudgetPays
<1>7. CASE ~(part[j] > 0)
  <2>1. part[j] = 0 /\ torn' = torn
    BY <1>1, <1>3, <1>7
  <2>2. \A i \in 1 .. Parts : Owes(j, j[1], i) /\ ~Closes(j, j[1], i)
    BY <1>1, <2>1 DEF Owes, Closes, Marking, MarksTask
  <2> QED
    BY <1>1, <1>4, <2>1, <2>2, BudgetPlain
<1> QED
  BY <1>6, <1>7

LEMMA FaultBudget ==
    ASSUME TypeOK, TypeOK', BInv, NEW j \in Jobs, CallFails(j)
    PROVE  BInv'
<1>1. /\ UNCHANGED <<part, processed, effects, tasks, crashes, torn, crossed>>
      /\ faults' = faults + 1
  BY DEF CallFails
<1>2. \E s : pc' = [pc EXCEPT ![j] = s]
  BY DEF CallFails, Goto, Returns
<1>3. OneMoves(j)
  BY <1>1, <1>2 DEF OneMoves, TypeOK
<1>4. \A e \in Events : Paid(e)' >= Paid(e) + 1
  <2> SUFFICES ASSUME NEW e \in Events PROVE Paid(e)' >= Paid(e) + 1
    OBVIOUS
  <2>1. faults \in Nat /\ crashes \in Nat /\ torn[e] \in Nat /\ crossed[e] \in Nat
    BY DEF TypeOK
  <2> QED
    BY <1>1, <2>1 DEF Paid
<1>5. \A e \in Events : Paid(e)' >= Paid(e)
  <2> SUFFICES ASSUME NEW e \in Events PROVE Paid(e)' >= Paid(e)
    OBVIOUS
  <2>1. faults \in Nat /\ crashes \in Nat /\ torn[e] \in Nat /\ crossed[e] \in Nat
    BY DEF TypeOK
  <2> QED
    BY <1>1, <2>1 DEF Paid
<1>6. j[1] \in Events
  BY DEF Jobs
<1> QED
  BY <1>1, <1>3, <1>4, <1>5, <1>6, BudgetPays

\* The other steps of a job: what it owes it still owes or has no need to, and
\* a job that was to record its event recorded it.
LEMMA QuietBudget ==
    ASSUME TypeOK, TypeOK', BInv, NEW j \in Jobs,
           \/ Check(j) \/ Gate(j) \/ HandlerSucceeds(j) \/ Ask(j) \/ Mark(j) \/ Log(j)
           \/ OverflowCheck(j)
    PROVE  BInv'
<1>0. UNCHANGED <<effects, tasks, faults, crashes, torn, crossed>>
  BY DEF Check, Gate, HandlerSucceeds, Ask, Mark, Log, OverflowCheck, incidents
<1>1. ASSUME NEW s, pc' = [pc EXCEPT ![j] = s], part' = part,
             processed' = processed \/ processed' = processed \cup {j[1]}
      PROVE  /\ OneMoves(j) /\ pc'[j] = s
             /\ part'[j] = part[j]
  BY <1>1 DEF OneMoves, TypeOK
<1>3. CASE Check(j)
  <2>1. PICK s \in {"end", "done", "run", "gate"} :
           /\ pc' = [pc EXCEPT ![j] = s]
           /\ j[1] \in processed => s \in {"end", "done"}
    BY <1>3 DEF Check, Goto, Returns
  <2>2. pc[j] = "check" /\ part' = part /\ processed' = processed
    BY <1>3 DEF Check
  <2>3. pc'[j] = s /\ OneMoves(j)
    BY <1>1, <2>1, <2>2
  <2>4. \A i \in 1 .. Parts : Owes(j, j[1], i)' => Owes(j, j[1], i)
    BY <2>1, <2>2, <2>3 DEF Owes, Costly, Arriving
  <2>5. \A i \in 1 .. Parts : ~Closes(j, j[1], i)
    BY <2>2 DEF Closes, Marking, MarksTask
  <2> QED
    BY <1>0, <2>3, <2>4, <2>5, BudgetPlain
<1>4. CASE Gate(j)
  <2>1. PICK s \in {"run", "skipMark", "offTask"} : pc' = [pc EXCEPT ![j] = s]
    BY <1>4 DEF Gate, Goto
  <2>2. pc[j] = "gate" /\ part' = part /\ processed' = processed
    BY <1>4 DEF Gate
  <2>3. pc'[j] = s /\ OneMoves(j)
    BY <1>1, <2>1, <2>2
  <2>4. \A i \in 1 .. Parts : Owes(j, j[1], i)
    BY <2>2 DEF Owes, Costly
  <2>5. \A i \in 1 .. Parts : ~Closes(j, j[1], i)
    BY <2>2 DEF Closes, Marking, MarksTask
  <2> QED
    BY <1>0, <2>3, <2>4, <2>5, BudgetPlain
<1>5. CASE HandlerSucceeds(j)
  <2>1. /\ pc[j] = "run" /\ part[j] = Parts /\ processed' = processed
        /\ pc' = [pc EXCEPT ![j] = "mark"] /\ part' = [part EXCEPT ![j] = 0]
    BY <1>5 DEF HandlerSucceeds, LeavesRetry, Goto
  <2>2. pc'[j] = "mark" /\ OneMoves(j)
    BY <2>1 DEF OneMoves, TypeOK
  <2>3. \A i \in 1 .. Parts : ~Owes(j, j[1], i)' /\ Closes(j, j[1], i)'
    BY <2>2 DEF Owes, Closes, Costly, Arriving, Marking
  <2> QED
    BY <1>0, <2>2, <2>3, BudgetPlain
<1>6. CASE Ask(j) \/ Log(j)
  <2>1. PICK s \in {"askLog", "end", "done"} : pc' = [pc EXCEPT ![j] = s]
    BY <1>6 DEF Ask, Log, Goto, Returns
  <2>2. pc[j] \in {"ask", "log", "askLog"} /\ part' = part /\ processed' = processed
    BY <1>6 DEF Ask, Log
  <2>3. pc'[j] = s /\ OneMoves(j)
    BY <1>1, <2>1, <2>2
  <2>4. \A i \in 1 .. Parts : ~Owes(j, j[1], i)' /\ ~Closes(j, j[1], i)
    BY <2>2, <2>3 DEF Owes, Closes, Costly, Arriving, Marking, MarksTask
  <2> QED
    BY <1>0, <2>3, <2>4, BudgetPlain
<1>7. CASE Mark(j)
  <2>1. PICK s \in {"log", "end", "done"} : pc' = [pc EXCEPT ![j] = s]
    BY <1>7 DEF Mark, Goto, Returns
  <2>2. part' = part /\ processed' = processed \cup {j[1]}
    BY <1>7 DEF Mark
  <2>3. pc'[j] = s /\ OneMoves(j)
    BY <1>1, <2>1, <2>2
  <2>4. \A i \in 1 .. Parts : ~Owes(j, j[1], i)'
    BY <2>3 DEF Owes, Costly, Arriving
  <2>5. j[1] \in processed'
    BY <2>2
  <2> QED
    BY <1>0, <2>3, <2>4, <2>5, BudgetPlain
<1>8. CASE OverflowCheck(j)
  <2>1. PICK s \in {"done", "ovTask"} :
           /\ pc' = [pc EXCEPT ![j] = s]
           /\ j[1] \in processed => s = "done"
    BY <1>8 DEF OverflowCheck, Goto
  <2>2. pc[j] = "ovCheck" /\ part' = part /\ processed' = processed
    BY <1>8 DEF OverflowCheck
  <2>3. pc'[j] = s /\ OneMoves(j)
    BY <1>1, <2>1, <2>2
  <2>4. \A i \in 1 .. Parts : Owes(j, j[1], i)' => Owes(j, j[1], i)
    BY <2>1, <2>2, <2>3 DEF Owes, Costly, Arriving
  <2>5. \A i \in 1 .. Parts : ~Closes(j, j[1], i)
    BY <2>2 DEF Closes, Marking, MarksTask
  <2> QED
    BY <1>0, <2>3, <2>4, <2>5, BudgetPlain
<1> QED
  BY <1>3, <1>4, <1>5, <1>6, <1>7, <1>8

\* Several jobs move at once: a slot changes hands, or a process dies.
LEMMA SharedBudget ==
    ASSUME PInv, TypeOK', BInv,
           (\E j \in Jobs : Release(j)) \/ (\E p \in Procs : Crash(p)) \/ Toggle \/ UNCHANGED vars
    PROVE  BInv'
<1>0. TypeOK
  BY DEF PInv
<1>1. UNCHANGED <<processed, effects, tasks, faults, torn, crossed>>
  BY DEF Release, Crash, Toggle, vars, incidents
<1> SUFFICES ASSUME NEW e \in Events, NEW i \in 1 .. Parts PROVE Account(e, i)'
  BY DEF BInv
<1>2. Account(e, i) /\ Spent(e, i)' = Spent(e, i)
  BY <1>1 DEF BInv, Spent
<1>3. CASE \E p \in Procs : Crash(p)
  <2>1. PICK p \in Procs : Crash(p)
    BY <1>3
  <2>2. \A x \in Jobs : pc'[x] = "lost" \/ (pc'[x] = pc[x] /\ part'[x] = part[x])
    BY <2>1 DEF Crash
  <2>3. Owing(e, i)' \subseteq Owing(e, i)
    <3>1. ASSUME NEW x \in Jobs, Owes(x, e, i)' PROVE Owes(x, e, i)
      BY <1>1, <2>2, <3>1 DEF Owes, Costly, Arriving
    <3> QED
      BY <3>1 DEF Owing
  <2>4. crashes' = crashes + 1
    BY <2>1 DEF Crash
  <2>5. faults \in Nat /\ crashes \in Nat /\ torn[e] \in Nat /\ crossed[e] \in Nat
    BY <1>0 DEF TypeOK
  <2>6. Paid(e)' >= Paid(e) /\ Paid(e)' >= Paid(e) + 1
    BY <1>1, <2>4, <2>5 DEF Paid
  <2> QED
    BY <1>0, <1>2, <2>3, <2>6, BudgetQuiet
<1>4. CASE (\E j \in Jobs : Release(j)) \/ Toggle \/ UNCHANGED vars
  <2>1. part' = part /\ crashes' = crashes
    BY <1>4 DEF Release, Toggle, vars, jobs, incidents
  <2>2. \A x \in Jobs : \/ pc'[x] = pc[x]
                        \/ pc[x] = "end" /\ pc'[x] = "done"
                        \/ pc[x] = "queued" /\ pc'[x] = "check"
    <3>1. ASSUME NEW j \in Jobs, Release(j)
          PROVE  \A x \in Jobs : \/ pc'[x] = pc[x]
                                 \/ pc[x] = "end" /\ pc'[x] = "done"
                                 \/ pc[x] = "queued" /\ pc'[x] = "check"
      BY <1>0, <3>1, ReleaseShape DEF TypeOK
    <3>2. CASE Toggle \/ UNCHANGED vars
      BY <3>2 DEF Toggle, vars, jobs
    <3> QED
      BY <1>4, <3>1, <3>2
  <2>3. \A x \in Jobs : /\ Owes(x, e, i)' <=> Owes(x, e, i)
                        /\ Closes(x, e, i)' <=> Closes(x, e, i)
    <3> SUFFICES ASSUME NEW x \in Jobs
                 PROVE  /\ Owes(x, e, i)' <=> Owes(x, e, i)
                        /\ Closes(x, e, i)' <=> Closes(x, e, i)
      OBVIOUS
    <3> QED
      BY <1>1, <2>1, <2>2 DEF Owes, Closes, Costly, Arriving, Marking, MarksTask
  <2>4. Owing(e, i)' = Owing(e, i) /\ (FreeSpent(e, i) => FreeSpent(e, i)')
    BY <1>1, <2>3 DEF Owing, FreeSpent, Closing
  <2>5. Paid(e)' = Paid(e) /\ Paid(e) \in Nat
    BY <1>0, <1>1, <2>1, BudgetTypes DEF Paid
  <2>6. Paid(e)' >= Paid(e)
    BY <2>5
  <2> QED
    BY <1>0, <1>2, <2>4, <2>6, BudgetQuiet
<1> QED
  BY <1>3, <1>4

LEMMA BudgetStep ==
    ASSUME PInv, BInv, [Next]_vars
    PROVE  BInv'
<1>0. TypeOK /\ TypeOK'
  BY WorkerTypes DEF PInv
<1>1. ASSUME NEW j \in Jobs, Deliver(j) PROVE BInv'
  BY <1>0, <1>1, DeliverBudget
<1>2. ASSUME NEW j \in Jobs, Work(j) \/ Ask(j) PROVE BInv'
  <2>1. CASE HandlerCommits(j)
    BY <1>0, <2>1, CommitBudget
  <2>2. CASE Fallback(j)
    BY <1>0, <2>2, FallbackBudget
  <2>3. CASE HandlerFails(j) \/ HandlerRefuses(j) \/ HandlerAsks(j)
    BY <1>0, <2>3, BreakBudget
  <2>4. CASE Release(j)
    BY <1>0, <2>4, SharedBudget
  <2>5. CASE \/ Check(j) \/ Gate(j) \/ HandlerSucceeds(j) \/ Ask(j) \/ Mark(j) \/ Log(j)
             \/ OverflowCheck(j)
    BY <1>0, <2>5, QuietBudget
  <2> QED
    BY <1>2, <2>1, <2>2, <2>3, <2>4, <2>5 DEF Work
<1>3. ASSUME NEW j \in Jobs, CallFails(j) PROVE BInv'
  BY <1>0, <1>3, FaultBudget
<1>4. CASE (\E p \in Procs : Crash(p)) \/ Toggle \/ UNCHANGED vars
  BY <1>0, <1>4, SharedBudget
<1> QED
  BY <1>1, <1>2, <1>3, <1>4 DEF Next

\* base-worker.js: a part of an event's work is committed, and the event handed
\* to the staff, at most once beyond the incidents that can be named for it: a
\* crash, a failed bookkeeping call, an attempt that failed after committing
\* something, a delivery that came while an earlier one was at work.  Retries,
\* the pool, both overflow policies and the switch cost nothing of their own.
THEOREM RepeatsArePaid == Spec => []RepeatsArePaidFor
<1>1. PInv /\ BInv /\ [Next]_vars => (PInv /\ BInv)'
  BY PoolStep, BudgetStep
<1>2. Init => PInv /\ BInv
  BY PoolInit, BudgetInit
<1>3. PInv /\ BInv => RepeatsArePaidFor
  <2> SUFFICES ASSUME PInv, BInv, NEW e \in Events, NEW i \in 1 .. Parts
               PROVE  effects[e][i] + tasks[e] <= 1 + Paid(e)
    BY DEF RepeatsArePaidFor
  <2>1. /\ Spent(e, i) \in Nat /\ Paid(e) \in Nat /\ Cardinality(Owing(e, i)) \in Nat
        /\ Account(e, i)
    BY BudgetTypes DEF PInv, BInv
  <2>2. Spent(e, i) + Cardinality(Owing(e, i)) <= 1 + Paid(e)
    <3> DEFINE n == Cardinality(Owing(e, i))
               p == Paid(e)
    <3>1. Spent(e, i) + n <= p \/ Spent(e, i) + n <= p + 1
      BY <2>1 DEF Account
    <3> HIDE DEF n, p
    <3>2. n \in Nat /\ p \in Nat
      BY <2>1 DEF n, p
    <3>3. Spent(e, i) + n <= 1 + p
      BY <2>1, <3>1, <3>2
    <3> QED
      BY <3>3 DEF n, p
  <2>3. Spent(e, i) <= 1 + Paid(e)
    BY <2>1, <2>2
  <2> QED
    BY <2>3 DEF Spent
<1> QED
  BY <1>1, <1>2, <1>3, PTL DEF Spec

-----------------------------------------------------------------------------
(* Approved work: it is done at most once and only under a grant, and a     *)
(* refusal is final.  The pool's invariant is carried along, because it     *)
(* types the worker's state.                                                *)

\* A delivery of approval.granted that won the claim and has not given it up.
Holding(j) == grant[j] \in {"claimed", "handed", "gone", "goneMark"}

\* Steps from which a job's work may still be committed.
Early == {"absent", "queued", "check", "gate", "run"}

\* The attempt at hand has committed part i.
Reached(j, i) == pc[j] = "run" /\ part[j] >= i

\* The holder's event is claimed, only a claimed job reaches the actor, and a
\* holder that is not through finds of each part no more than its broken
\* attempts and the one at hand have left.
GrantSound(j) ==
    /\ grant[j] # "absent" => status[j[1]] = "GRANTED"
    /\ Holding(j) => j[1] \in resumed
    /\ pc[j] # "absent" => grant[j] = "handed"
    /\ Holding(j) /\ pc[j] \in Early /\ j[1] \in Gated =>
          \A i \in 1 .. Parts :
             effects[j[1]][i] <= torn[j[1]] + (IF Reached(j, i) THEN 1 ELSE 0)

OneHolder == \A j, k \in Grants : j[1] = k[1] /\ Holding(j) /\ Holding(k) => j = k

EventSound(e) ==
    /\ \A i \in 1 .. Parts :
          /\ effects[e][i] > 0 => status[e] = "GRANTED" /\ e \in resumed
          /\ effects[e][i] <= 1 + torn[e]
    /\ status[e] \in {"DENIED", "EXPIRED"} => e \in processed

QInv ==
    /\ \A j \in Grants : GrantSound(j)
    /\ OneHolder
    /\ \A e \in Gated : EventSound(e)

AInv == ApprovalTypeOK /\ PInv /\ QInv

LEMMA GrantJobs ==
    \A j : j \in Grants <=> j \in Jobs /\ Resuming(j)
BY DEF Grants

LEMMA GrantEvents == \A j \in Jobs : j[1] \in Events
BY DEF Jobs

-----------------------------------------------------------------------------
(* Types *)

\* The worker's part of a step: one of its own, or a change of its records.
Records ==
    /\ UNCHANGED <<pc, at, try, part, queue, running, effects, skipped, enabled>>
    /\ UNCHANGED <<crashes, torn, crossed, taskless>>
    /\ processed' \subseteq Events
    /\ tasks' \in [Events -> Nat]
    /\ faults' \in Nat

LEMMA RecordsKeepPool ==
    ASSUME PInv, Records
    PROVE  PInv'
<1>1. TypeOK'
  BY DEF PInv, TypeOK, Records
<1>2. PooledOnly' /\ PoolInv'
  BY PoolUntouched DEF Records
<1> QED
  BY <1>1, <1>2 DEF PInv

LEMMA WorkerPart ==
    ASSUME AInv, [NextApprovals]_allVars
    PROVE  [Next]_vars \/ Records
<1> USE DEF Next
<1>0. /\ processed \subseteq Events /\ tasks \in [Events -> Nat] /\ faults \in Nat
      /\ \A j \in Grants : j \in Jobs /\ j[1] \in Events
  BY GrantJobs, GrantEvents DEF AInv, PInv, TypeOK
<1>1. ASSUME NEW j \in Jobs, DeliverEvent(j) \/ JobStep(j) \/ RequestApproval(j) PROVE Next
  BY <1>1 DEF DeliverEvent, JobStep, RequestApproval
<1>2. ASSUME NEW j \in Jobs, CallFails(j) PROVE Next
  BY <1>2
<1>3. ASSUME NEW j \in Grants, GrantArrives(j) \/ Claim(j) PROVE [Next]_vars
  BY <1>3 DEF GrantArrives, Claim
<1>4. ASSUME NEW j \in Grants, Resume(j) PROVE [Next]_vars
  BY <1>0, <1>4 DEF Resume, Deliver
<1>5. ASSUME NEW j \in Grants, TaskForGone(j) PROVE Records
  BY <1>0, <1>5 DEF TaskForGone, jobs, pool, incidents, Records
<1>6. ASSUME NEW j \in Grants, Abandon(j) PROVE Records
  BY <1>0, <1>6 DEF Abandon, jobs, pool, incidents, Records
<1>7. ASSUME NEW j \in Grants, GrantFails(j) PROVE Records
  BY <1>0, <1>7 DEF GrantFails, jobs, pool, incidents, Records
<1>8. ASSUME NEW e \in Events, FallsDue(e) PROVE [Next]_vars
  BY <1>8 DEF FallsDue
<1>9. ASSUME NEW e \in Events, Decide(e) \/ Expire(e) PROVE Records
  BY <1>0, <1>9 DEF Decide, Expire, jobs, pool, incidents, Records
<1>10. ASSUME NEW p \in Procs, CrashProcess(p) PROVE Next
  BY <1>10 DEF CrashProcess
<1>11. ASSUME NEW p \in Procs, Unregister(p) PROVE [Next]_vars
  BY <1>11 DEF Unregister
<1>12. CASE Toggle \/ UNCHANGED allVars
  BY <1>12 DEF allVars
<1> QED
  BY <1>1, <1>2, <1>3, <1>4, <1>5, <1>6, <1>7, <1>8, <1>9, <1>10, <1>11, <1>12
  DEF NextApprovals, GrantStep

LEMMA ApprovalTypes ==
    ASSUME AInv, [NextApprovals]_allVars
    PROVE  PInv' /\ ApprovalTypeOK'
<1>1. PInv'
  BY WorkerPart, PoolStep, RecordsKeepPool DEF AInv
<1>0. ApprovalTypeOK /\ TypeOK' /\ \A j \in Grants : j \in Jobs /\ j[1] \in Events
  BY <1>1, GrantJobs, GrantEvents DEF AInv, PInv
<1> USE DEF ApprovalTypeOK, queueVars, approvalVars, GrantTo
<1>2. ASSUME NEW j \in Jobs, DeliverEvent(j) \/ JobStep(j) PROVE ApprovalTypeOK'
  BY <1>0, <1>2 DEF DeliverEvent, JobStep, Grants, Resuming
<1>3. ASSUME NEW j \in Jobs, RequestApproval(j) PROVE ApprovalTypeOK'
  BY <1>0, <1>3, GrantEvents DEF RequestApproval, Grants, Resuming
<1>4. ASSUME NEW j \in Jobs, CallFails(j) /\ UNCHANGED approvalVars PROVE ApprovalTypeOK'
  BY <1>0, <1>4 DEF Grants, Resuming
<1>5. ASSUME NEW j \in Grants, GrantArrives(j) \/ Claim(j) \/ Resume(j) PROVE ApprovalTypeOK'
  BY <1>0, <1>5 DEF GrantArrives, Claim, Resume, Grants, Resuming
<1>6. ASSUME NEW j \in Grants, TaskForGone(j) \/ Abandon(j) \/ GrantFails(j)
      PROVE ApprovalTypeOK'
  BY <1>0, <1>6 DEF TaskForGone, Abandon, GrantFails, Grants, Resuming
<1>7. ASSUME NEW e \in Events, FallsDue(e) \/ Decide(e) \/ Expire(e) PROVE ApprovalTypeOK'
  BY <1>0, <1>7 DEF FallsDue, Decide, Expire, Grants, Resuming
<1>8. ASSUME NEW p \in Procs, CrashProcess(p) \/ Unregister(p) PROVE ApprovalTypeOK'
  BY <1>0, <1>8 DEF CrashProcess, Unregister, Grants, Resuming
<1>9. ASSUME UNCHANGED approvalVars PROVE ApprovalTypeOK'
  <2>1. /\ status' = status /\ due' = due /\ resumed' = resumed /\ grant' = grant
        /\ registered' = registered
    BY <1>9
  <2>2. Grants' = Grants
    BY DEF Grants, Resuming
  <2> QED
    BY <1>0, <2>1, <2>2
<1>10. UNCHANGED allVars => UNCHANGED approvalVars
  BY DEF allVars
<1> QED
  BY <1>1, <1>10, <1>2, <1>3, <1>4, <1>5, <1>6, <1>7, <1>8, <1>9 DEF NextApprovals, GrantStep, JobStep

-----------------------------------------------------------------------------
(* The invariant *)

\* A job of a grant is only moved forward and never back to the start, an
\* attempt that is given up after a commit is counted, and so are all others.
Onward(x) ==
    /\ pc'[x] # "absent" => pc[x] # "absent"
    /\ pc'[x] \in Early =>
          /\ pc[x] \in Early
          /\ \A i \in 1 .. Parts :
                Reached(x, i) => Reached(x, i)' \/ torn'[x[1]] >= torn[x[1]] + 1

Forward ==
    /\ \A x \in Grants : Onward(x)
    /\ \A e \in Events : torn'[e] >= torn[e]

\* What is committed of a part stays within what is accounted for.
LEMMA AllowanceKept ==
    ASSUME TypeOK, TypeOK', Forward, NEW x \in Grants, NEW i \in 1 .. Parts,
           pc'[x] \in Early,
           effects'[x[1]][i] = effects[x[1]][i],
           effects[x[1]][i] <= torn[x[1]] + (IF Reached(x, i) THEN 1 ELSE 0)
    PROVE  effects'[x[1]][i] <= torn'[x[1]] + (IF Reached(x, i)' THEN 1 ELSE 0)
<1>1. PICK e \in Events : e = x[1]
  BY GrantJobs, GrantEvents
<1>2. effects[e][i] \in Nat /\ torn[e] \in Nat /\ torn'[e] \in Nat
  BY DEF TypeOK
<1>3. /\ torn'[e] >= torn[e]
      /\ Reached(x, i) => Reached(x, i)' \/ torn'[e] >= torn[e] + 1
      /\ effects[e][i] <= torn[e] + (IF Reached(x, i) THEN 1 ELSE 0)
  BY <1>1 DEF Forward, Onward
<1>4. effects[e][i] <= torn'[e] + (IF Reached(x, i)' THEN 1 ELSE 0)
  <2>1. CASE ~Reached(x, i)
    BY <1>2, <1>3, <2>1
  <2>2. CASE Reached(x, i)'
    BY <1>2, <1>3, <2>2
  <2>3. CASE torn'[e] >= torn[e] + 1
    BY <1>2, <1>3, <2>3
  <2> QED
    BY <1>3, <2>1, <2>2, <2>3
<1> QED
  BY <1>1, <1>4

\* A step that makes no new holder, hands nothing to the actor and does no
\* gated work keeps it.
LEMMA QuietStep ==
    ASSUME TypeOK, TypeOK', QInv, Forward,
           \A j \in Grants : grant'[j] # "absent" => status'[j[1]] = "GRANTED",
           \A j \in Grants : Holding(j)' => Holding(j),
           \A j \in Grants : grant[j] = "handed" => grant'[j] = "handed",
           \A e \in Gated : effects'[e] = effects[e],
           \A e \in Events : status[e] = "GRANTED" => status'[e] = "GRANTED",
           resumed \subseteq resumed',
           \A e \in Gated : status'[e] \in {"DENIED", "EXPIRED"} => e \in processed'
    PROVE  QInv'
<1>0. Grants' = Grants
  BY DEF Grants, Resuming
<1>1. ASSUME NEW j \in Grants PROVE GrantSound(j)'
  <2>1. /\ grant'[j] # "absent" => status'[j[1]] = "GRANTED"
        /\ Holding(j)' => j[1] \in resumed'
        /\ pc'[j] # "absent" => grant'[j] = "handed"
    BY DEF QInv, GrantSound, Forward, Onward
  <2>2. ASSUME Holding(j)', pc'[j] \in Early, j[1] \in Gated, NEW i \in 1 .. Parts
        PROVE  effects'[j[1]][i] <= torn'[j[1]] + (IF Reached(j, i)' THEN 1 ELSE 0)
    <3>1. Holding(j) /\ pc[j] \in Early
      BY <2>2 DEF Forward, Onward
    <3>2. effects[j[1]][i] <= torn[j[1]] + (IF Reached(j, i) THEN 1 ELSE 0)
      BY <2>2, <3>1 DEF QInv, GrantSound
    <3>3. effects'[j[1]][i] = effects[j[1]][i]
      BY <2>2
    <3> QED
      BY <2>2, <3>2, <3>3, AllowanceKept
  <2> QED
    BY <2>1, <2>2 DEF GrantSound
<1>2. OneHolder'
  BY <1>0 DEF QInv, OneHolder
<1>3. ASSUME NEW e \in Gated PROVE EventSound(e)'
  <2>1. EventSound(e) /\ effects'[e] = effects[e] /\ e \in Events
    BY DEF QInv
  <2>2. ASSUME NEW i \in 1 .. Parts
        PROVE  /\ effects'[e][i] > 0 => status'[e] = "GRANTED" /\ e \in resumed'
               /\ effects'[e][i] <= 1 + torn'[e]
    <3>1. effects[e][i] \in Nat /\ torn[e] \in Nat /\ torn'[e] \in Nat /\ torn'[e] >= torn[e]
      BY <2>1 DEF TypeOK, Forward
    <3>2. /\ effects[e][i] > 0 => status[e] = "GRANTED" /\ e \in resumed
          /\ effects[e][i] <= 1 + torn[e]
      BY <2>1 DEF EventSound
    <3>3. effects'[e][i] <= 1 + torn'[e]
      BY <2>1, <3>1, <3>2
    <3> QED
      BY <2>1, <3>2, <3>3
  <2> QED
    BY <2>2 DEF EventSound
<1> QED
  BY <1>0, <1>1, <1>2, <1>3 DEF QInv

LEMMA ForwardMove ==
    ASSUME TypeOK, NEW j \in Jobs, NEW s, pc' = [pc EXCEPT ![j] = s],
           \A x \in Jobs : x # j => part'[x] = part[x],
           \A e \in Events : torn'[e] >= torn[e],
           pc[j] # "absent" \/ ~Resuming(j),
           s \in Early => (pc[j] \in Early /\ pc[j] # "run") \/ ~Resuming(j)
    PROVE  Forward
<1>1. \A x \in Jobs : pc'[x] = IF x = j THEN s ELSE pc[x]
  BY DEF TypeOK
<1>2. ASSUME NEW x \in Grants PROVE Onward(x)
  <2>1. x \in Jobs /\ Resuming(x)
    BY GrantJobs
  <2>2. CASE x = j
    BY <1>1, <2>1, <2>2 DEF Onward, Reached
  <2>3. CASE x # j
    BY <1>1, <2>1, <2>3 DEF Onward, Reached
  <2> QED
    BY <2>2, <2>3
<1> QED
  BY <1>2 DEF Forward

\* A step that leaves the jobs and the count of broken attempts alone.
LEMMA ForwardStill ==
    ASSUME TypeOK, pc' = pc, part' = part, torn' = torn
    PROVE  Forward
<1>1. \A e \in Events : torn'[e] >= torn[e]
  BY DEF TypeOK
<1>2. \A x \in Grants : Onward(x)
  BY DEF Onward, Reached
<1> QED
  BY <1>1, <1>2 DEF Forward

\* Worker steps that do no work.
LEMMA WorkerQuiet ==
    ASSUME PInv, TypeOK', NEW j \in Jobs,
           \/ ~Resuming(j) /\ Deliver(j)
           \/ Work(j) /\ ~HandlerCommits(j)
           \/ Ask(j) \/ CallFails(j)
    PROVE  Forward /\ effects' = effects /\ processed \subseteq processed'
<1>0. TypeOK /\ j[1] \in Events
  BY GrantEvents DEF PInv
<1>00. torn' = torn => \A e \in Events : torn'[e] >= torn[e]
  BY <1>0 DEF TypeOK
<1>1. CASE ~Resuming(j) /\ Deliver(j)
  <2>1. \E s : pc' = [pc EXCEPT ![j] = s]
    BY <1>1 DEF Deliver, Handle, EnqueueStarts, EnqueueWaits, EnqueueOverflows, Goto
  <2>2. effects' = effects /\ processed' = processed /\ part' = part /\ torn' = torn
    BY <1>1 DEF Deliver, Handle, EnqueueStarts, EnqueueWaits, EnqueueOverflows, Arrives
  <2> QED
    BY <1>0, <1>00, <1>1, <2>1, <2>2, ForwardMove
<1>2. CASE Check(j) \/ Gate(j) \/ Ask(j) \/ Log(j) \/ OverflowCheck(j)
  <2>1. /\ pc[j] # "absent"
        /\ \E s : /\ pc' = [pc EXCEPT ![j] = s]
                  /\ s \in Early => pc[j] \in Early /\ pc[j] # "run"
    BY <1>2 DEF Check, Gate, Ask, Log, OverflowCheck, Goto, Returns, Early
  <2>2. effects' = effects /\ processed' = processed /\ part' = part /\ torn' = torn
    BY <1>2 DEF Check, Gate, Ask, Log, OverflowCheck, incidents
  <2> QED
    BY <1>0, <1>00, <2>1, <2>2, ForwardMove
<1>3. CASE Mark(j) \/ Fallback(j)
  <2>1. pc[j] # "absent" /\ \E s : pc' = [pc EXCEPT ![j] = s] /\ s \notin Early
    BY <1>3 DEF Mark, Fallback, AfterTask, Goto, Returns, Early
  <2>2. effects' = effects /\ processed \subseteq processed' /\ part' = part /\ torn' = torn
    BY <1>3 DEF Mark, Fallback, incidents
  <2> QED
    BY <1>0, <1>00, <2>1, <2>2, ForwardMove
<1>4. CASE HandlerSucceeds(j)
  <2>1. pc[j] = "run" /\ pc' = [pc EXCEPT ![j] = "mark"] /\ part' = [part EXCEPT ![j] = 0]
    BY <1>4 DEF HandlerSucceeds, LeavesRetry, Goto
  <2>2. effects' = effects /\ processed' = processed /\ torn' = torn
    BY <1>4 DEF HandlerSucceeds, incidents
  <2>3. \A x \in Jobs : x # j => part'[x] = part[x]
    BY <1>0, <2>1 DEF TypeOK
  <2> QED
    BY <1>0, <1>00, <2>1, <2>2, <2>3, ForwardMove DEF Early
<1>5. CASE HandlerFails(j) \/ HandlerRefuses(j) \/ HandlerAsks(j)
  <2>1. /\ pc[j] = "run" /\ effects' = effects /\ processed' = processed
        /\ torn' = IF part[j] > 0 THEN [torn EXCEPT ![j[1]] = @ + 1] ELSE torn
    BY <1>5 DEF HandlerFails, HandlerRefuses, HandlerAsks, AttemptBreaks
  <2>2. /\ pc' = pc \/ (\E s \in {"errTask", "ask"} : pc' = [pc EXCEPT ![j] = s])
        /\ part' = [part EXCEPT ![j] = 0]
    BY <1>5 DEF HandlerFails, HandlerRefuses, HandlerAsks, LeavesRetry, Goto
  <2>3. /\ torn \in [Events -> Nat] /\ part[j] \in 0 .. Parts
        /\ \A x \in Jobs : x # j => part'[x] = part[x]
    BY <1>0, <2>2 DEF TypeOK
  <2>4. \A e \in Events : torn'[e] >= torn[e]
    BY <1>0, <2>1, <2>3
  <2>5. part[j] > 0 => torn'[j[1]] >= torn[j[1]] + 1
    BY <1>0, <2>1, <2>3
  <2>6. CASE pc' = pc
    <3>1. \A i \in 1 .. Parts : Reached(j, i) => torn'[j[1]] >= torn[j[1]] + 1
      BY <2>3, <2>5 DEF Reached
    <3>2. ASSUME NEW x \in Grants PROVE Onward(x)
      <4>1. CASE x = j
        BY <2>6, <3>1, <4>1 DEF Onward
      <4>2. CASE x # j
        BY <2>3, <2>6, <4>2, GrantJobs DEF Onward, Reached
      <4> QED
        BY <4>1, <4>2
    <3> QED
      BY <2>1, <2>4, <3>2 DEF Forward
  <2>7. CASE \E s \in {"errTask", "ask"} : pc' = [pc EXCEPT ![j] = s]
    BY <1>0, <2>1, <2>3, <2>4, <2>7, ForwardMove DEF Early
  <2> QED
    BY <2>2, <2>6, <2>7
<1>6. CASE Release(j)
  <2>1. effects' = effects /\ processed' = processed /\ part' = part /\ torn' = torn
    BY <1>6 DEF Release, incidents
  <2>2. \A x \in Jobs : \/ pc'[x] = pc[x]
                        \/ pc[x] = "end" /\ pc'[x] = "done"
                        \/ pc[x] = "queued" /\ pc'[x] = "check"
    BY <1>0, <1>6, ReleaseShape DEF TypeOK
  <2>3. ASSUME NEW x \in Grants PROVE Onward(x)
    BY <2>1, <2>2, GrantJobs DEF Onward, Reached, Early
  <2> QED
    BY <1>00, <2>1, <2>3 DEF Forward
<1>7. CASE CallFails(j)
  <2>1. CallAt(pc[j]) # "none"
    BY <1>7 DEF CallFails, Calls
  <2>2. pc[j] # "absent"
    BY <2>1 DEF CallAt
  <2>3. \E s : pc' = [pc EXCEPT ![j] = s] /\ s \notin Early
    BY <1>7 DEF CallFails, Goto, Returns, Early
  <2>4. effects' = effects /\ processed' = processed /\ part' = part /\ torn' = torn
    BY <1>7 DEF CallFails
  <2> QED
    BY <1>0, <1>00, <2>2, <2>3, <2>4, ForwardMove
<1> QED
  BY <1>1, <1>2, <1>3, <1>4, <1>5, <1>6, <1>7 DEF Work

-----------------------------------------------------------------------------
(* The invariant holds *)

LEMMA QInit == InitApprovals => AInv
<1> SUFFICES ASSUME InitApprovals PROVE AInv
  OBVIOUS
<1>1. PInv
  BY PoolInit DEF InitApprovals
<1>2. ApprovalTypeOK
  BY <1>1 DEF InitApprovals, ApprovalTypeOK, PInv
<1>3. /\ \A j \in Jobs : pc[j] = "absent"
      /\ \A j \in Grants : grant[j] = "absent"
      /\ \A e \in Events : status[e] = "none" /\ torn[e] = 0
      /\ \A e \in Events, i \in 1 .. Parts : effects[e][i] = 0
  BY DEF InitApprovals, Init, Started
<1>4. ASSUME NEW j \in Grants PROVE GrantSound(j)
  BY <1>3, GrantJobs DEF GrantSound, Holding
<1>5. OneHolder
  BY <1>3 DEF OneHolder, Holding
<1>6. ASSUME NEW e \in Gated PROVE EventSound(e)
  BY <1>3 DEF EventSound
<1> QED
  BY <1>1, <1>2, <1>4, <1>5, <1>6 DEF AInv, QInv

\* What a worker step leaves of the approval queue's state.
LEMMA QuietWorker ==
    ASSUME TypeOK, TypeOK', QInv, Forward, \A e \in Gated : effects'[e] = effects[e],
           processed \subseteq processed', grant' = grant, resumed' = resumed,
           \A e \in Events : status'[e] = status[e] \/ (status'[e] = "PENDING" /\ status[e] = "none")
    PROVE  QInv'
<1>1. \A j \in Grants : j[1] \in Events
  BY GrantJobs, GrantEvents
<1>2. \A e \in Events : status[e] = "GRANTED" => status'[e] = "GRANTED"
  OBVIOUS
<1>3. ASSUME NEW j \in Grants PROVE grant'[j] # "absent" => status'[j[1]] = "GRANTED"
  BY <1>1, <1>2 DEF QInv, GrantSound
<1>4. \A e \in Gated : status'[e] \in {"DENIED", "EXPIRED"} => e \in processed'
  BY DEF QInv, EventSound
<1> QED
  BY <1>2, <1>3, <1>4, QuietStep DEF Holding

\* The actor commits work: gated work only for the holder, who finds of the
\* part at hand no more than broken attempts have left.
LEMMA WorkKeepsQ ==
    ASSUME AInv, TypeOK', NEW j \in Jobs, HandlerCommits(j), UNCHANGED approvalVars
    PROVE  QInv'
<1>1. TypeOK /\ QInv /\ j[1] \in Events
  BY GrantEvents DEF AInv, PInv
<1>2. /\ pc' = pc /\ pc[j] = "run"
      /\ part[j] \in 0 .. Parts /\ part[j] + 1 \in 1 .. Parts /\ part'[j] = part[j] + 1
      /\ \A x \in Jobs : x # j => part'[x] = part[x]
      /\ \A e \in Events, i \in 1 .. Parts :
            effects'[e][i] = IF e = j[1] /\ i = part[j] + 1
                             THEN effects[e][i] + 1 ELSE effects[e][i]
  BY <1>1, CommitShape
<1>3. processed' = processed /\ torn' = torn /\ (j[1] \in Gated => Resuming(j))
  BY DEF HandlerCommits, incidents
<1>4. status' = status /\ grant' = grant /\ resumed' = resumed
  BY DEF approvalVars
<1>5. \A i \in 1 .. Parts : Reached(j, i) => Reached(j, i)'
  BY <1>2 DEF Reached
<1>6. CASE j[1] \notin Gated
  <2>1. \A e \in Gated : effects'[e] = effects[e]
    BY <1>6 DEF HandlerCommits
  <2>2. \A x \in Grants : Onward(x)
    <3>1. ASSUME NEW x \in Grants PROVE Onward(x)
      <4>1. CASE x = j
        BY <1>2, <1>5, <4>1 DEF Onward
      <4>2. CASE x # j
        BY <1>2, <4>2, GrantJobs DEF Onward, Reached
      <4> QED
        BY <4>1, <4>2
    <3> QED
      BY <3>1
  <2>3. Forward
    BY <1>1, <1>3, <2>2 DEF Forward, TypeOK
  <2>4. processed \subseteq processed' /\ \A e \in Events : status'[e] = status[e]
    BY <1>3, <1>4
  <2> QED
    BY <1>1, <1>4, <2>1, <2>3, <2>4, QuietWorker
<1>7. CASE j[1] \in Gated
  <2>1. j \in Grants /\ Grants' = Grants
    BY <1>3, <1>7, GrantJobs DEF Grants, Resuming
  <2>2. /\ grant[j] = "handed" /\ Holding(j)
        /\ status[j[1]] = "GRANTED" /\ j[1] \in resumed
        /\ \A i \in 1 .. Parts :
              effects[j[1]][i] <= torn[j[1]] + (IF Reached(j, i) THEN 1 ELSE 0)
    <3>1. GrantSound(j) /\ pc[j] \in Early /\ pc[j] # "absent"
      BY <1>1, <1>2, <2>1 DEF QInv, Early
    <3> QED
      BY <1>7, <3>1 DEF GrantSound, Holding
  <2>3. \A i \in 1 .. Parts : effects[j[1]][i] \in Nat /\ torn[j[1]] \in Nat
    <3>1. effects \in [Events -> [1 .. Parts -> Nat]] /\ torn \in [Events -> Nat]
      BY <1>1 DEF TypeOK
    <3> QED
      BY <1>1, <3>1
  <2>4. ASSUME NEW i \in 1 .. Parts
        PROVE  /\ effects'[j[1]][i] <= torn[j[1]] + (IF Reached(j, i)' THEN 1 ELSE 0)
               /\ effects'[j[1]][i] <= 1 + torn[j[1]]
    <3>1. CASE i = part[j] + 1
      <4>1. ~Reached(j, i) /\ Reached(j, i)'
        BY <1>2, <3>1 DEF Reached
      <4>2. effects[j[1]][i] <= torn[j[1]] /\ effects'[j[1]][i] = effects[j[1]][i] + 1
        BY <1>1, <1>2, <2>2, <2>3, <3>1, <4>1
      <4>3. effects'[j[1]][i] <= torn[j[1]] + 1
        BY <2>3, <4>2
      <4> QED
        BY <2>3, <4>1, <4>3
    <3>2. CASE i # part[j] + 1
      <4>1. effects'[j[1]][i] = effects[j[1]][i]
        BY <1>1, <1>2, <3>2
      <4>2. CASE Reached(j, i)'
        BY <2>2, <2>3, <4>1, <4>2
      <4>3. CASE ~Reached(j, i)'
        BY <1>5, <2>2, <2>3, <4>1, <4>3
      <4> QED
        BY <4>2, <4>3
    <3> QED
      BY <3>1, <3>2
  <2>5. ASSUME NEW x \in Grants PROVE GrantSound(x)'
    <3>0. GrantSound(x) /\ pc'[x] = pc[x] /\ x \in Jobs /\ x[1] \in Events
      BY <1>1, <1>2, GrantJobs, GrantEvents DEF QInv
    <3>1. CASE x = j
      BY <1>3, <1>4, <2>2, <2>4, <3>0, <3>1 DEF GrantSound, Holding
    <3>2. CASE x # j /\ x[1] = j[1]
      <4>1. ~Holding(x)
        BY <1>1, <2>1, <2>2, <3>2 DEF QInv, OneHolder
      <4> QED
        BY <1>4, <3>0, <4>1 DEF GrantSound, Holding
    <3>3. CASE x[1] # j[1]
      <4>1. \A i \in 1 .. Parts : /\ effects'[x[1]][i] = effects[x[1]][i]
                                  /\ Reached(x, i)' <=> Reached(x, i)
        BY <1>2, <3>0, <3>3 DEF Reached
      <4> QED
        BY <1>3, <1>4, <3>0, <4>1 DEF GrantSound, Holding
    <3> QED
      BY <3>1, <3>2, <3>3
  <2>6. OneHolder'
    BY <1>1, <1>4, <2>1 DEF QInv, OneHolder, Holding
  <2>7. ASSUME NEW e \in Gated PROVE EventSound(e)'
    <3>1. CASE e = j[1]
      BY <1>1, <1>3, <1>4, <2>2, <2>4, <3>1 DEF QInv, EventSound
    <3>2. CASE e # j[1]
      <4>1. e \in Events /\ \A i \in 1 .. Parts : effects'[e][i] = effects[e][i]
        BY <1>2, <3>2
      <4> QED
        BY <1>1, <1>3, <1>4, <4>1 DEF QInv, EventSound
    <3> QED
      BY <3>1, <3>2
  <2> QED
    BY <2>1, <2>5, <2>6, <2>7 DEF QInv
<1> QED
  BY <1>6, <1>7

\* Claim: the first delivery to claim becomes the only holder.
LEMMA ClaimKeepsQ ==
    ASSUME AInv, NEW j \in Grants, Claim(j)
    PROVE  QInv'
<1>1. /\ grant[j] = "found" /\ resumed' = resumed \cup {j[1]}
      /\ grant' = [grant EXCEPT ![j] = IF j[1] \in resumed THEN "ended" ELSE "claimed"]
      /\ status' = status /\ pc' = pc /\ effects' = effects /\ processed' = processed
      /\ part' = part /\ torn' = torn
  BY DEF Claim, GrantTo, vars, jobs, incidents
<1>2. QInv /\ TypeOK /\ grant \in [Grants -> {"absent", "found", "claimed", "handed", "gone",
                                     "goneMark", "ended", "lost"}]
  BY DEF AInv, ApprovalTypeOK
<1>3. Grants' = Grants /\ \A x \in Grants : x # j => grant'[x] = grant[x]
  BY <1>1, <1>2 DEF Grants, Resuming
<1>4. /\ status[j[1]] = "GRANTED" /\ pc[j] = "absent" /\ j[1] \in Events
      /\ j[1] \in Gated /\ j[1] \notin resumed =>
            \A i \in 1 .. Parts : effects[j[1]][i] <= torn[j[1]]
  <2>1. GrantSound(j) /\ j \in Jobs /\ j[1] \in Events
    BY <1>2, GrantJobs, GrantEvents DEF QInv
  <2>2. ASSUME j[1] \in Gated, j[1] \notin resumed, NEW i \in 1 .. Parts
        PROVE  effects[j[1]][i] <= torn[j[1]]
    <3>1. ~(effects[j[1]][i] > 0)
      BY <1>2, <2>2 DEF QInv, EventSound
    <3>2. effects[j[1]][i] \in Nat /\ torn[j[1]] \in Nat
      BY <1>2, <2>1 DEF TypeOK
    <3> QED
      BY <3>1, <3>2
  <2> QED
    BY <1>1, <2>1, <2>2 DEF GrantSound
<1>5. ASSUME NEW x \in Grants PROVE GrantSound(x)'
  <2>1. CASE x = j
    <3>1. grant'[j] = IF j[1] \in resumed THEN "ended" ELSE "claimed"
      BY <1>1, <1>2
    <3>2. \A i \in 1 .. Parts : ~Reached(j, i)'
      BY <1>1, <1>4 DEF Reached
    <3>3. \A i \in 1 .. Parts : effects'[j[1]][i] = effects[j[1]][i] /\ torn[j[1]] \in Nat
      BY <1>1, <1>2, <1>4 DEF TypeOK
    <3>4. CASE j[1] \in resumed
      BY <1>1, <1>4, <2>1, <3>1, <3>4 DEF GrantSound, Holding
    <3>5. CASE j[1] \notin resumed
      <4>1. ASSUME j[1] \in Gated, NEW i \in 1 .. Parts
            PROVE  effects'[j[1]][i] <= torn'[j[1]] + (IF Reached(j, i)' THEN 1 ELSE 0)
        BY <1>1, <1>4, <3>2, <3>3, <3>5, <4>1
      <4> QED
        BY <1>1, <1>4, <2>1, <3>1, <3>5, <4>1 DEF GrantSound, Holding
    <3> QED
      BY <3>4, <3>5
  <2>2. CASE x # j
    BY <1>1, <1>2, <1>3, <2>2 DEF QInv, GrantSound, Holding, Reached
  <2> QED
    BY <2>1, <2>2
<1>6. OneHolder'
  <2>1. ASSUME NEW x \in Grants, NEW y \in Grants, x[1] = y[1], Holding(x)', Holding(y)'
        PROVE  x = y
    <3>1. grant'[j] = IF j[1] \in resumed THEN "ended" ELSE "claimed"
      BY <1>1, <1>2
    <3>2. CASE x # j /\ y # j
      BY <1>2, <1>3, <2>1, <3>2 DEF QInv, OneHolder, Holding
    <3>3. CASE x = j /\ y # j
      <4>1. j[1] \notin resumed /\ Holding(y)
        BY <1>3, <2>1, <3>1, <3>3 DEF Holding
      <4> QED
        BY <1>2, <2>1, <3>3, <4>1 DEF QInv, GrantSound
    <3>4. CASE x # j /\ y = j
      <4>1. j[1] \notin resumed /\ Holding(x)
        BY <1>3, <2>1, <3>1, <3>4 DEF Holding
      <4> QED
        BY <1>2, <2>1, <3>4, <4>1 DEF QInv, GrantSound
    <3> QED
      BY <3>2, <3>3, <3>4
  <2> QED
    BY <1>3, <2>1 DEF OneHolder
<1>7. ASSUME NEW e \in Gated PROVE EventSound(e)'
  BY <1>1, <1>2 DEF QInv, EventSound
<1> QED
  BY <1>3, <1>5, <1>6, <1>7 DEF QInv

\* Resume: the holder's job is handed to the actor, or set aside.
LEMMA ResumeKeepsQ ==
    ASSUME AInv, NEW j \in Grants, Resume(j)
    PROVE  QInv'
<1>1. /\ grant[j] = "claimed" /\ status' = status /\ resumed' = resumed
      /\ \/ pc' = [pc EXCEPT ![j] = "check"] /\ grant' = [grant EXCEPT ![j] = "handed"]
         \/ pc' = pc /\ grant' = [grant EXCEPT ![j] = "gone"]
      /\ effects' = effects /\ processed' = processed /\ part' = part /\ torn' = torn
  BY DEF Resume, Handle, Arrives, Goto, GrantTo, queueVars, vars, jobs, incidents
<1>2. /\ QInv /\ TypeOK /\ j \in Jobs
      /\ grant \in [Grants -> {"absent", "found", "claimed", "handed", "gone",
                               "goneMark", "ended", "lost"}]
  BY GrantJobs DEF AInv, ApprovalTypeOK
<1>3. /\ Grants' = Grants /\ \A x \in Grants : x \in Jobs
      /\ \A x \in Grants : x # j => grant'[x] = grant[x] /\ pc'[x] = pc[x]
  BY <1>1, <1>2, GrantJobs DEF Grants, Resuming, TypeOK
<1>4. grant'[j] \in {"handed", "gone"} /\ (pc'[j] # "absent" => grant'[j] = "handed")
  <2>1. pc[j] = "absent"
    BY <1>1, <1>2 DEF QInv, GrantSound
  <2>2. CASE pc' = [pc EXCEPT ![j] = "check"] /\ grant' = [grant EXCEPT ![j] = "handed"]
    BY <1>2, <2>2
  <2>3. CASE pc' = pc /\ grant' = [grant EXCEPT ![j] = "gone"]
    BY <1>2, <2>1, <2>3
  <2> QED
    BY <1>1, <2>2, <2>3
<1>5. GrantSound(j) /\ Holding(j) /\ pc[j] = "absent" /\ pc[j] \in Early
  BY <1>1, <1>2 DEF QInv, GrantSound, Holding, Early
<1>6. ASSUME NEW x \in Grants PROVE GrantSound(x)'
  <2>1. CASE x = j
    <3>1. \A i \in 1 .. Parts : ~Reached(j, i) /\ ~Reached(j, i)'
      <4>1. pc'[j] \in {"absent", "check"}
        BY <1>1, <1>2, <1>5 DEF TypeOK
      <4> QED
        BY <1>5, <4>1 DEF Reached
    <3> QED
      BY <1>1, <1>4, <1>5, <2>1, <3>1 DEF GrantSound, Holding
  <2>2. CASE x # j
    BY <1>1, <1>2, <1>3, <2>2 DEF QInv, GrantSound, Holding, Reached
  <2> QED
    BY <2>1, <2>2
<1>7. \A x \in Grants : Holding(x)' => Holding(x)
  BY <1>3, <1>5 DEF Holding
<1>8. OneHolder'
  BY <1>2, <1>3, <1>7 DEF QInv, OneHolder
<1>9. ASSUME NEW e \in Gated PROVE EventSound(e)'
  BY <1>1, <1>2 DEF QInv, EventSound
<1> QED
  BY <1>3, <1>6, <1>8, <1>9 DEF QInv

\* Every other step of the queue is quiet.
LEMMA QueueKeepsQ ==
    ASSUME AInv, ApprovalTypeOK', TypeOK',
           \/ \E j \in Grants : GrantArrives(j) \/ TaskForGone(j) \/ Abandon(j) \/ GrantFails(j)
           \/ \E e \in Events : FallsDue(e) \/ Decide(e) \/ Expire(e)
           \/ \E p \in Procs : Unregister(p)
    PROVE  QInv'
<1> USE DEF queueVars, vars, jobs, pool, incidents
<1>1. /\ QInv /\ TypeOK /\ status \in [Events -> {"none", "PENDING", "GRANTED", "DENIED", "EXPIRED"}]
      /\ grant \in [Grants -> {"absent", "found", "claimed", "handed", "gone",
                               "goneMark", "ended", "lost"}]
      /\ \A x \in Grants : x \in Jobs /\ x[1] \in Events
  BY GrantJobs, GrantEvents DEF AInv, ApprovalTypeOK
<1>2. ASSUME NEW j \in Grants, GrantArrives(j) \/ TaskForGone(j) \/ Abandon(j) \/ GrantFails(j)
      PROVE  QInv'
  <2>1. /\ pc' = pc /\ effects' = effects /\ status' = status /\ resumed' = resumed
        /\ processed \subseteq processed' /\ part' = part /\ torn' = torn
    BY <1>2 DEF GrantArrives, TaskForGone, Abandon, GrantFails
  <2>2. /\ \A x \in Grants : x # j => grant'[x] = grant[x]
        /\ grant[j] # "handed"
        /\ Holding(j)' => Holding(j)
        /\ grant'[j] # "absent" => status[j[1]] = "GRANTED"
    <3>1. CASE GrantArrives(j)
      BY <1>1, <3>1 DEF GrantArrives, GrantTo, Holding
    <3>2. CASE TaskForGone(j)
      BY <1>1, <3>2 DEF TaskForGone, GrantTo, Holding, QInv, GrantSound
    <3>3. CASE Abandon(j)
      BY <1>1, <3>3 DEF Abandon, GrantTo, Holding, QInv, GrantSound
    <3>4. CASE GrantFails(j)
      BY <1>1, <3>4 DEF GrantFails, GrantTo, Holding
    <3> QED
      BY <1>2, <3>1, <3>2, <3>3, <3>4
  <2>3. \A x \in Grants : /\ grant'[x] # "absent" => status'[x[1]] = "GRANTED"
                          /\ Holding(x)' => Holding(x)
                          /\ grant[x] = "handed" => grant'[x] = "handed"
    BY <1>1, <2>1, <2>2 DEF QInv, GrantSound, Holding
  <2>4. \A e \in Gated : status'[e] \in {"DENIED", "EXPIRED"} => e \in processed'
    BY <1>1, <2>1 DEF QInv, EventSound
  <2> QED
    BY <1>1, <2>1, <2>3, <2>4, QuietStep, ForwardStill
<1>3. ASSUME NEW e \in Events, FallsDue(e) \/ Decide(e) \/ Expire(e)
      PROVE  QInv'
  <2>1. /\ pc' = pc /\ effects' = effects /\ resumed' = resumed /\ grant' = grant
        /\ processed \subseteq processed' /\ status[e] = "PENDING"
        /\ part' = part /\ torn' = torn
        /\ \A x \in Events : x # e => status'[x] = status[x]
        /\ status'[e] \in {"DENIED", "EXPIRED"} => e \in processed'
    <3>1. CASE FallsDue(e)
      BY <1>1, <3>1 DEF FallsDue
    <3>2. CASE Decide(e)
      BY <1>1, <3>2 DEF Decide
    <3>3. CASE Expire(e)
      BY <1>1, <3>3 DEF Expire
    <3> QED
      BY <1>3, <3>1, <3>2, <3>3
  <2>2. \A x \in Events : status[x] = "GRANTED" => status'[x] = "GRANTED"
    BY <2>1
  <2>3. \A x \in Grants : grant'[x] # "absent" => status'[x[1]] = "GRANTED"
    BY <1>1, <2>1, <2>2 DEF QInv, GrantSound
  <2>4. \A x \in Gated : status'[x] \in {"DENIED", "EXPIRED"} => x \in processed'
    BY <1>1, <2>1 DEF QInv, EventSound
  <2> QED
    BY <1>1, <2>1, <2>2, <2>3, <2>4, QuietStep, ForwardStill DEF Holding
<1>4. ASSUME NEW p \in Procs, Unregister(p) PROVE QInv'
  <2>1. /\ pc' = pc /\ effects' = effects /\ resumed' = resumed /\ grant' = grant
        /\ processed' = processed /\ status' = status /\ part' = part /\ torn' = torn
    BY <1>4 DEF Unregister
  <2>2. Forward /\ processed \subseteq processed'
    BY <1>1, <2>1, ForwardStill
  <2> QED
    BY <1>1, <2>1, <2>2, QuietWorker
<1> QED
  BY <1>2, <1>3, <1>4

LEMMA CrashKeepsQ ==
    ASSUME AInv, TypeOK', NEW p \in Procs, CrashProcess(p)
    PROVE  QInv'
<1>1. /\ \A x \in Jobs : \/ pc'[x] = "lost" /\ pc[x] # "absent"
                         \/ pc'[x] = pc[x] /\ part'[x] = part[x]
      /\ torn' = torn
      /\ effects' = effects /\ processed' = processed
      /\ status' = status /\ resumed' = resumed
      /\ \A x \in Grants : \/ grant'[x] = grant[x]
                           \/ grant'[x] = "lost" /\ grant[x] \notin {"absent", "handed"}
  <2>1. \A x \in Jobs : \/ pc'[x] = "lost" /\ pc[x] # "absent"
                        \/ pc'[x] = pc[x] /\ part'[x] = part[x]
    BY DEF CrashProcess, Crash, Active
  <2>2. /\ torn' = torn /\ effects' = effects /\ processed' = processed
        /\ status' = status /\ resumed' = resumed
    BY DEF CrashProcess, Crash, queueVars
  <2>3. \A x \in Grants : \/ grant'[x] = grant[x]
                          \/ grant'[x] = "lost" /\ grant[x] \notin {"absent", "handed"}
    BY DEF CrashProcess
  <2> QED
    BY <2>1, <2>2, <2>3
<1>2. TypeOK /\ QInv /\ \A x \in Grants : x \in Jobs /\ x[1] \in Events
  BY GrantJobs, GrantEvents DEF AInv, PInv
<1>3. Forward
  <2>1. \A e \in Events : torn'[e] >= torn[e]
    BY <1>1, <1>2 DEF TypeOK
  <2>2. \A x \in Grants : Onward(x)
    BY <1>1, <1>2 DEF Onward, Early, Reached
  <2> QED
    BY <2>1, <2>2 DEF Forward
<1>4. \A x \in Grants : /\ grant'[x] # "absent" => status'[x[1]] = "GRANTED"
                        /\ Holding(x)' => Holding(x)
                        /\ grant[x] = "handed" => grant'[x] = "handed"
  BY <1>1, <1>2 DEF QInv, GrantSound, Holding
<1>5. \A e \in Gated : status'[e] \in {"DENIED", "EXPIRED"} => e \in processed'
  BY <1>1, <1>2 DEF QInv, EventSound
<1> QED
  BY <1>1, <1>2, <1>3, <1>4, <1>5, QuietStep

LEMMA QStep ==
    ASSUME AInv, [NextApprovals]_allVars
    PROVE  AInv'
<1>1. PInv' /\ ApprovalTypeOK'
  BY ApprovalTypes
<1>2. QInv /\ PInv /\ TypeOK /\ TypeOK'
  BY <1>1 DEF AInv, PInv
<1>3. ASSUME NEW j \in Jobs,
             \/ DeliverEvent(j)
             \/ JobStep(j) /\ ~HandlerCommits(j)
             \/ CallFails(j) /\ UNCHANGED approvalVars
      PROVE QInv'
  <2>1. /\ \/ ~Resuming(j) /\ Deliver(j)
           \/ Work(j) /\ ~HandlerCommits(j)
           \/ CallFails(j)
        /\ UNCHANGED approvalVars
    BY <1>3 DEF DeliverEvent, JobStep
  <2>2. Forward /\ effects' = effects /\ processed \subseteq processed'
    BY <1>2, <2>1, WorkerQuiet
  <2>3. status' = status /\ grant' = grant /\ resumed' = resumed
    BY <2>1 DEF approvalVars
  <2> QED
    BY <1>2, <2>2, <2>3, QuietWorker
<1>4. ASSUME NEW j \in Jobs, JobStep(j), HandlerCommits(j) PROVE QInv'
  BY <1>2, <1>4, WorkKeepsQ DEF JobStep
<1>5. ASSUME NEW j \in Jobs, RequestApproval(j) PROVE QInv'
  <2>1. Forward /\ effects' = effects /\ processed \subseteq processed'
    BY <1>2, <1>5, WorkerQuiet DEF RequestApproval
  <2>2. /\ grant' = grant /\ resumed' = resumed
        /\ \A e \in Events : \/ status'[e] = status[e]
                             \/ status'[e] = "PENDING" /\ status[e] = "none"
    BY <1>5, GrantEvents DEF RequestApproval, AInv, ApprovalTypeOK
  <2> QED
    BY <1>2, <2>1, <2>2, QuietWorker
<1>6. ASSUME (Toggle /\ UNCHANGED approvalVars) \/ UNCHANGED allVars PROVE QInv'
  <2>1. /\ status' = status /\ grant' = grant /\ resumed' = resumed
        /\ pc' = pc /\ effects' = effects /\ processed' = processed
        /\ part' = part /\ torn' = torn
    BY <1>6 DEF Toggle, allVars, approvalVars, vars, jobs, incidents
  <2>2. Forward /\ processed \subseteq processed'
    BY <1>2, <2>1, ForwardStill
  <2> QED
    BY <1>2, <2>1, <2>2, QuietWorker
<1>7. ASSUME NEW j \in Grants, GrantArrives(j) \/ GrantStep(j) \/ GrantFails(j) PROVE QInv'
  <2>1. CASE Claim(j)
    BY <2>1, ClaimKeepsQ
  <2>2. CASE Resume(j)
    BY <2>2, ResumeKeepsQ
  <2>3. CASE GrantArrives(j) \/ TaskForGone(j) \/ Abandon(j) \/ GrantFails(j)
    BY <1>1, <1>2, <2>3, QueueKeepsQ
  <2> QED
    BY <1>7, <2>1, <2>2, <2>3 DEF GrantStep
<1>8. ASSUME NEW e \in Events, FallsDue(e) \/ Decide(e) \/ Expire(e) PROVE QInv'
  BY <1>1, <1>2, <1>8, QueueKeepsQ
<1>9. ASSUME NEW p \in Procs, CrashProcess(p) \/ Unregister(p) PROVE QInv'
  <2>1. CASE CrashProcess(p)
    BY <1>2, <2>1, CrashKeepsQ
  <2>2. CASE Unregister(p)
    BY <1>1, <1>2, <2>2, QueueKeepsQ
  <2> QED
    BY <1>9, <2>1, <2>2
<1>10. QInv'
  BY <1>3, <1>4, <1>5, <1>6, <1>7, <1>8, <1>9 DEF NextApprovals
<1> QED
  BY <1>1, <1>10 DEF AInv

-----------------------------------------------------------------------------
(* The theorems *)

\* The worker's and the queue's state keep their types.
THEOREM ApprovalTypeCorrect == SpecApprovals => []ApprovalTypeOK
<1>1. AInv => ApprovalTypeOK
  BY DEF AInv
<1> QED
  BY <1>1, QInit, QStep, PTL DEF SpecApprovals

\* approval.js, claimPendingAction: gated work is only ever done under a grant, by
\* a delivery that claimed it, and by no other, however many deliveries bring
\* the grant, on however many processes, whoever crashes and whatever fails: a
\* part is committed again only after an attempt that failed half done.
THEOREM GrantWorksOnce == SpecApprovals => []GrantedWorkOnce
<1>1. AInv => GrantedWorkOnce
  BY DEF AInv, QInv, EventSound, GrantedWorkOnce
<1> QED
  BY <1>1, QInit, QStep, PTL DEF SpecApprovals

\* decideApproval and expireOne: a refused or expired request is closed for
\* its actor in the same transaction and its work is never done.
THEOREM RefusalCloses == SpecApprovals => []RefusedIsClosed
<1>1. AInv => RefusedIsClosed
  <2> SUFFICES ASSUME AInv, NEW e \in Gated, status[e] \in {"DENIED", "EXPIRED"}
               PROVE  e \in processed /\ \A i \in 1 .. Parts : effects[e][i] = 0
    BY DEF RefusedIsClosed
  <2>1. EventSound(e)
    BY DEF AInv, QInv
  <2>2. ASSUME NEW i \in 1 .. Parts PROVE effects[e][i] = 0
    <3>1. ~(effects[e][i] > 0) /\ effects[e][i] \in Nat
      BY <2>1 DEF EventSound, AInv, PInv, TypeOK
    <3> QED
      BY <3>1
  <2> QED
    BY <2>1, <2>2 DEF EventSound
<1> QED
  BY <1>1, QInit, QStep, PTL DEF SpecApprovals

\* decideApproval looks at the status and at expiresAt under the row's lock:
\* no later step changes a decision, and an overdue request is never granted.
THEOREM DecisionsAreFinal == SpecApprovals => DecisionIsFinal
<1> DEFINE Final ==
      \A e \in Events :
          /\ status[e] \in {"GRANTED", "DENIED", "EXPIRED"} => status'[e] = status[e]
          /\ e \in due /\ status'[e] = "GRANTED" => status[e] = "GRANTED"
<1>1. ASSUME AInv, [NextApprovals]_allVars PROVE Final
  <2>0. status \in [Events -> {"none", "PENDING", "GRANTED", "DENIED", "EXPIRED"}]
    BY <1>1 DEF AInv, ApprovalTypeOK
  <2>1. CASE UNCHANGED status
    BY <2>1
  <2>2. CASE \E j \in Jobs : RequestApproval(j)
    BY <2>0, <2>2, GrantEvents DEF RequestApproval
  <2>3. CASE \E e \in Events : Decide(e) \/ Expire(e)
    BY <2>0, <2>3 DEF Decide, Expire
  <2>4. NextApprovals => \/ UNCHANGED status
                         \/ \E j \in Jobs : RequestApproval(j)
                         \/ \E e \in Events : Decide(e) \/ Expire(e)
    BY DEF NextApprovals, DeliverEvent, JobStep, GrantStep, GrantArrives, Claim, Resume,
       TaskForGone, Abandon, GrantFails, FallsDue, CrashProcess, Unregister, approvalVars,
       queueVars
  <2>5. UNCHANGED allVars => UNCHANGED status
    BY DEF allVars, approvalVars
  <2> QED
    BY <1>1, <2>1, <2>2, <2>3, <2>4, <2>5
<1>2. AInv /\ [NextApprovals]_allVars => AInv'
  BY QStep
<1>3. InitApprovals => AInv
  BY QInit
<1>4. AInv /\ [NextApprovals]_allVars => Final
  BY <1>1
<1> HIDE DEF Final
<1>5. SpecApprovals => [][Final]_allVars
  BY <1>2, <1>3, <1>4, PTL DEF SpecApprovals
<1> QED
  BY <1>5 DEF Final, DecisionIsFinal
=============================================================================
