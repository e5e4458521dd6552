--------------------------- MODULE DeliveryProofs ---------------------------
(* What becomes of a committed change.  The outbox, for any number of       *)
(* processes, writes, staged events, attempts, crashes and relay batches.   *)
(* The sales channel its events keep in step, for any horizon, any values   *)
(* and any number of changes, incidents and reads of the list.              *)
EXTENDS Outbox, ChannelSync, SequenceTheorems, TLAPS

(****************************************************************************)
(* The outbox                                                               *)
(****************************************************************************)

USE OutboxAssumption

LEMMA TypeInit == Init => TypeOK
<1> SUFFICES ASSUME Init PROVE TypeOK
  OBVIOUS
<1>1. <<>> \in Seq(EventIds) /\ 1 \in Attempts
  BY DEF Attempts
<1> QED
  BY <1>1 DEF Init, TypeOK, WriterStates

LEMMA TypeStep == TypeOK /\ [Next]_vars => TypeOK'
<1> SUFFICES ASSUME TypeOK, [Next]_vars PROVE TypeOK'
  OBVIOUS
<1> USE DEF TypeOK, WriterStates, writes
<1>1. ASSUME NEW w \in Writes, Begin(w) PROVE TypeOK'
  BY <1>1 DEF Begin
<1>2. ASSUME NEW w \in Writes, Stage(w) PROVE TypeOK'
  <2>1. <<w, attempt[w], Len(staged[w]) + 1>> \in EventIds
    BY <1>2 DEF Stage, EventIds, Slots
  <2>2. Append(staged[w], <<w, attempt[w], Len(staged[w]) + 1>>) \in Seq(EventIds)
    BY <2>1
  <2> QED
    BY <1>2, <2>2 DEF Stage
<1>3. ASSUME NEW w \in Writes, Commit(w) PROVE TypeOK'
  BY <1>3 DEF Commit
<1>4. ASSUME NEW w \in Writes, Retry(w) PROVE TypeOK'
  <2>1. <<>> \in Seq(EventIds) /\ attempt[w] + 1 \in Attempts
    BY <1>4 DEF Retry, Attempts
  <2> QED
    BY <1>4, <2>1 DEF Retry
<1>5. ASSUME NEW w \in Writes, Fail(w) PROVE TypeOK'
  BY <1>5 DEF Fail
<1>6. ASSUME NEW w \in Writes, Dispatch(w) PROVE TypeOK'
  <2> DEFINE x == staged[w][next[w]]
  <2>1. requested' = [requested EXCEPT ![x] = @ + 1]
    BY <1>6 DEF Dispatch
  <2> HIDE DEF x
  <2>2. ASSUME NEW e \in EventIds PROVE requested'[e] \in Nat
    <3>1. requested'[e] = requested[e] \/ requested'[e] = requested[e] + 1
      BY <2>1
    <3> QED
      BY <3>1
  <2>3. requested' \in [EventIds -> Nat]
    BY <2>1, <2>2
  <2>4. next' \in [Writes -> Nat] /\ pc' \in [Writes -> WriterStates]
    BY <1>6 DEF Dispatch
  <2> QED
    BY <1>6, <2>3, <2>4, Zenon DEF Dispatch
<1>7. ASSUME NEW w \in Writes, Mark(w) PROVE TypeOK'
  BY <1>7 DEF Mark
<1>8. ASSUME NEW w \in Writes, MarkFails(w) PROVE TypeOK'
  BY <1>8 DEF MarkFails
<1>9. ASSUME NEW w \in Writes, Age(w) PROVE TypeOK'
  BY <1>9 DEF Age
<1>10. ASSUME NEW p \in Procs, RelayClaim(p) PROVE TypeOK'
  BY <1>10 DEF RelayClaim, Claim, RelayDue
<1>11. ASSUME NEW p \in Procs, RelayDispatch(p) PROVE TypeOK'
  BY <1>11 DEF RelayDispatch
<1>12. ASSUME NEW p \in Procs, Crash(p) PROVE TypeOK'
  BY <1>12 DEF Crash
<1>13. CASE UNCHANGED vars
  BY <1>13 DEF vars
<1> QED
  BY <1>1, <1>2, <1>3, <1>4, <1>5, <1>6, <1>7, <1>8, <1>9, <1>10, <1>11, <1>12,
     <1>13 DEF Next

\* The variables keep their types: the typing the other proofs rest on.
THEOREM TypeCorrect == Spec => []TypeOK
BY TypeInit, TypeStep, PTL DEF Spec

-----------------------------------------------------------------------------
(* The inductive invariant.  None of the three safety properties is         *)
(* inductive: they need to know which envelopes a write carries, how far it *)
(* has dispatched them, and that a claimed row is out of everyone's reach.  *)

PostCommit == {"dispatch", "mark", "done"}

\* The envelopes a write carries are those of its current attempt.
StagedOf(w) ==
    /\ Len(staged[w]) <= EventsPerWrite
    /\ \A i \in 1 .. Len(staged[w]) : staged[w][i] = <<w, attempt[w], i>>
    /\ pc[w] \in PostCommit => Len(staged[w]) = EventsPerWrite
    /\ pc[w] \in {"idle", "tx"} => next[w] = 1
    /\ pc[w] = "dispatch" => next[w] \in 1 .. EventsPerWrite
    /\ pc[w] = "mark" => next[w] = EventsPerWrite + 1

StagedInv == \A w \in Writes : StagedOf(w)

\* A row is there only if it belongs to the attempt that committed.
LogInv ==
    \A e \in EventIds :
        log[e] # "none" => /\ e[2] = attempt[e[1]]
                           /\ pc[e[1]] \in PostCommit \cup {"crashed"}

\* The request has dispatched a prefix of the envelopes, each of them once.
RequestInv ==
    \A e \in EventIds :
        /\ requested[e] <= 1
        /\ requested[e] > 0 => log[e] # "none" /\ e[3] < next[e[1]]
        /\ (pc[e[1]] \in {"dispatch", "mark"} /\ e[2] = attempt[e[1]]) =>
              /\ log[e] # "none"
              /\ e[3] < next[e[1]] => requested[e] > 0

\* A row passes through the hands of one relay, once, after it was marked.
RelayInv ==
    \A e \in EventIds :
        /\ relayed[e] <= 1
        /\ relayed[e] > 0 => log[e] = "published"
        /\ \A p \in Procs : e \in claimed[p] =>
              /\ log[e] = "published"
              /\ relayed[e] = 0
              /\ \A q \in Procs : e \in claimed[q] => p = q

OutboxInv ==
    /\ TypeOK
    /\ StagedInv
    /\ LogInv
    /\ RequestInv
    /\ RelayInv
    /\ PublishedIsSent

LEMMA EventParts ==
    \A e \in EventIds : /\ e = <<e[1], e[2], e[3]>>
                        /\ e[1] \in Writes
                        /\ e[2] \in Nat
                        /\ e[3] \in 1 .. EventsPerWrite
BY DEF EventIds, Attempts, Slots

LEMMA OutboxInit == Init => OutboxInv
<1> SUFFICES ASSUME Init PROVE OutboxInv
  OBVIOUS
<1>1. TypeOK
  BY TypeInit
<1>2. StagedInv
  BY DEF Init, StagedInv, StagedOf, PostCommit
<1>3. LogInv /\ RequestInv /\ RelayInv /\ PublishedIsSent
  BY <1>1 DEF Init, LogInv, RequestInv, RelayInv, PublishedIsSent, EventIds
<1> QED
  BY <1>1, <1>2, <1>3 DEF OutboxInv

LEMMA OutboxStep == OutboxInv /\ [Next]_vars => OutboxInv'
<1> SUFFICES ASSUME OutboxInv, [Next]_vars PROVE OutboxInv'
  OBVIOUS
<1>t. TypeOK'
  BY TypeStep DEF OutboxInv
<1> USE DEF OutboxInv, TypeOK, WriterStates, PostCommit, writes
<1>1. ASSUME NEW w \in Writes, Begin(w) PROVE OutboxInv'
  <2>1. StagedInv'
    BY <1>1, <1>t DEF Begin, StagedInv, StagedOf
  <2>2. LogInv'
    BY <1>1, <1>t DEF Begin, LogInv, EventIds
  <2>3. RequestInv'
    BY <1>1, <1>t DEF Begin, RequestInv, EventIds, LogInv, StagedInv, StagedOf
  <2>4. RelayInv'
    BY <1>1, <1>t DEF Begin, RelayInv, EventIds
  <2>5. PublishedIsSent'
    BY <1>1, <1>t DEF Begin, PublishedIsSent, Sent, Holders, EventIds
  <2> QED
    BY <1>t, <2>1, <2>2, <2>3, <2>4, <2>5
<1>2. ASSUME NEW w \in Writes, Stage(w) PROVE OutboxInv'
  <2>1. StagedInv'
    <3> SUFFICES ASSUME NEW v \in Writes PROVE StagedOf(v)'
      BY DEF StagedInv
    <3>o. StagedOf(v) /\ StagedOf(w)
      BY DEF StagedInv
    <3>1. CASE v # w
      <4>1. /\ pc'[v] = pc[v] /\ attempt'[v] = attempt[v]
            /\ staged'[v] = staged[v] /\ next'[v] = next[v]
        BY <1>2, <3>1 DEF Stage
      <4> QED
        BY <3>o, <4>1 DEF StagedOf
    <3>2. CASE v = w
      <4>1. /\ pc[w] = "tx" /\ pc'[w] = "tx" /\ next'[w] = next[w]
            /\ attempt'[w] = attempt[w] /\ Len(staged[w]) < EventsPerWrite
            /\ staged'[w] = Append(staged[w], <<w, attempt[w], Len(staged[w]) + 1>>)
        BY <1>2 DEF Stage
      <4>2. Len(staged'[w]) = Len(staged[w]) + 1
        BY <4>1
      <4>3. \A i \in 1 .. Len(staged'[w]) : staged'[w][i] = <<w, attempt[w], i>>
        BY <3>o, <4>1, <4>2 DEF StagedOf
      <4> QED
        BY <3>2, <3>o, <4>1, <4>2, <4>3 DEF StagedOf
    <3> QED
      BY <3>1, <3>2
  <2>2. LogInv'
    BY <1>2, <1>t DEF Stage, LogInv, EventIds
  <2>3. RequestInv'
    BY <1>2, <1>t DEF Stage, RequestInv, EventIds
  <2>4. RelayInv'
    BY <1>2, <1>t DEF Stage, RelayInv, EventIds
  <2>5. PublishedIsSent'
    BY <1>2, <1>t DEF Stage, PublishedIsSent, Sent, Holders, EventIds
  <2> QED
    BY <1>t, <2>1, <2>2, <2>3, <2>4, <2>5
<1>3. ASSUME NEW w \in Writes, Commit(w) PROVE OutboxInv'
  <2> DEFINE mine == {e \in EventIds : e[1] = w /\ e[2] = attempt[w]}
  <2>0. \A e \in EventIds : e[1] = w => log[e] = "none" /\ requested[e] = 0
    <3> SUFFICES ASSUME NEW e \in EventIds, e[1] = w
                 PROVE  log[e] = "none" /\ requested[e] = 0
      OBVIOUS
    <3>1. log[e] = "none"
      BY <1>3 DEF Commit, LogInv
    <3>2. ~(requested[e] > 0) /\ requested[e] \in Nat
      BY <3>1 DEF RequestInv
    <3> QED
      BY <3>1, <3>2
  <2>n. /\ \A e \in mine : log'[e] = "open" /\ relayed[e] = 0
        /\ \A e \in EventIds \ mine : log'[e] = log[e]
        /\ \A p \in Procs : \A e \in mine : e \notin claimed[p]
    <3>1. /\ \A e \in mine : log'[e] = "open"
          /\ \A e \in EventIds \ mine : log'[e] = log[e]
      BY <1>3 DEF Commit
    <3>2. \A e \in mine : relayed[e] = 0
      <4> SUFFICES ASSUME NEW e \in mine PROVE relayed[e] = 0
        OBVIOUS
      <4>1. ~(relayed[e] > 0) /\ relayed[e] \in Nat
        BY <2>0 DEF RelayInv
      <4> QED
        BY <4>1
    <3>3. \A p \in Procs : \A e \in mine : e \notin claimed[p]
      BY <2>0 DEF RelayInv
    <3> QED
      BY <3>1, <3>2, <3>3
  <2>1. StagedInv'
    <3> SUFFICES ASSUME NEW v \in Writes PROVE StagedOf(v)'
      BY DEF StagedInv
    <3>o. StagedOf(v) /\ StagedOf(w)
      BY DEF StagedInv
    <3>1. CASE v # w
      <4>1. /\ pc'[v] = pc[v] /\ attempt'[v] = attempt[v]
            /\ staged'[v] = staged[v] /\ next'[v] = next[v]
        BY <1>3, <3>1 DEF Commit
      <4> QED
        BY <3>o, <4>1 DEF StagedOf
    <3>2. CASE v = w
      <4>1. /\ pc[w] = "tx" /\ pc'[w] = "dispatch" /\ next'[w] = next[w]
            /\ attempt'[w] = attempt[w] /\ staged'[w] = staged[w]
            /\ Len(staged[w]) = EventsPerWrite
        BY <1>3 DEF Commit
      <4> QED
        BY <3>2, <3>o, <4>1 DEF StagedOf
    <3> QED
      BY <3>1, <3>2
  <2>2. LogInv'
    BY <1>3, <1>t, <2>n DEF Commit, LogInv
  <2>3. RequestInv'
    <3> SUFFICES ASSUME NEW e \in EventIds
                 PROVE  /\ requested[e] <= 1
                        /\ requested[e] > 0 => log'[e] # "none" /\ e[3] < next[e[1]]
                        /\ (pc'[e[1]] \in {"dispatch", "mark"} /\ e[2] = attempt[e[1]]) =>
                              /\ log'[e] # "none"
                              /\ e[3] < next[e[1]] => requested[e] > 0
      BY <1>3 DEF Commit, RequestInv
    <3>1. CASE e[1] = w
      <4>1. next[w] = 1 /\ ~(e[3] < 1)
        BY <1>3, EventParts DEF Commit, StagedInv, StagedOf
      <4>2. e[2] = attempt[w] => log'[e] = "open"
        BY <2>n, <3>1
      <4> QED
        BY <2>0, <3>1, <4>1, <4>2
    <3>2. CASE e[1] # w
      <4>1. pc'[e[1]] = pc[e[1]] /\ log'[e] = log[e]
        BY <1>3, <2>n, <3>2, EventParts DEF Commit
      <4> QED
        BY <4>1 DEF RequestInv
    <3> QED
      BY <3>1, <3>2
  <2>4. RelayInv'
    BY <1>3, <1>t, <2>n DEF Commit, RelayInv
  <2>5. PublishedIsSent'
    BY <1>3, <1>t, <2>n DEF Commit, PublishedIsSent, Sent, Holders
  <2> QED
    BY <1>t, <2>1, <2>2, <2>3, <2>4, <2>5
<1>4. ASSUME NEW w \in Writes, Retry(w) PROVE OutboxInv'
  <2>1. StagedInv'
    BY <1>4, <1>t DEF Retry, StagedInv, StagedOf
  <2>2. LogInv'
    BY <1>4, <1>t DEF Retry, LogInv, EventIds
  <2>3. RequestInv'
    BY <1>4, <1>t DEF Retry, RequestInv, EventIds, LogInv, StagedInv, StagedOf
  <2>4. RelayInv'
    BY <1>4, <1>t DEF Retry, RelayInv, EventIds
  <2>5. PublishedIsSent'
    BY <1>4, <1>t DEF Retry, PublishedIsSent, Sent, Holders, EventIds
  <2> QED
    BY <1>t, <2>1, <2>2, <2>3, <2>4, <2>5
<1>5. ASSUME NEW w \in Writes, Fail(w) PROVE OutboxInv'
  <2>1. StagedInv'
    BY <1>5, <1>t DEF Fail, StagedInv, StagedOf
  <2>2. LogInv'
    BY <1>5, <1>t DEF Fail, LogInv, EventIds
  <2>3. RequestInv'
    BY <1>5, <1>t DEF Fail, RequestInv, EventIds, LogInv, StagedInv, StagedOf
  <2>4. RelayInv'
    BY <1>5, <1>t DEF Fail, RelayInv, EventIds
  <2>5. PublishedIsSent'
    BY <1>5, <1>t DEF Fail, PublishedIsSent, Sent, Holders, EventIds
  <2> QED
    BY <1>t, <2>1, <2>2, <2>3, <2>4, <2>5
<1>6. ASSUME NEW w \in Writes, Dispatch(w) PROVE OutboxInv'
  <2> DEFINE ev == <<w, attempt[w], next[w]>>
  <2>0. /\ next[w] \in 1 .. EventsPerWrite
        /\ Len(staged[w]) = EventsPerWrite
        /\ staged[w][next[w]] = ev
        /\ ev \in EventIds
    BY <1>6 DEF Dispatch, StagedInv, StagedOf, EventIds, Slots
  <2>n. /\ requested[ev] = 0
        /\ log[ev] # "none"
        /\ requested' = [requested EXCEPT ![ev] = 1]
    <3>1. ev[1] = w /\ ev[2] = attempt[w] /\ ev[3] = next[w] /\ ~(next[w] < next[w])
      BY <2>0
    <3>2. ~(requested[ev] > 0) /\ requested[ev] \in Nat /\ log[ev] # "none"
      BY <1>6, <2>0, <3>1 DEF Dispatch, RequestInv
    <3>3. requested' = [requested EXCEPT ![ev] = @ + 1]
      BY <1>6, <2>0 DEF Dispatch
    <3>4. requested[ev] = 0
      BY <3>2
    <3> QED
      BY <3>2, <3>3, <3>4
  <2>1. StagedInv'
    <3> SUFFICES ASSUME NEW v \in Writes PROVE StagedOf(v)'
      BY DEF StagedInv
    <3>o. StagedOf(v) /\ StagedOf(w)
      BY DEF StagedInv
    <3>1. CASE v # w
      <4>1. /\ pc'[v] = pc[v] /\ attempt'[v] = attempt[v]
            /\ staged'[v] = staged[v] /\ next'[v] = next[v]
        BY <1>6, <3>1 DEF Dispatch
      <4> QED
        BY <3>o, <4>1 DEF StagedOf
    <3>2. CASE v = w
      <4>1. /\ pc[w] = "dispatch" /\ next'[w] = next[w] + 1
            /\ attempt'[w] = attempt[w] /\ staged'[w] = staged[w]
            /\ pc'[w] = IF next[w] = Len(staged[w]) THEN "mark" ELSE "dispatch"
        BY <1>6 DEF Dispatch
      <4>2. next[w] \in 1 .. EventsPerWrite /\ Len(staged[w]) = EventsPerWrite
        BY <2>0
      <4> QED
        BY <3>2, <3>o, <4>1, <4>2 DEF StagedOf
    <3> QED
      BY <3>1, <3>2
  <2>2. LogInv'
    BY <1>6, <1>t DEF Dispatch, LogInv
  <2>3. RequestInv'
    <3> SUFFICES ASSUME NEW e \in EventIds
                 PROVE  /\ requested'[e] <= 1
                        /\ requested'[e] > 0 => log[e] # "none" /\ e[3] < next'[e[1]]
                        /\ (pc'[e[1]] \in {"dispatch", "mark"} /\ e[2] = attempt[e[1]]) =>
                              /\ log[e] # "none"
                              /\ e[3] < next'[e[1]] => requested'[e] > 0
      BY <1>6 DEF Dispatch, RequestInv
    <3>1. CASE e = ev
      BY <1>6, <2>0, <2>n, <3>1 DEF Dispatch
    <3>2. CASE e # ev
      <4>1. requested'[e] = requested[e]
        BY <2>n, <3>2
      <4>2. CASE e[1] # w
        <5>1. next'[e[1]] = next[e[1]] /\ pc'[e[1]] = pc[e[1]]
          BY <1>6, <4>2, EventParts DEF Dispatch
        <5> QED
          BY <4>1, <5>1 DEF RequestInv
      <4>3. CASE e[1] = w
        <5>1. next'[w] = next[w] + 1 /\ next[w] \in Nat /\ pc[w] = "dispatch" /\ e[3] \in Nat
          BY <1>6, EventParts DEF Dispatch
        <5>2. e[2] = attempt[w] => e[3] # next[w]
          BY <3>2, <4>3, EventParts
        <5>3. /\ requested[e] <= 1
              /\ requested[e] > 0 => log[e] # "none" /\ e[3] < next[w]
              /\ e[2] = attempt[w] =>
                    /\ log[e] # "none"
                    /\ e[3] < next[w] => requested[e] > 0
          BY <4>3, <5>1 DEF RequestInv
        <5> QED
          BY <4>1, <4>3, <5>1, <5>2, <5>3
      <4> QED
        BY <4>2, <4>3
    <3> QED
      BY <3>1, <3>2
  <2>4. RelayInv'
    BY <1>6, <1>t DEF Dispatch, RelayInv
  <2>5. PublishedIsSent'
    <3>1. \A e \in EventIds : Sent(e) => Sent(e)'
      BY <2>n, <1>6 DEF Sent, Dispatch
    <3> QED
      BY <1>6, <3>1 DEF Dispatch, PublishedIsSent, Holders
  <2> QED
    BY <1>t, <2>1, <2>2, <2>3, <2>4, <2>5
<1>7. ASSUME NEW w \in Writes, Mark(w) PROVE OutboxInv'
  <2>0. \A e \in StagedSet(w) : e \in EventIds => e[1] = w /\ requested[e] > 0
    <3> SUFFICES ASSUME NEW i \in 1 .. Len(staged[w]), staged[w][i] \in EventIds
                 PROVE  staged[w][i][1] = w /\ requested[staged[w][i]] > 0
      BY DEF StagedSet
    <3>1. staged[w][i] = <<w, attempt[w], i>> /\ i < next[w]
      BY <1>7 DEF Mark, StagedInv, StagedOf
    <3> QED
      <4>1. /\ staged[w][i][1] = w /\ staged[w][i][2] = attempt[w]
            /\ staged[w][i][3] < next[w] /\ pc[w] = "mark"
        BY <1>7, <3>1 DEF Mark
      <4> QED
        BY <4>1 DEF RequestInv
  <2>n. \A e \in EventIds : log'[e] # log[e] => /\ log'[e] = "published"
                                                /\ log[e] = "open"
                                                /\ requested[e] > 0
    BY <1>7, <2>0 DEF Mark
  <2>1. StagedInv'
    BY <1>7, <1>t DEF Mark, StagedInv, StagedOf
  <2>2. LogInv'
    BY <1>7, <1>t, <2>n DEF Mark, LogInv
  <2>3. RequestInv'
    BY <1>7, <1>t, <2>n DEF Mark, RequestInv
  <2>4. RelayInv'
    BY <1>7, <1>t, <2>n DEF Mark, RelayInv
  <2>5. PublishedIsSent'
    BY <1>7, <1>t, <2>n DEF Mark, PublishedIsSent, Sent, Holders
  <2> QED
    BY <1>t, <2>1, <2>2, <2>3, <2>4, <2>5
<1>8. ASSUME NEW w \in Writes, MarkFails(w) PROVE OutboxInv'
  <2>1. StagedInv'
    BY <1>8, <1>t DEF MarkFails, StagedInv, StagedOf
  <2>2. LogInv'
    BY <1>8, <1>t DEF MarkFails, LogInv, EventIds
  <2>3. RequestInv'
    BY <1>8, <1>t DEF MarkFails, RequestInv, EventIds
  <2>4. RelayInv'
    BY <1>8, <1>t DEF MarkFails, RelayInv, EventIds
  <2>5. PublishedIsSent'
    BY <1>8, <1>t DEF MarkFails, PublishedIsSent, Sent, Holders, EventIds
  <2> QED
    BY <1>t, <2>1, <2>2, <2>3, <2>4, <2>5
<1>9. ASSUME NEW w \in Writes, Age(w) PROVE OutboxInv'
  <2>1. StagedInv'
    BY <1>9, <1>t DEF Age, StagedInv, StagedOf
  <2>2. LogInv'
    BY <1>9, <1>t DEF Age, LogInv, EventIds
  <2>3. RequestInv'
    BY <1>9, <1>t DEF Age, RequestInv, EventIds
  <2>4. RelayInv'
    BY <1>9, <1>t DEF Age, RelayInv, EventIds
  <2>5. PublishedIsSent'
    BY <1>9, <1>t DEF Age, PublishedIsSent, Sent, Holders, EventIds
  <2> QED
    BY <1>t, <2>1, <2>2, <2>3, <2>4, <2>5
<1>10. ASSUME NEW p \in Procs, RelayClaim(p) PROVE OutboxInv'
  <2>0. PICK batch \in SUBSET RelayDue : Claim(p, batch)
    BY <1>10 DEF RelayClaim
  <2>n. /\ \A e \in batch : e \in EventIds /\ log[e] = "open" /\ log'[e] = "published"
        /\ \A e \in EventIds \ batch : log'[e] = log[e]
        /\ claimed' = [claimed EXCEPT ![p] = batch]
        /\ claimed[p] = {}
        /\ UNCHANGED <<writes, requested, relayed, dropped>>
    BY <2>0 DEF Claim, RelayDue
  <2>1. StagedInv'
    BY <2>n DEF StagedInv, StagedOf
  <2>2. LogInv'
    BY <2>n, <1>t DEF LogInv
  <2>3. RequestInv'
    BY <2>n, <1>t DEF RequestInv
  <2>4. RelayInv'
    BY <2>n, <1>t DEF RelayInv
  <2>5. PublishedIsSent'
    BY <2>n, <1>t DEF PublishedIsSent, Sent, Holders
  <2> QED
    BY <1>t, <2>1, <2>2, <2>3, <2>4, <2>5
<1>11. ASSUME NEW p \in Procs, RelayDispatch(p) PROVE OutboxInv'
  <2>1. StagedInv'
    BY <1>11, <1>t DEF RelayDispatch, StagedInv, StagedOf
  <2>2. LogInv'
    BY <1>11, <1>t DEF RelayDispatch, LogInv, EventIds
  <2>3. RequestInv'
    BY <1>11, <1>t DEF RelayDispatch, RequestInv, EventIds
  <2>4. RelayInv'
    BY <1>11, <1>t DEF RelayDispatch, RelayInv, EventIds
  <2>5. PublishedIsSent'
    BY <1>11, <1>t DEF RelayDispatch, PublishedIsSent, Sent, Holders, EventIds, RelayInv
  <2> QED
    BY <1>t, <2>1, <2>2, <2>3, <2>4, <2>5
<1>12. ASSUME NEW p \in Procs, Crash(p) PROVE OutboxInv'
  <2>1. StagedInv'
    BY <1>12, <1>t DEF Crash, StagedInv, StagedOf
  <2>2. LogInv'
    BY <1>12, <1>t DEF Crash, LogInv, EventIds
  <2>3. RequestInv'
    BY <1>12, <1>t DEF Crash, RequestInv, EventIds, LogInv, StagedInv, StagedOf
  <2>4. RelayInv'
    BY <1>12, <1>t DEF Crash, RelayInv, EventIds
  <2>5. PublishedIsSent'
    BY <1>12, <1>t DEF Crash, PublishedIsSent, Sent, Holders, EventIds, RelayInv
  <2> QED
    BY <1>t, <2>1, <2>2, <2>3, <2>4, <2>5
<1>13. CASE UNCHANGED vars
  BY <1>13, <1>t DEF vars, StagedInv, StagedOf, LogInv, RequestInv, RelayInv, PublishedIsSent,
     Sent, Holders
<1> QED
  BY <1>1, <1>2, <1>3, <1>4, <1>5, <1>6, <1>7, <1>8, <1>9, <1>10, <1>11, <1>12, <1>13 DEF Next

\* The inductive invariant holds in every reachable state.
THEOREM OutboxInvariant == Spec => []OutboxInv
BY OutboxInit, OutboxStep, PTL DEF Spec

\* No event of a rolled-back attempt reaches a subscriber, whichever path it
\* would take (lib/write.js, lib/outbox.js).
THEOREM CommittedOnly == Spec => []OnlyCommittedIsSent
<1>1. OutboxInv => OnlyCommittedIsSent
  <2> SUFFICES ASSUME OutboxInv, NEW e \in EventIds, Sent(e)
               PROVE  log[e] # "none"
    BY DEF OutboxInv, OnlyCommittedIsSent, LogInv, PostCommit
  <2>1. requested[e] > 0 \/ relayed[e] > 0
    BY DEF Sent, OutboxInv, TypeOK
  <2> QED
    BY <2>1 DEF OutboxInv, RequestInv, RelayInv
<1> QED
  BY <1>1, OutboxInvariant, PTL

\* However many processes relay, a row leaves at most once per path.
THEOREM NoDoubleDispatch == Spec => []DispatchedAtMostOncePerPath
<1>1. OutboxInv => DispatchedAtMostOncePerPath
  BY DEF OutboxInv, RequestInv, RelayInv, DispatchedAtMostOncePerPath, Holders
<1> QED
  BY <1>1, OutboxInvariant, PTL

\* The publish mark comes before a dispatch only in the hands of a relay: a
\* marked row nobody received was claimed by a relay that died.
THEOREM MarkedIsSent == Spec => []PublishedIsSent
<1>1. OutboxInv => PublishedIsSent
  BY DEF OutboxInv
<1> QED
  BY <1>1, OutboxInvariant, PTL

-----------------------------------------------------------------------------
(* The outbox implements the delivery contract of AtLeastOnce: a commit is  *)
(* CommitEvents, a dispatch of either path is Deliver, the rest stutters.   *)

Committed == {e \in EventIds : log[e] # "none"}
Delivered == [e \in EventIds |-> requested[e] + relayed[e]]

LEMMA PromiseInit == Init => Promise!Init
BY DEF Init, Promise!Init

LEMMA PromiseStep == OutboxInv /\ [Next]_vars => [Promise!Next]_(Promise!absVars)
<1> SUFFICES ASSUME OutboxInv, [Next]_vars
             PROVE  Promise!Next \/ UNCHANGED <<Committed, Delivered>>
  BY DEF Promise!absVars, Committed, Delivered
<1> USE DEF OutboxInv, TypeOK
<1>1. ASSUME NEW w \in Writes, Commit(w) PROVE Promise!CommitEvents
  <2> DEFINE es == {e \in EventIds : e[1] = w /\ e[2] = attempt[w]}
  <2>1. es \subseteq EventIds \ Committed
    BY <1>1 DEF Commit, LogInv, PostCommit, Committed
  <2>2. <<w, attempt[w], 1>> \in es
    BY DEF EventIds, Slots
  <2>3. Committed' = Committed \cup es
    BY <1>1 DEF Commit, Committed
  <2>4. Delivered' = Delivered
    BY <1>1 DEF Commit, Delivered
  <2> QED
    BY <2>1, <2>2, <2>3, <2>4 DEF Promise!CommitEvents, Committed, Delivered
<1>2. ASSUME NEW w \in Writes, Dispatch(w) PROVE \E e \in EventIds : Promise!Deliver(e)
  <2> DEFINE ev == <<w, attempt[w], next[w]>>
  <2>1. staged[w][next[w]] = ev /\ ev \in EventIds
    BY <1>2 DEF Dispatch, StagedInv, StagedOf, PostCommit, EventIds, Slots
  <2>2. ev[1] = w /\ ev[2] = attempt[w] /\ ev[3] = next[w] /\ ~(next[w] < next[w])
    BY <2>1
  <2>3. log[ev] # "none" /\ ~(requested[ev] > 0) /\ relayed[ev] <= 1
    BY <1>2, <2>1, <2>2 DEF Dispatch, RequestInv, RelayInv
  <2>4. requested' = [requested EXCEPT ![ev] = @ + 1] /\ log' = log /\ relayed' = relayed
    BY <1>2, <2>1 DEF Dispatch
  <2>5. Delivered' = [Delivered EXCEPT ![ev] = @ + 1] /\ Delivered[ev] < 2
    <3>1. requested[ev] = 0 /\ relayed[ev] \in {0, 1}
      BY <2>1, <2>3
    <3>2. \A f \in EventIds : Delivered'[f] = IF f = ev THEN Delivered[f] + 1 ELSE Delivered[f]
      <4> HIDE DEF ev
      <4> QED
        BY <2>1, <2>4 DEF Delivered
    <3>3. Delivered' = [f \in EventIds |-> Delivered'[f]]
      BY DEF Delivered
    <3>4. Delivered = [f \in EventIds |-> Delivered[f]] /\ Delivered[ev] < 2
      BY <2>1, <3>1 DEF Delivered
    <3> HIDE DEF ev
    <3> QED
      BY <3>2, <3>3, <3>4
  <2> QED
    BY <2>1, <2>3, <2>4, <2>5
    DEF Promise!Deliver, Promise!MaxDeliveries, Committed, Delivered
<1>3. ASSUME NEW p \in Procs, RelayDispatch(p) PROVE \E e \in EventIds : Promise!Deliver(e)
  <2>1. PICK e \in claimed[p] : relayed' = [relayed EXCEPT ![e] = @ + 1]
    BY <1>3 DEF RelayDispatch
  <2>2. log' = log /\ requested' = requested
    BY <1>3 DEF RelayDispatch
  <2>3. e \in EventIds /\ log[e] # "none" /\ relayed[e] = 0 /\ requested[e] <= 1
    BY <2>1 DEF RelayInv, RequestInv
  <2>4. Delivered' = [Delivered EXCEPT ![e] = @ + 1] /\ Delivered[e] < 2
    <3>1. requested[e] \in {0, 1}
      BY <2>3
    <3>2. \A f \in EventIds : Delivered'[f] = IF f = e THEN Delivered[f] + 1 ELSE Delivered[f]
      BY <2>1, <2>2, <2>3 DEF Delivered
    <3>3. Delivered' = [f \in EventIds |-> Delivered'[f]]
      BY DEF Delivered
    <3>4. Delivered = [f \in EventIds |-> Delivered[f]] /\ Delivered[e] < 2
      BY <2>3, <3>1 DEF Delivered
    <3> QED
      BY <3>2, <3>3, <3>4
  <2> QED
    BY <2>2, <2>3, <2>4
    DEF Promise!Deliver, Promise!MaxDeliveries, Committed, Delivered
<1>4. ASSUME NEW w \in Writes,
             \/ Begin(w) \/ Stage(w) \/ Retry(w) \/ Fail(w) \/ MarkFails(w) \/ Age(w)
      PROVE  UNCHANGED <<Committed, Delivered>>
  BY <1>4 DEF Begin, Stage, Retry, Fail, MarkFails, Age, writes, Committed, Delivered
<1>5. ASSUME NEW w \in Writes, Mark(w) PROVE UNCHANGED <<Committed, Delivered>>
  BY <1>5 DEF Mark, Committed, Delivered
<1>6. ASSUME NEW p \in Procs, RelayClaim(p) \/ Crash(p)
      PROVE  UNCHANGED <<Committed, Delivered>>
  BY <1>6 DEF RelayClaim, Claim, RelayDue, Crash, writes, Committed, Delivered
<1>7. CASE UNCHANGED vars
  BY <1>7 DEF vars, Committed, Delivered
<1> QED
  BY <1>1, <1>2, <1>3, <1>4, <1>5, <1>6, <1>7 DEF Next, Promise!Next

\* Every behaviour of the outbox is one the contract of the bus allows: an
\* event is delivered only after its commit, and at most twice.
THEOREM OutboxImplementsPromise == Spec => ImplementsAtLeastOnce
BY PromiseInit, PromiseStep, OutboxInvariant, PTL
DEF Spec, ImplementsAtLeastOnce, Promise!Spec

(****************************************************************************)
(* The sales channel                                                        *)
(****************************************************************************)

Slipped(k, d) == <<k, d>> \in slipped

\* The day will be looked at again whatever becomes of the run, and without a
\* nightly one.
Owed(k, d) == d \in dirty \union news \/ asked \/ wake \/ Slipped(k, d)

Sending == {"availability", "rate", "save"}

\* The call for the kind has been answered.
Gone(k) ==
    \/ run.at = "save"
    \/ k = "availability" /\ run.at \in {"rate", "keep"}

\* A run plans days of its window, a full one every day.
RunSound ==
    /\ \A k \in Kinds : Planned(k) \subseteq run.window
    /\ run.at \in {"idle", "chosen"} => run.window = {}
    /\ run.at = "claimed" /\ run.full => run.window = Days
    /\ run.at \in Sending /\ run.full => \A k \in Kinds : Planned(k) = Days

\* The record is true except for what has gone and is not yet recorded.
RecordSound ==
    \A k \in Kinds, d \in Days :
        \/ sent[k][d] = remote[k][d]
        \/ Slipped(k, d)
        \/ Gone(k) /\ d \in Planned(k)

\* What has gone is what the channel has.
GoneSound ==
    \A k \in Kinds : \A d \in Planned(k) :
        Gone(k) => remote[k][d] = run.plan[k][d] \/ Slipped(k, d)

\* A plan that time has overtaken is made good by what overtook it.
PlanSound ==
    Connected /\ enabled /\ run.at \in Sending =>
        \A k \in Kinds : \A d \in Planned(k) :
            run.plan[k][d] = value[k][d] \/ Owed(k, d)

\* The inductive invariant.
SyncInv ==
    /\ SyncTypeOK /\ RunSound /\ RecordSound /\ GoneSound /\ PlanSound
    /\ NothingForgotten

\* A pair needs nothing, or something will come to it.
Safe(k, d) == InStep(k, d) \/ Owed(k, d) \/ due \/ InHand(k, d)

InService == Connected /\ enabled

\* Nothing is forgotten if every pair of a channel in service is safe.
LEMMA ForgottenIs ==
    NothingForgotten <=> (InService => \A k \in Kinds, d \in Days : Safe(k, d))
  BY DEF NothingForgotten, InService, Safe, Awaited, Owed, Slipped

\* The same of the next state.
LEMMA ForgottenNextIs ==
    NothingForgotten' <=> (InService' => \A k \in Kinds, d \in Days : Safe(k, d)')
  BY DEF NothingForgotten, InService, Safe, Awaited, Owed, Slipped

RunRecord == [at : Stages, full : BOOLEAN, window : SUBSET Days, plan : [Kinds -> Plans]]

\* The parts of a run.
LEMMA RunFields ==
    ASSUME NEW r \in RunRecord
    PROVE  /\ r.at \in Stages /\ r.full \in BOOLEAN
           /\ r.window \subseteq Days
           /\ r.plan \in [Kinds -> Plans]
           /\ \A k \in Kinds : /\ DOMAIN r.plan[k] \subseteq Days
                               /\ \A d \in DOMAIN r.plan[k] : r.plan[k][d] \in Values
           /\ \A at \in Stages :
                /\ [r EXCEPT !.at = at] \in RunRecord
                /\ [r EXCEPT !.at = at].at = at
                /\ [r EXCEPT !.at = at].full = r.full
                /\ [r EXCEPT !.at = at].window = r.window
                /\ [r EXCEPT !.at = at].plan = r.plan
  <1>1. /\ r.at \in Stages /\ r.full \in BOOLEAN
        /\ r.window \subseteq Days
        /\ r.plan \in [Kinds -> Plans]
    BY DEF RunRecord
  <1>2. ASSUME NEW k \in Kinds
        PROVE  /\ DOMAIN r.plan[k] \subseteq Days
               /\ \A d \in DOMAIN r.plan[k] : r.plan[k][d] \in Values
    <2>1. r.plan[k] \in Plans
      BY <1>1
    <2>2. PICK S \in SUBSET Days : r.plan[k] \in [S -> Values]
      BY <2>1 DEF Plans
    <2> QED
      BY <2>2
  <1>3. \A at \in Stages :
           /\ [r EXCEPT !.at = at] \in RunRecord
           /\ [r EXCEPT !.at = at].at = at
           /\ [r EXCEPT !.at = at].full = r.full
           /\ [r EXCEPT !.at = at].window = r.window
           /\ [r EXCEPT !.at = at].plan = r.plan
    BY DEF RunRecord
  <1> QED
    BY <1>1, <1>2, <1>3

\* The empty plan is a plan.
LEMMA NothingIsPlanned ==
    /\ <<>> \in Plans /\ DOMAIN <<>> = {}
    /\ Nothing \in [Kinds -> Plans]
    /\ \A k \in Kinds : DOMAIN Nothing[k] = {}
  <1>1. <<>> \in Seq(Values) /\ Len(<<>>) = 0
    OBVIOUS
  <1>2. <<>> \in [1..Len(<<>>) -> Values]
    BY <1>1, LenProperties
  <1>3. 1..Len(<<>>) = {}
    BY <1>1
  <1>4. <<>> \in [{} -> Values]
    BY <1>2, <1>3
  <1>5. <<>> \in Plans
    BY <1>4 DEF Plans
  <1>6. DOMAIN <<>> = {}
    BY <1>4
  <1> QED
    BY <1>5, <1>6 DEF Nothing

Chosen(full) == [Resting EXCEPT !.at = "chosen", !.full = full]

\* A run that has not claimed anything has nothing.
LEMMA RestingFields ==
    /\ Resting \in RunRecord
    /\ Resting.at = "idle" /\ Resting.window = {} /\ Resting.plan = Nothing
    /\ \A full \in BOOLEAN :
         /\ Chosen(full) \in RunRecord
         /\ Chosen(full).at = "chosen" /\ Chosen(full).full = full
         /\ Chosen(full).window = {} /\ Chosen(full).plan = Nothing
  BY NothingIsPlanned DEF Resting, RunRecord, Stages, Chosen

\* The days marked stay among the days, and marking takes none away.
LEMMA IntervalGrows ==
    ASSUME NEW S \in SUBSET Days
    PROVE  Interval(S) \subseteq Days /\ S \subseteq Interval(S)
  <1>1. \A d \in Days : d <= d
    BY ChannelAssumption DEF Days
  <1> QED
    BY <1>1 DEF Interval

\* The initial state.
LEMMA SyncStarts == SyncInit => SyncInv
  <1> SUFFICES ASSUME SyncInit PROVE SyncInv
    OBVIOUS
  <1>1. /\ value \in [Kinds -> [Days -> Values]] /\ sent = value /\ remote = value
        /\ run = Resting
    BY ChannelAssumption DEF SyncInit
  <1>2. SyncTypeOK
    BY <1>1, RestingFields DEF SyncInit, SyncTypeOK, RunRecord
  <1>3. \A k \in Kinds : Planned(k) = {}
    BY <1>1, RestingFields, NothingIsPlanned DEF Planned
  <1>4. RunSound /\ GoneSound /\ PlanSound
    BY <1>1, <1>3, RestingFields DEF RunSound, GoneSound, PlanSound, Sending
  <1>5. RecordSound
    BY <1>1 DEF RecordSound
  <1>6. NothingForgotten
    BY <1>1 DEF NothingForgotten, InStep
  <1> QED
    BY <1>2, <1>4, <1>5, <1>6 DEF SyncInv

\* What a step outside the run must see to: a pair that it does not take care
\* of itself keeps its value and what is owed to it.
LEMMA OutsideKeeps ==
    ASSUME SyncInv, SyncTypeOK', UNCHANGED <<sent, remote, run>>,
           slipped \subseteq slipped',
           InService' => \A k \in Kinds, d \in Days :
                            \/ Owed(k, d)'
                            \/ /\ InService
                               /\ value'[k][d] = value[k][d]
                               /\ Owed(k, d) => Owed(k, d)'
                               /\ due => due'
    PROVE  SyncInv'
  <1> USE DEF SyncInv
  <1>1. RunSound'
    BY DEF RunSound, Planned
  <1>2. RecordSound' /\ GoneSound'
    BY DEF RecordSound, GoneSound, Gone, Slipped, Planned
  <1>3. PlanSound'
    <2> SUFFICES ASSUME InService', run.at \in Sending, NEW k \in Kinds, NEW d \in Planned(k)
                 PROVE  run.plan[k][d] = value'[k][d] \/ Owed(k, d)'
      BY DEF PlanSound, InService, Planned
    <2>1. d \in Days
      BY RunFields DEF SyncTypeOK, RunRecord, Planned
    <2>2. CASE Owed(k, d)'
      BY <2>2
    <2>3. CASE InService /\ value'[k][d] = value[k][d] /\ (Owed(k, d) => Owed(k, d)')
      BY <2>3 DEF PlanSound, InService
    <2> QED
      BY <2>1, <2>2, <2>3
  <1>4. NothingForgotten'
    <2> SUFFICES ASSUME InService', NEW k \in Kinds, NEW d \in Days
                 PROVE  Safe(k, d)'
      BY ForgottenNextIs
    <2>1. CASE Owed(k, d)'
      BY <2>1 DEF Safe
    <2>2. CASE /\ InService /\ value'[k][d] = value[k][d]
               /\ Owed(k, d) => Owed(k, d)'
               /\ due => due'
      <3>1. Safe(k, d)
        BY <2>2, ForgottenIs
      <3>2. InStep(k, d) => InStep(k, d)'
        BY <2>2 DEF InStep
      <3>3. InHand(k, d) => InHand(k, d)'
        BY <2>2 DEF InHand, Planned
      <3> QED
        BY <2>2, <3>1, <3>2, <3>3 DEF Safe
    <2> QED
      BY <2>1, <2>2
  <1> QED
    BY <1>1, <1>2, <1>3, <1>4

\* A new value of a pair, and no other.
LEMMA ValueTyped ==
    ASSUME SyncTypeOK, NEW k \in Kinds, NEW d \in Days, NewValue(k, d)
    PROVE  /\ value' \in [Kinds -> [Days -> Values]] /\ changes' \in Nat
           /\ \A l \in Kinds, e \in Days : e = d \/ value'[l][e] = value[l][e]
  <1>1. PICK v \in Values : value' = [value EXCEPT ![k][d] = v]
    BY DEF NewValue
  <1>2. value' \in [Kinds -> [Days -> Values]]
    BY <1>1 DEF SyncTypeOK
  <1>3. \A l \in Kinds, e \in Days : e = d \/ value'[l][e] = value[l][e]
    BY <1>1 DEF SyncTypeOK
  <1>4. changes' \in Nat
    BY DEF NewValue, SyncTypeOK
  <1> QED
    BY <1>2, <1>3, <1>4

\* Changes of the hotel.
LEMMA HotelKeepsStep ==
    ASSUME SyncInv, Hotel
    PROVE  SyncInv'
  <1> USE DEF SyncInv
  <1>1. ASSUME NEW k \in Kinds, NEW d \in Days, Change(k, d) PROVE SyncInv'
    <2>1. SyncTypeOK'
      BY <1>1, ValueTyped DEF Change, SyncTypeOK, channelVars, switchVars, listVars
    <2>2. \A l \in Kinds, e \in Days : e = d \/ value'[l][e] = value[l][e]
      BY <1>1, ValueTyped DEF Change
    <2>3. ASSUME NEW l \in Kinds, NEW e \in Days, InService'
          PROVE  \/ Owed(l, e)'
                 \/ /\ InService /\ value'[l][e] = value[l][e]
                    /\ Owed(l, e) => Owed(l, e)'
                    /\ due => due'
      BY <1>1, <2>2, <2>3
         DEF Change, channelVars, switchVars, Owed, Slipped, InService, Connected
    <2> QED
      BY <1>1, <2>1, <2>3, OutsideKeeps DEF Change
  <1>2. ASSUME NEW d \in Days, StopSale(d) PROVE SyncInv'
    <2>0. "rate" \in Kinds
      BY DEF Kinds
    <2>1. dirty' \subseteq Days /\ (Connected => dirty \union {d} \subseteq dirty')
      BY <1>2, IntervalGrows DEF StopSale, SyncTypeOK
    <2>2. SyncTypeOK'
      BY <1>2, <2>0, <2>1, ValueTyped DEF StopSale, SyncTypeOK, switchVars, listVars
    <2>3. \A l \in Kinds, e \in Days : e = d \/ value'[l][e] = value[l][e]
      BY <1>2, <2>0, ValueTyped DEF StopSale
    <2>4. ASSUME NEW l \in Kinds, NEW e \in Days, InService'
          PROVE  \/ Owed(l, e)'
                 \/ /\ InService /\ value'[l][e] = value[l][e]
                    /\ Owed(l, e) => Owed(l, e)'
                    /\ due => due'
      BY <1>2, <2>1, <2>3, <2>4
         DEF StopSale, switchVars, Owed, Slipped, InService, Connected
    <2> QED
      BY <1>2, <2>2, <2>4, OutsideKeeps DEF StopSale
  <1> QED
    BY <1>1, <1>2 DEF Hotel

\* An event is handled, dropped or lost: its days are marked, slip, or belong
\* to a channel that is not in service.
LEMMA EventKeeps ==
    ASSUME SyncInv, NEW d \in Days, Deliver(d) \/ LoseEvent(d)
    PROVE  SyncInv'
  <1> USE DEF SyncInv
  <1>0. d \in d..LastDay /\ d..LastDay \subseteq Days
    BY ChannelAssumption DEF Days
  <1> DEFINE Handled ==
        /\ dirty' \subseteq Days /\ dirty \subseteq dirty'
        /\ news' = news \ {d}
        /\ slipped \subseteq slipped' /\ slipped' \subseteq Kinds \X Days
        /\ InService => d \in dirty' \/ Kinds \X {d} \subseteq slipped'
        /\ troubles' \in Nat
        /\ UNCHANGED <<value, changes, sent, remote, status, held, asked, due, switchVars, run, listVars>>
  <1>1. Handled
    <2>1. CASE LoseEvent(d)
      BY <2>1 DEF LoseEvent, SyncTypeOK, channelVars, Trouble
    <2>2. ASSUME Deliver(d), NEW w \in AffectedWindow(d), dirty' = Interval(dirty \union w),
                 slipped' = slipped
          PROVE  Handled
      <3>1. w \subseteq Days /\ d \in w
        BY <1>0 DEF AffectedWindow
      <3>2. dirty' \subseteq Days /\ dirty \subseteq dirty' /\ d \in dirty'
        BY <2>2, <3>1, IntervalGrows DEF SyncTypeOK
      <3> QED
        BY <2>2, <3>2 DEF Deliver, SyncTypeOK
    <2>3. ASSUME Deliver(d), list = "out" \/ ~enabled \/ ~Connected, dirty' = dirty,
                 slipped' = IF list = "out" /\ Connected THEN slipped \union (Kinds \X {d}) ELSE slipped
          PROVE  Handled
      <3>1. slipped \subseteq slipped' /\ slipped' \subseteq Kinds \X Days
        BY <2>3 DEF SyncTypeOK
      <3>2. InService => Kinds \X {d} \subseteq slipped'
        BY <2>3 DEF InService
      <3> QED
        BY <2>3, <3>1, <3>2 DEF Deliver, SyncTypeOK
    <2> HIDE DEF Handled
    <2> QED
      BY <2>1, <2>2, <2>3 DEF Deliver
  <1>2. SyncTypeOK'
    BY <1>1 DEF SyncTypeOK, switchVars, listVars
  <1>3. ASSUME NEW l \in Kinds, NEW e \in Days, InService'
        PROVE  /\ InService /\ value'[l][e] = value[l][e]
               /\ Owed(l, e) => Owed(l, e)'
               /\ due => due'
    BY <1>1, <1>3 DEF switchVars, Owed, Slipped, InService, Connected
  <1> QED
    BY <1>1, <1>2, <1>3, OutsideKeeps

\* The news of the switch is lost: every day slips.
LEMMA LoseWakeKeeps ==
    ASSUME SyncInv, LoseWake
    PROVE  SyncInv'
  <1> USE DEF SyncInv
  <1>1. /\ wake' = FALSE /\ slipped' = Kinds \X Days /\ troubles' \in Nat
        /\ UNCHANGED <<value, sent, remote, status, held, dirty, asked, due, enabled, switches, run, news,
                       list, reads, changes>>
    BY DEF LoseWake, Trouble, channelVars, listVars, SyncTypeOK
  <1>2. SyncTypeOK'
    BY <1>1 DEF SyncTypeOK
  <1>3. ASSUME NEW l \in Kinds, NEW e \in Days PROVE Owed(l, e)'
    BY <1>1 DEF Owed, Slipped
  <1>4. slipped \subseteq slipped' /\ UNCHANGED <<sent, remote, run>>
    BY <1>1 DEF SyncTypeOK
  <1> QED
    BY <1>2, <1>3, <1>4, OutsideKeeps

\* What the managers do, and the actor when it is switched on again.
LEMMA ManagersKeep ==
    ASSUME SyncInv, Managers \/ Wake
    PROVE  SyncInv'
  <1> USE DEF SyncInv
  <1>1. /\ status' \in {"ACTIVE", "PAUSED"} /\ enabled' \in BOOLEAN /\ asked' \in BOOLEAN
        /\ wake' \in BOOLEAN /\ held' \in BOOLEAN /\ dirty' \subseteq Days /\ switches' \in Nat
        /\ reads' \in [Reads -> {"no", "asked", "loading", "in", "out", "allIn", "allOut"}]
        /\ UNCHANGED <<value, sent, remote, due, run, news, list, changes, troubles, slipped>>
    <2>0. AskRead => reads' \in [Reads -> {"no", "asked", "loading", "in", "out", "allIn", "allOut"}]
      BY DEF AskRead, SyncTypeOK
    <2>1. CASE Pause
      BY <2>0, <2>1 DEF Pause, Switch, SyncTypeOK
    <2>2. CASE Activate
      <3>1. /\ status' = "ACTIVE" /\ dirty' = {} /\ held' = FALSE /\ asked' = TRUE
            /\ switches' = switches + 1
            /\ UNCHANGED <<value, sent, remote, due, enabled, wake, run, news, list, changes, troubles, slipped>>
        BY <2>2 DEF Activate, Switch
      <3>2. reads' \in [Reads -> {"no", "asked", "loading", "in", "out", "allIn", "allOut"}]
        BY <2>0, <2>2 DEF Activate
      <3>3. enabled \in BOOLEAN /\ wake \in BOOLEAN /\ switches \in Nat
        BY DEF SyncTypeOK
      <3>4. held' \in BOOLEAN /\ asked' \in BOOLEAN
        BY <3>1
      <3>5. dirty' \subseteq Days /\ status' \in {"ACTIVE", "PAUSED"} /\ switches' \in Nat
        BY <3>1, <3>3
      <3>6. enabled' \in BOOLEAN /\ wake' \in BOOLEAN
        BY <3>1, <3>3
      <3> QED
        BY <3>1, <3>2, <3>4, <3>5, <3>6
    <2>3. CASE RequestFullSync
      BY <2>3 DEF RequestFullSync, Switch, listVars, SyncTypeOK
    <2>4. CASE SwitchActor
      BY <2>4 DEF SwitchActor, Switch, channelVars, listVars, SyncTypeOK
    <2>5. CASE Wake
      BY <2>5 DEF Wake, listVars, SyncTypeOK
    <2> QED
      BY <2>1, <2>2, <2>3, <2>4, <2>5 DEF Managers
  <1>2. SyncTypeOK'
    BY <1>1 DEF SyncTypeOK
  <1>3. ASSUME NEW l \in Kinds, NEW e \in Days, InService'
        PROVE  \/ Owed(l, e)'
               \/ InService /\ (Owed(l, e) => Owed(l, e)')
    <2>1. CASE Pause
      BY <1>3, <2>1 DEF Pause, InService, Connected
    <2>2. CASE Activate
      BY <2>2 DEF Activate, Owed
    <2>3. CASE RequestFullSync
      BY <2>3 DEF RequestFullSync, Owed
    <2>4. CASE SwitchActor
      BY <1>3, <2>4 DEF SwitchActor, InService, Owed, SyncTypeOK
    <2>5. CASE Wake
      BY <1>3, <2>5 DEF Wake, InService, Connected, Owed
    <2> QED
      BY <2>1, <2>2, <2>3, <2>4, <2>5 DEF Managers
  <1> QED
    BY <1>1, <1>2, <1>3, OutsideKeeps

\* The list of connected hotels, the end of a pause and the night.
LEMMA AroundKeeps ==
    ASSUME SyncInv,
           HoldEnds \/ NightComes \/ \E q \in Reads : LookUp(q) \/ Apply(q) \/ ReadFails(q)
    PROVE  SyncInv'
  <1> USE DEF SyncInv
  <1>1. /\ held' \in BOOLEAN /\ due' \in BOOLEAN /\ (due => due')
        /\ list' \in {"unread", "in", "out"} /\ troubles' \in Nat
        /\ reads' \in [Reads -> {"no", "asked", "loading", "in", "out", "allIn", "allOut"}]
        /\ UNCHANGED <<value, sent, remote, run, news, status, dirty, asked, switchVars, changes, slipped>>
    <2>1. CASE HoldEnds
      BY <2>1 DEF HoldEnds, listVars, SyncTypeOK
    <2>2. CASE NightComes
      BY <2>2 DEF NightComes, listVars, SyncTypeOK
    <2>3. ASSUME NEW q \in Reads, LookUp(q) PROVE <1>1!:
      BY <2>3 DEF LookUp, channelVars, SyncTypeOK
    <2>4. ASSUME NEW q \in Reads, Apply(q) PROVE <1>1!:
      BY <2>4 DEF Apply, channelVars, SyncTypeOK
    <2>5. ASSUME NEW q \in Reads, ReadFails(q) PROVE <1>1!:
      BY <2>5 DEF ReadFails, Trouble, channelVars, SyncTypeOK
    <2> QED
      BY <2>1, <2>2, <2>3, <2>4, <2>5
  <1>2. SyncTypeOK'
    BY <1>1 DEF SyncTypeOK, switchVars
  <1>3. ASSUME NEW l \in Kinds, NEW e \in Days, InService'
        PROVE  InService /\ (Owed(l, e) => Owed(l, e)')
    BY <1>1, <1>3 DEF switchVars, InService, Connected, Owed, Slipped
  <1> QED
    BY <1>1, <1>2, <1>3, OutsideKeeps

\* A step of the run that calls nobody and records nothing, before or after
\* the calls.
LEMMA BareRunKeeps ==
    ASSUME SyncInv, SyncTypeOK', RunSound',
           UNCHANGED <<value, sent, remote, slipped, status, enabled>>,
           run.at \notin Sending \union {"keep"},
           run'.at \notin Sending \union {"keep"},
           \A k \in Kinds, d \in Days : Safe(k, d) => Safe(k, d)'
    PROVE  SyncInv'
  <1> USE DEF SyncInv
  <1>1. RecordSound' /\ GoneSound' /\ PlanSound'
    BY DEF RecordSound, GoneSound, PlanSound, Gone, Slipped, Sending
  <1>2. NothingForgotten'
    BY ForgottenIs, ForgottenNextIs DEF InService, Connected
  <1> QED
    BY <1>1, <1>2

\* The run chooses what to do.
LEMMA ChooseKeeps ==
    ASSUME SyncInv, Choose
    PROVE  SyncInv'
  <1> USE DEF SyncInv
  <1>1. run' = Chosen(asked \/ due)
    BY DEF Choose, Chosen
  <1>2. (asked \/ due) \in BOOLEAN
    OBVIOUS
  <1>3. /\ run' \in RunRecord /\ run'.at = "chosen" /\ run'.window = {} /\ run'.plan = Nothing
    BY <1>1, <1>2, RestingFields
  <1>4. SyncTypeOK'
    BY <1>3 DEF Choose, SyncTypeOK, RunRecord, channelVars, switchVars, listVars
  <1>5. RunSound'
    BY <1>3, NothingIsPlanned DEF RunSound, Planned, Sending
  <1>6. \A k \in Kinds, d \in Days : Safe(k, d) => Safe(k, d)'
    BY <1>3 DEF Choose, Safe, InStep, Owed, Slipped, InHand, channelVars, switchVars
  <1> QED
    BY <1>3, <1>4, <1>5, <1>6, BareRunKeeps DEF Choose, Sending, channelVars, switchVars

\* The days are claimed, or there is nothing to claim any more.
LEMMA ClaimKeeps ==
    ASSUME SyncInv, ClaimDays
    PROVE  SyncInv'
  <1> USE DEF SyncInv
  <1> DEFINE window == IF run.full THEN Days ELSE dirty
  <1>0. run \in RunRecord /\ run.at = "chosen" /\ run.full \in BOOLEAN /\ window \subseteq Days
    BY RunFields DEF ClaimDays, SyncTypeOK, RunRecord
  <1>1. UNCHANGED <<value, sent, remote, status, held, due, switchVars, news, listVars, changes, troubles, slipped>>
    BY DEF ClaimDays
  <1>2. CASE /\ run' = [run EXCEPT !.at = "claimed", !.window = window]
             /\ dirty' = {}
             /\ asked' = (asked /\ ~run.full)
    <2>1. /\ run' \in RunRecord /\ run'.at = "claimed" /\ run'.full = run.full
          /\ run'.plan = run.plan /\ run'.window = window
      BY <1>0, <1>2 DEF RunRecord, Stages
    <2>2. asked' \in BOOLEAN /\ dirty' \subseteq Days
      BY <1>2
    <2>3. SyncTypeOK'
      BY <1>1, <2>1, <2>2 DEF SyncTypeOK, RunRecord, switchVars, listVars
    <2>4. \A k \in Kinds : Planned(k) = {}
      BY <1>0 DEF RunSound
    <2>5. RunSound'
      BY <2>1, <2>4 DEF RunSound, Planned, Sending
    <2>6. ASSUME NEW k \in Kinds, NEW d \in Days, Safe(k, d) PROVE Safe(k, d)'
      <3>1. CASE d \in dirty \/ run.full
        BY <2>1, <3>1 DEF Safe, InHand
      <3>2. CASE ~(d \in dirty \/ run.full)
        <4>1. asked' = asked
          BY <1>2, <3>2 DEF SyncTypeOK
        <4>2. ~InHand(k, d)
          BY <1>0 DEF InHand
        <4> QED
          BY <1>1, <2>6, <3>2, <4>1, <4>2 DEF Safe, InStep, Owed, Slipped, switchVars
      <3> QED
        BY <3>1, <3>2
    <2> QED
      BY <1>0, <1>1, <2>1, <2>3, <2>5, <2>6, BareRunKeeps DEF Sending, switchVars
  <1>3. CASE run' = Resting /\ UNCHANGED <<dirty, asked>>
    <2>1. SyncTypeOK'
      BY <1>1, <1>3, RestingFields DEF SyncTypeOK, RunRecord, switchVars, listVars
    <2>2. RunSound'
      BY <1>3, RestingFields, NothingIsPlanned DEF RunSound, Planned, Sending
    <2>3. \A k \in Kinds, d \in Days : Safe(k, d) => Safe(k, d)'
      BY <1>0, <1>1, <1>3 DEF Safe, InStep, Owed, Slipped, InHand, switchVars
    <2> QED
      BY <1>0, <1>1, <1>3, <2>1, <2>2, <2>3, RestingFields, BareRunKeeps DEF Sending, switchVars
  <1> QED
    BY <1>2, <1>3 DEF ClaimDays

\* The plan: a day of the window that is not planned agrees with the record,
\* and the record is true before anything is sent.
LEMMA PlanKeeps ==
    ASSUME SyncInv, Plan
    PROVE  SyncInv'
  <1> USE DEF SyncInv
  <1> DEFINE plan == [k \in Kinds |-> PlanTarget(k)]
             empty == {k \in Kinds : DOMAIN plan[k] = {}}
  <1>0. /\ run \in RunRecord /\ run.at = "claimed" /\ run.full \in BOOLEAN
        /\ run.window \subseteq Days /\ run.full => run.window = Days
    BY RunFields DEF Plan, SyncTypeOK, RunRecord, RunSound
  <1>1. UNCHANGED <<value, sent, remote, channelVars, switchVars, news, listVars, changes, troubles, slipped>>
    BY DEF Plan
  <1>2. ASSUME NEW k \in Kinds
        PROVE  /\ DOMAIN plan[k] = {d \in run.window : run.full \/ sent[k][d] # value[k][d]}
               /\ \A d \in DOMAIN plan[k] : plan[k][d] = value[k][d]
               /\ plan[k] \in Plans
    <2> DEFINE days == {d \in run.window : run.full \/ sent[k][d] # value[k][d]}
    <2>1. plan[k] = [d \in days |-> value[k][d]]
      BY DEF PlanTarget
    <2>2. days \in SUBSET Days /\ \A d \in days : value[k][d] \in Values
      BY <1>0 DEF SyncTypeOK
    <2> HIDE DEF days, plan
    <2>3. plan[k] \in [days -> Values]
      BY <2>1, <2>2
    <2>4. plan[k] \in Plans
      BY <2>2, <2>3 DEF Plans
    <2> QED
      BY <2>1, <2>4 DEF days
  <1>3. ASSUME NEW k \in Kinds, NEW d \in Days, d \in run.window, d \notin DOMAIN plan[k]
        PROVE  ~run.full /\ (InStep(k, d) \/ Slipped(k, d))
    <2>1. ~run.full /\ sent[k][d] = value[k][d]
      BY <1>2, <1>3
    <2>2. sent[k][d] = remote[k][d] \/ Slipped(k, d)
      BY <1>0 DEF RecordSound, Gone
    <2> QED
      BY <2>1, <2>2 DEF InStep
  <1> HIDE DEF plan
  <1>4. CASE empty = Kinds /\ run' = Resting
    <2>1. SyncTypeOK'
      BY <1>1, <1>4, RestingFields DEF SyncTypeOK, RunRecord, channelVars, switchVars, listVars
    <2>2. RunSound'
      BY <1>4, RestingFields, NothingIsPlanned DEF RunSound, Planned, Sending
    <2>3. ASSUME NEW k \in Kinds, NEW d \in Days, Safe(k, d) PROVE Safe(k, d)'
      <3>1. DOMAIN plan[k] = {}
        BY <1>4
      <3>2. d \in run.window => InStep(k, d) \/ Slipped(k, d)
        BY <1>3, <3>1
      <3>3. InHand(k, d) => InStep(k, d) \/ Slipped(k, d)
        BY <1>0, <3>2 DEF InHand
      <3> QED
        BY <1>1, <2>3, <3>3 DEF Safe, InStep, Owed, Slipped, channelVars, switchVars
    <2> QED
      BY <1>0, <1>1, <1>4, <2>1, <2>2, <2>3, RestingFields, BareRunKeeps
         DEF Sending, channelVars, switchVars
  <1>5. CASE run' = [run EXCEPT !.plan = plan,
                                !.at = IF "availability" \in empty THEN "rate" ELSE "availability"]
    <2>1. plan \in [Kinds -> Plans]
      BY <1>2 DEF plan
    <2>2. /\ run' \in RunRecord /\ run'.full = run.full /\ run'.window = run.window
          /\ run'.plan = plan /\ run'.at \in {"availability", "rate"}
          /\ run'.at = "rate" => "availability" \in empty
      BY <1>0, <1>5, <2>1 DEF RunRecord, Stages
    <2>3. SyncTypeOK'
      BY <1>1, <2>2 DEF SyncTypeOK, RunRecord, channelVars, switchVars, listVars
    <2>4. RunSound'
      BY <1>0, <1>2, <2>2 DEF RunSound, Planned, Sending
    <2>5. RecordSound'
      BY <1>0, <1>1, <2>2 DEF RecordSound, Gone, Slipped
    <2>6. GoneSound'
      BY <2>2 DEF GoneSound, Gone, Planned
    <2>7. PlanSound'
      BY <1>1, <1>2, <2>2 DEF PlanSound, Planned
    <2>8. ASSUME NEW k \in Kinds, NEW d \in Days, Safe(k, d) PROVE Safe(k, d)'
      <3>1. CASE d \in DOMAIN plan[k]
        <4>1. InHand(k, d)'
          BY <1>1, <1>2, <2>2, <3>1 DEF InHand, Planned
        <4> QED
          BY <4>1 DEF Safe
      <3>2. CASE d \notin DOMAIN plan[k]
        <4>1. InHand(k, d) => InStep(k, d) \/ Slipped(k, d)
          BY <1>0, <1>3, <3>2 DEF InHand
        <4> QED
          BY <1>1, <2>8, <4>1 DEF Safe, InStep, Owed, Slipped, channelVars, switchVars
      <3> QED
        BY <3>1, <3>2
    <2>9. NothingForgotten'
      BY <1>1, <2>8, ForgottenIs, ForgottenNextIs
         DEF InService, Connected, channelVars, switchVars
    <2> QED
      BY <2>3, <2>4, <2>5, <2>6, <2>7, <2>9
  <1> QED
    BY <1>4, <1>5 DEF Plan, plan

\* The values cannot be computed: the window stays in the run's hands.
LEMMA PlanFailsKeeps ==
    ASSUME SyncInv, PlanFails
    PROVE  SyncInv'
  <1> USE DEF SyncInv
  <1>1. run \in RunRecord /\ run.at = "claimed" /\ "record" \in Stages
    BY DEF PlanFails, SyncTypeOK, RunRecord, Stages
  <1>2. /\ run' \in RunRecord /\ run'.at = "record" /\ run'.full = run.full
        /\ run'.window = run.window /\ run'.plan = run.plan
    BY <1>1, RunFields DEF PlanFails, Go
  <1>3. /\ troubles' \in Nat
        /\ UNCHANGED <<value, sent, remote, channelVars, switchVars, news, listVars, changes, slipped>>
    BY DEF PlanFails, Trouble, SyncTypeOK
  <1>4. SyncTypeOK'
    BY <1>2, <1>3 DEF SyncTypeOK, RunRecord, channelVars, switchVars, listVars
  <1>5. RunSound'
    BY <1>2 DEF RunSound, Planned, Sending
  <1>6. \A k \in Kinds, d \in Days : Safe(k, d) => Safe(k, d)'
    BY <1>1, <1>2, <1>3 DEF Safe, InStep, Owed, Slipped, InHand, channelVars, switchVars
  <1> QED
    BY <1>1, <1>2, <1>3, <1>4, <1>5, <1>6, BareRunKeeps DEF Sending, channelVars, switchVars

\* The days are put back.
LEMMA RecordFailureKeeps ==
    ASSUME SyncInv, RecordFailure
    PROVE  SyncInv'
  <1> USE DEF SyncInv
  <1>1. run \in RunRecord /\ run.at = "record" /\ run.window \subseteq Days
    BY RunFields DEF RecordFailure, SyncTypeOK, RunRecord
  <1>2. /\ dirty' \subseteq Days /\ dirty \subseteq dirty'
        /\ run.full \/ run.window \subseteq dirty'
    <2>1. dirty \union run.window \in SUBSET Days
      BY <1>1 DEF SyncTypeOK
    <2>2. dirty' = IF run.full THEN dirty ELSE Interval(dirty \union run.window)
      BY DEF RecordFailure
    <2> QED
      BY <2>1, <2>2, IntervalGrows
  <1>3. /\ run' = Resting /\ asked' = (asked \/ run.full) /\ held' \in BOOLEAN
        /\ UNCHANGED <<value, sent, remote, status, due, switchVars, news, listVars, changes, troubles, slipped>>
    BY DEF RecordFailure
  <1>4. SyncTypeOK'
    BY <1>2, <1>3, RestingFields DEF SyncTypeOK, RunRecord, switchVars, listVars
  <1>5. RunSound'
    BY <1>3, RestingFields, NothingIsPlanned DEF RunSound, Planned, Sending
  <1>6. ASSUME NEW k \in Kinds, NEW d \in Days, Safe(k, d) PROVE Safe(k, d)'
    <2>1. InHand(k, d) => d \in dirty' \/ asked'
      BY <1>1, <1>2, <1>3 DEF InHand
    <2> QED
      BY <1>2, <1>3, <1>6, <2>1 DEF Safe, InStep, Owed, Slipped, switchVars
  <1> QED
    BY <1>1, <1>3, <1>4, <1>5, <1>6, RestingFields, BareRunKeeps DEF Sending, switchVars

\* What a run that dies had claimed slips.
LEMMA DropKeeps ==
    ASSUME SyncInv, DatabaseFails \/ Restart
    PROVE  SyncInv'
  <1> USE DEF SyncInv
  <1>1. /\ run' = Resting /\ slipped' = slipped \union (Kinds \X run.window)
        /\ UNCHANGED <<value, sent, remote, channelVars, switchVars, news, changes>>
        /\ troubles' \in Nat
    BY DEF DatabaseFails, Restart, Drop, Trouble, SyncTypeOK
  <1>2. run.window \subseteq Days
    BY RunFields DEF SyncTypeOK, RunRecord
  <1>3. /\ list' \in {"unread", "in", "out"}
        /\ reads' \in [Reads -> {"no", "asked", "loading", "in", "out", "allIn", "allOut"}]
    BY DEF DatabaseFails, Restart, listVars, SyncTypeOK
  <1>4. SyncTypeOK'
    <2>1. slipped' \subseteq Kinds \X Days
      BY <1>1, <1>2 DEF SyncTypeOK
    <2> QED
      BY <1>1, <1>3, <2>1, RestingFields DEF SyncTypeOK, RunRecord, channelVars, switchVars
  <1>5. \A k \in Kinds : Planned(k)' = {}
    BY <1>1, RestingFields, NothingIsPlanned DEF Planned
  <1>6. RunSound' /\ GoneSound' /\ PlanSound'
    BY <1>1, <1>5, RestingFields DEF RunSound, GoneSound, PlanSound, Sending
  <1>7. \A k \in Kinds, d \in Days :
           /\ Slipped(k, d) => Slipped(k, d)'
           /\ d \in run.window => Slipped(k, d)'
    BY <1>1 DEF Slipped
  <1>8. RecordSound'
    BY <1>1, <1>7 DEF RecordSound, RunSound
  <1>9. ASSUME NEW k \in Kinds, NEW d \in Days, Safe(k, d) PROVE Safe(k, d)'
    <2>1. InHand(k, d) => d \in run.window
      BY DEF InHand, RunSound
    <2>2. Owed(k, d) => Owed(k, d)'
      BY <1>1, <1>7 DEF Owed, channelVars, switchVars
    <2> QED
      BY <1>1, <1>7, <1>9, <2>1, <2>2 DEF Safe, InStep, Owed, channelVars
  <1>10. NothingForgotten'
    BY <1>1, <1>9, ForgottenIs, ForgottenNextIs DEF InService, Connected, channelVars, switchVars
  <1> QED
    BY <1>4, <1>6, <1>8, <1>10

\* What arrives is what was planned, and nothing else changes.
LEMMA ArriveIs ==
    ASSUME SyncInv, NEW k \in Kinds, NEW days \in SUBSET Planned(k), Arrive(k, days)
    PROVE  /\ remote' \in [Kinds -> [Days -> Values]]
           /\ \A l \in Kinds, d \in Days :
                remote'[l][d] = IF l = k /\ d \in days THEN run.plan[k][d] ELSE remote[l][d]
  <1>1. /\ remote \in [Kinds -> [Days -> Values]]
        /\ Planned(k) \subseteq Days
        /\ \A d \in Planned(k) : run.plan[k][d] \in Values
    BY RunFields DEF SyncInv, SyncTypeOK, RunRecord, Planned
  <1> DEFINE new == Overlay(remote[k], [d \in days |-> run.plan[k][d]])
  <1>2. new = [d \in Days |-> IF d \in days THEN run.plan[k][d] ELSE remote[k][d]]
    BY DEF Overlay
  <1>3. new \in [Days -> Values]
    BY <1>1, <1>2
  <1>4. remote' = [remote EXCEPT ![k] = new]
    BY DEF Arrive
  <1>5. \A d \in Days : new[d] = IF d \in days THEN run.plan[k][d] ELSE remote[k][d]
    BY <1>2
  <1> HIDE DEF new
  <1> QED
    BY <1>1, <1>3, <1>4, <1>5

\* A call is answered: all of the plan is there, or what was refused slips.
LEMMA AcceptedKeeps ==
    ASSUME SyncInv, NEW k \in Kinds, Send(k), Accepted(k)
    PROVE  SyncInv'
  <1> USE DEF SyncInv
  <1>0. /\ run \in RunRecord /\ run.at = k /\ k \in {"availability", "rate"}
        /\ Planned(k) \subseteq Days
        /\ UNCHANGED <<value, sent, channelVars, switchVars, news, listVars, changes>>
    BY RunFields DEF Send, SyncTypeOK, RunRecord, Planned, Kinds
  <1>1. /\ run' \in RunRecord /\ run'.at = After(k) /\ run'.full = run.full
        /\ run'.window = run.window /\ run'.plan = run.plan
        /\ After(k) \in {"rate", "save"}
        /\ After(k) = "rate" => k = "availability"
        /\ k = "availability" /\ After(k) = "save" => Planned("rate") = {}
    <2>1. /\ After(k) \in Stages /\ After(k) \in {"rate", "save"}
          /\ After(k) = "rate" => k = "availability"
          /\ k = "availability" /\ After(k) = "save" => Planned("rate") = {}
      BY <1>0 DEF After, Stages
    <2>2. run' = [run EXCEPT !.at = After(k)]
      BY DEF Accepted, Go
    <2> QED
      BY <1>0, <2>1, <2>2, RunFields
  <1>2. /\ remote' \in [Kinds -> [Days -> Values]]
        /\ slipped \subseteq slipped' /\ slipped' \subseteq Kinds \X Days /\ troubles' \in Nat
        /\ \A d \in Planned(k) : remote'[k][d] = run.plan[k][d] \/ Slipped(k, d)'
        /\ \A l \in Kinds, d \in Days :
             (l = k /\ d \in Planned(k)) \/ remote'[l][d] = remote[l][d]
    <2>1. CASE Arrive(k, Planned(k)) /\ UNCHANGED <<troubles, slipped>>
      BY <1>0, <2>1, ArriveIs DEF SyncTypeOK
    <2>2. ASSUME NEW days \in SUBSET Planned(k), Trouble("rejected"),
                 Arrive(k, Planned(k) \ days), slipped' = slipped \union PairsOf(k, days)
          PROVE  /\ remote' \in [Kinds -> [Days -> Values]]
                 /\ slipped \subseteq slipped' /\ slipped' \subseteq Kinds \X Days /\ troubles' \in Nat
                 /\ \A d \in Planned(k) : remote'[k][d] = run.plan[k][d] \/ Slipped(k, d)'
                 /\ \A l \in Kinds, d \in Days :
                      (l = k /\ d \in Planned(k)) \/ remote'[l][d] = remote[l][d]
      <3>1. Planned(k) \ days \in SUBSET Planned(k)
        OBVIOUS
      <3>2. /\ remote' \in [Kinds -> [Days -> Values]]
            /\ \A l \in Kinds, d \in Days :
                 remote'[l][d] = IF l = k /\ d \in Planned(k) \ days THEN run.plan[k][d] ELSE remote[l][d]
        BY <2>2, <3>1, ArriveIs
      <3>3. \A d \in days : Slipped(k, d)'
        BY <2>2 DEF Slipped, PairsOf
      <3>4. slipped \subseteq slipped' /\ slipped' \subseteq Kinds \X Days /\ troubles' \in Nat
        BY <1>0, <2>2 DEF PairsOf, SyncTypeOK, Trouble
      <3> QED
        BY <1>0, <3>2, <3>3, <3>4
    <2> QED
      BY <2>1, <2>2 DEF Accepted
  <1>3. SyncTypeOK'
    BY <1>0, <1>1, <1>2 DEF SyncTypeOK, RunRecord, channelVars, switchVars, listVars
  <1>4. \A l \in Kinds, d \in Days : Slipped(l, d) => Slipped(l, d)'
    BY <1>2 DEF Slipped
  <1>5. \A l \in Kinds : Planned(l)' = Planned(l) /\ Planned(l) \subseteq Days
    BY <1>0, <1>1, RunFields DEF Planned
  <1>6. \A l \in Kinds : Gone(l)' <=> Gone(l) \/ l = k \/ (run'.at = "save" /\ l = "rate")
    BY <1>0, <1>1 DEF Gone, Kinds
  <1>7. \A l \in Kinds : run'.at = "save" /\ l = "rate" /\ l # k => Planned(l) = {}
    BY <1>0, <1>1
  <1>8. RunSound'
    BY <1>0, <1>1, <1>5 DEF RunSound, Sending
  <1>9. RecordSound'
    <2> SUFFICES ASSUME NEW l \in Kinds, NEW d \in Days
                 PROVE  \/ sent'[l][d] = remote'[l][d]
                        \/ Slipped(l, d)'
                        \/ Gone(l)' /\ d \in Planned(l)'
      BY DEF RecordSound
    <2>1. CASE l = k /\ d \in Planned(k)
      BY <1>5, <1>6, <2>1
    <2>2. CASE remote'[l][d] = remote[l][d]
      <3>1. \/ sent[l][d] = remote[l][d]
            \/ Slipped(l, d)
            \/ Gone(l) /\ d \in Planned(l)
        BY DEF RecordSound
      <3> QED
        BY <1>0, <1>4, <1>5, <1>6, <2>2, <3>1
    <2> QED
      BY <1>2, <2>1, <2>2
  <1>10. GoneSound'
    <2> SUFFICES ASSUME NEW l \in Kinds, NEW d \in Planned(l), Gone(l)'
                 PROVE  remote'[l][d] = run'.plan[l][d] \/ Slipped(l, d)'
      BY <1>5 DEF GoneSound
    <2>1. CASE l = k
      BY <1>1, <1>2, <2>1
    <2>2. CASE l # k
      <3>1. Gone(l)
        BY <1>6, <1>7, <2>2
      <3>2. remote[l][d] = run.plan[l][d] \/ Slipped(l, d)
        BY <3>1 DEF GoneSound
      <3> QED
        BY <1>1, <1>2, <1>4, <1>5, <2>2, <3>2
    <2> QED
      BY <2>1, <2>2
  <1>11. \A l \in Kinds, d \in Days : Owed(l, d) => Owed(l, d)'
    BY <1>0, <1>4 DEF Owed, channelVars, switchVars
  <1>12. PlanSound'
    BY <1>0, <1>1, <1>5, <1>11 DEF PlanSound, Sending, InService, Connected, channelVars, switchVars
  <1>13. NothingForgotten'
    <2> SUFFICES ASSUME InService', NEW l \in Kinds, NEW d \in Days PROVE Safe(l, d)'
      BY ForgottenNextIs
    <2>1. InService
      BY <1>0 DEF InService, Connected, channelVars, switchVars
    <2>2. CASE d \in Planned(l)
      <3>1. run.plan[l][d] = value[l][d] \/ Owed(l, d)
        BY <1>0, <2>1, <2>2 DEF PlanSound, InService, Sending
      <3>2. run.plan[l][d] = value[l][d] => InHand(l, d)'
        BY <1>0, <1>1, <1>5, <2>2 DEF InHand
      <3> QED
        BY <1>11, <3>1, <3>2 DEF Safe
    <2>3. CASE d \notin Planned(l)
      <3>1. Safe(l, d) /\ ~InHand(l, d)
        BY <1>0, <2>1, <2>3, ForgottenIs DEF InHand
      <3>2. remote'[l][d] = remote[l][d]
        BY <1>2, <2>3
      <3> QED
        BY <1>0, <1>11, <3>1, <3>2 DEF Safe, InStep, channelVars
    <2> QED
      BY <2>2, <2>3
  <1> QED
    BY <1>3, <1>8, <1>9, <1>10, <1>12, <1>13

\* A call is refused or not answered: what may have arrived slips.
LEMMA FailedKeeps ==
    ASSUME SyncInv, NEW k \in Kinds, Send(k), Failed(k)
    PROVE  SyncInv'
  <1> USE DEF SyncInv
  <1> DEFINE after == IF k = "rate" /\ Planned("availability") # {} THEN "keep" ELSE "record"
  <1>0. /\ run \in RunRecord /\ run.at = k /\ k \in {"availability", "rate"}
        /\ Planned(k) \subseteq Days
        /\ UNCHANGED <<value, sent, channelVars, switchVars, news, listVars, changes>>
    BY RunFields DEF Send, SyncTypeOK, RunRecord, Planned, Kinds
  <1>1. /\ run' \in RunRecord /\ run'.at = after /\ run'.full = run.full
        /\ run'.window = run.window /\ run'.plan = run.plan
    <2>1. after \in Stages
      BY DEF Stages
    <2>2. run' = [run EXCEPT !.at = after]
      BY DEF Failed, Go
    <2> HIDE DEF after
    <2> QED
      BY <1>0, <2>1, <2>2, RunFields
  <1>2. /\ remote' \in [Kinds -> [Days -> Values]]
        /\ slipped \subseteq slipped' /\ slipped' \subseteq Kinds \X Days /\ troubles' \in Nat
        /\ \A l \in Kinds, d \in Days : Slipped(l, d)' \/ remote'[l][d] = remote[l][d]
    <2>1. CASE Trouble("refused") /\ UNCHANGED <<remote, slipped>>
      BY <2>1 DEF Trouble, SyncTypeOK
    <2>2. CASE /\ Trouble("unanswered")
               /\ Arrive(k, Planned(k))
               /\ slipped' = slipped \union PairsOf(k, Planned(k))
      <3>1. /\ remote' \in [Kinds -> [Days -> Values]]
            /\ \A l \in Kinds, d \in Days :
                 remote'[l][d] = IF l = k /\ d \in Planned(k) THEN run.plan[k][d] ELSE remote[l][d]
        BY <2>2, ArriveIs
      <3>2. \A d \in Planned(k) : Slipped(k, d)'
        BY <2>2 DEF Slipped, PairsOf
      <3>3. slipped \subseteq slipped' /\ slipped' \subseteq Kinds \X Days /\ troubles' \in Nat
        BY <1>0, <2>2 DEF PairsOf, SyncTypeOK, Trouble
      <3> QED
        BY <3>1, <3>2, <3>3
    <2> QED
      BY <2>1, <2>2 DEF Failed
  <1>3. SyncTypeOK'
    BY <1>0, <1>1, <1>2 DEF SyncTypeOK, RunRecord, channelVars, switchVars, listVars
  <1>4. \A l \in Kinds, d \in Days : Slipped(l, d) => Slipped(l, d)'
    BY <1>2 DEF Slipped
  <1>5. \A l \in Kinds : Planned(l)' = Planned(l) /\ Planned(l) \subseteq Days
    BY <1>0, <1>1, RunFields DEF Planned
  <1>6. \A l \in Kinds : Gone(l)' => Gone(l)
    BY <1>0, <1>1 DEF Gone
  <1>7. \A l \in Kinds : Gone(l) => Gone(l)' \/ Planned(l) = {}
    BY <1>0, <1>1 DEF Gone
  <1>8. RunSound' /\ PlanSound'
    BY <1>1, <1>5 DEF RunSound, PlanSound, Sending
  <1>9. RecordSound'
    <2> SUFFICES ASSUME NEW l \in Kinds, NEW d \in Days
                 PROVE  \/ sent'[l][d] = remote'[l][d]
                        \/ Slipped(l, d)'
                        \/ Gone(l)' /\ d \in Planned(l)'
      BY DEF RecordSound
    <2>1. \/ sent[l][d] = remote[l][d]
          \/ Slipped(l, d)
          \/ Gone(l) /\ d \in Planned(l)
      BY DEF RecordSound
    <2> QED
      BY <1>0, <1>2, <1>4, <1>5, <1>7, <2>1
  <1>10. GoneSound'
    <2> SUFFICES ASSUME NEW l \in Kinds, NEW d \in Planned(l), Gone(l)'
                 PROVE  remote'[l][d] = run'.plan[l][d] \/ Slipped(l, d)'
      BY <1>5 DEF GoneSound
    <2>1. remote[l][d] = run.plan[l][d] \/ Slipped(l, d)
      BY <1>6 DEF GoneSound
    <2> QED
      BY <1>1, <1>2, <1>4, <1>5, <2>1
  <1>11. ASSUME NEW l \in Kinds, NEW d \in Days, Safe(l, d) PROVE Safe(l, d)'
    <2>1. InHand(l, d) => InHand(l, d)'
      BY <1>0, <1>1 DEF InHand, RunSound
    <2>2. Owed(l, d) => Owed(l, d)'
      BY <1>0, <1>4 DEF Owed, channelVars, switchVars
    <2>3. InStep(l, d) => InStep(l, d)' \/ Owed(l, d)'
      BY <1>0, <1>2 DEF InStep, Owed
    <2> QED
      BY <1>0, <1>11, <2>1, <2>2, <2>3 DEF Safe, channelVars
  <1>12. NothingForgotten'
    BY <1>0, <1>11, ForgottenIs, ForgottenNextIs
       DEF InService, Connected, channelVars, switchVars
  <1> QED
    BY <1>3, <1>8, <1>9, <1>10, <1>12

\* What is recorded: the plan of the recorded kinds; a pair whose doubt ends agrees.
LEMMA RecordIs ==
    ASSUME SyncInv, NEW kinds \in SUBSET Kinds, Record(kinds)
    PROVE  /\ sent' \in [Kinds -> [Days -> Values]]
           /\ \A k \in Kinds, d \in Days :
                /\ sent'[k][d] = IF k \in kinds /\ d \in Planned(k) THEN run.plan[k][d]
                                 ELSE sent[k][d]
                /\ \/ Slipped(k, d)' <=> Slipped(k, d)
                   \/ sent'[k][d] = remote[k][d] /\ InStep(k, d)
           /\ slipped' \subseteq slipped
  <1>1. /\ sent \in [Kinds -> [Days -> Values]]
        /\ \A k \in Kinds : \A d \in Planned(k) : d \in Days /\ run.plan[k][d] \in Values
    BY RunFields DEF SyncInv, SyncTypeOK, RunRecord, Planned
  <1>2. ASSUME NEW k \in Kinds
        PROVE  /\ sent'[k] = [d \in Days |-> IF k \in kinds /\ d \in Planned(k)
                                             THEN run.plan[k][d] ELSE sent[k][d]]
               /\ sent'[k] \in [Days -> Values]
    <2>1. sent'[k] = IF k \in kinds THEN Overlay(sent[k], run.plan[k]) ELSE sent[k]
      BY DEF Record
    <2>2. Overlay(sent[k], run.plan[k]) = [d \in Days |-> IF d \in Planned(k)
                                                          THEN run.plan[k][d] ELSE sent[k][d]]
      BY DEF Overlay, Planned
    <2>3. sent[k] = [d \in Days |-> sent[k][d]]
      BY <1>1
    <2>4. sent'[k] = [d \in Days |-> IF k \in kinds /\ d \in Planned(k)
                                     THEN run.plan[k][d] ELSE sent[k][d]]
      BY <2>1, <2>2, <2>3
    <2>5. \A d \in Days : (IF k \in kinds /\ d \in Planned(k)
                           THEN run.plan[k][d] ELSE sent[k][d]) \in Values
      BY <1>1
    <2> QED
      BY <2>4, <2>5
  <1>3. \A k \in Kinds, d \in Days :
           sent'[k][d] = IF k \in kinds /\ d \in Planned(k) THEN run.plan[k][d] ELSE sent[k][d]
    BY <1>2
  <1>4. sent' \in [Kinds -> [Days -> Values]]
    <2>1. sent' = [k \in Kinds |-> sent'[k]]
      BY DEF Record
    <2> QED
      BY <1>2, <2>1
  <1>5. ASSUME NEW k \in Kinds, NEW d \in Days
        PROVE  \/ Slipped(k, d)' <=> Slipped(k, d)
               \/ sent'[k][d] = remote[k][d] /\ InStep(k, d)
    BY DEF Record, Slipped, Agrees, InStep
  <1>6. slipped' \subseteq slipped
    BY DEF Record
  <1> QED
    BY <1>3, <1>4, <1>5, <1>6

\* The end of a run that succeeded.
LEMMA SaveKeeps ==
    ASSUME SyncInv, Save
    PROVE  SyncInv'
  <1> USE DEF SyncInv
  <1>0. /\ run.at = "save" /\ run' = Resting /\ held' \in BOOLEAN
        /\ due' = (due /\ ~run.full)
        /\ UNCHANGED <<value, remote, status, dirty, asked, switchVars, news, listVars, changes, troubles>>
    BY DEF Save
  <1>1. /\ sent' \in [Kinds -> [Days -> Values]]
        /\ \A k \in Kinds, d \in Days :
             /\ sent'[k][d] = IF d \in Planned(k) THEN run.plan[k][d] ELSE sent[k][d]
             /\ \/ Slipped(k, d)' <=> Slipped(k, d)
                \/ sent'[k][d] = remote[k][d] /\ InStep(k, d)
        /\ slipped' \subseteq slipped
    BY RecordIs DEF Save
  <1>2. SyncTypeOK'
    BY <1>0, <1>1, RestingFields DEF SyncTypeOK, RunRecord, switchVars, listVars
  <1>3. \A k \in Kinds : Planned(k)' = {}
    BY <1>0, RestingFields, NothingIsPlanned DEF Planned
  <1>4. RunSound' /\ GoneSound' /\ PlanSound'
    BY <1>0, <1>3, RestingFields DEF RunSound, GoneSound, PlanSound, Sending
  <1>5. \A k \in Kinds : \A d \in Planned(k) : remote[k][d] = run.plan[k][d] \/ Slipped(k, d)
    BY <1>0 DEF GoneSound, Gone
  <1>6. RecordSound'
    <2> SUFFICES ASSUME NEW k \in Kinds, NEW d \in Days
                 PROVE  sent'[k][d] = remote'[k][d] \/ Slipped(k, d)'
      BY DEF RecordSound
    <2>1. sent'[k][d] = remote[k][d] \/ Slipped(k, d)
      BY <1>1, <1>5 DEF RecordSound
    <2> QED
      BY <1>0, <1>1, <2>1
  <1>7. ASSUME NEW k \in Kinds, NEW d \in Days
        PROVE  /\ InStep(k, d) => InStep(k, d)'
               /\ Owed(k, d) => Owed(k, d)' \/ InStep(k, d)'
    BY <1>0, <1>1 DEF InStep, Owed, switchVars
  <1>8. NothingForgotten'
    <2> SUFFICES ASSUME InService', NEW k \in Kinds, NEW d \in Days PROVE Safe(k, d)'
      BY ForgottenNextIs
    <2>1. InService /\ Safe(k, d)
      BY <1>0, ForgottenIs DEF InService, Connected, switchVars
    <2>2. d \in Planned(k) => InStep(k, d) \/ Owed(k, d)
      BY <1>0, <1>5, <2>1 DEF PlanSound, InService, Sending, InStep, Owed
    <2>3. InHand(k, d) => d \in Planned(k)
      BY <1>0 DEF InHand
    <2>4. due /\ ~due' => d \in Planned(k)
      <3>1. run.full \in BOOLEAN /\ due \in BOOLEAN
        BY RunFields DEF SyncTypeOK, RunRecord
      <3> QED
        BY <1>0, <3>1 DEF RunSound, Sending
    <2>5. InStep(k, d) \/ Owed(k, d) \/ due'
      BY <2>1, <2>2, <2>3, <2>4 DEF Safe
    <2> QED
      BY <1>7, <2>5 DEF Safe
  <1> QED
    BY <1>2, <1>4, <1>6, <1>8

\* What went through before the prices failed is recorded.
LEMMA KeepAvailabilityKeeps ==
    ASSUME SyncInv, KeepAvailability
    PROVE  SyncInv'
  <1> USE DEF SyncInv
  <1>0. /\ run \in RunRecord /\ run.at = "keep"
        /\ UNCHANGED <<value, remote, channelVars, switchVars, news, listVars, changes, troubles>>
    BY DEF KeepAvailability, SyncTypeOK, RunRecord
  <1>1. /\ run' \in RunRecord /\ run'.at = "record" /\ run'.full = run.full
        /\ run'.window = run.window /\ run'.plan = run.plan
    <2>1. run' = [run EXCEPT !.at = "record"] /\ "record" \in Stages
      BY DEF KeepAvailability, Go, Stages
    <2> QED
      BY <1>0, <2>1, RunFields
  <1>2. /\ sent' \in [Kinds -> [Days -> Values]]
        /\ \A k \in Kinds, d \in Days :
             /\ sent'[k][d] = IF k = "availability" /\ d \in Planned(k) THEN run.plan[k][d]
                              ELSE sent[k][d]
             /\ \/ Slipped(k, d)' <=> Slipped(k, d)
                \/ sent'[k][d] = remote[k][d] /\ InStep(k, d)
        /\ slipped' \subseteq slipped
    <2>1. {"availability"} \in SUBSET Kinds
      BY DEF Kinds
    <2> QED
      BY <2>1, RecordIs DEF KeepAvailability
  <1>3. SyncTypeOK'
    BY <1>0, <1>1, <1>2 DEF SyncTypeOK, RunRecord, channelVars, switchVars, listVars
  <1>4. RunSound' /\ GoneSound' /\ PlanSound'
    BY <1>1 DEF RunSound, GoneSound, PlanSound, Gone, Sending, Planned
  <1>5. RecordSound'
    <2> SUFFICES ASSUME NEW k \in Kinds, NEW d \in Days
                 PROVE  sent'[k][d] = remote'[k][d] \/ Slipped(k, d)'
      BY DEF RecordSound
    <2>1. CASE k = "availability" /\ d \in Planned(k)
      <3>1. remote[k][d] = run.plan[k][d] \/ Slipped(k, d)
        BY <1>0, <2>1 DEF GoneSound, Gone
      <3> QED
        BY <1>0, <1>2, <2>1, <3>1
    <2>2. CASE ~(k = "availability" /\ d \in Planned(k))
      <3>1. sent[k][d] = remote[k][d] \/ Slipped(k, d)
        BY <1>0, <2>2 DEF RecordSound, Gone
      <3> QED
        BY <1>0, <1>2, <2>2, <3>1
    <2> QED
      BY <2>1, <2>2
  <1>6. ASSUME NEW k \in Kinds, NEW d \in Days, Safe(k, d) PROVE Safe(k, d)'
    <2>1. InHand(k, d) => InHand(k, d)'
      BY <1>0, <1>1 DEF InHand
    <2>2. InStep(k, d) => InStep(k, d)'
      BY <1>0 DEF InStep
    <2>3. Owed(k, d) => Owed(k, d)' \/ InStep(k, d)
      BY <1>0, <1>2 DEF Owed, channelVars, switchVars
    <2> QED
      BY <1>0, <1>6, <2>1, <2>2, <2>3 DEF Safe, channelVars
  <1>7. NothingForgotten'
    BY <1>0, <1>6, ForgottenIs, ForgottenNextIs
       DEF InService, Connected, channelVars, switchVars
  <1> QED
    BY <1>3, <1>4, <1>5, <1>7

\* The invariant holds in every state.
THEOREM SyncInvariant == SyncSpec => []SyncInv
  <1>1. SyncInit => SyncInv
    BY SyncStarts
  <1>2. SyncInv /\ [SyncNext]_syncVars => SyncInv'
    <2> SUFFICES ASSUME SyncInv, [SyncNext]_syncVars PROVE SyncInv'
      OBVIOUS
    <2>1. CASE UNCHANGED syncVars
      <3>1. SyncTypeOK'
        BY <2>1 DEF SyncInv, SyncTypeOK, syncVars, channelVars, switchVars, listVars
      <3>2. /\ UNCHANGED <<value, sent, remote, run, slipped, dirty, news, asked, wake, due>>
            /\ InService' <=> InService
        BY <2>1 DEF syncVars, channelVars, switchVars, InService, Connected
      <3>3. \A k \in Kinds, d \in Days : Owed(k, d) => (Owed(k, d))'
        BY <3>2 DEF Owed, Slipped
      <3> QED
        BY <3>1, <3>2, <3>3, OutsideKeeps
    <2>2. CASE Job
      BY <2>2, ChooseKeeps, ClaimKeeps, PlanKeeps, PlanFailsKeeps, AcceptedKeeps, FailedKeeps,
         SaveKeeps, KeepAvailabilityKeeps, RecordFailureKeeps DEF Job, Send
    <2>3. CASE Hotel \/ Managers
      BY <2>3, HotelKeepsStep, ManagersKeep
    <2>4. CASE Actor \/ Misfortune \/ HoldEnds \/ NightComes
      BY <2>4, ManagersKeep, EventKeeps, LoseWakeKeeps, AroundKeeps, DropKeeps DEF Actor, Misfortune
    <2> QED
      BY <2>1, <2>2, <2>3, <2>4 DEF SyncNext
  <1> QED
    BY <1>1, <1>2, PTL DEF SyncSpec

\* Type correctness of the channel.
THEOREM SyncTypeCorrect == SyncSpec => []SyncTypeOK
  <1>1. SyncInv => SyncTypeOK
    BY DEF SyncInv
  <1> QED
    BY <1>1, SyncInvariant, PTL

\* No change of a channel in service is forgotten, whatever incident comes
\* between the two hops.
THEOREM NoChangeIsForgotten == SyncSpec => []NothingForgotten
  <1>1. SyncInv => NothingForgotten
    BY DEF SyncInv
  <1> QED
    BY <1>1, SyncInvariant, PTL

\* The record the comparison rests on is what the channel has.
THEOREM TheRecordIsTrue == SyncSpec => []RecordedIsThere
  <1>1. SyncInv => RecordedIsThere
    BY DEF SyncInv, RecordSound, RecordedIsThere, Gone, Slipped
  <1> QED
    BY <1>1, SyncInvariant, PTL

=============================================================================
