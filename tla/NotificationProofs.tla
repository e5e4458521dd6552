------------------------- MODULE NotificationProofs -------------------------
(* Messages to guests, for any rows, senders, batches and faults.  Each     *)
(* counter is bounded by what is still in somebody's hands: a send not yet  *)
(* asked for, a message not yet taken, a retry not yet written.             *)
EXTENDS Notifications, FiniteSetTheorems, TLAPS

\* Senders that hold a counted attempt and have not used it.
Unused(r) == {w \in Senders : at[w][r] \in {"claimed", "prepared", "closed", "quiet"}}

\* Senders by whom the message may still be taken, or put back into the queue.
Open(r) == {w \in Senders : at[w][r] \notin {"no", "accepted"}}

\* Those of them that may come back for another attempt.
Again(r) == {w \in Open(r) : made[w][r] \in 1 .. MaxAttempts - 1}

\* The row itself is the chance of a send, or says that there was none.
Untaken(r) == IF status[r] \in {"PENDING", "FAILED", "CANCELLED"} /\ r \notin undelivered THEN 1 ELSE 0
Queued(r) == IF status[r] = "PENDING" THEN 1 ELSE 0

Counts(r) ==
    /\ calls[r] + Cardinality(Unused(r)) <= attempts[r]
    /\ Cardinality(Open(r)) + Untaken(r) + accepted[r] <= 1 + recovered[r]
    /\ attempts[r] + Queued(r) + Cardinality(Again(r)) <= MaxAttempts + recovered[r]

Unborn(r) ==
    status[r] = "NONE" =>
        /\ attempts[r] = 0 /\ calls[r] = 0 /\ accepted[r] = 0 /\ recovered[r] = 0
        /\ \A w \in Senders : at[w][r] = "no"

Told(r) ==
    /\ status[r] \in {"SENT", "DELIVERED"} => accepted[r] > 0
    /\ r \in undelivered => status[r] = "FAILED"
    /\ status[r] = "FAILED" /\ source[r] # "test" => r \in told

Hand(w, r) ==
    /\ at[w][r] = "accepted" => accepted[r] > 0
    /\ at[w][r] = "retry" => made[w][r] \in 1 .. MaxAttempts - 1
    /\ at[w][r] # "no" /\ w \notin testing => made[w][r] > 0
    /\ at[w][r] # "no" /\ w \in testing => source[r] = "test"

\* A test call has one message in hand.
Alone(w) ==
    w \in testing =>
        \E r \in Rows : at[w][r] # "no" /\ \A q \in Rows \ {r} : at[w][q] = "no"

SInv ==
    /\ \A r \in Rows : Counts(r) /\ Unborn(r) /\ Told(r)
    /\ \A w \in Senders, r \in Rows : Hand(w, r)
    /\ \A w \in Senders : Alone(w)

NInv == NotificationTypeOK /\ SInv

-----------------------------------------------------------------------------
(* Sizes *)

LEMMA Constants ==
    /\ IsFiniteSet(Senders)
    /\ Batch \in Nat \ {0} /\ Lanes \in Nat \ {0} /\ MaxAttempts \in Nat \ {0}
    /\ MaxTroubles \in Nat
BY NotificationAssumption

\* How the sizes of two sets of senders compare.
LEMMA Sizes ==
    ASSUME NEW S \in SUBSET Senders, NEW T \in SUBSET Senders
    PROVE  /\ Cardinality(S) \in Nat /\ Cardinality(T) \in Nat
           /\ T \subseteq S => Cardinality(T) <= Cardinality(S)
           /\ \A w \in S : T \subseteq S \ {w} => Cardinality(T) + 1 <= Cardinality(S)
           /\ \A w \in Senders : T \subseteq S \union {w} => Cardinality(T) <= Cardinality(S) + 1
<1>1. IsFiniteSet(S) /\ IsFiniteSet(T)
  BY Constants, FS_Subset
<1>2. Cardinality(S) \in Nat /\ Cardinality(T) \in Nat
  BY <1>1, FS_CardinalityType
<1>3. T \subseteq S => Cardinality(T) <= Cardinality(S)
  BY <1>1, FS_Subset
<1>4. ASSUME NEW w \in S, T \subseteq S \ {w}
      PROVE  Cardinality(T) + 1 <= Cardinality(S)
  <2>1. IsFiniteSet(S \ {w}) /\ Cardinality(S \ {w}) = Cardinality(S) - 1
    BY <1>1, FS_RemoveElement
  <2>2. Cardinality(T) <= Cardinality(S \ {w})
    BY <1>4, <2>1, FS_Subset
  <2> QED BY <1>2, <2>1, <2>2
<1>5. ASSUME NEW w \in Senders, T \subseteq S \union {w}
      PROVE  Cardinality(T) <= Cardinality(S) + 1
  <2>1. IsFiniteSet(S \union {w})
    BY <1>1, FS_AddElement
  <2>2. Cardinality(S \union {w}) = IF w \in S THEN Cardinality(S) ELSE Cardinality(S) + 1
    BY <1>1, FS_AddElement
  <2>3. Cardinality(T) <= Cardinality(S \union {w})
    BY <1>5, <2>1, FS_Subset
  <2> QED BY <1>2, <2>2, <2>3
<1> QED BY <1>2, <1>3, <1>4, <1>5

LEMMA Hands ==
    ASSUME NEW r \in Rows
    PROVE  /\ Unused(r) \in SUBSET Senders /\ Open(r) \in SUBSET Senders
           /\ Again(r) \in SUBSET Open(r)
           /\ Unused(r)' \in SUBSET Senders /\ Open(r)' \in SUBSET Senders
           /\ Again(r)' \in SUBSET Open(r)'
BY DEF Unused, Open, Again

LEMMA HandSizes ==
    ASSUME NEW r \in Rows
    PROVE  /\ Cardinality(Unused(r)) \in Nat /\ Cardinality(Open(r)) \in Nat /\ Cardinality(Again(r)) \in Nat
           /\ Cardinality(Unused(r)') \in Nat /\ Cardinality(Open(r)') \in Nat /\ Cardinality(Again(r)') \in Nat
           /\ Cardinality(Again(r)) <= Cardinality(Open(r))
           /\ Cardinality(Again(r)') <= Cardinality(Open(r)')
<1>1. /\ Unused(r) \in SUBSET Senders /\ Open(r) \in SUBSET Senders /\ Again(r) \in SUBSET Senders
      /\ Unused(r)' \in SUBSET Senders /\ Open(r)' \in SUBSET Senders /\ Again(r)' \in SUBSET Senders
  BY Hands
<1>2. Again(r) \subseteq Open(r) /\ Again(r)' \subseteq Open(r)'
  BY Hands
<1> QED BY <1>1, <1>2, Sizes

-----------------------------------------------------------------------------
(* Rows and hands a step leaves alone *)

\* The step does not touch the row, and takes nothing new in hand for it.
Spared(r) ==
    /\ status'[r] = status[r] /\ attempts'[r] = attempts[r] /\ source'[r] = source[r]
    /\ calls'[r] = calls[r] /\ accepted'[r] = accepted[r] /\ recovered'[r] = recovered[r]
    /\ r \in told => r \in told'
    /\ r \in undelivered' <=> r \in undelivered

Dropped(r) ==
    \A w \in Senders : at'[w][r] = "no" \/ (at'[w][r] = at[w][r] /\ made'[w][r] = made[w][r])

LEMMA DroppedHands ==
    ASSUME NEW r \in Rows, Dropped(r)
    PROVE  /\ Unused(r)' \subseteq Unused(r) /\ Open(r)' \subseteq Open(r) /\ Again(r)' \subseteq Again(r)
           /\ Cardinality(Unused(r)') <= Cardinality(Unused(r))
           /\ Cardinality(Open(r)') <= Cardinality(Open(r))
           /\ Cardinality(Again(r)') <= Cardinality(Again(r))
<1>1. Unused(r)' \subseteq Unused(r) /\ Open(r)' \subseteq Open(r) /\ Again(r)' \subseteq Again(r)
  BY DEF Dropped, Unused, Open, Again
<1>2. /\ Unused(r) \in SUBSET Senders /\ Open(r) \in SUBSET Senders /\ Again(r) \in SUBSET Senders
      /\ Unused(r)' \in SUBSET Senders /\ Open(r)' \in SUBSET Senders /\ Again(r)' \in SUBSET Senders
  BY Hands
<1> QED BY <1>1, <1>2, Sizes

LEMMA SparedRow ==
    ASSUME NotificationTypeOK, NEW r \in Rows, Spared(r), Dropped(r), Counts(r), Unborn(r), Told(r)
    PROVE  Counts(r)' /\ Unborn(r)' /\ Told(r)'
<1>1. Unborn(r)' /\ Told(r)'
  BY DEF Spared, Dropped, Unborn, Told
<1>2. Untaken(r)' = Untaken(r) /\ Queued(r)' = Queued(r) /\ Untaken(r) \in {0, 1} /\ Queued(r) \in {0, 1}
  BY DEF Spared, Untaken, Queued
<1>3. /\ attempts[r] \in Nat /\ calls[r] \in Nat /\ accepted[r] \in Nat /\ recovered[r] \in Nat
      /\ MaxAttempts \in Nat
  BY Constants DEF NotificationTypeOK
<1>4. Counts(r)'
  BY <1>2, <1>3, HandSizes, DroppedHands DEF Counts, Spared
<1> QED BY <1>1, <1>4

LEMMA EmptyHands ==
    ASSUME NEW r \in Rows, \A w \in Senders : at[w][r] = "no"
    PROVE  /\ Cardinality(Unused(r)) = 0 /\ Cardinality(Open(r)) = 0 /\ Cardinality(Again(r)) = 0
<1>1. Unused(r) = {} /\ Open(r) = {} /\ Again(r) = {}
  BY DEF Unused, Open, Again
<1> QED BY <1>1, FS_EmptySet

\* A step of the queue changes nobody's hands.
LEMMA QueueKeepsHands ==
    ASSUME NotificationTypeOK, SInv, UNCHANGED sendVars,
           \A r \in Rows : accepted'[r] = accepted[r],
           \A r \in Rows : source'[r] = source[r] \/ status[r] = "NONE"
    PROVE  /\ \A w \in Senders, r \in Rows : Hand(w, r)'
           /\ \A w \in Senders : Alone(w)'
<1>1. at' = at /\ made' = made /\ testing' = testing
  BY DEF sendVars
<1>2. ASSUME NEW w \in Senders, NEW r \in Rows PROVE Hand(w, r)'
  <2>1. Hand(w, r) /\ Unborn(r)
    BY DEF SInv
  <2> QED BY <1>1, <2>1 DEF Hand, Unborn
<1>3. ASSUME NEW w \in Senders PROVE Alone(w)'
  BY <1>1 DEF SInv, Alone
<1> QED BY <1>2, <1>3

LEMMA QueueDropsAll ==
    ASSUME UNCHANGED sendVars
    PROVE  \A r \in Rows : Dropped(r)
BY DEF sendVars, Dropped

\* A step of the queue on row r, when r comes out right.
LEMMA QueueStep ==
    ASSUME NotificationTypeOK, SInv, UNCHANGED sendVars, NEW r \in Rows,
           accepted' = accepted,
           \A q \in Rows \ {r} : Spared(q),
           source'[r] = source[r] \/ status[r] = "NONE",
           Counts(r)', Unborn(r)', Told(r)'
    PROVE  SInv'
<1>1. ASSUME NEW q \in Rows PROVE Counts(q)' /\ Unborn(q)' /\ Told(q)'
  <2>1. CASE q = r
    BY <2>1
  <2>2. CASE q # r
    BY <2>2, SparedRow, QueueDropsAll DEF SInv
  <2> QED BY <2>1, <2>2
<1>2. \A q \in Rows : source'[q] = source[q] \/ status[q] = "NONE"
  BY DEF Spared
<1>3. /\ \A w \in Senders, q \in Rows : Hand(w, q)'
      /\ \A w \in Senders : Alone(w)'
  BY <1>2, QueueKeepsHands
<1> QED BY <1>1, <1>3 DEF SInv

-----------------------------------------------------------------------------
(* Steps of the queue *)

LEMMA RowNumbers ==
    ASSUME NotificationTypeOK, NEW r \in Rows
    PROVE  /\ attempts[r] \in Nat /\ calls[r] \in Nat /\ accepted[r] \in Nat /\ recovered[r] \in Nat
           /\ status[r] \in Statuses /\ Untaken(r) \in {0, 1} /\ Queued(r) \in {0, 1}
           /\ MaxAttempts \in Nat \ {0}
BY Constants DEF NotificationTypeOK, Untaken, Queued

LEMMA CreateTypes ==
    ASSUME NotificationTypeOK, NEW r \in Rows, NEW s \in {"PENDING", "CANCELLED", "FAILED"},
           NEW from \in {"trigger", "resend"},
           Create(r, s, from), told' \subseteq Rows,
           UNCHANGED <<attempts, due, stale, sendVars, troubles, calls, accepted, recovered, undelivered>>
    PROVE  NotificationTypeOK'
BY DEF NotificationTypeOK, Create, sendVars, Statuses, Ended

LEMMA CreateKeeps ==
    ASSUME NotificationTypeOK, SInv, NEW r \in Rows, NEW s \in {"PENDING", "CANCELLED", "FAILED"},
           NEW from \in {"trigger", "resend"},
           Create(r, s, from), told \subseteq told', s = "FAILED" => r \in told',
           UNCHANGED <<attempts, due, stale, sendVars, troubles, calls, accepted, recovered, undelivered>>
    PROVE  SInv'
<1>1. Unborn(r) /\ Told(r) /\ status[r] = "NONE"
  BY DEF SInv, Create
<1>2. status'[r] = s /\ \A q \in Rows \ {r} : status'[q] = status[q] /\ source'[q] = source[q]
  BY DEF Create, NotificationTypeOK
<1>3. \A q \in Rows \ {r} : Spared(q)
  BY <1>2 DEF Spared
<1>4. \A w \in Senders : at'[w][r] = "no"
  BY <1>1 DEF Unborn, sendVars
<1>5. Cardinality(Unused(r)') = 0 /\ Cardinality(Open(r)') = 0 /\ Cardinality(Again(r)') = 0
  <2>1. Unused(r)' = {} /\ Open(r)' = {} /\ Again(r)' = {}
    BY <1>4 DEF Unused, Open, Again
  <2> QED BY <2>1, FS_EmptySet
<1>6. attempts'[r] = 0 /\ calls'[r] = 0 /\ accepted'[r] = 0 /\ recovered'[r] = 0
  BY <1>1 DEF Unborn
<1>7. Untaken(r)' \in {0, 1} /\ Queued(r)' \in {0, 1}
  BY DEF Untaken, Queued
<1>8. Counts(r)'
  BY <1>5, <1>6, <1>7, Constants DEF Counts
<1>9. Unborn(r)' /\ Told(r)'
  BY <1>1, <1>2 DEF Unborn, Told
<1> QED BY <1>1, <1>3, <1>8, <1>9, QueueStep

LEMMA EnqueueStep ==
    ASSUME NInv, NEW r \in Rows, Enqueue(r)
    PROVE  NInv'
<1>1. NotificationTypeOK /\ SInv
  BY DEF NInv
<1>2. PICK s \in {"PENDING", "CANCELLED", "FAILED"} :
          /\ Create(r, s, "trigger")
          /\ told \subseteq told' /\ told' \subseteq told \union {r}
          /\ s = "FAILED" => r \in told'
  BY DEF Enqueue
<1>3. UNCHANGED <<attempts, due, stale, sendVars, troubles, calls, accepted, recovered, undelivered>>
  BY DEF Enqueue
<1>4. told' \subseteq Rows
  BY <1>1, <1>2 DEF NotificationTypeOK
<1>5. NotificationTypeOK'
  BY <1>1, <1>2, <1>3, <1>4, CreateTypes
<1>6. SInv'
  BY <1>1, <1>2, <1>3, CreateKeeps
<1> QED BY <1>5, <1>6 DEF NInv

LEMMA ResendStep ==
    ASSUME NInv, NEW original \in Rows, NEW r \in Rows, Resend(original, r)
    PROVE  NInv'
<1>1. NotificationTypeOK /\ SInv
  BY DEF NInv
<1>2. Create(r, "PENDING", "resend") /\ told' = told
  BY DEF Resend, history
<1>3. UNCHANGED <<attempts, due, stale, sendVars, troubles, calls, accepted, recovered, undelivered>>
  BY DEF Resend, history
<1>4. told' \subseteq Rows
  BY <1>1, <1>2 DEF NotificationTypeOK
<1>5. NotificationTypeOK'
  BY <1>1, <1>2, <1>3, <1>4, CreateTypes
<1>6. SInv'
  BY <1>1, <1>2, <1>3, CreateKeeps
<1> QED BY <1>5, <1>6 DEF NInv

\* The counts of a row, when its hands are the same.
LEMMA SameHands ==
    ASSUME UNCHANGED sendVars, NEW r \in Rows
    PROVE  Unused(r)' = Unused(r) /\ Open(r)' = Open(r) /\ Again(r)' = Again(r)
BY DEF sendVars, Unused, Open, Again

LEMMA CancelStep ==
    ASSUME NInv, NEW r \in Rows, Cancel(r)
    PROVE  NInv'
<1>1. NotificationTypeOK /\ SInv /\ Counts(r) /\ Unborn(r) /\ Told(r)
  BY DEF NInv, SInv
<1>2. NotificationTypeOK'
  BY <1>1 DEF Cancel, NotificationTypeOK, sendVars, history, Statuses, Ended
<1>3. /\ UNCHANGED sendVars /\ UNCHANGED <<attempts, source>> /\ UNCHANGED history
      /\ status[r] = "PENDING" /\ status'[r] = "CANCELLED"
      /\ \A q \in Rows \ {r} : status'[q] = status[q]
  BY <1>1 DEF Cancel, NotificationTypeOK
<1>4. \A q \in Rows \ {r} : Spared(q)
  BY <1>3 DEF Spared, history
<1>5. Untaken(r)' = Untaken(r) /\ Queued(r)' = 0 /\ Queued(r) = 1
  BY <1>3 DEF Untaken, Queued, history
<1>6. Counts(r)'
  BY <1>1, <1>3, <1>5, SameHands, HandSizes, RowNumbers DEF Counts, history
<1>7. Unborn(r)' /\ Told(r)'
  BY <1>1, <1>3 DEF Unborn, Told, history
<1>8. SInv'
  BY <1>1, <1>3, <1>4, <1>6, <1>7, QueueStep DEF history
<1> QED BY <1>2, <1>8 DEF NInv

LEMMA ReportStep ==
    ASSUME NInv, NEW r \in Rows, Report(r)
    PROVE  NInv'
<1>1. NotificationTypeOK /\ SInv /\ Counts(r) /\ Unborn(r) /\ Told(r)
  BY DEF NInv, SInv
<1>2. NotificationTypeOK'
  BY <1>1 DEF Report, NotificationTypeOK, sendVars, Statuses, Ended
<1>3. /\ UNCHANGED sendVars /\ UNCHANGED <<attempts, source, calls, accepted, recovered>>
      /\ status[r] = "SENT" /\ status'[r] \in {"DELIVERED", "FAILED"}
      /\ status'[r] = "FAILED" => r \in told' /\ r \in undelivered'
      /\ status'[r] = "DELIVERED" => undelivered' = undelivered
      /\ told \subseteq told'
      /\ \A q \in Rows \ {r} : status'[q] = status[q]
      /\ \A q \in Rows \ {r} : q \in undelivered' <=> q \in undelivered
  BY <1>1 DEF Report, NotificationTypeOK
<1>4. \A q \in Rows \ {r} : Spared(q)
  BY <1>3 DEF Spared
<1>5. Untaken(r)' = 0 /\ Untaken(r) = 0 /\ Queued(r)' = 0 /\ Queued(r) = 0
  BY <1>3 DEF Untaken, Queued
<1>6. Counts(r)'
  BY <1>1, <1>3, <1>5, SameHands, HandSizes, RowNumbers DEF Counts
<1>7. Unborn(r)' /\ Told(r)'
  BY <1>1, <1>3 DEF Unborn, Told
<1>8. SInv'
  BY <1>1, <1>3, <1>4, <1>6, <1>7, QueueStep
<1> QED BY <1>2, <1>8 DEF NInv

\* Time passes: only the clock's marks on the rows change.
LEMMA ClockStep ==
    ASSUME NInv, NEW r \in Rows, TimePasses(r) \/ GrowsStale(r)
    PROVE  NInv'
<1>1. NotificationTypeOK /\ SInv
  BY DEF NInv
<1>2. /\ UNCHANGED sendVars /\ UNCHANGED <<status, attempts, source>> /\ UNCHANGED history
      /\ due' \subseteq due \union {r} /\ stale' \subseteq stale \union {r}
      /\ troubles' \in {troubles, troubles + 1}
  BY DEF TimePasses, GrowsStale, Trouble
<1>3. NotificationTypeOK'
  BY <1>1, <1>2 DEF NotificationTypeOK, sendVars, history
<1>4. \A q \in Rows : Spared(q)
  BY <1>2 DEF Spared, history
<1>5. Counts(r)' /\ Unborn(r)' /\ Told(r)'
  BY <1>1, <1>2, <1>4, QueueDropsAll, SparedRow DEF SInv
<1>6. SInv'
  BY <1>1, <1>2, <1>4, <1>5, QueueStep DEF history
<1> QED BY <1>3, <1>6 DEF NInv

LEMMA RecoverStep ==
    ASSUME NInv, Recover
    PROVE  NInv'
<1>1. NotificationTypeOK /\ SInv
  BY DEF NInv
<1>2. PICK S \in SUBSET Rows :
          /\ \A r \in S : status[r] = "SENDING"
          /\ status' = [r \in Rows |-> IF r \in S THEN "PENDING" ELSE status[r]]
          /\ due' = due \union S /\ stale' = stale \ S
          /\ recovered' = [r \in Rows |-> IF r \in S THEN recovered[r] + 1 ELSE recovered[r]]
  <2> DEFINE S == {r \in stale : status[r] = "SENDING"}
  <2>1. S \in SUBSET Rows
    BY <1>1 DEF NotificationTypeOK
  <2> QED BY <2>1 DEF Recover
<1>3. UNCHANGED <<attempts, source, sendVars, troubles, calls, accepted, told, undelivered>>
  BY DEF Recover
<1>4. NotificationTypeOK'
  BY <1>1, <1>2, <1>3 DEF NotificationTypeOK, sendVars, Statuses
<1>5. ASSUME NEW r \in Rows PROVE Counts(r)' /\ Unborn(r)' /\ Told(r)'
  <2>1. Counts(r) /\ Unborn(r) /\ Told(r)
    BY <1>1 DEF SInv
  <2>2. CASE r \notin S
    <3>1. Spared(r)
      BY <1>2, <1>3, <2>2 DEF Spared
    <3> QED BY <1>1, <1>3, <2>1, <3>1, SparedRow, QueueDropsAll
  <2>3. CASE r \in S
    <3>1. status[r] = "SENDING" /\ status'[r] = "PENDING" /\ recovered'[r] = recovered[r] + 1
      BY <1>2, <2>3
    <3>2. Untaken(r) = 0 /\ Untaken(r)' \in {0, 1} /\ Queued(r) = 0 /\ Queued(r)' = 1
      BY <3>1 DEF Untaken, Queued
    <3>3. Counts(r)'
      BY <1>1, <1>3, <2>1, <3>1, <3>2, SameHands, HandSizes, RowNumbers DEF Counts
    <3>4. Unborn(r)' /\ Told(r)'
      BY <1>3, <2>1, <3>1 DEF Unborn, Told
    <3> QED BY <3>3, <3>4
  <2> QED BY <2>2, <2>3
<1>6. /\ \A w \in Senders, r \in Rows : Hand(w, r)'
      /\ \A w \in Senders : Alone(w)'
  BY <1>1, <1>3, QueueKeepsHands
<1>7. SInv'
  BY <1>5, <1>6 DEF SInv
<1> QED BY <1>4, <1>7 DEF NInv

-----------------------------------------------------------------------------
(* Steps of a sender *)

\* A step with row r only.
OnlyRow(r) == \A q \in Rows \ {r} : Spared(q) /\ Dropped(q)

LEMMA OneRowStep ==
    ASSUME NotificationTypeOK, SInv, NEW r \in Rows, OnlyRow(r),
           Counts(r)', Unborn(r)', Told(r)'
    PROVE  \A q \in Rows : Counts(q)' /\ Unborn(q)' /\ Told(q)'
<1>1. ASSUME NEW q \in Rows, q # r PROVE Counts(q)' /\ Unborn(q)' /\ Told(q)'
  BY <1>1, SparedRow DEF OnlyRow, SInv
<1> QED BY <1>1

\* Sender w takes the row to another place, and keeps what it saw of it.
LEMMA GoFacts ==
    ASSUME NotificationTypeOK, NEW w \in Senders, NEW r \in Rows, NEW place \in Places, Go(w, r, place)
    PROVE  /\ at'[w][r] = place /\ made' = made /\ testing' = testing
           /\ \A v \in Senders, q \in Rows : v # w \/ q # r => at'[v][q] = at[v][q]
           /\ at' \in [Senders -> [Rows -> Places]]
BY DEF Go, NotificationTypeOK

LEMMA GoAlone ==
    ASSUME NotificationTypeOK, SInv, NEW w \in Senders, NEW r \in Rows, NEW place \in Places,
           Go(w, r, place), at[w][r] # "no", place # "no"
    PROVE  \A v \in Senders : Alone(v)'
<1>1. ASSUME NEW v \in Senders, v \in testing' PROVE Alone(v)'
  <2>1. v \in testing
    BY <1>1, GoFacts
  <2>2. PICK p \in Rows : at[v][p] # "no" /\ \A q \in Rows \ {p} : at[v][q] = "no"
    BY <2>1 DEF SInv, Alone
  <2>3. CASE v = w
    <3>1. p = r
      BY <2>2, <2>3
    <3>2. at'[v][r] # "no" /\ \A q \in Rows \ {r} : at'[v][q] = "no"
      BY <2>2, <2>3, <3>1, GoFacts
    <3> QED BY <3>2 DEF Alone
  <2>4. CASE v # w
    <3>1. at'[v][p] # "no" /\ \A q \in Rows \ {p} : at'[v][q] = "no"
      BY <2>2, <2>4, GoFacts
    <3> QED BY <3>1 DEF Alone
  <2> QED BY <2>3, <2>4
<1> QED BY <1>1 DEF Alone

\* What everybody else has in hand stays as it was.
LEMMA GoHands ==
    ASSUME NotificationTypeOK, SInv, NEW w \in Senders, NEW r \in Rows, NEW place \in Places,
           Go(w, r, place), source' = source, \A q \in Rows : accepted[q] > 0 => accepted'[q] > 0,
           Hand(w, r)'
    PROVE  \A v \in Senders, q \in Rows : Hand(v, q)'
<1>1. ASSUME NEW v \in Senders, NEW q \in Rows, v # w \/ q # r PROVE Hand(v, q)'
  <2>1. Hand(v, q)
    BY DEF SInv
  <2>2. at'[v][q] = at[v][q] /\ made' = made /\ testing' = testing
    BY <1>1, GoFacts
  <2>3. at[v][q] = "accepted" => accepted'[q] > 0
    BY <2>1 DEF Hand
  <2> QED BY <2>1, <2>2, <2>3 DEF Hand
<1> QED BY <1>1

\* A row in hand is asked for, or found not to be sent now.
LEMMA BeginKeeps ==
    ASSUME NInv, NEW w \in Senders, NEW r \in Rows, NEW place \in {"closed", "quiet", "calling"},
           at[w][r] \in {"claimed", "prepared"}, Go(w, r, place),
           place = "calling" => calls' = [calls EXCEPT ![r] = @ + 1],
           place # "calling" => calls' = calls,
           troubles' \in {troubles, troubles + 1},
           UNCHANGED <<rowVars, accepted, recovered, told, undelivered>>
    PROVE  NInv'
<1>1. NotificationTypeOK /\ SInv /\ Counts(r) /\ Unborn(r) /\ Told(r) /\ Hand(w, r)
  BY DEF NInv, SInv
<1>2. /\ Go(w, r, place)
      /\ place = "calling" => calls' = [calls EXCEPT ![r] = @ + 1]
      /\ place # "calling" => calls' = calls
      /\ troubles' \in {troubles, troubles + 1}
  OBVIOUS
<1>3. at[w][r] \in {"claimed", "prepared"} /\ UNCHANGED <<rowVars, accepted, recovered, told, undelivered>>
  OBVIOUS
<1>4. place \in Places
  BY DEF Places, Results
<1>5. /\ at'[w][r] = place /\ made' = made /\ testing' = testing
      /\ \A v \in Senders, q \in Rows : v # w \/ q # r => at'[v][q] = at[v][q]
      /\ at' \in [Senders -> [Rows -> Places]]
  BY <1>1, <1>2, <1>4, GoFacts
<1>6. NotificationTypeOK'
  <2>1. calls' \in [Rows -> Nat] /\ troubles' \in Nat
    BY <1>1, <1>2 DEF NotificationTypeOK
  <2> QED BY <1>1, <1>3, <1>5, <2>1 DEF NotificationTypeOK, rowVars
<1>7. OnlyRow(r)
  BY <1>1, <1>2, <1>3, <1>5 DEF OnlyRow, Spared, Dropped, rowVars, NotificationTypeOK
<1>8. Counts(r)'
  <2>1. Unused(r) \in SUBSET Senders /\ Unused(r)' \in SUBSET Senders
    BY Hands
  <2>2. w \in Unused(r)
    BY <1>3 DEF Unused
  <2>3. Open(r)' = Open(r) /\ Again(r)' = Again(r)
    BY <1>3, <1>5 DEF Open, Again
  <2>4. Untaken(r)' = Untaken(r) /\ Queued(r)' = Queued(r)
    BY <1>3 DEF Untaken, Queued, rowVars
  <2>5. calls'[r] + Cardinality(Unused(r)') <= attempts[r]
    <3>1. CASE place = "calling"
      <4>1. Unused(r)' \subseteq Unused(r) \ {w}
        BY <1>5, <3>1 DEF Unused
      <4>2. Cardinality(Unused(r)') + 1 <= Cardinality(Unused(r))
        BY <2>1, <2>2, <4>1, Sizes
      <4>3. calls'[r] = calls[r] + 1
        BY <1>1, <1>2, <3>1 DEF NotificationTypeOK
      <4> QED BY <1>1, <4>2, <4>3, HandSizes, RowNumbers DEF Counts
    <3>2. CASE place # "calling"
      <4>1. Unused(r)' = Unused(r)
        BY <1>2, <1>3, <1>5, <3>2 DEF Unused
      <4> QED BY <1>1, <1>2, <3>2, <4>1 DEF Counts
    <3> QED BY <3>1, <3>2
  <2> QED BY <1>1, <1>3, <2>3, <2>4, <2>5 DEF Counts, rowVars
<1>9. Unborn(r)' /\ Told(r)'
  BY <1>1, <1>3 DEF Unborn, Told, rowVars
<1>10. Hand(w, r)'
  BY <1>1, <1>3, <1>5 DEF Hand, rowVars
<1>11. \A q \in Rows : Counts(q)' /\ Unborn(q)' /\ Told(q)'
  BY <1>1, <1>7, <1>8, <1>9, OneRowStep
<1>12. \A v \in Senders, q \in Rows : Hand(v, q)'
  BY <1>1, <1>2, <1>3, <1>4, <1>10, GoHands DEF rowVars
<1>13. \A v \in Senders : Alone(v)'
  BY <1>1, <1>2, <1>3, <1>4, GoAlone
<1> QED BY <1>6, <1>11, <1>12, <1>13 DEF NInv, SInv

LEMMA AnswerStep ==
    ASSUME NInv, NEW w \in Senders, NEW r \in Rows, Answer(w, r)
    PROVE  NInv'
<1>1. NotificationTypeOK /\ SInv /\ Counts(r) /\ Unborn(r) /\ Told(r) /\ Hand(w, r)
  BY DEF NInv, SInv
<1>2. PICK place \in {"accepted", "rejected", "retry"} :
          /\ Go(w, r, place)
          /\ place = "accepted" => accepted' = [accepted EXCEPT ![r] = @ + 1]
          /\ place # "accepted" => accepted' = accepted
          /\ place = "retry" => made[w][r] < MaxAttempts /\ w \notin testing
  BY DEF Answer
<1>3. at[w][r] = "calling" /\ UNCHANGED <<rowVars, troubles, calls, recovered, told, undelivered>>
  BY DEF Answer
<1>4. place \in Places
  BY DEF Places, Results
<1>5. /\ at'[w][r] = place /\ made' = made /\ testing' = testing
      /\ \A v \in Senders, q \in Rows : v # w \/ q # r => at'[v][q] = at[v][q]
      /\ at' \in [Senders -> [Rows -> Places]]
  BY <1>1, <1>2, <1>4, GoFacts
<1>6. /\ accepted' \in [Rows -> Nat]
      /\ place = "accepted" => accepted'[r] = accepted[r] + 1
      /\ \A q \in Rows \ {r} : accepted'[q] = accepted[q]
      /\ \A q \in Rows : accepted[q] > 0 => accepted'[q] > 0
  <2>1. accepted \in [Rows -> Nat]
    BY <1>1 DEF NotificationTypeOK
  <2>2. CASE place = "accepted"
    BY <1>2, <2>1, <2>2
  <2>3. CASE place # "accepted"
    BY <1>2, <2>1, <2>3
  <2> QED BY <2>2, <2>3
<1>7. NotificationTypeOK'
  BY <1>1, <1>3, <1>5, <1>6 DEF NotificationTypeOK, rowVars
<1>8. OnlyRow(r)
  BY <1>3, <1>5, <1>6 DEF OnlyRow, Spared, Dropped, rowVars
<1>9. Counts(r)'
  <2>1. Open(r) \in SUBSET Senders /\ Open(r)' \in SUBSET Senders /\ w \in Open(r)
    BY <1>3, Hands DEF Open
  <2>2. Unused(r)' = Unused(r)
    BY <1>3, <1>5 DEF Unused
  <2>3. Untaken(r)' = Untaken(r) /\ Queued(r)' = Queued(r)
    BY <1>3 DEF Untaken, Queued, rowVars
  <2>4. CASE place = "accepted"
    <3>1. Open(r)' \subseteq Open(r) \ {w} /\ Again(r)' \subseteq Again(r)
      BY <1>5, <2>4 DEF Open, Again
    <3>2. Cardinality(Open(r)') + 1 <= Cardinality(Open(r))
      BY <2>1, <3>1, Sizes
    <3>3. Cardinality(Again(r)') <= Cardinality(Again(r))
      <4>1. Again(r) \in SUBSET Senders /\ Again(r)' \in SUBSET Senders
        BY Hands
      <4> QED BY <3>1, <4>1, Sizes
    <3> QED BY <1>1, <1>3, <1>6, <2>2, <2>3, <2>4, <3>2, <3>3, HandSizes, RowNumbers DEF Counts, rowVars
  <2>5. CASE place # "accepted"
    <3>1. Open(r)' = Open(r) /\ Again(r)' = Again(r)
      BY <1>2, <1>3, <1>5, <2>5 DEF Open, Again
    <3> QED BY <1>1, <1>2, <1>3, <2>2, <2>3, <2>5, <3>1 DEF Counts, rowVars
  <2> QED BY <2>4, <2>5
<1>10. Unborn(r)' /\ Told(r)'
  <2>1. status[r] # "NONE"
    BY <1>1, <1>3 DEF Unborn
  <2> QED BY <1>1, <1>3, <1>6, <2>1, RowNumbers DEF Unborn, Told, rowVars
<1>11. Hand(w, r)'
  BY <1>1, <1>2, <1>3, <1>5, <1>6, RowNumbers DEF Hand, rowVars, NotificationTypeOK
<1>12. \A q \in Rows : Counts(q)' /\ Unborn(q)' /\ Told(q)'
  BY <1>1, <1>8, <1>9, <1>10, OneRowStep
<1>13. \A v \in Senders, q \in Rows : Hand(v, q)'
  BY <1>1, <1>2, <1>3, <1>4, <1>6, <1>11, GoHands DEF rowVars
<1>14. \A v \in Senders : Alone(v)'
  BY <1>1, <1>2, <1>3, <1>4, GoAlone
<1> QED BY <1>7, <1>12, <1>13, <1>14 DEF NInv, SInv

-----------------------------------------------------------------------------
(* Leaving a row *)

LEMMA LeaveFacts ==
    ASSUME NotificationTypeOK, NEW w \in Senders, NEW r \in Rows, Leave(w, r)
    PROVE  /\ at'[w][r] = "no" /\ made'[w][r] = 0 /\ testing' = testing \ {w}
           /\ \A v \in Senders, q \in Rows : v # w \/ q # r => at'[v][q] = at[v][q] /\ made'[v][q] = made[v][q]
           /\ at' \in [Senders -> [Rows -> Places]] /\ made' \in [Senders -> [Rows -> Nat]]
           /\ testing' \subseteq Senders
           /\ \A q \in Rows : Dropped(q)
BY DEF Leave, NotificationTypeOK, Places, Dropped

\* A sender that leaves a row spoils no hand: one that ran a test had no other.
LEMMA LeaveHands ==
    ASSUME NotificationTypeOK, SInv, NEW w \in Senders, NEW r \in Rows, Leave(w, r), at[w][r] # "no",
           source' = source, accepted' = accepted
    PROVE  /\ \A v \in Senders, q \in Rows : Hand(v, q)'
           /\ \A v \in Senders : Alone(v)'
<1>1. ASSUME NEW v \in Senders, NEW q \in Rows PROVE Hand(v, q)'
  <2>1. Hand(v, q) /\ Alone(v)
    BY DEF SInv
  <2>2. CASE v = w /\ q = r
    BY <2>2, LeaveFacts DEF Hand
  <2>3. CASE v = w /\ q # r
    <3>1. at'[v][q] = at[v][q] /\ made'[v][q] = made[v][q] /\ testing' = testing \ {w}
      BY <2>3, LeaveFacts
    <3>2. v \in testing => at[v][q] = "no"
      BY <2>1, <2>3 DEF Alone
    <3> QED BY <2>1, <2>3, <3>1, <3>2 DEF Hand
  <2>4. CASE v # w
    <3>1. at'[v][q] = at[v][q] /\ made'[v][q] = made[v][q] /\ testing' = testing \ {w}
      BY <2>4, LeaveFacts
    <3> QED BY <2>1, <2>4, <3>1 DEF Hand
  <2> QED BY <2>2, <2>3, <2>4
<1>2. ASSUME NEW v \in Senders, v \in testing' PROVE Alone(v)'
  <2>1. v # w /\ v \in testing
    BY <1>2, LeaveFacts
  <2>2. PICK p \in Rows : at[v][p] # "no" /\ \A q \in Rows \ {p} : at[v][q] = "no"
    BY <2>1 DEF SInv, Alone
  <2>3. \A q \in Rows : at'[v][q] = at[v][q]
    BY <2>1, LeaveFacts
  <2>4. at'[v][p] # "no" /\ \A q \in Rows \ {p} : at'[v][q] = "no"
    BY <2>2, <2>3
  <2> QED BY <2>4 DEF Alone
<1> QED BY <1>1, <1>2 DEF Alone

LEMMA DatabaseFailsStep ==
    ASSUME NInv, NEW w \in Senders, NEW r \in Rows, DatabaseFails(w, r)
    PROVE  NInv'
<1>1. NotificationTypeOK /\ SInv
  BY DEF NInv
<1>2. Leave(w, r) /\ at[w][r] # "no" /\ UNCHANGED <<rowVars, history>> /\ troubles' = troubles + 1
  BY DEF DatabaseFails, Trouble
<1>3. NotificationTypeOK'
  BY <1>1, <1>2, LeaveFacts DEF NotificationTypeOK, rowVars, history
<1>4. \A q \in Rows : Spared(q)
  BY <1>2 DEF Spared, rowVars, history
<1>5. \A q \in Rows : Counts(q)' /\ Unborn(q)' /\ Told(q)'
  BY <1>1, <1>2, <1>4, LeaveFacts, SparedRow DEF SInv
<1>6. /\ \A v \in Senders, q \in Rows : Hand(v, q)'
      /\ \A v \in Senders : Alone(v)'
  BY <1>1, <1>2, LeaveHands DEF rowVars, history
<1> QED BY <1>3, <1>5, <1>6 DEF NInv, SInv

LEMMA CrashStep ==
    ASSUME NInv, NEW w \in Senders, Crash(w)
    PROVE  NInv'
<1>1. NotificationTypeOK /\ SInv
  BY DEF NInv
<1>2. /\ \A q \in Rows : at'[w][q] = "no" /\ made'[w][q] = 0
      /\ \A v \in Senders \ {w}, q \in Rows : at'[v][q] = at[v][q] /\ made'[v][q] = made[v][q]
      /\ at' \in [Senders -> [Rows -> Places]] /\ made' \in [Senders -> [Rows -> Nat]]
      /\ testing' = testing \ {w} /\ troubles' = troubles + 1
      /\ UNCHANGED <<rowVars, history>>
  BY <1>1 DEF Crash, Trouble, NotificationTypeOK, Places
<1>3. NotificationTypeOK'
  BY <1>1, <1>2 DEF NotificationTypeOK, rowVars, history
<1>4. \A q \in Rows : Spared(q) /\ Dropped(q)
  BY <1>2 DEF Spared, Dropped, rowVars, history
<1>5. \A q \in Rows : Counts(q)' /\ Unborn(q)' /\ Told(q)'
  BY <1>1, <1>4, SparedRow DEF SInv
<1>6. ASSUME NEW v \in Senders, NEW q \in Rows PROVE Hand(v, q)'
  <2>1. Hand(v, q)
    BY <1>1 DEF SInv
  <2>2. CASE v = w
    BY <1>2, <2>2 DEF Hand
  <2>3. CASE v # w
    BY <1>2, <2>1, <2>3 DEF Hand, rowVars, history
  <2> QED BY <2>2, <2>3
<1>7. ASSUME NEW v \in Senders, v \in testing' PROVE Alone(v)'
  <2>1. v # w /\ v \in testing
    BY <1>2, <1>7
  <2>2. PICK p \in Rows : at[v][p] # "no" /\ \A q \in Rows \ {p} : at[v][q] = "no"
    BY <1>1, <2>1 DEF SInv, Alone
  <2>3. at'[v][p] # "no" /\ \A q \in Rows \ {p} : at'[v][q] = "no"
    BY <1>2, <2>1, <2>2
  <2> QED BY <2>3 DEF Alone
<1>8. \A v \in Senders : Alone(v)'
  BY <1>7 DEF Alone
<1> QED BY <1>3, <1>5, <1>6, <1>8 DEF NInv, SInv

LEMMA StartStep ==
    ASSUME NInv, NEW w \in Senders, NEW r \in Rows, Start(w, r)
    PROVE  NInv'
<1>1. PICK place \in {"closed", "quiet", "calling"} :
          /\ Go(w, r, place)
          /\ place = "calling" => calls' = [calls EXCEPT ![r] = @ + 1]
          /\ place # "calling" => calls' = calls
          /\ troubles' \in {troubles, troubles + 1}
  BY DEF Start, Ask, Trouble
<1>2. at[w][r] \in {"claimed", "prepared"} /\ UNCHANGED <<rowVars, accepted, recovered, told, undelivered>>
  BY DEF Start
<1> QED BY <1>1, <1>2, BeginKeeps

LEMMA StartTestStep ==
    ASSUME NInv, NEW w \in Senders, NEW r \in Rows, StartTest(w, r)
    PROVE  NInv'
<1>1. /\ at[w][r] = "prepared"
      /\ UNCHANGED <<rowVars, troubles, accepted, recovered, told, undelivered>>
  BY DEF StartTest
<1>2. CASE Ask(w, r)
  <2>1. Go(w, r, "calling") /\ calls' = [calls EXCEPT ![r] = @ + 1]
    BY <1>2 DEF Ask
  <2> QED BY <1>1, <2>1, BeginKeeps
<1>3. CASE Go(w, r, "closed") /\ calls' = calls
  BY <1>1, <1>3, BeginKeeps
<1>4. CASE Leave(w, r) /\ calls' = calls
  <2>1. NotificationTypeOK /\ SInv
    BY DEF NInv
  <2>2. NotificationTypeOK'
    BY <1>1, <1>4, <2>1, LeaveFacts DEF NotificationTypeOK, rowVars
  <2>3. \A q \in Rows : Spared(q)
    BY <1>1, <1>4 DEF Spared, rowVars
  <2>4. \A q \in Rows : Counts(q)' /\ Unborn(q)' /\ Told(q)'
    BY <1>4, <2>1, <2>3, LeaveFacts, SparedRow DEF SInv
  <2>5. /\ \A v \in Senders, q \in Rows : Hand(v, q)'
        /\ \A v \in Senders : Alone(v)'
    BY <1>1, <1>4, <2>1, LeaveHands DEF rowVars
  <2> QED BY <2>2, <2>4, <2>5 DEF NInv, SInv
<1> QED BY <1>2, <1>3, <1>4 DEF StartTest

LEMMA PrepareTestStep ==
    ASSUME NInv, NEW w \in Senders, NEW r \in Rows, PrepareTest(w, r)
    PROVE  NInv'
<1>1. NotificationTypeOK /\ SInv /\ Counts(r) /\ Unborn(r) /\ Told(r)
  BY DEF NInv, SInv
<1>2. /\ status[r] = "NONE" /\ status'[r] = "SENDING" /\ source'[r] = "test" /\ attempts'[r] = 1
      /\ \A q \in Rows \ {r} : status'[q] = status[q] /\ source'[q] = source[q] /\ attempts'[q] = attempts[q]
      /\ UNCHANGED <<due, stale, made, troubles, history>>
  BY <1>1 DEF PrepareTest, Create, NotificationTypeOK
<1>3. /\ \A q \in Rows : at[w][q] = "no"
      /\ at'[w][r] = "prepared" /\ testing' = testing \union {w}
      /\ \A v \in Senders, q \in Rows : v # w \/ q # r => at'[v][q] = at[v][q]
      /\ at' \in [Senders -> [Rows -> Places]]
  BY <1>1 DEF PrepareTest, Idle, NotificationTypeOK, Places
<1>4. NotificationTypeOK'
  BY <1>1, <1>2, <1>3 DEF PrepareTest, Create, NotificationTypeOK, history, Statuses
<1>5. OnlyRow(r)
  BY <1>2, <1>3 DEF OnlyRow, Spared, Dropped, history
<1>6. \A v \in Senders : at[v][r] = "no"
  BY <1>1, <1>2 DEF Unborn
<1>7. Counts(r)'
  <2>1. Unused(r)' \subseteq {w} /\ Open(r)' \subseteq {w} /\ Again(r)' \subseteq {w}
    BY <1>3, <1>6 DEF Unused, Open, Again
  <2>2. {} \in SUBSET Senders /\ Cardinality({}) = 0
    BY FS_EmptySet
  <2>3. /\ Cardinality(Unused(r)') <= 1
        /\ Cardinality(Open(r)') <= 1
        /\ Cardinality(Again(r)') <= 1
    <3>1. /\ Unused(r)' \in SUBSET Senders /\ Open(r)' \in SUBSET Senders
          /\ Again(r)' \in SUBSET Senders
      BY Hands
    <3> QED BY <2>1, <2>2, <3>1, Sizes
  <2>4. Untaken(r)' = 0 /\ Queued(r)' = 0
    BY <1>2 DEF Untaken, Queued
  <2>5. /\ calls'[r] = 0 /\ accepted'[r] = 0 /\ recovered'[r] = 0 /\ attempts'[r] = 1
    BY <1>1, <1>2 DEF Unborn, history
  <2>6. Cardinality(Again(r)') <= MaxAttempts - 1
    <3>1. CASE MaxAttempts = 1
      <4>1. Again(r)' = {}
        BY <3>1 DEF Again
      <4> QED BY <3>1, <4>1, FS_EmptySet
    <3>2. CASE MaxAttempts # 1
      BY <2>3, <3>2, HandSizes, Constants
    <3> QED BY <3>1, <3>2
  <2> QED BY <2>3, <2>4, <2>5, <2>6, HandSizes, Constants DEF Counts
<1>8. Unborn(r)' /\ Told(r)'
  BY <1>1, <1>2 DEF Unborn, Told, history
<1>9. \A q \in Rows : Counts(q)' /\ Unborn(q)' /\ Told(q)'
  BY <1>1, <1>5, <1>7, <1>8, OneRowStep
<1>10. ASSUME NEW v \in Senders, NEW q \in Rows PROVE Hand(v, q)'
  <2>1. Hand(v, q)
    BY <1>1 DEF SInv
  <2>2. CASE q = r
    BY <1>2, <1>3, <1>6, <2>2 DEF Hand
  <2>3. CASE q # r /\ v = w
    BY <1>3, <2>3 DEF Hand
  <2>4. CASE q # r /\ v # w
    BY <1>2, <1>3, <2>1, <2>4 DEF Hand, history
  <2> QED BY <2>2, <2>3, <2>4
<1>11. ASSUME NEW v \in Senders, v \in testing' PROVE Alone(v)'
  <2>1. CASE v = w
    <3>1. at'[v][r] # "no" /\ \A q \in Rows \ {r} : at'[v][q] = "no"
      BY <1>3, <2>1
    <3> QED BY <3>1 DEF Alone
  <2>2. CASE v # w
    <3>1. PICK p \in Rows : at[v][p] # "no" /\ \A q \in Rows \ {p} : at[v][q] = "no"
      BY <1>1, <1>3, <1>11, <2>2 DEF SInv, Alone
    <3>2. at'[v][p] # "no" /\ \A q \in Rows \ {p} : at'[v][q] = "no"
      BY <1>3, <2>2, <3>1
    <3> QED BY <3>2 DEF Alone
  <2> QED BY <2>1, <2>2
<1>12. \A v \in Senders : Alone(v)'
  BY <1>11 DEF Alone
<1> QED BY <1>4, <1>9, <1>10, <1>12 DEF NInv, SInv

LEMMA ClaimStep ==
    ASSUME NInv, NEW w \in Senders, NEW S \in SUBSET Rows, Claim(w, S)
    PROVE  NInv'
<1>1. NotificationTypeOK /\ SInv
  BY DEF NInv
<1>2. /\ \A q \in Rows : at[w][q] = "no"
      /\ \A q \in S : status[q] = "PENDING"
      /\ UNCHANGED <<source, due, testing, troubles, calls, accepted, recovered, told, undelivered>>
  BY DEF Claim, Take, Idle, Due, history
<1>3. \A q \in Rows : /\ q \in S => status'[q] = "SENDING" /\ attempts'[q] = attempts[q] + 1
                      /\ q \notin S => status'[q] = status[q] /\ attempts'[q] = attempts[q]
  BY DEF Claim
<1>4. \A q \in Rows : /\ q \in S => at'[w][q] = "claimed" /\ made'[w][q] = attempts[q] + 1
                      /\ q \notin S => at'[w][q] = "no"
  BY <1>1 DEF Claim, Take, NotificationTypeOK
<1>5. \A v \in Senders : v # w => at'[v] = at[v] /\ made'[v] = made[v]
  BY <1>1 DEF Claim, Take, NotificationTypeOK
<1>6. NotificationTypeOK'
  <2>1. status' \in [Rows -> Statuses] /\ attempts' \in [Rows -> Nat] /\ stale' \subseteq Rows
    BY <1>1 DEF Claim, Take, NotificationTypeOK, Statuses
  <2>2. at' \in [Senders -> [Rows -> Places]]
    BY <1>1 DEF Claim, Take, NotificationTypeOK, Places
  <2>3. made' \in [Senders -> [Rows -> Nat]]
    BY <1>1 DEF Claim, Take, NotificationTypeOK
  <2> QED BY <1>1, <1>2, <2>1, <2>2, <2>3 DEF NotificationTypeOK
<1>7. ASSUME NEW r \in Rows PROVE Counts(r)' /\ Unborn(r)' /\ Told(r)'
  <2>1. Counts(r) /\ Unborn(r) /\ Told(r)
    BY <1>1 DEF SInv
  <2>2. CASE r \notin S
    <3>1. Spared(r) /\ Dropped(r)
      BY <1>2, <1>3, <1>4, <1>5, <2>2 DEF Spared, Dropped
    <3> QED BY <1>1, <2>1, <3>1, SparedRow
  <2>3. CASE r \in S
    <3>1. /\ status[r] = "PENDING" /\ status'[r] = "SENDING" /\ attempts'[r] = attempts[r] + 1
          /\ at'[w][r] = "claimed" /\ made'[w][r] = attempts[r] + 1
          /\ \A v \in Senders : v # w => at'[v][r] = at[v][r] /\ made'[v][r] = made[v][r]
          /\ UNCHANGED <<source, calls, accepted, recovered, told, undelivered>>
      BY <1>2, <1>3, <1>4, <1>5, <2>3
    <3>2. Untaken(r) = 1 /\ Untaken(r)' = 0 /\ Queued(r) = 1 /\ Queued(r)' = 0
      BY <2>1, <3>1 DEF Untaken, Queued, Told
    <3>3. /\ Unused(r)' \subseteq Unused(r) \union {w} /\ Open(r)' \subseteq Open(r) \union {w}
          /\ Again(r)' \subseteq Again(r) \union {w}
      BY <3>1 DEF Unused, Open, Again
    <3>4. /\ Cardinality(Unused(r)') <= Cardinality(Unused(r)) + 1
          /\ Cardinality(Open(r)') <= Cardinality(Open(r)) + 1
      <4>1. Unused(r) \in SUBSET Senders /\ Unused(r)' \in SUBSET Senders
        BY Hands
      <4>2. Open(r) \in SUBSET Senders /\ Open(r)' \in SUBSET Senders
        BY Hands
      <4> QED BY <3>3, <4>1, <4>2, Sizes
    <3>5. /\ calls'[r] + Cardinality(Unused(r)') <= attempts'[r]
          /\ Cardinality(Open(r)') + Untaken(r)' + accepted'[r] <= 1 + recovered'[r]
      BY <1>1, <2>1, <3>1, <3>2, <3>4, HandSizes, RowNumbers DEF Counts
    <3>6. attempts'[r] + Queued(r)' + Cardinality(Again(r)') <= MaxAttempts + recovered'[r]
      <4>1. CASE attempts[r] + 1 < MaxAttempts
        BY <1>1, <3>1, <3>2, <3>5, <4>1, HandSizes, RowNumbers
      <4>2. CASE ~(attempts[r] + 1 < MaxAttempts)
        <5>1. Again(r)' \subseteq Again(r)
          BY <1>1, <3>1, <4>2, RowNumbers DEF Again, Open
        <5>2. Again(r) \in SUBSET Senders /\ Again(r)' \in SUBSET Senders
          BY Hands
        <5>3. Cardinality(Again(r)') <= Cardinality(Again(r))
          BY <5>1, <5>2, Sizes
        <5> QED BY <1>1, <2>1, <3>1, <3>2, <5>3, HandSizes, RowNumbers DEF Counts
      <4> QED BY <4>1, <4>2
    <3>7. Unborn(r)' /\ Told(r)'
      BY <2>1, <3>1 DEF Unborn, Told
    <3> QED BY <3>5, <3>6, <3>7 DEF Counts
  <2> QED BY <2>2, <2>3
<1>8. w \notin testing
  BY <1>1, <1>2 DEF SInv, Alone
<1>9. ASSUME NEW v \in Senders, NEW q \in Rows PROVE Hand(v, q)'
  <2>1. Hand(v, q)
    BY <1>1 DEF SInv
  <2>2. CASE v = w
    <3>1. attempts[q] \in Nat
      BY <1>1, RowNumbers
    <3> QED BY <1>2, <1>4, <1>8, <2>2, <3>1 DEF Hand
  <2>3. CASE v # w
    BY <1>2, <1>5, <2>1, <2>3 DEF Hand
  <2> QED BY <2>2, <2>3
<1>10. ASSUME NEW v \in Senders, v \in testing' PROVE Alone(v)'
  <2>1. v # w /\ v \in testing
    BY <1>2, <1>8, <1>10
  <2>2. PICK p \in Rows : at[v][p] # "no" /\ \A q \in Rows \ {p} : at[v][q] = "no"
    BY <1>1, <2>1 DEF SInv, Alone
  <2>3. at'[v][p] # "no" /\ \A q \in Rows \ {p} : at'[v][q] = "no"
    BY <1>5, <2>1, <2>2
  <2> QED BY <2>3 DEF Alone
<1>11. \A v \in Senders : Alone(v)'
  BY <1>10 DEF Alone
<1> QED BY <1>6, <1>7, <1>9, <1>11 DEF NInv, SInv

\* The result of a row that is still SENDING is written.
LEMMA WriteCounts ==
    ASSUME NInv, NEW w \in Senders, NEW r \in Rows, at[w][r] \in Results,
           status[r] = "SENDING", Write(w, r), Leave(w, r),
           UNCHANGED <<source, troubles, calls, accepted, recovered, undelivered>>
    PROVE  Counts(r)' /\ Unborn(r)' /\ Told(r)' /\ attempts' \in [Rows -> Nat]
<1>1. NotificationTypeOK /\ Counts(r) /\ Unborn(r) /\ Told(r) /\ Hand(w, r)
  BY DEF NInv, SInv
<1>2. PICK result \in Results :
          /\ at[w][r] = result /\ status'[r] = StatusAfter(result)
          /\ attempts'[r] = IF result = "quiet" THEN attempts[r] - 1 ELSE attempts[r]
          /\ result = "rejected" /\ w \notin testing => r \in told'
          /\ told \subseteq told'
  BY <1>1 DEF Write, NotificationTypeOK
<1>3. /\ Unused(r) \in SUBSET Senders /\ Unused(r)' \in SUBSET Senders
      /\ Open(r) \in SUBSET Senders /\ Open(r)' \in SUBSET Senders
  BY Hands
<1>4. Again(r) \in SUBSET Senders /\ Again(r)' \in SUBSET Senders
  BY Hands
<1>5. /\ Unused(r)' \subseteq Unused(r) \ {w} /\ Open(r)' \subseteq Open(r) \ {w}
      /\ Again(r)' \subseteq Again(r) \ {w}
  <2>1. /\ at'[w][r] = "no"
        /\ \A v \in Senders : v # w => at'[v][r] = at[v][r] /\ made'[v][r] = made[v][r]
    BY <1>1, LeaveFacts
  <2> QED BY <2>1 DEF Unused, Open, Again
<1>6. /\ Cardinality(Unused(r)') <= Cardinality(Unused(r))
      /\ Cardinality(Open(r)') <= Cardinality(Open(r))
      /\ Cardinality(Again(r)') <= Cardinality(Again(r))
  BY <1>3, <1>4, <1>5, Sizes
<1>7. Untaken(r) = 0 /\ Queued(r) = 0 /\ Untaken(r)' \in {0, 1} /\ Queued(r)' \in {0, 1}
  BY DEF Untaken, Queued
<1>8. result = "quiet" => Cardinality(Unused(r)') + 1 <= Cardinality(Unused(r))
  <2>1. result = "quiet" => w \in Unused(r)
    BY <1>2 DEF Unused
  <2> QED BY <1>3, <1>5, <2>1, Sizes
<1>9. result # "accepted" => Cardinality(Open(r)') + 1 <= Cardinality(Open(r))
  <2>1. result # "accepted" => w \in Open(r)
    BY <1>2 DEF Open, Results
  <2> QED BY <1>3, <1>5, <2>1, Sizes
<1>10. result = "retry" => Cardinality(Again(r)') + 1 <= Cardinality(Again(r))
  <2>1. result = "retry" => w \in Again(r)
    BY <1>1, <1>2 DEF Again, Open, Hand
  <2> QED BY <1>4, <1>5, <2>1, Sizes
<1>11. result = "accepted" => Untaken(r)' = 0 /\ Queued(r)' = 0
  BY <1>2 DEF Untaken, Queued, StatusAfter
<1>12. Queued(r)' = 1 => result \in {"retry", "quiet"}
  BY <1>2 DEF Queued, StatusAfter, Results
<1>13. attempts'[r] \in Nat
  BY <1>1, <1>2, <1>6, <1>8, HandSizes, RowNumbers DEF Counts
<1>14. calls'[r] + Cardinality(Unused(r)') <= attempts'[r]
  BY <1>1, <1>2, <1>6, <1>8, HandSizes, RowNumbers DEF Counts
<1>15. Cardinality(Open(r)') + Untaken(r)' + accepted'[r] <= 1 + recovered'[r]
  BY <1>1, <1>6, <1>7, <1>9, <1>11, HandSizes, RowNumbers DEF Counts
<1>16. attempts'[r] + Queued(r)' + Cardinality(Again(r)') <= MaxAttempts + recovered'[r]
  BY <1>1, <1>2, <1>6, <1>7, <1>10, <1>12, HandSizes, RowNumbers DEF Counts
<1>17. Unborn(r)' /\ Told(r)'
  <2>1. status'[r] \in {"SENT", "FAILED", "CANCELLED", "PENDING"}
    BY <1>2 DEF StatusAfter, Results
  <2>2. status'[r] = "SENT" => result = "accepted"
    BY <1>2 DEF StatusAfter, Results
  <2>3. status'[r] = "FAILED" => result = "rejected"
    BY <1>2 DEF StatusAfter, Results
  <2>4. r \notin undelivered
    BY <1>1 DEF Told
  <2>5. status'[r] = "FAILED" /\ source[r] # "test" => r \in told'
    BY <1>1, <1>2, <2>3 DEF Hand
  <2> QED BY <1>1, <1>2, <2>1, <2>2, <2>4, <2>5 DEF Unborn, Told, Hand
<1>18. attempts' \in [Rows -> Nat]
  BY <1>1, <1>13 DEF Write, NotificationTypeOK
<1> QED BY <1>14, <1>15, <1>16, <1>17, <1>18 DEF Counts

LEMMA FinishStep ==
    ASSUME NInv, NEW w \in Senders, NEW r \in Rows, Finish(w, r)
    PROVE  NInv'
<1>1. NotificationTypeOK /\ SInv
  BY DEF NInv
<1>2. /\ at[w][r] \in Results /\ Leave(w, r)
      /\ UNCHANGED <<source, troubles, calls, accepted, recovered, undelivered>>
  BY DEF Finish
<1>3. at[w][r] # "no"
  BY <1>2 DEF Results
<1>4. /\ \A v \in Senders, q \in Rows : Hand(v, q)'
      /\ \A v \in Senders : Alone(v)'
  BY <1>1, <1>2, <1>3, LeaveHands
<1>5. CASE status[r] = "SENDING" /\ Write(w, r)
  <2>1. Counts(r)' /\ Unborn(r)' /\ Told(r)' /\ attempts' \in [Rows -> Nat]
    BY <1>2, <1>5, WriteCounts
  <2>2. /\ status' \in [Rows -> Statuses]
        /\ due' \subseteq Rows /\ stale' \subseteq Rows /\ told' \subseteq Rows
    BY <1>1, <1>2, <1>5 DEF Write, NotificationTypeOK, StatusAfter, Statuses, Ended, Results
  <2>3. NotificationTypeOK'
    BY <1>1, <1>2, <2>1, <2>2, LeaveFacts DEF NotificationTypeOK
  <2>4. \A q \in Rows \ {r} : status'[q] = status[q] /\ attempts'[q] = attempts[q]
    BY <1>1, <1>5 DEF Write, NotificationTypeOK
  <2>5. told \subseteq told'
    BY <1>5 DEF Write
  <2>6. OnlyRow(r)
    BY <1>1, <1>2, <2>4, <2>5, LeaveFacts DEF OnlyRow, Spared
  <2>7. \A q \in Rows : Counts(q)' /\ Unborn(q)' /\ Told(q)'
    BY <1>1, <2>1, <2>6, OneRowStep
  <2> QED BY <1>4, <2>3, <2>7 DEF NInv, SInv
<1>6. CASE status[r] # "SENDING" /\ UNCHANGED <<status, attempts, due, stale, told>>
  <2>1. NotificationTypeOK'
    BY <1>1, <1>2, <1>6, LeaveFacts DEF NotificationTypeOK
  <2>2. \A q \in Rows : Spared(q)
    BY <1>2, <1>6 DEF Spared
  <2>3. \A q \in Rows : Counts(q)' /\ Unborn(q)' /\ Told(q)'
    BY <1>1, <1>2, <2>2, LeaveFacts, SparedRow DEF SInv
  <2> QED BY <1>4, <2>1, <2>3 DEF NInv, SInv
<1> QED BY <1>5, <1>6 DEF Finish

-----------------------------------------------------------------------------
(* The invariant and what follows from it *)

LEMMA InitSound == Init => NInv
<1> SUFFICES ASSUME Init PROVE NInv
  OBVIOUS
<1>1. NotificationTypeOK
  BY DEF Init, NotificationTypeOK, Statuses, Places
<1>2. ASSUME NEW r \in Rows PROVE Counts(r) /\ Unborn(r) /\ Told(r)
  <2>1. /\ status[r] = "NONE" /\ attempts[r] = 0 /\ calls[r] = 0 /\ accepted[r] = 0 /\ recovered[r] = 0
        /\ \A w \in Senders : at[w][r] = "no"
        /\ undelivered = {}
    BY DEF Init
  <2>2. Untaken(r) = 0 /\ Queued(r) = 0
    BY <2>1 DEF Untaken, Queued
  <2> QED BY <2>1, <2>2, EmptyHands, Constants DEF Counts, Unborn, Told
<1>3. \A w \in Senders, r \in Rows : Hand(w, r)
  BY DEF Init, Hand
<1>4. \A w \in Senders : Alone(w)
  BY DEF Init, Alone
<1> QED BY <1>1, <1>2, <1>3, <1>4 DEF NInv, SInv

LEMMA StepSound == NInv /\ Next => NInv'
<1> SUFFICES ASSUME NInv, Next PROVE NInv'
  OBVIOUS
<1>1. CASE \E r \in Rows : Enqueue(r) \/ Cancel(r) \/ TimePasses(r) \/ GrowsStale(r) \/ Report(r)
  BY <1>1, EnqueueStep, CancelStep, ClockStep, ReportStep
<1>2. CASE \E original, r \in Rows : Resend(original, r)
  BY <1>2, ResendStep
<1>3. CASE \E w \in Senders, r \in Rows : PrepareTest(w, r) \/ DatabaseFails(w, r)
  BY <1>3, PrepareTestStep, DatabaseFailsStep
<1>4. CASE \E w \in Senders : Work(w)
  <2>1. PICK w \in Senders : Work(w)
    BY <1>4
  <2>2. CASE \E S \in SUBSET Rows : Claim(w, S)
    BY <2>2, ClaimStep
  <2>3. CASE \E r \in Rows : Start(w, r) \/ StartTest(w, r) \/ Answer(w, r) \/ Finish(w, r)
    BY <2>3, StartStep, StartTestStep, AnswerStep, FinishStep
  <2> QED BY <2>1, <2>2, <2>3 DEF Work
<1>5. CASE \E w \in Senders : Crash(w)
  BY <1>5, CrashStep
<1>6. CASE Recover
  BY <1>6, RecoverStep
<1> QED BY <1>1, <1>2, <1>3, <1>4, <1>5, <1>6 DEF Next

LEMMA StutterSound == NInv /\ UNCHANGED vars => NInv'
<1> SUFFICES ASSUME NInv, UNCHANGED vars PROVE NInv'
  OBVIOUS
<1>1. NotificationTypeOK /\ SInv
  BY DEF NInv
<1>2. UNCHANGED sendVars /\ UNCHANGED rowVars /\ UNCHANGED history /\ UNCHANGED troubles
  BY DEF vars
<1>3. NotificationTypeOK'
  BY <1>1, <1>2 DEF NotificationTypeOK, sendVars, rowVars, history
<1>4. \A q \in Rows : Spared(q)
  BY <1>2 DEF Spared, rowVars, history
<1>5. \A q \in Rows : Counts(q)' /\ Unborn(q)' /\ Told(q)'
  BY <1>1, <1>2, <1>4, QueueDropsAll, SparedRow DEF SInv
<1>6. /\ \A w \in Senders, r \in Rows : Hand(w, r)'
      /\ \A w \in Senders : Alone(w)'
  BY <1>1, <1>2, QueueKeepsHands DEF rowVars, history
<1> QED BY <1>3, <1>5, <1>6 DEF NInv, SInv

LEMMA Sound == Spec => []NInv
<1>1. Init => NInv
  BY InitSound
<1>2. NInv /\ [Next]_vars => NInv'
  BY StepSound, StutterSound
<1> QED BY <1>1, <1>2, PTL DEF Spec

\* The queue's records are of their types; a count of attempts that quiet
\* hours decrement stays a natural number whoever's claim it undoes.
THEOREM QueueTyping == Spec => []NotificationTypeOK
<1>1. NInv => NotificationTypeOK
  BY DEF NInv
<1> QED BY <1>1, Sound, PTL

\* A message is taken by a provider at most once more than it was put back.
THEOREM SentOncePerRecovery == Spec => []RepeatsWereRecovered
<1>1. NInv => RepeatsWereRecovered
  <2> SUFFICES ASSUME NInv, NEW r \in Rows PROVE accepted[r] <= 1 + recovered[r]
    BY DEF RepeatsWereRecovered
  <2> QED BY HandSizes, RowNumbers DEF NInv, SInv, Counts
<1> QED BY <1>1, Sound, PTL

\* Calls of a provider stay within the attempts, and attempts within the
\* allowed number and the recoveries.
THEOREM BoundedAttempts == Spec => []AttemptsAreBounded
<1>1. NInv => AttemptsAreBounded
  <2> SUFFICES ASSUME NInv, NEW r \in Rows
               PROVE  calls[r] <= attempts[r] /\ attempts[r] <= MaxAttempts + recovered[r]
    BY DEF AttemptsAreBounded
  <2> QED BY HandSizes, RowNumbers DEF NInv, SInv, Counts
<1> QED BY <1>1, Sound, PTL

\* The history tells of every message whether a provider took it.
THEOREM TrueHistory == Spec => []HistoryIsTrue
<1>1. NInv => HistoryIsTrue
  <2> SUFFICES ASSUME NInv, NEW r \in Rows
               PROVE  /\ status[r] \in {"SENT", "DELIVERED"} => accepted[r] > 0
                      /\ /\ status[r] \in {"FAILED", "CANCELLED"}
                         /\ recovered[r] = 0 /\ r \notin undelivered
                         => accepted[r] = 0
    BY DEF HistoryIsTrue
  <2>1. Counts(r) /\ Told(r) /\ NotificationTypeOK
    BY DEF NInv, SInv
  <2>2. status[r] \in {"SENT", "DELIVERED"} => accepted[r] > 0
    BY <2>1 DEF Told
  <2>3. ASSUME status[r] \in {"FAILED", "CANCELLED"}, recovered[r] = 0, r \notin undelivered
        PROVE  accepted[r] = 0
    <3>1. Untaken(r) = 1
      BY <2>3 DEF Untaken
    <3> QED BY <2>1, <2>3, <3>1, HandSizes, RowNumbers DEF Counts
  <2> QED BY <2>2, <2>3
<1> QED BY <1>1, Sound, PTL

\* A message to a guest that failed has been reported to the staff.
THEOREM ToldFailures == Spec => []FailureIsTold
<1>1. NInv => FailureIsTold
  BY DEF NInv, SInv, Told, FailureIsTold
<1> QED BY <1>1, Sound, PTL

\* Nobody reopens a message that has ended, however late his result is; only
\* a delivery report still says more about a sent one.
THEOREM EndsAreFinal == Spec => EndIsFinal
<1> DEFINE Kept(r) ==
      status[r] \in Ended =>
          \/ status'[r] = status[r]
          \/ status[r] = "SENT" /\ status'[r] \in {"DELIVERED", "FAILED"}
<1>1. ASSUME NInv, Next, NEW r \in Rows PROVE Kept(r)
  <2>1. status \in [Rows -> Statuses]
    BY <1>1 DEF NInv, NotificationTypeOK
  <2>2. ASSUME NEW q \in Rows, NEW s, NEW from, Create(q, s, from) PROVE Kept(r)
    BY <2>1, <2>2 DEF Create, Ended
  <2>3. CASE \E q \in Rows : Enqueue(q) \/ Cancel(q) \/ TimePasses(q) \/ GrowsStale(q) \/ Report(q)
    <3>1. PICK q \in Rows : Enqueue(q) \/ Cancel(q) \/ TimePasses(q) \/ GrowsStale(q) \/ Report(q)
      BY <2>3
    <3>2. CASE Enqueue(q)
      BY <2>2, <3>2 DEF Enqueue
    <3>3. CASE Cancel(q)
      BY <2>1, <3>3 DEF Cancel, Ended
    <3>4. CASE TimePasses(q) \/ GrowsStale(q)
      BY <3>4 DEF TimePasses, GrowsStale
    <3>5. CASE Report(q)
      BY <2>1, <3>5 DEF Report, Ended
    <3> QED BY <3>1, <3>2, <3>3, <3>4, <3>5
  <2>4. CASE \E original, q \in Rows : Resend(original, q)
    BY <2>2, <2>4 DEF Resend
  <2>5. CASE \E w \in Senders, q \in Rows : PrepareTest(w, q) \/ DatabaseFails(w, q)
    <3>1. PICK w \in Senders, q \in Rows : PrepareTest(w, q) \/ DatabaseFails(w, q)
      BY <2>5
    <3>2. CASE PrepareTest(w, q)
      BY <2>2, <3>2 DEF PrepareTest
    <3>3. CASE DatabaseFails(w, q)
      BY <3>3 DEF DatabaseFails, rowVars
    <3> QED BY <3>1, <3>2, <3>3
  <2>6. CASE \E w \in Senders : Work(w)
    <3>1. PICK w \in Senders : Work(w)
      BY <2>6
    <3>2. CASE \E S \in SUBSET Rows : Claim(w, S)
      BY <2>1, <3>2 DEF Claim, Take, Due, Ended
    <3>3. CASE \E q \in Rows : Start(w, q) \/ StartTest(w, q) \/ Answer(w, q)
      BY <3>3 DEF Start, StartTest, Answer, rowVars
    <3>4. CASE \E q \in Rows : Finish(w, q)
      BY <2>1, <3>4 DEF Finish, Write, Ended
    <3> QED BY <3>1, <3>2, <3>3, <3>4 DEF Work
  <2>7. CASE \E w \in Senders : Crash(w)
    BY <2>7 DEF Crash, rowVars
  <2>8. CASE Recover
    BY <2>1, <2>8 DEF Recover, Ended
  <2> QED BY <1>1, <2>3, <2>4, <2>5, <2>6, <2>7, <2>8 DEF Next
<1>2. NInv /\ [Next]_vars => [\A r \in Rows : Kept(r)]_vars
  BY <1>1
<1> QED BY <1>2, Sound, PTL DEF EndIsFinal, Spec
=============================================================================
