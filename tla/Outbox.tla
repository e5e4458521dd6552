------------------------------- MODULE Outbox -------------------------------
(***************************************************************************)
(* The transactional outbox: lib/write.js runs a unit of work in a         *)
(* database transaction that also stages its events into EventLog          *)
(* (lib/events.js, publishedAt = null), dispatches them on the bus once    *)
(* the transaction has committed, and marks them published with one        *)
(* update.  lib/outbox.js is the periodic relay of every server process:   *)
(* it claims the rows left unpublished for longer than the grace period    *)
(* by marking them published, and dispatches them again.                   *)
(*                                                                         *)
(* An event is <<write, attempt, slot>>: every attempt of a write stages   *)
(* new envelopes (createEnvelope draws a fresh id).  What a subscriber     *)
(* does with a dispatched event is BaseWorker's business; a dispatch here  *)
(* is one call of InMemoryEventBus.dispatch that returned.                 *)
(***************************************************************************)
EXTENDS Naturals, Sequences, FiniteSets

CONSTANTS
    Procs,          \* server processes sharing the database
    Writes,         \* calls of writeWithEvents
    EventsPerWrite, \* events a unit of work stages
    MaxAttempts,    \* MAX_TRANSACTION_ATTEMPTS
    RelayBatch,     \* RELAY_BATCH
    MaxCrashes,     \* bound on process crashes
    MaxMarkFaults   \* bound on failing publishedAt updates

ASSUME OutboxAssumption ==
    /\ EventsPerWrite \in Nat \ {0}
    /\ MaxAttempts \in Nat \ {0}
    /\ RelayBatch \in Nat \ {0}
    /\ MaxCrashes \in Nat
    /\ MaxMarkFaults \in Nat

Slots    == 1 .. EventsPerWrite
Attempts == 1 .. MaxAttempts
EventIds == Writes \X Attempts \X Slots

VARIABLES
    home,       \* process that serves the request of each write
    pc,         \* where each write is
    attempt,    \* transaction attempt it is in
    staged,     \* envelopes the attempt has staged so far
    next,       \* envelope it dispatches next
    log,        \* EventLog: is the row there, and is publishedAt set?
    aged,       \* rows older than RELAY_GRACE_MS
    claimed,    \* per process: rows its relay round still has to dispatch
    requested,  \* how often the request has dispatched each event
    relayed,    \* how often a relay has dispatched each event
    dropped,    \* history: rows a relay had claimed when its process died
    crashes,    \* crashes so far
    markFaults  \* failed publishedAt updates so far

writes == <<home, pc, attempt, staged, next>>
vars == <<home, pc, attempt, staged, next, log, aged, claimed, requested, relayed,
          dropped, crashes, markFaults>>

WriterStates == {"idle", "tx", "dispatch", "mark", "done", "failed", "crashed"}

TypeOK ==
    /\ home \in [Writes -> Procs]
    /\ pc \in [Writes -> WriterStates]
    /\ attempt \in [Writes -> Attempts]
    /\ staged \in [Writes -> Seq(EventIds)]
    /\ next \in [Writes -> Nat]
    /\ log \in [EventIds -> {"none", "open", "published"}]
    /\ aged \subseteq EventIds
    /\ claimed \in [Procs -> SUBSET EventIds]
    /\ requested \in [EventIds -> Nat]
    /\ relayed \in [EventIds -> Nat]
    /\ dropped \subseteq EventIds
    /\ crashes \in Nat
    /\ markFaults \in Nat

Init ==
    /\ home \in [Writes -> Procs]
    /\ pc = [w \in Writes |-> "idle"]
    /\ attempt = [w \in Writes |-> 1]
    /\ staged = [w \in Writes |-> <<>>]
    /\ next = [w \in Writes |-> 1]
    /\ log = [e \in EventIds |-> "none"]
    /\ aged = {}
    /\ claimed = [p \in Procs |-> {}]
    /\ requested = [e \in EventIds |-> 0]
    /\ relayed = [e \in EventIds |-> 0]
    /\ dropped = {}
    /\ crashes = 0
    /\ markFaults = 0

StagedSet(w) == {staged[w][i] : i \in 1 .. Len(staged[w])}

Sent(e) == requested[e] + relayed[e] > 0

-----------------------------------------------------------------------------
(* lib/write.js and the staging half of lib/events.js *)

Begin(w) ==
    /\ pc[w] = "idle"
    /\ pc' = [pc EXCEPT ![w] = "tx"]
    /\ UNCHANGED <<home, attempt, staged, next>>
    /\ UNCHANGED <<log, aged, claimed, requested, relayed, dropped, crashes, markFaults>>

\* stageEvent: the row is written inside the transaction, invisible to others;
\* the envelope is remembered for the dispatch after the commit.
Stage(w) ==
    /\ pc[w] = "tx"
    /\ Len(staged[w]) < EventsPerWrite
    /\ staged' = [staged EXCEPT ![w] = Append(@, <<w, attempt[w], Len(@) + 1>>)]
    /\ UNCHANGED <<home, pc, attempt, next>>
    /\ UNCHANGED <<log, aged, claimed, requested, relayed, dropped, crashes, markFaults>>

\* Mutant: the rows are inserted as already published, the way the direct
\* publish path of the bus persists an event.
CommitPublished(w) ==
    /\ pc[w] = "tx"
    /\ Len(staged[w]) = EventsPerWrite
    /\ pc' = [pc EXCEPT ![w] = "dispatch"]
    /\ UNCHANGED <<home, attempt, staged, next>>
    /\ log' = [e \in EventIds |->
                 IF e[1] = w /\ e[2] = attempt[w] THEN "published" ELSE log[e]]
    /\ UNCHANGED <<aged, claimed, requested, relayed, dropped, crashes, markFaults>>

\* The rows of this attempt become visible together with the business data.
Commit(w) ==
    /\ pc[w] = "tx"
    /\ Len(staged[w]) = EventsPerWrite
    /\ pc' = [pc EXCEPT ![w] = "dispatch"]
    /\ UNCHANGED <<home, attempt, staged, next>>
    /\ log' = [e \in EventIds |->
                 IF e[1] = w /\ e[2] = attempt[w] THEN "open" ELSE log[e]]
    /\ UNCHANGED <<aged, claimed, requested, relayed, dropped, crashes, markFaults>>

\* Mutant: the list of staged envelopes is created outside the retry loop.
RetryKeepsStaged(w) ==
    /\ pc[w] = "tx"
    /\ attempt[w] < MaxAttempts
    /\ attempt' = [attempt EXCEPT ![w] = @ + 1]
    /\ UNCHANGED <<home, pc, staged, next>>
    /\ UNCHANGED <<log, aged, claimed, requested, relayed, dropped, crashes, markFaults>>

\* Deadlock or write conflict: the database rolled everything back, the work
\* runs again from the start with an empty list of staged envelopes.
Retry(w) ==
    /\ pc[w] = "tx"
    /\ attempt[w] < MaxAttempts
    /\ attempt' = [attempt EXCEPT ![w] = @ + 1]
    /\ staged' = [staged EXCEPT ![w] = <<>>]
    /\ UNCHANGED <<home, pc, next>>
    /\ UNCHANGED <<log, aged, claimed, requested, relayed, dropped, crashes, markFaults>>

\* Any other error, or the last attempt: rolled back and thrown to the caller.
Fail(w) ==
    /\ pc[w] = "tx"
    /\ pc' = [pc EXCEPT ![w] = "failed"]
    /\ UNCHANGED <<home, attempt, staged, next>>
    /\ UNCHANGED <<log, aged, claimed, requested, relayed, dropped, crashes, markFaults>>

\* dispatchStaged: the envelopes go to the bus one after the other.
Dispatch(w) ==
    /\ pc[w] = "dispatch"
    /\ requested' = [requested EXCEPT ![staged[w][next[w]]] = @ + 1]
    /\ next' = [next EXCEPT ![w] = @ + 1]
    /\ pc' = [pc EXCEPT ![w] = IF next[w] = Len(staged[w]) THEN "mark" ELSE @]
    /\ UNCHANGED <<home, attempt, staged>>
    /\ UNCHANGED <<log, aged, claimed, relayed, dropped, crashes, markFaults>>

\* One update marks the whole list, where publishedAt is still null.
Mark(w) ==
    /\ pc[w] = "mark"
    /\ pc' = [pc EXCEPT ![w] = "done"]
    /\ UNCHANGED <<home, attempt, staged, next>>
    /\ log' = [e \in EventIds |->
                 IF e \in StagedSet(w) /\ log[e] = "open" THEN "published" ELSE log[e]]
    /\ UNCHANGED <<aged, claimed, requested, relayed, dropped, crashes, markFaults>>

\* The update fails: it is logged, the rows stay unpublished.
MarkFails(w) ==
    /\ pc[w] = "mark"
    /\ markFaults < MaxMarkFaults
    /\ markFaults' = markFaults + 1
    /\ pc' = [pc EXCEPT ![w] = "done"]
    /\ UNCHANGED <<home, attempt, staged, next>>
    /\ UNCHANGED <<log, aged, claimed, requested, relayed, dropped, crashes>>

-----------------------------------------------------------------------------
(* lib/outbox.js *)

\* Time passes: the rows of a committed write become older than the grace
\* period, whether or not the request that wrote them is still dispatching.
Age(w) ==
    LET rows == {e \in EventIds : e[1] = w /\ log[e] # "none"}
    IN  /\ rows \ aged # {}
        /\ aged' = aged \cup rows
        /\ UNCHANGED <<writes, log, claimed, requested, relayed, dropped, crashes, markFaults>>

RelayDue == {e \in aged : log[e] = "open"}

\* UPDATE ... SET publishedAt WHERE id IN (SELECT ... LIMIT n FOR UPDATE SKIP
\* LOCKED) RETURNING: the claim commits before the first dispatch.
Claim(p, batch) ==
    /\ claimed[p] = {}
    /\ batch # {}
    /\ batch \subseteq RelayDue
    /\ Cardinality(batch) <= RelayBatch
    /\ log' = [e \in EventIds |-> IF e \in batch THEN "published" ELSE log[e]]
    /\ claimed' = [claimed EXCEPT ![p] = batch]
    /\ UNCHANGED <<writes, aged, requested, relayed, dropped, crashes, markFaults>>

RelayClaim(p) == \E batch \in SUBSET RelayDue : Claim(p, batch)

\* Rows are dispatched one by one.  Their order is left open: the rows of one
\* write usually carry the same millisecond, which is all the sort looks at.
RelayDispatch(p) ==
    \E e \in claimed[p] :
        /\ relayed' = [relayed EXCEPT ![e] = @ + 1]
        /\ claimed' = [claimed EXCEPT ![p] = @ \ {e}]
        /\ UNCHANGED <<writes, log, aged, requested, dropped, crashes, markFaults>>

-----------------------------------------------------------------------------
\* The process dies and is started again: its transactions roll back, its
\* requests and the rest of its relay round are gone.
Crash(p) ==
    /\ crashes < MaxCrashes
    /\ crashes' = crashes + 1
    /\ pc' = [w \in Writes |->
                IF home[w] = p /\ pc[w] \in {"tx", "dispatch", "mark"}
                THEN "crashed" ELSE pc[w]]
    /\ claimed' = [claimed EXCEPT ![p] = {}]
    /\ dropped' = dropped \cup claimed[p]
    /\ UNCHANGED <<home, attempt, staged, next, log, aged, requested, relayed, markFaults>>

Next ==
    \/ \E w \in Writes :
          \/ Begin(w) \/ Stage(w) \/ Commit(w) \/ Retry(w) \/ Fail(w)
          \/ Dispatch(w) \/ Mark(w) \/ MarkFails(w) \/ Age(w)
    \/ \E p \in Procs : RelayClaim(p) \/ RelayDispatch(p) \/ Crash(p)

Spec == Init /\ [][Next]_vars

\* The event loop keeps running what it started and the recurring job of each
\* process keeps firing; requests, conflicts and crashes are not owed to anyone.
Fairness ==
    /\ \A w \in Writes :
          WF_vars(Stage(w)) /\ WF_vars(Commit(w)) /\ WF_vars(Dispatch(w))
          /\ WF_vars(Mark(w)) /\ WF_vars(Age(w))
    /\ \A p \in Procs : WF_vars(RelayClaim(p)) /\ WF_vars(RelayDispatch(p))

FairSpec == Spec /\ Fairness

-----------------------------------------------------------------------------
(* Properties *)

\* Only what a transaction committed is ever dispatched: an event of an
\* attempt the database rolled back (write.js retries the work up to three
\* times) reaches no subscriber, on either path.
OnlyCommittedIsSent ==
    \A e \in EventIds :
        Sent(e) =>
            /\ log[e] # "none"
            /\ e[2] = attempt[e[1]]
            /\ pc[e[1]] \in {"dispatch", "mark", "done", "crashed"}

Holders(e) == {p \in Procs : e \in claimed[p]}

\* Over the whole life of a row the request dispatches it at most once and all
\* relays together at most once, however many processes run the relay.
DispatchedAtMostOncePerPath ==
    \A e \in EventIds :
        /\ requested[e] <= 1
        /\ relayed[e] <= 1
        /\ \A p, q \in Holders(e) : p = q
        /\ Holders(e) # {} => relayed[e] = 0

\* A row marked published has been dispatched, or is in the hands of a relay
\* that is about to, or of one whose process died between the two: the only
\* way the code has of losing an event.
PublishedIsSent ==
    \A e \in EventIds :
        log[e] = "published" =>
            \/ Sent(e)
            \/ Holders(e) # {}
            \/ e \in dropped

\* Whatever happens to the process that wrote it, a committed event reaches
\* the bus, unless a relay had claimed it when its process died (lib/outbox.js
\* marks a batch as published before it dispatches the first row).
CommittedIsSentUnlessDropped ==
    \A e \in EventIds :
        log[e] # "none" ~> (Sent(e) \/ e \in dropped)

-----------------------------------------------------------------------------
\* What the outbox promises its subscribers: see AtLeastOnce.
Promise == INSTANCE AtLeastOnce WITH
    Events    <- EventIds,
    committed <- {e \in EventIds : log[e] # "none"},
    delivered <- [e \in EventIds |-> requested[e] + relayed[e]]

ImplementsAtLeastOnce == Promise!Spec
=============================================================================
