--------------------------- MODULE Notifications ---------------------------
(***************************************************************************)
(* The queue of messages to guests and the senders that work through it.   *)
(*                                                                         *)
(* A sender is one run of dispatchDueNotifications, or one test call of a  *)
(* manager, in some process.  It claims a batch of due rows with a single  *)
(* statement, hands each row to the provider outside any transaction, and  *)
(* writes the result with another statement, which asks only that the row  *)
(* is still SENDING, not that the claim is its own.  A row that stays      *)
(* SENDING too long, because its sender died, could not write, or is slow, *)
(* is put back by a job of any process.                                    *)
(*                                                                         *)
(* Left out: templates, recipients and channels; settings are what a       *)
(* sender happens to read; the alerts of other kinds.                      *)
(***************************************************************************)
EXTENDS Integers, FiniteSets

CONSTANTS
    Rows,
    Senders,
    Batch,        \* DISPATCH_BATCH
    Lanes,        \* DISPATCH_CONCURRENCY
    MaxAttempts,  \* NOTIFICATION_MAX_ATTEMPTS
    MaxTroubles   \* bound: crashes, lost database calls, sends that outlive
                  \* their claim, sends put off because of quiet hours

ASSUME NotificationAssumption ==
    /\ IsFiniteSet(Senders)
    /\ {Batch, Lanes, MaxAttempts} \subseteq Nat \ {0}
    /\ MaxTroubles \in Nat

Ended == {"SENT", "DELIVERED", "FAILED", "CANCELLED"}
Statuses == {"NONE", "PENDING", "SENDING"} \union Ended

\* Where a sender stands with a row it has claimed.
Results == {"closed", "quiet", "accepted", "retry", "rejected"}
Places == {"no", "claimed", "prepared", "calling"} \union Results

VARIABLES
    status, attempts,  \* columns of the row
    source,            \* "trigger", "resend" or "test"
    due,               \* rows whose nextAttemptAt has come
    stale,             \* rows whose lockedAt is older than STALE_SENDING_MS
    at, made,          \* at[w][r]: place of w with r; made[w][r]: row.attempts it saw
    testing,           \* senders that run a manager's test call
    troubles,
    calls,             \* calls[r]: times a provider was asked to send r
    accepted,          \* accepted[r]: times a provider took r
    recovered,         \* recovered[r]: times r was put back
    told,              \* rows whose failure was told to the staff
    undelivered        \* rows the delivery report gave up

rowVars == <<status, attempts, source, due, stale>>
sendVars == <<at, made, testing>>
history == <<calls, accepted, recovered, told, undelivered>>
vars == <<rowVars, sendVars, troubles, history>>

Init ==
    /\ status = [r \in Rows |-> "NONE"] /\ attempts = [r \in Rows |-> 0]
    /\ source = [r \in Rows |-> "trigger"]
    /\ due = {} /\ stale = {}
    /\ at = [w \in Senders |-> [r \in Rows |-> "no"]]
    /\ made = [w \in Senders |-> [r \in Rows |-> 0]]
    /\ testing = {}
    /\ troubles = 0
    /\ calls = [r \in Rows |-> 0] /\ accepted = [r \in Rows |-> 0]
    /\ recovered = [r \in Rows |-> 0]
    /\ told = {} /\ undelivered = {}

Idle(w) == \A r \in Rows : at[w][r] = "no"
Active(w) == {r \in Rows : at[w][r] \notin {"no", "claimed"}}

Trouble == troubles < MaxTroubles /\ troubles' = troubles + 1

Go(w, r, place) == at' = [at EXCEPT ![w][r] = place] /\ UNCHANGED <<made, testing>>

\* The sender is done with the row; a test call has no other.
Leave(w, r) ==
    /\ at' = [at EXCEPT ![w][r] = "no"] /\ made' = [made EXCEPT ![w][r] = 0]
    /\ testing' = testing \ {w}

-----------------------------------------------------------------------------
(* The queue *)

Create(r, s, from) ==
    /\ status[r] = "NONE"
    /\ status' = [status EXCEPT ![r] = s]
    /\ source' = [source EXCEPT ![r] = from]

\* The row of a trigger is the one of its dedupe key: an event that is handled
\* again creates nothing.  A message becomes due at once, or after quiet hours.
Enqueue(r) ==
    /\ \/ Create(r, "PENDING", "trigger") /\ told' = told
       \/ Create(r, "CANCELLED", "trigger") /\ told' = told              \* opted out
       \/ Create(r, "FAILED", "trigger") /\ told' = told \union {r}     \* SMS too long
    /\ UNCHANGED <<attempts, due, stale, sendVars, troubles, calls, accepted, recovered, undelivered>>

Resend(original, r) ==
    /\ status[original] \in Ended /\ source[original] # "test"
    /\ Create(r, "PENDING", "resend")
    /\ UNCHANGED <<attempts, due, stale, sendVars, troubles, history>>

\* The row is born SENDING, in the hands of the call that made it.
PrepareTest(w, r) ==
    /\ Idle(w)
    /\ Create(r, "SENDING", "test")
    /\ attempts' = [attempts EXCEPT ![r] = 1]
    /\ testing' = testing \union {w}
    /\ at' = [at EXCEPT ![w][r] = "prepared"]
    /\ UNCHANGED <<due, stale, made, troubles, history>>

\* Mutant: what is being sent can be cancelled too.
CancelAnyOpen(r) ==
    /\ status[r] \in {"PENDING", "SENDING"}
    /\ status' = [status EXCEPT ![r] = "CANCELLED"]
    /\ due' = due \ {r}
    /\ UNCHANGED <<attempts, source, stale, sendVars, troubles, history>>

Cancel(r) ==
    /\ status[r] = "PENDING"
    /\ status' = [status EXCEPT ![r] = "CANCELLED"]
    /\ due' = due \ {r}
    /\ UNCHANGED <<attempts, source, stale, sendVars, troubles, history>>

TimePasses(r) ==
    /\ status[r] = "PENDING" /\ r \notin due
    /\ due' = due \union {r}
    /\ UNCHANGED <<status, attempts, source, stale, sendVars, troubles, history>>

-----------------------------------------------------------------------------
(* A sender *)

Due == {r \in due : status[r] = "PENDING"}

\* A round ends before the next one claims; the claim returns the rows.
Take(w, S) ==
    /\ Idle(w)
    /\ S # {} /\ S \subseteq Due /\ Cardinality(S) <= Batch
    /\ stale' = stale \ S
    /\ at' = [at EXCEPT ![w] = [r \in Rows |-> IF r \in S THEN "claimed" ELSE "no"]]
    /\ made' = [made EXCEPT ![w] = [r \in Rows |-> IF r \in S THEN attempts[r] + 1 ELSE 0]]

\* Mutant: the rows are read, and not taken.
ClaimWithoutMark(w, S) ==
    /\ Take(w, S)
    /\ attempts' = [r \in Rows |-> IF r \in S THEN attempts[r] + 1 ELSE attempts[r]]
    /\ UNCHANGED <<status, source, due, testing, troubles, history>>

\* claimDueNotifications; rows another statement has locked are skipped.
Claim(w, S) ==
    /\ Take(w, S)
    /\ status' = [r \in Rows |-> IF r \in S THEN "SENDING" ELSE status[r]]
    /\ attempts' = [r \in Rows |-> IF r \in S THEN attempts[r] + 1 ELSE attempts[r]]
    /\ UNCHANGED <<source, due, testing, troubles, history>>

Ask(w, r) == Go(w, r, "calling") /\ calls' = [calls EXCEPT ![r] = @ + 1]

\* The channel is closed, the hour is quiet, or the provider is asked.
Start(w, r) ==
    /\ at[w][r] = "claimed" /\ Cardinality(Active(w)) < Lanes
    /\ \/ Go(w, r, "closed") /\ UNCHANGED <<calls, troubles>>
       \/ Trouble /\ Go(w, r, "quiet") /\ calls' = calls
       \/ Ask(w, r) /\ troubles' = troubles
    /\ UNCHANGED <<rowVars, accepted, recovered, told, undelivered>>

\* deliverTestNotification reads the row again, then sends though the channel is
\* closed or the hour quiet, unless the channel has no configuration.
StartTest(w, r) ==
    /\ at[w][r] = "prepared"
    /\ \/ status[r] = "SENDING" /\ Ask(w, r)
       \/ status[r] = "SENDING" /\ Go(w, r, "closed") /\ calls' = calls
       \/ status[r] # "SENDING" /\ Leave(w, r) /\ calls' = calls
    /\ UNCHANGED <<rowVars, troubles, accepted, recovered, told, undelivered>>

\* The provider takes the message, refuses it for good, or fails in a way that
\* another attempt may cure, if there is one left (notificationRetryAt).
Answer(w, r) ==
    /\ at[w][r] = "calling"
    /\ \/ Go(w, r, "accepted") /\ accepted' = [accepted EXCEPT ![r] = @ + 1]
       \/ Go(w, r, "rejected") /\ accepted' = accepted
       \/ made[w][r] < MaxAttempts /\ w \notin testing /\ Go(w, r, "retry") /\ accepted' = accepted
    /\ UNCHANGED <<rowVars, troubles, calls, recovered, told, undelivered>>

StatusAfter(result) ==
    CASE result = "accepted"            -> "SENT"
      [] result = "rejected"            -> "FAILED"
      [] result = "closed"              -> "CANCELLED"
      [] result \in {"retry", "quiet"}  -> "PENDING"

Write(w, r) ==
    LET result == at[w][r]
    IN  /\ status' = [status EXCEPT ![r] = StatusAfter(result)]
        /\ attempts' = [attempts EXCEPT ![r] = IF result = "quiet" THEN @ - 1 ELSE @]
        /\ due' = due \ {r} /\ stale' = stale \ {r}
        /\ told' = IF result = "rejected" /\ w \notin testing THEN told \union {r} ELSE told

\* finish: any row that is SENDING, whoever claimed it last.
Finish(w, r) ==
    /\ at[w][r] \in Results
    /\ \/ status[r] = "SENDING" /\ Write(w, r)
       \/ status[r] # "SENDING" /\ UNCHANGED <<status, attempts, due, stale, told>>
    /\ Leave(w, r)
    /\ UNCHANGED <<source, troubles, calls, accepted, recovered, undelivered>>

\* A database call of the delivery fails: the row stays as it is.
DatabaseFails(w, r) ==
    /\ at[w][r] \notin {"no", "calling"}
    /\ Trouble
    /\ Leave(w, r)
    /\ UNCHANGED <<rowVars, history>>

\* The process ends; its successor is the same sender, with nothing in hand.
Crash(w) ==
    /\ ~Idle(w)
    /\ Trouble
    /\ at' = [at EXCEPT ![w] = [r \in Rows |-> "no"]]
    /\ made' = [made EXCEPT ![w] = [r \in Rows |-> 0]]
    /\ testing' = testing \ {w}
    /\ UNCHANGED <<rowVars, history>>

-----------------------------------------------------------------------------
(* Recovery and delivery reports *)

Held(r) == \E w \in Senders : at[w][r] # "no"

\* Five minutes after the claim.  A send that is still running is slow.
GrowsStale(r) ==
    /\ status[r] = "SENDING" /\ r \notin stale
    /\ stale' = stale \union {r}
    /\ IF Held(r) THEN Trouble ELSE troubles' = troubles
    /\ UNCHANGED <<status, attempts, source, due, sendVars, history>>

\* Mutant: a message whose attempts are used up is not put back.
RecoverWithAttemptsLeft ==
    LET S == {r \in stale : status[r] = "SENDING" /\ attempts[r] < MaxAttempts}
    IN  /\ S # {}
        /\ status' = [r \in Rows |-> IF r \in S THEN "PENDING" ELSE status[r]]
        /\ due' = due \union S /\ stale' = stale \ S
        /\ recovered' = [r \in Rows |-> IF r \in S THEN recovered[r] + 1 ELSE recovered[r]]
        /\ UNCHANGED <<attempts, source, sendVars, troubles, calls, accepted, told, undelivered>>

\* recoverStaleNotifications
Recover ==
    LET S == {r \in stale : status[r] = "SENDING"}
    IN  /\ S # {}
        /\ status' = [r \in Rows |-> IF r \in S THEN "PENDING" ELSE status[r]]
        /\ due' = due \union S /\ stale' = stale \ S
        /\ recovered' = [r \in Rows |-> IF r \in S THEN recovered[r] + 1 ELSE recovered[r]]
        /\ UNCHANGED <<attempts, source, sendVars, troubles, calls, accepted, told, undelivered>>

\* applyReport for a row that is still SENT.
Report(r) ==
    /\ status[r] = "SENT"
    /\ \/ status' = [status EXCEPT ![r] = "DELIVERED"] /\ UNCHANGED <<told, undelivered>>
       \/ /\ status' = [status EXCEPT ![r] = "FAILED"]
          /\ told' = told \union {r} /\ undelivered' = undelivered \union {r}
    /\ UNCHANGED <<attempts, source, due, stale, sendVars, troubles, calls, accepted, recovered>>

-----------------------------------------------------------------------------

Work(w) ==
    \/ \E S \in SUBSET Rows : Claim(w, S)
    \/ \E r \in Rows : Start(w, r) \/ StartTest(w, r) \/ Answer(w, r) \/ Finish(w, r)

Next ==
    \/ \E r \in Rows : Enqueue(r) \/ Cancel(r) \/ TimePasses(r) \/ GrowsStale(r) \/ Report(r)
    \/ \E original, r \in Rows : Resend(original, r)
    \/ \E w \in Senders, r \in Rows : PrepareTest(w, r) \/ DatabaseFails(w, r)
    \/ \E w \in Senders : Work(w) \/ Crash(w)
    \/ Recover

Spec == Init /\ [][Next]_vars

\* The dispatch and recovery jobs run in every process, a provider answers or
\* times out, and time passes.  People and reports are not fair.
FairSpec ==
    /\ Spec
    /\ \A w \in Senders : WF_vars(Work(w))
    /\ \A r \in Rows : WF_vars(TimePasses(r)) /\ WF_vars(GrowsStale(r))
    /\ WF_vars(Recover)

-----------------------------------------------------------------------------
(* Properties *)

\* Types; a count of attempts that is decremented in quiet hours never falls
\* below zero, although another sender's claim may be the one it undoes.
NotificationTypeOK ==
    /\ status \in [Rows -> Statuses] /\ attempts \in [Rows -> Nat]
    /\ source \in [Rows -> {"trigger", "resend", "test"}]
    /\ due \subseteq Rows /\ stale \subseteq Rows
    /\ at \in [Senders -> [Rows -> Places]] /\ made \in [Senders -> [Rows -> Nat]]
    /\ testing \subseteq Senders
    /\ troubles \in Nat
    /\ calls \in [Rows -> Nat] /\ accepted \in [Rows -> Nat] /\ recovered \in [Rows -> Nat]
    /\ told \subseteq Rows /\ undelivered \subseteq Rows

\* A guest gets a message again only as often as it was put back for want of a
\* result: two senders, or two rounds of one, never take the same row, and a
\* late result adds no further send.
RepeatsWereRecovered == \A r \in Rows : accepted[r] <= 1 + recovered[r]

\* The provider is asked at most once per counted attempt, and beyond the
\* attempts allowed only once more per recovery, however claims, quiet hours
\* and late results of several senders interleave.
AttemptsAreBounded ==
    \A r \in Rows : /\ calls[r] <= attempts[r]
                    /\ attempts[r] <= MaxAttempts + recovered[r]

\* What the history says of a message that was not put back is true: what reads
\* sent was taken by the provider, what reads failed or cancelled was not.
HistoryIsTrue ==
    \A r \in Rows :
        /\ status[r] \in {"SENT", "DELIVERED"} => accepted[r] > 0
        /\ /\ status[r] \in {"FAILED", "CANCELLED"}
           /\ recovered[r] = 0 /\ r \notin undelivered
           => accepted[r] = 0

\* No message to a guest ends as failed without the staff being told, whichever
\* sender's result ended it.
FailureIsTold ==
    \A r \in Rows : status[r] = "FAILED" /\ source[r] # "test" => r \in told

\* Whoever writes late cannot reopen a message that has ended; only a delivery
\* report still says more about a sent one.
EndIsFinal ==
    [][\A r \in Rows : status[r] \in Ended =>
            \/ status'[r] = status[r]
            \/ status[r] = "SENT" /\ status'[r] \in {"DELIVERED", "FAILED"}]_vars

\* Every message ends, through retries, quiet hours, crashes and slow senders.
EveryMessageEnds ==
    \A r \in Rows : status[r] \in {"PENDING", "SENDING"} ~> status[r] \in Ended
=============================================================================
