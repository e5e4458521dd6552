---------------------------- MODULE ChannelSync ----------------------------
(***************************************************************************)
(* Keeping one connected sales channel in step with the hotel.             *)
(*                                                                         *)
(* A committed change of availability or price reaches the channel in two  *)
(* hops: its event marks days of the channel as dirty, and a recurring job *)
(* of the server claims the dirty days, compares the hotel's values with   *)
(* what it last recorded as sent, and sends the difference.  The claim     *)
(* forgets the days before anything has been sent; a failure puts them     *)
(* back.  A full synchronisation, asked for or due once a night, sends     *)
(* every day whatever is recorded.                                         *)
(*                                                                         *)
(* Left out: mappings, the channel's property and markup, the waits that   *)
(* keep within the channel's limits, and the log.  Days do not pass, and   *)
(* the values of a run are read in one step.                               *)
(***************************************************************************)
EXTENDS Integers

CONSTANTS
    LastDay,      \* the last day of the horizon
    Values,
    FirstValue,
    Reads,        \* reads of the list of connected hotels under way at once
    Incidents,    \* what may go wrong
    MaxChanges, MaxSwitches, MaxTroubles   \* bounds

Days == 1..LastDay
Kinds == {"availability", "rate"}

ASSUME ChannelAssumption ==
    /\ LastDay \in Nat /\ FirstValue \in Values
    /\ Incidents \subseteq {"refused", "unanswered", "rejected", "database", "crash", "event", "list"}
    /\ {MaxChanges, MaxSwitches, MaxTroubles} \subseteq Nat

VARIABLES
    value,    \* value[k][d]: what the hotel offers
    sent,     \* sent[k][d]: ChannelAriState
    remote,   \* remote[k][d]: what the channel sells
    status, held, dirty, asked, due,  \* Channel.status and ChannelState
    enabled,  \* the actor's switch
    run,      \* the one run of the recurring job
    news,     \* days whose change event has not been handled
    wake,     \* the event of switching the actor on has not been handled
    list,     \* the process's list of connected hotels: unread, in or out
    reads,
    changes, switches, troubles,
    slipped   \* pairs an incident may have left behind

channelVars == <<status, held, dirty, asked, due>>
listVars == <<list, reads>>
switchVars == <<enabled, wake, switches>>
syncVars == <<value, sent, remote, channelVars, switchVars, run, news, listVars,
          changes, troubles, slipped>>

Nothing == [k \in Kinds |-> <<>>]
Resting == [at |-> "idle", full |-> FALSE, window |-> {}, plan |-> Nothing]

\* The channel has been in service and in step since its first full run.
SyncInit ==
    /\ value = [k \in Kinds |-> [d \in Days |-> FirstValue]]
    /\ sent = value /\ remote = value
    /\ status = "ACTIVE" /\ held = FALSE /\ dirty = {} /\ asked = FALSE /\ due = FALSE
    /\ enabled = TRUE /\ run = Resting /\ news = {} /\ wake = FALSE
    /\ list = "in" /\ reads = [q \in Reads |-> "no"]
    /\ changes = 0 /\ switches = 0 /\ troubles = 0 /\ slipped = {}

\* The dirty days are an interval: dirtyFrom..dirtyTo.
Interval(S) == {d \in Days : (\E a \in S : a <= d) /\ (\E b \in S : d <= b)}

Overlay(old, new) == [d \in Days |-> IF d \in DOMAIN new THEN new[d] ELSE old[d]]

PairsOf(k, S) == {k} \X S

Trouble(kind) ==
    /\ kind \in Incidents
    /\ troubles < MaxTroubles /\ troubles' = troubles + 1

Connected == status = "ACTIVE"

-----------------------------------------------------------------------------
(* The hotel *)

NewValue(k, d) ==
    /\ changes < MaxChanges /\ changes' = changes + 1
    /\ \E v \in Values \ {value[k][d]} : value' = [value EXCEPT ![k][d] = v]

\* A reservation, a blocked room or a price: the event is staged with it.
Change(k, d) ==
    /\ NewValue(k, d)
    /\ news' = news \union {d}
    /\ UNCHANGED <<sent, remote, channelVars, switchVars, run, listVars, troubles, slipped>>

\* A stop-sale of the channel marks its days in its own transaction.
StopSale(d) ==
    /\ NewValue("rate", d)
    /\ dirty' = IF Connected THEN Interval(dirty \union {d}) ELSE dirty
    /\ UNCHANGED <<sent, remote, status, held, asked, due, switchVars, run, news, listVars, troubles, slipped>>

\* The days an event marks: its own, from them on, or the whole horizon.
AffectedWindow(d) == {{d}, d..LastDay, Days}

\* The process drops the event of a hotel that is not on its list, the actor
\* one that comes while it is switched off.
Deliver(d) ==
    /\ d \in news /\ news' = news \ {d}
    /\ \/ /\ list # "out" /\ enabled /\ Connected
          /\ \E w \in AffectedWindow(d) : dirty' = Interval(dirty \union w)
          /\ slipped' = slipped
       \/ /\ list = "out" \/ ~enabled \/ ~Connected
          /\ dirty' = dirty
          /\ slipped' = IF list = "out" /\ Connected THEN slipped \union (Kinds \X {d}) ELSE slipped
    /\ UNCHANGED <<value, changes, sent, remote, status, held, asked, due, switchVars, run, listVars, troubles>>

\* The event is lost on its way, or its handler fails for good.
LoseEvent(d) ==
    /\ Trouble("event")
    /\ d \in news /\ news' = news \ {d}
    /\ slipped' = slipped \union (Kinds \X {d})
    /\ UNCHANGED <<value, changes, sent, remote, channelVars, switchVars, run, listVars>>

\* So is the event of switching the actor on: what it skipped is in no full run.
LoseWake ==
    /\ Trouble("event")
    /\ wake /\ wake' = FALSE
    /\ slipped' = Kinds \X Days
    /\ UNCHANGED <<value, changes, sent, remote, channelVars, enabled, switches, run, news, listVars>>

-----------------------------------------------------------------------------
(* The managers *)

Switch == switches < MaxSwitches /\ switches' = switches + 1

AskRead == \E q \in Reads : reads[q] = "no" /\ reads' = [reads EXCEPT ![q] = "asked"]

Pause ==
    /\ Switch /\ Connected
    /\ status' = "PAUSED"
    /\ AskRead
    /\ UNCHANGED <<value, sent, remote, held, dirty, asked, due, enabled, wake, run, news, list, changes, troubles, slipped>>

\* The days gathered before the pause are dropped: a full run covers them.
Activate ==
    /\ Switch /\ ~Connected
    /\ status' = "ACTIVE" /\ dirty' = {} /\ held' = FALSE /\ asked' = TRUE
    /\ AskRead
    /\ UNCHANGED <<value, sent, remote, due, enabled, wake, run, news, list, changes, troubles, slipped>>

\* By hand, or because a mapping changed.
RequestFullSync ==
    /\ Switch /\ Connected
    /\ asked' = TRUE
    /\ UNCHANGED <<value, sent, remote, status, held, dirty, due, enabled, wake, run, news, listVars, changes, troubles, slipped>>

SwitchActor ==
    /\ Switch
    /\ enabled' = ~enabled
    /\ wake' = (wake \/ ~enabled)
    /\ UNCHANGED <<value, sent, remote, channelVars, run, news, listVars, changes, troubles, slipped>>

\* The actor is on again: everything it skipped is in a full run.
Wake ==
    /\ wake /\ wake' = FALSE
    /\ asked' = (asked \/ (enabled /\ Connected))
    /\ UNCHANGED <<value, sent, remote, status, held, dirty, due, enabled, switches, run, news, listVars, changes, troubles, slipped>>

-----------------------------------------------------------------------------
(* The list of connected hotels, kept by the process *)

LookUp(q) ==
    /\ \/ reads[q] = "asked" /\ reads' = [reads EXCEPT ![q] = IF Connected THEN "in" ELSE "out"]
       \/ reads[q] = "loading" /\ reads' = [reads EXCEPT ![q] = IF Connected THEN "allIn" ELSE "allOut"]
    /\ UNCHANGED <<value, sent, remote, channelVars, switchVars, run, news, list, changes, troubles, slipped>>

\* A refresh does nothing to a list that has not been loaded.
Apply(q) ==
    /\ \/ reads[q] \in {"in", "out"} /\ list' = IF list = "unread" THEN list ELSE reads[q]
       \/ reads[q] = "allIn" /\ list' = "in"
       \/ reads[q] = "allOut" /\ list' = "out"
    /\ reads' = [reads EXCEPT ![q] = "no"]
    /\ UNCHANGED <<value, sent, remote, channelVars, switchVars, run, news, changes, troubles, slipped>>

\* Nobody hears of it: the read is not tried again.
ReadFails(q) ==
    /\ Trouble("list")
    /\ reads[q] # "no"
    /\ reads' = [reads EXCEPT ![q] = "no"]
    /\ UNCHANGED <<value, sent, remote, channelVars, switchVars, run, news, list, changes, slipped>>

-----------------------------------------------------------------------------
(* One run of the job *)

Go(at) == run' = [run EXCEPT !.at = at]

\* The round reads what there is to do; the actor's switch is read once more.
Choose ==
    /\ run.at = "idle"
    /\ Connected /\ ~held /\ enabled
    /\ asked \/ due \/ dirty # {}
    /\ run' = [Resting EXCEPT !.at = "chosen", !.full = asked \/ due]
    /\ UNCHANGED <<value, sent, remote, channelVars, switchVars, news, listVars, changes, troubles, slipped>>

\* Under the channel's lock: the days are taken and forgotten.
ClaimDays ==
    /\ run.at = "chosen"
    /\ LET window == IF run.full THEN Days ELSE dirty IN
       \/ /\ Connected /\ ~held /\ window # {}
          /\ run' = [run EXCEPT !.at = "claimed", !.window = window]
          /\ dirty' = {}
          /\ asked' = (asked /\ ~run.full)
       \/ /\ ~(Connected /\ ~held /\ window # {})
          /\ run' = Resting
          /\ UNCHANGED <<dirty, asked>>
    /\ UNCHANGED <<value, sent, remote, status, held, due, switchVars, news, listVars, changes, troubles, slipped>>

\* Mutant: a full run too sends only what differs from the record.
PlanTargetDiffers(k) ==
    [d \in {d \in run.window : sent[k][d] # value[k][d]} |-> value[k][d]]

\* The days of the window to send: every one, or what differs from the record.
PlanTarget(k) ==
    LET days == {d \in run.window : run.full \/ sent[k][d] # value[k][d]}
    IN  [d \in days |-> value[k][d]]

Planned(k) == DOMAIN run.plan[k]

Plan ==
    /\ run.at = "claimed"
    /\ LET plan == [k \in Kinds |-> PlanTarget(k)]
           empty == {k \in Kinds : DOMAIN plan[k] = {}}
       IN  run' = IF empty = Kinds THEN Resting
                  ELSE [run EXCEPT !.plan = plan,
                                   !.at = IF "availability" \in empty THEN "rate" ELSE "availability"]
    /\ UNCHANGED <<value, sent, remote, channelVars, switchVars, news, listVars, changes, troubles, slipped>>

\* The values cannot be computed.
PlanFails ==
    /\ Trouble("database")
    /\ run.at = "claimed" /\ Go("record")
    /\ UNCHANGED <<value, sent, remote, channelVars, switchVars, news, listVars, changes, slipped>>

Arrive(k, days) ==
    remote' = [remote EXCEPT ![k] = Overlay(@, [d \in days |-> run.plan[k][d]])]

After(k) == IF k = "availability" /\ Planned("rate") # {} THEN "rate" ELSE "save"

\* An answer with warnings is a success in which some rows were not taken.
Accepted(k) ==
    /\ Go(After(k))
    /\ \/ Arrive(k, Planned(k)) /\ UNCHANGED <<troubles, slipped>>
       \/ /\ Trouble("rejected")
          /\ \E days \in SUBSET Planned(k) \ {{}} :
                /\ Arrive(k, Planned(k) \ days)
                /\ slipped' = slipped \union PairsOf(k, days)

\* An error, or no answer in time to a call that may have been carried out.
Failed(k) ==
    /\ Go(IF k = "rate" /\ Planned("availability") # {} THEN "keep" ELSE "record")
    /\ \/ Trouble("refused") /\ UNCHANGED <<remote, slipped>>
       \/ /\ Trouble("unanswered")
          /\ Arrive(k, Planned(k))
          /\ slipped' = slipped \union PairsOf(k, Planned(k))

Send(k) ==
    /\ run.at = k
    /\ Accepted(k) \/ Failed(k)
    /\ UNCHANGED <<value, sent, channelVars, switchVars, news, listVars, changes>>

\* A pair is out of doubt when hotel, record and channel agree again.
Agrees(k, d) == sent'[k][d] = remote[k][d] /\ remote[k][d] = value[k][d]

Record(kinds) ==
    /\ sent' = [k \in Kinds |-> IF k \in kinds THEN Overlay(sent[k], run.plan[k]) ELSE sent[k]]
    /\ slipped' = {p \in slipped : ~Agrees(p[1], p[2])}

Save ==
    /\ run.at = "save" /\ run' = Resting
    /\ Record(Kinds)
    /\ held' = FALSE
    /\ due' = (due /\ ~run.full)
    /\ UNCHANGED <<value, remote, status, dirty, asked, switchVars, news, listVars, changes, troubles>>

\* Mutant: what was sent is recorded, whichever call failed.
KeepBoth ==
    /\ run.at = "keep" /\ Go("record")
    /\ Record(Kinds)
    /\ UNCHANGED <<value, remote, channelVars, switchVars, news, listVars, changes, troubles>>

\* The prices failed after the availability went through.
KeepAvailability ==
    /\ run.at = "keep" /\ Go("record")
    /\ Record({"availability"})
    /\ UNCHANGED <<value, remote, channelVars, switchVars, news, listVars, changes, troubles>>

\* Mutant: the days put back replace those marked in the meantime.
RecordFailureOverwrites ==
    /\ run.at = "record" /\ run' = Resting
    /\ dirty' = IF run.full THEN dirty ELSE run.window
    /\ asked' = (asked \/ run.full)
    /\ held' = TRUE
    /\ UNCHANGED <<value, sent, remote, status, due, switchVars, news, listVars, changes, troubles, slipped>>

\* The days are put back, joined with those marked since the claim.
RecordFailure ==
    /\ run.at = "record" /\ run' = Resting
    /\ dirty' = IF run.full THEN dirty ELSE Interval(dirty \union run.window)
    /\ asked' = (asked \/ run.full)
    /\ held' = TRUE
    /\ UNCHANGED <<value, sent, remote, status, due, switchVars, news, listVars, changes, troubles, slipped>>

HoldEnds ==
    /\ held /\ held' = FALSE
    /\ UNCHANGED <<value, sent, remote, status, dirty, asked, due, switchVars, run, news, listVars, changes, troubles, slipped>>

\* A day since the last full run, in the quiet hours.
NightComes ==
    /\ ~due /\ due' = TRUE
    /\ UNCHANGED <<value, sent, remote, status, held, dirty, asked, switchVars, run, news, listVars, changes, troubles, slipped>>

\* What an interrupted run had claimed is nobody's any more.
Drop ==
    /\ run' = Resting
    /\ slipped' = slipped \union (Kinds \X run.window)

\* Outside the computation of values an error of the database ends the run, and
\* so does an API key that cannot be opened when the plan is made.
DatabaseFails ==
    /\ Trouble("database")
    /\ run.at \notin {"idle"} \union Kinds /\ Drop
    /\ UNCHANGED <<value, sent, remote, channelVars, switchVars, news, listVars, changes>>

\* The process stops and is started again.
Restart ==
    /\ Trouble("crash") /\ Drop
    /\ list' = "unread"
    /\ \E q \in Reads : reads' = [p \in Reads |-> IF p = q THEN "loading" ELSE "no"]
    /\ UNCHANGED <<value, sent, remote, channelVars, switchVars, news, changes>>

-----------------------------------------------------------------------------
Hotel ==
    \/ \E k \in Kinds, d \in Days : Change(k, d)
    \/ \E d \in Days : StopSale(d)

Managers == Pause \/ Activate \/ RequestFullSync \/ SwitchActor

Actor == Wake \/ (\E d \in Days : Deliver(d)) \/ (\E q \in Reads : LookUp(q) \/ Apply(q))

Job ==
    \/ Choose \/ ClaimDays \/ Plan \/ PlanFails
    \/ \E k \in Kinds : Send(k)
    \/ Save \/ KeepAvailability \/ RecordFailure

Misfortune ==
    \/ (\E d \in Days : LoseEvent(d)) \/ LoseWake
    \/ \E q \in Reads : ReadFails(q)
    \/ DatabaseFails \/ Restart

SyncNext == Hotel \/ Managers \/ Actor \/ Job \/ HoldEnds \/ NightComes \/ Misfortune

SyncSpec == SyncInit /\ [][SyncNext]_syncVars

\* The outbox delivers, the recurring job runs, pauses end and nights come.
FairSyncSpec ==
    /\ SyncSpec
    /\ WF_syncVars(Actor) /\ WF_syncVars(Job) /\ WF_syncVars(HoldEnds) /\ WF_syncVars(NightComes)

-----------------------------------------------------------------------------
Stages == {"idle", "chosen", "claimed", "availability", "rate", "save", "keep", "record"}
Plans == UNION {[S -> Values] : S \in SUBSET Days}

\* The state of the channel, of its run and of the list keeps its types.
SyncTypeOK ==
    /\ value \in [Kinds -> [Days -> Values]]
    /\ sent \in [Kinds -> [Days -> Values]]
    /\ remote \in [Kinds -> [Days -> Values]]
    /\ status \in {"ACTIVE", "PAUSED"} /\ held \in BOOLEAN /\ enabled \in BOOLEAN
    /\ asked \in BOOLEAN /\ due \in BOOLEAN /\ wake \in BOOLEAN
    /\ dirty \subseteq Days /\ news \subseteq Days
    /\ run \in [at : Stages, full : BOOLEAN, window : SUBSET Days, plan : [Kinds -> Plans]]
    /\ list \in {"unread", "in", "out"}
    /\ reads \in [Reads -> {"no", "asked", "loading", "in", "out", "allIn", "allOut"}]
    /\ changes \in Nat /\ switches \in Nat /\ troubles \in Nat
    /\ slipped \subseteq Kinds \X Days

\* The run has the pair's present value in hand, or will put the day back.
InHand(k, d) ==
    \/ run.at \in {"claimed", "keep", "record"} /\ d \in run.window
    \/ /\ run.at \in {"availability", "rate", "save"}
       /\ d \in Planned(k) /\ run.plan[k][d] = value[k][d]

Awaited(k, d) == d \in dirty \union news \/ asked \/ due \/ wake \/ InHand(k, d)

InStep(k, d) == remote[k][d] = value[k][d]

\* No change of a connected channel is forgotten, wherever the two hops are
\* interrupted: a day on which the channel does not sell what the hotel offers
\* is announced, marked, in the hands of a run or in a full run that is asked
\* for or due, unless an incident that is listed as such let it slip: a run
\* that died after its claim, an answer that did not come, refused rows, a lost
\* event, an event dropped because the process's list was not up to date.
NothingForgotten ==
    Connected /\ enabled =>
        \A k \in Kinds, d \in Days : InStep(k, d) \/ Awaited(k, d) \/ <<k, d>> \in slipped

\* The comparison is sound: what is recorded as sent is what the channel has,
\* but for what a run has just sent and for slipped pairs.  With a record that
\* is wrong in silence a change back to the recorded value is never sent.
RecordedIsThere ==
    \A k \in Kinds, d \in Days :
        \/ sent[k][d] = remote[k][d]
        \/ run.at \in {"rate", "save", "keep"} /\ d \in Planned(k)
        \/ <<k, d>> \in slipped

\* Whatever was lost on the way, the nightly run repairs: once incidents and
\* changes stop, a connected channel comes to sell what the hotel offers, and
\* goes on doing so.
EverythingArrives ==
    <>[](Connected /\ enabled => \A k \in Kinds, d \in Days : InStep(k, d))
=============================================================================
