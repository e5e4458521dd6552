------------------------------- MODULE Handoff -------------------------------
(***************************************************************************)
(* One conversation with a guest: who answers it, and what is booked.      *)
(*                                                                         *)
(* A guest's message is classified by the router agent and answered in a   *)
(* turn of the concierge agent, which talks to a language model for        *)
(* seconds with no transaction open.  In the meantime the guest writes     *)
(* again, staff take the conversation over and give it back, and the       *)
(* result of a booking request arrives.  Every writer locks the row of     *)
(* the conversation, so a step here is one transaction; turns and results  *)
(* of one conversation run one after the other in the process that runs    *)
(* the agents (the queue).  A job hands conversations that wait too long   *)
(* to the staff.                                                           *)
(*                                                                         *)
(* A message is its number and a proposal its number together with how     *)
(* many messages there were when it was made: times are compared only with *)
(* times of messages.  Whether the AI is on, within its budget and allowed *)
(* is a choice each time it is asked.  Left out: texts, summaries,         *)
(* languages, unread counts, assignment, linking to guests and stays, the  *)
(* delivery of outgoing messages, deleted conversations.                   *)
(***************************************************************************)
EXTENDS Integers, Sequences, Functions

CONSTANTS
    MaxMessages, MaxProposals, MaxRequests, MaxStaff, MaxTroubles   \* bounds

ASSUME HandoffAssumption ==
    /\ MaxMessages \in Nat /\ MaxProposals \in Nat /\ MaxRequests \in Nat
    /\ MaxStaff \in Nat /\ MaxTroubles \in Nat

Messages == 1..MaxMessages
Proposals == 1..MaxProposals
Requests == 1..MaxRequests
None == 0

VARIABLES
    conv,       \* the conversation's row
    said,       \* messages of the guest so far
    replied,    \* those before the newest message of the AI or of staff
    memory,     \* ConversationAiState: pending offer, pending request
    at,         \* where the event of a message stands
    yes,        \* messages the router took for a clear yes to an offer
    retried,    \* messages whose turn failed once
    queue,      \* #queues: the conversation's turns and results, in order
    turn,       \* the closure of the one that runs
    request,    \* requests for a reservation
    proposals,  \* proposals made so far
    form,       \* what a person's screen shows: nothing, the current version, an old one
    job,        \* the job has found the conversation stalled
    staff, troubles

\* What happened, as the guest and the staff see it.
VARIABLES
    seen,       \* messages a reply took into account, or staff were there for
    overtaken,  \* messages that came while the answer to earlier ones was written
    shown,      \* for a proposal, the messages before the reply that shows it
    cut,        \* proposals whose turn ended without a reply
    unheard,    \* staff wrote after the turn had read, and did not give back since
    spokeOver   \* the AI answered without knowing what staff had written

talkVars == <<conv, said, replied>>
routerVars == <<at, yes>>
turnVars == <<retried, queue, turn, proposals>>
countVars == <<staff, troubles>>
ghostVars == <<seen, overtaken, shown, cut, unheard, spokeOver>>
vars == <<talkVars, memory, routerVars, turnVars, request, form, job, countVars, ghostVars>>

NoOffer == [id |-> None, after |-> 0]
NoTurn == [at |-> "idle", upTo |-> 0, offer |-> NoOffer, fresh |-> FALSE,
           proposed |-> None, requested |-> None]
Unsent == [at |-> "none", offer |-> None, msg |-> None, told |-> 0]
Never == MaxMessages + 1

TurnOf(m) == [kind |-> "turn", n |-> m]
ResultOf(r) == [kind |-> "result", n |-> r]

Init ==
    /\ conv \in [mode : {"AI", "MANUAL"}, open : {TRUE}, waiting : {"no"}]
    /\ said = 0 /\ replied = 0
    /\ memory = [offer |-> NoOffer, request |-> None, fresh |-> FALSE]
    /\ at = [m \in Messages |-> "none"] /\ yes = {}
    /\ retried = {} /\ queue = <<>> /\ turn = NoTurn /\ proposals = 0
    /\ request = [r \in Requests |-> Unsent]
    /\ form = "none" /\ job = FALSE
    /\ staff = 0 /\ troubles = 0
    /\ seen = {} /\ overtaken = {}
    /\ shown = [o \in Proposals |-> Never] /\ cut = {}
    /\ unheard = FALSE /\ spokeOver = FALSE

Trouble == troubles < MaxTroubles /\ troubles' = troubles + 1
Acts == staff < MaxStaff /\ staff' = staff + 1

-----------------------------------------------------------------------------
(* What the writers of the conversation share *)

\* stateVersion: a change of the mode or the status makes open screens old.
Changes(mode, open) ==
    form' = IF <<mode, open>> # <<conv.mode, conv.open>> /\ form = "current" THEN "old" ELSE form

WaitFrom(w) == IF w = "no" THEN "new" ELSE w

\* Mutant: the notice ends the wait.
HandOffAndForget(notice) ==
    IF conv.mode = "AI"
    THEN /\ conv' = [conv EXCEPT !.mode = "MANUAL",
                                 !.waiting = IF notice /\ conv.open THEN "no" ELSE WaitFrom(@)]
         /\ Changes("MANUAL", conv.open)
         /\ replied' = IF notice /\ conv.open THEN said ELSE replied
    ELSE UNCHANGED <<conv, form, replied>>

\* handOffToStaff: nothing if staff have it; the notice counts as an answer of
\* the AI, but the guest still waits.
HandOff(notice) ==
    IF conv.mode = "AI"
    THEN /\ conv' = [conv EXCEPT !.mode = "MANUAL", !.waiting = WaitFrom(@)]
         /\ Changes("MANUAL", conv.open)
         /\ replied' = IF notice /\ conv.open THEN said ELSE replied
    ELSE UNCHANGED <<conv, form, replied>>

-----------------------------------------------------------------------------
(* The guest *)

\* A message opens a closed conversation.  It goes to the staff if no AI is
\* there to answer.
Receive ==
    \E aiActive \in BOOLEAN :
        LET m == said + 1
            toStaff == conv.mode = "AI" /\ ~aiActive
        IN  /\ m \in Messages
            /\ said' = m
            /\ conv' = [mode |-> IF toStaff THEN "MANUAL" ELSE conv.mode, open |-> TRUE,
                         waiting |-> WaitFrom(conv.waiting)]
            /\ Changes(conv'.mode, TRUE)
            /\ at' = [at EXCEPT ![m] = IF conv'.mode = "AI" THEN "sent" ELSE "done"]
            /\ UNCHANGED <<replied, memory, yes, turnVars, request, job, countVars, ghostVars>>

-----------------------------------------------------------------------------
(* The router agent *)

\* Mutant: an open conversation is anyone's.
OpenOnly == conv.open

\* Nobody but the AI is to answer.
Talking == conv.mode = "AI" /\ conv.open

\* loadMessage; only a pending offer can be said yes to.
Route(m) ==
    /\ at[m] = "sent"
    /\ at' = [at EXCEPT ![m] = IF ~Talking THEN "done"
                               ELSE IF memory.offer = NoOffer THEN "routing" ELSE "asking"]
    /\ UNCHANGED <<talkVars, memory, yes, turnVars, request, form, job, countVars, ghostVars>>

RecordIntent(m) ==
    /\ at[m] \in {"routing", "asking"}
    /\ at' = [at EXCEPT ![m] = "intent"]
    /\ \/ yes' = yes
       \/ at[m] = "asking" /\ yes' = yes \cup {m}
    /\ UNCHANGED <<talkVars, memory, turnVars, request, form, job, countVars, ghostVars>>

\* The model cannot be used, or the agent is off, full or has failed twice.
RouterHandsOff(m) ==
    /\ at[m] \in {"sent", "routing", "asking"}
    /\ HandOff(TRUE)
    /\ at' = [at EXCEPT ![m] = "done"]
    /\ UNCHANGED <<said, memory, yes, turnVars, request, job, countVars, ghostVars>>

-----------------------------------------------------------------------------
(* A turn of the concierge agent *)

\* The handler takes its place in the conversation's queue ...
Enqueue(m) ==
    /\ at[m] = "intent"
    /\ at' = [at EXCEPT ![m] = "turn"]
    /\ queue' = Append(queue, TurnOf(m))
    /\ UNCHANGED <<talkVars, memory, yes, retried, turn, proposals, request, form, job, countVars, ghostVars>>

\* ... or the agent is off, full, or has failed twice.
AgentFallsBack(m) ==
    /\ at[m] \in {"intent", "failed"}
    /\ HandOff(FALSE)
    /\ at' = [at EXCEPT ![m] = "done"]
    /\ UNCHANGED <<said, memory, yes, turnVars, request, job, countVars, ghostVars>>

Heads(kind) == queue # <<>> /\ Head(queue).kind = kind
Current == Head(queue).n

\* The end of a turn without a reply cuts its proposal off.
Proposed == {turn.proposed} \ {None}
Leave == queue' = Tail(queue) /\ turn' = NoTurn

\* Mutant: off by one.
UnansweredOrNot == replied <= said

\* No message of the AI or of staff follows the guest's newest.
Unanswered == replied < said

\* loadTurn, and the reasons not to answer: the conversation is not the AI's,
\* a newer message will be answered in its own turn, or there is an answer.
Load ==
    /\ Heads("turn") /\ turn.at = "idle"
    /\ IF Talking /\ Current = said /\ Unanswered
       THEN /\ turn' = [NoTurn EXCEPT !.at = "thinking", !.upTo = said, !.offer = memory.offer,
                                      !.fresh = memory.request # None /\ memory.fresh]
            /\ unheard' = FALSE
            /\ UNCHANGED <<queue, at>>
       ELSE /\ Leave
            /\ at' = [at EXCEPT ![Current] = "done"]
            /\ UNCHANGED unheard
    /\ UNCHANGED <<talkVars, memory, yes, retried, proposals, request, form, job, countVars,
                   seen, overtaken, shown, cut, spokeOver>>

Thinking == Heads("turn") /\ turn.at = "thinking"

\* propose_reservation
Propose ==
    /\ Thinking
    /\ proposals + 1 \in Proposals
    /\ proposals' = proposals + 1
    /\ turn' = [turn EXCEPT !.offer = [id |-> proposals + 1, after |-> said],
                            !.proposed = proposals + 1]
    /\ cut' = cut \cup Proposed
    /\ UNCHANGED <<talkVars, memory, routerVars, retried, queue, request, form, job, countVars,
                   seen, overtaken, shown, unheard, spokeOver>>

\* requestBlocker
MayRequest ==
    /\ turn.requested = None /\ ~turn.fresh
    /\ turn.offer # NoOffer
    /\ turn.offer.after < Current
    /\ Current \in yes

\* The room is gone or its price has changed since the proposal.
Withdraw ==
    /\ Thinking /\ MayRequest
    /\ turn' = [turn EXCEPT !.offer = NoOffer]
    /\ UNCHANGED <<talkVars, memory, routerVars, retried, queue, proposals, request, form, job,
                   countVars, ghostVars>>

\* requestReservation: whose side the conversation is on is not asked.
Request(r) ==
    /\ Thinking /\ MayRequest
    /\ IF memory.request # None /\ memory.fresh
       THEN r = memory.request /\ UNCHANGED <<memory, request>>
       ELSE /\ request[r] = Unsent
            /\ request' = [request EXCEPT ![r] = [Unsent EXCEPT !.at = "sent", !.offer = turn.offer.id,
                                                                !.msg = Current]]
            /\ memory' = [offer |-> NoOffer, request |-> r, fresh |-> TRUE]
    /\ turn' = [turn EXCEPT !.requested = r, !.offer = NoOffer]
    /\ UNCHANGED <<talkVars, routerVars, retried, queue, proposals, form, job, countVars, ghostVars>>

\* saveMemory, with a text or a hand-over as the turn's outcome.
SaveMemory ==
    /\ Thinking
    /\ memory' = [memory EXCEPT !.offer = turn.offer]
    /\ \E outcome \in {"replying", "handing"} : turn' = [turn EXCEPT !.at = outcome]
    /\ UNCHANGED <<talkVars, routerVars, retried, queue, proposals, request, form, job, countVars, ghostVars>>

\* appendAiReply: refused if the conversation is no longer the AI's.
Reply ==
    /\ Heads("turn") /\ turn.at = "replying"
    /\ IF Talking
       THEN /\ conv' = [conv EXCEPT !.waiting = "no"]
            /\ replied' = said
            /\ seen' = seen \cup 1..turn.upTo
            /\ overtaken' = overtaken \cup (turn.upTo + 1..said)
            /\ shown' = [o \in Proposals |-> IF o = turn.proposed THEN said ELSE shown[o]]
            /\ spokeOver' = (spokeOver \/ unheard)
            /\ UNCHANGED cut
       ELSE /\ cut' = cut \cup Proposed
            /\ UNCHANGED <<conv, replied, seen, overtaken, shown, spokeOver>>
    /\ at' = [at EXCEPT ![Current] = "done"]
    /\ Leave
    /\ UNCHANGED <<said, memory, yes, retried, proposals, request, form, job, countVars, unheard>>

\* The model wanted it; or, before anything is saved, the guest did, the
\* day's replies are used up or the model cannot be used.
TurnHandsOff ==
    /\ Heads("turn") /\ turn.at \in {"thinking", "handing"}
    /\ HandOff(TRUE)
    /\ at' = [at EXCEPT ![Current] = "done"]
    /\ cut' = cut \cup Proposed
    /\ Leave
    /\ UNCHANGED <<said, memory, yes, retried, proposals, request, job, countVars,
                   seen, overtaken, shown, unheard, spokeOver>>

\* The turn throws.  It is tried once more, behind what waits in the queue.
TurnFails ==
    /\ Heads("turn") /\ turn.at # "idle"
    /\ Trouble
    /\ turn' = NoTurn
    /\ cut' = cut \cup Proposed
    /\ IF Current \in retried
       THEN /\ at' = [at EXCEPT ![Current] = "failed"]
            /\ queue' = Tail(queue)
            /\ UNCHANGED retried
       ELSE /\ retried' = retried \cup {Current}
            /\ queue' = Append(Tail(queue), Head(queue))
            /\ UNCHANGED at
    /\ UNCHANGED <<talkVars, memory, yes, proposals, request, form, job, staff,
                   seen, overtaken, shown, unheard, spokeOver>>

-----------------------------------------------------------------------------
(* Results of booking requests *)

Results == {"settled", "refused"}

\* The reservation worker opens the reservation or finds no room; or refuses it
\* for a reason staff must look at.
Decide(r) ==
    /\ request[r].at = "sent"
    /\ \E result \in Results : request' = [request EXCEPT ![r].at = result]
    /\ UNCHANGED <<talkVars, memory, routerVars, turnVars, form, job, countVars, ghostVars>>


\* Mutant: whether the request is still open is not asked.
HasResult(r) == request[r].at \in Results

IsPending(r) == memory.request = r

\* findRequest, and the place in the queue.  An event may be delivered twice.
HearResult(r) ==
    /\ request[r].at \in Results
    /\ IsPending(r)
    /\ queue' = Append(queue, ResultOf(r))
    /\ \/ ResultOf(r) \notin Range(queue) /\ UNCHANGED troubles
       \/ Trouble
    /\ UNCHANGED <<talkVars, memory, routerVars, retried, turn, proposals, request, form, job, staff, ghostVars>>

\* completeRequest, failRequest: the request is closed and the guest is told in
\* one transaction, once.
TellResult ==
    /\ Heads("result") /\ turn.at = "idle"
    /\ LET r == Current
       IN  /\ memory' = IF IsPending(r) THEN [memory EXCEPT !.request = None, !.fresh = FALSE] ELSE memory
           /\ request' = IF IsPending(r) THEN [request EXCEPT ![r].told = @ + 1] ELSE request
           /\ IF request[r].at = "refused"
              THEN turn' = [NoTurn EXCEPT !.at = "handing"] /\ UNCHANGED queue
              ELSE Leave
    /\ UNCHANGED <<talkVars, routerVars, retried, proposals, form, job, countVars, ghostVars>>

\* The guest was told that the staff will get in touch.
RefusalHandsOff ==
    /\ Heads("result") /\ turn.at = "handing"
    /\ HandOff(FALSE)
    /\ Leave
    /\ UNCHANGED <<said, memory, routerVars, retried, proposals, request, job, countVars, ghostVars>>

\* The handler throws; trying again, it no longer finds the request if it was
\* closed.
ResultFails ==
    /\ Heads("result")
    /\ Trouble
    /\ Leave
    /\ UNCHANGED <<talkVars, memory, routerVars, retried, proposals, request, form, job, staff, ghostVars>>

-----------------------------------------------------------------------------
(* The job for stalled conversations *)

FindStalled ==
    /\ ~job
    /\ Talking /\ conv.waiting = "long"
    /\ job' = TRUE
    /\ UNCHANGED <<talkVars, memory, routerVars, turnVars, request, form, countVars, ghostVars>>

HandOffStalled ==
    /\ job
    /\ job' = FALSE
    /\ HandOff(TRUE)
    /\ UNCHANGED <<said, memory, routerVars, turnVars, request, countVars, ghostVars>>

-----------------------------------------------------------------------------
(* Staff *)

\* sendStaffMessage: who writes takes the conversation over.
Write ==
    /\ Acts
    /\ conv' = [mode |-> "MANUAL", open |-> TRUE, waiting |-> "no"]
    /\ Changes("MANUAL", TRUE)
    /\ replied' = said
    /\ seen' = seen \cup 1..said
    /\ unheard' = TRUE
    /\ UNCHANGED <<said, memory, routerVars, turnVars, request, job, troubles,
                   overtaken, shown, cut, spokeOver>>

OpenForm ==
    /\ form = "none"
    /\ form' = "current"
    /\ UNCHANGED <<talkVars, memory, routerVars, turnVars, request, job, countVars, ghostVars>>

\* updateConversation: refused if what the screen shows is old.  Closing means
\* that the guest was looked after.
Submit ==
    /\ form # "none"
    /\ Acts
    /\ form' = "none"
    /\ IF form = "current"
       THEN \E mode \in {"AI", "MANUAL"}, open \in BOOLEAN :
            LET closes == conv.open /\ ~open
            IN  /\ conv' = [mode |-> mode, open |-> open,
                             waiting |-> IF closes THEN "no" ELSE conv.waiting]
                /\ seen' = IF closes THEN seen \cup 1..said ELSE seen
                /\ unheard' = (unheard /\ ~(conv.mode = "MANUAL" /\ mode = "AI"))
       ELSE UNCHANGED <<conv, seen, unheard>>
    /\ UNCHANGED <<said, replied, memory, routerVars, turnVars, request, job, troubles,
                   overtaken, shown, cut, spokeOver>>

-----------------------------------------------------------------------------
(* Time and failures *)

WaitsLong ==
    /\ conv.waiting = "new"
    /\ conv' = [conv EXCEPT !.waiting = "long"]
    /\ UNCHANGED <<said, replied, memory, routerVars, turnVars, request, form, job, countVars, ghostVars>>

\* REQUEST_STALE_MS: the next request no longer waits for this one.
RequestGrowsStale ==
    /\ memory.fresh
    /\ memory' = [memory EXCEPT !.fresh = FALSE]
    /\ UNCHANGED <<talkVars, routerVars, turnVars, request, form, job, countVars, ghostVars>>

\* The process stops: the agents' work under way is gone, and of the events the
\* relay had taken some were not dispatched.
Crash ==
    /\ Trouble
    /\ \E taken \in SUBSET {m \in Messages : at[m] \in {"sent", "intent"}} :
          at' = [m \in Messages |-> IF m \in taken \/ at[m] \in {"routing", "asking", "turn", "failed"}
                                    THEN "done" ELSE at[m]]
    /\ queue' = <<>> /\ turn' = NoTurn /\ job' = FALSE
    /\ cut' = cut \cup Proposed
    /\ UNCHANGED <<talkVars, memory, yes, retried, proposals, request, form, staff,
                   seen, overtaken, shown, unheard, spokeOver>>

-----------------------------------------------------------------------------
GuestStep == Receive

RouterStep(m) == Route(m) \/ RecordIntent(m) \/ RouterHandsOff(m)

TurnStep ==
    \/ Load \/ Propose \/ Withdraw \/ SaveMemory \/ Reply \/ TurnHandsOff \/ TurnFails
    \/ \E r \in Requests : Request(r)
    \/ \E m \in Messages : Enqueue(m) \/ AgentFallsBack(m)

ResultStep ==
    \/ TellResult \/ RefusalHandsOff \/ ResultFails
    \/ \E r \in Requests : Decide(r) \/ HearResult(r)

JobStep == FindStalled \/ HandOffStalled

StaffStep == Write \/ OpenForm \/ Submit

Next ==
    \/ GuestStep \/ (\E m \in Messages : RouterStep(m))
    \/ TurnStep \/ ResultStep \/ JobStep \/ StaffStep
    \/ WaitsLong \/ RequestGrowsStale \/ Crash

\* Time passes and the job runs every minute.  Nothing is assumed of the AI, of
\* the guest or of the staff.
Fairness == WF_vars(WaitsLong) /\ WF_vars(FindStalled) /\ WF_vars(HandOffStalled)

Spec == Init /\ [][Next]_vars /\ Fairness

-----------------------------------------------------------------------------
Offers == {NoOffer} \cup [id : Proposals, after : 0..MaxMessages]

TalkOK ==
    /\ conv \in [mode : {"AI", "MANUAL"}, open : BOOLEAN, waiting : {"no", "new", "long"}]
    /\ said \in 0..MaxMessages /\ replied \in 0..MaxMessages /\ replied <= said

WorkOK ==
    /\ memory \in [offer : Offers, request : Requests \cup {None}, fresh : BOOLEAN]
    /\ queue \in Seq([kind : {"turn"}, n : Messages] \cup [kind : {"result"}, n : Requests])
    /\ turn \in [at : {"idle", "thinking", "replying", "handing"}, upTo : 0..MaxMessages,
                 offer : Offers, fresh : BOOLEAN, proposed : Proposals \cup {None},
                 requested : Requests \cup {None}]
    /\ proposals \in 0..MaxProposals

RequestOK ==
    request \in [Requests -> [at : {"none", "sent"} \cup Results, offer : Proposals \cup {None},
                             msg : Messages \cup {None}, told : Nat]]

RestOK ==
    /\ at \in [Messages -> {"none", "sent", "routing", "asking", "intent", "turn", "failed", "done"}]
    /\ yes \subseteq Messages /\ retried \subseteq Messages
    /\ form \in {"none", "current", "old"} /\ job \in BOOLEAN
    /\ staff \in 0..MaxStaff /\ troubles \in 0..MaxTroubles

GhostOK ==
    /\ seen \subseteq Messages /\ overtaken \subseteq Messages
    /\ shown \in [Proposals -> 0..Never] /\ cut \subseteq Proposals
    /\ unheard \in BOOLEAN /\ spokeOver \in BOOLEAN

TypeOK == TalkOK /\ WorkOK /\ RequestOK /\ RestOK /\ GhostOK

\* A reservation is requested for a proposal the guest saw before the message
\* that says yes to it, and once ("the guest saw it and wrote afterwards",
\* tools.js).  The code goes by the time of the proposal; that no request can
\* come between it and the reply that shows it is due to the queue and to the
\* test for an answer.  A turn that ends without its reply may leave its
\* proposal behind: such a proposal counts as seen although it was not.
RequestsAreConfirmed ==
    /\ \A r \in Requests : request[r] # Unsent =>
           shown[request[r].offer] < request[r].msg \/ request[r].offer \in cut
    /\ \A r, q \in Requests : request[r] # Unsent /\ request[r].offer = request[q].offer => r = q

\* However often a result is delivered, the guest is told once, and not before
\* the turn that sent the request has written its answer or ended.
ToldOnceAfterTheTurn ==
    [][\A r \in Requests : request'[r].told > request[r].told =>
          request[r].told = 0 /\ turn.requested # r]_vars

\* The AI does not answer over what staff have written since it read, unless the
\* conversation was given back to it in between.
StaffAreNotSpokenOver == ~spokeOver

\* Every message of the guest is taken into account by an answer, or staff were
\* there for it or see the guest waiting, whatever of the AI's work is lost, fails
\* or is refused; except for a message that came while the answer to an
\* earlier one was being written.
WithStaff == conv.mode = "MANUAL" /\ conv.waiting # "no"

EveryMessageIsSeen ==
    \A m \in Messages : m <= said ~> m \in seen \cup overtaken \/ WithStaff
=============================================================================
