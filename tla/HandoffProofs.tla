---------------------------- MODULE HandoffProofs ----------------------------
(* The conversation with a guest, for any number of messages, proposals,    *)
(* requests, acts of the staff and failures.                                *)
EXTENDS Handoff, TLAPS

USE HandoffAssumption

\* The closure belongs to the head of the queue; without one nothing is kept.
TurnSound ==
    /\ turn.at = "idle" => turn = NoTurn
    /\ turn.at # "idle" => queue # <<>>
    /\ turn.at \in {"thinking", "replying"} =>
          Head(queue).kind = "turn" /\ Head(queue).n = turn.upTo
    /\ turn.at = "handing" /\ Head(queue).kind = "result" =>
          turn.proposed = None /\ turn.offer = NoOffer
    /\ turn.upTo <= said
    /\ turn.proposed <= proposals /\ turn.offer.id <= proposals
    /\ turn.proposed # None => turn.offer = NoOffer \/ turn.offer.id = turn.proposed

\* An offer the guest has seen, or one whose turn ended without a reply.
Known(o, n) == o.id \in cut \/ shown[o.id] <= n

\* What a turn works with was made by itself, after the message it answers, or
\* known before that message; what is kept is known or the turn's own.
OffersKnown ==
    /\ turn.offer # NoOffer =>
          \/ turn.offer.id = turn.proposed /\ turn.offer.after >= turn.upTo
          \/ /\ turn.proposed = None
             /\ Known(turn.offer, turn.upTo - 1) /\ Known(turn.offer, replied)
    /\ memory.offer # NoOffer =>
          Known(memory.offer, replied) \/ memory.offer.id = turn.proposed
    /\ memory.offer.id <= proposals

\* A request stands for an offer that was confirmed, and is used no more.
RequestsSound ==
    /\ \A r \in Requests : request[r] # Unsent =>
          /\ request[r].offer \in 1..proposals /\ request[r].msg \in Messages
          /\ shown[request[r].offer] < request[r].msg \/ request[r].offer \in cut
          /\ request[r].offer \notin {memory.offer.id, turn.offer.id, turn.proposed}
    /\ \A r, q \in Requests :
          request[r] # Unsent /\ request[r].offer = request[q].offer => r = q

\* The open request of a conversation was sent and is not answered yet.
PendingUntold ==
    \A r \in Requests : memory.request = r => request[r] # Unsent /\ request[r].told = 0

StaffHold == unheard => conv.mode = "MANUAL"

HInv ==
    /\ TypeOK /\ TurnSound /\ OffersKnown /\ RequestsSound
    /\ PendingUntold /\ StaffHold /\ StaffAreNotSpokenOver

\* What the queue holds, and what is left of it.
LEMMA QueueTyped ==
  ASSUME WorkOK, queue # <<>>
  PROVE  /\ Tail(queue) \in Seq([kind : {"turn"}, n : Messages] \cup [kind : {"result"}, n : Requests])
         /\ Head(queue) \in [kind : {"turn"}, n : Messages] \cup [kind : {"result"}, n : Requests]
         /\ Append(Tail(queue), Head(queue))
               \in Seq([kind : {"turn"}, n : Messages] \cup [kind : {"result"}, n : Requests])
         /\ Heads("turn") => Current \in Messages
         /\ Heads("result") => Current \in Requests
<1> DEFINE E == [kind : {"turn"}, n : Messages] \cup [kind : {"result"}, n : Requests]
<1>1. queue \in Seq(E)
  BY DEF WorkOK
<1> HIDE DEF E
<1>2. Tail(queue) \in Seq(E) /\ Head(queue) \in E
  BY <1>1
<1>3. Append(Tail(queue), Head(queue)) \in Seq(E)
  BY <1>2
<1>4. Heads("turn") => Current \in Messages
  BY <1>2 DEF E, Heads, Current
<1>5. Heads("result") => Current \in Requests
  BY <1>2 DEF E, Heads, Current
<1> QED
  BY <1>2, <1>3, <1>4, <1>5 DEF E

\* A hand-over leaves the conversation in its type.
LEMMA HandOffTyped ==
  ASSUME TalkOK, NEW notice \in BOOLEAN, HandOff(notice), said' = said
  PROVE  TalkOK'
<1>0. /\ conv \in [mode : {"AI", "MANUAL"}, open : BOOLEAN, waiting : {"no", "new", "long"}]
      /\ said \in 0..MaxMessages /\ replied \in 0..MaxMessages /\ replied <= said
  BY DEF TalkOK
<1>1. conv' \in [mode : {"AI", "MANUAL"}, open : BOOLEAN, waiting : {"no", "new", "long"}]
  BY <1>0 DEF HandOff, WaitFrom
<1>2. replied' \in {replied, said}
  BY DEF HandOff
<1>3. replied' \in 0..MaxMessages /\ replied' <= said'
  BY <1>0, <1>2, HandoffAssumption DEF HandoffAssumption
<1> QED
  BY <1>0, <1>1, <1>3 DEF TalkOK

\* The closure's type, spelled out.
TurnRecords == [at : {"idle", "thinking", "replying", "handing"}, upTo : 0..MaxMessages,
                offer : Offers, fresh : BOOLEAN, proposed : Proposals \cup {None},
                requested : Requests \cup {None}]

\* What no turn keeps is in its type.
LEMMA NoTurnTyped == NoTurn \in TurnRecords /\ NoOffer \in Offers
BY HandoffAssumption DEF HandoffAssumption, NoTurn, TurnRecords, NoOffer, Offers

\* No step takes the conversation out of its type.
LEMMA TalkStep == TypeOK /\ [Next]_vars => TalkOK'
<1> SUFFICES ASSUME TypeOK, [Next]_vars PROVE TalkOK'
  OBVIOUS
<1> USE DEF TypeOK, TalkOK
<1>1. CASE Receive
  BY <1>1 DEF Receive, Changes, WaitFrom, Messages
<1>2. CASE \E m \in Messages : RouterHandsOff(m)
  <2> SUFFICES ASSUME NEW m \in Messages, RouterHandsOff(m) PROVE TalkOK'
    BY <1>2
  <2>1. said' = said /\ \E notice \in BOOLEAN : HandOff(notice)
    BY DEF RouterHandsOff
  <2> QED
    BY <2>1, HandOffTyped
<1>3. CASE \E m \in Messages : AgentFallsBack(m)
  BY <1>3, HandOffTyped DEF AgentFallsBack
<1>4. CASE Reply
  <2>1. said' = said /\ conv' \in {conv, [conv EXCEPT !.waiting = "no"]} /\ replied' \in {replied, said}
    BY <1>4 DEF Reply
  <2>2. conv' \in [mode : {"AI", "MANUAL"}, open : BOOLEAN, waiting : {"no", "new", "long"}]
    BY <2>1
  <2> QED
    BY <2>1, <2>2, HandoffAssumption DEF HandoffAssumption
<1>5. CASE TurnHandsOff
  BY <1>5, HandOffTyped DEF TurnHandsOff
<1>6. CASE RefusalHandsOff
  BY <1>6, HandOffTyped DEF RefusalHandsOff
<1>7. CASE HandOffStalled
  BY <1>7, HandOffTyped DEF HandOffStalled
<1>8. CASE Write
  BY <1>8 DEF Write, Changes, Acts, Messages
<1>9. CASE Submit
  BY <1>9 DEF Submit, Acts, Messages
<1>10. CASE WaitsLong
  BY <1>10 DEF WaitsLong, Messages
<1>11. CASE UNCHANGED <<conv, said, replied>>
  BY <1>11
<1> QED
  BY <1>1, <1>2, <1>3, <1>4, <1>5, <1>6, <1>7, <1>8, <1>9, <1>10, <1>11 DEF Next, GuestStep,
     RouterStep, TurnStep, ResultStep, JobStep, StaffStep, vars, Route, RecordIntent, Enqueue, Load,
     Propose, Withdraw, Request, SaveMemory, TurnFails, Decide, HearResult, TellResult, ResultFails,
     FindStalled, OpenForm, RequestGrowsStale, Crash, talkVars, routerVars, turnVars, countVars,
     ghostVars

\* No step takes the memory, the queue or the turn out of their types.
LEMMA WorkStep == TypeOK /\ [Next]_vars => WorkOK'
<1> SUFFICES ASSUME TypeOK, [Next]_vars PROVE WorkOK'
  OBVIOUS
<1> USE DEF TypeOK, WorkOK
<1>1. CASE \E m \in Messages : Enqueue(m)
  BY <1>1 DEF Enqueue, TurnOf, Offers, NoOffer, Messages, Proposals, Requests, None
<1>2. CASE Load
  <2>1. memory' = memory /\ proposals' = proposals
    BY <1>2 DEF Load
  <2>2. CASE turn' = NoTurn /\ queue' = Tail(queue)
    BY <1>2, <2>1, <2>2, QueueTyped, NoTurnTyped DEF Load, Heads, TurnRecords
  <2>3. CASE /\ queue' = queue
             /\ turn' = [NoTurn EXCEPT !.at = "thinking", !.upTo = said, !.offer = memory.offer,
                                       !.fresh = memory.request # None /\ memory.fresh]
    <3>1. memory.offer \in Offers /\ memory.fresh \in BOOLEAN /\ said \in 0..MaxMessages
      BY DEF TalkOK
    <3>2. turn' = [at |-> "thinking", upTo |-> said, offer |-> memory.offer,
                   fresh |-> memory.request # None /\ memory.fresh, proposed |-> None, requested |-> None]
      BY <2>3 DEF NoTurn
    <3>3. turn' \in TurnRecords
      BY <3>1, <3>2 DEF TurnRecords
    <3> QED
      BY <2>1, <2>3, <3>3 DEF TurnRecords
  <2> QED
    BY <1>2, <2>2, <2>3 DEF Load, Leave
<1>3. CASE Propose
  <2>1. /\ memory' = memory /\ queue' = queue /\ proposals' = proposals + 1
        /\ proposals + 1 \in Proposals
        /\ turn' = [turn EXCEPT !.offer = [id |-> proposals + 1, after |-> said],
                                !.proposed = proposals + 1]
    BY <1>3 DEF Propose, turnVars
  <2>2. [id |-> proposals + 1, after |-> said] \in Offers
    BY <2>1 DEF Offers, TalkOK
  <2>3. turn' \in TurnRecords
    BY <2>1, <2>2 DEF TurnRecords
  <2> QED
    BY <2>1, <2>3 DEF TurnRecords, Proposals
<1>4. CASE Withdraw
  BY <1>4 DEF Withdraw, Thinking, Heads, Current, MayRequest, Offers, NoOffer, Messages, Proposals,
     Requests, None, routerVars
<1>5. CASE \E r \in Requests : Request(r)
  <2> SUFFICES ASSUME NEW r \in Requests, Request(r) PROVE WorkOK'
    BY <1>5
  <2>1. /\ queue' = queue /\ proposals' = proposals
        /\ turn' = [turn EXCEPT !.requested = r, !.offer = NoOffer]
        /\ memory' \in {memory, [offer |-> NoOffer, request |-> r, fresh |-> TRUE]}
    BY DEF Request
  <2>2. turn' \in TurnRecords
    BY <2>1, NoTurnTyped DEF TurnRecords
  <2>3. memory' \in [offer : Offers, request : Requests \cup {None}, fresh : BOOLEAN]
    <3>1. memory \in [offer : Offers, request : Requests \cup {None}, fresh : BOOLEAN]
      OBVIOUS
    <3>2. [offer |-> NoOffer, request |-> r, fresh |-> TRUE]
             \in [offer : Offers, request : Requests \cup {None}, fresh : BOOLEAN]
      BY NoTurnTyped
    <3> QED
      BY <2>1, <3>1, <3>2
  <2>4. queue' \in Seq([kind : {"turn"}, n : Messages] \cup [kind : {"result"}, n : Requests])
        /\ proposals' \in 0..MaxProposals
    BY <2>1
  <2> QED
    BY <2>2, <2>3, <2>4 DEF TurnRecords
<1>6. CASE SaveMemory
  BY <1>6 DEF SaveMemory, Thinking, Heads, Offers, NoOffer, Messages, Proposals, Requests, None,
     routerVars
<1>7. CASE Reply
  BY <1>7 DEF Reply, Heads, Current, Leave, Talking, Proposed, Offers, NoOffer, NoTurn, Messages,
     Proposals, Requests, None
<1>8. CASE TurnHandsOff
  BY <1>8 DEF TurnHandsOff, HandOff, Changes, WaitFrom, Heads, Current, Leave, Proposed, Offers,
     NoOffer, NoTurn, Messages, Proposals, Requests, None
<1>9. CASE TurnFails
  <2>1. /\ memory' = memory /\ proposals' = proposals /\ turn' = NoTurn
        /\ queue' \in {Tail(queue), Append(Tail(queue), Head(queue))} /\ queue # <<>>
    BY <1>9 DEF TurnFails, Heads
  <2> QED
    BY <2>1, QueueTyped, NoTurnTyped DEF TurnRecords
<1>10. CASE \E r \in Requests : HearResult(r)
  BY <1>10 DEF HearResult, Trouble, IsPending, ResultOf, Offers, NoOffer, Messages, Proposals,
     Requests, None, routerVars
<1>11. CASE TellResult
  <2>1. /\ proposals' = proposals /\ queue # <<>> /\ queue' \in {queue, Tail(queue)}
        /\ turn' \in {NoTurn, [NoTurn EXCEPT !.at = "handing"]}
        /\ memory' \in {memory, [memory EXCEPT !.request = None, !.fresh = FALSE]}
    BY <1>11 DEF TellResult, Heads, Leave
  <2>2. [NoTurn EXCEPT !.at = "handing"] \in TurnRecords
    BY NoTurnTyped DEF TurnRecords
  <2>3. memory' \in [offer : Offers, request : Requests \cup {None}, fresh : BOOLEAN]
    BY <2>1
  <2> QED
    BY <2>1, <2>2, <2>3, QueueTyped, NoTurnTyped DEF TurnRecords
<1>12. CASE RefusalHandsOff
  BY <1>12 DEF RefusalHandsOff, HandOff, Changes, WaitFrom, Heads, Leave, Offers, NoOffer, NoTurn,
     Messages, Proposals, Requests, None, routerVars
<1>13. CASE ResultFails
  BY <1>13 DEF ResultFails, Trouble, Heads, Leave, Offers, NoOffer, NoTurn, Messages, Proposals,
     Requests, None, routerVars
<1>14. CASE RequestGrowsStale
  BY <1>14 DEF RequestGrowsStale, Offers, NoOffer, Messages, Proposals, Requests, None, routerVars,
     turnVars
<1>15. CASE Crash
  BY <1>15 DEF Crash, Trouble, Proposed, Offers, NoOffer, NoTurn, Messages, Proposals, Requests,
     None
<1>16. CASE UNCHANGED <<memory, queue, turn, proposals>>
  BY <1>16
<1> QED
  BY <1>1, <1>2, <1>3, <1>4, <1>5, <1>6, <1>7, <1>8, <1>9, <1>10, <1>11, <1>12, <1>13, <1>14, <1>15,
     <1>16 DEF Next, GuestStep, RouterStep, TurnStep, ResultStep, JobStep, StaffStep, vars, Receive,
     Route, RecordIntent, RouterHandsOff, AgentFallsBack, Decide, FindStalled, HandOffStalled,
     Write, OpenForm, Submit, WaitsLong, talkVars, routerVars, turnVars, countVars, ghostVars

\* No step takes a request out of its type.
LEMMA RequestStep == TypeOK /\ [Next]_vars => RequestOK'
<1> SUFFICES ASSUME TypeOK, [Next]_vars PROVE RequestOK'
  OBVIOUS
<1> USE DEF TypeOK, RequestOK
<1>1. CASE \E r \in Requests : Request(r)
  <2> SUFFICES ASSUME NEW r \in Requests, Request(r), request' # request PROVE RequestOK'
    BY <1>1
  <2>1. request' = [request EXCEPT ![r] = [Unsent EXCEPT !.at = "sent", !.offer = turn.offer.id, !.msg = Current]]
    BY DEF Request
  <2>2. turn.offer # NoOffer /\ Heads("turn")
    BY DEF Request, MayRequest, Thinking
  <2>3. turn.offer.id \in Proposals
    BY <2>2 DEF WorkOK, Offers
  <2>4. Current \in Messages
    BY <2>2, QueueTyped DEF Heads
  <2> DEFINE R == [at : {"none", "sent"} \cup Results, offer : Proposals \cup {None},
                   msg : Messages \cup {None}, told : Nat]
  <2>5. ASSUME NEW o \in Proposals, NEW m \in Messages
        PROVE  [Unsent EXCEPT !.at = "sent", !.offer = o, !.msg = m] \in R
    BY DEF Unsent
  <2>6. [Unsent EXCEPT !.at = "sent", !.offer = turn.offer.id, !.msg = Current] \in R
    BY <2>3, <2>4, <2>5
  <2> QED
    BY <2>1, <2>6
<1>2. CASE \E r \in Requests : Decide(r)
  <2> SUFFICES ASSUME NEW r \in Requests, Decide(r) PROVE RequestOK'
    BY <1>2
  <2>1. PICK result \in Results : request' = [request EXCEPT ![r].at = result]
    BY DEF Decide
  <2> QED
    BY <2>1 DEF Results
<1>3. CASE TellResult
  <2>1. Current \in Requests
    BY <1>3, QueueTyped DEF TellResult, Heads
  <2>2. request' \in {request, [request EXCEPT ![Current].told = @ + 1]}
    BY <1>3 DEF TellResult
  <2> QED
    BY <2>1, <2>2
<1>4. CASE UNCHANGED <<request>>
  BY <1>4
<1> QED
  BY <1>1, <1>2, <1>3, <1>4 DEF Next, GuestStep, RouterStep, TurnStep, ResultStep, JobStep,
     StaffStep, vars, Receive, Route, RecordIntent, RouterHandsOff, Enqueue, AgentFallsBack, Load,
     Propose, Withdraw, SaveMemory, Reply, TurnHandsOff, TurnFails, HearResult, RefusalHandsOff,
     ResultFails, FindStalled, HandOffStalled, Write, OpenForm, Submit, WaitsLong,
     RequestGrowsStale, Crash, talkVars, routerVars, turnVars, countVars, ghostVars

\* No step takes the agents', the job's and the screens' state out of its type.
LEMMA RestStep == TypeOK /\ [Next]_vars => RestOK'
<1> SUFFICES ASSUME TypeOK, [Next]_vars PROVE RestOK'
  OBVIOUS
<1> USE DEF TypeOK, RestOK
<1>1. CASE Receive
  BY <1>1 DEF Receive, Changes, WaitFrom, Messages, turnVars, countVars
<1>2. CASE \E m \in Messages : Route(m)
  BY <1>2 DEF Route, Messages, turnVars, countVars
<1>3. CASE \E m \in Messages : RecordIntent(m)
  BY <1>3 DEF RecordIntent, Messages, turnVars, countVars
<1>4. CASE \E m \in Messages : RouterHandsOff(m)
  BY <1>4 DEF RouterHandsOff, HandOff, Changes, WaitFrom, Messages, turnVars, countVars
<1>5. CASE \E m \in Messages : Enqueue(m)
  BY <1>5 DEF Enqueue, TurnOf, Messages, countVars
<1>6. CASE \E m \in Messages : AgentFallsBack(m)
  BY <1>6 DEF AgentFallsBack, HandOff, Changes, WaitFrom, Messages, turnVars, countVars
<1>7. CASE Load
  BY <1>7 DEF Load, Heads, Current, Leave, Talking, Unanswered, Messages, talkVars, countVars
<1>8. CASE Reply
  BY <1>8 DEF Reply, Heads, Current, Leave, Talking, Proposed, Messages, countVars
<1>9. CASE TurnHandsOff
  BY <1>9 DEF TurnHandsOff, HandOff, Changes, WaitFrom, Heads, Current, Leave, Proposed, Messages,
     countVars
<1>10. CASE TurnFails
  <2>1. Current \in Messages
    BY <1>10, QueueTyped DEF TurnFails, Heads
  <2>2. /\ troubles < MaxTroubles /\ troubles' = troubles + 1
        /\ at' \in {at, [at EXCEPT ![Current] = "failed"]}
        /\ retried' \in {retried, retried \cup {Current}}
        /\ UNCHANGED <<yes, form, job, staff>>
    BY <1>10 DEF TurnFails, Trouble
  <2>3. troubles' \in 0..MaxTroubles
    BY <2>2, HandoffAssumption DEF HandoffAssumption
  <2> QED
    BY <2>1, <2>2, <2>3
<1>11. CASE \E r \in Requests : HearResult(r)
  BY <1>11 DEF HearResult, Trouble, IsPending, ResultOf, Messages, routerVars
<1>12. CASE RefusalHandsOff
  BY <1>12 DEF RefusalHandsOff, HandOff, Changes, WaitFrom, Heads, Leave, Messages, routerVars,
     countVars
<1>13. CASE ResultFails
  BY <1>13 DEF ResultFails, Trouble, Heads, Leave, Messages, routerVars
<1>14. CASE FindStalled
  BY <1>14 DEF FindStalled, Talking, Messages, talkVars, routerVars, turnVars, countVars
<1>15. CASE HandOffStalled
  BY <1>15 DEF HandOffStalled, HandOff, Changes, WaitFrom, Messages, routerVars, turnVars, countVars
<1>16. CASE Write
  <2>1. /\ staff < MaxStaff /\ staff' = staff + 1 /\ form' \in {form, "old"}
        /\ UNCHANGED <<at, yes, retried, job, troubles>>
    BY <1>16 DEF Write, Acts, Changes, routerVars, turnVars
  <2>2. staff' \in 0..MaxStaff
    BY <2>1, HandoffAssumption DEF HandoffAssumption
  <2> QED
    BY <2>1, <2>2
<1>17. CASE OpenForm
  BY <1>17 DEF OpenForm, Messages, routerVars, turnVars, countVars
<1>18. CASE Submit
  BY <1>18 DEF Submit, Acts, Messages, routerVars, turnVars
<1>19. CASE Crash
  <2>1. PICK taken \in SUBSET {m \in Messages : at[m] \in {"sent", "intent"}} :
          at' = [m \in Messages |-> IF m \in taken \/ at[m] \in {"routing", "asking", "turn", "failed"}
                                    THEN "done" ELSE at[m]]
    BY <1>19 DEF Crash
  <2>2. at' \in [Messages -> {"none", "sent", "routing", "asking", "intent", "turn", "failed", "done"}]
    BY <2>1
  <2>3. /\ troubles < MaxTroubles /\ troubles' = troubles + 1 /\ job' = FALSE
        /\ UNCHANGED <<yes, retried, form, staff>>
    BY <1>19 DEF Crash, Trouble
  <2>4. troubles' \in 0..MaxTroubles
    BY <2>3, HandoffAssumption DEF HandoffAssumption
  <2> QED
    BY <2>2, <2>3, <2>4
<1>20. CASE UNCHANGED <<at, yes, retried, form, job, staff, troubles>>
  BY <1>20
<1> QED
  BY <1>1, <1>2, <1>3, <1>4, <1>5, <1>6, <1>7, <1>8, <1>9, <1>10, <1>11, <1>12, <1>13, <1>14, <1>15,
     <1>16, <1>17, <1>18, <1>19, <1>20 DEF Next, GuestStep, RouterStep, TurnStep, ResultStep,
     JobStep, StaffStep, vars, Propose, Withdraw, Request, SaveMemory, Decide, TellResult,
     WaitsLong, RequestGrowsStale, talkVars, routerVars, turnVars, countVars, ghostVars

\* No step takes what the guest and the staff saw out of its type.
LEMMA GhostStep == TypeOK /\ [Next]_vars => GhostOK'
<1> SUFFICES ASSUME TypeOK, [Next]_vars PROVE GhostOK'
  OBVIOUS
<1> USE DEF TypeOK, GhostOK
<1>1. CASE Load
  BY <1>1 DEF Load, Heads, Current, Leave, Talking, Unanswered, Never, Messages, Proposals, None,
     talkVars
<1>2. CASE Propose
  BY <1>2 DEF Propose, Thinking, Heads, Proposed, Never, Messages, Proposals, None, WorkOK, Offers,
     NoOffer, Requests, talkVars, routerVars
<1>3. CASE Reply
  <2>1. /\ said \in 0..MaxMessages /\ turn.upTo \in 0..MaxMessages /\ Proposed \subseteq Proposals
        /\ spokeOver' \in {spokeOver, spokeOver \/ unheard} /\ unheard' = unheard
        /\ seen' \in {seen, seen \cup 1..turn.upTo}
        /\ overtaken' \in {overtaken, overtaken \cup (turn.upTo + 1..said)}
        /\ shown' \in {shown, [o \in Proposals |-> IF o = turn.proposed THEN said ELSE shown[o]]}
        /\ cut' \in {cut, cut \cup Proposed}
    BY <1>3 DEF Reply, WorkOK, TalkOK, Proposed
  <2>2. (1..turn.upTo) \subseteq Messages /\ (turn.upTo + 1..said) \subseteq Messages
    BY <2>1, HandoffAssumption DEF HandoffAssumption, Messages
  <2>3. said \in 0..Never
    BY <2>1, HandoffAssumption DEF HandoffAssumption, Never
  <2>4. [o \in Proposals |-> IF o = turn.proposed THEN said ELSE shown[o]] \in [Proposals -> 0..Never]
    BY <2>3
  <2>5. seen' \subseteq Messages /\ overtaken' \subseteq Messages /\ cut' \subseteq Proposals
    BY <2>1, <2>2
  <2>6. shown' \in [Proposals -> 0..Never]
    BY <2>1, <2>4
  <2>7. unheard' \in BOOLEAN /\ spokeOver' \in BOOLEAN
    BY <2>1
  <2> QED
    BY <2>5, <2>6, <2>7
<1>4. CASE TurnHandsOff
  BY <1>4 DEF TurnHandsOff, HandOff, Changes, WaitFrom, Heads, Current, Leave, Proposed, Never,
     Messages, Proposals, None, WorkOK, Offers, NoOffer, Requests
<1>5. CASE TurnFails
  BY <1>5 DEF TurnFails, Trouble, Heads, Current, Proposed, Never, Messages, Proposals, None,
     WorkOK, Offers, NoOffer, Requests
<1>6. CASE Write
  BY <1>6 DEF Write, Changes, Acts, Never, Messages, Proposals, TalkOK
<1>7. CASE Submit
  <2>1. /\ seen' \in {seen, seen \cup 1..said} /\ (1..said) \subseteq Messages
        /\ UNCHANGED <<overtaken, shown, cut, spokeOver>>
    BY <1>7, HandoffAssumption DEF HandoffAssumption, Submit, TalkOK, Messages
  <2>2. unheard' \in BOOLEAN
    BY <1>7 DEF Submit
  <2> QED
    BY <2>1, <2>2
<1>8. CASE Crash
  BY <1>8 DEF Crash, Trouble, Proposed, Never, Messages, Proposals, None, WorkOK, Offers, NoOffer,
     Requests
<1>9. CASE UNCHANGED <<seen, overtaken, shown, cut, unheard, spokeOver>>
  BY <1>9
<1> QED
  BY <1>1, <1>2, <1>3, <1>4, <1>5, <1>6, <1>7, <1>8, <1>9 DEF Next, GuestStep, RouterStep, TurnStep,
     ResultStep, JobStep, StaffStep, vars, Receive, Route, RecordIntent, RouterHandsOff, Enqueue,
     AgentFallsBack, Withdraw, Request, SaveMemory, Decide, HearResult, TellResult, RefusalHandsOff,
     ResultFails, FindStalled, HandOffStalled, OpenForm, WaitsLong, RequestGrowsStale, talkVars,
     routerVars, turnVars, countVars, ghostVars

\* The fields, one by one.
LEMMA FieldsTyped ==
  ASSUME TypeOK
  PROVE  /\ said \in Nat /\ replied \in Nat /\ replied <= said /\ proposals \in Nat
         /\ turn.at \in {"idle", "thinking", "replying", "handing"} /\ turn.upTo \in Nat
         /\ turn.offer.id \in Nat /\ turn.offer.after \in Nat
         /\ turn.offer # NoOffer => turn.offer.id \in Proposals
         /\ turn.proposed \in Proposals \cup {None} /\ turn.requested \in Requests \cup {None}
         /\ memory.offer.id \in Nat /\ memory.request \in Requests \cup {None}
         /\ memory.offer # NoOffer => memory.offer.id \in Proposals
         /\ \A o \in Proposals : shown[o] \in Nat
         /\ \A r \in Requests : request[r].offer \in Proposals \cup {None}
                                /\ request[r].msg \in Messages \cup {None} /\ request[r].told \in Nat
         /\ NoOffer.id = 0
<1> USE HandoffAssumption DEF HandoffAssumption, TypeOK
<1>1. said \in Nat /\ replied \in Nat /\ replied <= said
  BY DEF TalkOK
<1>2. ASSUME NEW o \in Offers
      PROVE  o.id \in Nat /\ o.after \in Nat /\ (o # NoOffer => o.id \in Proposals)
  BY DEF Offers, NoOffer, None, Proposals
<1>3. turn.offer \in Offers /\ memory.offer \in Offers /\ proposals \in Nat
  BY DEF WorkOK
<1>4. /\ turn.at \in {"idle", "thinking", "replying", "handing"} /\ turn.upTo \in Nat
      /\ turn.proposed \in Proposals \cup {None} /\ turn.requested \in Requests \cup {None}
      /\ memory.request \in Requests \cup {None}
  BY DEF WorkOK
<1>5. \A o \in Proposals : shown[o] \in Nat
  BY DEF GhostOK, Never
<1>6. \A r \in Requests : request[r].offer \in Proposals \cup {None}
                          /\ request[r].msg \in Messages \cup {None} /\ request[r].told \in Nat
  BY DEF RequestOK
<1>7. NoOffer.id = 0
  BY DEF NoOffer, None
<1> QED
  BY <1>1, <1>2, <1>3, <1>4, <1>5, <1>6, <1>7

\* A place taken at the end of the queue leaves its head.
LEMMA AppendKeepsHead ==
  ASSUME WorkOK, NEW x \in [kind : {"turn"}, n : Messages] \cup [kind : {"result"}, n : Requests]
  PROVE  Append(queue, x) # <<>> /\ (queue # <<>> => Head(Append(queue, x)) = Head(queue))
<1> DEFINE E == [kind : {"turn"}, n : Messages] \cup [kind : {"result"}, n : Requests]
<1>1. queue \in Seq(E) /\ x \in E
  BY DEF WorkOK
<1> HIDE DEF E
<1>2. Append(queue, x) \in Seq(E) /\ Len(Append(queue, x)) = Len(queue) + 1 /\ Len(queue) \in Nat
  BY <1>1
<1>3. ASSUME queue # <<>> PROVE Append(queue, x)[1] = queue[1]
  <2>1. 1 \in 1..Len(queue)
    BY <1>1, <1>3
  <2> QED
    BY <1>1, <2>1
<1>4. Append(queue, x) # <<>>
  BY <1>2
<1>5. \A s \in Seq(E) : s # <<>> => Head(s) = s[1]
  OBVIOUS
<1> QED
  BY <1>1, <1>2, <1>3, <1>4, <1>5

\* What no turn keeps.
LEMMA NoTurnFields ==
  /\ NoTurn.at = "idle" /\ NoTurn.upTo = 0 /\ NoTurn.offer = NoOffer /\ NoTurn.proposed = None
  /\ NoTurn.requested = None /\ NoOffer.id = 0 /\ None = 0
BY DEF NoTurn, NoOffer, None

\* The closure keeps belonging to the head of the queue.
LEMMA TurnSoundStep == HInv /\ TypeOK' /\ [Next]_vars => TurnSound'
<1> SUFFICES ASSUME HInv, TypeOK', [Next]_vars PROVE TurnSound'
  OBVIOUS
<1> USE DEF HInv, TurnSound
<1>1. CASE Receive
  BY <1>1, FieldsTyped DEF Receive, Changes, WaitFrom, turnVars, ghostVars
<1>2. CASE \E m \in Messages : Enqueue(m)
  <2> SUFFICES ASSUME NEW m \in Messages, Enqueue(m) PROVE TurnSound'
    BY <1>2
  <2>1. turn' = turn /\ queue' = Append(queue, TurnOf(m)) /\ said' = said /\ proposals' = proposals
    BY DEF Enqueue, talkVars
  <2>2. queue' # <<>> /\ (queue # <<>> => Head(queue') = Head(queue))
    BY <2>1, AppendKeepsHead DEF TurnOf, TypeOK
  <2> QED
    BY <2>1, <2>2
<1>3. CASE Load
  <2>1. said' = said /\ proposals' = proposals /\ Heads("turn") /\ turn = NoTurn
    BY <1>3 DEF Load, talkVars
  <2>2. CASE turn' = NoTurn
    BY <2>1, <2>2, NoTurnFields, FieldsTyped
  <2>3. CASE /\ queue' = queue /\ Current = said
             /\ turn' = [NoTurn EXCEPT !.at = "thinking", !.upTo = said, !.offer = memory.offer,
                                       !.fresh = memory.request # None /\ memory.fresh]
    <3>1. /\ turn'.at = "thinking" /\ turn'.upTo = said /\ turn'.offer = memory.offer
          /\ turn'.proposed = None
      BY <2>3 DEF NoTurn
    <3> QED
      BY <2>1, <2>3, <3>1, NoTurnFields, FieldsTyped DEF Heads, Current, OffersKnown
  <2> QED
    BY <1>3, <2>2, <2>3 DEF Load, Leave
<1>4. CASE Propose
  <2>1. /\ said' = said /\ queue' = queue /\ proposals' = proposals + 1 /\ Thinking
        /\ turn' = [turn EXCEPT !.offer = [id |-> proposals + 1, after |-> said],
                                !.proposed = proposals + 1]
    BY <1>4 DEF Propose, talkVars
  <2>2. /\ turn'.at = turn.at /\ turn'.upTo = turn.upTo /\ turn'.proposed = proposals + 1
        /\ turn'.offer.id = proposals + 1
    BY <2>1 DEF TypeOK, WorkOK
  <2> QED
    BY <2>1, <2>2, FieldsTyped DEF Thinking
<1>5. CASE Withdraw
  <2>1. /\ said' = said /\ queue' = queue /\ proposals' = proposals /\ Thinking
        /\ turn' = [turn EXCEPT !.offer = NoOffer]
    BY <1>5 DEF Withdraw, talkVars
  <2>2. /\ turn'.at = turn.at /\ turn'.upTo = turn.upTo /\ turn'.proposed = turn.proposed
        /\ turn'.offer = NoOffer
    BY <2>1 DEF TypeOK, WorkOK
  <2> QED
    BY <2>1, <2>2, FieldsTyped DEF Thinking
<1>6. CASE \E r \in Requests : Request(r)
  <2> SUFFICES ASSUME NEW r \in Requests, Request(r) PROVE TurnSound'
    BY <1>6
  <2>1. /\ said' = said /\ queue' = queue /\ proposals' = proposals /\ Thinking
        /\ turn' = [turn EXCEPT !.requested = r, !.offer = NoOffer]
    BY DEF Request, talkVars
  <2>2. /\ turn'.at = turn.at /\ turn'.upTo = turn.upTo /\ turn'.proposed = turn.proposed
        /\ turn'.offer = NoOffer
    BY <2>1 DEF TypeOK, WorkOK
  <2> QED
    BY <2>1, <2>2, FieldsTyped DEF Thinking
<1>7. CASE SaveMemory
  BY <1>7 DEF SaveMemory, Thinking, Heads, talkVars, routerVars,
     ghostVars
<1>8. CASE Reply
  BY <1>8, FieldsTyped, NoTurnFields DEF Reply, Heads, Current, Leave, Talking, Proposed
<1>9. CASE TurnHandsOff
  BY <1>9, FieldsTyped, NoTurnFields DEF TurnHandsOff, HandOff, Changes, WaitFrom, Heads, Current,
     Leave, Proposed
<1>10. CASE TurnFails
  BY <1>10, FieldsTyped, NoTurnFields DEF TurnFails, Trouble, Heads, Current, Proposed, talkVars
<1>11. CASE \E r \in Requests : HearResult(r)
  <2> SUFFICES ASSUME NEW r \in Requests, HearResult(r) PROVE TurnSound'
    BY <1>11
  <2>1. turn' = turn /\ queue' = Append(queue, ResultOf(r)) /\ said' = said /\ proposals' = proposals
    BY DEF HearResult, talkVars
  <2>2. queue' # <<>> /\ (queue # <<>> => Head(queue') = Head(queue))
    BY <2>1, AppendKeepsHead DEF ResultOf, TypeOK
  <2> QED
    BY <2>1, <2>2
<1>12. CASE TellResult
  <2>1. /\ said' = said /\ proposals' = proposals /\ Heads("result")
        /\ \/ turn' = NoTurn
           \/ turn' = [NoTurn EXCEPT !.at = "handing"] /\ queue' = queue
    BY <1>12 DEF TellResult, talkVars, Leave
  <2>2. CASE turn' = NoTurn
    BY <2>1, <2>2, NoTurnFields, FieldsTyped
  <2>3. CASE turn' = [NoTurn EXCEPT !.at = "handing"] /\ queue' = queue
    <3>1. /\ turn'.at = "handing" /\ turn'.upTo = 0 /\ turn'.proposed = None
          /\ turn'.offer = NoOffer
      BY <2>3 DEF NoTurn
    <3> QED
      BY <2>1, <2>3, <3>1, NoTurnFields, FieldsTyped DEF Heads
  <2> QED
    BY <2>1, <2>2, <2>3
<1>13. CASE RefusalHandsOff
  BY <1>13, FieldsTyped, NoTurnFields DEF RefusalHandsOff, HandOff, Changes, WaitFrom, Heads, Leave,
     routerVars, ghostVars
<1>14. CASE ResultFails
  BY <1>14, FieldsTyped, NoTurnFields DEF ResultFails, Trouble, Heads, Leave, talkVars, routerVars,
     ghostVars
<1>15. CASE Crash
  BY <1>15, FieldsTyped, NoTurnFields DEF Crash, Trouble, Proposed, talkVars
<1>16. CASE UNCHANGED <<turn, queue, said, proposals>>
  BY <1>16 DEF Known
<1> QED
  BY <1>1, <1>2, <1>3, <1>4, <1>5, <1>6, <1>7, <1>8, <1>9, <1>10, <1>11, <1>12, <1>13, <1>14, <1>15,
     <1>16 DEF Next, GuestStep, RouterStep, TurnStep, ResultStep, JobStep, StaffStep, vars, Route,
     RecordIntent, RouterHandsOff, AgentFallsBack, Decide, FindStalled, HandOffStalled, Write,
     OpenForm, Submit, WaitsLong, RequestGrowsStale, talkVars, routerVars, turnVars, countVars,
     ghostVars

\* No step makes a turn work with an offer the guest may not have seen, unless it is its own.
LEMMA OffersKnownStep == HInv /\ TypeOK' /\ [Next]_vars => OffersKnown'
<1> SUFFICES ASSUME HInv, TypeOK', [Next]_vars PROVE OffersKnown'
  OBVIOUS
<1> USE DEF HInv, TurnSound, OffersKnown
<1>1. CASE \E m \in Messages : RouterHandsOff(m)
  <2>1. /\ turn' = turn /\ memory' = memory /\ shown' = shown /\ cut' = cut /\ proposals' = proposals
        /\ replied' \in {replied, said}
    BY <1>1 DEF RouterHandsOff, HandOff, talkVars, turnVars, ghostVars
  <2> QED
    BY <2>1, FieldsTyped DEF Known
<1>2. CASE \E m \in Messages : AgentFallsBack(m)
  BY <1>2 DEF AgentFallsBack, HandOff, Changes, WaitFrom, Known,
     turnVars, ghostVars
<1>3. CASE Load
  <2>1. /\ memory' = memory /\ shown' = shown /\ cut' = cut /\ proposals' = proposals
        /\ replied' = replied /\ turn = NoTurn
    BY <1>3 DEF Load, talkVars
  <2>2. memory.offer # NoOffer => Known(memory.offer, replied)
    BY <2>1, NoTurnFields, FieldsTyped DEF Proposals
  <2>3. CASE turn' = NoTurn
    BY <2>1, <2>2, <2>3, NoTurnFields DEF Known
  <2>4. CASE /\ Unanswered
             /\ turn' = [NoTurn EXCEPT !.at = "thinking", !.upTo = said, !.offer = memory.offer,
                                       !.fresh = memory.request # None /\ memory.fresh]
    <3>1. turn'.upTo = said /\ turn'.offer = memory.offer /\ turn'.proposed = None
      BY <2>4 DEF NoTurn
    <3> QED
      BY <2>1, <2>2, <2>4, <3>1, FieldsTyped DEF Known, Unanswered
  <2> QED
    BY <1>3, <2>3, <2>4 DEF Load, Leave
<1>4. CASE Propose
  <2>1. /\ memory' = memory /\ shown' = shown /\ cut' = cut \cup Proposed
        /\ replied' = replied /\ proposals' = proposals + 1
        /\ turn' = [turn EXCEPT !.offer = [id |-> proposals + 1, after |-> said],
                                !.proposed = proposals + 1]
    BY <1>4 DEF Propose, talkVars
  <2>2. /\ turn'.upTo = turn.upTo /\ turn'.proposed = proposals + 1
        /\ turn'.offer.id = proposals + 1 /\ turn'.offer.after = said
    BY <2>1 DEF TypeOK, WorkOK
  <2>3. memory.offer # NoOffer => Known(memory.offer, replied) \/ memory.offer.id \in Proposed
    BY NoTurnFields, FieldsTyped DEF Proposed, Proposals
  <2> QED
    BY <2>1, <2>2, <2>3, FieldsTyped DEF Known
<1>5. CASE Withdraw
  BY <1>5 DEF Withdraw, Thinking, Heads, Current, MayRequest, Known,
     talkVars, routerVars, ghostVars
<1>6. CASE \E r \in Requests : Request(r)
  <2> SUFFICES ASSUME NEW r \in Requests, Request(r) PROVE OffersKnown'
    BY <1>6
  <2>1. /\ shown' = shown /\ cut' = cut /\ replied' = replied /\ proposals' = proposals
        /\ memory' \in {memory, [offer |-> NoOffer, request |-> r, fresh |-> TRUE]}
        /\ turn' = [turn EXCEPT !.requested = r, !.offer = NoOffer]
    BY DEF Request, talkVars, ghostVars
  <2>2. turn'.proposed = turn.proposed /\ turn'.offer = NoOffer
    BY <2>1 DEF TypeOK, WorkOK
  <2>3. memory'.offer \in {memory.offer, NoOffer}
    BY <2>1
  <2> QED
    BY <2>1, <2>2, <2>3, NoTurnFields, FieldsTyped DEF Known
<1>7. CASE SaveMemory
  BY <1>7 DEF SaveMemory, Thinking, Heads, Known, talkVars, routerVars,
     ghostVars
<1>8. CASE Reply
  BY <1>8, FieldsTyped, NoTurnFields DEF Reply, Heads, Current, Leave, Talking, Proposed, Known
<1>9. CASE TurnHandsOff
  BY <1>9, FieldsTyped, NoTurnFields DEF TurnHandsOff, HandOff, Changes, WaitFrom, Heads, Current,
     Leave, Proposed, Known
<1>10. CASE TurnFails
  BY <1>10, FieldsTyped, NoTurnFields DEF TurnFails, Trouble, Heads, Current, Proposed, Known,
     talkVars
<1>11. CASE TellResult
  <2>1. /\ shown' = shown /\ cut' = cut /\ replied' = replied /\ proposals' = proposals
        /\ memory' \in {memory, [memory EXCEPT !.request = None, !.fresh = FALSE]} /\ turn = NoTurn
        /\ turn' \in {NoTurn, [NoTurn EXCEPT !.at = "handing"]}
    BY <1>11 DEF TellResult, Leave, talkVars, ghostVars
  <2>2. turn'.proposed = None /\ turn'.offer = NoOffer
    BY <2>1 DEF NoTurn
  <2>3. memory'.offer = memory.offer
    BY <2>1 DEF TypeOK, WorkOK
  <2> QED
    BY <2>1, <2>2, <2>3, NoTurnFields, FieldsTyped DEF Known
<1>12. CASE RefusalHandsOff
  BY <1>12, FieldsTyped, NoTurnFields DEF RefusalHandsOff, HandOff, Changes, WaitFrom, Heads, Leave,
     Known, routerVars, ghostVars
<1>13. CASE ResultFails
  BY <1>13, FieldsTyped, NoTurnFields DEF ResultFails, Trouble, Heads, Leave, Known, talkVars,
     routerVars, ghostVars
<1>14. CASE HandOffStalled
  <2>1. /\ turn' = turn /\ memory' = memory /\ shown' = shown /\ cut' = cut /\ proposals' = proposals
        /\ replied' \in {replied, said}
    BY <1>14 DEF HandOffStalled, HandOff, talkVars, turnVars, ghostVars
  <2> QED
    BY <2>1, FieldsTyped DEF Known
<1>15. CASE Write
  <2>1. /\ turn' = turn /\ memory' = memory /\ shown' = shown /\ cut' = cut /\ proposals' = proposals
        /\ replied' \in {replied, said}
    BY <1>15 DEF Write, talkVars, turnVars, ghostVars
  <2> QED
    BY <2>1, FieldsTyped DEF Known
<1>16. CASE RequestGrowsStale
  BY <1>16 DEF RequestGrowsStale, Known, talkVars, routerVars, turnVars,
     ghostVars
<1>17. CASE Crash
  BY <1>17, FieldsTyped, NoTurnFields DEF Crash, Trouble, Proposed, Known, talkVars
<1>18. CASE UNCHANGED <<turn, memory, replied, shown, cut, proposals>>
  BY <1>18 DEF Known
<1> QED
  BY <1>1, <1>2, <1>3, <1>4, <1>5, <1>6, <1>7, <1>8, <1>9, <1>10, <1>11, <1>12, <1>13, <1>14, <1>15,
     <1>16, <1>17, <1>18 DEF Next, GuestStep, RouterStep, TurnStep, ResultStep, JobStep, StaffStep,
     vars, Receive, Route, RecordIntent, Enqueue, Decide, HearResult, FindStalled, OpenForm, Submit,
     WaitsLong, talkVars, routerVars, turnVars, countVars, ghostVars

\* Requests stay sound as long as no offer that was used is worked with again.
LEMMA RequestsStaySound ==
  ASSUME TypeOK, RequestsSound, request' = request, shown' = shown, cut \subseteq cut',
         proposals' \in {proposals, proposals + 1},
         {memory'.offer.id, turn'.offer.id, turn'.proposed}
             \subseteq {memory.offer.id, turn.offer.id, turn.proposed, None, proposals + 1}
  PROVE  RequestsSound'
<1> SUFFICES ASSUME NEW r \in Requests, request[r] # Unsent
             PROVE  /\ request[r].offer \in 1..proposals' /\ request[r].msg \in Messages
                    /\ shown[request[r].offer] < request[r].msg \/ request[r].offer \in cut'
                    /\ request[r].offer \notin {memory'.offer.id, turn'.offer.id, turn'.proposed}
  BY DEF RequestsSound
<1>1. /\ request[r].offer \in 1..proposals /\ request[r].msg \in Messages
      /\ shown[request[r].offer] < request[r].msg \/ request[r].offer \in cut
      /\ request[r].offer \notin {memory.offer.id, turn.offer.id, turn.proposed}
  BY DEF RequestsSound
<1>2. request[r].offer # None /\ request[r].offer # proposals + 1 /\ request[r].offer \in 1..proposals'
  BY <1>1, FieldsTyped DEF None
<1> QED
  BY <1>1, <1>2

\* Only the request that is open in the conversation is told.
LEMMA TellsThePending ==
  TellResult => \/ request' = request
                \/ IsPending(Current) /\ request' = [request EXCEPT ![Current].told = @ + 1]
<1>1. CASE memory.request = Current
  BY <1>1 DEF TellResult, IsPending
<1>2. CASE memory.request # Current
  BY <1>2 DEF TellResult, IsPending
<1> QED
  BY <1>1, <1>2

\* A request is made for a confirmed offer, and nothing works with that offer again.
LEMMA RequestsSoundStep == HInv /\ TypeOK' /\ [Next]_vars => RequestsSound'
<1> SUFFICES ASSUME HInv, TypeOK', [Next]_vars PROVE RequestsSound'
  OBVIOUS
<1> USE DEF HInv, TurnSound, OffersKnown, RequestsSound
<1>1. CASE Load
  <2>1. /\ request' = request /\ shown' = shown /\ cut' = cut /\ proposals' = proposals /\ memory' = memory
    BY <1>1 DEF Load
  <2>2. turn'.offer.id \in {None, memory.offer.id} /\ turn'.proposed = None
    <3>1. CASE turn' = NoTurn
      BY <3>1, NoTurnFields
    <3>2. CASE turn' = [NoTurn EXCEPT !.at = "thinking", !.upTo = said, !.offer = memory.offer,
                                     !.fresh = memory.request # None /\ memory.fresh]
      BY <3>2 DEF NoTurn
    <3> QED
      BY <1>1, <3>1, <3>2 DEF Load, Leave
  <2> QED
    BY <2>1, <2>2, RequestsStaySound
<1>2. CASE Propose
  <2>1. /\ request' = request /\ shown' = shown /\ cut' = cut \cup Proposed
        /\ proposals' = proposals + 1 /\ memory' = memory
        /\ turn' = [turn EXCEPT !.offer = [id |-> proposals + 1, after |-> said],
                                !.proposed = proposals + 1]
    BY <1>2 DEF Propose
  <2>2. turn'.proposed = proposals + 1 /\ turn'.offer.id = proposals + 1
    BY <2>1 DEF TypeOK, WorkOK
  <2> QED
    BY <2>1, <2>2, RequestsStaySound
<1>3. CASE Withdraw
  BY <1>3, FieldsTyped DEF Withdraw, Thinking, Heads, Current, MayRequest, Known,
     talkVars, routerVars, ghostVars
<1>4. CASE \E r \in Requests : Request(r)
  <2> SUFFICES ASSUME NEW r \in Requests, Request(r) PROVE RequestsSound'
    BY <1>4
  <2>1. /\ shown' = shown /\ cut' = cut /\ proposals' = proposals /\ Thinking /\ MayRequest
        /\ turn' = [turn EXCEPT !.requested = r, !.offer = NoOffer]
    BY DEF Request, ghostVars
  <2>2. turn'.proposed = turn.proposed /\ turn'.offer = NoOffer
    BY <2>1 DEF TypeOK, WorkOK
  <2>3. CASE request' = request /\ memory' = memory
    BY <2>1, <2>2, <2>3, NoTurnFields, RequestsStaySound
  <2>4. CASE /\ request[r] = Unsent
             /\ request' = [request EXCEPT ![r] = [Unsent EXCEPT !.at = "sent", !.offer = turn.offer.id,
                                                                !.msg = Current]]
             /\ memory' = [offer |-> NoOffer, request |-> r, fresh |-> TRUE]
    <3> DEFINE o == turn.offer.id
    <3>1. /\ turn.at = "thinking" /\ Head(queue).kind = "turn" /\ Current = turn.upTo
          /\ turn.offer # NoOffer /\ turn.offer.after < Current /\ queue # <<>>
      BY <2>1 DEF Thinking, MayRequest, Heads, Current
    <3>2. turn.proposed = None /\ Known(turn.offer, turn.upTo - 1)
      BY <3>1, FieldsTyped
    <3>3. o \in 1..proposals /\ o # turn.proposed /\ o \in Proposals
      BY <3>1, <3>2, FieldsTyped DEF Proposals, None
    <3>4. shown[o] < Current \/ o \in cut
      BY <3>1, <3>2, <3>3, FieldsTyped DEF Known
    <3>5. Current \in Messages
      BY <3>1, QueueTyped DEF Heads, TypeOK
    <3>6. request'[r].offer = o /\ request'[r].msg = Current /\ \A q \in Requests \ {r} : request'[q] = request[q]
      BY <2>4 DEF TypeOK, RequestOK, Unsent
    <3>7. \A q \in Requests : request[q] # Unsent => request[q].offer # o
      OBVIOUS
    <3>8. memory'.offer.id = 0 /\ turn'.offer.id = 0
      BY <2>2, <2>4, NoTurnFields
    <3>9. ASSUME NEW q \in Requests, request'[q] # Unsent
          PROVE  /\ request'[q].offer \in 1..proposals' /\ request'[q].msg \in Messages
                 /\ shown'[request'[q].offer] < request'[q].msg \/ request'[q].offer \in cut'
                 /\ request'[q].offer \notin {memory'.offer.id, turn'.offer.id, turn'.proposed}
      <4>1. CASE q = r
        BY <2>1, <2>2, <3>3, <3>4, <3>5, <3>6, <3>8, <4>1, FieldsTyped
      <4>2. CASE q # r
        BY <2>1, <2>2, <3>6, <3>8, <3>9, <4>2, FieldsTyped
      <4> QED
        BY <4>1, <4>2
    <3>10. ASSUME NEW p \in Requests, NEW q \in Requests, request'[p] # Unsent,
                  request'[p].offer = request'[q].offer
           PROVE  p = q
      <4>1. CASE p = r /\ q # r
        <5>1. request[q].offer = o /\ o # 0
          BY <3>3, <3>6, <3>10, <4>1
        <5>2. request[q] # Unsent
          BY <5>1 DEF Unsent, None
        <5> QED
          BY <3>7, <5>1, <5>2
      <4>2. CASE p # r /\ q = r
        BY <3>6, <3>7, <3>10, <4>2
      <4>3. CASE p # r /\ q # r
        BY <3>6, <3>10, <4>3
      <4> QED
        BY <4>1, <4>2, <4>3
    <3> QED
      BY <3>9, <3>10
  <2> QED
    BY <2>3, <2>4 DEF Request
<1>5. CASE SaveMemory
  BY <1>5 DEF SaveMemory, Thinking, Heads, Known, talkVars, routerVars,
     ghostVars
<1>6. CASE Reply
  BY <1>6, FieldsTyped, NoTurnFields DEF Reply, Heads, Current, Leave, Talking, Proposed, Known
<1>7. CASE TurnHandsOff
  BY <1>7, FieldsTyped, NoTurnFields DEF TurnHandsOff, HandOff, Changes, WaitFrom, Heads, Current,
     Leave, Proposed, Known
<1>8. CASE TurnFails
  <2>1. /\ request' = request /\ shown' = shown /\ cut' = cut \cup Proposed
        /\ proposals' = proposals /\ memory' = memory /\ turn' = NoTurn
    BY <1>8 DEF TurnFails
  <2> QED
    BY <2>1, NoTurnFields, RequestsStaySound
<1>9. CASE \E r \in Requests : Decide(r)
  <2> SUFFICES ASSUME NEW r \in Requests, Decide(r) PROVE RequestsSound'
    BY <1>9
  <2>1. UNCHANGED <<shown, cut, proposals, memory, turn>>
    BY DEF Decide, turnVars, ghostVars
  <2>2. PICK result \in Results : request' = [request EXCEPT ![r].at = result]
    BY DEF Decide
  <2>3. request[r].at = "sent"
    BY DEF Decide
  <2>4. ASSUME NEW q \in Requests
        PROVE  /\ request'[q].offer = request[q].offer /\ request'[q].msg = request[q].msg
               /\ request'[q] # Unsent => request[q] # Unsent
    <3>1. q # r => request'[q] = request[q]
      BY <2>2 DEF TypeOK, RequestOK
    <3>2. request'[q].offer = request[q].offer /\ request'[q].msg = request[q].msg
      BY <2>2 DEF TypeOK, RequestOK
    <3>3. request[r] # Unsent
      BY <2>3 DEF Unsent
    <3> QED
      BY <3>1, <3>2, <3>3
  <2> QED
    BY <2>1, <2>4
<1>10. CASE TellResult
  <2>1. /\ UNCHANGED <<shown, cut, proposals>> /\ turn = NoTurn
        /\ turn' \in {NoTurn, [NoTurn EXCEPT !.at = "handing"]}
        /\ memory' \in {memory, [memory EXCEPT !.request = None, !.fresh = FALSE]}
    BY <1>10 DEF TellResult, ghostVars, Leave
  <2>2. /\ turn'.offer = turn.offer /\ turn'.proposed = turn.proposed /\ memory'.offer = memory.offer
    BY <2>1 DEF NoTurn, TypeOK, WorkOK
  <2>3. Current \in Requests /\ request' \in {request, [request EXCEPT ![Current].told = @ + 1]}
    BY <1>10, QueueTyped DEF TellResult, Heads, TypeOK
  <2>4. ASSUME NEW q \in Requests
        PROVE  /\ request'[q].offer = request[q].offer /\ request'[q].msg = request[q].msg
               /\ request'[q] # Unsent => request[q] # Unsent
    <3>1. \/ request' = request
          \/ IsPending(Current) /\ request' = [request EXCEPT ![Current].told = @ + 1]
      BY <1>10, TellsThePending
    <3>2. IsPending(Current) => request[Current] # Unsent
      BY <2>3 DEF IsPending, PendingUntold
    <3>3. q # Current => request'[q] = request[q]
      BY <2>3 DEF TypeOK, RequestOK
    <3>4. request'[q].offer = request[q].offer /\ request'[q].msg = request[q].msg
      <4>1. CASE request' = request
        BY <4>1
      <4>2. CASE request' = [request EXCEPT ![Current].told = @ + 1]
        <5>1. CASE q = Current
          <6>1. request'[q] = [request[q] EXCEPT !.told = @ + 1]
            BY <4>2, <5>1 DEF TypeOK, RequestOK
          <6> QED
            BY <6>1 DEF TypeOK, RequestOK
        <5>2. CASE q # Current
          BY <3>3, <5>2
        <5> QED
          BY <5>1, <5>2
      <4> QED
        BY <2>3, <4>1, <4>2
    <3> QED
      BY <3>1, <3>2, <3>3, <3>4
  <2> QED
    BY <2>1, <2>2, <2>4
<1>11. CASE RefusalHandsOff
  BY <1>11, FieldsTyped, NoTurnFields DEF RefusalHandsOff, HandOff, Changes, WaitFrom, Heads, Leave,
     Known, routerVars, ghostVars
<1>12. CASE ResultFails
  BY <1>12, FieldsTyped, NoTurnFields DEF ResultFails, Trouble, Heads, Leave, Known, talkVars,
     routerVars, ghostVars
<1>13. CASE RequestGrowsStale
  BY <1>13 DEF RequestGrowsStale, Known, talkVars, routerVars, turnVars,
     ghostVars
<1>14. CASE Crash
  <2>1. /\ request' = request /\ shown' = shown /\ cut' = cut \cup Proposed
        /\ proposals' = proposals /\ memory' = memory /\ turn' = NoTurn
    BY <1>14 DEF Crash
  <2> QED
    BY <2>1, NoTurnFields, RequestsStaySound
<1>15. CASE UNCHANGED <<request, memory, turn, shown, cut, proposals>>
  BY <1>15 DEF Known
<1> QED
  BY <1>1, <1>2, <1>3, <1>4, <1>5, <1>6, <1>7, <1>8, <1>9, <1>10, <1>11, <1>12, <1>13, <1>14, <1>15
     DEF Next, GuestStep, RouterStep, TurnStep, ResultStep, JobStep, StaffStep, vars, Receive,
     Route, RecordIntent, RouterHandsOff, Enqueue, AgentFallsBack, HearResult, FindStalled,
     HandOffStalled, Write, OpenForm, Submit, WaitsLong, talkVars, routerVars, turnVars, countVars,
     ghostVars

\* A request that is open in the conversation stays untold.
LEMMA PendingUntoldStep == HInv /\ TypeOK' /\ [Next]_vars => PendingUntold'
<1> SUFFICES ASSUME HInv, TypeOK', [Next]_vars PROVE PendingUntold'
  OBVIOUS
<1> USE DEF HInv, PendingUntold
<1>1. CASE \E r \in Requests : Request(r)
  <2> SUFFICES ASSUME NEW r \in Requests, Request(r) PROVE PendingUntold'
    BY <1>1
  <2>1. CASE memory' = memory /\ request' = request
    BY <2>1
  <2>2. CASE /\ request' = [request EXCEPT ![r] = [Unsent EXCEPT !.at = "sent", !.offer = turn.offer.id,
                                                                !.msg = Current]]
             /\ memory' = [offer |-> NoOffer, request |-> r, fresh |-> TRUE]
    <3>1. request'[r].told = 0 /\ request'[r].at = "sent" /\ memory'.request = r
      BY <2>2 DEF TypeOK, RequestOK, Unsent
    <3>2. request'[r] # Unsent
      BY <3>1 DEF Unsent
    <3> QED
      BY <3>1, <3>2
  <2> QED
    BY <2>1, <2>2 DEF Request
<1>2. CASE SaveMemory
  BY <1>2 DEF SaveMemory, Thinking, Heads, talkVars, routerVars,
     ghostVars
<1>3. CASE \E r \in Requests : Decide(r)
  <2> SUFFICES ASSUME NEW r \in Requests, Decide(r) PROVE PendingUntold'
    BY <1>3
  <2>1. memory' = memory
    BY DEF Decide
  <2>2. PICK result \in Results : request' = [request EXCEPT ![r].at = result]
    BY DEF Decide
  <2>3. request'[r].told = request[r].told /\ request'[r].at = result
    BY <2>2 DEF TypeOK, RequestOK
  <2>4. request'[r] # Unsent
    BY <2>3 DEF Unsent, Results
  <2>5. \A q \in Requests : q # r => request'[q] = request[q]
    BY <2>2 DEF TypeOK, RequestOK
  <2> QED
    BY <2>1, <2>3, <2>4, <2>5
<1>4. CASE TellResult
  <2>1. CASE memory.request = Current
    <3>1. memory' = [memory EXCEPT !.request = None, !.fresh = FALSE]
      BY <1>4, <2>1 DEF TellResult, IsPending
    <3>2. memory'.request = 0
      BY <3>1 DEF TypeOK, WorkOK, None
    <3> QED
      BY <3>2 DEF Requests
  <2>2. CASE memory.request # Current
    BY <1>4, <2>2 DEF TellResult, IsPending
  <2> QED
    BY <2>1, <2>2
<1>5. CASE RequestGrowsStale
  BY <1>5 DEF RequestGrowsStale, talkVars, routerVars, turnVars,
     ghostVars
<1>6. CASE UNCHANGED <<request, memory>>
  BY <1>6 DEF Known
<1> QED
  BY <1>1, <1>2, <1>3, <1>4, <1>5, <1>6 DEF Next, GuestStep, RouterStep, TurnStep, ResultStep,
     JobStep, StaffStep, vars, Receive, Route, RecordIntent, RouterHandsOff, Enqueue,
     AgentFallsBack, Load, Propose, Withdraw, Reply, TurnHandsOff, TurnFails, HearResult,
     RefusalHandsOff, ResultFails, FindStalled, HandOffStalled, Write, OpenForm, Submit, WaitsLong,
     Crash, talkVars, routerVars, turnVars, countVars, ghostVars

\* What staff wrote unheard keeps the AI out until they give back.
LEMMA StaffHoldStep == HInv /\ TypeOK' /\ [Next]_vars => (StaffHold /\ StaffAreNotSpokenOver)'
<1> SUFFICES ASSUME HInv, TypeOK', [Next]_vars PROVE (StaffHold /\ StaffAreNotSpokenOver)'
  OBVIOUS
<1> USE DEF HInv, StaffHold, StaffAreNotSpokenOver
<1>1. CASE Receive
  BY <1>1 DEF Receive, Changes, WaitFrom, turnVars, ghostVars
<1>2. CASE \E m \in Messages : RouterHandsOff(m)
  BY <1>2 DEF RouterHandsOff, HandOff, Changes, WaitFrom, turnVars,
     ghostVars
<1>3. CASE \E m \in Messages : AgentFallsBack(m)
  BY <1>3 DEF AgentFallsBack, HandOff, Changes, WaitFrom, turnVars,
     ghostVars
<1>4. CASE Load
  BY <1>4 DEF Load, Heads, Current, Leave, Talking, Unanswered, talkVars
<1>5. CASE Reply
  BY <1>5 DEF Reply, Heads, Current, Leave, Talking, Proposed
<1>6. CASE TurnHandsOff
  BY <1>6 DEF TurnHandsOff, HandOff, Changes, WaitFrom, Heads, Current,
     Leave, Proposed
<1>7. CASE RefusalHandsOff
  BY <1>7 DEF RefusalHandsOff, HandOff, Changes, WaitFrom, Heads, Leave,
     routerVars, ghostVars
<1>8. CASE HandOffStalled
  BY <1>8 DEF HandOffStalled, HandOff, Changes, WaitFrom, routerVars,
     turnVars, ghostVars
<1>9. CASE Write
  BY <1>9 DEF Write, Changes, Acts, routerVars, turnVars
<1>10. CASE Submit
  <2>1. spokeOver' = spokeOver
    BY <1>10 DEF Submit
  <2>2. CASE conv' = conv /\ unheard' = unheard
    BY <2>1, <2>2
  <2>3. CASE \E mode \in {"AI", "MANUAL"}, open \in BOOLEAN :
                 conv'.mode = mode /\ unheard' = (unheard /\ ~(conv.mode = "MANUAL" /\ mode = "AI"))
    BY <2>1, <2>3
  <2> QED
    BY <1>10, <2>2, <2>3 DEF Submit
<1>11. CASE WaitsLong
  BY <1>11 DEF WaitsLong, routerVars, turnVars, ghostVars
<1>12. CASE UNCHANGED <<conv, unheard, spokeOver>>
  BY <1>12 DEF Known
<1> QED
  BY <1>1, <1>2, <1>3, <1>4, <1>5, <1>6, <1>7, <1>8, <1>9, <1>10, <1>11, <1>12 DEF Next, GuestStep,
     RouterStep, TurnStep, ResultStep, JobStep, StaffStep, vars, Route, RecordIntent, Enqueue,
     Propose, Withdraw, Request, SaveMemory, TurnFails, Decide, HearResult, TellResult, ResultFails,
     FindStalled, OpenForm, RequestGrowsStale, Crash, talkVars, routerVars, turnVars, countVars,
     ghostVars

\* No step leaves the types.
LEMMA TypeStep == TypeOK /\ [Next]_vars => TypeOK'
BY TalkStep, WorkStep, RequestStep, RestStep, GhostStep DEF TypeOK

\* The invariant holds at first.
LEMMA InvInit == Init => HInv
<1> SUFFICES ASSUME Init PROVE HInv
  OBVIOUS
<1> USE HandoffAssumption DEF HandoffAssumption, Init, None
<1>1. TypeOK
  <2>1. TalkOK
    <3>1. conv \in [mode : {"AI", "MANUAL"}, open : BOOLEAN, waiting : {"no", "new", "long"}]
      OBVIOUS
    <3>2. said = 0 /\ replied = 0 /\ 0 \in 0..MaxMessages
      OBVIOUS
    <3> QED
      BY <3>1, <3>2 DEF TalkOK
  <2>2. WorkOK
    BY NoTurnTyped DEF WorkOK, TurnRecords
  <2>3. RequestOK
    BY DEF RequestOK, Unsent
  <2>4. RestOK
    <3>1. at \in [Messages -> {"none", "sent", "routing", "asking", "intent", "turn", "failed", "done"}]
      OBVIOUS
    <3>2. 0 \in 0..MaxStaff /\ 0 \in 0..MaxTroubles
      OBVIOUS
    <3> QED
      BY <3>1, <3>2 DEF RestOK
  <2>5. GhostOK
    <3>1. Never \in 0..Never
      BY DEF Never
    <3>2. shown \in [Proposals -> 0..Never]
      BY <3>1
    <3> QED
      BY <3>2 DEF GhostOK
  <2> QED
    BY <2>1, <2>2, <2>3, <2>4, <2>5 DEF TypeOK
<1>2. TurnSound /\ OffersKnown
  BY NoTurnFields DEF TurnSound, OffersKnown
<1>3. RequestsSound /\ PendingUntold /\ StaffHold /\ StaffAreNotSpokenOver
  BY DEF RequestsSound, PendingUntold, StaffHold, StaffAreNotSpokenOver, Requests
<1> QED
  BY <1>1, <1>2, <1>3 DEF HInv

\* Every step keeps the invariant.
LEMMA InvStep == HInv /\ [Next]_vars => HInv'
<1>1. HInv /\ [Next]_vars => TypeOK'
  BY TypeStep DEF HInv
<1> QED
  BY <1>1, TurnSoundStep, OffersKnownStep, RequestsSoundStep, PendingUntoldStep, StaffHoldStep DEF HInv

\* What the theorems below rest on.
THEOREM HandoffInvariant == Spec => []HInv
<1> QED
  BY InvInit, InvStep, PTL DEF Spec

\* Every field of a conversation, its turn and its requests stays in its type.
THEOREM ConversationTyping == Spec => []TypeOK
<1>1. HInv => TypeOK
  BY DEF HInv
<1> QED
  BY <1>1, HandoffInvariant, PTL

\* However turns, staff and failures interleave, a reservation is requested for
\* a proposal the guest saw before saying yes, and once.
THEOREM RequestsWereConfirmed == Spec => []RequestsAreConfirmed
<1>1. HInv => RequestsAreConfirmed
  BY DEF HInv, RequestsSound, RequestsAreConfirmed
<1> QED
  BY <1>1, HandoffInvariant, PTL

\* The AI never answers over what staff wrote after it had read.
THEOREM StaffHaveTheWord == Spec => []StaffAreNotSpokenOver
<1>1. HInv => StaffAreNotSpokenOver
  BY DEF HInv
<1> QED
  BY <1>1, HandoffInvariant, PTL

\* Only the result of the open request tells, between turns.
LEMMA ToldStep ==
  HInv /\ [Next]_vars =>
      [\A r \in Requests : request'[r].told > request[r].told =>
          request[r].told = 0 /\ turn.requested # r]_vars
<1> SUFFICES ASSUME HInv, [Next]_vars, NEW r \in Requests, request'[r].told > request[r].told
             PROVE  request[r].told = 0 /\ turn.requested # r
  OBVIOUS
<1> USE DEF HInv
<1>1. request[r].told \in Nat
  BY FieldsTyped
<1>2. CASE TellResult
  <2>1. Current \in Requests /\ turn = NoTurn
    BY <1>2, QueueTyped DEF TellResult, Heads, TypeOK, TurnSound
  <2>2. IsPending(Current) /\ request' = [request EXCEPT ![Current].told = @ + 1]
    BY <1>1, <1>2 DEF TellResult
  <2>3. r = Current
    BY <1>1, <2>1, <2>2 DEF TypeOK, RequestOK
  <2>4. turn.requested # r
    BY <2>1, NoTurnFields DEF Requests, None
  <2> QED
    BY <2>2, <2>3, <2>4 DEF IsPending, PendingUntold
<1>3. CASE \E q \in Requests : Request(q)
  <2> SUFFICES ASSUME NEW q \in Requests, Request(q) PROVE FALSE
    BY <1>3
  <2>1. CASE request' = request
    BY <1>1, <2>1
  <2>2. CASE /\ request[q] = Unsent
             /\ request' = [request EXCEPT ![q] = [Unsent EXCEPT !.at = "sent", !.offer = turn.offer.id,
                                                                !.msg = Current]]
    <3>1. request'[r].told = request[r].told
      BY <2>2 DEF TypeOK, RequestOK, Unsent
    <3> QED
      BY <1>1, <3>1
  <2> QED
    BY <2>1, <2>2 DEF Request
<1>4. CASE \E q \in Requests : Decide(q)
  <2> SUFFICES ASSUME NEW q \in Requests, Decide(q) PROVE FALSE
    BY <1>4
  <2>1. PICK result \in Results : request' = [request EXCEPT ![q].at = result]
    BY DEF Decide
  <2>2. request'[r].told = request[r].told
    BY <2>1 DEF TypeOK, RequestOK
  <2> QED
    BY <1>1, <2>2
<1>5. CASE request' = request
  BY <1>1, <1>5
<1> QED
  BY <1>2, <1>3, <1>4, <1>5 DEF Next, GuestStep, RouterStep, TurnStep, ResultStep, JobStep,
     StaffStep, vars, Receive, Route, RecordIntent, RouterHandsOff, Enqueue, AgentFallsBack, Load,
     Propose, Withdraw, SaveMemory, Reply, TurnHandsOff, TurnFails, HearResult, RefusalHandsOff,
     ResultFails, FindStalled, HandOffStalled, Write, OpenForm, Submit, WaitsLong,
     RequestGrowsStale, Crash, talkVars, routerVars, turnVars, countVars, ghostVars

\* However often the result of a request is delivered, the guest is told once,
\* and not while the turn that sent the request is still writing.
THEOREM ToldOnce == Spec => ToldOnceAfterTheTurn
<1> QED
  BY HandoffInvariant, ToldStep, PTL DEF Spec, ToldOnceAfterTheTurn
=============================================================================
