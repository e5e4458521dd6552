---------------------------- MODULE LiveScreens ----------------------------
(***************************************************************************)
(* Open screens of one browser that follow one live channel.               *)
(*                                                                         *)
(* The server does not send data, it says "changed": the event of a commit *)
(* is announced to the sockets in the channel's room, and a screen that    *)
(* hears of it asks for its data again over HTTP.  The socket joins the    *)
(* room only when the server knows the connection's hotel and has received *)
(* the subscription; what is announced before, or while the connection is  *)
(* broken, is not repeated.  A screen that is not live polls instead, and  *)
(* one that was connected before asks again when the server is ready.      *)
(*                                                                         *)
(* Left out: which of several queries a message concerns, the spread of    *)
(* the waits, other hotels and channels, the bell, and the cap on the      *)
(* channels of one subscription.  The query library is modelled as the     *)
(* screens use it: a fetch under way is shared by all who ask, an          *)
(* invalidation starts it over, but not before the first answer.           *)
(***************************************************************************)
EXTENDS Integers, Sequences, FiniteSets

CONSTANTS
    Screens,
    MaxChanges, MaxTroubles, MaxRequests    \* bounds

ASSUME ScreensAssumption ==
    /\ IsFiniteSet(Screens)
    /\ {MaxChanges, MaxTroubles, MaxRequests} \subseteq Nat

VARIABLES
    committed,  \* the version of the hotel's data, one more with every commit
    unsaid,     \* versions whose event has not been announced
    said,       \* the newest announced version: no older one is served
    server,     \* the server's side of the connection
    inRoom,     \* the socket is in the channel's room
    requests,   \* subscriptions on their way to the server
    wire,       \* messages on their way to the browser
    connected,  \* socket.connected in the browser
    screen,     \* the hook's state and the query's entry of every screen
    covered,    \* screens whose last fetch began while the socket was in the room
    missed,     \* screens whose last refresh failed or was swallowed
    troubles

dataVars == <<committed, unsaid, said>>
linkVars == <<server, inRoom, requests, wire, connected>>
liveVars == <<dataVars, linkVars, screen, covered, missed, troubles>>

NoData == 0
FirstVersion == 1
Changed == FirstVersion + 1..FirstVersion + MaxChanges

Idle == [at |-> "idle", v |-> NoData]
Asked == [at |-> "asked", v |-> NoData]
Answered(v) == [at |-> "answered", v |-> v]

\* live, once and timer are the hook's: isLive, connectedOnce and a refresh that
\* waits for its window.  data, stale and fetch are the query's entry, which
\* outlives the screen.
Closed == [open |-> FALSE, live |-> FALSE, once |-> FALSE, timer |-> FALSE,
           data |-> NoData, stale |-> FALSE, fetch |-> Idle]

Open == {s \in Screens : screen[s].open}

Init ==
    /\ committed = FirstVersion /\ unsaid = {} /\ said = FirstVersion
    /\ server = "none" /\ inRoom = FALSE /\ requests = <<>> /\ wire = <<>>
    /\ connected = FALSE
    /\ screen = [s \in Screens |-> Closed]
    /\ covered = {} /\ missed = {}
    /\ troubles = 0

Trouble == troubles < MaxTroubles /\ troubles' = troubles + 1

-----------------------------------------------------------------------------
(* The hotel *)

Change ==
    /\ committed + 1 \in Changed
    /\ committed' = committed + 1
    /\ unsaid' = unsaid \cup {committed'}
    /\ UNCHANGED <<said, linkVars, screen, covered, missed, troubles>>

\* The bridge passes the event on to the room; the events of two commits may
\* come in either order.
Broadcast(v) ==
    /\ v \in unsaid
    /\ unsaid' = unsaid \ {v}
    /\ said' = IF v > said THEN v ELSE said
    /\ wire' = IF inRoom THEN Append(wire, "changed") ELSE wire
    /\ UNCHANGED <<committed, server, inRoom, requests, connected, screen, covered, missed, troubles>>

-----------------------------------------------------------------------------
(* The server's side of the connection *)

Accept ==
    /\ server = "none" /\ ~connected
    /\ server' = "joining"
    /\ wire' = <<"connect">>
    /\ UNCHANGED <<dataVars, inRoom, requests, connected, screen, covered, missed, troubles>>

JoinContext ==
    /\ server = "joining"
    /\ \/ /\ server' = "joined"
          /\ wire' = Append(wire, "ready")
          /\ UNCHANGED troubles
       \/ /\ Trouble
          /\ server' = "failed"
          /\ wire' = Append(wire, "readyNowhere")
    /\ UNCHANGED <<dataVars, inRoom, requests, connected, screen, covered, missed>>

\* Requests wait for the context; without one they do nothing.
HandleRequest ==
    /\ server \in {"joined", "failed"}
    /\ requests # <<>>
    /\ requests' = Tail(requests)
    /\ inRoom' = IF server = "joined" THEN Head(requests) = "subscribe" ELSE inRoom
    /\ covered' = IF inRoom' THEN covered ELSE {}
    /\ UNCHANGED <<dataVars, server, wire, connected, screen, missed, troubles>>

\* The connection breaks: what is on its way is lost, and the browser does not
\* know yet.
Break ==
    /\ server # "none"
    /\ Trouble
    /\ server' = "none" /\ inRoom' = FALSE /\ requests' = <<>> /\ wire' = <<>>
    /\ covered' = {}
    /\ UNCHANGED <<dataVars, connected, screen, missed>>

-----------------------------------------------------------------------------
(* Queries *)

Fetching(entry) == [entry EXCEPT !.fetch = Asked]
Covered(started) == IF inRoom THEN covered \cup started ELSE covered \ started

\* invalidateQueries: a fetch under way starts over, unless it is the first.
Swallows(s) == screen[s].fetch # Idle /\ screen[s].data = NoData

\* The request reaches the server, whose caches hold nothing older than what
\* was announced (ReadCaches).
Read(s) ==
    /\ screen[s].fetch = Asked
    /\ \E v \in said..committed : screen' = [screen EXCEPT ![s].fetch = Answered(v)]
    /\ UNCHANGED <<dataVars, linkVars, covered, missed, troubles>>

Receive(s) ==
    /\ screen[s].fetch.at = "answered"
    /\ screen' = [screen EXCEPT ![s].data = screen[s].fetch.v, ![s].stale = FALSE,
                                ![s].fetch = Idle]
    /\ UNCHANGED <<dataVars, linkVars, covered, missed, troubles>>

\* The request and its one repetition fail.
FetchFails(s) ==
    /\ screen[s].fetch # Idle
    /\ Trouble
    /\ screen' = [screen EXCEPT ![s].stale = TRUE, ![s].fetch = Idle]
    /\ covered' = covered \ {s}
    /\ missed' = missed \cup {s}
    /\ UNCHANGED <<dataVars, linkVars>>

\* refetchInterval: runs while the screen is not live.
Poll(s) ==
    /\ screen[s].open /\ ~screen[s].live
    /\ screen[s].fetch = Idle
    /\ screen' = [screen EXCEPT ![s] = Fetching(@)]
    /\ covered' = Covered({s})
    /\ missed' = missed \ {s}
    /\ UNCHANGED <<dataVars, linkVars, troubles>>

-----------------------------------------------------------------------------
(* The hook in the browser *)

Send(request) ==
    IF connected /\ server # "none"
    THEN /\ Len(requests) < MaxRequests
         /\ requests' = Append(requests, request)
    ELSE UNCHANGED requests

\* The first screen of the channel subscribes.  An entry that is younger than
\* staleTime is shown as it is; any other is fetched, unless it already is.
Mount(s) ==
    /\ ~screen[s].open
    /\ IF Open = {} THEN Send("subscribe") ELSE UNCHANGED requests
    /\ LET opened == [screen[s] EXCEPT !.open = TRUE, !.live = connected, !.once = connected]
       IN  \/ /\ opened.fetch = Idle
              /\ screen' = [screen EXCEPT ![s] = Fetching(opened)]
              /\ covered' = Covered({s})
              /\ missed' = missed \ {s}
           \/ /\ opened.fetch # Idle \/ (opened.data # NoData /\ ~opened.stale)
              /\ screen' = [screen EXCEPT ![s] = opened]
              /\ UNCHANGED <<covered, missed>>
    /\ UNCHANGED <<dataVars, server, inRoom, wire, connected, troubles>>

\* The last screen unsubscribes; a fetch goes on, a waiting refresh does not.
Unmount(s) ==
    /\ screen[s].open
    /\ IF Open = {s} THEN Send("unsubscribe") ELSE UNCHANGED requests
    /\ screen' = [screen EXCEPT ![s].open = FALSE, ![s].live = FALSE, ![s].once = FALSE,
                                ![s].timer = FALSE]
    /\ covered' = covered \ {s}
    /\ UNCHANGED <<dataVars, server, inRoom, wire, connected, missed, troubles>>

\* The entry of a closed screen is dropped after a while.
Collect(s) ==
    /\ ~screen[s].open /\ screen[s].fetch = Idle /\ screen[s].data # NoData
    /\ screen' = [screen EXCEPT ![s] = Closed]
    /\ UNCHANGED <<dataVars, linkVars, covered, missed, troubles>>

Hears(message) ==
    /\ wire # <<>> /\ Head(wire) = message
    /\ wire' = Tail(wire)

EachOpen(entries) ==
    screen' = [s \in Screens |-> IF s \in Open THEN entries[s] ELSE screen[s]]

HandleConnect ==
    /\ Hears("connect")
    /\ connected' = TRUE
    /\ requests' = IF Open = {} THEN requests ELSE Append(requests, "subscribe")
    /\ EachOpen([s \in Screens |-> [screen[s] EXCEPT !.live = TRUE]])
    /\ UNCHANGED <<dataVars, server, inRoom, covered, missed, troubles>>

\* Mutant: a screen that is connected again takes what it shows for current.
ReadyWithoutRefresh ==
    /\ \/ /\ Hears("ready")
          /\ EachOpen([s \in Screens |-> [screen[s] EXCEPT !.once = TRUE]])
       \/ /\ Hears("readyNowhere")
          /\ EachOpen([s \in Screens |-> [screen[s] EXCEPT !.live = FALSE, !.once = TRUE]])
    /\ UNCHANGED <<dataVars, server, inRoom, requests, connected, covered, missed, troubles>>

\* A refresh that waits is not put off by another message.
HandleReady ==
    /\ \/ /\ Hears("ready")
          /\ EachOpen([s \in Screens |-> [screen[s] EXCEPT !.timer = @ \/ screen[s].once, !.once = TRUE]])
       \/ /\ Hears("readyNowhere")
          /\ EachOpen([s \in Screens |-> [screen[s] EXCEPT !.live = FALSE, !.once = TRUE]])
    /\ UNCHANGED <<dataVars, server, inRoom, requests, connected, covered, missed, troubles>>

HandleChange ==
    /\ Hears("changed")
    /\ EachOpen([s \in Screens |-> [screen[s] EXCEPT !.timer = TRUE]])
    /\ UNCHANGED <<dataVars, server, inRoom, requests, connected, covered, missed, troubles>>

HandleDisconnect ==
    /\ connected /\ server = "none"
    /\ connected' = FALSE
    /\ EachOpen([s \in Screens |-> [screen[s] EXCEPT !.live = FALSE]])
    /\ UNCHANGED <<dataVars, server, inRoom, requests, wire, covered, missed, troubles>>

\* Mutant: a refresh is content with a fetch that is already under way.
FlushShares(s) ==
    /\ screen[s].timer
    /\ IF screen[s].fetch # Idle
       THEN /\ screen' = [screen EXCEPT ![s].timer = FALSE]
            /\ UNCHANGED <<covered, missed>>
       ELSE /\ screen' = [screen EXCEPT ![s] = [Fetching(@) EXCEPT !.timer = FALSE]]
            /\ covered' = Covered({s})
            /\ missed' = missed \ {s}
    /\ UNCHANGED <<dataVars, linkVars, troubles>>

Flush(s) ==
    /\ screen[s].timer
    /\ IF Swallows(s)
       THEN /\ screen' = [screen EXCEPT ![s].timer = FALSE]
            /\ covered' = covered \ {s}
            /\ missed' = missed \cup {s}
       ELSE /\ screen' = [screen EXCEPT ![s] = [Fetching(@) EXCEPT !.timer = FALSE]]
            /\ covered' = Covered({s})
            /\ missed' = missed \ {s}
    /\ UNCHANGED <<dataVars, linkVars, troubles>>

-----------------------------------------------------------------------------

Server == Accept \/ JoinContext \/ HandleRequest
Browser == HandleConnect \/ HandleReady \/ HandleChange \/ HandleDisconnect
Query(s) == Read(s) \/ Receive(s)

LiveNext ==
    \/ Change
    \/ \E v \in Changed : Broadcast(v)
    \/ Server \/ Browser \/ Break
    \/ \E s \in Screens :
          \/ Query(s) \/ FetchFails(s) \/ Poll(s) \/ Flush(s)
          \/ Mount(s) \/ Unmount(s) \/ Collect(s)

LiveSpec == Init /\ [][LiveNext]_liveVars

\* Messages arrive, timers run out and requests are answered unless the
\* connection breaks; the browser connects again without end (socket.js).
Fairness ==
    /\ WF_liveVars(\E v \in Changed : Broadcast(v))
    /\ WF_liveVars(Accept) /\ WF_liveVars(JoinContext) /\ WF_liveVars(HandleRequest)
    /\ WF_liveVars(Browser)
    /\ \A s \in Screens : WF_liveVars(Query(s)) /\ WF_liveVars(Poll(s)) /\ WF_liveVars(Flush(s))

FairSpec == LiveSpec /\ Fairness

-----------------------------------------------------------------------------
(* Properties *)

Entry == [open : BOOLEAN, live : BOOLEAN, once : BOOLEAN, timer : BOOLEAN,
          data : Nat, stale : BOOLEAN,
          fetch : [at : {"idle", "asked", "answered"}, v : Nat]]

\* The state of the channel, of the socket and of every screen keeps its types.
ScreensTypeOK ==
    /\ committed \in Nat /\ unsaid \subseteq Nat /\ said \in Nat
    /\ server \in {"none", "joining", "joined", "failed"}
    /\ inRoom \in BOOLEAN /\ connected \in BOOLEAN
    /\ requests \in Seq({"subscribe", "unsubscribe"})
    /\ wire \in Seq({"connect", "ready", "readyNowhere", "changed"})
    /\ screen \in [Screens -> Entry]
    /\ covered \subseteq Screens /\ missed \subseteq Screens
    /\ troubles \in Nat

\* What was announced to a screen that asked while it was in the room is shown,
\* or on its way: in a message, behind a timer, or in a fetch that cannot bring
\* less.  An answer that was read before an announcement never ends the wait.
NothingIsMissed ==
    \A s \in covered :
        \/ \E i \in DOMAIN wire : wire[i] = "changed"
        \/ screen[s].timer
        \/ screen[s].fetch = Asked
        \/ screen[s].fetch.at = "answered" /\ screen[s].fetch.v >= said
        \/ screen[s].fetch = Idle /\ screen[s].data >= said

\* A screen that lost its connection, or is due to refresh, comes to show all
\* that had been announced by then, however often the connection breaks again,
\* unless its refresh fails or meets its first fetch (polling, the refresh at
\* ready, the batch window).
EventuallyCurrent ==
    \A s \in Screens, v \in Changed :
        (screen[s].open /\ said = v /\ (screen[s].timer \/ (screen[s].once /\ ~screen[s].live)))
            ~> (screen[s].data >= v \/ ~screen[s].open \/ s \in missed)
=============================================================================
