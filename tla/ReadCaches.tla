----------------------------- MODULE ReadCaches -----------------------------
(***************************************************************************)
(* What the live screens of a hotel are answered from: two caches in the   *)
(* memory of one process, in front of a database that others write.        *)
(*                                                                         *)
(*  - lib/cache.js keeps rarely changed settings under their row.  It is   *)
(*    emptied by the settings events; a production already under way is    *)
(*    dropped and, by a generation number, kept from storing its answer.   *)
(*  - lib/read-cache.js keeps whole answers under a key that holds the     *)
(*    hotel's live version, and lets every request with the same key wait  *)
(*    for the same computation.  lib/live-version.js raises the version on *)
(*    every event that concerns the screen.                                *)
(*                                                                         *)
(* A computation reads rows of the database at different moments and takes *)
(* the settings from the first cache, so the two caches meet.  A write is  *)
(* known to them only when its event is dispatched, some time after the    *)
(* commit; staged holds the events in between.  A row's value is the       *)
(* number of commits that changed it.                                      *)
(***************************************************************************)
EXTENDS Integers, FiniteSets

CONSTANTS
    Row,            \* what a screen shows: room, reservation and settings rows
    Setting,        \* the rows read through the settings cache
    Loader,         \* productions of the settings cache under way at once
    Computation,    \* answers of the read cache that something still refers to
    Reader,         \* requests for the screen
    NoOne,          \* no production, no computation
    MaxCommits,     \* bound on the writes of each row, by row
    MaxGeneration   \* bound on how often other keys are invalidated

ASSUME RowsAssumption == Setting \subseteq Row
ASSUME NoOneAssumption ==
    NoOne \notin Loader \union Computation \union Setting
ASSUME BoundsAssumption ==
    MaxCommits \in [Row -> Nat] /\ MaxGeneration \in Nat

Missing == -1

VARIABLES
    db,             \* the committed rows
    staged,         \* <<row, n>>: commit n of row, event not yet dispatched
    generation,     \* TtlCache.#generation
    store,          \* TtlCache.#store
    inflight,       \* TtlCache.#inflight
    loader,         \* the productions
    version,        \* the live version of the hotel
    entries,        \* createReadCache's entries: <<version, computation>>
    computation,    \* the promises the entries and the requests hold
    waits,          \* the computation a request waits for
    need            \* the commits dispatched when the request was made

settingsVars == <<generation, store, inflight, loader>>
answerVars == <<version, entries, computation, waits, need>>
vars == <<db, staged, generation, store, inflight, loader,
          version, entries, computation, waits, need>>

IdleLoader == [row |-> NoOne, generation |-> 0, value |-> Missing]

NothingRead == [got |-> [r \in Row |-> Missing],
                awaits |-> [s \in Setting |-> NoOne]]

InitCaches ==
    /\ db = [r \in Row |-> 0]
    /\ staged = {}
    /\ generation = 0
    /\ store = [s \in Setting |-> Missing]
    /\ inflight = [s \in Setting |-> NoOne]
    /\ loader = [l \in Loader |-> IdleLoader]
    /\ version = 0
    /\ entries = {}
    /\ computation = [c \in Computation |-> NothingRead]
    /\ waits = [q \in Reader |-> NoOne]
    /\ need = [q \in Reader |-> {}]

(***************************************************************************)
(* Writes and their events.                                                *)
(***************************************************************************)

\* The commits every dispatched event tells of.
Announced == (UNION {{r} \X (1 .. db[r]) : r \in Row}) \ staged

\* writeWithEvents commits a change of some rows and stages its events.
Commit(rows) ==
    /\ rows # {}
    /\ \A r \in rows : db[r] < MaxCommits[r]
    /\ db' = [r \in Row |-> IF r \in rows THEN db[r] + 1 ELSE db[r]]
    /\ staged' = staged \union {<<r, db[r] + 1>> : r \in rows}
    /\ UNCHANGED <<settingsVars, answerVars>>

\* Mutant: productions under way stay joinable.
ForgetStored ==
    /\ generation' = generation + 1
    /\ store' = [s \in Setting |-> Missing]
    /\ UNCHANGED inflight

\* invalidateHotelSettings: every setting is forgotten, the productions under
\* way are dropped.
InvalidateSettings ==
    /\ generation' = generation + 1
    /\ store' = [s \in Setting |-> Missing]
    /\ inflight' = [s \in Setting |-> NoOne]

\* dispatch runs the handlers of an event without a pause between them: the
\* settings cache drops what it has, the live version goes up.
Announce(e) ==
    /\ e \in staged
    /\ staged' = staged \ {e}
    /\ version' = version + 1
    /\ IF e[1] \in Setting
         THEN InvalidateSettings
         ELSE UNCHANGED <<generation, store, inflight>>
    /\ UNCHANGED <<db, loader, entries, computation, waits, need>>

\* Another prefix is invalidated: roles, channels, AI settings.
InvalidateOther ==
    /\ generation < MaxGeneration
    /\ generation' = generation + 1
    /\ UNCHANGED <<db, staged, store, inflight, loader, answerVars>>

(***************************************************************************)
(* The settings cache.                                                     *)
(***************************************************************************)

\* getOrSet finds neither a value nor a production: it starts one.
Load(l, s) ==
    /\ store[s] = Missing
    /\ inflight[s] = NoOne
    /\ loader[l].row = NoOne
    /\ loader' = [loader EXCEPT ![l] = [row |-> s, generation |-> generation,
                                        value |-> Missing]]
    /\ inflight' = [inflight EXCEPT ![s] = l]

\* A caller that is not a computation of this screen.
LoadForOthers(l, s) ==
    /\ Load(l, s)
    /\ UNCHANGED <<db, staged, generation, store, answerVars>>

Querying(l) == loader[l].row # NoOne /\ loader[l].value = Missing

\* The database answers the production's query.
LoaderReads(l) ==
    /\ Querying(l)
    /\ loader' = [loader EXCEPT ![l].value = db[loader[l].row]]
    /\ UNCHANGED <<db, staged, generation, store, inflight, answerVars>>

Released(l) ==
    [s \in Setting |-> IF inflight[s] = l THEN NoOne ELSE inflight[s]]

\* The answer is stored unless anything was invalidated since the production
\* began; whoever waited for the production gets it all the same.
LoaderReturns(l) ==
    LET s == loader[l].row
        v == loader[l].value
    IN  /\ s # NoOne
        /\ v # Missing
        /\ store' = IF loader[l].generation = generation
                      THEN [store EXCEPT ![s] = v]
                      ELSE store
        /\ inflight' = Released(l)
        /\ loader' = [loader EXCEPT ![l] = IdleLoader]
        /\ computation' =
             [c \in Computation |->
                IF computation[c].awaits[s] = l
                  THEN [got |-> [computation[c].got EXCEPT ![s] = v],
                        awaits |-> [computation[c].awaits EXCEPT ![s] = NoOne]]
                  ELSE computation[c]]
        /\ UNCHANGED <<db, staged, generation, version, entries, waits, need>>

\* A stored setting outlives its TTL, or makes room for another key.
ExpireSetting(s) ==
    /\ store[s] # Missing
    /\ store' = [store EXCEPT ![s] = Missing]
    /\ UNCHANGED <<db, staged, generation, inflight, loader, answerVars>>

(***************************************************************************)
(* The read cache.                                                         *)
(***************************************************************************)

Complete(c) == \A r \in Row : computation[c].got[r] # Missing

\* The entries es and the requests ws are what still refers to computations.
Keep(es, ws) ==
    /\ entries' = es
    /\ waits' = ws
    /\ need' = [q \in Reader |-> IF ws[q] = NoOne THEN {} ELSE need[q]]
    /\ computation' =
         [c \in Computation |->
            IF (\E e \in es : e[2] = c) \/ (\E q \in Reader : ws[q] = c)
              THEN computation[c]
              ELSE NothingRead]

Unused(c) ==
    /\ \A e \in entries : e[2] # c
    /\ \A q \in Reader : waits[q] # c

\* get: a request waits for the entry under the version it has just read, or
\* starts a computation and leaves it under that version at once.
Ask(q) ==
    /\ waits[q] = NoOne
    /\ \E c \in Computation :
         /\ waits' = [waits EXCEPT ![q] = c]
         /\ \/ /\ <<version, c>> \in entries
               /\ UNCHANGED <<entries, computation>>
            \/ /\ \A e \in entries : e[1] # version
               /\ Unused(c)
               /\ entries' = entries \union {<<version, c>>}
               /\ computation' = [computation EXCEPT ![c] = NothingRead]
    /\ need' = [need EXCEPT ![q] = Announced]
    /\ UNCHANGED <<db, staged, settingsVars, version>>

Pending(c, r) == ~Unused(c) /\ computation[c].got[r] = Missing

\* A computation's own query of a row is answered.
ReadRow(c, r) ==
    /\ r \notin Setting
    /\ Pending(c, r)
    /\ computation' = [computation EXCEPT ![c].got[r] = db[r]]
    /\ UNCHANGED <<db, staged, settingsVars, version, entries, waits, need>>

\* A computation asks the settings cache: it has the value, a production is
\* under way, or the computation starts one.
AskSetting(c, s) ==
    /\ Pending(c, s)
    /\ computation[c].awaits[s] = NoOne
    /\ \/ /\ store[s] # Missing
          /\ computation' = [computation EXCEPT ![c].got[s] = store[s]]
          /\ UNCHANGED <<inflight, loader>>
       \/ /\ store[s] = Missing
          /\ inflight[s] # NoOne
          /\ computation' = [computation EXCEPT ![c].awaits[s] = inflight[s]]
          /\ UNCHANGED <<inflight, loader>>
       \/ \E l \in Loader :
            /\ Load(l, s)
            /\ computation' = [computation EXCEPT ![c].awaits[s] = l]
    /\ UNCHANGED <<db, staged, generation, store, version, entries, waits, need>>

\* A request gets the answer of the computation it waits for.
Answer(q) ==
    /\ waits[q] # NoOne
    /\ Complete(waits[q])
    /\ Keep(entries, [waits EXCEPT ![q] = NoOne])
    /\ UNCHANGED <<db, staged, settingsVars, version>>

\* An entry outlives its TTL or is pruned.
Forget(e) ==
    /\ e \in entries
    /\ Keep(entries \ {e}, waits)
    /\ UNCHANGED <<db, staged, settingsVars, version>>

\* A query fails: every computation in cs is rejected, its requests get the
\* error and its own entry is deleted.
Reject(cs) ==
    Keep({e \in entries : e[2] \notin cs},
         [q \in Reader |-> IF waits[q] \in cs THEN NoOne ELSE waits[q]])

ComputationFails(c) ==
    /\ \E r \in Row \ Setting : Pending(c, r)
    /\ Reject({c})
    /\ UNCHANGED <<db, staged, settingsVars, version>>

LoaderFails(l) ==
    /\ Querying(l)
    /\ inflight' = Released(l)
    /\ loader' = [loader EXCEPT ![l] = IdleLoader]
    /\ Reject({c \in Computation :
                 computation[c].awaits[loader[l].row] = l})
    /\ UNCHANGED <<db, staged, generation, store, version>>

(***************************************************************************)
(* The specification.                                                      *)
(***************************************************************************)

WriteStep ==
    \/ \E rows \in SUBSET Row : Commit(rows)
    \/ \E e \in staged : Announce(e)
    \/ InvalidateOther

SettingsStep ==
    \/ \E l \in Loader, s \in Setting : LoadForOthers(l, s)
    \/ \E l \in Loader : LoaderReads(l)
    \/ \E l \in Loader : LoaderReturns(l)
    \/ \E l \in Loader : LoaderFails(l)
    \/ \E s \in Setting : ExpireSetting(s)

ReadStep ==
    \/ \E q \in Reader : Ask(q)
    \/ \E c \in Computation, r \in Row : ReadRow(c, r)
    \/ \E c \in Computation, s \in Setting : AskSetting(c, s)
    \/ \E q \in Reader : Answer(q)
    \/ \E e \in entries : Forget(e)
    \/ \E c \in Computation : ComputationFails(c)

Next == WriteStep \/ SettingsStep \/ ReadStep

Spec == InitCaches /\ [][Next]_vars

(***************************************************************************)
(* Properties.                                                             *)
(***************************************************************************)

\* The state of both caches keeps its types.
CachesTypeOK ==
    /\ db \in [Row -> Nat]
    /\ staged \subseteq Row \X Nat
    /\ generation \in Nat
    /\ store \in [Setting -> Nat \union {Missing}]
    /\ inflight \in [Setting -> Loader \union {NoOne}]
    /\ loader \in [Loader -> [row : Setting \union {NoOne}, generation : Nat,
                              value : Nat \union {Missing}]]
    /\ version \in Nat
    /\ entries \subseteq Nat \X Computation
    /\ computation \in
         [Computation -> [got : [Row -> Nat \union {Missing}],
                          awaits : [Setting -> Loader \union {NoOne}]]]
    /\ waits \in [Reader -> Computation \union {NoOne}]
    /\ need \in [Reader -> SUBSET (Row \X Nat)]

Covers(v, es, r) == v = Missing \/ \A e \in es : e[1] = r => e[2] <= v

\* A setting that is served from memory holds every commit whose event has
\* been dispatched (lib/cache.js:4-7 and the generation counter, 21-25).
StoreIsFresh == \A s \in Setting : Covers(store[s], Announced, s)

\* What is kept under the version a new request would read misses no commit
\* whose event has been dispatched, in any of its rows (lib/read-cache.js:15-17).
EntriesAreFresh ==
    \A e \in entries : e[1] = version =>
        \A r \in Row : Covers(computation[e[2]].got[r], Announced, r)

\* A request is never answered with less than what was dispatched when it was
\* made: who was told of a change sees it (lib/live-version.js:17-19).
AnswersAreFresh ==
    \A q \in Reader : waits[q] # NoOne =>
        \A r \in Row : Covers(computation[waits[q]].got[r], need[q], r)

=============================================================================
