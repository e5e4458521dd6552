-------------------------- MODULE FreshnessProofs ---------------------------
(* What the live screens show, for any number of rows, settings, requests,  *)
(* screens and messages.  The caches: nothing that was announced is missing *)
(* from what is served.  The invariant says of every value on its way (in a *)
(* production, in a computation, in an entry) which announcements it must   *)
(* already contain to be allowed where it is going.  The screens: whatever  *)
(* is announced to a screen that asked inside the room is shown or on its   *)
(* way.                                                                     *)
EXTENDS ReadCaches, LiveScreens, TLAPS

(****************************************************************************)
(* The caches                                                               *)
(****************************************************************************)

\* A production that may still store its value has read every announced commit.
LoaderSound(l) ==
    loader[l].row # NoOne =>
      /\ loader[l].generation <= generation
      /\ loader[l].generation = generation =>
           Covers(loader[l].value, Announced, loader[l].row)

\* So has one that a caller could still join, whatever its generation.
InflightSound(s) ==
    inflight[s] # NoOne =>
      /\ loader[inflight[s]].row = s
      /\ Covers(loader[inflight[s]].value, Announced, s)

\* A computation waits for productions of the setting it asked for.
AwaitSound(c) ==
    \A s \in Setting : computation[c].awaits[s] # NoOne =>
        loader[computation[c].awaits[s]].row = s

\* What computation c has read, and what it waits for, misses nothing of es.
Fresh(c, es) ==
    /\ \A r \in Row : Covers(computation[c].got[r], es, r)
    /\ \A s \in Setting : computation[c].awaits[s] # NoOne =>
         Covers(loader[computation[c].awaits[s]].value, es, s)

\* An entry under the current version can answer whoever asks now.
EntrySound(e) ==
    /\ e[1] <= version
    /\ e[1] = version => Fresh(e[2], Announced)

\* A request waits for a computation that has all it was promised.
WaitSound(q) ==
    waits[q] # NoOne =>
      /\ need[q] \subseteq Announced
      /\ Fresh(waits[q], need[q])

\* The settings cache, and the answers above it.
SettingsSound ==
    /\ StoreIsFresh
    /\ \A l \in Loader : LoaderSound(l)
    /\ \A s \in Setting : InflightSound(s)
    /\ \A c \in Computation : AwaitSound(c)

AnswersSound ==
    /\ \A e \in entries : EntrySound(e)
    /\ \A q \in Reader : WaitSound(q)

\* The inductive invariant.
IInv == CachesTypeOK /\ SettingsSound /\ AnswersSound

\* What it means for an event to be announced, row by row.
LEMMA AnnouncedIs ==
    ASSUME NEW e
    PROVE  e \in Announced <=>
             \E r \in Row : \E n \in 1 .. db[r] : e = <<r, n>> /\ e \notin staged
<1>1. e \in UNION {{r} \X (1 .. db[r]) : r \in Row} <=>
        \E r \in Row : e \in {r} \X (1 .. db[r])
  OBVIOUS
<1>2. \A r \in Row : e \in {r} \X (1 .. db[r]) <=>
        \E n \in 1 .. db[r] : e = <<r, n>>
  OBVIOUS
<1>3. e \in Announced <=>
        (\E r \in Row : e \in {r} \X (1 .. db[r])) /\ e \notin staged
  BY <1>1 DEF Announced
<1>4. (\E r \in Row : e \in {r} \X (1 .. db[r])) <=>
        \E r \in Row : \E n \in 1 .. db[r] : e = <<r, n>>
  BY <1>2, Zenon
<1> QED BY <1>3, <1>4, Zenon

\* The same after a step.
LEMMA AnnouncedPrime ==
    ASSUME NEW e
    PROVE  e \in Announced' <=>
             \E r \in Row : \E n \in 1 .. db'[r] : e = <<r, n>> /\ e \notin staged'
<1>1. e \in UNION {{r} \X (1 .. db'[r]) : r \in Row} <=>
        \E r \in Row : e \in {r} \X (1 .. db'[r])
  OBVIOUS
<1>2. \A r \in Row : e \in {r} \X (1 .. db'[r]) <=>
        \E n \in 1 .. db'[r] : e = <<r, n>>
  OBVIOUS
<1>3. e \in Announced' <=>
        (\E r \in Row : e \in {r} \X (1 .. db'[r])) /\ e \notin staged'
  BY <1>1 DEF Announced
<1>4. (\E r \in Row : e \in {r} \X (1 .. db'[r])) <=>
        \E r \in Row : \E n \in 1 .. db'[r] : e = <<r, n>>
  BY <1>2, Zenon
<1> QED BY <1>3, <1>4, Zenon

\* A step of the caches announces nothing.
LEMMA AnnouncedKept ==
    ASSUME UNCHANGED <<db, staged>>
    PROVE  Announced' = Announced
  BY DEF Announced

\* A commit alone announces nothing: its own events are staged.
LEMMA CommitAnnouncesNothing ==
    ASSUME CachesTypeOK, NEW rows \in SUBSET Row, Commit(rows)
    PROVE  Announced' = Announced
<1> SUFFICES ASSUME NEW e PROVE e \in Announced' <=> e \in Announced
  OBVIOUS
<1>1. ASSUME NEW r \in Row, NEW n
      PROVE  (n \in 1 .. db'[r] /\ <<r, n>> \notin staged')
               <=> (n \in 1 .. db[r] /\ <<r, n>> \notin staged)
  <2>1. db[r] \in Nat
    BY DEF CachesTypeOK
  <2>2. db'[r] = IF r \in rows THEN db[r] + 1 ELSE db[r]
    BY DEF Commit
  <2>3. <<r, n>> \in staged' <=>
          \/ <<r, n>> \in staged
          \/ r \in rows /\ n = db[r] + 1
    BY DEF Commit
  <2>4. CASE r \in rows
    <3>1. n \in 1 .. db'[r] <=> (n \in 1 .. db[r] \/ n = db[r] + 1)
      BY <2>1, <2>2, <2>4
    <3>2. n \in 1 .. db[r] => n # db[r] + 1
      BY <2>1
    <3> QED BY <2>3, <2>4, <3>1, <3>2
  <2>5. CASE r \notin rows
    BY <2>2, <2>3, <2>5
  <2> QED BY <2>4, <2>5
<1>2. e \in Announced' <=>
        \E r \in Row : \E n \in 1 .. db'[r] : e = <<r, n>> /\ e \notin staged'
  BY AnnouncedPrime
<1>3. e \in Announced <=>
        \E r \in Row : \E n \in 1 .. db[r] : e = <<r, n>> /\ e \notin staged
  BY AnnouncedIs
<1> QED BY <1>1, <1>2, <1>3

\* Dispatching an event announces at most that event's commit.
LEMMA AnnounceAddsOne ==
    ASSUME NEW e, e \in staged, db' = db, staged' = staged \ {e}
    PROVE  Announced \subseteq Announced' /\ Announced' \subseteq Announced \union {e}
<1>1. ASSUME NEW x
      PROVE  x \in Announced' <=>
               \E r \in Row : \E n \in 1 .. db[r] : x = <<r, n>> /\ x \notin staged'
  BY AnnouncedPrime
<1>2. ASSUME NEW x
      PROVE  x \in Announced <=>
               \E r \in Row : \E n \in 1 .. db[r] : x = <<r, n>> /\ x \notin staged
  BY AnnouncedIs
<1> QED BY <1>1, <1>2

(***************************************************************************)
(* The state keeps its types.                                              *)
(***************************************************************************)

\* The type invariant holds at the start.
LEMMA TypeInit == InitCaches => CachesTypeOK
  BY DEF InitCaches, CachesTypeOK, IdleLoader, NothingRead, Missing

\* A dropped computation is well typed.
LEMMA NothingReadType ==
    NothingRead \in [got : [Row -> Nat \union {Missing}],
                     awaits : [Setting -> Loader \union {NoOne}]]
  BY DEF NothingRead

\* Dropping entries and requests keeps the types.
LEMMA KeepType ==
    ASSUME CachesTypeOK, NEW es, NEW ws, es \subseteq entries,
           ws \in [Reader -> Computation \union {NoOne}], Keep(es, ws)
    PROVE  /\ entries' \subseteq Nat \X Computation
           /\ waits' \in [Reader -> Computation \union {NoOne}]
           /\ need' \in [Reader -> SUBSET (Row \X Nat)]
           /\ computation' \in
                [Computation -> [got : [Row -> Nat \union {Missing}],
                                 awaits : [Setting -> Loader \union {NoOne}]]]
  BY NothingReadType DEF CachesTypeOK, Keep

\* Announced events are pairs of a row and a commit number.
LEMMA AnnouncedType ==
    ASSUME CachesTypeOK
    PROVE  Announced \subseteq Row \X Nat
<1> SUFFICES ASSUME NEW e \in Announced PROVE e \in Row \X Nat
  OBVIOUS
<1> QED BY AnnouncedIs DEF CachesTypeOK

\* Dropping a production from inflight keeps its type.
LEMMA ReleasedType ==
    ASSUME CachesTypeOK, NEW l
    PROVE  Released(l) \in [Setting -> Loader \union {NoOne}]
  BY DEF CachesTypeOK, Released

\* Starting a production keeps the types.
LEMMA LoadType ==
    ASSUME CachesTypeOK, NEW l \in Loader, NEW s \in Setting, Load(l, s)
    PROVE  /\ inflight' \in [Setting -> Loader \union {NoOne}]
           /\ loader' \in
                [Loader -> [row : Setting \union {NoOne}, generation : Nat,
                            value : Nat \union {Missing}]]
  BY DEF CachesTypeOK, Load

\* Every step keeps the types.
LEMMA TypeStep == CachesTypeOK /\ [Next]_vars => CachesTypeOK'
<1> SUFFICES ASSUME CachesTypeOK, [Next]_vars PROVE CachesTypeOK'
  OBVIOUS
<1> USE RowsAssumption
<1>1. ASSUME NEW rows \in SUBSET Row, Commit(rows) PROVE CachesTypeOK'
  BY <1>1 DEF CachesTypeOK, Commit, settingsVars, answerVars
<1>2. ASSUME NEW e \in staged, Announce(e) PROVE CachesTypeOK'
  BY <1>2 DEF CachesTypeOK, Announce, InvalidateSettings
<1>3. CASE InvalidateOther
  BY <1>3 DEF CachesTypeOK, InvalidateOther, answerVars
<1>4. ASSUME NEW l \in Loader, NEW s \in Setting, LoadForOthers(l, s)
      PROVE  CachesTypeOK'
  BY <1>4, LoadType DEF CachesTypeOK, LoadForOthers, answerVars
<1>5. ASSUME NEW l \in Loader, LoaderReads(l) PROVE CachesTypeOK'
  <2>1. loader[l].row \in Setting
    BY <1>5 DEF CachesTypeOK, LoaderReads, Querying
  <2> QED BY <1>5, <2>1 DEF CachesTypeOK, LoaderReads, answerVars
<1>6. ASSUME NEW l \in Loader, LoaderReturns(l) PROVE CachesTypeOK'
  <2>1. /\ loader[l].row \in Setting
        /\ loader[l].value \in Nat
    BY <1>6 DEF CachesTypeOK, LoaderReturns
  <2>2. store' \in [Setting -> Nat \union {Missing}]
    BY <1>6, <2>1 DEF CachesTypeOK, LoaderReturns
  <2>3. inflight' \in [Setting -> Loader \union {NoOne}]
    BY <1>6, ReleasedType DEF LoaderReturns
  <2>4. loader' \in [Loader -> [row : Setting \union {NoOne}, generation : Nat,
                                 value : Nat \union {Missing}]]
    BY <1>6 DEF CachesTypeOK, LoaderReturns, IdleLoader
  <2>5. computation' \in
          [Computation -> [got : [Row -> Nat \union {Missing}],
                           awaits : [Setting -> Loader \union {NoOne}]]]
    BY <1>6, <2>1 DEF CachesTypeOK, LoaderReturns
  <2> QED BY <1>6, <2>2, <2>3, <2>4, <2>5 DEF CachesTypeOK, LoaderReturns
<1>7. ASSUME NEW l \in Loader, LoaderFails(l) PROVE CachesTypeOK'
  <2>1. inflight' \in [Setting -> Loader \union {NoOne}]
    BY <1>7, ReleasedType DEF LoaderFails
  <2>2. loader' \in [Loader -> [row : Setting \union {NoOne}, generation : Nat,
                                 value : Nat \union {Missing}]]
    BY <1>7 DEF CachesTypeOK, LoaderFails, IdleLoader
  <2> DEFINE cs == {c \in Computation :
                      computation[c].awaits[loader[l].row] = l}
             es == {e \in entries : e[2] \notin cs}
             ws == [q \in Reader |-> IF waits[q] \in cs THEN NoOne ELSE waits[q]]
  <2>3. Keep(es, ws) /\ es \subseteq entries
    BY <1>7 DEF LoaderFails, Reject
  <2>4. ws \in [Reader -> Computation \union {NoOne}]
    BY DEF CachesTypeOK
  <2> HIDE DEF es, ws
  <2> QED BY <1>7, <2>1, <2>2, <2>3, <2>4, KeepType DEF CachesTypeOK, LoaderFails
<1>8. ASSUME NEW s \in Setting, ExpireSetting(s) PROVE CachesTypeOK'
  BY <1>8 DEF CachesTypeOK, ExpireSetting, answerVars
<1>9. ASSUME NEW q \in Reader, Ask(q) PROVE CachesTypeOK'
  <2>1. need' \in [Reader -> SUBSET (Row \X Nat)]
    BY <1>9, AnnouncedType DEF CachesTypeOK, Ask
  <2>2. PICK c \in Computation :
          /\ waits' = [waits EXCEPT ![q] = c]
          /\ \/ UNCHANGED <<entries, computation>>
             \/ /\ entries' = entries \union {<<version, c>>}
                /\ computation' = [computation EXCEPT ![c] = NothingRead]
    BY <1>9 DEF Ask
  <2>3. entries' \subseteq Nat \X Computation
    BY <2>2 DEF CachesTypeOK
  <2>4. computation' \in
          [Computation -> [got : [Row -> Nat \union {Missing}],
                           awaits : [Setting -> Loader \union {NoOne}]]]
    BY <2>2, NothingReadType DEF CachesTypeOK
  <2>5. waits' \in [Reader -> Computation \union {NoOne}]
    BY <2>2 DEF CachesTypeOK
  <2> QED BY <1>9, <2>1, <2>3, <2>4, <2>5 DEF CachesTypeOK, Ask, settingsVars
<1>10. ASSUME NEW c \in Computation, NEW r \in Row, ReadRow(c, r)
       PROVE  CachesTypeOK'
  BY <1>10 DEF CachesTypeOK, ReadRow, settingsVars
<1>11. ASSUME NEW c \in Computation, NEW s \in Setting, AskSetting(c, s)
       PROVE  CachesTypeOK'
  <2>1. CASE /\ computation' = [computation EXCEPT ![c].got[s] = store[s]]
             /\ UNCHANGED <<inflight, loader>>
    BY <1>11, <2>1 DEF CachesTypeOK, AskSetting
  <2>2. CASE /\ computation' = [computation EXCEPT ![c].awaits[s] = inflight[s]]
             /\ UNCHANGED <<inflight, loader>>
    BY <1>11, <2>2 DEF CachesTypeOK, AskSetting
  <2>3. ASSUME NEW l \in Loader, Load(l, s),
               computation' = [computation EXCEPT ![c].awaits[s] = l]
        PROVE  CachesTypeOK'
    BY <1>11, <2>3, LoadType DEF CachesTypeOK, AskSetting
  <2> QED BY <1>11, <2>1, <2>2, <2>3 DEF AskSetting
<1>12. ASSUME NEW q \in Reader, Answer(q) PROVE CachesTypeOK'
  <2> DEFINE ws == [waits EXCEPT ![q] = NoOne]
  <2>1. Keep(entries, ws) /\ ws \in [Reader -> Computation \union {NoOne}]
    BY <1>12 DEF CachesTypeOK, Answer
  <2> HIDE DEF ws
  <2> QED BY <1>12, <2>1, KeepType DEF CachesTypeOK, Answer, settingsVars
<1>13. ASSUME NEW e \in entries, Forget(e) PROVE CachesTypeOK'
  <2>1. /\ Keep(entries \ {e}, waits)
        /\ waits \in [Reader -> Computation \union {NoOne}]
    BY <1>13 DEF CachesTypeOK, Forget
  <2> QED BY <1>13, <2>1, KeepType DEF CachesTypeOK, Forget, settingsVars
<1>14. ASSUME NEW c \in Computation, ComputationFails(c) PROVE CachesTypeOK'
  <2> DEFINE es == {e \in entries : e[2] \notin {c}}
             ws == [q \in Reader |-> IF waits[q] \in {c} THEN NoOne ELSE waits[q]]
  <2>1. Keep(es, ws) /\ es \subseteq entries
    BY <1>14 DEF ComputationFails, Reject
  <2>2. ws \in [Reader -> Computation \union {NoOne}]
    BY DEF CachesTypeOK
  <2> HIDE DEF es, ws
  <2> QED BY <1>14, <2>1, <2>2, KeepType DEF CachesTypeOK, ComputationFails, settingsVars
<1>15. CASE UNCHANGED vars
  BY <1>15 DEF CachesTypeOK, vars
<1> QED BY <1>1, <1>2, <1>3, <1>4, <1>5, <1>6, <1>7, <1>8, <1>9, <1>10, <1>11,
           <1>12, <1>13, <1>14, <1>15
        DEF Next, WriteStep, SettingsStep, ReadStep

\* The state of both caches keeps its types, for any rows, requests and pools.
THEOREM CachesTypeCorrect == Spec => []CachesTypeOK
  BY TypeInit, TypeStep, PTL DEF Spec

(***************************************************************************)
(* Facts about single steps.                                               *)
(***************************************************************************)

\* A value that covers some events covers fewer.
LEMMA CoversFewer ==
    ASSUME NEW v, NEW r, NEW es, NEW fs, fs \subseteq es, Covers(v, es, r)
    PROVE  Covers(v, fs, r)
  BY DEF Covers

\* The committed row holds every announced commit of it.
LEMMA RowsCoverAnnounced ==
    ASSUME CachesTypeOK, NEW r \in Row
    PROVE  Covers(db[r], Announced, r)
<1> SUFFICES ASSUME NEW e \in Announced, e[1] = r PROVE e[2] <= db[r]
  BY DEF Covers
<1>1. PICK x \in Row : \E n \in 1 .. db[x] : e = <<x, n>>
  BY AnnouncedIs
<1> QED BY <1>1 DEF CachesTypeOK

\* A computation that was dropped has read nothing and waits for nothing.
LEMMA NothingIsFresh ==
    ASSUME NEW c, NEW es, computation'[c] = NothingRead
    PROVE  Fresh(c, es)' /\ AwaitSound(c)'
  BY RowsAssumption DEF Fresh, AwaitSound, Covers, NothingRead

\* Keep leaves a computation as it is or drops it.
LEMMA KeepOrDrop ==
    ASSUME NEW es, NEW ws, Keep(es, ws), NEW c \in Computation
    PROVE  computation'[c] = computation[c] \/ computation'[c] = NothingRead
  BY DEF Keep

\* A computation that no step touched is as fresh as before.
LEMMA SameIsFresh ==
    ASSUME UNCHANGED loader, NEW c, NEW es, AwaitSound(c), Fresh(c, es),
           computation'[c] = computation[c] \/ computation'[c] = NothingRead
    PROVE  Fresh(c, es)' /\ AwaitSound(c)'
<1>1. CASE computation'[c] = NothingRead
  BY <1>1, NothingIsFresh
<1>2. CASE computation'[c] = computation[c]
  BY <1>2 DEF Fresh, AwaitSound
<1> QED BY <1>1, <1>2

\* What a computation has read never becomes less, and what it waits for is
\* never taken back.
LEMMA FreshKept ==
    ASSUME CachesTypeOK, SettingsSound, [Next]_vars,
           NEW c \in Computation, NEW es, es \subseteq Announced, Fresh(c, es)
    PROVE  Fresh(c, es)' /\ AwaitSound(c)'
<1> USE RowsAssumption, NoOneAssumption
<1>a. AwaitSound(c)
  BY DEF SettingsSound
<1>1. CASE UNCHANGED <<loader, computation>>
  BY <1>a, <1>1, SameIsFresh
<1>2. ASSUME NEW l \in Loader, NEW s \in Setting, LoadForOthers(l, s)
      PROVE  Fresh(c, es)' /\ AwaitSound(c)'
  <2>1. /\ computation' = computation
        /\ loader[l].row = NoOne
        /\ loader' = [loader EXCEPT ![l] = [row |-> s, generation |-> generation,
                                            value |-> Missing]]
    BY <1>2 DEF LoadForOthers, Load, answerVars
  <2>2. \A x \in Setting : computation[c].awaits[x] # l
    BY <1>a, <2>1 DEF AwaitSound
  <2>3. \A x \in Setting : computation[c].awaits[x] # NoOne =>
           loader'[computation[c].awaits[x]] = loader[computation[c].awaits[x]]
    BY <2>1, <2>2 DEF CachesTypeOK
  <2> QED BY <1>a, <2>1, <2>3 DEF Fresh, AwaitSound
<1>3. ASSUME NEW l \in Loader, LoaderReads(l)
      PROVE  Fresh(c, es)' /\ AwaitSound(c)'
  <2>1. /\ computation' = computation
        /\ loader' = [loader EXCEPT ![l].value = db[loader[l].row]]
        /\ loader[l].row \in Setting
    BY <1>3 DEF LoaderReads, Querying, answerVars, CachesTypeOK
  <2>2. Covers(db[loader[l].row], es, loader[l].row)
    BY <2>1, RowsCoverAnnounced, CoversFewer
  <2>3. ASSUME NEW x \in Setting, computation[c].awaits[x] # NoOne
        PROVE  /\ loader'[computation[c].awaits[x]].row = x
               /\ Covers(loader'[computation[c].awaits[x]].value, es, x)
    <3>1. loader[computation[c].awaits[x]].row = x
      BY <1>a, <2>3 DEF AwaitSound
    <3>2. Covers(loader[computation[c].awaits[x]].value, es, x)
      BY <2>3 DEF Fresh
    <3>3. computation[c].awaits[x] \in Loader
      BY <2>3 DEF CachesTypeOK
    <3>4. CASE computation[c].awaits[x] = l
      <4>1. loader'[l].row = x /\ loader'[l].value = db[x]
        BY <2>1, <3>1, <3>4 DEF CachesTypeOK
      <4> QED BY <2>2, <3>1, <3>4, <4>1
    <3>5. CASE computation[c].awaits[x] # l
      <4>1. loader'[computation[c].awaits[x]] = loader[computation[c].awaits[x]]
        BY <2>1, <3>3, <3>5 DEF CachesTypeOK
      <4> QED BY <3>1, <3>2, <4>1
    <3> QED BY <3>4, <3>5
  <2> QED BY <2>1, <2>3 DEF Fresh, AwaitSound
<1>4. ASSUME NEW l \in Loader, LoaderReturns(l)
      PROVE  Fresh(c, es)' /\ AwaitSound(c)'
  <2> DEFINE s == loader[l].row
             v == loader[l].value
  <2>1. /\ s \in Setting
        /\ s # NoOne
        /\ loader' = [loader EXCEPT ![l] = IdleLoader]
        /\ computation'[c] =
             IF computation[c].awaits[s] = l
               THEN [got |-> [computation[c].got EXCEPT ![s] = v],
                     awaits |-> [computation[c].awaits EXCEPT ![s] = NoOne]]
               ELSE computation[c]
    BY <1>4 DEF LoaderReturns, CachesTypeOK
  <2>2. ASSUME NEW x \in Setting, computation'[c].awaits[x] # NoOne
        PROVE  /\ computation'[c].awaits[x] = computation[c].awaits[x]
               /\ loader'[computation[c].awaits[x]] = loader[computation[c].awaits[x]]
    <3>1. /\ computation'[c].awaits[x] = computation[c].awaits[x]
          /\ ~(x = s /\ computation[c].awaits[s] = l)
      BY <2>1, <2>2 DEF CachesTypeOK
    <3>2. computation[c].awaits[x] \in Loader
      BY <2>2, <3>1 DEF CachesTypeOK
    <3>3. computation[c].awaits[x] # l
      BY <1>a, <2>2, <3>1 DEF AwaitSound
    <3> QED BY <2>1, <3>1, <3>2, <3>3 DEF CachesTypeOK
  <2>3. AwaitSound(c)'
    BY <1>a, <2>2 DEF AwaitSound
  <2>4. \A x \in Setting : computation'[c].awaits[x] # NoOne =>
          Covers(loader'[computation'[c].awaits[x]].value, es, x)
    BY <2>2 DEF Fresh
  <2>5. ASSUME NEW r \in Row PROVE Covers(computation'[c].got[r], es, r)
    <3>1. CASE r = s /\ computation[c].awaits[s] = l
      <4>1. computation'[c].got[r] = v
        BY <2>1, <3>1 DEF CachesTypeOK
      <4>2. Covers(v, es, s)
        BY <2>1, <3>1 DEF Fresh
      <4> QED BY <3>1, <4>1, <4>2
    <3>2. CASE ~(r = s /\ computation[c].awaits[s] = l)
      <4>1. computation'[c].got[r] = computation[c].got[r]
        BY <2>1, <3>2 DEF CachesTypeOK
      <4> QED BY <4>1 DEF Fresh
    <3> QED BY <3>1, <3>2
  <2> QED BY <2>3, <2>4, <2>5 DEF Fresh
<1>5. ASSUME NEW l \in Loader, LoaderFails(l)
      PROVE  Fresh(c, es)' /\ AwaitSound(c)'
  <2> DEFINE cs == {x \in Computation :
                      computation[x].awaits[loader[l].row] = l}
  <2>1. Reject(cs) /\ loader' = [loader EXCEPT ![l] = IdleLoader]
    BY <1>5 DEF LoaderFails
  <2>2. CASE c \in cs
    <3>1. computation'[c] = NothingRead
      BY <2>1, <2>2 DEF Reject, Keep
    <3> QED BY <3>1, NothingIsFresh
  <2>3. CASE c \notin cs
    <3>1. \A x \in Setting : computation[c].awaits[x] # l
      BY <1>a, <2>3 DEF AwaitSound
    <3>2. \A x \in Setting : computation[c].awaits[x] # NoOne =>
            loader'[computation[c].awaits[x]] = loader[computation[c].awaits[x]]
      BY <2>1, <3>1 DEF CachesTypeOK
    <3>3. computation'[c] = computation[c] \/ computation'[c] = NothingRead
      BY <2>1, KeepOrDrop DEF Reject
    <3>4. CASE computation'[c] = computation[c]
      BY <1>a, <3>2, <3>4 DEF Fresh, AwaitSound
    <3> QED BY <3>3, <3>4, NothingIsFresh
  <2> QED BY <2>2, <2>3
<1>6. ASSUME NEW q \in Reader, Ask(q)
      PROVE  Fresh(c, es)' /\ AwaitSound(c)'
  <2>1. /\ UNCHANGED loader
        /\ computation'[c] = computation[c] \/ computation'[c] = NothingRead
    BY <1>6 DEF Ask, settingsVars, CachesTypeOK
  <2> QED BY <1>a, <2>1, SameIsFresh
<1>7. ASSUME NEW d \in Computation, NEW r \in Row, ReadRow(d, r)
      PROVE  Fresh(c, es)' /\ AwaitSound(c)'
  <2>1. /\ UNCHANGED loader
        /\ r \notin Setting
        /\ computation' = [computation EXCEPT ![d].got[r] = db[r]]
    BY <1>7 DEF ReadRow, settingsVars
  <2>2. Covers(db[r], es, r)
    BY RowsCoverAnnounced, CoversFewer
  <2>3. computation'[c].awaits = computation[c].awaits
    BY <2>1 DEF CachesTypeOK
  <2>4. \A x \in Row : computation'[c].got[x] = computation[c].got[x]
                      \/ (x = r /\ computation'[c].got[x] = db[r])
    BY <2>1 DEF CachesTypeOK
  <2> QED BY <1>a, <2>1, <2>2, <2>3, <2>4 DEF Fresh, AwaitSound
<1>8. ASSUME NEW d \in Computation, NEW s \in Setting, AskSetting(d, s)
      PROVE  Fresh(c, es)' /\ AwaitSound(c)'
  <2>1. CASE /\ store[s] # Missing
             /\ computation' = [computation EXCEPT ![d].got[s] = store[s]]
             /\ UNCHANGED <<inflight, loader>>
    <3>1. Covers(store[s], es, s)
      BY CoversFewer DEF SettingsSound, StoreIsFresh
    <3>2. computation'[c].awaits = computation[c].awaits
      BY <2>1 DEF CachesTypeOK
    <3>3. \A x \in Row : computation'[c].got[x] = computation[c].got[x]
                        \/ (x = s /\ computation'[c].got[x] = store[s])
      BY <2>1 DEF CachesTypeOK
    <3> QED BY <1>a, <2>1, <3>1, <3>2, <3>3 DEF Fresh, AwaitSound
  <2>2. CASE /\ inflight[s] # NoOne
             /\ computation' = [computation EXCEPT ![d].awaits[s] = inflight[s]]
             /\ UNCHANGED <<inflight, loader>>
    <3>1. /\ loader[inflight[s]].row = s
          /\ Covers(loader[inflight[s]].value, es, s)
      BY <2>2, CoversFewer DEF SettingsSound, InflightSound
    <3>2. computation'[c].got = computation[c].got
      BY <2>2 DEF CachesTypeOK
    <3>3. \A x \in Setting :
             computation'[c].awaits[x] = computation[c].awaits[x]
             \/ (x = s /\ computation'[c].awaits[x] = inflight[s])
      BY <2>2 DEF CachesTypeOK
    <3>4. AwaitSound(c)'
      BY <1>a, <2>2, <3>1, <3>3 DEF AwaitSound
    <3>5. \A x \in Setting : computation'[c].awaits[x] # NoOne =>
            Covers(loader'[computation'[c].awaits[x]].value, es, x)
      BY <2>2, <3>1, <3>3 DEF Fresh
    <3> QED BY <3>2, <3>4, <3>5 DEF Fresh
  <2>3. ASSUME NEW l \in Loader, Load(l, s),
               computation' = [computation EXCEPT ![d].awaits[s] = l]
        PROVE  Fresh(c, es)' /\ AwaitSound(c)'
    <3>1. /\ loader[l].row = NoOne
          /\ loader'[l].row = s
          /\ loader'[l].value = Missing
          /\ \A k \in Loader : k # l => loader'[k] = loader[k]
      BY <2>3 DEF Load, CachesTypeOK
    <3>2. computation'[c].got = computation[c].got
      BY <2>3 DEF CachesTypeOK
    <3>3. \A x \in Setting :
             computation'[c].awaits[x] = computation[c].awaits[x]
             \/ (x = s /\ computation'[c].awaits[x] = l)
      BY <2>3 DEF CachesTypeOK
    <3>4. ASSUME NEW x \in Setting, computation'[c].awaits[x] # NoOne
          PROVE  /\ loader'[computation'[c].awaits[x]].row = x
                 /\ Covers(loader'[computation'[c].awaits[x]].value, es, x)
      <4>1. CASE x = s /\ computation'[c].awaits[x] = l
        BY <3>1, <4>1 DEF Covers
      <4>2. CASE computation'[c].awaits[x] = computation[c].awaits[x]
        <5>1. /\ computation[c].awaits[x] \in Loader
              /\ loader[computation[c].awaits[x]].row = x
          BY <1>a, <3>4, <4>2 DEF AwaitSound, CachesTypeOK
        <5>2. computation[c].awaits[x] # l
          BY <3>1, <5>1
        <5>3. loader'[computation[c].awaits[x]] = loader[computation[c].awaits[x]]
          BY <3>1, <5>1, <5>2
        <5> QED BY <3>4, <4>2, <5>1, <5>3 DEF Fresh
      <4> QED BY <3>3, <4>1, <4>2
    <3> QED BY <3>2, <3>4 DEF Fresh, AwaitSound
  <2> QED BY <1>8, <2>1, <2>2, <2>3 DEF AskSetting
<1>9. ASSUME NEW fs, NEW ws, Keep(fs, ws), UNCHANGED loader
      PROVE  Fresh(c, es)' /\ AwaitSound(c)'
  BY <1>a, <1>9, KeepOrDrop, SameIsFresh
<1>10. ASSUME NEW q \in Reader, Answer(q) PROVE Fresh(c, es)' /\ AwaitSound(c)'
  BY <1>9, <1>10 DEF Answer, settingsVars
<1>11. ASSUME NEW e \in entries, Forget(e) PROVE Fresh(c, es)' /\ AwaitSound(c)'
  BY <1>9, <1>11 DEF Forget, settingsVars
<1>12. ASSUME NEW d \in Computation, ComputationFails(d)
       PROVE  Fresh(c, es)' /\ AwaitSound(c)'
  BY <1>9, <1>12 DEF ComputationFails, Reject, settingsVars
<1>13. ASSUME WriteStep \/ (\E s \in Setting : ExpireSetting(s)) \/ UNCHANGED vars
       PROVE  UNCHANGED <<loader, computation>>
  BY <1>13 DEF WriteStep, Commit, Announce, InvalidateOther, ExpireSetting,
               settingsVars, answerVars, vars
<1> QED BY <1>1, <1>2, <1>3, <1>4, <1>5, <1>6, <1>7, <1>8, <1>10, <1>11, <1>12, <1>13
        DEF Next, SettingsStep, ReadStep

(***************************************************************************)
(* The invariant.                                                          *)
(***************************************************************************)

\* Only a dispatched event announces anything.
LEMMA AnnouncedGrows ==
    ASSUME CachesTypeOK, [Next]_vars
    PROVE  /\ Announced \subseteq Announced'
           /\ version' = version => Announced' = Announced
<1>1. ASSUME NEW rows \in SUBSET Row, Commit(rows) PROVE Announced' = Announced
  BY <1>1, CommitAnnouncesNothing
<1>2. ASSUME NEW e \in staged, Announce(e)
      PROVE  Announced \subseteq Announced' /\ version' # version
  BY <1>2, AnnounceAddsOne DEF Announce, CachesTypeOK
<1>3. ASSUME UNCHANGED <<db, staged>> PROVE Announced' = Announced
  BY <1>3, AnnouncedKept
<1>4. ASSUME InvalidateOther \/ SettingsStep \/ ReadStep \/ UNCHANGED vars
      PROVE  UNCHANGED <<db, staged>>
  BY <1>4 DEF InvalidateOther, SettingsStep, ReadStep, LoadForOthers, LoaderReads,
              LoaderReturns, LoaderFails, ExpireSetting, Ask, ReadRow, AskSetting,
              Answer, Forget, ComputationFails, vars
<1> QED BY <1>1, <1>2, <1>3, <1>4 DEF Next, WriteStep

\* Empty caches are sound.
LEMMA SettingsInit == InitCaches => SettingsSound
  BY NoOneAssumption
     DEF InitCaches, SettingsSound, StoreIsFresh, LoaderSound, InflightSound,
         AwaitSound, IdleLoader, NothingRead, Covers

\* The settings cache alone: its values, its productions and its index of
\* productions under way.
LEMMA CacheStep ==
    ASSUME CachesTypeOK, SettingsSound, [Next]_vars
    PROVE  /\ StoreIsFresh'
           /\ \A l \in Loader : LoaderSound(l)'
           /\ \A s \in Setting : InflightSound(s)'
<1> USE RowsAssumption, NoOneAssumption DEF SettingsSound
<1> DEFINE Goal == /\ StoreIsFresh'
                   /\ \A l \in Loader : LoaderSound(l)'
                   /\ \A s \in Setting : InflightSound(s)'
<1>1. ASSUME UNCHANGED <<generation, store, inflight, loader>>,
             Announced' = Announced
      PROVE  Goal
  BY <1>1 DEF StoreIsFresh, LoaderSound, InflightSound
<1>2. ASSUME NEW rows \in SUBSET Row, Commit(rows) PROVE Goal
  BY <1>1, <1>2, CommitAnnouncesNothing DEF Commit, settingsVars
<1>3. ASSUME NEW e \in staged, Announce(e) PROVE Goal
  <2>1. Announced' \subseteq Announced \union {e} /\ loader' = loader
    BY <1>3, AnnounceAddsOne DEF Announce
  <2>2. CASE e[1] \in Setting
    <3>1. /\ generation' = generation + 1
          /\ store' = [s \in Setting |-> Missing]
          /\ inflight' = [s \in Setting |-> NoOne]
      BY <1>3, <2>2 DEF Announce, InvalidateSettings
    <3>2. StoreIsFresh'
      BY <3>1 DEF StoreIsFresh, Covers
    <3>3. \A s \in Setting : InflightSound(s)'
      BY <3>1 DEF InflightSound
    <3>4. \A l \in Loader : LoaderSound(l)'
      BY <2>1, <3>1 DEF LoaderSound, CachesTypeOK
    <3> QED BY <3>2, <3>3, <3>4
  <2>3. CASE e[1] \notin Setting
    <3>1. UNCHANGED <<generation, store, inflight, loader>>
      BY <1>3, <2>3 DEF Announce
    <3>2. ASSUME NEW v, NEW s \in Setting, Covers(v, Announced, s)
          PROVE  Covers(v, Announced', s)
      BY <2>1, <2>3, <3>2 DEF Covers
    <3>3. StoreIsFresh'
      BY <3>1, <3>2 DEF StoreIsFresh
    <3>4. \A s \in Setting : InflightSound(s)'
      BY <3>1, <3>2 DEF InflightSound
    <3>5. \A l \in Loader : LoaderSound(l)'
      BY <3>1, <3>2 DEF LoaderSound, CachesTypeOK
    <3> QED BY <3>3, <3>4, <3>5
  <2> QED BY <2>2, <2>3
<1>4. CASE InvalidateOther
  <2>1. /\ UNCHANGED <<store, inflight, loader>>
        /\ generation' = generation + 1
        /\ Announced' = Announced
    BY <1>4, AnnouncedKept DEF InvalidateOther
  <2> QED BY <2>1 DEF StoreIsFresh, LoaderSound, InflightSound, CachesTypeOK
<1>5. ASSUME NEW l \in Loader, NEW s \in Setting, Load(l, s),
             UNCHANGED <<db, staged, generation, store>>
      PROVE  Goal
  <2>1. /\ Announced' = Announced
        /\ loader[l].row = NoOne
        /\ loader'[l] = [row |-> s, generation |-> generation, value |-> Missing]
        /\ \A k \in Loader : k # l => loader'[k] = loader[k]
        /\ inflight'[s] = l
        /\ \A x \in Setting : x # s => inflight'[x] = inflight[x]
    BY <1>5, AnnouncedKept DEF Load, CachesTypeOK
  <2>2. StoreIsFresh'
    BY <1>5, <2>1 DEF StoreIsFresh
  <2>3. \A k \in Loader : LoaderSound(k)'
    BY <1>5, <2>1 DEF LoaderSound, Covers, CachesTypeOK
  <2>4. ASSUME NEW x \in Setting PROVE InflightSound(x)'
    <3>1. CASE x = s
      BY <2>1, <3>1 DEF InflightSound, Covers
    <3>2. CASE x # s
      <4>1. inflight[x] # NoOne => inflight[x] \in Loader /\ inflight[x] # l
        BY <2>1 DEF InflightSound, CachesTypeOK
      <4> QED BY <2>1, <3>2, <4>1 DEF InflightSound
    <3> QED BY <3>1, <3>2
  <2> QED BY <2>2, <2>3, <2>4
<1>6. ASSUME NEW l \in Loader, NEW s \in Setting, LoadForOthers(l, s) PROVE Goal
  BY <1>5, <1>6 DEF LoadForOthers
<1>7. ASSUME NEW l \in Loader, LoaderReads(l) PROVE Goal
  <2>1. /\ Announced' = Announced
        /\ UNCHANGED <<generation, store, inflight>>
        /\ loader[l].row \in Setting
        /\ loader' = [loader EXCEPT ![l].value = db[loader[l].row]]
    BY <1>7, AnnouncedKept DEF LoaderReads, Querying, CachesTypeOK
  <2>2. Covers(db[loader[l].row], Announced, loader[l].row)
    BY <2>1, RowsCoverAnnounced
  <2>3. \A k \in Loader : /\ loader'[k].row = loader[k].row
                          /\ loader'[k].generation = loader[k].generation
                          /\ k # l => loader'[k] = loader[k]
    BY <2>1 DEF CachesTypeOK
  <2>4. loader'[l].value = db[loader[l].row]
    BY <2>1 DEF CachesTypeOK
  <2>5. StoreIsFresh'
    BY <2>1 DEF StoreIsFresh
  <2>6. \A k \in Loader : LoaderSound(k)'
    BY <2>1, <2>2, <2>3, <2>4 DEF LoaderSound
  <2>7. \A x \in Setting : InflightSound(x)'
    BY <2>1, <2>2, <2>3, <2>4 DEF InflightSound, CachesTypeOK
  <2> QED BY <2>5, <2>6, <2>7
<1>8. ASSUME NEW l \in Loader, loader' = [loader EXCEPT ![l] = IdleLoader],
             inflight' = Released(l), generation' = generation,
             Announced' = Announced
      PROVE  /\ \A k \in Loader : LoaderSound(k)'
             /\ \A s \in Setting : InflightSound(s)'
  <2>1. loader'[l].row = NoOne /\ \A k \in Loader : k # l => loader'[k] = loader[k]
    BY <1>8 DEF IdleLoader, CachesTypeOK
  <2>2. \A s \in Setting : inflight'[s] # NoOne =>
          inflight'[s] = inflight[s] /\ inflight[s] # l
    BY <1>8 DEF Released
  <2>3. \A k \in Loader : LoaderSound(k)'
    BY <1>8, <2>1 DEF LoaderSound
  <2>4. \A s \in Setting : InflightSound(s)'
    BY <1>8, <2>1, <2>2 DEF InflightSound, CachesTypeOK
  <2> QED BY <2>3, <2>4
<1>9. ASSUME NEW l \in Loader, LoaderReturns(l) PROVE Goal
  <2>1. Announced' = Announced
    BY <1>9, AnnouncedKept DEF LoaderReturns
  <2>2. /\ \A k \in Loader : LoaderSound(k)'
        /\ \A s \in Setting : InflightSound(s)'
    BY <1>8, <1>9, <2>1 DEF LoaderReturns
  <2>3. loader[l].row \in Setting
    BY <1>9 DEF LoaderReturns, CachesTypeOK
  <2>4. CASE loader[l].generation = generation
    <3>1. store' = [store EXCEPT ![loader[l].row] = loader[l].value]
      BY <1>9, <2>4 DEF LoaderReturns
    <3>2. Covers(loader[l].value, Announced, loader[l].row)
      BY <2>3, <2>4 DEF LoaderSound
    <3>3. StoreIsFresh'
      BY <2>1, <2>3, <3>1, <3>2 DEF StoreIsFresh, CachesTypeOK
    <3> QED BY <2>2, <3>3
  <2>5. CASE loader[l].generation # generation
    <3>1. store' = store
      BY <1>9, <2>5 DEF LoaderReturns
    <3> QED BY <2>1, <2>2, <3>1 DEF StoreIsFresh
  <2> QED BY <2>4, <2>5
<1>10. ASSUME NEW l \in Loader, LoaderFails(l) PROVE Goal
  <2>1. Announced' = Announced
    BY <1>10, AnnouncedKept DEF LoaderFails
  <2>2. /\ \A k \in Loader : LoaderSound(k)'
        /\ \A s \in Setting : InflightSound(s)'
    BY <1>8, <1>10, <2>1 DEF LoaderFails
  <2>3. store' = store
    BY <1>10 DEF LoaderFails
  <2> QED BY <2>1, <2>2, <2>3 DEF StoreIsFresh
<1>11. ASSUME NEW s \in Setting, ExpireSetting(s) PROVE Goal
  <2>1. /\ Announced' = Announced
        /\ UNCHANGED <<generation, inflight, loader>>
        /\ store' = [store EXCEPT ![s] = Missing]
    BY <1>11, AnnouncedKept DEF ExpireSetting
  <2>2. StoreIsFresh'
    BY <2>1 DEF StoreIsFresh, Covers, CachesTypeOK
  <2>3. /\ \A k \in Loader : LoaderSound(k)'
        /\ \A x \in Setting : InflightSound(x)'
    BY <2>1 DEF LoaderSound, InflightSound
  <2> QED BY <2>2, <2>3
<1>12. ASSUME NEW c \in Computation, NEW s \in Setting, AskSetting(c, s)
       PROVE  Goal
  <2>1. CASE UNCHANGED <<inflight, loader>>
    BY <1>1, <1>12, <2>1, AnnouncedKept DEF AskSetting
  <2>2. ASSUME NEW l \in Loader, Load(l, s) PROVE Goal
    BY <1>5, <1>12, <2>2 DEF AskSetting
  <2> QED BY <1>12, <2>1, <2>2 DEF AskSetting
<1>13. ASSUME \/ \E q \in Reader : Ask(q) \/ Answer(q)
              \/ \E c \in Computation, r \in Row : ReadRow(c, r)
              \/ \E c \in Computation : ComputationFails(c)
              \/ \E e \in entries : Forget(e)
              \/ UNCHANGED vars
       PROVE  Goal
  <2>1. UNCHANGED <<db, staged, generation, store, inflight, loader>>
    BY <1>13 DEF Ask, Answer, ReadRow, ComputationFails, Forget, settingsVars, vars
  <2> QED BY <1>1, <2>1, AnnouncedKept
<1> QED BY <1>2, <1>3, <1>4, <1>6, <1>7, <1>9, <1>10, <1>11, <1>12, <1>13
        DEF Next, WriteStep, SettingsStep, ReadStep

\* Every step keeps the settings cache sound.
LEMMA SettingsStepSound ==
    CachesTypeOK /\ SettingsSound /\ [Next]_vars => SettingsSound'
<1> SUFFICES ASSUME CachesTypeOK, SettingsSound, [Next]_vars PROVE SettingsSound'
  OBVIOUS
<1>1. ASSUME NEW c \in Computation PROVE AwaitSound(c)'
  <2>1. Fresh(c, {})
    BY DEF Fresh, Covers
  <2> QED BY <2>1, FreshKept
<1> QED BY <1>1, CacheStep DEF SettingsSound

\* No entries, no requests.
LEMMA AnswersInit == InitCaches => AnswersSound
  BY DEF InitCaches, AnswersSound, WaitSound

\* Who refers to a computation after a step referred to it before, unless the
\* step is a request being made.
LEMMA OnlyAskRefers ==
    ASSUME CachesTypeOK, [Next]_vars, ~ \E q \in Reader : Ask(q)
    PROVE  /\ entries' \subseteq entries
           /\ \A q \in Reader : waits'[q] # NoOne =>
                waits'[q] = waits[q] /\ need'[q] = need[q]
<1> DEFINE Goal == /\ entries' \subseteq entries
                   /\ \A q \in Reader : waits'[q] # NoOne =>
                        waits'[q] = waits[q] /\ need'[q] = need[q]
<1>1. ASSUME UNCHANGED <<entries, waits, need>> PROVE Goal
  BY <1>1
<1>2. ASSUME NEW es, NEW ws, Keep(es, ws), es \subseteq entries,
             \A q \in Reader : ws[q] # NoOne => ws[q] = waits[q]
      PROVE  Goal
  BY <1>2 DEF Keep
<1>3. ASSUME NEW cs, Reject(cs) PROVE Goal
  <2> DEFINE es == {e \in entries : e[2] \notin cs}
             ws == [q \in Reader |-> IF waits[q] \in cs THEN NoOne ELSE waits[q]]
  <2>1. /\ Keep(es, ws)
        /\ es \subseteq entries
        /\ \A q \in Reader : ws[q] # NoOne => ws[q] = waits[q]
    BY <1>3 DEF Reject
  <2> HIDE DEF es, ws
  <2> QED BY <1>2, <2>1
<1>4. ASSUME NEW q \in Reader, Answer(q) PROVE Goal
  <2> DEFINE ws == [waits EXCEPT ![q] = NoOne]
  <2>1. Keep(entries, ws) /\ \A p \in Reader : ws[p] # NoOne => ws[p] = waits[p]
    BY <1>4 DEF Answer, CachesTypeOK
  <2> HIDE DEF ws
  <2> QED BY <1>2, <2>1
<1>5. ASSUME NEW e \in entries, Forget(e) PROVE Goal
  <2>1. Keep(entries \ {e}, waits)
    BY <1>5 DEF Forget
  <2> QED BY <1>2, <2>1
<1>6. ASSUME NEW c \in Computation, ComputationFails(c) PROVE Goal
  BY <1>3, <1>6 DEF ComputationFails
<1>7. ASSUME NEW l \in Loader, LoaderFails(l) PROVE Goal
  BY <1>3, <1>7 DEF LoaderFails
<1>8. ASSUME \/ WriteStep
             \/ \E l \in Loader, s \in Setting : LoadForOthers(l, s)
             \/ \E l \in Loader : LoaderReads(l) \/ LoaderReturns(l)
             \/ \E s \in Setting : ExpireSetting(s)
             \/ \E c \in Computation, r \in Row : ReadRow(c, r)
             \/ \E c \in Computation, s \in Setting : AskSetting(c, s)
             \/ UNCHANGED vars
      PROVE  UNCHANGED <<entries, waits, need>>
  BY <1>8 DEF WriteStep, Commit, Announce, InvalidateOther, LoadForOthers, LoaderReads,
              LoaderReturns, ExpireSetting, ReadRow, AskSetting, answerVars, vars
<1> QED BY <1>1, <1>4, <1>5, <1>6, <1>7, <1>8 DEF Next, SettingsStep, ReadStep

\* A request that is made now waits for a computation that misses nothing.
LEMMA AskSound ==
    ASSUME CachesTypeOK, SettingsSound, AnswersSound, NEW q \in Reader, Ask(q)
    PROVE  AnswersSound'
<1>0. /\ UNCHANGED <<db, staged, loader, version>>
      /\ Announced' = Announced
  BY AnnouncedKept DEF Ask, settingsVars
<1>1. PICK c \in Computation :
        /\ waits' = [waits EXCEPT ![q] = c]
        /\ \/ /\ <<version, c>> \in entries
              /\ UNCHANGED <<entries, computation>>
           \/ /\ Unused(c)
              /\ entries' = entries \union {<<version, c>>}
              /\ computation' = [computation EXCEPT ![c] = NothingRead]
  BY DEF Ask
<1>2. /\ waits'[q] = c
      /\ need'[q] = Announced
      /\ \A p \in Reader : p # q => waits'[p] = waits[p] /\ need'[p] = need[p]
  BY <1>1 DEF Ask, CachesTypeOK
<1>3. CASE <<version, c>> \in entries /\ UNCHANGED <<entries, computation>>
  <2>1. Fresh(c, Announced)
    BY <1>3 DEF AnswersSound, EntrySound
  <2>2. \A e \in entries' : EntrySound(e)'
    BY <1>0, <1>3 DEF AnswersSound, EntrySound, Fresh
  <2>3. WaitSound(q)'
    BY <1>0, <1>2, <1>3, <2>1 DEF WaitSound, Fresh
  <2>4. \A p \in Reader : p # q => WaitSound(p)'
    BY <1>0, <1>2, <1>3 DEF AnswersSound, WaitSound, Fresh
  <2> QED BY <2>2, <2>3, <2>4 DEF AnswersSound
<1>4. CASE /\ Unused(c)
           /\ entries' = entries \union {<<version, c>>}
           /\ computation' = [computation EXCEPT ![c] = NothingRead]
  <2>1. /\ computation'[c] = NothingRead
        /\ \A d \in Computation : d # c => computation'[d] = computation[d]
    BY <1>4 DEF CachesTypeOK
  <2>2. \A es : Fresh(c, es)'
    BY <2>1, NothingIsFresh
  <2>3. ASSUME NEW e \in entries' PROVE EntrySound(e)'
    <3>1. CASE e = <<version, c>>
      BY <1>0, <2>1, <3>1, RowsAssumption
         DEF CachesTypeOK, EntrySound, Fresh, Covers, NothingRead
    <3>2. CASE e \in entries
      <4>1. e[2] \in Computation /\ e[2] # c
        BY <1>4, <3>2 DEF CachesTypeOK, Unused
      <4> QED BY <1>0, <2>1, <3>2, <4>1 DEF AnswersSound, EntrySound, Fresh
    <3> QED BY <1>4, <3>1, <3>2
  <2>4. WaitSound(q)'
    BY <1>0, <1>2, <2>1, RowsAssumption DEF WaitSound, Fresh, Covers, NothingRead
  <2>5. ASSUME NEW p \in Reader, p # q PROVE WaitSound(p)'
    <3>1. waits[p] # NoOne => waits[p] \in Computation /\ waits[p] # c
      BY <1>4 DEF CachesTypeOK, Unused
    <3> QED BY <1>0, <1>2, <2>1, <2>5, <3>1 DEF AnswersSound, WaitSound, Fresh
  <2> QED BY <2>3, <2>4, <2>5 DEF AnswersSound
<1> QED BY <1>1, <1>3, <1>4

\* Every step keeps entries and requests sound.
LEMMA AnswersStepSound ==
    CachesTypeOK /\ SettingsSound /\ AnswersSound /\ [Next]_vars => AnswersSound'
<1> SUFFICES ASSUME CachesTypeOK, SettingsSound, AnswersSound, [Next]_vars
             PROVE  AnswersSound'
  OBVIOUS
<1>1. CASE \E q \in Reader : Ask(q)
  BY <1>1, AskSound
<1>2. CASE ~ \E q \in Reader : Ask(q)
  <2>1. ASSUME NEW e \in entries' PROVE EntrySound(e)'
    <3>1. e \in entries /\ e[2] \in Computation /\ EntrySound(e)
      BY <1>2, OnlyAskRefers DEF CachesTypeOK, AnswersSound
    <3>2. CASE version' = version
      <4>1. Announced' = Announced
        BY <3>2, AnnouncedGrows
      <4>2. PICK es : es = Announced
        OBVIOUS
      <4>3. e[1] = version => Fresh(e[2], es)'
        BY <3>1, <4>2, FreshKept DEF EntrySound
      <4>4. e[1] = version' => Fresh(e[2], Announced)'
        BY <3>2, <4>1, <4>2, <4>3 DEF Fresh
      <4> QED BY <3>1, <3>2, <4>4 DEF EntrySound
    <3>3. CASE version' # version
      <4>1. version' = version + 1
        BY <3>3 DEF Next, WriteStep, SettingsStep, ReadStep, Commit, Announce,
                    InvalidateOther, LoadForOthers, LoaderReads, LoaderReturns,
                    LoaderFails, ExpireSetting, Ask, ReadRow, AskSetting, Answer,
                    Forget, ComputationFails, answerVars, vars
      <4> QED BY <3>1, <4>1 DEF EntrySound, CachesTypeOK
    <3> QED BY <3>2, <3>3
  <2>2. ASSUME NEW q \in Reader, waits'[q] # NoOne PROVE WaitSound(q)'
    <3>1. waits'[q] = waits[q] /\ need'[q] = need[q]
      BY <1>2, <2>2, OnlyAskRefers
    <3>2. /\ waits[q] \in Computation
          /\ need[q] \subseteq Announced
          /\ Fresh(waits[q], need[q])
      BY <2>2, <3>1 DEF AnswersSound, WaitSound, CachesTypeOK
    <3>3. PICK c \in Computation : c = waits[q]
      BY <3>2
    <3>4. PICK es : es = need[q]
      OBVIOUS
    <3>5. Fresh(c, es)'
      BY <3>2, <3>3, <3>4, FreshKept
    <3>6. need'[q] \subseteq Announced'
      BY <3>1, <3>2, AnnouncedGrows
    <3> QED BY <3>1, <3>3, <3>4, <3>5, <3>6 DEF WaitSound, Fresh
  <2> QED BY <2>1, <2>2 DEF AnswersSound, WaitSound
<1> QED BY <1>1, <1>2

\* Every step of the writers, of the caches and of the readers keeps it.
THEOREM Invariance == Spec => []IInv
<1>1. InitCaches => IInv
  BY TypeInit, SettingsInit, AnswersInit DEF IInv
<1>2. IInv /\ [Next]_vars => IInv'
  BY TypeStep, SettingsStepSound, AnswersStepSound DEF IInv
<1> QED BY <1>1, <1>2, PTL DEF Spec

\* A setting served from memory holds every commit whose event has been
\* dispatched, however productions, invalidations and expiry interleave.
THEOREM SettingsAreFresh == Spec => []StoreIsFresh
<1>1. IInv => StoreIsFresh
  BY DEF IInv, SettingsSound
<1> QED BY <1>1, Invariance, PTL

\* What a new request would be given from memory misses no dispatched commit.
THEOREM KeptAnswersAreFresh == Spec => []EntriesAreFresh
<1>1. IInv => EntriesAreFresh
  BY DEF IInv, AnswersSound, EntrySound, EntriesAreFresh, Fresh
<1> QED BY <1>1, Invariance, PTL

\* Whoever asks after a change was announced gets an answer with the change.
THEOREM WhoAsksSeesTheChange == Spec => []AnswersAreFresh
<1>1. IInv => AnswersAreFresh
  BY DEF IInv, AnswersSound, WaitSound, AnswersAreFresh, Fresh
<1> QED BY <1>1, Invariance, PTL

(****************************************************************************)
(* The screens                                                              *)
(****************************************************************************)

\* The socket is in the room only while the server knows it, and a screen is
\* covered only while it is in the room.
RoomSound ==
    /\ server = "none" => ~inRoom
    /\ covered # {} => inRoom

\* Only open screens are covered or have a refresh waiting.
OpenSound ==
    \A s \in Screens : s \in covered \/ screen[s].timer => screen[s].open

\* A message that tells of a change is on its way to the browser.
Underway(messages) == \E i \in DOMAIN messages : messages[i] = "changed"

\* The screen has, or is about to ask for, all that was announced.
Assured(entry, newest) ==
    \/ entry.timer
    \/ entry.fetch = Asked
    \/ entry.fetch.at = "answered" /\ entry.fetch.v >= newest
    \/ entry.fetch = Idle /\ entry.data >= newest

\* The inductive invariant.
LiveInv == ScreensTypeOK /\ RoomSound /\ OpenSound /\ NothingIsMissed

Messages == {"connect", "ready", "readyNowhere", "changed"}

\* A message behind the one that was received is still on its way.
LEMMA TailIsUnderway ==
    ASSUME NEW messages \in Seq(Messages), messages # <<>>,
           Head(messages) # "changed", Underway(messages)
    PROVE  Underway(Tail(messages))
  <1>1. PICK i \in DOMAIN messages : messages[i] = "changed"
    BY DEF Underway
  <1>2. i # 1
    BY <1>1
  <1>3. i - 1 \in DOMAIN Tail(messages) /\ Tail(messages)[i - 1] = messages[i]
    BY <1>1, <1>2
  <1> QED
    BY <1>1, <1>3 DEF Underway

\* A message that is sent takes none from the way, and "changed" is one.
LEMMA AppendIsUnderway ==
    ASSUME NEW messages \in Seq(Messages), NEW message \in Messages,
           Underway(messages) \/ message = "changed"
    PROVE  Underway(Append(messages, message))
  <1>1. CASE Underway(messages)
    <2>1. PICK i \in DOMAIN messages : messages[i] = "changed"
      BY <1>1 DEF Underway
    <2>2. i \in DOMAIN Append(messages, message) /\ Append(messages, message)[i] = messages[i]
      BY <2>1
    <2> QED
      BY <2>1, <2>2 DEF Underway
  <1>2. CASE message = "changed"
    <2>1. /\ Len(messages) + 1 \in DOMAIN Append(messages, message)
          /\ Append(messages, message)[Len(messages) + 1] = message
      OBVIOUS
    <2> QED
      BY <1>2, <2>1 DEF Underway
  <1> QED
    BY <1>1, <1>2

\* What a covered screen is promised, by entry.
LEMMA MissedIs ==
    NothingIsMissed <=> \A s \in covered : Underway(wire) \/ Assured(screen[s], said)
  BY DEF NothingIsMissed, Underway, Assured

\* The same of the next state.
LEMMA MissedNextIs ==
    NothingIsMissed' <=> \A s \in covered' : Underway(wire') \/ Assured(screen'[s], said')
  BY DEF NothingIsMissed, Underway, Assured

\* A request under way is assured, whatever has been announced.
LEMMA AskedIsAssured ==
    ASSUME NEW entry, NEW newest, entry.fetch = Asked
    PROVE  Assured(entry, newest)
  BY DEF Assured

\* The initial state: nothing is covered.
LEMMA LiveInit == Init => LiveInv
  <1> SUFFICES ASSUME Init PROVE LiveInv
    OBVIOUS
  <1>1. ScreensTypeOK
    <2>1. Closed \in Entry
      BY DEF Closed, Idle, NoData, Entry
    <2>2. screen \in [Screens -> Entry]
      BY <2>1 DEF Init
    <2>3. requests \in Seq({"subscribe", "unsubscribe"}) /\ wire \in Seq(Messages)
      BY DEF Init
    <2>4. committed \in Nat /\ said \in Nat /\ troubles \in Nat
      BY DEF Init, FirstVersion
    <2> QED
      BY <2>2, <2>3, <2>4 DEF Init, ScreensTypeOK, Messages
  <1>2. RoomSound /\ OpenSound /\ NothingIsMissed
    BY DEF Init, RoomSound, OpenSound, NothingIsMissed, Closed
  <1> QED
    BY <1>1, <1>2 DEF LiveInv

\* Steps of the hotel and of the server, which leave the screens alone.
LEMMA HotelKeeps ==
    ASSUME LiveInv, Change \/ \E v \in Changed : Broadcast(v)
    PROVE  LiveInv'
  <1> USE DEF LiveInv
  <1>1. ScreensTypeOK'
    <2>1. CASE Change
      BY <2>1 DEF Change, ScreensTypeOK, linkVars
    <2>2. ASSUME NEW v \in Changed, Broadcast(v) PROVE ScreensTypeOK'
      <3>1. v \in Nat /\ said' \in Nat /\ unsaid' \subseteq Nat
        BY <2>2 DEF Broadcast, ScreensTypeOK
      <3>2. wire' \in Seq(Messages)
        BY <2>2 DEF Broadcast, ScreensTypeOK, Messages
      <3> QED
        BY <2>2, <3>1, <3>2 DEF Broadcast, ScreensTypeOK, Messages
    <2> QED
      BY <2>1, <2>2
  <1>2. RoomSound' /\ OpenSound'
    BY DEF Change, Broadcast, linkVars, RoomSound, OpenSound
  <1>3. NothingIsMissed'
    <2>1. CASE Change
      BY <2>1 DEF Change, linkVars, NothingIsMissed
    <2>2. ASSUME NEW v \in Changed, Broadcast(v), covered' # {} PROVE Underway(wire')
      <3>1. inRoom /\ wire' = Append(wire, "changed") /\ wire \in Seq(Messages)
        BY <2>2 DEF Broadcast, RoomSound, ScreensTypeOK, Messages
      <3> QED
        BY <3>1, AppendIsUnderway DEF Messages
    <2> QED
      BY <2>1, <2>2, MissedNextIs
  <1> QED
    BY <1>1, <1>2, <1>3

LEMMA ServerKeeps ==
    ASSUME LiveInv, Server \/ Break
    PROVE  LiveInv'
  <1> USE DEF LiveInv
  <1>1. wire \in Seq(Messages) /\ requests \in Seq({"subscribe", "unsubscribe"})
    BY DEF ScreensTypeOK, Messages
  <1>2. CASE Accept
    <2>1. wire' \in Seq(Messages) /\ covered' = {}
      BY <1>2 DEF Accept, RoomSound, Messages
    <2> QED
      BY <1>2, <2>1, MissedNextIs
         DEF Accept, dataVars, ScreensTypeOK, Messages, RoomSound, OpenSound
  <1>3. CASE JoinContext
    <2>1. PICK message \in {"ready", "readyNowhere"} : wire' = Append(wire, message)
      BY <1>3 DEF JoinContext
    <2>2. wire' \in Seq(Messages)
      BY <1>1, <2>1 DEF Messages
    <2>3. server' \in {"joined", "failed"} /\ troubles' \in Nat
      BY <1>3 DEF JoinContext, Trouble, ScreensTypeOK
    <2>4. ScreensTypeOK'
      BY <1>3, <2>2, <2>3 DEF JoinContext, dataVars, ScreensTypeOK, Messages
    <2>5. RoomSound' /\ OpenSound'
      BY <1>3, <2>3 DEF JoinContext, RoomSound, OpenSound
    <2>6. Underway(wire) => Underway(wire')
      BY <1>1, <2>1, AppendIsUnderway DEF Messages
    <2> QED
      BY <1>3, <2>4, <2>5, <2>6, MissedIs, MissedNextIs DEF JoinContext, dataVars
  <1>4. CASE HandleRequest
    <2>0. /\ requests' \in Seq({"subscribe", "unsubscribe"})
          /\ covered' \subseteq covered
          /\ covered' # {} => inRoom'
      BY <1>1, <1>4 DEF HandleRequest
    <2>1. inRoom' \in BOOLEAN
      BY <1>4, Zenon DEF HandleRequest, ScreensTypeOK
    <2>2. ScreensTypeOK'
      BY <1>4, <2>0, <2>1 DEF HandleRequest, dataVars, ScreensTypeOK
    <2>3. RoomSound' /\ OpenSound'
      BY <1>4, <2>0 DEF HandleRequest, RoomSound, OpenSound
    <2> QED
      BY <1>4, <2>0, <2>2, <2>3, MissedIs, MissedNextIs DEF HandleRequest, dataVars
  <1>5. CASE Break
    <2>0. /\ requests' \in Seq({"subscribe", "unsubscribe"}) /\ wire' \in Seq(Messages)
          /\ troubles' \in Nat
      BY <1>5 DEF Break, Trouble, ScreensTypeOK
    <2>1. ScreensTypeOK'
      BY <1>5, <2>0 DEF Break, dataVars, ScreensTypeOK, Messages
    <2>2. RoomSound' /\ OpenSound' /\ covered' = {}
      BY <1>5 DEF Break, dataVars, RoomSound, OpenSound
    <2> QED
      BY <2>1, <2>2, MissedNextIs
  <1> QED
    BY <1>2, <1>3, <1>4, <1>5 DEF Server

\* One screen's entry changes, the others' stay.
LEMMA OneChanges ==
    ASSUME ScreensTypeOK, NEW s \in Screens, NEW entry \in Entry,
           screen' = [screen EXCEPT ![s] = entry]
    PROVE  /\ screen' \in [Screens -> Entry]
           /\ screen'[s] = entry
           /\ \A r \in Screens \ {s} : screen'[r] = screen[r]
  BY DEF ScreensTypeOK

\* What one screen's step must see to: types, an open screen behind a timer
\* and behind its cover, and the promise to that screen.
LEMMA ScreenStepKeeps ==
    ASSUME LiveInv, NEW s \in Screens, NEW entry \in Entry,
           screen' = [screen EXCEPT ![s] = entry],
           covered' \in {covered, covered \ {s}, Covered({s})},
           missed' \subseteq Screens, troubles' \in Nat,
           requests' \in Seq({"subscribe", "unsubscribe"}),
           UNCHANGED <<dataVars, server, inRoom, wire, connected>>,
           entry.timer \/ s \in covered' => entry.open,
           s \in covered' => Underway(wire) \/ Assured(entry, said)
    PROVE  LiveInv'
  <1> USE DEF LiveInv
  <1>1. /\ screen' \in [Screens -> Entry]
        /\ screen'[s] = entry
        /\ \A r \in Screens \ {s} : screen'[r] = screen[r]
    BY OneChanges
  <1>2. /\ covered' \subseteq Screens
        /\ covered' # {} => inRoom
        /\ \A r \in covered' \ {s} : r \in covered
    BY DEF Covered, ScreensTypeOK, RoomSound
  <1>3. ScreensTypeOK'
    BY <1>1, <1>2 DEF ScreensTypeOK, dataVars
  <1>4. RoomSound' /\ OpenSound'
    BY <1>1, <1>2 DEF RoomSound, OpenSound
  <1>5. NothingIsMissed'
    BY <1>1, <1>2, MissedIs, MissedNextIs DEF dataVars
  <1> QED
    BY <1>3, <1>4, <1>5

\* Entries as the steps of the queries and the hook make them.
LEMMA EntriesTyped ==
    ASSUME NEW entry \in Entry
    PROVE  /\ Fetching(entry) \in Entry
           /\ Fetching(entry).fetch = Asked
           /\ Fetching(entry).open = entry.open /\ Fetching(entry).timer = entry.timer
           /\ \A v \in Nat : /\ [entry EXCEPT !.fetch = Answered(v)] \in Entry
                             /\ Answered(v).at = "answered" /\ Answered(v).v = v
           /\ [entry EXCEPT !.stale = TRUE, !.fetch = Idle] \in Entry
           /\ [entry EXCEPT !.timer = FALSE] \in Entry
           /\ [entry EXCEPT !.data = entry.fetch.v, !.stale = FALSE, !.fetch = Idle] \in Entry
  BY DEF Entry, Fetching, Asked, Idle, Answered, NoData

\* The entry of a screen that is told "ready".
Told(entry, waiting) == [entry EXCEPT !.timer = waiting, !.once = TRUE]

LEMMA ToldTyped ==
    ASSUME NEW entry \in Entry, NEW waiting \in BOOLEAN
    PROVE  /\ Told(entry, waiting) \in Entry
           /\ Told(entry, waiting).timer = waiting
           /\ Told(entry, waiting).open = entry.open
           /\ Told(entry, waiting).fetch = entry.fetch
           /\ Told(entry, waiting).data = entry.data
  BY DEF Entry, Told

\* Reading, receiving, failing and polling.
LEMMA QueryKeeps ==
    ASSUME LiveInv, NEW s \in Screens,
           Query(s) \/ FetchFails(s) \/ Poll(s) \/ Collect(s)
    PROVE  LiveInv'
  <1> USE DEF LiveInv
  <1>0. /\ screen[s] \in Entry /\ said \in Nat /\ committed \in Nat
        /\ troubles \in Nat /\ missed \subseteq Screens
        /\ requests \in Seq({"subscribe", "unsubscribe"})
        /\ screen[s].timer \/ s \in covered => screen[s].open
        /\ s \in covered => Underway(wire) \/ Assured(screen[s], said)
    BY MissedIs DEF ScreensTypeOK, OpenSound
  <1>1. CASE Read(s)
    <2>1. PICK v \in said..committed : screen' = [screen EXCEPT ![s].fetch = Answered(v)]
      BY <1>1 DEF Read
    <2> DEFINE entry == [screen[s] EXCEPT !.fetch = Answered(v)]
    <2>2. v \in Nat /\ v >= said
      BY <1>0, <2>1
    <2>3. /\ entry \in Entry /\ screen' = [screen EXCEPT ![s] = entry]
          /\ entry.open = screen[s].open /\ entry.timer = screen[s].timer
          /\ entry.fetch = Answered(v)
      BY <1>0, <2>1, <2>2, EntriesTyped DEF Entry
    <2> HIDE DEF entry
    <2>4. Assured(entry, said)
      BY <2>2, <2>3 DEF Assured, Answered
    <2> QED
      BY <1>0, <1>1, <2>3, <2>4, ScreenStepKeeps DEF Read, linkVars
  <1>2. CASE Receive(s)
    <2> DEFINE entry == [screen[s] EXCEPT !.data = screen[s].fetch.v, !.stale = FALSE,
                                          !.fetch = Idle]
    <2>0. entry \in Entry
      BY <1>0, EntriesTyped
    <2>1. /\ screen' = [screen EXCEPT ![s] = entry]
          /\ entry.open = screen[s].open /\ entry.timer = screen[s].timer
          /\ entry.fetch = Idle /\ entry.data = screen[s].fetch.v
      BY <1>0, <1>2 DEF Receive, Entry
    <2>2. Assured(screen[s], said) => Assured(entry, said)
      BY <1>2, <2>1 DEF Assured, Receive, Asked, Idle
    <2> HIDE DEF entry
    <2> QED
      BY <1>0, <1>2, <2>0, <2>1, <2>2, ScreenStepKeeps DEF Receive, linkVars
  <1>3. CASE FetchFails(s)
    <2> DEFINE entry == [screen[s] EXCEPT !.stale = TRUE, !.fetch = Idle]
    <2>0. entry \in Entry
      BY <1>0, EntriesTyped
    <2>1. /\ screen' = [screen EXCEPT ![s] = entry]
          /\ entry.open = screen[s].open /\ entry.timer = screen[s].timer
      BY <1>0, <1>3 DEF FetchFails, Entry
    <2>2. s \notin covered' /\ missed' \subseteq Screens /\ troubles' \in Nat
      BY <1>0, <1>3 DEF FetchFails, Trouble
    <2> HIDE DEF entry
    <2> QED
      BY <1>0, <1>3, <2>0, <2>1, <2>2, ScreenStepKeeps DEF FetchFails, linkVars
  <1>4. CASE Poll(s)
    <2> DEFINE entry == Fetching(screen[s])
    <2>1. screen' = [screen EXCEPT ![s] = entry] /\ screen[s].open = TRUE
      BY <1>0, <1>4 DEF Poll, Entry
    <2>2. entry \in Entry /\ entry.fetch = Asked /\ entry.open = screen[s].open
      BY <1>0, EntriesTyped
    <2> HIDE DEF entry
    <2>3. Assured(entry, said)
      BY <2>2, AskedIsAssured
    <2> QED
      BY <1>0, <1>4, <2>1, <2>2, <2>3, ScreenStepKeeps DEF Poll, linkVars
  <1>5. CASE Collect(s)
    <2>1. Closed \in Entry /\ ~Closed.timer /\ s \notin covered
      BY <1>0, <1>5 DEF Collect, Closed, Entry, Idle, NoData
    <2> QED
      BY <1>0, <1>5, <2>1, ScreenStepKeeps DEF Collect, linkVars
  <1> QED
    BY <1>1, <1>2, <1>3, <1>4, <1>5 DEF Query

\* A waiting refresh is done, or swallowed by the first fetch.
LEMMA FlushKeeps ==
    ASSUME LiveInv, NEW s \in Screens, Flush(s)
    PROVE  LiveInv'
  <1> USE DEF LiveInv
  <1>0. /\ screen[s] \in Entry /\ troubles \in Nat /\ missed \subseteq Screens
        /\ requests \in Seq({"subscribe", "unsubscribe"})
        /\ screen[s].timer \/ s \in covered => screen[s].open
    BY DEF ScreensTypeOK, OpenSound
  <1>1. CASE Swallows(s)
    <2> DEFINE entry == [screen[s] EXCEPT !.timer = FALSE]
    <2>1. /\ entry \in Entry /\ screen' = [screen EXCEPT ![s] = entry]
          /\ entry.timer = FALSE
      BY <1>0, <1>1, EntriesTyped DEF Flush, Entry
    <2>2. s \notin covered' /\ missed' \subseteq Screens
      BY <1>0, <1>1 DEF Flush
    <2> HIDE DEF entry
    <2> QED
      BY <1>0, <1>1, <2>1, <2>2, ScreenStepKeeps DEF Flush, linkVars
  <1>2. CASE ~Swallows(s)
    <2> DEFINE entry == [Fetching(screen[s]) EXCEPT !.timer = FALSE]
    <2>1. Fetching(screen[s]) \in Entry
      BY <1>0, EntriesTyped
    <2>2. /\ entry \in Entry /\ entry.timer = FALSE /\ entry.open = screen[s].open
          /\ entry.fetch = Asked
      <3>1. Fetching(screen[s]).open = screen[s].open /\ Fetching(screen[s]).fetch = Asked
        BY <1>0, EntriesTyped
      <3>2. entry \in Entry
        BY <2>1, EntriesTyped
      <3> QED
        BY <2>1, <3>1, <3>2 DEF Entry
    <2>3. screen' = [screen EXCEPT ![s] = entry] /\ missed' \subseteq Screens
      BY <1>0, <1>2 DEF Flush
    <2>4. Assured(entry, said) /\ entry.open
      BY <1>0, <2>2, AskedIsAssured DEF Flush
    <2> HIDE DEF entry
    <2> QED
      BY <1>0, <1>2, <2>2, <2>3, <2>4, ScreenStepKeeps DEF Flush, linkVars
  <1> QED
    BY <1>1, <1>2

\* What a screen asks of the socket is one of the two requests.
LEMMA RequestsTyped ==
    ASSUME ScreensTypeOK,
           Send("subscribe") \/ Send("unsubscribe") \/ UNCHANGED requests
    PROVE  requests' \in Seq({"subscribe", "unsubscribe"})
  BY DEF ScreensTypeOK, Send

\* A screen opens: with a fetch, or with what a fresh entry shows.
LEMMA MountKeeps ==
    ASSUME LiveInv, NEW s \in Screens, Mount(s)
    PROVE  LiveInv'
  <1> USE DEF LiveInv
  <1> DEFINE opened == [screen[s] EXCEPT !.open = TRUE, !.live = connected, !.once = connected]
  <1>0. /\ screen[s] \in Entry /\ troubles \in Nat /\ missed \subseteq Screens
        /\ connected \in BOOLEAN
        /\ s \notin covered
    BY DEF ScreensTypeOK, OpenSound, Mount
  <1>1. requests' \in Seq({"subscribe", "unsubscribe"})
    BY RequestsTyped DEF Mount
  <1>2. /\ opened \in Entry /\ opened.open = TRUE
    BY <1>0 DEF Entry
  <1>3. UNCHANGED <<dataVars, server, inRoom, wire, connected>> /\ troubles' = troubles
    BY DEF Mount
  <1>4. \/ /\ screen' = [screen EXCEPT ![s] = Fetching(opened)]
           /\ covered' = Covered({s}) /\ missed' = missed \ {s}
        \/ /\ screen' = [screen EXCEPT ![s] = opened]
           /\ UNCHANGED <<covered, missed>>
    BY DEF Mount
  <1> HIDE DEF opened
  <1>5. CASE /\ screen' = [screen EXCEPT ![s] = Fetching(opened)]
             /\ covered' = Covered({s}) /\ missed' = missed \ {s}
    <2>1. /\ Fetching(opened) \in Entry /\ Fetching(opened).open = TRUE
          /\ Assured(Fetching(opened), said)
      BY <1>2, EntriesTyped, AskedIsAssured
    <2> QED
      BY <1>0, <1>1, <1>3, <1>5, <2>1, ScreenStepKeeps
  <1>6. CASE /\ screen' = [screen EXCEPT ![s] = opened]
             /\ UNCHANGED <<covered, missed>>
    BY <1>0, <1>1, <1>2, <1>3, <1>6, ScreenStepKeeps
  <1> QED
    BY <1>4, <1>5, <1>6

\* A screen closes, and its waiting refresh with it.
LEMMA UnmountKeeps ==
    ASSUME LiveInv, NEW s \in Screens, Unmount(s)
    PROVE  LiveInv'
  <1> USE DEF LiveInv
  <1> DEFINE closed == [screen[s] EXCEPT !.open = FALSE, !.live = FALSE, !.once = FALSE,
                                         !.timer = FALSE]
  <1>0. /\ screen[s] \in Entry /\ troubles \in Nat /\ missed \subseteq Screens
    BY DEF ScreensTypeOK
  <1>1. requests' \in Seq({"subscribe", "unsubscribe"})
    BY RequestsTyped DEF Unmount
  <1>2. /\ closed \in Entry /\ closed.timer = FALSE
        /\ screen' = [screen EXCEPT ![s] = closed]
    BY <1>0 DEF Entry, Unmount
  <1>3. s \notin covered'
    BY DEF Unmount
  <1> QED
    BY <1>0, <1>1, <1>2, <1>3, ScreenStepKeeps DEF Unmount

\* A message changes the updated of the open screens, no screen's query, and
\* takes no timer away.
LEMMA MessageKeeps ==
    ASSUME LiveInv, NEW updated \in [Screens -> Entry], EachOpen(updated),
           \A s \in Open : /\ updated[s].open = screen[s].open
                           /\ updated[s].fetch = screen[s].fetch
                           /\ updated[s].data = screen[s].data
                           /\ screen[s].timer => updated[s].timer,
           requests' \in Seq({"subscribe", "unsubscribe"}),
           wire' \in Seq(Messages), connected' \in BOOLEAN,
           Underway(wire) => Underway(wire') \/ \A s \in Open : updated[s].timer,
           UNCHANGED <<dataVars, server, inRoom, covered, missed, troubles>>
    PROVE  LiveInv'
  <1> USE DEF LiveInv
  <1>1. /\ screen' \in [Screens -> Entry]
        /\ \A s \in Open : screen'[s] = updated[s]
        /\ \A s \in Screens \ Open : screen'[s] = screen[s]
    BY DEF EachOpen, ScreensTypeOK, Open
  <1>2. ScreensTypeOK'
    BY <1>1 DEF ScreensTypeOK, Messages, dataVars
  <1>3. RoomSound' /\ OpenSound'
    <2>1. \A s \in Screens : screen'[s].timer => screen[s].open
      BY <1>1 DEF Open, OpenSound
    <2>2. \A s \in Screens : screen'[s].open = screen[s].open
      BY <1>1
    <2> QED
      BY <2>1, <2>2 DEF RoomSound, OpenSound
  <1>4. ASSUME NEW s \in covered' PROVE Underway(wire') \/ Assured(screen'[s], said')
    <2>1. s \in covered /\ s \in Open
      BY DEF OpenSound, Open, ScreensTypeOK
    <2>2. Underway(wire) \/ Assured(screen[s], said)
      BY <2>1, MissedIs
    <2>3. Assured(screen[s], said) => Assured(screen'[s], said')
      BY <1>1, <2>1 DEF Assured, dataVars
    <2>4. updated[s].timer => Assured(screen'[s], said')
      BY <1>1, <2>1 DEF Assured
    <2> QED
      BY <2>1, <2>2, <2>3, <2>4
  <1> QED
    BY <1>2, <1>3, <1>4, MissedNextIs

\* What the browser does with each of its messages, and with a broken connection.
LEMMA BrowserKeeps ==
    ASSUME LiveInv, Browser
    PROVE  LiveInv'
  <1> USE DEF LiveInv
  <1>0. /\ wire \in Seq(Messages) /\ requests \in Seq({"subscribe", "unsubscribe"})
        /\ screen \in [Screens -> Entry] /\ connected \in BOOLEAN
        /\ Open \subseteq Screens
    BY DEF ScreensTypeOK, Messages, Open
  <1>1. CASE HandleConnect
    <2> DEFINE updated == [s \in Screens |-> [screen[s] EXCEPT !.live = TRUE]]
    <2>1. /\ updated \in [Screens -> Entry]
          /\ \A s \in Screens : /\ updated[s].open = screen[s].open
                                /\ updated[s].fetch = screen[s].fetch
                                /\ updated[s].data = screen[s].data
                                /\ updated[s].timer = screen[s].timer
      BY <1>0 DEF Entry
    <2>2. EachOpen(updated)
      BY <1>1 DEF HandleConnect
    <2>3. /\ wire # <<>> /\ Head(wire) # "changed" /\ wire' = Tail(wire)
          /\ connected' \in BOOLEAN
          /\ UNCHANGED <<dataVars, server, inRoom, covered, missed, troubles>>
      BY <1>1 DEF HandleConnect, Hears
    <2>4. requests' \in Seq({"subscribe", "unsubscribe"}) /\ wire' \in Seq(Messages)
      BY <1>0, <1>1, <2>3 DEF HandleConnect
    <2>5. Underway(wire) => Underway(wire')
      BY <1>0, <2>3, TailIsUnderway
    <2> HIDE DEF updated
    <2> QED
      BY <1>0, <2>1, <2>2, <2>3, <2>4, <2>5, MessageKeeps
  <1>2. CASE HandleReady
    <2>1. /\ wire # <<>> /\ Head(wire) # "changed" /\ wire' = Tail(wire)
          /\ UNCHANGED <<dataVars, server, inRoom, covered, missed, troubles, requests, connected>>
      BY <1>2 DEF HandleReady, Hears
    <2>2. wire' \in Seq(Messages)
      BY <1>0, <2>1
    <2>3. Underway(wire) => Underway(wire')
      BY <1>0, <2>1, TailIsUnderway
    <2>4. CASE Hears("ready")
      <3> DEFINE updated == [s \in Screens |-> [screen[s] EXCEPT !.timer = @ \/ screen[s].once,
                                                               !.once = TRUE]]
      <3>1. EachOpen(updated)
        BY <1>2, <2>4 DEF HandleReady, Hears
      <3>2. ASSUME NEW s \in Screens
            PROVE  /\ updated[s] \in Entry
                   /\ updated[s].open = screen[s].open
                   /\ updated[s].fetch = screen[s].fetch
                   /\ updated[s].data = screen[s].data
                   /\ screen[s].timer => updated[s].timer
        <4> DEFINE waiting == screen[s].timer \/ screen[s].once
        <4>1. waiting \in BOOLEAN /\ (screen[s].timer => waiting)
          BY Zenon
        <4>2. updated[s] = Told(screen[s], waiting)
          BY DEF Told
        <4> HIDE DEF updated, waiting
        <4>3. screen[s] \in Entry
          BY <1>0
        <4> DEFINE told == Told(screen[s], waiting)
        <4>4. /\ told \in Entry /\ told.timer = waiting /\ told.open = screen[s].open
              /\ told.fetch = screen[s].fetch /\ told.data = screen[s].data
          BY <4>1, <4>3, ToldTyped
        <4>5. updated[s] = told
          BY <4>2
        <4> HIDE DEF told
        <4> QED
          BY <4>1, <4>4, <4>5
      <3>4. updated \in [Screens -> Entry]
        <4> SUFFICES \A s \in Screens : updated[s] \in Entry
          OBVIOUS
        <4> QED
          BY <3>2
      <3> HIDE DEF updated
      <3> QED
        BY <1>0, <2>1, <2>2, <2>3, <3>1, <3>2, <3>4, MessageKeeps
    <2>5. CASE Hears("readyNowhere")
      <3> DEFINE updated == [s \in Screens |-> [screen[s] EXCEPT !.live = FALSE, !.once = TRUE]]
      <3>1. EachOpen(updated)
        BY <1>2, <2>5 DEF HandleReady, Hears
      <3>2. /\ updated \in [Screens -> Entry]
            /\ \A s \in Screens : /\ updated[s].open = screen[s].open
                                  /\ updated[s].fetch = screen[s].fetch
                                  /\ updated[s].data = screen[s].data
                                  /\ screen[s].timer => updated[s].timer
        BY <1>0 DEF Entry
      <3> HIDE DEF updated
      <3> QED
        BY <1>0, <2>1, <2>2, <2>3, <3>1, <3>2, MessageKeeps
    <2> QED
      BY <1>2, <2>4, <2>5 DEF HandleReady
  <1>3. CASE HandleChange
    <2> DEFINE updated == [s \in Screens |-> [screen[s] EXCEPT !.timer = TRUE]]
    <2>1. /\ updated \in [Screens -> Entry]
          /\ \A s \in Screens : /\ updated[s].open = screen[s].open
                                /\ updated[s].fetch = screen[s].fetch
                                /\ updated[s].data = screen[s].data
                                /\ updated[s].timer
      BY <1>0 DEF Entry
    <2>2. EachOpen(updated)
      BY <1>3 DEF HandleChange
    <2>3. /\ wire # <<>> /\ wire' = Tail(wire)
          /\ UNCHANGED <<dataVars, server, inRoom, covered, missed, troubles, requests, connected>>
      BY <1>3 DEF HandleChange, Hears
    <2>4. wire' \in Seq(Messages)
      BY <1>0, <2>3
    <2> HIDE DEF updated
    <2> QED
      BY <1>0, <2>1, <2>2, <2>3, <2>4, MessageKeeps
  <1>4. CASE HandleDisconnect
    <2> DEFINE updated == [s \in Screens |-> [screen[s] EXCEPT !.live = FALSE]]
    <2>1. /\ updated \in [Screens -> Entry]
          /\ \A s \in Screens : /\ updated[s].open = screen[s].open
                                /\ updated[s].fetch = screen[s].fetch
                                /\ updated[s].data = screen[s].data
                                /\ updated[s].timer = screen[s].timer
      BY <1>0 DEF Entry
    <2>2. EachOpen(updated)
      BY <1>4 DEF HandleDisconnect
    <2>3. UNCHANGED <<dataVars, server, inRoom, covered, missed, troubles, requests, wire>>
          /\ connected' \in BOOLEAN
      BY <1>4 DEF HandleDisconnect
    <2> HIDE DEF updated
    <2> QED
      BY <1>0, <2>1, <2>2, <2>3, MessageKeeps
  <1> QED
    BY <1>1, <1>2, <1>3, <1>4 DEF Browser

\* The invariant holds in every state.
THEOREM LiveInvariant == LiveSpec => []LiveInv
  <1>1. Init => LiveInv
    BY LiveInit
  <1>2. LiveInv /\ [LiveNext]_liveVars => LiveInv'
    <2> SUFFICES ASSUME LiveInv, [LiveNext]_liveVars PROVE LiveInv'
      OBVIOUS
    <2>1. CASE UNCHANGED liveVars
      BY <2>1 DEF liveVars, dataVars, linkVars, LiveInv, ScreensTypeOK, RoomSound, OpenSound,
                  NothingIsMissed
    <2>2. CASE LiveNext
      BY <2>2, HotelKeeps, ServerKeeps, BrowserKeeps, QueryKeeps, FlushKeeps, MountKeeps,
         UnmountKeeps DEF LiveNext
    <2> QED
      BY <2>1, <2>2
  <1> QED
    BY <1>1, <1>2, PTL DEF LiveSpec

\* Type correctness of the screens.
THEOREM ScreensTypeCorrect == LiveSpec => []ScreensTypeOK
  <1>1. LiveInv => ScreensTypeOK
    BY DEF LiveInv
  <1> QED
    BY <1>1, LiveInvariant, PTL

\* Whatever is announced to the room reaches every screen that asked inside it.
THEOREM ScreensMissNothing == LiveSpec => []NothingIsMissed
  <1>1. LiveInv => NothingIsMissed
    BY DEF LiveInv
  <1> QED
    BY <1>1, LiveInvariant, PTL

=============================================================================
