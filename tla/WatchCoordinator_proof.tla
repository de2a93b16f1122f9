----------------------- MODULE WatchCoordinator_proof -----------------------
(***************************************************************************)
(* Proofs about WatchCoordinator, for any contexts and any number of focus *)
(* changes, about the watchers of a set it starts (ResourceWatch), for any *)
(* objects, changes and lost watches, and about the context it starts with *)
(* (StartContext), for any contexts, probe results, sessions and crashes.  *)
(***************************************************************************)
EXTENDS WatchCoordinator, ResourceWatch, StartContext, Ordered_proof

\* The order of the three targets the coordinator holds: what it runs is not
\* newer than what it is about to run, and neither is newer than the newest
\* accepted request.
OrderInv ==
  /\ latest \in Target \cup {NoTarget}
  /\ pending \in Target \cup {NoTarget} /\ active \in Target \cup {NoTarget}
  /\ commands \subseteq Target /\ focus \in Target
  /\ hasRequest \in BOOLEAN /\ (hasRequest <=> latest # NoTarget)
  /\ pending # NoTarget =>
       /\ latest # NoTarget /\ pending.gen <= latest.gen
       /\ active # NoTarget => active.gen < pending.gen
  /\ active # NoTarget =>
       /\ latest # NoTarget /\ active.gen <= latest.gen
       /\ active.gen = latest.gen => active = latest

\* A step that starts a set starts the newest accepted one, later than the
\* set it replaces.
StartsNewer ==
  active' # active => active' = latest /\ (active # NoTarget => active'.gen > active.gen)

LEMMA NoTargetIsNone == NoTarget \notin Target
  BY ContextAssumption DEF NoTarget, Target

LEMMA OrderInit == Init => OrderInv
<1> SUFFICES ASSUME Init PROVE OrderInv
  OBVIOUS
<1>1. focus \in Target
  BY ContextAssumption DEF Init, Target
<1> QED BY <1>1 DEF Init, OrderInv

LEMMA OrderStep == ASSUME OrderInv, [Next]_vars PROVE OrderInv' /\ StartsNewer
<1> USE NoTargetIsNone DEF OrderInv, StartsNewer, request, ending, loop, watchers
<1>1. ASSUME NEW c \in Contexts, FocusContext(c) PROVE OrderInv' /\ StartsNewer
  BY <1>1 DEF FocusContext, Target
<1>2. ASSUME NEW t \in inbox, Deliver(t) PROVE OrderInv' /\ StartsNewer
  BY <1>2 DEF Deliver
<1>3. ASSUME NEW t \in commands, SwitchTo(t) PROVE OrderInv' /\ StartsNewer
  <2>1. CASE Newer(t)
    <3>1. t \in Target /\ t # NoTarget /\ latest' = t /\ hasRequest'
      BY <1>3, <2>1 DEF SwitchTo
    <3>2. hasRequest => latest.gen < t.gen /\ latest \in Target
      BY <2>1, <3>1 DEF Newer, Target
    <3>3. UNCHANGED <<pending, active, focus>> /\ commands' \subseteq Target
      BY <1>3 DEF SwitchTo
    <3>4. pending # NoTarget => pending \in Target /\ pending.gen \in Nat /\ pending.gen < t.gen
      BY <3>1, <3>2 DEF Target
    <3>5. active # NoTarget => active \in Target /\ active.gen \in Nat /\ active.gen < t.gen
      BY <3>1, <3>2 DEF Target
    <3>6. hasRequest' \in BOOLEAN
      BY <1>3, <2>1 DEF SwitchTo
    <3>7. /\ latest' \in Target \cup {NoTarget} /\ latest' # NoTarget
          /\ pending' \in Target \cup {NoTarget} /\ active' \in Target \cup {NoTarget}
          /\ hasRequest' \in BOOLEAN /\ (hasRequest' <=> latest' # NoTarget)
          /\ focus' \in Target
      BY <3>1, <3>3, <3>6
    <3>8. pending' # NoTarget =>
            /\ pending'.gen <= latest'.gen
            /\ active' # NoTarget => active'.gen < pending'.gen
      BY <3>1, <3>3, <3>4 DEF Target
    <3>9. active' # NoTarget =>
            /\ active'.gen <= latest'.gen
            /\ active'.gen = latest'.gen => active' = latest'
      BY <3>1, <3>3, <3>5 DEF Target
    <3> QED BY <3>3, <3>7, <3>8, <3>9
  <2>2. CASE ~Newer(t)
    BY <1>3, <2>2 DEF SwitchTo
  <2> QED BY <2>1, <2>2
<1>4. CASE Request
  <2>1. CASE latest = active
    BY <1>4, <2>1 DEF Request
  <2>2. CASE latest # active
    <3>1. pending' = latest /\ UNCHANGED <<latest, active, hasRequest, commands, focus>>
      BY <1>4, <2>2 DEF Request
    <3>2. latest # NoTarget => latest.gen \in Nat
      BY DEF Target
    <3>3. active # NoTarget => active.gen \in Nat /\ latest # NoTarget /\ active.gen < latest.gen
      BY <2>2, <3>2 DEF Target
    <3> QED BY <3>1, <3>2, <3>3
  <2> QED BY <2>1, <2>2
<1>5. CASE Fire
  <2>1. CASE pending = NoTarget
    BY <1>5, <2>1 DEF Fire
  <2>2. CASE pending # NoTarget /\ Superseded
    <3>1. pending' = latest /\ UNCHANGED <<latest, active, hasRequest, commands, focus>>
      BY <1>5, <2>2 DEF Fire
    <3>2. latest.gen \in Nat /\ pending.gen \in Nat
      BY <2>2 DEF Target
    <3>3. active # NoTarget => active.gen \in Nat /\ active.gen < latest.gen
      BY <2>2, <3>2 DEF Target
    <3> QED BY <2>2, <3>1, <3>2, <3>3
  <2>3. CASE pending # NoTarget /\ ~Superseded
    <3>1. /\ pending' = NoTarget /\ active' = latest /\ latest \in Target
          /\ UNCHANGED <<latest, hasRequest, commands, focus>>
      BY <1>5, <2>3 DEF Fire, Superseded
    <3>2. active # NoTarget => active.gen < latest.gen
      BY <2>3 DEF Superseded
    <3> QED BY <3>1, <3>2 DEF Target
  <2> QED BY <2>1, <2>2, <2>3
<1>6. CASE Signal \/ Stop \/ Close \/ ParentDone
  BY <1>6 DEF Signal, Stop, Close, ParentDone
<1>7. ASSUME NEW t \in forwarders, Forward(t) \/ ForwarderExit(t) PROVE OrderInv' /\ StartsNewer
  BY <1>7 DEF Forward, ForwarderExit
<1>8. CASE UNCHANGED vars
  BY <1>8 DEF vars
<1> QED BY <1>1, <1>2, <1>3, <1>4, <1>5, <1>6, <1>7, <1>8 DEF Next

\* No set of watchers is started for a request that is not the newest accepted
\* one, or older than the running set, however commands are reordered.
THEOREM NewestStarts == Spec => NoStaleStart
<1>1. OrderInv /\ [Next]_vars => [StartsNewer]_vars
  BY OrderStep
<1>2. OrderInv /\ [Next]_vars => OrderInv'
  BY OrderStep
<1> QED BY OrderInit, <1>1, <1>2, PTL DEF Spec, NoStaleStart, StartsNewer

\* Rows of another cluster or an earlier visit never enter the tables.
THEOREM OnlyCurrentRows == Spec => []RowsCurrent
<1>1. Init => RowsCurrent
  BY DEF Init, RowsCurrent
<1>2. RowsCurrent /\ [Next]_vars => RowsCurrent'
  BY DEF RowsCurrent, Next, vars, FocusContext, ClearFocusedState, Deliver, Current, SwitchTo, Signal,
     Request, Fire, Stop, Close, ParentDone, Forward, ForwarderExit
<1> QED BY <1>1, <1>2, PTL DEF Spec

LEMMA TypeStep == ASSUME TypeOK, [Next]_vars PROVE TypeOK'
<1> USE NoTargetIsNone DEF TypeOK, request, ending, loop, watchers
<1>1. ASSUME NEW c \in Contexts, FocusContext(c) PROVE TypeOK'
  BY <1>1 DEF FocusContext, ClearFocusedState, Target
<1>2. ASSUME NEW t \in inbox, Deliver(t) PROVE TypeOK'
  BY <1>2 DEF Deliver
<1>3. ASSUME NEW t \in commands, SwitchTo(t) PROVE TypeOK'
  <2>1. t \in Target /\ commands' \subseteq Target
    BY <1>3 DEF SwitchTo
  <2>2. /\ latest' \in Target \cup {NoTarget} /\ hasRequest' \in BOOLEAN
        /\ signalling' \in Nat
    <3>1. CASE Newer(t)
      <4>1. latest' = t /\ signalling' = signalling + 1
        BY <1>3, <3>1 DEF SwitchTo
      <4>2. hasRequest' = TRUE
        BY <1>3, <3>1 DEF SwitchTo
      <4> QED BY <2>1, <4>1, <4>2
    <3>2. CASE ~Newer(t)
      BY <1>3, <3>2 DEF SwitchTo
    <3> QED BY <3>1, <3>2
  <2> QED BY <1>3, <2>1, <2>2 DEF SwitchTo
<1>4. CASE Signal
  BY <1>4 DEF Signal, AddToken
<1>5. CASE Request
  BY <1>5 DEF Request
<1>6. CASE Fire
  BY <1>6 DEF Fire, SpawnFor, SpawnWatchers
<1>7. CASE Stop \/ Close \/ ParentDone
  BY <1>7 DEF Stop, Leave, Close, ParentDone
<1>8. ASSUME NEW t \in forwarders, Forward(t) \/ ForwarderExit(t) PROVE TypeOK'
  BY <1>8 DEF Forward, ForwarderExit
<1>9. CASE UNCHANGED vars
  BY <1>9 DEF vars
<1> QED BY <1>1, <1>2, <1>3, <1>4, <1>5, <1>6, <1>7, <1>8, <1>9 DEF Next

\* The coordinator, the gate and the forwarders keep their types.
THEOREM TypeCorrect == Spec => []TypeOK
<1>1. ASSUME Init PROVE TypeOK
  <2>1. focus \in Target
    BY <1>1, ContextAssumption DEF Init, Target
  <2>2. /\ rows \subseteq Target /\ commands \subseteq Target
        /\ live \subseteq Target /\ forwarders \subseteq Target /\ inbox \subseteq Target
        /\ latest \in Target \cup {NoTarget}
        /\ pending \in Target \cup {NoTarget} /\ active \in Target \cup {NoTarget}
    BY <1>1, <2>1 DEF Init
  <2>3. signalling \in Nat /\ reqCh \in 0..1 /\ lpc = "select" /\ timer = "off"
    BY <1>1 DEF Init
  <2>4. hasRequest \in BOOLEAN /\ stopCh \in BOOLEAN /\ parentDone \in BOOLEAN
    BY <1>1 DEF Init
  <2> QED BY <2>1, <2>2, <2>3, <2>4 DEF TypeOK
<1> QED BY <1>1, TypeStep, PTL DEF Spec

\* Whatever set of watchers runs is the one loop believes in: a replaced set
\* was cancelled, and a set started after the program ended never runs.
THEOREM OneSetLives == Spec => []OneLiveSet
<1>1. Init => OneLiveSet
  BY DEF Init, OneLiveSet
<1>2. OneLiveSet /\ [Next]_vars => OneLiveSet'
  BY DEF OneLiveSet, Next, vars, request, ending, loop, watchers, FocusContext, Deliver,
     SwitchTo, Signal, Request, Fire, SpawnFor, Stop, Leave, Close, ParentDone, Forward,
     ForwarderExit
<1> QED BY <1>1, <1>2, PTL DEF Spec

-----------------------------------------------------------------------------
(* The watchers of a started set.  What each one makes of its informer's   *)
(* cache, for any parameters and any number of them.                       *)

LEMMA RowsInitially == WatchInit => RowsInv
<1> SUFFICES ASSUME WatchInit PROVE RowsInv
  OBVIOUS
<1>1. MaxUid \in Nat /\ 1 \in 1..MaxUid /\ 1 \in 0..MaxUid /\ 0 \in 0..MaxUid
  BY WatchAssumption
<1>2. NoObject \in Object /\ [uid |-> 1, version |-> 1, label |-> TRUE] \in Object
  BY <1>1 DEF NoObject, Object
<1>3. /\ objects \in [ObjectNames -> Object]
      /\ \A n \in ObjectNames : objects[n].uid <= 1
      /\ OneName(objects)
  <2>1. objects \in [ObjectNames -> Object]
    BY <1>2 DEF WatchInit
  <2>2. \A n \in ObjectNames : objects[n].uid <= 1
    BY DEF WatchInit, NoObject
  <2>3. OneName(objects)
    BY DEF WatchInit, NoObject, OneName
  <2> QED BY <2>1, <2>2, <2>3
<1>4. NewWatcher \in [phase : Phases, cache : [ObjectNames -> Object], follows : BOOLEAN]
  BY <1>2 DEF NewWatcher, Phases
<1>5. NoEvent \in [kind : {"none", "set", "deleted"}, version : Nat]
  BY DEF NoEvent
<1>6. WatchTypeOK
  BY <1>1, <1>3, <1>4, <1>5 DEF WatchInit, WatchTypeOK
<1>7. ASSUME NEW w \in group
      PROVE  OneName(watcher[w].cache) /\ RowsOfCache(w) /\ ~watcher[w].follows
  <2>1. watcher[w] = NewWatcher /\ \A u \in ObjectUids : Due(w, u) = 0
    BY <1>7 DEF WatchInit, Due
  <2>2. ~NewWatcher.follows /\ \A n \in ObjectNames : NewWatcher.cache[n].uid = 0
    BY DEF NewWatcher, NoObject
  <2> QED BY <2>1, <2>2 DEF OneName, RowsOfCache
<1> QED BY <1>3, <1>6, <1>7 DEF RowsInv, WatchInit

\* Going from one cache to another, a watcher tells what the rows need to follow,
\* and what it does not tell is counted as merged.
LEMMA TellsEnough ==
  ASSUME RowsInv, NEW w \in group, NEW new \in [ObjectNames -> Object], OneName(new), NEW seen,
         watcher'[w].cache = new, tableRows'[w] = tableRows[w],
         onItsWay'[w] = Told(w, onItsWay[w], watcher[w].cache, new, seen),
         merged'[w] = merged[w] \cup Untold(w, watcher[w].cache, new)
  PROVE  /\ onItsWay'[w] \in [ObjectUids -> [kind : {"none", "set", "deleted"}, version : Nat]]
         /\ merged'[w] \in SUBSET ObjectUids
         /\ RowsOfCache(w)'
<1> DEFINE old == watcher[w].cache
           set(u) == {n \in ObjectNames : new[n].uid = u /\ new[n] # old[n] /\ Forwarded(w, new[n])}
           gone(u) == \E n \in ObjectNames : old[n].uid = u /\ Gone(w, old[n], new[n], seen)
           way == onItsWay'[w]
<1>1. /\ old \in [ObjectNames -> Object] /\ OneName(old) /\ RowsOfCache(w) /\ MaxUid \in Nat
      /\ onItsWay[w] \in [ObjectUids -> [kind : {"none", "set", "deleted"}, version : Nat]]
      /\ merged[w] \in SUBSET ObjectUids
  BY WatchAssumption DEF RowsInv, WatchTypeOK
<1> HIDE DEF old
<1>2. DOMAIN way = ObjectUids
  BY DEF Told
<1>3. ASSUME NEW u \in ObjectUids
      PROVE  way[u] = IF set(u) # {} THEN [kind |-> "set", version |-> new[CHOOSE n \in set(u) : TRUE].version]
                      ELSE IF gone(u) THEN [kind |-> "deleted", version |-> 0] ELSE onItsWay[w][u]
  BY DEF Told, old
<1>4. ASSUME NEW u \in ObjectUids, NEW n \in set(u)
      PROVE  way[u] = [kind |-> "set", version |-> new[n].version]
  <2>1. u # 0
    BY DEF ObjectUids
  <2>2. \A o \in set(u) : o = n
    BY <2>1 DEF OneName
  <2>3. set(u) # {} /\ (CHOOSE o \in set(u) : TRUE) = n
    BY <2>2
  <2> QED BY <1>3, <2>3
<1>5. way \in [ObjectUids -> [kind : {"none", "set", "deleted"}, version : Nat]]
  <2>1. ASSUME NEW u \in ObjectUids
        PROVE  way[u] \in [kind : {"none", "set", "deleted"}, version : Nat]
    <3>1. CASE set(u) # {}
      <4>1. PICK n \in set(u) : TRUE
        BY <3>1
      <4>2. n \in ObjectNames /\ new[n] \in Object
        OBVIOUS
      <4>3. new[n].version \in Nat
        BY <4>2 DEF Object
      <4>4. way[u] = [kind |-> "set", version |-> new[n].version]
        BY <1>4, <4>1
      <4> QED BY <4>3, <4>4
    <3>2. CASE set(u) = {} /\ gone(u)
      <4>1. way[u] = [kind |-> "deleted", version |-> 0]
        BY <1>3, <3>2
      <4> QED BY <4>1
    <3>3. CASE set(u) = {} /\ ~gone(u)
      <4>1. way[u] = onItsWay[w][u]
        BY <1>3, <3>3
      <4> QED BY <1>1, <4>1
    <3> QED BY <3>1, <3>2, <3>3
  <2>2. way = [u \in ObjectUids |-> way[u]]
    BY DEF Told
  <2> QED BY <2>1, <2>2
<1>6. merged'[w] \in SUBSET ObjectUids
  <2>1. \A n \in ObjectNames : old[n].uid # 0 => old[n].uid \in ObjectUids
    BY <1>1 DEF Object, ObjectUids
  <2>2. Untold(w, old, new) \subseteq ObjectUids
    BY <2>1 DEF Untold
  <2> QED BY <1>1, <2>2 DEF old
<1>7. ASSUME NEW u \in ObjectUids
      PROVE  /\ \A n \in set(u) : Due(w, u)' = new[n].version
             /\ set(u) = {} /\ gone(u) => Due(w, u)' = 0
             /\ set(u) = {} /\ ~gone(u) => Due(w, u)' = Due(w, u)
  <2>1. /\ Due(w, u)' = IF way[u] = NoEvent THEN tableRows[w][u] ELSE way[u].version
        /\ Due(w, u) = IF onItsWay[w][u] = NoEvent THEN tableRows[w][u] ELSE onItsWay[w][u].version
    BY DEF Due, NoEvent
  <2> HIDE DEF way, set, gone
  <2>2. ASSUME NEW n \in set(u) PROVE Due(w, u)' = new[n].version
    <3>1. way[u] = [kind |-> "set", version |-> new[n].version]
      BY <1>4
    <3>2. way[u] # NoEvent /\ way[u].version = new[n].version
      BY <3>1 DEF NoEvent
    <3> QED BY <2>1, <3>2
  <2>3. ASSUME set(u) = {}, gone(u) PROVE Due(w, u)' = 0
    <3>1. way[u] = [kind |-> "deleted", version |-> 0]
      BY <1>3, <2>3
    <3>2. way[u] # NoEvent /\ way[u].version = 0
      BY <3>1 DEF NoEvent
    <3> QED BY <2>1, <3>2
  <2>4. ASSUME set(u) = {}, ~gone(u) PROVE Due(w, u)' = Due(w, u)
    <3>1. way[u] = onItsWay[w][u]
      BY <1>3, <2>4
    <3> QED BY <2>1, <3>1
  <2> QED BY <2>2, <2>3, <2>4
<1>8. ASSUME NEW n \in ObjectNames, new[n].uid # 0, Forwarded(w, new[n])
      PROVE  Due(w, new[n].uid)' = new[n].version
  <2> DEFINE u == new[n].uid
  <2>1. u \in ObjectUids
    BY <1>1, <1>8 DEF Object, ObjectUids
  <2>2. CASE new[n] # old[n]
    BY <1>7, <1>8, <2>1, <2>2
  <2>3. CASE new[n] = old[n]
    <3>1. set(u) = {}
      BY <1>8, <2>3 DEF OneName
    <3>2. ~gone(u)
      BY <1>1, <1>8, <2>3 DEF OneName, Gone
    <3>3. Due(w, u)' = Due(w, u)
      BY <1>7, <2>1, <3>1, <3>2
    <3> QED BY <1>1, <1>8, <2>3, <3>3 DEF RowsOfCache, old
  <2> QED BY <2>2, <2>3
<1>9. ASSUME NEW u \in ObjectUids, Due(w, u)' # 0
      PROVE  u \in merged'[w] \/ \E n \in ObjectNames : new[n].uid = u /\ Forwarded(w, new[n])
  <2>1. CASE set(u) # {}
    BY <2>1
  <2>2. CASE set(u) = {}
    <3>1. ~gone(u) /\ Due(w, u) # 0
      BY <1>7, <1>9, <2>2
    <3>2. u \in merged[w] \/ \E n \in ObjectNames : old[n].uid = u /\ Forwarded(w, old[n])
      BY <1>1, <3>1 DEF RowsOfCache, old
    <3>3. ASSUME NEW n \in ObjectNames, old[n].uid = u, Forwarded(w, old[n]),
                 ~(new[n].uid = u /\ Forwarded(w, new[n]))
          PROVE  u \in Untold(w, old, new)
      <4>1. u # 0
        BY DEF ObjectUids
      <4>2. new[n].uid # 0
        BY <3>1, <3>3, <4>1 DEF Gone
      <4> QED BY <3>3, <4>1, <4>2 DEF Untold
    <3> QED BY <3>2, <3>3 DEF old
  <2> QED BY <2>1, <2>2
<1> QED BY <1>5, <1>6, <1>8, <1>9 DEF RowsOfCache

LEMMA InformKeeps ==
  ASSUME RowsInv, NEW W \in SUBSET group, NEW new \in [ObjectNames -> Object], OneName(new),
         NEW seen, Inform(W, new, seen), UNCHANGED <<group, tableRows>>
  PROVE  /\ watcher' \in [group -> [phase : Phases, cache : [ObjectNames -> Object], follows : BOOLEAN]]
         /\ onItsWay' \in [group -> [ObjectUids -> [kind : {"none", "set", "deleted"}, version : Nat]]]
         /\ merged' \in [group -> SUBSET ObjectUids]
         /\ \A w \in group :
              /\ OneName(watcher'[w].cache) /\ RowsOfCache(w)'
              /\ w \in W => watcher'[w].cache = new
              /\ w \notin W => watcher'[w] = watcher[w]
<1>1. ASSUME NEW w \in group
      PROVE  /\ watcher'[w] \in [phase : Phases, cache : [ObjectNames -> Object], follows : BOOLEAN]
             /\ onItsWay'[w] \in [ObjectUids -> [kind : {"none", "set", "deleted"}, version : Nat]]
             /\ merged'[w] \in SUBSET ObjectUids
             /\ OneName(watcher'[w].cache) /\ RowsOfCache(w)'
             /\ w \in W => watcher'[w].cache = new
             /\ w \notin W => watcher'[w] = watcher[w]
  <2>1. /\ watcher[w] \in [phase : Phases, cache : [ObjectNames -> Object], follows : BOOLEAN]
        /\ onItsWay[w] \in [ObjectUids -> [kind : {"none", "set", "deleted"}, version : Nat]]
        /\ merged[w] \in SUBSET ObjectUids /\ OneName(watcher[w].cache) /\ RowsOfCache(w)
    BY DEF RowsInv, WatchTypeOK
  <2>2. CASE w \notin W
    <3>1. watcher'[w] = watcher[w] /\ onItsWay'[w] = onItsWay[w] /\ merged'[w] = merged[w]
      BY <2>2 DEF Inform
    <3>2. \A u \in ObjectUids : Due(w, u)' = Due(w, u)
      BY <3>1 DEF Due
    <3>3. \A o \in ObjectNames : watcher[w].cache[o].uid # 0 => watcher[w].cache[o].uid \in ObjectUids
      BY <2>1 DEF Object, ObjectUids
    <3>4. RowsOfCache(w)'
      BY <2>1, <3>1, <3>2, <3>3 DEF RowsOfCache
    <3> QED BY <2>1, <2>2, <3>1, <3>4
  <2>3. CASE w \in W
    <3>1. /\ watcher'[w] = [watcher[w] EXCEPT !.phase = "on", !.cache = new, !.follows = TRUE]
          /\ onItsWay'[w] = Told(w, onItsWay[w], watcher[w].cache, new, seen)
          /\ merged'[w] = merged[w] \cup Untold(w, watcher[w].cache, new)
      BY <2>3 DEF Inform
    <3>2. /\ watcher'[w].cache = new
          /\ watcher'[w] \in [phase : Phases, cache : [ObjectNames -> Object], follows : BOOLEAN]
      BY <2>1, <3>1 DEF Phases
    <3> QED BY <2>3, <3>1, <3>2, TellsEnough
  <2> QED BY <2>2, <2>3
<1>2. /\ watcher' = [w \in group |-> watcher'[w]] /\ onItsWay' = [w \in group |-> onItsWay'[w]]
      /\ merged' = [w \in group |-> merged'[w]]
  BY DEF Inform
<1> QED BY <1>1, <1>2

\* The apiserver's objects change, and the informers that follow with them.
LEMMA ObjectBecomesKeeps ==
  ASSUME RowsInv, NEW n \in ObjectNames, NEW obj \in Object, ObjectBecomes(n, obj),
         made' \in 1..MaxUid, made <= made', obj.uid <= made',
         \A o \in ObjectNames \ {n} : obj.uid # 0 => objects[o].uid # obj.uid
  PROVE  RowsInv'
<1>1. /\ objects' = [objects EXCEPT ![n] = obj] /\ UNCHANGED <<group, tableRows>>
      /\ Inform({w \in group : watcher[w].follows}, objects', TRUE) /\ changes' = changes + 1
  BY DEF ObjectBecomes, ObjectChange
<1>2. /\ WatchTypeOK /\ OneName(objects) /\ MaxUid \in Nat
      /\ \A o \in ObjectNames : objects[o].uid <= made /\ objects[o].uid \in Nat
  BY WatchAssumption DEF RowsInv, WatchTypeOK, Object
<1>3. objects' \in [ObjectNames -> Object] /\ \A o \in ObjectNames : objects'[o] = IF o = n THEN obj ELSE objects[o]
  BY <1>1, <1>2 DEF WatchTypeOK
<1>4. OneName(objects')
  BY <1>2, <1>3 DEF OneName
<1>5. \A o \in ObjectNames : objects'[o].uid <= made'
  <2>1. made \in Nat /\ made' \in Nat
    BY <1>2 DEF WatchTypeOK
  <2> QED BY <1>2, <1>3, <2>1
<1>6. /\ watcher' \in [group -> [phase : Phases, cache : [ObjectNames -> Object], follows : BOOLEAN]]
      /\ onItsWay' \in [group -> [ObjectUids -> [kind : {"none", "set", "deleted"}, version : Nat]]]
      /\ merged' \in [group -> SUBSET ObjectUids]
      /\ \A w \in group :
           /\ OneName(watcher'[w].cache) /\ RowsOfCache(w)'
           /\ watcher[w].follows => watcher'[w].cache = objects'
           /\ ~watcher[w].follows => watcher'[w] = watcher[w]
  <2>1. PICK new \in [ObjectNames -> Object] : new = objects'
    BY <1>3
  <2>2. PICK W \in SUBSET group : W = {w \in group : watcher[w].follows}
    OBVIOUS
  <2>3. Inform(W, new, TRUE) /\ OneName(new)
    BY <1>1, <1>4, <2>1, <2>2
  <2>4. \A w \in group : w \in W <=> watcher[w].follows
    BY <2>2
  <2>5. /\ watcher' \in [group -> [phase : Phases, cache : [ObjectNames -> Object], follows : BOOLEAN]]
        /\ onItsWay' \in [group -> [ObjectUids -> [kind : {"none", "set", "deleted"}, version : Nat]]]
        /\ merged' \in [group -> SUBSET ObjectUids]
        /\ \A w \in group :
             /\ OneName(watcher'[w].cache) /\ RowsOfCache(w)'
             /\ w \in W => watcher'[w].cache = new
             /\ w \notin W => watcher'[w] = watcher[w]
    <3>1. UNCHANGED <<group, tableRows>>
      BY <1>1
    <3> QED BY <2>3, <3>1, InformKeeps
  <2> QED BY <2>1, <2>4, <2>5
<1>7. WatchTypeOK'
  BY <1>1, <1>2, <1>3, <1>6 DEF WatchTypeOK
<1> QED BY <1>1, <1>4, <1>5, <1>6, <1>7 DEF RowsInv

LEMMA ListKeeps == ASSUME RowsInv, NEW w \in group, ListObjects(w) PROVE RowsInv'
<1>1. Inform({w}, objects, FALSE) /\ UNCHANGED <<group, served, objects, made, tableRows, changes>>
  BY DEF ListObjects
<1>2. objects \in [ObjectNames -> Object] /\ OneName(objects)
  BY DEF RowsInv, WatchTypeOK
<1>3. /\ watcher' \in [group -> [phase : Phases, cache : [ObjectNames -> Object], follows : BOOLEAN]]
      /\ onItsWay' \in [group -> [ObjectUids -> [kind : {"none", "set", "deleted"}, version : Nat]]]
      /\ merged' \in [group -> SUBSET ObjectUids]
      /\ \A x \in group :
           /\ OneName(watcher'[x].cache) /\ RowsOfCache(x)'
           /\ x = w => watcher'[x].cache = objects
           /\ x # w => watcher'[x] = watcher[x]
  <2>1. PICK new \in [ObjectNames -> Object] : new = objects
    BY <1>2
  <2>2. Inform({w}, new, FALSE) /\ OneName(new) /\ {w} \in SUBSET group
    BY <1>1, <1>2, <2>1
  <2>3. /\ watcher' \in [group -> [phase : Phases, cache : [ObjectNames -> Object], follows : BOOLEAN]]
        /\ onItsWay' \in [group -> [ObjectUids -> [kind : {"none", "set", "deleted"}, version : Nat]]]
        /\ merged' \in [group -> SUBSET ObjectUids]
        /\ \A x \in group :
             /\ OneName(watcher'[x].cache) /\ RowsOfCache(x)'
             /\ x \in {w} => watcher'[x].cache = new
             /\ x \notin {w} => watcher'[x] = watcher[x]
    <3>1. UNCHANGED <<group, tableRows>>
      BY <1>1
    <3> QED BY <2>2, <3>1, InformKeeps
  <2> QED BY <2>1, <2>3
<1>4. WatchTypeOK'
  BY <1>1, <1>3 DEF RowsInv, WatchTypeOK
<1> QED BY <1>1, <1>3, <1>4 DEF RowsInv

\* A watcher's phase changes, or it loses its watch: its cache is what it was.
LEMMA PhaseKeeps ==
  ASSUME RowsInv, NEW w \in group, NEW after, watcher' = [watcher EXCEPT ![w] = after],
         after \in [phase : Phases, cache : [ObjectNames -> Object], follows : BOOLEAN],
         after.cache = watcher[w].cache, after.follows => watcher[w].follows,
         changes' \in Nat, UNCHANGED <<group, objects, made, onItsWay, tableRows, merged>>
  PROVE  RowsInv'
<1>1. /\ watcher' \in [group -> [phase : Phases, cache : [ObjectNames -> Object], follows : BOOLEAN]]
      /\ \A x \in group : watcher'[x] = IF x = w THEN after ELSE watcher[x]
  BY DEF RowsInv, WatchTypeOK
<1>2. WatchTypeOK'
  BY <1>1 DEF RowsInv, WatchTypeOK
<1>3. \A x \in group : watcher'[x].cache = watcher[x].cache /\ (watcher'[x].follows => watcher[x].follows)
  BY <1>1
<1>4. \A x \in group : RowsOfCache(x)'
  <2> SUFFICES ASSUME NEW x \in group PROVE RowsOfCache(x)'
    OBVIOUS
  <2>1. RowsOfCache(x) /\ watcher'[x].cache = watcher[x].cache
    BY <1>3 DEF RowsInv
  <2>2. merged' = merged /\ \A u : Due(x, u)' = Due(x, u)
    BY DEF Due
  <2> QED BY <2>1, <2>2 DEF RowsOfCache
<1> QED BY <1>2, <1>3, <1>4 DEF RowsInv

LEMMA ApplyKeeps ==
  ASSUME RowsInv, NEW w \in group, NEW u \in ObjectUids, ApplyEvent(w, u) PROVE RowsInv'
<1>1. /\ onItsWay' = [onItsWay EXCEPT ![w][u] = NoEvent]
      /\ tableRows' = [tableRows EXCEPT ![w][u] = onItsWay[w][u].version]
      /\ onItsWay[w][u] # NoEvent
      /\ UNCHANGED <<group, served, objects, made, watcher, merged, changes>>
  BY DEF ApplyEvent
<1>2. WatchTypeOK
  BY DEF RowsInv
<1>3. NoEvent \in [kind : {"none", "set", "deleted"}, version : Nat]
  BY DEF NoEvent
<1>4. onItsWay[w][u].version \in Nat
  BY <1>2 DEF WatchTypeOK
<1>5. /\ onItsWay' \in [group -> [ObjectUids -> [kind : {"none", "set", "deleted"}, version : Nat]]]
      /\ \A x \in group, v \in ObjectUids :
           onItsWay'[x][v] = IF x = w /\ v = u THEN NoEvent ELSE onItsWay[x][v]
  BY <1>1, <1>2, <1>3 DEF WatchTypeOK
<1>6. /\ tableRows' \in [group -> [ObjectUids -> Nat]]
      /\ \A x \in group, v \in ObjectUids :
           tableRows'[x][v] = IF x = w /\ v = u THEN onItsWay[w][u].version ELSE tableRows[x][v]
  BY <1>1, <1>2, <1>4 DEF WatchTypeOK
<1>7. WatchTypeOK'
  BY <1>1, <1>2, <1>5, <1>6 DEF WatchTypeOK
<1>8. \A x \in group, v \in ObjectUids : Due(x, v)' = Due(x, v)
  BY <1>1, <1>5, <1>6 DEF Due
<1>9. ASSUME NEW x \in group PROVE RowsOfCache(x)'
  <2>1. \A n \in ObjectNames : watcher[x].cache[n].uid # 0 => watcher[x].cache[n].uid \in ObjectUids
    <3>1. watcher[x].cache \in [ObjectNames -> Object] /\ MaxUid \in Nat
      BY <1>2, WatchAssumption DEF WatchTypeOK
    <3> QED BY <3>1 DEF Object, ObjectUids
  <2> QED BY <1>1, <1>8, <2>1 DEF RowsInv, RowsOfCache
<1> QED BY <1>1, <1>7, <1>9 DEF RowsInv

LEMMA RowsStep == RowsInv /\ [WatchNext]_watchVars => RowsInv'
<1> SUFFICES ASSUME RowsInv, [WatchNext]_watchVars PROVE RowsInv'
  OBVIOUS
<1>1. /\ WatchTypeOK /\ MaxUid \in Nat /\ made \in 1..MaxUid /\ changes \in Nat
      /\ \A n \in ObjectNames : objects[n] \in Object /\ objects[n].uid <= made
      /\ OneName(objects)
  BY WatchAssumption DEF RowsInv, WatchTypeOK
<1>2. ASSUME NEW n \in ObjectNames, NEW label \in BOOLEAN, CreateObject(n, label) PROVE RowsInv'
  <2> DEFINE obj == [uid |-> made + 1, version |-> 1, label |-> label]
  <2>1. /\ made < MaxUid /\ made' = made + 1 /\ ObjectBecomes(n, obj)
    BY <1>2 DEF CreateObject
  <2>2. obj \in Object /\ obj.uid = made + 1 /\ made' \in 1..MaxUid /\ made <= made'
    BY <1>1, <2>1 DEF Object
  <2> HIDE DEF obj
  <2>3. \A o \in ObjectNames : objects[o].uid # made + 1 /\ obj.uid <= made'
    BY <1>1, <2>1, <2>2 DEF Object
  <2> QED BY <2>1, <2>2, <2>3, ObjectBecomesKeeps
<1>3. ASSUME NEW n \in ObjectNames, NEW label \in BOOLEAN, UpdateObject(n, label) PROVE RowsInv'
  <2> DEFINE obj == [objects[n] EXCEPT !.version = @ + 1, !.label = label]
  <2>1. objects[n].uid # 0 /\ ObjectBecomes(n, obj) /\ made' = made
    BY <1>3 DEF UpdateObject
  <2>2. obj \in Object /\ obj.uid = objects[n].uid
    <3>1. objects[n] \in [uid : 0..MaxUid, version : Nat, label : BOOLEAN]
      BY <1>1 DEF Object
    <3>2. PICK v \in Nat : v = objects[n].version + 1
      BY <3>1
    <3>3. obj = [objects[n] EXCEPT !.version = v, !.label = label]
      BY <3>2
    <3>4. [objects[n] EXCEPT !.version = v, !.label = label] \in
            [uid : 0..MaxUid, version : Nat, label : BOOLEAN]
      BY <3>1
    <3>5. [objects[n] EXCEPT !.version = v, !.label = label].uid = objects[n].uid
      BY <3>1
    <3> HIDE DEF obj
    <3> QED BY <3>3, <3>4, <3>5 DEF Object
  <2> HIDE DEF obj
  <2>3. \A o \in ObjectNames \ {n} : objects[o].uid # obj.uid
    BY <1>1, <2>1, <2>2 DEF OneName
  <2> QED BY <1>1, <2>1, <2>2, <2>3, ObjectBecomesKeeps
<1>4. ASSUME NEW n \in ObjectNames, DeleteObjectOf(n) PROVE RowsInv'
  <2>1. ObjectBecomes(n, NoObject) /\ made' = made
    BY <1>4 DEF DeleteObjectOf
  <2>2. NoObject \in Object /\ NoObject.uid = 0
    BY <1>1 DEF Object, NoObject
  <2> QED BY <1>1, <2>1, <2>2, ObjectBecomesKeeps
<1>5. ASSUME NEW w \in group,
             \/ LoseWatch(w) \/ GiveUp(w)
             \/ \E failed \in SUBSET {"scope", "projects"} : StartWatcher(w, failed)
      PROVE  RowsInv'
  <2>1. watcher[w] \in [phase : Phases, cache : [ObjectNames -> Object], follows : BOOLEAN]
    BY <1>1 DEF WatchTypeOK
  <2>2. /\ UNCHANGED <<group, objects, made, onItsWay, tableRows, merged>>
        /\ changes' \in Nat
    BY <1>1, <1>5 DEF LoseWatch, GiveUp, StartWatcher, ObjectChange
  <2>4. CASE LoseWatch(w)
    <3> DEFINE after == [watcher[w] EXCEPT !.follows = FALSE]
    <3>1. watcher' = [watcher EXCEPT ![w] = after]
      BY <2>4 DEF LoseWatch
    <3>2. after \in [phase : Phases, cache : [ObjectNames -> Object], follows : BOOLEAN]
      BY <2>1
    <3>3. after.cache = watcher[w].cache /\ ~after.follows
      BY <2>1
    <3> HIDE DEF after
    <3>4. PICK end : end = after
      OBVIOUS
    <3> QED BY <2>2, <3>1, <3>2, <3>3, <3>4, PhaseKeeps
  <2>5. ASSUME NEW phase \in Phases, watcher' = [watcher EXCEPT ![w].phase = phase] PROVE RowsInv'
    <3> DEFINE after == [watcher[w] EXCEPT !.phase = phase]
    <3>1. watcher' = [watcher EXCEPT ![w] = after]
      BY <2>5
    <3>2. after \in [phase : Phases, cache : [ObjectNames -> Object], follows : BOOLEAN]
      BY <2>1
    <3>3. after.cache = watcher[w].cache /\ after.follows = watcher[w].follows
      BY <2>1
    <3> HIDE DEF after
    <3>4. PICK end : end = after
      OBVIOUS
    <3> QED BY <2>2, <3>1, <3>2, <3>3, <3>4, PhaseKeeps
  <2>6. CASE GiveUp(w)
    BY <2>5, <2>6 DEF GiveUp, Phases
  <2>7. CASE \E failed \in SUBSET {"scope", "projects"} : StartWatcher(w, failed)
    <3>1. \E phase \in Phases : watcher' = [watcher EXCEPT ![w].phase = phase]
      BY <2>7 DEF StartWatcher, Phases
    <3> QED BY <2>5, <3>1
  <2> QED BY <1>5, <2>4, <2>6, <2>7
<1>6. CASE UNCHANGED watchVars
  BY <1>6 DEF watchVars, RowsInv, WatchTypeOK, RowsOfCache, Due
<1>7. CASE \E n \in ObjectNames :
             \/ DeleteObjectOf(n)
             \/ \E label \in BOOLEAN : CreateObject(n, label) \/ UpdateObject(n, label)
  BY <1>2, <1>3, <1>4, <1>7
<1>8. CASE \E w \in group :
             \/ LoseWatch(w) \/ ListObjects(w) \/ GiveUp(w)
             \/ \E failed \in SUBSET {"scope", "projects"} : StartWatcher(w, failed)
             \/ \E u \in ObjectUids : ApplyEvent(w, u)
  BY <1>5, <1>8, ListKeeps, ApplyKeeps
<1> QED BY <1>6, <1>7, <1>8 DEF WatchNext

\* At every moment the rows of each watcher, with the events on their way, are
\* those of its informer's cache, but for the objects whose end it was not told.
THEOREM RowsInvariance == WatchSpec => []RowsInv
<1> QED BY RowsInitially, RowsStep, PTL DEF WatchSpec

\* A watcher that follows, and whose events were all applied, shows every object
\* there is as it is, and else only rows whose end was not told.
THEOREM RowsAreAccounted == WatchSpec => []RowsAccounted
<1>1. RowsInv => RowsAccounted
  <2> SUFFICES ASSUME RowsInv, NEW w \in group, watcher[w].follows,
                      \A u \in ObjectUids : onItsWay[w][u] = NoEvent
               PROVE  /\ \A n \in ObjectNames :
                           objects[n].uid # 0 /\ Forwarded(w, objects[n])
                             => tableRows[w][objects[n].uid] = objects[n].version
                      /\ \A u \in ObjectUids :
                           tableRows[w][u] # 0
                             => u \in merged[w] \/ \E n \in ObjectNames : objects[n].uid = u
    BY DEF RowsAccounted
  <2>1. watcher[w].cache = objects /\ RowsOfCache(w)
    BY DEF RowsInv
  <2>2. \A u \in ObjectUids : Due(w, u) = tableRows[w][u]
    BY DEF Due
  <2>3. \A n \in ObjectNames : objects[n].uid # 0 => objects[n].uid \in ObjectUids
    BY WatchAssumption DEF RowsInv, WatchTypeOK, Object, ObjectUids
  <2> QED BY <2>1, <2>2, <2>3 DEF RowsOfCache
<1> QED BY <1>1, RowsInvariance, PTL

-----------------------------------------------------------------------------
(* StartContext: which context a start opens on.                           *)

Ctx == StartContexts \cup {Nobody}
Launches == [tui : BOOLEAN, noWatch : BOOLEAN, want : Ctx, contexts : SUBSET StartContexts, last : Ctx]
Reached == [StartContexts -> {"none", "healthy", "degraded", "down"}]
Looks == [prefer : Ctx, at : Nat, queue : Seq(StartContexts), final : BOOLEAN]
Sessions == [focus : Ctx, active : Ctx, saving : Ctx, coord : BOOLEAN]

\* What a look is while there is one.
LookOK(lk, contexts) ==
  /\ contexts # {} /\ lk.queue = Increasing(contexts)
  /\ lk.prefer \in contexts \cup {Nobody} /\ (lk.at = 0 => lk.prefer # Nobody)

LEMMA StartTypes ==
  StartTypeOK <=>
    /\ launch \in Launches /\ reach \in Reached /\ lastFile \in Ctx /\ look \in Looks /\ session \in Sessions
    /\ process = "picking" => LookOK(look, launch.contexts)
BY DEF StartTypeOK, Ctx, Launches, Reached, Looks, Sessions, LookOK

\* What StartInv says, with the last look's fact under a name.
NotPassed(lk, ups) ==
  lk.at # 0 /\ \A c \in ups : \E i \in DOMAIN lk.queue : lk.at <= i /\ lk.queue[i] = c

LEMMA StartParts ==
  StartInv <=>
    /\ StartTypeOK
    /\ (deadline = "running" => steady = {}) /\ (\A c \in steady : reach[c] = "healthy")
    /\ process = "picking" =>
         /\ steady \subseteq launch.contexts
         /\ look.final => deadline = "fired" /\ NotPassed(look, steady)
    /\ LeftInv /\ StartTruthful
BY DEF StartInv, SteadyInv, NotPassed

\* The contexts in the order of their names.
LEMMA QueueHas ==
  ASSUME NEW S \in SUBSET StartContexts
  PROVE  /\ Increasing(S) \in Seq(S) /\ Increasing(S) \in Seq(StartContexts) /\ Len(Increasing(S)) \in Nat
         /\ DOMAIN Increasing(S) = 1..Len(Increasing(S))
         /\ \A c \in S : \E i \in DOMAIN Increasing(S) : 1 <= i /\ Increasing(S)[i] = c
<1>1. S \in SUBSET Int /\ IsFiniteSet(S)
  <2>1. IsFiniteSet(S)
    BY StartAssumption, FS_Subset
  <2>2. S \subseteq Int
    BY StartAssumption
  <2> QED BY <2>1, <2>2
<1> DEFINE s == Increasing(S)
<1>2. s \in Seq(S) /\ \A c \in S : \E i \in 1..Len(s) : s[i] = c
  BY <1>1, IncreasingLists
<1> HIDE DEF s
<1>3. s \in Seq(StartContexts) /\ Len(s) \in Nat /\ DOMAIN s = 1..Len(s)
  BY <1>2
<1>4. \A i \in 1..Len(s) : 1 <= i
  BY <1>3
<1> QED BY <1>2, <1>3, <1>4 DEF s

\* A last look that is over passed every context.
LEMMA PassedAll ==
  ASSUME StartTypeOK, process = "picking", NotPassed(look, steady), look.at > Len(look.queue)
  PROVE  steady = {}
<1>1. look.queue \in Seq(StartContexts) /\ look.at \in Nat
  BY StartTypes DEF Looks
<1>2. DOMAIN look.queue = 1..Len(look.queue) /\ Len(look.queue) \in Nat
  BY <1>1
<1> QED BY <1>1, <1>2 DEF NotPassed

\* A context that is opened on.
LEMMA OpensKeeps ==
  ASSUME StartInv, NEW c \in StartContexts, OpenOn(c),
         UNCHANGED <<launch, reach, deadline, lastFile, steady, leftAt>>,
         excused' \/ leftAt = Nobody \/ c = leftAt
  PROVE  StartInv'
<1>1. /\ process' = "open" /\ chosen' = c /\ look' = NoLook
      /\ session' = [NoSession EXCEPT !.focus = c, !.coord = launch.tui /\ ~launch.noWatch]
  BY DEF OpenOn
<1>2. c \in Ctx /\ c # Nobody /\ Nobody \in Ctx
  BY StartAssumption DEF Ctx, Nobody
<1>3. (launch.tui /\ ~launch.noWatch) \in BOOLEAN
  OBVIOUS
<1>4. /\ session' = [focus |-> c, active |-> Nobody, saving |-> Nobody, coord |-> (launch.tui /\ ~launch.noWatch)]
      /\ look' = [prefer |-> Nobody, at |-> 0, queue |-> <<>>, final |-> FALSE]
  BY <1>1 DEF NoSession, NoLook
<1>5. session' \in Sessions /\ session'.focus = c /\ session'.active = Nobody /\ session'.saving = Nobody
  BY <1>2, <1>3, <1>4 DEF Sessions
<1>6. look' \in Looks
  <2>1. <<>> \in Seq(StartContexts)
    OBVIOUS
  <2> QED BY <1>2, <1>4, <2>1 DEF Looks
<1>7. StartTypeOK'
  <2>1. launch' \in Launches /\ reach' \in Reached /\ lastFile' \in Ctx
    BY StartTypes DEF StartInv
  <2> QED BY <1>1, <1>5, <1>6, <2>1 DEF StartTypeOK, Ctx, Launches, Reached, Looks, Sessions
<1>8. SteadyInv'
  BY <1>1 DEF StartInv, SteadyInv
<1>9. LeftInv'
  BY <1>1, <1>2, <1>5 DEF StartInv, LeftInv
<1>10. StartTruthful'
  BY <1>1 DEF StartTruthful, HealthyNotMissed, ReopensWhereLeft, Picking
<1> QED BY <1>7, <1>8, <1>9, <1>10 DEF StartInv

\* A start that ends without a context, and a program that ends.
LEMMA EndsKeeps ==
  ASSUME StartInv, process' \notin {"picking", "open"}, look' \in Looks,
         UNCHANGED <<launch, reach, deadline, session, lastFile, steady, leftAt>>
  PROVE  StartInv'
<1>1. StartTypeOK'
  <2>1. launch' \in Launches /\ reach' \in Reached /\ lastFile' \in Ctx /\ session' \in Sessions
    BY StartTypes DEF StartInv
  <2> QED BY <2>1 DEF StartTypeOK, Ctx, Launches, Reached, Looks, Sessions
<1>2. SteadyInv'
  BY DEF StartInv, SteadyInv
<1>3. LeftInv'
  BY DEF StartInv, LeftInv
<1>4. StartTruthful'
  BY DEF StartTruthful, HealthyNotMissed, ReopensWhereLeft, Picking
<1> QED BY <1>1, <1>2, <1>3, <1>4 DEF StartInv

\* A look that goes on, or another one.
LEMMA LooksKeeps ==
  ASSUME StartInv, process = "picking", process' = process, look' \in Looks, LookOK(look', launch.contexts),
         UNCHANGED <<launch, reach, deadline, session, lastFile, steady, leftAt>>,
         look'.final => deadline = "fired" /\ NotPassed(look', steady),
         excused' \/ leftAt = Nobody \/
           (launch.want = Nobody /\ look'.prefer = leftAt /\ ~look'.final
              /\ (look'.at = 0 \/ look'.at > Len(look'.queue)))
  PROVE  StartInv'
<1>1. StartTypeOK'
  <2>1. launch' \in Launches /\ reach' \in Reached /\ lastFile' \in Ctx /\ session' \in Sessions
    BY StartTypes DEF StartInv
  <2> QED BY <2>1 DEF StartTypeOK, Ctx, Launches, Reached, Looks, Sessions, LookOK
<1>2. SteadyInv'
  BY DEF StartInv, SteadyInv, NotPassed
<1>3. LeftInv'
  BY DEF StartInv, LeftInv
<1>4. HealthyNotMissed'
  <2>1. ASSUME look'.final, look'.at > Len(look'.queue) PROVE steady = {}
    <3>1. NotPassed(look', steady) /\ look'.queue \in Seq(StartContexts) /\ look'.at \in Nat
      BY <2>1 DEF Looks
    <3>2. DOMAIN look'.queue = 1..Len(look'.queue) /\ Len(look'.queue) \in Nat
      BY <3>1
    <3> QED BY <2>1, <3>1, <3>2 DEF NotPassed
  <2> QED BY <2>1 DEF HealthyNotMissed
<1>5. ReopensWhereLeft'
  BY DEF ReopensWhereLeft
<1> QED BY <1>1, <1>2, <1>3, <1>4, <1>5 DEF StartInv, StartTruthful

\* A look begins at the preferred context, if there is one.
LEMMA LookBegins ==
  ASSUME launch \in Launches, launch.contexts # {}, NEW prefer \in launch.contexts \cup {Nobody}, NEW final \in BOOLEAN
  PROVE  /\ LookFrom(prefer, final) \in Looks /\ LookOK(LookFrom(prefer, final), launch.contexts)
         /\ LookFrom(prefer, final).prefer = prefer /\ LookFrom(prefer, final).final = final
         /\ LookFrom(prefer, final).at = IF prefer = Nobody THEN 1 ELSE 0
         /\ LookFrom(prefer, final).queue = Increasing(launch.contexts)
<1> DEFINE q == Increasing(launch.contexts)
<1>1. launch.contexts \in SUBSET StartContexts
  BY DEF Launches
<1>2. q \in Seq(StartContexts)
  BY <1>1, QueueHas
<1>3. prefer \in Ctx
  BY <1>1 DEF Ctx
<1> HIDE DEF q
<1>4. LookFrom(prefer, final) = [prefer |-> prefer, at |-> IF prefer = Nobody THEN 1 ELSE 0, queue |-> q, final |-> final]
  BY DEF LookFrom, q
<1>5. LookFrom(prefer, final) \in Looks
  BY <1>2, <1>3, <1>4 DEF Looks
<1>6. LookOK(LookFrom(prefer, final), launch.contexts)
  BY <1>4 DEF LookOK, q
<1> QED BY <1>4, <1>5, <1>6 DEF q

\* What is known while contexts are looked at.
LEMMA PickingFacts ==
  ASSUME StartInv, process = "picking"
  PROVE  /\ launch \in Launches /\ launch.contexts \in SUBSET StartContexts /\ launch.contexts # {}
         /\ look \in Looks /\ LookOK(look, launch.contexts) /\ look.at \in Nat /\ look.final \in BOOLEAN
         /\ look.queue \in Seq(launch.contexts) /\ Len(look.queue) \in Nat /\ DOMAIN look.queue = 1..Len(look.queue)
         /\ look.prefer \in launch.contexts \cup {Nobody}
         /\ reach \in Reached /\ NoLook \in Looks
         /\ look.final => deadline = "fired" /\ NotPassed(look, steady)
         /\ ~excused /\ leftAt # Nobody =>
              launch.want = Nobody /\ look.prefer = leftAt /\ ~look.final
                /\ (look.at = 0 \/ look.at > Len(look.queue))
<1>1. /\ launch \in Launches /\ look \in Looks /\ LookOK(look, launch.contexts) /\ reach \in Reached
      /\ look.final => deadline = "fired" /\ NotPassed(look, steady)
  BY StartTypes, StartParts
<1>2. launch.contexts \in SUBSET StartContexts /\ look.at \in Nat /\ look.final \in BOOLEAN
  BY <1>1 DEF Launches, Looks
<1>3. look.queue = Increasing(launch.contexts) /\ launch.contexts # {} /\ look.prefer \in launch.contexts \cup {Nobody}
  BY <1>1 DEF LookOK
<1>4. look.queue \in Seq(launch.contexts) /\ Len(look.queue) \in Nat /\ DOMAIN look.queue = 1..Len(look.queue)
  BY <1>2, <1>3, QueueHas
<1>5. NoLook \in Looks
  <2>1. <<>> \in Seq(StartContexts) /\ Nobody \in Ctx /\ 0 \in Nat
    BY DEF Ctx
  <2> QED BY <2>1 DEF NoLook, Looks
<1>6. ~excused /\ leftAt # Nobody =>
        launch.want = Nobody /\ look.prefer = leftAt /\ ~look.final
          /\ (look.at = 0 \/ look.at > Len(look.queue))
  BY DEF StartInv, LeftInv
<1> QED BY <1>1, <1>2, <1>3, <1>4, <1>5, <1>6

LEMMA NotOpenedKeeps ==
  ASSUME StartInv, process = "picking", NotOpened, UNCHANGED <<launch, reach, deadline, lastFile, steady, leftAt>>
  PROVE  StartInv'
<1>1. process' \notin {"picking", "open"} /\ look' = NoLook /\ session' = session
  BY DEF NotOpened
<1> QED BY <1>1, PickingFacts, EndsKeeps

LEMMA ReadPreferredKeeps == ASSUME StartInv, ReadPreferred PROVE StartInv'
<1>1. /\ process = "picking" /\ launch.want = Nobody /\ look.at <= Len(look.queue) /\ look.at = 0
      /\ UNCHANGED <<launch, reach, deadline, lastFile, steady, leftAt>>
  BY DEF ReadPreferred, Looking, Picking
<1>2. look.prefer \in launch.contexts /\ look.prefer \in StartContexts
  BY <1>1, PickingFacts DEF LookOK
<1>3. CASE reach[look.prefer] \in {"healthy", "degraded"}
  <2>1. OpenOn(look.prefer) /\ excused' = excused
    BY <1>3 DEF ReadPreferred
  <2>2. excused' \/ leftAt = Nobody \/ look.prefer = leftAt
    BY <1>1, <2>1, PickingFacts
  <2> QED BY <1>1, <1>2, <2>1, <2>2, OpensKeeps
<1>4. CASE reach[look.prefer] \notin {"healthy", "degraded"}
  <2>1. /\ look' = [look EXCEPT !.at = IF Unresolved(look.prefer) THEN Len(look.queue) + 1 ELSE 1]
        /\ excused' = (excused \/ reach[look.prefer] = "down")
        /\ process' = process /\ session' = session
    BY <1>4 DEF ReadPreferred
  <2>2. reach[look.prefer] \in {"none", "down"}
    BY <1>1, <1>2, <1>4, PickingFacts DEF Reached
  <2>3. look \in Looks /\ LookOK(look, launch.contexts) /\ Len(look.queue) \in Nat
    BY <1>1, PickingFacts
  <2>4. /\ look' \in Looks /\ look'.queue = look.queue /\ look'.final = look.final /\ look'.prefer = look.prefer
        /\ look'.at = IF Unresolved(look.prefer) THEN Len(look.queue) + 1 ELSE 1
    <3>1. (IF Unresolved(look.prefer) THEN Len(look.queue) + 1 ELSE 1) \in Nat
      BY <2>3
    <3> QED BY <2>1, <2>3, <3>1 DEF Looks
  <2>5. look'.at # 0
    BY <2>3, <2>4
  <2>6. LookOK(look', launch.contexts)
    BY <2>3, <2>4, <2>5 DEF LookOK
  <2>7. ~look'.final
    BY <1>1, <2>4, PickingFacts DEF NotPassed
  <2>8. excused' \/ leftAt = Nobody \/
          (launch.want = Nobody /\ look'.prefer = leftAt /\ ~look'.final
             /\ (look'.at = 0 \/ look'.at > Len(look'.queue)))
    <3>1. CASE reach[look.prefer] = "down"
      BY <2>1, <3>1
    <3>2. CASE reach[look.prefer] = "none"
      <4>1. look'.at = Len(look.queue) + 1
        BY <2>4, <3>2 DEF Unresolved
      <4>2. look'.at > Len(look'.queue)
        BY <2>3, <2>4, <4>1
      <4>3. ~excused /\ leftAt # Nobody => look'.prefer = leftAt
        BY <1>1, <2>4, PickingFacts
      <4> QED BY <1>1, <2>1, <2>7, <4>2, <4>3
    <3> QED BY <2>2, <3>1, <3>2
  <2> QED BY <1>1, <2>1, <2>4, <2>6, <2>7, <2>8, LooksKeeps
<1> QED BY <1>3, <1>4

LEMMA ReadContextKeeps == ASSUME StartInv, ReadContext PROVE StartInv'
<1>1. /\ process = "picking" /\ look.at <= Len(look.queue) /\ look.at > 0
      /\ UNCHANGED <<launch, reach, deadline, lastFile, steady, leftAt>> /\ excused' = excused
  BY DEF ReadContext, Looking, Picking
<1>2. look.at \in 1..Len(look.queue)
  BY <1>1, PickingFacts
<1>3. look.queue[look.at] \in StartContexts
  BY <1>1, <1>2, PickingFacts
<1>4. excused \/ leftAt = Nobody
  BY <1>1, <1>2, PickingFacts
<1>5. CASE reach[look.queue[look.at]] = "healthy"
  <2>1. OpenOn(look.queue[look.at])
    BY <1>5 DEF ReadContext
  <2> QED BY <1>1, <1>3, <1>4, <2>1, OpensKeeps
<1>6. CASE reach[look.queue[look.at]] # "healthy"
  <2>1. look' = [look EXCEPT !.at = look.at + 1] /\ process' = process /\ session' = session
    BY <1>6 DEF ReadContext
  <2>2. look \in Looks /\ LookOK(look, launch.contexts) /\ look.at \in Nat
    BY <1>1, PickingFacts
  <2>3. /\ look' \in Looks /\ look'.queue = look.queue /\ look'.final = look.final /\ look'.prefer = look.prefer
        /\ look'.at = look.at + 1
    BY <2>1, <2>2 DEF Looks
  <2>4. LookOK(look', launch.contexts)
    BY <2>2, <2>3 DEF LookOK
  <2>5. ASSUME look'.final PROVE deadline = "fired" /\ NotPassed(look', steady)
    <3>1. deadline = "fired" /\ NotPassed(look, steady)
      BY <1>1, <2>3, <2>5, PickingFacts
    <3>2. \A c \in steady : reach[c] = "healthy"
      BY StartParts
    <3>3. ASSUME NEW c \in steady PROVE \E i \in DOMAIN look.queue : look.at + 1 <= i /\ look.queue[i] = c
      <4>1. PICK i \in DOMAIN look.queue : look.at <= i /\ look.queue[i] = c
        BY <3>1 DEF NotPassed
      <4>2. i # look.at
        BY <1>6, <3>2, <4>1
      <4>3. i \in Nat /\ look.at \in Nat
        BY <1>1, PickingFacts
      <4>4. look.at + 1 <= i
        BY <4>1, <4>2, <4>3
      <4> QED BY <4>1, <4>4
    <3>4. look.at + 1 # 0
      BY <2>2
    <3> QED BY <2>3, <3>1, <3>3, <3>4 DEF NotPassed
  <2> QED BY <1>1, <1>4, <2>1, <2>3, <2>4, <2>5, LooksKeeps
<1> QED BY <1>5, <1>6

LEMMA LookAgainKeeps == ASSUME StartInv, LookAgain PROVE StartInv'
<1>1. /\ process = "picking" /\ process' = process /\ session' = session
      /\ UNCHANGED <<launch, reach, deadline, lastFile, steady, leftAt>> /\ excused' = excused
      /\ look' = LookFrom(look.prefer, FALSE)
  BY DEF LookAgain, Waiting, Picking
<1>2. /\ launch \in Launches /\ launch.contexts # {} /\ look.prefer \in launch.contexts \cup {Nobody}
      /\ FALSE \in BOOLEAN
  BY <1>1, PickingFacts
<1>3. /\ look' \in Looks /\ LookOK(look', launch.contexts) /\ look'.prefer = look.prefer /\ ~look'.final
      /\ look'.at = IF look.prefer = Nobody THEN 1 ELSE 0
  BY <1>1, <1>2, LookBegins
<1>4. excused' \/ leftAt = Nobody \/
        (launch.want = Nobody /\ look'.prefer = leftAt /\ ~look'.final
           /\ (look'.at = 0 \/ look'.at > Len(look'.queue)))
  BY <1>1, <1>3, PickingFacts
<1> QED BY <1>1, <1>3, <1>4, LooksKeeps

LEMMA TakeDeadlineKeeps == ASSUME StartInv, TakeDeadline PROVE StartInv'
<1>1. /\ process = "picking" /\ deadline = "fired" /\ excused' = TRUE
      /\ UNCHANGED <<launch, reach, deadline, lastFile, steady, leftAt>>
  BY DEF TakeDeadline, Waiting, Picking
<1>2. CASE interrupted
  <2>1. NotOpened
    BY <1>2 DEF TakeDeadline
  <2> QED BY <1>1, <2>1, NotOpenedKeeps
<1>3. CASE ~interrupted
  <2>1. look' = LookFrom(Nobody, TRUE) /\ process' = process /\ session' = session
    BY <1>3 DEF TakeDeadline, LastLook
  <2>2. /\ launch \in Launches /\ launch.contexts # {} /\ Nobody \in launch.contexts \cup {Nobody}
        /\ TRUE \in BOOLEAN /\ launch.contexts \in SUBSET StartContexts
    BY <1>1, PickingFacts
  <2>3. /\ look' \in Looks /\ LookOK(look', launch.contexts) /\ look'.at = 1
        /\ look'.queue = Increasing(launch.contexts)
    BY <2>1, <2>2, LookBegins
  <2>4. steady \subseteq launch.contexts
    BY <1>1, StartParts
  <2>5. NotPassed(look', steady)
    <3>1. \A c \in launch.contexts : \E i \in DOMAIN look'.queue : 1 <= i /\ look'.queue[i] = c
      BY <2>2, <2>3, QueueHas
    <3> QED BY <2>3, <2>4, <3>1 DEF NotPassed
  <2> QED BY <1>1, <2>1, <2>3, <2>5, LooksKeeps
<1> QED BY <1>2, <1>3

LEMMA GiveUpKeeps == ASSUME StartInv, GiveUpPicking PROVE StartInv'
<1>1. /\ process = "picking" /\ look.final /\ excused' = excused
      /\ UNCHANGED <<launch, reach, deadline, lastFile, steady, leftAt>>
  BY DEF GiveUpPicking, Picking
<1>2. excused \/ leftAt = Nobody
  BY <1>1, PickingFacts
<1>3. launch.contexts \in SUBSET StartContexts /\ launch.contexts # {}
  BY <1>1, PickingFacts
<1>4. FirstOf(launch.contexts) \in launch.contexts
  <2>1. launch.contexts \in SUBSET Nat
    BY <1>3, StartAssumption
  <2>2. \E c \in launch.contexts : \A x \in launch.contexts : c <= x
    BY <1>3, <2>1, LeastExists
  <2> QED BY <2>2 DEF FirstOf
<1>5. CASE launch.tui
  <2> DEFINE c == IF launch.last \in launch.contexts THEN launch.last ELSE FirstOf(launch.contexts)
  <2>1. OpenOn(c)
    BY <1>5 DEF GiveUpPicking
  <2>2. c \in StartContexts
    BY <1>3, <1>4
  <2> HIDE DEF c
  <2> QED BY <1>1, <1>2, <2>1, <2>2, OpensKeeps
<1>6. CASE ~launch.tui
  <2>1. NotOpened
    BY <1>6 DEF GiveUpPicking
  <2> QED BY <1>1, <2>1, NotOpenedKeeps
<1> QED BY <1>5, <1>6

LEMMA OpenWantedKeeps == ASSUME StartInv, OpenWanted PROVE StartInv'
<1>1. /\ process = "picking" /\ launch.want # Nobody /\ excused' = excused
      /\ UNCHANGED <<launch, reach, deadline, lastFile, steady, leftAt>>
  BY DEF OpenWanted
<1>2. excused \/ leftAt = Nobody
  BY <1>1, PickingFacts
<1>3. CASE launch.want \in launch.contexts
  <2>1. OpenOn(launch.want) /\ launch.want \in StartContexts
    BY <1>1, <1>3, PickingFacts DEF OpenWanted
  <2> QED BY <1>1, <1>2, <2>1, OpensKeeps
<1>4. CASE launch.want \notin launch.contexts
  <2>1. NotOpened
    BY <1>4 DEF OpenWanted
  <2> QED BY <1>1, <2>1, NotOpenedKeeps
<1> QED BY <1>3, <1>4

LEMMA LaunchKeeps == ASSUME StartInv, NEW flags \in Flags, Launch(flags) PROVE StartInv'
<1> DEFINE last == IF flags.tui THEN lastFile ELSE Nobody
           prefer == IF last \in flags.contexts THEN last ELSE Nobody
           q == Increasing(flags.contexts)
<1>1. flags \in Launches /\ flags.contexts \in SUBSET StartContexts /\ flags.contexts # {} /\ Nobody \in Ctx
  BY DEF Flags, Launches, Ctx
<1>2. lastFile \in Ctx /\ session \in Sessions
  BY StartTypes DEF StartInv
<1>3. /\ launch' = [flags EXCEPT !.last = last] /\ reach' = Quiet /\ deadline' = "running" /\ steady' = {}
      /\ session' = NoSession /\ UNCHANGED <<lastFile, leftAt>>
      /\ process' = IF ~flags.tui /\ flags.noWatch THEN "alone" ELSE "picking"
      /\ excused' = (~flags.tui \/ flags.want # Nobody \/ leftAt \notin flags.contexts)
  BY DEF Launch
<1>4. last \in Ctx
  BY <1>1, <1>2
<1> HIDE DEF last
<1>5. launch' \in Launches /\ launch'.last = last /\ launch'.contexts = flags.contexts /\ launch'.want = flags.want
  BY <1>1, <1>3, <1>4 DEF Launches
<1>6. look' = [prefer |-> prefer, at |-> IF prefer = Nobody THEN 1 ELSE 0, queue |-> q, final |-> FALSE]
  <2>1. look' = [prefer |-> IF launch'.last \in flags.contexts THEN launch'.last ELSE Nobody,
                 at |-> IF (IF launch'.last \in flags.contexts THEN launch'.last ELSE Nobody) = Nobody THEN 1 ELSE 0,
                 queue |-> Increasing(flags.contexts), final |-> FALSE]
    BY DEF Launch
  <2>2. launch'.last = last
    BY <1>5
  <2> QED BY <2>1, <2>2
<1>7. q \in Seq(StartContexts)
  BY <1>1, QueueHas
<1>8. prefer \in flags.contexts \cup {Nobody} /\ prefer \in Ctx
  BY <1>4, <1>1
<1> HIDE DEF prefer, q
<1>9. /\ look' \in Looks /\ look'.prefer = prefer /\ look'.queue = q /\ ~look'.final
      /\ look'.at = IF prefer = Nobody THEN 1 ELSE 0
  BY <1>6, <1>7, <1>8 DEF Looks
<1>10. LookOK(look', launch'.contexts)
  BY <1>1, <1>5, <1>8, <1>9 DEF LookOK, q
<1>11. reach' \in Reached
  BY <1>3 DEF Quiet, Reached
<1>12. session' \in Sessions
  BY <1>1, <1>3 DEF NoSession, Sessions
<1>13. StartTypeOK'
  BY <1>2, <1>3, <1>5, <1>9, <1>10, <1>11, <1>12 DEF StartTypeOK, Ctx, Launches, Reached, Looks, Sessions, LookOK
<1>14. SteadyInv'
  BY <1>3, <1>9 DEF SteadyInv
<1>15. process' # "open"
  BY <1>3
<1>16. LeftInv'
  <2>1. leftAt # Nobody => lastFile = leftAt
    BY DEF StartInv, LeftInv
  <2>2. ASSUME ~excused', leftAt # Nobody
        PROVE  launch'.want = Nobody /\ look'.prefer = leftAt /\ ~look'.final /\ look'.at = 0
    <3>1. flags.tui /\ flags.want = Nobody /\ leftAt \in flags.contexts
      BY <1>3, <2>2
    <3>2. last = leftAt
      BY <2>1, <2>2, <3>1 DEF last
    <3>3. prefer = leftAt
      BY <3>1, <3>2 DEF prefer
    <3> QED BY <1>5, <1>9, <2>2, <3>1, <3>3
  <2> QED BY <1>3, <1>15, <2>1, <2>2 DEF LeftInv
<1>17. StartTruthful'
  BY <1>9, <1>15 DEF StartTruthful, HealthyNotMissed, ReopensWhereLeft
<1> QED BY <1>13, <1>14, <1>16, <1>17 DEF StartInv

\* A report during a look takes a context that is not healthy any more from
\* those that have to be found.
LEMMA ReportKeeps ==
  ASSUME StartInv, NEW c \in StartContexts, NEW r \in {"healthy", "degraded", "down"}, Report(c, r)
  PROVE  StartInv'
<1>1. /\ reach' = [reach EXCEPT ![c] = r]
      /\ steady' = IF r = "healthy" THEN steady ELSE steady \ {c}
      /\ UNCHANGED <<process, launch, look, deadline, chosen, session, lastFile, leftAt, excused>>
  BY DEF Report
<1>2. reach \in Reached
  BY StartTypes DEF StartInv
<1>3. reach' \in Reached
  BY <1>1, <1>2 DEF Reached
<1>4. StartTypeOK'
  BY <1>1, <1>3 DEF StartTypeOK, StartInv, Reached
<1>5. steady' \subseteq steady /\ \A d \in steady' : reach'[d] = "healthy"
  <2>1. \A d \in steady : reach[d] = "healthy"
    BY StartParts
  <2> QED BY <1>1, <1>2, <2>1 DEF Reached
<1>6. SteadyInv'
  BY <1>1, <1>5 DEF StartInv, SteadyInv
<1>7. LeftInv'
  BY <1>1 DEF StartInv, LeftInv
<1>8. HealthyNotMissed'
  BY <1>1, <1>5 DEF StartInv, StartTruthful, HealthyNotMissed, Picking
<1>9. ReopensWhereLeft'
  BY <1>1 DEF StartInv, StartTruthful, ReopensWhereLeft
<1> QED BY <1>4, <1>6, <1>7, <1>8, <1>9 DEF StartInv, StartTruthful

LEMMA DeadlineFiresKeeps == ASSUME StartInv, DeadlineFires PROVE StartInv'
<1>1. /\ process = "picking" /\ deadline = "running" /\ deadline' = "fired"
      /\ steady' = {c \in launch.contexts : reach[c] = "healthy"}
      /\ UNCHANGED <<process, launch, reach, look, chosen, session, lastFile, leftAt, excused>>
  BY DEF DeadlineFires
<1>2. ~look.final
  BY <1>1, PickingFacts
<1>3. StartTypeOK'
  BY <1>1 DEF StartTypeOK, StartInv
<1>4. SteadyInv'
  BY <1>1, <1>2 DEF SteadyInv
<1>5. LeftInv'
  BY <1>1 DEF StartInv, LeftInv
<1>6. StartTruthful'
  BY <1>1, <1>2 DEF StartTruthful, HealthyNotMissed, ReopensWhereLeft
<1> QED BY <1>3, <1>4, <1>5, <1>6 DEF StartInv

\* In a session: the focus, the file and what it was left at.
LEMMA SessionKeeps ==
  ASSUME StartInv, process = "open", session' \in Sessions, lastFile' \in Ctx,
         UNCHANGED <<process, launch, reach, look, deadline, chosen, steady, excused>>,
         leftAt' # Nobody => lastFile' = leftAt',
         session'.focus # Nobody, session'.saving # Nobody => session'.active # Nobody,
         leftAt' # Nobody /\ session'.active = Nobody => leftAt' = leftAt /\ session.active = Nobody
  PROVE  StartInv'
<1>1. StartTypeOK'
  <2>1. launch' \in Launches /\ reach' \in Reached /\ look' \in Looks
    BY StartTypes DEF StartInv
  <2> QED BY <2>1 DEF StartTypeOK, Ctx, Launches, Reached, Looks, Sessions
<1>2. SteadyInv'
  BY DEF StartInv, SteadyInv
<1>3. LeftInv'
  BY DEF LeftInv
<1>4. HealthyNotMissed'
  BY DEF HealthyNotMissed, Picking
<1>5. ReopensWhereLeft'
  BY DEF StartInv, StartTruthful, ReopensWhereLeft
<1> QED BY <1>1, <1>2, <1>3, <1>4, <1>5 DEF StartInv, StartTruthful

\* What is known in a session.
LEMMA OpenFacts ==
  ASSUME StartInv, process = "open"
  PROVE  /\ session \in Sessions /\ lastFile \in Ctx /\ launch \in Launches /\ launch.contexts \in SUBSET StartContexts
         /\ session.focus \in Ctx /\ session.saving \in Ctx /\ Nobody \in Ctx
         /\ session.focus # Nobody /\ (session.saving # Nobody => session.active # Nobody)
         /\ leftAt # Nobody => lastFile = leftAt
<1>1. session \in Sessions /\ lastFile \in Ctx /\ launch \in Launches
  BY StartTypes DEF StartInv
<1>2. launch.contexts \in SUBSET StartContexts /\ session.focus \in Ctx /\ session.saving \in Ctx /\ Nobody \in Ctx
  BY <1>1 DEF Launches, Sessions, Ctx
<1> QED BY <1>1, <1>2 DEF StartInv, LeftInv

\* The program stops, or is interrupted.
LEMMA StopsKeeps ==
  ASSUME StartInv, process' = "off",
         UNCHANGED <<launch, reach, look, deadline, session, lastFile, steady, leftAt>>
  PROVE  StartInv'
<1>1. look \in Looks
  BY StartTypes DEF StartInv
<1> QED BY <1>1, EndsKeeps

LEMMA RestsKeeps ==
  ASSUME StartInv,
         UNCHANGED <<process, launch, reach, look, deadline, chosen, session, lastFile, steady, leftAt, excused>>
  PROVE  StartInv'
<1>1. StartTypeOK' /\ SteadyInv' /\ LeftInv'
  BY DEF StartInv, StartTypeOK, SteadyInv, LeftInv
<1>2. StartTruthful'
  BY DEF StartInv, StartTruthful, HealthyNotMissed, ReopensWhereLeft, Picking
<1> QED BY <1>1, <1>2 DEF StartInv

LEMMA SwitchKeeps == ASSUME StartInv, NEW c \in StartContexts, SwitchFocus(c) PROVE StartInv'
<1>1. /\ process = "open" /\ session' = [session EXCEPT !.focus = c]
      /\ UNCHANGED <<process, launch, reach, look, deadline, chosen, lastFile, steady, leftAt, excused>>
  BY DEF SwitchFocus
<1>2. c \in Ctx /\ c # Nobody
  BY StartAssumption DEF Ctx, Nobody
<1>3. session \in Sessions
  BY <1>1, OpenFacts
<1>4. session' \in Sessions /\ session'.focus = c /\ session'.active = session.active /\ session'.saving = session.saving
  BY <1>1, <1>2, <1>3 DEF Sessions
<1> QED BY <1>1, <1>2, <1>4, OpenFacts, SessionKeeps

LEMMA SettleKeeps == ASSUME StartInv, NEW ok \in BOOLEAN, Settle(ok) PROVE StartInv'
<1> DEFINE saving == IF ok THEN session.focus ELSE Nobody
<1>1. /\ process = "open"
      /\ session' = [session EXCEPT !.active = session.focus, !.saving = saving]
      /\ lastFile' = IF ok THEN Nobody ELSE lastFile
      /\ leftAt' = Nobody
      /\ UNCHANGED <<process, launch, reach, look, deadline, chosen, steady, excused>>
  BY DEF Settle
<1>2. session \in Sessions /\ session.focus \in Ctx /\ Nobody \in Ctx /\ lastFile \in Ctx /\ session.focus # Nobody
  BY <1>1, OpenFacts
<1>3. saving \in Ctx /\ lastFile' \in Ctx
  BY <1>1, <1>2
<1> HIDE DEF saving
<1>4. /\ session' \in Sessions /\ session'.focus = session.focus /\ session'.active = session.focus
      /\ session'.saving = saving
  BY <1>1, <1>2, <1>3 DEF Sessions
<1> QED BY <1>1, <1>2, <1>3, <1>4, SessionKeeps

LEMMA SavedKeeps == ASSUME StartInv, FinishSave PROVE StartInv'
<1>1. /\ process = "open" /\ session.saving # Nobody
      /\ lastFile' = session.saving /\ leftAt' = session.saving
      /\ session' = [session EXCEPT !.saving = Nobody]
      /\ UNCHANGED <<process, launch, reach, look, deadline, chosen, steady, excused>>
  BY DEF FinishSave
<1>2. /\ session \in Sessions /\ session.saving \in Ctx /\ Nobody \in Ctx /\ session.focus # Nobody
      /\ session.active # Nobody
  BY <1>1, OpenFacts
<1>3. /\ session' \in Sessions /\ session'.focus = session.focus /\ session'.active = session.active
      /\ session'.saving = Nobody
  BY <1>1, <1>2 DEF Sessions
<1> QED BY <1>1, <1>2, <1>3, SessionKeeps

LEMMA CoordinatorLeavesKeeps == ASSUME StartInv, CoordinatorLeaves PROVE StartInv'
<1>1. /\ process = "open" /\ session' = [session EXCEPT !.coord = FALSE]
      /\ UNCHANGED <<process, launch, reach, look, deadline, chosen, lastFile, steady, leftAt, excused>>
  BY DEF CoordinatorLeaves
<1>2. session \in Sessions
  BY <1>1, OpenFacts
<1>3. /\ session' \in Sessions /\ session'.focus = session.focus /\ session'.active = session.active
      /\ session'.saving = session.saving
  BY <1>1, <1>2 DEF Sessions
<1> QED BY <1>1, <1>3, OpenFacts, SessionKeeps

LEMMA StartStep == ASSUME StartInv, [StartNext]_startVars PROVE StartInv'
<1>1. ASSUME NEW flags \in Flags, Launch(flags) PROVE StartInv'
  BY <1>1, LaunchKeeps
<1>2. ASSUME OpenWanted PROVE StartInv'
  BY <1>2, OpenWantedKeeps
<1>3. ASSUME ReadPreferred PROVE StartInv'
  BY <1>3, ReadPreferredKeeps
<1>4. ASSUME ReadContext PROVE StartInv'
  BY <1>4, ReadContextKeeps
<1>5. ASSUME LookAgain PROVE StartInv'
  BY <1>5, LookAgainKeeps
<1>6. ASSUME SeeCancel PROVE StartInv'
  <2>1. process = "picking" /\ NotOpened /\ UNCHANGED <<launch, reach, deadline, lastFile, steady, leftAt>>
    BY <1>6 DEF SeeCancel, Waiting, Picking
  <2> QED BY <2>1, NotOpenedKeeps
<1>7. ASSUME TakeDeadline PROVE StartInv'
  BY <1>7, TakeDeadlineKeeps
<1>8. ASSUME GiveUpPicking PROVE StartInv'
  BY <1>8, GiveUpKeeps
<1>9. ASSUME DeadlineFires PROVE StartInv'
  BY <1>9, DeadlineFiresKeeps
<1>10. ASSUME ReceiveSignal PROVE StartInv'
  BY <1>10, RestsKeeps DEF ReceiveSignal
<1>11. ASSUME NEW c \in StartContexts, SwitchFocus(c) PROVE StartInv'
  BY <1>11, SwitchKeeps
<1>12. ASSUME NEW c \in StartContexts, NEW r \in {"healthy", "degraded", "down"}, Report(c, r) PROVE StartInv'
  BY <1>12, ReportKeeps
<1>13. ASSUME NEW ok \in BOOLEAN, Settle(ok) PROVE StartInv'
  BY <1>13, SettleKeeps
<1>14. ASSUME FinishSave PROVE StartInv'
  BY <1>14, SavedKeeps
<1>15. ASSUME CoordinatorLeaves PROVE StartInv'
  BY <1>15, CoordinatorLeavesKeeps
<1>16. ASSUME Quit PROVE StartInv'
  BY <1>16, StopsKeeps DEF Quit
<1>17. ASSUME Crash PROVE StartInv'
  BY <1>17, StopsKeeps DEF Crash
<1>18. ASSUME UNCHANGED startVars PROVE StartInv'
  BY <1>18, RestsKeeps DEF startVars
<1> QED BY <1>1, <1>2, <1>3, <1>4, <1>5, <1>6, <1>7, <1>8, <1>9, <1>10, <1>11, <1>12, <1>13, <1>14, <1>15,
           <1>16, <1>17, <1>18, Zenon DEF StartNext

LEMMA StartsWell == ASSUME StartInit PROVE StartInv
<1>1. /\ process = "off" /\ launch = NoLaunch /\ reach = Quiet /\ look = NoLook /\ deadline = "running"
      /\ session = NoSession /\ lastFile = Nobody /\ steady = {} /\ leftAt = Nobody
  BY DEF StartInit
<1>2. Nobody \in Ctx /\ <<>> \in Seq(StartContexts)
  BY DEF Ctx
<1>3. launch \in Launches
  BY <1>1, <1>2 DEF NoLaunch, Launches
<1>4. reach \in Reached
  BY <1>1 DEF Quiet, Reached
<1>5. look \in Looks /\ session \in Sessions
  BY <1>1, <1>2 DEF NoLook, Looks, NoSession, Sessions
<1>6. StartTypeOK
  BY <1>1, <1>2, <1>3, <1>4, <1>5, StartTypes
<1>7. SteadyInv /\ LeftInv /\ StartTruthful
  BY <1>1 DEF SteadyInv, LeftInv, StartTruthful, HealthyNotMissed, ReopensWhereLeft, Picking
<1> QED BY <1>6, <1>7 DEF StartInv

\* Reports come in the middle of a look at the store, and what a session saves
\* is cut short at any point; this much is known of a start all the while.
THEOREM StartInvariance == StartSpec => []StartInv
<1>1. StartInit => StartInv
  BY StartsWell
<1>2. StartInv /\ [StartNext]_startVars => StartInv'
  BY StartStep
<1> QED BY <1>1, <1>2, PTL DEF StartSpec

\* A start does not write off a fleet that is up (pickWatchContext's look after
\* the deadline), and opens on the context the last session watched unless it
\* has one of the named reasons not to.
THEOREM StartOpensWell == StartSpec => []StartTruthful
<1>1. StartInv => StartTruthful
  BY DEF StartInv
<1> QED BY <1>1, StartInvariance, PTL
=============================================================================
