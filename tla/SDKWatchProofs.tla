--------------------------- MODULE SDKWatchProofs ---------------------------
(***************************************************************************)
(* Theorems about SDKWatch, for every set of watchers and any number of    *)
(* changes and restarts.  What getGameServer answers: nothing older than   *)
(* what a batch has written, and nothing older than what was answered      *)
(* before (the two caches are compared by their generations, while time is *)
(* told by the resourceVersion).  The types, with the streams that are     *)
(* connected.  That messages are read as they were written.                *)
(***************************************************************************)
EXTENDS SDKWatch, FiniteSetTheorems, SequenceTheorems, TLAPS

IsVersion(gs) ==
    /\ {"resourceVersion", "generation"} \subseteq DOMAIN gs
    /\ gs.resourceVersion \in Nat /\ gs.generation \in Nat

\* gs is what now is, or what it was at an earlier time.
WasVersion(gs, now) ==
    /\ IsVersion(gs)
    /\ gs = now \/ gs.resourceVersion < now.resourceVersion
    /\ gs.generation <= now.generation

\* The lister has a version that was; gsCopy is one as well, and when the lister has reached
\* its generation then it has reached the version itself.
VersionInv ==
    /\ IsVersion(gameServer) /\ WasVersion(cached, gameServer)
    /\ gsCopy = {} \/ \E copy : gsCopy = {copy}
    /\ \A copy \in gsCopy :
          /\ WasVersion(copy, gameServer)
          /\ cached.generation >= copy.generation => cached.resourceVersion >= copy.resourceVersion

-----------------------------------------------------------------------------
LEMMA InitVersions == Init => VersionInv
BY SDKWatchAssumption DEF Init, VersionInv, WasVersion, IsVersion

LEMMA WasBefore ==
    ASSUME NEW gs, NEW then, NEW now, IsVersion(now), WasVersion(gs, then), WasVersion(then, now)
    PROVE  WasVersion(gs, now)
BY DEF WasVersion, IsVersion

\* What others do, and what the SDK server writes, is a later version.
LEMMA LaterVersions ==
    ASSUME VersionInv, UNCHANGED <<cached, gsCopy>>,
           IsVersion(gameServer'), WasVersion(gameServer, gameServer')
    PROVE  VersionInv' /\ LatestGameServer' = LatestGameServer
<1>1. \A gs : WasVersion(gs, gameServer) => WasVersion(gs, gameServer')
  BY WasBefore
<1> QED BY <1>1 DEF VersionInv, LatestGameServer

LEMMA OrOne == ASSUME NEW copy, NEW default PROVE Or({copy}, default) = copy
BY DEF Or

\* The answer is the GameServer of now or before; when it is not the lister's, then the lister
\* has not reached its generation.
LEMMA Answer ==
    ASSUME VersionInv
    PROVE  /\ WasVersion(LatestGameServer, gameServer)
           /\ \/ LatestGameServer = cached
              \/ /\ gsCopy = {LatestGameServer}
                 /\ cached.generation < LatestGameServer.generation
<1>1. CASE gsCopy = {}
  BY <1>1 DEF VersionInv, LatestGameServer
<1>2. ASSUME NEW copy, gsCopy = {copy}
      PROVE  Or(gsCopy, cached) = copy
  BY <1>2, OrOne
<1> QED BY <1>1, <1>2 DEF VersionInv, LatestGameServer

LEMMA AnswersAreNew == VersionInv => AnswersHaveWhatWasWritten
<1> SUFFICES ASSUME VersionInv, NEW copy \in gsCopy
             PROVE  LatestGameServer.resourceVersion >= copy.resourceVersion
  BY DEF AnswersHaveWhatWasWritten
<1>1. gsCopy = {copy} /\ Or(gsCopy, cached) = copy
  BY OrOne DEF VersionInv
<1>2. CASE cached.generation < copy.generation
  BY <1>1, <1>2 DEF LatestGameServer, VersionInv, WasVersion, IsVersion
<1>3. CASE ~(cached.generation < copy.generation)
  <2>1. LatestGameServer = cached
    BY <1>1, <1>3 DEF LatestGameServer
  <2>2. cached.generation \in Nat /\ copy.generation \in Nat
    BY DEF VersionInv, WasVersion, IsVersion
  <2> QED BY <1>3, <2>1, <2>2 DEF VersionInv
<1> QED BY <1>2, <1>3

-----------------------------------------------------------------------------
\* The answer before the step is no later than the one after it.
NotBack == LatestGameServer'.resourceVersion >= LatestGameServer.resourceVersion

LEMMA NextVersion ==
    ASSUME NEW gs, IsVersion(gs)
    PROVE  LET next == [gs EXCEPT !.resourceVersion = @ + 1, !.generation = @ + 1]
           IN  /\ IsVersion(next)
               /\ next.resourceVersion = gs.resourceVersion + 1 /\ next.generation = gs.generation + 1
BY DEF IsVersion

LEMMA BatchKeeps ==
    ASSUME VersionInv, NEW count, updateCounter(count)
    PROVE  VersionInv' /\ NotBack
<1> DEFINE copy == [LatestGameServer EXCEPT !.counters[CounterKey].count = count]
           next == [copy EXCEPT !.resourceVersion = @ + 1, !.generation = @ + 1]
<1>1. IsVersion(copy) /\ copy.resourceVersion = LatestGameServer.resourceVersion
      /\ copy.generation = LatestGameServer.generation
  BY Answer DEF WasVersion, IsVersion
<1>2. UNCHANGED cached /\ copy.resourceVersion = gameServer.resourceVersion
  BY DEF updateCounter, informer
<1>3. gameServer' = gameServer \/ gameServer' = next
  BY DEF updateCounter
<1>4. /\ IsVersion(next)
      /\ next.resourceVersion = copy.resourceVersion + 1 /\ next.generation = copy.generation + 1
  BY <1>1, NextVersion
<1> HIDE DEF next, copy
<1>5. LatestGameServer = gameServer
  BY <1>1, <1>2, Answer DEF WasVersion, IsVersion, VersionInv
<1>6. IsVersion(gameServer') /\ WasVersion(gameServer, gameServer')
  BY <1>1, <1>2, <1>3, <1>4, <1>5 DEF VersionInv, WasVersion, IsVersion
<1>7. CASE gsCopy' = gsCopy
  <2>1. VersionInv' /\ LatestGameServer' = LatestGameServer
    BY <1>2, <1>6, <1>7, LaterVersions
  <2> QED BY <2>1, Answer DEF NotBack, WasVersion, IsVersion
<1>8. CASE gsCopy' = {gameServer'}
  \* The lister is of an earlier generation, or has the GameServer, which was not changed.
  <2>1. cached.generation < gameServer'.generation \/ cached = gameServer
    <3>1. cached.generation < gameServer.generation \/ cached = gameServer
      BY <1>5, Answer
    <3>2. gameServer.generation <= gameServer'.generation
      BY <1>6 DEF WasVersion
    <3>3. /\ cached.generation \in Nat /\ gameServer.generation \in Nat
          /\ gameServer'.generation \in Nat
      BY <1>6 DEF VersionInv, WasVersion, IsVersion
    <3> QED BY <3>1, <3>2, <3>3
  <2>2. cached.generation < gameServer'.generation \/ cached = gameServer'
    BY <1>1, <1>3, <1>4, <1>5, <2>1 DEF VersionInv, IsVersion
  <2>3. WasVersion(cached, gameServer') /\ WasVersion(gameServer', gameServer')
    BY <1>6, WasBefore DEF VersionInv, WasVersion, IsVersion
  <2>4. cached.generation >= gameServer'.generation
           => cached.resourceVersion >= gameServer'.resourceVersion
    BY <1>6, <2>2, <2>3 DEF WasVersion, IsVersion
  <2>5. VersionInv'
    BY <1>2, <1>6, <1>8, <2>3, <2>4 DEF VersionInv
  <2>6. LatestGameServer' = gameServer'
    BY <1>2, <1>8, <2>2, OrOne DEF LatestGameServer
  <2> QED BY <1>5, <1>6, <2>5, <2>6 DEF NotBack, WasVersion, IsVersion
<1> QED BY <1>7, <1>8 DEF updateCounter, CopyAfterAnError

LEMMA SyncKeeps ==
    ASSUME VersionInv, UNCHANGED gameServer, cached' = gameServer, gsCopy' \in {gsCopy, {}}
    PROVE  VersionInv' /\ NotBack
<1>1. WasVersion(cached', gameServer')
  BY DEF VersionInv, WasVersion, IsVersion
<1>2. \A copy \in gsCopy : cached'.resourceVersion >= copy.resourceVersion
  BY DEF VersionInv, WasVersion, IsVersion
<1>3. VersionInv'
  BY <1>1, <1>2 DEF VersionInv
<1>4. LatestGameServer' = gameServer
  <2>1. CASE gsCopy' = {}
    BY <2>1 DEF LatestGameServer
  <2>2. ASSUME NEW copy, gsCopy = {copy}, gsCopy' = gsCopy
        PROVE  LatestGameServer' = gameServer
    <3>1. Or(gsCopy', cached') = copy
      BY <2>2, OrOne
    <3>2. ~(gameServer.generation < copy.generation)
      BY <2>2 DEF VersionInv, WasVersion, IsVersion
    <3> QED BY <3>1, <3>2 DEF LatestGameServer
  <2> QED BY <2>1, <2>2 DEF VersionInv
<1>5. gameServer.resourceVersion >= LatestGameServer.resourceVersion
  BY Answer DEF VersionInv, WasVersion, IsVersion
<1> QED BY <1>3, <1>4, <1>5 DEF NotBack

LEMMA ChangeKeeps ==
    ASSUME VersionInv, NEW gs, IsVersion(gs), gs.resourceVersion = gameServer.resourceVersion,
           gs.generation >= gameServer.generation, ChangeTo(gs)
    PROVE  VersionInv' /\ NotBack
<1>1. gameServer' = [gs EXCEPT !.resourceVersion = @ + 1] /\ UNCHANGED <<cached, gsCopy>>
  BY DEF ChangeTo, informer
<1>2. IsVersion(gameServer') /\ WasVersion(gameServer, gameServer')
  BY <1>1 DEF WasVersion, IsVersion, VersionInv
<1>3. VersionInv' /\ LatestGameServer' = LatestGameServer
  BY <1>1, <1>2, LaterVersions
<1> QED BY <1>3, Answer DEF NotBack, WasVersion, IsVersion

LEMMA StillKeeps ==
    ASSUME VersionInv, UNCHANGED <<gameServer, cached, gsCopy>>
    PROVE  VersionInv' /\ NotBack
<1>1. VersionInv'
  BY DEF VersionInv
<1>2. LatestGameServer' = LatestGameServer
  BY DEF LatestGameServer
<1> QED BY <1>1, <1>2, Answer DEF NotBack, WasVersion, IsVersion

LEMMA NextKeeps == VersionInv /\ [Next]_vars => VersionInv' /\ NotBack
<1> SUFFICES ASSUME VersionInv, [Next]_vars
             PROVE  VersionInv' /\ NotBack
  OBVIOUS
<1>1. CASE UNCHANGED vars
  BY <1>1, StillKeeps DEF vars, informer
<1>2. ASSUME NEW w \in Watchers,
             watchGameServer(w) \/ close(w) \/ WatchGameServer(w) \/ Connect(w)
      PROVE  VersionInv' /\ NotBack
  BY <1>2, StillKeeps DEF watchGameServer, close, WatchGameServer, Connect, informer
<1>3. CASE sendGameServerUpdate
  BY <1>3, StillKeeps DEF sendGameServerUpdate
<1>4. ASSUME NEW count \in Counts, updateCounter(count)
      PROVE  VersionInv' /\ NotBack
  BY <1>4, BatchKeeps
<1>5. CASE Sync
  BY <1>5, SyncKeeps DEF Sync
<1>6. ASSUME NEW value \in LabelValues, Labelled(value)
      PROVE  VersionInv' /\ NotBack
  <2> DEFINE gs == [gameServer EXCEPT !.labels = [key |-> value]]
  <2>1. IsVersion(gs) /\ gs.resourceVersion = gameServer.resourceVersion
        /\ gs.generation >= gameServer.generation
    BY DEF VersionInv, IsVersion
  <2> QED BY <1>6, <2>1, ChangeKeeps DEF Labelled
<1>7. ASSUME NEW state \in GameServerStates, Moved(state)
      PROVE  VersionInv' /\ NotBack
  <2> DEFINE gs == [gameServer EXCEPT !.state = state, !.generation = @ + 1]
  <2>1. IsVersion(gs) /\ gs.resourceVersion = gameServer.resourceVersion
        /\ gs.generation >= gameServer.generation
    BY DEF VersionInv, IsVersion
  <2> QED BY <1>7, <2>1, ChangeKeeps DEF Moved
<1>8. CASE Deleted
  <2> DEFINE gs == [gameServer EXCEPT !.deletionTimestamp = {1}, !.generation = @ + 1]
  <2>1. IsVersion(gs) /\ gs.resourceVersion = gameServer.resourceVersion
        /\ gs.generation >= gameServer.generation
    BY DEF VersionInv, IsVersion
  <2> QED BY <1>8, <2>1, ChangeKeeps DEF Deleted
<1>9. CASE Restart
  BY <1>9, SyncKeeps DEF Restart
<1> QED BY <1>1, <1>2, <1>3, <1>4, <1>5, <1>6, <1>7, <1>8, <1>9 DEF Next

-----------------------------------------------------------------------------
\* What the SDK server has written itself is in what it answers, whatever the lister shows.
THEOREM OwnWritesAreRead == Spec => []AnswersHaveWhatWasWritten
BY InitVersions, NextKeeps, AnswersAreNew, PTL DEF Spec

\* No answer is older than the one before it, although they come from two caches, and the
\* choice between them is made by generation.
THEOREM NoGoingBack == Spec => AnswersNeverGoBack
<1>1. VersionInv /\ [Next]_vars => [NotBack]_vars
  BY NextKeeps
<1> QED BY <1>1, InitVersions, NextKeeps, PTL DEF Spec, AnswersNeverGoBack, NotBack

-----------------------------------------------------------------------------
(* The streams that are left are found with a fold.  What it computes is    *)
(* found by induction, with the least number for which it would be wrong.   *)

\* Induction over a set of numbers.
LEMMA NatSetInduction ==
    ASSUME NEW G, 0 \in G, \A n \in Nat : n \in G => n + 1 \in G
    PROVE  Nat \subseteq G
<1> DEFINE T == Nat \ G
<1> SUFFICES ASSUME T # {} PROVE FALSE
  OBVIOUS
<1>1. \E n \in T : \A m \in T : <<m, n>> \notin OpToRel(<, Nat)
  BY NatLessThanWellFounded, WFMin
<1>2. PICK n \in T : \A m \in T : ~(m < n)
  BY <1>1 DEF OpToRel
<1>3. n - 1 \in Nat /\ n - 1 \notin T
  BY <1>2
<1> QED BY <1>3

\* What MapThenFoldSet recurs on: over the subsets of a finite set, when the element
\* taken is pick[s] and what is done with it is step; for the sets up to a size.
Recurs(h, U, pick, base, step, n) ==
    /\ h[{}] = base
    /\ \A s \in SUBSET U : s # {} /\ Cardinality(s) <= n => h[s] = step[pick[s]][h[s \ {pick[s]}]]

LEMMA OneMoreRecurs ==
    ASSUME NEW U, IsFiniteSet(U), NEW pick, \A s \in SUBSET U : s # {} => pick[s] \in s,
           NEW A, NEW base \in A, NEW step \in [U -> [A -> A]],
           NEW n \in Nat, NEW h \in [SUBSET U -> A], Recurs(h, U, pick, base, step, n)
    PROVE  \E g \in [SUBSET U -> A] : Recurs(g, U, pick, base, step, n + 1)
<1> DEFINE g == [s \in SUBSET U |-> IF s = {} THEN base ELSE step[pick[s]][h[s \ {pick[s]}]]]
<1>1. \A s \in SUBSET U : s # {} =>
         /\ pick[s] \in U /\ s \ {pick[s]} \in SUBSET U
         /\ Cardinality(s) \in Nat
         /\ Cardinality(s \ {pick[s]}) = Cardinality(s) - 1
  BY FS_Subset, FS_CardinalityType, FS_RemoveElement
<1>2. g \in [SUBSET U -> A]
  <2>1. ASSUME NEW s \in SUBSET U, s # {}
        PROVE  step[pick[s]][h[s \ {pick[s]}]] \in A
    <3>1. step[pick[s]] \in [A -> A] /\ h[s \ {pick[s]}] \in A
      BY <1>1, <2>1
    <3> QED BY <3>1
  <2> QED BY <2>1
<1>3. g[{}] = base /\ h[{}] = base
  BY DEF Recurs
<1>4. \A s \in SUBSET U : s # {} => g[s] = step[pick[s]][h[s \ {pick[s]}]]
  OBVIOUS
<1> HIDE DEF g
<1>5. ASSUME NEW s \in SUBSET U, s = {} \/ Cardinality(s) <= n PROVE g[s] = h[s]
  BY <1>3, <1>4, <1>5 DEF Recurs
<1>6. ASSUME NEW s \in SUBSET U, s # {}, Cardinality(s) <= n + 1
      PROVE  g[s] = step[pick[s]][g[s \ {pick[s]}]]
  <2>1. s \ {pick[s]} \in SUBSET U /\ Cardinality(s \ {pick[s]}) <= n
    BY <1>1, <1>6
  <2>2. g[s \ {pick[s]}] = h[s \ {pick[s]}]
    BY <1>5, <2>1
  <2> QED BY <1>4, <1>6, <2>2
<1> QED BY <1>2, <1>3, <1>6 DEF Recurs

Picks(pick, U) == \A s \in SUBSET U : s # {} => pick[s] \in s

RecursOnSets(h, U, pick, base, step) ==
    \A s \in SUBSET U : h[s] = IF s = {} THEN base ELSE step[pick[s]][h[s \ {pick[s]}]]

LEMMA RecursionExists ==
    ASSUME NEW U, IsFiniteSet(U), NEW pick, Picks(pick, U),
           NEW A, NEW base \in A, NEW step \in [U -> [A -> A]]
    PROVE  \E h \in [SUBSET U -> A] : RecursOnSets(h, U, pick, base, step)
<1> DEFINE G == {n \in Nat : \E h \in [SUBSET U -> A] : Recurs(h, U, pick, base, step, n)}
<1>1. \A s \in SUBSET U :
         Cardinality(s) \in Nat /\ Cardinality(s) <= Cardinality(U) /\ (Cardinality(s) = 0 => s = {})
  BY FS_Subset, FS_CardinalityType, FS_EmptySet
<1>2. 0 \in G
  <2> DEFINE h == [s \in SUBSET U |-> base]
  <2>1. h \in [SUBSET U -> A] /\ h[{}] = base
    OBVIOUS
  <2> HIDE DEF h
  <2>2. \A s \in SUBSET U : ~(s # {} /\ Cardinality(s) <= 0)
    BY <1>1
  <2>3. Recurs(h, U, pick, base, step, 0)
    BY <2>1, <2>2 DEF Recurs
  <2> QED BY <2>1, <2>3
<1>3. ASSUME NEW n \in Nat, n \in G PROVE n + 1 \in G
  <2>1. PICK h \in [SUBSET U -> A] : Recurs(h, U, pick, base, step, n)
    BY <1>3
  <2>2. \E g \in [SUBSET U -> A] : Recurs(g, U, pick, base, step, n + 1)
    BY <2>1, OneMoreRecurs DEF Picks
  <2> QED BY <2>2
<1>4. Cardinality(U) \in G
  <2> HIDE DEF G
  <2> QED BY <1>1, <1>2, <1>3, NatSetInduction
<1>5. PICK h \in [SUBSET U -> A] : Recurs(h, U, pick, base, step, Cardinality(U))
  BY <1>4
<1>6. \A s \in SUBSET U : h[s] = IF s = {} THEN base ELSE step[pick[s]][h[s \ {pick[s]}]]
  BY <1>1, <1>5 DEF Recurs
<1> QED BY <1>6 DEF RecursOnSets

\* Induction over the prefixes of 1..n
LEMMA MaxOfInterval ==
    ASSUME NEW n \in Nat, n # 0
    PROVE  Max(1..n) = n /\ (1..n) \ {n} = 1..(n - 1) /\ 1..n # {}
<1>1. Max(1..n) = n
  BY DEF Max
<1>2. (1..n) \ {n} = 1..(n - 1) /\ n \in 1..n
  OBVIOUS
<1> QED BY <1>1, <1>2

LEMMA MaxPicks ==
    ASSUME NEW n \in Nat, NEW s \in SUBSET (1..n), s # {}
    PROVE  Max(s) \in s
<1> DEFINE T == {x \in Nat : n - x \in s}
<1>1. PICK y \in s : TRUE
  OBVIOUS
<1>2. n - y \in T
  BY <1>1
<1>3. PICK m \in T : \A k \in T : ~(k < m)
  <2>1. \E m \in T : \A k \in T : <<k, m>> \notin OpToRel(<, Nat)
    BY <1>2, NatLessThanWellFounded, WFMin
  <2> QED BY <2>1 DEF OpToRel
<1>4. \A x \in s : n - m >= x
  <2> SUFFICES ASSUME NEW x \in s PROVE n - m >= x
    OBVIOUS
  <2>1. n - x \in T
    OBVIOUS
  <2>2. ~(n - x < m)
    BY <1>3, <2>1
  <2> QED BY <2>2
<1>5. n - m \in s
  OBVIOUS
<1> QED BY <1>4, <1>5 DEF Max


RecursOnPrefixes(h, s, base, step) ==
    \A t \in SUBSET DOMAIN s :
        h[t] = IF t = {} THEN base ELSE step[s[Max(t)]][h[t \ {Max(t)}]]

LEMMA FoldLeftRecurs ==
    ASSUME NEW S, NEW s \in Seq(S), NEW A, NEW base \in A, NEW step \in [S -> [A -> A]]
    PROVE  \E h \in [SUBSET DOMAIN s -> A] : RecursOnPrefixes(h, s, base, step)
<1> DEFINE D == DOMAIN s
           pick == [t \in (SUBSET D) \ {{}} |-> Max(t)]
           at == [i \in D |-> step[s[i]]]
<1>1. Len(s) \in Nat /\ D = 1..Len(s) /\ IsFiniteSet(D)
  BY FS_Interval
<1>2. \A t \in SUBSET D : t # {} => pick[t] \in t /\ pick[t] = Max(t)
  BY <1>1, MaxPicks
<1>3. at \in [D -> [A -> A]] /\ \A i \in D : at[i] = step[s[i]]
  BY <1>1
<1> HIDE DEF D, pick, at
<1>4. Picks(pick, D)
  BY <1>2 DEF Picks
<1>5. PICK h \in [SUBSET D -> A] :
            RecursOnSets(h, D, pick, base, at)
  BY <1>1, <1>3, <1>4, RecursionExists
<1>6. ASSUME NEW t \in SUBSET D
      PROVE  h[t] = IF t = {} THEN base ELSE step[s[Max(t)]][h[t \ {Max(t)}]]
  <2>1. h[t] = IF t = {} THEN base ELSE at[pick[t]][h[t \ {pick[t]}]]
    BY <1>5 DEF RecursOnSets
  <2>2. t # {} => pick[t] = Max(t) /\ Max(t) \in D
    BY <1>2
  <2> QED BY <1>3, <2>1, <2>2
<1> QED BY <1>6 DEF D, RecursOnPrefixes

\* sendGameServerUpdate goes through the streams one by one.
Kept(remaining, w) == IF w \in open THEN Append(remaining, w) ELSE remaining

LEMMA OneStreamAfterTheOther ==
    ASSUME connectedStreams \in Seq(Watchers)
    PROVE  \E f : /\ f[0] = <<>> /\ remainingStreams = f[Len(connectedStreams)]
                  /\ \A i \in 1..Len(connectedStreams) : f[i] = Kept(f[i - 1], connectedStreams[i])
<1> DEFINE s == connectedStreams
           D == DOMAIN s
           A == Seq(Watchers)
           step == [w \in Watchers |-> [remaining \in Seq(Watchers) |-> Kept(remaining, w)]]
           iter == CHOOSE h : h = [t \in SUBSET D |->
                      IF t = {} THEN <<>> ELSE Kept(h[t \ {Max(t)}], s[Max(t)])]
           f == [i \in 0..Len(s) |-> iter[1..i]]
<1>1. Len(s) \in Nat /\ D = 1..Len(s) /\ \A i \in D : s[i] \in Watchers
  OBVIOUS
<1>2. \A w \in Watchers, remaining \in Seq(Watchers) : Kept(remaining, w) \in Seq(Watchers)
  BY DEF Kept
<1>3. step \in [Watchers -> [A -> A]] /\ <<>> \in A
  BY <1>2
<1>4. \A w \in Watchers, remaining \in A : step[w][remaining] = Kept(remaining, w)
  OBVIOUS
<1>5. remainingStreams = iter[D]
  BY DEF remainingStreams, FoldLeft, MapThenFoldSet, Kept
<1> HIDE DEF step, A, D
<1>6. PICK h \in [SUBSET D -> A] :
            RecursOnPrefixes(h, s, <<>>, step)
  BY <1>3, FoldLeftRecurs DEF D
<1>7. ASSUME NEW t \in SUBSET D
      PROVE  h[t] = IF t = {} THEN <<>> ELSE Kept(h[t \ {Max(t)}], s[Max(t)])
  <2>1. t # {} => Max(t) \in t /\ s[Max(t)] \in Watchers /\ h[t \ {Max(t)}] \in A
    BY <1>1, MaxPicks
  <2> QED BY <1>4, <1>6, <2>1 DEF RecursOnPrefixes, D
<1>8. h = [t \in SUBSET D |-> IF t = {} THEN <<>> ELSE Kept(h[t \ {Max(t)}], s[Max(t)])]
  BY <1>7
<1>9. iter = [t \in SUBSET D |->
                IF t = {} THEN <<>> ELSE Kept(iter[t \ {Max(t)}], s[Max(t)])]
  BY <1>8
<1> HIDE DEF iter
<1>10. f[0] = <<>>
  BY <1>1, <1>9
<1>11. ASSUME NEW i \in 1..Len(s) PROVE f[i] = Kept(f[i - 1], s[i])
  <2>1. 1..i \in SUBSET D /\ i \in Nat /\ i # 0
    BY <1>1
  <2>2. 1..i # {} /\ (1..i) \ {i} = 1..(i - 1) /\ Max(1..i) = i
    BY <2>1, MaxOfInterval
  <2>3. f[i] = iter[1..i] /\ f[i - 1] = iter[1..(i - 1)]
    BY <1>1
  <2> QED BY <1>9, <2>1, <2>2, <2>3
<1>12. f[Len(s)] = iter[D]
  BY <1>1
<1> HIDE DEF f
<1> QED BY <1>5, <1>10, <1>11, <1>12

LEMMA AppendedIsInjective ==
    ASSUME NEW S, NEW u \in Seq(S), IsInjective(u), NEW v \in S, \A k \in 1..Len(u) : u[k] # v
    PROVE  IsInjective(Append(u, v))
<1> DEFINE w == Append(u, v)
<1>1. /\ DOMAIN w = 1..(Len(u) + 1) /\ DOMAIN u = 1..Len(u) /\ Len(u) \in Nat
      /\ \A k \in 1..Len(u) : w[k] = u[k]
      /\ w[Len(u) + 1] = v
  BY AppendProperties, LenProperties
<1> HIDE DEF w
<1>2. ASSUME NEW a \in DOMAIN w, NEW b \in DOMAIN w, w[a] = w[b] PROVE a = b
  <2>1. CASE a \in 1..Len(u) /\ b \in 1..Len(u)
    BY <1>1, <1>2, <2>1 DEF IsInjective
  <2>2. CASE a = Len(u) + 1 \/ b = Len(u) + 1
    BY <1>1, <1>2, <2>2
  <2> QED BY <1>1, <2>1, <2>2
<1> QED BY <1>2 DEF IsInjective, w

\* Those that are left are some of those that were connected, each of them once.
LEMMA RemainingStreams ==
    ASSUME connectedStreams \in Seq(Watchers)
    PROVE  /\ remainingStreams \in Seq(Watchers)
           /\ \A k \in DOMAIN remainingStreams :
                 \E j \in DOMAIN connectedStreams : remainingStreams[k] = connectedStreams[j]
           /\ IsInjective(connectedStreams) => IsInjective(remainingStreams)
<1> DEFINE s == connectedStreams
<1>1. PICK f : /\ f[0] = <<>> /\ remainingStreams = f[Len(s)]
               /\ \A i \in 1..Len(s) : f[i] = Kept(f[i - 1], s[i])
  BY OneStreamAfterTheOther
<1> DEFINE Good(i) == /\ f[i] \in Seq(Watchers)
                      /\ \A k \in 1..Len(f[i]) : \E j \in 1..i : f[i][k] = s[j]
                      /\ IsInjective(s) => IsInjective(f[i])
           G == {i \in Nat : i <= Len(s) => Good(i)}
<1>2. 0 \in G
  <2>1. f[0] \in Seq(Watchers) /\ Len(f[0]) = 0
    BY <1>1
  <2>2. IsInjective(f[0])
    BY <2>1 DEF IsInjective
  <2> QED BY <2>1, <2>2
<1>3. ASSUME NEW i \in Nat, i \in G PROVE i + 1 \in G
  <2> SUFFICES ASSUME i + 1 <= Len(s) PROVE Good(i + 1)
    OBVIOUS
  <2>1. Good(i) /\ f[i + 1] = Kept(f[i], s[i + 1]) /\ s[i + 1] \in Watchers
    BY <1>1, <1>3
  <2>2. CASE s[i + 1] \notin open
    <3>1. f[i + 1] = f[i]
      BY <2>1, <2>2 DEF Kept
    <3>2. \A k \in 1..Len(f[i]) : \E j \in 1..(i + 1) : f[i][k] = s[j]
      BY <2>1
    <3> QED BY <2>1, <3>1, <3>2
  <2>3. CASE s[i + 1] \in open
    <3>1. f[i + 1] = Append(f[i], s[i + 1])
      BY <2>1, <2>3 DEF Kept
    <3>2. /\ f[i + 1] \in Seq(Watchers) /\ Len(f[i + 1]) = Len(f[i]) + 1
          /\ \A k \in 1..Len(f[i]) : f[i + 1][k] = f[i][k]
          /\ f[i + 1][Len(f[i]) + 1] = s[i + 1]
      BY <2>1, <3>1
    <3>3. \A k \in 1..Len(f[i + 1]) : \E j \in 1..(i + 1) : f[i + 1][k] = s[j]
      BY <2>1, <3>2
    <3>4. ASSUME IsInjective(s) PROVE IsInjective(f[i + 1])
      <4>1. \A k \in 1..Len(f[i]) : f[i][k] # s[i + 1]
        BY <2>1, <3>4 DEF IsInjective
      <4>2. IsInjective(f[i])
        BY <2>1, <3>4
      <4> QED BY <2>1, <3>1, <4>1, <4>2, AppendedIsInjective
    <3> QED BY <2>1, <3>2, <3>3, <3>4
  <2> QED BY <2>2, <2>3
<1>4. Len(s) \in G
  <2> HIDE DEF G
  <2> QED BY <1>2, <1>3, NatSetInduction
<1>5. Good(Len(s))
  BY <1>4
<1> QED BY <1>1, <1>5

-----------------------------------------------------------------------------
(* The types: events that are no newer than the lister, and the streams,    *)
(* of which none is connected before its handler is through.                *)

StreamsInv ==
    /\ handlers \in [Watchers -> {"none", "called", "sent", "over"}]
    /\ connectedStreams \in Seq(Watchers) /\ IsInjective(connectedStreams)
    /\ \A i \in DOMAIN connectedStreams : handlers[connectedStreams[i]] = "over"
    /\ open \subseteq {w \in Watchers : handlers[w] # "none"}
    /\ seen = [w \in Watchers |-> seen[w]]
    /\ \A w \in Watchers : handlers[w] \in {"none", "called"} => seen[w] = {}
    /\ used \in [{"changes", "restarts"} -> Nat]

EventsInv ==
    /\ \E S : events \in Seq(S)
    /\ \A i \in DOMAIN events :
          IsVersion(events[i]) /\ events[i].resourceVersion <= cached.resourceVersion

TypeInv == VersionInv /\ StreamsInv /\ EventsInv

LEMMA UseCounts ==
    ASSUME used \in [{"changes", "restarts"} -> Nat], NEW what \in {"changes", "restarts"},
           NEW bound, Use(what, bound)
    PROVE  used' \in [{"changes", "restarts"} -> Nat]
BY DEF Use

LEMMA StreamsStay ==
    ASSUME StreamsInv, UNCHANGED streams, used' \in [{"changes", "restarts"} -> Nat]
    PROVE  StreamsInv'
BY DEF StreamsInv, streams

LEMMA EventsStay == EventsInv /\ UNCHANGED informer => EventsInv'
BY DEF EventsInv, informer

LEMMA TypeInit == Init => TypeInv
<1> SUFFICES ASSUME Init PROVE TypeInv
  OBVIOUS
<1>1. used \in [{"changes", "restarts"} -> Nat]
  <2>1. used = [changes |-> 0, restarts |-> 0]
    BY DEF Init
  <2>2. used = [x \in {"changes", "restarts"} |-> used[x]] /\ used["changes"] = 0 /\ used["restarts"] = 0
    BY <2>1
  <2> QED BY <2>2
<1>2. connectedStreams = <<>> /\ events = <<>>
  BY DEF Init
<1>3. StreamsInv
  BY <1>1, <1>2 DEF Init, StreamsInv, IsInjective
<1>4. EventsInv
  BY <1>2 DEF EventsInv
<1> QED BY <1>3, <1>4, InitVersions DEF TypeInv

LEMMA WatcherKeepsStreams ==
    ASSUME StreamsInv, NEW w \in Watchers,
           watchGameServer(w) \/ close(w) \/ WatchGameServer(w) \/ Connect(w)
    PROVE  StreamsInv'
<1>1. CASE watchGameServer(w)
  BY <1>1 DEF watchGameServer, StreamsInv
<1>2. CASE close(w)
  BY <1>2 DEF close, StreamsInv
<1>3. CASE WatchGameServer(w)
  <2>1. /\ handlers[w] = "called" /\ UNCHANGED <<connectedStreams, open, used>>
        /\ \/ seen' = [seen EXCEPT ![w] = Sent(LatestGameServer)]
              /\ handlers' = [handlers EXCEPT ![w] = "sent"]
           \/ UNCHANGED seen /\ handlers' = [handlers EXCEPT ![w] = "over"]
    BY <1>3 DEF WatchGameServer
  <2>2. /\ handlers' \in [Watchers -> {"none", "called", "sent", "over"}]
        /\ \A x \in Watchers \ {w} : handlers'[x] = handlers[x] /\ seen'[x] = seen[x]
        /\ handlers'[w] \in {"sent", "over"} /\ seen' = [x \in Watchers |-> seen'[x]]
    BY <2>1 DEF StreamsInv
  <2>3. \A i \in DOMAIN connectedStreams : connectedStreams[i] \in Watchers \ {w}
    BY <2>1 DEF StreamsInv
  <2> QED BY <2>1, <2>2, <2>3 DEF StreamsInv
<1>4. CASE Connect(w)
  <2>1. /\ connectedStreams' = Append(connectedStreams, w)
        /\ handlers[w] = "sent" /\ handlers' = [handlers EXCEPT ![w] = "over"]
        /\ UNCHANGED <<open, seen, used>>
    BY <1>4 DEF Connect
  <2>2. \A k \in 1..Len(connectedStreams) : connectedStreams[k] # w
    BY <2>1 DEF StreamsInv
  <2>3. connectedStreams' \in Seq(Watchers) /\ IsInjective(connectedStreams')
    BY <2>1, <2>2, AppendedIsInjective DEF StreamsInv
  <2>4. \A i \in DOMAIN connectedStreams' : handlers'[connectedStreams'[i]] = "over"
    BY <2>1, AppendProperties DEF StreamsInv
  <2> QED BY <2>1, <2>3, <2>4 DEF StreamsInv
<1> QED BY <1>1, <1>2, <1>3, <1>4

LEMMA UpdateKeepsStreams == StreamsInv /\ sendGameServerUpdate => StreamsInv'
<1> SUFFICES ASSUME StreamsInv, sendGameServerUpdate PROVE StreamsInv'
  OBVIOUS
<1>1. /\ connectedStreams' = remainingStreams
      /\ seen' = [w \in Watchers |->
                     IF Contains(remainingStreams, w) THEN Sent(Head(events)) ELSE seen[w]]
      /\ UNCHANGED <<handlers, open, used>>
  BY DEF sendGameServerUpdate
<1>2. /\ remainingStreams \in Seq(Watchers) /\ IsInjective(remainingStreams)
      /\ \A k \in DOMAIN remainingStreams : handlers[remainingStreams[k]] = "over"
  BY RemainingStreams DEF StreamsInv
<1>3. ASSUME NEW w \in Watchers, handlers'[w] \in {"none", "called"} PROVE seen'[w] = {}
  <2>1. ~Contains(remainingStreams, w)
    BY <1>1, <1>2, <1>3 DEF Contains
  <2> QED BY <1>1, <1>3, <2>1 DEF StreamsInv
<1> QED BY <1>1, <1>2, <1>3 DEF StreamsInv

LEMMA SyncKeepsEvents ==
    ASSUME VersionInv, EventsInv, Sync
    PROVE  EventsInv'
<1>1. cached' = gameServer /\ events' = Append(events, gameServer)
  BY DEF Sync
<1>2. IsVersion(gameServer) /\ cached.resourceVersion \in Nat
      /\ cached.resourceVersion <= gameServer.resourceVersion
  BY DEF VersionInv, WasVersion, IsVersion
<1>3. PICK S : events \in Seq(S)
  BY DEF EventsInv
<1>4. events \in Seq(S \cup {gameServer})
  BY <1>3
<1>5. /\ events' \in Seq(S \cup {gameServer})
      /\ DOMAIN events' = 1..(Len(events) + 1) /\ DOMAIN events = 1..Len(events)
      /\ Len(events) \in Nat
      /\ \A i \in 1..Len(events) : events'[i] = events[i]
      /\ events'[Len(events) + 1] = gameServer
  BY <1>1, <1>4, AppendProperties, LenProperties
<1>6. ASSUME NEW i \in DOMAIN events'
      PROVE  IsVersion(events'[i]) /\ events'[i].resourceVersion <= cached'.resourceVersion
  <2>1. CASE i \in 1..Len(events)
    <3>1. IsVersion(events[i]) /\ events[i].resourceVersion <= cached.resourceVersion
      BY <1>5, <2>1 DEF EventsInv
    <3>2. events[i].resourceVersion <= gameServer.resourceVersion
      BY <1>2, <3>1 DEF IsVersion
    <3> QED BY <1>1, <1>5, <2>1, <3>1, <3>2
  <2>2. CASE i = Len(events) + 1
    BY <1>1, <1>2, <1>5, <2>2 DEF IsVersion
  <2> QED BY <1>5, <2>1, <2>2
<1> QED BY <1>5, <1>6 DEF EventsInv

LEMMA UpdateKeepsEvents == EventsInv /\ sendGameServerUpdate => EventsInv'
<1> SUFFICES ASSUME EventsInv, sendGameServerUpdate PROVE EventsInv'
  OBVIOUS
<1>1. events # <<>> /\ events' = Tail(events) /\ UNCHANGED cached
  BY DEF sendGameServerUpdate
<1>2. PICK S : events \in Seq(S)
  BY DEF EventsInv
<1>3. /\ events' \in Seq(S) /\ \A i \in DOMAIN events' : i + 1 \in DOMAIN events /\ events'[i] = events[i + 1]
  BY <1>1, <1>2
<1> QED BY <1>1, <1>3 DEF EventsInv

LEMMA TypeNext == TypeInv /\ [Next]_vars => TypeInv'
<1> SUFFICES ASSUME TypeInv, [Next]_vars PROVE StreamsInv' /\ EventsInv'
  BY NextKeeps DEF TypeInv
<1> USE DEF TypeInv
<1>1. CASE UNCHANGED vars
  BY <1>1, StreamsStay, EventsStay DEF vars, StreamsInv
<1>2. ASSUME NEW w \in Watchers,
             watchGameServer(w) \/ close(w) \/ WatchGameServer(w) \/ Connect(w)
      PROVE  StreamsInv' /\ EventsInv'
  <2>1. UNCHANGED informer
    BY <1>2 DEF watchGameServer, close, WatchGameServer, Connect
  <2> QED BY <1>2, <2>1, WatcherKeepsStreams, EventsStay
<1>3. CASE sendGameServerUpdate
  BY <1>3, UpdateKeepsStreams, UpdateKeepsEvents
<1>4. ASSUME UNCHANGED <<informer, streams>>, Use("changes", MaxChanges)
      PROVE  StreamsInv' /\ EventsInv'
  <2>1. used' \in [{"changes", "restarts"} -> Nat]
    BY <1>4, UseCounts DEF StreamsInv
  <2> QED BY <1>4, <2>1, StreamsStay, EventsStay
<1>5. ASSUME NEW count \in Counts, updateCounter(count) PROVE StreamsInv' /\ EventsInv'
  BY <1>4, <1>5 DEF updateCounter
<1>6. CASE Sync
  <2>1. UNCHANGED streams /\ UNCHANGED used
    BY <1>6 DEF Sync
  <2>2. StreamsInv'
    BY <2>1, StreamsStay DEF StreamsInv
  <2> QED BY <1>6, <2>2, SyncKeepsEvents
<1>7. ASSUME NEW gs, ChangeTo(gs) PROVE StreamsInv' /\ EventsInv'
  BY <1>4, <1>7 DEF ChangeTo
<1>8. ASSUME NEW value \in LabelValues, Labelled(value) PROVE StreamsInv' /\ EventsInv'
  BY <1>7, <1>8 DEF Labelled
<1>9. ASSUME NEW state \in GameServerStates, Moved(state) PROVE StreamsInv' /\ EventsInv'
  BY <1>7, <1>9 DEF Moved
<1>10. CASE Deleted
  BY <1>7, <1>10 DEF Deleted
<1>11. CASE Restart
  <2>1. /\ events' = <<>> /\ connectedStreams' = <<>> /\ open' = {} /\ UNCHANGED seen
        /\ handlers' = [w \in Watchers |-> IF handlers[w] = "none" THEN "none" ELSE "over"]
    BY <1>11 DEF Restart
  <2>2. used' \in [{"changes", "restarts"} -> Nat]
    BY <1>11, UseCounts DEF Restart, StreamsInv
  <2>3. StreamsInv'
    BY <2>1, <2>2 DEF StreamsInv, IsInjective
  <2> QED BY <2>1, <2>3 DEF EventsInv
<1> QED BY <1>1, <1>2, <1>3, <1>5, <1>6, <1>8, <1>9, <1>10, <1>11 DEF Next

LEMMA TypeInvImpliesTypeOK == TypeInv => TypeOK
<1> SUFFICES ASSUME TypeInv PROVE TypeOK
  OBVIOUS
<1>1. /\ cached.resourceVersion \in 0..gameServer.resourceVersion
      /\ cached.generation \in 0..gameServer.generation
      /\ \A copy \in gsCopy : copy.resourceVersion <= gameServer.resourceVersion
  BY DEF TypeInv, VersionInv, WasVersion, IsVersion
<1>2. ToSet(connectedStreams) \subseteq {w \in Watchers : handlers[w] = "over"}
  BY DEF TypeInv, StreamsInv, ToSet
<1> QED BY <1>1, <1>2 DEF TypeOK, TypeInv, StreamsInv, EventsInv

\* Every variable keeps its type: however many watchers come and go, a stream is connected once
\* and only after its first message, and no update the handler has still to see is newer than
\* the lister (WatchGameServer and sendGameServerUpdate, sdkserver.go:656 and 1402).
THEOREM TypeCorrect == Spec => []TypeOK
BY TypeInit, TypeNext, TypeInvImpliesTypeOK, PTL DEF Spec

-----------------------------------------------------------------------------
\* What is decoded is what was encoded: leaving out the fields that have their
\* default loses nothing, for every message class and every content.
THEOREM RoundTrip ==
    ASSUME NEW blank, NEW message, message = [f \in DOMAIN blank |-> message[f]],
           blank = [f \in DOMAIN blank |-> blank[f]]
    PROVE  Decode(Encode(message, blank), blank) = message
<1> DEFINE written == {g \in DOMAIN blank : message[g] # blank[g]}
<1>1. DOMAIN Encode(message, blank) = written
  BY DEF Encode
<1>2. ASSUME NEW f \in DOMAIN blank
      PROVE  (IF f \in DOMAIN Encode(message, blank)
                 THEN Encode(message, blank)[f] ELSE blank[f]) = message[f]
  <2>1. CASE f \in written
    BY <1>1, <2>1 DEF Encode
  <2>2. CASE f \notin written
    BY <1>1, <2>2
  <2> QED BY <2>1, <2>2
<1> QED BY <1>2 DEF Decode
=============================================================================
