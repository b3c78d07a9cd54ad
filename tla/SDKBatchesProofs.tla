-------------------------- MODULE SDKBatchesProofs --------------------------
(***************************************************************************)
(* Theorems about SDKBatches, for every set of requests, every Counter and *)
(* List, and any number of calls under way: its types, that the GameServer *)
(* stays within its capacities, that a batch is applied to the latest      *)
(* GameServer, and that the game server does not see it being written.     *)
(***************************************************************************)
EXTENDS SDKBatches, FiniteSetTheorems, SequenceTheorems, TLAPS

-----------------------------------------------------------------------------
(* The values of a List are handled with folds.  What a fold computes is    *)
(* found by induction, with the least number for which it would be wrong.   *)

\* Induction over a set of numbers.
LEMMA NatSetInduction ==
    ASSUME NEW G, 0 \in G, \A n \in Nat : n \in G => n + 1 \in G
    PROVE  Nat \subseteq G
<1> DEFINE T == Nat \ G
<1> SUFFICES ASSUME T # {} PROVE FALSE
  OBVIOUS
<1>1. \E n \in T : \A m \in T : <<m, n>> \notin OpToRel(<, Nat)
  BY NatLessThanWellFounded, WFMin
<1>2. PICK n \in T : \A m \in T : ~(m < n)
  BY <1>1 DEF OpToRel
<1>3. n - 1 \in Nat /\ n - 1 \notin T
  BY <1>2
<1> QED BY <1>3

\* What MapThenFoldSet recurs on: over the subsets of a finite set, when the element
\* taken is pick[s] and what is done with it is step; for the sets up to a size.
Recurs(h, U, pick, base, step, n) ==
    /\ h[{}] = base
    /\ \A s \in SUBSET U : s # {} /\ Cardinality(s) <= n => h[s] = step[pick[s]][h[s \ {pick[s]}]]

LEMMA OneMoreRecurs ==
    ASSUME NEW U, IsFiniteSet(U), NEW pick, \A s \in SUBSET U : s # {} => pick[s] \in s,
           NEW A, NEW base \in A, NEW step \in [U -> [A -> A]],
           NEW n \in Nat, NEW h \in [SUBSET U -> A], Recurs(h, U, pick, base, step, n)
    PROVE  \E g \in [SUBSET U -> A] : Recurs(g, U, pick, base, step, n + 1)
<1> DEFINE g == [s \in SUBSET U |-> IF s = {} THEN base ELSE step[pick[s]][h[s \ {pick[s]}]]]
<1>1. \A s \in SUBSET U : s # {} =>
         /\ pick[s] \in U /\ s \ {pick[s]} \in SUBSET U
         /\ Cardinality(s) \in Nat
         /\ Cardinality(s \ {pick[s]}) = Cardinality(s) - 1
  BY FS_Subset, FS_CardinalityType, FS_RemoveElement
<1>2. g \in [SUBSET U -> A]
  <2>1. ASSUME NEW s \in SUBSET U, s # {}
        PROVE  step[pick[s]][h[s \ {pick[s]}]] \in A
    <3>1. step[pick[s]] \in [A -> A] /\ h[s \ {pick[s]}] \in A
      BY <1>1, <2>1
    <3> QED BY <3>1
  <2> QED BY <2>1
<1>3. g[{}] = base /\ h[{}] = base
  BY DEF Recurs
<1>4. \A s \in SUBSET U : s # {} => g[s] = step[pick[s]][h[s \ {pick[s]}]]
  OBVIOUS
<1> HIDE DEF g
<1>5. ASSUME NEW s \in SUBSET U, s = {} \/ Cardinality(s) <= n PROVE g[s] = h[s]
  BY <1>3, <1>4, <1>5 DEF Recurs
<1>6. ASSUME NEW s \in SUBSET U, s # {}, Cardinality(s) <= n + 1
      PROVE  g[s] = step[pick[s]][g[s \ {pick[s]}]]
  <2>1. s \ {pick[s]} \in SUBSET U /\ Cardinality(s \ {pick[s]}) <= n
    BY <1>1, <1>6
  <2>2. g[s \ {pick[s]}] = h[s \ {pick[s]}]
    BY <1>5, <2>1
  <2> QED BY <1>4, <1>6, <2>2
<1> QED BY <1>2, <1>3, <1>6 DEF Recurs

Picks(pick, U) == \A s \in SUBSET U : s # {} => pick[s] \in s

RecursOnSets(h, U, pick, base, step) ==
    \A s \in SUBSET U : h[s] = IF s = {} THEN base ELSE step[pick[s]][h[s \ {pick[s]}]]

LEMMA RecursionExists ==
    ASSUME NEW U, IsFiniteSet(U), NEW pick, Picks(pick, U),
           NEW A, NEW base \in A, NEW step \in [U -> [A -> A]]
    PROVE  \E h \in [SUBSET U -> A] : RecursOnSets(h, U, pick, base, step)
<1> DEFINE G == {n \in Nat : \E h \in [SUBSET U -> A] : Recurs(h, U, pick, base, step, n)}
<1>1. \A s \in SUBSET U :
         Cardinality(s) \in Nat /\ Cardinality(s) <= Cardinality(U) /\ (Cardinality(s) = 0 => s = {})
  BY FS_Subset, FS_CardinalityType, FS_EmptySet
<1>2. 0 \in G
  <2> DEFINE h == [s \in SUBSET U |-> base]
  <2>1. h \in [SUBSET U -> A] /\ h[{}] = base
    OBVIOUS
  <2> HIDE DEF h
  <2>2. \A s \in SUBSET U : ~(s # {} /\ Cardinality(s) <= 0)
    BY <1>1
  <2>3. Recurs(h, U, pick, base, step, 0)
    BY <2>1, <2>2 DEF Recurs
  <2> QED BY <2>1, <2>3
<1>3. ASSUME NEW n \in Nat, n \in G PROVE n + 1 \in G
  <2>1. PICK h \in [SUBSET U -> A] : Recurs(h, U, pick, base, step, n)
    BY <1>3
  <2>2. \E g \in [SUBSET U -> A] : Recurs(g, U, pick, base, step, n + 1)
    BY <2>1, OneMoreRecurs DEF Picks
  <2> QED BY <2>2
<1>4. Cardinality(U) \in G
  <2> HIDE DEF G
  <2> QED BY <1>1, <1>2, <1>3, NatSetInduction
<1>5. PICK h \in [SUBSET U -> A] : Recurs(h, U, pick, base, step, Cardinality(U))
  BY <1>4
<1>6. \A s \in SUBSET U : h[s] = IF s = {} THEN base ELSE step[pick[s]][h[s \ {pick[s]}]]
  BY <1>1, <1>5 DEF Recurs
<1> QED BY <1>6 DEF RecursOnSets

\* Induction over the prefixes of 1..n
LEMMA MaxOfInterval ==
    ASSUME NEW n \in Nat, n # 0
    PROVE  Max(1..n) = n /\ (1..n) \ {n} = 1..(n - 1) /\ 1..n # {}
<1>1. Max(1..n) = n
  BY DEF Max
<1>2. (1..n) \ {n} = 1..(n - 1) /\ n \in 1..n
  OBVIOUS
<1> QED BY <1>1, <1>2

LEMMA MaxPicks ==
    ASSUME NEW n \in Nat, NEW s \in SUBSET (1..n), s # {}
    PROVE  Max(s) \in s
<1> DEFINE T == {x \in Nat : n - x \in s}
<1>1. PICK y \in s : TRUE
  OBVIOUS
<1>2. n - y \in T
  BY <1>1
<1>3. PICK m \in T : \A k \in T : ~(k < m)
  <2>1. \E m \in T : \A k \in T : <<k, m>> \notin OpToRel(<, Nat)
    BY <1>2, NatLessThanWellFounded, WFMin
  <2> QED BY <2>1 DEF OpToRel
<1>4. \A x \in s : n - m >= x
  <2> SUFFICES ASSUME NEW x \in s PROVE n - m >= x
    OBVIOUS
  <2>1. n - x \in T
    OBVIOUS
  <2>2. ~(n - x < m)
    BY <1>3, <2>1
  <2> QED BY <2>2
<1>5. n - m \in s
  OBVIOUS
<1> QED BY <1>4, <1>5 DEF Max


RecursOnPrefixes(h, s, base, step) ==
    \A t \in SUBSET DOMAIN s :
        h[t] = IF t = {} THEN base ELSE step[s[Max(t)]][h[t \ {Max(t)}]]

LEMMA FoldLeftRecurs ==
    ASSUME NEW S, NEW s \in Seq(S), NEW A, NEW base \in A, NEW step \in [S -> [A -> A]]
    PROVE  \E h \in [SUBSET DOMAIN s -> A] : RecursOnPrefixes(h, s, base, step)
<1> DEFINE D == DOMAIN s
           pick == [t \in (SUBSET D) \ {{}} |-> Max(t)]
           at == [i \in D |-> step[s[i]]]
<1>1. Len(s) \in Nat /\ D = 1..Len(s) /\ IsFiniteSet(D)
  BY FS_Interval
<1>2. \A t \in SUBSET D : t # {} => pick[t] \in t /\ pick[t] = Max(t)
  BY <1>1, MaxPicks
<1>3. at \in [D -> [A -> A]] /\ \A i \in D : at[i] = step[s[i]]
  BY <1>1
<1> HIDE DEF D, pick, at
<1>4. Picks(pick, D)
  BY <1>2 DEF Picks
<1>5. PICK h \in [SUBSET D -> A] :
            RecursOnSets(h, D, pick, base, at)
  BY <1>1, <1>3, <1>4, RecursionExists
<1>6. ASSUME NEW t \in SUBSET D
      PROVE  h[t] = IF t = {} THEN base ELSE step[s[Max(t)]][h[t \ {Max(t)}]]
  <2>1. h[t] = IF t = {} THEN base ELSE at[pick[t]][h[t \ {pick[t]}]]
    BY <1>5 DEF RecursOnSets
  <2>2. t # {} => pick[t] = Max(t) /\ Max(t) \in D
    BY <1>2
  <2> QED BY <1>3, <2>1, <2>2
<1> QED BY <1>6 DEF D, RecursOnPrefixes

\* deleteValues and MergeRemoveDuplicates go through the values one by one.
Without(kept, v, toDelete) == IF v \in toDelete THEN kept ELSE Append(kept, v)
With(unique, v) == IF Contains(unique, v) THEN unique ELSE Append(unique, v)

LEMMA DeletesOneByOne ==
    ASSUME NEW S, NEW s \in Seq(S), NEW T
    PROVE  \E f : /\ f[0] = <<>> /\ deleteValues(s, T) = f[Len(s)]
                  /\ \A i \in 1..Len(s) : f[i] = Without(f[i - 1], s[i], T)
<1> DEFINE D == DOMAIN s
           A == Seq(S)
           step == [v \in S |-> [kept \in Seq(S) |-> Without(kept, v, T)]]
           iter == CHOOSE h : h = [t \in SUBSET D |->
                      IF t = {} THEN <<>> ELSE Without(h[t \ {Max(t)}], s[Max(t)], T)]
           f == [i \in 0..Len(s) |-> iter[1..i]]
<1>1. Len(s) \in Nat /\ D = 1..Len(s) /\ \A i \in D : s[i] \in S
  OBVIOUS
<1>2. \A v \in S, kept \in Seq(S) : Without(kept, v, T) \in Seq(S)
  BY DEF Without
<1>3. step \in [S -> [A -> A]] /\ <<>> \in A
  BY <1>2
<1>4. \A v \in S, kept \in A : step[v][kept] = Without(kept, v, T)
  OBVIOUS
<1>13. deleteValues(s, T) = iter[D]
  BY DEF deleteValues, FoldLeft, MapThenFoldSet, Without
<1> HIDE DEF step, A, D
<1>5. PICK h \in [SUBSET D -> A] :
            RecursOnPrefixes(h, s, <<>>, step)
  BY <1>3, FoldLeftRecurs DEF D
<1>6. ASSUME NEW t \in SUBSET D
      PROVE  h[t] = IF t = {} THEN <<>> ELSE Without(h[t \ {Max(t)}], s[Max(t)], T)
  <2>1. t # {} => Max(t) \in t /\ s[Max(t)] \in S /\ h[t \ {Max(t)}] \in A
    BY <1>1, MaxPicks
  <2> QED BY <1>4, <1>5, <2>1 DEF RecursOnPrefixes, D
<1>7. h = [t \in SUBSET D |-> IF t = {} THEN <<>> ELSE Without(h[t \ {Max(t)}], s[Max(t)], T)]
  BY <1>6
<1>8. iter = [t \in SUBSET D |->
                IF t = {} THEN <<>> ELSE Without(iter[t \ {Max(t)}], s[Max(t)], T)]
  BY <1>7
<1> HIDE DEF iter
<1>10. f[0] = <<>>
  BY <1>1, <1>8
<1>11. ASSUME NEW i \in 1..Len(s) PROVE f[i] = Without(f[i - 1], s[i], T)
  <2>1. 1..i \in SUBSET D /\ i \in Nat /\ i # 0
    BY <1>1
  <2>2. 1..i # {} /\ (1..i) \ {i} = 1..(i - 1) /\ Max(1..i) = i
    BY <2>1, MaxOfInterval
  <2>3. f[i] = iter[1..i] /\ f[i - 1] = iter[1..(i - 1)]
    BY <1>1
  <2> QED BY <1>8, <2>1, <2>2, <2>3
<1>12. f[Len(s)] = iter[D]
  BY <1>1
<1> HIDE DEF f
<1> QED BY <1>13, <1>10, <1>11, <1>12

LEMMA AppendedIsInjective ==
    ASSUME NEW S, NEW u \in Seq(S), IsInjective(u), NEW v \in S, \A k \in 1..Len(u) : u[k] # v
    PROVE  IsInjective(Append(u, v))
<1> DEFINE w == Append(u, v)
<1>1. /\ DOMAIN w = 1..(Len(u) + 1) /\ DOMAIN u = 1..Len(u) /\ Len(u) \in Nat
      /\ \A k \in 1..Len(u) : w[k] = u[k]
      /\ w[Len(u) + 1] = v
  BY AppendProperties, LenProperties
<1> HIDE DEF w
<1>2. ASSUME NEW a \in DOMAIN w, NEW b \in DOMAIN w, w[a] = w[b] PROVE a = b
  <2>1. CASE a \in 1..Len(u) /\ b \in 1..Len(u)
    BY <1>1, <1>2, <2>1 DEF IsInjective
  <2>2. CASE a = Len(u) + 1 \/ b = Len(u) + 1
    BY <1>1, <1>2, <2>2
  <2> QED BY <1>1, <2>1, <2>2
<1> QED BY <1>2 DEF IsInjective, w

\* They are different values of the sequence, in which each occurs once.
LEMMA DeleteProperties ==
    ASSUME NEW S, NEW s \in Seq(S), NEW T
    PROVE  /\ deleteValues(s, T) \in Seq(S) /\ Len(deleteValues(s, T)) <= Len(s)
           /\ IsInjective(s) => IsInjective(deleteValues(s, T))
<1>1. PICK f : /\ f[0] = <<>> /\ deleteValues(s, T) = f[Len(s)]
               /\ \A i \in 1..Len(s) : f[i] = Without(f[i - 1], s[i], T)
  BY DeletesOneByOne
<1> DEFINE Good(i) == /\ f[i] \in Seq(S) /\ Len(f[i]) <= i
                      /\ \A k \in 1..Len(f[i]) : \E j \in 1..i : f[i][k] = s[j]
                      /\ IsInjective(s) => IsInjective(f[i])
           G == {i \in Nat : i <= Len(s) => Good(i)}
<1>2. 0 \in G
  <2>1. f[0] \in Seq(S) /\ Len(f[0]) = 0
    BY <1>1
  <2>2. IsInjective(f[0])
    BY <2>1 DEF IsInjective
  <2> QED BY <2>1, <2>2
<1>3. ASSUME NEW i \in Nat, i \in G PROVE i + 1 \in G
  <2> SUFFICES ASSUME i + 1 <= Len(s) PROVE Good(i + 1)
    OBVIOUS
  <2>1. Good(i) /\ f[i + 1] = Without(f[i], s[i + 1], T) /\ s[i + 1] \in S
    BY <1>1, <1>3
  <2>2. CASE s[i + 1] \in T
    <3>1. f[i + 1] = f[i]
      BY <2>1, <2>2 DEF Without
    <3>2. \A k \in 1..Len(f[i]) : \E j \in 1..(i + 1) : f[i][k] = s[j]
      BY <2>1
    <3> QED BY <2>1, <3>1, <3>2
  <2>3. CASE s[i + 1] \notin T
    <3>1. f[i + 1] = Append(f[i], s[i + 1])
      BY <2>1, <2>3 DEF Without
    <3>2. /\ f[i + 1] \in Seq(S) /\ Len(f[i + 1]) = Len(f[i]) + 1
          /\ \A k \in 1..Len(f[i]) : f[i + 1][k] = f[i][k]
          /\ f[i + 1][Len(f[i]) + 1] = s[i + 1]
      BY <2>1, <3>1
    <3>3. \A k \in 1..Len(f[i + 1]) : \E j \in 1..(i + 1) : f[i + 1][k] = s[j]
      BY <2>1, <3>2
    <3>4. ASSUME IsInjective(s) PROVE IsInjective(f[i + 1])
      <4>1. \A k \in 1..Len(f[i]) : f[i][k] # s[i + 1]
        BY <2>1, <3>4 DEF IsInjective
      <4>2. IsInjective(f[i])
        BY <2>1, <3>4
      <4> QED BY <2>1, <3>1, <4>1, <4>2, AppendedIsInjective
    <3> QED BY <2>1, <3>2, <3>3, <3>4
  <2> QED BY <2>2, <2>3
<1>4. Len(s) \in G
  <2> HIDE DEF G
  <2> QED BY <1>2, <1>3, NatSetInduction
<1> QED BY <1>1, <1>4

LEMMA MergesOneByOne ==
    ASSUME NEW S, NEW l1 \in Seq(S), NEW l2 \in Seq(S)
    PROVE  \E f : /\ f[0] = <<>> /\ MergeRemoveDuplicates(l1, l2) = f[Len(l1 \o l2)]
                  /\ \A i \in 1..Len(l1 \o l2) : f[i] = With(f[i - 1], (l1 \o l2)[i])
<1> DEFINE s == l1 \o l2
           D == DOMAIN s
           A == Seq(S)
           step == [v \in S |-> [unique \in Seq(S) |-> With(unique, v)]]
           iter == CHOOSE h : h = [t \in SUBSET D |->
                      IF t = {} THEN <<>> ELSE With(h[t \ {Max(t)}], s[Max(t)])]
           f == [i \in 0..Len(s) |-> iter[1..i]]
<1>0. s \in Seq(S)
  BY ConcatProperties
<1>1. Len(s) \in Nat /\ D = 1..Len(s) /\ \A i \in D : s[i] \in S
  BY <1>0
<1>2. \A v \in S, unique \in Seq(S) : With(unique, v) \in Seq(S)
  BY DEF With
<1>3. step \in [S -> [A -> A]] /\ <<>> \in A
  BY <1>2
<1>4. \A v \in S, unique \in A : step[v][unique] = With(unique, v)
  OBVIOUS
<1>5. MergeRemoveDuplicates(l1, l2) = iter[D]
  BY DEF MergeRemoveDuplicates, FoldLeft, MapThenFoldSet, With
<1> HIDE DEF step, A, D, s
<1>6. PICK h \in [SUBSET D -> A] :
            RecursOnPrefixes(h, s, <<>>, step)
  BY <1>0, <1>3, FoldLeftRecurs DEF D
<1>7. ASSUME NEW t \in SUBSET D
      PROVE  h[t] = IF t = {} THEN <<>> ELSE With(h[t \ {Max(t)}], s[Max(t)])
  <2>1. t # {} => Max(t) \in t /\ s[Max(t)] \in S /\ h[t \ {Max(t)}] \in A
    BY <1>1, MaxPicks
  <2> QED BY <1>4, <1>6, <2>1 DEF RecursOnPrefixes, D
<1>8. h = [t \in SUBSET D |-> IF t = {} THEN <<>> ELSE With(h[t \ {Max(t)}], s[Max(t)])]
  BY <1>7
<1>9. iter = [t \in SUBSET D |->
                IF t = {} THEN <<>> ELSE With(iter[t \ {Max(t)}], s[Max(t)])]
  BY <1>8
<1> HIDE DEF iter
<1>10. f[0] = <<>>
  BY <1>1, <1>9
<1>11. ASSUME NEW i \in 1..Len(s) PROVE f[i] = With(f[i - 1], s[i])
  <2>1. 1..i \in SUBSET D /\ i \in Nat /\ i # 0
    BY <1>1
  <2>2. 1..i # {} /\ (1..i) \ {i} = 1..(i - 1) /\ Max(1..i) = i
    BY <2>1, MaxOfInterval
  <2>3. f[i] = iter[1..i] /\ f[i - 1] = iter[1..(i - 1)]
    BY <1>1
  <2> QED BY <1>9, <2>1, <2>2, <2>3
<1>12. f[Len(s)] = iter[D]
  BY <1>1
<1> HIDE DEF f
<1> QED BY <1>5, <1>10, <1>11, <1>12 DEF s

LEMMA MergeProperties ==
    ASSUME NEW S, NEW l1 \in Seq(S), NEW l2 \in Seq(S)
    PROVE  MergeRemoveDuplicates(l1, l2) \in Seq(S) /\ IsInjective(MergeRemoveDuplicates(l1, l2))
<1> DEFINE s == l1 \o l2
<1>1. s \in Seq(S) /\ Len(s) \in Nat /\ \A i \in 1..Len(s) : s[i] \in S
  BY ConcatProperties
<1>2. PICK f : /\ f[0] = <<>> /\ MergeRemoveDuplicates(l1, l2) = f[Len(s)]
               /\ \A i \in 1..Len(s) : f[i] = With(f[i - 1], s[i])
  BY MergesOneByOne
<1> HIDE DEF s
<1> DEFINE G == {i \in Nat : i <= Len(s) => f[i] \in Seq(S) /\ IsInjective(f[i])}
<1>3. 0 \in G
  <2>1. f[0] \in Seq(S) /\ Len(f[0]) = 0
    BY <1>2
  <2>2. IsInjective(f[0])
    BY <2>1 DEF IsInjective
  <2> QED BY <2>1, <2>2
<1>4. ASSUME NEW i \in Nat, i \in G PROVE i + 1 \in G
  <2> SUFFICES ASSUME i + 1 <= Len(s) PROVE f[i + 1] \in Seq(S) /\ IsInjective(f[i + 1])
    OBVIOUS
  <2>1. /\ f[i] \in Seq(S) /\ IsInjective(f[i])
        /\ f[i + 1] = With(f[i], s[i + 1]) /\ s[i + 1] \in S
    BY <1>1, <1>2, <1>4
  <2>2. CASE Contains(f[i], s[i + 1])
    BY <2>1, <2>2 DEF With
  <2>3. CASE ~Contains(f[i], s[i + 1])
    <3>1. f[i + 1] = Append(f[i], s[i + 1])
      BY <2>1, <2>3 DEF With
    <3>2. \A k \in 1..Len(f[i]) : f[i][k] # s[i + 1]
      BY <2>3 DEF Contains
    <3> QED BY <2>1, <3>1, <3>2, AppendedIsInjective
  <2> QED BY <2>2, <2>3
<1>5. Len(s) \in G
  <2> HIDE DEF G
  <2> QED BY <1>1, <1>3, <1>4, NatSetInduction
<1> QED BY <1>1, <1>2, <1>5

LEMMA TruncatedProperties ==
    ASSUME NEW S, NEW s \in Seq(S), NEW capacity \in Nat
    PROVE  /\ Truncated(s, capacity) \in Seq(S)
           /\ Len(Truncated(s, capacity)) <= capacity
           /\ IsInjective(s) => IsInjective(Truncated(s, capacity))
<1>1. CASE Len(s) <= capacity
  BY <1>1 DEF Truncated
<1>2. CASE Len(s) > capacity
  <2> DEFINE cut == SubSeq(s, 1, capacity)
  <2>1. /\ cut \in Seq(S) /\ Len(cut) = capacity /\ DOMAIN cut = 1..capacity
        /\ \A i \in 1..capacity : cut[i] = s[i]
    BY <1>2, SubSeqProperties
  <2>2. Truncated(s, capacity) = cut /\ DOMAIN s = 1..Len(s)
    BY <1>2 DEF Truncated
  <2> HIDE DEF cut
  <2> QED BY <1>2, <2>1, <2>2 DEF IsInjective
<1> QED BY <1>1, <1>2, LenProperties

-----------------------------------------------------------------------------
(* The type invariant, with what it takes to be kept: whatever GameServer   *)
(* is held anywhere, it is within its capacities.                           *)

Optional(S, T) == \A x \in S : x \in T /\ S = {x}

GoodGameServers == {gs \in GameServers : CounterWithin(gs.counter) /\ ListWithin(gs.list)}

IsCounterBatch(u) ==
    /\ u = [capacitySet |-> u.capacitySet, countSet |-> u.countSet, diff |-> u.diff]
    /\ Optional(u.capacitySet, Nat) /\ Optional(u.countSet, Nat) /\ u.diff \in Int

IsListBatch(u) ==
    /\ u = [capacitySet |-> u.capacitySet, valuesToDelete |-> u.valuesToDelete,
            valuesToAppend |-> u.valuesToAppend]
    /\ Optional(u.capacitySet, 0..MaxListCapacity) /\ u.valuesToAppend \in Seq(STRING)

IsCall(c) ==
    /\ c = [method |-> c.method, wire |-> c.wire, phase |-> c.phase, gs |-> c.gs, list |-> c.list]
    /\ c.phase \in {"none", "sent", "fetched", "listed"}
    /\ Optional(c.gs, GoodGameServers)
    /\ c.phase # "none" => HasItsTypes(c.method, Decode(c.wire, BlankOf[c.method]))
    /\ c.phase \in {"fetched", "listed"} /\ c.method = "UpdateList" =>
          ListOfRequest(Decode(c.wire, BlankOf[c.method])).capacity \in 0..MaxListCapacity

IsWorker(w) ==
    /\ w = [operation |-> w.operation, gs |-> w.gs, copy |-> w.copy, aliased |-> w.aliased]
    /\ w.operation \in Operations \cup {"none"} /\ w.aliased \subseteq {"gs", "copy"}
    /\ Optional(w.gs, GoodGameServers) /\ Optional(w.copy, GoodGameServers)
    /\ w.copy # {} => w.operation \in Operations

Counted == used \in [{"calls", "changes", "faults"} -> Nat]

GameServersInv ==
    gameServer \in GoodGameServers /\ cached \in GoodGameServers /\ Optional(gsCopy, GoodGameServers)
BatchesInv ==
    /\ \A u \in gsCounterUpdates : IsCounterBatch(u) /\ gsCounterUpdates = {u}
    /\ \A u \in gsListUpdates : IsListBatch(u) /\ gsListUpdates = {u}
PlayersInv ==
    gsConnectedPlayers \in Seq(STRING) /\ gsPlayerCapacity \in Int /\ aliased \in BOOLEAN
CallsInv == DOMAIN calls = Slots /\ \A s \in Slots : IsCall(calls[s])

TypeInv ==
    /\ GameServersInv /\ BatchesInv /\ PlayersInv /\ CallsInv
    /\ workerqueue \subseteq Operations /\ IsWorker(worker) /\ Counted

-----------------------------------------------------------------------------
LEMMA OrIsIn ==
    ASSUME NEW S, NEW T, Optional(S, T), NEW d \in T
    PROVE  Or(S, d) \in T
BY DEF Optional, Or

LEMMA ClampIsWithin ==
    ASSUME NEW count \in Int, NEW capacity \in Nat
    PROVE  Clamp(count, capacity) \in Nat /\ Clamp(count, capacity) <= capacity
BY DEF Clamp

LEMMA AsCounter ==
    ASSUME NEW count \in Int, NEW capacity \in Nat
    PROVE  LET c == [capacity |-> capacity, count |-> Clamp(count, capacity)]
           IN  c \in Counters /\ CounterWithin(c)
BY ClampIsWithin DEF Counters, CounterWithin

LEMMA AsList ==
    ASSUME NEW values \in Seq(STRING), IsInjective(values), NEW capacity \in Nat
    PROVE  LET l == [capacity |-> capacity, values |-> Truncated(values, capacity)]
           IN  l \in Lists /\ ListWithin(l)
<1>1. /\ Truncated(values, capacity) \in Seq(STRING)
      /\ Len(Truncated(values, capacity)) <= capacity
      /\ IsInjective(Truncated(values, capacity))
  BY TruncatedProperties
<1> QED BY <1>1 DEF Lists, ListWithin

LEMMA BatchedCounterIsGood ==
    ASSUME BatchesInv, NEW counter \in Counters
    PROVE  BatchedCounter(counter) \in Counters /\ CounterWithin(BatchedCounter(counter))
<1> DEFINE update == Or(gsCounterUpdates, NoCounterUpdate)
           capacity == Or(update.capacitySet, counter.capacity)
           newCnt == Or(update.countSet, counter.count) + update.diff
<1>1. IsCounterBatch(NoCounterUpdate)
  BY DEF IsCounterBatch, NoCounterUpdate, Optional
<1>2. IsCounterBatch(update)
  BY <1>1 DEF BatchesInv, Or
<1> HIDE DEF update
<1>3. counter.capacity \in Nat /\ counter.count \in Nat
  BY DEF Counters
<1>4. capacity \in Nat
  BY <1>2, <1>3, OrIsIn DEF IsCounterBatch
<1>5. Or(update.countSet, counter.count) \in Nat /\ update.diff \in Int
  BY <1>2, <1>3, OrIsIn DEF IsCounterBatch
<1>6. newCnt \in Int
  BY <1>5
<1>7. BatchedCounter(counter) = [capacity |-> capacity, count |-> Clamp(newCnt, capacity)]
  BY DEF BatchedCounter, update
<1> HIDE DEF capacity, newCnt
<1> QED BY <1>4, <1>6, <1>7, AsCounter

LEMMA BatchedListIsGood ==
    ASSUME BatchesInv, NEW list \in Lists, ListWithin(list)
    PROVE  BatchedList(list) \in Lists /\ ListWithin(BatchedList(list))
<1> DEFINE update == Or(gsListUpdates, NoListUpdate)
           capacity == Or(update.capacitySet, list.capacity)
           kept == deleteValues(list.values, update.valuesToDelete)
           merged == IF update.valuesToAppend = <<>> THEN kept
                     ELSE MergeRemoveDuplicates(kept, update.valuesToAppend)
<1>1. IsListBatch(NoListUpdate)
  BY DEF IsListBatch, NoListUpdate, Optional
<1>2. IsListBatch(update)
  BY <1>1 DEF BatchesInv, Or
<1>8. BatchedList(list) = [capacity |-> capacity, values |-> Truncated(merged, capacity)]
  BY DEF BatchedList
<1> HIDE DEF update
<1>3. list.capacity \in Nat /\ list.values \in Seq(STRING) /\ IsInjective(list.values)
  BY DEF Lists, ListWithin
<1>4. Optional(update.capacitySet, Nat)
  BY <1>2, SDKBatchesAssumption DEF IsListBatch, Optional
<1>5. capacity \in Nat
  BY <1>3, <1>4, OrIsIn
<1>6. kept \in Seq(STRING) /\ IsInjective(kept)
  BY <1>3, DeleteProperties
<1> HIDE DEF kept
<1>7. merged \in Seq(STRING) /\ IsInjective(merged)
  BY <1>2, <1>6, MergeProperties DEF IsListBatch
<1> HIDE DEF capacity, merged
<1> QED BY <1>5, <1>7, <1>8, AsList

\* What is changed in a GameServer leaves it within its capacities.
LEMMA GoodFields ==
    ASSUME NEW gs \in GoodGameServers
    PROVE  /\ gs = [generation |-> gs.generation, counter |-> gs.counter, list |-> gs.list,
                    players |-> gs.players]
           /\ gs.generation \in Nat /\ gs.counter \in Counters /\ CounterWithin(gs.counter)
           /\ gs.list \in Lists /\ ListWithin(gs.list) /\ gs.players \in PlayerLists
BY DEF GoodGameServers, GameServers

LEMMA GoodWith ==
    ASSUME NEW g \in Nat, NEW c \in Counters, CounterWithin(c), NEW l \in Lists, ListWithin(l),
           NEW p \in PlayerLists
    PROVE  [generation |-> g, counter |-> c, list |-> l, players |-> p] \in GoodGameServers
BY DEF GoodGameServers, GameServers

LEMMA ChangedIsGood ==
    ASSUME NEW gs \in GoodGameServers
    PROVE  /\ [gs EXCEPT !.generation = @ + 1] \in GoodGameServers
           /\ \A c \in Counters : CounterWithin(c) => [gs EXCEPT !.counter = c] \in GoodGameServers
           /\ \A l \in Lists : ListWithin(l) => [gs EXCEPT !.list = l] \in GoodGameServers
           /\ \A ids \in Seq(STRING) : [gs EXCEPT !.players.ids = ids] \in GoodGameServers
           /\ \A n \in Int : [gs EXCEPT !.players.capacity = n] \in GoodGameServers
<1>1. PICK g, c, l, p :
         /\ gs = [generation |-> g, counter |-> c, list |-> l, players |-> p]
         /\ g \in Nat /\ c \in Counters /\ CounterWithin(c) /\ l \in Lists /\ ListWithin(l)
         /\ p \in PlayerLists
  BY GoodFields
<1>2. [gs EXCEPT !.generation = @ + 1]
         = [generation |-> g + 1, counter |-> c, list |-> l, players |-> p]
  BY <1>1
<1>3. ASSUME NEW d \in Counters, CounterWithin(d) PROVE [gs EXCEPT !.counter = d] \in GoodGameServers
  <2>1. [gs EXCEPT !.counter = d] = [generation |-> g, counter |-> d, list |-> l, players |-> p]
    BY <1>1
  <2> QED BY <1>1, <1>3, <2>1, GoodWith
<1>4. ASSUME NEW m \in Lists, ListWithin(m) PROVE [gs EXCEPT !.list = m] \in GoodGameServers
  <2>1. [gs EXCEPT !.list = m] = [generation |-> g, counter |-> c, list |-> m, players |-> p]
    BY <1>1
  <2> QED BY <1>1, <1>4, <2>1, GoodWith
<1>5. ASSUME NEW q \in PlayerLists PROVE [gs EXCEPT !.players = q] \in GoodGameServers
  <2>1. [gs EXCEPT !.players = q] = [generation |-> g, counter |-> c, list |-> l, players |-> q]
    BY <1>1
  <2> QED BY <1>1, <2>1, GoodWith
<1>6. ASSUME NEW ids \in Seq(STRING) PROVE [gs EXCEPT !.players.ids = ids] \in GoodGameServers
  <2>1. [gs EXCEPT !.players.ids = ids] = [gs EXCEPT !.players = [gs.players EXCEPT !.ids = ids]]
    OBVIOUS
  <2>2. [gs.players EXCEPT !.ids = ids] \in PlayerLists
    BY <1>1 DEF PlayerLists
  <2> QED BY <1>5, <2>1, <2>2
<1>7. ASSUME NEW n \in Int PROVE [gs EXCEPT !.players.capacity = n] \in GoodGameServers
  <2>1. [gs EXCEPT !.players.capacity = n] = [gs EXCEPT !.players = [gs.players EXCEPT !.capacity = n]]
    OBVIOUS
  <2>2. [gs.players EXCEPT !.capacity = n] \in PlayerLists
    BY <1>1 DEF PlayerLists
  <2> QED BY <1>5, <2>1, <2>2
<1>8. [gs EXCEPT !.generation = @ + 1] \in GoodGameServers
  <2>1. g + 1 \in Nat
    BY <1>1
  <2> QED BY <1>1, <1>2, <2>1, GoodWith
<1> QED BY <1>3, <1>4, <1>6, <1>7, <1>8

LEMMA HeldIsGood ==
    ASSUME TypeInv
    PROVE  /\ LatestGameServer \in GoodGameServers /\ GameServerOfWorker \in GoodGameServers
           /\ \A s \in Slots : GameServerOf(s) \in GoodGameServers
<1>1. cached \in GoodGameServers /\ Or(gsCopy, cached) \in GoodGameServers
  BY OrIsIn DEF TypeInv, GameServersInv
<1>2. GameServerOfWorker \in GoodGameServers
  BY <1>1, OrIsIn DEF TypeInv, IsWorker, GameServerOfWorker
<1>3. ASSUME NEW s \in Slots PROVE GameServerOf(s) \in GoodGameServers
  BY <1>1, OrIsIn DEF TypeInv, CallsInv, IsCall, GameServerOf
<1> QED BY <1>1, <1>2, <1>3 DEF LatestGameServer

-----------------------------------------------------------------------------
(* The steps: first what becomes of a call, then of the rest.               *)

LEMMA NoCallIsACall == IsCall(NoCall)
<1>1. NoCall = [method |-> NoCall.method, wire |-> NoCall.wire, phase |-> NoCall.phase,
                gs |-> NoCall.gs, list |-> NoCall.list]
      /\ NoCall.phase = "none" /\ NoCall.gs = {}
  BY DEF NoCall
<1> QED BY <1>1 DEF IsCall, Optional

\* What a call becomes, field by field.
Sent(c, a, b, d) == [c EXCEPT !.method = a, !.wire = b, !.phase = d]
WithGameServer(c, a, b) == [c EXCEPT !.phase = a, !.gs = b]
WithList(c, a, b, d) == [c EXCEPT !.phase = a, !.gs = b, !.list = d]

IsRecord(c) ==
    c = [method |-> c.method, wire |-> c.wire, phase |-> c.phase, gs |-> c.gs, list |-> c.list]

LEMMA WithGameServerIs ==
    ASSUME NEW c, IsRecord(c), NEW a, NEW b
    PROVE  WithGameServer(c, a, b)
              = [method |-> c.method, wire |-> c.wire, phase |-> a, gs |-> b, list |-> c.list]
<1> DEFINE c1 == [c EXCEPT !.phase = a]
<1>1. WithGameServer(c, a, b) = [c1 EXCEPT !.gs = b]
  BY DEF WithGameServer
<1>2. c1 = [method |-> c.method, wire |-> c.wire, phase |-> a, gs |-> c.gs, list |-> c.list]
  BY DEF IsRecord
<1> HIDE DEF c1
<1> QED BY <1>1, <1>2

LEMMA WithListIs ==
    ASSUME NEW c, IsRecord(c), NEW a, NEW b, NEW d
    PROVE  WithList(c, a, b, d)
              = [method |-> c.method, wire |-> c.wire, phase |-> a, gs |-> b, list |-> d]
<1> DEFINE c1 == WithGameServer(c, a, b)
<1>1. WithList(c, a, b, d) = [c1 EXCEPT !.list = d]
  BY DEF WithList, WithGameServer
<1>2. c1 = [method |-> c.method, wire |-> c.wire, phase |-> a, gs |-> b, list |-> c.list]
  BY WithGameServerIs
<1> HIDE DEF c1
<1> QED BY <1>1, <1>2

LEMMA SentIs ==
    ASSUME NEW c, IsRecord(c), NEW a, NEW b, NEW d
    PROVE  Sent(c, a, b, d)
              = [method |-> a, wire |-> b, phase |-> d, gs |-> c.gs, list |-> c.list]
<1> DEFINE c1 == [c EXCEPT !.method = a]
           c2 == [c1 EXCEPT !.wire = b]
<1>1. Sent(c, a, b, d) = [c2 EXCEPT !.phase = d]
  BY DEF Sent
<1>2. c1 = [method |-> a, wire |-> c.wire, phase |-> c.phase, gs |-> c.gs, list |-> c.list]
  BY DEF IsRecord
<1> HIDE DEF c1
<1>3. c2 = [method |-> a, wire |-> b, phase |-> c.phase, gs |-> c.gs, list |-> c.list]
  BY <1>2
<1> HIDE DEF c2
<1> QED BY <1>1, <1>3

LEMMA SettleKeepsCalls ==
    ASSUME CallsInv, NEW s \in Slots, Settle(s)
    PROVE  CallsInv'
BY NoCallIsACall DEF CallsInv, Settle

LEMMA SendKeepsCalls ==
    ASSUME CallsInv, NEW s \in Slots, NEW request \in Requests, Send(s, request)
    PROVE  CallsInv'
<1> DEFINE c == Sent(NoCall, request.method, request.wire, "sent")
<1>1. c = [method |-> request.method, wire |-> request.wire, phase |-> "sent", gs |-> {}, list |-> {}]
  <2>1. IsRecord(NoCall) /\ NoCall.gs = {} /\ NoCall.list = {}
    BY DEF NoCall, IsRecord
  <2>2. ASSUME NEW a, NEW b, NEW d
        PROVE  Sent(NoCall, a, b, d)
                  = [method |-> a, wire |-> b, phase |-> d, gs |-> NoCall.gs, list |-> NoCall.list]
    BY <2>1, SentIs
  <2> QED BY <2>1, <2>2
<1>2. HasItsTypes(request.method, Decode(request.wire, BlankOf[request.method]))
  BY RequestsAssumption
<1>3. calls' = [calls EXCEPT ![s] = c]
  BY DEF Send, Sent
<1> HIDE DEF c
<1>4. IsCall(c)
  BY <1>1, <1>2 DEF IsCall, Optional
<1> QED BY <1>3, <1>4 DEF CallsInv

LEMMA FetchKeepsCalls ==
    ASSUME TypeInv, NEW s \in Slots, Fetch(s)
    PROVE  CallsInv'
<1> USE DEF TypeInv
<1>1. CASE Settle(s)
  BY <1>1, SettleKeepsCalls
<1>2. CASE WellFormed(s) /\ calls' = [calls EXCEPT ![s].phase = "fetched", ![s].gs = {LatestGameServer}]
  <2> DEFINE c == calls[s]
             d == WithGameServer(c, "fetched", {LatestGameServer})
  <2>1. IsCall(c) /\ c.phase = "sent"
    BY DEF CallsInv, Fetch
  <2>2. d = [method |-> c.method, wire |-> c.wire, phase |-> "fetched", gs |-> {LatestGameServer},
             list |-> c.list]
    <3>1. IsRecord(c)
      BY <2>1 DEF IsCall, IsRecord
    <3> HIDE DEF c
    <3> QED BY <3>1, WithGameServerIs
  <2>3. c.method = "UpdateList" =>
            ListOfRequest(Decode(c.wire, BlankOf[c.method])).capacity \in 0..MaxListCapacity
    BY <1>2 DEF WellFormed, In
  <2>4. calls' = [calls EXCEPT ![s] = d]
    BY <1>2 DEF WithGameServer
  <2>5. Optional({LatestGameServer}, GoodGameServers)
    BY HeldIsGood DEF Optional
  <2> HIDE DEF c, d
  <2>6. IsCall(d)
    BY <2>1, <2>2, <2>3, <2>5 DEF IsCall
  <2> QED BY <2>4, <2>6 DEF CallsInv
<1> QED BY <1>1, <1>2 DEF Fetch

LEMMA GetListKeepsCalls ==
    ASSUME TypeInv, NEW s \in Slots, GetList(s)
    PROVE  CallsInv'
<1> USE DEF TypeInv
<1>1. CASE Settle(s)
  BY <1>1, SettleKeepsCalls
<1>2. CASE calls' = [calls EXCEPT ![s].phase = "listed", ![s].gs = {},
                                  ![s].list = {ListIn(GameServerOf(s))}]
  <2> DEFINE c == calls[s]
             l == ListIn(GameServerOf(s))
             d == WithList(c, "listed", {}, {l})
  <2>1. IsCall(c) /\ c.phase = "fetched"
    BY DEF CallsInv, GetList
  <2>2. d = [method |-> c.method, wire |-> c.wire, phase |-> "listed", gs |-> {}, list |-> {l}]
    <3>1. IsRecord(c)
      BY <2>1 DEF IsCall, IsRecord
    <3> HIDE DEF c
    <3> QED BY <3>1, WithListIs
  <2>3. calls' = [calls EXCEPT ![s] = d]
    BY <1>2 DEF WithList
  <2> HIDE DEF c, d, l
  <2>4. IsCall(d)
    BY <2>1, <2>2 DEF IsCall, Optional
  <2> QED BY <2>3, <2>4 DEF CallsInv
<1> QED BY <1>1, <1>2 DEF GetList

\* The message of a call under way has its types.
LEMMA InHasItsTypes ==
    ASSUME CallsInv, NEW s \in Slots, calls[s].phase # "none"
    PROVE  HasItsTypes(calls[s].method, In(s))
BY DEF CallsInv, IsCall, In

LEMMA CounterBatchIsOne ==
    ASSUME NEW b, IsCounterBatch(b), NEW counter \in Counters, NEW update,
           update.countdiff \in Int,
           \A wrapper \in {update.count, update.capacity} :
              wrapper = {} \/ \E n \in wrapper : n \in Int /\ wrapper = {n},
           NEW u \in CounterBatch(b, counter, update)
    PROVE  IsCounterBatch(u) /\ CounterBatch(b, counter, update) = {u}
<1> DEFINE capacitySet == IF update.capacity = {} THEN b.capacitySet ELSE update.capacity
           capacity == Or(capacitySet, counter.capacity)
           countSet == IF update.count = {} THEN b.countSet ELSE update.count
           diff == IF update.count = {} THEN b.diff ELSE 0
           setTo == [capacitySet |-> capacitySet, countSet |-> countSet, diff |-> diff]
<1>1. /\ u = [setTo EXCEPT !.diff = @ + update.countdiff]
      /\ CounterBatch(b, counter, update) = {u}
      /\ Or(update.capacity, 0) >= 0
      /\ update.count # {} => Or(update.count, 0) \in 0..capacity
  BY DEF CounterBatch
<1>2. u = [capacitySet |-> capacitySet, countSet |-> countSet, diff |-> diff + update.countdiff]
  BY <1>1
<1>3. Optional(capacitySet, Nat)
  <2>1. CASE update.capacity = {}
    BY <2>1 DEF IsCounterBatch
  <2>2. CASE update.capacity # {}
    <3>1. PICK n \in update.capacity : n \in Int /\ update.capacity = {n}
      BY <2>2
    <3>2. Or(update.capacity, 0) = n
      BY <3>1 DEF Or
    <3> QED BY <1>1, <3>1, <3>2 DEF Optional
  <2> QED BY <2>1, <2>2
<1>4. Optional(countSet, Nat)
  <2>1. CASE update.count = {}
    BY <2>1 DEF IsCounterBatch
  <2>2. CASE update.count # {}
    <3>1. PICK n \in update.count : n \in Int /\ update.count = {n}
      BY <2>2
    <3>2. Or(update.count, 0) = n
      BY <3>1 DEF Or
    <3> QED BY <1>1, <3>1, <3>2 DEF Optional
  <2> QED BY <2>1, <2>2
<1>5. diff + update.countdiff \in Int
  BY DEF IsCounterBatch
<1> HIDE DEF capacitySet, countSet, diff
<1> QED BY <1>1, <1>2, <1>3, <1>4, <1>5 DEF IsCounterBatch

LEMMA UpdateCounterKeepsTypes ==
    ASSUME TypeInv, NEW s \in Slots, UpdateCounter(s)
    PROVE  TypeInv'
<1> DEFINE update == CounterUpdateOf(In(s))
           old == Or(gsCounterUpdates, NoCounterUpdate)
           batch == CounterBatch(old, GameServerOf(s).counter, update)
<1>1. HasItsTypes("UpdateCounter", In(s))
  BY InHasItsTypes DEF TypeInv, UpdateCounter, Fetched
<1>2. /\ update.countdiff \in Int
      /\ \A wrapper \in {update.count, update.capacity} :
            wrapper = {} \/ \E n \in wrapper : n \in Int /\ wrapper = {n}
  BY <1>1 DEF HasItsTypes
<1>3. IsCounterBatch(old)
  <2>1. IsCounterBatch(NoCounterUpdate)
    BY DEF IsCounterBatch, NoCounterUpdate, Optional
  <2> QED BY <2>1 DEF TypeInv, BatchesInv, Or
<1>4. GameServerOf(s).counter \in Counters
  BY HeldIsGood, GoodFields
<1>5. \A u \in batch : IsCounterBatch(u) /\ batch = {u}
  <2> HIDE DEF update, old
  <2> QED BY <1>2, <1>3, <1>4, CounterBatchIsOne
<1>6. /\ \/ gsCounterUpdates' = batch /\ workerqueue' = workerqueue \cup {"updateCounters"}
         \/ UNCHANGED <<gsCounterUpdates, workerqueue>>
      /\ Settle(s)
      /\ UNCHANGED <<gameServer, cached, gsCopy, gsListUpdates, players, worker, used>>
  BY DEF UpdateCounter, Enqueue
<1> HIDE DEF batch
<1>7. CallsInv'
  BY <1>6, SettleKeepsCalls DEF TypeInv
<1>8. BatchesInv'
  BY <1>5, <1>6 DEF TypeInv, BatchesInv
<1>9. (workerqueue \subseteq Operations)'
  BY <1>6 DEF TypeInv, Operations
<1> QED BY <1>6, <1>7, <1>8, <1>9 DEF TypeInv, GameServersInv, PlayersInv, Counted, players

LEMMA SetListBatchKeepsTypes ==
    ASSUME TypeInv, NEW batch, IsListBatch(batch), SetListBatch(batch), NEW s \in Slots, Settle(s),
           UNCHANGED <<gameServer, cached, gsCopy, gsCounterUpdates, players, worker, used>>
    PROVE  TypeInv'
<1>1. CallsInv'
  BY SettleKeepsCalls DEF TypeInv
<1>2. BatchesInv'
  BY DEF TypeInv, BatchesInv, SetListBatch
<1>3. (workerqueue \subseteq Operations)'
  BY DEF TypeInv, SetListBatch, Enqueue, Operations
<1> QED BY <1>1, <1>2, <1>3 DEF TypeInv, GameServersInv, PlayersInv, Counted, players

LEMMA OtherListBatch ==
    ASSUME BatchesInv
    PROVE  LET batch == Or(gsListUpdates, NoListUpdate)
           IN  /\ IsListBatch(batch)
               /\ \A values \in Seq(STRING) : IsListBatch([batch EXCEPT !.valuesToAppend = values])
               /\ \A toDelete : IsListBatch([batch EXCEPT !.valuesToDelete = toDelete])
<1> DEFINE batch == Or(gsListUpdates, NoListUpdate)
<1>1. IsListBatch(NoListUpdate)
  BY DEF IsListBatch, NoListUpdate, Optional
<1>2. IsListBatch(batch)
  BY <1>1 DEF BatchesInv, Or
<1> HIDE DEF batch
<1>3. ASSUME NEW values
      PROVE  [batch EXCEPT !.valuesToAppend = values]
                = [capacitySet |-> batch.capacitySet, valuesToDelete |-> batch.valuesToDelete,
                   valuesToAppend |-> values]
  BY <1>2 DEF IsListBatch
<1>4. ASSUME NEW toDelete
      PROVE  [batch EXCEPT !.valuesToDelete = toDelete]
                = [capacitySet |-> batch.capacitySet, valuesToDelete |-> toDelete,
                   valuesToAppend |-> batch.valuesToAppend]
  BY <1>2 DEF IsListBatch
<1>5. \A values \in Seq(STRING) : IsListBatch([batch EXCEPT !.valuesToAppend = values])
  BY <1>2, <1>3 DEF IsListBatch
<1>6. \A toDelete : IsListBatch([batch EXCEPT !.valuesToDelete = toDelete])
  BY <1>2, <1>4 DEF IsListBatch
<1> QED BY <1>2, <1>5, <1>6 DEF batch

LEMMA UpdateListKeepsTypes ==
    ASSUME TypeInv, NEW s \in Slots, UpdateList(s)
    PROVE  TypeInv'
<1> DEFINE in == In(s)
           list == ListOfRequest(in)
           masked(path) == Contains(Or(in.updateMask, FieldMask).paths, path)
           capacity == IF masked("capacity") THEN {list.capacity} ELSE {}
           toDelete == IF masked("values") THEN ToSet(ListOf(s).values) \ ToSet(list.values) ELSE {}
           toAppend == IF masked("values") THEN deleteValues(list.values, ToSet(ListOf(s).values)) ELSE <<>>
           batch == [capacitySet |-> capacity, valuesToDelete |-> toDelete, valuesToAppend |-> toAppend]
<1>1. calls[s].phase = "listed" /\ calls[s].method = "UpdateList"
  BY DEF UpdateList, Listed
<1>2. list.values \in Seq(STRING)
  <2>1. HasItsTypes("UpdateList", In(s))
    BY <1>1, InHasItsTypes DEF TypeInv
  <2> QED BY <2>1 DEF HasItsTypes
<1>3. list.capacity \in 0..MaxListCapacity
  <2>1. IsCall(calls[s])
    BY DEF TypeInv, CallsInv
  <2> QED BY <1>1, <2>1 DEF IsCall, In
<1>4. SetListBatch(batch) /\ Settle(s)
      /\ UNCHANGED <<gameServer, cached, gsCopy, gsCounterUpdates, players, worker, used>>
  BY DEF UpdateList
<1> HIDE DEF list, masked, toDelete
<1>5. Optional(capacity, 0..MaxListCapacity)
  BY <1>3 DEF Optional
<1>6. toAppend \in Seq(STRING)
  <2>1. deleteValues(list.values, ToSet(ListOf(s).values)) \in Seq(STRING)
    BY <1>2, DeleteProperties
  <2>2. CASE masked("values")
    BY <2>1, <2>2
  <2>3. CASE ~masked("values")
    BY <2>3
  <2> QED BY <2>2, <2>3
<1> HIDE DEF capacity, toAppend
<1>7. IsListBatch(batch)
  BY <1>5, <1>6 DEF IsListBatch
<1> QED BY <1>4, <1>7, SetListBatchKeepsTypes

LEMMA AddListValueKeepsTypes ==
    ASSUME TypeInv, NEW s \in Slots, AddListValue(s)
    PROVE  TypeInv'
<1> DEFINE value == In(s).value
           batch == Or(gsListUpdates, NoListUpdate)
           values == Append(batch.valuesToAppend, value)
           added == [batch EXCEPT !.valuesToAppend = values]
<1>1. /\ SetListBatch(added) \/ UNCHANGED <<gsListUpdates, workerqueue>>
      /\ Settle(s)
      /\ UNCHANGED <<gameServer, cached, gsCopy, gsCounterUpdates, players, worker, used>>
  BY DEF AddListValue
<1>2. value \in STRING
  <2>1. HasItsTypes("AddListValue", In(s))
    BY InHasItsTypes DEF TypeInv, AddListValue, Listed
  <2> QED BY <2>1 DEF HasItsTypes
<1>3. batch.valuesToAppend \in Seq(STRING)
  BY OtherListBatch DEF TypeInv, IsListBatch
<1>4. IsListBatch(added)
  <2>1. values \in Seq(STRING)
    BY <1>2, <1>3
  <2> HIDE DEF values
  <2> QED BY <2>1, OtherListBatch DEF TypeInv
<1> HIDE DEF added
<1>5. CASE SetListBatch(added)
  BY <1>1, <1>4, <1>5, SetListBatchKeepsTypes
<1>6. CASE UNCHANGED <<gsListUpdates, workerqueue>>
  BY <1>1, <1>6, SettleKeepsCalls
     DEF TypeInv, GameServersInv, BatchesInv, PlayersInv, Counted, players
<1> QED BY <1>1, <1>5, <1>6

LEMMA RemoveListValueKeepsTypes ==
    ASSUME TypeInv, NEW s \in Slots, RemoveListValue(s)
    PROVE  TypeInv'
<1> DEFINE value == In(s).value
           batch == Or(gsListUpdates, NoListUpdate)
           values == deleteValues(batch.valuesToAppend, {value})
           less == [batch EXCEPT !.valuesToAppend = values]
           removed == [batch EXCEPT !.valuesToDelete = batch.valuesToDelete \cup {value}]
<1>1. /\ SetListBatch(less) \/ SetListBatch(removed) \/ UNCHANGED <<gsListUpdates, workerqueue>>
      /\ Settle(s)
      /\ UNCHANGED <<gameServer, cached, gsCopy, gsCounterUpdates, players, worker, used>>
  BY DEF RemoveListValue
<1>2. batch.valuesToAppend \in Seq(STRING)
  BY OtherListBatch DEF TypeInv, IsListBatch
<1>3. IsListBatch(less)
  <2>1. values \in Seq(STRING)
    BY <1>2, DeleteProperties
  <2> HIDE DEF values
  <2> QED BY <2>1, OtherListBatch DEF TypeInv
<1>4. IsListBatch(removed)
  BY OtherListBatch DEF TypeInv
<1> HIDE DEF less, removed
<1>5. CASE SetListBatch(less) \/ SetListBatch(removed)
  BY <1>1, <1>3, <1>4, <1>5, SetListBatchKeepsTypes
<1>6. CASE UNCHANGED <<gsListUpdates, workerqueue>>
  BY <1>1, <1>6, SettleKeepsCalls
     DEF TypeInv, GameServersInv, BatchesInv, PlayersInv, Counted, players
<1> QED BY <1>1, <1>5, <1>6

LEMMA AppendedIsIn ==
    ASSUME NEW S, NEW seq \in Seq(S), NEW e \in S
    PROVE  Append(seq, e) \in Seq(S)
OBVIOUS

\* The ids that change with the slice are as many as they were.
LEMMA SeeingIsGood ==
    ASSUME NEW gs \in GoodGameServers, NEW slice \in Seq(STRING)
    PROVE  Seeing(gs, slice) \in GoodGameServers
<1> DEFINE old == gs.players.ids
           ids == [i \in DOMAIN old |-> IF i \in DOMAIN slice THEN slice[i] ELSE old[i]]
<1>1. old \in Seq(STRING)
  BY GoodFields DEF PlayerLists
<1>2. ids \in Seq(STRING)
  <2>1. PICK n \in Nat : old \in [1..n -> STRING]
    BY <1>1
  <2>2. ids \in [1..n -> STRING]
    BY <2>1
  <2> QED BY <2>2
<1>3. Seeing(gs, slice) = [gs EXCEPT !.players.ids = ids]
  BY DEF Seeing
<1> HIDE DEF ids
<1> QED BY <1>2, <1>3, ChangedIsGood

LEMMA SeenIsGood ==
    ASSUME TypeInv, NEW slice \in Seq(STRING), NEW what \in {"gs", "copy"}
    PROVE  Optional(SeenBy(what, slice), GoodGameServers)
<1>1. Optional(worker[what], GoodGameServers)
  BY DEF TypeInv, IsWorker
<1>2. ASSUME NEW x \in SeenBy(what, slice)
      PROVE  x \in GoodGameServers /\ SeenBy(what, slice) = {x}
  <2>1. PICK gs \in worker[what] :
            x = IF what \in worker.aliased THEN Seeing(gs, slice) ELSE gs
    BY <1>2 DEF SeenBy
  <2>2. gs \in GoodGameServers /\ worker[what] = {gs}
    BY <1>1, <2>1 DEF Optional
  <2>3. x \in GoodGameServers
    BY <2>1, <2>2, SeeingIsGood
  <2>4. SeenBy(what, slice) = {x}
    BY <2>1, <2>2 DEF SeenBy
  <2> QED BY <2>3, <2>4
<1> QED BY <1>2 DEF Optional

\* What a call of the players may do to the rest.
LEMMA WriteKeepsTypes ==
    ASSUME TypeInv, NEW slice \in Seq(STRING), WriteInPlace(slice)
    PROVE  cached' \in GoodGameServers /\ IsWorker(worker') /\ aliased' \in BOOLEAN
<1>1. cached' \in GoodGameServers /\ aliased' \in BOOLEAN
  BY SeeingIsGood DEF TypeInv, GameServersInv, PlayersInv, WriteInPlace
<1> DEFINE g == SeenBy("gs", slice)
           c == SeenBy("copy", slice)
<1>2. Optional(g, GoodGameServers) /\ Optional(c, GoodGameServers)
  BY SeenIsGood
<1>3. c # {} => worker.copy # {}
  BY DEF SeenBy
<1>4. worker' = [worker EXCEPT !.gs = g, !.copy = c]
  BY DEF WriteInPlace
<1> HIDE DEF g, c
<1>5. worker' = [operation |-> worker.operation, gs |-> g, copy |-> c, aliased |-> worker.aliased]
  BY <1>4 DEF TypeInv, IsWorker
<1>6. IsWorker(worker')
  BY <1>2, <1>3, <1>5 DEF TypeInv, IsWorker
<1> QED BY <1>1, <1>6

LEMMA JoinKeepsTypes ==
    ASSUME TypeInv, NEW id \in STRING, Join(id)
    PROVE  /\ gsConnectedPlayers' \in Seq(STRING)
           /\ cached' \in GoodGameServers /\ IsWorker(worker') /\ aliased' \in BOOLEAN
<1>1. Append(gsConnectedPlayers, id) \in Seq(STRING)
  BY AppendedIsIn DEF TypeInv, PlayersInv
<1>2. CASE WriteInPlace(Append(gsConnectedPlayers, id))
  BY <1>1, <1>2, WriteKeepsTypes DEF Join
<1>3. CASE aliased' = FALSE /\ worker' = [worker EXCEPT !.aliased = {}] /\ UNCHANGED cached
  <2>1. worker' = [operation |-> worker.operation, gs |-> worker.gs, copy |-> worker.copy,
                   aliased |-> {}]
    BY <1>3 DEF TypeInv, IsWorker
  <2>2. IsWorker(worker')
    BY <2>1 DEF TypeInv, IsWorker
  <2> QED BY <1>1, <1>3, <2>2 DEF Join, TypeInv, GameServersInv
<1> QED BY <1>2, <1>3 DEF Join

LEMMA LeaveKeepsTypes ==
    ASSUME TypeInv, NEW id, Leave(id)
    PROVE  /\ gsConnectedPlayers' \in Seq(STRING)
           /\ cached' \in GoodGameServers /\ IsWorker(worker') /\ aliased' \in BOOLEAN
<1>1. gsConnectedPlayers \in Seq(STRING)
  BY DEF TypeInv, PlayersInv
<1>2. PICK i \in DOMAIN gsConnectedPlayers :
         /\ gsConnectedPlayers' = RemoveAt(gsConnectedPlayers, i)
         /\ WriteInPlace(Append(RemoveAt(gsConnectedPlayers, i),
                                gsConnectedPlayers[Len(gsConnectedPlayers)]))
  BY DEF Leave
<1> DEFINE others == RemoveAt(gsConnectedPlayers, i)
           last == gsConnectedPlayers[Len(gsConnectedPlayers)]
<1>3. i \in 1..Len(gsConnectedPlayers) /\ Len(gsConnectedPlayers) \in Nat
  BY <1>1, <1>2
<1>4. others \in Seq(STRING)
  BY <1>1, <1>3 DEF RemoveAt
<1>5. last \in STRING
  BY <1>1, <1>3
<1> HIDE DEF others, last
<1>6. Append(others, last) \in Seq(STRING)
  BY <1>4, <1>5, AppendedIsIn
<1>7. WriteInPlace(Append(others, last)) /\ gsConnectedPlayers' = others
  BY <1>2 DEF others, last
<1> QED BY <1>4, <1>6, <1>7, WriteKeepsTypes

LEMMA PlayersKeepTypes ==
    ASSUME TypeInv, NEW s \in Slots, PlayerConnect(s) \/ PlayerDisconnect(s) \/ SetPlayerCapacity(s)
    PROVE  TypeInv'
<1>1. /\ Settle(s)
      /\ UNCHANGED <<gameServer, gsCopy, gsCounterUpdates, gsListUpdates, used>>
  BY DEF PlayerConnect, PlayerDisconnect, SetPlayerCapacity, server
<1>2. (workerqueue \subseteq Operations)'
  BY DEF PlayerConnect, PlayerDisconnect, SetPlayerCapacity, Enqueue, TypeInv, Operations
<1>3. /\ gsConnectedPlayers \in Seq(STRING) /\ gsPlayerCapacity \in Int /\ aliased \in BOOLEAN
      /\ cached \in GoodGameServers /\ IsWorker(worker)
  BY DEF TypeInv, PlayersInv, GameServersInv
<1>4. HasItsTypes(calls[s].method, In(s))
  BY InHasItsTypes DEF TypeInv, PlayerConnect, PlayerDisconnect, SetPlayerCapacity, Called
<1>5. PlayersInv' /\ cached' \in GoodGameServers /\ IsWorker(worker')
  <2>1. CASE PlayerConnect(s)
    <3>1. In(s).playerid \in STRING
      BY <1>4, <2>1 DEF PlayerConnect, Called, HasItsTypes
    <3>2. \/ UNCHANGED <<gsConnectedPlayers, aliased, cached, worker>> 
          \/ Join(In(s).playerid)
      BY <2>1 DEF PlayerConnect
    <3>3. UNCHANGED gsPlayerCapacity
      BY <2>1 DEF PlayerConnect
    <3> QED BY <1>3, <3>1, <3>2, <3>3, JoinKeepsTypes DEF PlayersInv
  <2>2. CASE PlayerDisconnect(s)
    <3>1. \/ UNCHANGED <<gsConnectedPlayers, aliased, cached, worker>> 
          \/ Leave(In(s).playerid)
      BY <2>2 DEF PlayerDisconnect
    <3>2. UNCHANGED gsPlayerCapacity
      BY <2>2 DEF PlayerDisconnect
    <3> QED BY <1>3, <3>1, <3>2, LeaveKeepsTypes DEF PlayersInv
  <2>3. CASE SetPlayerCapacity(s)
    BY <1>3, <1>4, <2>3 DEF SetPlayerCapacity, Called, HasItsTypes, PlayersInv
  <2> QED BY <2>1, <2>2, <2>3
<1>6. CallsInv'
  BY <1>1, SettleKeepsCalls DEF TypeInv
<1> QED BY <1>1, <1>2, <1>5, <1>6 DEF TypeInv, GameServersInv, BatchesInv, Counted

LEMMA UseCounts ==
    ASSUME Counted, NEW what \in {"calls", "changes", "faults"}, NEW bound, Use(what, bound)
    PROVE  Counted'
BY DEF Counted, Use

LEMMA RestartKeepsTypes ==
    ASSUME TypeInv, Restarts, Counted'
    PROVE  TypeInv'
<1>1. gameServer.players \in PlayerLists
  BY GoodFields DEF TypeInv, GameServersInv
<1>2. PlayersInv'
  BY <1>1 DEF Restarts, PlayersInv, PlayerLists
<1>3. CallsInv'
  BY NoCallIsACall DEF Restarts, CallsInv
<1>4. IsWorker(NoWork)
  BY DEF IsWorker, NoWork, Optional
<1> QED BY <1>2, <1>3, <1>4 DEF Restarts, TypeInv, GameServersInv, BatchesInv, Optional

LEMMA HandleKeepsTypes ==
    ASSUME TypeInv, NEW s \in Slots, Handle(s)
    PROVE  TypeInv'
<1>1. ASSUME CallsInv', UNCHANGED <<gameServer, cached, server, players, workerqueue, worker, used>>
      PROVE  TypeInv'
  BY <1>1 DEF TypeInv, GameServersInv, BatchesInv, PlayersInv, Counted, server, players
<1>2. CASE Fetch(s)
  BY <1>1, <1>2, FetchKeepsCalls DEF Fetch
<1>3. CASE GetList(s)
  BY <1>1, <1>3, GetListKeepsCalls DEF GetList
<1>4. CASE GetCounter(s)
  BY <1>1, <1>4, SettleKeepsCalls DEF GetCounter, TypeInv
<1>5. CASE UpdateUnknownList(s)
  <2>1. Restarts /\ UNCHANGED used
    BY <1>5 DEF UpdateUnknownList
  <2> QED BY <2>1, RestartKeepsTypes DEF TypeInv, Counted
<1> QED BY <1>2, <1>3, <1>4, <1>5, UpdateCounterKeepsTypes, UpdateListKeepsTypes, AddListValueKeepsTypes,
           RemoveListValueKeepsTypes, PlayersKeepTypes DEF Handle

LEMMA PatchedIsGood ==
    ASSUME TypeInv, NEW gs, NEW copy \in GoodGameServers,
           patchGameServer(gs, copy) \/ PatchFails(gs, copy)
    PROVE  gameServer' \in GoodGameServers /\ Counted'
<1> DEFINE old == gs.players.ids
           stored == gameServer.players.ids
           new == copy.players.ids
           named(i) == i \notin DOMAIN old \/ old[i] # new[i]
           ids == [i \in DOMAIN new |->
                      IF named(i) \/ i \notin DOMAIN stored THEN new[i] ELSE stored[i]]
<1>1. Patched(gs, copy) \in GoodGameServers
  <2>1. stored \in Seq(STRING) /\ new \in Seq(STRING)
    BY GoodFields DEF PlayerLists, TypeInv, GameServersInv
  <2>2. ids \in Seq(STRING)
    <3>1. PICK n \in Nat : new \in [1..n -> STRING]
      BY <2>1
    <3>2. ids \in [1..n -> STRING]
      BY <2>1, <3>1
    <3> QED BY <3>2
  <2>3. Patched(gs, copy) = [copy EXCEPT !.players.ids = ids]
    BY DEF Patched
  <2> HIDE DEF ids
  <2> QED BY <2>2, <2>3, ChangedIsGood
<1>2. Applied(gs, copy) => gameServer' \in GoodGameServers
  BY <1>1, ChangedIsGood DEF Applied, TypeInv, GameServersInv
<1>3. gameServer' \in GoodGameServers
  BY <1>2 DEF patchGameServer, PatchFails, TypeInv, GameServersInv
<1>4. Counted'
  BY UseCounts DEF patchGameServer, PatchFails, TypeInv, Counted
<1> QED BY <1>3, <1>4

\* What is left to show for a step of the worker.
LEMMA WorkerKeepsTypes ==
    ASSUME TypeInv, gameServer' \in GoodGameServers, Counted', IsWorker(worker'),
           workerqueue' = workerqueue \/ workerqueue' = workerqueue \cup {worker.operation},
           worker.operation \in Operations,
           gsCopy' = gsCopy \/ gsCopy' = {gameServer'},
           gsCounterUpdates' = gsCounterUpdates \/ gsCounterUpdates' = {},
           gsListUpdates' = gsListUpdates \/ gsListUpdates' = {},
           UNCHANGED <<cached, players, calls>>
    PROVE  TypeInv'
<1>1. GameServersInv'
  BY DEF TypeInv, GameServersInv, Optional
<1>2. BatchesInv'
  BY DEF TypeInv, BatchesInv
<1>3. PlayersInv' /\ CallsInv'
  BY DEF TypeInv, PlayersInv, CallsInv, players
<1>4. (workerqueue \subseteq Operations)'
  BY DEF TypeInv
<1> QED BY <1>1, <1>2, <1>3, <1>4 DEF TypeInv

LEMMA NoWorkIsIdle == IsWorker(NoWork)
<1>1. NoWork = [operation |-> NoWork.operation, gs |-> NoWork.gs, copy |-> NoWork.copy,
                aliased |-> NoWork.aliased]
      /\ NoWork.operation = "none" /\ NoWork.gs = {} /\ NoWork.copy = {} /\ NoWork.aliased = {}
  BY DEF NoWork
<1> QED BY <1>1 DEF IsWorker, Optional

LEMMA updateCounterKeepsTypes ==
    ASSUME TypeInv, updateCounter
    PROVE  TypeInv'
<1> DEFINE gs == GameServerOfWorker
           copy == [gs EXCEPT !.counter = BatchedCounter(gs.counter)]
<1>1. gs \in GoodGameServers
  BY HeldIsGood
<1>2. gs.counter \in Counters
  BY <1>1, GoodFields
<1>3. BatchedCounter(gs.counter) \in Counters /\ CounterWithin(BatchedCounter(gs.counter))
  BY <1>2, BatchedCounterIsGood DEF TypeInv
<1>4. copy \in GoodGameServers
  <2> DEFINE batched == BatchedCounter(gs.counter)
  <2> HIDE DEF gs, batched
  <2>1. batched \in Counters /\ CounterWithin(batched)
    BY <1>3 DEF batched
  <2>2. [gs EXCEPT !.counter = batched] \in GoodGameServers
    BY <1>1, <2>1, ChangedIsGood
  <2> QED BY <2>2 DEF batched
<1>5. /\ patchGameServer(gs, copy) \/ PatchFails(gs, copy)
      /\ workerqueue' = workerqueue \/ workerqueue' = workerqueue \cup {worker.operation}
      /\ worker.operation \in Operations /\ worker' = NoWork
      /\ gsCopy' = gsCopy \/ gsCopy' = {gameServer'}
      /\ gsCounterUpdates' = gsCounterUpdates \/ gsCounterUpdates' = {}
      /\ UNCHANGED <<cached, gsListUpdates, players, calls>>
  BY DEF updateCounter, TryAgain, Enqueue, Operations
<1> HIDE DEF gs, copy
<1> QED BY <1>4, <1>5, PatchedIsGood, NoWorkIsIdle, WorkerKeepsTypes

LEMMA updateListsKeepsTypes ==
    ASSUME TypeInv, updateLists
    PROVE  TypeInv'
<1> DEFINE gs == GameServerOfWorker
           copy == [gs EXCEPT !.list = BatchedList(gs.list)]
<1>1. gs \in GoodGameServers
  BY HeldIsGood
<1>2. gs.list \in Lists /\ ListWithin(gs.list)
  BY <1>1, GoodFields
<1>3. BatchedList(gs.list) \in Lists /\ ListWithin(BatchedList(gs.list))
  BY <1>2, BatchedListIsGood DEF TypeInv
<1>4. copy \in GoodGameServers
  <2> DEFINE batched == BatchedList(gs.list)
  <2> HIDE DEF gs, batched
  <2>1. batched \in Lists /\ ListWithin(batched)
    BY <1>3 DEF batched
  <2>2. [gs EXCEPT !.list = batched] \in GoodGameServers
    BY <1>1, <2>1, ChangedIsGood
  <2> QED BY <2>2 DEF batched
<1>5. /\ patchGameServer(gs, copy) \/ PatchFails(gs, copy)
      /\ workerqueue' = workerqueue \/ workerqueue' = workerqueue \cup {worker.operation}
      /\ worker.operation \in Operations /\ worker' = NoWork
      /\ gsCopy' = gsCopy \/ gsCopy' = {gameServer'}
      /\ gsListUpdates' = gsListUpdates \/ gsListUpdates' = {}
      /\ UNCHANGED <<cached, gsCounterUpdates, players, calls>>
  BY DEF updateLists, TryAgain, Enqueue, Operations
<1> HIDE DEF gs, copy
<1> QED BY <1>4, <1>5, PatchedIsGood, NoWorkIsIdle, WorkerKeepsTypes

LEMMA CopyPlayersKeepsTypes ==
    ASSUME TypeInv, CopyPlayers,
           worker.operation \in {"updatePlayerCapacity", "updateConnectedPlayers"}
    PROVE  TypeInv'
<1> DEFINE gs == GameServerOfWorker
           ids == [gs EXCEPT !.players.ids = gsConnectedPlayers]
           capacity == [gs EXCEPT !.players.capacity = gsPlayerCapacity]
<1>1. ids \in GoodGameServers /\ capacity \in GoodGameServers
  BY HeldIsGood, ChangedIsGood DEF TypeInv, PlayersInv
<1>2. /\ UNCHANGED <<gameServer, cached, server, players, workerqueue, calls, used>>
      /\ \/ worker' = NoWork
         \/ worker' = [worker EXCEPT !.copy = {ids}, !.aliased = @ \cup {"copy"}]
         \/ worker' = [worker EXCEPT !.copy = {capacity}]
  BY DEF CopyPlayers
<1> HIDE DEF ids, capacity
<1>3. ASSUME NEW c \in GoodGameServers,
             \/ worker' = [worker EXCEPT !.copy = {c}]
             \/ worker' = [worker EXCEPT !.copy = {c}, !.aliased = @ \cup {"copy"}]
      PROVE  IsWorker(worker')
  <2>1. PICK a \in SUBSET {"gs", "copy"} :
            worker' = [operation |-> worker.operation, gs |-> worker.gs, copy |-> {c}, aliased |-> a]
    <3>1. worker.aliased \subseteq {"gs", "copy"}
      BY DEF TypeInv, IsWorker
    <3>2. \/ worker' = [operation |-> worker.operation, gs |-> worker.gs, copy |-> {c},
                        aliased |-> worker.aliased]
          \/ worker' = [operation |-> worker.operation, gs |-> worker.gs, copy |-> {c},
                        aliased |-> worker.aliased \cup {"copy"}]
      BY <1>3 DEF TypeInv, IsWorker
    <3> QED BY <3>1, <3>2
  <2> QED BY <2>1 DEF TypeInv, IsWorker, Optional, Operations
<1>4. IsWorker(worker')
  BY <1>1, <1>2, <1>3, NoWorkIsIdle
<1>5. gameServer' \in GoodGameServers /\ Counted' /\ worker.operation \in Operations
  BY <1>2 DEF TypeInv, GameServersInv, Counted, Operations
<1> QED BY <1>2, <1>4, <1>5, WorkerKeepsTypes DEF server

LEMMA PatchPlayersKeepsTypes ==
    ASSUME TypeInv, PatchPlayers
    PROVE  TypeInv'
<1> DEFINE gs == GameServerOfWorker
           copy == Or(worker.copy, cached)
<1>1. copy \in GoodGameServers
  BY OrIsIn DEF TypeInv, GameServersInv, IsWorker
<1>2. /\ patchGameServer(gs, copy) \/ PatchFails(gs, copy)
      /\ workerqueue' = workerqueue \/ workerqueue' = workerqueue \cup {worker.operation}
      /\ worker' = NoWork /\ worker.operation \in Operations
      /\ UNCHANGED <<cached, server, players, calls>>
  BY DEF PatchPlayers, TryAgain, Enqueue, TypeInv, IsWorker
<1> HIDE DEF gs, copy
<1> QED BY <1>1, <1>2, PatchedIsGood, NoWorkIsIdle, WorkerKeepsTypes DEF server

LEMMA StartWorkKeepsTypes ==
    ASSUME TypeInv, NEW operation \in workerqueue, StartWork(operation)
    PROVE  TypeInv'
<1> DEFINE latest == LatestGameServer
           same == IF aliased /\ latest = cached THEN {"gs"} ELSE {}
<1>1. latest \in GoodGameServers /\ same \subseteq {"gs", "copy"}
  BY HeldIsGood
<1>2. /\ worker' = [operation |-> operation, gs |-> {latest}, copy |-> {}, aliased |-> same]
      /\ workerqueue' = workerqueue \ {operation}
      /\ UNCHANGED <<gameServer, cached, server, players, calls, used>>
  BY DEF StartWork, NoWork
<1> HIDE DEF latest, same
<1>3. IsWorker(worker')
  BY <1>1, <1>2 DEF TypeInv, IsWorker, Optional
<1> QED BY <1>2, <1>3
        DEF TypeInv, GameServersInv, BatchesInv, PlayersInv, CallsInv, Counted, server, players

LEMMA SyncKeepsTypes == TypeInv /\ Sync => TypeInv'
BY DEF Sync, TypeInv, GameServersInv, BatchesInv, PlayersInv, CallsInv, Counted, server

LEMMA ChangeKeepsTypes ==
    ASSUME TypeInv, NEW changed \in GoodGameServers, Change(changed)
    PROVE  TypeInv'
<1>1. gameServer' \in GoodGameServers
  BY ChangedIsGood DEF Change
<1>2. Counted'
  BY UseCounts DEF Change, TypeInv
<1>3. UNCHANGED <<cached, server, players, workerqueue, worker, calls>>
  BY DEF Change
<1> QED BY <1>1, <1>2, <1>3
        DEF TypeInv, GameServersInv, BatchesInv, PlayersInv, CallsInv, server, players

LEMMA OneValueIsASequence == ASSUME NEW S, NEW v \in S PROVE <<v>> \in Seq(S)
OBVIOUS

\* What an allocation does to the Counter and to the List keeps them within their capacities.
LEMMA AllocatedIsGood ==
    ASSUME TypeInv
    PROVE  /\ \A amount \in Amounts : UpdateCount(amount) \in GoodGameServers
           /\ \A capacity \in Capacities : /\ UpdateCounterCapacity(capacity) \in GoodGameServers
                                           /\ UpdateListCapacity(capacity) \in GoodGameServers
           /\ \A value \in Values : /\ AppendListValues(<<value>>) \in GoodGameServers
                                    /\ DeleteListValues({value}) \in GoodGameServers
<1> DEFINE counter == gameServer.counter
           list == gameServer.list
<1>1. gameServer \in GoodGameServers
  BY DEF TypeInv, GameServersInv
<1>2. /\ counter = [capacity |-> counter.capacity, count |-> counter.count]
      /\ counter.capacity \in Nat /\ counter.count \in Nat
  BY <1>1, GoodFields DEF Counters
<1>3. /\ list = [capacity |-> list.capacity, values |-> list.values]
      /\ list.capacity \in Nat /\ list.values \in Seq(STRING)
      /\ IsInjective(list.values) /\ Len(list.values) <= list.capacity
  BY <1>1, GoodFields DEF Lists, ListWithin
<1>4. ASSUME NEW c \in Counters, CounterWithin(c)
      PROVE  [gameServer EXCEPT !.counter = c] \in GoodGameServers
  BY <1>1, <1>4, ChangedIsGood
<1>5. ASSUME NEW l \in Lists, ListWithin(l)
      PROVE  [gameServer EXCEPT !.list = l] \in GoodGameServers
  BY <1>1, <1>5, ChangedIsGood
<1>6. ASSUME NEW amount \in Amounts PROVE UpdateCount(amount) \in GoodGameServers
  <2> DEFINE count == counter.count + amount
             new == [capacity |-> counter.capacity, count |-> Clamp(count, counter.capacity)]
  <2>1. count \in Int
    BY <1>2, SDKBatchesAssumption
  <2>2. UpdateCount(amount) = [gameServer EXCEPT !.counter = new]
    <3>1. UpdateCount(amount) = [gameServer EXCEPT !.counter =
                                    [counter EXCEPT !.count = Clamp(count, counter.capacity)]]
      BY DEF UpdateCount
    <3>2. [counter EXCEPT !.count = Clamp(count, counter.capacity)] = new
      <4> HIDE DEF counter
      <4> QED BY <1>2
    <3> QED BY <3>1, <3>2
  <2> HIDE DEF count
  <2>3. new \in Counters /\ CounterWithin(new)
    BY <1>2, <2>1, AsCounter
  <2> HIDE DEF new
  <2> QED BY <1>4, <2>2, <2>3
<1>7. ASSUME NEW capacity \in Capacities PROVE UpdateCounterCapacity(capacity) \in GoodGameServers
  <2> DEFINE new == [capacity |-> capacity, count |-> Clamp(counter.count, capacity)]
  <2>1. UpdateCounterCapacity(capacity) = [gameServer EXCEPT !.counter = new]
    BY DEF UpdateCounterCapacity
  <2>2. counter.count \in Int /\ capacity \in Nat
    BY <1>2, SDKBatchesAssumption
  <2>3. new \in Counters /\ CounterWithin(new)
    BY <2>2, AsCounter
  <2> HIDE DEF new
  <2> QED BY <1>4, <2>1, <2>3
<1>8. ASSUME NEW capacity \in Capacities PROVE UpdateListCapacity(capacity) \in GoodGameServers
  <2> DEFINE new == [capacity |-> capacity, values |-> Truncated(list.values, capacity)]
  <2>1. UpdateListCapacity(capacity) = [gameServer EXCEPT !.list = new]
    BY DEF UpdateListCapacity
  <2>2. capacity \in Nat
    BY SDKBatchesAssumption
  <2>3. new \in Lists /\ ListWithin(new)
    BY <1>3, <2>2, AsList
  <2> HIDE DEF new
  <2> QED BY <1>5, <2>1, <2>3
<1>9. ASSUME NEW value \in Values PROVE AppendListValues(<<value>>) \in GoodGameServers
  <2> DEFINE merged == MergeRemoveDuplicates(list.values, <<value>>)
             new == [capacity |-> list.capacity, values |-> Truncated(merged, list.capacity)]
  <2>1. AppendListValues(<<value>>) = [gameServer EXCEPT !.list = new]
    <3>1. AppendListValues(<<value>>)
            = [gameServer EXCEPT !.list = [list EXCEPT !.values = Truncated(merged, list.capacity)]]
      BY DEF AppendListValues
    <3>2. [list EXCEPT !.values = Truncated(merged, list.capacity)] = new
      <4> HIDE DEF list, merged
      <4> QED BY <1>3
    <3> QED BY <3>1, <3>2
  <2>2. <<value>> \in Seq(STRING)
    <3>1. value \in STRING
      BY SDKBatchesAssumption
    <3> QED BY <3>1, OneValueIsASequence
  <2>3. merged \in Seq(STRING) /\ IsInjective(merged)
    BY <1>3, <2>2, MergeProperties
  <2> HIDE DEF merged
  <2>4. new \in Lists /\ ListWithin(new)
    BY <1>3, <2>3, AsList
  <2> HIDE DEF new
  <2> QED BY <1>5, <2>1, <2>4
<1>10. ASSUME NEW value \in Values PROVE DeleteListValues({value}) \in GoodGameServers
  <2> DEFINE kept == deleteValues(list.values, {value})
             new == [capacity |-> list.capacity, values |-> kept]
  <2>1. DeleteListValues({value}) = [gameServer EXCEPT !.list = new]
    <3>1. DeleteListValues({value}) = [gameServer EXCEPT !.list = [list EXCEPT !.values = kept]]
      BY DEF DeleteListValues
    <3>2. [list EXCEPT !.values = kept] = new
      <4> HIDE DEF list, kept
      <4> QED BY <1>3
    <3> QED BY <3>1, <3>2
  <2>2. kept \in Seq(STRING) /\ IsInjective(kept) /\ Len(kept) <= Len(list.values)
    BY <1>3, DeleteProperties
  <2> HIDE DEF kept
  <2>3. new \in Lists /\ ListWithin(new)
    BY <1>3, <2>2 DEF Lists, ListWithin
  <2> HIDE DEF new
  <2> QED BY <1>5, <2>1, <2>3
<1> QED BY <1>6, <1>7, <1>8, <1>9, <1>10

-----------------------------------------------------------------------------
LEMMA TypeInit == Init => TypeInv
<1> SUFFICES ASSUME Init PROVE TypeInv
  OBVIOUS
<1>1. gameServer \in GoodGameServers
  BY SDKBatchesAssumption, GoodWith DEF Init
<1>2. cached \in GoodGameServers /\ gsCopy = {}
  BY <1>1 DEF Init
<1>3. BatchesInv
  BY DEF Init, BatchesInv
<1>4. PlayersInv
  BY SDKBatchesAssumption DEF Init, PlayersInv, PlayerLists
<1>5. CallsInv
  BY NoCallIsACall DEF Init, CallsInv
<1>6. Counted
  BY DEF Init, Counted
<1>7. workerqueue \subseteq Operations /\ IsWorker(worker)
  BY NoWorkIsIdle DEF Init
<1> QED BY <1>1, <1>2, <1>3, <1>4, <1>5, <1>6, <1>7 DEF TypeInv, GameServersInv, Optional

LEMMA TypeNext == TypeInv /\ [Next]_vars => TypeInv'
<1> SUFFICES ASSUME TypeInv, [Next]_vars PROVE TypeInv'
  OBVIOUS
<1>1. ASSUME NEW s \in Slots, NEW request \in Requests, Send(s, request) PROVE TypeInv'
  <2>1. CallsInv'
    BY <1>1, SendKeepsCalls DEF TypeInv
  <2>2. Counted'
    BY <1>1, UseCounts DEF Send, TypeInv
  <2>3. UNCHANGED <<gameServer, cached, server, players, workerqueue, worker>>
    BY <1>1 DEF Send
  <2> QED BY <2>1, <2>2, <2>3
          DEF TypeInv, GameServersInv, BatchesInv, PlayersInv, server, players
<1>2. ASSUME NEW s \in Slots, Handle(s) PROVE TypeInv'
  BY <1>2, HandleKeepsTypes
<1>3. ASSUME NEW operation \in workerqueue, StartWork(operation) PROVE TypeInv'
  BY <1>3, StartWorkKeepsTypes
<1>4. CASE Work
  BY <1>4, updateCounterKeepsTypes, updateListsKeepsTypes, CopyPlayersKeepsTypes,
     PatchPlayersKeepsTypes DEF Work
<1>5. CASE Sync
  BY <1>5, SyncKeepsTypes
<1>6. ASSUME NEW changed \in GoodGameServers, Change(changed) PROVE TypeInv'
  BY <1>6, ChangeKeepsTypes
<1>7. CASE \/ \E amount \in Amounts : Change(UpdateCount(amount))
           \/ \E capacity \in Capacities :
                 Change(UpdateCounterCapacity(capacity)) \/ Change(UpdateListCapacity(capacity))
           \/ \E value \in Values :
                 Change(AppendListValues(<<value>>)) \/ Change(DeleteListValues({value}))
  BY <1>6, <1>7, AllocatedIsGood
<1>8. CASE Crash
  <2>1. Counted' /\ Restarts
    BY <1>8, UseCounts DEF Crash, TypeInv
  <2> QED BY <2>1, RestartKeepsTypes
<1>9. CASE UNCHANGED vars
  BY <1>9
     DEF vars, TypeInv, GameServersInv, BatchesInv, PlayersInv, CallsInv, Counted, server, players
<1> QED BY <1>1, <1>2, <1>3, <1>4, <1>5, <1>7, <1>8, <1>9 DEF Next

LEMMA TypeInvariant == Spec => []TypeInv
BY TypeInit, TypeNext, PTL DEF Spec

LEMMA OptionalIsAtMostOne ==
    ASSUME NEW S, NEW T, Optional(S, T)
    PROVE  AtMostOne(S) /\ S \subseteq T
<1>1. CASE S = {}
  BY <1>1, FS_EmptySet DEF AtMostOne
<1>2. CASE S # {}
  <2>1. PICK x \in S : x \in T /\ S = {x}
    BY <1>2 DEF Optional
  <2>2. Cardinality({x}) = 1
    BY FS_Singleton
  <2> QED BY <2>1, <2>2 DEF AtMostOne
<1> QED BY <1>1, <1>2

LEMMA TypeInvImpliesTypeOK == TypeInv => TypeOK
<1> SUFFICES ASSUME TypeInv PROVE TypeOK
  OBVIOUS
<1>1. GoodGameServers \subseteq GameServers
  BY DEF GoodGameServers
<1>2. gameServer \in GameServers /\ cached \in GameServers
  BY <1>1 DEF TypeInv, GameServersInv
<1>3. AtMostOne(gsCopy) /\ gsCopy \subseteq GameServers
  BY <1>1, OptionalIsAtMostOne DEF TypeInv, GameServersInv
<1>4. AtMostOne(gsCounterUpdates) /\ AtMostOne(gsListUpdates)
  <2>1. Optional(gsCounterUpdates, gsCounterUpdates) /\ Optional(gsListUpdates, gsListUpdates)
    BY DEF TypeInv, BatchesInv, Optional
  <2> QED BY <2>1, OptionalIsAtMostOne
<1>5. ASSUME NEW u \in gsCounterUpdates
      PROVE  /\ u.diff \in Int /\ AtMostOne(u.capacitySet) /\ AtMostOne(u.countSet)
             /\ u.capacitySet \subseteq Nat /\ u.countSet \subseteq Nat
  <2>1. IsCounterBatch(u)
    BY DEF TypeInv, BatchesInv
  <2> QED BY <2>1, OptionalIsAtMostOne DEF IsCounterBatch
<1>6. ASSUME NEW u \in gsListUpdates
      PROVE  AtMostOne(u.capacitySet) /\ u.capacitySet \subseteq 0..MaxListCapacity
  <2>1. IsListBatch(u)
    BY DEF TypeInv, BatchesInv
  <2> QED BY <2>1, OptionalIsAtMostOne DEF IsListBatch
<1>7. /\ worker.operation \in Operations \cup {"none"} /\ AtMostOne(worker.gs) /\ AtMostOne(worker.copy)
      /\ worker.aliased \subseteq {"gs", "copy"} /\ aliased \in BOOLEAN
  BY OptionalIsAtMostOne DEF TypeInv, IsWorker, PlayersInv
<1>8. \A s \in Slots : calls[s].phase \in {"none", "sent", "fetched", "listed"}
  BY DEF TypeInv, CallsInv, IsCall
<1> QED BY <1>2, <1>3, <1>4, <1>5, <1>6, <1>7, <1>8 DEF TypeOK, TypeInv, Counted

LEMMA TypeInvImpliesWithin == TypeInv => WithinCapacity
<1> SUFFICES ASSUME TypeInv PROVE WithinCapacity
  OBVIOUS
<1>1. /\ gameServer.counter \in Counters /\ CounterWithin(gameServer.counter)
      /\ ListWithin(gameServer.list)
  BY GoodFields DEF TypeInv, GameServersInv
<1>2. gameServer.counter.count \in 0..gameServer.counter.capacity
  BY <1>1 DEF Counters, CounterWithin
<1> QED BY <1>1, <1>2 DEF WithinCapacity

\* Every variable keeps its type, for all requests whose fields have theirs.
THEOREM TypeCorrect == Spec => []TypeOK
BY TypeInvariant, TypeInvImpliesTypeOK, PTL

\* Whatever is batched, written and allocated, and whatever of it is lost: the Counter and the
\* List of the GameServer stay within their capacities, and no value is in the List twice.
THEOREM StaysWithinCapacity == Spec => []WithinCapacity
BY TypeInvariant, TypeInvImpliesWithin, PTL

-----------------------------------------------------------------------------
(* What the SDK server works with was read some time ago.                   *)

IsGameServer(gs) ==
    /\ gs = [generation |-> gs.generation, counter |-> gs.counter, list |-> gs.list,
             players |-> gs.players]
    /\ gs.generation \in Nat

\* A copy that was read some time ago: with the generation of the GameServer, it has its
\* Counter and its List.  The players may be others: the worker puts them in what it read,
\* and the calls write to a slice of the lister's object.
Old(c, gs) ==
    /\ IsGameServer(c) /\ c.generation <= gs.generation
    /\ c.generation = gs.generation => c.counter = gs.counter /\ c.list = gs.list

WorkerInv(w, gs) ==
    /\ w = [operation |-> w.operation, gs |-> w.gs, copy |-> w.copy, aliased |-> w.aliased]
    /\ \A c \in w.gs : Old(c, gs)
    /\ \A c \in w.copy : Old(c, gs)
    /\ w.copy # {} => w.operation \in {"updatePlayerCapacity", "updateConnectedPlayers"}

GenerationInv ==
    /\ IsGameServer(gameServer)
    /\ Old(cached, gameServer)
    /\ \A c \in gsCopy : Old(c, gameServer)
    /\ WorkerInv(worker, gameServer)

-----------------------------------------------------------------------------
LEMMA OrPicks ==
    ASSUME NEW S, NEW d
    PROVE  Or(S, d) \in S \/ (S = {} /\ Or(S, d) = d)
BY DEF Or

LEMMA IdleWorker == ASSUME NEW gs PROVE WorkerInv(NoWork, gs)
<1>1. NoWork = [operation |-> NoWork.operation, gs |-> NoWork.gs, copy |-> NoWork.copy,
                aliased |-> NoWork.aliased]
      /\ NoWork.gs = {} /\ NoWork.copy = {}
  BY DEF NoWork
<1> QED BY <1>1 DEF WorkerInv

\* Everything was read some time ago, that the worker and the SDK server hold as well.
LEMMA ReadsAreOld ==
    ASSUME GenerationInv
    PROVE  /\ Old(LatestGameServer, gameServer)
           /\ Old(GameServerOfWorker, gameServer)
<1>1. Old(Or(gsCopy, cached), gameServer)
  BY OrPicks DEF GenerationInv
<1>2. Old(LatestGameServer, gameServer)
  BY <1>1 DEF LatestGameServer, GenerationInv
<1>3. Old(GameServerOfWorker, gameServer)
  BY OrPicks DEF GameServerOfWorker, GenerationInv, WorkerInv
<1> QED BY <1>2, <1>3

\* A write makes everything that was read before it older.
LEMMA WriteKeepsOld ==
    ASSUME NEW gs, NEW new, IsGameServer(gs), IsGameServer(new),
           new = gs \/ new.generation > gs.generation
    PROVE  (\A c : Old(c, gs) => Old(c, new)) /\ Old(new, new)
BY DEF Old, IsGameServer

LEMMA Write ==
    ASSUME GenerationInv, IsGameServer(gameServer'),
           gameServer' = gameServer \/ gameServer'.generation > gameServer.generation,
           UNCHANGED cached, gsCopy' = gsCopy \/ gsCopy' = {} \/ gsCopy' = {gameServer'},
           worker' = worker \/ worker' = NoWork
    PROVE  GenerationInv'
<1>1. /\ Old(cached', gameServer') /\ Old(gameServer', gameServer')
      /\ \A c \in gsCopy : Old(c, gameServer')
      /\ WorkerInv(worker, gameServer')
  BY WriteKeepsOld DEF GenerationInv, WorkerInv
<1>2. WorkerInv(worker', gameServer')
  BY <1>1, IdleWorker
<1> QED BY <1>1, <1>2 DEF GenerationInv

\* What a write does to what it was given.
LEMMA AppliedIsNewer ==
    ASSUME NEW gs, NEW copy, IsGameServer(copy), copy.generation = gameServer.generation,
           IsGameServer(gameServer), Applied(gs, copy)
    PROVE  /\ IsGameServer(gameServer')
           /\ gameServer' = gameServer \/ gameServer'.generation > gameServer.generation
           /\ gameServer'.counter = copy.counter /\ gameServer'.list = copy.list
<1> DEFINE patched == Patched(gs, copy)
<1>1. PICK g, c, l, p :
          copy = [generation |-> g, counter |-> c, list |-> l, players |-> p]
  BY DEF IsGameServer
<1>2. g \in Nat /\ gameServer.generation = g
  BY <1>1 DEF IsGameServer
<1>3. \E q : patched = [generation |-> g, counter |-> c, list |-> l, players |-> q]
  <2>1. \E ids : patched = [copy EXCEPT !.players.ids = ids]
    BY DEF Patched
  <2>2. PICK ids : patched = [copy EXCEPT !.players.ids = ids]
    BY <2>1
  <2>3. [copy EXCEPT !.players.ids = ids] = [copy EXCEPT !.players = [copy.players EXCEPT !.ids = ids]]
    OBVIOUS
  <2>4. patched = [generation |-> g, counter |-> c, list |-> l, players |-> [copy.players EXCEPT !.ids = ids]]
    BY <1>1, <2>2, <2>3
  <2> QED BY <2>4
<1>4. PICK q : patched = [generation |-> g, counter |-> c, list |-> l, players |-> q]
  BY <1>3
<1>5. \/ gameServer' = gameServer /\ patched = gameServer
      \/ gameServer' = [patched EXCEPT !.generation = @ + 1]
  BY DEF Applied
<1> HIDE DEF patched
<1>6. CASE gameServer' = gameServer /\ patched = gameServer
  BY <1>1, <1>4, <1>6
<1>7. CASE gameServer' = [patched EXCEPT !.generation = @ + 1]
  <2>1. gameServer' = [generation |-> g + 1, counter |-> c, list |-> l, players |-> q]
    BY <1>4, <1>7
  <2> QED BY <1>1, <1>2, <2>1 DEF IsGameServer
<1> QED BY <1>5, <1>6, <1>7

\* With fields replaced it is still a GameServer of the same generation.
LEMMA SetCounter ==
    ASSUME NEW gs, IsGameServer(gs), NEW counter
    PROVE  LET c == [gs EXCEPT !.counter = counter]
           IN  /\ IsGameServer(c) /\ c.generation = gs.generation
               /\ c.counter = counter /\ c.list = gs.list
<1>1. PICK g, c, l, p : gs = [generation |-> g, counter |-> c, list |-> l, players |-> p]
  BY DEF IsGameServer
<1>2. g \in Nat
  BY <1>1 DEF IsGameServer
<1> QED BY <1>1, <1>2 DEF IsGameServer

LEMMA SetList ==
    ASSUME NEW gs, IsGameServer(gs), NEW list
    PROVE  LET c == [gs EXCEPT !.list = list]
           IN  /\ IsGameServer(c) /\ c.generation = gs.generation
               /\ c.list = list /\ c.counter = gs.counter
<1>1. PICK g, c, l, p : gs = [generation |-> g, counter |-> c, list |-> l, players |-> p]
  BY DEF IsGameServer
<1>2. g \in Nat
  BY <1>1 DEF IsGameServer
<1> QED BY <1>1, <1>2 DEF IsGameServer

\* The worker puts other players in what it read.
LEMMA SetPlayers ==
    ASSUME NEW gs, NEW c, Old(c, gs), NEW ids, NEW capacity
    PROVE  /\ Old([c EXCEPT !.players.ids = ids], gs)
           /\ Old([c EXCEPT !.players.capacity = capacity], gs)
<1>1. PICK g, ct, l, p : c = [generation |-> g, counter |-> ct, list |-> l, players |-> p]
  BY DEF Old, IsGameServer
<1>2. g \in Nat /\ g <= gs.generation /\ (g = gs.generation => ct = gs.counter /\ l = gs.list)
  BY <1>1 DEF Old, IsGameServer
<1>3. ASSUME NEW q PROVE Old([c EXCEPT !.players = q], gs)
  <2>1. [c EXCEPT !.players = q] = [generation |-> g, counter |-> ct, list |-> l, players |-> q]
    BY <1>1
  <2> QED BY <1>1, <1>2, <2>1 DEF Old, IsGameServer
<1>4. /\ [c EXCEPT !.players.ids = ids] = [c EXCEPT !.players = [c.players EXCEPT !.ids = ids]]
      /\ [c EXCEPT !.players.capacity = capacity]
            = [c EXCEPT !.players = [c.players EXCEPT !.capacity = capacity]]
  OBVIOUS
<1> QED BY <1>3, <1>4

-----------------------------------------------------------------------------
(* The steps of the worker. *)

\* What a write of the worker may do to the Counter and the List.
Batched ==
    /\ gameServer'.counter \in {gameServer.counter, BatchedCounter(gameServer.counter)}
    /\ gameServer'.list \in {gameServer.list, BatchedList(gameServer.list)}
    /\ gameServer'.counter # gameServer.counter => gameServer'.list = gameServer.list

Written ==
    /\ IsGameServer(gameServer')
    /\ gameServer' = gameServer \/ gameServer'.generation > gameServer.generation
    /\ Batched

LEMMA NothingWritten == GenerationInv /\ UNCHANGED gameServer => Written
BY DEF GenerationInv, Written, Batched

\* A patch or its failure writes nothing, or what the copy holds and the test let through.
LEMMA PatchOrNot ==
    ASSUME NEW gs, NEW copy, patchGameServer(gs, copy) \/ PatchFails(gs, copy)
    PROVE  UNCHANGED gameServer \/ (PatchTests(copy) /\ Applied(gs, copy))
BY DEF patchGameServer, PatchFails

LEMMA CounterIsWritten ==
    ASSUME GenerationInv, updateCounter
    PROVE  Written /\ GenerationInv'
<1> DEFINE gs == GameServerOfWorker
           copy == [gs EXCEPT !.counter = BatchedCounter(gs.counter)]
<1>1. Old(gs, gameServer)
  BY ReadsAreOld
<1>2. /\ patchGameServer(gs, copy) \/ PatchFails(gs, copy)
      /\ UNCHANGED cached /\ worker' = NoWork
      /\ gsCopy' = gsCopy \/ gsCopy' = {gameServer'}
  BY DEF updateCounter
<1>3. /\ IsGameServer(copy) /\ copy.generation = gs.generation
      /\ copy.counter = BatchedCounter(gs.counter) /\ copy.list = gs.list
  BY <1>1, SetCounter DEF Old
<1>4. UNCHANGED gameServer \/ (PatchTests(copy) /\ Applied(gs, copy))
  BY <1>2, PatchOrNot
<1> HIDE DEF gs, copy
<1>5. CASE UNCHANGED gameServer
  BY <1>5, NothingWritten, <1>2, Write DEF Written
<1>6. CASE PatchTests(copy) /\ Applied(gs, copy)
  <2>1. /\ copy.generation = gameServer.generation
        /\ gs.counter = gameServer.counter /\ gs.list = gameServer.list
    BY <1>1, <1>3, <1>6 DEF PatchTests, Old
  <2>2. Written
    BY <1>3, <1>6, <2>1, AppliedIsNewer DEF Written, Batched, GenerationInv
  <2> QED BY <1>2, <2>2, Write DEF Written
<1> QED BY <1>4, <1>5, <1>6

LEMMA ListIsWritten ==
    ASSUME GenerationInv, updateLists
    PROVE  Written /\ GenerationInv'
<1> DEFINE gs == GameServerOfWorker
           copy == [gs EXCEPT !.list = BatchedList(gs.list)]
<1>1. Old(gs, gameServer)
  BY ReadsAreOld
<1>2. /\ patchGameServer(gs, copy) \/ PatchFails(gs, copy)
      /\ UNCHANGED cached /\ worker' = NoWork
      /\ gsCopy' = gsCopy \/ gsCopy' = {gameServer'}
  BY DEF updateLists
<1>3. /\ IsGameServer(copy) /\ copy.generation = gs.generation
      /\ copy.list = BatchedList(gs.list) /\ copy.counter = gs.counter
  BY <1>1, SetList DEF Old
<1>4. UNCHANGED gameServer \/ (PatchTests(copy) /\ Applied(gs, copy))
  BY <1>2, PatchOrNot
<1> HIDE DEF gs, copy
<1>5. CASE UNCHANGED gameServer
  BY <1>5, NothingWritten, <1>2, Write DEF Written
<1>6. CASE PatchTests(copy) /\ Applied(gs, copy)
  <2>1. /\ copy.generation = gameServer.generation
        /\ gs.counter = gameServer.counter /\ gs.list = gameServer.list
    BY <1>1, <1>3, <1>6 DEF PatchTests, Old
  <2>2. Written
    BY <1>3, <1>6, <2>1, AppliedIsNewer DEF Written, Batched, GenerationInv
  <2> QED BY <1>2, <2>2, Write DEF Written
<1> QED BY <1>4, <1>5, <1>6

LEMMA PlayersAreWritten ==
    ASSUME GenerationInv, PatchPlayers
    PROVE  Written /\ GenerationInv'
<1> DEFINE gs == GameServerOfWorker
           copy == Or(worker.copy, cached)
<1>1. Old(copy, gameServer)
  BY OrPicks DEF PatchPlayers, GenerationInv, WorkerInv
<1>2. /\ patchGameServer(gs, copy) \/ PatchFails(gs, copy)
      /\ UNCHANGED <<cached, gsCopy>> /\ worker' = NoWork
  BY DEF PatchPlayers, server
<1>3. UNCHANGED gameServer \/ (PatchTests(copy) /\ Applied(gs, copy))
  BY <1>2, PatchOrNot
<1> HIDE DEF gs, copy
<1>4. CASE UNCHANGED gameServer
  BY <1>4, NothingWritten, <1>2, Write DEF Written
<1>5. CASE PatchTests(copy) /\ Applied(gs, copy)
  <2>1. IsGameServer(copy) /\ copy.generation = gameServer.generation
        /\ copy.counter = gameServer.counter /\ copy.list = gameServer.list
    BY <1>1, <1>5 DEF PatchTests, Old
  <2>2. Written
    BY <1>5, <2>1, AppliedIsNewer DEF Written, Batched, GenerationInv
  <2> QED BY <1>2, <2>2, Write DEF Written
<1> QED BY <1>3, <1>4, <1>5

LEMMA PlayersAreCopied ==
    ASSUME GenerationInv, CopyPlayers,
           worker.operation \in {"updatePlayerCapacity", "updateConnectedPlayers"}
    PROVE  Written /\ GenerationInv'
<1> DEFINE gs == GameServerOfWorker
           ids == [gs EXCEPT !.players.ids = gsConnectedPlayers]
           capacity == [gs EXCEPT !.players.capacity = gsPlayerCapacity]
<1>1. Old(ids, gameServer) /\ Old(capacity, gameServer)
  BY ReadsAreOld, SetPlayers
<1>2. /\ UNCHANGED <<gameServer, cached, gsCopy>>
      /\ \/ worker' = NoWork
         \/ worker' = [worker EXCEPT !.copy = {ids}, !.aliased = @ \cup {"copy"}]
         \/ worker' = [worker EXCEPT !.copy = {capacity}]
  BY DEF CopyPlayers, server
<1> HIDE DEF ids, capacity
<1>3. ASSUME NEW c, Old(c, gameServer),
             \/ worker' = [worker EXCEPT !.copy = {c}]
             \/ worker' = [worker EXCEPT !.copy = {c}, !.aliased = @ \cup {"copy"}]
      PROVE  WorkerInv(worker', gameServer)
  <2>1. PICK a : worker' = [operation |-> worker.operation, gs |-> worker.gs, copy |-> {c}, aliased |-> a]
    <3>1. \/ worker' = [operation |-> worker.operation, gs |-> worker.gs, copy |-> {c},
                        aliased |-> worker.aliased]
          \/ worker' = [operation |-> worker.operation, gs |-> worker.gs, copy |-> {c},
                        aliased |-> worker.aliased \cup {"copy"}]
      BY <1>3 DEF GenerationInv, WorkerInv
    <3> QED BY <3>1
  <2> QED BY <1>3, <2>1 DEF GenerationInv, WorkerInv
<1>4. WorkerInv(worker', gameServer)
  BY <1>1, <1>2, <1>3, IdleWorker
<1> QED BY <1>2, <1>4, NothingWritten DEF GenerationInv

LEMMA WorkWrites == GenerationInv /\ Work => Written /\ GenerationInv'
BY CounterIsWritten, ListIsWritten, PlayersAreWritten, PlayersAreCopied DEF Work

-----------------------------------------------------------------------------
LEMMA ChangeKeepsGenerations ==
    ASSUME GenerationInv, NEW changed, IsGameServer(changed),
           changed.generation = gameServer.generation, Change(changed)
    PROVE  GenerationInv'
<1>1. PICK g, c, l, p :
          changed = [generation |-> g, counter |-> c, list |-> l, players |-> p]
  BY DEF IsGameServer
<1>2. g \in Nat /\ g = gameServer.generation
  BY <1>1 DEF IsGameServer
<1>3. gameServer' = [generation |-> g + 1, counter |-> c, list |-> l, players |-> p]
  BY <1>1 DEF Change
<1>4. IsGameServer(gameServer') /\ gameServer'.generation > gameServer.generation
  BY <1>2, <1>3 DEF IsGameServer
<1>5. UNCHANGED <<cached, gsCopy, worker>>
  BY DEF Change, server
<1> QED BY <1>4, <1>5, Write

\* The allocator touches the Counter or the List.
LEMMA AllocationKeepsGenerations ==
    ASSUME GenerationInv,
           \/ \E amount \in Amounts : Change(UpdateCount(amount))
           \/ \E capacity \in Capacities :
                 Change(UpdateCounterCapacity(capacity)) \/ Change(UpdateListCapacity(capacity))
           \/ \E value \in Values :
                 Change(AppendListValues(<<value>>)) \/ Change(DeleteListValues({value}))
    PROVE  GenerationInv'
<1>1. ASSUME NEW counter, Change([gameServer EXCEPT !.counter = counter]) PROVE GenerationInv'
  BY <1>1, SetCounter, ChangeKeepsGenerations DEF GenerationInv
<1>2. ASSUME NEW list, Change([gameServer EXCEPT !.list = list]) PROVE GenerationInv'
  BY <1>2, SetList, ChangeKeepsGenerations DEF GenerationInv
<1>3. ASSUME NEW amount PROVE Change(UpdateCount(amount)) => GenerationInv'
  <2>1. UpdateCount(amount)
          = [gameServer EXCEPT !.counter =
                [gameServer.counter EXCEPT !.count = Clamp(@ + amount, gameServer.counter.capacity)]]
    BY DEF UpdateCount
  <2> QED BY <1>1, <2>1
<1>4. ASSUME NEW capacity PROVE Change(UpdateCounterCapacity(capacity)) => GenerationInv'
  <2>1. UpdateCounterCapacity(capacity)
          = [gameServer EXCEPT !.counter =
                [capacity |-> capacity, count |-> Clamp(gameServer.counter.count, capacity)]]
    BY DEF UpdateCounterCapacity
  <2> QED BY <1>1, <2>1
<1>5. ASSUME NEW capacity PROVE Change(UpdateListCapacity(capacity)) => GenerationInv'
  <2>1. UpdateListCapacity(capacity)
          = [gameServer EXCEPT !.list =
                [capacity |-> capacity, values |-> Truncated(gameServer.list.values, capacity)]]
    BY DEF UpdateListCapacity
  <2> QED BY <1>2, <2>1
<1>6. ASSUME NEW values PROVE Change(AppendListValues(values)) => GenerationInv'
  <2>1. AppendListValues(values)
          = [gameServer EXCEPT !.list =
                [gameServer.list EXCEPT !.values =
                    Truncated(MergeRemoveDuplicates(@, values), gameServer.list.capacity)]]
    BY DEF AppendListValues
  <2> QED BY <1>2, <2>1
<1>7. ASSUME NEW values PROVE Change(DeleteListValues(values)) => GenerationInv'
  <2>1. DeleteListValues(values)
          = [gameServer EXCEPT !.list =
                [gameServer.list EXCEPT !.values = deleteValues(@, values)]]
    BY DEF DeleteListValues
  <2> QED BY <1>2, <2>1
<1> QED BY <1>3, <1>4, <1>5, <1>6, <1>7

LEMMA GenerationInit == Init => GenerationInv
<1> SUFFICES ASSUME Init PROVE GenerationInv
  OBVIOUS
<1>1. gameServer = [generation |-> 1, counter |-> InitialCounter, list |-> InitialList,
                    players |-> InitialPlayers]
      /\ cached = gameServer /\ gsCopy = {} /\ worker = NoWork
  BY DEF Init
<1>2. IsGameServer(gameServer)
  BY <1>1 DEF IsGameServer
<1> QED BY <1>1, <1>2, IdleWorker DEF GenerationInv, Old, IsGameServer

LEMMA RestartKeepsGenerations == GenerationInv /\ Restarts => GenerationInv'
BY IdleWorker DEF Restarts, GenerationInv, Old, IsGameServer

\* What sees the slice change keeps its generation, Counter and List.
LEMMA SeeingKeepsOld ==
    ASSUME NEW gs, NEW c, Old(c, gs), NEW slice
    PROVE  Old(Seeing(c, slice), gs) /\ Seeing(c, slice).generation = c.generation
<1>1. PICK ids : Seeing(c, slice) = [c EXCEPT !.players.ids = ids]
  <2>1. \E ids : Seeing(c, slice) = [c EXCEPT !.players.ids = ids]
    BY DEF Seeing
  <2> QED BY <2>1
<1>2. [c EXCEPT !.players.ids = ids].generation = c.generation
  BY DEF Old, IsGameServer
<1>3. Old([c EXCEPT !.players.ids = ids], gs)
  BY SetPlayers
<1> QED BY <1>1, <1>2, <1>3

LEMMA WriteInPlaceKeepsOld ==
    ASSUME GenerationInv, NEW slice, WriteInPlace(slice), UNCHANGED <<gameServer, gsCopy>>
    PROVE  /\ GenerationInv' /\ cached'.generation = cached.generation
           /\ worker'.gs = SeenBy("gs", slice)
<1>1. Old(cached', gameServer) /\ cached'.generation = cached.generation
  BY SeeingKeepsOld DEF WriteInPlace, GenerationInv
<1> DEFINE g == SeenBy("gs", slice)
           c == SeenBy("copy", slice)
<1>2. \A x \in g \cup c : Old(x, gameServer)
  <2>1. ASSUME NEW what \in {"gs", "copy"}, NEW x \in SeenBy(what, slice) PROVE Old(x, gameServer)
    <3>1. PICK gs \in worker[what] : x = IF what \in worker.aliased THEN Seeing(gs, slice) ELSE gs
      BY <2>1 DEF SeenBy
    <3>2. Old(gs, gameServer)
      BY <3>1 DEF GenerationInv, WorkerInv
    <3> QED BY <3>1, <3>2, SeeingKeepsOld
  <2> QED BY <2>1
<1>3. c # {} => worker.copy # {}
  BY DEF SeenBy
<1>4. worker' = [worker EXCEPT !.gs = g, !.copy = c]
  BY DEF WriteInPlace
<1> HIDE DEF g, c
<1>5. worker' = [operation |-> worker.operation, gs |-> g, copy |-> c, aliased |-> worker.aliased]
  BY <1>4 DEF GenerationInv, WorkerInv
<1>6. WorkerInv(worker', gameServer)
  BY <1>2, <1>3, <1>5 DEF GenerationInv, WorkerInv
<1> QED BY <1>1, <1>5, <1>6 DEF GenerationInv, g

\* A call of the players writes in place, or only ends the sharing of the slice.
PlayersInPlace ==
    /\ UNCHANGED <<gameServer, gsCopy, gsCounterUpdates, gsListUpdates>>
    /\ \/ UNCHANGED <<cached, worker>>
       \/ worker' = [worker EXCEPT !.aliased = {}] /\ UNCHANGED cached
       \/ \E slice : WriteInPlace(slice)

LEMMA PlayersWriteInPlace ==
    ASSUME NEW s, PlayerConnect(s) \/ PlayerDisconnect(s) \/ SetPlayerCapacity(s)
    PROVE  PlayersInPlace
<1>1. CASE PlayerConnect(s)
  BY <1>1 DEF PlayerConnect, Join, PlayersInPlace, server
<1>2. CASE PlayerDisconnect(s)
  <2>1. Leave(In(s).playerid) => \E slice : WriteInPlace(slice)
    BY DEF Leave
  <2> QED BY <1>2, <2>1 DEF PlayerDisconnect, PlayersInPlace, server
<1>3. CASE SetPlayerCapacity(s)
  BY <1>3 DEF SetPlayerCapacity, PlayersInPlace, server
<1> QED BY <1>1, <1>2, <1>3

LEMMA EndOfSharing ==
    ASSUME GenerationInv, worker' = [worker EXCEPT !.aliased = {}]
    PROVE  WorkerInv(worker', gameServer) /\ worker'.gs = worker.gs
<1>1. worker' = [operation |-> worker.operation, gs |-> worker.gs, copy |-> worker.copy, aliased |-> {}]
  BY DEF GenerationInv, WorkerInv
<1> QED BY <1>1 DEF GenerationInv, WorkerInv

LEMMA PlayersKeepGenerations == GenerationInv /\ PlayersInPlace => GenerationInv'
<1> SUFFICES ASSUME GenerationInv, PlayersInPlace PROVE GenerationInv'
  OBVIOUS
<1>1. CASE UNCHANGED <<cached, worker>>
  BY <1>1 DEF PlayersInPlace, GenerationInv
<1>2. CASE worker' = [worker EXCEPT !.aliased = {}] /\ UNCHANGED cached
  BY <1>2, EndOfSharing DEF PlayersInPlace, GenerationInv
<1>3. ASSUME NEW slice, WriteInPlace(slice) PROVE GenerationInv'
  BY <1>3, WriteInPlaceKeepsOld DEF PlayersInPlace
<1> QED BY <1>1, <1>2, <1>3 DEF PlayersInPlace

LEMMA GenerationNext == GenerationInv /\ [Next]_vars => GenerationInv'
<1> SUFFICES ASSUME GenerationInv, [Next]_vars PROVE GenerationInv'
  OBVIOUS
<1>1. UNCHANGED <<gameServer, cached, gsCopy, worker>> => GenerationInv'
  BY DEF GenerationInv
<1>2. CASE \E s \in Slots, request \in Requests : Send(s, request)
  BY <1>1, <1>2 DEF Send, server
<1>3. ASSUME NEW s \in Slots, Handle(s) PROVE GenerationInv'
  <2>1. CASE UpdateUnknownList(s)
    BY <2>1, RestartKeepsGenerations DEF UpdateUnknownList
  <2>2. CASE Fetch(s) \/ GetCounter(s) \/ UpdateCounter(s) \/ GetList(s)
    BY <1>1, <2>2 DEF Fetch, GetCounter, UpdateCounter, GetList, server
  <2>3. CASE UpdateList(s) \/ AddListValue(s) \/ RemoveListValue(s)
    BY <1>1, <2>3 DEF UpdateList, AddListValue, RemoveListValue, server
  <2>4. CASE PlayerConnect(s) \/ PlayerDisconnect(s) \/ SetPlayerCapacity(s)
    BY <2>4, PlayersWriteInPlace, PlayersKeepGenerations
  <2> QED BY <1>3, <2>1, <2>2, <2>3, <2>4 DEF Handle
<1>4. ASSUME NEW operation \in workerqueue, StartWork(operation) PROVE GenerationInv'
  <2> DEFINE latest == LatestGameServer
             same == IF aliased /\ latest = cached THEN {"gs"} ELSE {}
  <2>1. worker' = [operation |-> operation, gs |-> {latest}, copy |-> {}, aliased |-> same]
        /\ UNCHANGED <<gameServer, cached, gsCopy>>
    BY <1>4 DEF StartWork, NoWork, server
  <2>2. Old(latest, gameServer)
    BY ReadsAreOld
  <2> HIDE DEF latest, same
  <2>3. WorkerInv(worker', gameServer)
    BY <2>1, <2>2 DEF WorkerInv
  <2> QED BY <2>1, <2>3 DEF GenerationInv
<1>5. CASE Work
  BY <1>5, WorkWrites
<1>6. CASE Sync
  BY <1>6 DEF Sync, server, GenerationInv, Old, IsGameServer
<1>7. CASE Crash
  BY <1>7, RestartKeepsGenerations DEF Crash
<1>8. CASE UNCHANGED vars
  BY <1>1, <1>8 DEF vars, server
<1> QED BY <1>2, <1>3, <1>4, <1>5, <1>6, <1>7, <1>8, AllocationKeepsGenerations DEF Next

LEMMA GenerationInvariant == Spec => []GenerationInv
BY GenerationInit, GenerationNext, PTL DEF Spec

\* However late the SDK server is, a batch is only ever applied to the Counter and the List
\* as they are in the API server, and to one of the two at a time.
THEOREM AppliedToTheLatest == Spec => BatchesApplyToTheLatest
<1>1. GenerationInv /\ [Next]_vars =>
        [Work => /\ gameServer'.counter \in {gameServer.counter, BatchedCounter(gameServer.counter)}
                 /\ gameServer'.list \in {gameServer.list, BatchedList(gameServer.list)}
                 /\ gameServer'.counter # gameServer.counter => gameServer'.list = gameServer.list]_vars
  BY WorkWrites DEF Written, Batched
<1> QED BY <1>1, GenerationInvariant, PTL DEF Spec, BatchesApplyToTheLatest

-----------------------------------------------------------------------------
(* Writing a batch: what GetCounter and GetList made of the GameServer and  *)
(* the batch, the patch makes of them too.                                  *)

LEMMA DeletesNothing ==
    ASSUME NEW S, NEW s \in Seq(S)
    PROVE  deleteValues(s, {}) = s
<1>1. PICK f : /\ f[0] = <<>> /\ deleteValues(s, {}) = f[Len(s)]
               /\ \A i \in 1..Len(s) : f[i] = Without(f[i - 1], s[i], {})
  BY DeletesOneByOne
<1> DEFINE Prefix(i) == f[i] \in Seq(S) /\ Len(f[i]) = i /\ \A k \in 1..i : f[i][k] = s[k]
           G == {i \in Nat : i <= Len(s) => Prefix(i)}
<1>2. 0 \in G
  <2>1. f[0] \in Seq(S) /\ Len(f[0]) = 0
    BY <1>1
  <2> QED BY <2>1
<1>3. ASSUME NEW i \in Nat, i \in G PROVE i + 1 \in G
  <2> SUFFICES ASSUME i + 1 <= Len(s) PROVE Prefix(i + 1)
    OBVIOUS
  <2>1. Prefix(i) /\ s[i + 1] \in S /\ f[i + 1] = Without(f[i], s[i + 1], {})
    BY <1>1, <1>3
  <2>2. f[i + 1] = Append(f[i], s[i + 1])
    BY <2>1 DEF Without
  <2>3. /\ f[i + 1] \in Seq(S) /\ Len(f[i + 1]) = i + 1 /\ f[i + 1][i + 1] = s[i + 1]
        /\ \A k \in 1..i : f[i + 1][k] = f[i][k]
    <3>1. /\ f[i] \in Seq(S) /\ Len(f[i]) = i /\ s[i + 1] \in S
      BY <2>1
    <3> QED BY <2>2, <3>1, AppendProperties
  <2>4. ASSUME NEW k \in 1..(i + 1) PROVE f[i + 1][k] = s[k]
    <3>1. CASE k = i + 1
      BY <2>3, <3>1
    <3>2. CASE k \in 1..i
      BY <2>1, <2>3, <3>2
    <3> QED BY <3>1, <3>2
  <2> QED BY <2>3, <2>4
<1>4. Len(s) \in G
  <2> HIDE DEF G
  <2> QED BY <1>2, <1>3, NatSetInduction
<1>5. Prefix(Len(s))
  BY <1>4
<1> QED BY <1>1, <1>5, SeqEqual

LEMMA CounterAsReported ==
    ASSUME NEW gs, gs.counter \in Counters, CounterWithin(gs.counter)
    PROVE  BatchedCounter(gs.counter) = CounterIn(gs)
<1> DEFINE counter == gs.counter
<1>1. CASE gsCounterUpdates = {}
  <2>1. BatchedCounter(counter)
          = [capacity |-> counter.capacity, count |-> Clamp(counter.count + 0, counter.capacity)]
    BY <1>1 DEF BatchedCounter, Or, NoCounterUpdate
  <2>2. counter = [capacity |-> counter.capacity, count |-> counter.count]
        /\ counter.count \in Nat /\ counter.capacity \in Nat /\ counter.count <= counter.capacity
    BY DEF Counters, CounterWithin
  <2>3. CounterIn(gs) = counter
    BY <1>1 DEF CounterIn
  <2> HIDE DEF counter
  <2>4. Clamp(counter.count + 0, counter.capacity) = counter.count
    BY <2>2 DEF Clamp
  <2> QED BY <2>1, <2>2, <2>3, <2>4 DEF counter
<1>2. CASE gsCounterUpdates # {}
  BY <1>2 DEF BatchedCounter, CounterIn
<1> QED BY <1>1, <1>2

LEMMA ListAsReported ==
    ASSUME NEW gs, gs.list \in Lists, ListWithin(gs.list)
    PROVE  BatchedList(gs.list) = ListIn(gs)
<1> DEFINE list == gs.list
<1>1. CASE gsListUpdates = {}
  <2>1. BatchedList(list)
          = [capacity |-> list.capacity, values |-> Truncated(deleteValues(list.values, {}), list.capacity)]
    BY <1>1 DEF BatchedList, Or, NoListUpdate
  <2>2. list = [capacity |-> list.capacity, values |-> list.values]
        /\ list.values \in Seq(STRING) /\ list.capacity \in Nat /\ Len(list.values) <= list.capacity
    BY DEF Lists, ListWithin
  <2>3. ListIn(gs) = list
    BY <1>1 DEF ListIn
  <2> HIDE DEF list
  <2>4. deleteValues(list.values, {}) = list.values
    BY <2>2, DeletesNothing
  <2>5. Truncated(list.values, list.capacity) = list.values
    BY <2>2 DEF Truncated
  <2> QED BY <2>1, <2>2, <2>3, <2>4, <2>5 DEF list
<1>2. CASE gsListUpdates # {}
  BY <1>2 DEF BatchedList, ListIn
<1> QED BY <1>1, <1>2

\* What the worker read is not newer than what a handler is given.
WorkerIsBehind == GameServerOfWorker.generation <= LatestGameServer.generation

Reported ==
    CounterIn(LatestGameServer)' = CounterIn(LatestGameServer)
    /\ ListIn(LatestGameServer)' = ListIn(LatestGameServer)

LEMMA NothingReported ==
    ASSUME UNCHANGED <<cached, gsCopy, gsCounterUpdates, gsListUpdates>>
    PROVE  Reported
BY DEF Reported, LatestGameServer, CounterIn, ListIn

\* A patch that passes its test was made of what the handlers are given as well.
LEMMA WrittenFromTheLatest ==
    ASSUME GenerationInv, WorkerIsBehind, GameServerOfWorker.generation = gameServer.generation
    PROVE  \A gs \in {GameServerOfWorker, LatestGameServer} :
              gs.counter = gameServer.counter /\ gs.list = gameServer.list
<1>1. Old(GameServerOfWorker, gameServer) /\ Old(LatestGameServer, gameServer)
  BY ReadsAreOld
<1> QED BY <1>1 DEF WorkerIsBehind, Old, IsGameServer

\* What was written is given to the handlers.
LEMMA WrittenIsTheLatest ==
    ASSUME GenerationInv, GenerationInv', UNCHANGED cached, gsCopy' = {gameServer'}
    PROVE  /\ LatestGameServer'.counter = gameServer'.counter
           /\ LatestGameServer'.list = gameServer'.list
<1>1. Or(gsCopy, cached)' = gameServer'
  BY OrPicks
<1>2. Old(cached', gameServer')
  BY DEF GenerationInv
<1>3. IsGameServer(gameServer')
  BY DEF GenerationInv
<1> QED BY <1>1, <1>2, <1>3 DEF LatestGameServer, Old, IsGameServer

\* Both batches are written in the same way: of what the worker read, one part is replaced.
LEMMA WrittenIsReported ==
    ASSUME TypeInv, GenerationInv, WorkerIsBehind, GenerationInv',
           NEW copy, IsGameServer(copy), copy.generation = GameServerOfWorker.generation,
           patchGameServer(GameServerOfWorker, copy), UNCHANGED cached, gsCopy' = {gameServer'},
           \/ /\ copy.counter = BatchedCounter(GameServerOfWorker.counter)
              /\ copy.list = GameServerOfWorker.list
              /\ gsCounterUpdates' = {} /\ UNCHANGED gsListUpdates
           \/ /\ copy.list = BatchedList(GameServerOfWorker.list)
              /\ copy.counter = GameServerOfWorker.counter
              /\ gsListUpdates' = {} /\ UNCHANGED gsCounterUpdates
    PROVE  Reported
<1>1. copy.generation = gameServer.generation /\ Applied(GameServerOfWorker, copy)
  BY DEF patchGameServer, PatchTests
<1>2. /\ GameServerOfWorker.counter = gameServer.counter /\ GameServerOfWorker.list = gameServer.list
      /\ LatestGameServer.counter = gameServer.counter /\ LatestGameServer.list = gameServer.list
  BY <1>1, WrittenFromTheLatest
<1>3. gameServer'.counter = copy.counter /\ gameServer'.list = copy.list
  BY <1>1, AppliedIsNewer DEF GenerationInv
<1>4. /\ LatestGameServer'.counter = gameServer'.counter
      /\ LatestGameServer'.list = gameServer'.list
  BY WrittenIsTheLatest
<1>5. /\ gameServer.counter \in Counters /\ CounterWithin(gameServer.counter)
      /\ gameServer.list \in Lists /\ ListWithin(gameServer.list)
  BY GoodFields DEF TypeInv, GameServersInv
<1>6. /\ BatchedCounter(gameServer.counter) = CounterIn(gameServer)
      /\ BatchedList(gameServer.list) = ListIn(gameServer)
  BY <1>5, CounterAsReported, ListAsReported
<1> DEFINE latest == LatestGameServer
<1>9. CounterIn(latest) = CounterIn(gameServer) /\ ListIn(latest) = ListIn(gameServer)
  BY <1>2 DEF CounterIn, ListIn
<1>7. CASE /\ copy.counter = BatchedCounter(GameServerOfWorker.counter)
           /\ copy.list = GameServerOfWorker.list
           /\ gsCounterUpdates' = {} /\ UNCHANGED gsListUpdates
  <2>1. CounterIn(LatestGameServer)' = gameServer'.counter
    BY <1>4, <1>7 DEF CounterIn
  <2>2. ListIn(LatestGameServer)' = ListIn(LatestGameServer)
    BY <1>2, <1>3, <1>4, <1>7 DEF ListIn
  <2> QED BY <1>2, <1>3, <1>6, <1>7, <1>9, <2>1, <2>2 DEF Reported
<1>8. CASE /\ copy.list = BatchedList(GameServerOfWorker.list)
           /\ copy.counter = GameServerOfWorker.counter
           /\ gsListUpdates' = {} /\ UNCHANGED gsCounterUpdates
  <2>1. ListIn(LatestGameServer)' = gameServer'.list
    BY <1>4, <1>8 DEF ListIn
  <2>2. CounterIn(LatestGameServer)' = CounterIn(LatestGameServer)
    BY <1>2, <1>3, <1>4, <1>8 DEF CounterIn
  <2> QED BY <1>2, <1>3, <1>6, <1>8, <1>9, <2>1, <2>2 DEF Reported
<1> QED BY <1>7, <1>8

LEMMA WorkIsInvisible ==
    ASSUME TypeInv, GenerationInv, WorkerIsBehind, Work
    PROVE  Reported
<1> DEFINE gs == GameServerOfWorker
<1>1. GenerationInv' /\ IsGameServer(gs)
  BY WorkWrites, ReadsAreOld DEF Old
<1>2. CASE updateCounter
  <2> DEFINE copy == [gs EXCEPT !.counter = BatchedCounter(gs.counter)]
  <2>1. IsGameServer(copy) /\ copy.generation = gs.generation
        /\ copy.counter = BatchedCounter(gs.counter) /\ copy.list = gs.list
    BY <1>1, SetCounter
  <2>2. \/ patchGameServer(gs, copy) /\ gsCopy' = {gameServer'} /\ gsCounterUpdates' = {}
           /\ UNCHANGED <<cached, gsListUpdates>>
        \/ UNCHANGED <<cached, gsCopy, gsCounterUpdates, gsListUpdates>>
    BY <1>2 DEF updateCounter
  <2> HIDE DEF copy
  <2> QED BY <1>1, <2>1, <2>2, NothingReported, WrittenIsReported
<1>3. CASE updateLists
  <2> DEFINE copy == [gs EXCEPT !.list = BatchedList(gs.list)]
  <2>1. IsGameServer(copy) /\ copy.generation = gs.generation
        /\ copy.list = BatchedList(gs.list) /\ copy.counter = gs.counter
    BY <1>1, SetList
  <2>2. \/ patchGameServer(gs, copy) /\ gsCopy' = {gameServer'} /\ gsListUpdates' = {}
           /\ UNCHANGED <<cached, gsCounterUpdates>>
        \/ UNCHANGED <<cached, gsCopy, gsCounterUpdates, gsListUpdates>>
    BY <1>3 DEF updateLists
  <2> HIDE DEF copy
  <2> QED BY <1>1, <2>1, <2>2, NothingReported, WrittenIsReported
<1>4. CASE CopyPlayers \/ PatchPlayers
  BY <1>4, NothingReported DEF CopyPlayers, PatchPlayers, server
<1> QED BY <1>2, <1>3, <1>4 DEF Work

\* An idle worker reads the lister's copy, which the handlers are given unless what the last
\* batch made of the GameServer is newer.
LEMMA IdleIsBehind ==
    ASSUME GenerationInv, worker = NoWork
    PROVE  WorkerIsBehind
<1>1. GameServerOfWorker = cached
  BY DEF GameServerOfWorker, NoWork, Or
<1> QED BY <1>1, OrPicks DEF WorkerIsBehind, LatestGameServer, GenerationInv, Old, IsGameServer

LEMMA BehindInit == Init => WorkerIsBehind
BY GenerationInit, IdleIsBehind DEF Init

\* Writing in place changes no generation.
LEMMA PlayersStayBehind ==
    ASSUME TypeInv, GenerationInv, WorkerIsBehind, PlayersInPlace
    PROVE  WorkerIsBehind'
<1>2. UNCHANGED gsCopy
  BY DEF PlayersInPlace
<1>3. ASSUME cached'.generation = cached.generation
      PROVE  LatestGameServer'.generation = LatestGameServer.generation
  <2>1. Or(gsCopy', cached') = Or(gsCopy, cached) \/ gsCopy = {}
    BY <1>2 DEF Or
  <2> QED BY <1>2, <1>3, <2>1 DEF LatestGameServer
<1>4. CASE UNCHANGED cached /\ worker'.gs = worker.gs
  <2>1. GameServerOfWorker' = GameServerOfWorker
    BY <1>4 DEF GameServerOfWorker
  <2> QED BY <1>3, <1>4, <2>1 DEF WorkerIsBehind
<1>5. ASSUME NEW slice, WriteInPlace(slice) PROVE WorkerIsBehind'
  <2>1. cached'.generation = cached.generation /\ worker'.gs = SeenBy("gs", slice)
    BY <1>5, WriteInPlaceKeepsOld DEF PlayersInPlace
  <2>2. CASE worker.gs = {}
    <3>1. worker'.gs = {}
      BY <2>1, <2>2 DEF SeenBy
    <3> QED BY <1>3, <2>1, <2>2, <3>1 DEF WorkerIsBehind, GameServerOfWorker, Or
  <2>3. ASSUME NEW gs \in worker.gs PROVE WorkerIsBehind'
    <3>1. worker.gs = {gs} /\ Old(gs, gameServer)
      BY <2>3 DEF TypeInv, IsWorker, Optional, GenerationInv, WorkerInv
    <3>2. worker'.gs = {IF "gs" \in worker.aliased THEN Seeing(gs, slice) ELSE gs}
      BY <2>1, <3>1 DEF SeenBy
    <3>3. PICK new : worker'.gs = {new} /\ new.generation = gs.generation
      BY <3>1, <3>2, SeeingKeepsOld
    <3>4. GameServerOfWorker = gs /\ GameServerOfWorker' = new
      BY <3>1, <3>3 DEF GameServerOfWorker, Or
    <3> QED BY <1>3, <2>1, <3>3, <3>4 DEF WorkerIsBehind
  <2> QED BY <2>2, <2>3
<1> QED BY <1>4, <1>5, EndOfSharing DEF PlayersInPlace

LEMMA BehindNext ==
    ASSUME TypeInv, GenerationInv, GenerationInv', WorkerIsBehind, [Next]_vars
    PROVE  WorkerIsBehind'
<1>1. UNCHANGED <<cached, gsCopy, worker>> => WorkerIsBehind'
  BY DEF WorkerIsBehind, GameServerOfWorker, LatestGameServer
<1>2. worker' = NoWork => WorkerIsBehind'
  <2>1. ASSUME worker' = NoWork PROVE GameServerOfWorker' = cached'
    BY <2>1 DEF GameServerOfWorker, NoWork, Or
  <2>2. \A c \in gsCopy' : c.generation \in Nat
    BY DEF GenerationInv, Old, IsGameServer
  <2>3. cached'.generation \in Nat
    BY DEF GenerationInv, Old, IsGameServer
  <2>4. cached'.generation <= LatestGameServer'.generation
    BY <2>2, <2>3, OrPicks DEF LatestGameServer
  <2> QED BY <2>1, <2>4 DEF WorkerIsBehind
<1>3. CASE \E s \in Slots, request \in Requests : Send(s, request)
  BY <1>1, <1>3 DEF Send, server
<1>4. ASSUME NEW s \in Slots, Handle(s) PROVE WorkerIsBehind'
  <2>1. CASE UpdateUnknownList(s)
    BY <1>2, <2>1 DEF UpdateUnknownList, Restarts
  <2>2. CASE Fetch(s) \/ GetCounter(s) \/ UpdateCounter(s) \/ GetList(s)
    BY <1>1, <2>2 DEF Fetch, GetCounter, UpdateCounter, GetList, server
  <2>3. CASE UpdateList(s) \/ AddListValue(s) \/ RemoveListValue(s)
    BY <1>1, <2>3 DEF UpdateList, AddListValue, RemoveListValue, server
  <2>4. CASE PlayerConnect(s) \/ PlayerDisconnect(s) \/ SetPlayerCapacity(s)
    BY <2>4, PlayersWriteInPlace, PlayersStayBehind
  <2> QED BY <1>4, <2>1, <2>2, <2>3, <2>4 DEF Handle
<1>5. ASSUME NEW operation \in workerqueue, StartWork(operation) PROVE WorkerIsBehind'
  <2> DEFINE latest == LatestGameServer
             same == IF aliased /\ latest = cached THEN {"gs"} ELSE {}
  <2>1. /\ worker' = [operation |-> operation, gs |-> {latest}, copy |-> {}, aliased |-> same]
        /\ UNCHANGED <<cached, gsCopy>>
    BY <1>5 DEF StartWork, NoWork, server
  <2>2. GameServerOfWorker' = latest
    BY <2>1 DEF GameServerOfWorker, Or
  <2>3. LatestGameServer' = latest
    BY <2>1 DEF LatestGameServer
  <2>4. latest.generation \in Nat
    BY ReadsAreOld DEF Old, IsGameServer
  <2> HIDE DEF latest, same
  <2> QED BY <2>2, <2>3, <2>4 DEF WorkerIsBehind
<1>6. CASE Work
  <2>1. CASE updateCounter \/ updateLists \/ PatchPlayers
    BY <1>2, <2>1 DEF updateCounter, updateLists, PatchPlayers
  <2>2. CASE CopyPlayers /\ worker.operation \in {"updatePlayerCapacity", "updateConnectedPlayers"}
    <3>1. \/ worker' = NoWork
          \/ \E c : \/ worker' = [worker EXCEPT !.copy = c]
                    \/ worker' = [worker EXCEPT !.copy = c, !.aliased = @ \cup {"copy"}]
      BY <2>2 DEF CopyPlayers
    <3>2. ASSUME NEW c, \/ worker' = [worker EXCEPT !.copy = c]
                        \/ worker' = [worker EXCEPT !.copy = c, !.aliased = @ \cup {"copy"}]
          PROVE  worker'.gs = worker.gs
      BY <3>2 DEF GenerationInv, WorkerInv
    <3>3. UNCHANGED <<cached, gsCopy>>
      BY <2>2 DEF CopyPlayers, server
    <3>4. worker'.gs = worker.gs => WorkerIsBehind'
      BY <3>3 DEF WorkerIsBehind, GameServerOfWorker, LatestGameServer
    <3> QED BY <1>2, <3>1, <3>2, <3>4
  <2> QED BY <1>6, <2>1, <2>2 DEF Work
<1>7. CASE Sync
  <2>1. cached' = gameServer /\ UNCHANGED <<gsCopy, worker>>
    BY <1>7 DEF Sync, server
  <2>2. CASE worker.gs = {}
    <3>1. GameServerOfWorker' = cached'
      BY <2>1, <2>2 DEF GameServerOfWorker, Or
    <3>2. cached'.generation <= LatestGameServer'.generation
      <4>1. cached'.generation \in Nat /\ \A c \in gsCopy' : c.generation \in Nat
        BY DEF GenerationInv, Old, IsGameServer
      <4> QED BY <4>1, OrPicks DEF LatestGameServer
    <3> QED BY <3>1, <3>2 DEF WorkerIsBehind
  <2>3. CASE worker.gs # {}
    <3>1. GameServerOfWorker' = GameServerOfWorker
      BY <2>1, <2>3 DEF GameServerOfWorker, Or
    <3>2. LatestGameServer.generation <= LatestGameServer'.generation
      <4>1. /\ cached.generation \in Nat /\ gameServer.generation \in Nat
            /\ cached.generation <= gameServer.generation
            /\ \A c \in gsCopy : c.generation \in Nat /\ c.generation <= gameServer.generation
        BY DEF GenerationInv, Old, IsGameServer
      <4>2. CASE gsCopy = {}
        BY <2>1, <4>1, <4>2 DEF LatestGameServer
      <4>3. CASE gsCopy # {}
        <5>1. Or(gsCopy, cached) = Or(gsCopy, gameServer) /\ Or(gsCopy, cached) \in gsCopy
          BY <4>3 DEF Or
        <5> QED BY <2>1, <4>1, <4>3, <5>1 DEF LatestGameServer
      <4> QED BY <4>2, <4>3
    <3>3. /\ GameServerOfWorker.generation \in Nat /\ LatestGameServer.generation \in Nat
          /\ LatestGameServer'.generation \in Nat
      <4>1. GenerationInv' => Old(LatestGameServer', gameServer')
        BY OrPicks DEF GenerationInv, LatestGameServer
      <4> QED BY <4>1, ReadsAreOld DEF Old, IsGameServer
    <3> QED BY <3>1, <3>2, <3>3 DEF WorkerIsBehind
  <2> QED BY <2>2, <2>3
<1>8. ASSUME NEW changed, Change(changed) PROVE WorkerIsBehind'
  BY <1>1, <1>8 DEF Change, server
<1>9. CASE Crash
  BY <1>2, <1>9 DEF Crash, Restarts
<1>10. CASE UNCHANGED vars
  BY <1>1, <1>10 DEF vars, server
<1> QED BY <1>3, <1>4, <1>5, <1>6, <1>7, <1>8, <1>9, <1>10 DEF Next

LEMMA BehindInvariant == Spec => []WorkerIsBehind
<1>1. TypeInv /\ WorkerIsBehind /\ GenerationInv /\ GenerationInv' /\ [Next]_vars => WorkerIsBehind'
  BY BehindNext
<1> QED BY BehindInit, <1>1, TypeInvariant, GenerationInvariant, PTL DEF Spec

\* However the write of a batch ends, a read gets the same answer after it as before it.
THEOREM WriteIsInvisible == Spec => WritingIsInvisible
<1>1. TypeInv /\ GenerationInv /\ WorkerIsBehind /\ [Next]_vars =>
        [Work => /\ CounterIn(LatestGameServer)' = CounterIn(LatestGameServer)
                 /\ ListIn(LatestGameServer)' = ListIn(LatestGameServer)]_vars
  BY WorkIsInvisible DEF Reported
<1> QED BY <1>1, TypeInvariant, GenerationInvariant, BehindInvariant, PTL DEF Spec, WritingIsInvisible
=============================================================================
