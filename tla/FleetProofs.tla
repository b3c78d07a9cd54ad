----------------------------- MODULE FleetProofs -----------------------------
(***************************************************************************)
(* Theorems about Fleet, for every size, strategy and number of sets,      *)
(* changes and faults: its types, and that old sets are only ever scaled   *)
(* down; and for one rollout of any size that it stays within the surge.   *)
(***************************************************************************)
EXTENDS Fleet, FiniteSetTheorems, SequenceTheorems, TLAPS

-----------------------------------------------------------------------------
(* The controller sums over the sets and goes through them with folds.      *)
(* What a fold computes is found by induction, with the least number for    *)
(* which it would be wrong.                                                 *)

\* Induction over a set of numbers.
LEMMA NatSetInduction ==
    ASSUME NEW G, 0 \in G, \A n \in Nat : n \in G => n + 1 \in G
    PROVE  Nat \subseteq G
<1> DEFINE T == Nat \ G
<1> SUFFICES ASSUME T # {} PROVE FALSE
  OBVIOUS
<1>1. \E n \in T : \A m \in T : <<m, n>> \notin OpToRel(<, Nat)
  BY NatLessThanWellFounded, WFMin
<1>2. PICK n \in T : \A m \in T : ~(m < n)
  BY <1>1 DEF OpToRel
<1>3. n - 1 \in Nat /\ n - 1 \notin T
  BY <1>2
<1> QED BY <1>3

\* What MapThenFoldSet recurs on: over the subsets of a finite set, when the element
\* taken is pick[s] and what is done with it is step; for the sets up to a size.
Recurs(h, U, pick, base, step, n) ==
    /\ h[{}] = base
    /\ \A s \in SUBSET U : s # {} /\ Cardinality(s) <= n => h[s] = step[pick[s]][h[s \ {pick[s]}]]

LEMMA OneMoreRecurs ==
    ASSUME NEW U, IsFiniteSet(U), NEW pick, \A s \in SUBSET U : s # {} => pick[s] \in s,
           NEW A, NEW base \in A, NEW step \in [U -> [A -> A]],
           NEW n \in Nat, NEW h \in [SUBSET U -> A], Recurs(h, U, pick, base, step, n)
    PROVE  \E g \in [SUBSET U -> A] : Recurs(g, U, pick, base, step, n + 1)
<1> DEFINE g == [s \in SUBSET U |-> IF s = {} THEN base ELSE step[pick[s]][h[s \ {pick[s]}]]]
<1>1. \A s \in SUBSET U : s # {} =>
         /\ pick[s] \in U /\ s \ {pick[s]} \in SUBSET U
         /\ Cardinality(s) \in Nat
         /\ Cardinality(s \ {pick[s]}) = Cardinality(s) - 1
  BY FS_Subset, FS_CardinalityType, FS_RemoveElement
<1>2. g \in [SUBSET U -> A]
  <2>1. ASSUME NEW s \in SUBSET U, s # {}
        PROVE  step[pick[s]][h[s \ {pick[s]}]] \in A
    <3>1. step[pick[s]] \in [A -> A] /\ h[s \ {pick[s]}] \in A
      BY <1>1, <2>1
    <3> QED BY <3>1
  <2> QED BY <2>1
<1>3. g[{}] = base /\ h[{}] = base
  BY DEF Recurs
<1>4. \A s \in SUBSET U : s # {} => g[s] = step[pick[s]][h[s \ {pick[s]}]]
  OBVIOUS
<1> HIDE DEF g
<1>5. ASSUME NEW s \in SUBSET U, s = {} \/ Cardinality(s) <= n PROVE g[s] = h[s]
  BY <1>3, <1>4, <1>5 DEF Recurs
<1>6. ASSUME NEW s \in SUBSET U, s # {}, Cardinality(s) <= n + 1
      PROVE  g[s] = step[pick[s]][g[s \ {pick[s]}]]
  <2>1. s \ {pick[s]} \in SUBSET U /\ Cardinality(s \ {pick[s]}) <= n
    BY <1>1, <1>6
  <2>2. g[s \ {pick[s]}] = h[s \ {pick[s]}]
    BY <1>5, <2>1
  <2> QED BY <1>4, <1>6, <2>2
<1> QED BY <1>2, <1>3, <1>6 DEF Recurs

Picks(pick, U) == \A s \in SUBSET U : s # {} => pick[s] \in s

RecursOnSets(h, U, pick, base, step) ==
    \A s \in SUBSET U : h[s] = IF s = {} THEN base ELSE step[pick[s]][h[s \ {pick[s]}]]

LEMMA RecursionExists ==
    ASSUME NEW U, IsFiniteSet(U), NEW pick, Picks(pick, U),
           NEW A, NEW base \in A, NEW step \in [U -> [A -> A]]
    PROVE  \E h \in [SUBSET U -> A] : RecursOnSets(h, U, pick, base, step)
<1> DEFINE G == {n \in Nat : \E h \in [SUBSET U -> A] : Recurs(h, U, pick, base, step, n)}
<1>1. \A s \in SUBSET U :
         Cardinality(s) \in Nat /\ Cardinality(s) <= Cardinality(U) /\ (Cardinality(s) = 0 => s = {})
  BY FS_Subset, FS_CardinalityType, FS_EmptySet
<1>2. 0 \in G
  <2> DEFINE h == [s \in SUBSET U |-> base]
  <2>1. h \in [SUBSET U -> A] /\ h[{}] = base
    OBVIOUS
  <2> HIDE DEF h
  <2>2. \A s \in SUBSET U : ~(s # {} /\ Cardinality(s) <= 0)
    BY <1>1
  <2>3. Recurs(h, U, pick, base, step, 0)
    BY <2>1, <2>2 DEF Recurs
  <2> QED BY <2>1, <2>3
<1>3. ASSUME NEW n \in Nat, n \in G PROVE n + 1 \in G
  <2>1. PICK h \in [SUBSET U -> A] : Recurs(h, U, pick, base, step, n)
    BY <1>3
  <2>2. \E g \in [SUBSET U -> A] : Recurs(g, U, pick, base, step, n + 1)
    BY <2>1, OneMoreRecurs DEF Picks
  <2> QED BY <2>2
<1>4. Cardinality(U) \in G
  <2> HIDE DEF G
  <2> QED BY <1>1, <1>2, <1>3, NatSetInduction
<1>5. PICK h \in [SUBSET U -> A] : Recurs(h, U, pick, base, step, Cardinality(U))
  BY <1>4
<1>6. \A s \in SUBSET U : h[s] = IF s = {} THEN base ELSE step[pick[s]][h[s \ {pick[s]}]]
  BY <1>1, <1>5 DEF Recurs
<1> QED BY <1>6 DEF RecursOnSets

\* Induction over the prefixes of 1..n
LEMMA MaxOfInterval ==
    ASSUME NEW n \in Nat, n # 0
    PROVE  Max(1..n) = n /\ (1..n) \ {n} = 1..(n - 1) /\ 1..n # {}
<1>1. Max(1..n) = n
  BY DEF Max
<1>2. (1..n) \ {n} = 1..(n - 1) /\ n \in 1..n
  OBVIOUS
<1> QED BY <1>1, <1>2

LEMMA MaxPicks ==
    ASSUME NEW n \in Nat, NEW s \in SUBSET (1..n), s # {}
    PROVE  Max(s) \in s
<1> DEFINE T == {x \in Nat : n - x \in s}
<1>1. PICK y \in s : TRUE
  OBVIOUS
<1>2. n - y \in T
  BY <1>1
<1>3. PICK m \in T : \A k \in T : ~(k < m)
  <2>1. \E m \in T : \A k \in T : <<k, m>> \notin OpToRel(<, Nat)
    BY <1>2, NatLessThanWellFounded, WFMin
  <2> QED BY <2>1 DEF OpToRel
<1>4. \A x \in s : n - m >= x
  <2> SUFFICES ASSUME NEW x \in s PROVE n - m >= x
    OBVIOUS
  <2>1. n - x \in T
    OBVIOUS
  <2>2. ~(n - x < m)
    BY <1>3, <2>1
  <2> QED BY <2>2
<1>5. n - m \in s
  OBVIOUS
<1> QED BY <1>4, <1>5 DEF Max


RecursOnPrefixes(h, s, base, step) ==
    \A t \in SUBSET DOMAIN s :
        h[t] = IF t = {} THEN base ELSE step[s[Max(t)]][h[t \ {Max(t)}]]

LEMMA FoldLeftRecurs ==
    ASSUME NEW S, NEW s \in Seq(S), NEW A, NEW base \in A, NEW step \in [S -> [A -> A]]
    PROVE  \E h \in [SUBSET DOMAIN s -> A] : RecursOnPrefixes(h, s, base, step)
<1> DEFINE D == DOMAIN s
           pick == [t \in (SUBSET D) \ {{}} |-> Max(t)]
           at == [i \in D |-> step[s[i]]]
<1>1. Len(s) \in Nat /\ D = 1..Len(s) /\ IsFiniteSet(D)
  BY FS_Interval
<1>2. \A t \in SUBSET D : t # {} => pick[t] \in t /\ pick[t] = Max(t)
  BY <1>1, MaxPicks
<1>3. at \in [D -> [A -> A]] /\ \A i \in D : at[i] = step[s[i]]
  BY <1>1
<1> HIDE DEF D, pick, at
<1>4. Picks(pick, D)
  BY <1>2 DEF Picks
<1>5. PICK h \in [SUBSET D -> A] :
            RecursOnSets(h, D, pick, base, at)
  BY <1>1, <1>3, <1>4, RecursionExists
<1>6. ASSUME NEW t \in SUBSET D
      PROVE  h[t] = IF t = {} THEN base ELSE step[s[Max(t)]][h[t \ {Max(t)}]]
  <2>1. h[t] = IF t = {} THEN base ELSE at[pick[t]][h[t \ {pick[t]}]]
    BY <1>5 DEF RecursOnSets
  <2>2. t # {} => pick[t] = Max(t) /\ Max(t) \in D
    BY <1>2
  <2> QED BY <1>3, <2>1, <2>2
<1> QED BY <1>6 DEF D, RecursOnPrefixes

\* What stays in A when the element that is taken is put back, is in A for the whole set.
LEMMA SetInduction ==
    ASSUME NEW U, IsFiniteSet(U), NEW pick, Picks(pick, U), NEW A, NEW h, h[{}] \in A,
           \A s \in SUBSET U : s # {} /\ h[s \ {pick[s]}] \in A => h[s] \in A
    PROVE  \A s \in SUBSET U : h[s] \in A
<1> DEFINE G == {n \in Nat : \A s \in SUBSET U : Cardinality(s) <= n => h[s] \in A}
<1>1. \A s \in SUBSET U :
         Cardinality(s) \in Nat /\ (Cardinality(s) = 0 => s = {})
         /\ (s # {} => /\ s \ {pick[s]} \in SUBSET U
                       /\ Cardinality(s \ {pick[s]}) = Cardinality(s) - 1)
  BY FS_Subset, FS_CardinalityType, FS_EmptySet, FS_RemoveElement DEF Picks
<1>2. 0 \in G
  <2> SUFFICES ASSUME NEW s \in SUBSET U, Cardinality(s) <= 0 PROVE h[s] \in A
    OBVIOUS
  <2>1. Cardinality(s) \in Nat /\ (Cardinality(s) = 0 => s = {})
    BY <1>1
  <2>2. s = {}
    BY <2>1
  <2> QED BY <2>2
<1>3. ASSUME NEW n \in Nat, n \in G PROVE n + 1 \in G
  <2> SUFFICES ASSUME NEW s \in SUBSET U, Cardinality(s) <= n + 1 PROVE h[s] \in A
    OBVIOUS
  <2>1. CASE s # {}
    <3>1. h[s \ {pick[s]}] \in A
      BY <1>1, <1>3, <2>1
    <3> QED BY <2>1, <3>1
  <2> QED BY <2>1
<1>4. G = Nat
  <2>1. \A n \in Nat : n \in G => n + 1 \in G
    BY <1>3
  <2>2. G \subseteq Nat
    OBVIOUS
  <2> HIDE DEF G
  <2> QED BY <1>2, <2>1, <2>2, NatSetInduction
<1>5. ASSUME NEW s \in SUBSET U PROVE h[s] \in A
  <2>1. Cardinality(s) \in Nat
    BY <1>1
  <2>2. Cardinality(s) \in G
    BY <1>4, <2>1
  <2>3. Cardinality(s) <= Cardinality(s)
    BY <2>1
  <2> QED BY <2>2, <2>3
<1> QED BY <1>5

-----------------------------------------------------------------------------
(* Sums.                                                                    *)

\* One element, and the sum of the rest.
SumRecurs(h, f, S) ==
    \A s \in SUBSET S :
        h[s] = IF s = {} THEN 0 ELSE f[CHOOSE x \in s : TRUE] + h[s \ {CHOOSE x \in s : TRUE}]

LEMMA SumIsRecursive ==
    ASSUME NEW S, IsFiniteSet(S), NEW f \in [S -> Nat]
    PROVE  \E h \in [SUBSET S -> Nat] : SumRecurs(h, f, S) /\ FoldFunctionOnSet(+, 0, f, S) = h[S]
<1> DEFINE pick == [s \in (SUBSET S) \ {{}} |-> CHOOSE x \in s : TRUE]
           step == [x \in S |-> [n \in Nat |-> f[x] + n]]
           iter == CHOOSE h : h = [s \in SUBSET S |->
                      IF s = {} THEN 0
                      ELSE f[CHOOSE x \in s : TRUE] + h[s \ {CHOOSE x \in s : TRUE}]]
<1>1. FoldFunctionOnSet(+, 0, f, S) = iter[S]
  BY DEF FoldFunctionOnSet, MapThenFoldSet
<1>2. \A s \in SUBSET S : s # {} => pick[s] \in s /\ pick[s] = CHOOSE x \in s : TRUE
  OBVIOUS
<1>3. step \in [S -> [Nat -> Nat]] /\ \A x \in S, n \in Nat : step[x][n] = f[x] + n
  OBVIOUS
<1> HIDE DEF pick, step
<1>4. PICK h \in [SUBSET S -> Nat] : RecursOnSets(h, S, pick, 0, step)
  BY <1>2, <1>3, RecursionExists DEF Picks
<1>5. ASSUME NEW s \in SUBSET S
      PROVE  h[s] = IF s = {} THEN 0
                    ELSE f[CHOOSE x \in s : TRUE] + h[s \ {CHOOSE x \in s : TRUE}]
  <2>1. CASE s = {}
    BY <1>4, <2>1 DEF RecursOnSets
  <2>2. CASE s # {}
    <3>1. h[s] = step[pick[s]][h[s \ {pick[s]}]] /\ h[s \ {pick[s]}] \in Nat /\ pick[s] \in S
      BY <1>2, <1>4, <2>2 DEF RecursOnSets
    <3>2. h[s] = f[pick[s]] + h[s \ {pick[s]}]
      BY <1>3, <3>1
    <3> QED BY <1>2, <2>2, <3>2
  <2> QED BY <2>1, <2>2
<1>6. h = [s \in SUBSET S |->
             IF s = {} THEN 0 ELSE f[CHOOSE x \in s : TRUE] + h[s \ {CHOOSE x \in s : TRUE}]]
  BY <1>5
<1>7. iter = [s \in SUBSET S |->
                IF s = {} THEN 0
                ELSE f[CHOOSE x \in s : TRUE] + iter[s \ {CHOOSE x \in s : TRUE}]]
  BY <1>6
<1> HIDE DEF iter
<1>8. SumRecurs(iter, f, S)
  BY <1>7 DEF SumRecurs
<1>9. \A s \in SUBSET S : iter[s] \in Nat
  <2>1. iter[{}] \in Nat
    BY <1>7
  <2>2. ASSUME NEW s \in SUBSET S, s # {}, iter[s \ {pick[s]}] \in Nat PROVE iter[s] \in Nat
    <3>1. pick[s] \in S /\ iter[s] = f[pick[s]] + iter[s \ {pick[s]}]
      BY <1>2, <1>7, <2>2
    <3> QED BY <2>2, <3>1
  <2>3. Picks(pick, S)
    BY <1>2 DEF Picks
  <2> QED BY <2>1, <2>2, <2>3, SetInduction
<1>10. iter \in [SUBSET S -> Nat]
  BY <1>7, <1>9
<1> QED BY <1>1, <1>8, <1>10

LEMMA SumIsNat ==
    ASSUME NEW S, IsFiniteSet(S), NEW f \in [S -> Nat]
    PROVE  FoldFunctionOnSet(+, 0, f, S) \in Nat
<1>1. PICK h \in [SUBSET S -> Nat] : FoldFunctionOnSet(+, 0, f, S) = h[S]
  BY SumIsRecursive
<1> QED BY <1>1

\* The sum of a set of at most two.
LEMMA SumOfTwo ==
    ASSUME NEW a, NEW b, a # b, NEW S, S = {a, b}, NEW f \in [S -> Nat]
    PROVE  FoldFunctionOnSet(+, 0, f, S) = f[a] + f[b]
<1>0. f[a] \in Nat /\ f[b] \in Nat
  OBVIOUS
<1>1. IsFiniteSet(S)
  <2>1. IsFiniteSet({} \cup {a})
    BY FS_EmptySet, FS_AddElement
  <2>2. IsFiniteSet(({} \cup {a}) \cup {b})
    BY <2>1, FS_AddElement
  <2>3. S = ({} \cup {a}) \cup {b}
    OBVIOUS
  <2> QED BY <2>2, <2>3
<1>2. PICK h \in [SUBSET S -> Nat] : SumRecurs(h, f, S) /\ FoldFunctionOnSet(+, 0, f, S) = h[S]
  BY <1>1, SumIsRecursive
<1>3. h[{}] = 0
  BY <1>2 DEF SumRecurs
<1>4. ASSUME NEW x \in S PROVE h[{x}] = f[x]
  <2>1. (CHOOSE y \in {x} : TRUE) = x /\ {x} \ {x} = {} /\ {x} \in SUBSET S /\ {x} # {}
    OBVIOUS
  <2>2. h[{x}] = f[x] + h[{}]
    BY <1>2, <2>1 DEF SumRecurs
  <2> QED BY <1>3, <2>2
<1>5. PICK c \in S : c = CHOOSE y \in S : TRUE
  <2>1. a \in S
    OBVIOUS
  <2> QED BY <2>1
<1>6. h[S] = f[c] + h[S \ {c}]
  <2>1. S \in SUBSET S /\ S # {}
    OBVIOUS
  <2> QED BY <1>2, <1>5, <2>1 DEF SumRecurs
<1>7. CASE c = a
  <2>1. S \ {c} = {b}
    BY <1>7
  <2>2. h[S] = f[a] + h[{b}] /\ h[{b}] = f[b]
    BY <1>4, <1>6, <1>7, <2>1
  <2>3. h[S] = f[a] + f[b]
    BY <1>0, <2>2
  <2> QED BY <1>2, <2>3
<1>8. CASE c = b
  <2>1. S \ {c} = {a}
    BY <1>8
  <2>2. h[S] = f[b] + h[{a}] /\ h[{a}] = f[a]
    BY <1>4, <1>6, <1>8, <2>1
  <2>3. h[S] = f[a] + f[b]
    BY <1>0, <2>2
  <2> QED BY <1>2, <2>3
<1> QED BY <1>5, <1>7, <1>8

LEMMA SumOfOne ==
    ASSUME NEW a, NEW S, S = {a}, NEW f \in [S -> Nat]
    PROVE  FoldFunctionOnSet(+, 0, f, S) = f[a]
<1>0. f[a] \in Nat
  OBVIOUS
<1>1. IsFiniteSet(S)
  <2>1. S = {} \cup {a}
    OBVIOUS
  <2> QED BY <2>1, FS_EmptySet, FS_AddElement
<1>2. PICK h \in [SUBSET S -> Nat] : SumRecurs(h, f, S) /\ FoldFunctionOnSet(+, 0, f, S) = h[S]
  BY <1>1, SumIsRecursive
<1>3. h[{}] = 0
  BY <1>2 DEF SumRecurs
<1>4. (CHOOSE y \in {a} : TRUE) = a /\ {a} \ {a} = {} /\ {a} \in SUBSET S /\ {a} # {}
  OBVIOUS
<1>5. h[S] = f[a] + h[{}]
  BY <1>2, <1>4 DEF SumRecurs
<1>6. h[S] = f[a]
  BY <1>0, <1>3, <1>5
<1> QED BY <1>2, <1>6

LEMMA SumOfNone ==
    ASSUME NEW f \in [{} -> Nat]
    PROVE  FoldFunctionOnSet(+, 0, f, {}) = 0
<1>1. PICK h \in [SUBSET {} -> Nat] : SumRecurs(h, f, {}) /\ FoldFunctionOnSet(+, 0, f, {}) = h[{}]
  BY FS_EmptySet, SumIsRecursive
<1> QED BY <1>1 DEF SumRecurs

\* A sum is at least each of its terms.
LEMMA SumHasEach ==
    ASSUME NEW S, IsFiniteSet(S), NEW f \in [S -> Nat], NEW x \in S
    PROVE  f[x] <= FoldFunctionOnSet(+, 0, f, S)
<1> DEFINE pick == [s \in (SUBSET S) \ {{}} |-> CHOOSE y \in s : TRUE]
           A == {p \in (SUBSET S) \X Nat : x \in p[1] => f[x] <= p[2]}
<1>1. PICK h \in [SUBSET S -> Nat] : SumRecurs(h, f, S) /\ FoldFunctionOnSet(+, 0, f, S) = h[S]
  BY SumIsRecursive
<1>2. \A s \in SUBSET S : s # {} => pick[s] \in s /\ pick[s] = CHOOSE y \in s : TRUE
  OBVIOUS
<1> DEFINE g == [s \in SUBSET S |-> <<s, h[s]>>]
<1>3. g[{}] \in A
  OBVIOUS
<1>4. ASSUME NEW s \in SUBSET S, s # {}, g[s \ {pick[s]}] \in A PROVE g[s] \in A
  <2> DEFINE y == pick[s]
             less == s \ {y}
  <2>1. y \in s /\ y = (CHOOSE z \in s : TRUE) /\ less \in SUBSET S
    BY <1>2, <1>4
  <2>2. h[s] = f[y] + h[less] /\ h[s] \in Nat /\ h[less] \in Nat
    BY <1>1, <1>4, <2>1 DEF SumRecurs
  <2>3. g[s] = <<s, h[s]>> /\ g[less] = <<less, h[less]>>
    BY <1>4, <2>1
  <2> HIDE DEF y, g
  <2>4. x \in less => f[x] <= h[less]
    BY <1>4, <2>3 DEF y
  <2>5. f[x] \in Nat /\ f[y] \in Nat
    BY <1>4, <2>1
  <2>6. x \in s => f[x] <= h[s]
    BY <2>2, <2>4, <2>5
  <2> QED BY <1>4, <2>2, <2>3, <2>6
<1>5. Picks(pick, S)
  BY <1>2 DEF Picks
<1> HIDE DEF g, A, pick
<1>6. \A s \in SUBSET S : g[s] \in A
  BY <1>3, <1>4, <1>5, SetInduction
<1>7. g[S] = <<S, h[S]>>
  BY DEF g
<1>8. f[x] <= h[S]
  BY <1>6, <1>7 DEF A
<1> QED BY <1>1, <1>8

\* What every step of a fold keeps, holds of its result.
LEMMA FoldStays ==
    ASSUME NEW S, NEW s \in Seq(S), NEW A, NEW g, g[{}] \in A,
           \A t \in SUBSET DOMAIN s : t # {} /\ g[t \ {Max(t)}] \in A => g[t] \in A
    PROVE  g[DOMAIN s] \in A
<1> DEFINE D == DOMAIN s
           pick == [t \in (SUBSET D) \ {{}} |-> Max(t)]
<1>1. Len(s) \in Nat /\ D = 1..Len(s) /\ IsFiniteSet(D)
  BY FS_Interval
<1>2. \A t \in SUBSET D : t # {} => pick[t] \in t /\ pick[t] = Max(t)
  BY <1>1, MaxPicks
<1>3. \A t \in SUBSET D : t # {} /\ g[t \ {pick[t]}] \in A => g[t] \in A
  BY <1>2
<1> HIDE DEF pick, D
<1>4. Picks(pick, D)
  BY <1>2 DEF Picks
<1>5. \A t \in SUBSET D : g[t] \in A
  BY <1>1, <1>3, <1>4, SetInduction
<1> QED BY <1>5 DEF D

-----------------------------------------------------------------------------
(* What is asked for one after the other: old sets are to have less than   *)
(* the controller saw, and what is scaled existed.                          *)

Kinds == {"cleanup", "rest", "active", "delete", "create", "defaults"}
Asks == [what : Kinds, set : {0} \cup Names, replicas : Int]

GoesDown(seen, r) == r.set \in Existing(seen) /\ r.replicas < seen[r.set].replicas

Downs(seen) == {r \in Asks : r.what \in {"cleanup", "rest"} /\ GoesDown(seen, r)}

Plans(seen) ==
    {r \in Asks : /\ r.what \in {"cleanup", "rest"} => GoesDown(seen, r)
                  /\ r.what = "active" => r.set \in Existing(seen)
                  /\ r.what = "delete" => r.set \in Names}

LEMMA NoSetIsNoGameServerSet ==
    /\ \A n : \A r \in [template : Templates, replicas : n, status : SetStatuses] : r # NoSet
    /\ \A r \in GameServerSets : r # NoSet =>
          r \in [template : Templates, replicas : Nat, status : SetStatuses]
<1>1. ASSUME NEW n, NEW r \in [template : Templates, replicas : n, status : SetStatuses]
      PROVE  r # NoSet
  <2>1. "replicas" \in DOMAIN r /\ "replicas" \notin DOMAIN NoSet
    BY DEF NoSet
  <2> QED BY <2>1
<1> QED BY <1>1 DEF GameServerSets

AmongStep(kept, x, T) == IF x \in T THEN Append(kept, x) ELSE kept

LEMMA AmongIsTyped ==
    ASSUME NEW S, NEW s \in Seq(S), NEW T
    PROVE  Among(s, T) \in Seq(S \cap T)
<1> DEFINE D == DOMAIN s
           A == Seq(S \cap T)
           step == [v \in S |-> [kept \in Seq(S \cap T) |-> AmongStep(kept, v, T)]]
           iter == CHOOSE h : h = [t \in SUBSET D |->
                      IF t = {} THEN <<>> ELSE AmongStep(h[t \ {Max(t)}], s[Max(t)], T)]
<1>1. Len(s) \in Nat /\ D = 1..Len(s) /\ \A i \in D : s[i] \in S
  OBVIOUS
<1>2. \A v \in S, kept \in A : AmongStep(kept, v, T) \in A
  BY DEF AmongStep
<1>3. step \in [S -> [A -> A]] /\ <<>> \in A
  BY <1>2
<1>4. \A v \in S, kept \in A : step[v][kept] = AmongStep(kept, v, T)
  OBVIOUS
<1>5. Among(s, T) = iter[D]
  BY DEF Among, FoldLeft, MapThenFoldSet, AmongStep
<1> HIDE DEF step, A, D
<1>6. PICK h \in [SUBSET D -> A] : RecursOnPrefixes(h, s, <<>>, step)
  BY <1>3, FoldLeftRecurs DEF D
<1>7. \A t \in SUBSET D : t # {} => Max(t) \in t /\ s[Max(t)] \in S /\ t \ {Max(t)} \in SUBSET D
  BY <1>1, MaxPicks
<1>8. ASSUME NEW t \in SUBSET D
      PROVE  h[t] = IF t = {} THEN <<>> ELSE AmongStep(h[t \ {Max(t)}], s[Max(t)], T)
  BY <1>4, <1>6, <1>7 DEF RecursOnPrefixes, D
<1>9. h = [t \in SUBSET D |-> IF t = {} THEN <<>> ELSE AmongStep(h[t \ {Max(t)}], s[Max(t)], T)]
  BY <1>8
<1>10. iter = [t \in SUBSET D |->
                 IF t = {} THEN <<>> ELSE AmongStep(iter[t \ {Max(t)}], s[Max(t)], T)]
  BY <1>9
<1> HIDE DEF iter
<1>11. iter[{}] \in A
  BY <1>3, <1>10
<1>12. ASSUME NEW t \in SUBSET D, t # {}, iter[t \ {Max(t)}] \in A PROVE iter[t] \in A
  <2>1. iter[t] = AmongStep(iter[t \ {Max(t)}], s[Max(t)], T)
    BY <1>10, <1>12
  <2> QED BY <1>2, <1>7, <1>12, <2>1
<1>13. iter[DOMAIN s] \in A
  BY <1>11, <1>12, FoldStays DEF D
<1> QED BY <1>5, <1>13 DEF A, D

\* The sets as the first loop leaves them in memory.
SizedSets == [template : Templates, replicas : Int, status : SetStatuses]

Shrunk(list) ==
    {l \in [Names -> {NoSet} \cup SizedSets] :
        \A n \in Existing(list) : l[n] \in SizedSets /\ l[n].replicas <= list[n].replicas}

SomeSetsAreSized ==
    \A list \in [Names -> GameServerSets] : \A n \in Existing(list) :
        list[n] \in [template : Templates, replicas : Nat, status : SetStatuses]

LEMMA ExistingIsSized == SomeSetsAreSized
BY NoSetIsNoGameServerSet DEF SomeSetsAreSized, Existing

LEMMA ListIsShrunk == \A list \in [Names -> GameServerSets] : list \in Shrunk(list)
<1> SUFFICES ASSUME NEW list \in [Names -> GameServerSets] PROVE list \in Shrunk(list)
  OBVIOUS
<1>1. \A n \in Existing(list) : list[n] \in SizedSets /\ list[n].replicas <= list[n].replicas
  BY ExistingIsSized DEF SomeSetsAreSized, SizedSets
<1>2. list \in [Names -> {NoSet} \cup SizedSets]
  BY DEF GameServerSets, SizedSets
<1> QED BY <1>1, <1>2 DEF Shrunk

CleanupStep(acc, s, list, maxCleanupCount) ==
    LET set == list[s]
        down == Least(maxCleanupCount - acc.down,
                      set.replicas - set.status.ready - set.status.allocated)
    IN  IF set.replicas = 0 \/ down <= 0 THEN acc
        ELSE [down |-> acc.down + down,
              list |-> [acc.list EXCEPT ![s].replicas = @ - down],
              requests |-> Append(acc.requests, Update(s, set.replicas - down, "cleanup"))]

Cleanups(list) == [down : Int, list : Shrunk(list), requests : Seq(Downs(list))]

LEMMA CleanupStepIsTyped ==
    ASSUME NEW list \in [Names -> GameServerSets], NEW s \in Existing(list), NEW max \in Int,
           NEW acc \in Cleanups(list)
    PROVE  CleanupStep(acc, s, list, max) \in Cleanups(list)
<1> DEFINE set == list[s]
           down == Least(max - acc.down, set.replicas - set.status.ready - set.status.allocated)
           l == [acc.list EXCEPT ![s].replicas = @ - down]
           r == Update(s, set.replicas - down, "cleanup")
<1>1. /\ set \in [template : Templates, replicas : Nat, status : SetStatuses] /\ s \in Names
      /\ acc.down \in Int /\ acc.list \in Shrunk(list) /\ acc.requests \in Seq(Downs(list))
  BY ExistingIsSized DEF SomeSetsAreSized, Existing, Cleanups
<1>2. set.replicas \in Nat /\ set.status.ready \in Nat /\ set.status.allocated \in Nat
  BY <1>1 DEF SetStatuses
<1>3. down \in Int
  BY <1>1, <1>2 DEF Least
<1>4. CASE set.replicas = 0 \/ down <= 0
  BY <1>4 DEF CleanupStep
<1>5. CASE ~(set.replicas = 0 \/ down <= 0)
  <2>1. r \in Downs(list)
    <3>1. r = [what |-> "cleanup", set |-> s, replicas |-> set.replicas - down]
      BY DEF Update
    <3>2. set.replicas - down \in Int /\ set.replicas - down < set.replicas
      BY <1>2, <1>3, <1>5
    <3> HIDE DEF down, r
    <3>3. r \in Asks
      BY <1>1, <3>1, <3>2 DEF Asks, Kinds
    <3> QED BY <1>1, <3>1, <3>2, <3>3 DEF Downs, GoesDown
  <2>2. l \in Shrunk(list)
    <3> HIDE DEF down
    <3>1. acc.list \in [Names -> {NoSet} \cup SizedSets] /\ acc.list[s] \in SizedSets
      BY <1>1 DEF Shrunk
    <3> DEFINE x == [acc.list[s] EXCEPT !.replicas = @ - down]
    <3>2. x \in SizedSets /\ x.replicas = acc.list[s].replicas - down
      BY <1>3, <3>1 DEF SizedSets
    <3>3. x.replicas <= acc.list[s].replicas
      <4>1. acc.list[s].replicas \in Int /\ down > 0
        BY <1>3, <1>5, <3>1 DEF SizedSets
      <4> QED BY <1>3, <3>2, <4>1
    <3>4. l = [acc.list EXCEPT ![s] = x]
      OBVIOUS
    <3> HIDE DEF x
    <3>5. l \in [Names -> {NoSet} \cup SizedSets]
      BY <3>1, <3>2, <3>4
    <3>6. ASSUME NEW n \in Existing(list) PROVE l[n] \in SizedSets /\ l[n].replicas <= list[n].replicas
      <4>1. n \in Names /\ acc.list[n] \in SizedSets /\ acc.list[n].replicas <= list[n].replicas
        BY <1>1 DEF Shrunk, Existing
      <4>2. CASE n # s
        BY <3>1, <3>4, <4>1, <4>2
      <4>3. CASE n = s
        <5>1. l[n] = x
          BY <3>1, <3>4, <4>1, <4>3
        <5>2. x.replicas \in Int /\ acc.list[n].replicas \in Int /\ list[n].replicas \in Int
          BY <1>2, <3>2, <4>1, <4>3 DEF SizedSets
        <5> QED BY <3>2, <3>3, <4>1, <4>3, <5>1, <5>2
      <4> QED BY <4>2, <4>3
    <3> HIDE DEF l
    <3> QED BY <3>5, <3>6 DEF Shrunk
  <2>3. CleanupStep(acc, s, list, max)
          = [down |-> acc.down + down, list |-> l, requests |-> Append(acc.requests, r)]
    BY <1>5 DEF CleanupStep
  <2> HIDE DEF down, l, r
  <2>4. Append(acc.requests, r) \in Seq(Downs(list)) /\ acc.down + down \in Int
    BY <1>1, <1>3, <2>1
  <2> QED BY <2>2, <2>3, <2>4 DEF Cleanups
<1> QED BY <1>4, <1>5

LEMMA CleanupIsTyped ==
    ASSUME NEW list \in [Names -> GameServerSets], NEW rest \in Seq(Existing(list)), NEW max \in Int
    PROVE  cleanupUnhealthyReplicas(list, rest, max) \in Cleanups(list)
<1> DEFINE S == Existing(list)
           D == DOMAIN rest
           A == Cleanups(list)
           base == [down |-> 0, list |-> list, requests |-> <<>>]
           step == [v \in S |-> [acc \in Cleanups(list) |-> CleanupStep(acc, v, list, max)]]
           iter == CHOOSE h : h = [t \in SUBSET D |->
                      IF t = {} THEN [down |-> 0, list |-> list, requests |-> <<>>]
                      ELSE CleanupStep(h[t \ {Max(t)}], rest[Max(t)], list, max)]
<1>1. Len(rest) \in Nat /\ D = 1..Len(rest) /\ \A i \in D : rest[i] \in S
  OBVIOUS
<1>2. \A v \in S, acc \in A : CleanupStep(acc, v, list, max) \in A
  BY CleanupStepIsTyped
<1>3. step \in [S -> [A -> A]]
  BY <1>2
<1>13. base \in A
  BY ListIsShrunk DEF Cleanups
<1>4. \A v \in S, acc \in A : step[v][acc] = CleanupStep(acc, v, list, max)
  OBVIOUS
<1>5. cleanupUnhealthyReplicas(list, rest, max) = iter[D]
  BY DEF cleanupUnhealthyReplicas, FoldLeft, MapThenFoldSet, CleanupStep
<1>14. base = [down |-> 0, list |-> list, requests |-> <<>>]
  OBVIOUS
<1> HIDE DEF step, A, D, S, base
<1>6. PICK h \in [SUBSET D -> A] : RecursOnPrefixes(h, rest, base, step)
  BY <1>3, <1>13, FoldLeftRecurs DEF D, S
<1>7. \A t \in SUBSET D : t # {} => Max(t) \in t /\ rest[Max(t)] \in S /\ t \ {Max(t)} \in SUBSET D
  BY <1>1, MaxPicks
<1>8. ASSUME NEW t \in SUBSET D
      PROVE  h[t] = IF t = {} THEN base ELSE CleanupStep(h[t \ {Max(t)}], rest[Max(t)], list, max)
  BY <1>4, <1>6, <1>7 DEF RecursOnPrefixes, D
<1>9. h = [t \in SUBSET D |->
             IF t = {} THEN base ELSE CleanupStep(h[t \ {Max(t)}], rest[Max(t)], list, max)]
  BY <1>8
<1>10. iter = [t \in SUBSET D |->
                 IF t = {} THEN base ELSE CleanupStep(iter[t \ {Max(t)}], rest[Max(t)], list, max)]
  BY <1>9 DEF base
<1> HIDE DEF iter
<1>11. iter[{}] \in A
  BY <1>13, <1>10
<1>12. ASSUME NEW t \in SUBSET D, t # {}, iter[t \ {Max(t)}] \in A PROVE iter[t] \in A
  <2>1. iter[t] = CleanupStep(iter[t \ {Max(t)}], rest[Max(t)], list, max)
    BY <1>10, <1>12
  <2> QED BY <1>2, <1>7, <1>12, <2>1
<1>15. iter[DOMAIN rest] \in A
  BY <1>11, <1>12, FoldStays DEF D
<1> QED BY <1>5, <1>15 DEF A, D

ScaleDownStep(acc, s, list, totalScaleDownCount) ==
    LET set == list[s]
        down == Least(set.replicas, totalScaleDownCount - acc.down)
        replicas == IF set.status.replicas = set.status.allocated THEN 0 ELSE set.replicas - down
    IN  IF acc.stopped \/ down <= 0 THEN acc
        ELSE IF set.replicas # set.status.replicas THEN [acc EXCEPT !.stopped = TRUE]
        ELSE IF set.status.shutdown # 0 THEN acc
        ELSE [acc EXCEPT !.down = @ + down,
                         !.requests = Append(@, Update(s, replicas, "rest"))]

ScaleDowns(seen) == [down : Int, stopped : BOOLEAN, requests : Seq(Downs(seen))]

LEMMA ScaleDownStepIsTyped ==
    ASSUME NEW seen \in [Names -> GameServerSets], NEW list \in Shrunk(seen),
           NEW s \in Existing(seen), NEW total \in Int, NEW acc \in ScaleDowns(seen)
    PROVE  ScaleDownStep(acc, s, list, total) \in ScaleDowns(seen)
<1> DEFINE set == list[s]
           down == Least(set.replicas, total - acc.down)
           replicas == IF set.status.replicas = set.status.allocated THEN 0 ELSE set.replicas - down
           r == Update(s, replicas, "rest")
<1>1. /\ set \in SizedSets /\ set.replicas <= seen[s].replicas /\ s \in Names
      /\ acc.down \in Int /\ acc.stopped \in BOOLEAN /\ acc.requests \in Seq(Downs(seen))
  BY DEF Shrunk, Existing, ScaleDowns
<1>2. set.replicas \in Int /\ seen[s].replicas \in Int
  BY <1>1, ExistingIsSized DEF SizedSets, SomeSetsAreSized
<1>3. down \in Int /\ down <= set.replicas
  BY <1>1, <1>2 DEF Least
<1>4. acc = [down |-> acc.down, stopped |-> acc.stopped, requests |-> acc.requests]
  BY DEF ScaleDowns
<1>5. CASE acc.stopped \/ down <= 0
  BY <1>5 DEF ScaleDownStep
<1>6. CASE ~(acc.stopped \/ down <= 0) /\ (set.replicas # set.status.replicas)
  <2>1. ScaleDownStep(acc, s, list, total) = [acc EXCEPT !.stopped = TRUE]
    BY <1>6 DEF ScaleDownStep
  <2> QED BY <2>1 DEF ScaleDowns
<1>7. CASE ~(acc.stopped \/ down <= 0) /\ set.replicas = set.status.replicas /\ set.status.shutdown # 0
  BY <1>7 DEF ScaleDownStep
<1>8. CASE ~(acc.stopped \/ down <= 0) /\ set.replicas = set.status.replicas /\ ~(set.status.shutdown # 0)
  <2>1. ScaleDownStep(acc, s, list, total)
          = [acc EXCEPT !.down = @ + down, !.requests = Append(@, r)]
    BY <1>8 DEF ScaleDownStep
  <2>2. replicas \in Int /\ replicas < seen[s].replicas
    BY <1>1, <1>2, <1>3, <1>8
  <2>3. r = [what |-> "rest", set |-> s, replicas |-> replicas]
    BY DEF Update
  <2> HIDE DEF down, replicas, r
  <2>4. r \in Downs(seen)
    <3>1. r \in Asks
      BY <1>1, <2>2, <2>3 DEF Asks, Kinds
    <3> QED BY <1>1, <2>2, <2>3, <3>1 DEF Downs, GoesDown
  <2>5. Append(acc.requests, r) \in Seq(Downs(seen)) /\ acc.down + down \in Int
    BY <1>1, <1>3, <2>4
  <2>6. [acc EXCEPT !.down = @ + down, !.requests = Append(@, r)]
          = [down |-> acc.down + down, stopped |-> acc.stopped, requests |-> Append(acc.requests, r)]
    <3>1. ASSUME NEW d, NEW q
          PROVE  [acc EXCEPT !.down = d, !.requests = q]
                    = [down |-> d, stopped |-> acc.stopped, requests |-> q]
      <4> DEFINE one == [acc EXCEPT !.down = d]
      <4>1. one = [down |-> d, stopped |-> acc.stopped, requests |-> acc.requests]
        BY DEF ScaleDowns
      <4>2. [acc EXCEPT !.down = d, !.requests = q] = [one EXCEPT !.requests = q]
        OBVIOUS
      <4> HIDE DEF one
      <4>3. [one EXCEPT !.requests = q] = [down |-> d, stopped |-> acc.stopped, requests |-> q]
        BY <4>1
      <4> QED BY <4>2, <4>3
    <3> QED BY <3>1
  <2> QED BY <1>1, <2>1, <2>5, <2>6 DEF ScaleDowns
<1> QED BY <1>5, <1>6, <1>7, <1>8

LEMMA ScaleDownIsTyped ==
    ASSUME NEW seen \in [Names -> GameServerSets], NEW list \in Shrunk(seen),
           NEW rest \in Seq(Existing(seen)), NEW total \in Int
    PROVE  scaleDown(list, rest, total) \in ScaleDowns(seen)
<1> DEFINE S == Existing(seen)
           D == DOMAIN rest
           A == ScaleDowns(seen)
           base == [down |-> 0, stopped |-> FALSE, requests |-> <<>>]
           step == [v \in S |-> [acc \in ScaleDowns(seen) |-> ScaleDownStep(acc, v, list, total)]]
           iter == CHOOSE h : h = [t \in SUBSET D |->
                      IF t = {} THEN [down |-> 0, stopped |-> FALSE, requests |-> <<>>]
                      ELSE ScaleDownStep(h[t \ {Max(t)}], rest[Max(t)], list, total)]
<1>1. Len(rest) \in Nat /\ D = 1..Len(rest) /\ \A i \in D : rest[i] \in S
  OBVIOUS
<1>2. \A v \in S, acc \in A : ScaleDownStep(acc, v, list, total) \in A
  BY ScaleDownStepIsTyped
<1>3. step \in [S -> [A -> A]] /\ base \in A
  BY <1>2 DEF ScaleDowns
<1>4. \A v \in S, acc \in A : step[v][acc] = ScaleDownStep(acc, v, list, total)
  OBVIOUS
<1>5. scaleDown(list, rest, total) = iter[D]
  BY DEF scaleDown, FoldLeft, MapThenFoldSet, ScaleDownStep
<1> HIDE DEF step, A, D, S, base
<1>6. PICK h \in [SUBSET D -> A] : RecursOnPrefixes(h, rest, base, step)
  BY <1>3, FoldLeftRecurs DEF D, S
<1>7. \A t \in SUBSET D : t # {} => Max(t) \in t /\ rest[Max(t)] \in S /\ t \ {Max(t)} \in SUBSET D
  BY <1>1, MaxPicks
<1>8. ASSUME NEW t \in SUBSET D
      PROVE  h[t] = IF t = {} THEN base ELSE ScaleDownStep(h[t \ {Max(t)}], rest[Max(t)], list, total)
  BY <1>4, <1>6, <1>7 DEF RecursOnPrefixes, D
<1>9. h = [t \in SUBSET D |->
             IF t = {} THEN base ELSE ScaleDownStep(h[t \ {Max(t)}], rest[Max(t)], list, total)]
  BY <1>8
<1>10. iter = [t \in SUBSET D |->
                 IF t = {} THEN base ELSE ScaleDownStep(iter[t \ {Max(t)}], rest[Max(t)], list, total)]
  BY <1>9 DEF base
<1> HIDE DEF iter
<1>11. iter[{}] \in A
  BY <1>3, <1>10
<1>12. ASSUME NEW t \in SUBSET D, t # {}, iter[t \ {Max(t)}] \in A PROVE iter[t] \in A
  <2>1. iter[t] = ScaleDownStep(iter[t \ {Max(t)}], rest[Max(t)], list, total)
    BY <1>10, <1>12
  <2> QED BY <1>2, <1>7, <1>12, <2>1
<1>13. iter[DOMAIN rest] \in A
  BY <1>11, <1>12, FoldStays DEF D
<1> QED BY <1>5, <1>13 DEF A, D

-----------------------------------------------------------------------------
(* One sync: sizes, and requests that the lister's sets warrant.            *)

LEMMA NamesAreFinite ==
    ASSUME NEW S \in SUBSET Names
    PROVE  IsFiniteSet(S)
<1>1. IsFiniteSet(Names)
  BY FleetAssumption, FS_Interval DEF Names
<1> QED BY <1>1, FS_Subset

LEMMA SumsOfStatuses ==
    ASSUME NEW list \in [Names -> GameServerSets], NEW S \in SUBSET Existing(list)
    PROVE  sumReplicas(list, S) \in Nat /\ sumReady(list, S) \in Nat /\ sumAllocated(list, S) \in Nat
<1>1. IsFiniteSet(S)
  BY NamesAreFinite DEF Existing
<1>2. \A s \in S : list[s].status \in SetStatuses
  BY ExistingIsSized DEF SomeSetsAreSized
<1>3. /\ [s \in S |-> list[s].status.replicas] \in [S -> Nat]
      /\ [s \in S |-> list[s].status.ready] \in [S -> Nat]
      /\ [s \in S |-> list[s].status.allocated] \in [S -> Nat]
  BY <1>2 DEF SetStatuses
<1>4. sumReplicas(list, S) \in Nat
  <2> DEFINE g == [s \in S |-> list[s].status.replicas]
  <2>1. sumReplicas(list, S) = FoldFunctionOnSet(+, 0, g, S)
    BY DEF sumReplicas, SumOver
  <2> HIDE DEF g
  <2>2. g \in [S -> Nat]
    BY <1>3 DEF g
  <2>3. FoldFunctionOnSet(+, 0, g, S) \in Nat
    BY <1>1, <2>2, SumIsNat
  <2> QED BY <2>1, <2>3
<1>5. sumReady(list, S) \in Nat
  <2> DEFINE g == [s \in S |-> list[s].status.ready]
  <2>1. sumReady(list, S) = FoldFunctionOnSet(+, 0, g, S)
    BY DEF sumReady, SumOver
  <2> HIDE DEF g
  <2>2. g \in [S -> Nat]
    BY <1>3 DEF g
  <2>3. FoldFunctionOnSet(+, 0, g, S) \in Nat
    BY <1>1, <2>2, SumIsNat
  <2> QED BY <2>1, <2>3
<1>6. sumAllocated(list, S) \in Nat
  <2> DEFINE g == [s \in S |-> list[s].status.allocated]
  <2>1. sumAllocated(list, S) = FoldFunctionOnSet(+, 0, g, S)
    BY DEF sumAllocated, SumOver
  <2> HIDE DEF g
  <2>2. g \in [S -> Nat]
    BY <1>3 DEF g
  <2>3. FoldFunctionOnSet(+, 0, g, S) \in Nat
    BY <1>1, <2>2, SumIsNat
  <2> QED BY <2>1, <2>3
<1> QED BY <1>4, <1>5, <1>6

LEMMA ActiveIsASet ==
    ASSUME NEW list \in [Names -> GameServerSets], NEW active \in {0} \cup Existing(list),
           NEW f \in Fleets
    PROVE  /\ Active(list, active, f).replicas \in Nat
           /\ Active(list, active, f).status.replicas \in Nat
           /\ Active(list, active, f).status.ready \in Nat
           /\ Active(list, active, f).status.allocated \in Nat
           /\ Active(list, active, f).status.shutdown \in Nat
<1>1. CASE active = 0
  BY <1>1 DEF Active, NewSet, NoStatus
<1>2. CASE active # 0
  <2>1. list[active] \in [template : Templates, replicas : Nat, status : SetStatuses]
    BY <1>2, ExistingIsSized DEF SomeSetsAreSized
  <2> QED BY <1>2, <2>1 DEF Active, SetStatuses
<1> QED BY <1>1, <1>2

LEMMA RollingUpdateActiveIsASize ==
    ASSUME NEW list \in [Names -> GameServerSets], NEW active \in {0} \cup Existing(list),
           NEW rest \in SUBSET Existing(list), NEW f \in Fleets
    PROVE  rollingUpdateActive(list, active, rest, f) \in Int
<1> DEFINE set == Active(list, active, f)
           old == sumReplicas(list, rest)
           wanted == f.replicas - sumAllocated(list, rest)
           up == Least(set.replicas + MaxSurge, f.replicas)
           within == IF up + old > MaxSurge + f.replicas
                     THEN LowerBoundReplicas(up - ((up + old) - (MaxSurge + f.replicas))) ELSE up
           size == IF set.replicas # set.status.replicas THEN set.replicas
                   ELSE IF f.replicas = 0 THEN 0
                   ELSE IF set.replicas >= wanted THEN wanted
                   ELSE IF within > wanted THEN LowerBoundReplicas(wanted) ELSE within
<1>6. rollingUpdateActive(list, active, rest, f) = size
  BY DEF rollingUpdateActive
<1>1. set.replicas \in Nat /\ set.status.replicas \in Nat /\ f.replicas \in Nat /\ MaxSurge \in Nat
  BY ActiveIsASet, FleetAssumption DEF Fleets
<1>2. old \in Nat /\ sumAllocated(list, rest) \in Nat
  BY SumsOfStatuses
<1> HIDE DEF set, old
<1>3. wanted \in Int /\ up \in Int
  BY <1>1, <1>2 DEF Least
<1> HIDE DEF wanted, up
<1>4. within \in Int
  BY <1>1, <1>2, <1>3 DEF LowerBoundReplicas
<1>5. LowerBoundReplicas(wanted) \in Int
  BY <1>3 DEF LowerBoundReplicas
<1> HIDE DEF within
<1>7. size \in Int
  BY <1>1, <1>3, <1>4, <1>5
<1> QED BY <1>6, <1>7

LEMMA ToSetIsASubset ==
    ASSUME NEW S, NEW s \in Seq(S)
    PROVE  ToSet(s) \in SUBSET S
BY DEF ToSet

LEMMA EachIsAsked ==
    ASSUME NEW S, NEW s \in Seq(S), NEW P, NEW what,
           \A x \in S : Update(x, 0, what) \in P
    PROVE  [i \in DOMAIN s |-> Update(s[i], 0, what)] \in Seq(P)
<1>1. Len(s) \in Nat /\ DOMAIN s = 1..Len(s) /\ \A i \in DOMAIN s : s[i] \in S
  OBVIOUS
<1>2. [i \in DOMAIN s |-> Update(s[i], 0, what)] \in [1..Len(s) -> P]
  BY <1>1
<1> QED BY <1>1, <1>2, SeqDef

LEMMA RestIsPlanned ==
    ASSUME NEW list \in [Names -> GameServerSets], NEW active \in {0} \cup Existing(list),
           NEW rest \in Seq(Existing(list)), NEW f \in Fleets
    PROVE  rollingUpdateRest(list, active, rest, f) \in Seq(Downs(list))
<1> DEFINE set == Active(list, active, f)
           unavailable == Least(IF MaxUnavailable = 0 THEN 1 ELSE MaxUnavailable, f.replicas)
           ready == set.status.ready + sumReady(list, ToSet(rest))
           minAvailable == Least(f.status.ready - unavailable, f.replicas)
           newUnavailable == set.replicas - set.status.ready - set.status.allocated - set.status.shutdown
           maxScaledDown == ready - minAvailable - newUnavailable
           cleaned == cleanupUnhealthyReplicas(list, rest, maxScaledDown)
           down == scaleDown(cleaned.list, rest, ready - minAvailable)
<1>1. rollingUpdateRest(list, active, rest, f)
        = IF maxScaledDown <= 0 THEN <<>> ELSE cleaned.requests \o down.requests
  BY DEF rollingUpdateRest
<1>2. sumReady(list, ToSet(rest)) \in Nat
  BY SumsOfStatuses, ToSetIsASubset
<1>3. /\ set.replicas \in Nat /\ set.status.ready \in Nat /\ set.status.allocated \in Nat
      /\ set.status.shutdown \in Nat /\ f.replicas \in Nat /\ f.status.ready \in Nat
      /\ MaxUnavailable \in Nat
  BY ActiveIsASet, FleetAssumption DEF Fleets
<1> HIDE DEF set
<1>4. unavailable \in Int /\ ready \in Int
  BY <1>2, <1>3 DEF Least
<1> HIDE DEF unavailable, ready
<1>5. minAvailable \in Int /\ newUnavailable \in Int
  <2>1. newUnavailable \in Int
    BY <1>3
  <2>2. f.status.ready - unavailable \in Int
    BY <1>3, <1>4
  <2>3. minAvailable \in Int
    BY <1>3, <2>2 DEF Least
  <2> QED BY <2>1, <2>3
<1> HIDE DEF minAvailable, newUnavailable
<1>6. maxScaledDown \in Int /\ ready - minAvailable \in Int
  BY <1>4, <1>5
<1> HIDE DEF maxScaledDown
<1>7. cleaned \in Cleanups(list)
  BY <1>6, CleanupIsTyped
<1>8. cleaned.list \in Shrunk(list) /\ cleaned.requests \in Seq(Downs(list))
  BY <1>7 DEF Cleanups
<1> HIDE DEF cleaned
<1>9. down \in ScaleDowns(list)
  BY <1>6, <1>8, ScaleDownIsTyped
<1> HIDE DEF down
<1>10. down.requests \in Seq(Downs(list))
  BY <1>9 DEF ScaleDowns
<1>11. cleaned.requests \o down.requests \in Seq(Downs(list)) /\ <<>> \in Seq(Downs(list))
  BY <1>8, <1>10
<1> QED BY <1>1, <1>11

LEMMA RecreateIsPlanned ==
    ASSUME NEW list \in [Names -> GameServerSets], NEW rest \in Seq(Existing(list))
    PROVE  recreateDeployment(list, rest) \in Seq(Downs(list))
<1> DEFINE T == {s \in ToSet(rest) : list[s].replicas # 0}
           S == Existing(list) \cap T
           scaled == Among(rest, T)
<1>1. scaled \in Seq(S)
  BY AmongIsTyped
<1>2. ASSUME NEW s \in S PROVE Update(s, 0, "rest") \in Downs(list)
  <2>1. list[s].replicas \in Nat /\ list[s].replicas # 0 /\ s \in Names /\ s \in Existing(list)
    BY ExistingIsSized DEF SomeSetsAreSized, Existing
  <2>2. 0 < list[s].replicas
    BY <2>1
  <2> QED BY <2>1, <2>2 DEF Downs, Asks, Kinds, GoesDown, Update
<1>3. recreateDeployment(list, rest) = [i \in DOMAIN scaled |-> Update(scaled[i], 0, "rest")]
  BY DEF recreateDeployment
<1> HIDE DEF scaled, S
<1> QED BY <1>1, <1>2, <1>3, EachIsAsked

Deletes(S) == {r \in Asks : r.what = "delete" /\ r.set \in S}

LEMMA DeletesArePlanned ==
    ASSUME NEW list \in [Names -> GameServerSets], NEW rest \in Seq(Existing(list))
    PROVE  deleteEmptyGameServerSets(list, rest) \in Seq(Deletes(ToSet(rest)))
<1> DEFINE T == {s \in ToSet(rest) : Empty(list[s])}
           S == Existing(list) \cap T
           empty == Among(rest, T)
<1>1. empty \in Seq(S)
  BY AmongIsTyped
<1>2. ASSUME NEW s \in S PROVE Update(s, 0, "delete") \in Deletes(ToSet(rest))
  BY DEF Deletes, Asks, Kinds, Update, Existing
<1>3. deleteEmptyGameServerSets(list, rest) = [i \in DOMAIN empty |-> Update(empty[i], 0, "delete")]
  BY DEF deleteEmptyGameServerSets
<1> HIDE DEF empty, S
<1> QED BY <1>1, <1>2, <1>3, EachIsAsked

LEMMA UpsertIsPlanned ==
    ASSUME NEW list \in [Names -> GameServerSets], NEW active \in {0} \cup Existing(list), NEW n \in Int
    PROVE  upsertGameServerSet(list, active, n) \in Seq(Plans(list))
<1>1. CASE active = 0
  <2>1. Update(0, n, "create") \in Plans(list) /\ Update(0, n, "defaults") \in Plans(list)
    BY DEF Plans, Asks, Kinds, Update
  <2>2. upsertGameServerSet(list, active, n) = <<Update(0, n, "create"), Update(0, n, "defaults")>>
    BY <1>1 DEF upsertGameServerSet
  <2>3. \A P : \A a \in P, b \in P : <<a, b>> \in Seq(P)
    OBVIOUS
  <2> QED BY <2>1, <2>2, <2>3
<1>2. CASE active # 0
  <2>1. Update(active, n, "active") \in Plans(list)
    BY <1>2 DEF Plans, Asks, Kinds, Update, Existing
  <2>2. upsertGameServerSet(list, active, n) \in {<<Update(active, n, "active")>>, <<>>}
    BY <1>2 DEF upsertGameServerSet
  <2>3. \A P : \A a \in P : <<a>> \in Seq(P) /\ <<>> \in Seq(P)
    OBVIOUS
  <2> QED BY <2>1, <2>2, <2>3
<1> QED BY <1>1, <1>2

LEMMA StrategyIsPlanned ==
    ASSUME NEW list \in [Names -> GameServerSets], NEW active \in {0} \cup Existing(list),
           NEW rest \in Seq(Existing(list)), NEW f \in Fleets
    PROVE  /\ applyDeploymentStrategy(list, active, rest, f).replicas \in Int
           /\ applyDeploymentStrategy(list, active, rest, f).requests \in Seq(Downs(list))
<1> DEFINE others == ToSet(rest)
           wanted == f.replicas - sumAllocated(list, others)
<1>1. others \in SUBSET Existing(list)
  BY ToSetIsASubset
<1>2. sumAllocated(list, others) \in Nat /\ f.replicas \in Nat
  BY <1>1, SumsOfStatuses DEF Fleets
<1>3. LowerBoundReplicas(wanted) \in Int
  BY <1>2 DEF LowerBoundReplicas
<1>4. rollingUpdateActive(list, active, others, f) \in Int
  BY <1>1, RollingUpdateActiveIsASize
<1>5. /\ rollingUpdateRest(list, active, rest, f) \in Seq(Downs(list))
      /\ recreateDeployment(list, rest) \in Seq(Downs(list))
      /\ <<>> \in Seq(Downs(list))
  BY RestIsPlanned, RecreateIsPlanned
<1> QED BY <1>2, <1>3, <1>4, <1>5 DEF applyDeploymentStrategy

-----------------------------------------------------------------------------
(* The types, by induction over the steps.                                  *)

GameServerCounts == [starting : Nat, ready : Nat, allocated : Nat, shutdown : Nat]
Uses == [{"earlySyncs", "changes", "disturbances"} -> Nat]
Workers == [busy : BOOLEAN, template : {0} \cup Templates, seen : [Names -> GameServerSets],
            requests : Seq(Asks)]

IsWorker(w) ==
    /\ w \in Workers /\ w.requests \in Seq(Plans(w.seen))
    /\ w.busy => w.template \in Templates

AreSets(list, n) == list \in [Names -> GameServerSets] /\ Existing(list) \subseteq 1..n

AreGameServers(counts, list) ==
    /\ counts \in [Names -> GameServerCounts]
    /\ \A s \in Names : list[s] = NoSet => counts[s] = NoGameServers

TypeInv ==
    /\ fleet \in Fleets /\ fleetListed \in Fleets
    /\ AreSets(sets, created) /\ AreSets(listed, created)
    /\ AreGameServers(gameServers, sets)
    /\ queued \in BOOLEAN
    /\ IsWorker(worker)
    /\ created \in 0..MaxSets
    /\ used \in Uses

LEMMA InvImpliesTypeOK == TypeInv => TypeOK
<1> SUFFICES ASSUME TypeInv PROVE TypeOK
  OBVIOUS
<1>1. /\ fleet \in Fleets /\ fleetListed \in Fleets
      /\ \A s \in Names : sets[s] \in GameServerSets /\ listed[s] \in GameServerSets
      /\ Existing(sets) \cup Existing(listed) \subseteq 1..created
      /\ queued \in BOOLEAN /\ created \in 0..MaxSets
      /\ used \in [{"earlySyncs", "changes", "disturbances"} -> Nat]
  BY DEF TypeInv, AreSets, Uses
<1>2. \A s \in Names :
          /\ gameServers[s] \in [starting : Nat, ready : Nat, allocated : Nat, shutdown : Nat]
          /\ sets[s] = NoSet => gameServers[s] = NoGameServers
  BY DEF TypeInv, AreGameServers, GameServerCounts
<1>3. /\ worker.busy \in BOOLEAN
      /\ worker.requests \in Seq([what : {"cleanup", "rest", "active", "delete", "create", "defaults"},
                                  set : {0} \cup Names, replicas : Int])
  BY DEF TypeInv, IsWorker, Workers, Asks, Kinds
<1> QED BY <1>1, <1>2, <1>3 DEF TypeOK

LEMMA NoWorkIsAWorker == IsWorker(NoWork)
<1>1. [s \in Names |-> NoSet] \in [Names -> GameServerSets]
  BY DEF GameServerSets
<1>2. <<>> \in Seq(Asks) /\ <<>> \in Seq(Plans(NoWork.seen))
  OBVIOUS
<1> QED BY <1>1, <1>2 DEF IsWorker, Workers, NoWork

LEMMA UseIsTyped ==
    ASSUME used \in Uses, NEW what \in {"earlySyncs", "changes", "disturbances"}, NEW bound,
           Use(what, bound)
    PROVE  used' \in Uses
BY DEF Use, Uses

LEMMA StrategyOfASync ==
    ASSUME NEW list \in [Names -> GameServerSets], NEW f \in Fleets,
           NEW active \in MayBeActive(list, f), NEW rest \in SetToSeqs(Existing(list) \ {active})
    PROVE  LET plan == applyDeploymentStrategy(list, active, rest, f)
           IN  plan.requests \o deleteEmptyGameServerSets(list, rest)
                  \o upsertGameServerSet(list, active, plan.replicas) \in Seq(Plans(list))
<1>1. active \in {0} \cup Existing(list)
  BY DEF MayBeActive
<1>2. rest \in Seq(Existing(list))
  <2> DEFINE S == Existing(list) \ {active}
  <2>1. IsFiniteSet(S)
    BY NamesAreFinite DEF Existing
  <2>2. Cardinality(S) \in Nat
    BY <2>1, FS_CardinalityType
  <2>3. rest \in [1..Cardinality(S) -> S]
    BY DEF SetToSeqs
  <2>4. rest \in [1..Cardinality(S) -> Existing(list)]
    BY <2>3
  <2> HIDE DEF S
  <2> QED BY <2>2, <2>4, SeqDef
<1> DEFINE plan == applyDeploymentStrategy(list, active, rest, f)
<1>3. plan.requests \in Seq(Downs(list)) /\ plan.replicas \in Int
  BY <1>1, <1>2, StrategyIsPlanned
<1> HIDE DEF plan
<1>4. /\ plan.requests \in Seq(Plans(list))
      /\ deleteEmptyGameServerSets(list, rest) \in Seq(Plans(list))
      /\ upsertGameServerSet(list, active, plan.replicas) \in Seq(Plans(list))
  <2>1. Downs(list) \subseteq Plans(list)
    BY DEF Downs, Plans
  <2>2. Deletes(ToSet(rest)) \subseteq Plans(list)
    BY <1>2, ToSetIsASubset DEF Deletes, Plans, Existing
  <2>3. deleteEmptyGameServerSets(list, rest) \in Seq(Deletes(ToSet(rest)))
    BY <1>2, DeletesArePlanned
  <2>4. upsertGameServerSet(list, active, plan.replicas) \in Seq(Plans(list))
    BY <1>1, <1>3, UpsertIsPlanned
  <2> QED BY <1>3, <2>1, <2>2, <2>3, <2>4
<1>5. plan.requests \o deleteEmptyGameServerSets(list, rest)
         \o upsertGameServerSet(list, active, plan.replicas) \in Seq(Plans(list))
  BY <1>4
<1> QED BY <1>5 DEF plan

LEMMA PlansAreAsks == ASSUME NEW seen, NEW q \in Seq(Plans(seen)) PROVE q \in Seq(Asks)
BY DEF Plans

LEMMA SyncKeepsTypes == TypeInv /\ syncFleet => TypeInv'
<1> SUFFICES ASSUME TypeInv, syncFleet PROVE TypeInv'
  OBVIOUS
<1>1. listed \in [Names -> GameServerSets] /\ fleetListed \in Fleets
  BY DEF TypeInv, AreSets
<1>2. PICK active \in MayBeActive(listed, fleetListed) :
      \E rest \in SetToSeqs(Existing(listed) \ {active}) :
         LET plan == applyDeploymentStrategy(listed, active, rest, fleetListed)
         IN  worker' = [busy |-> TRUE, template |-> fleetListed.template, seen |-> listed,
                        requests |-> plan.requests \o deleteEmptyGameServerSets(listed, rest)
                                       \o upsertGameServerSet(listed, active, plan.replicas)]
  BY DEF syncFleet
<1>3. \E q \in Seq(Plans(listed)) :
         worker' = [busy |-> TRUE, template |-> fleetListed.template, seen |-> listed, requests |-> q]
  BY <1>1, <1>2, StrategyOfASync
<1>4. PICK q \in Seq(Plans(listed)) :
         worker' = [busy |-> TRUE, template |-> fleetListed.template, seen |-> listed, requests |-> q]
  BY <1>3
<1>5. IsWorker(worker)'
  <2>1. fleetListed.template \in Templates /\ q \in Seq(Asks)
    BY <1>1, PlansAreAsks DEF Fleets
  <2> QED BY <1>1, <1>4, <2>1 DEF IsWorker, Workers
<1>6. used' \in Uses
  BY UseIsTyped DEF TypeInv, syncFleet
<1>7. /\ queued' = FALSE
      /\ UNCHANGED <<fleet, fleetListed, sets, listed, gameServers, created>>
  BY DEF syncFleet
<1> QED BY <1>5, <1>6, <1>7 DEF TypeInv, AreSets, AreGameServers, Existing

\* What the request that is next may be.
LEMMA NextRequest ==
    ASSUME IsWorker(worker), worker.requests # <<>>
    PROVE  /\ request \in Plans(worker.seen) /\ request \in Asks
           /\ Tail(worker.requests) \in Seq(Plans(worker.seen))
BY DEF IsWorker, request, Plans

LEMMA WorkerWithRequests ==
    ASSUME IsWorker(worker), NEW q \in Seq(Plans(worker.seen)), worker' = [worker EXCEPT !.requests = q]
    PROVE  IsWorker(worker)'
<1>1. worker' = [busy |-> worker.busy, template |-> worker.template, seen |-> worker.seen, requests |-> q]
  BY DEF IsWorker, Workers
<1>2. q \in Seq(Asks)
  BY PlansAreAsks
<1> QED BY <1>1, <1>2 DEF IsWorker, Workers

LEMMA ProceedKeepsTypes ==
    ASSUME TypeInv, worker.requests # <<>>, Proceed
    PROVE  IsWorker(worker)' /\ queued' \in BOOLEAN
<1>1. IsWorker(worker) /\ queued \in BOOLEAN
  BY DEF TypeInv
<1>2. worker' = [worker EXCEPT !.requests = Tail(worker.requests)] /\ queued' = queued
  BY DEF Proceed
<1> QED BY <1>1, <1>2, NextRequest, WorkerWithRequests

LEMMA RetryKeepsTypes == Retry => IsWorker(worker)' /\ queued' \in BOOLEAN
BY NoWorkIsAWorker DEF Retry, NoWork, IsWorker, Workers, Plans, GoesDown, Existing

LEMMA CleanupFailsKeepsTypes ==
    ASSUME TypeInv, CleanupFails
    PROVE  IsWorker(worker)' /\ queued' \in BOOLEAN
<1> DEFINE T == {r \in ToSet(worker.requests) : r.what \notin {"cleanup", "rest"}}
<1>1. IsWorker(worker) /\ queued \in BOOLEAN
  BY DEF TypeInv
<1>2. worker' = [worker EXCEPT !.requests = Among(worker.requests, T)] /\ queued' = queued
  BY DEF CleanupFails
<1>3. Among(worker.requests, T) \in Seq(Plans(worker.seen) \cap T)
  BY <1>1, AmongIsTyped DEF IsWorker
<1> HIDE DEF T
<1>4. Among(worker.requests, T) \in Seq(Plans(worker.seen))
  BY <1>3
<1> QED BY <1>1, <1>2, <1>4, WorkerWithRequests

LEMMA RequestFailsKeepsTypes ==
    ASSUME TypeInv, RequestFails
    PROVE  IsWorker(worker)' /\ queued' \in BOOLEAN
BY CleanupFailsKeepsTypes, RetryKeepsTypes DEF RequestFails

LEMMA AnsweredKeepsTypes ==
    ASSUME TypeInv, worker.requests # <<>>, Answered
    PROVE  IsWorker(worker)' /\ queued' \in BOOLEAN /\ used' \in Uses
<1>1. used \in Uses
  BY DEF TypeInv
<1>2. CASE Proceed /\ UNCHANGED used
  BY <1>1, <1>2, ProceedKeepsTypes
<1>3. CASE Use("disturbances", MaxDisturbances) /\ RequestFails
  BY <1>1, <1>3, RequestFailsKeepsTypes, UseIsTyped
<1> QED BY <1>2, <1>3 DEF Answered

SetRecords == [template : Templates, replicas : Nat, status : SetStatuses]

LEMMA SetsWith ==
    ASSUME NEW list \in [Names -> GameServerSets], NEW s \in Names, NEW n, Existing(list) \subseteq 1..n,
           s \in 1..n, NEW x \in SetRecords, NEW result, result = [list EXCEPT ![s] = x]
    PROVE  AreSets(result, n)
<1>1. x \in GameServerSets
  BY DEF SetRecords, GameServerSets
<1>2. result \in [Names -> GameServerSets]
  BY <1>1
<1>3. Existing(result) \subseteq Existing(list) \cup {s}
  BY DEF Existing
<1> QED BY <1>2, <1>3 DEF AreSets

\* An update changes a set that is there, and the set of an old template only to less.
LEMMA UpdatesWhatWasSeen ==
    ASSUME TypeInv, UpdateReplicas
    PROVE  /\ request.set \in Existing(sets) /\ sets[request.set] \in SetRecords
           /\ request.replicas \in Nat
           /\ request.what # "active" => request.replicas < sets[request.set].replicas
<1>1. /\ worker.requests # <<>> /\ request.what \in {"cleanup", "rest", "active"}
      /\ sets[request.set] = worker.seen[request.set] /\ request.replicas >= 0
  BY DEF UpdateReplicas, Requested, UpdateTests
<1>2. request \in Plans(worker.seen) /\ request \in Asks
  BY <1>1, NextRequest DEF TypeInv
<1>3. request.set \in Existing(worker.seen)
  BY <1>1, <1>2 DEF Plans, GoesDown
<1>4. sets \in [Names -> GameServerSets]
  BY DEF TypeInv, AreSets
<1>5. request.set \in Existing(sets)
  BY <1>1, <1>3 DEF Existing
<1>6. sets[request.set] \in SetRecords
  BY <1>4, <1>5, ExistingIsSized DEF SomeSetsAreSized, SetRecords
<1>7. request.replicas \in Nat
  BY <1>1, <1>2 DEF Asks
<1>8. request.what # "active" => request.replicas < sets[request.set].replicas
  BY <1>1, <1>2 DEF Plans, GoesDown
<1> QED BY <1>5, <1>6, <1>7, <1>8

LEMMA UpdateReplicasKeepsTypes == TypeInv /\ UpdateReplicas => TypeInv'
<1> SUFFICES ASSUME TypeInv, UpdateReplicas PROVE TypeInv'
  OBVIOUS
<1> DEFINE s == request.set
           x == [sets[s] EXCEPT !.replicas = request.replicas]
<1>1. /\ worker.requests # <<>> /\ Answered
      /\ UNCHANGED <<fleet, fleetListed, listed, gameServers, created>>
      /\ sets' = [sets EXCEPT ![s] = x]
  BY DEF UpdateReplicas, Requested
<1>2. s \in Existing(sets) /\ s \in Names /\ x \in SetRecords
  BY UpdatesWhatWasSeen DEF Existing, SetRecords
<1> HIDE DEF s, x
<1>3. sets \in [Names -> GameServerSets] /\ Existing(sets) \subseteq 1..created
  BY DEF TypeInv, AreSets
<1>4. AreSets(sets', created)
  BY <1>1, <1>2, <1>3, SetsWith
<1>5. AreGameServers(gameServers, sets')
  <2>1. x # NoSet
    BY <1>2, NoSetIsNoGameServerSet DEF SetRecords
  <2> QED BY <1>1, <1>2, <1>3, <2>1 DEF AreGameServers, TypeInv
<1>6. IsWorker(worker)' /\ queued' \in BOOLEAN /\ used' \in Uses
  BY <1>1, AnsweredKeepsTypes
<1> QED BY <1>1, <1>4, <1>5, <1>6 DEF TypeInv, AreSets, AreGameServers, Existing

LEMMA DeleteSetKeepsTypes == TypeInv /\ DeleteSet => TypeInv'
<1> SUFFICES ASSUME TypeInv, DeleteSet PROVE TypeInv'
  OBVIOUS
<1> DEFINE s == request.set
<1>1. /\ worker.requests # <<>> /\ request.what = "delete" /\ Answered
      /\ UNCHANGED <<fleet, fleetListed, listed, created>>
      /\ sets' = [sets EXCEPT ![s] = NoSet]
      /\ gameServers' = [gameServers EXCEPT ![s] = NoGameServers]
  BY DEF DeleteSet, Requested
<1>2. s \in Names
  BY <1>1, NextRequest DEF TypeInv, Plans
<1> HIDE DEF s
<1>3. sets \in [Names -> GameServerSets] /\ Existing(sets) \subseteq 1..created
  BY DEF TypeInv, AreSets
<1>4. AreSets(sets', created)
  BY <1>1, <1>3 DEF AreSets, GameServerSets, Existing
<1>5. AreGameServers(gameServers', sets')
  <2>1. NoGameServers \in GameServerCounts
    BY DEF NoGameServers, GameServerCounts
  <2> QED BY <1>1, <1>3, <2>1 DEF AreGameServers, TypeInv
<1>6. IsWorker(worker)' /\ queued' \in BOOLEAN /\ used' \in Uses
  BY <1>1, AnsweredKeepsTypes
<1> QED BY <1>1, <1>4, <1>5, <1>6 DEF TypeInv, AreSets, AreGameServers, Existing

LEMMA CreateSetKeepsTypes == TypeInv /\ CreateSet => TypeInv'
<1> SUFFICES ASSUME TypeInv, CreateSet PROVE TypeInv'
  OBVIOUS
<1> DEFINE s == created + 1
           x == NewSet(worker.template, request.replicas)
<1>1. /\ worker.busy /\ worker.requests # <<>> /\ Answered
      /\ request.replicas >= 0 /\ created < MaxSets
      /\ UNCHANGED <<fleet, fleetListed, listed, gameServers>>
      /\ sets' = [sets EXCEPT ![s] = x] /\ created' = created + 1
  BY DEF CreateSet, Requested
<1>2. created \in Nat /\ s \in Names /\ s \in 1..s /\ created' \in 0..MaxSets
  BY <1>1, FleetAssumption DEF TypeInv, Names
<1>3. x \in SetRecords
  <2>1. request.replicas \in Nat
    BY <1>1, NextRequest DEF TypeInv, Asks
  <2>2. worker.template \in Templates
    BY <1>1 DEF TypeInv, IsWorker
  <2> QED BY <2>1, <2>2 DEF SetRecords, NewSet, NoStatus, SetStatuses
<1> HIDE DEF x
<1>4. /\ sets \in [Names -> GameServerSets] /\ listed \in [Names -> GameServerSets]
      /\ Existing(sets) \subseteq 1..s /\ Existing(listed) \subseteq 1..s
  BY <1>2 DEF TypeInv, AreSets
<1>5. AreSets(sets', created') /\ AreSets(listed', created')
  <2>1. AreSets(sets', s)
    BY <1>1, <1>2, <1>3, <1>4, SetsWith
  <2> QED BY <1>1, <1>4, <2>1 DEF AreSets, Existing
<1>6. AreGameServers(gameServers, sets')
  <2>1. x # NoSet
    BY <1>3, NoSetIsNoGameServerSet DEF SetRecords
  <2> QED BY <1>1, <1>4, <2>1 DEF AreGameServers, TypeInv
<1>7. IsWorker(worker)' /\ queued' \in BOOLEAN /\ used' \in Uses
  BY <1>1, AnsweredKeepsTypes
<1> QED BY <1>1, <1>2, <1>5, <1>6, <1>7 DEF TypeInv, AreGameServers

Others == <<fleet, fleetListed, sets, listed, gameServers, created>>

LEMMA OthersUnchanged ==
    ASSUME TypeInv, UNCHANGED Others, IsWorker(worker)', queued' \in BOOLEAN, used' \in Uses
    PROVE  TypeInv'
BY DEF TypeInv, Others, AreSets, AreGameServers, Existing

LEMMA StatusDefaultsKeepsTypes == TypeInv /\ StatusDefaults => TypeInv'
<1> SUFFICES ASSUME TypeInv, StatusDefaults PROVE TypeInv'
  OBVIOUS
<1>1. worker.requests # <<>> /\ Answered /\ UNCHANGED Others
  BY DEF StatusDefaults, Requested, Others
<1> QED BY <1>1, AnsweredKeepsTypes, OthersUnchanged

LEMMA RefusedKeepsTypes == TypeInv /\ RequestIsRefused => TypeInv'
<1> SUFFICES ASSUME TypeInv, RequestIsRefused PROVE TypeInv'
  OBVIOUS
<1>1. RequestFails /\ UNCHANGED Others
  BY DEF RequestIsRefused, Others
<1>2. used' \in Uses
  BY UseIsTyped DEF RequestIsRefused, TypeInv
<1> QED BY <1>1, <1>2, RequestFailsKeepsTypes, OthersUnchanged

LEMMA UpdateStatusKeepsTypes == TypeInv /\ updateFleetStatus => TypeInv'
<1> SUFFICES ASSUME TypeInv, updateFleetStatus PROVE TypeInv'
  OBVIOUS
<1> DEFINE S == Existing(listed)
           status == [replicas |-> sumReplicas(listed, S), ready |-> sumReady(listed, S),
                      allocated |-> sumAllocated(listed, S)]
<1>1. UNCHANGED <<fleetListed, sets, listed, gameServers, created>>
  BY DEF updateFleetStatus
<1>2. \/ /\ fleet' = [fleet EXCEPT !.status = status]
         /\ worker' = NoWork /\ UNCHANGED <<queued, used>>
      \/ Use("disturbances", MaxDisturbances) /\ Retry /\ UNCHANGED fleet
  BY DEF updateFleetStatus
<1>3. status \in [replicas : Nat, ready : Nat, allocated : Nat]
  BY SumsOfStatuses DEF TypeInv, AreSets
<1> HIDE DEF status
<1>4. CASE fleet' = [fleet EXCEPT !.status = status] /\ worker' = NoWork /\ UNCHANGED <<queued, used>>
  <2>1. fleet' \in Fleets
    BY <1>3, <1>4 DEF TypeInv, Fleets
  <2>2. IsWorker(worker)'
    BY <1>4, NoWorkIsAWorker DEF NoWork, IsWorker, Workers, Plans, GoesDown, Existing
  <2> QED BY <1>1, <1>4, <2>1, <2>2 DEF TypeInv, AreSets, AreGameServers, Existing
<1>5. CASE Use("disturbances", MaxDisturbances) /\ Retry /\ UNCHANGED fleet
  <2>1. used' \in Uses
    BY <1>5, UseIsTyped DEF TypeInv
  <2> QED BY <1>1, <1>5, <2>1, RetryKeepsTypes, OthersUnchanged DEF Others
<1> QED BY <1>2, <1>4, <1>5

LEMMA ObservedKeepsTypes == TypeInv /\ (FleetObserved \/ SetsObserved \/ Resync) => TypeInv'
<1>1. TypeInv /\ FleetObserved => TypeInv'
  BY DEF FleetObserved, TypeInv, AreSets, AreGameServers, IsWorker, Workers, Existing, Plans, GoesDown
<1>2. TypeInv /\ SetsObserved => TypeInv'
  BY DEF SetsObserved, TypeInv, AreSets, AreGameServers, IsWorker, Workers, Existing, Plans, GoesDown
<1>3. TypeInv /\ Resync => TypeInv'
  BY DEF Resync, TypeInv, AreSets, AreGameServers, IsWorker, Workers, Existing, Plans, GoesDown
<1> QED BY <1>1, <1>2, <1>3

LEMMA RestartKeepsTypes == TypeInv /\ Restart => TypeInv'
<1> SUFFICES ASSUME TypeInv, Restart PROVE TypeInv'
  OBVIOUS
<1>1. /\ fleetListed' = fleet /\ listed' = sets /\ queued' = TRUE
      /\ UNCHANGED <<fleet, sets, gameServers, created>>
      /\ worker' = NoWork
  BY DEF Restart
<1>2. used' \in Uses
  BY UseIsTyped DEF Restart, TypeInv
<1>3. IsWorker(worker)'
  BY <1>1, NoWorkIsAWorker DEF NoWork, IsWorker, Workers, Plans, GoesDown, Existing
<1> QED BY <1>1, <1>2, <1>3 DEF TypeInv, AreSets, AreGameServers, Existing

\* Numbers of GameServers that move from one state to another.
LEMMA CountsKeepTypes ==
    ASSUME TypeInv, NEW s \in Existing(sets),
           NEW from \in {"none", "starting", "ready", "shutdown"},
           NEW to \in {"none", "starting", "ready", "allocated", "shutdown"},
           NEW n \in Nat, from # "none" => n <= gameServers[s][from],
           Counts(s, from, to, n), used' \in Uses
    PROVE  TypeInv'
<1> DEFINE c == gameServers[s]
           moved(x) == c[x] + (IF x = to THEN n ELSE 0) - (IF x = from THEN n ELSE 0)
           d == [x \in DOMAIN c |-> moved(x)]
<1>1. s \in Names /\ gameServers \in [Names -> GameServerCounts] /\ c \in GameServerCounts
  BY DEF TypeInv, AreGameServers, Existing
<1>2. /\ gameServers' = [gameServers EXCEPT ![s] = d]
      /\ UNCHANGED <<fleet, fleetListed, sets, listed, queued, worker, created>>
  BY DEF Counts
<1>3. DOMAIN c = {"starting", "ready", "allocated", "shutdown"}
  BY <1>1 DEF GameServerCounts
<1>4. \A x \in DOMAIN c : c[x] \in Nat /\ (x = from => n <= c[x])
  BY <1>1, <1>3 DEF GameServerCounts
<1>5. \A x \in DOMAIN c : moved(x) \in Nat
  BY <1>4
<1>6. d = [starting |-> moved("starting"), ready |-> moved("ready"),
           allocated |-> moved("allocated"), shutdown |-> moved("shutdown")]
  BY <1>3
<1>7. d \in GameServerCounts
  <2> HIDE DEF moved, c
  <2>1. /\ moved("starting") \in Nat /\ moved("ready") \in Nat
        /\ moved("allocated") \in Nat /\ moved("shutdown") \in Nat
    BY <1>3, <1>5
  <2> HIDE DEF d
  <2> QED BY <1>6, <2>1 DEF GameServerCounts
<1> HIDE DEF d, moved, c
<1>8. AreGameServers(gameServers', sets)
  BY <1>1, <1>2, <1>7 DEF TypeInv, AreGameServers, Existing
<1> QED BY <1>2, <1>8 DEF TypeInv, AreSets, AreGameServers, IsWorker, Workers, Existing, Plans, GoesDown

LEMMA StatusOfIsTyped ==
    ASSUME TypeInv, NEW s \in Names
    PROVE  Up(s) \in Nat /\ StatusOf(s) \in SetStatuses
<1>1. gameServers[s] \in GameServerCounts
  BY DEF TypeInv, AreGameServers
<1> QED BY <1>1 DEF GameServerCounts, Up, StatusOf, SetStatuses

LEMMA ReportsKeepsTypes ==
    ASSUME TypeInv, NEW s \in Existing(sets), Reports(s)
    PROVE  TypeInv'
<1> DEFINE x == [sets[s] EXCEPT !.status = StatusOf(s)]
<1>1. /\ sets' = [sets EXCEPT ![s] = x]
      /\ UNCHANGED <<fleet, fleetListed, listed, gameServers, queued, worker, used, created>>
  BY DEF Reports
<1>2. sets \in [Names -> GameServerSets] /\ Existing(sets) \subseteq 1..created /\ s \in Names
  BY DEF TypeInv, AreSets, Existing
<1>3. StatusOf(s) \in SetStatuses /\ sets[s] \in SetRecords
  BY <1>2, StatusOfIsTyped, ExistingIsSized DEF SomeSetsAreSized, SetRecords
<1>4. x \in SetRecords
  BY <1>3 DEF SetRecords
<1> HIDE DEF x
<1>5. AreSets(sets', created)
  BY <1>1, <1>2, <1>4, SetsWith
<1>6. AreGameServers(gameServers, sets')
  <2>1. x # NoSet
    BY <1>4, NoSetIsNoGameServerSet DEF SetRecords
  <2> QED BY <1>1, <1>2, <2>1 DEF AreGameServers, TypeInv
<1> QED BY <1>1, <1>5, <1>6
    DEF TypeInv, AreSets, AreGameServers, IsWorker, Workers, Existing, Plans, GoesDown

LEMMA GameServersKeepTypes ==
    ASSUME TypeInv, NEW s \in Existing(sets), Progresses(s) \/ Allocated(s)
    PROVE  TypeInv'
<1>1. /\ s \in Names /\ gameServers[s] \in GameServerCounts /\ Up(s) \in Nat /\ used \in Uses
      /\ sets[s].replicas \in Nat
  BY StatusOfIsTyped, ExistingIsSized
     DEF TypeInv, AreSets, AreGameServers, Existing, SomeSetsAreSized
<1>2. CASE Grows(s)
  <2>1. Counts(s, "none", "starting", sets[s].replicas - Up(s)) /\ used' \in Uses
    BY <1>1, <1>2 DEF Grows
  <2>2. sets[s].replicas - Up(s) \in Nat
    BY <1>1, <1>2 DEF Grows
  <2> QED BY <2>1, <2>2, CountsKeepTypes
<1>3. CASE Shrinks(s)
  <2>1. PICK from \in {"starting", "ready"} : gameServers[s][from] > 0 /\ Counts(s, from, "shutdown", 1)
    BY <1>3 DEF Shrinks
  <2>2. 1 <= gameServers[s][from] /\ used' \in Uses
    BY <1>1, <1>3, <2>1 DEF Shrinks, GameServerCounts
  <2> QED BY <2>1, <2>2, CountsKeepTypes
<1>4. CASE Starts(s)
  <2>1. Counts(s, "starting", "ready", 1) /\ 1 <= gameServers[s]["starting"] /\ used' \in Uses
    BY <1>1, <1>4 DEF Starts, GameServerCounts
  <2> QED BY <2>1, CountsKeepTypes
<1>5. CASE IsRemoved(s)
  <2>1. /\ Counts(s, "shutdown", "none", gameServers[s].shutdown) /\ used' \in Uses
        /\ gameServers[s].shutdown \in Nat
        /\ gameServers[s].shutdown <= gameServers[s]["shutdown"]
    BY <1>1, <1>5 DEF IsRemoved, GameServerCounts
  <2> QED BY <2>1, CountsKeepTypes
<1>6. CASE Allocated(s)
  <2>1. Counts(s, "ready", "allocated", 1) /\ 1 <= gameServers[s]["ready"]
    BY <1>1, <1>6 DEF Allocated, GameServerCounts
  <2>2. used' \in Uses
    BY <1>1, <1>6, UseIsTyped DEF Allocated
  <2> QED BY <2>1, <2>2, CountsKeepTypes
<1> QED BY <1>2, <1>3, <1>4, <1>5, <1>6, ReportsKeepsTypes DEF Progresses

LEMMA ChangeKeepsTypes ==
    ASSUME TypeInv, NEW replicas \in Replicas, NEW template \in Templates,
           ChangeFleet(replicas, template)
    PROVE  TypeInv'
<1>1. /\ fleet' = [fleet EXCEPT !.replicas = replicas, !.template = template]
      /\ UNCHANGED <<fleetListed, sets, listed, gameServers, queued, worker, created>>
  BY DEF ChangeFleet
<1>2. used' \in Uses
  BY UseIsTyped DEF ChangeFleet, TypeInv
<1>3. fleet' \in Fleets
  <2> DEFINE sized == [fleet EXCEPT !.replicas = replicas]
  <2>1. sized \in Fleets
    BY FleetAssumption DEF TypeInv, Fleets
  <2>2. fleet' = [sized EXCEPT !.template = template]
    BY <1>1
  <2> HIDE DEF sized
  <2> QED BY <2>1, <2>2 DEF Fleets
<1> QED BY <1>1, <1>2, <1>3
    DEF TypeInv, AreSets, AreGameServers, IsWorker, Workers, Existing, Plans, GoesDown

LEMMA InitIsTyped == Init => TypeInv
<1> SUFFICES ASSUME Init PROVE TypeInv
  OBVIOUS
<1> DEFINE n == IF New THEN 0 ELSE InitialReplicas
           status == [NoStatus EXCEPT !.replicas = n, !.ready = n]
           x == [NewSet(1, n) EXCEPT !.status = status]
           c == [NoGameServers EXCEPT !.ready = n]
<1>1. n \in Nat /\ InitialReplicas \in Nat /\ 1 \in Templates /\ MaxSets \in Nat \ {0} /\ New \in BOOLEAN
  BY FleetAssumption
<1>2. /\ fleet = [replicas |-> InitialReplicas, template |-> 1,
                  status |-> [replicas |-> n, ready |-> n, allocated |-> 0]]
      /\ fleetListed = fleet
      /\ sets = [s \in Names |-> IF s > 1 \/ New THEN NoSet ELSE x]
      /\ listed = sets
      /\ gameServers = [s \in Names |-> IF s > 1 THEN NoGameServers ELSE c]
      /\ queued = TRUE /\ worker = NoWork
      /\ used = [earlySyncs |-> 0, changes |-> 0, disturbances |-> 0]
      /\ created = IF New THEN 0 ELSE 1
  BY DEF Init
<1> HIDE DEF n
<1>3. status = [replicas |-> n, ready |-> n, allocated |-> 0, shutdown |-> 0]
  <2> DEFINE one == [NoStatus EXCEPT !.replicas = n]
  <2>1. one = [replicas |-> n, ready |-> 0, allocated |-> 0, shutdown |-> 0]
    BY DEF NoStatus
  <2>2. status = [one EXCEPT !.ready = n]
    OBVIOUS
  <2> HIDE DEF one
  <2> QED BY <2>1, <2>2
<1> HIDE DEF status
<1>4. x = [template |-> 1, replicas |-> n, status |-> status]
  BY DEF NewSet
<1>5. x \in SetRecords /\ NoSet \in GameServerSets
  BY <1>1, <1>3, <1>4 DEF SetRecords, SetStatuses, GameServerSets
<1>6. x \in GameServerSets
  BY <1>5 DEF SetRecords, GameServerSets
<1>7. c = [starting |-> 0, ready |-> n, allocated |-> 0, shutdown |-> 0]
  BY DEF NoGameServers
<1> HIDE DEF x, c
<1>8. c \in GameServerCounts /\ NoGameServers \in GameServerCounts /\ (New => c = NoGameServers)
  BY <1>1, <1>7 DEF GameServerCounts, NoGameServers, n
<1>9. Names \subseteq Nat \ {0} /\ created \in 0..MaxSets
  BY <1>1, <1>2 DEF Names
<1>10. AreSets(sets, created)
  <2>1. sets \in [Names -> GameServerSets]
    BY <1>2, <1>5, <1>6
  <2>2. Existing(sets) \subseteq 1..created
    <3> SUFFICES ASSUME NEW s \in Existing(sets) PROVE s \in 1..created
      OBVIOUS
    <3>1. s \in Names /\ ~(s > 1 \/ New)
      BY <1>2 DEF Existing
    <3> QED BY <1>2, <1>9, <3>1
  <2> QED BY <2>1, <2>2 DEF AreSets
<1>11. AreGameServers(gameServers, sets)
  <2>1. gameServers \in [Names -> GameServerCounts]
    BY <1>2, <1>8
  <2>2. ASSUME NEW s \in Names, sets[s] = NoSet PROVE gameServers[s] = NoGameServers
    <3>1. x # NoSet
      BY <1>5, NoSetIsNoGameServerSet DEF SetRecords
    <3>2. s > 1 \/ New
      BY <1>2, <2>2, <3>1
    <3> QED BY <1>2, <1>8, <3>2
  <2> QED BY <2>1, <2>2 DEF AreGameServers
<1>12. fleet \in Fleets
  BY <1>1, <1>2 DEF Fleets
<1>13. used \in Uses
  BY <1>2 DEF Uses
<1>14. IsWorker(worker)
  BY <1>2, NoWorkIsAWorker
<1> QED BY <1>2, <1>9, <1>10, <1>11, <1>12, <1>13, <1>14 DEF TypeInv

LEMMA NextKeepsTypes == TypeInv /\ [Next]_vars => TypeInv'
<1> SUFFICES ASSUME TypeInv, [Next]_vars PROVE TypeInv'
  OBVIOUS
<1>1. CASE syncFleet
  BY <1>1, SyncKeepsTypes
<1>2. CASE Work
  BY <1>2, UpdateReplicasKeepsTypes, DeleteSetKeepsTypes, CreateSetKeepsTypes,
     StatusDefaultsKeepsTypes, RefusedKeepsTypes, UpdateStatusKeepsTypes DEF Work
<1>3. CASE FleetObserved \/ SetsObserved \/ Resync
  BY <1>3, ObservedKeepsTypes
<1>4. CASE Restart
  BY <1>4, RestartKeepsTypes
<1>5. CASE \E s \in Existing(sets) : Progresses(s) \/ Allocated(s)
  BY <1>5, GameServersKeepTypes
<1>6. CASE \E replicas \in Replicas, template \in Templates : ChangeFleet(replicas, template)
  BY <1>6, ChangeKeepsTypes
<1>7. CASE UNCHANGED vars
  BY <1>7 DEF vars, TypeInv, AreSets, AreGameServers, IsWorker, Workers, Existing, Plans, GoesDown
<1> QED BY <1>1, <1>2, <1>3, <1>4, <1>5, <1>6, <1>7 DEF Next

LEMMA TypesAreInvariant == Spec => []TypeInv
BY InitIsTyped, NextKeepsTypes, PTL DEF Spec

\* The Fleet and its sets, the requests under way and the GameServers stay in their ranges:
\* no size that is written is below zero, and the lister shows no set that was not created.
THEOREM TypeCorrect == Spec => []TypeOK
BY TypesAreInvariant, InvImpliesTypeOK, PTL

\* A set of an old template is only ever scaled down, for whatever the lister showed, whatever
\* was asked before, and whatever failed on the way.
THEOREM OldSetsShrink == Spec => OldSetsOnlyShrink
<1>1. TypeInv /\ [Next]_vars
         => [UpdateReplicas /\ request.what # "active"
               => sets'[request.set].replicas < sets[request.set].replicas]_vars
  <2> SUFFICES ASSUME TypeInv, UpdateReplicas, request.what # "active"
               PROVE  sets'[request.set].replicas < sets[request.set].replicas
    OBVIOUS
  <2>1. /\ request.set \in Existing(sets) /\ sets[request.set] \in SetRecords
        /\ request.replicas \in Nat /\ request.replicas < sets[request.set].replicas
    BY UpdatesWhatWasSeen
  <2>2. sets' = [sets EXCEPT ![request.set] = [sets[request.set] EXCEPT !.replicas = request.replicas]]
    BY DEF UpdateReplicas
  <2>3. sets \in [Names -> GameServerSets] /\ request.set \in Names
    BY <2>1 DEF TypeInv, AreSets, Existing
  <2>4. sets'[request.set].replicas = request.replicas
    BY <2>1, <2>2, <2>3 DEF SetRecords
  <2> QED BY <2>1, <2>4
<1> QED BY <1>1, TypesAreInvariant, PTL DEF Spec, OldSetsOnlyShrink

-----------------------------------------------------------------------------
(* One rollout.  The old set only shrinks, and what it reported, now and    *)
(* in the lister, is never less than what it is to have: so what the new    *)
(* set is given leaves room for it.  What is asked for a set that exists    *)
(* is less than it has, or leaves that room.  While the lister is behind    *)
(* there may be several new sets, one more for every sync that began then.  *)

OneRollout ==
    Strategy = "RollingUpdate" /\ ~New /\ Replicas = {InitialReplicas}

Limit == InitialReplicas + MaxSurge
Size(list, s) == IF s \in Existing(list) THEN list[s].replicas ELSE 0
Newer(list) == Existing(list) \ {1}
Made == Cardinality(Newer(sets)) - used.earlySyncs

Fits(r, seen, old, made) ==
    /\ r.what = "create" => made <= 0 /\ (r.replicas <= 0 \/ r.replicas + old <= Limit)
    /\ r.what = "active" =>
          r.set # 1 /\ (r.replicas <= seen[r.set].replicas \/ r.replicas + old <= Limit)

OneCreate(q) == \A i, j \in DOMAIN q : q[i].what = "create" /\ q[j].what = "create" => i = j
AllFit(q, seen, old, made) == OneCreate(q) /\ \A i \in DOMAIN q : Fits(q[i], seen, old, made)

FleetPart ==
    /\ fleet.replicas = InitialReplicas /\ fleetListed.replicas = InitialReplicas
    /\ used.changes = 0 => fleet.template = 1
    /\ fleetListed.template \in {1, fleet.template}

HasTemplates(list) == \A s \in Existing(list) : list[s].template = IF s = 1 THEN 1 ELSE fleet.template

SetsPart == created >= 1 /\ HasTemplates(sets) /\ HasTemplates(listed)

Before ==
    /\ 1 \in Existing(sets) /\ sets[1].replicas = InitialReplicas
    /\ 1 \in Existing(listed) /\ listed[1].replicas = InitialReplicas
    /\ created = 1 /\ worker.requests = <<>>

OldSetIsCounted ==
    1 \in Existing(sets) =>
        /\ sets[1].replicas <= Up(1) /\ sets[1].replicas <= sets[1].status.replicas
        /\ 1 \in Existing(listed) /\ sets[1].replicas <= listed[1].status.replicas
        /\ sets[1].replicas <= listed[1].replicas

QueuePart ==
    /\ worker.requests # <<>> => worker.template = fleet.template
    /\ AllFit(worker.requests, worker.seen, Size(sets, 1), Made)

SizesPart ==
    /\ Made <= 1 /\ Size(sets, 1) <= Limit
    /\ \A s \in Newer(sets) : sets[s].replicas + Size(sets, 1) <= Limit

RolloutInv ==
    /\ FleetPart /\ SetsPart /\ OldSetIsCounted /\ QueuePart /\ SizesPart
    /\ fleetListed.template = 1 => Before

SurgeInv == used.changes <= 1 => RolloutInv

-----------------------------------------------------------------------------
(* Queues of requests.                                                      *)

LEMMA TailFits ==
    ASSUME NEW q \in Seq(Asks), q # <<>>, NEW seen, NEW old, NEW made, AllFit(q, seen, old, made)
    PROVE  /\ AllFit(Tail(q), seen, old, made) /\ Fits(Head(q), seen, old, made)
           /\ Head(q).what = "create" => \A i \in DOMAIN Tail(q) : Tail(q)[i].what # "create"
<1>1. /\ Len(q) \in Nat /\ Len(q) > 0 /\ DOMAIN q = 1..Len(q) /\ DOMAIN Tail(q) = 1..(Len(q) - 1)
      /\ \A i \in DOMAIN Tail(q) : Tail(q)[i] = q[i + 1]
      /\ Head(q) = q[1]
  OBVIOUS
<1>2. \A i \in DOMAIN Tail(q) : i + 1 \in DOMAIN q /\ i + 1 # 1 /\ i \in Nat
  BY <1>1
<1>3. OneCreate(Tail(q))
  <2> SUFFICES ASSUME NEW i \in DOMAIN Tail(q), NEW j \in DOMAIN Tail(q),
                      Tail(q)[i].what = "create", Tail(q)[j].what = "create"
               PROVE  i = j
    BY DEF OneCreate
  <2>1. i + 1 = j + 1
    BY <1>1, <1>2 DEF AllFit, OneCreate
  <2> QED BY <1>2, <2>1
<1>4. \A i \in DOMAIN Tail(q) : Fits(Tail(q)[i], seen, old, made)
  BY <1>1, <1>2 DEF AllFit
<1>5. 1 \in DOMAIN q
  BY <1>1
<1>6. ASSUME Head(q).what = "create", NEW i \in DOMAIN Tail(q), Tail(q)[i].what = "create" PROVE FALSE
  BY <1>1, <1>2, <1>5, <1>6 DEF AllFit, OneCreate
<1> QED BY <1>1, <1>3, <1>4, <1>5, <1>6 DEF AllFit

\* A sequence of some of the elements, in their order.
LEMMA AmongFits ==
    ASSUME NEW S, NEW s \in Seq(S), NEW T, NEW seen, NEW old, NEW made, AllFit(s, seen, old, made)
    PROVE  AllFit(Among(s, T), seen, old, made)
<1> DEFINE D == DOMAIN s
           Good(t, q) == /\ q \in Seq(S) /\ OneCreate(q)
                         /\ \A j \in DOMAIN q : \E k \in t : q[j] = s[k]
           step == [v \in S |-> [kept \in Seq(S) |-> AmongStep(kept, v, T)]]
           iter == CHOOSE h : h = [t \in SUBSET D |->
                      IF t = {} THEN <<>> ELSE AmongStep(h[t \ {Max(t)}], s[Max(t)], T)]
           g == [t \in SUBSET D |-> <<t, iter[t]>>]
           A == {p \in (SUBSET D) \X Seq(S) : Good(p[1], p[2])}
<1>1. Len(s) \in Nat /\ D = 1..Len(s) /\ \A i \in D : s[i] \in S
  OBVIOUS
<1>2. \A v \in S, kept \in Seq(S) : AmongStep(kept, v, T) \in Seq(S)
  BY DEF AmongStep
<1>3. step \in [S -> [Seq(S) -> Seq(S)]] /\ <<>> \in Seq(S)
  BY <1>2
<1>4. \A v \in S, kept \in Seq(S) : step[v][kept] = AmongStep(kept, v, T)
  OBVIOUS
<1>5. Among(s, T) = iter[D]
  BY DEF Among, FoldLeft, MapThenFoldSet, AmongStep
<1> HIDE DEF step, D
<1>6. PICK h \in [SUBSET D -> Seq(S)] : RecursOnPrefixes(h, s, <<>>, step)
  BY <1>3, FoldLeftRecurs DEF D
<1>7. \A t \in SUBSET D : t # {} => Max(t) \in t /\ s[Max(t)] \in S /\ t \ {Max(t)} \in SUBSET D
  BY <1>1, MaxPicks
<1>8. ASSUME NEW t \in SUBSET D
      PROVE  h[t] = IF t = {} THEN <<>> ELSE AmongStep(h[t \ {Max(t)}], s[Max(t)], T)
  BY <1>4, <1>6, <1>7 DEF RecursOnPrefixes, D
<1>9. h = [t \in SUBSET D |-> IF t = {} THEN <<>> ELSE AmongStep(h[t \ {Max(t)}], s[Max(t)], T)]
  BY <1>8
<1>10. iter = [t \in SUBSET D |->
                 IF t = {} THEN <<>> ELSE AmongStep(iter[t \ {Max(t)}], s[Max(t)], T)]
  BY <1>9
<1> HIDE DEF iter
<1>11. g[{}] \in A
  <2>1. iter[{}] = <<>> /\ {} \in SUBSET D
    BY <1>10
  <2>2. Good({}, <<>>)
    BY DEF OneCreate
  <2> QED BY <2>1, <2>2
<1>12. ASSUME NEW t \in SUBSET D, t # {}, g[t \ {Max(t)}] \in A PROVE g[t] \in A
  <2> DEFINE m == Max(t)
             kept == iter[t \ {m}]
             v == s[m]
  <2>1. m \in t /\ v \in S /\ t \ {m} \in SUBSET D
    BY <1>7, <1>12
  <2>2. g[t] = <<t, iter[t]>> /\ g[t \ {m}] = <<t \ {m}, kept>> /\ iter[t] = AmongStep(kept, v, T)
    BY <1>10, <1>12, <2>1
  <2>3. Good(t \ {m}, kept)
    <3>1. <<t \ {m}, kept>> \in A
      BY <1>12, <2>2
    <3>2. \A p \in A : Good(p[1], p[2])
      OBVIOUS
    <3> HIDE DEF A, Good, g, m, kept
    <3> QED
      BY <3>1, <3>2
  <2> HIDE DEF m, kept, v
  <2>4. kept \in Seq(S) /\ OneCreate(kept) /\ \A j \in DOMAIN kept : \E k \in t \ {m} : kept[j] = s[k]
    BY <2>3
  <2>5. CASE v \notin T
    <3>1. iter[t] = kept
      BY <2>2, <2>5 DEF AmongStep
    <3> QED BY <1>12, <2>2, <2>4, <3>1
  <2>6. CASE v \in T
    <3> DEFINE w == Append(kept, v)
    <3>1. iter[t] = w
      BY <2>2, <2>6 DEF AmongStep
    <3>2. /\ w \in Seq(S) /\ DOMAIN w = 1..(Len(kept) + 1) /\ DOMAIN kept = 1..Len(kept) /\ Len(kept) \in Nat
          /\ \A k \in 1..Len(kept) : w[k] = kept[k]
          /\ w[Len(kept) + 1] = v
      BY <2>1, <2>4, AppendProperties, LenProperties
    <3> HIDE DEF w
    <3>3. \A j \in DOMAIN w : \E k \in t : w[j] = s[k]
      BY <2>1, <2>4, <3>2 DEF v
    <3>4. ASSUME NEW j \in 1..Len(kept), kept[j].what = "create", v.what = "create" PROVE FALSE
      <4>1. PICK k \in t \ {m} : kept[j] = s[k]
        BY <2>4, <3>2
      <4>2. k \in DOMAIN s /\ m \in DOMAIN s /\ s[k].what = "create" /\ s[m].what = "create"
        BY <1>12, <2>1, <3>4, <4>1 DEF D, v
      <4> QED BY <4>1, <4>2 DEF AllFit, OneCreate
    <3>5. OneCreate(w)
      <4> SUFFICES ASSUME NEW i \in DOMAIN w, NEW j \in DOMAIN w, w[i].what = "create", w[j].what = "create"
                   PROVE  i = j
        BY DEF OneCreate
      <4>1. CASE i \in 1..Len(kept) /\ j \in 1..Len(kept)
        BY <2>4, <3>2, <4>1 DEF OneCreate
      <4>2. CASE i = Len(kept) + 1 /\ j = Len(kept) + 1
        BY <4>2
      <4>3. CASE i \in 1..Len(kept) /\ j = Len(kept) + 1
        BY <3>2, <3>4, <4>3
      <4>4. CASE i = Len(kept) + 1 /\ j \in 1..Len(kept)
        BY <3>2, <3>4, <4>4
      <4>5. \A k \in DOMAIN w : k \in 1..Len(kept) \/ k = Len(kept) + 1
        BY <3>2
      <4> QED BY <4>1, <4>2, <4>3, <4>4, <4>5
    <3>6. Good(t, w)
      BY <3>2, <3>3, <3>5
    <3> QED BY <1>12, <2>2, <3>1, <3>2, <3>6
  <2> QED BY <2>5, <2>6
<1> HIDE DEF A, g
<1>13. g[DOMAIN s] \in A
  BY <1>11, <1>12, FoldStays DEF D
<1>14. Good(D, iter[D])
  <2>1. g[D] = <<D, iter[D]>>
    BY DEF g
  <2> QED BY <1>13, <2>1 DEF A, D
<1>15. \A j \in DOMAIN iter[D] : Fits(iter[D][j], seen, old, made)
  BY <1>14 DEF AllFit, D
<1> QED BY <1>5, <1>14, <1>15 DEF AllFit

NoCreate(q) == \A i \in DOMAIN q : q[i].what # "create"

LEMMA JoinedFit ==
    ASSUME NEW seen, NEW old, NEW made, NEW p \in Seq(Asks), NEW q \in Seq(Asks),
           AllFit(p, seen, old, made), AllFit(q, seen, old, made), NoCreate(p)
    PROVE  /\ AllFit(p \o q, seen, old, made)
           /\ NoCreate(q) => NoCreate(p \o q)
<1> DEFINE w == p \o q
           m == Len(p)
<1>1. /\ m \in Nat /\ Len(q) \in Nat /\ DOMAIN p = 1..m /\ DOMAIN q = 1..Len(q)
      /\ DOMAIN w = 1..(m + Len(q))
      /\ \A i \in DOMAIN w : w[i] = IF i <= m THEN p[i] ELSE q[i - m]
  OBVIOUS
<1> HIDE DEF w, m
<1>2. \A i \in DOMAIN w : i \in Nat /\ (\/ i \in DOMAIN p /\ w[i] = p[i]
                                        \/ i - m \in DOMAIN q /\ w[i] = q[i - m])
  BY <1>1
<1>3. OneCreate(w)
  <2> SUFFICES ASSUME NEW i \in DOMAIN w, NEW j \in DOMAIN w, w[i].what = "create", w[j].what = "create"
               PROVE  i = j
    BY DEF OneCreate
  <2>1. /\ i - m \in DOMAIN q /\ w[i] = q[i - m] /\ j - m \in DOMAIN q /\ w[j] = q[j - m]
        /\ i \in Nat /\ j \in Nat
    BY <1>2 DEF NoCreate
  <2>2. i - m = j - m
    BY <2>1 DEF AllFit, OneCreate
  <2> QED BY <1>1, <2>1, <2>2
<1>4. \A i \in DOMAIN w : Fits(w[i], seen, old, made)
  BY <1>2 DEF AllFit
<1>5. NoCreate(q) => NoCreate(w)
  BY <1>2 DEF NoCreate
<1> QED BY <1>3, <1>4, <1>5 DEF AllFit, w

LEMMA OldSetsFit ==
    ASSUME NEW seen, NEW old, NEW made, NEW d \in Seq(Downs(seen)), NEW S, NEW e \in Seq(Deletes(S))
    PROVE  /\ d \in Seq(Asks) /\ AllFit(d, seen, old, made) /\ NoCreate(d)
           /\ e \in Seq(Asks) /\ AllFit(e, seen, old, made) /\ NoCreate(e)
<1>1. d \in Seq(Asks) /\ e \in Seq(Asks)
  BY DEF Downs, Deletes
<1>2. \A i \in DOMAIN d : d[i].what \in {"cleanup", "rest"}
  BY DEF Downs
<1>3. \A i \in DOMAIN e : e[i].what = "delete"
  BY DEF Deletes
<1> QED BY <1>1, <1>2, <1>3 DEF AllFit, OneCreate, NoCreate, Fits

LEMMA UpsertFits ==
    ASSUME NEW seen \in [Names -> GameServerSets], NEW active \in {0} \cup Existing(seen), NEW n \in Int,
           active # 1, NEW old, NEW made, active = 0 => made <= 0,
           n <= (IF active = 0 THEN 0 ELSE seen[active].replicas) \/ n + old <= Limit
    PROVE  AllFit(upsertGameServerSet(seen, active, n), seen, old, made)
<1> DEFINE u == upsertGameServerSet(seen, active, n)
<1>1. CASE active = 0
  <2>1. u = <<Update(0, n, "create"), Update(0, n, "defaults")>>
    BY <1>1 DEF upsertGameServerSet
  <2>2. DOMAIN u = 1..2 /\ u[1] = Update(0, n, "create") /\ u[2] = Update(0, n, "defaults")
    BY <2>1
  <2>3. \A i \in DOMAIN u : i = 1 \/ i = 2
    BY <2>2
  <2> HIDE DEF u
  <2>4. \A i \in DOMAIN u : Fits(u[i], seen, old, made) /\ (u[i].what = "create" => i = 1)
    BY <1>1, <2>2, <2>3 DEF Update, Fits
  <2>5. AllFit(u, seen, old, made)
    BY <2>4 DEF AllFit, OneCreate
  <2> QED BY <2>5 DEF u
<1>2. CASE active # 0
  <2>1. u = <<Update(active, n, "active")>> \/ u = <<>>
    BY <1>2 DEF upsertGameServerSet
  <2>2. \A i \in DOMAIN u : i = 1 /\ u[i] = Update(active, n, "active")
    BY <2>1
  <2> HIDE DEF u
  <2>4. \A i \in DOMAIN u : Fits(u[i], seen, old, made) /\ i = 1
    BY <1>2, <2>2 DEF Update, Fits
  <2>5. AllFit(u, seen, old, made)
    BY <2>4 DEF AllFit, OneCreate
  <2> QED BY <2>5 DEF u
<1> QED BY <1>1, <1>2

-----------------------------------------------------------------------------
(* The size of the active set.                                              *)

LEMMA RollingSizeFits ==
    ASSUME NEW list \in [Names -> GameServerSets], NEW active \in {0} \cup Existing(list),
           NEW rest \in SUBSET Existing(list), NEW f \in Fleets, f.replicas = InitialReplicas,
           NEW old \in Nat, old <= sumReplicas(list, rest)
    PROVE  LET n == rollingUpdateActive(list, active, rest, f)
           IN  n <= Active(list, active, f).replicas \/ n + old <= Limit
<1> DEFINE set == Active(list, active, f)
           reported == sumReplicas(list, rest)
           wanted == f.replicas - sumAllocated(list, rest)
           up == Least(set.replicas + MaxSurge, f.replicas)
           within == IF up + reported > MaxSurge + f.replicas
                     THEN LowerBoundReplicas(up - ((up + reported) - (MaxSurge + f.replicas))) ELSE up
           size == IF set.replicas # set.status.replicas THEN set.replicas
                   ELSE IF f.replicas = 0 THEN 0
                   ELSE IF set.replicas >= wanted THEN wanted
                   ELSE IF within > wanted THEN LowerBoundReplicas(wanted) ELSE within
<1>1. rollingUpdateActive(list, active, rest, f) = size
  BY DEF rollingUpdateActive
<1>2. set.replicas \in Nat /\ set.status.replicas \in Nat /\ f.replicas \in Nat /\ MaxSurge \in Nat
  BY ActiveIsASet, FleetAssumption DEF Fleets
<1>3. reported \in Nat /\ sumAllocated(list, rest) \in Nat
  BY SumsOfStatuses
<1>4. old <= reported /\ Limit = f.replicas + MaxSurge
  BY DEF Limit
<1> HIDE DEF set, reported
<1>5. wanted \in Int /\ up \in Int
  BY <1>2, <1>3 DEF Least
<1> HIDE DEF wanted, up
<1>6. within \in Int /\ (within = 0 \/ within + reported <= Limit)
  BY <1>2, <1>3, <1>4, <1>5 DEF LowerBoundReplicas
<1> HIDE DEF within
<1>7. \/ size <= set.replicas
      \/ size \in Int /\ (size <= 0 \/ size + reported <= Limit)
  <2>1. CASE set.replicas # set.status.replicas
    BY <1>2, <2>1
  <2>2. CASE ~(set.replicas # set.status.replicas) /\ f.replicas = 0
    BY <2>2
  <2>3. CASE ~(set.replicas # set.status.replicas) /\ f.replicas # 0 /\ set.replicas >= wanted
    BY <1>2, <1>5, <2>3
  <2>4. CASE ~(set.replicas # set.status.replicas) /\ f.replicas # 0 /\ ~(set.replicas >= wanted)
    <3>1. CASE within > wanted
      <4>1. size = LowerBoundReplicas(wanted)
        BY <2>4, <3>1
      <4> QED BY <1>2, <1>3, <1>4, <1>5, <1>6, <3>1, <4>1 DEF LowerBoundReplicas
    <3>2. CASE ~(within > wanted)
      <4>1. size = within
        BY <2>4, <3>2
      <4> QED BY <1>6, <4>1
    <3> QED BY <3>1, <3>2
  <2> QED BY <2>1, <2>2, <2>3, <2>4
<1> HIDE DEF size
<1>8. size <= set.replicas \/ size + old <= Limit
  BY <1>2, <1>3, <1>4, <1>7
<1> QED BY <1>1, <1>8 DEF set

LEMMA SizesAreTyped ==
    ASSUME TypeInv
    PROVE  /\ Size(sets, 1) \in Nat /\ Limit \in Nat /\ used.earlySyncs \in Nat
           /\ \A s \in Existing(sets) : sets[s].replicas \in Nat
           /\ IsFiniteSet(Newer(sets)) /\ Cardinality(Newer(sets)) \in Nat /\ Made \in Int
<1>1. \A s \in Existing(sets) : sets[s].replicas \in Nat
  BY ExistingIsSized DEF SomeSetsAreSized, TypeInv, AreSets
<1>2. IsFiniteSet(Newer(sets))
  BY NamesAreFinite DEF Newer, Existing
<1>3. Cardinality(Newer(sets)) \in Nat /\ used.earlySyncs \in Nat
  BY <1>2, FS_CardinalityType DEF TypeInv, Uses
<1> QED BY <1>1, <1>2, <1>3, FleetAssumption DEF Size, Limit, Made

LEMMA RestIsAll ==
    ASSUME NEW S, IsFiniteSet(S), NEW rest \in SetToSeqs(S)
    PROVE  ToSet(rest) = S
<1> DEFINE D == 1..Cardinality(S)
<1>1. Cardinality(S) \in Nat
  BY FS_CardinalityType
<1>2. IsFiniteSet(D) /\ Cardinality(D) = Cardinality(S)
  BY <1>1, FS_Interval
<1>3. rest \in [D -> S] /\ \A i, j \in D : i # j => rest[i] # rest[j]
  BY DEF SetToSeqs
<1> HIDE DEF D
<1>4. rest \in Injection(D, S)
  BY <1>3 DEF Injection, IsInjective
<1>5. rest \in Surjection(D, S)
  BY <1>2, <1>4, FS_Injection
<1> QED BY <1>3, <1>5 DEF Surjection, ToSet

LEMMA SumWithTheOldSet ==
    ASSUME NEW list \in [Names -> GameServerSets], NEW S \in SUBSET Existing(list), 1 \in S
    PROVE  list[1].status.replicas <= sumReplicas(list, S)
<1> DEFINE g == [s \in S |-> list[s].status.replicas]
<1>1. sumReplicas(list, S) = FoldFunctionOnSet(+, 0, g, S)
  BY DEF sumReplicas, SumOver
<1>2. g \in [S -> Nat] /\ g[1] = list[1].status.replicas
  BY ExistingIsSized DEF SomeSetsAreSized, SetStatuses
<1>3. IsFiniteSet(S)
  BY NamesAreFinite DEF Existing
<1> HIDE DEF g
<1>4. g[1] <= FoldFunctionOnSet(+, 0, g, S)
  BY <1>2, <1>3, SumHasEach
<1> QED BY <1>1, <1>2, <1>4

\* Once the new template is seen, the active set is a new one, if the lister shows one.
LEMMA RolesInARollout ==
    ASSUME TypeInv, FleetPart, SetsPart, fleetListed.template # 1,
           NEW active \in MayBeActive(listed, fleetListed)
    PROVE  /\ active # 1 /\ active \in {0} \cup Existing(listed)
           /\ active = 0 => Newer(listed) = {}
<1> DEFINE matching == {s \in Existing(listed) : listed[s].template = fleetListed.template}
<1>1. matching = Newer(listed)
  BY DEF FleetPart, SetsPart, HasTemplates, Newer
<1>2. active \in IF matching = {} THEN {0}
                 ELSE {s \in matching : SameSecond \/ \A t \in matching : s <= t}
  BY DEF MayBeActive
<1>3. 0 \notin Newer(listed)
  BY DEF Newer, Existing, Names
<1> HIDE DEF matching
<1> QED BY <1>1, <1>2, <1>3 DEF Newer

LEMMA StrategySizeFits ==
    ASSUME TypeInv, RolloutInv, OneRollout, fleetListed.template # 1,
           NEW active \in MayBeActive(listed, fleetListed),
           NEW rest \in SetToSeqs(Existing(listed) \ {active})
    PROVE  LET n == applyDeploymentStrategy(listed, active, rest, fleetListed).replicas
           IN  n <= (IF active = 0 THEN 0 ELSE listed[active].replicas) \/ n + Size(sets, 1) <= Limit
<1> DEFINE f == fleetListed
           others == ToSet(rest)
           wanted == f.replicas - sumAllocated(listed, others)
           old == Size(sets, 1)
           plan == applyDeploymentStrategy(listed, active, rest, f)
           size == rollingUpdateActive(listed, active, others, f)
<1>1. /\ listed \in [Names -> GameServerSets] /\ f \in Fleets /\ f.replicas = InitialReplicas
      /\ active # 1 /\ active \in {0} \cup Existing(listed)
  BY RolesInARollout DEF TypeInv, AreSets, RolloutInv, FleetPart
<1>2. others = Existing(listed) \ {active} /\ others \in SUBSET Existing(listed)
  <2>1. IsFiniteSet(Existing(listed) \ {active})
    BY NamesAreFinite DEF Existing
  <2> QED BY <2>1, RestIsAll
<1>3. old \in Nat /\ InitialReplicas \in Nat /\ MaxSurge \in Nat
  BY SizesAreTyped, FleetAssumption
<1>4. sumAllocated(listed, others) \in Nat /\ sumReplicas(listed, others) \in Nat
  BY <1>1, <1>2, SumsOfStatuses
<1>5. 1 \in Existing(sets) =>
         /\ 1 \in others /\ old = sets[1].replicas
         /\ old <= listed[1].status.replicas /\ old <= listed[1].replicas
  BY <1>1, <1>2 DEF RolloutInv, OldSetIsCounted, Size
<1>6. 1 \notin Existing(sets) => old = 0
  BY DEF Size
<1>7. old <= sumReplicas(listed, others)
  <2>1. CASE 1 \in Existing(sets)
    <3>1. listed[1].status.replicas <= sumReplicas(listed, others)
      BY <1>1, <1>2, <1>5, <2>1, SumWithTheOldSet
    <3>2. listed[1].status.replicas \in Nat
      BY <1>1, <1>2, <1>5, <2>1, ExistingIsSized DEF SomeSetsAreSized, SetStatuses
    <3> HIDE DEF old
    <3> QED BY <1>3, <1>4, <1>5, <2>1, <3>1, <3>2
  <2>2. CASE 1 \notin Existing(sets)
    BY <1>4, <1>6, <2>2
  <2> QED BY <2>1, <2>2
<1> HIDE DEF others, old
<1>8. CASE others = {} \/ \A s \in others : listed[s].replicas = 0
  <2>1. old = 0
    BY <1>3, <1>5, <1>6, <1>8
  <2>2. plan.replicas = f.replicas \/ plan.replicas = LowerBoundReplicas(wanted)
    BY <1>8 DEF applyDeploymentStrategy, others
  <2>3. LowerBoundReplicas(wanted) \in Nat /\ LowerBoundReplicas(wanted) <= InitialReplicas
    BY <1>1, <1>3, <1>4 DEF LowerBoundReplicas
  <2> HIDE DEF plan, f
  <2>4. plan.replicas + old <= Limit
    BY <1>1, <1>3, <2>1, <2>2, <2>3 DEF Limit
  <2> QED BY <2>4 DEF plan, old, f
<1>9. CASE ~(others = {} \/ \A s \in others : listed[s].replicas = 0)
  <2>1. plan.replicas = size
    BY <1>9 DEF applyDeploymentStrategy, others, OneRollout
  <2>2. size <= Active(listed, active, f).replicas \/ size + old <= Limit
    BY <1>1, <1>2, <1>3, <1>7, RollingSizeFits
  <2>3. Active(listed, active, f).replicas = IF active = 0 THEN 0 ELSE listed[active].replicas
    BY DEF Active, NewSet
  <2> HIDE DEF plan, size
  <2>4. plan.replicas <= (IF active = 0 THEN 0 ELSE listed[active].replicas) \/ plan.replicas + old <= Limit
    BY <2>1, <2>2, <2>3
  <2> QED BY <2>4 DEF plan, old
<1> QED BY <1>8, <1>9

-----------------------------------------------------------------------------
(* The steps of a rollout.                                                  *)

LEMMA NothingFits == \A seen, old, made : AllFit(<<>>, seen, old, made) /\ NoCreate(<<>>)
BY DEF AllFit, OneCreate, NoCreate

\* The Fleet is not edited, and there were never more early syncs than there are now.
NoChange ==
    /\ used'.changes = used.changes
    /\ used'.earlySyncs \in Nat /\ used'.earlySyncs >= used.earlySyncs

LEMMA UseKeepsChanges ==
    ASSUME used \in Uses, NEW what \in {"earlySyncs", "disturbances"}, NEW bound,
           Use(what, bound) \/ used' = used
    PROVE  NoChange
BY DEF Use, Uses, NoChange

\* What is left of a queue after a request still fits.
LEMMA AnsweredFits ==
    ASSUME TypeInv, worker.requests # <<>>, Answered \/ RequestFails,
           NEW old, NEW made, AllFit(worker.requests, worker.seen, old, made)
    PROVE  /\ AllFit(worker'.requests, worker'.seen, old, made)
           /\ worker'.requests # <<>> => worker'.template = worker.template
           /\ request.what = "create" => NoCreate(worker'.requests)
<1>1. worker \in Workers /\ worker.requests \in Seq(Asks)
  BY DEF TypeInv, IsWorker, Workers
<1>2. ASSUME NEW q, worker' = [worker EXCEPT !.requests = q]
      PROVE  worker'.requests = q /\ worker'.seen = worker.seen /\ worker'.template = worker.template
  BY <1>1, <1>2 DEF Workers
<1>3. CASE Proceed
  <2>1. worker' = [worker EXCEPT !.requests = Tail(worker.requests)]
    BY <1>3 DEF Proceed
  <2>2. /\ AllFit(Tail(worker.requests), worker.seen, old, made)
        /\ request.what = "create" => NoCreate(Tail(worker.requests))
    BY <1>1, TailFits DEF request, NoCreate
  <2> QED BY <1>2, <2>1, <2>2
<1>4. CASE Retry
  <2>1. worker'.requests = <<>>
    BY <1>4 DEF Retry, NoWork
  <2> QED BY <2>1, NothingFits
<1>5. CASE request.what = "cleanup" /\ CleanupFails
  <2> DEFINE T == {r \in ToSet(worker.requests) : r.what \notin {"cleanup", "rest"}}
  <2>1. worker' = [worker EXCEPT !.requests = Among(worker.requests, T)]
    BY <1>5 DEF CleanupFails
  <2> HIDE DEF T
  <2>2. AllFit(Among(worker.requests, T), worker.seen, old, made)
    BY <1>1, AmongFits
  <2> QED BY <1>2, <1>5, <2>1, <2>2
<1> QED BY <1>3, <1>4, <1>5 DEF Answered, RequestFails

LEMMA LessFits ==
    ASSUME NEW q \in Seq(Asks), NEW seen, NEW old \in Int, NEW made, AllFit(q, seen, old, made),
           NEW less \in Int, less <= old, NEW now \in Int, (made \in Int /\ now <= made) \/ NoCreate(q)
    PROVE  AllFit(q, seen, less, now)
<1>1. ASSUME NEW i \in DOMAIN q PROVE Fits(q[i], seen, less, now)
  <2>1. q[i] \in Asks /\ q[i].replicas \in Int /\ Fits(q[i], seen, old, made)
    <3>1. q[i] \in Asks
      OBVIOUS
    <3>2. q[i].replicas \in Int
      BY <3>1 DEF Asks
    <3> QED BY <3>1, <3>2 DEF AllFit
  <2>2. MaxSurge \in Nat /\ InitialReplicas \in Nat
    BY FleetAssumption
  <2>3. q[i].replicas + old <= Limit => q[i].replicas + less <= Limit
    BY <2>1, <2>2 DEF Limit
  <2> QED BY <2>1, <2>3 DEF Fits, NoCreate
<1> QED BY <1>1 DEF AllFit

\* The sets and their sizes stay, and what is asked for fits.
LEMMA SizesStay ==
    ASSUME TypeInv, TypeInv', SizesPart, NoChange, fleet'.template = fleet.template,
           Existing(sets') = Existing(sets), \A s \in Existing(sets) : sets'[s].replicas = sets[s].replicas,
           worker'.requests # <<>> => worker'.template = fleet.template,
           NEW made \in Int, Cardinality(Newer(sets)) - used'.earlySyncs <= made,
           AllFit(worker'.requests, worker'.seen, Size(sets, 1), made)
    PROVE  QueuePart' /\ SizesPart'
<1>1. /\ Size(sets, 1) \in Nat /\ Limit \in Nat /\ used.earlySyncs \in Nat
      /\ Cardinality(Newer(sets)) \in Nat
  BY SizesAreTyped
<1>2. Size(sets, 1)' = Size(sets, 1) /\ Newer(sets)' = Newer(sets) /\ Limit' = Limit
  BY DEF Size, Newer, Existing, Limit
<1>3. Made' = Cardinality(Newer(sets)) - used'.earlySyncs /\ Made' \in Int /\ Made' <= Made
  BY <1>1, <1>2 DEF Made, NoChange
<1>4. worker'.requests \in Seq(Asks)
  BY DEF TypeInv, IsWorker, Workers
<1>5. AllFit(worker'.requests, worker'.seen, Size(sets, 1), Made')
  BY <1>1, <1>3, <1>4, LessFits
<1>6. QueuePart'
  BY <1>2, <1>5 DEF QueuePart
<1>7. SizesPart'
  <2>1. Made' <= 1
    BY <1>1, <1>3 DEF SizesPart, Made, NoChange
  <2>2. \A s \in Newer(sets) : sets'[s].replicas = sets[s].replicas
    BY DEF Newer
  <2> QED BY <1>2, <2>1, <2>2 DEF SizesPart
<1> QED BY <1>6, <1>7

\* Nothing but the queue and the counts of what happened changes.
LEMMA OnlyTheQueue ==
    ASSUME TypeInv, TypeInv', RolloutInv,
           UNCHANGED <<fleet, fleetListed, sets, listed, gameServers, created>>, NoChange,
           worker'.requests # <<>> => fleetListed.template # 1 /\ worker'.template = fleet.template,
           NEW made \in Int, Cardinality(Newer(sets)) - used'.earlySyncs <= made,
           AllFit(worker'.requests, worker'.seen, Size(sets, 1), made)
    PROVE  RolloutInv'
<1>1. FleetPart' /\ SetsPart' /\ OldSetIsCounted'
  BY DEF RolloutInv, FleetPart, SetsPart, HasTemplates, OldSetIsCounted, Existing, Up, NoChange
<1>2. QueuePart' /\ SizesPart'
  BY SizesStay DEF RolloutInv, Existing
<1>3. fleetListed'.template = 1 => Before'
  BY DEF RolloutInv, Before, Existing
<1> QED BY <1>1, <1>2, <1>3 DEF RolloutInv

LEMMA SyncBeforeTheRollout ==
    ASSUME TypeInv, RolloutInv, fleetListed.template = 1,
           NEW active \in MayBeActive(listed, fleetListed),
           NEW rest \in SetToSeqs(Existing(listed) \ {active})
    PROVE  LET plan == applyDeploymentStrategy(listed, active, rest, fleetListed)
           IN  plan.requests \o deleteEmptyGameServerSets(listed, rest)
                 \o upsertGameServerSet(listed, active, plan.replicas) = <<>>
<1> DEFINE plan == applyDeploymentStrategy(listed, active, rest, fleetListed)
           matching == {s \in Existing(listed) : listed[s].template = fleetListed.template}
<1>1. Before /\ SetsPart /\ fleetListed.replicas = InitialReplicas
  BY DEF RolloutInv, FleetPart
<1>2. Existing(listed) = {1}
  <2>1. Existing(listed) \subseteq 1..1
    BY <1>1 DEF Before, TypeInv, AreSets
  <2> QED BY <1>1, <2>1 DEF Before
<1>3. active = 1
  <2>1. matching = {1}
    BY <1>1, <1>2 DEF SetsPart, HasTemplates
  <2>2. active \in IF matching = {} THEN {0}
                   ELSE {s \in matching : SameSecond \/ \A t \in matching : s <= t}
    BY DEF MayBeActive
  <2> HIDE DEF matching
  <2> QED BY <2>1, <2>2
<1>4. ToSet(rest) = {} /\ rest \in Seq(Existing(listed))
  <2>1. rest \in SetToSeqs({})
    BY <1>2, <1>3
  <2>2. ToSet(rest) = {}
    BY <2>1, FS_EmptySet, RestIsAll
  <2>3. rest \in [1..0 -> {}]
    BY <2>1, FS_EmptySet DEF SetToSeqs
  <2>4. rest \in Seq(Existing(listed))
    BY <2>3
  <2> QED BY <2>2, <2>4
<1>5. plan = [replicas |-> InitialReplicas, requests |-> <<>>]
  BY <1>1, <1>4 DEF applyDeploymentStrategy
<1>6. deleteEmptyGameServerSets(listed, rest) = <<>>
  <2>1. deleteEmptyGameServerSets(listed, rest) \in Seq(Deletes({}))
    BY <1>4, DeletesArePlanned DEF TypeInv, AreSets
  <2>2. Deletes({}) = {}
    BY DEF Deletes
  <2> QED BY <2>1, <2>2
<1>7. upsertGameServerSet(listed, active, InitialReplicas) = <<>>
  BY <1>1, <1>3 DEF upsertGameServerSet, Before
<1> HIDE DEF plan
<1>8. plan.requests \o deleteEmptyGameServerSets(listed, rest)
        \o upsertGameServerSet(listed, active, plan.replicas) = <<>>
  BY <1>5, <1>6, <1>7
<1> QED BY <1>8 DEF plan

LEMMA SyncInTheRollout ==
    ASSUME TypeInv, RolloutInv, OneRollout, fleetListed.template # 1,
           NEW made, Newer(listed) = {} => made <= 0,
           NEW active \in MayBeActive(listed, fleetListed),
           NEW rest \in SetToSeqs(Existing(listed) \ {active})
    PROVE  LET plan == applyDeploymentStrategy(listed, active, rest, fleetListed)
           IN  AllFit(plan.requests \o deleteEmptyGameServerSets(listed, rest)
                        \o upsertGameServerSet(listed, active, plan.replicas),
                      listed, Size(sets, 1), made)
<1> DEFINE plan == applyDeploymentStrategy(listed, active, rest, fleetListed)
           d == plan.requests
           e == deleteEmptyGameServerSets(listed, rest)
           u == upsertGameServerSet(listed, active, plan.replicas)
           old == Size(sets, 1)
<1>1. /\ active # 1 /\ active \in {0} \cup Existing(listed)
      /\ active = 0 => Newer(listed) = {}
  BY RolesInARollout DEF RolloutInv
<1>2. /\ listed \in [Names -> GameServerSets] /\ fleetListed \in Fleets
  BY DEF TypeInv, AreSets
<1>3. rest \in Seq(Existing(listed))
  <2> DEFINE S == Existing(listed) \ {active}
  <2>1. IsFiniteSet(S)
    BY NamesAreFinite DEF Existing
  <2>2. Cardinality(S) \in Nat
    BY <2>1, FS_CardinalityType
  <2>4. rest \in [1..Cardinality(S) -> Existing(listed)]
    BY DEF SetToSeqs
  <2>5. rest \in Seq(Existing(listed))
    <3> HIDE DEF S
    <3> QED BY <2>2, <2>4, SeqDef
  <2> QED BY <2>5
<1>4. d \in Seq(Downs(listed)) /\ plan.replicas \in Int
  BY <1>1, <1>2, <1>3, StrategyIsPlanned
<1>5. plan.replicas <= (IF active = 0 THEN 0 ELSE listed[active].replicas)
        \/ plan.replicas + old <= Limit
  BY StrategySizeFits
<1> HIDE DEF plan
<1>6. e \in Seq(Deletes(ToSet(rest)))
  BY <1>2, <1>3, DeletesArePlanned
<1>7. u \in Seq(Asks)
  BY <1>1, <1>2, <1>4, UpsertIsPlanned, PlansAreAsks
<1>8. AllFit(u, listed, old, made)
  <2>1. active = 0 => made <= 0
    BY <1>1
  <2> HIDE DEF old
  <2> QED BY <1>1, <1>2, <1>4, <1>5, <2>1, UpsertFits
<1> HIDE DEF d, e, u, old
<1>9. /\ d \in Seq(Asks) /\ AllFit(d, listed, old, made) /\ NoCreate(d)
      /\ e \in Seq(Asks) /\ AllFit(e, listed, old, made) /\ NoCreate(e)
  BY <1>4, <1>6, OldSetsFit
<1>10. d \o e \in Seq(Asks) /\ AllFit(d \o e, listed, old, made) /\ NoCreate(d \o e)
  BY <1>9, JoinedFit
<1>11. AllFit((d \o e) \o u, listed, old, made)
  BY <1>7, <1>8, <1>10, JoinedFit
<1> QED BY <1>11 DEF d, e, u, old, plan

LEMMA SyncKeepsRollout ==
    ASSUME TypeInv, TypeInv', RolloutInv, OneRollout, syncFleet
    PROVE  RolloutInv'
<1> DEFINE made == Cardinality(Newer(sets)) - used'.earlySyncs
<1>1. NoChange /\ made \in Int /\ (Newer(listed) = {} => made <= 0)
  <2>1. NoChange
    BY UseKeepsChanges DEF syncFleet, TypeInv
  <2>2. Cardinality(Newer(sets)) \in Nat /\ used.earlySyncs \in Nat /\ used'.earlySyncs \in Nat
    BY <2>1, SizesAreTyped DEF NoChange
  <2>3. CASE Existing(sets) \subseteq Existing(listed)
    <3>1. Newer(listed) = {} => Cardinality(Newer(sets)) = 0
      BY <2>3, FS_EmptySet DEF Newer
    <3> QED BY <2>1, <2>2, <3>1
  <2>4. CASE ~(Existing(sets) \subseteq Existing(listed))
    <3>1. used'.earlySyncs = used.earlySyncs + 1
      BY <2>4 DEF syncFleet, Use, TypeInv, Uses
    <3>2. Cardinality(Newer(sets)) - used.earlySyncs <= 1
      BY DEF RolloutInv, SizesPart, Made
    <3> QED BY <2>1, <2>2, <3>1, <3>2
  <2> QED BY <2>3, <2>4
<1> HIDE DEF made
<1>2. PICK active \in MayBeActive(listed, fleetListed) :
      \E rest \in SetToSeqs(Existing(listed) \ {active}) :
         LET plan == applyDeploymentStrategy(listed, active, rest, fleetListed)
         IN  worker' = [busy |-> TRUE, template |-> fleetListed.template, seen |-> listed,
                        requests |-> plan.requests \o deleteEmptyGameServerSets(listed, rest)
                                       \o upsertGameServerSet(listed, active, plan.replicas)]
  BY DEF syncFleet
<1>3. PICK rest \in SetToSeqs(Existing(listed) \ {active}) :
         LET plan == applyDeploymentStrategy(listed, active, rest, fleetListed)
         IN  worker' = [busy |-> TRUE, template |-> fleetListed.template, seen |-> listed,
                        requests |-> plan.requests \o deleteEmptyGameServerSets(listed, rest)
                                       \o upsertGameServerSet(listed, active, plan.replicas)]
  BY <1>2
<1> DEFINE plan == applyDeploymentStrategy(listed, active, rest, fleetListed)
           q == plan.requests \o deleteEmptyGameServerSets(listed, rest)
                  \o upsertGameServerSet(listed, active, plan.replicas)
<1>4. worker' = [busy |-> TRUE, template |-> fleetListed.template, seen |-> listed, requests |-> q]
  BY <1>3
<1>5. fleetListed.template = 1 => q = <<>>
  BY SyncBeforeTheRollout
<1>6. fleetListed.template # 1 => AllFit(q, listed, Size(sets, 1), made)
  BY <1>1, SyncInTheRollout
<1> HIDE DEF q
<1>7. AllFit(worker'.requests, worker'.seen, Size(sets, 1), made)
  BY <1>4, <1>5, <1>6, NothingFits
<1>8. worker'.requests # <<>> => fleetListed.template # 1 /\ worker'.template = fleet.template
  BY <1>4, <1>5 DEF RolloutInv, FleetPart
<1>9. UNCHANGED <<fleet, fleetListed, sets, listed, gameServers, created>>
  BY DEF syncFleet
<1>10. Cardinality(Newer(sets)) - used'.earlySyncs <= made
  BY <1>1 DEF made
<1> QED BY <1>1, <1>7, <1>8, <1>9, <1>10, OnlyTheQueue

\* What holds while there is something to ask for.
LEMMA DuringTheRollout ==
    ASSUME TypeInv, RolloutInv, worker.requests # <<>>
    PROVE  /\ fleetListed.template # 1 /\ fleetListed.template = fleet.template
           /\ worker.template = fleet.template
           /\ AllFit(worker.requests, worker.seen, Size(sets, 1), Made)
           /\ Fits(request, worker.seen, Size(sets, 1), Made)
           /\ worker.requests \in Seq(Asks)
<1>1. worker.requests \in Seq(Asks)
  BY DEF TypeInv, IsWorker, Workers
<1>2. fleetListed.template # 1 /\ fleetListed.template = fleet.template
  BY DEF RolloutInv, Before, FleetPart
<1>3. worker.template = fleet.template /\ AllFit(worker.requests, worker.seen, Size(sets, 1), Made)
  BY DEF RolloutInv, QueuePart
<1> QED BY <1>1, <1>2, <1>3, TailFits DEF request

\* A request has been carried out, and the sets are smaller than before, or there is one more.
LEMMA AfterARequest ==
    ASSUME TypeInv, TypeInv', RolloutInv, worker.requests # <<>>, Answered,
           UNCHANGED <<fleet, fleetListed, listed>>,
           SetsPart', OldSetIsCounted', Size(sets', 1) <= Size(sets, 1),
           \A s \in Newer(sets') : sets'[s].replicas + Size(sets', 1) <= Limit,
           \/ Cardinality(Newer(sets')) <= Cardinality(Newer(sets))
           \/ request.what = "create" /\ Cardinality(Newer(sets')) = Cardinality(Newer(sets)) + 1
    PROVE  RolloutInv'
<1>1. NoChange
  BY UseKeepsChanges DEF Answered, TypeInv
<1>2. FleetPart'
  BY <1>1 DEF RolloutInv, FleetPart, NoChange
<1>3. fleetListed'.template # 1
  BY DuringTheRollout
<1>4. /\ AllFit(worker'.requests, worker'.seen, Size(sets, 1), Made)
      /\ worker'.requests # <<>> => worker'.template = worker.template
      /\ request.what = "create" => NoCreate(worker'.requests)
  BY AnsweredFits, DuringTheRollout
<1>5. /\ Size(sets, 1) \in Nat /\ Limit \in Nat /\ Cardinality(Newer(sets)) \in Nat
      /\ used.earlySyncs \in Nat /\ Made \in Int
  BY SizesAreTyped
<1>6. Size(sets', 1) \in Nat /\ Cardinality(Newer(sets')) \in Nat
  <2>1. sets' \in [Names -> GameServerSets]
    BY DEF TypeInv, AreSets
  <2>2. IsFiniteSet(Newer(sets'))
    BY NamesAreFinite DEF Newer, Existing
  <2> QED BY <2>1, <2>2, ExistingIsSized, FS_CardinalityType DEF SomeSetsAreSized, Size
<1>7. /\ Size(sets, 1)' = Size(sets', 1) /\ Newer(sets)' = Newer(sets') /\ Limit' = Limit
      /\ Made' = Cardinality(Newer(sets')) - used'.earlySyncs
  BY DEF Size, Newer, Existing, Limit, Made
<1>8. Made' \in Int /\ (Made' <= Made \/ (request.what = "create" /\ Made' <= Made + 1))
  BY <1>1, <1>5, <1>6, <1>7 DEF NoChange, Made
<1>9. AllFit(worker'.requests, worker'.seen, Size(sets', 1), Made')
  <2>1. worker'.requests \in Seq(Asks)
    BY DEF TypeInv, IsWorker, Workers
  <2> QED BY <1>4, <1>5, <1>6, <1>8, <2>1, LessFits
<1>10. QueuePart'
  BY <1>4, <1>7, <1>9, DuringTheRollout DEF QueuePart
<1>11. Made' <= 1
  <2>1. Made <= 1 /\ (request.what = "create" => Made <= 0)
    BY DuringTheRollout DEF RolloutInv, SizesPart, Fits
  <2> QED BY <1>5, <1>8, <2>1
<1>12. SizesPart'
  <2>1. Size(sets', 1) <= Limit
    BY <1>5, <1>6 DEF RolloutInv, SizesPart
  <2> QED BY <1>7, <1>11, <2>1 DEF SizesPart
<1> QED BY <1>2, <1>3, <1>10, <1>12 DEF RolloutInv

LEMMA UpdateKeepsRollout ==
    ASSUME TypeInv, RolloutInv, UpdateReplicas
    PROVE  RolloutInv'
<1> DEFINE s == request.set
           x == [sets[s] EXCEPT !.replicas = request.replicas]
<1>1. /\ worker.requests # <<>> /\ Answered /\ request.what \in {"cleanup", "rest", "active"}
      /\ UNCHANGED <<fleet, fleetListed, listed, gameServers, created>>
      /\ sets' = [sets EXCEPT ![s] = x]
      /\ sets[s] = worker.seen[s]
  BY DEF UpdateReplicas, Requested, UpdateTests
<1>2. /\ s \in Existing(sets) /\ sets[s] \in SetRecords /\ request.replicas \in Nat
      /\ request.what # "active" => request.replicas < sets[s].replicas
  BY UpdatesWhatWasSeen
<1>3. TypeInv'
  BY UpdateReplicasKeepsTypes
<1>4. Fits(request, worker.seen, Size(sets, 1), Made)
  BY <1>1, DuringTheRollout
<1>5. /\ x \in SetRecords /\ x.replicas = request.replicas /\ x.template = sets[s].template
      /\ x.status = sets[s].status /\ sets[s].replicas \in Nat
  BY <1>2 DEF SetRecords
<1>6. sets \in [Names -> GameServerSets] /\ s \in Names
  BY <1>2 DEF TypeInv, AreSets, Existing
<1> HIDE DEF s, x
<1>7. Existing(sets') = Existing(sets) /\ sets'[s] = x /\ \A t \in Existing(sets) : t # s => sets'[t] = sets[t]
  <2>1. x # NoSet
    BY <1>5, NoSetIsNoGameServerSet DEF SetRecords
  <2> QED BY <1>1, <1>2, <1>6, <2>1 DEF Existing
<1>8. SetsPart'
  <2>1. HasTemplates(sets)'
    BY <1>1, <1>2, <1>5, <1>7 DEF RolloutInv, SetsPart, HasTemplates, Existing
  <2>2. HasTemplates(listed)'
    BY <1>1 DEF RolloutInv, SetsPart, HasTemplates, Existing
  <2>3. (created >= 1)'
    BY <1>1 DEF RolloutInv, SetsPart
  <2> QED BY <2>1, <2>2, <2>3 DEF SetsPart
<1>9. s = 1 => request.what # "active"
  BY <1>4 DEF Fits, s
<1>10. s = 1 => x.replicas < sets[1].replicas
  BY <1>2, <1>5, <1>9
<1>11. Size(sets', 1) <= Size(sets, 1) /\ Size(sets, 1) \in Nat
  <2>1. Size(sets, 1) \in Nat
    BY SizesAreTyped
  <2>2. Size(sets', 1) <= Size(sets, 1)
    <3>1. CASE s = 1
      BY <1>2, <1>5, <1>7, <1>10, <3>1 DEF Size
    <3>2. CASE s # 1
      BY <1>7, <2>1, <3>2 DEF Size
    <3> QED BY <3>1, <3>2
  <2> QED BY <2>1, <2>2
<1>12. OldSetIsCounted'
  <2> SUFFICES ASSUME 1 \in Existing(sets')
               PROVE  /\ sets'[1].replicas <= Up(1)' /\ sets'[1].replicas <= sets'[1].status.replicas
                      /\ 1 \in Existing(listed) /\ sets'[1].replicas <= listed[1].status.replicas
                      /\ sets'[1].replicas <= listed[1].replicas
    BY <1>1 DEF OldSetIsCounted, Existing
  <2>1. /\ 1 \in Existing(sets) /\ Up(1)' = Up(1)
        /\ sets[1].replicas <= Up(1) /\ sets[1].replicas <= sets[1].status.replicas
        /\ 1 \in Existing(listed) /\ sets[1].replicas <= listed[1].status.replicas
        /\ sets[1].replicas <= listed[1].replicas
    BY <1>1, <1>7 DEF RolloutInv, OldSetIsCounted, Up
  <2>2. /\ sets[1].replicas \in Nat /\ sets[1].status.replicas \in Nat
        /\ listed[1].replicas \in Nat /\ listed[1].status.replicas \in Nat /\ Up(1) \in Nat
    BY <2>1, ExistingIsSized, StatusOfIsTyped
       DEF SomeSetsAreSized, TypeInv, AreSets, SetStatuses, Existing
  <2>3. CASE s = 1
    <3>1. /\ sets'[1].replicas \in Nat /\ sets'[1].replicas <= sets[1].replicas
          /\ sets'[1].status = sets[1].status
      BY <1>2, <1>5, <1>7, <1>10, <2>2, <2>3
    <3> QED BY <2>1, <2>2, <3>1
  <2>4. CASE s # 1
    BY <1>7, <2>1, <2>4
  <2> QED BY <2>3, <2>4
<1>13. Newer(sets') = Newer(sets) /\ Cardinality(Newer(sets')) <= Cardinality(Newer(sets))
  BY <1>7, SizesAreTyped DEF Newer
<1>14. ASSUME NEW t \in Newer(sets) PROVE sets'[t].replicas + Size(sets', 1) <= Limit
  <2>1. /\ t \in Existing(sets) /\ t # 1 /\ sets[t].replicas \in Nat /\ Limit \in Nat
        /\ sets[t].replicas + Size(sets, 1) <= Limit
    BY SizesAreTyped DEF RolloutInv, SizesPart, Newer
  <2>2. Size(sets', 1) \in Nat
    BY ExistingIsSized, <1>3 DEF SomeSetsAreSized, TypeInv, AreSets, Size
  <2>3. CASE t # s
    BY <1>7, <1>11, <2>1, <2>2, <2>3
  <2>4. CASE t = s
    <3>1. sets'[t].replicas = request.replicas /\ Size(sets', 1) = Size(sets, 1)
      BY <1>2, <1>5, <1>7, <2>1, <2>4 DEF Size
    <3>2. request.replicas <= sets[t].replicas \/ request.replicas + Size(sets, 1) <= Limit
      <4>1. CASE request.what = "active"
        BY <1>1, <1>4, <2>4, <4>1 DEF Fits, s
      <4>2. CASE request.what # "active"
        BY <1>2, <2>1, <2>4, <4>2
      <4> QED BY <4>1, <4>2
    <3> QED BY <1>2, <1>11, <2>1, <3>1, <3>2
  <2> QED BY <2>3, <2>4
<1> QED BY <1>1, <1>3, <1>8, <1>11, <1>12, <1>13, <1>14, AfterARequest

LEMMA DeleteKeepsRollout ==
    ASSUME TypeInv, RolloutInv, DeleteSet
    PROVE  RolloutInv'
<1> DEFINE s == request.set
<1>1. /\ worker.requests # <<>> /\ Answered /\ request.what = "delete"
      /\ UNCHANGED <<fleet, fleetListed, listed, created>>
      /\ sets' = [sets EXCEPT ![s] = NoSet]
      /\ gameServers' = [gameServers EXCEPT ![s] = NoGameServers]
  BY DEF DeleteSet, Requested
<1>2. TypeInv'
  BY DeleteSetKeepsTypes
<1> HIDE DEF s
<1>3. Existing(sets') = Existing(sets) \ {s} /\ \A t \in Existing(sets') : sets'[t] = sets[t]
  BY <1>1 DEF TypeInv, AreSets, Existing
<1>4. \A t \in Names : t # s => Up(t)' = Up(t)
  BY <1>1 DEF TypeInv, AreGameServers, Up
<1>5. SetsPart'
  <2>1. HasTemplates(sets)'
    BY <1>1, <1>3 DEF RolloutInv, SetsPart, HasTemplates, Existing
  <2>2. HasTemplates(listed)'
    BY <1>1 DEF RolloutInv, SetsPart, HasTemplates, Existing
  <2>3. (created >= 1)'
    BY <1>1 DEF RolloutInv, SetsPart
  <2> QED BY <2>1, <2>2, <2>3 DEF SetsPart
<1>6. OldSetIsCounted'
  BY <1>1, <1>3, <1>4 DEF RolloutInv, OldSetIsCounted, Existing
<1>7. Size(sets', 1) <= Size(sets, 1) /\ Size(sets', 1) \in Nat /\ Size(sets, 1) \in Nat
  BY <1>3, SizesAreTyped DEF Size
<1>8. Newer(sets') \in SUBSET Newer(sets)
  BY <1>3 DEF Newer
<1>9. Cardinality(Newer(sets')) <= Cardinality(Newer(sets))
  BY <1>8, SizesAreTyped, FS_Subset
<1>10. ASSUME NEW t \in Newer(sets') PROVE sets'[t].replicas + Size(sets', 1) <= Limit
  <2>1. t \in Newer(sets) /\ t \in Existing(sets) /\ sets'[t] = sets[t]
    BY <1>3, <1>8 DEF Newer
  <2>2. sets[t].replicas + Size(sets, 1) <= Limit /\ sets[t].replicas \in Nat /\ Limit \in Nat
    BY <2>1, SizesAreTyped DEF RolloutInv, SizesPart
  <2> QED BY <1>7, <2>1, <2>2
<1> QED BY <1>1, <1>2, <1>5, <1>6, <1>7, <1>9, <1>10, AfterARequest

LEMMA CreateKeepsRollout ==
    ASSUME TypeInv, RolloutInv, CreateSet
    PROVE  RolloutInv'
<1> DEFINE s == created + 1
           x == NewSet(worker.template, request.replicas)
<1>1. /\ worker.requests # <<>> /\ Answered /\ request.what = "create" /\ request.replicas >= 0
      /\ UNCHANGED <<fleet, fleetListed, listed, gameServers>>
      /\ created < MaxSets /\ created' = s
      /\ sets' = [sets EXCEPT ![s] = x]
  BY DEF CreateSet, Requested
<1>2. /\ request.replicas <= 0 \/ request.replicas + Size(sets, 1) <= Limit
      /\ worker.template = fleet.template /\ fleet.template # 1
  BY <1>1, DuringTheRollout DEF Fits
<1>3. TypeInv'
  BY CreateSetKeepsTypes
<1>4. request.replicas \in Nat
  BY <1>1, NextRequest DEF TypeInv, Asks
<1>5. x.template = fleet.template /\ x.replicas = request.replicas /\ x # NoSet
  <2>1. "replicas" \in DOMAIN x /\ "replicas" \notin DOMAIN NoSet
    BY DEF NewSet, NoSet
  <2> QED BY <1>2, <2>1 DEF NewSet
<1>6. sets \in [Names -> GameServerSets] /\ s \in Names /\ s # 1 /\ s \notin Existing(sets) /\ s >= 1
  <2>1. created \in Nat /\ created >= 1 /\ Existing(sets) \subseteq 1..created /\ MaxSets \in Nat
    BY FleetAssumption DEF TypeInv, AreSets, RolloutInv, SetsPart
  <2> QED BY <1>1, <2>1 DEF TypeInv, AreSets, Names
<1> HIDE DEF x, s
<1>7. Existing(sets') = Existing(sets) \cup {s} /\ sets'[s] = x /\ \A t \in Existing(sets) : sets'[t] = sets[t]
  BY <1>1, <1>5, <1>6 DEF Existing
<1>8. SetsPart'
  <2>1. HasTemplates(sets)'
    BY <1>1, <1>5, <1>6, <1>7 DEF RolloutInv, SetsPart, HasTemplates, Existing
  <2>2. HasTemplates(listed)'
    BY <1>1 DEF RolloutInv, SetsPart, HasTemplates, Existing
  <2>3. (created >= 1)'
    BY <1>1, <1>6
  <2> QED BY <2>1, <2>2, <2>3 DEF SetsPart
<1>9. OldSetIsCounted'
  BY <1>1, <1>6, <1>7 DEF RolloutInv, OldSetIsCounted, Existing, Up
<1>10. Size(sets', 1) = Size(sets, 1) /\ Size(sets, 1) \in Nat /\ Limit \in Nat
  BY <1>6, <1>7, SizesAreTyped DEF Size
<1>11. Newer(sets') = Newer(sets) \cup {s} /\ s \notin Newer(sets)
  BY <1>6, <1>7 DEF Newer
<1>12. Cardinality(Newer(sets')) = Cardinality(Newer(sets)) + 1
  BY <1>11, SizesAreTyped, FS_AddElement
<1>13. ASSUME NEW t \in Newer(sets') PROVE sets'[t].replicas + Size(sets', 1) <= Limit
  <2>1. CASE t = s
    BY <1>2, <1>4, <1>5, <1>7, <1>10, <2>1 DEF RolloutInv, SizesPart
  <2>2. CASE t # s
    BY <1>7, <1>10, <1>11, <2>2 DEF RolloutInv, SizesPart, Newer
  <2> QED BY <2>1, <2>2
<1>14. Size(sets', 1) <= Size(sets, 1)
  BY <1>10
<1>15. UNCHANGED <<fleet, fleetListed, listed>> /\ request.what = "create" /\ worker.requests # <<>> /\ Answered
  BY <1>1
<1> QED BY <1>3, <1>8, <1>9, <1>12, <1>13, <1>14, <1>15, AfterARequest

LEMMA FewerAreMade ==
    ASSUME TypeInv, NoChange
    PROVE  Made \in Int /\ Cardinality(Newer(sets)) - used'.earlySyncs <= Made
BY SizesAreTyped DEF Made, NoChange

LEMMA OtherRequestsKeepRollout ==
    ASSUME TypeInv, TypeInv', RolloutInv, StatusDefaults \/ RequestIsRefused
    PROVE  RolloutInv'
<1>1. /\ worker.requests # <<>> /\ (Answered \/ RequestFails)
      /\ UNCHANGED <<fleet, fleetListed, sets, listed, gameServers, created>>
  BY DEF StatusDefaults, RequestIsRefused, Requested
<1>2. NoChange
  BY UseKeepsChanges DEF StatusDefaults, RequestIsRefused, Answered, TypeInv
<1>3. /\ AllFit(worker'.requests, worker'.seen, Size(sets, 1), Made)
      /\ worker'.requests # <<>> => worker'.template = worker.template
  BY <1>1, AnsweredFits, DuringTheRollout
<1>4. worker'.requests # <<>> => fleetListed.template # 1 /\ worker'.template = fleet.template
  BY <1>1, <1>3, DuringTheRollout
<1>5. Made \in Int /\ Cardinality(Newer(sets)) - used'.earlySyncs <= Made
  BY <1>2, FewerAreMade
<1> QED BY <1>1, <1>2, <1>3, <1>4, <1>5, OnlyTheQueue

\* Only what the Fleet reports changes, and the queue is empty.
LEMMA UpdateStatusKeepsRollout ==
    ASSUME TypeInv, TypeInv', RolloutInv, updateFleetStatus
    PROVE  RolloutInv'
<1>1. /\ UNCHANGED <<fleetListed, sets, listed, gameServers, created>>
      /\ worker' = NoWork
      /\ fleet'.replicas = fleet.replicas /\ fleet'.template = fleet.template
  BY DEF updateFleetStatus, Retry, TypeInv, Fleets
<1>2. NoChange
  BY UseKeepsChanges DEF updateFleetStatus, TypeInv
<1>3. worker'.requests = <<>>
  BY <1>1 DEF NoWork
<1>4. FleetPart' /\ SetsPart' /\ OldSetIsCounted'
  BY <1>1, <1>2 DEF RolloutInv, FleetPart, SetsPart, HasTemplates, OldSetIsCounted, Existing, Up, NoChange
<1>5. QueuePart' /\ SizesPart'
  BY <1>1, <1>2, <1>3, FewerAreMade, NothingFits, SizesStay DEF RolloutInv, Existing
<1>6. fleetListed'.template = 1 => Before'
  BY <1>1, <1>3 DEF RolloutInv, Before, Existing
<1> QED BY <1>4, <1>5, <1>6 DEF RolloutInv

LEMMA FleetObservedKeepsRollout ==
    ASSUME TypeInv, RolloutInv, FleetObserved
    PROVE  RolloutInv'
<1>1. fleetListed' = fleet /\ UNCHANGED <<fleet, sets, listed, gameServers, worker, used, created>>
  BY DEF FleetObserved
<1>2. FleetPart' /\ SetsPart' /\ OldSetIsCounted'
  BY <1>1 DEF RolloutInv, FleetPart, SetsPart, HasTemplates, OldSetIsCounted, Existing, Up
<1>3. QueuePart' /\ SizesPart'
  BY <1>1 DEF RolloutInv, QueuePart, SizesPart, Size, Newer, Made, Existing, Limit
<1>4. fleetListed'.template = 1 => Before'
  BY <1>1 DEF RolloutInv, FleetPart, Before, Existing
<1> QED BY <1>2, <1>3, <1>4 DEF RolloutInv

\* The lister catches up: what it shows is what there is.
LEMMA CaughtUp ==
    ASSUME TypeInv, TypeInv', RolloutInv, listed' = sets, fleetListed' = fleet \/ fleetListed' = fleetListed,
           UNCHANGED <<fleet, sets, gameServers, created>>, NoChange,
           worker' = worker \/ worker' = NoWork
    PROVE  RolloutInv'
<1>1. FleetPart' /\ SetsPart'
  BY DEF RolloutInv, FleetPart, SetsPart, HasTemplates, Existing, NoChange
<1>2. OldSetIsCounted'
  <2> SUFFICES ASSUME 1 \in Existing(sets)
               PROVE  /\ sets[1].replicas <= Up(1) /\ sets[1].replicas <= sets[1].status.replicas
                      /\ sets[1].replicas <= sets[1].replicas
    BY DEF OldSetIsCounted, Existing, Up
  <2>1. sets[1].replicas \in Nat
    BY ExistingIsSized DEF SomeSetsAreSized, TypeInv, AreSets
  <2> QED BY <2>1 DEF RolloutInv, OldSetIsCounted
<1>3. QueuePart' /\ SizesPart'
  <2>1. NoWork.requests = <<>>
    BY DEF NoWork
  <2>2. /\ worker'.requests # <<>> => worker'.template = fleet.template
        /\ AllFit(worker'.requests, worker'.seen, Size(sets, 1), Made)
    BY <2>1, NothingFits DEF RolloutInv, QueuePart
  <2> QED BY <2>2, FewerAreMade, SizesStay DEF RolloutInv, Existing
<1>5. fleetListed'.template = 1 => Before'
  <2> SUFFICES ASSUME fleetListed'.template = 1 PROVE Before'
    OBVIOUS
  <2>1. fleetListed.template = 1
    BY DEF RolloutInv, FleetPart
  <2>2. Before
    BY <2>1 DEF RolloutInv
  <2>3. worker'.requests = <<>>
    BY <2>2 DEF Before, NoWork
  <2> QED BY <2>2, <2>3 DEF Before, Existing
<1> QED BY <1>1, <1>2, <1>3, <1>5 DEF RolloutInv

LEMMA InformersKeepRollout ==
    ASSUME TypeInv, TypeInv', RolloutInv, SetsObserved \/ Resync \/ Restart
    PROVE  RolloutInv'
<1>1. CASE SetsObserved
  <2>1. listed' = sets /\ UNCHANGED <<fleet, fleetListed, sets, gameServers, worker, used, created>>
    BY <1>1 DEF SetsObserved
  <2>2. NoChange
    BY <2>1, UseKeepsChanges DEF TypeInv
  <2> QED BY <2>1, <2>2, CaughtUp
<1>2. CASE Resync
  <2>1. UNCHANGED <<fleet, fleetListed, sets, listed, gameServers, worker, used, created>>
    BY <1>2 DEF Resync
  <2>2. /\ worker.requests # <<>> => fleetListed.template # 1 /\ worker.template = fleet.template
        /\ AllFit(worker.requests, worker.seen, Size(sets, 1), Made)
    BY DuringTheRollout DEF RolloutInv, QueuePart
  <2>3. NoChange
    BY <2>1, UseKeepsChanges DEF TypeInv
  <2> QED BY <2>1, <2>2, <2>3, FewerAreMade, OnlyTheQueue
<1>3. CASE Restart
  <2>1. /\ listed' = sets /\ fleetListed' = fleet /\ worker' = NoWork
        /\ UNCHANGED <<fleet, sets, gameServers, created>>
    BY <1>3 DEF Restart
  <2>2. NoChange
    BY <1>3, UseKeepsChanges DEF Restart, TypeInv
  <2> QED BY <2>1, <2>2, CaughtUp
<1> QED BY <1>1, <1>2, <1>3

\* GameServers of the old set go only when there are more than it is to have.
LEMMA CountsKeepRollout ==
    ASSUME TypeInv, TypeInv', RolloutInv, NEW s \in Existing(sets),
           UNCHANGED <<fleet, fleetListed, sets, listed, queued, worker, created>>,
           NoChange,
           \A t \in Existing(sets) : sets[t].replicas <= Up(t) => sets[t].replicas <= Up(t)'
    PROVE  RolloutInv'
<1>1. FleetPart' /\ SetsPart' /\ QueuePart' /\ SizesPart'
  <2>1. FleetPart' /\ SetsPart'
    BY DEF RolloutInv, FleetPart, SetsPart, HasTemplates, Existing, NoChange
  <2>2. QueuePart' /\ SizesPart'
    BY FewerAreMade, SizesStay DEF RolloutInv, QueuePart, Existing
  <2> QED BY <2>1, <2>2
<1>2. OldSetIsCounted'
  BY DEF RolloutInv, OldSetIsCounted, Existing
<1>3. fleetListed'.template = 1 => Before'
  BY DEF RolloutInv, Before, Existing
<1> QED BY <1>1, <1>2, <1>3 DEF RolloutInv

LEMMA CountsOfUp ==
    ASSUME TypeInv, NEW s \in Existing(sets),
           NEW from \in {"none", "starting", "ready", "shutdown"},
           NEW to \in {"none", "starting", "ready", "allocated", "shutdown"},
           NEW n \in Nat, Counts(s, from, to, n)
    PROVE  /\ UNCHANGED <<fleet, fleetListed, sets, listed, queued, worker, created>>
           /\ \A t \in Names : t # s => Up(t)' = Up(t)
           /\ Up(s)' = Up(s) + ((IF to \in {"starting", "ready", "allocated"} THEN n ELSE 0)
                                - (IF from \in {"starting", "ready"} THEN n ELSE 0))
           /\ Up(s) \in Nat /\ s \in Names
<1> DEFINE c == gameServers[s]
           moved(x) == c[x] + (IF x = to THEN n ELSE 0) - (IF x = from THEN n ELSE 0)
           d == [x \in DOMAIN c |-> moved(x)]
<1>1. s \in Names /\ gameServers \in [Names -> GameServerCounts] /\ c \in GameServerCounts
  BY DEF TypeInv, AreGameServers, Existing
<1>2. /\ gameServers' = [gameServers EXCEPT ![s] = d]
      /\ UNCHANGED <<fleet, fleetListed, sets, listed, queued, worker, created>>
  BY DEF Counts
<1>3. DOMAIN c = {"starting", "ready", "allocated", "shutdown"}
  BY <1>1 DEF GameServerCounts
<1>4. c.starting \in Nat /\ c.ready \in Nat /\ c.allocated \in Nat
  BY <1>1 DEF GameServerCounts
<1>5. /\ d.starting = c.starting + ((IF "starting" = to THEN n ELSE 0) - (IF "starting" = from THEN n ELSE 0))
      /\ d.ready = c.ready + ((IF "ready" = to THEN n ELSE 0) - (IF "ready" = from THEN n ELSE 0))
      /\ d.allocated = c.allocated + ((IF "allocated" = to THEN n ELSE 0) - (IF "allocated" = from THEN n ELSE 0))
  BY <1>3, <1>4
<1> HIDE DEF d, moved
<1>6. gameServers'[s] = d /\ \A t \in Names : t # s => gameServers'[t] = gameServers[t]
  BY <1>1, <1>2
<1>7. Up(s) = (c.starting + c.ready) + c.allocated /\ Up(s)' = (d.starting + d.ready) + d.allocated
  BY <1>6 DEF Up
<1>8. \A t \in Names : t # s => Up(t)' = Up(t)
  BY <1>6 DEF Up
<1> HIDE DEF c
<1>9. Up(s)' = Up(s) + ((IF to \in {"starting", "ready", "allocated"} THEN n ELSE 0)
                        - (IF from \in {"starting", "ready"} THEN n ELSE 0))
  BY <1>4, <1>5, <1>7
<1> QED BY <1>1, <1>2, <1>4, <1>7, <1>8, <1>9

LEMMA GameServersKeepRollout ==
    ASSUME TypeInv, RolloutInv, NEW s \in Existing(sets),
           Grows(s) \/ Shrinks(s) \/ Starts(s) \/ IsRemoved(s) \/ Allocated(s)
    PROVE  RolloutInv'
<1>1. TypeInv'
  BY GameServersKeepTypes DEF Progresses
<1>2. /\ sets[s].replicas \in Nat /\ gameServers[s].shutdown \in Nat /\ Up(s) \in Nat
      /\ \A t \in Existing(sets) : t \in Names
  BY ExistingIsSized, StatusOfIsTyped
     DEF SomeSetsAreSized, TypeInv, AreSets, AreGameServers, GameServerCounts, Existing
<1>3. CASE Grows(s)
  <2>1. Counts(s, "none", "starting", sets[s].replicas - Up(s)) /\ used' = used
        /\ sets[s].replicas - Up(s) \in Nat
    BY <1>2, <1>3 DEF Grows
  <2>2. /\ UNCHANGED <<fleet, fleetListed, sets, listed, queued, worker, created>>
        /\ \A t \in Names : t # s => Up(t)' = Up(t)
        /\ Up(s)' = Up(s) + (sets[s].replicas - Up(s))
    BY <2>1, CountsOfUp
  <2>3. NoChange
    BY <2>1, UseKeepsChanges DEF TypeInv
  <2> QED BY <1>1, <1>2, <2>1, <2>2, <2>3, CountsKeepRollout
<1>4. CASE Shrinks(s)
  <2>1. PICK from \in {"starting", "ready"} : Counts(s, from, "shutdown", 1)
    BY <1>4 DEF Shrinks
  <2>2. /\ UNCHANGED <<fleet, fleetListed, sets, listed, queued, worker, created>>
        /\ \A t \in Names : t # s => Up(t)' = Up(t)
        /\ Up(s)' = Up(s) + (0 - 1)
    BY <2>1, CountsOfUp
  <2>3. Up(s) > sets[s].replicas /\ used' = used
    BY <1>4 DEF Shrinks
  <2>4. sets[s].replicas <= Up(s)'
    BY <1>2, <2>2, <2>3
  <2>5. NoChange
    BY <2>3, UseKeepsChanges DEF TypeInv
  <2> QED BY <1>1, <1>2, <2>2, <2>4, <2>5, CountsKeepRollout
<1>5. CASE Starts(s) \/ IsRemoved(s) \/ Allocated(s)
  <2>1. \/ Counts(s, "starting", "ready", 1)
        \/ Counts(s, "shutdown", "none", gameServers[s].shutdown)
        \/ Counts(s, "ready", "allocated", 1)
    BY <1>5 DEF Starts, IsRemoved, Allocated
  <2>2. NoChange
    BY <1>5, UseKeepsChanges DEF Starts, IsRemoved, Allocated, TypeInv
  <2>3. /\ UNCHANGED <<fleet, fleetListed, sets, listed, queued, worker, created>>
        /\ \A t \in Names : t # s => Up(t)' = Up(t)
        /\ Up(s)' = Up(s)
    <3>1. CASE Counts(s, "starting", "ready", 1)
      <4>1. Up(s)' = Up(s) + (1 - 1)
        BY <3>1, CountsOfUp
      <4> QED BY <1>2, <3>1, <4>1, CountsOfUp
    <3>2. CASE Counts(s, "shutdown", "none", gameServers[s].shutdown)
      <4>1. Up(s)' = Up(s) + (0 - 0)
        BY <1>2, <3>2, CountsOfUp
      <4> QED BY <1>2, <3>2, <4>1, CountsOfUp
    <3>3. CASE Counts(s, "ready", "allocated", 1)
      <4>1. Up(s)' = Up(s) + (1 - 1)
        BY <3>3, CountsOfUp
      <4> QED BY <1>2, <3>3, <4>1, CountsOfUp
    <3> QED BY <2>1, <3>1, <3>2, <3>3
  <2> QED BY <1>1, <1>2, <2>2, <2>3, CountsKeepRollout
<1> QED BY <1>3, <1>4, <1>5

LEMMA ReportsKeepsRollout ==
    ASSUME TypeInv, TypeInv', RolloutInv, NEW s \in Existing(sets), Reports(s)
    PROVE  RolloutInv'
<1> DEFINE x == [sets[s] EXCEPT !.status = StatusOf(s)]
<1>1. /\ sets' = [sets EXCEPT ![s] = x]
      /\ UNCHANGED <<fleet, fleetListed, listed, gameServers, queued, worker, used, created>>
  BY DEF Reports
<1>2. sets \in [Names -> GameServerSets] /\ s \in Names /\ sets[s] \in SetRecords
  BY ExistingIsSized DEF TypeInv, AreSets, Existing, SomeSetsAreSized, SetRecords
<1>3. StatusOf(s) \in SetStatuses /\ StatusOf(s).replicas = Up(s)
  BY <1>2, StatusOfIsTyped DEF StatusOf
<1>4. /\ x \in SetRecords /\ x.replicas = sets[s].replicas /\ x.template = sets[s].template
      /\ x.status.replicas = Up(s)
  BY <1>2, <1>3 DEF SetRecords
<1> HIDE DEF x
<1>5. /\ Existing(sets') = Existing(sets) /\ sets'[s] = x
      /\ \A t \in Existing(sets) : t # s => sets'[t] = sets[t]
  <2>1. x # NoSet
    BY <1>4, NoSetIsNoGameServerSet DEF SetRecords
  <2> QED BY <1>1, <1>2, <2>1 DEF Existing
<1>6. \A t \in Existing(sets) : sets'[t].replicas = sets[t].replicas /\ sets'[t].template = sets[t].template
  BY <1>4, <1>5
<1>7. FleetPart'
  BY <1>1 DEF RolloutInv, FleetPart
<1>8. SetsPart'
  <2>1. HasTemplates(sets)' /\ HasTemplates(listed)'
    BY <1>1, <1>5, <1>6 DEF RolloutInv, SetsPart, HasTemplates, Existing
  <2>2. (created >= 1)'
    BY <1>1 DEF RolloutInv, SetsPart
  <2> QED BY <2>1, <2>2 DEF SetsPart
<1>9. OldSetIsCounted'
  <2> SUFFICES ASSUME 1 \in Existing(sets)
               PROVE  /\ sets'[1].replicas <= Up(1) /\ sets'[1].replicas <= sets'[1].status.replicas
                      /\ 1 \in Existing(listed) /\ sets'[1].replicas <= listed[1].status.replicas
                      /\ sets'[1].replicas <= listed[1].replicas
    BY <1>1, <1>5 DEF OldSetIsCounted, Existing, Up
  <2>1. /\ sets[1].replicas <= Up(1) /\ sets[1].replicas <= sets[1].status.replicas
        /\ 1 \in Existing(listed) /\ sets[1].replicas <= listed[1].status.replicas
        /\ sets[1].replicas <= listed[1].replicas
    BY DEF RolloutInv, OldSetIsCounted
  <2>2. sets'[1].replicas = sets[1].replicas
    BY <1>6
  <2>3. sets'[1].status.replicas = Up(1) \/ sets'[1] = sets[1]
    BY <1>4, <1>5
  <2> QED BY <2>1, <2>2, <2>3
<1>10. NoChange
  BY <1>1, UseKeepsChanges DEF TypeInv
<1>11. QueuePart' /\ SizesPart'
  BY <1>1, <1>5, <1>6, <1>10, FewerAreMade, SizesStay DEF RolloutInv, QueuePart
<1>12. fleetListed'.template = 1 => Before'
  BY <1>1, <1>5, <1>6 DEF RolloutInv, Before, Existing
<1> QED BY <1>7, <1>8, <1>9, <1>11, <1>12 DEF RolloutInv

\* The one edit comes before the new template is seen, and gives the Fleet another one.
LEMMA ChangeStartsRollout ==
    ASSUME TypeInv, RolloutInv, OneRollout, NEW replicas \in Replicas, NEW template \in Templates,
           ChangeFleet(replicas, template), used.changes = 0
    PROVE  RolloutInv'
<1>1. /\ fleet' = [fleet EXCEPT !.replicas = replicas, !.template = template]
      /\ UNCHANGED <<fleetListed, sets, listed, gameServers, queued, worker, created>>
      /\ <<replicas, template>> # <<fleet.replicas, fleet.template>>
      /\ used'.changes = used.changes + 1
  BY DEF ChangeFleet, Use, TypeInv, Uses
<1>2. fleet.template = 1 /\ fleetListed.template = 1 /\ fleet.replicas = InitialReplicas
  BY DEF RolloutInv, FleetPart
<1>3. replicas = InitialReplicas /\ template # 1
  BY <1>1, <1>2 DEF OneRollout
<1>4. fleet'.replicas = InitialReplicas /\ fleet'.template = template
  <2> DEFINE sized == [fleet EXCEPT !.replicas = replicas]
  <2>1. sized \in Fleets /\ sized.replicas = replicas
    BY FleetAssumption DEF TypeInv, Fleets
  <2>2. fleet' = [sized EXCEPT !.template = template]
    BY <1>1
  <2> HIDE DEF sized
  <2>3. fleet'.replicas = replicas /\ fleet'.template = template
    BY <2>1, <2>2 DEF Fleets
  <2> QED BY <1>3, <2>3
<1>5. Before /\ SetsPart
  BY <1>2 DEF RolloutInv
<1>6. FleetPart'
  BY <1>1, <1>2, <1>4 DEF RolloutInv, FleetPart
<1>7. SetsPart'
  <2>1. Existing(sets) \subseteq {1} /\ Existing(listed) \subseteq {1}
    <3>1. Existing(sets) \subseteq 1..1 /\ Existing(listed) \subseteq 1..1
      BY <1>5 DEF Before, TypeInv, AreSets
    <3> QED BY <3>1
  <2> QED BY <1>1, <1>5, <2>1 DEF SetsPart, HasTemplates, Existing
<1>8. OldSetIsCounted' /\ SizesPart'
  <2>1. OldSetIsCounted'
    BY <1>1 DEF RolloutInv, OldSetIsCounted, Existing, Up
  <2>2. used'.earlySyncs = used.earlySyncs
    BY DEF ChangeFleet, Use, TypeInv, Uses
  <2>3. Made' = Made /\ Newer(sets)' = Newer(sets) /\ Size(sets, 1)' = Size(sets, 1) /\ Limit' = Limit
    BY <1>1, <2>2 DEF Made, Newer, Size, Existing, Limit
  <2>4. SizesPart'
    BY <1>1, <2>3 DEF RolloutInv, SizesPart
  <2> QED BY <2>1, <2>4
<1>9. QueuePart' /\ Before'
  BY <1>1, <1>5, NothingFits DEF QueuePart, Before, Existing
<1> QED BY <1>6, <1>7, <1>8, <1>9 DEF RolloutInv

LEMMA InitStartsBefore ==
    ASSUME Init, OneRollout
    PROVE  RolloutInv
<1> DEFINE n == InitialReplicas
           status == [NoStatus EXCEPT !.replicas = n, !.ready = n]
           x == [NewSet(1, n) EXCEPT !.status = status]
           c == [NoGameServers EXCEPT !.ready = n]
<1>1. n \in Nat /\ MaxSurge \in Nat /\ MaxSets \in Nat \ {0}
  BY FleetAssumption
<1>2. /\ fleet = [replicas |-> n, template |-> 1,
                  status |-> [replicas |-> n, ready |-> n, allocated |-> 0]]
      /\ fleetListed = fleet
      /\ sets = [s \in Names |-> IF s > 1 THEN NoSet ELSE x]
      /\ listed = sets
      /\ gameServers = [s \in Names |-> IF s > 1 THEN NoGameServers ELSE c]
      /\ worker = NoWork
      /\ created = 1
  BY DEF Init, OneRollout
<1>3. status.replicas = n
  <2> DEFINE one == [NoStatus EXCEPT !.replicas = n]
  <2>1. one = [replicas |-> n, ready |-> 0, allocated |-> 0, shutdown |-> 0]
    BY DEF NoStatus
  <2>2. status = [one EXCEPT !.ready = n]
    OBVIOUS
  <2> HIDE DEF one
  <2> QED BY <2>1, <2>2
<1> HIDE DEF status
<1>4. x = [template |-> 1, replicas |-> n, status |-> status]
  BY DEF NewSet
<1>5. c = [starting |-> 0, ready |-> n, allocated |-> 0, shutdown |-> 0]
  BY DEF NoGameServers
<1>6. x # NoSet
  <2>1. "replicas" \in DOMAIN x /\ "replicas" \notin DOMAIN NoSet
    BY <1>4 DEF NoSet
  <2> QED BY <2>1
<1>7. 1 \in Names /\ \A s \in Names : s = 1 \/ s > 1
  BY <1>1 DEF Names
<1> HIDE DEF x, c
<1>8. Existing(sets) = {1} /\ Existing(listed) = {1} /\ sets[1] = x /\ listed[1] = x
  BY <1>2, <1>6, <1>7 DEF Existing
<1>9. Up(1) = n
  BY <1>1, <1>2, <1>5, <1>7 DEF Up
<1>10. FleetPart /\ SetsPart /\ OldSetIsCounted
  BY <1>1, <1>2, <1>3, <1>4, <1>8, <1>9 DEF FleetPart, SetsPart, HasTemplates, OldSetIsCounted
<1>11. QueuePart /\ Before
  BY <1>2, <1>4, <1>8, NothingFits DEF QueuePart, Before, NoWork
<1>12. SizesPart
  <2>1. Newer(sets) = {} /\ used.earlySyncs = 0
    BY <1>8 DEF Newer, Init
  <2>2. Made = 0
    BY <2>1, FS_EmptySet DEF Made
  <2> QED BY <1>1, <1>4, <1>8, <2>1, <2>2 DEF SizesPart, Size, Limit
<1> QED BY <1>10, <1>11, <1>12 DEF RolloutInv

LEMMA SurgeStep ==
    ASSUME OneRollout, TypeInv, SurgeInv, [Next]_vars
    PROVE  SurgeInv'
<1> SUFFICES ASSUME used'.changes <= 1 PROVE RolloutInv'
  BY DEF SurgeInv
<1>0. TypeInv'
  BY NextKeepsTypes
<1>1. used.changes \in Nat
  BY DEF TypeInv, Uses
<1>2. CASE \E replicas \in Replicas, template \in Templates : ChangeFleet(replicas, template)
  <2>1. used'.changes = used.changes + 1
    BY <1>2 DEF ChangeFleet, Use, TypeInv, Uses
  <2>2. used.changes = 0 /\ RolloutInv
    BY <1>1, <2>1 DEF SurgeInv
  <2> QED BY <1>2, <2>2, ChangeStartsRollout
<1>3. ASSUME used'.changes = used.changes PROVE RolloutInv
  BY <1>3 DEF SurgeInv
<1>4. CASE syncFleet
  <2>1. used'.changes = used.changes
    BY <1>4, UseKeepsChanges DEF syncFleet, TypeInv, NoChange
  <2> QED BY <1>0, <1>3, <1>4, <2>1, SyncKeepsRollout
<1>5. CASE Work
  <2>1. used'.changes = used.changes
    BY <1>5, UseKeepsChanges
       DEF Work, UpdateReplicas, DeleteSet, CreateSet, StatusDefaults, RequestIsRefused,
           updateFleetStatus, Answered, TypeInv, NoChange
  <2> QED BY <1>0, <1>3, <1>5, <2>1, UpdateKeepsRollout, DeleteKeepsRollout, CreateKeepsRollout,
             OtherRequestsKeepRollout, UpdateStatusKeepsRollout DEF Work
<1>6. CASE FleetObserved \/ SetsObserved \/ Resync \/ Restart
  <2>1. used'.changes = used.changes
    BY <1>6, UseKeepsChanges DEF FleetObserved, SetsObserved, Resync, Restart, TypeInv, NoChange
  <2> QED BY <1>0, <1>3, <1>6, <2>1, FleetObservedKeepsRollout, InformersKeepRollout
<1>7. CASE \E s \in Existing(sets) : Progresses(s) \/ Allocated(s)
  <2>1. PICK s \in Existing(sets) : Progresses(s) \/ Allocated(s)
    BY <1>7
  <2>2. used'.changes = used.changes
    BY <2>1, UseKeepsChanges
       DEF Progresses, Grows, Shrinks, Starts, IsRemoved, Reports, Allocated, TypeInv, NoChange
  <2> QED BY <1>0, <1>3, <2>1, <2>2, GameServersKeepRollout, ReportsKeepsRollout DEF Progresses
<1>8. CASE UNCHANGED vars
  <2>1. RolloutInv /\ UNCHANGED <<fleet, fleetListed, sets, listed, gameServers, created, worker, used>>
    BY <1>3, <1>8 DEF vars
  <2>2. /\ worker.requests # <<>> => fleetListed.template # 1 /\ worker.template = fleet.template
        /\ AllFit(worker.requests, worker.seen, Size(sets, 1), Made)
    BY <2>1, DuringTheRollout DEF RolloutInv, QueuePart
  <2>3. NoChange
    BY <2>1, UseKeepsChanges DEF TypeInv
  <2> QED BY <1>0, <2>1, <2>2, <2>3, FewerAreMade, OnlyTheQueue
<1> QED BY <1>2, <1>4, <1>5, <1>6, <1>7, <1>8 DEF Next

LEMMA SumOfASize ==
    ASSUME TypeInv, NEW s \in Existing(sets), NEW S, S = {s}
    PROVE  SumOver(S, LAMBDA t : sets[t].replicas) = sets[s].replicas
<1> DEFINE g == [t \in S |-> sets[t].replicas]
<1>1. SumOver(S, LAMBDA t : sets[t].replicas) = FoldFunctionOnSet(+, 0, g, S)
  BY DEF SumOver
<1>2. g \in [S -> Nat] /\ g[s] = sets[s].replicas
  BY SizesAreTyped
<1> HIDE DEF g
<1>3. FoldFunctionOnSet(+, 0, g, S) = g[s]
  BY <1>2, SumOfOne
<1> QED BY <1>1, <1>2, <1>3

LEMMA SumOfTwoSizes ==
    ASSUME TypeInv, NEW a \in Existing(sets), NEW b \in Existing(sets), a # b, NEW S, S = {a, b}
    PROVE  SumOver(S, LAMBDA t : sets[t].replicas) = sets[a].replicas + sets[b].replicas
<1> DEFINE g == [t \in S |-> sets[t].replicas]
<1>1. SumOver(S, LAMBDA t : sets[t].replicas) = FoldFunctionOnSet(+, 0, g, S)
  BY DEF SumOver
<1>2. g \in [S -> Nat] /\ g[a] = sets[a].replicas /\ g[b] = sets[b].replicas
  BY SizesAreTyped
<1> HIDE DEF g
<1>3. g \in [S -> Nat]
  BY <1>2
<1>4. FoldFunctionOnSet(+, 0, g, S) = g[a] + g[b]
  BY <1>3, SumOfTwo, Zenon
<1> QED BY <1>1, <1>2, <1>4

LEMMA SurgeInvBounds ==
    ASSUME TypeInv, RolloutInv
    PROVE  /\ Cardinality(NewSets) <= 1 + used.earlySyncs
           /\ \A s \in NewSets : WithinSurge((Existing(sets) \ NewSets) \cup {s})
<1> DEFINE bounded(S) == SumOver(S, LAMBDA t : sets[t].replicas) <= InitialReplicas + MaxSurge
<1>1. \A S : WithinSurge(S) = bounded(S)
  BY DEF WithinSurge
<1>2. /\ Size(sets, 1) \in Nat /\ Limit \in Nat /\ used.earlySyncs \in Nat
      /\ \A s \in Existing(sets) : sets[s].replicas \in Nat
      /\ Cardinality(Newer(sets)) \in Nat
  BY SizesAreTyped
<1>3. Limit = InitialReplicas + MaxSurge
  BY DEF Limit
<1>4. HasTemplates(sets)
  BY DEF RolloutInv, SetsPart
<1> HIDE DEF bounded
<1>5. CASE fleet.template = 1
  <2>1. Before
    BY <1>5 DEF RolloutInv, FleetPart
  <2>2. Existing(sets) = {1}
    <3>1. Existing(sets) \subseteq 1..1
      BY <2>1 DEF Before, TypeInv, AreSets
    <3> QED BY <2>1, <3>1 DEF Before
  <2>3. NewSets = {1}
    BY <1>4, <1>5, <2>2 DEF NewSets, HasTemplates
  <2>4. Cardinality(NewSets) = 1
    BY <2>3, FS_Singleton
  <2>5. bounded({1})
    <3>1. 1 \in Existing(sets)
      BY <2>2
    <3>2. SumOver({1}, LAMBDA t : sets[t].replicas) = sets[1].replicas
      BY <3>1, SumOfASize
    <3>3. Size(sets, 1) = sets[1].replicas /\ Size(sets, 1) <= Limit
      BY <2>2 DEF Size, RolloutInv, SizesPart
    <3> QED BY <1>2, <1>3, <3>2, <3>3 DEF bounded
  <2>6. (Existing(sets) \ NewSets) \cup {1} = {1}
    BY <2>2, <2>3
  <2> QED BY <1>1, <1>2, <2>3, <2>4, <2>5, <2>6
<1>6. CASE fleet.template # 1
  <2>1. NewSets = Newer(sets)
    BY <1>4, <1>6 DEF NewSets, Newer, HasTemplates
  <2>2. Cardinality(Newer(sets)) <= 1 + used.earlySyncs
    BY <1>2 DEF RolloutInv, SizesPart, Made
  <2>3. ASSUME NEW s \in Newer(sets) PROVE bounded((Existing(sets) \ Newer(sets)) \cup {s})
    <3> DEFINE S == (Existing(sets) \ Newer(sets)) \cup {s}
    <3>1. s \in Existing(sets) /\ s # 1 /\ sets[s].replicas + Size(sets, 1) <= Limit
      BY DEF Newer, RolloutInv, SizesPart
    <3>2. CASE 1 \in Existing(sets)
      <4>1. S = {1, s} /\ S # {s}
        BY <3>1, <3>2 DEF Newer
      <4> HIDE DEF S
      <4>2. SumOver(S, LAMBDA t : sets[t].replicas) = sets[1].replicas + sets[s].replicas
        BY <3>1, <3>2, <4>1, SumOfTwoSizes
      <4>3. Size(sets, 1) = sets[1].replicas
        BY <3>2 DEF Size
      <4>4. sets[1].replicas \in Nat /\ sets[s].replicas \in Nat
        BY <1>2, <3>1, <3>2
      <4>5. bounded(S)
        BY <1>3, <3>1, <4>2, <4>3, <4>4 DEF bounded
      <4> QED BY <4>5 DEF S
    <3>3. CASE 1 \notin Existing(sets)
      <4>1. S = {s}
        BY <3>1, <3>3 DEF Newer
      <4> HIDE DEF S
      <4>2. SumOver(S, LAMBDA t : sets[t].replicas) = sets[s].replicas
        BY <3>1, <4>1, SumOfASize
      <4>3. sets[s].replicas <= Limit /\ sets[s].replicas \in Nat
        BY <1>2, <3>1
      <4>4. bounded(S)
        BY <1>3, <4>2, <4>3 DEF bounded
      <4> QED BY <4>4 DEF S
    <3> QED BY <3>2, <3>3
  <2> QED BY <1>1, <2>1, <2>2, <2>3
<1> QED BY <1>5, <1>6

\* While a Fleet that has come up moves to one other template by rolling updates, its old set
\* and any set of the new template are never to have more than maxSurge GameServers above its
\* size ("make sure we don't end up with more than the configured max surge",
\* controller.go:499): whatever fails or is repeated, and however far the lister and what the
\* sets report are behind.  A lister that does not show a created set yet makes another one
\* of the new template ("due to informer
\* cache lag during creation", controller.go:733-734), at most one for each sync that begins then.
THEOREM SurgeHolds == ASSUME OneRollout PROVE Spec => []SizesWithinSurge
<1>1. Init => SurgeInv
  BY InitStartsBefore DEF SurgeInv
<1>2. TypeInv /\ SurgeInv /\ [Next]_vars => SurgeInv'
  BY SurgeStep
<1>3. TypeInv /\ SurgeInv => SizesWithinSurge
  BY SurgeInvBounds DEF SurgeInv, SizesWithinSurge
<1> QED BY <1>1, <1>2, <1>3, TypesAreInvariant, PTL DEF Spec
=============================================================================
