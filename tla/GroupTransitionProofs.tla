------------------------- MODULE GroupTransitionProofs -------------------------
(***************************************************************************)
(* Theorems about the transition between the groups of two views: for      *)
(* every sequence of views, any window and any bounds, with or without     *)
(* persistence, what a member was given to send is delivered once and in   *)
(* order, under the numbers the receivers count; no buffer gets lost; and  *)
(* two assertions of the code hold.                                        *)
(*                                                                         *)
(* First the operators: sorted maps, turns; then the inductive invariant,  *)
(* action by action; then the theorems.                                    *)
(***************************************************************************)
EXTENDS GroupTransition, FiniteSetTheorems, SequenceTheorems, WellFoundedInduction, TLAPS

-----------------------------------------------------------------------------
(***************************************************************************)
(* Numbers, sequences, functions.                                          *)
(***************************************************************************)
\* A set of natural numbers that is not empty has a least element.
LEMMA Least ==
    ASSUME NEW T, T \subseteq Nat, T # {}
    PROVE  \E m \in T : \A k \in T : m <= k
<1>1. PICK m \in T : \A k \in T : ~ (<<k, m>> \in OpToRel(<, Nat))
    BY WFMin, NatLessThanWellFounded, Zenon
<1>2. \A k \in T : ~ (k < m)
    BY <1>1 DEF OpToRel
<1> QED  BY <1>2

\* A set of integers with an upper bound has a greatest element.
LEMMA Greatest ==
    ASSUME NEW T, T \subseteq Int, T # {}, NEW b \in Int, \A k \in T : k <= b
    PROVE  Max(T) \in T /\ \A k \in T : k <= Max(T)
<1> DEFINE D == {b - k : k \in T}
<1>1. D \subseteq Nat /\ D # {}
    <2>1. \A k \in T : k \in Int /\ b - k \in Nat  OBVIOUS
    <2>2. PICK t \in T : TRUE  OBVIOUS
    <2>3. b - t \in D  BY <2>2
    <2>4. D \subseteq Nat  BY <2>1
    <2> QED  BY <2>3, <2>4
<1>2. PICK d \in D : \A e \in D : d <= e
    <2> HIDE DEF D
    <2> QED  BY <1>1, Least
<1>3. PICK m \in T : d = b - m  BY <1>2
<1>4. \A k \in T : m >= k
    <2> TAKE k \in T
    <2>1. b - k \in D  OBVIOUS
    <2>2. d <= b - k  BY <1>2, <2>1
    <2> QED  BY <1>3, <2>2
<1>5. \E x \in T : \A k \in T : x >= k  BY <1>4
<1>6. Max(T) \in T /\ \A k \in T : Max(T) >= k
    <2> HIDE DEF D
    <2> QED  BY <1>5 DEF Max
<1> QED  BY <1>6

\* Induction over the natural numbers, for a set.
LEMMA NatSet ==
    ASSUME NEW T, 0 \in T, \A n \in Nat : n \in T => n + 1 \in T
    PROVE  Nat \subseteq T
<1> DEFINE Bad == Nat \ T
<1> SUFFICES ASSUME Bad # {} PROVE FALSE  OBVIOUS
<1>1. PICK m \in Bad : \A k \in Bad : m <= k
    <2>1. Bad \subseteq Nat  OBVIOUS
    <2> HIDE DEF Bad
    <2> QED  BY <2>1, Least
<1>2. m # 0  BY <1>1
<1>3. m - 1 \in T  BY <1>1, <1>2
<1> QED  BY <1>1, <1>2, <1>3

\* An optional as a sequence.
LEMMA EmptyToSeq == SetToSeq({}) = <<>>
<1>1. Cardinality({}) = 0  BY FS_EmptySet
<1>2. [1 .. 0 -> {}] = {<<>>}
    <2>1. 1 .. 0 = {}  OBVIOUS
    <2>2. \A f \in [{} -> {}] : f = <<>>  OBVIOUS
    <2>3. <<>> \in [{} -> {}]  OBVIOUS
    <2> QED  BY <2>1, <2>2, <2>3
<1>3. IsInjective(<<>>)  BY DEF IsInjective
<1> QED  BY <1>1, <1>2, <1>3 DEF SetToSeq

LEMMA OneToSeq ==
    ASSUME NEW m
    PROVE  SetToSeq({m}) = <<m>>
<1>1. Cardinality({m}) = 1  BY FS_Singleton
<1>2. [1 .. 1 -> {m}] = {<<m>>}
    <2>1. \A f \in [1 .. 1 -> {m}] : f = <<m>>  OBVIOUS
    <2>2. <<m>> \in [1 .. 1 -> {m}]  OBVIOUS
    <2> QED  BY <2>1, <2>2, Zenon
<1>3. IsInjective(<<m>>)  BY DEF IsInjective
<1>4. \A f : f \in {<<m>>} => f = <<m>>  OBVIOUS
<1> QED  BY <1>1, <1>2, <1>3, <1>4 DEF SetToSeq

-----------------------------------------------------------------------------
(***************************************************************************)
(* Sorted maps.                                                            *)
(***************************************************************************)
\* A map: a finite set of entries with integers as keys, each of them once.
IsMap(S) ==
    /\ IsFiniteSet(S)
    /\ \A e \in S : e.seq \in Int
    /\ \A e, f \in S : e.seq = f.seq => e = f

\* How many entries come before e.
RankOf(S, e) == Cardinality({f \in S : f.seq < e.seq})

LEMMA MapSubset ==
    ASSUME NEW S, IsMap(S), NEW T, T \subseteq S
    PROVE  IsMap(T)
<1>1. IsFiniteSet(T)  BY FS_Subset DEF IsMap
<1> QED  BY <1>1 DEF IsMap

LEMMA RankOfRange ==
    ASSUME NEW S, IsMap(S), NEW e \in S
    PROVE  RankOf(S, e) \in 0 .. Cardinality(S) - 1
<1> DEFINE B == {f \in S : f.seq < e.seq}
<1>1. IsFiniteSet(S) /\ e.seq \in Int  BY DEF IsMap
<1>2. B \subseteq S /\ e \notin B  BY <1>1
<1>3. IsFiniteSet(B) /\ Cardinality(B) <= Cardinality(S) /\ Cardinality(B) # Cardinality(S)
    <2> HIDE DEF B
    <2> QED  BY <1>1, <1>2, FS_Subset
<1>4. Cardinality(B) \in Nat /\ Cardinality(S) \in Nat  BY <1>1, <1>3, FS_CardinalityType
<1> HIDE DEF B
<1>5. Cardinality(B) \in 0 .. Cardinality(S) - 1  BY <1>3, <1>4
<1> QED  BY <1>5 DEF RankOf, B

LEMMA RankOfGrows ==
    ASSUME NEW S, IsMap(S), NEW e \in S, NEW f \in S, e.seq < f.seq
    PROVE  RankOf(S, e) < RankOf(S, f)
<1> DEFINE B == {g \in S : g.seq < e.seq}
           C == {g \in S : g.seq < f.seq}
<1>1. \A g \in S : g.seq \in Int  BY DEF IsMap
<1>2. B \subseteq C /\ e \in C /\ e \notin B /\ C \subseteq S  BY <1>1
<1> HIDE DEF B, C
<1>3. IsFiniteSet(S)  BY DEF IsMap
<1>4. IsFiniteSet(C)  BY <1>2, <1>3, FS_Subset
<1>5. IsFiniteSet(B) /\ Cardinality(B) <= Cardinality(C) /\ Cardinality(B) # Cardinality(C)
    BY <1>2, <1>4, FS_Subset
<1>6. Cardinality(B) \in Nat /\ Cardinality(C) \in Nat  BY <1>4, <1>5, FS_CardinalityType
<1>7. Cardinality(B) < Cardinality(C)  BY <1>5, <1>6
<1> QED  BY <1>7 DEF RankOf, B, C

LEMMA RankOfDiffers ==
    ASSUME NEW S, IsMap(S), NEW e \in S, NEW f \in S, RankOf(S, e) = RankOf(S, f)
    PROVE  e = f
<1>1. e.seq \in Int /\ f.seq \in Int /\ (e.seq = f.seq => e = f)  BY DEF IsMap
<1>2. RankOf(S, e) \in Int /\ RankOf(S, f) \in Int  BY RankOfRange
<1>3. ~ (e.seq < f.seq)  BY <1>2, RankOfGrows
<1>4. ~ (f.seq < e.seq)  BY <1>2, RankOfGrows
<1> QED  BY <1>1, <1>3, <1>4

\* Every place is taken.
LEMMA RankOfAll ==
    ASSUME NEW S, IsMap(S), NEW n \in 1 .. Cardinality(S)
    PROVE  \E e \in S : RankOf(S, e) = n - 1
<1> DEFINE c == Cardinality(S)
           f == [e \in S |-> RankOf(S, e)]
<1>1. IsFiniteSet(S) /\ c \in Nat  BY FS_CardinalityType DEF IsMap
<1>2. f \in [S -> 0 .. c - 1]  BY RankOfRange
<1>3. \A d, e \in S : f[d] = f[e] => d = e  BY RankOfDiffers
<1>4. IsFiniteSet(0 .. c - 1) /\ Cardinality(0 .. c - 1) = c
    <2> HIDE DEF c
    <2>1. 0 \in Int /\ c - 1 \in Int  BY <1>1
    <2>2. IsFiniteSet(0 .. c - 1) /\ Cardinality(0 .. c - 1) = IF 0 > c - 1 THEN 0 ELSE (c - 1) - 0 + 1
        BY <2>1, FS_Interval
    <2> QED  BY <2>2, <1>1
<1>5. f \in Injection(S, 0 .. c - 1)
    <2>1. DOMAIN f = S  OBVIOUS
    <2> HIDE DEF f, c
    <2> QED  BY <1>2, <1>3, <2>1 DEF Injection, IsInjective
<1>6. f \in Surjection(S, 0 .. c - 1)
    <2> HIDE DEF f
    <2>1. Cardinality(S) = Cardinality(0 .. c - 1)  BY <1>4
    <2> QED  BY <1>4, <1>5, <2>1, FS_Injection, Zenon
<1>7. \A k \in 0 .. c - 1 : \E e \in S : f[e] = k
    <2> HIDE DEF f, c
    <2> QED  BY <1>6 DEF Surjection
<1>8. n - 1 \in 0 .. c - 1  BY <1>1
<1> QED  BY <1>7, <1>8

LEMMA SortedType ==
    ASSUME NEW S, IsMap(S)
    PROVE  /\ Sorted(S) \in Seq(S) /\ Len(Sorted(S)) = Cardinality(S)
           /\ Cardinality(S) \in Nat
           /\ \A n \in 1 .. Cardinality(S) :
                  Sorted(S)[n] \in S /\ RankOf(S, Sorted(S)[n]) = n - 1
<1> DEFINE c == Cardinality(S)
           at(n) == CHOOSE e \in S : RankOf(S, e) = n - 1
           s == [n \in 1 .. c |-> at(n)]
<1>1. c \in Nat  BY FS_CardinalityType DEF IsMap
<1>2. \A n \in 1 .. c : at(n) \in S /\ RankOf(S, at(n)) = n - 1
    <2> TAKE n \in 1 .. c
    <2>1. \E e \in S : RankOf(S, e) = n - 1  BY RankOfAll
    <2> QED  BY <2>1
<1>3. Sorted(S) = s  BY DEF Sorted, RankOf
<1> HIDE DEF at, c
<1>4. s \in Seq(S) /\ Len(s) = c /\ \A n \in 1 .. c : s[n] = at(n)  BY <1>1, <1>2
<1> HIDE DEF s
<1> QED  BY <1>1, <1>2, <1>3, <1>4 DEF c

\* What has all of them in the places they have is the sorted map.
LEMMA SortedIs ==
    ASSUME NEW S, IsMap(S), NEW s, s \in Seq(S), Len(s) = Cardinality(S),
           \A n \in 1 .. Len(s) : RankOf(S, s[n]) = n - 1
    PROVE  Sorted(S) = s
<1>1. /\ Sorted(S) \in Seq(S) /\ Len(Sorted(S)) = Len(s)
      /\ \A n \in 1 .. Len(s) : Sorted(S)[n] \in S /\ RankOf(S, Sorted(S)[n]) = n - 1
    BY SortedType
<1>2. ASSUME NEW n \in 1 .. Len(s)
      PROVE  Sorted(S)[n] = s[n]
    <2>1. s[n] \in S  OBVIOUS
    <2> QED  BY <1>1, <2>1, RankOfDiffers
<1> QED  BY <1>1, <1>2, SeqEqual

LEMMA SortedRange ==
    ASSUME NEW S, IsMap(S)
    PROVE  Range(Sorted(S)) = S
<1>1. /\ Sorted(S) \in Seq(S) /\ Len(Sorted(S)) = Cardinality(S)
      /\ \A n \in 1 .. Cardinality(S) :
             Sorted(S)[n] \in S /\ RankOf(S, Sorted(S)[n]) = n - 1
      /\ Cardinality(S) \in Nat
    BY SortedType
<1>2. ASSUME NEW e \in S
      PROVE  e \in Range(Sorted(S))
    <2> DEFINE n == RankOf(S, e) + 1
    <2>1. RankOf(S, e) \in 0 .. Cardinality(S) - 1  BY RankOfRange
    <2>2. n \in 1 .. Cardinality(S) /\ n - 1 = RankOf(S, e)  BY <1>1, <2>1
    <2> HIDE DEF n
    <2>3. Sorted(S)[n] = e  BY <1>1, <2>2, RankOfDiffers
    <2>4. n \in DOMAIN Sorted(S)  BY <1>1, <2>2
    <2> QED  BY <2>3, <2>4 DEF Range
<1>3. Range(Sorted(S)) \subseteq S  BY <1>1 DEF Range
<1> QED  BY <1>2, <1>3

LEMMA SortedInjective ==
    ASSUME NEW S, IsMap(S), NEW m \in 1 .. Cardinality(S), NEW n \in 1 .. Cardinality(S),
           Sorted(S)[m] = Sorted(S)[n]
    PROVE  m = n
<1>1. RankOf(S, Sorted(S)[m]) = m - 1 /\ RankOf(S, Sorted(S)[n]) = n - 1
    BY SortedType
<1> QED  BY <1>1, SortedType

\* A map whose keys are all below those of another one comes first.
LEMMA SortedUnion ==
    ASSUME NEW S, NEW T, IsMap(S \cup T), \A e \in S, f \in T : e.seq < f.seq
    PROVE  Sorted(S \cup T) = Sorted(S) \o Sorted(T)
<1> DEFINE U == S \cup T
           c == Cardinality(S)
           d == Cardinality(T)
           s == Sorted(S)
           t == Sorted(T)
           u == s \o t
<1>1. IsMap(S) /\ IsMap(T) /\ S \subseteq U /\ T \subseteq U  BY MapSubset
<1>2. IsFiniteSet(S) /\ IsFiniteSet(T) /\ S \cap T = {} /\ \A e \in U : e.seq \in Int
    <2>1. \A e \in U : e.seq \in Int  BY DEF IsMap
    <2>2. \A e \in S \cap T : FALSE  BY <2>1
    <2> QED  BY <1>1, <2>1, <2>2 DEF IsMap
<1>3. c \in Nat /\ d \in Nat /\ Cardinality(U) = c + d
    <2>1. Cardinality(S \cap T) = 0  BY <1>2, FS_EmptySet
    <2>2. Cardinality(U) = c + d - Cardinality(S \cap T)  BY <1>2, FS_Union
    <2>3. c \in Nat /\ d \in Nat  BY <1>2, FS_CardinalityType
    <2> HIDE DEF c, d, U
    <2> QED  BY <2>1, <2>2, <2>3
<1>4. /\ s \in Seq(S) /\ Len(s) = c
      /\ \A n \in 1 .. c : s[n] \in S /\ RankOf(S, s[n]) = n - 1
    BY <1>1, SortedType
<1>5. /\ t \in Seq(T) /\ Len(t) = d
      /\ \A n \in 1 .. d : t[n] \in T /\ RankOf(T, t[n]) = n - 1
    BY <1>1, SortedType
<1> HIDE DEF c, d, s, t
<1>6. s \in Seq(U) /\ t \in Seq(U)  BY <1>4, <1>5, <1>1, SeqMonotonic
<1>7. /\ u \in Seq(U) /\ Len(u) = c + d
      /\ \A n \in 1 .. c + d : u[n] = IF n <= c THEN s[n] ELSE t[n - c]
    <2> HIDE DEF U
    <2> QED  BY <1>4, <1>5, <1>6, ConcatProperties
<1> HIDE DEF u
<1>8. ASSUME NEW e \in S
      PROVE  RankOf(U, e) = RankOf(S, e)
    <2>1. {f \in U : f.seq < e.seq} = {f \in S : f.seq < e.seq}
        <3>1. \A f \in T : ~ (f.seq < e.seq)  BY <1>2
        <3> QED  BY <3>1
    <2> QED  BY <2>1 DEF RankOf
<1>9. ASSUME NEW e \in T
      PROVE  RankOf(U, e) = c + RankOf(T, e)
    <2> DEFINE B == {f \in T : f.seq < e.seq}
    <2>1. {f \in U : f.seq < e.seq} = S \cup B  OBVIOUS
    <2>2. B \subseteq T /\ S \cap B = {}  BY <1>2
    <2> HIDE DEF B
    <2>3. IsFiniteSet(B)  BY <1>2, <2>2, FS_Subset
    <2>4. Cardinality(S \cap B) = 0  BY <2>2, FS_EmptySet
    <2>5. Cardinality(S \cup B) = c + Cardinality(B)
        <3>1. Cardinality(S \cup B) = Cardinality(S) + Cardinality(B) - Cardinality(S \cap B)
            BY <1>2, <2>3, FS_Union
        <3>2. Cardinality(B) \in Nat  BY <2>3, FS_CardinalityType
        <3> QED  BY <3>1, <3>2, <2>4, <1>3 DEF c
    <2> QED  BY <2>1, <2>5 DEF RankOf, B
<1>10. \A n \in 1 .. Len(u) : RankOf(U, u[n]) = n - 1
    <2> TAKE n \in 1 .. Len(u)
    <2>1. n \in 1 .. c + d  BY <1>7
    <2>2. CASE n <= c
        <3>1. n \in 1 .. c /\ u[n] = s[n]  BY <2>1, <2>2, <1>7, <1>3
        <3> QED  BY <3>1, <1>4, <1>8
    <2>3. CASE ~ (n <= c)
        <3> DEFINE k == n - c
        <3>1. k \in 1 .. d /\ u[n] = t[k]  BY <2>1, <2>3, <1>7, <1>3
        <3>2. RankOf(T, t[k]) = k - 1 /\ t[k] \in T  BY <3>1, <1>5
        <3>3. RankOf(U, t[k]) = c + (k - 1)  BY <3>2, <1>9
        <3>4. c + (k - 1) = n - 1  BY <2>1, <1>3
        <3> QED  BY <3>1, <3>3, <3>4
    <2> QED  BY <2>2, <2>3
<1>11. Sorted(U) = u
    <2> HIDE DEF U
    <2>1. IsMap(U)  BY DEF U
    <2> QED  BY <2>1, <1>3, <1>7, <1>10, SortedIs
<1> QED  BY <1>11 DEF u, s, t

LEMMA SortedEmpty == Sorted({}) = <<>>
BY FS_EmptySet DEF Sorted

LEMMA SortedOne ==
    ASSUME NEW e, e.seq \in Int
    PROVE  IsMap({e}) /\ Sorted({e}) = <<e>>
<1>1. IsFiniteSet({e}) /\ Cardinality({e}) = 1  BY FS_Singleton
<1>2. IsMap({e})  BY <1>1 DEF IsMap
<1>3. {f \in {e} : f.seq < e.seq} = {}  OBVIOUS
<1>4. RankOf({e}, e) = 0  BY <1>3, FS_EmptySet DEF RankOf
<1>5. /\ <<e>> \in Seq({e}) /\ Len(<<e>>) = 1
      /\ \A n \in 1 .. 1 : <<e>>[n] = e /\ n - 1 = 0
    OBVIOUS
<1> QED  BY <1>1, <1>2, <1>4, <1>5, SortedIs

\* The messages of a sorted map, and their payloads.
LEMMA MessagesType ==
    ASSUME NEW S, IsMap(S), NEW M, \A e \in S : e.msg \in M
    PROVE  /\ Messages(S) \in Seq(M) /\ Len(Messages(S)) = Cardinality(S)
           /\ Cardinality(S) \in Nat
           /\ \A n \in 1 .. Cardinality(S) :
                  Sorted(S)[n] \in S /\ Messages(S)[n] = Sorted(S)[n].msg
<1>1. /\ Sorted(S) \in Seq(S) /\ Len(Sorted(S)) = Cardinality(S) /\ Cardinality(S) \in Nat
      /\ \A n \in 1 .. Cardinality(S) : Sorted(S)[n] \in S
    BY SortedType
<1> QED  BY <1>1 DEF Messages

LEMMA MessagesUnion ==
    ASSUME NEW S, NEW T, IsMap(S \cup T), \A e \in S, f \in T : e.seq < f.seq
    PROVE  Messages(S \cup T) = Messages(S) \o Messages(T)
<1> DEFINE s == Sorted(S)
           t == Sorted(T)
           M == {e.msg : e \in S \cup T}
<1>1. IsMap(S) /\ IsMap(T)  BY MapSubset
<1>2. Sorted(S \cup T) = s \o t  BY SortedUnion
<1>3. s \in Seq(S) /\ t \in Seq(T)  BY <1>1, SortedType
<1>4. s \in Seq(S \cup T) /\ t \in Seq(S \cup T)  BY <1>3, SeqMonotonic
<1>5. /\ s \o t \in Seq(S \cup T) /\ Len(s \o t) = Len(s) + Len(t)
      /\ \A n \in 1 .. Len(s) + Len(t) : (s \o t)[n] = IF n <= Len(s) THEN s[n] ELSE t[n - Len(s)]
    <2> HIDE DEF s, t
    <2> QED  BY <1>4, ConcatProperties
<1>6. Messages(S) \in Seq(M) /\ Len(Messages(S)) = Len(s)
      /\ \A n \in 1 .. Len(s) : Messages(S)[n] = s[n].msg
    <2>1. \A e \in S : e.msg \in M  OBVIOUS
    <2> HIDE DEF M
    <2> QED  BY <1>1, <2>1, MessagesType, SortedType
<1>7. Messages(T) \in Seq(M) /\ Len(Messages(T)) = Len(t)
      /\ \A n \in 1 .. Len(t) : Messages(T)[n] = t[n].msg
    <2>1. \A e \in T : e.msg \in M  OBVIOUS
    <2> HIDE DEF M
    <2> QED  BY <1>1, <2>1, MessagesType, SortedType
<1>8. Messages(S \cup T) \in Seq(M) /\ Len(Messages(S \cup T)) = Len(s) + Len(t)
      /\ \A n \in 1 .. Len(s) + Len(t) : Messages(S \cup T)[n] = (s \o t)[n].msg
    <2>1. \A e \in S \cup T : e.msg \in M  OBVIOUS
    <2>2. Len(Sorted(S \cup T)) = Len(s) + Len(t)  BY <1>2, <1>5
    <2> HIDE DEF M, s, t
    <2>3. Len(Messages(S \cup T)) = Len(s) + Len(t) /\ Cardinality(S \cup T) = Len(s) + Len(t)
        BY <2>1, <2>2, MessagesType, SortedType
    <2> QED  BY <1>2, <2>1, <2>3, MessagesType
<1> DEFINE x == Messages(S)
           y == Messages(T)
           u == Messages(S \cup T)
<1>9. /\ x \o y \in Seq(M) /\ Len(x \o y) = Len(s) + Len(t)
      /\ \A n \in 1 .. Len(s) + Len(t) : (x \o y)[n] = IF n <= Len(s) THEN x[n] ELSE y[n - Len(s)]
    <2>1. x \in Seq(M) /\ y \in Seq(M) /\ Len(x) = Len(s) /\ Len(y) = Len(t)
        BY <1>6, <1>7
    <2> HIDE DEF x, y, s, t, M
    <2>2. /\ x \o y \in Seq(M) /\ Len(x \o y) = Len(x) + Len(y)
          /\ \A n \in 1 .. Len(x) + Len(y) :
                 (x \o y)[n] = IF n <= Len(x) THEN x[n] ELSE y[n - Len(x)]
        BY <2>1, ConcatProperties
    <2> QED  BY <2>1, <2>2
<1>10. \A n \in 1 .. Len(s) + Len(t) : u[n] = (x \o y)[n]
    <2> TAKE n \in 1 .. Len(s) + Len(t)
    <2>1. Len(s) \in Nat /\ Len(t) \in Nat  BY <1>3
    <2> HIDE DEF s, t
    <2>2. CASE n <= Len(s)
        <3>1. n \in 1 .. Len(s)  BY <2>1, <2>2
        <3> QED  BY <3>1, <2>2, <1>5, <1>6, <1>8, <1>9
    <2>3. CASE ~ (n <= Len(s))
        <3>1. n - Len(s) \in 1 .. Len(t)  BY <2>1, <2>3
        <3> QED  BY <3>1, <2>3, <1>5, <1>7, <1>8, <1>9
    <2> QED  BY <2>2, <2>3
<1> HIDE DEF x, y, u, s, t, M
<1>11. u = x \o y  BY <1>8, <1>9, <1>10, SeqEqual DEF u
<1> QED  BY <1>11 DEF x, y, u

LEMMA MessagesEmpty == Messages({}) = <<>>
BY SortedEmpty DEF Messages

LEMMA MessagesOne ==
    ASSUME NEW e, e.seq \in Int
    PROVE  Messages({e}) = <<e.msg>>
BY SortedOne DEF Messages

LEMMA MessageType ==
    ASSUME NEW m \in Message
    PROVE  /\ m.sender_rank \in Nat /\ m.index \in Nat /\ m.size \in {0, 1}
           /\ m.pause \in Nat /\ m.body \in Int
<1>1. MaxPause \in Nat /\ MaxMessages \in Nat  BY TransitionAssumption
<1>2. 0 .. MaxPause \subseteq Nat /\ -1 .. MaxMessages - 1 \subseteq Int  BY <1>1
<1>3. m.pause \in 0 .. MaxPause /\ m.body \in -1 .. MaxMessages - 1
    BY DEF Message
<1>4. m.sender_rank \in Nat /\ m.index \in Nat /\ m.size \in {0, 1}
    BY DEF Message
<1> QED  BY <1>2, <1>3, <1>4

LEMMA BodiesType ==
    ASSUME NEW s \in Seq(Message)
    PROVE  Bodies(s) \in Seq(Int) /\ Len(Bodies(s)) = Len(s)
<1>1. \A n \in 1 .. Len(s) : s[n].body \in Int
    BY MessageType
<1> QED  BY <1>1 DEF Bodies

LEMMA BodiesConcat ==
    ASSUME NEW s \in Seq(Message), NEW t \in Seq(Message)
    PROVE  Bodies(s \o t) = Bodies(s) \o Bodies(t)
<1>1. /\ s \o t \in Seq(Message) /\ Len(s \o t) = Len(s) + Len(t)
      /\ \A n \in 1 .. Len(s) + Len(t) : (s \o t)[n] = IF n <= Len(s) THEN s[n] ELSE t[n - Len(s)]
    BY ConcatProperties
<1>2. Bodies(s) \in Seq(Int) /\ Bodies(t) \in Seq(Int) /\ Bodies(s \o t) \in Seq(Int)
      /\ Len(Bodies(s)) = Len(s) /\ Len(Bodies(t)) = Len(t)
      /\ Len(Bodies(s \o t)) = Len(s) + Len(t)
    BY <1>1, BodiesType
<1> DEFINE x == Bodies(s)
           y == Bodies(t)
<1>3. /\ x \o y \in Seq(Int) /\ Len(x \o y) = Len(s) + Len(t)
      /\ \A n \in 1 .. Len(s) + Len(t) : (x \o y)[n] = IF n <= Len(s) THEN x[n] ELSE y[n - Len(s)]
    <2>1. x \in Seq(Int) /\ y \in Seq(Int) /\ Len(x) = Len(s) /\ Len(y) = Len(t)
        BY <1>2
    <2> HIDE DEF x, y
    <2>2. /\ x \o y \in Seq(Int) /\ Len(x \o y) = Len(x) + Len(y)
          /\ \A n \in 1 .. Len(x) + Len(y) :
                 (x \o y)[n] = IF n <= Len(x) THEN x[n] ELSE y[n - Len(x)]
        BY <2>1, ConcatProperties
    <2> QED  BY <2>1, <2>2
<1>4. \A n \in 1 .. Len(s) : x[n] = s[n].body  BY DEF Bodies
<1>5. \A n \in 1 .. Len(t) : y[n] = t[n].body  BY DEF Bodies
<1>6. \A n \in 1 .. Len(s) + Len(t) : Bodies(s \o t)[n] = (s \o t)[n].body
    BY <1>1 DEF Bodies
<1>7. \A n \in 1 .. Len(s) + Len(t) : Bodies(s \o t)[n] = (x \o y)[n]
    <2> TAKE n \in 1 .. Len(s) + Len(t)
    <2> HIDE DEF x, y
    <2>1. CASE n <= Len(s)
        <3>1. n \in 1 .. Len(s)  BY <2>1
        <3> QED  BY <3>1, <2>1, <1>1, <1>3, <1>4, <1>6
    <2>2. CASE ~ (n <= Len(s))
        <3>1. n - Len(s) \in 1 .. Len(t)  BY <2>2
        <3> QED  BY <3>1, <2>2, <1>1, <1>3, <1>5, <1>6
    <2> QED  BY <2>1, <2>2
<1> HIDE DEF x, y
<1>8. Bodies(s \o t) = x \o y  BY <1>2, <1>3, <1>7, SeqEqual
<1> QED  BY <1>8 DEF x, y

LEMMA BodiesOne ==
    ASSUME NEW m
    PROVE  Bodies(<<m>>) = <<m.body>>
BY DEF Bodies

\* What gives every message the same payload leaves the payloads alone.
LEMMA BodiesSame ==
    ASSUME NEW s \in Seq(Message), NEW t \in Seq(Message), Len(s) = Len(t),
           \A n \in 1 .. Len(s) : s[n].body = t[n].body
    PROVE  Bodies(s) = Bodies(t)
BY DEF Bodies

-----------------------------------------------------------------------------
(***************************************************************************)
(* Turns.                                                                  *)
(***************************************************************************)
IsTurns(msgs, n, f) ==
    f = [k \in 0 .. n |-> IF k = 0 THEN 0 ELSE f[k - 1] + 1 + msgs[k].pause]

LEMMA TurnsExist ==
    ASSUME NEW msgs
    PROVE  \A n \in Nat : \E f : IsTurns(msgs, n, f)
<1> DEFINE Good == {n \in Nat : \E f : IsTurns(msgs, n, f)}
<1>1. 0 \in Good
    <2> DEFINE f == [k \in 0 .. 0 |-> 0]
    <2>1. f = [k \in 0 .. 0 |-> IF k = 0 THEN 0 ELSE f[k - 1] + 1 + msgs[k].pause]
        OBVIOUS
    <2> QED  BY <2>1 DEF IsTurns
<1>2. ASSUME NEW n \in Nat, n \in Good
      PROVE  n + 1 \in Good
    <2>1. PICK f : IsTurns(msgs, n, f)  BY <1>2
    <2> DEFINE g == [k \in 0 .. n + 1 |->
                        IF k = n + 1 THEN f[n] + 1 + msgs[n + 1].pause ELSE f[k]]
               body(k) == IF k = 0 THEN 0 ELSE g[k - 1] + 1 + msgs[k].pause
    <2>2. \A k \in 0 .. n : f[k] = IF k = 0 THEN 0 ELSE f[k - 1] + 1 + msgs[k].pause
        BY <2>1 DEF IsTurns
    <2>3. \A k \in 0 .. n : g[k] = f[k]  OBVIOUS
    <2>4. ASSUME NEW k \in 0 .. n + 1
          PROVE  g[k] = body(k)
        <3>1. CASE k = 0  BY <3>1, <2>2, <2>3
        <3>2. CASE k # 0 /\ k # n + 1
            <4>1. k \in 0 .. n /\ k - 1 \in 0 .. n  BY <3>2
            <4> QED  BY <4>1, <3>2, <2>2, <2>3
        <3>3. CASE k = n + 1
            <4>1. g[k] = f[n] + 1 + msgs[k].pause /\ g[k - 1] = f[n]  BY <3>3
            <4> QED  BY <4>1, <3>3
        <3> QED  BY <3>1, <3>2, <3>3
    <2>5. g = [k \in 0 .. n + 1 |-> g[k]]  OBVIOUS
    <2> HIDE DEF g
    <2>6. g = [k \in 0 .. n + 1 |-> body(k)]  BY <2>4, <2>5
    <2>7. IsTurns(msgs, n + 1, g)  BY <2>6 DEF IsTurns
    <2> QED  BY <2>7
<1> HIDE DEF Good
<1>3. Nat \subseteq Good  BY <1>1, <1>2, NatSet
<1> QED  BY <1>3 DEF Good

LEMMA TurnsUnique ==
    ASSUME NEW msgs, NEW m \in Nat, NEW n \in Nat, NEW f, NEW g,
           IsTurns(msgs, m, f), IsTurns(msgs, n, g), NEW k \in Nat, k <= m, k <= n
    PROVE  f[k] = g[k]
<1> DEFINE Good == {j \in Nat : j <= m /\ j <= n => f[j] = g[j]}
<1>1. \A j \in 0 .. m : f[j] = IF j = 0 THEN 0 ELSE f[j - 1] + 1 + msgs[j].pause
    BY DEF IsTurns
<1>2. \A j \in 0 .. n : g[j] = IF j = 0 THEN 0 ELSE g[j - 1] + 1 + msgs[j].pause
    BY DEF IsTurns
<1>3. 0 \in Good  BY <1>1, <1>2
<1>4. ASSUME NEW j \in Nat, j \in Good
      PROVE  j + 1 \in Good
    <2> SUFFICES ASSUME j + 1 <= m, j + 1 <= n PROVE f[j + 1] = g[j + 1]  OBVIOUS
    <2>1. f[j] = g[j]  BY <1>4
    <2>2. j + 1 \in 0 .. m /\ j + 1 \in 0 .. n /\ j + 1 # 0 /\ (j + 1) - 1 = j  OBVIOUS
    <2>3. f[j + 1] = f[j] + 1 + msgs[j + 1].pause  BY <1>1, <2>2
    <2>4. g[j + 1] = g[j] + 1 + msgs[j + 1].pause  BY <1>2, <2>2
    <2> QED  BY <2>1, <2>3, <2>4
<1> HIDE DEF Good
<1>5. Nat \subseteq Good  BY <1>3, <1>4, NatSet
<1> QED  BY <1>5 DEF Good

LEMMA TurnsIs ==
    ASSUME NEW msgs, NEW n \in Nat
    PROVE  \E f : IsTurns(msgs, n, f) /\ Turns(msgs, n) = f[n]
<1> DEFINE f == CHOOSE f : f = [k \in 0 .. n |->
                            IF k = 0 THEN 0 ELSE f[k - 1] + 1 + msgs[k].pause]
<1>1. \E g : g = [k \in 0 .. n |-> IF k = 0 THEN 0 ELSE g[k - 1] + 1 + msgs[k].pause]
    BY TurnsExist DEF IsTurns
<1>2. IsTurns(msgs, n, f)  BY <1>1 DEF IsTurns
<1>3. Turns(msgs, n) = f[n]  BY DEF Turns
<1> HIDE DEF f
<1> QED  BY <1>2, <1>3

\* The recursion.
LEMMA TurnsZero ==
    ASSUME NEW msgs
    PROVE  Turns(msgs, 0) = 0
<1>1. PICK f : IsTurns(msgs, 0, f) /\ Turns(msgs, 0) = f[0]  BY TurnsIs
<1> QED  BY <1>1 DEF IsTurns

LEMMA TurnsNext ==
    ASSUME NEW msgs, NEW n \in Nat
    PROVE  Turns(msgs, n + 1) = Turns(msgs, n) + 1 + msgs[n + 1].pause
<1>1. PICK f : IsTurns(msgs, n + 1, f) /\ Turns(msgs, n + 1) = f[n + 1]  BY TurnsIs
<1>2. PICK g : IsTurns(msgs, n, g) /\ Turns(msgs, n) = g[n]  BY TurnsIs
<1>3. f[n] = g[n]  BY <1>1, <1>2, TurnsUnique
<1>4. \A j \in 0 .. n + 1 : f[j] = IF j = 0 THEN 0 ELSE f[j - 1] + 1 + msgs[j].pause
    BY <1>1 DEF IsTurns
<1>5. n + 1 \in 0 .. n + 1 /\ n + 1 # 0 /\ (n + 1) - 1 = n  OBVIOUS
<1>6. f[n + 1] = f[n] + 1 + msgs[n + 1].pause  BY <1>4, <1>5
<1> QED  BY <1>1, <1>2, <1>3, <1>6

LEMMA TurnsType ==
    ASSUME NEW msgs \in Seq(Message), NEW n \in 0 .. Len(msgs)
    PROVE  Turns(msgs, n) \in Nat
<1> DEFINE Good == {k \in Nat : k <= Len(msgs) => Turns(msgs, k) \in Nat}
<1>1. 0 \in Good  BY TurnsZero
<1>2. ASSUME NEW k \in Nat, k \in Good
      PROVE  k + 1 \in Good
    <2> SUFFICES ASSUME k + 1 <= Len(msgs) PROVE Turns(msgs, k + 1) \in Nat  OBVIOUS
    <2>1. k + 1 \in 1 .. Len(msgs)  OBVIOUS
    <2>2. msgs[k + 1] \in Message  BY <2>1
    <2>3. msgs[k + 1].pause \in Nat  BY <2>2, MessageType
    <2>4. Turns(msgs, k) \in Nat  BY <1>2
    <2> QED  BY <2>3, <2>4, TurnsNext
<1> HIDE DEF Good
<1>3. Nat \subseteq Good  BY <1>1, <1>2, NatSet
<1> QED  BY <1>3 DEF Good

\* They depend on the pauses alone.
LEMMA TurnsSame ==
    ASSUME NEW a, NEW b, NEW n \in Nat, \A k \in 1 .. n : a[k].pause = b[k].pause
    PROVE  Turns(a, n) = Turns(b, n)
<1> DEFINE Good == {k \in Nat : k <= n => Turns(a, k) = Turns(b, k)}
<1>1. 0 \in Good  BY TurnsZero
<1>2. ASSUME NEW k \in Nat, k \in Good
      PROVE  k + 1 \in Good
    <2> SUFFICES ASSUME k + 1 <= n PROVE Turns(a, k + 1) = Turns(b, k + 1)  OBVIOUS
    <2>1. k + 1 \in 1 .. n /\ Turns(a, k) = Turns(b, k)  BY <1>2
    <2>2. a[k + 1].pause = b[k + 1].pause  BY <2>1
    <2> QED  BY <2>1, <2>2, TurnsNext
<1> HIDE DEF Good
<1>3. Nat \subseteq Good  BY <1>1, <1>2, NatSet
<1> QED  BY <1>3 DEF Good

\* More messages take more turns.
LEMMA TurnsGrow ==
    ASSUME NEW msgs \in Seq(Message), NEW n \in 0 .. Len(msgs)
    PROVE  Turns(msgs, n) <= Turns(msgs, Len(msgs))
<1> DEFINE Good == {k \in Nat : n <= k /\ k <= Len(msgs) => Turns(msgs, n) <= Turns(msgs, k)}
<1>1. Turns(msgs, n) \in Nat  BY TurnsType
<1>2. 0 \in Good  BY <1>1
<1>3. ASSUME NEW k \in Nat, k \in Good
      PROVE  k + 1 \in Good
    <2> SUFFICES ASSUME n <= k + 1, k + 1 <= Len(msgs)
                 PROVE  Turns(msgs, n) <= Turns(msgs, k + 1)
        OBVIOUS
    <2>1. CASE n = k + 1  BY <2>1, <1>1
    <2>2. CASE n # k + 1
        <3>1. n <= k /\ k <= Len(msgs) /\ k + 1 \in 1 .. Len(msgs)  BY <2>2
        <3>2. Turns(msgs, n) <= Turns(msgs, k)  BY <1>3, <3>1
        <3>3. msgs[k + 1] \in Message /\ Turns(msgs, k) \in Nat  BY <3>1, TurnsType
        <3>4. msgs[k + 1].pause \in Nat  BY <3>3, MessageType
        <3>5. Turns(msgs, k + 1) = Turns(msgs, k) + 1 + msgs[k + 1].pause  BY TurnsNext
        <3> QED  BY <1>1, <3>2, <3>3, <3>4, <3>5
    <2> QED  BY <2>1, <2>2
<1> HIDE DEF Good
<1>4. Nat \subseteq Good  BY <1>2, <1>3, NatSet
<1> QED  BY <1>4 DEF Good

-----------------------------------------------------------------------------
(***************************************************************************)
(* Numbers that follow each other.                                         *)
(***************************************************************************)
\* The index after the turns of m.
After(m) == m.index + 1 + m.pause

\* y is the next index after x; what was carried over to a view has left a gap.
Follows(gap, x, y) == x <= y /\ (gap \/ x = y)

\* Where the n-th message of q has to be; the last place is that of the next one.
Place(base, q, n) == IF n = 1 THEN base ELSE After(q[n - 1])

Chain(base, gap, q, next) ==
    /\ \A n \in 1 .. Len(q) : Follows(gap, Place(base, q, n), q[n].index)
    /\ Follows(gap, Place(base, q, Len(q) + 1), next)

LEMMA AfterType ==
    ASSUME NEW m \in Message
    PROVE  After(m) \in Nat /\ m.index < After(m) /\ m.index \in Nat
<1>1. m.index \in Nat /\ m.pause \in Nat  BY MessageType
<1> QED  BY <1>1 DEF After

LEMMA PlaceType ==
    ASSUME NEW base \in Int, NEW q \in Seq(Message), NEW n \in 1 .. Len(q) + 1
    PROVE  Place(base, q, n) \in Int
<1>1. CASE n = 1  BY <1>1 DEF Place
<1>2. CASE n # 1
    <2>1. n - 1 \in 1 .. Len(q)  BY <1>2
    <2>2. q[n - 1] \in Message  BY <2>1
    <2> QED  BY <1>2, <2>2, AfterType DEF Place
<1> QED  BY <1>1, <1>2

\* The indices of a chain grow.
LEMMA ChainGrows ==
    ASSUME NEW base \in Int, NEW gap, NEW q \in Seq(Message), NEW next \in Int,
           Chain(base, gap, q, next)
    PROVE  /\ base <= next
           /\ \A n \in 1 .. Len(q) : base <= q[n].index /\ q[n].index < next
           /\ \A m, n \in 1 .. Len(q) : m < n => q[m].index < q[n].index
<1> DEFINE P(n) == Place(base, q, n)
           L == Len(q)
<1>1. L \in Nat  OBVIOUS
<1>2. \A n \in 1 .. L + 1 : P(n) \in Int  BY PlaceType
<1>3. \A n \in 1 .. L : P(n) <= q[n].index /\ q[n].index < P(n + 1) /\ q[n].index \in Int
    <2> TAKE n \in 1 .. L
    <2>1. q[n] \in Message  OBVIOUS
    <2>2. P(n) <= q[n].index  BY DEF Chain, Follows
    <2>3. P(n + 1) = After(q[n])
        <3>1. n + 1 # 1 /\ (n + 1) - 1 = n  OBVIOUS
        <3> QED  BY <3>1 DEF Place
    <2> QED  BY <2>1, <2>2, <2>3, AfterType
<1>4. P(L + 1) <= next  BY DEF Chain, Follows
<1>5. P(1) = base  BY DEF Place
<1> HIDE DEF P, L
<1>6. ASSUME NEW m \in 1 .. L + 1
      PROVE  \A n \in Nat : m <= n /\ n <= L + 1 => P(m) <= P(n)
    <2> DEFINE Good == {n \in Nat : m <= n /\ n <= L + 1 => P(m) <= P(n)}
    <2>1. 0 \in Good  OBVIOUS
    <2>2. ASSUME NEW n \in Nat, n \in Good
          PROVE  n + 1 \in Good
        <3> SUFFICES ASSUME m <= n + 1, n + 1 <= L + 1 PROVE P(m) <= P(n + 1)  OBVIOUS
        <3>1. CASE m = n + 1  BY <3>1, <1>1, <1>2
        <3>2. CASE m # n + 1
            <4>1. m <= n /\ n <= L + 1 /\ n \in 1 .. L /\ n + 1 \in 1 .. L + 1 /\ n \in 1 .. L + 1
                BY <3>2, <1>1
            <4>2. P(m) <= P(n)  BY <2>2, <4>1
            <4> QED  BY <4>1, <4>2, <1>2, <1>3
        <3> QED  BY <3>1, <3>2
    <2> HIDE DEF Good
    <2>3. Nat \subseteq Good  BY <2>1, <2>2, NatSet
    <2> QED  BY <2>3 DEF Good
<1>7. \A m, n \in 1 .. L + 1 : m <= n => P(m) <= P(n)  BY <1>1, <1>6
<1>8. base <= next
    <2>1. 1 \in 1 .. L + 1 /\ L + 1 \in 1 .. L + 1 /\ 1 <= L + 1  BY <1>1
    <2>2. P(1) <= P(L + 1)  BY <2>1, <1>7
    <2> QED  BY <2>1, <2>2, <1>2, <1>4, <1>5
<1>9. ASSUME NEW n \in 1 .. L
      PROVE  base <= q[n].index /\ q[n].index < next
    <2>1. 1 \in 1 .. L + 1 /\ n \in 1 .. L + 1 /\ n + 1 \in 1 .. L + 1 /\ L + 1 \in 1 .. L + 1
          /\ 1 <= n /\ n + 1 <= L + 1
        BY <1>1
    <2>2. P(1) <= P(n) /\ P(n + 1) <= P(L + 1)  BY <2>1, <1>7
    <2> QED  BY <2>1, <2>2, <1>2, <1>3, <1>4, <1>5
<1>10. ASSUME NEW m \in 1 .. L, NEW n \in 1 .. L, m < n
       PROVE  q[m].index < q[n].index
    <2>1. m + 1 \in 1 .. L + 1 /\ n \in 1 .. L + 1 /\ m + 1 <= n  BY <1>1, <1>10
    <2>2. P(m + 1) <= P(n)  BY <2>1, <1>7
    <2> QED  BY <2>1, <2>2, <1>2, <1>3, SMTT(40)
<1> QED  BY <1>8, <1>9, <1>10 DEF L

\* Without a gap they are the turns from the base on.
LEMMA ChainTurns ==
    ASSUME NEW base \in Int, NEW q \in Seq(Message), NEW next \in Int,
           Chain(base, FALSE, q, next)
    PROVE  /\ next = base + Turns(q, Len(q))
           /\ \A n \in 1 .. Len(q) : q[n].index = base + Turns(q, n - 1)
<1> DEFINE P(n) == Place(base, q, n)
           L == Len(q)
           Good == {n \in Nat : n <= L => P(n + 1) = base + Turns(q, n)}
<1>1. L \in Nat  OBVIOUS
<1>2. \A n \in 1 .. L : q[n].index = P(n)  BY DEF Chain, Follows
<1>3. next = P(L + 1)  BY DEF Chain, Follows
<1>4. 0 \in Good
    <2>1. P(0 + 1) = base  BY DEF Place
    <2> QED  BY <2>1, TurnsZero
<1>5. ASSUME NEW n \in Nat, n \in Good
      PROVE  n + 1 \in Good
    <2> SUFFICES ASSUME n + 1 <= L PROVE P((n + 1) + 1) = base + Turns(q, n + 1)  OBVIOUS
    <2>1. n + 1 \in 1 .. L /\ n \in 0 .. L  OBVIOUS
    <2>2. P(n + 1) = base + Turns(q, n)  BY <1>5
    <2>3. q[n + 1].index = P(n + 1)  BY <2>1, <1>2
    <2>4. P((n + 1) + 1) = After(q[n + 1])
        <3>1. (n + 1) + 1 # 1 /\ ((n + 1) + 1) - 1 = n + 1  OBVIOUS
        <3> QED  BY <3>1 DEF Place
    <2>5. Turns(q, n) \in Nat  BY <2>1, TurnsType
    <2>6. q[n + 1] \in Message  BY <2>1
    <2>7. q[n + 1].pause \in Nat  BY <2>6, MessageType
    <2>8. Turns(q, n + 1) = Turns(q, n) + 1 + q[n + 1].pause  BY TurnsNext
    <2>9. After(q[n + 1]) = q[n + 1].index + 1 + q[n + 1].pause  BY DEF After
    <2> HIDE DEF P
    <2>10. q[n + 1].index = base + Turns(q, n)  BY <2>2, <2>3
    <2> DEFINE t == Turns(q, n)
               p == q[n + 1].pause
    <2>11. (base + t) + 1 + p = base + (t + 1 + p)
        <3>1. t \in Int /\ p \in Int  BY <2>5, <2>7
        <3> HIDE DEF t, p
        <3> QED  BY <3>1
    <2> QED  BY <2>4, <2>8, <2>9, <2>10, <2>11
<1> HIDE DEF Good
<1>6. Nat \subseteq Good  BY <1>4, <1>5, NatSet
<1>7. \A n \in 0 .. L : P(n + 1) = base + Turns(q, n)  BY <1>1, <1>6 DEF Good
<1> HIDE DEF P, L
<1>8. next = base + Turns(q, L)
    <2>1. L \in 0 .. L  BY <1>1
    <2> QED  BY <2>1, <1>3, <1>7
<1>9. ASSUME NEW n \in 1 .. L
      PROVE  q[n].index = base + Turns(q, n - 1)
    <2>1. n - 1 \in 0 .. L /\ (n - 1) + 1 = n  BY <1>1
    <2>2. P((n - 1) + 1) = base + Turns(q, n - 1)  BY <2>1, <1>7
    <2> QED  BY <2>1, <2>2, <1>2
<1> QED  BY <1>8, <1>9 DEF L

\* And what has those indices is a chain.
LEMMA ChainOfTurns ==
    ASSUME NEW gap, NEW q \in Seq(Message), NEW next \in Int,
           \A n \in 1 .. Len(q) : q[n].index = Turns(q, n - 1),
           Follows(gap, Turns(q, Len(q)), next)
    PROVE  Chain(0, gap, q, next)
<1>1. ASSUME NEW n \in 1 .. Len(q) + 1
      PROVE  Place(0, q, n) = Turns(q, n - 1)
    <2>1. CASE n = 1  BY <2>1, TurnsZero DEF Place
    <2>2. CASE n # 1
        <3> DEFINE k == n - 2
        <3>1. n - 1 \in 1 .. Len(q) /\ k \in Nat /\ k + 1 = n - 1  BY <2>2
        <3>2. q[n - 1].index = Turns(q, k)
            <4>1. k = (n - 1) - 1  BY <3>1
            <4> QED  BY <3>1, <4>1
        <3> HIDE DEF k
        <3>3. Turns(q, n - 1) = Turns(q, k) + 1 + q[n - 1].pause  BY <3>1, TurnsNext
        <3> QED  BY <2>2, <3>2, <3>3 DEF Place, After
    <2> QED  BY <2>1, <2>2
<1>2. ASSUME NEW n \in 1 .. Len(q)
      PROVE  Follows(gap, Place(0, q, n), q[n].index)
    <2>1. n \in 1 .. Len(q) + 1 /\ n - 1 \in 0 .. Len(q)  OBVIOUS
    <2>2. Turns(q, n - 1) \in Nat  BY <2>1, TurnsType
    <2> QED  BY <2>1, <2>2, <1>1 DEF Follows
<1>3. Follows(gap, Place(0, q, Len(q) + 1), next)
    <2>1. Len(q) + 1 \in 1 .. Len(q) + 1 /\ (Len(q) + 1) - 1 = Len(q)  OBVIOUS
    <2>2. Place(0, q, Len(q) + 1) = Turns(q, (Len(q) + 1) - 1)  BY <2>1, <1>1
    <2> QED  BY <2>1, <2>2
<1> QED  BY <1>2, <1>3 DEF Chain

\* A message that has the next index goes to the end, the first one leaves.
LEMMA ChainAppend ==
    ASSUME NEW base \in Int, NEW gap, NEW q \in Seq(Message), NEW m \in Message, NEW next \in Int,
           Chain(base, gap, q, m.index), Follows(gap, After(m), next)
    PROVE  Chain(base, gap, q \o <<m>>, next)
<1> DEFINE r == q \o <<m>>
           L == Len(q)
<1>1. /\ L \in Nat /\ r \in Seq(Message) /\ Len(r) = L + 1
      /\ \A n \in 1 .. L : r[n] = q[n]
      /\ r[L + 1] = m
    OBVIOUS
<1> HIDE DEF r
<1>2. ASSUME NEW n \in 1 .. L + 1
      PROVE  Place(base, r, n) = Place(base, q, n)
    <2>1. CASE n = 1  BY <2>1 DEF Place
    <2>2. CASE n # 1
        <3>1. n - 1 \in 1 .. L  BY <2>2, <1>1
        <3>2. r[n - 1] = q[n - 1]  BY <3>1, <1>1
        <3> QED  BY <2>2, <3>2 DEF Place
    <2> QED  BY <2>1, <2>2
<1>3. ASSUME NEW n \in 1 .. L + 1
      PROVE  Follows(gap, Place(base, r, n), r[n].index)
    <2>1. CASE n = L + 1  BY <2>1, <1>1, <1>2 DEF Chain
    <2>2. CASE n # L + 1
        <3>1. n \in 1 .. L  BY <2>2, <1>1
        <3>2. r[n] = q[n]  BY <3>1, <1>1
        <3> QED  BY <3>1, <3>2, <1>2 DEF Chain
    <2> QED  BY <2>1, <2>2
<1>4. Place(base, r, (L + 1) + 1) = After(m)
    <2>1. (L + 1) + 1 # 1 /\ ((L + 1) + 1) - 1 = L + 1  BY <1>1
    <2> QED  BY <2>1, <1>1 DEF Place
<1>5. Chain(base, gap, r, next)  BY <1>1, <1>3, <1>4 DEF Chain
<1> QED  BY <1>5 DEF r

LEMMA ChainRest ==
    ASSUME NEW base \in Int, NEW gap, NEW q \in Seq(Message), NEW m \in Message, NEW next \in Int,
           Chain(base, gap, <<m>> \o q, next)
    PROVE  Chain(After(m), gap, q, next)
<1> DEFINE r == <<m>> \o q
           L == Len(q)
<1>1. /\ L \in Nat /\ r \in Seq(Message) /\ Len(r) = L + 1
      /\ r[1] = m
      /\ \A n \in 1 .. L : r[n + 1] = q[n]
    OBVIOUS
<1> HIDE DEF r
<1>2. ASSUME NEW n \in 1 .. L + 1
      PROVE  Place(base, r, n + 1) = Place(After(m), q, n)
    <2>1. n + 1 # 1 /\ (n + 1) - 1 = n  BY <1>1
    <2>2. Place(base, r, n + 1) = After(r[n])  BY <2>1 DEF Place
    <2>3. CASE n = 1  BY <2>2, <2>3, <1>1 DEF Place
    <2>4. CASE n # 1
        <3>1. n - 1 \in 1 .. L /\ (n - 1) + 1 = n  BY <2>4, <1>1
        <3>2. r[n] = q[n - 1]
            <4>1. r[(n - 1) + 1] = q[n - 1]  BY <3>1, <1>1
            <4> QED  BY <3>1, <4>1
        <3> QED  BY <2>2, <2>4, <3>2 DEF Place
    <2> QED  BY <2>3, <2>4
<1>3. Chain(base, gap, r, next)  BY DEF r
<1>4. ASSUME NEW n \in 1 .. L
      PROVE  Follows(gap, Place(After(m), q, n), q[n].index)
    <2>1. n + 1 \in 1 .. Len(r) /\ n \in 1 .. L + 1  BY <1>1
    <2>2. Follows(gap, Place(base, r, n + 1), r[n + 1].index)  BY <1>3, <2>1 DEF Chain
    <2> QED  BY <2>1, <2>2, <1>1, <1>2
<1>5. Follows(gap, Place(After(m), q, L + 1), next)
    <2>1. L + 1 \in 1 .. L + 1  BY <1>1
    <2>2. Follows(gap, Place(base, r, (L + 1) + 1), next)  BY <1>1, <1>3 DEF Chain
    <2> QED  BY <2>1, <2>2, <1>2
<1> QED  BY <1>4, <1>5 DEF Chain

-----------------------------------------------------------------------------
(***************************************************************************)
(* Ranks and sequence numbers.                                             *)
(***************************************************************************)
LEMMA RankInType ==
    ASSUME NEW view \in Seq(Id), NEW id \in Range(view)
    PROVE  /\ RankIn(view, id) \in 0 .. Len(view) - 1
           /\ view[RankIn(view, id) + 1] = id
<1> DEFINE At == {r \in Nat : r < Len(view) /\ view[r + 1] = id}
           Fits(r) == /\ r < Len(view) => view[r + 1] = id
                      /\ \A s \in 0 .. r - 1 : view[s + 1] # id
<1>1. At # {}
    <2>1. PICK n \in 1 .. Len(view) : view[n] = id  BY DEF Range
    <2>2. n - 1 \in At  BY <2>1
    <2> QED  BY <2>2
<1>2. PICK r \in At : \A s \in At : r <= s
    <2>1. At \subseteq Nat  OBVIOUS
    <2> HIDE DEF At
    <2> QED  BY <1>1, <2>1, Least
<1>3. r \in 0 .. Len(view) /\ Fits(r)
    <2>1. r \in Nat /\ r < Len(view) /\ view[r + 1] = id  BY <1>2
    <2>2. \A s \in 0 .. r - 1 : view[s + 1] # id
        <3> SUFFICES ASSUME NEW s \in 0 .. r - 1, view[s + 1] = id PROVE FALSE  OBVIOUS
        <3>1. s \in At  BY <2>1
        <3>2. r <= s  BY <3>1, <1>2
        <3> QED  BY <2>1, <3>2
    <2> QED  BY <2>1, <2>2
<1>4. \E k \in 0 .. Len(view) : Fits(k)  BY <1>3
<1> DEFINE c == CHOOSE k \in 0 .. Len(view) : Fits(k)
<1>5. c \in 0 .. Len(view) /\ Fits(c)  BY <1>4
<1>6. RankIn(view, id) = c  BY DEF RankIn
<1>7. c # Len(view)
    <2> SUFFICES ASSUME c = Len(view) PROVE FALSE  OBVIOUS
    <2>1. r \in 0 .. c - 1 /\ view[r + 1] = id  BY <1>2
    <2> HIDE DEF c
    <2> QED  BY <2>1, <1>5
<1>8. c \in 0 .. Len(view) - 1 /\ view[c + 1] = id
    <2> HIDE DEF c
    <2> QED  BY <1>5, <1>7
<1> QED  BY <1>6, <1>8

\* The rank of the member at a rank.
LEMMA RankInIs ==
    ASSUME NEW view \in Seq(Id), IsInjective(view), NEW r \in 0 .. Len(view) - 1
    PROVE  RankIn(view, view[r + 1]) = r
<1>1. r + 1 \in 1 .. Len(view)  OBVIOUS
<1>2. view[r + 1] \in Range(view)  BY <1>1 DEF Range
<1> DEFINE k == RankIn(view, view[r + 1])
<1>3. k \in 0 .. Len(view) - 1 /\ view[k + 1] = view[r + 1]  BY <1>2, RankInType
<1> HIDE DEF k
<1>4. k + 1 \in 1 .. Len(view)  BY <1>3
<1>5. k + 1 = r + 1  BY <1>1, <1>3, <1>4 DEF IsInjective
<1> QED  BY <1>3, <1>5 DEF k

LEMMA TimesKeepsOrder ==
    ASSUME NEW n \in Nat, NEW x \in Int, NEW y \in Int, x <= y
    PROVE  x * n <= y * n
<1>1. (y - x) * n \in Nat
    <2>1. y - x \in Nat  OBVIOUS
    <2> DEFINE d == y - x
    <2> HIDE DEF d
    <2>2. d \in Nat  BY <2>1 DEF d
    <2> QED  BY <2>2 DEF d
<1>2. (y - x) * n = y * n - x * n /\ x * n \in Int /\ y * n \in Int  OBVIOUS
<1> QED  BY <1>1, <1>2

LEMMA SeqNumType ==
    ASSUME num_members \in Nat, NEW r \in Rank, NEW a \in Int
    PROVE  SeqNum(r, a) \in Int /\ (a \in Nat => SeqNum(r, a) \in Nat)
<1>1. r \in Nat  BY DEF Rank
<1>2. a * num_members \in Int /\ (a \in Nat => a * num_members \in Nat)  OBVIOUS
<1> QED  BY <1>1, <1>2 DEF SeqNum

\* A message with a higher index has a higher number, whoever sent it.
LEMMA SeqNumGrows ==
    ASSUME num_members \in Nat, NEW r \in Rank, NEW s \in Rank, NEW a \in Int, NEW b \in Int,
           a < b
    PROVE  SeqNum(r, a) < SeqNum(s, b)
<1> DEFINE n == num_members
<1>1. n \in Nat /\ r \in 0 .. n - 1 /\ s \in 0 .. n - 1  BY DEF Rank
<1> HIDE DEF n
<1>2. (a + 1) * n <= b * n  BY <1>1, TimesKeepsOrder
<1>3. (a + 1) * n = a * n + n /\ a * n \in Int /\ b * n \in Int  BY <1>1
<1>4. a * n + r < b * n + s  BY <1>1, <1>2, <1>3
<1> QED  BY <1>4 DEF SeqNum, n

LEMMA SeqNumOrder ==
    ASSUME num_members \in Nat, NEW r \in Rank, NEW a \in Int, NEW b \in Int
    PROVE  /\ SeqNum(r, a) < SeqNum(r, b) <=> a < b
           /\ SeqNum(r, a) <= SeqNum(r, b) <=> a <= b
<1>1. SeqNum(r, a) \in Int /\ SeqNum(r, b) \in Int  BY SeqNumType
<1>2. a < b => SeqNum(r, a) < SeqNum(r, b)  BY SeqNumGrows
<1>3. b < a => SeqNum(r, b) < SeqNum(r, a)  BY SeqNumGrows
<1>4. a = b => SeqNum(r, a) = SeqNum(r, b)  OBVIOUS
<1> QED  BY <1>1, <1>2, <1>3, <1>4

LEMMA SeqNumInjective ==
    ASSUME num_members \in Nat, NEW r \in Rank, NEW s \in Rank, NEW a \in Int, NEW b \in Int,
           SeqNum(r, a) = SeqNum(s, b)
    PROVE  r = s /\ a = b
<1>1. SeqNum(r, a) \in Int  BY SeqNumType
<1>2. ~ (a < b) /\ ~ (b < a)  BY <1>1, SeqNumGrows
<1>3. a = b  BY <1>2
<1>4. r \in Nat /\ s \in Nat /\ a * num_members \in Int  BY DEF Rank
<1> QED  BY <1>3, <1>4 DEF SeqNum

-----------------------------------------------------------------------------
(***************************************************************************)
(* The inductive invariant.                                                *)
(***************************************************************************)
\* The views to come: this member is in each of them, and nobody twice.
ViewsFit ==
    \A v \in DOMAIN views : Me \in Range(views[v]) /\ IsInjective(views[v])

AtMostOne(S) == S = {} \/ \E m \in S : S = {m}

\* This member's messages that RDMC has not brought back yet, in order.
Queue == SetToSeq(current_send) \o pending_sends \o SetToSeq(next_send)

IsOwn(m) == m.sender_rank = member_index /\ m.size = 1 /\ m.body >= 0

QueueFits ==
    /\ AtMostOne(current_send) /\ AtMostOne(next_send)
    /\ \A m \in current_send \cup Range(pending_sends) \cup next_send : IsOwn(m)

Base == nReceived[member_index] + 1

ChainFits ==
    /\ Chain(Base, carried_over, Queue, future_message_index)
    /\ \A m \in current_send : m.index = Base

\* What another member has begun to send is the next message that it counts.
IncomingFits ==
    /\ IsFiniteSet(current_receives)
    /\ \A m \in current_receives :
           /\ m.sender_rank \in Rank \ {member_index}
           /\ m.size = 1 /\ m.pause = 0
           /\ m.index = nReceived[m.sender_rank] + 1
           /\ SeqNum(m.sender_rank, m.index - WindowSize) <= delivered_num
    /\ \A m, o \in current_receives : m.sender_rank = o.sender_rank => m = o

\* What waits for its delivery has been counted, is filed under its number and
\* was not delivered.
FiledFits ==
    /\ IsFiniteSet(locally_stable_messages)
    /\ \A e \in locally_stable_messages :
           /\ e.msg.sender_rank \in Rank
           /\ e.seq = SeqNum(e.msg.sender_rank, e.msg.index)
           /\ e.msg.index <= nReceived[e.msg.sender_rank]
           /\ delivered_num < e.seq
           /\ e.msg.size > 0 /\ e.msg.sender_rank = member_index => e.msg.body >= 0
           /\ e.msg.sender_rank # member_index =>
                  SeqNum(e.msg.sender_rank, e.msg.index - WindowSize) <= delivered_num
    /\ \A e, f \in locally_stable_messages : e.seq = f.seq => e = f
    /\ \A r \in Rank : delivered_num < SeqNum(r, nReceived[r] + 1)

\* What waits for the disk, and the writes that are to come.
DiskFits ==
    /\ IsFiniteSet(non_persistent_messages)
    /\ \A e, f \in non_persistent_messages : e.seq = f.seq => e = f
    /\ ~ file_writer =>
           non_persistent_messages = {} /\ writes = <<>> /\ ~ carried_over
    /\ ~ carried_over =>
           /\ ~ thread_shutdown => \A e \in non_persistent_messages : e.seq <= delivered_num
           /\ \A n \in DOMAIN writes :
                  writes[n].view = members /\ Written(writes[n]) # {}
           /\ \A n, m \in DOMAIN writes : KeyOf(writes[n]) = KeyOf(writes[m]) => n = m

\* A member's own messages on their way fit into its window.
WindowFits ==
    ~ file_writer => Len(Queue) + Cardinality(OwnStable) <= WindowSize

IInv ==
    /\ TypeOK
    /\ ViewsFit
    /\ QueueFits
    /\ ChainFits
    /\ IncomingFits
    /\ FiledFits
    /\ NothingLostOrRepeated
    /\ BuffersConserved
    /\ DiskFits
    /\ WindowFits
    /\ AssertionsHold

-----------------------------------------------------------------------------
(***************************************************************************)
(* What the invariant says of a state, and what leaves its parts alone.    *)
(***************************************************************************)
LEMMA Basics ==
    ASSUME TypeOK, ViewsFit
    PROVE  /\ members \in Seq(Id) /\ IsInjective(members)
           /\ num_members \in Nat \ {0} /\ num_members = Len(members)
           /\ member_index \in Rank /\ members[member_index + 1] = Me
           /\ \A r \in Rank : r \in Nat /\ nReceived[r] \in Nat \cup {-1}
           /\ Base \in Nat
           /\ WindowSize \in Nat \ {0}
<1>1. views \in Seq(Seq(Id)) /\ views # <<>>  BY DEF TypeOK
<1>2. members = views[1] /\ 1 \in DOMAIN views /\ members \in Seq(Id)
    BY <1>1 DEF members
<1>3. Me \in Range(members) /\ IsInjective(members)  BY <1>2 DEF ViewsFit
<1>4. member_index \in 0 .. Len(members) - 1 /\ members[member_index + 1] = Me
    BY <1>2, <1>3, RankInType DEF member_index
<1>5. Len(members) \in Nat /\ Len(members) # 0  BY <1>2, <1>4
<1>6. member_index \in Rank  BY <1>4 DEF Rank, num_members
<1>7. \A r \in Rank : r \in Nat /\ nReceived[r] \in Nat \cup {-1}
    <2>1. nReceived \in [Rank -> Nat \cup {-1}]  BY DEF TypeOK
    <2>2. \A r \in Rank : r \in Nat  BY <1>5 DEF Rank, num_members
    <2> QED  BY <2>1, <2>2
<1>8. Base \in Nat  BY <1>6, <1>7 DEF Base
<1>9. WindowSize \in Nat \ {0}  BY TransitionAssumption
<1> QED  BY <1>2, <1>3, <1>4, <1>5, <1>6, <1>7, <1>8, <1>9 DEF num_members

\* An optional.
LEMMA OptionalSeq ==
    ASSUME NEW M, NEW S, S \subseteq M, AtMostOne(S)
    PROVE  /\ SetToSeq(S) \in Seq(M) /\ Range(SetToSeq(S)) = S
           /\ IsFiniteSet(S) /\ Cardinality(S) \in {0, 1}
           /\ Len(SetToSeq(S)) = Cardinality(S)
<1>1. CASE S = {}
    <2>1. SetToSeq(S) = <<>>  BY <1>1, EmptyToSeq
    <2>2. IsFiniteSet(S) /\ Cardinality(S) = 0  BY <1>1, FS_EmptySet
    <2>3. Range(<<>>) = {} /\ <<>> \in Seq(M) /\ Len(<<>>) = 0  BY DEF Range
    <2>4. Range(SetToSeq(S)) = S /\ SetToSeq(S) \in Seq(M)  BY <1>1, <2>1, <2>3
    <2>5. Len(SetToSeq(S)) = Cardinality(S)  BY <2>1, <2>2, <2>3
    <2> QED  BY <2>2, <2>4, <2>5
<1>2. CASE S # {}
    <2>1. PICK m \in S : S = {m}  BY <1>2 DEF AtMostOne
    <2>2. SetToSeq(S) = <<m>>  BY <2>1, OneToSeq
    <2>3. IsFiniteSet(S) /\ Cardinality(S) = 1  BY <2>1, FS_Singleton
    <2>4. Range(<<m>>) = {m} /\ <<m>> \in Seq(M) /\ Len(<<m>>) = 1
        <3>1. m \in M  BY <2>1
        <3> QED  BY <3>1 DEF Range
    <2>5. Range(SetToSeq(S)) = S /\ SetToSeq(S) \in Seq(M)  BY <2>1, <2>2, <2>4
    <2>6. Len(SetToSeq(S)) = Cardinality(S)  BY <2>2, <2>3, <2>4
    <2> QED  BY <2>3, <2>5, <2>6
<1> QED  BY <1>1, <1>2

LEMMA QueueType ==
    ASSUME TypeOK, QueueFits
    PROVE  /\ SetToSeq(current_send) \in Seq(Message)
           /\ SetToSeq(next_send) \in Seq(Message)
           /\ pending_sends \in Seq(Message)
           /\ SetToSeq(current_send) \o pending_sends \in Seq(Message)
           /\ Queue \in Seq(Message)
           /\ IsFiniteSet(current_send) /\ IsFiniteSet(next_send)
           /\ Cardinality(current_send) \in {0, 1} /\ Cardinality(next_send) \in {0, 1}
           /\ Len(pending_sends) \in Nat
           /\ Len(Queue) = Cardinality(current_send) + Len(pending_sends) + Cardinality(next_send)
<1> DEFINE c == SetToSeq(current_send)
           n == SetToSeq(next_send)
<1>1. /\ c \in Seq(Message) /\ IsFiniteSet(current_send)
      /\ Cardinality(current_send) \in {0, 1} /\ Len(c) = Cardinality(current_send)
    BY OptionalSeq DEF TypeOK, QueueFits
<1>2. /\ n \in Seq(Message) /\ IsFiniteSet(next_send)
      /\ Cardinality(next_send) \in {0, 1} /\ Len(n) = Cardinality(next_send)
    BY OptionalSeq DEF TypeOK, QueueFits
<1>3. pending_sends \in Seq(Message)  BY DEF TypeOK
<1>4. Queue = c \o pending_sends \o n  BY DEF Queue
<1> HIDE DEF c, n
<1>5. /\ c \o pending_sends \in Seq(Message) /\ Queue \in Seq(Message)
      /\ Len(Queue) = Len(c) + Len(pending_sends) + Len(n)
      /\ Len(pending_sends) \in Nat
    BY <1>1, <1>2, <1>3, <1>4
<1> QED  BY <1>1, <1>2, <1>3, <1>5 DEF c, n

\* The messages of this member that wait for their delivery.
LEMMA OwnStableType ==
    ASSUME TypeOK, ViewsFit, FiledFits
    PROVE  /\ IsMap(locally_stable_messages)
           /\ IsMap(OwnStable)
           /\ OwnStable \subseteq locally_stable_messages
           /\ \A e \in locally_stable_messages :
                  e.seq \in Int /\ e.msg \in Message /\ e.msg.index \in Nat
           /\ Messages(OwnStable) \in Seq(Message)
           /\ Len(Messages(OwnStable)) = Cardinality(OwnStable)
           /\ IsFiniteSet(OwnStable) /\ Cardinality(OwnStable) \in Nat
           /\ \A n \in 1 .. Cardinality(OwnStable) :
                  Sorted(OwnStable)[n] \in OwnStable
                  /\ Messages(OwnStable)[n] = Sorted(OwnStable)[n].msg
<1>1. \A e \in locally_stable_messages : e.seq \in Int /\ e.msg \in Message
    BY DEF TypeOK, Entry
<1>2. IsMap(locally_stable_messages)  BY <1>1 DEF FiledFits, IsMap
<1>3. OwnStable \subseteq locally_stable_messages  BY DEF OwnStable
<1>4. IsMap(OwnStable)  BY <1>2, <1>3, MapSubset
<1>5. \A e \in OwnStable : e.msg \in Message  BY <1>1, <1>3
<1>6. /\ Messages(OwnStable) \in Seq(Message)
      /\ Len(Messages(OwnStable)) = Cardinality(OwnStable)
      /\ Cardinality(OwnStable) \in Nat
      /\ \A n \in 1 .. Cardinality(OwnStable) :
             Sorted(OwnStable)[n] \in OwnStable
             /\ Messages(OwnStable)[n] = Sorted(OwnStable)[n].msg
    BY <1>4, <1>5, MessagesType
<1>7. \A e \in locally_stable_messages : e.msg.index \in Nat  BY <1>1, MessageType
<1>8. IsFiniteSet(OwnStable)  BY <1>4 DEF IsMap
<1> QED  BY <1>1, <1>2, <1>3, <1>4, <1>6, <1>7, <1>8

LEMMA ViewsFrame ==
    ASSUME ViewsFit, UNCHANGED views
    PROVE  /\ ViewsFit' /\ members' = members /\ num_members' = num_members
           /\ Rank' = Rank /\ member_index' = member_index
           /\ \A r, a : SeqNum(r, a)' = SeqNum(r, a)
BY DEF ViewsFit, members, num_members, Rank, member_index, SeqNum, RankIn

LEMMA QueueFrame ==
    ASSUME ViewsFit, UNCHANGED <<views, sendVars>>, QueueFits
    PROVE  QueueFits' /\ Queue' = Queue
<1>1. member_index' = member_index  BY ViewsFrame
<1>2. UNCHANGED <<current_send, next_send, pending_sends>>  BY DEF sendVars
<1>3. Queue' = Queue  BY <1>2 DEF Queue
<1> QED  BY <1>1, <1>2, <1>3 DEF QueueFits, IsOwn, AtMostOne

LEMMA ChainFrame ==
    ASSUME ViewsFit, ChainFits, UNCHANGED <<views, future_message_index, carried_over>>,
           nReceived'[member_index] = nReceived[member_index],
           Queue' = Queue, current_send' \subseteq current_send
    PROVE  ChainFits'
<1>1. member_index' = member_index  BY ViewsFrame
<1>2. Base' = Base  BY <1>1 DEF Base
<1> QED  BY <1>2 DEF ChainFits

LEMMA IncomingFrame ==
    ASSUME ViewsFit, IncomingFits, UNCHANGED <<views, current_receives, nReceived, delivered_num>>
    PROVE  IncomingFits'
<1>1. Rank' = Rank /\ member_index' = member_index
      /\ \A r, a : SeqNum(r, a)' = SeqNum(r, a)
    BY ViewsFrame
<1> QED  BY <1>1 DEF IncomingFits

LEMMA FiledFrame ==
    ASSUME ViewsFit, FiledFits,
           UNCHANGED <<views, locally_stable_messages, nReceived, delivered_num>>
    PROVE  FiledFits'
<1>1. Rank' = Rank /\ member_index' = member_index
      /\ \A r, a : SeqNum(r, a)' = SeqNum(r, a)
    BY ViewsFrame
<1> QED  BY <1>1 DEF FiledFits

LEMMA OwnStableFrame ==
    ASSUME ViewsFit, UNCHANGED <<views, locally_stable_messages>>
    PROVE  OwnStable' = OwnStable
<1>1. member_index' = member_index  BY ViewsFrame
<1> QED  BY <1>1 DEF OwnStable

LEMMA DiskFrame ==
    ASSUME ViewsFit, DiskFits,
           UNCHANGED <<views, file_writer, thread_shutdown, rdmc_groups, non_persistent_messages,
                       writes, carried_over, delivered_num>>
    PROVE  DiskFits'
<1>1. members' = members /\ \A r, a : SeqNum(r, a)' = SeqNum(r, a)
    BY ViewsFrame
<1>2. \A w : KeyOf(w)' = KeyOf(w)  BY <1>1 DEF KeyOf
<1>3. \A w : Written(w)' = Written(w)  BY <1>2 DEF Written
<1> QED  BY <1>1, <1>2, <1>3 DEF DiskFits

\* The messages that wait for their delivery, without the empty ones.
Stable == {e \in locally_stable_messages : e.msg.size > 0}

LEMMA CountsType ==
    ASSUME TypeOK, QueueFits, IncomingFits, FiledFits, DiskFits
    PROVE  /\ free_message_buffers \in Nat /\ total_message_buffers \in Nat
           /\ Cardinality(next_send) \in Nat /\ Len(pending_sends) \in Nat
           /\ Cardinality(current_send) \in Nat
           /\ IsFiniteSet(current_receives) /\ Cardinality(current_receives) \in Nat
           /\ IsFiniteSet(Stable) /\ Cardinality(Stable) \in Nat
           /\ IsFiniteSet(non_persistent_messages)
           /\ Cardinality(non_persistent_messages) \in Nat
<1>1. free_message_buffers \in Nat /\ total_message_buffers \in Nat  BY DEF TypeOK
<1>2. /\ Cardinality(next_send) \in Nat /\ Len(pending_sends) \in Nat
      /\ Cardinality(current_send) \in Nat
    BY QueueType
<1>3. IsFiniteSet(current_receives) /\ IsFiniteSet(non_persistent_messages)
    BY DEF IncomingFits, DiskFits
<1>4. IsFiniteSet(Stable)
    <2>1. Stable \subseteq locally_stable_messages  BY DEF Stable
    <2> QED  BY <2>1, FS_Subset DEF FiledFits
<1> QED  BY <1>1, <1>2, <1>3, <1>4, FS_CardinalityType

\* The buffers, in a form that leaves the sum alone.
InUse == Cardinality(next_send) + Len(pending_sends) + Cardinality(current_send)
         + Cardinality(current_receives) + Cardinality(Stable)
         + Cardinality(non_persistent_messages)

BuffersSum ==
    TypeOK /\ QueueFits /\ IncomingFits /\ FiledFits /\ DiskFits =>
        /\ InUse \in Nat
        /\ BuffersConserved <=>
               (~ carried_over =>
                    /\ total_message_buffers >= Buffers(num_members)
                    /\ total_message_buffers = free_message_buffers + InUse)

LEMMA BuffersIs == BuffersSum /\ BuffersSum'
<1>1. BuffersSum
    <2> SUFFICES ASSUME TypeOK, QueueFits, IncomingFits, FiledFits, DiskFits
                 PROVE  /\ InUse \in Nat
                        /\ BuffersConserved <=>
                               (~ carried_over =>
                                    /\ total_message_buffers >= Buffers(num_members)
                                    /\ total_message_buffers = free_message_buffers + InUse)
        BY DEF BuffersSum
    <2>1. InUse \in Nat  BY CountsType DEF InUse
    <2>2. free_message_buffers + Cardinality(next_send) + Len(pending_sends)
          + Cardinality(current_send) + Cardinality(current_receives) + Cardinality(Stable)
          + Cardinality(non_persistent_messages) = free_message_buffers + InUse
        BY CountsType DEF InUse
    <2> QED  BY <2>1, <2>2 DEF BuffersConserved, Stable
<1> QED  BY <1>1, PTL

-----------------------------------------------------------------------------
(***************************************************************************)
(* The sending side.                                                       *)
(***************************************************************************)
\* If the window allows a message with the next index, there is room for it.
LEMMA OwnWindow ==
    ASSUME IInv, delivered_num >= SeqNum(member_index, future_message_index - WindowSize)
    PROVE  Len(Queue) + Cardinality(OwnStable) <= WindowSize - 1
<1> DEFINE me == member_index
           next == future_message_index
           low == next - WindowSize
           K == low + 1 .. next - 1
           X == {Queue[n].index : n \in 1 .. Len(Queue)}
           Y == {e.msg.index : e \in OwnStable}
<1>1. /\ num_members \in Nat /\ me \in Rank /\ WindowSize \in Nat \ {0} /\ Base \in Nat
      /\ Base = nReceived[me] + 1 /\ nReceived[me] \in Int
    BY Basics DEF IInv, Base
<1>2. /\ next \in Nat /\ low \in Int /\ delivered_num \in Int
      /\ delivered_num >= SeqNum(me, low)
    BY <1>1 DEF IInv, TypeOK
<1>3. Queue \in Seq(Message)  BY QueueType DEF IInv
<1>4. Chain(Base, carried_over, Queue, next)  BY DEF IInv, ChainFits
<1>5. /\ Base <= next
      /\ \A n \in 1 .. Len(Queue) : Base <= Queue[n].index /\ Queue[n].index < next
      /\ \A m, n \in 1 .. Len(Queue) : m < n => Queue[m].index < Queue[n].index
    <2>1. Base \in Int /\ next \in Int  BY <1>1, <1>2
    <2> HIDE DEF next, low
    <2> QED  BY <2>1, <1>3, <1>4, ChainGrows
<1>6. \A n \in 1 .. Len(Queue) : Queue[n].index \in Nat
    <2> TAKE n \in 1 .. Len(Queue)
    <2>1. Queue[n] \in Message  BY <1>3
    <2> QED  BY <2>1, MessageType
<1>7. low < Base
    <2>1. delivered_num < SeqNum(me, Base)  BY <1>1 DEF IInv, FiledFits
    <2> HIDE DEF me, low
    <2>2. SeqNum(me, low) \in Int /\ SeqNum(me, Base) \in Int  BY <1>1, <1>2, SeqNumType
    <2>3. SeqNum(me, low) < SeqNum(me, Base)  BY <2>1, <2>2, <1>2
    <2> QED  BY <1>1, <1>2, <2>3, SeqNumOrder
<1>8. X \subseteq K
    <2> SUFFICES ASSUME NEW x \in X PROVE x \in K  OBVIOUS
    <2>1. PICK n \in 1 .. Len(Queue) : x = Queue[n].index  OBVIOUS
    <2>2. x \in Nat /\ Base <= x /\ x < next  BY <2>1, <1>5, <1>6
    <2>3. x >= low + 1  BY <2>2, <1>1, <1>2, <1>7
    <2> HIDE DEF low, next
    <2> QED  BY <2>2, <2>3, <1>2
<1>9. ASSUME NEW e \in OwnStable
      PROVE  /\ e.msg.index \in low + 1 .. Base - 1
             /\ e.seq = SeqNum(me, e.msg.index) /\ e \in locally_stable_messages
    <2>1. /\ e \in locally_stable_messages /\ e.msg.sender_rank = me
          /\ e.msg.index \in Nat /\ e.seq \in Int
        BY OwnStableType DEF IInv, OwnStable
    <2>2. /\ e.seq = SeqNum(me, e.msg.index) /\ delivered_num < e.seq
          /\ e.msg.index <= nReceived[me]
        BY <2>1 DEF IInv, FiledFits
    <2> HIDE DEF me, low
    <2>3. SeqNum(me, low) < SeqNum(me, e.msg.index)
        <3>1. SeqNum(me, low) \in Int  BY <1>1, <1>2, SeqNumType
        <3> QED  BY <3>1, <2>1, <2>2, <1>2
    <2>4. low < e.msg.index  BY <2>1, <2>3, <1>1, <1>2, SeqNumOrder
    <2> QED  BY <2>1, <2>2, <2>4, <1>1, <1>2
<1>10. Y \subseteq K
    <2> SUFFICES ASSUME NEW y \in Y PROVE y \in K  OBVIOUS
    <2>1. PICK e \in OwnStable : y = e.msg.index  OBVIOUS
    <2>2. y \in low + 1 .. Base - 1  BY <2>1, <1>9
    <2> HIDE DEF low, next
    <2> QED  BY <2>2, <1>1, <1>2, <1>5
<1>11. X \cap Y = {}
    <2> SUFFICES ASSUME NEW x \in X, x \in Y PROVE FALSE  OBVIOUS
    <2>1. PICK n \in 1 .. Len(Queue) : x = Queue[n].index  OBVIOUS
    <2>2. PICK e \in OwnStable : x = e.msg.index  OBVIOUS
    <2>3. Base <= x /\ x \in Nat  BY <2>1, <1>5, <1>6
    <2>4. x \in low + 1 .. Base - 1  BY <2>2, <1>9
    <2> HIDE DEF low
    <2> QED  BY <2>3, <2>4, <1>1, <1>2
<1>12. IsFiniteSet(K) /\ Cardinality(K) = WindowSize - 1
    <2>1. low + 1 \in Int /\ next - 1 \in Int  BY <1>2
    <2>2. IsFiniteSet(K) /\ Cardinality(K) = IF low + 1 > next - 1 THEN 0 ELSE (next - 1) - (low + 1) + 1
        BY <2>1, FS_Interval
    <2> QED  BY <2>2, <1>1, <1>2
<1>13. IsFiniteSet(X) /\ IsFiniteSet(Y)
    <2> HIDE DEF X, Y, K
    <2> QED  BY <1>8, <1>10, <1>12, FS_Subset
<1>14. Len(Queue) <= Cardinality(X)
    <2> DEFINE f == [n \in 1 .. Len(Queue) |-> Queue[n].index]
    <2>1. f \in [1 .. Len(Queue) -> X]  OBVIOUS
    <2>2. \A m, n \in 1 .. Len(Queue) : f[m] = f[n] => m = n
        <3> TAKE m, n \in 1 .. Len(Queue)
        <3>1. m < n => f[m] < f[n]  BY <1>5
        <3>2. n < m => f[n] < f[m]  BY <1>5
        <3>3. f[m] \in Nat /\ f[n] \in Nat /\ m \in Int /\ n \in Int  BY <1>6
        <3> HIDE DEF f
        <3> QED  BY <3>1, <3>2, <3>3
    <2>3. DOMAIN f = 1 .. Len(Queue)  OBVIOUS
    <2> HIDE DEF f, X
    <2>4. f \in Injection(1 .. Len(Queue), X)  BY <2>1, <2>2, <2>3 DEF Injection, IsInjective
    <2>5. Cardinality(1 .. Len(Queue)) <= Cardinality(X)  BY <2>4, <1>13, FS_Injection
    <2>6. Len(Queue) \in Nat  BY <1>3
    <2>7. Cardinality(1 .. Len(Queue)) = IF 1 > Len(Queue) THEN 0 ELSE Len(Queue) - 1 + 1
        BY <2>6, FS_Interval
    <2>8. Cardinality(1 .. Len(Queue)) = Len(Queue)  BY <2>6, <2>7
    <2> QED  BY <2>5, <2>8
<1>15. Cardinality(OwnStable) <= Cardinality(Y)
    <2> DEFINE f == [e \in OwnStable |-> e.msg.index]
    <2>1. f \in [OwnStable -> Y]  OBVIOUS
    <2>2. \A d, e \in OwnStable : f[d] = f[e] => d = e
        <3> SUFFICES ASSUME NEW d \in OwnStable, NEW e \in OwnStable, f[d] = f[e] PROVE d = e
            OBVIOUS
        <3>1. d.seq = e.seq  BY <1>9
        <3> QED  BY <3>1, <1>9 DEF IInv, FiledFits
    <2>3. DOMAIN f = OwnStable  OBVIOUS
    <2> HIDE DEF f, Y
    <2>4. f \in Injection(OwnStable, Y)  BY <2>1, <2>2, <2>3 DEF Injection, IsInjective
    <2> QED  BY <2>4, <1>13, FS_Injection
<1>16. Cardinality(X \cup Y) = Cardinality(X) + Cardinality(Y)
    <2> HIDE DEF X, Y
    <2>1. Cardinality(X \cup Y) = Cardinality(X) + Cardinality(Y) - Cardinality(X \cap Y)
        BY <1>13, FS_Union
    <2>2. Cardinality(X \cap Y) = 0  BY <1>11, FS_EmptySet
    <2>3. Cardinality(X) \in Nat /\ Cardinality(Y) \in Nat  BY <1>13, FS_CardinalityType
    <2> QED  BY <2>1, <2>2, <2>3
<1>17. Cardinality(X \cup Y) <= Cardinality(K)
    <2>1. X \cup Y \subseteq K  BY <1>8, <1>10
    <2> HIDE DEF X, Y, K
    <2> QED  BY <2>1, <1>12, FS_Subset
<1>18. Cardinality(X) \in Nat /\ Cardinality(Y) \in Nat /\ Cardinality(OwnStable) \in Nat
       /\ Len(Queue) \in Nat
    <2> HIDE DEF X, Y
    <2> QED  BY <1>3, <1>13, FS_CardinalityType, OwnStableType DEF IInv
<1> HIDE DEF X, Y, K
<1> QED  BY <1>1, <1>12, <1>14, <1>15, <1>16, <1>17, <1>18

LEMMA GetPositionKeeps ==
    ASSUME IInv, NEW turns \in 0 .. MaxPause, GetPosition(turns)
    PROVE  IInv'
<1> DEFINE new == [sender_rank |-> member_index, index |-> future_message_index,
                   size |-> 1, pause |-> turns, body |-> Len(sent)]
           cp == SetToSeq(current_send) \o pending_sends
<1> USE DEF GetPosition
<1>1. UNCHANGED <<viewVars, pending_sends, current_send, current_receives,
                  locally_stable_messages, non_persistent_messages,
                  total_message_buffers, rowVars, writes, aborted, historyVars>>
    OBVIOUS
<1>2. /\ ViewsFit' /\ members' = members /\ num_members' = num_members
      /\ Rank' = Rank /\ member_index' = member_index
    BY <1>1, ViewsFrame DEF viewVars, IInv
<1>3. /\ member_index \in Rank /\ member_index \in Nat /\ num_members \in Nat
      /\ MaxPause \in Nat /\ MaxMessages \in Nat /\ turns \in Nat /\ Base \in Nat
    BY Basics, TransitionAssumption DEF IInv
<1>4. future_message_index \in Nat /\ Len(sent) \in Nat /\ Len(sent) < MaxMessages
    BY DEF IInv, TypeOK
<1>5. PICK m \in Message : m = new
    <2>1. new \in Message  BY <1>3, <1>4 DEF Message
    <2> HIDE DEF new
    <2> QED  BY <2>1
<1>6. next_send = {} /\ next_send' = {m} /\ future_message_index' = After(m)
    BY <1>3, <1>4, <1>5 DEF After
<1>7. /\ free_message_buffers \in Nat /\ free_message_buffers > 0
      /\ free_message_buffers' = free_message_buffers - 1
    BY DEF IInv, TypeOK
<1> HIDE DEF GetPosition, new
<1>8. TypeOK'
    <2>1. future_message_index' \in Nat /\ next_send' \subseteq Message
        BY <1>5, <1>6, AfterType
    <2>2. free_message_buffers' \in Nat  BY <1>7
    <2> QED  BY <2>1, <2>2, <1>1, <1>2 DEF IInv, TypeOK, viewVars, rowVars, historyVars
<1>9. QueueFits'
    <2>1. IsOwn(m)' /\ AtMostOne(next_send)'
        BY <1>2, <1>4, <1>5, <1>6 DEF IsOwn, AtMostOne, new
    <2>2. AtMostOne(current_send)'  BY <1>1 DEF IInv, QueueFits, AtMostOne
    <2>3. ASSUME NEW o \in (current_send \cup Range(pending_sends) \cup next_send)'
          PROVE  IsOwn(o)'
        <3>1. CASE o = m  BY <3>1, <2>1
        <3>2. CASE o # m
            <4>1. o \in current_send \cup Range(pending_sends)  BY <3>2, <1>1, <1>6
            <4>2. IsOwn(o)  BY <4>1 DEF IInv, QueueFits
            <4> QED  BY <4>2, <1>2 DEF IsOwn
        <3> QED  BY <3>1, <3>2
    <2> QED  BY <2>1, <2>2, <2>3 DEF QueueFits
<1>10. /\ cp \in Seq(Message) /\ Queue = cp /\ Queue' = cp \o <<m>>
    <2>1. cp \in Seq(Message)  BY QueueType DEF IInv
    <2>2. SetToSeq(next_send) = <<>> /\ SetToSeq(next_send') = <<m>>
        BY <1>6, EmptyToSeq, OneToSeq
    <2>3. Queue = cp \o <<>> /\ Queue' = cp \o <<m>>  BY <2>2, <1>1 DEF Queue
    <2> HIDE DEF cp
    <2> QED  BY <2>1, <2>3
<1>11. Base' = Base  BY <1>1, <1>2 DEF Base, rowVars
<1> HIDE DEF cp
<1>12. ChainFits'
    <2>1. Chain(Base, carried_over, cp, m.index)  BY <1>5, <1>10 DEF IInv, ChainFits, new
    <2>2. Follows(carried_over, After(m), After(m)) /\ After(m) \in Int
        BY <1>5, AfterType DEF Follows
    <2>3. Chain(Base, carried_over, cp \o <<m>>, After(m))
        BY <2>1, <2>2, <1>3, <1>5, <1>10, ChainAppend
    <2> QED  BY <2>3, <1>1, <1>6, <1>10, <1>11 DEF IInv, ChainFits, historyVars
<1>13. IncomingFits' /\ FiledFits' /\ DiskFits'
    BY <1>1, IncomingFrame, FiledFrame, DiskFrame DEF IInv, viewVars, rowVars, historyVars
<1>14. OwnStable' = OwnStable  BY <1>1, OwnStableFrame, SMTT(40) DEF IInv, viewVars
<1>15. NothingLostOrRepeated'
    BY <1>1, <1>14 DEF IInv, NothingLostOrRepeated, historyVars, Messages, Sorted, Bodies
<1>16. BuffersConserved'
    <2>1. Cardinality(next_send) = 0 /\ Cardinality(next_send') = 1
        BY <1>6, FS_EmptySet, FS_Singleton
    <2>2. \A n : Buffers(n)' = Buffers(n)  BY DEF Buffers
    <2> QED  BY <2>1, <2>2, <1>1, <1>2, <1>7 DEF IInv, BuffersConserved, historyVars
<1>17. WindowFits'
    <2>1. Len(Queue') = Len(Queue) + 1
        <3> QED  BY <1>5, <1>10
    <2>2. Len(Queue) + Cardinality(OwnStable) <= WindowSize - 1
        BY OwnWindow DEF GetPosition
    <2>3. Len(Queue) \in Nat /\ Cardinality(OwnStable) \in Nat /\ WindowSize \in Nat
        BY <1>10, OwnStableType, Basics DEF IInv
    <2> QED  BY <2>1, <2>2, <2>3, <1>14 DEF WindowFits
<1>18. AssertionsHold'
    BY <1>1 DEF IInv, AssertionsHold, historyVars, viewVars
<1> QED  BY <1>2, <1>8, <1>9, <1>12, <1>13, <1>15, <1>16, <1>17, <1>18 DEF IInv

LEMMA AppendLast ==
    ASSUME NEW S, NEW s \in Seq(S), NEW t \in Seq(S), NEW e \in S
    PROVE  s \o Append(t, e) = (s \o t) \o <<e>> /\ s \o t \in Seq(S)
<1>1. Append(t, e) = t \o <<e>> /\ <<e>> \in Seq(S)  BY AppendIsConcat
<1>2. (s \o t) \o <<e>> = s \o (t \o <<e>>)  BY <1>1, ConcatAssociative
<1> QED  BY <1>1, <1>2

LEMMA RangeAppend ==
    ASSUME NEW S, NEW s \in Seq(S), NEW e \in S
    PROVE  Range(Append(s, e)) = Range(s) \cup {e}
<1>1. Append(s, e) = s \o <<e>> /\ <<e>> \in Seq(S)  BY AppendIsConcat
<1>2. Range(s \o <<e>>) = Range(s) \cup Range(<<e>>)  BY <1>1, RangeConcatenation, SMTT(40)
<1>3. Range(<<e>>) = {e}  BY DEF Range
<1> QED  BY <1>1, <1>2, <1>3

LEMMA HeadFirst ==
    ASSUME NEW S, NEW s \in Seq(S), NEW t \in Seq(S), t # <<>>
    PROVE  /\ (s \o <<Head(t)>>) \o Tail(t) = s \o t
           /\ t = <<Head(t)>> \o Tail(t)
           /\ Head(t) \in S /\ Tail(t) \in Seq(S) /\ Len(Tail(t)) = Len(t) - 1
           /\ Head(t) \in Range(t) /\ Range(Tail(t)) \subseteq Range(t)
<1>1. Head(t) \in S /\ Tail(t) \in Seq(S) /\ Len(Tail(t)) = Len(t) - 1 /\ Len(t) \in Nat \ {0}
      /\ \A n \in 1 .. Len(t) - 1 : Tail(t)[n] = t[n + 1]
    OBVIOUS
<1>2. t = <<Head(t)>> \o Tail(t)
    <2> DEFINE u == <<Head(t)>> \o Tail(t)
    <2>1. u \in Seq(S) /\ Len(u) = Len(t) /\ \A n \in 1 .. Len(t) : u[n] = t[n]
        BY <1>1
    <2> HIDE DEF u
    <2>2. u = t  BY <2>1, SeqEqual
    <2> QED  BY <2>2 DEF u
<1>3. (s \o <<Head(t)>>) \o Tail(t) = s \o (<<Head(t)>> \o Tail(t))
    <2>1. <<Head(t)>> \in Seq(S)  BY <1>1
    <2> DEFINE h == <<Head(t)>>
               r == Tail(t)
    <2>2. h \in Seq(S) /\ r \in Seq(S)  BY <1>1, <2>1
    <2> HIDE DEF h, r
    <2>3. (s \o h) \o r = s \o (h \o r)  BY <2>2, ConcatAssociative
    <2> QED  BY <2>3 DEF h, r
<1>4. Head(t) \in Range(t)
    <2>1. 1 \in DOMAIN t /\ t[1] = Head(t)  BY <1>1
    <2> QED  BY <2>1 DEF Range
<1>5. Range(Tail(t)) \subseteq Range(t)
    <2> SUFFICES ASSUME NEW x \in Range(Tail(t)) PROVE x \in Range(t)  OBVIOUS
    <2>1. PICK n \in DOMAIN Tail(t) : x = Tail(t)[n]  BY DEF Range
    <2>2. n + 1 \in DOMAIN t /\ x = t[n + 1]  BY <1>1, <2>1
    <2> QED  BY <2>2 DEF Range
<1> QED  BY <1>1, <1>2, <1>3, <1>4, <1>5

LEMMA SendKeeps ==
    ASSUME IInv, Send
    PROVE  IInv'
<1>1. UNCHANGED <<viewVars, future_message_index, current_send, messageVars,
                  rowVars, writes, aborted, delivered, carried_over>>
    BY DEF Send
<1>2. PICK m \in next_send :
          pending_sends' = Append(pending_sends, m) /\ sent' = Append(sent, m.body)
    BY DEF Send
<1>3. next_send = {m} /\ next_send' = {}
    BY <1>2 DEF Send, IInv, QueueFits, AtMostOne
<1>4. m \in Message /\ IsOwn(m)
    BY <1>2 DEF IInv, TypeOK, QueueFits
<1>5. m.body \in Nat
    BY <1>4, MessageType DEF IsOwn
<1>6. /\ ViewsFit' /\ members' = members /\ num_members' = num_members
      /\ Rank' = Rank /\ member_index' = member_index
    BY <1>1, ViewsFrame DEF viewVars, IInv
<1> DEFINE c == SetToSeq(current_send)
<1>7. c \in Seq(Message) /\ pending_sends \in Seq(Message)
    BY QueueType DEF IInv
<1>8. TypeOK'
    <2>1. pending_sends' \in Seq(Message) /\ sent' \in Seq(Nat) /\ next_send' \subseteq Message
        <3>1. sent \in Seq(Nat) /\ pending_sends \in Seq(Message)  BY DEF IInv, TypeOK
        <3> QED  BY <3>1, <1>2, <1>3, <1>4, <1>5
    <2> QED  BY <2>1, <1>1, <1>6 DEF IInv, TypeOK, viewVars, messageVars, rowVars
<1>9. QueueFits'
    <2>1. AtMostOne(current_send)' /\ AtMostOne(next_send)'
        BY <1>1, <1>3 DEF IInv, QueueFits, AtMostOne
    <2>2. ASSUME NEW o \in (current_send \cup Range(pending_sends) \cup next_send)'
          PROVE  IsOwn(o)'
        <3>1. Range(Append(pending_sends, m)) = Range(pending_sends) \cup {m}
            BY <1>4, <1>7, RangeAppend
        <3>2. o \in current_send \cup Range(pending_sends) \cup next_send
            BY <3>1, <1>1, <1>2, <1>3
        <3>3. IsOwn(o)  BY <3>2 DEF IInv, QueueFits
        <3> QED  BY <3>3, <1>6 DEF IsOwn
    <2> QED  BY <2>1, <2>2 DEF QueueFits
<1>10. Queue' = Queue
    <2>1. SetToSeq(next_send) = <<m>> /\ SetToSeq(next_send') = <<>>
        BY <1>3, EmptyToSeq, OneToSeq
    <2>2. Queue = (c \o pending_sends) \o <<m>>
          /\ Queue' = (c \o Append(pending_sends, m)) \o <<>>
        BY <2>1, <1>1, <1>2 DEF Queue
    <2> HIDE DEF c
    <2>3. /\ c \o Append(pending_sends, m) = (c \o pending_sends) \o <<m>>
          /\ c \o pending_sends \in Seq(Message)
        BY <1>4, <1>7, AppendLast
    <2> QED  BY <2>2, <2>3, <1>4
<1>11. ChainFits'
    <2>1. nReceived'[member_index] = nReceived[member_index]  BY <1>1 DEF rowVars
    <2> QED  BY <2>1, <1>1, <1>10, ChainFrame DEF IInv, viewVars
<1>12. IncomingFits' /\ FiledFits' /\ DiskFits'
    BY <1>1, IncomingFrame, FiledFrame, DiskFrame DEF IInv, viewVars, rowVars, messageVars
<1>13. OwnStable' = OwnStable  BY <1>1, OwnStableFrame DEF IInv, viewVars, messageVars
<1>14. NothingLostOrRepeated'
    <2> DEFINE s == Messages(OwnStable) \o c
               w == s \o pending_sends
    <2>1. s \in Seq(Message)
        <3>1. Messages(OwnStable) \in Seq(Message)  BY OwnStableType DEF IInv
        <3> HIDE DEF c
        <3> QED  BY <3>1, <1>7
    <2>2. sent = delivered \o Bodies(w)
        BY DEF IInv, NothingLostOrRepeated
    <2>3. w \in Seq(Message) /\ s \o Append(pending_sends, m) = w \o <<m>>
        <3> HIDE DEF s
        <3> QED  BY <2>1, <1>4, <1>7, AppendLast
    <2>4. Messages(OwnStable)' = Messages(OwnStable)  BY <1>13 DEF Messages, Sorted
    <2>5. NothingLostOrRepeated' <=> sent' = delivered \o Bodies(s \o Append(pending_sends, m))
        <3>1. Messages(OwnStable') = Messages(OwnStable)  BY <1>13
        <3> QED  BY <3>1, <1>1, <1>2 DEF NothingLostOrRepeated, Bodies
    <2>6. Bodies(w \o <<m>>) = Bodies(w) \o <<m.body>>
        <3> HIDE DEF w
        <3>1. <<m>> \in Seq(Message)  BY <1>4
        <3> QED  BY <3>1, <2>3, BodiesConcat, BodiesOne
    <2> DEFINE b == Bodies(w)
    <2>7. b \in Seq(Int) /\ delivered \in Seq(Int)
        <3> HIDE DEF w
        <3>1. delivered \in Seq(Nat)  BY DEF IInv, TypeOK
        <3>2. delivered \in Seq(Int)  BY <3>1, SeqMonotonic
        <3> QED  BY <3>2, <2>3, BodiesType
    <2> HIDE DEF b, w, s
    <2>8. delivered \o (b \o <<m.body>>) = Append(delivered \o b, m.body)
        <3>1. m.body \in Int  BY <1>5
        <3>2. b \o <<m.body>> = Append(b, m.body)  BY <3>1, <2>7, AppendIsConcat
        <3>3. delivered \o Append(b, m.body) = (delivered \o b) \o <<m.body>>
              /\ delivered \o b \in Seq(Int)
            BY <3>1, <2>7, AppendLast
        <3>4. (delivered \o b) \o <<m.body>> = Append(delivered \o b, m.body)
            BY <3>1, <3>3, AppendIsConcat
        <3> QED  BY <3>2, <3>3, <3>4
    <2> QED  BY <2>2, <2>3, <2>5, <2>6, <2>8, <1>2 DEF b
<1>15. BuffersConserved'
    <2>1. Cardinality(next_send) = 1 /\ Cardinality(next_send') = 0
        BY <1>3, FS_EmptySet, FS_Singleton
    <2>2. Len(pending_sends') = Len(pending_sends) + 1 /\ Len(pending_sends) \in Nat
        BY <1>2, <1>4, <1>7
    <2>3. Buffers(num_members)' = Buffers(num_members)  BY <1>6 DEF Buffers
    <2>4. InUse' = InUse
        <3>1. Stable' = Stable  BY <1>1 DEF Stable, messageVars
        <3> QED  BY <2>1, <2>2, <3>1, <1>1, CountsType DEF IInv, InUse, messageVars
    <2>5. TypeOK' /\ QueueFits' /\ IncomingFits' /\ FiledFits' /\ DiskFits'
        BY <1>8, <1>9, <1>12
    <2> QED  BY <2>3, <2>4, <2>5, <1>1, BuffersIs DEF IInv, BuffersSum, messageVars
<1>16. WindowFits' /\ AssertionsHold'
    BY <1>1, <1>10, <1>13 DEF IInv, WindowFits, AssertionsHold, viewVars
<1> QED  BY <1>6, <1>8, <1>9, <1>11, <1>12, <1>14, <1>15, <1>16 DEF IInv

LEMMA SenderStepKeeps ==
    ASSUME IInv, SenderStep
    PROVE  IInv'
<1> DEFINE ps == pending_sends
           h == Head(ps)
           n == SetToSeq(next_send)
<1>1. UNCHANGED <<viewVars, future_message_index, next_send, messageVars, rowVars,
                  writes, aborted, historyVars>>
    BY DEF SenderStep
<1>2. /\ ps # <<>> /\ current_send' = {h} /\ pending_sends' = Tail(ps)
      /\ nReceived[member_index] >= h.index - 1
    BY DEF SenderStep, should_send
<1>3. /\ ps \in Seq(Message) /\ n \in Seq(Message) /\ Queue \in Seq(Message)
      /\ Base \in Nat /\ Base \in Int /\ Base = nReceived[member_index] + 1
      /\ nReceived[member_index] \in Int
    BY QueueType, Basics DEF IInv, Base
<1>4. /\ ps = <<h>> \o Tail(ps) /\ h \in Message /\ Tail(ps) \in Seq(Message)
      /\ Len(Tail(ps)) = Len(ps) - 1
      /\ h \in Range(ps) /\ Range(Tail(ps)) \subseteq Range(ps)
    <2> HIDE DEF h, ps
    <2>1. <<>> \in Seq(Message)  OBVIOUS
    <2> QED  BY <1>2, <1>3, <2>1, HeadFirst DEF h
<1>5. h.index \in Nat  BY <1>4, MessageType
<1>6. future_message_index \in Int /\ Chain(Base, carried_over, Queue, future_message_index)
    BY DEF IInv, TypeOK, ChainFits
<1>7. /\ \A k \in 1 .. Len(Queue) : Base <= Queue[k].index
      /\ \A j, k \in 1 .. Len(Queue) : j < k => Queue[j].index < Queue[k].index
    <2> HIDE DEF ps, n, h
    <2> QED  BY <1>3, <1>6, ChainGrows
<1> HIDE DEF h, n, ps
<1>8. current_send = {}
    <2> SUFFICES ASSUME current_send # {} PROVE FALSE  OBVIOUS
    <2>1. PICK m : current_send = {m} /\ m.index = Base /\ m \in Message
        BY DEF IInv, QueueFits, AtMostOne, ChainFits, TypeOK
    <2>2. Queue = <<m>> \o ps \o n
        BY <2>1, OneToSeq DEF Queue, ps, n
    <2>3. Queue[1] = m /\ Queue[2] = h /\ 1 \in 1 .. Len(Queue) /\ 2 \in 1 .. Len(Queue)
        <3>1. Len(ps) \in Nat \ {0} /\ ps[1] = h  BY <1>2, <1>3 DEF h
        <3>2. (<<m>> \o ps)[1] = m /\ (<<m>> \o ps)[2] = ps[1]
              /\ Len(<<m>> \o ps) = Len(ps) + 1 /\ <<m>> \o ps \in Seq(Message)
            BY <3>1, <2>1, <1>3
        <3> DEFINE u == <<m>> \o ps
        <3> HIDE DEF u
        <3>3. Queue = u \o n  BY <2>2 DEF u
        <3>4. u \in Seq(Message) /\ Len(u) \in Nat /\ Len(u) >= 2 /\ u[1] = m /\ u[2] = h
            BY <3>1, <3>2 DEF u
        <3> QED  BY <3>3, <3>4, <1>3
    <2>4. m.index < h.index  BY <2>3, <1>7
    <2> QED  BY <2>1, <2>4, <1>2, <1>3, <1>5
<1>9. SetToSeq(current_send) = <<>> /\ SetToSeq(current_send') = <<h>>
    BY <1>2, <1>8, EmptyToSeq, OneToSeq
<1>10. Queue' = Queue /\ Queue = ps \o n
    <2>1. Queue = (<<>> \o ps) \o n  BY <1>9 DEF Queue, ps, n
    <2>2. Queue' = (<<h>> \o Tail(ps)) \o n  BY <1>1, <1>2, <1>9 DEF Queue, n
    <2> QED  BY <2>1, <2>2, <1>3, <1>4
<1>11. h.index = Base
    <2>1. Queue[1] = h /\ 1 \in 1 .. Len(Queue)
        <3>1. Len(ps) \in Nat \ {0} /\ ps[1] = h  BY <1>2, <1>3 DEF h
        <3> QED  BY <3>1, <1>3, <1>10
    <2>2. Base <= h.index  BY <2>1, <1>7
    <2> QED  BY <2>2, <1>2, <1>3, <1>5
<1>12. /\ ViewsFit' /\ members' = members /\ num_members' = num_members
       /\ Rank' = Rank /\ member_index' = member_index
    BY <1>1, ViewsFrame DEF viewVars, IInv
<1>13. TypeOK'
    <2>1. current_send' \subseteq Message /\ pending_sends' \in Seq(Message)
        BY <1>2, <1>4
    <2> QED  BY <2>1, <1>1, <1>12 DEF IInv, TypeOK, viewVars, messageVars, rowVars, historyVars
<1>14. QueueFits'
    <2>1. AtMostOne(current_send)' /\ AtMostOne(next_send)'
        BY <1>1, <1>2 DEF IInv, QueueFits, AtMostOne
    <2>2. ASSUME NEW o \in (current_send \cup Range(pending_sends) \cup next_send)'
          PROVE  IsOwn(o)'
        <3>1. o \in current_send \cup Range(pending_sends) \cup next_send
            BY <1>1, <1>2, <1>4 DEF ps
        <3>2. IsOwn(o)  BY <3>1 DEF IInv, QueueFits
        <3> QED  BY <3>2, <1>12 DEF IsOwn
    <2> QED  BY <2>1, <2>2 DEF QueueFits
<1>15. ChainFits'
    <2>1. Base' = Base  BY <1>1, <1>12 DEF Base, rowVars
    <2> QED  BY <2>1, <1>1, <1>2, <1>6, <1>10, <1>11 DEF ChainFits, historyVars
<1>16. IncomingFits' /\ FiledFits' /\ DiskFits'
    BY <1>1, IncomingFrame, FiledFrame, DiskFrame
    DEF IInv, viewVars, rowVars, messageVars, historyVars
<1>17. OwnStable' = OwnStable  BY <1>1, OwnStableFrame DEF IInv, viewVars, messageVars
<1>18. NothingLostOrRepeated'
    <2>1. Messages(OwnStable') = Messages(OwnStable) /\ Messages(OwnStable) \in Seq(Message)
        BY <1>17, OwnStableType DEF IInv
    <2> DEFINE s == Messages(OwnStable)
    <2>2. (s \o <<h>>) \o Tail(ps) = (s \o <<>>) \o ps
        <3>1. s \in Seq(Message)  BY <2>1
        <3> HIDE DEF s
        <3>2. s \o <<>> = s  BY <3>1, ConcatEmptySeq
        <3>3. (s \o <<Head(ps)>>) \o Tail(ps) = s \o ps
            <4>1. ps \in Seq(Message) /\ ps # <<>>  BY <1>2, <1>3
            <4> QED  BY <3>1, <4>1, HeadFirst
        <3> QED  BY <3>2, <3>3 DEF h
    <2>3. sent = delivered \o Bodies((s \o <<>>) \o ps)
        BY <1>9 DEF IInv, NothingLostOrRepeated, ps
    <2>4. NothingLostOrRepeated' <=> sent' = delivered' \o Bodies((s \o <<h>>) \o Tail(ps))
        BY <2>1, <1>2, <1>9 DEF NothingLostOrRepeated, Bodies
    <2> HIDE DEF s
    <2> QED  BY <2>2, <2>3, <2>4, <1>1 DEF historyVars
<1>19. BuffersConserved'
    <2>1. Cardinality(current_send) = 0 /\ Cardinality(current_send') = 1
        BY <1>2, <1>8, FS_EmptySet, FS_Singleton
    <2>2. Len(pending_sends') = Len(pending_sends) - 1 /\ Len(pending_sends) \in Nat
        BY <1>2, <1>3, <1>4 DEF ps
    <2>3. InUse' = InUse
        <3>1. Stable' = Stable  BY <1>1 DEF Stable, messageVars
        <3> QED  BY <2>1, <2>2, <3>1, <1>1, CountsType DEF IInv, InUse, messageVars
    <2>4. Buffers(num_members)' = Buffers(num_members)  BY <1>12 DEF Buffers
    <2>5. TypeOK' /\ QueueFits' /\ IncomingFits' /\ FiledFits' /\ DiskFits'
        BY <1>13, <1>14, <1>16
    <2> QED  BY <2>3, <2>4, <2>5, <1>1, BuffersIs
             DEF IInv, BuffersSum, messageVars, historyVars
<1>20. WindowFits' /\ AssertionsHold'
    BY <1>1, <1>10, <1>17 DEF IInv, WindowFits, AssertionsHold, viewVars, historyVars
<1> QED  BY <1>12, <1>13, <1>14, <1>15, <1>16, <1>18, <1>19, <1>20 DEF IInv

-----------------------------------------------------------------------------
(***************************************************************************)
(* The receiving side.                                                     *)
(***************************************************************************)
\* The n-th turn of m, filed: the message, then empty ones.
Turn(rank, m, turn) ==
    IF turn = 0 THEN File(SeqNum(rank, nReceived[rank] + 1), m)
    ELSE File(SeqNum(rank, nReceived[rank] + 1 + turn),
              [sender_rank |-> rank, index |-> nReceived[rank] + 1 + turn, size |-> 0,
               pause |-> 0, body |-> -1])

LEMMA ReceivedFits ==
    ASSUME IInv, NEW rank \in Rank, NEW m \in Message, Received(rank, m),
           m.sender_rank = rank, m.index = nReceived[rank] + 1, m.size = 1,
           rank = member_index => m.body >= 0,
           rank # member_index =>
               m.pause = 0 /\ SeqNum(rank, m.index - WindowSize) <= delivered_num,
           UNCHANGED <<views, delivered_num>>
    PROVE  /\ FiledFits'
           /\ nReceived' \in [Rank -> Nat \cup {-1}]
           /\ nReceived'[rank] = nReceived[rank] + 1 + m.pause
           /\ \A r \in Rank \ {rank} : nReceived'[r] = nReceived[r]
           /\ locally_stable_messages' \subseteq Entry
           /\ Stable' = Stable \cup {File(SeqNum(rank, m.index), m)}
           /\ Cardinality(Stable') = Cardinality(Stable) + 1
           /\ OwnStable' = IF rank = member_index
                           THEN OwnStable \cup {File(SeqNum(rank, m.index), m)}
                           ELSE OwnStable
           /\ \A e \in OwnStable : rank = member_index => e.seq < SeqNum(rank, m.index)
           /\ File(SeqNum(rank, m.index), m) \notin locally_stable_messages
<1> DEFINE b == nReceived[rank] + 1
           p == m.pause
           New(turn) == Turn(rank, m, turn)
           N == {New(turn) : turn \in 0 .. p}
           lsm == locally_stable_messages
           f0 == File(SeqNum(rank, m.index), m)
<1>1. /\ num_members \in Nat /\ rank \in Nat /\ b \in Nat /\ p \in Nat
      /\ m.index = b /\ delivered_num \in Int /\ MaxMessages \in Nat /\ MaxPause \in Nat
      /\ WindowSize \in Nat /\ member_index \in Rank
    <2>1. rank \in Nat /\ nReceived[rank] \in Nat \cup {-1} /\ num_members \in Nat
          /\ WindowSize \in Nat /\ member_index \in Rank
        BY Basics DEF IInv
    <2>2. p \in Nat  BY MessageType
    <2>3. delivered_num \in Int  BY DEF IInv, TypeOK
    <2> QED  BY <2>1, <2>2, <2>3, TransitionAssumption
<1>2. /\ Rank' = Rank /\ member_index' = member_index /\ num_members' = num_members
      /\ \A r, a : SeqNum(r, a)' = SeqNum(r, a)
    BY ViewsFrame DEF IInv
<1>3. \A turn \in 0 .. p :
          /\ b + turn \in Nat
          /\ New(turn).seq = SeqNum(rank, b + turn)
          /\ New(turn).seq \in Nat
          /\ New(turn).msg \in Message
          /\ New(turn).msg.sender_rank = rank
          /\ New(turn).msg.index = b + turn
          /\ turn = 0 => New(turn) = f0
          /\ turn # 0 => New(turn).msg.size = 0
          /\ New(turn) \in Entry
    <2> SUFFICES ASSUME NEW turn \in 0 .. p
                 PROVE  /\ b + turn \in Nat
                        /\ New(turn).seq = SeqNum(rank, b + turn)
                        /\ New(turn).seq \in Nat
                        /\ New(turn).msg \in Message
                        /\ New(turn).msg.sender_rank = rank
                        /\ New(turn).msg.index = b + turn
                        /\ turn = 0 => New(turn) = f0
                        /\ turn # 0 => New(turn).msg.size = 0
                        /\ New(turn) \in Entry
        OBVIOUS
    <2>1. b + turn \in Nat  BY <1>1
    <2> HIDE DEF b, p
    <2>2. SeqNum(rank, b + turn) \in Nat  BY <1>1, <2>1, SeqNumType
    <2>3. CASE turn = 0
        <3>1. New(turn) = f0 /\ b + turn = b /\ f0 = File(SeqNum(rank, b), m)
            BY <2>3, <1>1 DEF Turn, b
        <3>2. f0 \in Entry /\ f0.seq = SeqNum(rank, b) /\ f0.msg = m
            BY <3>1, <2>2 DEF Entry, File
        <3> QED  BY <2>1, <2>2, <2>3, <3>1, <3>2, <1>1
    <2>4. CASE turn # 0
        <3> DEFINE r == [sender_rank |-> rank, index |-> b + turn, size |-> 0,
                         pause |-> 0, body |-> -1]
        <3>1. New(turn) = File(SeqNum(rank, b + turn), r)
            BY <2>4 DEF Turn, b
        <3>2. r \in Message  BY <1>1, <2>1 DEF Message
        <3>3. r.sender_rank = rank /\ r.index = b + turn /\ r.size = 0  OBVIOUS
        <3> HIDE DEF r
        <3>4. New(turn).seq = SeqNum(rank, b + turn) /\ New(turn).msg = r
              /\ New(turn) \in Entry
            BY <3>1, <3>2, <2>2 DEF Entry, File
        <3> HIDE DEF New
        <3> QED  BY <2>1, <2>2, <2>4, <3>2, <3>3, <3>4
    <2> QED  BY <2>3, <2>4
<1>4. lsm' = lsm \cup N /\ nReceived' = [nReceived EXCEPT ![rank] = @ + 1 + p]
    <2> DEFINE Rest == {New(turn) : turn \in 1 .. p}
    <2>1. lsm' = lsm \cup {New(0)} \cup Rest
          /\ nReceived' = [nReceived EXCEPT ![rank] = @ + 1 + p]
        <3>1. nReceived[rank] + 1 + 0 = b  BY <1>1
        <3>2. \A turn \in 1 .. p : New(turn) =
                  File(SeqNum(rank, nReceived[rank] + 1 + turn),
                     [sender_rank |-> rank, index |-> nReceived[rank] + 1 + turn, size |-> 0,
                      pause |-> 0, body |-> -1])
            BY DEF Turn
        <3>3. New(0) = File(SeqNum(rank, nReceived[rank] + 1 + 0), m)
            BY <3>1 DEF Turn
        <3> DEFINE Empty == {File(SeqNum(rank, nReceived[rank] + 1 + turn),
                               [sender_rank |-> rank, index |-> nReceived[rank] + 1 + turn,
                                size |-> 0, pause |-> 0, body |-> -1]) : turn \in 1 .. p}
        <3>4. /\ lsm' = lsm \cup {File(SeqNum(rank, nReceived[rank] + 1 + 0), m)} \cup Empty
              /\ nReceived' = [nReceived EXCEPT ![rank] = @ + 1 + p]
            BY DEF Received
        <3> HIDE DEF New, b
        <3>5. Rest = Empty  BY <3>2, ZenonT(40)
        <3> HIDE DEF Rest, Empty
        <3> QED  BY <3>3, <3>4, <3>5
    <2>2. 0 .. p = {0} \cup 1 .. p  BY <1>1
    <2> HIDE DEF New
    <2>3. N = {New(0)} \cup Rest  BY <2>2
    <2> QED  BY <2>1, <2>3
<1> HIDE DEF New
<1>5. /\ nReceived' \in [Rank -> Nat \cup {-1}]
      /\ nReceived'[rank] = nReceived[rank] + 1 + p
      /\ \A r \in Rank \ {rank} : nReceived'[r] = nReceived[r]
      /\ \A r \in Rank : nReceived[r] \in Int /\ nReceived'[r] \in Int /\ nReceived[r] <= nReceived'[r]
    <2>1. nReceived \in [Rank -> Nat \cup {-1}]  BY DEF IInv, TypeOK
    <2>2. nReceived[rank] + 1 + p \in Nat  BY <1>1
    <2>3. /\ nReceived' \in [Rank -> Nat \cup {-1}]
          /\ nReceived'[rank] = nReceived[rank] + 1 + p
          /\ \A r \in Rank \ {rank} : nReceived'[r] = nReceived[r]
        BY <1>4, <2>1, <2>2
    <2>4. nReceived[rank] \in Int /\ nReceived[rank] <= nReceived[rank] + 1 + p
        BY <1>1, <2>1
    <2> HIDE DEF p
    <2>5. ASSUME NEW r \in Rank
          PROVE  nReceived[r] \in Int /\ nReceived'[r] \in Int /\ nReceived[r] <= nReceived'[r]
        <3>1. nReceived[r] \in Int /\ nReceived'[r] \in Int  BY <2>1, <2>3
        <3>2. CASE r = rank  BY <3>1, <3>2, <2>3, <2>4
        <3>3. CASE r # rank  BY <3>1, <3>3, <2>3
        <3> QED  BY <3>2, <3>3
    <2> QED  BY <2>3, <2>5
<1>6. \A e \in lsm :
          /\ e.seq \in Int /\ e.msg \in Message /\ e.msg.index \in Nat
          /\ e.msg.sender_rank \in Rank
          /\ e.seq = SeqNum(e.msg.sender_rank, e.msg.index)
          /\ e.msg.index <= nReceived[e.msg.sender_rank]
          /\ delivered_num < e.seq
    BY OwnStableType DEF IInv, FiledFits
<1>7. \A e \in lsm, turn \in 0 .. p : e.seq # New(turn).seq
    <2> SUFFICES ASSUME NEW e \in lsm, NEW turn \in 0 .. p, e.seq = New(turn).seq
                 PROVE  FALSE
        OBVIOUS
    <2>1. SeqNum(e.msg.sender_rank, e.msg.index) = SeqNum(rank, b + turn)
        BY <1>3, <1>6
    <2>2. e.msg.sender_rank = rank /\ e.msg.index = b + turn
        <3> DEFINE i == e.msg.index
                   s == e.msg.sender_rank
                   j == b + turn
        <3>1. j \in Int /\ i \in Int /\ s \in Rank /\ num_members \in Nat
              /\ SeqNum(s, i) = SeqNum(rank, j)
            BY <1>1, <1>3, <1>6, <2>1
        <3> HIDE DEF i, s, j
        <3>2. s = rank /\ i = j  BY <3>1, SeqNumInjective
        <3> QED  BY <3>2 DEF i, s, j
    <2>3. b + turn <= nReceived[rank] /\ nReceived[rank] \in Int  BY <2>2, <1>5, <1>6
    <2> QED  BY <2>3, <1>1
<1>8. IsFiniteSet(N)
    <2> DEFINE g == [turn \in 0 .. p |-> New(turn)]
    <2>1. g \in Surjection(0 .. p, N)  BY DEF Surjection
    <2>2. IsFiniteSet(0 .. p)  BY <1>1, FS_Interval, SMTT(40)
    <2> HIDE DEF g, N
    <2> QED  BY <2>1, <2>2, FS_Surjection
<1>9. delivered_num < SeqNum(rank, b)
    BY <1>1 DEF IInv, FiledFits
<1>10. ASSUME NEW turn \in 0 .. p
       PROVE  /\ b + turn <= nReceived'[rank]
              /\ delivered_num < New(turn).seq
              /\ New(turn).msg.size > 0 /\ rank = member_index => New(turn).msg.body >= 0
              /\ rank # member_index =>
                    SeqNum(rank, b + turn - WindowSize) <= delivered_num
    <2>1. b + turn <= nReceived'[rank]  BY <1>1, <1>5
    <2>2. SeqNum(rank, b) <= SeqNum(rank, b + turn)
        <3>1. b \in Int /\ b + turn \in Int /\ b <= b + turn  BY <1>1
        <3> HIDE DEF b
        <3> QED  BY <3>1, <1>1, SeqNumOrder
    <2>3. delivered_num < New(turn).seq
        <3>1. SeqNum(rank, b) \in Int /\ SeqNum(rank, b + turn) \in Int
            BY <1>1, <1>3, SeqNumType
        <3> HIDE DEF b
        <3> QED  BY <3>1, <2>2, <1>1, <1>3, <1>9
    <2>4. New(turn).msg.size > 0 /\ rank = member_index => New(turn).msg.body >= 0
        <3>1. turn = 0 => New(turn).msg = m  BY <1>3 DEF File
        <3>2. turn # 0 => ~ (New(turn).msg.size > 0)  BY <1>3
        <3> QED  BY <3>1, <3>2
    <2>5. rank # member_index => SeqNum(rank, b + turn - WindowSize) <= delivered_num
        <3> SUFFICES ASSUME rank # member_index
                     PROVE  SeqNum(rank, b + turn - WindowSize) <= delivered_num
            OBVIOUS
        <3>1. p = 0 /\ turn = 0  BY <1>1
        <3>2. b + turn - WindowSize = m.index - WindowSize  BY <3>1, <1>1
        <3> QED  BY <3>2
    <2> QED  BY <2>1, <2>3, <2>4, <2>5
<1>11. FiledFits'
    <2>1. IsFiniteSet(lsm')
        <3>1. IsFiniteSet(lsm)  BY DEF IInv, FiledFits
        <3> HIDE DEF N, lsm
        <3>2. IsFiniteSet(lsm \cup N)  BY <3>1, <1>8, FS_Union
        <3> QED  BY <3>2, <1>4 DEF lsm
    <2>2. ASSUME NEW e \in lsm'
          PROVE  /\ e.msg.sender_rank \in Rank
                 /\ e.seq = SeqNum(e.msg.sender_rank, e.msg.index)
                 /\ e.msg.index <= nReceived'[e.msg.sender_rank]
                 /\ delivered_num < e.seq
                 /\ e.msg.size > 0 /\ e.msg.sender_rank = member_index => e.msg.body >= 0
                 /\ e.msg.sender_rank # member_index =>
                        SeqNum(e.msg.sender_rank, e.msg.index - WindowSize) <= delivered_num
        <3>1. CASE e \in lsm
            <4>1. e.msg.index <= nReceived'[e.msg.sender_rank]
                BY <3>1, <1>5, <1>6
            <4> QED  BY <4>1, <3>1, <1>6 DEF IInv, FiledFits
        <3>2. CASE e \in N
            <4>1. PICK turn \in 0 .. p : e = New(turn)  BY <3>2
            <4>2. e.msg.sender_rank = rank /\ e.msg.index = b + turn
                  /\ e.seq = SeqNum(rank, b + turn)
                BY <4>1, <1>3
            <4>3. b + turn <= nReceived'[rank] /\ delivered_num < e.seq
                BY <4>1, <1>10
            <4>4. e.msg.size > 0 /\ rank = member_index => e.msg.body >= 0
                BY <4>1, <1>10
            <4>5. rank # member_index => SeqNum(rank, b + turn - WindowSize) <= delivered_num
                BY <1>10
            <4>6. e.msg.index - WindowSize = b + turn - WindowSize
                <5> HIDE DEF b
                <5> QED  BY <4>2, <1>1
            <4> DEFINE i == b + turn
                       w == b + turn - WindowSize
            <4>7. /\ i <= nReceived'[rank] /\ e.msg.index = i /\ e.seq = SeqNum(rank, i)
                  /\ e.msg.index - WindowSize = w
                  /\ rank # member_index => SeqNum(rank, w) <= delivered_num
                BY <4>2, <4>3, <4>5, <4>6
            <4> HIDE DEF b, i, w
            <4>8. e.msg.sender_rank # member_index =>
                      SeqNum(e.msg.sender_rank, e.msg.index - WindowSize) <= delivered_num
                BY <4>2, <4>7
            <4> QED  BY <4>2, <4>3, <4>4, <4>7, <4>8
        <3> HIDE DEF N, lsm
        <3> QED  BY <3>1, <3>2, <1>4 DEF lsm
    <2>3. ASSUME NEW d \in lsm', NEW e \in lsm', d.seq = e.seq
          PROVE  d = e
        <3>1. CASE d \in lsm /\ e \in lsm  BY <3>1, <2>3 DEF IInv, FiledFits
        <3>2. CASE d \in lsm /\ e \in N  BY <3>2, <2>3, <1>7
        <3>3. CASE d \in N /\ e \in lsm  BY <3>3, <2>3, <1>7
        <3>4. CASE d \in N /\ e \in N
            <4>1. PICK t \in 0 .. p : d = New(t)  BY <3>4
            <4>2. PICK u \in 0 .. p : e = New(u)  BY <3>4
            <4>3. SeqNum(rank, b + t) = SeqNum(rank, b + u)  BY <4>1, <4>2, <2>3, <1>3
            <4>4. b + t = b + u
                <5>1. b + t \in Int /\ b + u \in Int  BY <1>3
                <5> QED  BY <4>3, <5>1, <1>1, SeqNumInjective
            <4> QED  BY <4>1, <4>2, <4>4, <1>1
        <3> HIDE DEF N, lsm
        <3> QED  BY <3>1, <3>2, <3>3, <3>4, <1>4 DEF lsm
    <2>4. ASSUME NEW r \in Rank
          PROVE  delivered_num < SeqNum(r, nReceived'[r] + 1)
        <3>1. delivered_num < SeqNum(r, nReceived[r] + 1)  BY DEF IInv, FiledFits
        <3>2. nReceived[r] + 1 \in Int /\ nReceived'[r] + 1 \in Int
              /\ nReceived[r] + 1 <= nReceived'[r] + 1
            BY <1>5
        <3>3. /\ SeqNum(r, nReceived[r] + 1) <= SeqNum(r, nReceived'[r] + 1)
              /\ SeqNum(r, nReceived[r] + 1) \in Int /\ SeqNum(r, nReceived'[r] + 1) \in Int
            BY <3>2, <1>1, SeqNumOrder, SeqNumType
        <3> QED  BY <3>1, <3>3, <1>1
    <2> HIDE DEF lsm
    <2> QED  BY <2>1, <2>2, <2>3, <2>4, <1>2 DEF FiledFits, lsm
<1>12. lsm' \subseteq Entry
    <2>1. lsm \subseteq Entry  BY DEF IInv, TypeOK
    <2>2. N \subseteq Entry  BY <1>3
    <2> QED  BY <2>1, <2>2, <1>4
<1>13. f0 \in N /\ \A e \in N : e.msg.size > 0 => e = f0
    <2>1. 0 \in 0 .. p /\ New(0) = f0  BY <1>1, <1>3
    <2>2. f0 \in N  BY <2>1
    <2>3. ASSUME NEW e \in N, e.msg.size > 0
          PROVE  e = f0
        <3>1. PICK turn \in 0 .. p : e = New(turn)  OBVIOUS
        <3> QED  BY <3>1, <2>3, <1>3
    <2> QED  BY <2>2, <2>3
<1>14. f0.msg = m /\ f0.seq = SeqNum(rank, m.index) /\ f0 \notin lsm
    <2>1. f0.msg = m /\ f0.seq = SeqNum(rank, m.index)  BY DEF File
    <2>2. PICK turn \in 0 .. p : f0 = New(turn)  BY <1>13
    <2>3. f0 \notin lsm  BY <2>2, <1>7
    <2> QED  BY <2>1, <2>3
<1>15. Stable' = Stable \cup {f0}
    <2> HIDE DEF N, f0
    <2> QED  BY <1>4, <1>13, <1>14 DEF Stable, lsm
<1>16. Cardinality(Stable') = Cardinality(Stable) + 1
    <2>1. IsFiniteSet(Stable) /\ f0 \notin Stable
        BY <1>14, CountsType DEF IInv, Stable
    <2> HIDE DEF f0
    <2> QED  BY <2>1, <1>15, FS_AddElement
<1>17. OwnStable' = IF rank = member_index THEN OwnStable \cup {f0} ELSE OwnStable
    <2>1. OwnStable' = {e \in Stable' : e.msg.sender_rank = member_index}
        BY <1>2 DEF OwnStable, Stable
    <2>2. OwnStable = {e \in Stable : e.msg.sender_rank = member_index}
        BY DEF OwnStable, Stable
    <2>3. f0.msg.sender_rank = rank  BY <1>14
    <2> HIDE DEF f0
    <2> QED  BY <2>1, <2>2, <2>3, <1>15
<1>18. ASSUME NEW e \in OwnStable, rank = member_index
       PROVE  e.seq < SeqNum(rank, m.index)
    <2>1. e \in lsm /\ e.msg.sender_rank = rank  BY <1>18 DEF OwnStable
    <2>2. e.msg.index <= nReceived[rank] /\ e.msg.index \in Int /\ nReceived[rank] \in Int
          /\ e.seq = SeqNum(rank, e.msg.index)
        BY <2>1, <1>5, <1>6
    <2>3. e.msg.index < m.index /\ m.index \in Int  BY <2>2, <1>1
    <2> QED  BY <2>2, <2>3, <1>1, SeqNumGrows
<1> QED  BY <1>5, <1>11, <1>12, <1>14, <1>15, <1>16, <1>17, <1>18

\* A map with an entry that comes after the others.
LEMMA MapAdd ==
    ASSUME NEW S, IsMap(S), NEW f, f.seq \in Int, \A e \in S : e.seq < f.seq
    PROVE  /\ IsMap(S \cup {f}) /\ f \notin S
           /\ Cardinality(S \cup {f}) = Cardinality(S) + 1
           /\ Messages(S \cup {f}) = Messages(S) \o <<f.msg>>
<1>1. IsFiniteSet(S) /\ \A e \in S : e.seq \in Int  BY DEF IsMap
<1>2. f \notin S  BY <1>1
<1>3. IsFiniteSet(S \cup {f}) /\ Cardinality(S \cup {f}) = Cardinality(S) + 1
    BY <1>1, <1>2, FS_AddElement
<1>4. IsMap(S \cup {f})
    <2>1. \A d, e \in S \cup {f} : d.seq = e.seq => d = e
        <3> SUFFICES ASSUME NEW d \in S \cup {f}, NEW e \in S \cup {f}, d.seq = e.seq
                     PROVE  d = e
            OBVIOUS
        <3>1. CASE d \in S /\ e \in S  BY <3>1 DEF IsMap
        <3>2. CASE d \in S /\ e = f  BY <3>2, <1>1
        <3>3. CASE d = f /\ e \in S  BY <3>3, <1>1
        <3> QED  BY <3>1, <3>2, <3>3
    <2> QED  BY <2>1, <1>1, <1>3 DEF IsMap
<1>5. Messages({f}) = <<f.msg>>  BY MessagesOne
<1>6. \A e \in S, g \in {f} : e.seq < g.seq  OBVIOUS
<1>7. Messages(S \cup {f}) = Messages(S) \o Messages({f})
    BY <1>4, <1>6, MessagesUnion
<1> QED  BY <1>2, <1>3, <1>4, <1>5, <1>7

LEMMA OwnReceiveKeeps ==
    ASSUME IInv, OwnReceive
    PROVE  IInv'
<1> DEFINE me == member_index
           n == SetToSeq(next_send)
           ps == pending_sends
           lsm == locally_stable_messages
<1>1. UNCHANGED <<viewVars, future_message_index, next_send, pending_sends,
                  current_receives, non_persistent_messages,
                  free_message_buffers, total_message_buffers, delivered_num,
                  persisted_num, writes, aborted, historyVars>>
    BY DEF OwnReceive
<1>2. PICK m \in current_send : Received(me, m)
    BY DEF OwnReceive
<1>3. current_send = {m} /\ current_send' = {} /\ m \in Message /\ m.index = Base /\ IsOwn(m)
    BY <1>2 DEF OwnReceive, IInv, QueueFits, AtMostOne, ChainFits, TypeOK
<1>4. /\ me \in Rank /\ num_members \in Nat /\ Base \in Nat /\ Base = nReceived[me] + 1
      /\ nReceived[me] \in Int
    BY Basics DEF IInv, Base
<1> DEFINE f == File(SeqNum(me, m.index), m)
<1>5. /\ FiledFits'
      /\ nReceived' \in [Rank -> Nat \cup {-1}]
      /\ nReceived'[me] = nReceived[me] + 1 + m.pause
      /\ \A r \in Rank \ {me} : nReceived'[r] = nReceived[r]
      /\ lsm' \subseteq Entry
      /\ Cardinality(Stable') = Cardinality(Stable) + 1
      /\ OwnStable' = OwnStable \cup {f}
      /\ \A e \in OwnStable : e.seq < SeqNum(me, m.index)
    <2>1. m.sender_rank = me /\ m.size = 1 /\ m.body >= 0 /\ m.index = nReceived[me] + 1
        BY <1>3, <1>4 DEF IsOwn
    <2>2. UNCHANGED <<views, delivered_num>>  BY <1>1 DEF viewVars
    <2> HIDE DEF f
    <2> QED  BY <2>1, <2>2, <1>2, <1>3, <1>4, ReceivedFits DEF f
<1>6. /\ ViewsFit' /\ members' = members /\ num_members' = num_members
      /\ Rank' = Rank /\ member_index' = member_index
      /\ \A r, a : SeqNum(r, a)' = SeqNum(r, a)
    BY <1>1, ViewsFrame DEF viewVars, IInv
<1>7. ps \in Seq(Message) /\ n \in Seq(Message) /\ <<m>> \in Seq(Message)
    BY <1>3, QueueType DEF IInv
<1>8. SetToSeq(current_send) = <<m>> /\ SetToSeq(current_send') = <<>>
    BY <1>3, EmptyToSeq, OneToSeq
<1>9. TypeOK'
    BY <1>1, <1>3, <1>5, <1>6 DEF IInv, TypeOK, viewVars, historyVars
<1>10. QueueFits'
    <2>1. AtMostOne(current_send)' /\ AtMostOne(next_send)'
        BY <1>1, <1>3 DEF IInv, QueueFits, AtMostOne
    <2>2. ASSUME NEW o \in (current_send \cup Range(pending_sends) \cup next_send)'
          PROVE  IsOwn(o)'
        <3>1. o \in current_send \cup Range(pending_sends) \cup next_send
            BY <1>1, <1>3
        <3>2. IsOwn(o)  BY <3>1 DEF IInv, QueueFits
        <3> QED  BY <3>2, <1>6 DEF IsOwn
    <2> QED  BY <2>1, <2>2 DEF QueueFits
<1>11. /\ Queue = <<m>> \o Queue' /\ Queue' \in Seq(Message)
       /\ Len(Queue) = Len(Queue') + 1 /\ Len(Queue') \in Nat
    <2>1. Queue = (<<m>> \o ps) \o n  BY <1>8 DEF Queue
    <2>2. Queue' = (<<>> \o ps) \o n  BY <1>1, <1>8 DEF Queue
    <2> HIDE DEF ps, n
    <2>3. (<<>> \o ps) \o n = ps \o n /\ ps \o n \in Seq(Message)  BY <1>7
    <2>4. (<<m>> \o ps) \o n = <<m>> \o (ps \o n)  BY <1>7, ConcatAssociative
    <2>5. Queue = <<m>> \o Queue' /\ Queue' \in Seq(Message)  BY <2>1, <2>2, <2>3, <2>4
    <2>6. Len(<<m>> \o Queue') = Len(Queue') + 1  BY <2>5, <1>7
    <2> QED  BY <2>5, <2>6
<1>12. ChainFits'
    <2> DEFINE q == Queue'
    <2>1. future_message_index \in Int /\ Base \in Int /\ q \in Seq(Message)
          /\ Chain(Base, carried_over, <<m>> \o q, future_message_index)
        BY <1>4, <1>11 DEF IInv, TypeOK, ChainFits
    <2> HIDE DEF q
    <2>2. Chain(After(m), carried_over, q, future_message_index)
        BY <2>1, <1>3, ChainRest
    <2>3. Base' = nReceived'[me] + 1  BY <1>6 DEF Base
    <2>4. Base' = After(m)
        <3>1. m.pause \in Nat  BY <1>3, MessageType
        <3>2. After(m) = m.index + 1 + m.pause  BY DEF After
        <3> HIDE DEF me
        <3> QED  BY <2>3, <3>1, <3>2, <1>3, <1>4, <1>5
    <2> QED  BY <2>2, <2>4, <1>1, <1>3 DEF ChainFits, q, historyVars
<1>13. IncomingFits'
    <2>1. \A r \in Rank \ {member_index} : nReceived'[r] = nReceived[r]
        BY <1>5
    <2> HIDE DEF me
    <2> QED  BY <2>1, <1>1, <1>6 DEF IInv, IncomingFits
<1>14. DiskFits'
    BY <1>1, DiskFrame DEF IInv, viewVars, historyVars
<1>15. /\ Messages(OwnStable') = Messages(OwnStable) \o <<m>>
       /\ Messages(OwnStable) \in Seq(Message)
       /\ Cardinality(OwnStable') = Cardinality(OwnStable) + 1
       /\ Cardinality(OwnStable) \in Nat
    <2>1. IsMap(OwnStable) /\ Messages(OwnStable) \in Seq(Message)
          /\ Cardinality(OwnStable) \in Nat
        BY OwnStableType DEF IInv
    <2>2. f.msg = m /\ f.seq = SeqNum(me, m.index)  BY DEF File
    <2>3. f.seq \in Int  BY <2>2, <1>3, <1>4, SeqNumType
    <2>4. \A e \in OwnStable : e.seq < f.seq  BY <2>2, <1>5
    <2> HIDE DEF f
    <2>5. Messages(OwnStable \cup {f}) = Messages(OwnStable) \o <<f.msg>>
          /\ Cardinality(OwnStable \cup {f}) = Cardinality(OwnStable) + 1
        BY <2>1, <2>3, <2>4, MapAdd
    <2> QED  BY <2>1, <2>2, <2>5, <1>5
<1>16. NothingLostOrRepeated'
    <2>1. sent = delivered \o Bodies((Messages(OwnStable) \o <<m>>) \o ps)
        BY <1>8 DEF IInv, NothingLostOrRepeated
    <2>2. NothingLostOrRepeated' <=>
              sent' = delivered' \o Bodies((Messages(OwnStable') \o <<>>) \o ps')
        BY <1>8 DEF NothingLostOrRepeated, Bodies
    <2>3. Messages(OwnStable') \in Seq(Message)  BY <1>7, <1>15
    <2>4. Messages(OwnStable') \o <<>> = Messages(OwnStable')
        BY <2>3, ConcatEmptySeq
    <2> QED  BY <2>1, <2>2, <2>4, <1>1, <1>15 DEF historyVars
<1>17. BuffersConserved'
    <2>1. Cardinality(current_send) = 1 /\ Cardinality(current_send') = 0
        BY <1>3, FS_EmptySet, FS_Singleton
    <2>2. InUse' = InUse
        BY <2>1, <1>1, <1>5, CountsType DEF IInv, InUse
    <2>3. Buffers(num_members)' = Buffers(num_members)  BY <1>6 DEF Buffers
    <2>4. TypeOK' /\ QueueFits' /\ IncomingFits' /\ FiledFits' /\ DiskFits'
        BY <1>5, <1>9, <1>10, <1>13, <1>14
    <2> QED  BY <2>2, <2>3, <2>4, <1>1, BuffersIs DEF IInv, BuffersSum, historyVars
<1>18. WindowFits'
    <2>1. Len(Queue') + Cardinality(OwnStable') = Len(Queue) + Cardinality(OwnStable)
        BY <1>11, <1>15
    <2> QED  BY <2>1, <1>1 DEF IInv, WindowFits, viewVars
<1>19. AssertionsHold'
    BY <1>1 DEF IInv, AssertionsHold, viewVars, historyVars
<1> QED  BY <1>5, <1>6, <1>9, <1>10, <1>12, <1>13, <1>14, <1>16, <1>17, <1>18, <1>19 DEF IInv

LEMMA RdmcIncomingKeeps ==
    ASSUME IInv, NEW rank \in Rank, RdmcIncoming(rank)
    PROVE  IInv'
<1> DEFINE new == [sender_rank |-> rank, index |-> nReceived[rank] + 1, size |-> 1,
                   pause |-> 0, body |-> -1]
<1>1. /\ UNCHANGED <<viewVars, sendVars, locally_stable_messages,
                     non_persistent_messages, total_message_buffers, rowVars,
                     writes, aborted, historyVars>>
      /\ free_message_buffers > 0 /\ free_message_buffers' = free_message_buffers - 1
      /\ current_receives' = current_receives \cup {new}
      /\ rank # member_index
      /\ \A o \in current_receives : o.sender_rank # rank
      /\ delivered_num >= SeqNum(rank, nReceived[rank] + 1 - WindowSize)
    BY DEF RdmcIncoming, IncomingFrom
<1>2. /\ rank \in Nat /\ nReceived[rank] \in Nat \cup {-1} /\ num_members \in Nat
      /\ MaxPause \in Nat /\ MaxMessages \in Nat /\ WindowSize \in Nat
    BY Basics, TransitionAssumption DEF IInv
<1>3. PICK m \in Message :
          /\ current_receives' = current_receives \cup {m}
          /\ m.sender_rank = rank /\ m.index = nReceived[rank] + 1
          /\ m.size = 1 /\ m.pause = 0
    <2>1. new \in Message  BY <1>2 DEF Message
    <2>2. new.sender_rank = rank /\ new.index = nReceived[rank] + 1
          /\ new.size = 1 /\ new.pause = 0
        OBVIOUS
    <2> HIDE DEF new
    <2> QED  BY <2>1, <2>2, <1>1
<1>4. /\ ViewsFit' /\ members' = members /\ num_members' = num_members
      /\ Rank' = Rank /\ member_index' = member_index
      /\ \A r, a : SeqNum(r, a)' = SeqNum(r, a)
    BY <1>1, ViewsFrame DEF viewVars, IInv
<1>5. TypeOK'
    <2>1. free_message_buffers' \in Nat  BY <1>1 DEF IInv, TypeOK
    <2>2. current_receives' \subseteq Message  BY <1>3 DEF IInv, TypeOK
    <2> HIDE DEF new
    <2> QED  BY <2>1, <2>2, <1>1, <1>4
             DEF IInv, TypeOK, viewVars, sendVars, rowVars, historyVars
<1>6. QueueFits' /\ Queue' = Queue
    BY <1>1, QueueFrame DEF IInv, viewVars
<1>7. ChainFits'
    BY <1>1, <1>6, ChainFrame DEF IInv, viewVars, sendVars, rowVars, historyVars
<1>8. FiledFits' /\ DiskFits'
    BY <1>1, FiledFrame, DiskFrame DEF IInv, viewVars, rowVars, historyVars
<1>9. m \notin current_receives  BY <1>1, <1>3
<1>10. IncomingFits'
    <2>1. IsFiniteSet(current_receives')
        <3>1. IsFiniteSet(current_receives)  BY DEF IInv, IncomingFits
        <3> QED  BY <3>1, <1>3, FS_AddElement
    <2>2. ASSUME NEW o \in current_receives'
          PROVE  /\ o.sender_rank \in Rank \ {member_index}
                 /\ o.size = 1 /\ o.pause = 0
                 /\ o.index = nReceived[o.sender_rank] + 1
                 /\ SeqNum(o.sender_rank, o.index - WindowSize) <= delivered_num
        <3>1. CASE o \in current_receives  BY <3>1 DEF IInv, IncomingFits
        <3>2. CASE o = m
            <4> DEFINE w == nReceived[rank] + 1 - WindowSize
            <4>1. w \in Int /\ delivered_num \in Int  BY <1>2 DEF IInv, TypeOK
            <4>2. delivered_num >= SeqNum(rank, w) /\ m.index - WindowSize = w
                <5> HIDE DEF new
                <5>1. delivered_num >= SeqNum(rank, w)  BY <1>1
                <5>2. m.index - WindowSize = w  BY <1>2, <1>3
                <5> QED  BY <5>1, <5>2
            <4> HIDE DEF w
            <4>3. SeqNum(rank, w) \in Int  BY <4>1, <1>2, SeqNumType
            <4>4. SeqNum(rank, w) <= delivered_num  BY <4>1, <4>2, <4>3
            <4>5. SeqNum(m.sender_rank, m.index - WindowSize) <= delivered_num
                BY <4>2, <4>4, <1>3
            <4> HIDE DEF new
            <4> QED  BY <4>5, <3>2, <1>1, <1>3
        <3> QED  BY <3>1, <3>2, <1>3
    <2>3. ASSUME NEW o \in current_receives', NEW q \in current_receives',
                 o.sender_rank = q.sender_rank
          PROVE  o = q
        <3>1. CASE o \in current_receives /\ q \in current_receives
            BY <3>1, <2>3 DEF IInv, IncomingFits
        <3>2. CASE o = m \/ q = m  BY <3>2, <2>3, <1>1, <1>3
        <3> QED  BY <3>1, <3>2, <1>3
    <2> QED  BY <2>1, <2>2, <2>3, <1>1, <1>4 DEF IncomingFits, rowVars
<1>11. OwnStable' = OwnStable  BY <1>1, OwnStableFrame, SMTT(40) DEF IInv, viewVars
<1>12. NothingLostOrRepeated'
    BY <1>1, <1>11 DEF IInv, NothingLostOrRepeated, historyVars, sendVars,
                       Messages, Sorted, Bodies
<1>13. BuffersConserved'
    <2>1. Cardinality(current_receives') = Cardinality(current_receives) + 1
        <3>1. IsFiniteSet(current_receives)  BY DEF IInv, IncomingFits
        <3> QED  BY <3>1, <1>3, <1>9, FS_AddElement
    <2>2. Stable' = Stable  BY <1>1 DEF Stable
    <2>3. InUse' = InUse + 1
        BY <2>1, <2>2, <1>1, CountsType, SMTT(40) DEF IInv, InUse, sendVars
    <2>4. Buffers(num_members)' = Buffers(num_members)  BY <1>4 DEF Buffers
    <2>5. TypeOK' /\ QueueFits' /\ IncomingFits' /\ FiledFits' /\ DiskFits'
        BY <1>5, <1>6, <1>8, <1>10
    <2>6. free_message_buffers + InUse = free_message_buffers' + InUse'
        BY <2>3, <1>1, BuffersIs, CountsType DEF BuffersSum, IInv
    <2> HIDE DEF new
    <2> QED  BY <2>4, <2>5, <2>6, <1>1, BuffersIs DEF IInv, BuffersSum, historyVars
<1>14. WindowFits' /\ AssertionsHold'
    BY <1>1, <1>6, <1>11 DEF IInv, WindowFits, AssertionsHold, viewVars, historyVars
<1> QED  BY <1>4, <1>5, <1>6, <1>7, <1>8, <1>10, <1>12, <1>13, <1>14 DEF IInv

LEMMA RdmcReceiveKeeps ==
    ASSUME IInv, NEW rank \in Rank, RdmcReceive(rank)
    PROVE  IInv'
<1> DEFINE me == member_index
           lsm == locally_stable_messages
<1>1. UNCHANGED <<viewVars, sendVars, non_persistent_messages,
                  free_message_buffers, total_message_buffers, delivered_num,
                  persisted_num, writes, aborted, historyVars>>
    BY DEF RdmcReceive
<1>2. PICK m \in current_receives :
          m.sender_rank = rank /\ Received(rank, m) /\ current_receives' = current_receives \ {m}
    BY DEF RdmcReceive
<1>3. /\ m \in Message /\ rank # me /\ m.index = nReceived[rank] + 1
      /\ m.size = 1 /\ m.pause = 0
      /\ SeqNum(rank, m.index - WindowSize) <= delivered_num
    BY <1>2 DEF IInv, TypeOK, IncomingFits
<1>4. me \in Rank  BY Basics DEF IInv
<1>5. /\ FiledFits'
      /\ nReceived' \in [Rank -> Nat \cup {-1}]
      /\ \A r \in Rank \ {rank} : nReceived'[r] = nReceived[r]
      /\ lsm' \subseteq Entry
      /\ Cardinality(Stable') = Cardinality(Stable) + 1
      /\ OwnStable' = OwnStable
    <2>1. UNCHANGED <<views, delivered_num>>  BY <1>1 DEF viewVars
    <2> QED  BY <2>1, <1>2, <1>3, ReceivedFits
<1>6. /\ ViewsFit' /\ members' = members /\ num_members' = num_members
      /\ Rank' = Rank /\ member_index' = member_index
      /\ \A r, a : SeqNum(r, a)' = SeqNum(r, a)
    BY <1>1, ViewsFrame DEF viewVars, IInv
<1>7. TypeOK'
    BY <1>1, <1>2, <1>5, <1>6 DEF IInv, TypeOK, viewVars, sendVars, historyVars
<1>8. QueueFits' /\ Queue' = Queue
    BY <1>1, QueueFrame DEF IInv, viewVars
<1>9. ChainFits'
    <2>1. nReceived'[member_index] = nReceived[member_index]  BY <1>3, <1>4, <1>5
    <2> QED  BY <2>1, <1>1, <1>8, ChainFrame DEF IInv, viewVars, sendVars, historyVars
<1>10. IncomingFits'
    <2>1. IsFiniteSet(current_receives')
        <3>1. IsFiniteSet(current_receives)  BY DEF IInv, IncomingFits
        <3> QED  BY <3>1, <1>2, FS_RemoveElement
    <2>2. \A o \in current_receives' :
              o \in current_receives /\ o.sender_rank # rank
        BY <1>2 DEF IInv, IncomingFits
    <2>3. \A o \in current_receives' : nReceived'[o.sender_rank] = nReceived[o.sender_rank]
        BY <2>2, <1>5 DEF IInv, IncomingFits
    <2> HIDE DEF me
    <2> QED  BY <2>1, <2>2, <2>3, <1>1, <1>6 DEF IInv, IncomingFits
<1>11. DiskFits'
    BY <1>1, DiskFrame, SMTT(40) DEF IInv, viewVars, historyVars
<1>12. NothingLostOrRepeated'
    BY <1>1, <1>5 DEF IInv, NothingLostOrRepeated, historyVars, sendVars,
                      Messages, Sorted, Bodies
<1>13. BuffersConserved'
    <2>1. Cardinality(current_receives') = Cardinality(current_receives) - 1
        <3>1. IsFiniteSet(current_receives)  BY DEF IInv, IncomingFits
        <3> QED  BY <3>1, <1>2, FS_RemoveElement
    <2>2. InUse' = InUse
        BY <2>1, <1>1, <1>5, CountsType DEF IInv, InUse, sendVars
    <2>3. Buffers(num_members)' = Buffers(num_members)  BY <1>6 DEF Buffers
    <2>4. TypeOK' /\ QueueFits' /\ IncomingFits' /\ FiledFits' /\ DiskFits'
        BY <1>5, <1>7, <1>8, <1>10, <1>11
    <2> QED  BY <2>2, <2>3, <2>4, <1>1, BuffersIs DEF IInv, BuffersSum, historyVars
<1>14. WindowFits' /\ AssertionsHold'
    BY <1>1, <1>5, <1>8 DEF IInv, WindowFits, AssertionsHold, viewVars, historyVars
<1> QED  BY <1>5, <1>6, <1>7, <1>8, <1>9, <1>10, <1>11, <1>12, <1>13, <1>14 DEF IInv

\* Two sets that fit side by side into a third one.
LEMMA SideBySide ==
    ASSUME NEW S1, NEW S2, NEW T, IsFiniteSet(T), NEW f \in [S1 -> T], NEW g \in [S2 -> T],
           \A x, y \in S1 : f[x] = f[y] => x = y,
           \A x, y \in S2 : g[x] = g[y] => x = y,
           \A x \in S1, y \in S2 : f[x] # g[y]
    PROVE  /\ IsFiniteSet(S1) /\ IsFiniteSet(S2)
           /\ Cardinality(S1) + Cardinality(S2) <= Cardinality(T)
<1> DEFINE X == {f[x] : x \in S1}
           Y == {g[y] : y \in S2}
<1>1. X \subseteq T /\ Y \subseteq T /\ X \cap Y = {}  OBVIOUS
<1>2. f \in Injection(S1, X) /\ g \in Injection(S2, Y)
    <2>1. f \in [S1 -> X] /\ g \in [S2 -> Y] /\ DOMAIN f = S1 /\ DOMAIN g = S2  OBVIOUS
    <2> HIDE DEF X, Y
    <2> QED  BY <2>1 DEF Injection, IsInjective
<1> HIDE DEF X, Y
<1>3. IsFiniteSet(X) /\ IsFiniteSet(Y)  BY <1>1, FS_Subset
<1>4. /\ IsFiniteSet(S1) /\ IsFiniteSet(S2)
      /\ Cardinality(S1) <= Cardinality(X) /\ Cardinality(S2) <= Cardinality(Y)
    BY <1>2, <1>3, FS_Injection
<1>5. Cardinality(X \cup Y) <= Cardinality(T) /\ IsFiniteSet(X \cup Y)
    <2>1. X \cup Y \subseteq T  BY <1>1
    <2> QED  BY <2>1, FS_Subset
<1>6. Cardinality(X \cup Y) = Cardinality(X) + Cardinality(Y)
    <2>1. Cardinality(X \cup Y) = Cardinality(X) + Cardinality(Y) - Cardinality(X \cap Y)
        BY <1>3, FS_Union
    <2>2. Cardinality(X \cap Y) = 0  BY <1>1, FS_EmptySet
    <2>3. Cardinality(X) \in Nat /\ Cardinality(Y) \in Nat  BY <1>3, FS_CardinalityType
    <2> QED  BY <2>1, <2>2, <2>3
<1>7. /\ Cardinality(X) \in Nat /\ Cardinality(Y) \in Nat /\ Cardinality(T) \in Nat
      /\ Cardinality(S1) \in Nat /\ Cardinality(S2) \in Nat
    BY <1>3, <1>4, FS_CardinalityType
<1>8. Cardinality(S1) + Cardinality(S2) <= Cardinality(T)
    BY <1>4, <1>5, <1>6, <1>7
<1> QED  BY <1>4, <1>8

\* The last index of a rank that has been passed by the deliveries.
Passed(r) == Max({k \in Int : SeqNum(r, k) <= delivered_num})

LEMMA PassedIs ==
    ASSUME IInv, NEW r \in Rank
    PROVE  /\ Passed(r) \in Int
           /\ \A i \in Int : SeqNum(r, i) <= delivered_num <=> i <= Passed(r)
<1> DEFINE T == {k \in Int : SeqNum(r, k) <= delivered_num}
           b == nReceived[r] + 1
<1>1. /\ num_members \in Nat \ {0} /\ r \in 0 .. num_members - 1 /\ b \in Nat
      /\ delivered_num \in Nat \cup {-1}
    <2>1. num_members \in Nat \ {0} /\ nReceived[r] \in Nat \cup {-1}
        BY Basics DEF IInv
    <2>2. b \in Nat  BY <2>1
    <2>3. r \in 0 .. num_members - 1  BY DEF Rank
    <2>4. delivered_num \in Nat \cup {-1}  BY DEF IInv, TypeOK
    <2> QED  BY <2>1, <2>2, <2>3, <2>4
<1>2. delivered_num < SeqNum(r, b)  BY DEF IInv, FiledFits
<1>3. \A k \in T : k <= b
    <2> SUFFICES ASSUME NEW k \in T PROVE k <= b  OBVIOUS
    <2>1. k \in Int /\ SeqNum(r, k) <= delivered_num  OBVIOUS
    <2> HIDE DEF T, b
    <2>2. SeqNum(r, k) \in Int /\ SeqNum(r, b) \in Int  BY <1>1, <2>1, SeqNumType
    <2>3. SeqNum(r, k) < SeqNum(r, b)  BY <2>1, <2>2, <1>1, <1>2
    <2>4. k < b  BY <2>1, <2>3, <1>1, SeqNumOrder
    <2> QED  BY <2>1, <2>4, <1>1
<1>4. -1 \in T
    <2>1. SeqNum(r, -1) = (-1) * num_members + r  BY DEF SeqNum
    <2>2. (-1) * num_members = - num_members  BY <1>1
    <2>3. SeqNum(r, -1) <= -1  BY <2>1, <2>2, <1>1
    <2>4. SeqNum(r, -1) \in Int  BY <1>1, SeqNumType
    <2>5. SeqNum(r, -1) <= delivered_num  BY <2>3, <2>4, <1>1
    <2> QED  BY <2>5
<1>5. Max(T) \in T /\ \A k \in T : k <= Max(T)
    <2>1. T \subseteq Int  OBVIOUS
    <2> HIDE DEF T
    <2>2. b \in Int /\ T # {}  BY <1>1, <1>4
    <2> HIDE DEF b
    <2> QED  BY <1>3, <2>1, <2>2, Greatest
<1>6. Passed(r) \in Int /\ SeqNum(r, Passed(r)) <= delivered_num
      /\ \A k \in Int : SeqNum(r, k) <= delivered_num => k <= Passed(r)
    <2> DEFINE p == Max(T)
    <2>1. Passed(r) = p  BY DEF Passed
    <2>2. p \in Int /\ SeqNum(r, p) <= delivered_num
          /\ \A k \in Int : SeqNum(r, k) <= delivered_num => k <= p
        <3> HIDE DEF p
        <3> QED  BY <1>5 DEF p
    <2> HIDE DEF p
    <2> QED  BY <2>1, <2>2
<1>7. ASSUME NEW i \in Int, i <= Passed(r)
      PROVE  SeqNum(r, i) <= delivered_num
    <2>1. SeqNum(r, i) <= SeqNum(r, Passed(r))  BY <1>1, <1>6, <1>7, SeqNumOrder
    <2>2. SeqNum(r, i) \in Int /\ SeqNum(r, Passed(r)) \in Int  BY <1>1, <1>6, SeqNumType
    <2> QED  BY <2>1, <2>2, <1>1, <1>6
<1> QED  BY <1>6, <1>7

\* What the others have begun to send and what of theirs waits for its delivery
\* fits into their windows.
LEMMA OthersWindow ==
    ASSUME IInv, NEW rank \in Rank, IncomingFrom(rank)
    PROVE  /\ IsFiniteSet(OthersStable)
           /\ Cardinality(current_receives) + Cardinality(OthersStable)
                  <= WindowSize * (num_members - 1) - 1
<1> DEFINE W == WindowSize
           n == num_members
           Others == Rank \ {member_index}
           All == Others \X (1 .. W)
           free == nReceived[rank] + 1
           slot == <<rank, free - Passed(rank)>>
           T == All \ {slot}
           cr == current_receives
           f == [m \in cr |-> <<m.sender_rank, m.index - Passed(m.sender_rank)>>]
           g == [e \in OthersStable |->
                    <<e.msg.sender_rank, e.msg.index - Passed(e.msg.sender_rank)>>]
<1>1. W \in Nat \ {0} /\ n \in Nat \ {0} /\ member_index \in Rank /\ Rank = 0 .. n - 1
      /\ delivered_num \in Int
      /\ \A r \in Rank : nReceived[r] \in Int
    BY Basics DEF IInv, Rank, TypeOK
<1>2. ASSUME NEW r \in Rank, NEW i \in Int,
             SeqNum(r, i - W) <= delivered_num, delivered_num < SeqNum(r, i)
      PROVE  i - Passed(r) \in 1 .. W /\ Passed(r) \in Int
    <2>1. Passed(r) \in Int /\ i - W \in Int  BY <1>1, PassedIs
    <2>2. i - W <= Passed(r)  BY <1>2, <2>1, PassedIs
    <2>3. ~ (SeqNum(r, i) <= delivered_num)
        <3>1. SeqNum(r, i) \in Int  BY <1>1, SeqNumType
        <3> QED  BY <3>1, <1>1, <1>2
    <2>4. ~ (i <= Passed(r))  BY <2>3, PassedIs
    <2> HIDE DEF W
    <2> QED  BY <2>1, <2>2, <2>4, <1>1
<1>3. ASSUME NEW m \in cr
      PROVE  /\ m.sender_rank \in Others /\ m.sender_rank # rank
             /\ m.index = nReceived[m.sender_rank] + 1
             /\ m.index \in Int /\ m.index - Passed(m.sender_rank) \in 1 .. W
             /\ Passed(m.sender_rank) \in Int
    <2> DEFINE r == m.sender_rank
    <2>1. r \in Others /\ m.index = nReceived[r] + 1 /\ r \in Rank
          /\ SeqNum(r, m.index - W) <= delivered_num
        BY DEF IInv, IncomingFits
    <2>2. r # rank  BY DEF IncomingFrom
    <2>3. m.index \in Int  BY <2>1, <1>1
    <2>4. delivered_num < SeqNum(r, m.index)  BY <2>1 DEF IInv, FiledFits
    <2> DEFINE i == m.index
    <2> HIDE DEF r, W, i
    <2>5. i - Passed(r) \in 1 .. W /\ Passed(r) \in Int
        BY <2>1, <2>3, <2>4, <1>2 DEF i
    <2> QED  BY <2>1, <2>2, <2>3, <2>5 DEF r, i
<1>4. ASSUME NEW e \in OthersStable
      PROVE  /\ e.msg.sender_rank \in Others
             /\ e.msg.index <= nReceived[e.msg.sender_rank]
             /\ e.seq = SeqNum(e.msg.sender_rank, e.msg.index)
             /\ e \in locally_stable_messages
             /\ e.msg.index \in Int /\ e.msg.index - Passed(e.msg.sender_rank) \in 1 .. W
             /\ Passed(e.msg.sender_rank) \in Int
    <2> DEFINE r == e.msg.sender_rank
               i == e.msg.index
    <2>1. e \in locally_stable_messages /\ r # member_index  BY DEF OthersStable
    <2>2. /\ r \in Rank /\ r \in Others /\ i \in Int
          /\ i <= nReceived[r] /\ e.seq = SeqNum(r, i) /\ delivered_num < SeqNum(r, i)
          /\ SeqNum(r, i - W) <= delivered_num
        BY <2>1, OwnStableType DEF IInv, FiledFits
    <2> HIDE DEF r, W, i
    <2>3. i - Passed(r) \in 1 .. W /\ Passed(r) \in Int
        BY <2>2, <1>2
    <2> QED  BY <2>1, <2>2, <2>3 DEF r, i
<1>5. slot \in All
    <2> DEFINE i == free
    <2>1. rank # member_index /\ delivered_num >= SeqNum(rank, i - W)
        <3>1. rank # member_index /\ delivered_num >= SeqNum(rank, nReceived[rank] + 1 - WindowSize)
            BY DEF IncomingFrom
        <3>2. nReceived[rank] + 1 - WindowSize = i - W  BY <1>1
        <3> HIDE DEF i, W
        <3> QED  BY <3>1, <3>2
    <2>2. i \in Int /\ i - W \in Int  BY <1>1
    <2>3. SeqNum(rank, i - W) <= delivered_num
        <3> DEFINE k == i - W
        <3>1. k \in Int /\ delivered_num >= SeqNum(rank, k)  BY <2>1, <2>2
        <3> HIDE DEF k
        <3>2. SeqNum(rank, k) \in Int  BY <3>1, <1>1, SeqNumType
        <3>3. SeqNum(rank, k) <= delivered_num  BY <3>1, <3>2, <1>1
        <3> QED  BY <3>3 DEF k
    <2>4. delivered_num < SeqNum(rank, i)  BY DEF IInv, FiledFits
    <2>5. i - Passed(rank) \in 1 .. W
        <3> HIDE DEF i, W
        <3> QED  BY <2>2, <2>3, <2>4, <1>2
    <2> HIDE DEF i
    <2>6. <<rank, i - Passed(rank)>> \in All  BY <2>1, <2>5
    <2> QED  BY <2>6 DEF i
<1>6. IsFiniteSet(T) /\ Cardinality(T) = W * (n - 1) - 1
    <2>1. IsFiniteSet(Rank) /\ Cardinality(Rank) = n
        <3>1. n - 1 \in Int /\ ~ (0 > n - 1)  BY <1>1
        <3>2. IsFiniteSet(0 .. n - 1)
              /\ Cardinality(0 .. n - 1) = IF 0 > n - 1 THEN 0 ELSE (n - 1) - 0 + 1
            BY <3>1, FS_Interval
        <3> QED  BY <3>1, <3>2, <1>1
    <2>2. IsFiniteSet(Others) /\ Cardinality(Others) = n - 1
        BY <2>1, <1>1, FS_RemoveElement
    <2>3. IsFiniteSet(1 .. W) /\ Cardinality(1 .. W) = W
        <3>1. W \in Int /\ ~ (1 > W)  BY <1>1
        <3>2. IsFiniteSet(1 .. W) /\ Cardinality(1 .. W) = IF 1 > W THEN 0 ELSE W - 1 + 1
            BY <3>1, FS_Interval
        <3> QED  BY <3>1, <3>2
    <2> DEFINE I == 1 .. W
    <2> HIDE DEF Others, I
    <2>4. IsFiniteSet(Others \X I)
          /\ Cardinality(Others \X I) = Cardinality(Others) * Cardinality(I)
        BY <2>2, <2>3, FS_Product DEF I
    <2>5. IsFiniteSet(All) /\ Cardinality(All) = (n - 1) * W
        BY <2>2, <2>3, <2>4 DEF I
    <2>6. (n - 1) * W = W * (n - 1)  BY <1>1
    <2> HIDE DEF All, slot
    <2>7. IsFiniteSet(All \ {slot}) /\ Cardinality(All \ {slot}) = Cardinality(All) - 1
        BY <2>5, <1>5, FS_RemoveElement
    <2> QED  BY <2>5, <2>6, <2>7
<1>7. f \in [cr -> T]
    <2>1. ASSUME NEW m \in cr
          PROVE  f[m] \in T
        <3>1. f[m] = <<m.sender_rank, m.index - Passed(m.sender_rank)>>  OBVIOUS
        <3>2. f[m] \in All  BY <3>1, <1>3
        <3>3. f[m] # slot  BY <3>1, <1>3
        <3> QED  BY <3>2, <3>3
    <2> HIDE DEF T
    <2> QED  BY <2>1
<1>8. g \in [OthersStable -> T]
    <2>1. ASSUME NEW e \in OthersStable
          PROVE  g[e] \in T
        <3> DEFINE r == e.msg.sender_rank
        <3>1. g[e] = <<r, e.msg.index - Passed(r)>>  OBVIOUS
        <3>2. g[e] \in All  BY <3>1, <1>4
        <3>3. g[e] # slot
            <4> SUFFICES ASSUME g[e] = slot PROVE FALSE  OBVIOUS
            <4>1. r = rank /\ e.msg.index - Passed(r) = nReceived[rank] + 1 - Passed(rank)
                <5>1. <<r, e.msg.index - Passed(r)>> = <<rank, free - Passed(rank)>>
                    BY <3>1
                <5>2. r = rank /\ e.msg.index - Passed(r) = free - Passed(rank)
                    BY <5>1
                <5>3. free - Passed(rank) = nReceived[rank] + 1 - Passed(rank)
                    BY <5>2, <1>1, <1>4
                <5> HIDE DEF free
                <5> QED  BY <5>2, <5>3
            <4>2. e.msg.index \in Int /\ Passed(rank) \in Int /\ nReceived[rank] \in Int
                  /\ e.msg.index <= nReceived[rank]
                BY <4>1, <1>1, <1>4
            <4>3. e.msg.index - Passed(rank) = nReceived[rank] + 1 - Passed(rank)
                BY <4>1
            <4> HIDE DEF slot, g
            <4> QED  BY <4>2, <4>3
        <3> QED  BY <3>2, <3>3
    <2> HIDE DEF T
    <2> QED  BY <2>1
<1>9. \A x, y \in cr : f[x] = f[y] => x = y
    <2> SUFFICES ASSUME NEW x \in cr, NEW y \in cr, f[x] = f[y] PROVE x = y  OBVIOUS
    <2>1. x.sender_rank = y.sender_rank  OBVIOUS
    <2> HIDE DEF f
    <2> QED  BY <2>1 DEF IInv, IncomingFits
<1>10. \A x, y \in OthersStable : g[x] = g[y] => x = y
    <2> SUFFICES ASSUME NEW x \in OthersStable, NEW y \in OthersStable, g[x] = g[y]
                 PROVE  x = y
        OBVIOUS
    <2>1. x.msg.sender_rank = y.msg.sender_rank
          /\ x.msg.index - Passed(x.msg.sender_rank) = y.msg.index - Passed(y.msg.sender_rank)
        OBVIOUS
    <2> HIDE DEF g
    <2> DEFINE p == Passed(x.msg.sender_rank)
    <2>2. x.msg.index - p = y.msg.index - p /\ p \in Int /\ x.msg.index \in Int /\ y.msg.index \in Int
        BY <2>1, <1>4
    <2> HIDE DEF p
    <2>3. x.msg.index = y.msg.index  BY <2>2
    <2>4. x.seq = y.seq  BY <2>1, <2>3, <1>4
    <2> QED  BY <2>4, <1>4 DEF IInv, FiledFits
<1>11. \A x \in cr, y \in OthersStable : f[x] # g[y]
    <2> SUFFICES ASSUME NEW x \in cr, NEW y \in OthersStable, f[x] = g[y] PROVE FALSE  OBVIOUS
    <2> DEFINE r == x.sender_rank
               p == Passed(r)
    <2>1. y.msg.sender_rank = r /\ x.index - p = y.msg.index - Passed(y.msg.sender_rank)
        OBVIOUS
    <2> HIDE DEF f, g
    <2>2. x.index - p = y.msg.index - p /\ p \in Int /\ x.index \in Int /\ y.msg.index \in Int
          /\ x.index = nReceived[r] + 1 /\ y.msg.index <= nReceived[r] /\ nReceived[r] \in Int
        BY <2>1, <1>1, <1>3, <1>4
    <2> HIDE DEF p, r
    <2> QED  BY <2>2
<1> HIDE DEF f, g, T, W, n, cr
<1>12. /\ IsFiniteSet(OthersStable)
       /\ Cardinality(cr) + Cardinality(OthersStable) <= Cardinality(T)
    BY <1>6, <1>7, <1>8, <1>9, <1>10, <1>11, SideBySide
<1> QED  BY <1>6, <1>12 DEF W, n, cr

\* Without a disk the buffers are enough.
LEMMA BufferIsThere ==
    ASSUME IInv, NEW rank \in Rank, IncomingFrom(rank), ~ file_writer
    PROVE  free_message_buffers > 0
<1> DEFINE W == WindowSize
           n == num_members
           q == Len(Queue)
           a == Cardinality(OwnStable)
           b == Cardinality(OthersStable)
           c == Cardinality(current_receives)
           s == Cardinality(Stable)
<1>1. W \in Nat /\ n \in Nat \ {0}  BY Basics DEF IInv
<1>2. ~ carried_over /\ Cardinality(non_persistent_messages) = 0
    BY FS_EmptySet DEF IInv, DiskFits
<1>3. /\ free_message_buffers \in Nat /\ total_message_buffers \in Nat /\ InUse \in Nat
      /\ total_message_buffers >= Buffers(n)
      /\ total_message_buffers = free_message_buffers + InUse
    BY <1>2, BuffersIs, CountsType DEF IInv, BuffersSum
<1>4. /\ c \in Nat /\ s \in Nat /\ q \in Nat /\ a \in Nat
      /\ q = Cardinality(current_send) + Len(pending_sends) + Cardinality(next_send)
      /\ Len(pending_sends) \in Nat
      /\ Cardinality(current_send) \in Nat /\ Cardinality(next_send) \in Nat
    BY QueueType, CountsType, OwnStableType DEF IInv
<1>5. InUse = q + c + s
    <2> HIDE DEF q, c, s
    <2> QED  BY <1>2, <1>4 DEF InUse, c, s
<1>6. q + a <= W  BY DEF IInv, WindowFits
<1>7. IsFiniteSet(OthersStable) /\ c + b <= W * (n - 1) - 1
    BY OthersWindow
<1>8. b \in Nat /\ s <= a + b
    <2>1. Stable = OwnStable \cup OthersStable
        BY DEF Stable, OwnStable, OthersStable
    <2>2. IsFiniteSet(OwnStable)  BY OwnStableType DEF IInv
    <2>3. IsFiniteSet(OwnStable \cap OthersStable)  BY <2>2, FS_Intersection
    <2>4. Cardinality(OwnStable \cap OthersStable) \in Nat  BY <2>3, FS_CardinalityType
    <2>5. Cardinality(OwnStable \cup OthersStable)
              = a + b - Cardinality(OwnStable \cap OthersStable)
        BY <2>2, <1>7, FS_Union
    <2>6. b \in Nat  BY <1>7, FS_CardinalityType
    <2> HIDE DEF a, b
    <2> QED  BY <2>1, <2>4, <2>5, <2>6, <1>4
<1>9. Buffers(n) = W * (n - 1) + W /\ W * (n - 1) \in Nat
    <2>1. W * n = W * (n - 1) + W /\ W * (n - 1) \in Nat
        <3>1. n - 1 \in Nat  BY <1>1
        <3> HIDE DEF n, W
        <3> QED  BY <3>1, <1>1
    <2> QED  BY <2>1 DEF Buffers
<1> DEFINE p == W * (n - 1)
           u == Buffers(n)
<1>10. u = p + W /\ p \in Nat /\ c + b <= p - 1 /\ total_message_buffers >= u
    BY <1>3, <1>7, <1>9
<1> HIDE DEF W, n, q, a, b, c, s, p, u
<1> QED  BY <1>1, <1>3, <1>4, <1>5, <1>6, <1>8, <1>10, SMTT(40)

\* What the invariant says of the variables that a failed assertion leaves alone.
LEMMA AbortFrame ==
    ASSUME IInv,
           UNCHANGED <<viewVars, sendVars, messageVars, rowVars, writes, historyVars>>,
           aborted' \in {"no", "callback", "buffer"}, AssertionsHold'
    PROVE  IInv'
<1>1. UNCHANGED <<views, file_writer, thread_shutdown, rdmc_groups, future_message_index, next_send,
                  pending_sends, current_send, current_receives, locally_stable_messages,
                  non_persistent_messages, free_message_buffers, total_message_buffers,
                  nReceived, delivered_num, persisted_num, writes, sent, delivered,
                  carried_over>>
    BY DEF viewVars, sendVars, messageVars, rowVars, historyVars
<1>2. ViewsFit' /\ Rank' = Rank /\ num_members' = num_members  BY <1>1, ViewsFrame DEF IInv
<1>3. TypeOK'  BY <1>1, <1>2 DEF IInv, TypeOK
<1>4. QueueFits' /\ Queue' = Queue  BY <1>1, QueueFrame DEF IInv, sendVars
<1>5. ChainFits' /\ IncomingFits' /\ FiledFits' /\ DiskFits'
    BY <1>1, <1>4, ChainFrame, IncomingFrame, FiledFrame, DiskFrame DEF IInv
<1>6. OwnStable' = OwnStable  BY <1>1, OwnStableFrame DEF IInv
<1>7. NothingLostOrRepeated'
    <2>1. Messages(OwnStable)' = Messages(OwnStable)  BY <1>6 DEF Messages, Sorted
    <2> QED  BY <2>1, <1>1 DEF IInv, NothingLostOrRepeated, Bodies
<1>8. BuffersConserved'  BY <1>1, <1>2 DEF IInv, BuffersConserved, Buffers
<1>9. WindowFits'  BY <1>1, <1>4, <1>6 DEF IInv, WindowFits
<1> QED  BY <1>2, <1>3, <1>4, <1>5, <1>7, <1>8, <1>9 DEF IInv

LEMMA IncomingAbortsKeeps ==
    ASSUME IInv, NEW rank \in Rank, IncomingAborts(rank)
    PROVE  IInv'
<1>1. /\ UNCHANGED <<viewVars, sendVars, messageVars, rowVars, writes, historyVars>>
      /\ aborted' = "buffer" /\ aborted = "no"
      /\ IncomingFrom(rank) /\ free_message_buffers = 0
    BY DEF IncomingAborts, IncomingFrom, Running
<1>2. AssertionsHold'
    <2>1. file_writer
        <3> SUFFICES ASSUME ~ file_writer PROVE FALSE  OBVIOUS
        <3>1. free_message_buffers > 0  BY <1>1, BufferIsThere
        <3> QED  BY <3>1, <1>1
    <2> QED  BY <2>1, <1>1 DEF AssertionsHold, viewVars
<1> QED  BY <1>1, <1>2, AbortFrame
-----------------------------------------------------------------------------
(***************************************************************************)
(* Delivery.                                                               *)
(***************************************************************************)
\* What is handed over, and this member's own part of it.
Batch(due) == {e \in due : e.msg.size > 0}
OwnPart(due) == {e \in due : e.msg.size > 0 /\ e.msg.sender_rank = member_index}
Taken == {e.seq : e \in non_persistent_messages}

\* The stable messages and the order of the deliveries.
LEMMA DeliverOrder ==
    ASSUME IInv, NEW due, due \subseteq locally_stable_messages, deliver(due),
           UNCHANGED <<views, sendVars, sent>>,
           \A e \in due, f \in locally_stable_messages \ due : e.seq < f.seq
    PROVE  /\ locally_stable_messages' = locally_stable_messages \ due
           /\ locally_stable_messages' \subseteq Entry
           /\ delivered' \in Seq(Nat)
           /\ NothingLostOrRepeated'
           /\ OwnStable' \subseteq OwnStable
           /\ Cardinality(OwnStable') <= Cardinality(OwnStable)
           /\ Cardinality(OwnStable') \in Nat
           /\ IsMap(Batch(due)) /\ Cardinality(Batch(due)) \in Nat
           /\ Cardinality(Stable) = Cardinality(Stable') + Cardinality(Batch(due))
           /\ Cardinality(Stable') \in Nat
<1> DEFINE lsm == locally_stable_messages
           own == OwnPart(due)
           rest == OwnStable \ own
           x == Messages(own)
           y == Messages(rest)
           c == SetToSeq(current_send)
           ps == pending_sends
<1>1. lsm' = lsm \ due /\ delivered' = delivered \o Bodies(x)
    BY DEF deliver, OwnPart
<1>2. /\ ViewsFit' /\ Rank' = Rank /\ member_index' = member_index
    BY ViewsFrame DEF IInv
<1>3. /\ IsMap(lsm) /\ IsMap(OwnStable) /\ OwnStable \subseteq lsm
      /\ \A e \in lsm : e.msg \in Message
    BY OwnStableType DEF IInv
<1>4. own \subseteq OwnStable /\ OwnStable = own \cup rest
    BY DEF OwnPart, OwnStable
<1>5. OwnStable' = rest
    BY <1>1, <1>2 DEF OwnStable, OwnPart
<1>6. \A e \in own, f \in rest : e.seq < f.seq
    BY DEF OwnPart, OwnStable
<1>7. Messages(OwnStable) = x \o y
    <2> HIDE DEF own, rest
    <2>1. IsMap(own \cup rest)  BY <1>3, <1>4
    <2> QED  BY <2>1, <1>4, <1>6, MessagesUnion
<1>8. x \in Seq(Message) /\ y \in Seq(Message)
    <2>1. IsMap(own) /\ IsMap(rest)  BY <1>3, <1>4, MapSubset
    <2>2. \A e \in own : e.msg \in Message  BY <1>3, <1>4
    <2>3. \A e \in rest : e.msg \in Message  BY <1>3
    <2> HIDE DEF own, rest
    <2> QED  BY <2>1, <2>2, <2>3, MessagesType
<1>9. c \in Seq(Message) /\ ps \in Seq(Message) /\ UNCHANGED <<c, ps>>
    BY QueueType DEF IInv, sendVars
<1>10. delivered \in Seq(Nat)  BY DEF IInv, TypeOK
<1>11. Bodies(x) \in Seq(Nat)
    <2>1. IsMap(own) /\ \A e \in own : e.msg \in {m \in Message : m.body >= 0}
        <3>1. IsMap(own)  BY <1>3, <1>4, MapSubset
        <3>2. \A e \in own : e.msg \in Message /\ e.msg.body >= 0
            BY <1>3, <1>4 DEF IInv, FiledFits, OwnPart
        <3> QED  BY <3>1, <3>2
    <2>2. x \in Seq({m \in Message : m.body >= 0})
        <3> HIDE DEF own
        <3> QED  BY <2>1, MessagesType
    <2>3. \A n \in 1 .. Len(x) : x[n].body \in Nat
        <3> TAKE n \in 1 .. Len(x)
        <3>1. x[n] \in Message /\ x[n].body >= 0
            <4> HIDE DEF x
            <4> QED  BY <2>2
        <3> HIDE DEF x
        <3> QED  BY <3>1, MessageType
    <2> HIDE DEF x
    <2> QED  BY <2>2, <2>3 DEF Bodies
<1>12. delivered' \in Seq(Nat)
    <2> HIDE DEF x
    <2> QED  BY <1>1, <1>10, <1>11
<1>13. NothingLostOrRepeated'
    <2>1. sent = delivered \o Bodies(((x \o y) \o c) \o ps)
        BY <1>7 DEF IInv, NothingLostOrRepeated
    <2>2. NothingLostOrRepeated' <=> sent' = delivered' \o Bodies((y \o c) \o ps)
        <3>1. Messages(OwnStable') = y  BY <1>5
        <3> QED  BY <3>1, <1>9 DEF NothingLostOrRepeated, Bodies
    <2> HIDE DEF x, y, c, ps
    <2> DEFINE w == (y \o c) \o ps
    <2>3. ((x \o y) \o c) \o ps = x \o w
        <3>1. (x \o y) \o c = x \o (y \o c) /\ y \o c \in Seq(Message)
            BY <1>8, <1>9, ConcatAssociative
        <3> DEFINE z == y \o c
        <3>2. z \in Seq(Message) /\ (x \o y) \o c = x \o z  BY <3>1
        <3> HIDE DEF z
        <3>3. (x \o z) \o ps = x \o (z \o ps)  BY <3>2, <1>8, <1>9, ConcatAssociative, SMTT(40)
        <3> QED  BY <3>2, <3>3 DEF z
    <2>4. w \in Seq(Message)  BY <1>8, <1>9
    <2> HIDE DEF w
    <2>5. Bodies(x \o w) = Bodies(x) \o Bodies(w) /\ Bodies(w) \in Seq(Int)
        BY <2>4, <1>8, BodiesConcat, BodiesType
    <2>6. delivered \o (Bodies(x) \o Bodies(w)) = (delivered \o Bodies(x)) \o Bodies(w)
        <3> DEFINE u == Bodies(x)
                   v == Bodies(w)
        <3>1. u \in Seq(Int) /\ delivered \in Seq(Int) /\ v \in Seq(Int)
            BY <2>5, <1>10, <1>11, SeqMonotonic
        <3> HIDE DEF u, v
        <3> DEFINE d == delivered
        <3>2. d \in Seq(Int)  BY <3>1
        <3> DEFINE I == Int
        <3> HIDE DEF d
        <3>3. u \in Seq(I) /\ v \in Seq(I) /\ d \in Seq(I)  BY <3>1, <3>2
        <3> HIDE DEF I
        <3>4. (d \o u) \o v = d \o (u \o v)  BY <3>3, ConcatAssociative
        <3> QED  BY <3>4 DEF d, u, v
    <2>7. sent' = delivered' \o Bodies(w)  BY <2>1, <2>3, <2>5, <2>6, <1>1
    <2> QED  BY <2>2, <2>7 DEF w
<1>14. /\ OwnStable' \subseteq OwnStable
       /\ Cardinality(OwnStable') <= Cardinality(OwnStable) /\ Cardinality(OwnStable') \in Nat
    <2>1. OwnStable' \subseteq OwnStable  BY <1>5
    <2>2. IsFiniteSet(OwnStable)  BY <1>3 DEF IsMap
    <2> HIDE DEF own, rest
    <2> QED  BY <2>1, <2>2, FS_Subset, FS_CardinalityType
<1>15. /\ IsMap(Batch(due)) /\ Cardinality(Batch(due)) \in Nat
       /\ Cardinality(Stable) = Cardinality(Stable') + Cardinality(Batch(due))
       /\ Cardinality(Stable') \in Nat
    <2>1. IsMap(Batch(due))
        <3>1. Batch(due) \subseteq lsm  BY DEF Batch
        <3> QED  BY <3>1, <1>3, MapSubset
    <2>2. Stable' = Stable \ Batch(due) /\ Stable \cap Batch(due) = Batch(due)
        BY <1>1 DEF Stable, Batch
    <2>3. IsFiniteSet(Stable)  BY CountsType DEF IInv
    <2>4. IsFiniteSet(Batch(due)) /\ IsFiniteSet(Stable')
        BY <2>1, <2>2, <2>3, FS_Difference DEF IsMap
    <2>5. Cardinality(Stable') = Cardinality(Stable) - Cardinality(Batch(due))
        BY <2>2, <2>3, FS_Difference
    <2>6. /\ Cardinality(Stable) \in Nat /\ Cardinality(Stable') \in Nat
          /\ Cardinality(Batch(due)) \in Nat
        BY <2>3, <2>4, FS_CardinalityType
    <2> QED  BY <2>1, <2>5, <2>6
<1>16. lsm' \subseteq Entry  BY <1>1 DEF IInv, TypeOK
<1> QED  BY <1>1, <1>12, <1>13, <1>14, <1>15, <1>16

\* What the disk gets.
LEMMA WriteOfKey ==
    ASSUME IInv, NEW e \in locally_stable_messages
    PROVE  /\ WriteOf(e) \in Write /\ WriteOf(e).view = members
           /\ KeyOf(WriteOf(e)) = e.seq
<1> DEFINE r == e.msg.sender_rank
<1>1. /\ r \in Rank /\ e.seq = SeqNum(r, e.msg.index) /\ e.msg.index \in Nat
    BY OwnStableType DEF IInv, FiledFits
<1>2. members \in Seq(Id) /\ IsInjective(members)  BY Basics DEF IInv
<1>3. r \in 0 .. Len(members) - 1  BY <1>1 DEF Rank, num_members
<1>4. members[r + 1] \in Id /\ RankIn(members, members[r + 1]) = r
    <2>1. r + 1 \in 1 .. Len(members)  BY <1>3
    <2> HIDE DEF r
    <2> QED  BY <2>1, <1>2, <1>3, RankInIs
<1>5. WriteOf(e) = [index |-> e.msg.index, sender |-> members[r + 1], view |-> members]
    BY DEF WriteOf
<1>6. WriteOf(e) \in Write  BY <1>1, <1>2, <1>4, <1>5 DEF Write
<1>7. KeyOf(WriteOf(e)) = SeqNum(RankIn(members, members[r + 1]), e.msg.index)
    BY <1>5 DEF KeyOf
<1> QED  BY <1>1, <1>4, <1>5, <1>6, <1>7

LEMMA DeliverToDisk ==
    ASSUME IInv, Running, NEW due, due \subseteq locally_stable_messages, deliver(due),
           UNCHANGED <<views, file_writer, carried_over>>,
           ~ thread_shutdown' => \A e \in due : e.seq <= delivered_num',
           ~ thread_shutdown' => delivered_num <= delivered_num' /\ delivered_num' \in Int
    PROVE  /\ DiskFits'
           /\ non_persistent_messages' \subseteq Entry /\ writes' \in Seq(Write)
           /\ free_message_buffers' \in Nat
           /\ ~ carried_over =>
                  free_message_buffers' + Cardinality(non_persistent_messages')
                  = free_message_buffers + Cardinality(non_persistent_messages)
                    + Cardinality(Batch(due))
<1> DEFINE lsm == locally_stable_messages
           npm == non_persistent_messages
           B == Batch(due)
           batch == Sorted(B)
           w(n) == WriteOf(batch[n])
<1>1. /\ file_writer => /\ npm' = npm \cup {e \in Range(batch) : e.seq \notin Taken}
                        /\ writes' = writes \o [n \in DOMAIN batch |-> w(n)]
                        /\ free_message_buffers' = free_message_buffers
      /\ ~ file_writer => /\ free_message_buffers' = free_message_buffers + Len(batch)
                          /\ npm' = npm /\ writes' = writes
    BY DEF deliver, Batch, Taken
<1>2. IsMap(lsm) /\ IsMap(B) /\ B \subseteq due /\ B \subseteq lsm
    <2>1. IsMap(lsm)  BY OwnStableType DEF IInv
    <2>2. B \subseteq due /\ B \subseteq lsm  BY DEF Batch
    <2> HIDE DEF B
    <2> QED  BY <2>1, <2>2, MapSubset
<1> HIDE DEF B
<1>3. /\ Range(batch) = B /\ batch \in Seq(B) /\ Len(batch) = Cardinality(B)
      /\ Cardinality(B) \in Nat
      /\ \A n \in 1 .. Len(batch) : batch[n] \in B
      /\ \A m, n \in 1 .. Len(batch) : batch[m] = batch[n] => m = n
    BY <1>2, SortedType, SortedRange, SortedInjective
<1> HIDE DEF batch, w
<1>4. /\ ViewsFit' /\ members' = members
      /\ \A r, a : SeqNum(r, a)' = SeqNum(r, a)
    BY ViewsFrame DEF IInv
<1>5. npm \subseteq Entry /\ lsm \subseteq Entry /\ writes \in Seq(Write)
      /\ free_message_buffers \in Nat /\ delivered_num \in Int
    BY DEF IInv, TypeOK
<1>6. \A e \in Entry : e.seq \in Nat  BY DEF Entry
<1>7. \A e \in lsm : delivered_num < e.seq  BY DEF IInv, FiledFits
<1>8. ~ thread_shutdown  BY DEF Running
<1>9. ~ carried_over => \A e \in npm : e.seq <= delivered_num
    BY <1>8 DEF IInv, DiskFits
<1>10. CASE ~ file_writer
    <2>1. npm = {} /\ writes = <<>> /\ ~ carried_over  BY <1>10 DEF IInv, DiskFits
    <2>2. npm' = {} /\ writes' = <<>> /\ free_message_buffers' = free_message_buffers + Cardinality(B)
        BY <2>1, <1>1, <1>3, <1>10
    <2>3. DiskFits'
        <3>1. IsFiniteSet({})  BY FS_EmptySet
        <3>2. DOMAIN <<>> = {}  OBVIOUS
        <3> QED  BY <3>1, <3>2, <2>1, <2>2 DEF DiskFits
    <2>4. <<>> \in Seq(Write)  OBVIOUS
    <2>5. free_message_buffers' \in Nat /\ Cardinality({}) = 0
        BY <2>2, <1>3, <1>5, FS_EmptySet
    <2> QED  BY <2>1, <2>2, <2>3, <2>4, <2>5, <1>3, <1>5 DEF B
<1>11. CASE file_writer
    <2> DEFINE New == {e \in B : e.seq \notin Taken}
    <2>1. npm' = npm \cup New /\ free_message_buffers' = free_message_buffers
        BY <1>1, <1>3, <1>11
    <2>2. writes' = writes \o [n \in 1 .. Len(batch) |-> w(n)]
        BY <1>1, <1>3, <1>11
    <2>3. IsFiniteSet(npm) /\ IsFiniteSet(B)  BY <1>2 DEF IInv, DiskFits, IsMap
    <2>4. IsFiniteSet(npm')
        <3>1. IsFiniteSet(New)  BY <2>3, FS_Subset
        <3> HIDE DEF New
        <3> QED  BY <3>1, <2>1, <2>3, FS_Union
    <2>5. npm' \subseteq Entry  BY <2>1, <1>2, <1>5
    <2>6. \A d, e \in npm' : d.seq = e.seq => d = e
        <3> SUFFICES ASSUME NEW d \in npm', NEW e \in npm', d.seq = e.seq PROVE d = e
            OBVIOUS
        <3>1. CASE d \in npm /\ e \in npm  BY <3>1 DEF IInv, DiskFits
        <3>2. CASE d \in npm /\ e \in New  BY <3>2 DEF Taken
        <3>3. CASE d \in New /\ e \in npm  BY <3>3 DEF Taken
        <3>4. CASE d \in New /\ e \in New  BY <3>4, <1>2 DEF IsMap
        <3> QED  BY <3>1, <3>2, <3>3, <3>4, <2>1
    <2>7. \A n \in 1 .. Len(batch) : /\ w(n) \in Write /\ w(n).view = members
                                     /\ KeyOf(w(n)) = batch[n].seq
                                     /\ batch[n] \in B
        BY <1>2, <1>3, WriteOfKey DEF w
    <2> DEFINE more == [n \in 1 .. Len(batch) |-> w(n)]
               L == Len(writes)
    <2>8. more \in Seq(Write) /\ Len(more) = Len(batch)
          /\ \A n \in 1 .. Len(batch) : more[n] = w(n)
        BY <2>7, <1>3
    <2> HIDE DEF more
    <2>9. /\ writes' \in Seq(Write) /\ Len(writes') = L + Len(batch)
          /\ L \in Nat /\ Len(batch) \in Nat
          /\ \A n \in 1 .. L : writes'[n] = writes[n]
          /\ \A n \in 1 .. Len(writes') : n > L => n - L \in 1 .. Len(batch) /\ writes'[n] = w(n - L)
        <3>1. writes' = writes \o more /\ L \in Nat /\ Len(batch) \in Nat
            BY <2>2, <1>3, <1>5 DEF more
        <3>2. /\ writes' \in Seq(Write) /\ Len(writes') = L + Len(batch)
              /\ \A n \in 1 .. L + Len(batch) :
                     writes'[n] = IF n <= L THEN writes[n] ELSE more[n - L]
            <4>1. writes \in Seq(Write) /\ more \in Seq(Write)  BY <1>5, <2>8
            <4>2. /\ writes \o more \in Seq(Write) /\ Len(writes \o more) = L + Len(more)
                  /\ \A n \in 1 .. L + Len(more) :
                         (writes \o more)[n] = IF n <= L THEN writes[n] ELSE more[n - L]
                BY <4>1, ConcatProperties
            <4> QED  BY <4>2, <3>1, <2>8
        <3>3. \A n \in 1 .. L : writes'[n] = writes[n]  BY <3>1, <3>2
        <3>4. ASSUME NEW n \in 1 .. Len(writes'), n > L
              PROVE  n - L \in 1 .. Len(batch) /\ writes'[n] = w(n - L)
            <4>1. n - L \in 1 .. Len(batch) /\ n \in 1 .. L + Len(batch) /\ ~ (n <= L)
                BY <3>1, <3>2, <3>4
            <4> QED  BY <4>1, <3>2, <2>8
        <3> QED  BY <3>1, <3>2, <3>3, <3>4
    <2>10. ASSUME ~ carried_over
           PROVE  /\ New = B /\ npm \cap B = {}
                  /\ ~ thread_shutdown' => \A e \in npm' : e.seq <= delivered_num'
                  /\ (\A n \in DOMAIN writes :
                          writes[n].view = members /\ Written(writes[n]) # {})'
                  /\ (\A n, m \in DOMAIN writes :
                          KeyOf(writes[n]) = KeyOf(writes[m]) => n = m)'
        <3>1. \A d \in npm, e \in B : d.seq < e.seq
            BY <2>10, <1>2, <1>5, <1>6, <1>7, <1>9
        <3>2. \A e \in npm \cup B : e.seq \in Int  BY <1>2, <1>5, <1>6
        <3>3. New = B  BY <3>1, <3>2 DEF Taken
        <3>4. npm \cap B = {}
            <4> SUFFICES ASSUME NEW e \in npm, e \in B PROVE FALSE  OBVIOUS
            <4>1. e.seq < e.seq  BY <3>1
            <4> QED  BY <4>1, <3>2
        <3>5. ASSUME ~ thread_shutdown', NEW e \in npm'
              PROVE  e.seq <= delivered_num'
            <4>1. CASE e \in npm
                <5>1. e.seq <= delivered_num /\ e.seq \in Int  BY <4>1, <2>10, <1>9, <3>2
                <5> QED  BY <5>1, <3>5, <1>5
            <4>2. CASE e \in New  BY <4>2, <3>5, <1>2
            <4> QED  BY <4>1, <4>2, <2>1
        <3>6. \A n : (KeyOf(writes[n]))' = KeyOf(writes'[n])
            <4>1. num_members' = num_members  BY <1>4 DEF num_members
            <4> QED  BY <4>1, <1>4 DEF KeyOf, SeqNum
        <3>7. DOMAIN writes' = 1 .. Len(writes') /\ DOMAIN writes = 1 .. L
            BY <2>9, <1>5
        <3>8. \A n \in 1 .. L :
                  /\ writes[n].view = members
                  /\ \E e \in npm : e.seq = KeyOf(writes[n])
            BY <2>10, <3>7 DEF IInv, DiskFits, Written
        <3>9. \A n \in 1 .. L, m \in 1 .. L : KeyOf(writes[n]) = KeyOf(writes[m]) => n = m
            BY <2>10, <3>7 DEF IInv, DiskFits
        <3>10. ASSUME NEW n \in 1 .. Len(writes')
               PROVE  writes'[n].view = members' /\ \E e \in npm' : e.seq = KeyOf(writes'[n])
            <4>1. CASE n <= L
                <5>1. n \in 1 .. L  BY <4>1, <2>9
                <5> QED  BY <5>1, <3>8, <2>1, <2>9, <1>4
            <4>2. CASE ~ (n <= L)
                <5>1. n - L \in 1 .. Len(batch) /\ writes'[n] = w(n - L)  BY <4>2, <2>9
                <5>2. batch[n - L] \in npm'  BY <5>1, <2>1, <2>7, <3>3
                <5> QED  BY <5>1, <5>2, <2>7, <1>4
            <4> QED  BY <4>1, <4>2
        <3>11. ASSUME NEW n \in 1 .. Len(writes'), NEW m \in 1 .. Len(writes'),
                      KeyOf(writes'[n]) = KeyOf(writes'[m])
               PROVE  n = m
            <4>1. CASE n <= L /\ m <= L
                <5>1. n \in 1 .. L /\ m \in 1 .. L  BY <4>1, <2>9
                <5> QED  BY <5>1, <3>9, <3>11, <2>9
            <4>2. ASSUME NEW i \in 1 .. Len(writes'), NEW j \in 1 .. Len(writes'),
                         i <= L, ~ (j <= L), KeyOf(writes'[i]) = KeyOf(writes'[j])
                  PROVE  FALSE
                <5>1. i \in 1 .. L /\ j > L  BY <4>2, <2>9
                <5>2. PICK d \in npm : d.seq = KeyOf(writes'[i])  BY <5>1, <3>8, <2>9
                <5>3. j - L \in 1 .. Len(batch) /\ writes'[j] = w(j - L)  BY <5>1, <2>9
                <5>4. KeyOf(writes'[j]) = batch[j - L].seq /\ batch[j - L] \in B
                    BY <5>3, <2>7
                <5>5. d.seq < batch[j - L].seq  BY <5>4, <3>1
                <5> QED  BY <5>2, <5>4, <5>5, <4>2, <3>2
            <4>3. CASE ~ (n <= L) /\ ~ (m <= L)
                <5>1. n - L \in 1 .. Len(batch) /\ writes'[n] = w(n - L)
                      /\ m - L \in 1 .. Len(batch) /\ writes'[m] = w(m - L)
                    BY <4>3, <2>9
                <5>2. batch[n - L].seq = batch[m - L].seq
                      /\ batch[n - L] \in B /\ batch[m - L] \in B
                    BY <5>1, <3>11, <2>7
                <5>3. batch[n - L] = batch[m - L]  BY <5>2, <1>2 DEF IsMap
                <5>4. n - L = m - L  BY <5>1, <5>3, <1>3
                <5> QED  BY <5>4, <2>9
            <4> QED  BY <4>1, <4>2, <4>3, <3>11
        <3>12. \A n : (Written(writes[n]))' = {e \in npm' : e.seq = KeyOf(writes'[n])}
            BY <3>6 DEF Written
        <3> HIDE DEF New
        <3>13. (\A n \in DOMAIN writes :
                    writes[n].view = members /\ Written(writes[n]) # {})'
            BY <3>7, <3>10, <3>12
        <3>14. (\A n, m \in DOMAIN writes : KeyOf(writes[n]) = KeyOf(writes[m]) => n = m)'
            BY <3>6, <3>7, <3>11
        <3> QED  BY <3>3, <3>4, <3>5, <3>13, <3>14
    <2>11. DiskFits'
        <3> HIDE DEF New
        <3> QED  BY <2>4, <2>6, <2>10, <1>11 DEF DiskFits
    <2>12. ~ carried_over => Cardinality(npm') = Cardinality(npm) + Cardinality(B)
        <3> SUFFICES ASSUME ~ carried_over
                     PROVE  Cardinality(npm') = Cardinality(npm) + Cardinality(B)
            OBVIOUS
        <3>1. npm' = npm \cup B /\ npm \cap B = {}  BY <2>1, <2>10
        <3> HIDE DEF npm
        <3>2. Cardinality(npm \cup B) = Cardinality(npm) + Cardinality(B) - Cardinality(npm \cap B)
            BY <2>3, FS_Union
        <3>3. Cardinality(npm \cap B) = 0  BY <3>1, FS_EmptySet
        <3>4. Cardinality(npm) \in Nat  BY <2>3, FS_CardinalityType
        <3> QED  BY <3>1, <3>2, <3>3, <3>4, <1>3
    <2>13. Cardinality(npm) \in Nat  BY <2>3, FS_CardinalityType
    <2>14. ~ carried_over => free_message_buffers' + Cardinality(npm')
                                = free_message_buffers + Cardinality(npm) + Cardinality(B)
        BY <2>1, <2>12, <2>13, <1>3, <1>5
    <2> HIDE DEF New
    <2> QED  BY <2>1, <2>5, <2>9, <2>11, <2>14, <1>5 DEF B
<1> QED  BY <1>10, <1>11


\* A delivery of the first messages that wait for it.
LEMMA DeliveryKeeps ==
    ASSUME IInv, Running, NEW due, due \subseteq locally_stable_messages, deliver(due),
           UNCHANGED <<views, file_writer, rdmc_groups, sendVars, current_receives, total_message_buffers,
                       nReceived, persisted_num, aborted, sent, carried_over>>,
           thread_shutdown' \in BOOLEAN,
           delivered_num' \in Nat \cup {-1}, delivered_num <= delivered_num',
           \A e \in due, f \in locally_stable_messages \ due : e.seq < f.seq,
           \A f \in locally_stable_messages \ due : delivered_num' < f.seq,
           \A r \in Rank : delivered_num' < SeqNum(r, nReceived[r] + 1),
           ~ thread_shutdown' => \A e \in due : e.seq <= delivered_num'
    PROVE  IInv'
<1> DEFINE lsm == locally_stable_messages
           d == delivered_num
           e1 == delivered_num'
<1>1. /\ lsm' = lsm \ due /\ lsm' \subseteq Entry
      /\ delivered' \in Seq(Nat) /\ NothingLostOrRepeated'
      /\ OwnStable' \subseteq OwnStable
      /\ Cardinality(OwnStable') <= Cardinality(OwnStable)
      /\ Cardinality(OwnStable') \in Nat
      /\ IsMap(Batch(due)) /\ Cardinality(Batch(due)) \in Nat
      /\ Cardinality(Stable) = Cardinality(Stable') + Cardinality(Batch(due))
      /\ Cardinality(Stable') \in Nat
    BY DeliverOrder
<1>2. e1 \in Int /\ d \in Int /\ d <= e1  BY DEF IInv, TypeOK
<1>3. /\ DiskFits'
      /\ non_persistent_messages' \subseteq Entry /\ writes' \in Seq(Write)
      /\ free_message_buffers' \in Nat
      /\ ~ carried_over =>
             free_message_buffers' + Cardinality(non_persistent_messages')
             = free_message_buffers + Cardinality(non_persistent_messages)
               + Cardinality(Batch(due))
    BY <1>2, DeliverToDisk
<1>4. /\ ViewsFit' /\ members' = members /\ num_members' = num_members
      /\ Rank' = Rank /\ member_index' = member_index
      /\ \A r, a : SeqNum(r, a)' = SeqNum(r, a)
    BY ViewsFrame DEF IInv
<1>5. QueueFits' /\ Queue' = Queue  BY QueueFrame DEF IInv
<1>6. TypeOK'
    BY <1>1, <1>3, <1>4 DEF IInv, TypeOK, sendVars
<1>7. ChainFits'
    BY <1>5, ChainFrame DEF IInv, sendVars
<1>8. ASSUME NEW r \in Rank, NEW i \in Int, SeqNum(r, i) <= d
      PROVE  SeqNum(r, i)' <= e1
    <2>1. num_members \in Nat  BY Basics DEF IInv
    <2>2. SeqNum(r, i) \in Int  BY <2>1, SeqNumType
    <2> HIDE DEF d, e1
    <2>3. SeqNum(r, i) <= e1  BY <2>2, <1>2, <1>8
    <2> QED  BY <2>3, <1>4
<1>9. WindowSize \in Int  BY TransitionAssumption
<1>10. IncomingFits'
    <2>1. ASSUME NEW m \in current_receives
          PROVE  SeqNum(m.sender_rank, m.index - WindowSize)' <= delivered_num'
        <3>1. m.sender_rank \in Rank /\ SeqNum(m.sender_rank, m.index - WindowSize) <= d
            BY DEF IInv, IncomingFits
        <3>2. m \in Message  BY DEF IInv, TypeOK
        <3>3. m.index - WindowSize \in Int  BY <3>2, <1>9, MessageType
        <3> QED  BY <3>1, <3>3, <1>8
    <2>2. /\ IsFiniteSet(current_receives)
          /\ \A m \in current_receives :
                 /\ m.sender_rank \in Rank \ {member_index}
                 /\ m.size = 1 /\ m.pause = 0
                 /\ m.index = nReceived[m.sender_rank] + 1
          /\ \A m, o \in current_receives : m.sender_rank = o.sender_rank => m = o
        BY DEF IInv, IncomingFits
    <2>3. current_receives' = current_receives /\ nReceived' = nReceived  OBVIOUS
    <2> QED  BY <2>1, <2>2, <2>3, <1>4 DEF IncomingFits
<1>11. FiledFits'
    <2>1. ASSUME NEW e \in lsm'
          PROVE  /\ e.msg.sender_rank \in Rank
                 /\ e.seq = SeqNum(e.msg.sender_rank, e.msg.index)
                 /\ e.msg.index <= nReceived[e.msg.sender_rank]
                 /\ e1 < e.seq
                 /\ e.msg.size > 0 /\ e.msg.sender_rank = member_index => e.msg.body >= 0
                 /\ e.msg.sender_rank # member_index =>
                        SeqNum(e.msg.sender_rank, e.msg.index - WindowSize)' <= e1
        <3>1. e \in lsm /\ e1 < e.seq  BY <1>1
        <3>2. /\ e.msg.sender_rank \in Rank
              /\ e.seq = SeqNum(e.msg.sender_rank, e.msg.index)
              /\ e.msg.index <= nReceived[e.msg.sender_rank]
              /\ e.msg.size > 0 /\ e.msg.sender_rank = member_index => e.msg.body >= 0
              /\ e.msg.sender_rank # member_index =>
                     SeqNum(e.msg.sender_rank, e.msg.index - WindowSize) <= d
            BY <3>1 DEF IInv, FiledFits
        <3>3. e.msg.index - WindowSize \in Int
            <4>1. e.msg.index \in Nat  BY <3>1, OwnStableType DEF IInv
            <4> QED  BY <4>1, <1>9
        <3> QED  BY <3>1, <3>2, <3>3, <1>8
    <2>2. IsFiniteSet(lsm')
        <3>1. IsFiniteSet(lsm) /\ lsm' \subseteq lsm  BY <1>1 DEF IInv, FiledFits
        <3> QED  BY <3>1, FS_Subset
    <2>3. \A e, f \in lsm' : e.seq = f.seq => e = f  BY <1>1 DEF IInv, FiledFits
    <2>4. \A r \in Rank : e1 < SeqNum(r, nReceived[r] + 1)  OBVIOUS
    <2>5. nReceived' = nReceived  OBVIOUS
    <2>6. \A e \in lsm' : e.seq = SeqNum(e.msg.sender_rank, e.msg.index)'  BY <2>1, <1>4
    <2>7. \A r \in Rank : e1 < SeqNum(r, nReceived[r] + 1)'  BY <2>4, <2>5, <1>4
    <2> QED  BY <2>1, <2>2, <2>3, <2>5, <2>6, <2>7, <1>4 DEF FiledFits
<1>12. BuffersConserved'
    <2>1. Buffers(num_members)' = Buffers(num_members)  BY <1>4 DEF Buffers
    <2>2. /\ Cardinality(next_send') = Cardinality(next_send)
          /\ Len(pending_sends') = Len(pending_sends)
          /\ Cardinality(current_send') = Cardinality(current_send)
          /\ Cardinality(current_receives') = Cardinality(current_receives)
        BY DEF sendVars
    <2>3. Cardinality(non_persistent_messages') \in Nat
        BY <1>3, FS_CardinalityType DEF DiskFits
    <2>4. ~ carried_over => free_message_buffers' + InUse' = free_message_buffers + InUse
        <3> DEFINE u == Cardinality(next_send) + Len(pending_sends) + Cardinality(current_send)
                        + Cardinality(current_receives)
                   n0 == Cardinality(non_persistent_messages)
                   n1 == Cardinality(non_persistent_messages')
                   s0 == Cardinality(Stable)
                   s1 == Cardinality(Stable')
                   b == Cardinality(Batch(due))
        <3>1. /\ u \in Nat /\ n0 \in Nat /\ n1 \in Nat /\ s0 \in Nat /\ s1 \in Nat /\ b \in Nat
              /\ free_message_buffers \in Nat /\ free_message_buffers' \in Nat
            <4>1. TypeOK /\ QueueFits /\ IncomingFits /\ FiledFits /\ DiskFits  BY DEF IInv
            <4>2. u \in Nat /\ n0 \in Nat /\ s0 \in Nat /\ free_message_buffers \in Nat
                BY <4>1, CountsType
            <4>3. n1 \in Nat /\ s1 \in Nat /\ b \in Nat /\ free_message_buffers' \in Nat
                BY <2>3, <1>1, <1>3
            <4> QED  BY <4>2, <4>3
        <3>3. InUse = u + s0 + n0  BY DEF InUse
        <3>4. InUse' = u + s1 + n1  BY <2>2 DEF InUse
        <3>2. s0 = s1 + b
              /\ (~ carried_over => free_message_buffers' + n1 = free_message_buffers + n0 + b)
            BY <1>1, <1>3
        <3> HIDE DEF u, n0, n1, s0, s1, b
        <3>5. free_message_buffers + InUse = (free_message_buffers + n0 + b) + u + s1
            BY <3>1, <3>2, <3>3
        <3>6. free_message_buffers' + InUse' = (free_message_buffers' + n1) + u + s1
            BY <3>1, <3>4
        <3> QED  BY <3>2, <3>5, <3>6
    <2>5. TypeOK' /\ QueueFits' /\ IncomingFits' /\ FiledFits' /\ DiskFits'
        BY <1>3, <1>5, <1>6, <1>10, <1>11
    <2> QED  BY <2>1, <2>4, <2>5, BuffersIs DEF IInv, BuffersSum
<1>13. WindowFits'
    <2>1. Len(Queue) \in Nat /\ Cardinality(OwnStable) \in Nat
        BY QueueType, OwnStableType DEF IInv
    <2> QED  BY <2>1, <1>1, <1>5, <1>9 DEF IInv, WindowFits
<1>14. AssertionsHold'  BY DEF IInv, AssertionsHold
<1> QED  BY <1>1, <1>3, <1>4, <1>5, <1>6, <1>7, <1>10, <1>11, <1>12, <1>13, <1>14
         DEF IInv

LEMMA DeliverKeeps ==
    ASSUME IInv, Deliver
    PROVE  IInv'
<1> DEFINE lsm == locally_stable_messages
<1>1. PICK e \in lsm :
          /\ \A f \in lsm : e.seq <= f.seq
          /\ \A r \in Rank : e.seq < SeqNum(r, nReceived[r] + 1)
          /\ deliver({e})
          /\ delivered_num' = e.seq
    BY DEF Deliver
<1>2. UNCHANGED <<viewVars, sendVars, current_receives, total_message_buffers,
                  nReceived, persisted_num, aborted, sent, carried_over>>
    BY DEF Deliver
<1>3. Running /\ thread_shutdown' = FALSE  BY <1>2 DEF Deliver, Running, viewVars, IInv, TypeOK
<1>4. e.seq \in Nat /\ \A f \in lsm : f.seq \in Nat  BY DEF IInv, TypeOK, Entry
<1>5. delivered_num < e.seq /\ \A f \in lsm : e.seq = f.seq => e = f
    BY DEF IInv, FiledFits
<1>6. delivered_num \in Int  BY DEF IInv, TypeOK
<1>7. \A f \in lsm \ {e} : e.seq < f.seq  BY <1>1, <1>4, <1>5
<1>8. delivered_num <= delivered_num' /\ delivered_num' \in Nat
    BY <1>1, <1>4, <1>5, <1>6
<1> HIDE DEF lsm
<1>9. {e} \subseteq lsm  BY DEF lsm
<1>10. \A x \in {e}, f \in lsm \ {e} : x.seq < f.seq  BY <1>7
<1>11. \A x \in {e} : x.seq <= delivered_num'  BY <1>1, <1>4
<1> QED  BY <1>1, <1>2, <1>3, <1>7, <1>8, <1>9, <1>10, <1>11, DeliveryKeeps DEF lsm, viewVars

LEMMA EndOfViewKeeps ==
    ASSUME IInv, EndOfView
    PROVE  IInv'
<1> DEFINE lsm == locally_stable_messages
           Range0 == -1 .. MaxOther + MaxMessages * (MaxPause + 1)
<1>1. PICK accepted \in [Rank -> Range0] :
          /\ \A r \in Rank : accepted[r] <= nReceived[r]
          /\ LET max == Max({delivered_num} \cup {SeqNum(r, accepted[r]) : r \in Rank})
             IN  deliver({e \in lsm : e.seq <= max})
    BY DEF EndOfView
<1> DEFINE T == {delivered_num} \cup {SeqNum(r, accepted[r]) : r \in Rank}
           max == Max(T)
           due == {e \in lsm : e.seq <= max}
<1>2. deliver(due)  BY <1>1
<1>3. /\ UNCHANGED <<views, file_writer, rdmc_groups, sendVars, current_receives,
                     total_message_buffers, rowVars, aborted, sent, carried_over>>
      /\ thread_shutdown' = TRUE /\ Len(views) > 1 /\ Running
    BY DEF EndOfView
<1>4. /\ num_members \in Nat /\ member_index \in Rank
      /\ delivered_num \in Nat \cup {-1} /\ delivered_num \in Int
      /\ \A r \in Rank : nReceived[r] \in Int
    BY Basics DEF IInv, TypeOK
<1>5. PICK c \in Nat : \A k \in Range0 : k < c
    <2> DEFINE b == MaxOther + MaxMessages * (MaxPause + 1)
    <2>1. MaxOther \in Nat /\ MaxMessages \in Nat /\ MaxPause \in Nat  BY TransitionAssumption
    <2>2. MaxMessages * (MaxPause + 1) \in Nat  BY <2>1
    <2>3. b \in Nat  BY <2>1, <2>2
    <2> HIDE DEF b
    <2>4. b + 1 \in Nat /\ \A k \in -1 .. b : k < b + 1  BY <2>3
    <2>5. \E c \in Nat : \A k \in -1 .. b : k < c  BY <2>4
    <2> QED  BY <2>5 DEF b
<1>6. \A r \in Rank : accepted[r] \in Int /\ accepted[r] < c  BY <1>5
<1> HIDE DEF Range0
<1>7. max \in Int
    <2>1. \A r \in Rank : SeqNum(r, accepted[r]) \in Int  BY <1>4, <1>6, SeqNumType
    <2>2. T \subseteq Int /\ T # {}  BY <2>1, <1>4
    <2> DEFINE s == SeqNum(member_index, c)
               b == IF s <= delivered_num THEN delivered_num ELSE s
    <2>3. s \in Int  BY <1>4, SeqNumType
    <2>4. \A r \in Rank : SeqNum(r, accepted[r]) < s
        <3> TAKE r \in Rank
        <3>1. accepted[r] \in Int /\ c \in Int /\ accepted[r] < c  BY <1>5, <1>6
        <3> HIDE DEF s
        <3> QED  BY <3>1, <1>4, SeqNumGrows DEF s
    <2>5. b \in Int /\ s <= b /\ delivered_num <= b
        <3> HIDE DEF s
        <3> QED  BY <2>3, <1>4
    <2> HIDE DEF s, b
    <2>6. \A k \in T : k <= b
        <3> TAKE k \in T
        <3>1. CASE k = delivered_num  BY <3>1, <2>5
        <3>2. ASSUME NEW r \in Rank, k = SeqNum(r, accepted[r])
              PROVE  k <= b
            <4>1. k < s /\ k \in Int  BY <3>2, <2>1, <2>4
            <4> QED  BY <4>1, <2>3, <2>5
        <3> QED  BY <3>1, <3>2
    <2> HIDE DEF T
    <2>7. Max(T) \in T  BY <2>2, <2>5, <2>6, Greatest
    <2> QED  BY <2>2, <2>7
<1> HIDE DEF max
<1>8. \A e \in due, f \in lsm \ due : e.seq < f.seq
    <2>1. \A e \in lsm : e.seq \in Int  BY DEF IInv, TypeOK, Entry
    <2> QED  BY <2>1, <1>7
<1>9. due \subseteq lsm  OBVIOUS
<1>10. \A f \in lsm \ due : delivered_num < f.seq  BY DEF IInv, FiledFits
<1>11. \A r \in Rank : delivered_num < SeqNum(r, nReceived[r] + 1)  BY DEF IInv, FiledFits
<1>12. delivered_num' = delivered_num /\ delivered_num <= delivered_num
       /\ nReceived' = nReceived /\ persisted_num' = persisted_num
    BY <1>3, <1>4 DEF rowVars
<1> HIDE DEF due, lsm
<1> QED  BY <1>2, <1>3, <1>4, <1>8, <1>9, <1>10, <1>11, <1>12, DeliveryKeeps DEF lsm

-----------------------------------------------------------------------------
(***************************************************************************)
(* The disk.                                                               *)
(***************************************************************************)
LEMMA FileWrittenKeeps ==
    ASSUME IInv, FileWritten
    PROVE  IInv'
<1> DEFINE npm == non_persistent_messages
           h == Head(writes)
           L == Len(writes)
<1>1. PICK e \in Written(h) : npm' = npm \ {e}  BY DEF FileWritten
<1>2. /\ writes # <<>> /\ writes' = Tail(writes)
      /\ free_message_buffers' = free_message_buffers + 1
      /\ persisted_num' = KeyOf(h)
      /\ UNCHANGED <<viewVars, sendVars, current_receives, locally_stable_messages,
                     total_message_buffers, nReceived, delivered_num, aborted, historyVars>>
    BY DEF FileWritten
<1>3. UNCHANGED <<views, file_writer, thread_shutdown, rdmc_groups, future_message_index, next_send,
                  pending_sends, current_send, sent, delivered, carried_over>>
    BY <1>2 DEF viewVars, sendVars, historyVars
<1>4. e \in npm /\ e.seq = KeyOf(h)  BY <1>1 DEF Written
<1>5. /\ npm \subseteq Entry /\ writes \in Seq(Write) /\ free_message_buffers \in Nat
      /\ IsFiniteSet(npm)
    BY DEF IInv, TypeOK, DiskFits
<1>6. e.seq \in Nat  BY <1>4, <1>5 DEF Entry
<1>7. /\ L \in Nat \ {0} /\ writes' \in Seq(Write) /\ Len(writes') = L - 1
      /\ h = writes[1]
      /\ \A n \in 1 .. L - 1 : writes'[n] = writes[n + 1]
    BY <1>2, <1>5
<1>8. /\ ViewsFit' /\ members' = members /\ num_members' = num_members
      /\ Rank' = Rank /\ member_index' = member_index
      /\ \A r, a : SeqNum(r, a)' = SeqNum(r, a)
    BY <1>3, ViewsFrame DEF IInv
<1>9. TypeOK'
    <2>1. npm' \subseteq Entry  BY <1>1, <1>5
    <2>2. free_message_buffers' \in Nat /\ persisted_num' \in Nat
        BY <1>2, <1>4, <1>5, <1>6
    <2> QED  BY <2>1, <2>2, <1>2, <1>3, <1>7, <1>8 DEF IInv, TypeOK
<1>10. QueueFits' /\ Queue' = Queue  BY <1>3, QueueFrame DEF IInv, sendVars
<1>11. ChainFits'  BY <1>2, <1>3, <1>10, ChainFrame DEF IInv
<1>12. IncomingFits' /\ FiledFits'  BY <1>2, <1>3, IncomingFrame, FiledFrame DEF IInv
<1>13. OwnStable' = OwnStable  BY <1>2, <1>3, OwnStableFrame DEF IInv
<1>14. NothingLostOrRepeated'
    <2>1. Messages(OwnStable)' = Messages(OwnStable)  BY <1>13 DEF Messages, Sorted
    <2> QED  BY <2>1, <1>3 DEF IInv, NothingLostOrRepeated, Bodies
<1>15. file_writer /\ file_writer'  BY <1>2, <1>3 DEF IInv, DiskFits
<1>16. IsFiniteSet(npm') /\ Cardinality(npm') = Cardinality(npm) - 1
       /\ Cardinality(npm) \in Nat
    <2> HIDE DEF npm
    <2> QED  BY <1>1, <1>4, <1>5, FS_RemoveElement, FS_CardinalityType DEF npm
<1>17. DiskFits'
    <2>1. \A d, f \in npm' : d.seq = f.seq => d = f  BY <1>1 DEF IInv, DiskFits
    <2>2. ASSUME ~ carried_over
          PROVE  /\ ~ thread_shutdown => \A d \in npm' : d.seq <= delivered_num
                 /\ (\A n \in DOMAIN writes :
                         writes[n].view = members /\ Written(writes[n]) # {})'
                 /\ (\A n, m \in DOMAIN writes : KeyOf(writes[n]) = KeyOf(writes[m]) => n = m)'
        <3>1. ~ thread_shutdown => \A d \in npm' : d.seq <= delivered_num
            BY <2>2, <1>1 DEF IInv, DiskFits
        <3>2. DOMAIN writes = 1 .. L /\ DOMAIN writes' = 1 .. L - 1 /\ 1 \in 1 .. L
            BY <1>5, <1>7
        <3>3. /\ \A n \in 1 .. L : writes[n].view = members
                                   /\ \E d \in npm : d.seq = KeyOf(writes[n])
              /\ \A n, m \in 1 .. L : KeyOf(writes[n]) = KeyOf(writes[m]) => n = m
            BY <2>2, <3>2 DEF IInv, DiskFits, Written
        <3>4. \A n : (KeyOf(writes[n]))' = KeyOf(writes'[n])
            BY <1>8 DEF KeyOf, SeqNum
        <3>5. \A n : (Written(writes[n]))' = {d \in npm' : d.seq = KeyOf(writes'[n])}
            BY <3>4 DEF Written
        <3>6. ASSUME NEW n \in 1 .. L - 1
              PROVE  writes'[n].view = members' /\ \E d \in npm' : d.seq = KeyOf(writes'[n])
            <4>1. n + 1 \in 1 .. L /\ n + 1 # 1 /\ writes'[n] = writes[n + 1]  BY <1>7
            <4>2. PICK d \in npm : d.seq = KeyOf(writes[n + 1])  BY <4>1, <3>3
            <4>3. KeyOf(writes[n + 1]) # KeyOf(writes[1])  BY <4>1, <3>2, <3>3
            <4>4. d # e  BY <4>2, <4>3, <1>4, <1>7
            <4>5. writes[n + 1].view = members  BY <4>1, <3>3
            <4> QED  BY <4>1, <4>2, <4>4, <4>5, <1>1, <1>8
        <3>7. ASSUME NEW n \in 1 .. L - 1, NEW m \in 1 .. L - 1,
                     KeyOf(writes'[n]) = KeyOf(writes'[m])
              PROVE  n = m
            <4>1. n + 1 \in 1 .. L /\ m + 1 \in 1 .. L  BY <1>7
            <4>2. n + 1 = m + 1  BY <4>1, <3>3, <3>7, <1>7
            <4> QED  BY <4>2
        <3>8. (\A n \in DOMAIN writes :
                    writes[n].view = members /\ Written(writes[n]) # {})'
            BY <3>2, <3>5, <3>6
        <3>9. (\A n, m \in DOMAIN writes : KeyOf(writes[n]) = KeyOf(writes[m]) => n = m)'
            BY <3>2, <3>4, <3>7
        <3> QED  BY <3>1, <3>8, <3>9
    <2> QED  BY <2>1, <2>2, <1>2, <1>3, <1>15, <1>16 DEF DiskFits
<1>18. BuffersConserved'
    <2>1. Buffers(num_members)' = Buffers(num_members)  BY <1>8 DEF Buffers
    <2> DEFINE u == Cardinality(next_send) + Len(pending_sends) + Cardinality(current_send)
                    + Cardinality(current_receives) + Cardinality(Stable)
    <2>2. TypeOK /\ QueueFits /\ IncomingFits /\ FiledFits /\ DiskFits  BY DEF IInv
    <2>3. u \in Nat  BY <2>2, CountsType
    <2>4. InUse = u + Cardinality(npm)  BY DEF InUse
    <2>5. InUse' = u + Cardinality(npm')
        <3>1. Stable' = Stable  BY <1>2 DEF Stable
        <3> QED  BY <3>1, <1>2, <1>3 DEF InUse
    <2> DEFINE n0 == Cardinality(non_persistent_messages)
               n1 == Cardinality(non_persistent_messages')
    <2>8. n0 \in Nat /\ n1 = n0 - 1 /\ InUse = u + n0 /\ InUse' = u + n1
        BY <2>4, <2>5, <1>16
    <2> HIDE DEF u, n0, n1
    <2>6. free_message_buffers' + InUse' = free_message_buffers + InUse
        BY <2>3, <2>8, <1>2, <1>5
    <2>7. TypeOK' /\ QueueFits' /\ IncomingFits' /\ FiledFits' /\ DiskFits'
        BY <1>9, <1>10, <1>12, <1>17
    <2> QED  BY <2>1, <2>6, <2>7, <1>2, <1>3, BuffersIs DEF IInv, BuffersSum
<1>19. WindowFits' /\ AssertionsHold'
    BY <1>2, <1>3, <1>10, <1>13 DEF IInv, WindowFits, AssertionsHold
<1> QED  BY <1>8, <1>9, <1>10, <1>11, <1>12, <1>14, <1>17, <1>18, <1>19 DEF IInv

LEMMA CallbackAbortsKeeps ==
    ASSUME IInv, CallbackAborts
    PROVE  IInv'
<1>1. /\ UNCHANGED <<viewVars, sendVars, messageVars, rowVars, writes, historyVars>>
      /\ aborted' = "callback" /\ writes # <<>>
      /\ Written(Head(writes)) = {} \/ Head(writes).view # members
    BY DEF CallbackAborts
<1>2. 1 \in DOMAIN writes /\ Head(writes) = writes[1]
    BY <1>1 DEF IInv, TypeOK
<1>3. carried_over  BY <1>1, <1>2 DEF IInv, DiskFits
<1>4. AssertionsHold'  BY <1>1, <1>3 DEF AssertionsHold, historyVars
<1> QED  BY <1>1, <1>4, AbortFrame


-----------------------------------------------------------------------------
(***************************************************************************)
(* The second constructor.                                                 *)
(***************************************************************************)
EndFits == thread_shutdown => Len(views) > 1

NewRank == RankIn(views[2], Me)

\* All messages that the new group takes over, before and after convert_msgs.
TakenOver == Resent \o SetToSeq(next_send) \o Messages(non_persistent_messages)

Converted == convert_msgs(TakenOver, NewRank)

SendCount == Len(Resent) + Cardinality(next_send)

\* Concatenation, element by element.
LEMMA ConcatAt ==
    ASSUME NEW S, NEW s \in Seq(S), NEW t \in Seq(S)
    PROVE  /\ s \o t \in Seq(S) /\ Len(s \o t) = Len(s) + Len(t)
           /\ Len(s) \in Nat /\ Len(t) \in Nat
           /\ \A P : (\A n \in 1 .. Len(s) : s[n] \in P) /\ (\A n \in 1 .. Len(t) : t[n] \in P)
                     => \A n \in 1 .. Len(s) + Len(t) : (s \o t)[n] \in P
           /\ \A n \in 1 .. Len(s) : (s \o t)[n] = s[n]
<1>1. /\ s \o t \in Seq(S) /\ Len(s \o t) = Len(s) + Len(t)
      /\ Len(s) \in Nat /\ Len(t) \in Nat
      /\ \A n \in 1 .. Len(s) + Len(t) : (s \o t)[n] = IF n <= Len(s) THEN s[n] ELSE t[n - Len(s)]
    OBVIOUS
<1>2. ASSUME NEW P, \A n \in 1 .. Len(s) : s[n] \in P, \A n \in 1 .. Len(t) : t[n] \in P,
             NEW n \in 1 .. Len(s) + Len(t)
      PROVE  (s \o t)[n] \in P
    <2>1. CASE n <= Len(s)
        <3>1. n \in 1 .. Len(s)  BY <2>1, <1>1
        <3> QED  BY <3>1, <2>1, <1>1, <1>2
    <2>2. CASE ~ (n <= Len(s))
        <3>1. n - Len(s) \in 1 .. Len(t)  BY <2>2, <1>1
        <3> QED  BY <3>1, <2>2, <1>1, <1>2
    <2> QED  BY <2>1, <2>2
<1>3. \A n \in 1 .. Len(s) : (s \o t)[n] = s[n]
    <2> TAKE n \in 1 .. Len(s)
    <2>1. n \in 1 .. Len(s) + Len(t) /\ n <= Len(s)  BY <1>1
    <2> QED  BY <2>1, <1>1
<1> QED  BY <1>1, <1>2, <1>3

\* This member's messages that the new group sends, and what waits for the disk.
LEMMA TakenOverType ==
    ASSUME IInv
    PROVE  /\ Resent \in Seq(Message) /\ TakenOver \in Seq(Message)
           /\ Len(Resent) \in Nat
           /\ Len(Resent) = Cardinality(OwnStable) + Cardinality(current_send) + Len(pending_sends)
           /\ SendCount \in Nat /\ Len(Resent) <= SendCount
           /\ SendCount = Cardinality(OwnStable) + Len(Queue)
           /\ Len(TakenOver) = SendCount + Cardinality(non_persistent_messages)
           /\ IsMap(non_persistent_messages)
           /\ Cardinality(non_persistent_messages) \in Nat
           /\ Cardinality(next_send) \in {0, 1}
           /\ \A n \in 1 .. SendCount : TakenOver[n].size = 1 /\ TakenOver[n].body >= 0
           /\ \A n \in 1 .. Len(Resent) : TakenOver[n] = Resent[n]
<1> DEFINE Own == {m \in Message : m.size = 1 /\ m.body >= 0}
           o == Messages(OwnStable)
           c == SetToSeq(current_send)
           ps == pending_sends
           x == SetToSeq(next_send)
           d == Messages(non_persistent_messages)
<1>1. /\ TypeOK /\ ViewsFit /\ QueueFits /\ FiledFits /\ DiskFits  BY DEF IInv
<1>2. /\ c \in Seq(Message) /\ x \in Seq(Message) /\ ps \in Seq(Message)
      /\ Cardinality(current_send) \in {0, 1} /\ Cardinality(next_send) \in {0, 1}
      /\ Len(ps) \in Nat
      /\ Len(Queue) = Cardinality(current_send) + Len(ps) + Cardinality(next_send)
    BY <1>1, QueueType
<1>3. /\ Len(c) = Cardinality(current_send) /\ Range(c) = current_send
      /\ Len(x) = Cardinality(next_send) /\ Range(x) = next_send
    BY <1>1, OptionalSeq DEF TypeOK, QueueFits
<1>4. /\ o \in Seq(Message) /\ Len(o) = Cardinality(OwnStable) /\ Cardinality(OwnStable) \in Nat
      /\ \A n \in 1 .. Len(o) : Sorted(OwnStable)[n] \in OwnStable /\ o[n] = Sorted(OwnStable)[n].msg
      /\ \A e \in OwnStable : e.msg \in Message
    BY <1>1, OwnStableType
<1>5. IsMap(non_persistent_messages) /\ \A e \in non_persistent_messages : e.msg \in Message
    <2>1. \A e \in non_persistent_messages : e.seq \in Int /\ e.msg \in Message
        BY <1>1 DEF TypeOK, Entry
    <2> QED  BY <2>1, <1>1 DEF DiskFits, IsMap
<1>6. /\ d \in Seq(Message) /\ Len(d) = Cardinality(non_persistent_messages)
      /\ Cardinality(non_persistent_messages) \in Nat
    <2> DEFINE N == non_persistent_messages
    <2>1. IsMap(N) /\ \A e \in N : e.msg \in Message  BY <1>5
    <2> HIDE DEF N
    <2>2. Messages(N) \in Seq(Message) /\ Len(Messages(N)) = Cardinality(N) /\ Cardinality(N) \in Nat
        BY <2>1, MessagesType
    <2> QED  BY <2>2 DEF N
<1>7. \A n \in 1 .. Len(o) : o[n] \in Own
    <2> TAKE n \in 1 .. Len(o)
    <2>1. PICK e \in OwnStable : o[n] = e.msg  BY <1>4
    <2>2. e.msg \in Message /\ e.msg.size > 0 /\ e.msg.body >= 0
        BY <2>1, <1>1, <1>4 DEF OwnStable, FiledFits
    <2>3. e.msg.size \in {0, 1}  BY <2>2, MessageType
    <2> HIDE DEF o
    <2> QED  BY <2>1, <2>2, <2>3
<1>8. \A m \in current_send \cup Range(ps) \cup next_send : m \in Own
    <2> TAKE m \in current_send \cup Range(ps) \cup next_send
    <2>1. IsOwn(m)  BY <1>1 DEF QueueFits
    <2>2. m \in Message
        <3>1. \A n \in DOMAIN ps : ps[n] \in Message  BY <1>2
        <3> QED  BY <3>1, <1>1 DEF TypeOK, Range
    <2> QED  BY <2>1, <2>2 DEF IsOwn
<1>9. /\ \A n \in 1 .. Len(c) : c[n] \in Own
      /\ \A n \in 1 .. Len(ps) : ps[n] \in Own
      /\ \A n \in 1 .. Len(x) : x[n] \in Own
    <2>1. DOMAIN c = 1 .. Len(c) /\ DOMAIN ps = 1 .. Len(ps) /\ DOMAIN x = 1 .. Len(x)
        <3> HIDE DEF c, ps, x
        <3> QED  BY <1>2
    <2>2. /\ \A n \in DOMAIN c : c[n] \in Range(c)
          /\ \A n \in DOMAIN ps : ps[n] \in Range(ps)
          /\ \A n \in DOMAIN x : x[n] \in Range(x)
        BY DEF Range
    <2> HIDE DEF c, ps, x, Own
    <2> QED  BY <2>1, <2>2, <1>3, <1>8 DEF ps
<1>10. Resent = (o \o c) \o ps /\ TakenOver = (Resent \o x) \o d
    BY DEF Resent, TakenOver
<1> HIDE DEF o, c, ps, x, d, Own
<1> DEFINE oc == o \o c
           r == Resent
           rx == r \o x
<1>11. oc \in Seq(Message) /\ Len(oc) = Len(o) + Len(c) /\ \A n \in 1 .. Len(oc) : oc[n] \in Own
    BY <1>2, <1>4, <1>7, <1>9, ConcatAt
<1> HIDE DEF oc
<1>12. r \in Seq(Message) /\ Len(r) = Len(oc) + Len(ps) /\ \A n \in 1 .. Len(r) : r[n] \in Own
    <2>1. r = oc \o ps  BY <1>10 DEF oc
    <2> QED  BY <2>1, <1>2, <1>9, <1>11, ConcatAt
<1> HIDE DEF r
<1>13. /\ rx \in Seq(Message) /\ Len(rx) = Len(r) + Len(x)
       /\ \A n \in 1 .. Len(rx) : rx[n] \in Own
       /\ \A n \in 1 .. Len(r) : rx[n] = r[n]
    <2>1. r \in Seq(Message) /\ x \in Seq(Message)  BY <1>2, <1>12
    <2>2. /\ rx \in Seq(Message) /\ Len(rx) = Len(r) + Len(x)
          /\ Len(r) \in Nat /\ Len(x) \in Nat
          /\ (\A n \in 1 .. Len(r) : r[n] \in Own) /\ (\A n \in 1 .. Len(x) : x[n] \in Own)
                 => \A n \in 1 .. Len(r) + Len(x) : rx[n] \in Own
          /\ \A n \in 1 .. Len(r) : rx[n] = r[n]
        BY <2>1, ConcatAt
    <2> HIDE DEF rx
    <2> QED  BY <2>2, <1>9, <1>12
<1> HIDE DEF rx
<1> DEFINE t == TakenOver
<1>14. /\ t \in Seq(Message) /\ Len(t) = Len(rx) + Len(d)
       /\ \A n \in 1 .. Len(rx) : t[n] = rx[n]
    <2>1. t = rx \o d  BY <1>10 DEF rx, r
    <2> HIDE DEF t
    <2> QED  BY <2>1, <1>6, <1>13, ConcatAt
<1>15. Len(rx) = SendCount /\ SendCount \in Nat /\ Len(r) \in Nat /\ Len(r) <= SendCount
       /\ Len(r) = Cardinality(OwnStable) + Cardinality(current_send) + Len(ps)
       /\ SendCount = Cardinality(OwnStable) + Len(Queue)
    <2>1. Len(r) = Cardinality(OwnStable) + Cardinality(current_send) + Len(ps)
        BY <1>3, <1>4, <1>11, <1>12
    <2>2. Len(rx) = Len(r) + Cardinality(next_send)  BY <1>3, <1>13
    <2>3. SendCount = Len(r) + Cardinality(next_send)  BY DEF SendCount, r
    <2> DEFINE a == Cardinality(OwnStable)
               b == Cardinality(current_send)
               e == Cardinality(next_send)
               l == Len(ps)
    <2>4. a \in Nat /\ b \in Nat /\ e \in Nat /\ l \in Nat /\ Len(Queue) = b + l + e
        BY <1>2, <1>4
    <2> HIDE DEF a, b, e, l
    <2> QED  BY <2>1, <2>2, <2>3, <2>4 DEF a, b, e, l
<1>16. \A n \in 1 .. SendCount : t[n].size = 1 /\ t[n].body >= 0
    <2> TAKE n \in 1 .. SendCount
    <2>1. t[n] \in Own  BY <1>13, <1>14, <1>15
    <2> QED  BY <2>1 DEF Own
<1>17. \A n \in 1 .. Len(r) : t[n] = r[n]
    <2> TAKE n \in 1 .. Len(r)
    <2>1. n \in 1 .. Len(rx)  BY <1>15
    <2> QED  BY <2>1, <1>13, <1>14
<1> QED  BY <1>2, <1>5, <1>6, <1>12, <1>14, <1>15, <1>16, <1>17 DEF r, ps

LEMMA ConvertedType ==
    ASSUME IInv, Len(views) > 1
    PROVE  /\ views[2] \in Seq(Id) /\ NewRank \in 0 .. Len(views[2]) - 1
           /\ Len(views[2]) \in Nat
           /\ Converted \in Seq(Message) /\ Len(Converted) = Len(TakenOver)
           /\ \A n \in 1 .. Len(TakenOver) :
                  /\ Converted[n].sender_rank = NewRank
                  /\ Converted[n].index = Turns(TakenOver, n - 1)
                  /\ Converted[n].size = TakenOver[n].size
                  /\ Converted[n].pause = TakenOver[n].pause
                  /\ Converted[n].body = TakenOver[n].body
<1> DEFINE t == TakenOver
           r == NewRank
<1>1. views \in Seq(Seq(Id))  BY DEF IInv, TypeOK
<1>2. 2 \in DOMAIN views /\ views[2] \in Seq(Id)  BY <1>1
<1>3. Me \in Range(views[2])  BY <1>2 DEF IInv, ViewsFit
<1>4. r \in 0 .. Len(views[2]) - 1 /\ Len(views[2]) \in Nat
    <2> HIDE DEF r
    <2> QED  BY <1>2, <1>3, RankInType DEF r, NewRank
<1>5. r \in Nat  BY <1>4
<1>6. t \in Seq(Message)  BY TakenOverType
<1>7. Converted = [n \in DOMAIN t |-> [t[n] EXCEPT !.sender_rank = r, !.index = Turns(t, n - 1)]]
    BY DEF Converted, convert_msgs
<1> HIDE DEF t, r
<1>8. DOMAIN t = 1 .. Len(t) /\ Len(t) \in Nat  BY <1>6
<1>9. ASSUME NEW n \in 1 .. Len(t)
      PROVE  /\ Converted[n] \in Message
             /\ Converted[n].sender_rank = r
             /\ Converted[n].index = Turns(t, n - 1)
             /\ Converted[n].size = t[n].size
             /\ Converted[n].pause = t[n].pause
             /\ Converted[n].body = t[n].body
    <2>1. n - 1 \in 0 .. Len(t)  BY <1>8
    <2>2. Turns(t, n - 1) \in Nat  BY <2>1, <1>6, TurnsType
    <2> DEFINE k == Turns(t, n - 1)
               m == t[n]
    <2>3. m \in Message  BY <1>6
    <2>4. Converted[n] = [m EXCEPT !.sender_rank = r, !.index = k]  BY <1>7, <1>8
    <2>5. k \in Nat  BY <2>2
    <2> HIDE DEF k, m
    <2>6. /\ Converted[n] \in Message
          /\ Converted[n].sender_rank = r /\ Converted[n].index = k
          /\ Converted[n].size = m.size /\ Converted[n].pause = m.pause
          /\ Converted[n].body = m.body
        BY <2>3, <2>4, <2>5, <1>5 DEF Message
    <2> QED  BY <2>6 DEF k, m
<1>10. Converted \in Seq(Message) /\ Len(Converted) = Len(t)
    <2>1. DOMAIN Converted = 1 .. Len(t)  BY <1>7, <1>8
    <2>2. Converted = [n \in 1 .. Len(t) |-> Converted[n]]  BY <1>7, <1>8
    <2>3. \A n \in 1 .. Len(t) : Converted[n] \in Message  BY <1>9
    <2> DEFINE C == Converted
    <2>4. C \in [1 .. Len(t) -> Message]  BY <2>2, <2>3
    <2> HIDE DEF C
    <2>5. C \in Seq(Message) /\ Len(C) = Len(t)  BY <2>4, <1>8
    <2> QED  BY <2>5 DEF C
<1> QED  BY <1>2, <1>4, <1>9, <1>10 DEF t, r

LEMMA GreaterOf ==
    ASSUME NEW a \in Nat, NEW b \in Nat
    PROVE  Max({a, b}) \in Nat /\ a <= Max({a, b}) /\ b <= Max({a, b})
<1> DEFINE T == {a, b}
<1>1. T \subseteq Int /\ T # {} /\ a + b \in Int /\ \A k \in T : k <= a + b
    OBVIOUS
<1>2. a \in T /\ b \in T /\ \A k \in T : k \in Nat  OBVIOUS
<1> HIDE DEF T
<1>3. Max(T) \in T /\ \A k \in T : k <= Max(T)  BY <1>1, Greatest
<1>4. Max(T) \in Nat /\ a <= Max(T) /\ b <= Max(T)  BY <1>2, <1>3
<1> QED  BY <1>4 DEF T

\* The queue of the new group: one numbering for all that it takes over.
LEMMA NewQueue ==
    ASSUME IInv, EndFits, NextView
    PROVE  /\ pending_sends' \in Seq(Message) /\ Len(pending_sends') = Len(Resent)
           /\ \A k \in 1 .. Len(Resent) : pending_sends'[k] = Converted[k]
           /\ next_send' \subseteq Message /\ AtMostOne(next_send')
           /\ Cardinality(next_send') = Cardinality(next_send)
           /\ \A m \in Range(pending_sends') \cup next_send' :
                  \E k \in 1 .. SendCount : m = Converted[k]
           /\ Queue' \in Seq(Message) /\ Len(Queue') = SendCount
           /\ \A k \in 1 .. SendCount : Queue'[k] = Converted[k]
<1> DEFINE a == Converted
           l == Len(Resent)
           ps == pending_sends'
           x == SetToSeq(next_send')
<1>1. Len(views) > 1  BY DEF EndFits, NextView
<1>2. /\ l \in Nat /\ SendCount \in Nat /\ l <= SendCount /\ SendCount = l + Cardinality(next_send)
      /\ Cardinality(next_send) \in {0, 1}
      /\ Len(TakenOver) = SendCount + Cardinality(non_persistent_messages)
      /\ Cardinality(non_persistent_messages) \in Nat
    BY TakenOverType DEF SendCount
<1>3. a \in Seq(Message) /\ Len(a) = Len(TakenOver)  BY <1>1, ConvertedType
<1>4. /\ ps = SubSeq(a, 1, l)
      /\ next_send' = {a[m] : m \in l + 1 .. SendCount}
      /\ current_send' = {}
    BY DEF NextView, Converted, TakenOver, NewRank, SendCount
<1> HIDE DEF a, l, ps, x
<1>5. l <= Len(a) /\ SendCount <= Len(a) /\ Len(a) \in Nat  BY <1>2, <1>3
<1>6. ps \in Seq(Message) /\ Len(ps) = l /\ \A k \in 1 .. l : ps[k] = a[k]
    BY <1>2, <1>3, <1>4, <1>5
<1>7. \A k \in 1 .. SendCount : a[k] \in Message  BY <1>2, <1>3, <1>5
<1>8. Range(ps) = {a[k] : k \in 1 .. l}  BY <1>6 DEF Range
<1>9. \A m \in Range(ps) \cup next_send' : \E k \in 1 .. SendCount : m = a[k]
    <2>1. \A k \in 1 .. l : k \in 1 .. SendCount  BY <1>2
    <2>2. \A k \in l + 1 .. SendCount : k \in 1 .. SendCount  BY <1>2
    <2> QED  BY <2>1, <2>2, <1>4, <1>8
<1>10. Queue' = ps \o x
    <2>1. SetToSeq(current_send') = <<>>  BY <1>4, EmptyToSeq
    <2>2. Queue' = (<<>> \o ps) \o x  BY <2>1 DEF Queue, ps, x
    <2> QED  BY <2>2, <1>6
<1>11. CASE Cardinality(next_send) = 0
    <2>1. SendCount = l /\ l + 1 .. SendCount = {}  BY <1>2, <1>11
    <2>2. next_send' = {}  BY <2>1, <1>4
    <2>3. x = <<>> /\ Cardinality(next_send') = 0  BY <2>2, EmptyToSeq, FS_EmptySet DEF x
    <2>4. Queue' = ps  BY <2>3, <1>6, <1>10
    <2>5. AtMostOne(next_send') /\ next_send' \subseteq Message  BY <2>2 DEF AtMostOne
    <2> QED  BY <2>1, <2>3, <2>4, <2>5, <1>6, <1>9, <1>11 DEF a, l, ps
<1>12. CASE Cardinality(next_send) = 1
    <2>1. SendCount = l + 1 /\ l + 1 .. SendCount = {SendCount} /\ SendCount \in 1 .. SendCount  BY <1>2, <1>12
    <2>2. next_send' = {a[SendCount]}  BY <2>1, <1>4
    <2>3. x = <<a[SendCount]>> /\ Cardinality(next_send') = 1
        BY <2>2, OneToSeq, FS_Singleton DEF x
    <2>4. a[SendCount] \in Message  BY <2>1, <1>7
    <2>5. Queue' = ps \o <<a[SendCount]>>  BY <2>3, <1>10
    <2>6. Queue' \in Seq(Message) /\ Len(Queue') = SendCount
          /\ \A k \in 1 .. SendCount : Queue'[k] = a[k]
        <3> DEFINE u == ps \o <<a[SendCount]>>
        <3>1. u \in Seq(Message) /\ Len(u) = l + 1
              /\ (\A k \in 1 .. l : u[k] = ps[k]) /\ u[l + 1] = a[SendCount]
            BY <2>4, <1>2, <1>6
        <3> HIDE DEF u
        <3>2. \A k \in 1 .. SendCount : u[k] = a[k]
            <4> TAKE k \in 1 .. SendCount
            <4>1. CASE k = SendCount  BY <4>1, <3>1, <2>1
            <4>2. CASE k # SendCount
                <5>1. k \in 1 .. l  BY <4>2, <2>1, <1>2
                <5> QED  BY <5>1, <3>1, <1>6
            <4> QED  BY <4>1, <4>2
        <3> QED  BY <3>1, <3>2, <2>1, <2>5 DEF u
    <2>7. AtMostOne(next_send') /\ next_send' \subseteq Message
        BY <2>2, <2>4 DEF AtMostOne
    <2> QED  BY <2>3, <2>6, <2>7, <1>6, <1>9, <1>12 DEF a, l, ps
<1> QED  BY <1>2, <1>11, <1>12

\* It has the numbers under which the receivers count it, and the payloads.
LEMMA NewNumbers ==
    ASSUME IInv, EndFits, NextView
    PROVE  /\ Chain(0, non_persistent_messages # {}, Queue', future_message_index')
           /\ future_message_index' \in Nat
           /\ Bodies(pending_sends') = Bodies(Resent)
<1> DEFINE a == Converted
           t == TakenOver
           q == Queue'
           l == Len(Resent)
           next == future_message_index'
           gap == non_persistent_messages # {}
<1>1. Len(views) > 1  BY DEF EndFits, NextView
<1>2. /\ l \in Nat /\ SendCount \in Nat /\ l <= SendCount
      /\ t \in Seq(Message) /\ Resent \in Seq(Message)
      /\ Len(t) = SendCount + Cardinality(non_persistent_messages)
      /\ Cardinality(non_persistent_messages) \in Nat
      /\ \A n \in 1 .. l : t[n] = Resent[n]
    BY TakenOverType
<1>3. /\ a \in Seq(Message) /\ Len(a) = Len(t)
      /\ \A n \in 1 .. Len(t) :
             a[n].index = Turns(t, n - 1) /\ a[n].pause = t[n].pause /\ a[n].body = t[n].body
    BY <1>1, ConvertedType
<1>4. /\ q \in Seq(Message) /\ Len(q) = SendCount /\ \A k \in 1 .. SendCount : q[k] = a[k]
      /\ pending_sends' \in Seq(Message) /\ Len(pending_sends') = l
      /\ \A k \in 1 .. l : pending_sends'[k] = a[k]
    BY NewQueue
<1>5. next = Turns(a, Len(a))  BY DEF NextView, Converted, TakenOver, NewRank
<1> HIDE DEF a, t, q, l, next
<1>6. Len(a) \in Nat /\ SendCount <= Len(a)  BY <1>2, <1>3
<1>7. next \in Nat
    <2>1. Len(a) \in 0 .. Len(a)  BY <1>6
    <2> QED  BY <2>1, <1>3, <1>5, TurnsType
<1>8. ASSUME NEW n \in 1 .. Len(q)
      PROVE  q[n].index = Turns(q, n - 1)
    <2>1. n \in 1 .. SendCount /\ n \in 1 .. Len(t) /\ n - 1 \in Nat  BY <1>2, <1>4
    <2>2. q[n].index = Turns(t, n - 1)  BY <2>1, <1>3, <1>4
    <2>3. \A k \in 1 .. n - 1 : q[k].pause = t[k].pause
        <3> TAKE k \in 1 .. n - 1
        <3>1. k \in 1 .. SendCount /\ k \in 1 .. Len(t)  BY <2>1, <1>2
        <3> QED  BY <3>1, <1>3, <1>4
    <2>4. Turns(q, n - 1) = Turns(t, n - 1)  BY <2>1, <2>3, TurnsSame
    <2> QED  BY <2>2, <2>4
<1>9. Follows(gap, Turns(q, Len(q)), next)
    <2>1. Turns(q, SendCount) = Turns(a, SendCount)
        <3>1. \A k \in 1 .. SendCount : q[k].pause = a[k].pause  BY <1>4
        <3> QED  BY <3>1, <1>2, TurnsSame
    <2>2. SendCount \in 0 .. Len(a)  BY <1>2, <1>6
    <2>3. Turns(a, SendCount) <= Turns(a, Len(a))  BY <2>2, <1>3, TurnsGrow
    <2>4. ~ gap => SendCount = Len(a)
        <3>1. ~ gap => Cardinality(non_persistent_messages) = 0  BY FS_EmptySet
        <3> HIDE DEF gap
        <3> QED  BY <3>1, <1>2, <1>3
    <2> QED  BY <2>1, <2>3, <2>4, <1>4, <1>5 DEF Follows
<1>10. Chain(0, gap, q, next)
    <2>1. next \in Int  BY <1>7
    <2> HIDE DEF gap
    <2> QED  BY <2>1, <1>4, <1>8, <1>9, ChainOfTurns
<1>11. Bodies(pending_sends') = Bodies(Resent)
    <2> DEFINE ps == pending_sends'
    <2>1. ps \in Seq(Message) /\ Len(ps) = l  BY <1>4
    <2>2. \A n \in 1 .. l : ps[n].body = Resent[n].body
        <3> TAKE n \in 1 .. l
        <3>1. n \in 1 .. Len(t)  BY <1>2
        <3> QED  BY <3>1, <1>2, <1>3, <1>4
    <2> HIDE DEF ps
    <2>3. Bodies(ps) = Bodies(Resent)  BY <2>1, <2>2, <1>2, BodiesSame DEF l
    <2> QED  BY <2>3 DEF ps
<1> QED  BY <1>7, <1>10, <1>11 DEF q, next

LEMMA ChainWeaker ==
    ASSUME NEW base, NEW gap, NEW more, gap => more, NEW q, NEW next,
           Chain(base, gap, q, next)
    PROVE  Chain(base, more, q, next)
BY DEF Chain, Follows

LEMMA NextViewKeeps ==
    ASSUME IInv, EndFits, NextView
    PROVE  IInv'
<1> DEFINE v2 == views[2]
           n == Len(v2)
           npm == non_persistent_messages
           kept == Sorted(npm)
           grown == total_message_buffers'
<1>1. Len(views) > 1 /\ thread_shutdown /\ aborted = "no"  BY DEF EndFits, NextView
<1>2. /\ views' = Tail(views)
      /\ total_message_buffers' = Max({total_message_buffers, Buffers(n)})
      /\ free_message_buffers' = free_message_buffers + (grown - total_message_buffers) + Reclaimed
      /\ nReceived' = [r \in 0 .. n - 1 |-> -1] /\ rdmc_groups' \in 0 .. n
      /\ delivered_num' = -1 /\ persisted_num' = -1
      /\ current_send' = {} /\ current_receives' = {} /\ locally_stable_messages' = {}
      /\ thread_shutdown' = FALSE
      /\ carried_over' = (carried_over \/ npm # {})
      /\ UNCHANGED <<file_writer, writes, aborted, sent, delivered>>
    BY DEF NextView
<1>3. npm' = {File(kept[m].seq, Converted[SendCount + m]) : m \in DOMAIN kept}
    BY DEF NextView, Converted, TakenOver, NewRank, SendCount
<1>4. /\ v2 \in Seq(Id) /\ NewRank \in 0 .. n - 1 /\ n \in Nat
      /\ Converted \in Seq(Message) /\ Len(Converted) = Len(TakenOver)
      /\ \A k \in 1 .. Len(TakenOver) :
             /\ Converted[k].sender_rank = NewRank
             /\ Converted[k].size = TakenOver[k].size
             /\ Converted[k].body = TakenOver[k].body
    BY <1>1, ConvertedType
<1>5. /\ SendCount \in Nat /\ SendCount = Cardinality(OwnStable) + Len(Queue)
      /\ Len(TakenOver) = SendCount + Cardinality(npm) /\ Cardinality(npm) \in Nat
      /\ IsMap(npm)
      /\ Len(Resent) = Cardinality(OwnStable) + Cardinality(current_send) + Len(pending_sends)
      /\ SendCount = Len(Resent) + Cardinality(next_send)
      /\ \A k \in 1 .. SendCount : TakenOver[k].size = 1 /\ TakenOver[k].body >= 0
    BY TakenOverType DEF SendCount
<1>6. /\ pending_sends' \in Seq(Message) /\ Len(pending_sends') = Len(Resent)
      /\ next_send' \subseteq Message /\ AtMostOne(next_send')
      /\ Cardinality(next_send') = Cardinality(next_send)
      /\ \A m \in Range(pending_sends') \cup next_send' : \E k \in 1 .. SendCount : m = Converted[k]
      /\ Queue' \in Seq(Message) /\ Len(Queue') = SendCount
    BY NewQueue
<1>7. /\ Chain(0, npm # {}, Queue', future_message_index')
      /\ future_message_index' \in Nat
      /\ Bodies(pending_sends') = Bodies(Resent)
    BY NewNumbers
<1>8. TypeOK /\ ViewsFit /\ QueueFits /\ IncomingFits /\ FiledFits /\ DiskFits
    BY DEF IInv
<1>9. /\ members' = v2 /\ num_members' = n /\ Rank' = 0 .. n - 1 /\ member_index' = NewRank
      /\ views' \in Seq(Seq(Id)) /\ views' # <<>>
    <2>1. views \in Seq(Seq(Id))  BY <1>8 DEF TypeOK
    <2>2. Tail(views) \in Seq(Seq(Id)) /\ Len(Tail(views)) = Len(views) - 1
          /\ Tail(views) # <<>> /\ Head(Tail(views)) = views[2]
        <3>1. Len(views) \in Nat /\ Len(views) > 1  BY <2>1, <1>1
        <3>2. Tail(views) \in Seq(Seq(Id)) /\ Len(Tail(views)) = Len(views) - 1
              /\ Tail(views)[1] = views[2]
            BY <2>1, <3>1
        <3> DEFINE t == Tail(views)
        <3>3. t \in Seq(Seq(Id)) /\ Len(t) > 0 /\ t[1] = views[2]  BY <3>1, <3>2
        <3> HIDE DEF t
        <3>4. t # <<>> /\ Head(t) = t[1]  BY <3>3
        <3> QED  BY <3>2, <3>3, <3>4 DEF t
    <2>3. members' = v2  BY <2>2, <1>2 DEF members
    <2>4. num_members' = n  BY <2>3 DEF num_members
    <2>5. Rank' = 0 .. n - 1 /\ member_index' = NewRank
        BY <2>3, <2>4 DEF Rank, member_index, RankIn, NewRank
    <2> QED  BY <2>2, <2>3, <2>4, <2>5, <1>2
<1>10. ViewsFit'
    <2>1. views \in Seq(Seq(Id))  BY <1>8 DEF TypeOK
    <2> SUFFICES ASSUME NEW v \in DOMAIN views'
                 PROVE  Me \in Range(views'[v]) /\ IsInjective(views'[v])
        BY DEF ViewsFit
    <2>2. v + 1 \in DOMAIN views /\ views'[v] = views[v + 1]  BY <2>1, <1>1, <1>2
    <2> QED  BY <2>2, <1>8 DEF ViewsFit
<1>11. WindowSize \in Nat /\ Buffers(n) \in Nat /\ grown \in Nat
       /\ total_message_buffers <= grown /\ Buffers(n) <= grown
    <2>1. WindowSize \in Nat  BY TransitionAssumption
    <2>2. Buffers(n) \in Nat /\ total_message_buffers \in Nat
        BY <2>1, <1>4, <1>8 DEF Buffers, TypeOK
    <2> QED  BY <2>1, <2>2, <1>2, GreaterOf
<1>12. /\ IsFiniteSet(OthersStable) /\ Cardinality(OthersStable) \in Nat
       /\ Cardinality(current_receives) \in Nat /\ Reclaimed \in Nat
       /\ Cardinality(Stable) = Cardinality(OwnStable) + Cardinality(OthersStable)
       /\ Cardinality(OwnStable) \in Nat
    <2>1. IsFiniteSet(Stable) /\ Cardinality(current_receives) \in Nat  BY <1>8, CountsType
    <2>2. OthersStable \subseteq Stable /\ OwnStable \subseteq Stable
          /\ Stable = OwnStable \cup OthersStable /\ OwnStable \cap OthersStable = {}
        BY DEF Stable, OwnStable, OthersStable
    <2>3. IsFiniteSet(OthersStable) /\ IsFiniteSet(OwnStable)  BY <2>1, <2>2, FS_Subset
    <2>4. Cardinality(OthersStable) \in Nat /\ Cardinality(OwnStable) \in Nat
        BY <2>3, FS_CardinalityType
    <2>5. Cardinality(Stable)
          = Cardinality(OwnStable) + Cardinality(OthersStable)
            - Cardinality(OwnStable \cap OthersStable)
        BY <2>2, <2>3, FS_Union
    <2>6. Cardinality(OwnStable \cap OthersStable) = 0  BY <2>2, FS_EmptySet
    <2> QED  BY <2>1, <2>3, <2>4, <2>5, <2>6 DEF Reclaimed
<1>13. free_message_buffers' \in Nat
    <2>1. free_message_buffers \in Nat /\ total_message_buffers \in Nat  BY <1>8 DEF TypeOK
    <2> HIDE DEF n
    <2> QED  BY <2>1, <1>2, <1>11, <1>12, SMTT(40)
<1>14. /\ DOMAIN kept = 1 .. Cardinality(npm)
       /\ \A m \in 1 .. Cardinality(npm) : kept[m] \in npm
       /\ \A k, m \in 1 .. Cardinality(npm) : kept[k].seq = kept[m].seq => k = m
    <2> DEFINE N == npm
    <2>1. IsMap(N)  BY <1>5
    <2> HIDE DEF N
    <2>2. /\ Sorted(N) \in Seq(N) /\ Len(Sorted(N)) = Cardinality(N)
          /\ \A m \in 1 .. Cardinality(N) : Sorted(N)[m] \in N
        BY <2>1, SortedType
    <2>3. DOMAIN Sorted(N) = 1 .. Cardinality(N)  BY <2>2
    <2>4. \A k, m \in 1 .. Cardinality(N) : Sorted(N)[k].seq = Sorted(N)[m].seq => k = m
        <3> TAKE k, m \in 1 .. Cardinality(N)
        <3> HAVE Sorted(N)[k].seq = Sorted(N)[m].seq
        <3>1. Sorted(N)[k] = Sorted(N)[m]  BY <2>1, <2>2 DEF IsMap
        <3> QED  BY <3>1, <2>1, SortedInjective
    <2> QED  BY <2>2, <2>3, <2>4 DEF N
<1> HIDE DEF kept
<1>15. npm' \subseteq Entry
    <2>1. ASSUME NEW m \in DOMAIN kept
          PROVE  File(kept[m].seq, Converted[SendCount + m]) \in Entry
        <3>1. m \in 1 .. Cardinality(npm) /\ kept[m] \in npm  BY <1>14
        <3>2. kept[m].seq \in Nat  BY <3>1, <1>8 DEF TypeOK, Entry
        <3>3. SendCount + m \in 1 .. Len(Converted)  BY <3>1, <1>4, <1>5
        <3>4. Converted[SendCount + m] \in Message  BY <3>3, <1>4
        <3> QED  BY <3>2, <3>4 DEF File, Entry
    <2> QED  BY <2>1, <1>3
<1>16. TypeOK'
    <2>1. nReceived' \in [Rank -> Nat \cup {-1}]'
        <3>1. nReceived' \in [0 .. n - 1 -> Nat \cup {-1}]  BY <1>2
        <3> QED  BY <3>1, <1>9
    <2>2. carried_over' \in BOOLEAN /\ thread_shutdown' \in BOOLEAN
          /\ delivered_num' \in Nat \cup {-1} /\ persisted_num' \in Nat \cup {-1}
        BY <1>2, <1>8 DEF TypeOK
    <2>3. /\ current_send' \subseteq Message /\ current_receives' \subseteq Message
          /\ locally_stable_messages' \subseteq Entry
        BY <1>2
    <2>4. /\ file_writer' \in BOOLEAN /\ writes' \in Seq(Write)
          /\ aborted' \in {"no", "callback", "buffer"}
          /\ sent' \in Seq(Nat) /\ delivered' \in Seq(Nat)
        BY <1>2, <1>8 DEF TypeOK
    <2>5. rdmc_groups' \in (0 .. num_members)'  BY <1>2, <1>9
    <2> QED  BY <2>1, <2>2, <2>3, <2>4, <2>5, <1>6, <1>7, <1>9, <1>11, <1>13, <1>15 DEF TypeOK
<1>17. QueueFits'
    <2>1. AtMostOne(current_send)' /\ AtMostOne(next_send)'
        BY <1>2, <1>6 DEF AtMostOne
    <2>2. ASSUME NEW m \in (current_send \cup Range(pending_sends) \cup next_send)'
          PROVE  IsOwn(m)'
        <3>1. m \in Range(pending_sends') \cup next_send'  BY <1>2
        <3>2. PICK k \in 1 .. SendCount : m = Converted[k]  BY <3>1, <1>6
        <3>3. k \in 1 .. Len(TakenOver)  BY <3>2, <1>5
        <3>4. m.sender_rank = NewRank /\ m.size = 1 /\ m.body >= 0
            BY <3>2, <3>3, <1>4, <1>5
        <3> QED  BY <3>4, <1>9 DEF IsOwn
    <2> QED  BY <2>1, <2>2 DEF QueueFits
<1>18. ChainFits'
    <2>1. Base' = 0
        <3>1. nReceived'[member_index'] = -1  BY <1>2, <1>4, <1>9
        <3> QED  BY <3>1 DEF Base
    <2>2. Chain(0, carried_over', Queue', future_message_index')
        <3> DEFINE gap == npm # {}
                   q == Queue'
                   next == future_message_index'
        <3>1. gap => carried_over'  BY <1>2
        <3>2. Chain(0, gap, q, next)  BY <1>7
        <3> HIDE DEF gap, q, next
        <3>3. Chain(0, carried_over', q, next)  BY <3>1, <3>2, ChainWeaker
        <3> QED  BY <3>3 DEF q, next
    <2> QED  BY <2>1, <2>2, <1>2 DEF ChainFits
<1>19. IncomingFits'
    <2>1. IsFiniteSet({})  BY FS_EmptySet
    <2> QED  BY <2>1, <1>2 DEF IncomingFits
<1>20. FiledFits'
    <2>1. IsFiniteSet({})  BY FS_EmptySet
    <2>2. ASSUME NEW r \in 0 .. n - 1
          PROVE  -1 < (SeqNum(r, nReceived[r] + 1))'
        <3>1. nReceived'[r] = -1  BY <1>2
        <3>2. (SeqNum(r, nReceived[r] + 1))' = (-1 + 1) * n + r  BY <3>1, <1>9 DEF SeqNum
        <3> HIDE DEF n
        <3>3. (-1 + 1) * n = 0  BY <1>4
        <3> QED  BY <3>2, <3>3, <1>4
    <2> QED  BY <2>1, <2>2, <1>2, <1>9 DEF FiledFits
<1>21. OwnStable' = {} /\ Stable' = {}  BY <1>2 DEF OwnStable, Stable
<1>22. NothingLostOrRepeated'
    <2>1. Messages(OwnStable') = <<>> /\ SetToSeq(current_send') = <<>>
        BY <1>2, <1>21, MessagesEmpty, EmptyToSeq
    <2>2. (<<>> \o <<>>) \o pending_sends' = pending_sends'  BY <1>6
    <2>3. sent = delivered \o Bodies(Resent)  BY DEF IInv, NothingLostOrRepeated, Resent
    <2>4. NothingLostOrRepeated'
          <=> sent' = delivered' \o Bodies((<<>> \o <<>>) \o pending_sends')
        BY <2>1 DEF NothingLostOrRepeated, Bodies
    <2> QED  BY <2>2, <2>3, <2>4, <1>2, <1>7
<1>23. ~ carried_over' => npm = {} /\ npm' = {} /\ writes' = <<>> /\ ~ carried_over
    <2> SUFFICES ASSUME ~ carried_over'
                 PROVE  npm = {} /\ npm' = {} /\ writes' = <<>> /\ ~ carried_over
        OBVIOUS
    <2>1. npm = {} /\ ~ carried_over  BY <1>2, <1>8 DEF TypeOK
    <2>2. Cardinality(npm) = 0  BY <2>1, FS_EmptySet
    <2>3. DOMAIN kept = {}  BY <2>2, <1>14
    <2>4. npm' = {}  BY <2>3, <1>3
    <2>5. writes = <<>>
        <3>1. \A w : Written(w) = {}  BY <2>1 DEF Written
        <3>2. DOMAIN writes = {}  BY <3>1, <2>1, <1>8 DEF DiskFits
        <3> QED  BY <3>2, <1>8 DEF TypeOK
    <2> QED  BY <2>1, <2>4, <2>5, <1>2
<1>24. DiskFits'
    <2>1. IsFiniteSet(npm')
        <3>1. IsFiniteSet(DOMAIN kept)  BY <1>5, <1>14, FS_Interval
        <3>2. IsFiniteSet({File(kept[m].seq, Converted[SendCount + m]) : m \in DOMAIN kept})
            <4> DEFINE D == DOMAIN kept
                       f == [m \in D |-> File(kept[m].seq, Converted[SendCount + m])]
                       S == {f[m] : m \in D}
            <4>1. f \in Surjection(D, S)
                <5>1. f \in [D -> S] /\ \A e \in S : \E m \in D : f[m] = e  OBVIOUS
                <5> HIDE DEF f, S, D
                <5> QED  BY <5>1 DEF Surjection
            <4>2. S = {File(kept[m].seq, Converted[SendCount + m]) : m \in DOMAIN kept}  OBVIOUS
            <4> HIDE DEF f, S
            <4>3. IsFiniteSet(S)  BY <4>1, <3>1, FS_Surjection
            <4> QED  BY <4>2, <4>3
        <3> QED  BY <3>2, <1>3
    <2>2. ASSUME NEW d \in npm', NEW e \in npm', d.seq = e.seq
          PROVE  d = e
        <3>1. PICK j \in DOMAIN kept : d = File(kept[j].seq, Converted[SendCount + j])  BY <1>3
        <3>2. PICK m \in DOMAIN kept : e = File(kept[m].seq, Converted[SendCount + m])  BY <1>3
        <3>3. d.seq = kept[j].seq /\ e.seq = kept[m].seq  BY <3>1, <3>2 DEF File
        <3>4. j = m  BY <2>2, <3>3, <1>14
        <3> QED  BY <3>1, <3>2, <3>4
    <2>3. ~ file_writer' => npm' = {} /\ writes' = <<>> /\ ~ carried_over'
        <3> SUFFICES ASSUME ~ file_writer'
                     PROVE  ~ carried_over'
            BY <1>23
        <3> QED  BY <1>2, <1>8 DEF DiskFits
    <2>4. DOMAIN <<>> = {}  OBVIOUS
    <2>5. ~ carried_over' =>
              /\ \A e \in npm' : e.seq <= delivered_num'
              /\ (\A k \in DOMAIN writes :
                      writes[k].view = members /\ Written(writes[k]) # {})'
              /\ (\A k, m \in DOMAIN writes : KeyOf(writes[k]) = KeyOf(writes[m]) => k = m)'
        BY <2>4, <1>23
    <2> QED  BY <2>1, <2>2, <2>3, <2>5 DEF DiskFits
<1>25. BuffersConserved'
    <2>1. TypeOK' /\ QueueFits' /\ IncomingFits' /\ FiledFits' /\ DiskFits'
        BY <1>16, <1>17, <1>19, <1>20, <1>24
    <2>2. Buffers(num_members)' = Buffers(n)  BY <1>9 DEF Buffers
    <2> SUFFICES ASSUME ~ carried_over'
                 PROVE  total_message_buffers' >= Buffers(num_members)'
                        /\ total_message_buffers' = free_message_buffers' + InUse'
        BY <2>1, BuffersIs DEF BuffersSum
    <2>3. npm = {} /\ npm' = {} /\ ~ carried_over  BY <1>23
    <2>4. total_message_buffers = free_message_buffers + InUse
        BY <2>3, <1>8, BuffersIs DEF IInv, BuffersSum
    <2> DEFINE x == Cardinality(next_send)
               c == Cardinality(current_send)
               p == Len(pending_sends)
               o == Cardinality(OwnStable)
               t == Cardinality(OthersStable)
               i == Cardinality(current_receives)
               f0 == free_message_buffers
               f1 == free_message_buffers'
               t0 == total_message_buffers
               t1 == total_message_buffers'
    <2>5. Cardinality({}) = 0  BY FS_EmptySet
    <2>6. /\ x \in Nat /\ c \in Nat /\ p \in Nat /\ o \in Nat /\ t \in Nat /\ i \in Nat
          /\ f0 \in Nat /\ t0 \in Nat
        BY <1>8, <1>12, CountsType
    <2>7. InUse = x + p + c + i + (o + t) + 0
        BY <2>3, <2>5, <1>12 DEF InUse
    <2>8. InUse' = x + (o + c + p) + 0 + 0 + 0 + 0
        BY <2>3, <2>5, <1>2, <1>5, <1>6, <1>21 DEF InUse
    <2>9. f1 = f0 + (t1 - t0) + (i + t)  BY <1>2 DEF Reclaimed
    <2>10. t1 \in Nat /\ t1 >= Buffers(n)  BY <1>11
    <2>11. t0 = f0 + InUse  BY <2>4
    <2> HIDE DEF x, c, p, o, t, i, f0, f1, t0, t1
    <2>12. t1 = f1 + InUse'  BY <2>6, <2>7, <2>8, <2>9, <2>10, <2>11
    <2> QED  BY <2>2, <2>10, <2>12 DEF t1, f1
<1>26. WindowFits'
    <2>1. Cardinality(OwnStable') = 0  BY <1>21, FS_EmptySet
    <2>2. ~ file_writer' => SendCount <= WindowSize
        <3>1. Len(Queue) \in Nat  BY <1>8, QueueType
        <3>2. ~ file_writer' => Len(Queue) + Cardinality(OwnStable) <= WindowSize
            BY <1>2 DEF IInv, WindowFits
        <3> QED  BY <3>1, <3>2, <1>5, <1>12
    <2> QED  BY <2>1, <2>2, <1>5, <1>6 DEF WindowFits
<1>27. AssertionsHold'  BY <1>1, <1>2 DEF AssertionsHold
<1> QED  BY <1>10, <1>16, <1>17, <1>18, <1>19, <1>20, <1>22, <1>24, <1>25, <1>26, <1>27
         DEF IInv

-----------------------------------------------------------------------------
(***************************************************************************)
(* The invariant holds, and with it the properties.                        *)
(***************************************************************************)
LEMMA InitIInv ==
    ASSUME Init
    PROVE  IInv
<1>1. /\ views \in Plans /\ file_writer \in BOOLEAN /\ thread_shutdown = FALSE
      /\ rdmc_groups \in 0 .. num_members
      /\ future_message_index = 0
      /\ next_send = {} /\ pending_sends = <<>> /\ current_send = {}
      /\ current_receives = {}
      /\ locally_stable_messages = {} /\ non_persistent_messages = {}
      /\ free_message_buffers = Buffers(num_members)
      /\ total_message_buffers = Buffers(num_members)
      /\ nReceived = [r \in Rank |-> -1]
      /\ delivered_num = -1 /\ persisted_num = -1
      /\ writes = <<>> /\ aborted = "no"
      /\ sent = <<>> /\ delivered = <<>> /\ carried_over = FALSE
    BY DEF Init
<1>2. /\ views \in Seq(Seq(Id)) \ {<<>>}
      /\ ViewsFit
    BY <1>1, TransitionAssumption DEF ViewsFit
<1>3. members = views[1] /\ 1 \in DOMAIN views /\ members \in Seq(Id)
    BY <1>2 DEF members
<1>4. Me \in Range(members)  BY <1>2, <1>3 DEF ViewsFit
<1>5. num_members \in Nat /\ member_index \in 0 .. num_members - 1
    <2>1. member_index \in 0 .. Len(members) - 1
        BY <1>3, <1>4, RankInType DEF member_index
    <2> QED  BY <2>1, <1>3 DEF num_members
<1>6. WindowSize \in Nat /\ Buffers(num_members) \in Nat
    BY <1>5, TransitionAssumption DEF Buffers
<1>7. TypeOK
    <2>1. nReceived \in [Rank -> Nat \cup {-1}]  BY <1>1
    <2>2. <<>> \in Seq(Message) /\ <<>> \in Seq(Write) /\ <<>> \in Seq(Nat)  OBVIOUS
    <2> QED  BY <2>1, <2>2, <1>1, <1>2, <1>6 DEF TypeOK
<1>8. QueueFits  BY <1>1 DEF QueueFits, AtMostOne, Range
<1>9. Queue = <<>>
    <2>1. SetToSeq(current_send) = <<>> /\ SetToSeq(next_send) = <<>>
        BY <1>1, EmptyToSeq
    <2> QED  BY <2>1, <1>1 DEF Queue
<1>10. ChainFits
    <2>1. Base = 0  BY <1>1, <1>5 DEF Base, Rank
    <2> QED  BY <2>1, <1>1, <1>9 DEF ChainFits, Chain, Follows, Place
<1>11. IsFiniteSet({}) /\ Cardinality({}) = 0  BY FS_EmptySet
<1>12. IncomingFits  BY <1>1, <1>11 DEF IncomingFits
<1>13. FiledFits
    <2>1. ASSUME NEW r \in Rank
          PROVE  -1 < SeqNum(r, nReceived[r] + 1)
        <3>1. r \in Nat  BY <1>5 DEF Rank
        <3>2. SeqNum(r, nReceived[r] + 1) = (-1 + 1) * num_members + r  BY <1>1 DEF SeqNum
        <3>3. (-1 + 1) * num_members = 0  BY <1>5
        <3> QED  BY <3>1, <3>2, <3>3
    <2> QED  BY <2>1, <1>1, <1>11 DEF FiledFits
<1>14. OwnStable = {} /\ Stable = {}  BY <1>1 DEF OwnStable, Stable
<1>15. NothingLostOrRepeated
    <2>1. Messages(OwnStable) = <<>> /\ SetToSeq(current_send) = <<>>
        BY <1>1, <1>14, MessagesEmpty, EmptyToSeq
    <2>2. Bodies((<<>> \o <<>>) \o <<>>) = <<>>
        BY DEF Bodies
    <2> QED  BY <2>1, <2>2, <1>1 DEF NothingLostOrRepeated
<1>16. DiskFits  BY <1>1, <1>11 DEF DiskFits
<1>17. BuffersConserved
    <2>1. InUse = 0  BY <1>1, <1>11, <1>14 DEF InUse
    <2> QED  BY <2>1, <1>1, <1>6, <1>7, <1>8, <1>12, <1>13, <1>16, BuffersIs DEF BuffersSum
<1>18. WindowFits  BY <1>6, <1>9, <1>11, <1>14 DEF WindowFits
<1>19. AssertionsHold  BY <1>1 DEF AssertionsHold
<1> QED  BY <1>2, <1>7, <1>8, <1>10, <1>12, <1>13, <1>15, <1>16, <1>17, <1>18, <1>19 DEF IInv

LEMMA StutterKeeps ==
    ASSUME IInv, UNCHANGED vars
    PROVE  IInv'
<1>1. UNCHANGED <<viewVars, sendVars, messageVars, rowVars, writes, historyVars>>
      /\ aborted' = aborted
    BY DEF vars
<1>2. aborted' \in {"no", "callback", "buffer"}  BY <1>1 DEF IInv, TypeOK
<1>3. AssertionsHold'  BY <1>1 DEF IInv, AssertionsHold, viewVars, historyVars
<1> QED  BY <1>1, <1>2, <1>3, AbortFrame

\* A view ends if there is another one.
LEMMA EndFitsKept == EndFits /\ [Next]_vars => EndFits'
<1> SUFFICES ASSUME EndFits, [Next]_vars
             PROVE  EndFits'
    OBVIOUS
<1>1. CASE EndOfView  BY <1>1 DEF EndOfView, EndFits
<1>2. CASE NextView  BY <1>2 DEF NextView, EndFits
<1>3. ASSUME UNCHANGED <<views, thread_shutdown>>
      PROVE  EndFits'
    BY <1>3 DEF EndFits
<1>4. CASE \E turns \in 0 .. MaxPause : GetPosition(turns)
    BY <1>3, <1>4 DEF GetPosition, viewVars
<1>5. CASE Send \/ SenderStep \/ OwnReceive
    BY <1>3, <1>5 DEF Send, SenderStep, OwnReceive, viewVars
<1>6. CASE \E rank \in Rank : RdmcIncoming(rank) \/ IncomingAborts(rank) \/ RdmcReceive(rank)
    BY <1>3, <1>6 DEF RdmcIncoming, IncomingAborts, RdmcReceive, viewVars
<1>7. CASE Deliver \/ FileWritten \/ CallbackAborts
    BY <1>3, <1>7 DEF Deliver, FileWritten, CallbackAborts, viewVars
<1>8. CASE UNCHANGED vars  BY <1>3, <1>8 DEF vars, viewVars
<1> QED  BY <1>1, <1>2, <1>4, <1>5, <1>6, <1>7, <1>8 DEF Next

LEMMA NextKeeps == IInv /\ EndFits /\ [Next]_vars => IInv'
<1> SUFFICES ASSUME IInv, EndFits, [Next]_vars
             PROVE  IInv'
    OBVIOUS
<1>1. CASE \E turns \in 0 .. MaxPause : GetPosition(turns)  BY <1>1, GetPositionKeeps
<1>2. CASE Send  BY <1>2, SendKeeps
<1>3. CASE SenderStep  BY <1>3, SenderStepKeeps
<1>4. CASE OwnReceive  BY <1>4, OwnReceiveKeeps
<1>5. CASE \E rank \in Rank : RdmcIncoming(rank) \/ IncomingAborts(rank) \/ RdmcReceive(rank)
    BY <1>5, RdmcIncomingKeeps, IncomingAbortsKeeps, RdmcReceiveKeeps
<1>6. CASE Deliver  BY <1>6, DeliverKeeps
<1>7. CASE FileWritten  BY <1>7, FileWrittenKeeps
<1>8. CASE CallbackAborts  BY <1>8, CallbackAbortsKeeps
<1>9. CASE EndOfView  BY <1>9, EndOfViewKeeps
<1>10. CASE NextView  BY <1>10, NextViewKeeps
<1>11. CASE UNCHANGED vars  BY <1>11, StutterKeeps
<1> QED
    BY <1>1, <1>2, <1>3, <1>4, <1>5, <1>6, <1>7, <1>8, <1>9, <1>10, <1>11 DEF Next

\* The inductive invariant of the transition (derecho_group_impl.h:122-220).
THEOREM TransitionInvariance == Spec => []IInv
<1>1. Init => IInv  BY InitIInv
<1>2. Init => EndFits  BY DEF Init, EndFits
<1>3. Spec => []EndFits  BY <1>2, EndFitsKept, PTL DEF Spec
<1> QED  BY <1>1, <1>3, NextKeeps, PTL DEF Spec

\* Every variable of the groups of all views keeps its type.
THEOREM TransitionTypeCorrect == Spec => []TypeOK
<1>1. IInv => TypeOK  BY DEF IInv
<1> QED  BY <1>1, TransitionInvariance, PTL

\* derecho_group_impl.h:183-209: what this member has given to send() is, over
\* any number of view changes, delivered or on its way exactly once and in the
\* order in which it was given.
THEOREM NothingIsLost == Spec => []NothingLostOrRepeated
<1>1. IInv => NothingLostOrRepeated  BY DEF IInv
<1> QED  BY <1>1, TransitionInvariance, PTL

\* convert_msg (derecho_group_impl.h:157-165): the messages on their way have the
\* indices under which the receivers of the current view will count them, and
\* get_position goes on after them, unless messages crossed a view change before
\* they were on disk.
THEOREM NumberingIsContinued == Spec => []NumberingContinues
<1>1. IInv => NumberingContinues
    <2> SUFFICES ASSUME IInv, ~ carried_over
                 PROVE  /\ \A n \in DOMAIN Queue : Queue[n].index = Base + Turns(Queue, n - 1)
                        /\ future_message_index = Base + Turns(Queue, Len(Queue))
        BY DEF NumberingContinues, Queue, Base
    <2> DEFINE q == Queue
               next == future_message_index
               base == Base
    <2>1. carried_over = FALSE  BY DEF IInv, TypeOK
    <2>2. Chain(base, FALSE, q, next)  BY <2>1 DEF IInv, ChainFits
    <2>3. q \in Seq(Message)  BY QueueType DEF IInv
    <2>4. base \in Int /\ next \in Int
        <3>1. Base \in Nat  BY Basics DEF IInv
        <3> QED  BY <3>1 DEF IInv, TypeOK
    <2> HIDE DEF q, next, base
    <2>5. DOMAIN q = 1 .. Len(q)  BY <2>3
    <2>6. /\ next = base + Turns(q, Len(q))
          /\ \A n \in 1 .. Len(q) : q[n].index = base + Turns(q, n - 1)
        BY <2>2, <2>3, <2>4, ChainTurns
    <2> QED  BY <2>5, <2>6 DEF q, next, base
<1> QED  BY <1>1, TransitionInvariance, PTL

\* derecho_group_impl.h:167-181: no buffer gets lost when a group takes over those
\* of the previous one, and there are enough for its window.
THEOREM NoBufferIsLost == Spec => []BuffersConserved
<1>1. IInv => BuffersConserved  BY DEF IInv
<1> QED  BY <1>1, TransitionInvariance, PTL

\* The assertions at derecho_group_impl.h:261 and derecho_group_impl.h:374: the
\* callback finds the message it is called for unless messages crossed a view
\* change, and receive_destination a free buffer unless the disk holds some.
THEOREM AssertionsOfTransition == Spec => []AssertionsHold
<1>1. IInv => AssertionsHold  BY DEF IInv
<1> QED  BY <1>1, TransitionInvariance, PTL

=============================================================================
