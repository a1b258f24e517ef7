---------------------------- MODULE RemoteCallsProofs ----------------------------
(***************************************************************************)
(* Theorems about remote calls over the group, for every plan of views,    *)
(* every set of callers and every number of calls.                         *)
(*                                                                         *)
(* The first part has what Select and set_difference compute, the second   *)
(* one the inductive invariant and the steps that preserve it, the third   *)
(* one the theorems.                                                       *)
(***************************************************************************)
EXTENDS RemoteCalls, FiniteSetTheorems, SequenceTheorems, WellFoundedInduction, TLAPS

(***************************************************************************)
(* Induction and recursion.                                                *)
(***************************************************************************)
\* A set of natural numbers that is not empty has a least element.
LEMMA Least ==
    ASSUME NEW T, T \subseteq Nat, T # {}
    PROVE  \E m \in T : \A k \in T : m <= k
<1>1. PICK m \in T : \A k \in T : ~ (<<k, m>> \in OpToRel(<, Nat))
    BY WFMin, NatLessThanWellFounded, Zenon
<1>2. \A k \in T : ~ (k < m)
    BY <1>1 DEF OpToRel
<1> QED  BY <1>2

\* The values of a loop that starts with s0 and does N steps.
Loop(g, N, s0, step) ==
    g[0] = s0 /\ \A n \in 1 .. N : g[n] = step[n][g[n - 1]]

\* A function that is defined by recursion over 0 .. N exists.
LEMMA LoopExists ==
    ASSUME NEW S, NEW s0 \in S, NEW N \in Nat, NEW step \in [1 .. N -> [S -> S]]
    PROVE  \E g \in [0 .. N -> S] : Loop(g, N, s0, step)
<1> USE DEF Loop
<1> DEFINE Upto(m) == \E g \in [0 .. m -> S] : Loop(g, m, s0, step)
           Bad == {m \in 0 .. N : ~ Upto(m)}
<1>1. Upto(0)
    <2> DEFINE h == [n \in 0 .. 0 |-> s0]
    <2>1. h \in [0 .. 0 -> S] /\ h[0] = s0 /\ 1 .. 0 = {}  OBVIOUS
    <2> QED  BY <2>1
<1>2. ASSUME NEW m \in 1 .. N, Upto(m - 1)
      PROVE  Upto(m)
    <2>1. PICK g \in [0 .. m - 1 -> S] :
              g[0] = s0 /\ \A n \in 1 .. m - 1 : g[n] = step[n][g[n - 1]]
        BY <1>2
    <2> DEFINE h == [n \in 0 .. m |-> IF n < m THEN g[n] ELSE step[m][g[m - 1]]]
    <2>2. h \in [0 .. m -> S]  OBVIOUS
    <2>3. h[0] = s0 /\ \A n \in 1 .. m : h[n] = step[n][h[n - 1]]
        BY <2>1
    <2> QED  BY <2>2, <2>3
<1>3. Bad = {}
    <2> SUFFICES ASSUME Bad # {} PROVE FALSE  OBVIOUS
    <2>1. PICK m \in Bad : \A k \in Bad : m <= k
        <3>1. Bad \subseteq Nat  OBVIOUS
        <3> HIDE DEF Bad
        <3> QED  BY <3>1, Least
    <2> HIDE DEF Upto
    <2>2. m # 0  BY <1>1, <2>1
    <2>3. Upto(m - 1)  BY <2>1, <2>2
    <2> QED  BY <2>1, <2>2, <2>3, <1>2
<1>4. Upto(N)
    <2> HIDE DEF Upto
    <2> QED  BY <1>3
<1> QED  BY <1>4

\* Induction over the natural numbers, for a set.
LEMMA NatSet ==
    ASSUME NEW T, 0 \in T, \A n \in Nat : n \in T => n + 1 \in T
    PROVE  Nat \subseteq T
<1> DEFINE Bad == Nat \ T
<1> SUFFICES ASSUME Bad # {} PROVE FALSE  OBVIOUS
<1>1. PICK m \in Bad : \A k \in Bad : m <= k
    <2>1. Bad \subseteq Nat  OBVIOUS
    <2> HIDE DEF Bad
    <2> QED  BY <2>1, Least
<1>2. m # 0  BY <1>1
<1>3. m - 1 \in T  BY <1>1, <1>2
<1> QED  BY <1>1, <1>2, <1>3

\* Induction over sequences, for a set of them.
LEMMA SeqSet ==
    ASSUME NEW U, NEW T, <<>> \in T,
           \A s \in Seq(U), e \in U : s \in T => Append(s, e) \in T
    PROVE  Seq(U) \subseteq T
<1> DEFINE Good == {n \in Nat : \A s \in Seq(U) : Len(s) = n => s \in T}
<1>1. 0 \in Good
    <2>1. \A s \in Seq(U) : Len(s) = 0 => s = <<>>  OBVIOUS
    <2> QED  BY <2>1
<1>2. ASSUME NEW n \in Nat, n \in Good
      PROVE  n + 1 \in Good
    <2> SUFFICES ASSUME NEW s \in Seq(U), Len(s) = n + 1
                 PROVE  s \in T
        OBVIOUS
    <2> DEFINE front == SubSeq(s, 1, n)
    <2>1. front \in Seq(U) /\ Len(front) = n /\ s[n + 1] \in U  OBVIOUS
    <2>2. s = Append(front, s[n + 1])
        <3>1. Len(Append(front, s[n + 1])) = n + 1  BY <2>1
        <3>2. \A k \in 1 .. n + 1 : Append(front, s[n + 1])[k] = s[k]  BY <2>1
        <3> HIDE DEF front
        <3> QED  BY <3>1, <3>2, <2>1
    <2>3. front \in T  BY <1>2, <2>1
    <2> HIDE DEF front
    <2> QED  BY <2>1, <2>2, <2>3
<1>3. Nat \subseteq Good
    <2> HIDE DEF Good
    <2> QED  BY <1>1, <1>2, NatSet
<1>4. \A s \in Seq(U) : Len(s) \in Nat  OBVIOUS
<1> QED  BY <1>3, <1>4

-----------------------------------------------------------------------------
(***************************************************************************)
(* Select.                                                                 *)
(***************************************************************************)
\* What Select computes: the selection from the first n elements, for each n.
Selects(g, s, S, U) ==
    /\ g \in [0 .. Len(s) -> Seq(U)]
    /\ g[0] = <<>>
    /\ \A n \in 1 .. Len(s) :
           g[n] = IF s[n] \in S THEN Append(g[n - 1], s[n]) ELSE g[n - 1]

LEMMA SelectLoop ==
    ASSUME NEW U, NEW s \in Seq(U), NEW S
    PROVE  \E g : Selects(g, s, S, U) /\ Select(s, S) = g[Len(s)]
<1> DEFINE N == Len(s)
           step == [n \in 1 .. N |-> [t \in Seq(U) |->
                       IF s[n] \in S THEN Append(t, s[n]) ELSE t]]
           body(g) == [n \in 0 .. N |->
                          IF n = 0 THEN <<>>
                          ELSE IF s[n] \in S THEN Append(g[n - 1], s[n])
                          ELSE g[n - 1]]
           selected == CHOOSE g : g = body(g)
<1>1. N \in Nat /\ step \in [1 .. N -> [Seq(U) -> Seq(U)]] /\ <<>> \in Seq(U)
    OBVIOUS
<1>2. PICK g \in [0 .. N -> Seq(U)] :
          g[0] = <<>> /\ \A n \in 1 .. N : g[n] = step[n][g[n - 1]]
    <2> DEFINE Values == Seq(U)
               s0 == <<>>
    <2>1. s0 \in Values /\ step \in [1 .. N -> [Values -> Values]]  BY <1>1
    <2> HIDE DEF step, N, Values, s0
    <2>2. \E g \in [0 .. N -> Values] : Loop(g, N, s0, step)
        BY <1>1, <2>1, LoopExists
    <2> QED  BY <2>2 DEF Values, s0, Loop
<1>3. \A n \in 1 .. N : g[n - 1] \in Seq(U)  BY <1>1
<1>4. g = body(g)
    <2>1. \A n \in 0 .. N : g[n] = body(g)[n]
        <3> TAKE n \in 0 .. N
        <3>1. CASE n = 0  BY <3>1, <1>2
        <3>2. CASE n # 0
            <4>1. n \in 1 .. N  BY <3>2, <1>1
            <4>2. g[n] = step[n][g[n - 1]] /\ g[n - 1] \in Seq(U)  BY <4>1, <1>2, <1>3
            <4> QED  BY <4>1, <4>2, <3>2
        <3> QED  BY <3>1, <3>2
    <2> HIDE DEF N, step
    <2> QED  BY <2>1
<1>5. selected = body(selected)
    <2> HIDE DEF body
    <2> QED  BY <1>4
<1>6. Select(s, S) = selected[N]  BY DEF Select
<1> HIDE DEF selected
<1>7. selected = [n \in 0 .. N |-> body(selected)[n]]  BY <1>5
<1>8. \A n \in 0 .. N : selected[n] =
          IF n = 0 THEN <<>>
          ELSE IF s[n] \in S THEN Append(selected[n - 1], s[n])
          ELSE selected[n - 1]
    BY <1>5
<1>9. selected[0] = <<>>  BY <1>8, <1>1
<1>10. \A n \in 1 .. N : selected[n] =
           IF s[n] \in S THEN Append(selected[n - 1], s[n]) ELSE selected[n - 1]
    <2> TAKE n \in 1 .. N
    <2>1. n \in 0 .. N /\ n # 0  BY <1>1
    <2> HIDE DEF N
    <2> QED  BY <2>1, <1>8
<1>11. \A n \in 0 .. N : selected[n] \in Seq(U)
    <2> DEFINE Good == {n \in Nat : n <= N => selected[n] \in Seq(U)}
    <2>1. 0 \in Good  BY <1>1, <1>9
    <2>2. ASSUME NEW n \in Nat, n \in Good
          PROVE  n + 1 \in Good
        <3> SUFFICES ASSUME n + 1 <= N PROVE selected[n + 1] \in Seq(U)  OBVIOUS
        <3>1. n + 1 \in 1 .. N /\ n + 1 - 1 = n /\ selected[n] \in Seq(U)
            BY <2>2, <1>1
        <3>2. s[n + 1] \in U  BY <3>1
        <3> HIDE DEF N
        <3>3. selected[n + 1] = IF s[n + 1] \in S THEN Append(selected[n], s[n + 1])
                                ELSE selected[n]
            BY <3>1, <1>10
        <3> QED  BY <3>1, <3>2, <3>3
    <2>3. Nat \subseteq Good
        <3> HIDE DEF Good
        <3> QED  BY <2>1, <2>2, NatSet
    <2>4. 0 .. N \subseteq Nat  OBVIOUS
    <2> HIDE DEF N
    <2> QED  BY <2>3, <2>4
<1>12. selected \in [0 .. N -> Seq(U)]
    <2> HIDE DEF N, body
    <2> QED  BY <1>7, <1>11
<1>13. Selects(selected, s, S, U)  BY <1>9, <1>10, <1>12 DEF Selects
<1> QED  BY <1>6, <1>13

LEMMA SelectType ==
    ASSUME NEW U, NEW s \in Seq(U), NEW S
    PROVE  Select(s, S) \in Seq(U)
<1>1. PICK g : Selects(g, s, S, U) /\ Select(s, S) = g[Len(s)]  BY SelectLoop
<1> QED  BY <1>1 DEF Selects

LEMMA SelectEmpty ==
    ASSUME NEW S
    PROVE  Select(<<>>, S) = <<>>
<1> DEFINE s == <<>>
<1>1. s \in Seq({}) /\ Len(s) = 0  OBVIOUS
<1> HIDE DEF s
<1>2. PICK g : Selects(g, s, S, {}) /\ Select(s, S) = g[Len(s)]  BY <1>1, SelectLoop
<1> QED  BY <1>1, <1>2 DEF Selects, s

\* The last element is selected after all others.
LEMMA SelectAppend ==
    ASSUME NEW U, NEW s \in Seq(U), NEW e \in U, NEW S
    PROVE  Select(Append(s, e), S) =
               IF e \in S THEN Append(Select(s, S), e) ELSE Select(s, S)
<1> DEFINE N == Len(s)
           t == Append(s, e)
<1>1. N \in Nat /\ t \in Seq(U) /\ Len(t) = N + 1 /\ t[N + 1] = e
      /\ \A n \in 1 .. N : t[n] = s[n]
    OBVIOUS
<1>2. PICK g : Selects(g, s, S, U) /\ Select(s, S) = g[N]  BY SelectLoop
<1> HIDE DEF t, N
<1>3. PICK h : Selects(h, t, S, U) /\ Select(t, S) = h[N + 1]  BY <1>1, SelectLoop
<1>g. /\ g[0] = <<>>
      /\ \A n \in 1 .. N :
             g[n] = IF s[n] \in S THEN Append(g[n - 1], s[n]) ELSE g[n - 1]
    BY <1>2 DEF Selects, N
<1>h. /\ h[0] = <<>>
      /\ \A n \in 1 .. N + 1 :
             h[n] = IF t[n] \in S THEN Append(h[n - 1], t[n]) ELSE h[n - 1]
    BY <1>1, <1>3 DEF Selects
<1>4. h[N] = g[N]
    <2> DEFINE Good == {n \in Nat : n <= N => h[n] = g[n]}
    <2>1. 0 \in Good  BY <1>g, <1>h
    <2>2. ASSUME NEW n \in Nat, n \in Good
          PROVE  n + 1 \in Good
        <3> SUFFICES ASSUME n + 1 <= N PROVE h[n + 1] = g[n + 1]  OBVIOUS
        <3>1. n + 1 \in 1 .. N /\ n + 1 \in 1 .. N + 1 /\ n + 1 - 1 = n /\ h[n] = g[n]
            BY <2>2, <1>1
        <3>2. h[n + 1] = IF t[n + 1] \in S THEN Append(h[n], t[n + 1]) ELSE h[n]
            BY <3>1, <1>h
        <3>3. g[n + 1] = IF s[n + 1] \in S THEN Append(g[n], s[n + 1]) ELSE g[n]
            BY <3>1, <1>g
        <3> QED  BY <3>1, <3>2, <3>3, <1>1
    <2>3. Nat \subseteq Good
        <3> HIDE DEF Good
        <3> QED  BY <2>1, <2>2, NatSet
    <2> QED  BY <2>3, <1>1
<1>5. h[N + 1] = IF e \in S THEN Append(h[N], e) ELSE h[N]
    <2> DEFINE last == N + 1
    <2>1. last \in 1 .. N + 1 /\ last - 1 = N /\ t[last] = e  BY <1>1
    <2> HIDE DEF last
    <2>2. h[last] = IF t[last] \in S THEN Append(h[last - 1], t[last]) ELSE h[last - 1]
        BY <2>1, <1>h
    <2> QED  BY <2>1, <2>2 DEF last
<1> QED  BY <1>2, <1>3, <1>4, <1>5 DEF t

LEMMA AppendToConcat ==
    ASSUME NEW U
    PROVE  \A x, y \in Seq(U) : \A e \in U :
               /\ x \o y \in Seq(U) /\ Append(y, e) \in Seq(U)
               /\ x \o Append(y, e) = Append(x \o y, e)
<1> TAKE x, y \in Seq(U)
<1> TAKE e \in U
<1> DEFINE z == <<e>>
           xy == x \o y
<1>1. z \in Seq(U)  OBVIOUS
<1>2. xy \in Seq(U)  BY ConcatProperties, Zenon
<1>3. Append(y, e) = y \o z  BY AppendIsConcat, Zenon
<1>4. y \o z \in Seq(U)
    <2> HIDE DEF z
    <2> QED  BY <1>1, ConcatProperties, Zenon
<1>5. Append(xy, e) = xy \o z
    <2> HIDE DEF xy
    <2> QED  BY <1>2, AppendIsConcat, Zenon
<1>6. xy \o z = x \o (y \o z)
    <2> HIDE DEF z
    <2> QED  BY <1>1, ConcatAssociative, SMTT(30)
<1> HIDE DEF z
<1> QED  BY <1>2, <1>3, <1>4, <1>5, <1>6, Zenon

LEMMA SelectConcat ==
    ASSUME NEW U, NEW s \in Seq(U), NEW t \in Seq(U), NEW S
    PROVE  Select(s \o t, S) = Select(s, S) \o Select(t, S)
<1>a. \A x, y \in Seq(U) : \A e \in U :
          /\ x \o y \in Seq(U) /\ Append(y, e) \in Seq(U)
          /\ x \o Append(y, e) = Append(x \o y, e)
    BY AppendToConcat
<1> DEFINE Good == {r \in Seq(U) : Select(s \o r, S) = Select(s, S) \o Select(r, S)}
<1>1. <<>> \in Good
    <2>1. Select(s, S) \in Seq(U)  BY SelectType
    <2>2. s \o <<>> = s  OBVIOUS
    <2>3. Select(s, S) \o <<>> = Select(s, S)  BY <2>1
    <2>4. <<>> \in Seq(U)  OBVIOUS
    <2>5. Select(s \o <<>>, S) = Select(s, S) \o Select(<<>>, S)
        BY <2>2, <2>3, SelectEmpty, Zenon
    <2> QED  BY <2>4, <2>5, Zenon
<1>2. ASSUME NEW r \in Seq(U), NEW e \in U, r \in Good
      PROVE  Append(r, e) \in Good
    <2>1. /\ s \o Append(r, e) = Append(s \o r, e)
          /\ s \o r \in Seq(U) /\ Append(r, e) \in Seq(U)
        BY <1>a
    <2>2. Select(s, S) \in Seq(U) /\ Select(r, S) \in Seq(U)  BY SelectType
    <2>3. /\ Select(Append(s \o r, e), S) =
                 IF e \in S THEN Append(Select(s \o r, S), e) ELSE Select(s \o r, S)
          /\ Select(Append(r, e), S) =
                 IF e \in S THEN Append(Select(r, S), e) ELSE Select(r, S)
        BY <2>1, SelectAppend
    <2>4. Select(s, S) \o Append(Select(r, S), e) = Append(Select(s, S) \o Select(r, S), e)
        BY <1>a, <2>2, SMTT(40)
    <2>5. Select(s \o r, S) = Select(s, S) \o Select(r, S)  BY <1>2
    <2>6. Select(s \o Append(r, e), S) = Select(s, S) \o Select(Append(r, e), S)
        BY <2>1, <2>3, <2>4, <2>5
    <2> QED  BY <2>1, <2>6
<1> HIDE DEF Good
<1>3. Seq(U) \subseteq Good  BY <1>1, <1>2, SeqSet
<1> QED  BY <1>3 DEF Good

\* Only the elements of the sequence matter.
LEMMA SelectSame ==
    ASSUME NEW U, NEW s \in Seq(U), NEW S, NEW T,
           \A n \in 1 .. Len(s) : s[n] \in S <=> s[n] \in T
    PROVE  Select(s, S) = Select(s, T)
<1> DEFINE V == {e \in U : e \in S <=> e \in T}
           Good == {r \in Seq(V) : Select(r, S) = Select(r, T)}
<1>1. s \in Seq(V)
    <2>1. \A n \in 1 .. Len(s) : s[n] \in V  OBVIOUS
    <2> HIDE DEF V
    <2> QED  BY <2>1
<1>2. <<>> \in Good  BY SelectEmpty
<1>3. ASSUME NEW r \in Seq(V), NEW e \in V, r \in Good
      PROVE  Append(r, e) \in Good
    <2>1. e \in S <=> e \in T  OBVIOUS
    <2>2. Select(r, S) = Select(r, T)  BY <1>3
    <2> HIDE DEF V
    <2>3. /\ Select(Append(r, e), S) = IF e \in S THEN Append(Select(r, S), e) ELSE Select(r, S)
          /\ Select(Append(r, e), T) = IF e \in T THEN Append(Select(r, T), e) ELSE Select(r, T)
        BY SelectAppend
    <2>4. Append(r, e) \in Seq(V)  OBVIOUS
    <2>5. Select(Append(r, e), S) = Select(Append(r, e), T)  BY <2>1, <2>2, <2>3
    <2> QED  BY <2>4, <2>5
<1> HIDE DEF Good, V
<1>4. Seq(V) \subseteq Good  BY <1>2, <1>3, SeqSet
<1> QED  BY <1>1, <1>4 DEF Good

\* Nothing is selected if nothing is in the set.
LEMMA SelectNone ==
    ASSUME NEW U, NEW s \in Seq(U), NEW S,
           \A n \in 1 .. Len(s) : s[n] \notin S
    PROVE  Select(s, S) = <<>>
<1> DEFINE Good == {r \in Seq(U) : Select(r, {}) = <<>>}
<1>1. <<>> \in Good  BY SelectEmpty
<1>2. ASSUME NEW r \in Seq(U), NEW e \in U, r \in Good
      PROVE  Append(r, e) \in Good
    <2>1. Select(Append(r, e), {}) = Select(r, {})  BY SelectAppend
    <2>2. Append(r, e) \in Seq(U)  OBVIOUS
    <2> QED  BY <1>2, <2>1, <2>2
<1>3. s \in Good
    <2> HIDE DEF Good
    <2> QED  BY <1>1, <1>2, SeqSet
<1>4. Select(s, S) = Select(s, {})
    <2>1. \A n \in 1 .. Len(s) : s[n] \in S <=> s[n] \in {}  OBVIOUS
    <2> QED  BY <2>1, SelectSame
<1> QED  BY <1>3, <1>4

\* The elements that are selected.
LEMMA SelectRange ==
    ASSUME NEW U, NEW s \in Seq(U), NEW S
    PROVE  Range(Select(s, S)) = Range(s) \cap S
<1> DEFINE Good == {r \in Seq(U) : Range(Select(r, S)) = Range(r) \cap S}
<1>1. \A q \in Seq(U) : Range(q) = {q[n] : n \in 1 .. Len(q)}  BY DEF Range
<1>2. <<>> \in Good
    <2>1. Range(<<>>) = {}  BY DEF Range
    <2> QED  BY <2>1, SelectEmpty
<1>3. \A q \in Seq(U), e \in U : Range(Append(q, e)) = Range(q) \cup {e}
    <2> TAKE q \in Seq(U), e \in U
    <2>1. /\ Append(q, e) \in Seq(U) /\ Len(Append(q, e)) = Len(q) + 1
          /\ Append(q, e)[Len(q) + 1] = e
          /\ \A n \in 1 .. Len(q) : Append(q, e)[n] = q[n]
        OBVIOUS
    <2>2. 1 .. Len(q) + 1 = (1 .. Len(q)) \cup {Len(q) + 1}  OBVIOUS
    <2> DEFINE a == Append(q, e)
               N == Len(q)
    <2>3. Range(a) = {a[n] : n \in (1 .. N) \cup {N + 1}}  BY <1>1, <2>1, <2>2
    <2>4. Range(q) = {q[n] : n \in 1 .. N}  BY <1>1
    <2>5. a[N + 1] = e /\ \A n \in 1 .. N : a[n] = q[n]  BY <2>1
    <2> HIDE DEF a, N
    <2>6. Range(a) = Range(q) \cup {e}  BY <2>3, <2>4, <2>5
    <2> QED  BY <2>6 DEF a
<1>4. ASSUME NEW r \in Seq(U), NEW e \in U, r \in Good
      PROVE  Append(r, e) \in Good
    <2>1. Select(Append(r, e), S) = IF e \in S THEN Append(Select(r, S), e) ELSE Select(r, S)
        BY SelectAppend
    <2>2. Select(r, S) \in Seq(U)  BY SelectType
    <2>3. Range(Select(r, S)) = Range(r) \cap S  BY <1>4
    <2>4. Range(Append(r, e)) = Range(r) \cup {e}  BY <1>3
    <2>5. Range(Append(Select(r, S), e)) = Range(Select(r, S)) \cup {e}  BY <1>3, <2>2
    <2>6. Range(Select(Append(r, e), S)) = Range(Append(r, e)) \cap S
        BY <2>1, <2>3, <2>4, <2>5
    <2>7. Append(r, e) \in Seq(U)  OBVIOUS
    <2> QED  BY <2>6, <2>7
<1> HIDE DEF Good
<1>5. Seq(U) \subseteq Good  BY <1>2, <1>4, SeqSet
<1> QED  BY <1>5 DEF Good

\* Selecting twice is selecting from the intersection.
LEMMA SelectTwice ==
    ASSUME NEW U, NEW s \in Seq(U), NEW S, NEW T
    PROVE  Select(Select(s, S), T) = Select(s, S \cap T)
<1> DEFINE Good == {r \in Seq(U) : Select(Select(r, S), T) = Select(r, S \cap T)}
<1>1. <<>> \in Good  BY SelectEmpty
<1>2. ASSUME NEW r \in Seq(U), NEW e \in U, r \in Good
      PROVE  Append(r, e) \in Good
    <2>1. Select(r, S) \in Seq(U)  BY SelectType
    <2>2. /\ Select(Append(r, e), S) = IF e \in S THEN Append(Select(r, S), e) ELSE Select(r, S)
          /\ Select(Append(r, e), S \cap T) =
                 IF e \in S \cap T THEN Append(Select(r, S \cap T), e)
                 ELSE Select(r, S \cap T)
        BY SelectAppend
    <2>3. Select(Append(Select(r, S), e), T) =
              IF e \in T THEN Append(Select(Select(r, S), T), e) ELSE Select(Select(r, S), T)
        BY <2>1, SelectAppend
    <2>4. Select(Select(r, S), T) = Select(r, S \cap T)  BY <1>2
    <2>5. Select(Select(Append(r, e), S), T) = Select(Append(r, e), S \cap T)
        <3>1. CASE e \in S
            <4>1. Select(Append(r, e), S) = Append(Select(r, S), e)  BY <3>1, <2>2
            <4>2. CASE e \in T
                <5>1. Select(Append(Select(r, S), e), T) = Append(Select(r, S \cap T), e)
                    BY <4>2, <2>3, <2>4
                <5>2. Select(Append(r, e), S \cap T) = Append(Select(r, S \cap T), e)
                    BY <3>1, <4>2, <2>2
                <5> QED  BY <4>1, <5>1, <5>2, Zenon
            <4>3. CASE e \notin T
                <5>1. Select(Append(Select(r, S), e), T) = Select(r, S \cap T)
                    BY <4>3, <2>3, <2>4
                <5>2. Select(Append(r, e), S \cap T) = Select(r, S \cap T)
                    BY <4>3, <2>2
                <5> QED  BY <4>1, <5>1, <5>2, Zenon
            <4> QED  BY <4>2, <4>3
        <3>2. CASE e \notin S  BY <3>2, <2>2, <2>4
        <3> QED  BY <3>1, <3>2
    <2>6. Append(r, e) \in Seq(U)  OBVIOUS
    <2> QED  BY <2>5, <2>6
<1> HIDE DEF Good
<1>3. Seq(U) \subseteq Good  BY <1>1, <1>2, SeqSet
<1> QED  BY <1>3 DEF Good

\* What is selected from different elements is different.
LEMMA SelectInjective ==
    ASSUME NEW U, NEW s \in Seq(U), NEW S, IsInjective(s)
    PROVE  IsInjective(Select(s, S))
<1> DEFINE Good == {r \in Seq(U) : IsInjective(r) => IsInjective(Select(r, S))}
<1>1. <<>> \in Good
    <2>1. IsInjective(<<>>)  BY DEF IsInjective
    <2> QED  BY <2>1, SelectEmpty
<1>2. \A q \in Seq(U), e \in U :
          IsInjective(Append(q, e)) <=> IsInjective(q) /\ e \notin Range(q)
    <2> TAKE q \in Seq(U), e \in U
    <2> DEFINE a == Append(q, e)
               N == Len(q)
    <2>1. /\ DOMAIN a = 1 .. N + 1 /\ DOMAIN q = 1 .. N /\ N \in Nat
          /\ a[N + 1] = e /\ \A n \in 1 .. N : a[n] = q[n]
        OBVIOUS
    <2> HIDE DEF a, N
    <2>2. ASSUME IsInjective(a) PROVE IsInjective(q) /\ e \notin Range(q)
        <3>1. \A m, n \in 1 .. N + 1 : a[m] = a[n] => m = n  BY <2>1, <2>2 DEF IsInjective
        <3>2. \A m, n \in 1 .. N : q[m] = q[n] => m = n  BY <2>1, <3>1
        <3>3. \A m \in 1 .. N : q[m] # e  BY <2>1, <3>1
        <3> QED  BY <2>1, <3>2, <3>3 DEF IsInjective, Range
    <2>3. ASSUME IsInjective(q), e \notin Range(q) PROVE IsInjective(a)
        <3>1. \A m, n \in 1 .. N : q[m] = q[n] => m = n  BY <2>1, <2>3 DEF IsInjective
        <3>2. \A m \in 1 .. N : q[m] # e  BY <2>1, <2>3 DEF Range
        <3>3. \A m \in 1 .. N + 1 : m \in 1 .. N \/ m = N + 1  BY <2>1
        <3>4. \A m, n \in 1 .. N + 1 : a[m] = a[n] => m = n  BY <2>1, <3>1, <3>2, <3>3
        <3> QED  BY <2>1, <3>4 DEF IsInjective
    <2> QED  BY <2>2, <2>3 DEF a
<1>3. ASSUME NEW r \in Seq(U), NEW e \in U, r \in Good
      PROVE  Append(r, e) \in Good
    <2> SUFFICES ASSUME IsInjective(Append(r, e))
                 PROVE  IsInjective(Select(Append(r, e), S))
        OBVIOUS
    <2>1. IsInjective(r) /\ e \notin Range(r)  BY <1>2
    <2>2. Select(r, S) \in Seq(U) /\ Range(Select(r, S)) = Range(r) \cap S
        BY SelectType, SelectRange
    <2>3. IsInjective(Select(r, S))  BY <1>3, <2>1
    <2>4. Select(Append(r, e), S) = IF e \in S THEN Append(Select(r, S), e) ELSE Select(r, S)
        BY SelectAppend
    <2>5. IsInjective(Append(Select(r, S), e))  BY <1>2, <2>1, <2>2, <2>3
    <2> QED  BY <2>3, <2>4, <2>5
<1> HIDE DEF Good
<1>4. Seq(U) \subseteq Good  BY <1>1, <1>3, SeqSet
<1> QED  BY <1>4 DEF Good

-----------------------------------------------------------------------------
(***************************************************************************)
(* set_difference.                                                         *)
(***************************************************************************)
Position(a, b) ==
    [first : 1 .. Len(a) + 1, second : 1 .. Len(b) + 1, result : SUBSET Range(a)]

Start == [first |-> 1, second |-> 1, result |-> {}]

\* A step stays within the sequences.
LEMMA AdvanceType ==
    ASSUME NEW a \in Seq(Nat), NEW b \in Seq(Nat), NEW w \in Position(a, b)
    PROVE  Advance(w, a, b) \in Position(a, b)
<1>1. /\ w.first \in 1 .. Len(a) + 1 /\ w.second \in 1 .. Len(b) + 1
      /\ w.result \subseteq Range(a)
    BY DEF Position
<1>2. CASE w.first > Len(a)
    BY <1>2 DEF Advance
<1>3. CASE ~ (w.first > Len(a))
    <2>1. w.first \in DOMAIN a /\ w.first + 1 \in 1 .. Len(a) + 1
        BY <1>1, <1>3
    <2>2. a[w.first] \in Range(a)
        BY <2>1 DEF Range
    <2>3. CASE w.second > Len(b) \/ a[w.first] < b[w.second]
        <3>1. Advance(w, a, b) =
                  [w EXCEPT !.first = @ + 1, !.result = @ \cup {a[w.first]}]
            BY <1>3, <2>3 DEF Advance
        <3> QED  BY <1>1, <2>1, <2>2, <3>1 DEF Position
    <2>4. CASE ~ (w.second > Len(b) \/ a[w.first] < b[w.second])
        <3>1. w.second + 1 \in 1 .. Len(b) + 1  BY <1>1, <2>4, SMTT(40)
        <3>2. \/ Advance(w, a, b) = [w EXCEPT !.second = @ + 1]
              \/ Advance(w, a, b) = [w EXCEPT !.first = @ + 1, !.second = @ + 1]
            BY <1>3, <2>4 DEF Advance
        <3> QED  BY <1>1, <2>1, <3>1, <3>2 DEF Position
    <2> QED  BY <2>3, <2>4
<1> QED  BY <1>2, <1>3

\* What set_difference computes: its position after each step.
Walks(g, a, b) ==
    /\ g \in [0 .. Len(a) + Len(b) -> Position(a, b)]
    /\ g[0] = Start
    /\ \A n \in 1 .. Len(a) + Len(b) : g[n] = Advance(g[n - 1], a, b)

LEMMA DifferenceLoop ==
    ASSUME NEW a \in Seq(Nat), NEW b \in Seq(Nat)
    PROVE  \E g : Walks(g, a, b) /\ set_difference(a, b) = g[Len(a) + Len(b)].result
<1> DEFINE N == Len(a) + Len(b)
           W == Position(a, b)
           step == [n \in 1 .. N |-> [w \in W |-> Advance(w, a, b)]]
           body(g) == [n \in 0 .. N |->
                          IF n = 0 THEN Start ELSE Advance(g[n - 1], a, b)]
           at == CHOOSE g : g = body(g)
<1>1. N \in Nat /\ Len(a) \in Nat /\ Len(b) \in Nat  OBVIOUS
<1>2. Start \in W  BY <1>1 DEF Start, Position
<1>3. step \in [1 .. N -> [W -> W]]
    <2> HIDE DEF N, W
    <2>1. \A w \in W : Advance(w, a, b) \in W  BY AdvanceType DEF W
    <2> QED  BY <2>1
<1>4. PICK g \in [0 .. N -> W] : Loop(g, N, Start, step)
    <2> HIDE DEF step, N, W
    <2> QED  BY <1>1, <1>2, <1>3, LoopExists
<1>5. \A n \in 1 .. N : n - 1 \in 0 .. N /\ n \in 0 .. N /\ n # 0  BY <1>1
<1>6. g = body(g)
    <2>1. \A n \in 0 .. N : g[n] = body(g)[n]
        <3> TAKE n \in 0 .. N
        <3>1. CASE n = 0  BY <3>1, <1>4 DEF Loop
        <3>2. CASE n # 0
            <4>1. n \in 1 .. N  BY <3>2, <1>1
            <4>2. g[n] = step[n][g[n - 1]] /\ g[n - 1] \in W
                BY <4>1, <1>4, <1>5 DEF Loop
            <4> HIDE DEF N, W
            <4>3. g[n] = Advance(g[n - 1], a, b)  BY <4>1, <4>2
            <4> QED  BY <4>3, <3>2
        <3> QED  BY <3>1, <3>2
    <2> HIDE DEF N, step, W
    <2> QED  BY <2>1
<1>7. at = body(at)
    <2> HIDE DEF body
    <2> QED  BY <1>6
<1>8. set_difference(a, b) = at[N].result  BY DEF set_difference, Start
<1> HIDE DEF at, N, W
<1>9. \A n \in 0 .. N : at[n] = IF n = 0 THEN Start ELSE Advance(at[n - 1], a, b)
    BY <1>7
<1>10. at[0] = Start  BY <1>1, <1>9
<1>11. \A n \in 1 .. N : at[n] = Advance(at[n - 1], a, b)  BY <1>5, <1>9
<1>12. \A n \in 0 .. N : at[n] \in W
    <2> DEFINE Good == {n \in Nat : n <= N => at[n] \in W}
    <2>1. 0 \in Good  BY <1>2, <1>10
    <2>2. ASSUME NEW n \in Nat, n \in Good
          PROVE  n + 1 \in Good
        <3> SUFFICES ASSUME n + 1 <= N PROVE at[n + 1] \in W  OBVIOUS
        <3>1. n + 1 \in 1 .. N /\ n + 1 - 1 = n /\ at[n] \in W  BY <2>2, <1>1
        <3>2. at[n + 1] = Advance(at[n], a, b)  BY <3>1, <1>11
        <3>3. Advance(at[n], a, b) \in W  BY <3>1, AdvanceType DEF W
        <3> QED  BY <3>2, <3>3
    <2>3. Nat \subseteq Good
        <3> HIDE DEF Good
        <3> QED  BY <2>1, <2>2, NatSet
    <2> QED  BY <2>3, <1>1
<1>13. at \in [0 .. N -> W]
    <2>1. at = [n \in 0 .. N |-> body(at)[n]]  BY <1>7
    <2> HIDE DEF body
    <2> QED  BY <2>1, <1>12
<1>14. Walks(at, a, b)  BY <1>10, <1>11, <1>13 DEF Walks, N, W
<1> QED  BY <1>8, <1>14 DEF N

\* How far a walk is after n steps: what it has passed in the first sequence is
\* in the result or in the second one, and it passes something in every step.
LEMMA DifferenceWalk ==
    ASSUME NEW a \in Seq(Nat), NEW b \in Seq(Nat), NEW g, Walks(g, a, b),
           NEW n \in 0 .. Len(a) + Len(b)
    PROVE  /\ g[n] \in Position(a, b)
           /\ \A k \in 1 .. g[n].first - 1 : a[k] \in g[n].result \cup Range(b)
           /\ g[n].first > Len(a) \/ g[n].first + g[n].second >= n + 2
<1> DEFINE N == Len(a) + Len(b)
           Passed(w) == \A k \in 1 .. w.first - 1 : a[k] \in w.result \cup Range(b)
           Far(w, m) == w.first > Len(a) \/ w.first + w.second >= m + 2
           Good == {m \in Nat : m <= N => Passed(g[m]) /\ Far(g[m], m)}
<1>1. N \in Nat /\ Len(a) \in Nat /\ Len(b) \in Nat  OBVIOUS
<1>2. \A m \in 0 .. N : g[m] \in Position(a, b)
    BY DEF Walks
<1>3. 0 \in Good
    <2>1. g[0] = Start  BY DEF Walks
    <2> QED  BY <2>1, <1>1 DEF Start
<1>4. ASSUME NEW m \in Nat, m \in Good
      PROVE  m + 1 \in Good
    <2> SUFFICES ASSUME m + 1 <= N
                 PROVE  Passed(g[m + 1]) /\ Far(g[m + 1], m + 1)
        OBVIOUS
    <2> DEFINE w == g[m]
               v == g[m + 1]
    <2>1. w \in Position(a, b) /\ Passed(w) /\ Far(w, m)  BY <1>1, <1>2, <1>4
    <2>2. v = Advance(w, a, b)
        <3>1. m + 1 \in 1 .. N /\ m + 1 - 1 = m  BY <1>1
        <3> QED  BY <3>1 DEF Walks
    <2>3. /\ w.first \in 1 .. Len(a) + 1 /\ w.second \in 1 .. Len(b) + 1
          /\ w = [first |-> w.first, second |-> w.second, result |-> w.result]
        BY <2>1 DEF Position
    <2> HIDE DEF w, v
    <2> DEFINE k == w.first
               l == w.second
    <2>4. CASE k > Len(a)
        <3>1. v = w  BY <2>2, <2>4 DEF Advance
        <3>2. Passed(v)  BY <2>1, <3>1
        <3>3. Far(v, m + 1)  BY <2>4, <3>1
        <3> QED  BY <3>2, <3>3 DEF v
    <2>5. CASE k <= Len(a) /\ (l > Len(b) \/ a[k] < b[l])
        <3>1. v = [w EXCEPT !.first = @ + 1, !.result = @ \cup {a[k]}]
            BY <2>2, <2>3, <2>5, <1>1 DEF Advance
        <3>2. v.first = k + 1 /\ v.second = l /\ v.result = w.result \cup {a[k]}
            BY <2>3, <3>1
        <3>3. Passed(v)
            <4>1. \A i \in 1 .. k : i \in 1 .. k - 1 \/ i = k  BY <2>3
            <4>2. 1 .. v.first - 1 = 1 .. k  BY <2>3, <3>2
            <4> QED  BY <2>1, <3>2, <4>1, <4>2
        <3>4. Far(v, m + 1)
            <4>1. k \in Nat /\ l \in Nat  BY <2>3
            <4>2. k + l >= m + 2  BY <2>1, <2>5, <4>1, <1>1
            <4>3. k + 1 + l >= m + 1 + 2  BY <4>1, <4>2
            <4> QED  BY <4>3, <3>2
        <3> QED  BY <3>3, <3>4 DEF v
    <2>6. CASE k <= Len(a) /\ ~ (l > Len(b) \/ a[k] < b[l]) /\ b[l] < a[k]
        <3>1. v = [w EXCEPT !.second = @ + 1]
            BY <2>2, <2>3, <2>6, <1>1 DEF Advance
        <3>2. v.first = k /\ v.second = l + 1 /\ v.result = w.result
            BY <2>3, <3>1
        <3>3. Passed(v)  BY <2>1, <3>2
        <3>4. Far(v, m + 1)  BY <2>1, <2>3, <2>6, <3>2, <1>1
        <3> QED  BY <3>3, <3>4 DEF v
    <2>7. CASE k <= Len(a) /\ ~ (l > Len(b) \/ a[k] < b[l]) /\ ~ (b[l] < a[k])
        <3>1. v = [w EXCEPT !.first = @ + 1, !.second = @ + 1]
            BY <2>2, <2>3, <2>7, <1>1 DEF Advance
        <3>2. v.first = k + 1 /\ v.second = l + 1 /\ v.result = w.result
            BY <2>3, <3>1
        <3>3. a[k] \in Range(b)
            <4>1. k \in 1 .. Len(a) /\ l \in 1 .. Len(b)  BY <1>1, <2>3, <2>7
            <4>2. a[k] \in Nat /\ b[l] \in Nat  BY <4>1, ElementOfSeq
            <4>3. a[k] = b[l]  BY <4>1, <4>2, <2>7, SMTT(40)
            <4> QED  BY <4>1, <4>3 DEF Range
        <3>4. Passed(v)
            <4>1. \A i \in 1 .. k : i \in 1 .. k - 1 \/ i = k  BY <2>3
            <4>2. 1 .. v.first - 1 = 1 .. k  BY <2>3, <3>2
            <4> QED  BY <2>1, <3>2, <3>3, <4>1, <4>2
        <3>5. Far(v, m + 1)
            <4>1. k \in Nat /\ l \in Nat  BY <2>3
            <4>2. k + l >= m + 2  BY <2>1, <2>7, <4>1, <1>1
            <4>3. k + 1 + (l + 1) >= m + 1 + 2  BY <4>1, <4>2, SMTT(40)
            <4> QED  BY <4>3, <3>2
        <3> QED  BY <3>4, <3>5 DEF v
    <2>8. k \in Nat /\ Len(a) \in Nat  BY <2>3, <1>1
    <2> QED  BY <2>4, <2>5, <2>6, <2>7, <2>8
<1>5. Nat \subseteq Good
    <2> HIDE DEF Good
    <2> QED  BY <1>3, <1>4, NatSet
<1>6. n \in Nat /\ n <= N  BY <1>1
<1>7. Passed(g[n]) /\ Far(g[n], n)
    <2>1. n \in Good  BY <1>5, <1>6
    <2> QED  BY <2>1, <1>6
<1> QED  BY <1>2, <1>7

\* Whatever the order of the sequences, nothing is missed that is in the first
\* one only.
LEMMA NothingMissed ==
    ASSUME NEW a \in Seq(Nat), NEW b \in Seq(Nat)
    PROVE  Range(a) \ Range(b) \subseteq set_difference(a, b)
           /\ set_difference(a, b) \subseteq Range(a)
<1> DEFINE N == Len(a) + Len(b)
<1>1. PICK g : Walks(g, a, b) /\ set_difference(a, b) = g[N].result
    BY DifferenceLoop
<1>2. N \in 0 .. N /\ Len(a) \in Nat /\ Len(b) \in Nat  OBVIOUS
<1>3. /\ g[N] \in Position(a, b)
      /\ \A k \in 1 .. g[N].first - 1 : a[k] \in g[N].result \cup Range(b)
      /\ g[N].first > Len(a) \/ g[N].first + g[N].second >= N + 2
    BY <1>1, <1>2, DifferenceWalk
<1>4. /\ g[N].first \in 1 .. Len(a) + 1 /\ g[N].second \in 1 .. Len(b) + 1
      /\ g[N].result \subseteq Range(a)
    BY <1>3 DEF Position
<1>5. g[N].first = Len(a) + 1  BY <1>2, <1>3, <1>4, SMTT(40)
<1>6. \A k \in 1 .. Len(a) : a[k] \in g[N].result \cup Range(b)  BY <1>2, <1>3, <1>5
<1>7. \A x \in Range(a) : \E k \in 1 .. Len(a) : x = a[k]  BY DEF Range
<1> QED  BY <1>1, <1>4, <1>6, <1>7, ZenonT(40)

Ascending(s) == \A m, n \in 1 .. Len(s) : m < n => s[m] < s[n]

\* In ascending sequences nothing is taken for removed that is in both.
LEMMA NothingTooMuch ==
    ASSUME NEW a \in Seq(Nat), NEW b \in Seq(Nat), Ascending(a), Ascending(b)
    PROVE  set_difference(a, b) \cap Range(b) = {}
<1> DEFINE N == Len(a) + Len(b)
           Behind(w) == w.first <= Len(a) =>
                            \A l \in 1 .. w.second - 1 : b[l] < a[w.first]
           Apart(w) == w.result \cap Range(b) = {}
<1>1. PICK g : Walks(g, a, b) /\ set_difference(a, b) = g[N].result
    BY DifferenceLoop
<1>2. N \in Nat /\ Len(a) \in Nat /\ Len(b) \in Nat
      /\ (\A k \in 1 .. Len(a) : a[k] \in Nat) /\ (\A l \in 1 .. Len(b) : b[l] \in Nat)
    OBVIOUS
<1>t. \A x, y, z \in Nat : x < y /\ y < z => x < z  OBVIOUS
<1> DEFINE Good == {m \in Nat : m <= N => Behind(g[m]) /\ Apart(g[m])}
<1>3. 0 \in Good
    <2>1. g[0] = Start  BY <1>1 DEF Walks
    <2>2. 1 .. 1 - 1 = {}  OBVIOUS
    <2> QED  BY <2>1, <2>2, <1>2 DEF Start
<1>4. ASSUME NEW m \in Nat, m \in Good
      PROVE  m + 1 \in Good
    <2> SUFFICES ASSUME m + 1 <= N
                 PROVE  Behind(g[m + 1]) /\ Apart(g[m + 1])
        OBVIOUS
    <2> DEFINE w == g[m]
               v == g[m + 1]
    <2>1. w \in Position(a, b) /\ Behind(w) /\ Apart(w)
        <3>1. m \in 0 .. N /\ m <= N  BY <1>2
        <3>2. w \in Position(a, b)  BY <3>1, <1>1 DEF Walks
        <3>3. Behind(w) /\ Apart(w)  BY <3>1, <1>4
        <3> QED  BY <3>2, <3>3
    <2>2. v = Advance(w, a, b)
        <3>1. m + 1 \in 1 .. N /\ m + 1 - 1 = m  BY <1>2
        <3> QED  BY <3>1, <1>1 DEF Walks
    <2>3. /\ w.first \in 1 .. Len(a) + 1 /\ w.second \in 1 .. Len(b) + 1
          /\ w = [first |-> w.first, second |-> w.second, result |-> w.result]
        BY <2>1 DEF Position
    <2> HIDE DEF w, v
    <2> DEFINE k == w.first
               l == w.second
    <2>4. CASE k > Len(a)
        <3>1. v = w  BY <2>2, <2>4 DEF Advance
        <3> QED  BY <2>1, <3>1 DEF v
    <2>5. CASE k <= Len(a) /\ (l > Len(b) \/ a[k] < b[l])
        <3>1. v = [w EXCEPT !.first = @ + 1, !.result = @ \cup {a[k]}]
            BY <2>2, <2>3, <2>5, <1>2 DEF Advance
        <3>2. v.first = k + 1 /\ v.second = l /\ v.result = w.result \cup {a[k]}
            BY <2>3, <3>1
        <3>3. k \in 1 .. Len(a)  BY <2>3, <2>5
        <3>4. \A i \in 1 .. l - 1 : i \in 1 .. Len(b) /\ b[i] < a[k]
            <4>1. \A i \in 1 .. l - 1 : i \in 1 .. Len(b)  BY <2>3, <1>2
            <4> QED  BY <2>1, <2>5, <4>1
        <3>5. Behind(v)
            <4> SUFFICES ASSUME k + 1 <= Len(a), NEW i \in 1 .. l - 1
                         PROVE  b[i] < a[k + 1]
                BY <3>2
            <4>1. a[k] < a[k + 1]
                <5>1. k + 1 \in 1 .. Len(a) /\ k < k + 1  BY <3>3, <1>2
                <5> QED  BY <3>3, <5>1 DEF Ascending
            <4>2. b[i] < a[k]  BY <3>4
            <4>3. b[i] \in Nat /\ a[k] \in Nat /\ a[k + 1] \in Nat
                <5>1. k + 1 \in 1 .. Len(a)  BY <3>3, SMTT(40)
                <5> QED  BY <3>3, <3>4, <5>1, <1>2
            <4> QED  BY <4>1, <4>2, <4>3, <1>t
        <3>6. a[k] \notin Range(b)
            <4> SUFFICES ASSUME NEW i \in 1 .. Len(b), b[i] = a[k]
                         PROVE  FALSE
                <5>1. Range(b) = {b[i] : i \in 1 .. Len(b)}  BY DEF Range
                <5> QED  BY <5>1
            <4>1. a[k] \in Nat /\ b[i] \in Nat  BY <3>3, <1>2
            <4>2. ~ (i \in 1 .. l - 1)  BY <3>4, <4>1
            <4>3. i >= l  BY <4>2, <2>3
            <4>4. l \in 1 .. Len(b) /\ a[k] < b[l]  BY <4>3, <2>3, <2>5, SMTT(40)
            <4>5. CASE i = l  BY <4>1, <4>4, <4>5
            <4>6. CASE i > l
                <5>1. b[l] < b[i]  BY <4>4, <4>6 DEF Ascending
                <5>2. b[l] \in Nat  BY <4>4, <1>2
                <5>3. a[k] < b[i]  BY <5>1, <5>2, <4>1, <4>4, <1>t
                <5> QED  BY <5>3, <4>1
            <4> QED  BY <4>3, <4>5, <4>6, <4>4
        <3>7. Apart(v)  BY <2>1, <3>2, <3>6
        <3> QED  BY <3>5, <3>7 DEF v
    <2>6. CASE k <= Len(a) /\ ~ (l > Len(b) \/ a[k] < b[l]) /\ b[l] < a[k]
        <3>1. v = [w EXCEPT !.second = @ + 1]
            BY <2>2, <2>3, <2>6, <1>2 DEF Advance
        <3>2. v.first = k /\ v.second = l + 1 /\ v.result = w.result
            BY <2>3, <3>1
        <3>3. Behind(v)
            <4>1. \A i \in 1 .. l : i \in 1 .. l - 1 \/ i = l  BY <2>3
            <4>2. 1 .. v.second - 1 = 1 .. l  BY <2>3, <3>2
            <4> QED  BY <2>1, <2>6, <3>2, <4>1, <4>2
        <3>4. Apart(v)  BY <2>1, <3>2
        <3> QED  BY <3>3, <3>4 DEF v
    <2>7. CASE k <= Len(a) /\ ~ (l > Len(b) \/ a[k] < b[l]) /\ ~ (b[l] < a[k])
        <3>1. v = [w EXCEPT !.first = @ + 1, !.second = @ + 1]
            BY <2>2, <2>3, <2>7, <1>2 DEF Advance
        <3>2. v.first = k + 1 /\ v.second = l + 1 /\ v.result = w.result
            BY <2>3, <3>1
        <3>3. k \in 1 .. Len(a) /\ l \in 1 .. Len(b)  BY <1>2, <2>3, <2>7
        <3>4. a[k] = b[l]
            <4>1. a[k] \in Nat /\ b[l] \in Nat  BY <3>3, <1>2
            <4> QED  BY <4>1, <3>3, <2>7, SMTT(40)
        <3>5. Behind(v)
            <4> SUFFICES ASSUME k + 1 <= Len(a), NEW i \in 1 .. l
                         PROVE  b[i] < a[k + 1]
                <5>1. 1 .. v.second - 1 = 1 .. l  BY <2>3, <3>2
                <5> QED  BY <3>2, <5>1
            <4>1. k + 1 \in 1 .. Len(a) /\ k < k + 1  BY <3>3, <1>2, SMTT(40)
            <4>2. a[k] < a[k + 1]  BY <3>3, <4>1 DEF Ascending
            <4>3. i \in 1 .. Len(b) /\ (i < l \/ i = l)  BY <3>3
            <4>4. b[i] < b[l] \/ i = l  BY <3>3, <4>3 DEF Ascending
            <4>5. a[k + 1] \in Nat /\ b[l] \in Nat /\ b[i] \in Nat
                BY <3>3, <4>1, <4>3, <1>2
            <4>6. b[l] < a[k + 1]  BY <3>4, <4>2
            <4>7. CASE b[i] < b[l]  BY <4>5, <4>6, <4>7, <1>t
            <4>8. CASE i = l  BY <4>6, <4>8
            <4> QED  BY <4>4, <4>7, <4>8
        <3>6. Apart(v)  BY <2>1, <3>2
        <3> QED  BY <3>5, <3>6 DEF v
    <2>8. k \in Nat /\ Len(a) \in Nat  BY <2>3, <1>2
    <2> QED  BY <2>4, <2>5, <2>6, <2>7, <2>8
<1>5. Nat \subseteq Good
    <2> HIDE DEF Good
    <2> QED  BY <1>3, <1>4, NatSet
<1>6. N \in Good  BY <1>2, <1>5
<1>7. Apart(g[N])  BY <1>2, <1>6
<1> QED  BY <1>1, <1>7

-----------------------------------------------------------------------------
(***************************************************************************)
(* The inductive invariant.                                                *)
(***************************************************************************)
\* How many calls of the first and of the second view a member has delivered.
DeliveredOne(i) ==
    IF view[i] = 1 THEN delivered[i] ELSE IF i \in First THEN cut ELSE 0

DeliveredTwo(i) == IF view[i] = 2 THEN delivered[i] ELSE 0

Ordered == Range(order[1]) \cup Range(order[2])

\* The calls that their callers have not delivered in the cleanup, and those
\* which member k has not executed, or has not survived.
CallerMissed == {c \in DOMAIN calls : c \in missing[calls[c].caller]}

Unseen(k) == missing[k] \cup CallerMissed

DeliveredAt(n, c) ==
    \/ c \notin Unseen(n) /\ \E p \in 1 .. DeliveredOne(n) : order[1][p] = c
    \/ \E p \in 1 .. DeliveredTwo(n) : order[2][p] = c

\* Calls that have left their caller: all but those that wait in send().
Unsent == {app[i].call : i \in {k \in Node : app[k].pc \in {"buffer", "spinning"}}}

Sent == DOMAIN calls \ Unsent

Joining(i) == phase[i] \in {"joining", "joined"}

\* The phases of a view change, and that the members it removes have crashed.
PhasesFit ==
    \A i \in Node :
        /\ view[i] = 2 =>
               /\ Len(views) = 2 /\ i \in Second
               /\ phase[i] \in {"installed", "running"} /\ cut <= MaxCalls
        /\ view[i] = 1 => phase[i] # "installed"
        /\ Joining(i) => view[i] = 1 /\ i \notin First /\ delivered[i] = 0
        /\ view[i] = 1 /\ ~ Joining(i) => i \in First
        /\ phase[i] \in {"cleaning", "joined"} => cut <= MaxCalls
        /\ phase[i] \in {"wedged", "cleaning", "joined"} \/ view[i] = 2 =>
               Len(views) = 2 /\ \A j \in First \ Second : state[j] = "crashed"

\* Nobody gets beyond the limit once it is settled.
CutFits ==
    cut <= MaxCalls =>
        /\ cut <= Len(order[1])
        /\ \A i \in First : view[i] = 1 =>
               /\ delivered[i] <= cut
               /\ Running(i) => phase[i] \in {"wedged", "cleaning"}

\* What a member has not received lies within the limit; of the calls of one
\* caller it is the end.
MissingFits ==
    /\ cut > MaxCalls => \A i \in Node : missing[i] = {}
    /\ \A i \in Node : cut <= MaxCalls => CutShort(missing[i], cut)
    /\ \A i \in Node : missing[i] \subseteq Range(order[1])

\* A call is in the order of a view once, and in that of both only if it is
\* sent again because it lies beyond the limit or its caller has not received it.
OrdersFit ==
    /\ \A i \in Node : delivered[i] <= Len(order[view[i]])
    /\ \A v \in 1 .. 2 : IsInjective(order[v]) /\ Range(order[v]) \subseteq Sent
    /\ \A c \in Range(order[2]) : view[calls[c].caller] = 2
    /\ \A p \in 1 .. Len(order[1]), q \in 1 .. Len(order[2]) :
           order[1][p] = order[2][q] => cut < p \/ order[1][p] \in CallerMissed

\* The application is busy with a call of its own.
AppFits ==
    /\ \A i \in Node : app[i].pc # "idle" => app[i].call \in CallsOf(i)
    /\ \A i \in Node : app[i].pc = "written" => ~ ToGroup(app[i].call)
    /\ \A c \in DOMAIN calls : ~ Joining(calls[c].caller)

\* A member executes a call when it delivers it, or once for a request.
ExecutionsFit ==
    \A c \in Call, n \in Node :
        /\ executions[c][n] \in {0, 1}
        /\ executions[c][n] = 1 => c \in Sent
        /\ Running(n) /\ executions[c][n] = 1 /\ c \in Ordered => DeliveredAt(n, c)

\* A result comes from who has executed the call, an exception for a removed member
\* from the installation of the second view.
OutcomesFit ==
    \A c \in Call, n \in Node :
        /\ outcomes[c][n] \in {"value", "exception"} => executions[c][n] = 1
        /\ outcomes[c][n] = "removed" =>
               c \in DOMAIN calls /\ view[calls[c].caller] = 2 /\ n \in RemovedMembers

\* A request on its way is not executed, an answer on its way is and is not known.
PacketFits(i, j, m) ==
    /\ i # j
    /\ m.call \in Sent
    /\ m.kind = "request" =>
           /\ calls[m.call] = CallTo(i, {j})
           /\ m.call \notin Ordered
           /\ executions[m.call][j] = 0
    /\ m.kind # "request" =>
           /\ calls[m.call].caller = j
           /\ executions[m.call][i] = 1
           /\ outcomes[m.call][i] \in {"none", "removed"}

PacketsFit ==
    \A i, j \in Node :
        /\ \A k \in 1 .. Len(chan[i][j]) : PacketFits(i, j, chan[i][j][k])
        /\ \A k, l \in 1 .. Len(chan[i][j]) :
               chan[i][j][k].call = chan[i][j][l].call => k = l

\* Who is to answer a call to the group was in one of the views.
FulfilledFits ==
    /\ \A i \in Node : fulfilledList[i] \subseteq CallsOf(i)
    /\ \A i \in Node : Range(toFulfillQueue[i]) \subseteq CallsOf(i) \cap GroupCalls
    /\ \A c \in Call : dest_nodes[c] # {} =>
           c \in DOMAIN calls /\ c \in fulfilledList[calls[c].caller]
    /\ \A c \in GroupCalls : dest_nodes[c] \subseteq First \cup Second

\* A member that runs in the second view waits for nobody who is not in it.
AnswersFit ==
    \A i \in Node : view[i] = 2 /\ phase[i] = "running" =>
        \A c \in fulfilledList[i] : ToGroup(c) =>
            \A n \in dest_nodes[c] \ Second : Satisfied(c, n)

\* What a member has yet to deliver, and its own calls to the group on their way
\* to toFulfillQueue.
Coming(i) == SubSeq(order[view[i]], delivered[i] + 1, Len(order[view[i]]))

Pushing(i) == IF app[i].pc = "sent" THEN <<app[i].call>> ELSE <<>>

OwnGroupCalls(i) == CallsOf(i) \cap GroupCalls

Passed(i) == SubSeq(order[view[i]], 1, delivered[i])

\* Its own calls to the group that a member has passed over.
PassedOver(i) == Select(Passed(i), {c \in OwnGroupCalls(i) : NotHere(i, c)})

\* The queue of pending results is what the member has passed over of its own and
\* what it has yet to deliver of its own.
QueuesFit ==
    \A i \in Node : Running(i) =>
        toFulfillQueue[i] \o Select(Pushing(i), OwnGroupCalls(i))
            = PassedOver(i) \o Select(Coming(i), OwnGroupCalls(i))

\* The objects of a member, or those it has got from the leader, have seen the calls
\* to the group of the first view but for what was passed over, and those the member
\* has delivered since.  A member that executes in the cleanup what the caller has
\* not received has no socket for the reply, and stops.
Copied(i) == IF i \in First THEN i ELSE Head(views[1])

SeenOne(i) == IF view[i] = 1 /\ phase[i] # "joined" THEN delivered[i] ELSE cut

SeenCalls(i) == GroupCalls \ Unseen(Copied(i))

ObjectsFit ==
    \A i \in Node : Running(i) /\ phase[i] # "joining" =>
        objects[i] = Select(SubSeq(order[1], 1, SeenOne(i)), SeenCalls(i))
                     \o Select(SubSeq(order[2], 1, DeliveredTwo(i)), GroupCalls)

IInv ==
    /\ TypeOK
    /\ PhasesFit
    /\ CutFits
    /\ MissingFits
    /\ OrdersFit
    /\ AppFits
    /\ ExecutionsFit
    /\ OutcomesFit
    /\ PacketsFit
    /\ FulfilledFits
    /\ AnswersFit
    /\ QueuesFit
    /\ ObjectsFit

-----------------------------------------------------------------------------
(***************************************************************************)
(* Facts about a state that satisfies the invariant.                       *)
(***************************************************************************)
USE CallsAssumption

LEMMA ViewsType ==
    ASSUME views \in Plans
    PROVE  /\ views \in Seq(Seq(Nat)) /\ Len(views) \in {1, 2}
           /\ views[1] \in Seq(Nat) /\ views[Len(views)] \in Seq(Nat)
           /\ First \subseteq Node /\ Second \subseteq Node
           /\ First \subseteq Nat /\ Second \subseteq Nat
<1>1. views \in Seq(Seq(Nat)) /\ Len(views) \in {1, 2}  BY DEF CallsAssumption
<1>2. 1 \in DOMAIN views /\ Len(views) \in DOMAIN views  BY <1>1
<1>3. views[1] \in Seq(Nat) /\ views[Len(views)] \in Seq(Nat)  BY <1>1, <1>2
<1>4. \A v \in DOMAIN views : Range(views[v]) \subseteq Node  BY DEF Node
<1>5. \A s \in Seq(Nat) : Range(s) \subseteq Nat  BY DEF Range
<1> QED  BY <1>1, <1>2, <1>3, <1>4, <1>5 DEF First, Second

\* As many calls fit into an order as there are.
LEMMA OrderBound ==
    ASSUME NEW s \in Seq(Call), IsInjective(s)
    PROVE  Len(s) <= MaxCalls
<1>1. MaxCalls \in Nat /\ Len(s) \in Nat  BY DEF CallsAssumption
<1>2. s \in Injection(1 .. Len(s), Call)  BY DEF Injection
<1>3. \A n \in Nat : IsFiniteSet(1 .. n) /\ Cardinality(1 .. n) = n
    <2> TAKE n \in Nat
    <2>1. 1 \in Int /\ n \in Int /\ (1 > n => n = 0) /\ n - 1 + 1 = n  OBVIOUS
    <2>2. IsFiniteSet(1 .. n) /\ Cardinality(1 .. n) = IF 1 > n THEN 0 ELSE n - 1 + 1
        BY <2>1, FS_Interval
    <2> QED  BY <2>1, <2>2
<1>4. IsFiniteSet(Call) /\ Cardinality(Call) = MaxCalls  BY <1>1, <1>3 DEF Call
<1>5. Cardinality(1 .. Len(s)) <= Cardinality(Call)  BY <1>2, <1>4, FS_Injection
<1> QED  BY <1>1, <1>3, <1>4, <1>5

\* What the steps write has the right type.
LEMMA ReplyKind ==
    \A n : Reply(n) \in {"value", "exception"}
BY DEF Reply

LEMMA OrderType ==
    ASSUME TypeOK, NEW i \in Node
    PROVE  /\ view[i] \in 1 .. 2 /\ order[view[i]] \in Seq(Call)
           /\ Len(order[view[i]]) \in Nat
           /\ order[1] \in Seq(Call) /\ order[2] \in Seq(Call)
           /\ delivered[i] \in Nat
BY DEF TypeOK

LEMMA ChanType ==
    ASSUME TypeOK, NEW i \in Node, NEW j \in Node
    PROVE  /\ chan[i][j] \in Seq(Message)
           /\ chan[i][j] # <<>> =>
                  /\ Head(chan[i][j]) \in Message
                  /\ Head(chan[i][j]).call \in Call /\ Head(chan[i][j]).kind \in Kind
                  /\ Tail(chan[i][j]) \in Seq(Message)
<1>1. chan[i][j] \in Seq(Message)  BY DEF TypeOK
<1>2. chan[i][j] # <<>> => Head(chan[i][j]) \in Message /\ Tail(chan[i][j]) \in Seq(Message)
    BY <1>1
<1>3. \A m \in Message : m.call \in Call /\ m.kind \in Kind  BY DEF Message
<1> QED  BY <1>1, <1>2, <1>3

\* The next call of a member that delivers.
LEMMA NextCallType ==
    ASSUME IInv, NEW i \in Node, Delivering(i)
    PROVE  /\ delivered[i] + 1 \in 1 .. Len(order[view[i]])
           /\ delivered[i] + 1 \in 0 .. MaxCalls
           /\ NextCall(i) \in Call /\ NextCall(i) \in Sent /\ NextCall(i) \in DOMAIN calls
           /\ NextCall(i) \in Range(order[view[i]]) /\ NextCall(i) \in Ordered
           /\ ~ Joining(i) /\ Running(i)
<1>1. /\ view[i] \in 1 .. 2 /\ order[view[i]] \in Seq(Call)
      /\ Len(order[view[i]]) \in Nat /\ delivered[i] \in Nat
    BY OrderType DEF IInv
<1>2. delivered[i] < Len(order[view[i]])  BY DEF Delivering
<1>3. delivered[i] + 1 \in 1 .. Len(order[view[i]])  BY <1>1, <1>2
<1>4. IsInjective(order[view[i]]) /\ Range(order[view[i]]) \subseteq Sent
    BY <1>1 DEF IInv, OrdersFit
<1>5. Len(order[view[i]]) <= MaxCalls  BY <1>1, <1>4, OrderBound
<1>6. NextCall(i) \in Call /\ NextCall(i) \in Range(order[view[i]])
    BY <1>1, <1>3 DEF NextCall, Range
<1>7. ~ Joining(i) /\ Running(i)  BY DEF Delivering, Joining
<1>8. MaxCalls \in Nat  BY DEF CallsAssumption
<1>9. Range(order[view[i]]) \subseteq Ordered
    <2>1. view[i] = 1 \/ view[i] = 2  BY <1>1
    <2> QED  BY <2>1 DEF Ordered
<1>10. delivered[i] + 1 \in 0 .. MaxCalls  BY <1>1, <1>3, <1>5, <1>8
<1>11. NextCall(i) \in Sent /\ NextCall(i) \in DOMAIN calls  BY <1>4, <1>6 DEF Sent
<1> QED  BY <1>3, <1>6, <1>7, <1>9, <1>10, <1>11

LEMMA CallsType ==
    ASSUME TypeOK
    PROVE  /\ calls \in Seq(Made)
           /\ DOMAIN calls = 1 .. Len(calls) /\ Len(calls) \in Nat
           /\ DOMAIN calls \subseteq Call /\ GroupCalls \subseteq Call
           /\ \A c \in DOMAIN calls : calls[c].caller \in Callers /\ calls[c].nodes \subseteq Node
           /\ Callers \subseteq Node /\ MaxCalls \in Nat
<1>1. calls \in Seq(Made)  BY DEF TypeOK
<1>2. Callers \subseteq Node /\ MaxCalls \in Nat  BY DEF CallsAssumption
<1>3. \A r \in Made : r.caller \in Callers /\ r.nodes \subseteq Node  BY DEF Made
<1>4. DOMAIN calls = 1 .. Len(calls) /\ Len(calls) \in Nat  BY <1>1
<1>5. \A c \in DOMAIN calls : calls[c] \in Made  BY <1>1
<1>6. DOMAIN calls \subseteq Call
    <2>1. Len(calls) <= MaxCalls  BY DEF TypeOK
    <2> QED  BY <1>2, <1>4, <2>1 DEF Call
<1>7. GroupCalls \subseteq Call  BY <1>6 DEF GroupCalls
<1> QED  BY <1>1, <1>2, <1>3, <1>4, <1>5, <1>6, <1>7

LEMMA ActivityType ==
    ASSUME TypeOK, NEW i \in Node
    PROVE  /\ app[i] \in Activity /\ Idle \in Activity
           /\ app[i].call \in 0 .. MaxCalls
           /\ \A pc \in {"idle", "buffer", "sent", "spinning", "written"} :
                  [app[i] EXCEPT !.pc = pc] \in Activity
           /\ \A c \in 0 .. MaxCalls : [Idle EXCEPT !.pc = "buffer", !.call = c] \in Activity
           /\ \A c \in 0 .. MaxCalls, g \in {0, 1, 2} :
                  [pc |-> "written", call |-> c, group |-> g] \in Activity
<1>1. app[i] \in Activity  BY DEF TypeOK
<1>2. Idle \in Activity
    <2>1. 0 \in 0 .. MaxCalls  BY CallsType
    <2> QED  BY <2>1 DEF Activity, Idle
<1>3. /\ app[i].call \in 0 .. MaxCalls
      /\ \A pc \in {"idle", "buffer", "sent", "spinning", "written"} :
             [app[i] EXCEPT !.pc = pc] \in Activity
    BY <1>1 DEF Activity
<1>4. \A c \in 0 .. MaxCalls : [Idle EXCEPT !.pc = "buffer", !.call = c] \in Activity
    BY DEF Activity, Idle
<1>5. \A c \in 0 .. MaxCalls, g \in {0, 1, 2} :
          [pc |-> "written", call |-> c, group |-> g] \in Activity
    BY DEF Activity
<1> QED  BY <1>1, <1>2, <1>3, <1>4, <1>5

\* A new call, whose number is the next one.
LEMMA NewCall ==
    ASSUME TypeOK, NEW i \in Callers, NEW nodes \in SUBSET Node, Len(calls) < MaxCalls,
           calls' = Append(calls, CallTo(i, nodes))
    PROVE  /\ Len(calls') = Len(calls) + 1 /\ Len(calls') \in Call
           /\ Len(calls') \in 0 .. MaxCalls /\ Len(calls') <= MaxCalls
           /\ Len(calls') \notin DOMAIN calls
           /\ DOMAIN calls' = DOMAIN calls \cup {Len(calls')}
           /\ calls'[Len(calls')] = CallTo(i, nodes)
           /\ \A c \in DOMAIN calls : calls'[c] = calls[c]
           /\ calls' \in Seq(Made)
<1>1. /\ calls \in Seq(Made)
      /\ DOMAIN calls = 1 .. Len(calls) /\ Len(calls) \in Nat /\ MaxCalls \in Nat
    BY CallsType
<1>2. CallTo(i, nodes) \in Made  BY DEF CallTo, Made
<1>3. calls' \in Seq(Made) /\ Len(calls') = Len(calls) + 1
    BY <1>1, <1>2
<1>4. DOMAIN calls' = 1 .. Len(calls) + 1  BY <1>3
<1>5. 1 .. Len(calls) + 1 = (1 .. Len(calls)) \cup {Len(calls) + 1}  BY <1>1
<1>6. calls'[Len(calls) + 1] = CallTo(i, nodes)
      /\ \A c \in 1 .. Len(calls) : calls'[c] = calls[c]
    BY <1>1, <1>2
<1> QED  BY <1>1, <1>3, <1>4, <1>5, <1>6 DEF Call

-----------------------------------------------------------------------------
(***************************************************************************)
(* The steps.                                                              *)
(***************************************************************************)
LEMMA ArrivingType ==
    ASSUME NEW i \in Node, NEW j \in Node, NEW m \in Message
    PROVE  Arriving(i, j, m) \in Seq(Message) /\ Arriving(i, j, m) \in {<<>>, <<m>>}
BY DEF Arriving

LEMMA WriteType ==
    ASSUME TypeOK, NEW i \in Node, NEW j \in Node, NEW m \in Message,
           write(i, j, m)
    PROVE  chan' \in [Node -> [Node -> Seq(Message)]]
<1>1. chan[i][j] \o Arriving(i, j, m) \in Seq(Message)
    BY ChanType, ArrivingType
<1>2. chan \in [Node -> [Node -> Seq(Message)]]  BY DEF TypeOK
<1> QED  BY <1>1, <1>2 DEF write

LEMMA UnreadType ==
    ASSUME TypeOK, NEW i \in Node
    PROVE  /\ Unread(i) \in [Node -> [Node -> Seq(Message)]]
           /\ \A m, n \in Node :
                  Unread(i)[m][n] = IF n = i THEN <<>> ELSE chan[m][n]
<1>1. chan \in [Node -> [Node -> Seq(Message)]] /\ <<>> \in Seq(Message)
    BY DEF TypeOK
<1> QED  BY <1>1 DEF Unread

LEMMA FulfilType ==
    ASSUME TypeOK, NEW i \in Node, NEW c \in Call, NEW nodes, nodes \subseteq Node,
           Fulfil(i, c, nodes)
    PROVE  /\ fulfilledList' \in [Node -> SUBSET Call]
           /\ dest_nodes' \in [Call -> SUBSET Node]
<1>1. fulfilledList \in [Node -> SUBSET Call] /\ dest_nodes \in [Call -> SUBSET Node]
    BY DEF TypeOK
<1> QED  BY <1>1 DEF Fulfil

LEMMA ExecuteType ==
    ASSUME TypeOK, NEW c \in Call, NEW n \in Node, Execute(c, n)
    PROVE  executions' \in [Call -> [Node -> Nat]] /\ objects' \in [Node -> Seq(Call)]
<1>1. executions' \in [Call -> [Node -> Nat]]  BY SMTT(40) DEF Execute, TypeOK
<1>2. objects' \in [Node -> Seq(Call)]  BY DEF Execute, TypeOK
<1> QED  BY <1>1, <1>2

LEMMA BusyCall ==
    ASSUME IInv, NEW i \in Node, app[i].pc # "idle"
    PROVE  /\ app[i].call \in Call /\ app[i].call \in DOMAIN calls
           /\ calls[app[i].call].caller = i
<1>1. app[i].call \in CallsOf(i)  BY DEF IInv, AppFits
<1>2. app[i].call \in 0 .. MaxCalls  BY ActivityType DEF IInv
<1>3. DOMAIN calls = 1 .. Len(calls) /\ Len(calls) \in Nat /\ MaxCalls \in Nat
    BY CallsType DEF IInv
<1> QED  BY <1>1, <1>2, <1>3 DEF CallsOf, Call

LEMMA MembersType ==
    ASSUME TypeOK, PhasesFit, NEW i \in Node
    PROVE  members(i) \subseteq Node /\ (members(i) = First \/ members(i) = Second)
<1>1. views \in Plans /\ view[i] \in {1, 2}  BY DEF TypeOK
<1>3. First \subseteq Node /\ Second \subseteq Node  BY <1>1, ViewsType
<1>4. CASE view[i] = 1  BY <1>3, <1>4 DEF members, First
<1>5. CASE view[i] = 2  BY <1>1, <1>3, <1>5 DEF members, Second, PhasesFit
<1> QED  BY <1>1, <1>4, <1>5

LEMMA OutcomeType ==
    ASSUME TypeOK, NEW c \in Call, NEW n \in Node, NEW a \in Outcome, SetOutcome(c, n, a)
    PROVE  outcomes' \in [Call -> [Node -> Outcome]]
BY DEF SetOutcome, TypeOK

\* A request leaves the channel, its answer enters the one back.
RequestAnswered(i, j, answer) ==
    chan' = [chan EXCEPT ![j][i] = Tail(@), ![i][j] = @ \o answer]

LEMMA AnswerWritten ==
    ASSUME TypeOK, NEW i \in Node, NEW j \in Node, i # j,
           chan[j][i] # <<>>, NEW answer \in Seq(Message), RequestAnswered(i, j, answer)
    PROVE  /\ chan' \in [Node -> [Node -> Seq(Message)]]
           /\ chan'[j][i] = Tail(chan[j][i])
           /\ chan'[i][j] = chan[i][j] \o answer
           /\ \A m, n \in Node :
                  (m # i \/ n # j) /\ (m # j \/ n # i) => chan'[m][n] = chan[m][n]
<1> DEFINE tail == Tail(chan[j][i])
           more == chan[i][j] \o answer
<1>0. chan \in [Node -> [Node -> Seq(Message)]]  BY DEF TypeOK
<1>1. tail \in Seq(Message) /\ more \in Seq(Message)  BY ChanType
<1>2. chan' = [chan EXCEPT ![j][i] = tail, ![i][j] = more]
    BY DEF RequestAnswered
<1> HIDE DEF tail, more
<1>3. chan' = [[chan EXCEPT ![j] = [@ EXCEPT ![i] = tail]]
                  EXCEPT ![i] = [@ EXCEPT ![j] = more]]
    BY <1>2
<1>4. chan' \in [Node -> [Node -> Seq(Message)]]  BY <1>0, <1>1, <1>3
<1>5. chan'[j] = [chan[j] EXCEPT ![i] = tail]  BY <1>0, <1>3
<1>6. chan'[i] = [chan[i] EXCEPT ![j] = more]  BY <1>0, <1>3
<1>7. \A m \in Node \ {i, j} : chan'[m] = chan[m]  BY <1>0, <1>3
<1> QED  BY <1>0, <1>4, <1>5, <1>6, <1>7, ZenonT(40) DEF tail, more

\* Every variable keeps its type.
LEMMA TypeStep ==
    ASSUME IInv, [Next]_vars
    PROVE  TypeOK'
<1>t. TypeOK  BY DEF IInv
<1> USE <1>t
<1>1. ASSUME NEW i \in Callers, NEW nodes \in Targets, GetBuffer(i, nodes)
      PROVE  TypeOK'
    <2>1. nodes \in SUBSET Node  BY DEF CallsAssumption
    <2>2. /\ Len(calls') \in Call /\ Len(calls') \in 0 .. MaxCalls
          /\ calls' \in Seq(Made) /\ Len(calls') <= MaxCalls
        BY <1>1, <2>1, NewCall DEF GetBuffer
    <2>3. [Idle EXCEPT !.pc = "buffer", !.call = Len(calls')] \in Activity
        BY <2>2, CallsType, ActivityType
    <2> QED  BY <1>1, <2>2, <2>3 DEF TypeOK, GetBuffer, groupVars, callerVars
<1>2. ASSUME NEW i \in Callers, NEW j \in Node \ {i}, P2pWrite(i, j)
      PROVE  TypeOK'
    <2>1. {j} \in SUBSET Node /\ i \in Node  BY CallsType
    <2>2. /\ Len(calls') \in Call /\ Len(calls') \in 0 .. MaxCalls
          /\ calls' \in Seq(Made) /\ Len(calls') <= MaxCalls
        BY <1>2, <2>1, NewCall DEF P2pWrite
    <2>3. [pc |-> "written", call |-> Len(calls'), group |-> view[i]] \in Activity
        <3>1. view[i] \in {0, 1, 2}  BY <2>1 DEF TypeOK
        <3> QED  BY <2>1, <2>2, <3>1, ActivityType
    <2>4. Packet(Len(calls'), "request") \in Message
        BY <2>2 DEF Packet, Kind, Message
    <2>5. Arriving(i, j, Packet(Len(calls'), "request")) \in Seq(Message)
        BY <2>1, <2>4, ArrivingType
    <2>6. chan' \in [Node -> [Node -> Seq(Message)]]
        <3>1. chan' = chan \/ write(i, j, Packet(Len(calls'), "request"))
            BY <1>2 DEF P2pWrite
        <3> QED  BY <2>1, <2>4, <3>1, WriteType DEF TypeOK
    <2>7. state' \in [Node -> State]
        BY <1>2 DEF P2pWrite, TypeOK, Stopped, State
    <2> QED  BY <1>2, <2>2, <2>3, <2>6, <2>7 DEF TypeOK, P2pWrite, groupVars, callerVars
<1>3. ASSUME NEW i \in Node, Crash(i)
      PROVE  TypeOK'
    BY <1>3 DEF TypeOK, Crash, Stopped, State, groupVars, callerVars
<1>4. ASSUME NEW i \in Node, Wedge(i)
      PROVE  TypeOK'
    <2>1. chan' \in [Node -> [Node -> Seq(Message)]]
        BY <1>4, UnreadType DEF Wedge, TypeOK
    <2> QED  BY <1>4, <2>1 DEF TypeOK, Wedge, Phase, callerVars
<1>5. ASSUME NEW i \in Callers, SendCall(i)
      PROVE  TypeOK'
    <2>1. i \in Node /\ view[i] \in 1 .. 2 /\ order[view[i]] \in Seq(Call)
        BY CallsType, OrderType
    <2>2. app[i].call \in Call
        BY <1>5, <2>1, BusyCall DEF SendCall
    <2>3. order' \in [1 .. 2 -> Seq(Call)]
        BY <1>5, <2>1, <2>2, SMTT(40) DEF SendCall, TypeOK
    <2>4. app' \in [Node -> Activity]
        BY <1>5, <2>1, ActivityType DEF SendCall, TypeOK
    <2> QED  BY <1>5, <2>3, <2>4 DEF TypeOK, SendCall, callerVars
<1>6. ASSUME NEW i \in Callers, SendSpins(i)
      PROVE  TypeOK'
    <2>1. app' \in [Node -> Activity]
        BY <1>6, CallsType, ActivityType DEF SendSpins, TypeOK
    <2> QED  BY <1>6, <2>1 DEF TypeOK, SendSpins, groupVars, callerVars
<1>7. ASSUME NEW i \in Callers, PushPending(i)
      PROVE  TypeOK'
    <2>1. app' \in [Node -> Activity]
        BY <1>7, CallsType, ActivityType DEF PushPending, TypeOK
    <2>2. i \in Node /\ app[i].call \in Call /\ app[i].call \in DOMAIN calls
        BY <1>7, CallsType, BusyCall DEF PushPending
    <2>3. /\ toFulfillQueue' \in [Node -> Seq(Call)]
          /\ fulfilledList' \in [Node -> SUBSET Call]
          /\ dest_nodes' \in [Call -> SUBSET Node]
        <3>1. calls[app[i].call].nodes \subseteq Node  BY <2>2, CallsType
        <3>2. CASE ToGroup(app[i].call)
            <4>1. Append(toFulfillQueue[i], app[i].call) \in Seq(Call)  BY <2>2 DEF TypeOK
            <4>2. toFulfillQueue' = [toFulfillQueue EXCEPT
                                         ![i] = Append(toFulfillQueue[i], app[i].call)]
                BY <1>7, <3>2 DEF PushPending
            <4>3. toFulfillQueue' \in [Node -> Seq(Call)]  BY <4>1, <4>2 DEF TypeOK
            <4>4. UNCHANGED <<fulfilledList, dest_nodes>>  BY <1>7, <3>2 DEF PushPending
            <4> QED  BY <4>3, <4>4 DEF TypeOK
        <3>3. CASE ~ ToGroup(app[i].call)
            <4>1. Fulfil(i, app[i].call, calls[app[i].call].nodes) /\ UNCHANGED toFulfillQueue
                BY <1>7, <3>3 DEF PushPending
            <4>2. toFulfillQueue' \in [Node -> Seq(Call)]  BY <4>1 DEF TypeOK
            <4> QED  BY <2>2, <3>1, <4>1, <4>2, FulfilType
        <3> QED  BY <3>2, <3>3
    <2> QED  BY <1>7, <2>1, <2>3 DEF TypeOK, PushPending, groupVars
<1>8. ASSUME NEW i \in Callers, P2pPush(i)
      PROVE  TypeOK'
    <2>1. app' \in [Node -> Activity]
        BY <1>8, CallsType, ActivityType DEF P2pPush, TypeOK
    <2>2. i \in Node /\ app[i].call \in Call /\ app[i].call \in DOMAIN calls
        BY <1>8, CallsType, BusyCall DEF P2pPush
    <2>3. /\ fulfilledList' \in [Node -> SUBSET Call]
          /\ dest_nodes' \in [Call -> SUBSET Node]
          /\ state' \in [Node -> State]
        <3>1. calls[app[i].call].nodes \subseteq Node  BY <2>2, CallsType
        <3>2. state' \in [Node -> State]  BY <1>8 DEF P2pPush, Stopped, State, TypeOK
        <3>3. CASE app[i].group = view[i]
            <4>1. Fulfil(i, app[i].call, calls[app[i].call].nodes)
                BY <1>8, <3>3 DEF P2pPush
            <4> QED  BY <2>2, <3>1, <3>2, <4>1, FulfilType
        <3>4. CASE app[i].group # view[i]
            BY <1>8, <3>2, <3>4 DEF P2pPush, TypeOK
        <3> QED  BY <3>3, <3>4
    <2> QED  BY <1>8, <2>1, <2>3 DEF TypeOK, P2pPush, groupVars
<1>9. ASSUME NEW i \in Node, PassOver(i)
      PROVE  TypeOK'
    <2>1. /\ delivered[i] + 1 \in 0 .. MaxCalls /\ NextCall(i) \in Call
          /\ NextCall(i) \in DOMAIN calls
        BY <1>9, NextCallType DEF PassOver
    <2>2. delivered' \in [Node -> 0 .. MaxCalls]
        BY <1>9, <2>1 DEF PassOver, Counted, TypeOK
    <2> QED  BY <1>9, <2>2 DEF TypeOK, PassOver, groupVars, callerVars
<1>10. ASSUME NEW i \in Node, DeliverRemote(i)
       PROVE  TypeOK'
    <2>1. /\ delivered[i] + 1 \in 0 .. MaxCalls /\ NextCall(i) \in Call
          /\ NextCall(i) \in DOMAIN calls
        BY <1>10, NextCallType DEF DeliverRemote
    <2>2. delivered' \in [Node -> 0 .. MaxCalls]
        BY <1>10, <2>1 DEF DeliverRemote, Counted, TypeOK
    <2>3. /\ executions' \in [Call -> [Node -> Nat]]
          /\ objects' \in [Node -> Seq(Call)]
        BY <1>10, <2>1, ExecuteType DEF DeliverRemote, TypeOK
    <2>4. calls[NextCall(i)].caller \in Node  BY <2>1, CallsType
    <2>5. Packet(NextCall(i), Reply(i)) \in Message
        BY <2>1, ReplyKind DEF Packet, Kind, Message
    <2>6. chan' \in [Node -> [Node -> Seq(Message)]]
        BY <1>10, <2>4, <2>5, WriteType DEF DeliverRemote, TypeOK
    <2>7. state' \in [Node -> State]
        BY <1>10 DEF DeliverRemote, TypeOK, Stopped, State
    <2> QED  BY <1>10, <2>2, <2>3, <2>6, <2>7 DEF TypeOK, DeliverRemote, groupVars, callerVars
<1>11. ASSUME NEW i \in Node, DeliverOwn(i)
       PROVE  TypeOK'
    <2>1. /\ delivered[i] + 1 \in 0 .. MaxCalls /\ NextCall(i) \in Call
          /\ NextCall(i) \in DOMAIN calls
        BY <1>11, NextCallType DEF DeliverOwn
    <2>2. delivered' \in [Node -> 0 .. MaxCalls]
        BY <1>11, <2>1 DEF DeliverOwn, Counted, TypeOK
    <2>3. /\ executions' \in [Call -> [Node -> Nat]]
          /\ objects' \in [Node -> Seq(Call)]
        BY <1>11, <2>1, ExecuteType DEF DeliverOwn, TypeOK
    <2>4. outcomes' \in [Call -> [Node -> Outcome]]
        <3>1. Reply(i) \in Outcome  BY ReplyKind DEF Outcome
        <3>2. outcomes' = outcomes \/ SetOutcome(NextCall(i), i, Reply(i))
            BY <1>11 DEF DeliverOwn
        <3> QED  BY <2>1, <3>1, <3>2, OutcomeType DEF TypeOK
    <2>5. state' \in [Node -> State]
        BY <1>11 DEF DeliverOwn, Stopped, State, TypeOK
    <2>6. /\ toFulfillQueue' \in [Node -> Seq(Call)]
          /\ fulfilledList' \in [Node -> SUBSET Call]
          /\ dest_nodes' \in [Call -> SUBSET Node]
        <3>1. toFulfillQueue[i] \in Seq(Call)  BY DEF TypeOK
        <3>2. members(i) \subseteq Node  BY MembersType DEF IInv
        <3>3. CASE UNCHANGED callerVars  BY <3>3 DEF callerVars, TypeOK
        <3>4. CASE ~ UNCHANGED callerVars
            <4>1. /\ toFulfillQueue[i] # <<>> /\ Fulfil(i, FrontPending(i), members(i))
                  /\ toFulfillQueue' = [toFulfillQueue EXCEPT ![i] = Tail(@)]
                BY <1>11, <3>4 DEF DeliverOwn
            <4>2. FrontPending(i) \in Call /\ Tail(toFulfillQueue[i]) \in Seq(Call)
                BY <3>1, <4>1, HeadTailProperties DEF FrontPending
            <4>3. toFulfillQueue' \in [Node -> Seq(Call)]  BY <4>1, <4>2 DEF TypeOK
            <4> QED  BY <3>2, <4>1, <4>2, <4>3, FulfilType
        <3> QED  BY <3>3, <3>4
    <2> QED  BY <1>11, <2>2, <2>3, <2>4, <2>5, <2>6 DEF TypeOK, DeliverOwn, groupVars
<1>12. ASSUME NEW i \in Node, NEW j \in Node, RpcRequest(i, j)
       PROVE  TypeOK'
    <2>1. /\ Head(chan[j][i]).call \in Call /\ Head(chan[j][i]).kind \in Kind
          /\ Tail(chan[j][i]) \in Seq(Message)
        BY <1>12, ChanType DEF RpcRequest, RpcReads
    <2>2. /\ executions' \in [Call -> [Node -> Nat]]
          /\ objects' \in [Node -> Seq(Call)]
        BY <1>12, <2>1, ExecuteType DEF RpcRequest, TypeOK
    <2>3. Packet(Head(chan[j][i]).call, Reply(i)) \in Message
        BY <2>1, ReplyKind DEF Packet, Kind, Message
    <2>4. chan' \in [Node -> [Node -> Seq(Message)]]
        <3> DEFINE answer == Arriving(i, j, Packet(Head(chan[j][i]).call, Reply(i)))
        <3>1. chan[j][i] # <<>> /\ i # j
            BY <1>12 DEF RpcRequest, RpcReads, HasSocket
        <3>2. answer \in Seq(Message)  BY <2>3, ArrivingType
        <3>3. RequestAnswered(i, j, answer)  BY <1>12 DEF RpcRequest, RequestAnswered
        <3> HIDE DEF answer
        <3> QED  BY <3>1, <3>2, <3>3, AnswerWritten
    <2> QED  BY <1>12, <2>2, <2>4 DEF TypeOK, RpcRequest, groupVars, callerVars
<1>13. ASSUME NEW i \in Node, NEW j \in Node, RpcAnswer(i, j)
       PROVE  TypeOK'
    <2>1. /\ Head(chan[j][i]).call \in Call /\ Head(chan[j][i]).kind \in Kind
          /\ Tail(chan[j][i]) \in Seq(Message)
        BY <1>13, ChanType DEF RpcAnswer, RpcReads
    <2>2. chan' \in [Node -> [Node -> Seq(Message)]]
        BY <1>13, <2>1 DEF RpcAnswer, TypeOK
    <2>3. outcomes' \in [Call -> [Node -> Outcome]]
        <3>1. Head(chan[j][i]).kind \in Outcome  BY <1>13, <2>1 DEF RpcAnswer, Kind, Outcome
        <3>2. outcomes' = outcomes \/ SetOutcome(Head(chan[j][i]).call, j, Head(chan[j][i]).kind)
            BY <1>13 DEF RpcAnswer
        <3> QED  BY <2>1, <3>1, <3>2, OutcomeType DEF TypeOK
    <2>4. state' \in [Node -> State]
        BY <1>13 DEF RpcAnswer, Stopped, State, TypeOK
    <2> QED  BY <1>13, <2>2, <2>3, <2>4 DEF TypeOK, RpcAnswer, groupVars, callerVars
<1>14. ASSUME NEW i \in Node, NEW j \in Node, SendObjects(i, j)
       PROVE  TypeOK'
    BY <1>14 DEF TypeOK, SendObjects, Phase, callerVars
<1>15. ASSUME NEW i \in Node, Cleanup(i)
       PROVE  TypeOK'
    BY <1>15 DEF TypeOK, Cleanup, Phase, callerVars
<1>16. ASSUME NEW i \in Node, InstallView(i)
       PROVE  TypeOK'
    <2>1. Undelivered(i) \in Seq(Call)
        <3>1. order[1] \in Seq(Call) /\ cut \in Nat  BY CallsType DEF TypeOK
        <3>2. /\ SubSeq(order[1], cut + 1, Len(order[1])) \in Seq(Call)
              /\ SubSeq(order[1], 1, cut) \in Seq(Call)
            <4>1. cut <= Len(order[1])  BY <1>16 DEF InstallView, IInv, CutFits
            <4> QED  BY <3>1, <4>1
        <3> DEFINE early == Select(SubSeq(order[1], 1, cut), CallsOf(i) \cap missing[i])
                   late == Select(SubSeq(order[1], cut + 1, Len(order[1])), CallsOf(i))
        <3>3. early \in Seq(Call) /\ late \in Seq(Call)  BY <3>2, SelectType
        <3>4. Undelivered(i) = early \o late  BY DEF Undelivered
        <3> HIDE DEF early, late
        <3> QED  BY <3>3, <3>4
    <2>2. order' \in [1 .. 2 -> Seq(Call)]
        BY <1>16, <2>1 DEF InstallView, TypeOK
    <2>3. delivered' \in [Node -> 0 .. MaxCalls]
        BY <1>16, CallsType DEF InstallView, TypeOK
    <2> QED  BY <1>16, <2>2, <2>3 DEF TypeOK, InstallView, Phase, callerVars
<1>17. ASSUME NEW i \in Node, ViewUpcall(i)
       PROVE  TypeOK'
    <2>1. outcomes' \in [Call -> [Node -> Outcome]]
        BY <1>17 DEF ViewUpcall, Outcome, TypeOK
    <2> QED  BY <1>17, <2>1 DEF TypeOK, ViewUpcall, Phase, callerVars
<1>18. ASSUME LeaderCleanup
       PROVE  TypeOK'
    <2>1. cut' \in 0 .. MaxCalls + 1
        <3>1. order[1] \in Seq(Call) /\ IsInjective(order[1])
            BY DEF IInv, TypeOK, OrdersFit
        <3>2. Len(order[1]) <= MaxCalls /\ Len(order[1]) \in Nat  BY <3>1, OrderBound
        <3>3. cut' \in 0 .. Len(order[1])  BY <1>18 DEF LeaderCleanup
        <3> QED  BY <3>2, <3>3, CallsType
    <2>2. missing' \in [Node -> SUBSET Call]
        <3>1. PICK n \in 0 .. Len(order[1]) :
                  LET late == {order[1][p] : p \in
                                  {q \in 1 .. n : \A i \in First : delivered[i] < q}}
                      some == {calls_missing \in SUBSET late : CutShort(calls_missing, n)}
                  IN  missing' \in
                          {m \in [Node -> some] : \A i \in Node \ (First \cap Second) : m[i] = {}}
            BY <1>18 DEF LeaderCleanup
        <3> DEFINE late == {order[1][p] : p \in
                               {q \in 1 .. n : \A i \in First : delivered[i] < q}}
        <3>2. missing' \in [Node -> SUBSET late]  BY <3>1
        <3>3. late \subseteq Call
            <4>1. order[1] \in Seq(Call)  BY DEF TypeOK
            <4>2. \A p \in 1 .. n : p \in 1 .. Len(order[1])  BY <4>1
            <4> QED  BY <4>1, <4>2
        <3> HIDE DEF late
        <3> QED  BY <3>2, <3>3
    <2> QED  BY <1>18, <2>1, <2>2 DEF TypeOK, LeaderCleanup, callerVars
<1>19. CASE UNCHANGED vars
    BY <1>19 DEF TypeOK, vars, groupVars, callerVars
<1> QED
    BY <1>1, <1>2, <1>3, <1>4, <1>5, <1>6, <1>7, <1>8, <1>9, <1>10,
       <1>11, <1>12, <1>13, <1>14, <1>15, <1>16, <1>17, <1>18, <1>19
    DEF Next, Environment, Threads

\* The plan of the views is as it was.
LEMMA ViewsStay ==
    ASSUME [Next]_vars
    PROVE  views' = views
<1>1. ASSUME NEW i \in Callers, NEW nodes \in Targets, GetBuffer(i, nodes)
      PROVE  views' = views
    BY <1>1 DEF GetBuffer, groupVars
<1>2. ASSUME NEW i \in Callers, NEW j \in Node \ {i}, P2pWrite(i, j)
      PROVE  views' = views
    BY <1>2 DEF P2pWrite, groupVars
<1>3. ASSUME NEW i \in Node, Crash(i)
      PROVE  views' = views
    BY <1>3 DEF Crash, groupVars
<1>4. ASSUME NEW i \in Node, Wedge(i)
      PROVE  views' = views
    BY <1>4 DEF Wedge, groupVars
<1>5. ASSUME NEW i \in Callers, SendCall(i)
      PROVE  views' = views
    BY <1>5 DEF SendCall, groupVars
<1>6. ASSUME NEW i \in Callers, SendSpins(i)
      PROVE  views' = views
    BY <1>6 DEF SendSpins, groupVars
<1>7. ASSUME NEW i \in Callers, PushPending(i)
      PROVE  views' = views
    BY <1>7 DEF PushPending, groupVars
<1>8. ASSUME NEW i \in Callers, P2pPush(i)
      PROVE  views' = views
    BY <1>8 DEF P2pPush, groupVars
<1>9. ASSUME NEW i \in Node, PassOver(i)
      PROVE  views' = views
    BY <1>9 DEF PassOver, groupVars
<1>10. ASSUME NEW i \in Node, DeliverRemote(i)
       PROVE  views' = views
    BY <1>10 DEF DeliverRemote, groupVars
<1>11. ASSUME NEW i \in Node, DeliverOwn(i)
       PROVE  views' = views
    BY <1>11 DEF DeliverOwn, groupVars
<1>12. ASSUME NEW i \in Node, NEW j \in Node, RpcRequest(i, j)
       PROVE  views' = views
    BY <1>12 DEF RpcRequest, groupVars
<1>13. ASSUME NEW i \in Node, NEW j \in Node, RpcAnswer(i, j)
       PROVE  views' = views
    BY <1>13 DEF RpcAnswer, groupVars
<1>14. ASSUME NEW i \in Node, NEW j \in Node, SendObjects(i, j)
       PROVE  views' = views
    BY <1>14 DEF SendObjects, groupVars
<1>15. ASSUME NEW i \in Node, Cleanup(i)
       PROVE  views' = views
    BY <1>15 DEF Cleanup, groupVars
<1>16. ASSUME NEW i \in Node, InstallView(i)
       PROVE  views' = views
    BY <1>16 DEF InstallView, groupVars
<1>17. ASSUME NEW i \in Node, ViewUpcall(i)
       PROVE  views' = views
    BY <1>17 DEF ViewUpcall, groupVars
<1>18. ASSUME LeaderCleanup
       PROVE  views' = views
    BY <1>18 DEF LeaderCleanup, groupVars
<1>19. CASE UNCHANGED vars
    BY <1>19 DEF vars, groupVars
<1> QED
    BY <1>1, <1>2, <1>3, <1>4, <1>5, <1>6, <1>7, <1>8, <1>9, <1>10,
       <1>11, <1>12, <1>13, <1>14, <1>15, <1>16, <1>17, <1>18, <1>19
    DEF Next, Environment, Threads

LEMMA MembersStay ==
    ASSUME [Next]_vars
    PROVE  First' = First /\ Second' = Second /\ RemovedMembers' = RemovedMembers
BY ViewsStay DEF First, Second, RemovedMembers

\* A node that has crashed does nothing any more.
LEMMA CrashedStays ==
    ASSUME IInv, [Next]_vars
    PROVE  \A k \in Node : state[k] = "crashed" => state'[k] = "crashed"
<1>t. state \in [Node -> State]  BY DEF IInv, TypeOK
<1>u. ASSUME UNCHANGED state
      PROVE  \A k \in Node : state[k] = "crashed" => state'[k] = "crashed"
    BY <1>u
<1>1. ASSUME NEW i \in Callers, NEW nodes \in Targets, GetBuffer(i, nodes)
      PROVE  \A k \in Node : state[k] = "crashed" => state'[k] = "crashed"
    BY <1>1, <1>u DEF GetBuffer, groupVars, callerVars
<1>2. ASSUME NEW i \in Callers, NEW j \in Node \ {i}, P2pWrite(i, j)
      PROVE  \A k \in Node : state[k] = "crashed" => state'[k] = "crashed"
    BY <1>2, <1>t DEF P2pWrite, Stopped, Running, RpcReads, Delivering
<1>3. ASSUME NEW i \in Node, Crash(i)
      PROVE  \A k \in Node : state[k] = "crashed" => state'[k] = "crashed"
    BY <1>3, <1>t DEF Crash, Stopped, Running, RpcReads, Delivering
<1>4. ASSUME NEW i \in Node, Wedge(i)
      PROVE  \A k \in Node : state[k] = "crashed" => state'[k] = "crashed"
    BY <1>4, <1>u DEF Wedge, groupVars, callerVars
<1>5. ASSUME NEW i \in Callers, SendCall(i)
      PROVE  \A k \in Node : state[k] = "crashed" => state'[k] = "crashed"
    BY <1>5, <1>u DEF SendCall, groupVars, callerVars
<1>6. ASSUME NEW i \in Callers, SendSpins(i)
      PROVE  \A k \in Node : state[k] = "crashed" => state'[k] = "crashed"
    BY <1>6, <1>u DEF SendSpins, groupVars, callerVars
<1>7. ASSUME NEW i \in Callers, PushPending(i)
      PROVE  \A k \in Node : state[k] = "crashed" => state'[k] = "crashed"
    BY <1>7, <1>u DEF PushPending, groupVars, callerVars
<1>8. ASSUME NEW i \in Callers, P2pPush(i)
      PROVE  \A k \in Node : state[k] = "crashed" => state'[k] = "crashed"
    BY <1>8, <1>t DEF P2pPush, Stopped, Running, RpcReads, Delivering
<1>9. ASSUME NEW i \in Node, PassOver(i)
      PROVE  \A k \in Node : state[k] = "crashed" => state'[k] = "crashed"
    BY <1>9, <1>u DEF PassOver, groupVars, callerVars
<1>10. ASSUME NEW i \in Node, DeliverRemote(i)
       PROVE  \A k \in Node : state[k] = "crashed" => state'[k] = "crashed"
    BY <1>10, <1>t DEF DeliverRemote, Stopped, Running, RpcReads, Delivering
<1>11. ASSUME NEW i \in Node, DeliverOwn(i)
       PROVE  \A k \in Node : state[k] = "crashed" => state'[k] = "crashed"
    BY <1>11, <1>t DEF DeliverOwn, Stopped, Running, RpcReads, Delivering
<1>12. ASSUME NEW i \in Node, NEW j \in Node, RpcRequest(i, j)
       PROVE  \A k \in Node : state[k] = "crashed" => state'[k] = "crashed"
    BY <1>12, <1>u DEF RpcRequest, groupVars, callerVars
<1>13. ASSUME NEW i \in Node, NEW j \in Node, RpcAnswer(i, j)
       PROVE  \A k \in Node : state[k] = "crashed" => state'[k] = "crashed"
    BY <1>13, <1>t DEF RpcAnswer, Stopped, Running, RpcReads, Delivering
<1>14. ASSUME NEW i \in Node, NEW j \in Node, SendObjects(i, j)
       PROVE  \A k \in Node : state[k] = "crashed" => state'[k] = "crashed"
    BY <1>14, <1>u DEF SendObjects, groupVars, callerVars
<1>15. ASSUME NEW i \in Node, Cleanup(i)
       PROVE  \A k \in Node : state[k] = "crashed" => state'[k] = "crashed"
    BY <1>15, <1>u DEF Cleanup, groupVars, callerVars
<1>16. ASSUME NEW i \in Node, InstallView(i)
       PROVE  \A k \in Node : state[k] = "crashed" => state'[k] = "crashed"
    BY <1>16, <1>u DEF InstallView, groupVars, callerVars
<1>17. ASSUME NEW i \in Node, ViewUpcall(i)
       PROVE  \A k \in Node : state[k] = "crashed" => state'[k] = "crashed"
    BY <1>17, <1>u DEF ViewUpcall, groupVars, callerVars
<1>18. ASSUME LeaderCleanup
       PROVE  \A k \in Node : state[k] = "crashed" => state'[k] = "crashed"
    BY <1>18, <1>u DEF LeaderCleanup, groupVars, callerVars
<1>19. CASE UNCHANGED vars
    BY <1>19, <1>u DEF vars, groupVars, callerVars
<1> QED
    BY <1>1, <1>2, <1>3, <1>4, <1>5, <1>6, <1>7, <1>8, <1>9, <1>10,
       <1>11, <1>12, <1>13, <1>14, <1>15, <1>16, <1>17, <1>18, <1>19
    DEF Next, Environment, Threads

\* A call that has been made stays as it is.
LEMMA CallsStay ==
    ASSUME IInv, [Next]_vars
    PROVE  \A c \in DOMAIN calls : c \in DOMAIN calls' /\ calls'[c] = calls[c]
<1>t. TypeOK  BY DEF IInv
<1>u. ASSUME UNCHANGED calls
      PROVE  \A c \in DOMAIN calls : c \in DOMAIN calls' /\ calls'[c] = calls[c]
    BY <1>u
<1>1. ASSUME NEW i \in Callers, NEW nodes \in Targets, GetBuffer(i, nodes)
      PROVE  \A c \in DOMAIN calls : c \in DOMAIN calls' /\ calls'[c] = calls[c]
    <2>1. nodes \in SUBSET Node  BY DEF CallsAssumption
    <2> QED  BY <1>1, <2>1, <1>t, NewCall DEF GetBuffer
<1>2. ASSUME NEW i \in Callers, NEW j \in Node \ {i}, P2pWrite(i, j)
      PROVE  \A c \in DOMAIN calls : c \in DOMAIN calls' /\ calls'[c] = calls[c]
    <2>1. {j} \in SUBSET Node  BY <1>t, CallsType
    <2> QED  BY <1>2, <2>1, <1>t, NewCall DEF P2pWrite
<1>3. ASSUME NEW i \in Node, Crash(i)
      PROVE  \A c \in DOMAIN calls : c \in DOMAIN calls' /\ calls'[c] = calls[c]
    BY <1>3, <1>u DEF Crash, groupVars, callerVars
<1>4. ASSUME NEW i \in Node, Wedge(i)
      PROVE  \A c \in DOMAIN calls : c \in DOMAIN calls' /\ calls'[c] = calls[c]
    BY <1>4, <1>u DEF Wedge, groupVars, callerVars
<1>5. ASSUME NEW i \in Callers, SendCall(i)
      PROVE  \A c \in DOMAIN calls : c \in DOMAIN calls' /\ calls'[c] = calls[c]
    BY <1>5, <1>u DEF SendCall, groupVars, callerVars
<1>6. ASSUME NEW i \in Callers, SendSpins(i)
      PROVE  \A c \in DOMAIN calls : c \in DOMAIN calls' /\ calls'[c] = calls[c]
    BY <1>6, <1>u DEF SendSpins, groupVars, callerVars
<1>7. ASSUME NEW i \in Callers, PushPending(i)
      PROVE  \A c \in DOMAIN calls : c \in DOMAIN calls' /\ calls'[c] = calls[c]
    BY <1>7, <1>u DEF PushPending, groupVars, callerVars
<1>8. ASSUME NEW i \in Callers, P2pPush(i)
      PROVE  \A c \in DOMAIN calls : c \in DOMAIN calls' /\ calls'[c] = calls[c]
    BY <1>8, <1>u DEF P2pPush, groupVars, callerVars
<1>9. ASSUME NEW i \in Node, PassOver(i)
      PROVE  \A c \in DOMAIN calls : c \in DOMAIN calls' /\ calls'[c] = calls[c]
    BY <1>9, <1>u DEF PassOver, groupVars, callerVars
<1>10. ASSUME NEW i \in Node, DeliverRemote(i)
       PROVE  \A c \in DOMAIN calls : c \in DOMAIN calls' /\ calls'[c] = calls[c]
    BY <1>10, <1>u DEF DeliverRemote, groupVars, callerVars
<1>11. ASSUME NEW i \in Node, DeliverOwn(i)
       PROVE  \A c \in DOMAIN calls : c \in DOMAIN calls' /\ calls'[c] = calls[c]
    BY <1>11, <1>u DEF DeliverOwn, groupVars, callerVars
<1>12. ASSUME NEW i \in Node, NEW j \in Node, RpcRequest(i, j)
       PROVE  \A c \in DOMAIN calls : c \in DOMAIN calls' /\ calls'[c] = calls[c]
    BY <1>12, <1>u DEF RpcRequest, groupVars, callerVars
<1>13. ASSUME NEW i \in Node, NEW j \in Node, RpcAnswer(i, j)
       PROVE  \A c \in DOMAIN calls : c \in DOMAIN calls' /\ calls'[c] = calls[c]
    BY <1>13, <1>u DEF RpcAnswer, groupVars, callerVars
<1>14. ASSUME NEW i \in Node, NEW j \in Node, SendObjects(i, j)
       PROVE  \A c \in DOMAIN calls : c \in DOMAIN calls' /\ calls'[c] = calls[c]
    BY <1>14, <1>u DEF SendObjects, groupVars, callerVars
<1>15. ASSUME NEW i \in Node, Cleanup(i)
       PROVE  \A c \in DOMAIN calls : c \in DOMAIN calls' /\ calls'[c] = calls[c]
    BY <1>15, <1>u DEF Cleanup, groupVars, callerVars
<1>16. ASSUME NEW i \in Node, InstallView(i)
       PROVE  \A c \in DOMAIN calls : c \in DOMAIN calls' /\ calls'[c] = calls[c]
    BY <1>16, <1>u DEF InstallView, groupVars, callerVars
<1>17. ASSUME NEW i \in Node, ViewUpcall(i)
       PROVE  \A c \in DOMAIN calls : c \in DOMAIN calls' /\ calls'[c] = calls[c]
    BY <1>17, <1>u DEF ViewUpcall, groupVars, callerVars
<1>18. ASSUME LeaderCleanup
       PROVE  \A c \in DOMAIN calls : c \in DOMAIN calls' /\ calls'[c] = calls[c]
    BY <1>18, <1>u DEF LeaderCleanup, groupVars, callerVars
<1>19. CASE UNCHANGED vars
    BY <1>19, <1>u DEF vars, groupVars, callerVars
<1> QED
    BY <1>1, <1>2, <1>3, <1>4, <1>5, <1>6, <1>7, <1>8, <1>9, <1>10,
       <1>11, <1>12, <1>13, <1>14, <1>15, <1>16, <1>17, <1>18, <1>19
    DEF Next, Environment, Threads

LEMMA KindStays ==
    ASSUME IInv, [Next]_vars, NEW c \in DOMAIN calls
    PROVE  /\ c \in GroupCalls' <=> c \in GroupCalls
           /\ ToGroup(c)' <=> ToGroup(c)
           /\ \A i : c \in CallsOf(i)' <=> c \in CallsOf(i)
BY CallsStay DEF GroupCalls, ToGroup, CallsOf

\* No call goes back to where it waits for its turn.
LEMMA UnsentStays ==
    ASSUME IInv, [Next]_vars
    PROVE  \A c \in Unsent' : c \in Unsent \/ c \notin DOMAIN calls
<1>t. app \in [Node -> Activity] /\ TypeOK  BY DEF IInv, TypeOK
<1>u. ASSUME UNCHANGED app
      PROVE  \A c \in Unsent' : c \in Unsent \/ c \notin DOMAIN calls
    BY <1>u DEF Unsent
<1>1. ASSUME NEW i \in Callers, NEW nodes \in Targets, GetBuffer(i, nodes)
      PROVE  \A c \in Unsent' : c \in Unsent \/ c \notin DOMAIN calls
    <2>1. nodes \in SUBSET Node  BY DEF CallsAssumption
    <2>2. Len(calls') \notin DOMAIN calls  BY <1>1, <2>1, <1>t, NewCall DEF GetBuffer
    <2>3. \A k \in Node : app'[k].pc \in {"buffer", "spinning"} =>
              \/ app[k].pc \in {"buffer", "spinning"} /\ app'[k].call = app[k].call
              \/ app'[k].call = Len(calls')
        BY <1>1, <1>t DEF GetBuffer, Idle
    <2> QED  BY <2>2, <2>3 DEF Unsent
<1>2. ASSUME NEW i \in Callers, NEW j \in Node \ {i}, P2pWrite(i, j)
      PROVE  \A c \in Unsent' : c \in Unsent \/ c \notin DOMAIN calls
    <2>1. \A k \in Node : app'[k].pc \in {"buffer", "spinning"} =>
              app[k].pc \in {"buffer", "spinning"} /\ app'[k].call = app[k].call
        BY <1>2, <1>t DEF P2pWrite, Idle
    <2> QED  BY <2>1 DEF Unsent
<1>3. ASSUME NEW i \in Node, Crash(i)
      PROVE  \A c \in Unsent' : c \in Unsent \/ c \notin DOMAIN calls
    BY <1>3, <1>u DEF Crash, groupVars, callerVars
<1>4. ASSUME NEW i \in Node, Wedge(i)
      PROVE  \A c \in Unsent' : c \in Unsent \/ c \notin DOMAIN calls
    BY <1>4, <1>u DEF Wedge, groupVars, callerVars
<1>5. ASSUME NEW i \in Callers, SendCall(i)
      PROVE  \A c \in Unsent' : c \in Unsent \/ c \notin DOMAIN calls
    <2>1. \A k \in Node : app'[k].pc \in {"buffer", "spinning"} =>
              app[k].pc \in {"buffer", "spinning"} /\ app'[k].call = app[k].call
        BY <1>5, <1>t DEF SendCall, Idle
    <2> QED  BY <2>1 DEF Unsent
<1>6. ASSUME NEW i \in Callers, SendSpins(i)
      PROVE  \A c \in Unsent' : c \in Unsent \/ c \notin DOMAIN calls
    <2>1. \A k \in Node : app'[k].pc \in {"buffer", "spinning"} =>
              app[k].pc \in {"buffer", "spinning"} /\ app'[k].call = app[k].call
        BY <1>6, <1>t DEF SendSpins, Idle
    <2> QED  BY <2>1 DEF Unsent
<1>7. ASSUME NEW i \in Callers, PushPending(i)
      PROVE  \A c \in Unsent' : c \in Unsent \/ c \notin DOMAIN calls
    <2>1. \A k \in Node : app'[k].pc \in {"buffer", "spinning"} =>
              app[k].pc \in {"buffer", "spinning"} /\ app'[k].call = app[k].call
        BY <1>7, <1>t DEF PushPending, Idle
    <2> QED  BY <2>1 DEF Unsent
<1>8. ASSUME NEW i \in Callers, P2pPush(i)
      PROVE  \A c \in Unsent' : c \in Unsent \/ c \notin DOMAIN calls
    <2>1. \A k \in Node : app'[k].pc \in {"buffer", "spinning"} =>
              app[k].pc \in {"buffer", "spinning"} /\ app'[k].call = app[k].call
        BY <1>8, <1>t DEF P2pPush, Idle
    <2> QED  BY <2>1 DEF Unsent
<1>9. ASSUME NEW i \in Node, PassOver(i)
      PROVE  \A c \in Unsent' : c \in Unsent \/ c \notin DOMAIN calls
    BY <1>9, <1>u DEF PassOver, groupVars, callerVars
<1>10. ASSUME NEW i \in Node, DeliverRemote(i)
       PROVE  \A c \in Unsent' : c \in Unsent \/ c \notin DOMAIN calls
    BY <1>10, <1>u DEF DeliverRemote, groupVars, callerVars
<1>11. ASSUME NEW i \in Node, DeliverOwn(i)
       PROVE  \A c \in Unsent' : c \in Unsent \/ c \notin DOMAIN calls
    BY <1>11, <1>u DEF DeliverOwn, groupVars, callerVars
<1>12. ASSUME NEW i \in Node, NEW j \in Node, RpcRequest(i, j)
       PROVE  \A c \in Unsent' : c \in Unsent \/ c \notin DOMAIN calls
    BY <1>12, <1>u DEF RpcRequest, groupVars, callerVars
<1>13. ASSUME NEW i \in Node, NEW j \in Node, RpcAnswer(i, j)
       PROVE  \A c \in Unsent' : c \in Unsent \/ c \notin DOMAIN calls
    BY <1>13, <1>u DEF RpcAnswer, groupVars, callerVars
<1>14. ASSUME NEW i \in Node, NEW j \in Node, SendObjects(i, j)
       PROVE  \A c \in Unsent' : c \in Unsent \/ c \notin DOMAIN calls
    BY <1>14, <1>u DEF SendObjects, groupVars, callerVars
<1>15. ASSUME NEW i \in Node, Cleanup(i)
       PROVE  \A c \in Unsent' : c \in Unsent \/ c \notin DOMAIN calls
    BY <1>15, <1>u DEF Cleanup, groupVars, callerVars
<1>16. ASSUME NEW i \in Node, InstallView(i)
       PROVE  \A c \in Unsent' : c \in Unsent \/ c \notin DOMAIN calls
    BY <1>16, <1>u DEF InstallView, groupVars, callerVars
<1>17. ASSUME NEW i \in Node, ViewUpcall(i)
       PROVE  \A c \in Unsent' : c \in Unsent \/ c \notin DOMAIN calls
    BY <1>17, <1>u DEF ViewUpcall, groupVars, callerVars
<1>18. ASSUME LeaderCleanup
       PROVE  \A c \in Unsent' : c \in Unsent \/ c \notin DOMAIN calls
    BY <1>18, <1>u DEF LeaderCleanup, groupVars, callerVars
<1>19. CASE UNCHANGED vars
    BY <1>19, <1>u DEF vars, groupVars, callerVars
<1> QED
    BY <1>1, <1>2, <1>3, <1>4, <1>5, <1>6, <1>7, <1>8, <1>9, <1>10,
       <1>11, <1>12, <1>13, <1>14, <1>15, <1>16, <1>17, <1>18, <1>19
    DEF Next, Environment, Threads

LEMMA SentStays ==
    ASSUME IInv, [Next]_vars
    PROVE  Sent \subseteq Sent'
BY CallsStay, UnsentStays DEF Sent

\* A node that has stopped stays so.
LEMMA RunningStays ==
    ASSUME IInv, [Next]_vars
    PROVE  \A k \in Node : state'[k] = "running" => state[k] = "running"
<1>t. state \in [Node -> State]  BY DEF IInv, TypeOK
<1>u. ASSUME UNCHANGED state
      PROVE  \A k \in Node : state'[k] = "running" => state[k] = "running"
    BY <1>u
<1>1. ASSUME NEW i \in Callers, NEW nodes \in Targets, GetBuffer(i, nodes)
      PROVE  \A k \in Node : state'[k] = "running" => state[k] = "running"
    BY <1>1, <1>u DEF GetBuffer, groupVars, callerVars
<1>2. ASSUME NEW i \in Callers, NEW j \in Node \ {i}, P2pWrite(i, j)
      PROVE  \A k \in Node : state'[k] = "running" => state[k] = "running"
    BY <1>2, <1>t DEF P2pWrite, Stopped, Running, RpcReads, Delivering
<1>3. ASSUME NEW i \in Node, Crash(i)
      PROVE  \A k \in Node : state'[k] = "running" => state[k] = "running"
    BY <1>3, <1>t DEF Crash, Stopped, Running, RpcReads, Delivering
<1>4. ASSUME NEW i \in Node, Wedge(i)
      PROVE  \A k \in Node : state'[k] = "running" => state[k] = "running"
    BY <1>4, <1>u DEF Wedge, groupVars, callerVars
<1>5. ASSUME NEW i \in Callers, SendCall(i)
      PROVE  \A k \in Node : state'[k] = "running" => state[k] = "running"
    BY <1>5, <1>u DEF SendCall, groupVars, callerVars
<1>6. ASSUME NEW i \in Callers, SendSpins(i)
      PROVE  \A k \in Node : state'[k] = "running" => state[k] = "running"
    BY <1>6, <1>u DEF SendSpins, groupVars, callerVars
<1>7. ASSUME NEW i \in Callers, PushPending(i)
      PROVE  \A k \in Node : state'[k] = "running" => state[k] = "running"
    BY <1>7, <1>u DEF PushPending, groupVars, callerVars
<1>8. ASSUME NEW i \in Callers, P2pPush(i)
      PROVE  \A k \in Node : state'[k] = "running" => state[k] = "running"
    BY <1>8, <1>t DEF P2pPush, Stopped, Running, RpcReads, Delivering
<1>9. ASSUME NEW i \in Node, PassOver(i)
      PROVE  \A k \in Node : state'[k] = "running" => state[k] = "running"
    BY <1>9, <1>u DEF PassOver, groupVars, callerVars
<1>10. ASSUME NEW i \in Node, DeliverRemote(i)
       PROVE  \A k \in Node : state'[k] = "running" => state[k] = "running"
    BY <1>10, <1>t DEF DeliverRemote, Stopped, Running, RpcReads, Delivering
<1>11. ASSUME NEW i \in Node, DeliverOwn(i)
       PROVE  \A k \in Node : state'[k] = "running" => state[k] = "running"
    BY <1>11, <1>t DEF DeliverOwn, Stopped, Running, RpcReads, Delivering
<1>12. ASSUME NEW i \in Node, NEW j \in Node, RpcRequest(i, j)
       PROVE  \A k \in Node : state'[k] = "running" => state[k] = "running"
    BY <1>12, <1>u DEF RpcRequest, groupVars, callerVars
<1>13. ASSUME NEW i \in Node, NEW j \in Node, RpcAnswer(i, j)
       PROVE  \A k \in Node : state'[k] = "running" => state[k] = "running"
    BY <1>13, <1>t DEF RpcAnswer, Stopped, Running, RpcReads, Delivering
<1>14. ASSUME NEW i \in Node, NEW j \in Node, SendObjects(i, j)
       PROVE  \A k \in Node : state'[k] = "running" => state[k] = "running"
    BY <1>14, <1>u DEF SendObjects, groupVars, callerVars
<1>15. ASSUME NEW i \in Node, Cleanup(i)
       PROVE  \A k \in Node : state'[k] = "running" => state[k] = "running"
    BY <1>15, <1>u DEF Cleanup, groupVars, callerVars
<1>16. ASSUME NEW i \in Node, InstallView(i)
       PROVE  \A k \in Node : state'[k] = "running" => state[k] = "running"
    BY <1>16, <1>u DEF InstallView, groupVars, callerVars
<1>17. ASSUME NEW i \in Node, ViewUpcall(i)
       PROVE  \A k \in Node : state'[k] = "running" => state[k] = "running"
    BY <1>17, <1>u DEF ViewUpcall, groupVars, callerVars
<1>18. ASSUME LeaderCleanup
       PROVE  \A k \in Node : state'[k] = "running" => state[k] = "running"
    BY <1>18, <1>u DEF LeaderCleanup, groupVars, callerVars
<1>19. CASE UNCHANGED vars
    BY <1>19, <1>u DEF vars, groupVars, callerVars
<1> QED
    BY <1>1, <1>2, <1>3, <1>4, <1>5, <1>6, <1>7, <1>8, <1>9, <1>10,
       <1>11, <1>12, <1>13, <1>14, <1>15, <1>16, <1>17, <1>18, <1>19
    DEF Next, Environment, Threads

\* The phases of a view change follow each other.
LEMMA PhasesStep ==
    ASSUME IInv, [Next]_vars
    PROVE  PhasesFit'
<1>t. /\ view \in [Node -> {1, 2}] /\ phase \in [Node -> Phase]
      /\ delivered \in [Node -> 0 .. MaxCalls] /\ cut \in 0 .. MaxCalls + 1
      /\ views \in Plans /\ TypeOK
    BY DEF IInv, TypeOK
<1>p. PhasesFit  BY DEF IInv
<1>v. /\ views' = views /\ First' = First /\ Second' = Second
      /\ First \subseteq Node /\ Second \subseteq Node
    BY <1>t, ViewsStay, MembersStay, ViewsType
<1>c. \A j \in First : state[j] = "crashed" => state'[j] = "crashed"
    BY <1>v, CrashedStays
<1>u. ASSUME UNCHANGED <<view, phase, delivered, cut>>
      PROVE  PhasesFit'
    BY <1>u, <1>p, <1>v, <1>c DEF PhasesFit, Joining
<1>1. ASSUME NEW i \in Callers, NEW nodes \in Targets, GetBuffer(i, nodes)
      PROVE  PhasesFit'
    BY <1>1, <1>u DEF GetBuffer, groupVars, callerVars
<1>2. ASSUME NEW i \in Callers, NEW j \in Node \ {i}, P2pWrite(i, j)
      PROVE  PhasesFit'
    BY <1>2, <1>u DEF P2pWrite, groupVars, callerVars
<1>3. ASSUME NEW i \in Node, Crash(i)
      PROVE  PhasesFit'
    BY <1>3, <1>u DEF Crash, groupVars, callerVars
<1>4. ASSUME NEW i \in Node, Wedge(i)
      PROVE  PhasesFit'
    <2>1. phase' = [phase EXCEPT ![i] = "wedged"] /\ phase[i] = "running"
        BY <1>4 DEF Wedge
    <2>2. view[i] = 1 /\ Len(views) = 2
        <3>1. view[i] < Len(views) /\ view[i] \in {1, 2} /\ Len(views) \in {1, 2}
            BY <1>4, <1>t, ViewsType DEF Wedge
        <3>2. \A v, n \in {1, 2} : v < n => v = 1 /\ n = 2  OBVIOUS
        <3> QED  BY <3>1, <3>2, Zenon
    <2>4. \A j \in First \ Second : state[j] = "crashed"  BY <1>4 DEF Wedge
    <2>3. UNCHANGED <<view, delivered, cut>>  BY <1>4 DEF Wedge
    <2> QED  BY <2>1, <2>2, <2>3, <2>4, <1>t, <1>p, <1>v, <1>c DEF PhasesFit, Joining
<1>5. ASSUME NEW i \in Callers, SendCall(i)
      PROVE  PhasesFit'
    BY <1>5, <1>u DEF SendCall, groupVars, callerVars
<1>6. ASSUME NEW i \in Callers, SendSpins(i)
      PROVE  PhasesFit'
    BY <1>6, <1>u DEF SendSpins, groupVars, callerVars
<1>7. ASSUME NEW i \in Callers, PushPending(i)
      PROVE  PhasesFit'
    BY <1>7, <1>u DEF PushPending, groupVars, callerVars
<1>8. ASSUME NEW i \in Callers, P2pPush(i)
      PROVE  PhasesFit'
    BY <1>8, <1>u DEF P2pPush, groupVars, callerVars
<1>9. ASSUME NEW i \in Node, PassOver(i)
      PROVE  PhasesFit'
    <2>1. delivered' = [delivered EXCEPT ![i] = @ + 1] /\ ~ Joining(i)
        BY <1>9, NextCallType DEF PassOver, Counted
    <2>2. UNCHANGED <<view, phase, cut>>  BY <1>9 DEF PassOver, groupVars
    <2> QED  BY <2>1, <2>2, <1>t, <1>p, <1>v, <1>c DEF PhasesFit, Joining
<1>10. ASSUME NEW i \in Node, DeliverRemote(i)
       PROVE  PhasesFit'
    <2>1. delivered' = [delivered EXCEPT ![i] = @ + 1] /\ ~ Joining(i)
        BY <1>10, NextCallType DEF DeliverRemote, Counted
    <2>2. UNCHANGED <<view, phase, cut>>  BY <1>10 DEF DeliverRemote, groupVars
    <2> QED  BY <2>1, <2>2, <1>t, <1>p, <1>v, <1>c DEF PhasesFit, Joining
<1>11. ASSUME NEW i \in Node, DeliverOwn(i)
       PROVE  PhasesFit'
    <2>1. delivered' = [delivered EXCEPT ![i] = @ + 1] /\ ~ Joining(i)
        BY <1>11, NextCallType DEF DeliverOwn, Counted
    <2>2. UNCHANGED <<view, phase, cut>>  BY <1>11 DEF DeliverOwn, groupVars
    <2> QED  BY <2>1, <2>2, <1>t, <1>p, <1>v, <1>c DEF PhasesFit, Joining
<1>12. ASSUME NEW i \in Node, NEW j \in Node, RpcRequest(i, j)
       PROVE  PhasesFit'
    BY <1>12, <1>u DEF RpcRequest, groupVars, callerVars
<1>13. ASSUME NEW i \in Node, NEW j \in Node, RpcAnswer(i, j)
       PROVE  PhasesFit'
    BY <1>13, <1>u DEF RpcAnswer, groupVars, callerVars
<1>14. ASSUME NEW i \in Node, NEW j \in Node, SendObjects(i, j)
       PROVE  PhasesFit'
    <2>1. phase' = [phase EXCEPT ![j] = "joined"] /\ phase[j] = "joining"
        BY <1>14 DEF SendObjects
    <2>2. phase[i] = "cleaning"  BY <1>14 DEF SendObjects, CleanedUp
    <2>3. UNCHANGED <<view, delivered, cut>>  BY <1>14 DEF SendObjects
    <2> QED  BY <2>1, <2>2, <2>3, <1>t, <1>p, <1>v, <1>c DEF PhasesFit, Joining
<1>15. ASSUME NEW i \in Node, Cleanup(i)
       PROVE  PhasesFit'
    BY <1>15, <1>t, <1>p, <1>v, <1>c DEF Cleanup, PhasesFit, Joining
<1>16. ASSUME NEW i \in Node, InstallView(i)
       PROVE  PhasesFit'
    BY <1>16, <1>t, <1>p, <1>v, <1>c DEF InstallView, PhasesFit, Joining
<1>17. ASSUME NEW i \in Node, ViewUpcall(i)
       PROVE  PhasesFit'
    BY <1>17, <1>t, <1>p, <1>v, <1>c DEF ViewUpcall, PhasesFit, Joining
<1>18. ASSUME LeaderCleanup
       PROVE  PhasesFit'
    <2>1. cut' <= MaxCalls
        <3>1. order[1] \in Seq(Call) /\ IsInjective(order[1])  BY DEF IInv, TypeOK, OrdersFit
        <3>2. Len(order[1]) <= MaxCalls /\ Len(order[1]) \in Nat  BY <3>1, OrderBound
        <3>3. cut' \in 0 .. Len(order[1])  BY <1>18 DEF LeaderCleanup
        <3> QED  BY <3>2, <3>3, CallsType, <1>t
    <2>2. UNCHANGED <<view, phase, delivered>>  BY <1>18 DEF LeaderCleanup
    <2> QED  BY <2>1, <2>2, <1>t, <1>p, <1>v, <1>c DEF PhasesFit, Joining
<1>19. CASE UNCHANGED vars
    BY <1>19, <1>u DEF vars, groupVars, callerVars
<1> QED
    BY <1>1, <1>2, <1>3, <1>4, <1>5, <1>6, <1>7, <1>8, <1>9, <1>10,
       <1>11, <1>12, <1>13, <1>14, <1>15, <1>16, <1>17, <1>18, <1>19
    DEF Next, Environment, Threads

LEMMA CutStep ==
    ASSUME IInv, [Next]_vars
    PROVE  CutFits'
<1>t. /\ view \in [Node -> {1, 2}] /\ phase \in [Node -> Phase]
      /\ delivered \in [Node -> 0 .. MaxCalls] /\ cut \in 0 .. MaxCalls + 1
      /\ MaxCalls \in Nat /\ views \in Plans /\ TypeOK
      /\ order \in [1 .. 2 -> Seq(Call)] /\ Len(order[1]) \in Nat
    <2>1. TypeOK /\ MaxCalls \in Nat  BY CallsType DEF IInv
    <2> QED  BY <2>1 DEF TypeOK
<1>p. PhasesFit  BY DEF IInv
<1>f. CutFits  BY DEF IInv
<1>v. First' = First /\ First \subseteq Node  BY <1>t, MembersStay, ViewsType
<1>r. \A k \in Node : Running(k)' => Running(k)  BY RunningStays DEF Running
<1>u. ASSUME UNCHANGED <<view, phase, delivered, cut, order>>
      PROVE  CutFits'
    BY <1>u, <1>f, <1>v, <1>r DEF CutFits
<1>1. ASSUME NEW i \in Callers, NEW nodes \in Targets, GetBuffer(i, nodes)
      PROVE  CutFits'
    BY <1>1, <1>u DEF GetBuffer, groupVars, callerVars
<1>2. ASSUME NEW i \in Callers, NEW j \in Node \ {i}, P2pWrite(i, j)
      PROVE  CutFits'
    BY <1>2, <1>u DEF P2pWrite, groupVars, callerVars
<1>3. ASSUME NEW i \in Node, Crash(i)
      PROVE  CutFits'
    BY <1>3, <1>u DEF Crash, groupVars, callerVars
<1>4. ASSUME NEW i \in Node, Wedge(i)
      PROVE  CutFits'
    BY <1>4, <1>t, <1>f, <1>v, <1>r DEF Wedge, CutFits, Running
<1>5. ASSUME NEW i \in Callers, SendCall(i)
      PROVE  CutFits'
    <2>1. Len(order'[1]) >= Len(order[1]) /\ Len(order'[1]) \in Nat
        BY <1>5, <1>t, OrderType, CallsType, BusyCall DEF SendCall
    <2>2. UNCHANGED <<view, phase, cut, delivered>>  BY <1>5 DEF SendCall
    <2> QED  BY <2>1, <2>2, <1>t, <1>f, <1>v, <1>r DEF CutFits, Running
<1>6. ASSUME NEW i \in Callers, SendSpins(i)
      PROVE  CutFits'
    BY <1>6, <1>u DEF SendSpins, groupVars, callerVars
<1>7. ASSUME NEW i \in Callers, PushPending(i)
      PROVE  CutFits'
    BY <1>7, <1>u DEF PushPending, groupVars, callerVars
<1>8. ASSUME NEW i \in Callers, P2pPush(i)
      PROVE  CutFits'
    BY <1>8, <1>u DEF P2pPush, groupVars, callerVars
<1>9. ASSUME NEW i \in Node, PassOver(i)
      PROVE  CutFits'
    <2>1. delivered' = [delivered EXCEPT ![i] = @ + 1]  BY <1>9 DEF PassOver, Counted
    <2>2. UNCHANGED <<view, phase, cut, order>>  BY <1>9 DEF PassOver, groupVars
    <2>3. cut <= MaxCalls /\ view[i] = 1 /\ i \in First => delivered[i] < cut
        BY <1>9, <1>f DEF PassOver, Delivering, CutFits
    <2> QED  BY <2>1, <2>2, <2>3, <1>t, <1>f, <1>v, <1>r DEF CutFits, Running
<1>10. ASSUME NEW i \in Node, DeliverRemote(i)
       PROVE  CutFits'
    <2>1. delivered' = [delivered EXCEPT ![i] = @ + 1]  BY <1>10 DEF DeliverRemote, Counted
    <2>2. UNCHANGED <<view, phase, cut, order>>  BY <1>10 DEF DeliverRemote, groupVars
    <2>3. cut <= MaxCalls /\ view[i] = 1 /\ i \in First => delivered[i] < cut
        BY <1>10, <1>f DEF DeliverRemote, Delivering, CutFits
    <2> QED  BY <2>1, <2>2, <2>3, <1>t, <1>f, <1>v, <1>r DEF CutFits, Running
<1>11. ASSUME NEW i \in Node, DeliverOwn(i)
       PROVE  CutFits'
    <2>1. delivered' = [delivered EXCEPT ![i] = @ + 1]  BY <1>11 DEF DeliverOwn, Counted
    <2>2. UNCHANGED <<view, phase, cut, order>>  BY <1>11 DEF DeliverOwn, groupVars
    <2>3. cut <= MaxCalls /\ view[i] = 1 /\ i \in First => delivered[i] < cut
        BY <1>11, <1>f DEF DeliverOwn, Delivering, CutFits
    <2> QED  BY <2>1, <2>2, <2>3, <1>t, <1>f, <1>v, <1>r DEF CutFits, Running
<1>12. ASSUME NEW i \in Node, NEW j \in Node, RpcRequest(i, j)
       PROVE  CutFits'
    BY <1>12, <1>u DEF RpcRequest, groupVars, callerVars
<1>13. ASSUME NEW i \in Node, NEW j \in Node, RpcAnswer(i, j)
       PROVE  CutFits'
    BY <1>13, <1>u DEF RpcAnswer, groupVars, callerVars
<1>14. ASSUME NEW i \in Node, NEW j \in Node, SendObjects(i, j)
       PROVE  CutFits'
    <2>1. j \notin First  BY <1>14, <1>p DEF SendObjects, PhasesFit, Joining
    <2> QED  BY <1>14, <2>1, <1>t, <1>f, <1>v, <1>r DEF SendObjects, CutFits, Running
<1>15. ASSUME NEW i \in Node, Cleanup(i)
       PROVE  CutFits'
    BY <1>15, <1>t, <1>f, <1>v, <1>r DEF Cleanup, CutFits, Running
<1>16. ASSUME NEW i \in Node, InstallView(i)
       PROVE  CutFits'
    <2>1. order'[1] = order[1]  BY <1>16, <1>t DEF InstallView
    <2> QED  BY <1>16, <2>1, <1>t, <1>f, <1>v, <1>r DEF InstallView, CutFits, Running
<1>17. ASSUME NEW i \in Node, ViewUpcall(i)
       PROVE  CutFits'
    <2>1. view[i] = 2  BY <1>17, <1>t, <1>p DEF ViewUpcall, PhasesFit
    <2> QED  BY <1>17, <2>1, <1>t, <1>f, <1>v, <1>r DEF ViewUpcall, CutFits, Running
<1>18. ASSUME LeaderCleanup
       PROVE  CutFits'
    BY <1>18, <1>t, <1>v, <1>r DEF LeaderCleanup, CutFits, Running
<1>19. CASE UNCHANGED vars
    BY <1>19, <1>u DEF vars, groupVars, callerVars
<1> QED
    BY <1>1, <1>2, <1>3, <1>4, <1>5, <1>6, <1>7, <1>8, <1>9, <1>10,
       <1>11, <1>12, <1>13, <1>14, <1>15, <1>16, <1>17, <1>18, <1>19
    DEF Next, Environment, Threads

-----------------------------------------------------------------------------
(***************************************************************************)
(* The orders.                                                             *)
(***************************************************************************)
LEMMA InjectiveAppend ==
    ASSUME NEW U, NEW s \in Seq(U), NEW e \in U, IsInjective(s), e \notin Range(s)
    PROVE  /\ IsInjective(Append(s, e)) /\ Append(s, e) \in Seq(U)
           /\ Range(Append(s, e)) = Range(s) \cup {e}
           /\ Len(Append(s, e)) = Len(s) + 1
           /\ Append(s, e)[Len(s) + 1] = e
           /\ \A n \in 1 .. Len(s) : Append(s, e)[n] = s[n]
<1> DEFINE r == Append(s, e)
<1>1. /\ r \in Seq(U) /\ Len(r) = Len(s) + 1 /\ r[Len(s) + 1] = e
      /\ \A n \in 1 .. Len(s) : r[n] = s[n]
    OBVIOUS
<1>2. DOMAIN s = 1 .. Len(s) /\ Len(s) \in Nat  OBVIOUS
<1>3. DOMAIN r = (1 .. Len(s)) \cup {Len(s) + 1}
    <2>1. DOMAIN r = 1 .. Len(r)  BY <1>1
    <2> QED  BY <1>1, <1>2, <2>1
<1> HIDE DEF r
<1>4. IsInjective(r)  BY <1>1, <1>2, <1>3 DEF IsInjective, Range
<1>5. Range(r) = Range(s) \cup {e}  BY <1>1, <1>2, <1>3 DEF Range
<1> QED  BY <1>1, <1>4, <1>5 DEF r

LEMMA InjectiveConcat ==
    ASSUME NEW U, NEW s \in Seq(U), NEW u \in Seq(U), IsInjective(s), IsInjective(u),
           Range(s) \cap Range(u) = {}
    PROVE  /\ IsInjective(s \o u) /\ s \o u \in Seq(U)
           /\ Range(s \o u) = Range(s) \cup Range(u)
           /\ Len(s \o u) = Len(s) + Len(u)
           /\ \A n \in 1 .. Len(s) : (s \o u)[n] = s[n]
           /\ \A n \in Len(s) + 1 .. Len(s) + Len(u) : (s \o u)[n] = u[n - Len(s)]
<1> DEFINE r == s \o u
<1>1. /\ r \in Seq(U) /\ Len(r) = Len(s) + Len(u)
      /\ \A n \in 1 .. Len(s) : r[n] = s[n]
      /\ \A n \in Len(s) + 1 .. Len(s) + Len(u) : r[n] = u[n - Len(s)]
    BY ConcatProperties
<1>2. DOMAIN s = 1 .. Len(s) /\ Len(s) \in Nat /\ DOMAIN u = 1 .. Len(u) /\ Len(u) \in Nat
    OBVIOUS
<1>3. DOMAIN r = (1 .. Len(s)) \cup (Len(s) + 1 .. Len(s) + Len(u))
    <2>1. DOMAIN r = 1 .. Len(r)  BY <1>1
    <2> QED  BY <1>1, <1>2, <2>1
<1> HIDE DEF r
<1>a. \A n \in 1 .. Len(s) : r[n] \in Range(s)  BY <1>1, <1>2 DEF Range
<1>b. \A n \in Len(s) + 1 .. Len(s) + Len(u) :
          n - Len(s) \in DOMAIN u /\ r[n] = u[n - Len(s)] /\ r[n] \in Range(u)
    BY <1>1, <1>2, SMTT(40) DEF Range
<1>4. IsInjective(r)
    <2> SUFFICES ASSUME NEW m \in DOMAIN r, NEW n \in DOMAIN r, r[m] = r[n]
                 PROVE  m = n
        BY DEF IsInjective
    <2>1. CASE m \in 1 .. Len(s) /\ n \in 1 .. Len(s)
        BY <1>1, <1>2, <2>1 DEF IsInjective
    <2>2. CASE m \notin 1 .. Len(s) /\ n \notin 1 .. Len(s)
        <3>1. m - Len(s) = n - Len(s)  BY <1>3, <1>b, <2>2 DEF IsInjective
        <3> QED  BY <1>1, <1>2, <1>3, <2>2, <3>1
    <2>3. CASE ~ (m \in 1 .. Len(s) <=> n \in 1 .. Len(s))
        BY <1>3, <1>a, <1>b, <2>3
    <2> QED  BY <2>1, <2>2, <2>3
<1>5. Range(r) = Range(s) \cup Range(u)
    <2>1. Range(r) \subseteq Range(s) \cup Range(u)  BY <1>3, <1>a, <1>b DEF Range
    <2>2. Range(s) \subseteq Range(r)  BY <1>1, <1>2, <1>3 DEF Range
    <2>3. Range(u) \subseteq Range(r)
        <3> SUFFICES ASSUME NEW m \in 1 .. Len(u)
                     PROVE  u[m] \in Range(r)
            BY <1>2 DEF Range
        <3>1. Len(s) + m \in Len(s) + 1 .. Len(s) + Len(u) /\ Len(s) + m - Len(s) = m  BY <1>2
        <3>2. r[Len(s) + m] = u[m]  BY <1>1, <3>1, SMTT(40)
        <3> QED  BY <1>3, <3>1, <3>2 DEF Range
    <2> QED  BY <2>1, <2>2, <2>3
<1> QED  BY <1>1, <1>4, <1>5 DEF r

\* A call that is sent has not been sent before.
LEMMA SentNow ==
    ASSUME IInv, NEW i \in Callers, SendCall(i)
    PROVE  /\ i \in Node /\ app[i].call \in Call /\ app[i].call \in CallsOf(i)
           /\ app[i].call \notin Sent /\ app[i].call \in Sent'
<1>1. i \in Node /\ app[i].pc = "buffer"  BY CallsType DEF IInv, SendCall
<1>2. /\ app[i].call \in Call /\ app[i].call \in DOMAIN calls
      /\ calls[app[i].call].caller = i
    BY <1>1, BusyCall
<1>3. app[i].call \notin Sent  BY <1>1 DEF Sent, Unsent
<1>4. app[i].call \notin Unsent'
    <2>1. /\ app' = [app EXCEPT ![i].pc = "sent"] /\ calls' = calls
          /\ app \in [Node -> Activity]
        BY DEF SendCall, IInv, TypeOK
    <2>2. ASSUME NEW k \in Node, app'[k].pc \in {"buffer", "spinning"}
          PROVE  app'[k].call # app[i].call
        <3>1. k # i /\ app'[k] = app[k]  BY <1>1, <2>1, <2>2
        <3>2. calls[app[k].call].caller = k  BY <2>2, <3>1, BusyCall
        <3> QED  BY <1>2, <3>1, <3>2
    <2> QED  BY <2>2 DEF Unsent
<1> QED  BY <1>1, <1>2, <1>3, <1>4 DEF Sent, SendCall, CallsOf

\* What is yet to come of a sequence.
Rest(s, n) == SubSeq(s, n + 1, Len(s))

LEMMA RestType ==
    ASSUME NEW U, NEW s \in Seq(U), NEW n \in 0 .. Len(s)
    PROVE  /\ Rest(s, n) \in Seq(U) /\ Len(Rest(s, n)) = Len(s) - n
           /\ \A k \in 1 .. Len(s) - n : Rest(s, n)[k] = s[n + k]
           /\ Range(Rest(s, n)) \subseteq Range(s)
<1> DEFINE l == Len(s)
           m == n + 1
           r == SubSeq(s, m, l)
<1>1. l \in Nat /\ n \in Nat /\ n <= l /\ DOMAIN s = 1 .. l
      /\ \A k \in 1 .. l : s[k] \in U
    OBVIOUS
<1> HIDE DEF l
<1>2. m \in Int /\ l \in Int /\ \A k \in m .. l : s[k] \in U
    <2>1. \A k \in m .. l : k \in 1 .. l  BY <1>1
    <2> QED  BY <1>1, <2>1
<1> HIDE DEF m
<1>3. /\ r \in Seq(U) /\ Len(r) = IF m <= l THEN l - m + 1 ELSE 0
      /\ \A k \in 1 .. l - m + 1 : r[k] = s[m + k - 1]
    BY <1>2, SubSeqProperties
<1> HIDE DEF r
<1>4. l - m + 1 = l - n /\ (m <= l <=> n < l)  BY <1>1 DEF m
<1>5. Len(r) = l - n  BY <1>1, <1>3, <1>4
<1>6. \A k \in 1 .. l - n : r[k] = s[n + k]
    <2>1. \A k \in 1 .. l - n : m + k - 1 = n + k  BY <1>1 DEF m
    <2> QED  BY <2>1, <1>3, <1>4
<1>7. DOMAIN r = 1 .. l - n  BY <1>3, <1>5
<1>8. \A k \in 1 .. l - n : n + k \in 1 .. l  BY <1>1
<1>9. Range(r) \subseteq Range(s)  BY <1>1, <1>6, <1>7, <1>8 DEF Range
<1>10. Rest(s, n) = r  BY DEF Rest, r, l, m
<1> QED  BY <1>3, <1>5, <1>6, <1>9, <1>10 DEF l

\* What is over of it.
Upto(s, n) == SubSeq(s, 1, n)

LEMMA UptoType ==
    ASSUME NEW U, NEW s \in Seq(U), NEW n \in 0 .. Len(s)
    PROVE  /\ Upto(s, n) \in Seq(U) /\ Len(Upto(s, n)) = n
           /\ \A k \in 1 .. n : Upto(s, n)[k] = s[k]
<1>1. Len(s) \in Nat /\ n \in Nat /\ n <= Len(s)  OBVIOUS
<1> QED  BY <1>1, SubSeqProperties DEF Upto

\* What a member sends again: its calls up to the limit that it has not received, and
\* those beyond it.
LEMMA Resent ==
    ASSUME IInv, NEW i \in Node, cut <= MaxCalls
    PROVE  /\ Undelivered(i) \in Seq(Call) /\ IsInjective(Undelivered(i))
           /\ \A c \in Range(Undelivered(i)) :
                  /\ c \in CallsOf(i)
                  /\ \E p \in 1 .. Len(order[1]) :
                         order[1][p] = c /\ (cut < p \/ c \in missing[i])
<1> DEFINE later == SubSeq(order[1], cut + 1, Len(order[1]))
<1>1. order[1] \in Seq(Call) /\ Len(order[1]) \in Nat /\ IsInjective(order[1])
    BY OrderType DEF IInv, OrdersFit
<1>2. cut \in Nat /\ cut <= Len(order[1])  BY CallsType DEF IInv, TypeOK, CutFits
<1>3. /\ later \in Seq(Call) /\ Len(later) = Len(order[1]) - cut
      /\ \A n \in 1 .. Len(later) : later[n] = order[1][cut + n]
    <2> DEFINE all == order[1]
    <2>1. all \in Seq(Call) /\ cut \in 0 .. Len(all)  BY <1>1, <1>2
    <2> HIDE DEF all
    <2>2. later = Rest(all, cut)  BY DEF all, Rest
    <2> HIDE DEF later
    <2>3. /\ Rest(all, cut) \in Seq(Call) /\ Len(Rest(all, cut)) = Len(all) - cut
          /\ \A n \in 1 .. Len(all) - cut : Rest(all, cut)[n] = all[cut + n]
        BY <2>1, RestType
    <2> QED  BY <2>2, <2>3 DEF all
<1>4. DOMAIN later = 1 .. Len(later) /\ DOMAIN order[1] = 1 .. Len(order[1])
    BY <1>1, <1>3
<1> HIDE DEF later
<1>5. \A n \in 1 .. Len(later) : cut + n \in cut + 1 .. Len(order[1]) /\ cut + n \in 1 .. Len(order[1])
    BY <1>1, <1>2, <1>3
<1>6. IsInjective(later)
    <2> SUFFICES ASSUME NEW m \in 1 .. Len(later), NEW n \in 1 .. Len(later), later[m] = later[n]
                 PROVE  m = n
        BY <1>4 DEF IsInjective
    <2>1. cut + m = cut + n  BY <1>1, <1>3, <1>4, <1>5 DEF IsInjective
    <2> QED  BY <1>1, <1>2, <1>3, <2>1
<1> DEFINE early == SubSeq(order[1], 1, cut)
<1>7. /\ early \in Seq(Call) /\ Len(early) = cut /\ DOMAIN early = 1 .. cut
      /\ \A n \in 1 .. cut : early[n] = order[1][n]
    <2> DEFINE all == order[1]
    <2>1. all \in Seq(Call) /\ cut \in 0 .. Len(all)  BY <1>1, <1>2
    <2> HIDE DEF all
    <2>2. early = Upto(all, cut)  BY DEF all, Upto
    <2> HIDE DEF early
    <2>3. /\ Upto(all, cut) \in Seq(Call) /\ Len(Upto(all, cut)) = cut
          /\ \A n \in 1 .. cut : Upto(all, cut)[n] = all[n]
        BY <2>1, UptoType
    <2>4. DOMAIN early = 1 .. Len(early)  BY <2>2, <2>3
    <2> QED  BY <2>2, <2>3, <2>4 DEF all
<1> HIDE DEF early
<1>8. \A n \in 1 .. cut : n \in DOMAIN order[1]  BY <1>1, <1>2, <1>4
<1>9. IsInjective(early)
    <2> SUFFICES ASSUME NEW m \in 1 .. cut, NEW n \in 1 .. cut, early[m] = early[n]
                 PROVE  m = n
        BY <1>7 DEF IsInjective
    <2>1. order[1][m] = order[1][n]  BY <1>7
    <2> QED  BY <1>1, <1>8, <2>1 DEF IsInjective
<1> DEFINE before == Select(early, CallsOf(i) \cap missing[i])
           after == Select(later, CallsOf(i))
<1>10. /\ before \in Seq(Call) /\ IsInjective(before)
       /\ Range(before) = Range(early) \cap (CallsOf(i) \cap missing[i])
    BY <1>7, <1>9, SelectType, SelectInjective, SelectRange
<1>11. /\ after \in Seq(Call) /\ IsInjective(after)
       /\ Range(after) = Range(later) \cap CallsOf(i)
    BY <1>3, <1>6, SelectType, SelectInjective, SelectRange
<1>12. Undelivered(i) = before \o after  BY DEF Undelivered, early, later
<1> HIDE DEF before, after
<1>13. \A c \in Range(early) : \E p \in 1 .. cut : order[1][p] = c
    BY <1>7 DEF Range
<1>14. \A c \in Range(later) : \E p \in 1 .. Len(order[1]) : order[1][p] = c /\ cut < p
    <2>1. \A n \in 1 .. Len(later) : cut < cut + n  BY <1>2, <1>3
    <2> QED  BY <1>3, <1>4, <1>5, <2>1 DEF Range
<1>15. Range(before) \cap Range(after) = {}
    <2> SUFFICES ASSUME NEW c \in Range(early), c \in Range(later)
                 PROVE  FALSE
        BY <1>10, <1>11
    <2>1. PICK p \in 1 .. cut : order[1][p] = c  BY <1>13
    <2>2. PICK q \in 1 .. Len(order[1]) : order[1][q] = c /\ cut < q  BY <1>14
    <2>3. p = q  BY <1>1, <1>4, <1>8, <2>1, <2>2 DEF IsInjective
    <2> QED  BY <1>2, <2>1, <2>2, <2>3
<1>16. /\ Undelivered(i) \in Seq(Call) /\ IsInjective(Undelivered(i))
       /\ Range(Undelivered(i)) = Range(before) \cup Range(after)
    BY <1>10, <1>11, <1>12, <1>15, InjectiveConcat
<1>17. ASSUME NEW c \in Range(before)
       PROVE  c \in CallsOf(i) /\ c \in missing[i] /\ \E p \in 1 .. Len(order[1]) : order[1][p] = c
    BY <1>4, <1>8, <1>10, <1>13
<1> QED  BY <1>11, <1>14, <1>16, <1>17

LEMMA OrdersStep ==
    ASSUME IInv, [Next]_vars
    PROVE  OrdersFit'
<1>t. /\ TypeOK /\ view \in [Node -> {1, 2}] /\ delivered \in [Node -> 0 .. MaxCalls]
      /\ MaxCalls \in Nat /\ cut \in 0 .. MaxCalls + 1 /\ cut \in Nat
      /\ order \in [1 .. 2 -> Seq(Call)] /\ order[1] \in Seq(Call) /\ order[2] \in Seq(Call)
      /\ Len(order[1]) \in Nat /\ Len(order[2]) \in Nat
      /\ \A k \in Node : delivered[k] \in Nat /\ view[k] \in 1 .. 2
      /\ Callers \subseteq Node
    BY CallsType DEF IInv, TypeOK
<1>o. OrdersFit  BY DEF IInv
<1>s. Sent \subseteq Sent' /\ \A c \in Sent : calls'[c].caller = calls[c].caller
    BY SentStays, CallsStay DEF Sent
<1>m. ASSUME UNCHANGED missing, NEW d \in Range(order[1]), d \in CallerMissed
      PROVE  d \in CallerMissed'
    BY <1>m, CallsStay DEF CallerMissed
<1>u. ASSUME UNCHANGED <<order, view, cut, missing>>,
             \A k \in Node : delivered'[k] <= Len(order[view[k]])
      PROVE  OrdersFit'
    <2>1. \A v \in 1 .. 2 : IsInjective(order'[v]) /\ Range(order'[v]) \subseteq Sent'
        BY <1>u, <1>o, <1>s DEF OrdersFit
    <2>2. \A d \in Range(order'[2]) : view'[calls'[d].caller] = 2
        <3>1. Range(order[2]) \subseteq Sent  BY <1>o DEF OrdersFit
        <3> QED  BY <1>u, <1>o, <1>s, <3>1 DEF OrdersFit
    <2>3. \A p \in 1 .. Len(order[1]) : order[1][p] \in Range(order[1])  BY <1>t DEF Range
    <2>4. \A p \in 1 .. Len(order[1]), q \in 1 .. Len(order[2]) :
              order[1][p] = order[2][q] => cut < p \/ order[1][p] \in CallerMissed'
        BY <1>u, <1>m, <1>o, <2>3 DEF OrdersFit
    <2> QED  BY <1>u, <1>o, <2>1, <2>2, <2>4 DEF OrdersFit
<1>1. ASSUME NEW i \in Callers, NEW nodes \in Targets, GetBuffer(i, nodes)
      PROVE  OrdersFit'
    BY <1>1, <1>u, <1>o DEF GetBuffer, groupVars, OrdersFit
<1>2. ASSUME NEW i \in Callers, NEW j \in Node \ {i}, P2pWrite(i, j)
      PROVE  OrdersFit'
    BY <1>2, <1>u, <1>o DEF P2pWrite, groupVars, OrdersFit
<1>3. ASSUME NEW i \in Node, Crash(i)
      PROVE  OrdersFit'
    BY <1>3, <1>u, <1>o DEF Crash, groupVars, OrdersFit
<1>4. ASSUME NEW i \in Node, Wedge(i)
      PROVE  OrdersFit'
    BY <1>4, <1>u, <1>o DEF Wedge, groupVars, OrdersFit
<1>5. ASSUME NEW i \in Callers, SendCall(i)
      PROVE  OrdersFit'
    <2> DEFINE c == app[i].call
               v == view[i]
    <2>1. /\ i \in Node /\ c \in Call /\ c \in CallsOf(i) /\ c \notin Sent /\ c \in Sent'
          /\ v \in 1 .. 2
        BY <1>5, <1>t, SentNow
    <2>2. c \notin Range(order[1]) /\ c \notin Range(order[2])  BY <2>1, <1>o DEF OrdersFit
    <2>3. /\ order' = [order EXCEPT ![v] = Append(@, c)]
          /\ UNCHANGED <<view, cut, delivered, calls, missing>>
        BY <1>5 DEF SendCall
    <2> HIDE DEF c, v
    <2>4. order[v] \in Seq(Call) /\ IsInjective(order[v]) /\ c \notin Range(order[v])
        BY <2>1, <2>2, <1>t, <1>o DEF OrdersFit
    <2>5. /\ IsInjective(order'[v]) /\ Range(order'[v]) = Range(order[v]) \cup {c}
          /\ Len(order'[v]) = Len(order[v]) + 1 /\ order'[v][Len(order[v]) + 1] = c
          /\ \A n \in 1 .. Len(order[v]) : order'[v][n] = order[v][n]
        <3>1. order'[v] = Append(order[v], c)  BY <2>1, <2>3, <1>t
        <3> QED  BY <2>1, <2>4, <3>1, InjectiveAppend
    <2>6. \A w \in 1 .. 2 : w # v => order'[w] = order[w]  BY <2>1, <2>3, <1>t
    <2>7. \A k \in Node : delivered'[k] <= Len(order'[view'[k]])
        <3> TAKE k \in Node
        <3>1. delivered[k] <= Len(order[view[k]]) /\ view[k] \in 1 .. 2
            BY <1>t, <1>o DEF OrdersFit
        <3>2. Len(order'[view[k]]) >= Len(order[view[k]]) /\ Len(order'[view[k]]) \in Nat
            BY <2>1, <2>5, <2>6, <3>1, <1>t
        <3> QED  BY <2>3, <3>1, <3>2, <1>t
    <2>8. \A w \in 1 .. 2 : IsInjective(order'[w]) /\ Range(order'[w]) \subseteq Sent'
        <3> TAKE w \in 1 .. 2
        <3>1. CASE w = v  BY <2>1, <2>4, <2>5, <3>1, <1>o, <1>s DEF OrdersFit
        <3>2. CASE w # v  BY <2>6, <3>2, <1>o, <1>s DEF OrdersFit
        <3> QED  BY <3>1, <3>2
    <2>9. \A d \in Range(order'[2]) : view'[calls'[d].caller] = 2
        <3> TAKE d \in Range(order'[2])
        <3>1. d \in Range(order[2]) \/ (d = c /\ v = 2)  BY <2>1, <2>5, <2>6
        <3>2. view[calls[c].caller] = v  BY <2>1 DEF CallsOf, v
        <3> QED  BY <2>3, <3>1, <3>2, <1>o DEF OrdersFit
    <2>10. ASSUME NEW p \in 1 .. Len(order'[1]), NEW q \in 1 .. Len(order'[2]),
                  order'[1][p] = order'[2][q]
           PROVE  cut' < p \/ order'[1][p] \in CallerMissed'
        <3>0. CallerMissed' = CallerMissed  BY <2>3 DEF CallerMissed
        <3>1. \A n \in 1 .. Len(order[1]) : order[1][n] \in Range(order[1])
            BY <1>t DEF Range
        <3>2. \A n \in 1 .. Len(order[2]) : order[2][n] \in Range(order[2])
            BY <1>t DEF Range
        <3>3. CASE v = 1
            <4>1. order'[2] = order[2]  BY <2>6, <3>3
            <4>2. p \in 1 .. Len(order[1]) \/ order'[1][p] = c
                BY <2>5, <3>3, <1>t
            <4> QED  BY <2>2, <2>3, <2>5, <2>10, <3>0, <3>2, <3>3, <4>1, <4>2, <1>o DEF OrdersFit
        <3>4. CASE v = 2
            <4>1. order'[1] = order[1]  BY <2>6, <3>4
            <4>2. q \in 1 .. Len(order[2]) \/ order'[2][q] = c
                BY <2>5, <3>4, <1>t
            <4> QED  BY <2>2, <2>3, <2>5, <2>10, <3>0, <3>1, <3>4, <4>1, <4>2, <1>o DEF OrdersFit
        <3> QED  BY <2>1, <3>3, <3>4
    <2> QED  BY <2>7, <2>8, <2>9, <2>10 DEF OrdersFit
<1>6. ASSUME NEW i \in Callers, SendSpins(i)
      PROVE  OrdersFit'
    BY <1>6, <1>u, <1>o DEF SendSpins, groupVars, OrdersFit
<1>7. ASSUME NEW i \in Callers, PushPending(i)
      PROVE  OrdersFit'
    BY <1>7, <1>u, <1>o DEF PushPending, groupVars, OrdersFit
<1>8. ASSUME NEW i \in Callers, P2pPush(i)
      PROVE  OrdersFit'
    BY <1>8, <1>u, <1>o DEF P2pPush, groupVars, OrdersFit
<1>9. ASSUME NEW i \in Node, PassOver(i)
      PROVE  OrdersFit'
    <2>1. delivered' = [delivered EXCEPT ![i] = @ + 1]  BY <1>9 DEF PassOver, Counted
    <2>2. delivered[i] + 1 <= Len(order[view[i]])  BY <1>9, <1>t, NextCallType DEF PassOver
    <2>3. \A k \in Node : delivered'[k] <= Len(order[view[k]])
        BY <2>1, <2>2, <1>t, <1>o DEF OrdersFit
    <2>4. UNCHANGED <<order, view, cut, missing>>  BY <1>9 DEF PassOver, groupVars
    <2> QED  BY <2>3, <2>4, <1>u
<1>10. ASSUME NEW i \in Node, DeliverRemote(i)
       PROVE  OrdersFit'
    <2>1. delivered' = [delivered EXCEPT ![i] = @ + 1]  BY <1>10 DEF DeliverRemote, Counted
    <2>2. delivered[i] + 1 <= Len(order[view[i]])  BY <1>10, <1>t, NextCallType DEF DeliverRemote
    <2>3. \A k \in Node : delivered'[k] <= Len(order[view[k]])
        BY <2>1, <2>2, <1>t, <1>o DEF OrdersFit
    <2>4. UNCHANGED <<order, view, cut, missing>>  BY <1>10 DEF DeliverRemote, groupVars
    <2> QED  BY <2>3, <2>4, <1>u
<1>11. ASSUME NEW i \in Node, DeliverOwn(i)
       PROVE  OrdersFit'
    <2>1. delivered' = [delivered EXCEPT ![i] = @ + 1]  BY <1>11 DEF DeliverOwn, Counted
    <2>2. delivered[i] + 1 <= Len(order[view[i]])  BY <1>11, <1>t, NextCallType DEF DeliverOwn
    <2>3. \A k \in Node : delivered'[k] <= Len(order[view[k]])
        BY <2>1, <2>2, <1>t, <1>o DEF OrdersFit
    <2>4. UNCHANGED <<order, view, cut, missing>>  BY <1>11 DEF DeliverOwn, groupVars
    <2> QED  BY <2>3, <2>4, <1>u
<1>12. ASSUME NEW i \in Node, NEW j \in Node, RpcRequest(i, j)
       PROVE  OrdersFit'
    BY <1>12, <1>u, <1>o DEF RpcRequest, groupVars, OrdersFit
<1>13. ASSUME NEW i \in Node, NEW j \in Node, RpcAnswer(i, j)
       PROVE  OrdersFit'
    BY <1>13, <1>u, <1>o DEF RpcAnswer, groupVars, OrdersFit
<1>14. ASSUME NEW i \in Node, NEW j \in Node, SendObjects(i, j)
       PROVE  OrdersFit'
    BY <1>14, <1>u, <1>o DEF SendObjects, groupVars, OrdersFit
<1>15. ASSUME NEW i \in Node, Cleanup(i)
       PROVE  OrdersFit'
    BY <1>15, <1>u, <1>o DEF Cleanup, groupVars, OrdersFit
<1>16. ASSUME NEW i \in Node, InstallView(i)
       PROVE  OrdersFit'
    <2> DEFINE more == Undelivered(i)
    <2>1. /\ order' = [order EXCEPT ![2] = @ \o more]
          /\ view' = [view EXCEPT ![i] = 2] /\ delivered' = [delivered EXCEPT ![i] = 0]
          /\ UNCHANGED <<cut, calls, missing>> /\ cut <= MaxCalls
        BY <1>16 DEF InstallView
    <2>2. view[i] = 1
        BY <1>16, <1>t DEF InstallView, IInv, PhasesFit
    <2>3. /\ more \in Seq(Call) /\ IsInjective(more)
          /\ \A c \in Range(more) :
                 /\ c \in CallsOf(i)
                 /\ \E p \in 1 .. Len(order[1]) :
                        order[1][p] = c /\ (cut < p \/ c \in missing[i])
        BY <2>1, Resent
    <2> HIDE DEF more
    <2>4. Range(order[2]) \cap Range(more) = {}
        <3>1. \A c \in Range(order[2]) : calls[c].caller # i  BY <2>2, <1>o DEF OrdersFit
        <3> QED  BY <2>3, <3>1 DEF CallsOf
    <2>5. /\ IsInjective(order'[2]) /\ Range(order'[2]) = Range(order[2]) \cup Range(more)
          /\ Len(order'[2]) = Len(order[2]) + Len(more)
          /\ \A n \in 1 .. Len(order[2]) : order'[2][n] = order[2][n]
        <3>1. order'[2] = order[2] \o more  BY <2>1, <1>t
        <3> QED  BY <2>3, <2>4, <3>1, <1>t, <1>o, InjectiveConcat DEF OrdersFit
    <2>6. order'[1] = order[1]  BY <2>1, <1>t
    <2>7. \A c \in Range(more) : c \in Range(order[1])
        <3>1. DOMAIN order[1] = 1 .. Len(order[1])  BY <1>t
        <3> QED  BY <2>3, <3>1 DEF Range
    <2>8. \A k \in Node : delivered'[k] <= Len(order'[view'[k]])
        <3> TAKE k \in Node
        <3>1. delivered[k] <= Len(order[view[k]]) /\ view[k] \in 1 .. 2 /\ Len(more) \in Nat
            BY <2>3, <1>t, <1>o DEF OrdersFit
        <3>2. CASE k = i  BY <2>1, <2>5, <3>1, <3>2, <1>t
        <3>3. CASE k # i /\ view[k] = 1  BY <2>1, <2>6, <3>1, <3>3, <1>t
        <3>4. CASE k # i /\ view[k] = 2  BY <2>1, <2>5, <3>1, <3>4, <1>t
        <3> QED  BY <3>1, <3>2, <3>3, <3>4
    <2>9. \A w \in 1 .. 2 : IsInjective(order'[w]) /\ Range(order'[w]) \subseteq Sent'
        <3>1. Range(order[1]) \subseteq Sent' /\ Range(order[2]) \subseteq Sent' /\ IsInjective(order[1])
            BY <1>o, <1>s DEF OrdersFit
        <3>2. \A w \in 1 .. 2 : w = 1 \/ w = 2  OBVIOUS
        <3> QED  BY <2>5, <2>6, <2>7, <3>1, <3>2
    <2>10. \A d \in Range(order'[2]) : view'[calls'[d].caller] = 2
        <3> TAKE d \in Range(order'[2])
        <3>1. CASE d \in Range(order[2])
            <4>1. view[calls[d].caller] = 2 /\ d \in DOMAIN calls
                BY <3>1, <1>o DEF OrdersFit, Sent
            <4>2. calls[d].caller \in Node  BY <4>1, <1>t, CallsType
            <4> QED  BY <2>1, <4>1, <4>2, <1>t
        <3>2. CASE d \in Range(more)
            BY <2>1, <2>3, <3>2, <1>t DEF CallsOf
        <3> QED  BY <2>5, <3>1, <3>2
    <2>11. ASSUME NEW p \in 1 .. Len(order'[1]), NEW q \in 1 .. Len(order'[2]),
                  order'[1][p] = order'[2][q]
           PROVE  cut' < p \/ order'[1][p] \in CallerMissed'
        <3>0. CallerMissed' = CallerMissed  BY <2>1 DEF CallerMissed
        <3>1. p \in 1 .. Len(order[1]) /\ p \in DOMAIN order[1]  BY <2>6, <1>t
        <3>2. CASE q \in 1 .. Len(order[2])
            BY <2>1, <2>5, <2>6, <2>11, <3>0, <3>1, <3>2, <1>o DEF OrdersFit
        <3>3. CASE q \notin 1 .. Len(order[2])
            <4>1. order'[2][q] \in Range(more)
                <5>1. order'[2] = order[2] \o more  BY <2>1, <1>t, SMTT(40)
                <5>2. q \in Len(order[2]) + 1 .. Len(order[2]) + Len(more) /\ Len(more) \in Nat
                    BY <2>3, <2>5, <3>3, <1>t
                <5>3. order'[2][q] = more[q - Len(order[2])]
                    BY <2>3, <2>4, <5>1, <5>2, <1>t, <1>o, InjectiveConcat DEF OrdersFit
                <5>4. q - Len(order[2]) \in DOMAIN more  BY <2>3, <5>2, <1>t
                <5> QED  BY <5>3, <5>4 DEF Range
            <4>2. PICK m \in 1 .. Len(order[1]) :
                      /\ order[1][m] = order'[2][q]
                      /\ cut < m \/ order'[2][q] \in missing[i]
                BY <2>3, <4>1
            <4>3. m \in DOMAIN order[1]  BY <4>2, <1>t
            <4>4. m = p
                BY <2>6, <2>11, <3>1, <4>2, <4>3, <1>o DEF OrdersFit, IsInjective
            <4>5. order'[2][q] \in DOMAIN calls /\ calls[order'[2][q]].caller = i
                BY <2>3, <4>1 DEF CallsOf
            <4> QED  BY <2>1, <2>11, <3>0, <4>2, <4>4, <4>5 DEF CallerMissed
        <3> QED  BY <3>2, <3>3
    <2> QED  BY <2>8, <2>9, <2>10, <2>11 DEF OrdersFit
<1>17. ASSUME NEW i \in Node, ViewUpcall(i)
       PROVE  OrdersFit'
    BY <1>17, <1>u, <1>o DEF ViewUpcall, groupVars, OrdersFit
<1>18. ASSUME LeaderCleanup
       PROVE  OrdersFit'
    <2>1. UNCHANGED <<order, view, delivered>> /\ cut > MaxCalls
        BY <1>18 DEF LeaderCleanup
    <2>2. \A k \in Node : view[k] # 2
        <3>1. ~ (cut <= MaxCalls)  BY <2>1, <1>t
        <3> QED  BY <3>1 DEF IInv, PhasesFit
    <2>3. Range(order[2]) = {}
        <3>1. \A d \in Range(order[2]) : d \in DOMAIN calls /\ view[calls[d].caller] = 2
            BY <1>o DEF OrdersFit, Sent
        <3> QED  BY <2>2, <3>1, <1>t, CallsType
    <2>4. 1 .. Len(order[2]) = {}
        <3>1. \A q \in 1 .. Len(order[2]) : order[2][q] \in Range(order[2])
            BY <1>t DEF Range
        <3> QED  BY <2>3, <3>1
    <2> QED  BY <2>1, <2>3, <2>4, <1>o, <1>s DEF OrdersFit
<1>19. CASE UNCHANGED vars
    BY <1>19, <1>u, <1>o DEF vars, groupVars, OrdersFit
<1> QED
    BY <1>1, <1>2, <1>3, <1>4, <1>5, <1>6, <1>7, <1>8, <1>9, <1>10,
       <1>11, <1>12, <1>13, <1>14, <1>15, <1>16, <1>17, <1>18, <1>19
    DEF Next, Environment, Threads

LEMMA AppStep ==
    ASSUME IInv, [Next]_vars
    PROVE  AppFits'
<1>t. /\ TypeOK /\ app \in [Node -> Activity] /\ phase \in [Node -> Phase]
      /\ Callers \subseteq Node /\ \A d \in DOMAIN calls : calls[d].caller \in Node
    BY CallsType DEF IInv, TypeOK
<1>a. /\ \A k \in Node : app[k].pc # "idle" =>
             app[k].call \in DOMAIN calls /\ calls[app[k].call].caller = k
      /\ \A k \in Node : app[k].pc = "written" => app[k].call \notin GroupCalls
      /\ \A d \in DOMAIN calls : phase[calls[d].caller] \notin {"joining", "joined"}
    BY DEF IInv, AppFits, CallsOf, ToGroup, Joining
<1>g. ASSUME /\ \A k \in Node : app'[k].pc # "idle" =>
                    app'[k].call \in DOMAIN calls' /\ calls'[app'[k].call].caller = k
             /\ \A k \in Node : app'[k].pc = "written" => app'[k].call \notin GroupCalls'
             /\ \A d \in DOMAIN calls' : phase'[calls'[d].caller] \notin {"joining", "joined"}
      PROVE  AppFits'
    BY <1>g DEF AppFits, CallsOf, ToGroup, Joining
<1>k. \A d \in DOMAIN calls :
          /\ d \in DOMAIN calls' /\ calls'[d].caller = calls[d].caller
          /\ d \in GroupCalls' <=> d \in GroupCalls
    BY CallsStay, KindStays
<1>u. ASSUME UNCHANGED <<app, calls, phase>>
      PROVE  AppFits'
    BY <1>u, <1>a, <1>g DEF GroupCalls
<1>1. ASSUME NEW i \in Callers, NEW nodes \in Targets, GetBuffer(i, nodes)
      PROVE  AppFits'
    <2>1. nodes \in SUBSET Node /\ i \in Node  BY <1>t DEF CallsAssumption
    <2>2. /\ Len(calls') \notin DOMAIN calls /\ DOMAIN calls' = DOMAIN calls \cup {Len(calls')}
          /\ calls'[Len(calls')] = CallTo(i, nodes)
        BY <1>1, <2>1, <1>t, NewCall DEF GetBuffer
    <2>3. app'[i].call = Len(calls') /\ app'[i].pc = "buffer"
          /\ \A k \in Node \ {i} : app'[k] = app[k]
        BY <1>1, <1>t DEF GetBuffer, Idle
    <2>4. phase[i] = "running" /\ phase' = phase  BY <1>1 DEF GetBuffer, groupVars
    <2> DEFINE c == Len(calls')
    <2>a. c \in DOMAIN calls' /\ calls'[c].caller = i /\ c \notin DOMAIN calls
        BY <2>2, SMTT(40) DEF CallTo
    <2>b. \A d \in DOMAIN calls' : d = c \/ d \in DOMAIN calls  BY <2>2
    <2>c. app'[i].call = c  BY <2>3
    <2> HIDE DEF c
    <2>d. \A k \in Node : app'[k].pc # "idle" =>
              app'[k].call \in DOMAIN calls' /\ calls'[app'[k].call].caller = k
        BY <2>3, <2>a, <2>c, <1>a, <1>k
    <2>e. \A k \in Node : app'[k].pc = "written" => app'[k].call \notin GroupCalls'
        BY <2>3, <2>c, <1>a, <1>k DEF c
    <2>f. \A d \in DOMAIN calls' : phase'[calls'[d].caller] \notin {"joining", "joined"}
        BY <2>4, <2>a, <2>b, <1>a, <1>k
    <2> QED  BY <2>d, <2>e, <2>f, <1>g
<1>2. ASSUME NEW i \in Callers, NEW j \in Node \ {i}, P2pWrite(i, j)
      PROVE  AppFits'
    <2>1. {j} \in SUBSET Node /\ i \in Node  BY <1>t
    <2>2. /\ Len(calls') \notin DOMAIN calls /\ DOMAIN calls' = DOMAIN calls \cup {Len(calls')}
          /\ calls'[Len(calls')] = CallTo(i, {j})
        BY <1>2, <2>1, <1>t, NewCall DEF P2pWrite
    <2>3. app'[i].call = Len(calls') /\ app'[i].pc = "written"
          /\ \A k \in Node \ {i} : app'[k] = app[k]
        BY <1>2, <1>t DEF P2pWrite
    <2>4. phase[i] \notin {"joining", "joined"} /\ phase' = phase
        BY <1>2 DEF P2pWrite, groupVars
    <2>5. Len(calls') \notin GroupCalls'  BY <2>2, SMTT(40) DEF GroupCalls, CallTo
    <2> DEFINE c == Len(calls')
    <2>a. c \in DOMAIN calls' /\ calls'[c].caller = i /\ c \notin DOMAIN calls
        BY <2>2, SMTT(40) DEF CallTo
    <2>b. \A d \in DOMAIN calls' : d = c \/ d \in DOMAIN calls  BY <2>2
    <2>c. app'[i].call = c  BY <2>3
    <2> HIDE DEF c
    <2>d. \A k \in Node : app'[k].pc # "idle" =>
              app'[k].call \in DOMAIN calls' /\ calls'[app'[k].call].caller = k
        BY <2>3, <2>a, <2>c, <1>a, <1>k
    <2>e. \A k \in Node : app'[k].pc = "written" => app'[k].call \notin GroupCalls'
        BY <2>3, <2>5, <2>c, <1>a, <1>k DEF c
    <2>f. \A d \in DOMAIN calls' : phase'[calls'[d].caller] \notin {"joining", "joined"}
        BY <2>4, <2>a, <2>b, <1>a, <1>k
    <2> QED  BY <2>d, <2>e, <2>f, <1>g
<1>3. ASSUME NEW i \in Node, Crash(i)
      PROVE  AppFits'
    BY <1>3, <1>u DEF Crash, groupVars, callerVars
<1>4. ASSUME NEW i \in Node, Wedge(i)
      PROVE  AppFits'
    <2>1. \A k \in Node : phase'[k] \in {"joining", "joined"} =>
                            phase[k] \in {"joining", "joined"}
        BY <1>4, <1>t DEF Wedge
    <2>2. UNCHANGED <<app, calls>>  BY <1>4 DEF Wedge
    <2> QED  BY <2>1, <2>2, <1>t, <1>a, <1>g, <1>k
<1>5. ASSUME NEW i \in Callers, SendCall(i)
      PROVE  AppFits'
    <2>1. \A k \in Node : /\ app'[k].pc # "idle" => app[k].pc # "idle" /\ app'[k].call = app[k].call
                          /\ app'[k].pc = "written" => app[k].pc = "written"
        BY <1>5, <1>t DEF SendCall, Idle
    <2>2. UNCHANGED <<calls, phase>>  BY <1>5 DEF SendCall, groupVars
    <2> QED  BY <2>1, <2>2, <1>t, <1>a, <1>g, <1>k
<1>6. ASSUME NEW i \in Callers, SendSpins(i)
      PROVE  AppFits'
    <2>1. \A k \in Node : /\ app'[k].pc # "idle" => app[k].pc # "idle" /\ app'[k].call = app[k].call
                          /\ app'[k].pc = "written" => app[k].pc = "written"
        BY <1>6, <1>t DEF SendSpins, Idle
    <2>2. UNCHANGED <<calls, phase>>  BY <1>6 DEF SendSpins, groupVars
    <2> QED  BY <2>1, <2>2, <1>t, <1>a, <1>g, <1>k
<1>7. ASSUME NEW i \in Callers, PushPending(i)
      PROVE  AppFits'
    <2>1. \A k \in Node : /\ app'[k].pc # "idle" => app[k].pc # "idle" /\ app'[k].call = app[k].call
                          /\ app'[k].pc = "written" => app[k].pc = "written"
        BY <1>7, <1>t DEF PushPending, Idle
    <2>2. UNCHANGED <<calls, phase>>  BY <1>7 DEF PushPending, groupVars
    <2> QED  BY <2>1, <2>2, <1>t, <1>a, <1>g, <1>k
<1>8. ASSUME NEW i \in Callers, P2pPush(i)
      PROVE  AppFits'
    <2>1. \A k \in Node : /\ app'[k].pc # "idle" => app[k].pc # "idle" /\ app'[k].call = app[k].call
                          /\ app'[k].pc = "written" => app[k].pc = "written"
        BY <1>8, <1>t DEF P2pPush, Idle
    <2>2. UNCHANGED <<calls, phase>>  BY <1>8 DEF P2pPush, groupVars
    <2> QED  BY <2>1, <2>2, <1>t, <1>a, <1>g, <1>k
<1>9. ASSUME NEW i \in Node, PassOver(i)
      PROVE  AppFits'
    BY <1>9, <1>u DEF PassOver, groupVars, callerVars
<1>10. ASSUME NEW i \in Node, DeliverRemote(i)
       PROVE  AppFits'
    BY <1>10, <1>u DEF DeliverRemote, groupVars, callerVars
<1>11. ASSUME NEW i \in Node, DeliverOwn(i)
       PROVE  AppFits'
    BY <1>11, <1>u DEF DeliverOwn, groupVars, callerVars
<1>12. ASSUME NEW i \in Node, NEW j \in Node, RpcRequest(i, j)
       PROVE  AppFits'
    BY <1>12, <1>u DEF RpcRequest, groupVars, callerVars
<1>13. ASSUME NEW i \in Node, NEW j \in Node, RpcAnswer(i, j)
       PROVE  AppFits'
    BY <1>13, <1>u DEF RpcAnswer, groupVars, callerVars
<1>14. ASSUME NEW i \in Node, NEW j \in Node, SendObjects(i, j)
       PROVE  AppFits'
    <2>1. \A k \in Node : phase'[k] \in {"joining", "joined"} =>
                            phase[k] \in {"joining", "joined"}
        BY <1>14, <1>t DEF SendObjects
    <2>2. UNCHANGED <<app, calls>>  BY <1>14 DEF SendObjects
    <2> QED  BY <2>1, <2>2, <1>t, <1>a, <1>g, <1>k
<1>15. ASSUME NEW i \in Node, Cleanup(i)
       PROVE  AppFits'
    <2>1. \A k \in Node : phase'[k] \in {"joining", "joined"} =>
                            phase[k] \in {"joining", "joined"}
        BY <1>15, <1>t DEF Cleanup
    <2>2. UNCHANGED <<app, calls>>  BY <1>15 DEF Cleanup
    <2> QED  BY <2>1, <2>2, <1>t, <1>a, <1>g, <1>k
<1>16. ASSUME NEW i \in Node, InstallView(i)
       PROVE  AppFits'
    <2>1. \A k \in Node : phase'[k] \in {"joining", "joined"} =>
                            phase[k] \in {"joining", "joined"}
        BY <1>16, <1>t DEF InstallView
    <2>2. UNCHANGED <<app, calls>>  BY <1>16 DEF InstallView
    <2> QED  BY <2>1, <2>2, <1>t, <1>a, <1>g, <1>k
<1>17. ASSUME NEW i \in Node, ViewUpcall(i)
       PROVE  AppFits'
    <2>1. \A k \in Node : phase'[k] \in {"joining", "joined"} =>
                            phase[k] \in {"joining", "joined"}
        BY <1>17, <1>t DEF ViewUpcall
    <2>2. UNCHANGED <<app, calls>>  BY <1>17 DEF ViewUpcall
    <2> QED  BY <2>1, <2>2, <1>t, <1>a, <1>g, <1>k
<1>18. ASSUME LeaderCleanup
       PROVE  AppFits'
    BY <1>18, <1>u DEF LeaderCleanup, groupVars, callerVars
<1>19. CASE UNCHANGED vars
    BY <1>19, <1>u DEF vars, groupVars, callerVars
<1> QED
    BY <1>1, <1>2, <1>3, <1>4, <1>5, <1>6, <1>7, <1>8, <1>9, <1>10,
       <1>11, <1>12, <1>13, <1>14, <1>15, <1>16, <1>17, <1>18, <1>19
    DEF Next, Environment, Threads

-----------------------------------------------------------------------------
(***************************************************************************)
(* Executions and outcomes.                                                *)
(***************************************************************************)
Extends(long, short) ==
    \A p \in 1 .. Len(short) : p \in 1 .. Len(long) /\ long[p] = short[p]

\* What is in the order of a view stays where it is.
LEMMA OrdersGrow ==
    ASSUME IInv, [Next]_vars
    PROVE  Extends(order'[1], order[1]) /\ Extends(order'[2], order[2])
<1>t. /\ TypeOK /\ order \in [1 .. 2 -> Seq(Call)]
      /\ order[1] \in Seq(Call) /\ order[2] \in Seq(Call)
    BY DEF IInv, TypeOK
<1>u. ASSUME UNCHANGED order
      PROVE  Extends(order'[1], order[1]) /\ Extends(order'[2], order[2])
    BY <1>u DEF Extends
<1>l. \A s, more \in Seq(Call) : Extends(s \o more, s)
    BY ConcatProperties, <1>t DEF Extends
<1>m. \A s \in Seq(Call), e \in Call : Extends(Append(s, e), s)
    BY <1>t DEF Extends
<1>n. \A s \in Seq(Call) : Extends(s, s)
    BY DEF Extends
<1>1. ASSUME NEW i \in Callers, NEW nodes \in Targets, GetBuffer(i, nodes)
      PROVE  Extends(order'[1], order[1]) /\ Extends(order'[2], order[2])
    BY <1>1, <1>u DEF GetBuffer, groupVars, callerVars
<1>2. ASSUME NEW i \in Callers, NEW j \in Node \ {i}, P2pWrite(i, j)
      PROVE  Extends(order'[1], order[1]) /\ Extends(order'[2], order[2])
    BY <1>2, <1>u DEF P2pWrite, groupVars, callerVars
<1>3. ASSUME NEW i \in Node, Crash(i)
      PROVE  Extends(order'[1], order[1]) /\ Extends(order'[2], order[2])
    BY <1>3, <1>u DEF Crash, groupVars, callerVars
<1>4. ASSUME NEW i \in Node, Wedge(i)
      PROVE  Extends(order'[1], order[1]) /\ Extends(order'[2], order[2])
    BY <1>4, <1>u DEF Wedge, groupVars, callerVars
<1>5. ASSUME NEW i \in Callers, SendCall(i)
      PROVE  Extends(order'[1], order[1]) /\ Extends(order'[2], order[2])
    <2>1. app[i].call \in Call /\ view[i] \in 1 .. 2  BY <1>5, SentNow DEF IInv, TypeOK
    <2>2. order' = [order EXCEPT ![view[i]] = Append(@, app[i].call)]  BY <1>5 DEF SendCall
    <2>3. CASE view[i] = 1
        <3>1. order'[1] = Append(order[1], app[i].call) /\ order'[2] = order[2]
            BY <2>2, <2>3, <1>t
        <3> QED  BY <2>1, <3>1, <1>t, <1>m, <1>n
    <2>4. CASE view[i] = 2
        <3>1. order'[2] = Append(order[2], app[i].call) /\ order'[1] = order[1]
            BY <2>2, <2>4, <1>t
        <3> QED  BY <2>1, <3>1, <1>t, <1>m, <1>n
    <2> QED  BY <2>1, <2>3, <2>4
<1>6. ASSUME NEW i \in Callers, SendSpins(i)
      PROVE  Extends(order'[1], order[1]) /\ Extends(order'[2], order[2])
    BY <1>6, <1>u DEF SendSpins, groupVars, callerVars
<1>7. ASSUME NEW i \in Callers, PushPending(i)
      PROVE  Extends(order'[1], order[1]) /\ Extends(order'[2], order[2])
    BY <1>7, <1>u DEF PushPending, groupVars, callerVars
<1>8. ASSUME NEW i \in Callers, P2pPush(i)
      PROVE  Extends(order'[1], order[1]) /\ Extends(order'[2], order[2])
    BY <1>8, <1>u DEF P2pPush, groupVars, callerVars
<1>9. ASSUME NEW i \in Node, PassOver(i)
      PROVE  Extends(order'[1], order[1]) /\ Extends(order'[2], order[2])
    BY <1>9, <1>u DEF PassOver, groupVars, callerVars
<1>10. ASSUME NEW i \in Node, DeliverRemote(i)
       PROVE  Extends(order'[1], order[1]) /\ Extends(order'[2], order[2])
    BY <1>10, <1>u DEF DeliverRemote, groupVars, callerVars
<1>11. ASSUME NEW i \in Node, DeliverOwn(i)
       PROVE  Extends(order'[1], order[1]) /\ Extends(order'[2], order[2])
    BY <1>11, <1>u DEF DeliverOwn, groupVars, callerVars
<1>12. ASSUME NEW i \in Node, NEW j \in Node, RpcRequest(i, j)
       PROVE  Extends(order'[1], order[1]) /\ Extends(order'[2], order[2])
    BY <1>12, <1>u DEF RpcRequest, groupVars, callerVars
<1>13. ASSUME NEW i \in Node, NEW j \in Node, RpcAnswer(i, j)
       PROVE  Extends(order'[1], order[1]) /\ Extends(order'[2], order[2])
    BY <1>13, <1>u DEF RpcAnswer, groupVars, callerVars
<1>14. ASSUME NEW i \in Node, NEW j \in Node, SendObjects(i, j)
       PROVE  Extends(order'[1], order[1]) /\ Extends(order'[2], order[2])
    BY <1>14, <1>u DEF SendObjects, groupVars, callerVars
<1>15. ASSUME NEW i \in Node, Cleanup(i)
       PROVE  Extends(order'[1], order[1]) /\ Extends(order'[2], order[2])
    BY <1>15, <1>u DEF Cleanup, groupVars, callerVars
<1>16. ASSUME NEW i \in Node, InstallView(i)
       PROVE  Extends(order'[1], order[1]) /\ Extends(order'[2], order[2])
    <2>1. Undelivered(i) \in Seq(Call)  BY <1>16, Resent DEF InstallView
    <2>2. order'[1] = order[1] /\ order'[2] = order[2] \o Undelivered(i)
        BY <1>16, <1>t DEF InstallView
    <2> QED  BY <2>1, <2>2, <1>t, <1>l, <1>n
<1>17. ASSUME NEW i \in Node, ViewUpcall(i)
       PROVE  Extends(order'[1], order[1]) /\ Extends(order'[2], order[2])
    BY <1>17, <1>u DEF ViewUpcall, groupVars, callerVars
<1>18. ASSUME LeaderCleanup
       PROVE  Extends(order'[1], order[1]) /\ Extends(order'[2], order[2])
    BY <1>18, <1>u DEF LeaderCleanup, groupVars, callerVars
<1>19. CASE UNCHANGED vars
    BY <1>19, <1>u DEF vars, groupVars, callerVars
<1> QED
    BY <1>1, <1>2, <1>3, <1>4, <1>5, <1>6, <1>7, <1>8, <1>9, <1>10,
       <1>11, <1>12, <1>13, <1>14, <1>15, <1>16, <1>17, <1>18, <1>19
    DEF Next, Environment, Threads

LEMMA RangeConcat ==
    ASSUME NEW U, NEW s \in Seq(U), NEW u \in Seq(U)
    PROVE  Range(s \o u) = Range(s) \cup Range(u)
<1> DEFINE r == s \o u
<1>1. /\ r \in Seq(U) /\ Len(r) = Len(s) + Len(u)
      /\ \A n \in 1 .. Len(s) : r[n] = s[n]
      /\ \A n \in Len(s) + 1 .. Len(s) + Len(u) : r[n] = u[n - Len(s)]
    BY ConcatProperties
<1>2. DOMAIN s = 1 .. Len(s) /\ Len(s) \in Nat /\ DOMAIN u = 1 .. Len(u) /\ Len(u) \in Nat
      /\ DOMAIN r = 1 .. Len(r)
    BY <1>1
<1> HIDE DEF r
<1>3. \A n \in DOMAIN r : \/ n \in DOMAIN s /\ r[n] = s[n]
                          \/ n - Len(s) \in DOMAIN u /\ r[n] = u[n - Len(s)]
    BY <1>1, <1>2
<1>4. \A n \in DOMAIN s : n \in DOMAIN r /\ r[n] = s[n]  BY <1>1, <1>2
<1>5. \A n \in DOMAIN u : Len(s) + n \in DOMAIN r /\ r[Len(s) + n] = u[n]
    <2> TAKE n \in DOMAIN u
    <2>1. Len(s) + n \in Len(s) + 1 .. Len(s) + Len(u) /\ Len(s) + n - Len(s) = n  BY <1>2
    <2> QED  BY <1>1, <1>2, <2>1
<1>6. Range(r) \subseteq Range(s) \cup Range(u)  BY <1>3 DEF Range
<1>7. Range(s) \subseteq Range(r) /\ Range(u) \subseteq Range(r)  BY <1>4, <1>5 DEF Range
<1> QED  BY <1>6, <1>7 DEF r

\* Only a call that has not been sent enters the orders.
LEMMA OrderedNew ==
    ASSUME IInv, [Next]_vars
    PROVE  \A c \in Ordered' : c \in Ordered \/ c \notin Sent
<1>t. TypeOK /\ order \in [1 .. 2 -> Seq(Call)]
    BY DEF IInv, TypeOK
<1>u. ASSUME UNCHANGED order
      PROVE  \A c \in Ordered' : c \in Ordered \/ c \notin Sent
    BY <1>u DEF Ordered
<1>1. ASSUME NEW i \in Callers, NEW nodes \in Targets, GetBuffer(i, nodes)
      PROVE  \A c \in Ordered' : c \in Ordered \/ c \notin Sent
    BY <1>1, <1>u DEF GetBuffer, groupVars, callerVars
<1>2. ASSUME NEW i \in Callers, NEW j \in Node \ {i}, P2pWrite(i, j)
      PROVE  \A c \in Ordered' : c \in Ordered \/ c \notin Sent
    BY <1>2, <1>u DEF P2pWrite, groupVars, callerVars
<1>3. ASSUME NEW i \in Node, Crash(i)
      PROVE  \A c \in Ordered' : c \in Ordered \/ c \notin Sent
    BY <1>3, <1>u DEF Crash, groupVars, callerVars
<1>4. ASSUME NEW i \in Node, Wedge(i)
      PROVE  \A c \in Ordered' : c \in Ordered \/ c \notin Sent
    BY <1>4, <1>u DEF Wedge, groupVars, callerVars
<1>5. ASSUME NEW i \in Callers, SendCall(i)
      PROVE  \A c \in Ordered' : c \in Ordered \/ c \notin Sent
    <2> DEFINE c == app[i].call
               v == view[i]
    <2>1. c \in Call /\ c \notin Sent  BY <1>5, SentNow
    <2>2. v \in 1 .. 2 /\ order[v] \in Seq(Call)  BY <1>5, SentNow, <1>t DEF TypeOK
    <2>3. order' = [order EXCEPT ![v] = Append(order[v], c)]  BY <1>5 DEF SendCall
    <2> HIDE DEF c, v
    <2>4. Range(Append(order[v], c)) \subseteq Range(order[v]) \cup {c}
        BY <2>1, <2>2, AppendProperties DEF Range
    <2>5. \A w \in 1 .. 2 : Range(order'[w]) \subseteq Range(order[w]) \cup {c}
        BY <2>2, <2>3, <2>4, <1>t
    <2> QED  BY <2>1, <2>5 DEF Ordered
<1>6. ASSUME NEW i \in Callers, SendSpins(i)
      PROVE  \A c \in Ordered' : c \in Ordered \/ c \notin Sent
    BY <1>6, <1>u DEF SendSpins, groupVars, callerVars
<1>7. ASSUME NEW i \in Callers, PushPending(i)
      PROVE  \A c \in Ordered' : c \in Ordered \/ c \notin Sent
    BY <1>7, <1>u DEF PushPending, groupVars, callerVars
<1>8. ASSUME NEW i \in Callers, P2pPush(i)
      PROVE  \A c \in Ordered' : c \in Ordered \/ c \notin Sent
    BY <1>8, <1>u DEF P2pPush, groupVars, callerVars
<1>9. ASSUME NEW i \in Node, PassOver(i)
      PROVE  \A c \in Ordered' : c \in Ordered \/ c \notin Sent
    BY <1>9, <1>u DEF PassOver, groupVars, callerVars
<1>10. ASSUME NEW i \in Node, DeliverRemote(i)
       PROVE  \A c \in Ordered' : c \in Ordered \/ c \notin Sent
    BY <1>10, <1>u DEF DeliverRemote, groupVars, callerVars
<1>11. ASSUME NEW i \in Node, DeliverOwn(i)
       PROVE  \A c \in Ordered' : c \in Ordered \/ c \notin Sent
    BY <1>11, <1>u DEF DeliverOwn, groupVars, callerVars
<1>12. ASSUME NEW i \in Node, NEW j \in Node, RpcRequest(i, j)
       PROVE  \A c \in Ordered' : c \in Ordered \/ c \notin Sent
    BY <1>12, <1>u DEF RpcRequest, groupVars, callerVars
<1>13. ASSUME NEW i \in Node, NEW j \in Node, RpcAnswer(i, j)
       PROVE  \A c \in Ordered' : c \in Ordered \/ c \notin Sent
    BY <1>13, <1>u DEF RpcAnswer, groupVars, callerVars
<1>14. ASSUME NEW i \in Node, NEW j \in Node, SendObjects(i, j)
       PROVE  \A c \in Ordered' : c \in Ordered \/ c \notin Sent
    BY <1>14, <1>u DEF SendObjects, groupVars, callerVars
<1>15. ASSUME NEW i \in Node, Cleanup(i)
       PROVE  \A c \in Ordered' : c \in Ordered \/ c \notin Sent
    BY <1>15, <1>u DEF Cleanup, groupVars, callerVars
<1>16. ASSUME NEW i \in Node, InstallView(i)
       PROVE  \A c \in Ordered' : c \in Ordered \/ c \notin Sent
    <2>1. order'[1] = order[1] /\ order'[2] = order[2] \o Undelivered(i) /\ cut <= MaxCalls
        BY <1>16, <1>t DEF InstallView
    <2>2. /\ Undelivered(i) \in Seq(Call) /\ order[1] \in Seq(Call) /\ order[2] \in Seq(Call)
          /\ \A c \in Range(Undelivered(i)) : \E p \in 1 .. Len(order[1]) : order[1][p] = c
        BY <2>1, <1>t, Resent
    <2>4. Range(Undelivered(i)) \subseteq Range(order[1])
        <3>1. \A p \in 1 .. Len(order[1]) : p \in DOMAIN order[1]  BY <2>2
        <3> QED  BY <2>2, <3>1 DEF Range
    <2>5. Range(order[2] \o Undelivered(i)) = Range(order[2]) \cup Range(Undelivered(i))
        BY <2>2, RangeConcat
    <2> QED  BY <2>1, <2>4, <2>5 DEF Ordered
<1>17. ASSUME NEW i \in Node, ViewUpcall(i)
       PROVE  \A c \in Ordered' : c \in Ordered \/ c \notin Sent
    BY <1>17, <1>u DEF ViewUpcall, groupVars, callerVars
<1>18. ASSUME LeaderCleanup
       PROVE  \A c \in Ordered' : c \in Ordered \/ c \notin Sent
    BY <1>18, <1>u DEF LeaderCleanup, groupVars, callerVars
<1>19. CASE UNCHANGED vars
    BY <1>19, <1>u DEF vars, groupVars, callerVars
<1> QED
    BY <1>1, <1>2, <1>3, <1>4, <1>5, <1>6, <1>7, <1>8, <1>9, <1>10,
       <1>11, <1>12, <1>13, <1>14, <1>15, <1>16, <1>17, <1>18, <1>19
    DEF Next, Environment, Threads

\* How far a member is, in both views.
LEMMA DeliveredBounds ==
    ASSUME IInv, NEW n \in Node
    PROVE  /\ DeliveredOne(n) \in 0 .. Len(order[1]) /\ DeliveredTwo(n) \in 0 .. Len(order[2])
           /\ Len(order[1]) \in Nat /\ Len(order[2]) \in Nat
<1>1. /\ view[n] \in {1, 2} /\ delivered[n] \in Nat /\ cut \in Nat
      /\ Len(order[1]) \in Nat /\ Len(order[2]) \in Nat
    BY CallsType DEF IInv, TypeOK
<1>2. delivered[n] <= Len(order[view[n]])  BY DEF IInv, OrdersFit
<1>3. view[n] = 2 => cut <= Len(order[1])  BY DEF IInv, PhasesFit, CutFits
<1>4. CASE view[n] = 1  BY <1>1, <1>2, <1>4 DEF DeliveredOne, DeliveredTwo
<1>5. CASE view[n] = 2  BY <1>1, <1>2, <1>3, <1>5 DEF DeliveredOne, DeliveredTwo
<1> QED  BY <1>1, <1>4, <1>5

LEMMA DeliveredGrows ==
    ASSUME IInv, [Next]_vars
    PROVE  \A n \in Node : DeliveredOne(n)' >= DeliveredOne(n) /\ DeliveredTwo(n)' >= DeliveredTwo(n)
<1>t. /\ view \in [Node -> {1, 2}] /\ delivered \in [Node -> 0 .. MaxCalls]
      /\ MaxCalls \in Nat /\ cut \in 0 .. MaxCalls + 1 /\ cut \in Nat
      /\ \A n \in Node : delivered[n] \in Nat
    BY CallsType DEF IInv, TypeOK
<1>v. First' = First  BY MembersStay
<1>u. ASSUME UNCHANGED <<view, delivered, cut>>
      PROVE  \A n \in Node : DeliveredOne(n)' >= DeliveredOne(n) /\ DeliveredTwo(n)' >= DeliveredTwo(n)
    BY <1>u, <1>t, <1>v DEF DeliveredOne, DeliveredTwo
<1>1. ASSUME NEW i \in Callers, NEW nodes \in Targets, GetBuffer(i, nodes)
      PROVE  \A n \in Node : DeliveredOne(n)' >= DeliveredOne(n) /\ DeliveredTwo(n)' >= DeliveredTwo(n)
    BY <1>1, <1>u DEF GetBuffer, groupVars, callerVars
<1>2. ASSUME NEW i \in Callers, NEW j \in Node \ {i}, P2pWrite(i, j)
      PROVE  \A n \in Node : DeliveredOne(n)' >= DeliveredOne(n) /\ DeliveredTwo(n)' >= DeliveredTwo(n)
    BY <1>2, <1>u DEF P2pWrite, groupVars, callerVars
<1>3. ASSUME NEW i \in Node, Crash(i)
      PROVE  \A n \in Node : DeliveredOne(n)' >= DeliveredOne(n) /\ DeliveredTwo(n)' >= DeliveredTwo(n)
    BY <1>3, <1>u DEF Crash, groupVars, callerVars
<1>4. ASSUME NEW i \in Node, Wedge(i)
      PROVE  \A n \in Node : DeliveredOne(n)' >= DeliveredOne(n) /\ DeliveredTwo(n)' >= DeliveredTwo(n)
    BY <1>4, <1>u DEF Wedge, groupVars, callerVars
<1>5. ASSUME NEW i \in Callers, SendCall(i)
      PROVE  \A n \in Node : DeliveredOne(n)' >= DeliveredOne(n) /\ DeliveredTwo(n)' >= DeliveredTwo(n)
    BY <1>5, <1>u DEF SendCall, groupVars, callerVars
<1>6. ASSUME NEW i \in Callers, SendSpins(i)
      PROVE  \A n \in Node : DeliveredOne(n)' >= DeliveredOne(n) /\ DeliveredTwo(n)' >= DeliveredTwo(n)
    BY <1>6, <1>u DEF SendSpins, groupVars, callerVars
<1>7. ASSUME NEW i \in Callers, PushPending(i)
      PROVE  \A n \in Node : DeliveredOne(n)' >= DeliveredOne(n) /\ DeliveredTwo(n)' >= DeliveredTwo(n)
    BY <1>7, <1>u DEF PushPending, groupVars, callerVars
<1>8. ASSUME NEW i \in Callers, P2pPush(i)
      PROVE  \A n \in Node : DeliveredOne(n)' >= DeliveredOne(n) /\ DeliveredTwo(n)' >= DeliveredTwo(n)
    BY <1>8, <1>u DEF P2pPush, groupVars, callerVars
<1>9. ASSUME NEW i \in Node, PassOver(i)
      PROVE  \A n \in Node : DeliveredOne(n)' >= DeliveredOne(n) /\ DeliveredTwo(n)' >= DeliveredTwo(n)
    <2>1. delivered' = [delivered EXCEPT ![i] = @ + 1]  BY <1>9 DEF PassOver, Counted
    <2>2. UNCHANGED <<view, cut>>  BY <1>9 DEF PassOver, groupVars
    <2> QED  BY <2>1, <2>2, <1>t, <1>v DEF DeliveredOne, DeliveredTwo
<1>10. ASSUME NEW i \in Node, DeliverRemote(i)
       PROVE  \A n \in Node : DeliveredOne(n)' >= DeliveredOne(n) /\ DeliveredTwo(n)' >= DeliveredTwo(n)
    <2>1. delivered' = [delivered EXCEPT ![i] = @ + 1]  BY <1>10 DEF DeliverRemote, Counted
    <2>2. UNCHANGED <<view, cut>>  BY <1>10 DEF DeliverRemote, groupVars
    <2> QED  BY <2>1, <2>2, <1>t, <1>v DEF DeliveredOne, DeliveredTwo
<1>11. ASSUME NEW i \in Node, DeliverOwn(i)
       PROVE  \A n \in Node : DeliveredOne(n)' >= DeliveredOne(n) /\ DeliveredTwo(n)' >= DeliveredTwo(n)
    <2>1. delivered' = [delivered EXCEPT ![i] = @ + 1]  BY <1>11 DEF DeliverOwn, Counted
    <2>2. UNCHANGED <<view, cut>>  BY <1>11 DEF DeliverOwn, groupVars
    <2> QED  BY <2>1, <2>2, <1>t, <1>v DEF DeliveredOne, DeliveredTwo
<1>12. ASSUME NEW i \in Node, NEW j \in Node, RpcRequest(i, j)
       PROVE  \A n \in Node : DeliveredOne(n)' >= DeliveredOne(n) /\ DeliveredTwo(n)' >= DeliveredTwo(n)
    BY <1>12, <1>u DEF RpcRequest, groupVars, callerVars
<1>13. ASSUME NEW i \in Node, NEW j \in Node, RpcAnswer(i, j)
       PROVE  \A n \in Node : DeliveredOne(n)' >= DeliveredOne(n) /\ DeliveredTwo(n)' >= DeliveredTwo(n)
    BY <1>13, <1>u DEF RpcAnswer, groupVars, callerVars
<1>14. ASSUME NEW i \in Node, NEW j \in Node, SendObjects(i, j)
       PROVE  \A n \in Node : DeliveredOne(n)' >= DeliveredOne(n) /\ DeliveredTwo(n)' >= DeliveredTwo(n)
    BY <1>14, <1>u DEF SendObjects, groupVars, callerVars
<1>15. ASSUME NEW i \in Node, Cleanup(i)
       PROVE  \A n \in Node : DeliveredOne(n)' >= DeliveredOne(n) /\ DeliveredTwo(n)' >= DeliveredTwo(n)
    BY <1>15, <1>u DEF Cleanup, groupVars, callerVars
<1>16. ASSUME NEW i \in Node, InstallView(i)
       PROVE  \A n \in Node : DeliveredOne(n)' >= DeliveredOne(n) /\ DeliveredTwo(n)' >= DeliveredTwo(n)
    <2>1. /\ view' = [view EXCEPT ![i] = 2] /\ delivered' = [delivered EXCEPT ![i] = 0]
          /\ cut' = cut /\ cut <= MaxCalls /\ phase[i] \in {"cleaning", "joined"}
        BY <1>16 DEF InstallView
    <2>2. view[i] = 1  BY <2>1, <1>t DEF IInv, PhasesFit
    <2>3. i \in First => delivered[i] <= cut
        BY <2>1, <2>2 DEF IInv, CutFits
    <2>4. i \notin First => delivered[i] = 0
        BY <2>2 DEF IInv, PhasesFit, Joining
    <2> QED  BY <2>1, <2>2, <2>3, <2>4, <1>t, <1>v DEF DeliveredOne, DeliveredTwo
<1>17. ASSUME NEW i \in Node, ViewUpcall(i)
       PROVE  \A n \in Node : DeliveredOne(n)' >= DeliveredOne(n) /\ DeliveredTwo(n)' >= DeliveredTwo(n)
    BY <1>17, <1>u DEF ViewUpcall, groupVars, callerVars
<1>18. ASSUME LeaderCleanup
       PROVE  \A n \in Node : DeliveredOne(n)' >= DeliveredOne(n) /\ DeliveredTwo(n)' >= DeliveredTwo(n)
    <2>1. UNCHANGED <<view, delivered>> /\ cut > MaxCalls  BY <1>18 DEF LeaderCleanup
    <2>2. \A k \in Node : view[k] = 1
        <3>1. ~ (cut <= MaxCalls)  BY <2>1, <1>t
        <3> QED  BY <3>1, <1>t DEF IInv, PhasesFit
    <2> QED  BY <2>1, <2>2, <1>t, <1>v DEF DeliveredOne, DeliveredTwo
<1>19. CASE UNCHANGED vars
    BY <1>19, <1>u DEF vars, groupVars, callerVars
<1> QED
    BY <1>1, <1>2, <1>3, <1>4, <1>5, <1>6, <1>7, <1>8, <1>9, <1>10,
       <1>11, <1>12, <1>13, <1>14, <1>15, <1>16, <1>17, <1>18, <1>19
    DEF Next, Environment, Threads

\* What a member has not received is settled with the limit.
LEMMA MissingStays ==
    ASSUME [Next]_vars
    PROVE  UNCHANGED <<missing, cut>> \/ LeaderCleanup
<1>1. ASSUME NEW i \in Callers, NEW nodes \in Targets, GetBuffer(i, nodes)
      PROVE  UNCHANGED <<missing, cut>>
    BY <1>1 DEF GetBuffer, groupVars
<1>2. ASSUME NEW i \in Callers, NEW j \in Node \ {i}, P2pWrite(i, j)
      PROVE  UNCHANGED <<missing, cut>>
    BY <1>2 DEF P2pWrite, groupVars
<1>3. ASSUME NEW i \in Node, Crash(i)
      PROVE  UNCHANGED <<missing, cut>>
    BY <1>3 DEF Crash, groupVars
<1>4. ASSUME NEW i \in Node, Wedge(i)
      PROVE  UNCHANGED <<missing, cut>>
    BY <1>4 DEF Wedge, groupVars
<1>5. ASSUME NEW i \in Callers, SendCall(i)
      PROVE  UNCHANGED <<missing, cut>>
    BY <1>5 DEF SendCall, groupVars
<1>6. ASSUME NEW i \in Callers, SendSpins(i)
      PROVE  UNCHANGED <<missing, cut>>
    BY <1>6 DEF SendSpins, groupVars
<1>7. ASSUME NEW i \in Callers, PushPending(i)
      PROVE  UNCHANGED <<missing, cut>>
    BY <1>7 DEF PushPending, groupVars
<1>8. ASSUME NEW i \in Callers, P2pPush(i)
      PROVE  UNCHANGED <<missing, cut>>
    BY <1>8 DEF P2pPush, groupVars
<1>9. ASSUME NEW i \in Node, PassOver(i)
      PROVE  UNCHANGED <<missing, cut>>
    BY <1>9 DEF PassOver, groupVars
<1>10. ASSUME NEW i \in Node, DeliverRemote(i)
       PROVE  UNCHANGED <<missing, cut>>
    BY <1>10 DEF DeliverRemote, groupVars
<1>11. ASSUME NEW i \in Node, DeliverOwn(i)
       PROVE  UNCHANGED <<missing, cut>>
    BY <1>11 DEF DeliverOwn, groupVars
<1>12. ASSUME NEW i \in Node, NEW j \in Node, RpcRequest(i, j)
       PROVE  UNCHANGED <<missing, cut>>
    BY <1>12 DEF RpcRequest, groupVars
<1>13. ASSUME NEW i \in Node, NEW j \in Node, RpcAnswer(i, j)
       PROVE  UNCHANGED <<missing, cut>>
    BY <1>13 DEF RpcAnswer, groupVars
<1>14. ASSUME NEW i \in Node, NEW j \in Node, SendObjects(i, j)
       PROVE  UNCHANGED <<missing, cut>>
    BY <1>14 DEF SendObjects, groupVars
<1>15. ASSUME NEW i \in Node, Cleanup(i)
       PROVE  UNCHANGED <<missing, cut>>
    BY <1>15 DEF Cleanup, groupVars
<1>16. ASSUME NEW i \in Node, InstallView(i)
       PROVE  UNCHANGED <<missing, cut>>
    BY <1>16 DEF InstallView, groupVars
<1>17. ASSUME NEW i \in Node, ViewUpcall(i)
       PROVE  UNCHANGED <<missing, cut>>
    BY <1>17 DEF ViewUpcall, groupVars
<1>18. CASE UNCHANGED vars
    BY <1>18 DEF vars, groupVars
<1> QED
    BY <1>1, <1>2, <1>3, <1>4, <1>5, <1>6, <1>7, <1>8, <1>9, <1>10,
       <1>11, <1>12, <1>13, <1>14, <1>15, <1>16, <1>17, <1>18
    DEF Next, Environment, Threads

LEMMA UnseenKept ==
    ASSUME IInv, [Next]_vars, UNCHANGED missing, NEW c \in DOMAIN calls, NEW k
    PROVE  c \in Unseen(k)' <=> c \in Unseen(k)
<1>1. c \in DOMAIN calls' /\ calls'[c] = calls[c]  BY CallsStay
<1>2. c \in CallerMissed' <=> c \in CallerMissed  BY <1>1 DEF CallerMissed
<1> QED  BY <1>2 DEF Unseen

\* Nothing is missing as long as a member goes on in the first view.
LEMMA NothingMissing ==
    ASSUME IInv, cut > MaxCalls
    PROVE  /\ \A k \in Node : missing[k] = {} /\ Unseen(k) = {}
           /\ CallerMissed = {}
           /\ \A k \in Node : view[k] = 1
<1>1. \A k \in Node : missing[k] = {}  BY DEF IInv, MissingFits
<1>2. \A c \in DOMAIN calls : calls[c].caller \in Node  BY CallsType DEF IInv
<1>3. CallerMissed = {}  BY <1>1, <1>2 DEF CallerMissed
<1>4. \A k \in Node : view[k] = 1
    <2>1. cut \in Nat /\ MaxCalls \in Nat /\ view \in [Node -> {1, 2}]
        BY CallsType DEF IInv, TypeOK
    <2>2. ~ (cut <= MaxCalls)  BY <2>1
    <2> QED  BY <2>1, <2>2 DEF IInv, PhasesFit
<1> QED  BY <1>1, <1>3, <1>4 DEF Unseen

LEMMA GoesOn ==
    ASSUME IInv, NEW i \in Node, Running(i), view[i] = 1, phase[i] = "running"
    PROVE  cut > MaxCalls
<1>1. i \in First  BY DEF IInv, PhasesFit, Joining
<1>2. cut \in Nat /\ MaxCalls \in Nat  BY CallsType DEF IInv, TypeOK
<1>3. ~ (cut <= MaxCalls)  BY <1>1 DEF IInv, CutFits
<1> QED  BY <1>2, <1>3

\* What a member has delivered before the limit is settled is missing nowhere.
LEMMA CleanupSpares ==
    ASSUME IInv, LeaderCleanup, NEW n \in Node, NEW p \in 1 .. delivered[n]
    PROVE  \A k \in Node : order[1][p] \notin Unseen(k) /\ order[1][p] \notin Unseen(k)'
<1>t. /\ order[1] \in Seq(Call) /\ Len(order[1]) \in Nat /\ IsInjective(order[1])
      /\ \A k \in Node : delivered[k] \in Nat
    BY OrderType DEF IInv, OrdersFit
<1>c. /\ cut > MaxCalls /\ UNCHANGED <<order, calls>>  BY DEF LeaderCleanup
<1>1. view[n] = 1 /\ \A k \in Node : order[1][p] \notin Unseen(k)  BY <1>c, NothingMissing
<1>2. n \in First
    <2>1. delivered[n] # 0  BY <1>t
    <2> QED  BY <1>1, <2>1 DEF IInv, PhasesFit
<1>3. p \in 1 .. Len(order[1])
    <2>1. delivered[n] <= Len(order[1])  BY <1>1 DEF IInv, OrdersFit
    <2> QED  BY <1>t, <2>1
<1>4. PICK m \in 0 .. Len(order[1]) :
          LET late == {order[1][q] : q \in
                          {r \in 1 .. m : \A i \in First : delivered[i] < r}}
              some == {calls_missing \in SUBSET late : CutShort(calls_missing, m)}
          IN  missing' \in
                  {f \in [Node -> some] : \A i \in Node \ (First \cap Second) : f[i] = {}}
    BY DEF LeaderCleanup
<1> DEFINE late == {order[1][q] : q \in
                       {r \in 1 .. m : \A i \in First : delivered[i] < r}}
<1>5. missing' \in [Node -> SUBSET late]  BY <1>4
<1>6. order[1][p] \notin late
    <2> SUFFICES ASSUME NEW q \in 1 .. m, delivered[n] < q, order[1][p] = order[1][q]
                 PROVE  FALSE
        BY <1>2
    <2>1. q \in DOMAIN order[1] /\ p \in DOMAIN order[1]  BY <1>t, <1>3
    <2>2. p = q  BY <1>t, <2>1 DEF IsInjective
    <2> QED  BY <1>t, <2>2
<1> HIDE DEF late
<1>7. \A k \in Node : order[1][p] \notin missing'[k]  BY <1>5, <1>6
<1>8. \A d \in DOMAIN calls' : calls'[d].caller \in Node
    BY <1>c, CallsType DEF IInv
<1>9. order[1][p] \notin CallerMissed'  BY <1>7, <1>8 DEF CallerMissed
<1> QED  BY <1>1, <1>7, <1>9 DEF Unseen

LEMMA MissingStep ==
    ASSUME IInv, [Next]_vars
    PROVE  MissingFits'
<1>t. /\ order[1] \in Seq(Call) /\ Len(order[1]) \in Nat /\ IsInjective(order[1])
      /\ cut \in Nat /\ MaxCalls \in Nat /\ Range(order[1]) \subseteq DOMAIN calls
    BY OrderType, CallsType DEF IInv, OrdersFit, TypeOK, Sent
<1>m. MissingFits  BY DEF IInv
<1>e. \A p \in 1 .. Len(order[1]) : p \in 1 .. Len(order'[1]) /\ order'[1][p] = order[1][p]
    BY OrdersGrow DEF Extends
<1>g. \A p \in 1 .. Len(order[1]) :
          order[1][p] \in DOMAIN calls /\ calls'[order[1][p]] = calls[order[1][p]]
    <2>1. \A p \in 1 .. Len(order[1]) : order[1][p] \in Range(order[1])  BY <1>t DEF Range
    <2> QED  BY <1>t, <2>1, CallsStay
<1>r. Range(order[1]) \subseteq Range(order'[1])
    <2>1. order'[1] \in Seq(Call)  BY TypeStep DEF TypeOK
    <2>2. DOMAIN order[1] = 1 .. Len(order[1]) /\ DOMAIN order'[1] = 1 .. Len(order'[1])
        BY <1>t, <2>1
    <2> QED  BY <1>e, <2>2 DEF Range
<1>1. CASE UNCHANGED <<missing, cut>>
    <2>1. cut' > MaxCalls => \A i \in Node : missing'[i] = {}  BY <1>1, <1>m DEF MissingFits
    <2>2. ASSUME NEW i \in Node, cut <= MaxCalls
          PROVE  CutShort(missing[i], cut)'
        <3>1. CutShort(missing[i], cut)  BY <2>2, <1>m DEF MissingFits
        <3>2. \A p \in 1 .. cut : p \in 1 .. Len(order[1])
            BY <2>2, <1>t DEF IInv, CutFits
        <3> SUFFICES ASSUME NEW p \in 1 .. cut, NEW q \in 1 .. cut, p < q,
                            order'[1][p] \in missing[i],
                            calls'[order'[1][p]].caller = calls'[order'[1][q]].caller
                     PROVE  order'[1][q] \in missing[i]
            BY <1>1 DEF CutShort
        <3>3. order'[1][p] = order[1][p] /\ order'[1][q] = order[1][q]  BY <3>2, <1>e
        <3>4. calls[order[1][p]].caller = calls[order[1][q]].caller  BY <3>2, <3>3, <1>g
        <3> QED  BY <3>1, <3>3, <3>4 DEF CutShort
    <2>3. \A i \in Node : missing'[i] \subseteq Range(order'[1])
        BY <1>1, <1>m, <1>r DEF MissingFits
    <2> QED  BY <1>1, <2>1, <2>2, <2>3 DEF MissingFits
<1>2. CASE LeaderCleanup
    <2>1. PICK n \in 0 .. Len(order[1]) :
              /\ cut' = n
              /\ LET late == {order[1][p] : p \in
                                 {q \in 1 .. n : \A i \in First : delivered[i] < q}}
                     some == {calls_missing \in SUBSET late : CutShort(calls_missing, n)}
                 IN  missing' \in
                         {m \in [Node -> some] : \A i \in Node \ (First \cap Second) : m[i] = {}}
        BY <1>2 DEF LeaderCleanup
    <2> DEFINE late == {order[1][p] : p \in
                           {q \in 1 .. n : \A i \in First : delivered[i] < q}}
    <2>2. UNCHANGED <<order, calls>>  BY <1>2 DEF LeaderCleanup
    <2>3. \A i \in Node : missing'[i] \in SUBSET late /\ CutShort(missing'[i], n)  BY <2>1
    <2>4. late \subseteq Range(order[1])
        <3>1. \A p \in 1 .. n : p \in DOMAIN order[1]  BY <1>t
        <3> QED  BY <3>1 DEF Range
    <2> HIDE DEF late
    <2>5. ~ (cut' > MaxCalls)
        <3>1. Len(order[1]) <= MaxCalls  BY <1>t, OrderBound
        <3> QED  BY <1>t, <2>1, <3>1
    <2>6. \A i \in Node : CutShort(missing[i], cut)'  BY <2>1, <2>2, <2>3 DEF CutShort
    <2>7. \A i \in Node : missing'[i] \subseteq Range(order'[1])  BY <2>2, <2>3, <2>4
    <2> QED  BY <2>5, <2>6, <2>7 DEF MissingFits
<1> QED  BY <1>1, <1>2, MissingStays

LEMMA DeliveredStays ==
    ASSUME IInv, [Next]_vars, NEW n \in Node, NEW c, DeliveredAt(n, c)
    PROVE  DeliveredAt(n, c)'
<1>1. /\ DeliveredOne(n) \in 0 .. Len(order[1]) /\ DeliveredTwo(n) \in 0 .. Len(order[2])
      /\ Len(order[1]) \in Nat /\ Len(order[2]) \in Nat
    BY DeliveredBounds
<1>2. DeliveredOne(n)' >= DeliveredOne(n) /\ DeliveredTwo(n)' >= DeliveredTwo(n)
    BY DeliveredGrows
<1>3. TypeOK'  BY TypeStep
<1>4. DeliveredOne(n)' \in Nat /\ DeliveredTwo(n)' \in Nat
    <2>1. delivered'[n] \in Nat /\ cut' \in Nat  BY <1>3, CallsType DEF TypeOK, IInv
    <2> QED  BY <2>1 DEF DeliveredOne, DeliveredTwo
<1>5. CASE c \notin Unseen(n) /\ \E p \in 1 .. DeliveredOne(n) : order[1][p] = c
    <2>1. PICK p \in 1 .. DeliveredOne(n) : order[1][p] = c  BY <1>5
    <2>2. p \in 1 .. Len(order[1]) /\ p \in 1 .. DeliveredOne(n)'  BY <1>1, <1>2, <1>4
    <2>3. order'[1][p] = c  BY <2>1, <2>2, OrdersGrow DEF Extends
    <2>4. c \notin Unseen(n)'
        <3>1. CASE UNCHANGED missing
            <4>1. c \in DOMAIN calls
                <5>1. order[1] \in Seq(Call)  BY OrderType DEF IInv
                <5>2. c \in Range(order[1])  BY <2>1, <2>2, <5>1 DEF Range
                <5> QED  BY <5>2 DEF IInv, OrdersFit, Sent
            <4> QED  BY <1>5, <3>1, <4>1, UnseenKept
        <3>2. CASE LeaderCleanup
            <4>1. view[n] = 1  BY <3>2, NothingMissing DEF LeaderCleanup
            <4>2. p \in 1 .. delivered[n]  BY <2>1, <4>1 DEF DeliveredOne
            <4> QED  BY <2>1, <3>2, <4>2, CleanupSpares
        <3> QED  BY <3>1, <3>2, MissingStays
    <2> QED  BY <2>2, <2>3, <2>4 DEF DeliveredAt
<1>6. CASE \E p \in 1 .. DeliveredTwo(n) : order[2][p] = c
    <2>1. PICK p \in 1 .. DeliveredTwo(n) : order[2][p] = c  BY <1>6
    <2>2. p \in 1 .. Len(order[2]) /\ p \in 1 .. DeliveredTwo(n)'  BY <1>1, <1>2, <1>4
    <2>3. order'[2][p] = c  BY <2>1, <2>2, OrdersGrow DEF Extends
    <2> QED  BY <2>2, <2>3 DEF DeliveredAt
<1> QED  BY <1>5, <1>6 DEF DeliveredAt

\* The next call has not been executed by the member that delivers it.
LEMMA NotExecuted ==
    ASSUME IInv, NEW i \in Node, Delivering(i)
    PROVE  executions[NextCall(i)][i] = 0
<1> DEFINE c == NextCall(i)
           q == delivered[i] + 1
<1>1. /\ q \in 1 .. Len(order[view[i]]) /\ c = order[view[i]][q]
      /\ c \in Call /\ c \in Ordered
    BY NextCallType DEF NextCall
<1>2. /\ view[i] \in {1, 2} /\ delivered[i] \in Nat /\ cut \in Nat /\ q = delivered[i] + 1
      /\ order[1] \in Seq(Call) /\ order[2] \in Seq(Call)
    BY CallsType DEF IInv, TypeOK
<1>3. executions[c][i] \in {0, 1} /\ (executions[c][i] = 1 => DeliveredAt(i, c))
    BY <1>1, NextCallType DEF IInv, ExecutionsFit
<1>4. IsInjective(order[1]) /\ IsInjective(order[2])  BY DEF IInv, OrdersFit
<1>b. DeliveredOne(i) \in 0 .. Len(order[1]) /\ DeliveredTwo(i) \in 0 .. Len(order[2])
      /\ Len(order[1]) \in Nat /\ Len(order[2]) \in Nat
    BY DeliveredBounds
<1>l. order \in [1 .. 2 -> Seq(Call)]  BY DEF IInv, TypeOK
<1> HIDE DEF c, q
<1>5. ASSUME DeliveredAt(i, c)
      PROVE  FALSE
    <2>1. CASE view[i] = 1
        <3>1. PICK p \in 1 .. delivered[i] : order[1][p] = c
            BY <1>2, <1>5, <2>1 DEF DeliveredAt, DeliveredOne, DeliveredTwo
        <3>2. p \in DOMAIN order[1] /\ q \in DOMAIN order[1] /\ order[1][q] = c /\ p # q
            BY <1>1, <1>2, <2>1, <3>1
        <3> QED  BY <1>4, <3>1, <3>2 DEF IsInjective
    <2>2. CASE view[i] = 2 /\ \E p \in 1 .. delivered[i] : order[2][p] = c
        <3>1. PICK p \in 1 .. delivered[i] : order[2][p] = c  BY <2>2
        <3>2. p \in DOMAIN order[2] /\ q \in DOMAIN order[2] /\ order[2][q] = c /\ p # q
            BY <1>1, <1>2, <2>2, <3>1
        <3> QED  BY <1>4, <3>1, <3>2 DEF IsInjective
    <2>3. CASE view[i] = 2 /\ c \notin Unseen(i) /\ \E p \in 1 .. DeliveredOne(i) : order[1][p] = c
        <3>1. PICK p \in 1 .. DeliveredOne(i) : order[1][p] = c  BY <2>3
        <3>2. p \in 1 .. Len(order[1]) /\ p <= cut
            BY <1>2, <1>b, <2>3, <3>1 DEF DeliveredOne
        <3>3. q \in 1 .. Len(order[2]) /\ order[2][q] = c  BY <1>1, <2>3
        <3>4. cut < p  BY <2>3, <3>1, <3>2, <3>3 DEF IInv, OrdersFit, Unseen
        <3> QED  BY <1>2, <3>2, <3>4
    <2> QED  BY <1>2, <1>5, <2>1, <2>2, <2>3 DEF DeliveredAt, DeliveredTwo
<1> QED  BY <1>3, <1>5 DEF c

\* The packet that is read next.
LEMMA HeadFits ==
    ASSUME IInv, NEW i \in Node, NEW j \in Node, chan[j][i] # <<>>
    PROVE  /\ Head(chan[j][i]).call \in Call /\ Head(chan[j][i]).kind \in Kind
           /\ PacketFits(j, i, Head(chan[j][i]))
<1>1. chan[j][i] \in Seq(Message)  BY ChanType DEF IInv
<1>2. Head(chan[j][i]) = chan[j][i][1] /\ 1 \in 1 .. Len(chan[j][i])  BY <1>1
<1>3. PacketFits(j, i, Head(chan[j][i]))  BY <1>2 DEF IInv, PacketsFit
<1> QED  BY <1>3, ChanType DEF IInv

\* What is delivered has been delivered.
LEMMA NextDelivered ==
    ASSUME IInv, NEW i \in Node, Delivering(i), Counted(i),
           UNCHANGED <<view, order, missing, calls>>,
           NEW c, c = NextCall(i), view[i] = 1 => c \notin Unseen(i)
    PROVE  DeliveredAt(i, c)'
<1>1. /\ delivered[i] + 1 \in 1 .. Len(order[view[i]]) /\ c = order[view[i]][delivered[i] + 1]
      /\ view[i] \in {1, 2} /\ delivered[i] \in Nat
    <2>1. view[i] \in {1, 2} /\ delivered[i] \in Nat  BY CallsType DEF IInv, TypeOK
    <2> QED  BY <2>1, NextCallType DEF NextCall
<1>2. delivered'[i] = delivered[i] + 1  BY DEF Counted, IInv, TypeOK
<1>3. CASE view[i] = 1
    <2>1. DeliveredOne(i)' = delivered[i] + 1  BY <1>2, <1>3 DEF DeliveredOne
    <2>2. delivered[i] + 1 \in 1 .. DeliveredOne(i)'  BY <1>1, <2>1
    <2>3. c \notin Unseen(i)'  BY <1>3 DEF Unseen, CallerMissed
    <2> QED  BY <1>1, <1>3, <2>2, <2>3 DEF DeliveredAt
<1>4. CASE view[i] = 2
    <2>1. DeliveredTwo(i)' = delivered[i] + 1  BY <1>2, <1>4 DEF DeliveredTwo
    <2>2. delivered[i] + 1 \in 1 .. DeliveredTwo(i)'  BY <1>1, <2>1
    <2> QED  BY <1>1, <1>4, <2>2 DEF DeliveredAt
<1> QED  BY <1>1, <1>3, <1>4

\* A member executes a call that has been sent, and it has not done so before.
NewExecution(c, n) ==
    /\ executions[c][n] = 0 /\ executions'[c][n] = 1
    /\ c \in Sent
    /\ Running(n)' /\ c \in Ordered => DeliveredAt(n, c)'

LEMMA ExecutionChanges ==
    ASSUME IInv, [Next]_vars
    PROVE  \A c \in Call, n \in Node : executions'[c][n] = executions[c][n] \/ NewExecution(c, n)
<1>t. /\ TypeOK /\ executions \in [Call -> [Node -> Nat]]
    BY DEF IInv, TypeOK
<1>u. ASSUME UNCHANGED executions
      PROVE  \A c \in Call, n \in Node : executions'[c][n] = executions[c][n] \/ NewExecution(c, n)
    BY <1>u
<1>1. ASSUME NEW i \in Callers, NEW nodes \in Targets, GetBuffer(i, nodes)
      PROVE  \A c \in Call, n \in Node : executions'[c][n] = executions[c][n] \/ NewExecution(c, n)
    BY <1>1, <1>u DEF GetBuffer, groupVars, callerVars
<1>2. ASSUME NEW i \in Callers, NEW j \in Node \ {i}, P2pWrite(i, j)
      PROVE  \A c \in Call, n \in Node : executions'[c][n] = executions[c][n] \/ NewExecution(c, n)
    BY <1>2, <1>u DEF P2pWrite, groupVars, callerVars
<1>3. ASSUME NEW i \in Node, Crash(i)
      PROVE  \A c \in Call, n \in Node : executions'[c][n] = executions[c][n] \/ NewExecution(c, n)
    BY <1>3, <1>u DEF Crash, groupVars, callerVars
<1>4. ASSUME NEW i \in Node, Wedge(i)
      PROVE  \A c \in Call, n \in Node : executions'[c][n] = executions[c][n] \/ NewExecution(c, n)
    BY <1>4, <1>u DEF Wedge, groupVars, callerVars
<1>5. ASSUME NEW i \in Callers, SendCall(i)
      PROVE  \A c \in Call, n \in Node : executions'[c][n] = executions[c][n] \/ NewExecution(c, n)
    BY <1>5, <1>u DEF SendCall, groupVars, callerVars
<1>6. ASSUME NEW i \in Callers, SendSpins(i)
      PROVE  \A c \in Call, n \in Node : executions'[c][n] = executions[c][n] \/ NewExecution(c, n)
    BY <1>6, <1>u DEF SendSpins, groupVars, callerVars
<1>7. ASSUME NEW i \in Callers, PushPending(i)
      PROVE  \A c \in Call, n \in Node : executions'[c][n] = executions[c][n] \/ NewExecution(c, n)
    BY <1>7, <1>u DEF PushPending, groupVars, callerVars
<1>8. ASSUME NEW i \in Callers, P2pPush(i)
      PROVE  \A c \in Call, n \in Node : executions'[c][n] = executions[c][n] \/ NewExecution(c, n)
    BY <1>8, <1>u DEF P2pPush, groupVars, callerVars
<1>9. ASSUME NEW i \in Node, PassOver(i)
      PROVE  \A c \in Call, n \in Node : executions'[c][n] = executions[c][n] \/ NewExecution(c, n)
    BY <1>9, <1>u DEF PassOver, groupVars, callerVars
<1>10. ASSUME NEW i \in Node, DeliverRemote(i)
       PROVE  \A c \in Call, n \in Node : executions'[c][n] = executions[c][n] \/ NewExecution(c, n)
    <2>1. PICK c : c = NextCall(i)  OBVIOUS
    <2>2. /\ executions' = [executions EXCEPT ![c][i] = @ + 1]
          /\ Delivering(i) /\ Counted(i) /\ UNCHANGED <<view, order, missing, calls>>
        BY <1>10, <2>1 DEF DeliverRemote, Execute, groupVars
    <2>3. c \in Call /\ c \in Sent /\ executions[c][i] = 0
        BY <2>1, <2>2, NextCallType, NotExecuted
    <2>4. executions'[c][i] = 1  BY <2>2, <2>3, <1>t
    <2>5. Running(i)' => DeliveredAt(i, c)'
        <3> SUFFICES ASSUME Running(i)'
                     PROVE  view[i] = 1 => c \notin Unseen(i)
            BY <2>1, <2>2, NextDelivered
        <3>1. HasSocket(i, calls[c].caller)
            BY <1>10, <2>1, <1>t DEF DeliverRemote, Stopped, Running, TypeOK
        <3>2. Running(i)  BY <2>2 DEF Delivering
        <3>3. view[i] = 1 => phase[i] = "running"
            BY <3>1 DEF HasSocket, IInv, PhasesFit
        <3> QED  BY <3>2, <3>3, GoesOn, NothingMissing
    <2>6. NewExecution(c, i)  BY <2>3, <2>4, <2>5 DEF NewExecution
    <2> QED  BY <2>2, <2>3, <2>6, <1>t
<1>11. ASSUME NEW i \in Node, DeliverOwn(i)
       PROVE  \A c \in Call, n \in Node : executions'[c][n] = executions[c][n] \/ NewExecution(c, n)
    <2>1. PICK c : c = NextCall(i)  OBVIOUS
    <2>2. /\ executions' = [executions EXCEPT ![c][i] = @ + 1]
          /\ Delivering(i) /\ Counted(i) /\ UNCHANGED <<view, order, missing, calls>>
        BY <1>11, <2>1 DEF DeliverOwn, Execute, groupVars
    <2>3. c \in Call /\ c \in Sent /\ executions[c][i] = 0
        BY <2>1, <2>2, NextCallType, NotExecuted
    <2>4. executions'[c][i] = 1  BY <2>2, <2>3, <1>t
    <2>5. DeliveredAt(i, c)'
        <3>1. view[i] = 1 => c \notin missing[i]  BY <1>11, <2>1 DEF DeliverOwn, NotHere
        <3>2. calls[c].caller = i  BY <1>11, <2>1 DEF DeliverOwn
        <3>3. view[i] = 1 => c \notin Unseen(i)  BY <3>1, <3>2 DEF Unseen, CallerMissed
        <3> QED  BY <2>1, <2>2, <3>3, NextDelivered
    <2>6. NewExecution(c, i)  BY <2>3, <2>4, <2>5 DEF NewExecution
    <2> QED  BY <2>2, <2>3, <2>6, <1>t
<1>12. ASSUME NEW i \in Node, NEW j \in Node, RpcRequest(i, j)
       PROVE  \A c \in Call, n \in Node : executions'[c][n] = executions[c][n] \/ NewExecution(c, n)
    <2> DEFINE m == Head(chan[j][i])
    <2>1. m.call \in Call /\ m.kind = "request" /\ chan[j][i] # <<>> /\ PacketFits(j, i, m)
        BY <1>12, <1>t, HeadFits DEF RpcRequest, RpcReads
    <2>2. executions' = [executions EXCEPT ![m.call][i] = @ + 1]
        BY <1>12 DEF RpcRequest, Execute
    <2>3. m.call \in Sent /\ m.call \notin Ordered /\ executions[m.call][i] = 0
        BY <2>1 DEF PacketFits
    <2>4. PICK c : c = m.call  OBVIOUS
    <2> HIDE DEF m
    <2>5. executions' = [executions EXCEPT ![c][i] = @ + 1] /\ c \in Call  BY <2>1, <2>2, <2>4
    <2>6. NewExecution(c, i)  BY <2>3, <2>4, <2>5, <1>t DEF NewExecution
    <2> QED  BY <2>5, <2>6, <1>t
<1>13. ASSUME NEW i \in Node, NEW j \in Node, RpcAnswer(i, j)
       PROVE  \A c \in Call, n \in Node : executions'[c][n] = executions[c][n] \/ NewExecution(c, n)
    BY <1>13, <1>u DEF RpcAnswer, groupVars, callerVars
<1>14. ASSUME NEW i \in Node, NEW j \in Node, SendObjects(i, j)
       PROVE  \A c \in Call, n \in Node : executions'[c][n] = executions[c][n] \/ NewExecution(c, n)
    BY <1>14, <1>u DEF SendObjects, groupVars, callerVars
<1>15. ASSUME NEW i \in Node, Cleanup(i)
       PROVE  \A c \in Call, n \in Node : executions'[c][n] = executions[c][n] \/ NewExecution(c, n)
    BY <1>15, <1>u DEF Cleanup, groupVars, callerVars
<1>16. ASSUME NEW i \in Node, InstallView(i)
       PROVE  \A c \in Call, n \in Node : executions'[c][n] = executions[c][n] \/ NewExecution(c, n)
    BY <1>16, <1>u DEF InstallView, groupVars, callerVars
<1>17. ASSUME NEW i \in Node, ViewUpcall(i)
       PROVE  \A c \in Call, n \in Node : executions'[c][n] = executions[c][n] \/ NewExecution(c, n)
    BY <1>17, <1>u DEF ViewUpcall, groupVars, callerVars
<1>18. ASSUME LeaderCleanup
       PROVE  \A c \in Call, n \in Node : executions'[c][n] = executions[c][n] \/ NewExecution(c, n)
    BY <1>18, <1>u DEF LeaderCleanup, groupVars, callerVars
<1>19. CASE UNCHANGED vars
    BY <1>19, <1>u DEF vars, groupVars, callerVars
<1> QED
    BY <1>1, <1>2, <1>3, <1>4, <1>5, <1>6, <1>7, <1>8, <1>9, <1>10,
       <1>11, <1>12, <1>13, <1>14, <1>15, <1>16, <1>17, <1>18, <1>19
    DEF Next, Environment, Threads

LEMMA ExecutionsStep ==
    ASSUME IInv, [Next]_vars
    PROVE  ExecutionsFit'
<1> SUFFICES ASSUME NEW c \in Call, NEW n \in Node
             PROVE  /\ executions'[c][n] \in {0, 1}
                    /\ executions'[c][n] = 1 => c \in Sent'
                    /\ Running(n)' /\ executions'[c][n] = 1 /\ c \in Ordered'
                       => DeliveredAt(n, c)'
    BY DEF ExecutionsFit
<1>1. /\ executions[c][n] \in {0, 1}
      /\ executions[c][n] = 1 => c \in Sent
      /\ Running(n) /\ executions[c][n] = 1 /\ c \in Ordered => DeliveredAt(n, c)
    BY DEF IInv, ExecutionsFit
<1>2. executions'[c][n] = executions[c][n] \/ NewExecution(c, n)  BY ExecutionChanges
<1>3. executions'[c][n] \in {0, 1}  BY <1>1, <1>2 DEF NewExecution
<1>4. executions'[c][n] = 1 => c \in Sent  BY <1>1, <1>2 DEF NewExecution
<1>5. executions'[c][n] = 1 => c \in Sent'  BY <1>4, SentStays
<1>6. ASSUME Running(n)', executions'[c][n] = 1, c \in Ordered'
      PROVE  DeliveredAt(n, c)'
    <2>1. c \in Ordered  BY <1>4, <1>6, OrderedNew
    <2>2. Running(n)  BY <1>6, RunningStays DEF Running
    <2> QED  BY <1>1, <1>2, <1>6, <2>1, <2>2, DeliveredStays DEF NewExecution
<1> QED  BY <1>3, <1>5, <1>6

\* An outcome is known once and for all; who is not in the second view any more is
\* reported as removed.
NewOutcome(c, n) ==
    /\ outcomes[c][n] = "none"
    /\ \/ outcomes'[c][n] \in {"value", "exception"} /\ executions'[c][n] = 1
       \/ /\ outcomes'[c][n] = "removed" /\ n \in RemovedMembers
          /\ c \in DOMAIN calls /\ view[calls[c].caller] = 2

LEMMA OutcomeChanges ==
    ASSUME IInv, [Next]_vars
    PROVE  \A c \in Call, n \in Node : outcomes'[c][n] = outcomes[c][n] \/ NewOutcome(c, n)
<1>t. /\ outcomes \in [Call -> [Node -> Outcome]] /\ executions \in [Call -> [Node -> Nat]]
      /\ view \in [Node -> {1, 2}]
    BY DEF IInv, TypeOK
<1>u. ASSUME UNCHANGED outcomes
      PROVE  \A c \in Call, n \in Node : outcomes'[c][n] = outcomes[c][n] \/ NewOutcome(c, n)
    BY <1>u
<1>1. ASSUME NEW i \in Callers, NEW nodes \in Targets, GetBuffer(i, nodes)
      PROVE  \A c \in Call, n \in Node : outcomes'[c][n] = outcomes[c][n] \/ NewOutcome(c, n)
    BY <1>1, <1>u DEF GetBuffer, groupVars, callerVars
<1>2. ASSUME NEW i \in Callers, NEW j \in Node \ {i}, P2pWrite(i, j)
      PROVE  \A c \in Call, n \in Node : outcomes'[c][n] = outcomes[c][n] \/ NewOutcome(c, n)
    BY <1>2, <1>u DEF P2pWrite, groupVars, callerVars
<1>3. ASSUME NEW i \in Node, Crash(i)
      PROVE  \A c \in Call, n \in Node : outcomes'[c][n] = outcomes[c][n] \/ NewOutcome(c, n)
    BY <1>3, <1>u DEF Crash, groupVars, callerVars
<1>4. ASSUME NEW i \in Node, Wedge(i)
      PROVE  \A c \in Call, n \in Node : outcomes'[c][n] = outcomes[c][n] \/ NewOutcome(c, n)
    BY <1>4, <1>u DEF Wedge, groupVars, callerVars
<1>5. ASSUME NEW i \in Callers, SendCall(i)
      PROVE  \A c \in Call, n \in Node : outcomes'[c][n] = outcomes[c][n] \/ NewOutcome(c, n)
    BY <1>5, <1>u DEF SendCall, groupVars, callerVars
<1>6. ASSUME NEW i \in Callers, SendSpins(i)
      PROVE  \A c \in Call, n \in Node : outcomes'[c][n] = outcomes[c][n] \/ NewOutcome(c, n)
    BY <1>6, <1>u DEF SendSpins, groupVars, callerVars
<1>7. ASSUME NEW i \in Callers, PushPending(i)
      PROVE  \A c \in Call, n \in Node : outcomes'[c][n] = outcomes[c][n] \/ NewOutcome(c, n)
    BY <1>7, <1>u DEF PushPending, groupVars, callerVars
<1>8. ASSUME NEW i \in Callers, P2pPush(i)
      PROVE  \A c \in Call, n \in Node : outcomes'[c][n] = outcomes[c][n] \/ NewOutcome(c, n)
    BY <1>8, <1>u DEF P2pPush, groupVars, callerVars
<1>9. ASSUME NEW i \in Node, PassOver(i)
      PROVE  \A c \in Call, n \in Node : outcomes'[c][n] = outcomes[c][n] \/ NewOutcome(c, n)
    BY <1>9, <1>u DEF PassOver, groupVars, callerVars
<1>10. ASSUME NEW i \in Node, DeliverRemote(i)
       PROVE  \A c \in Call, n \in Node : outcomes'[c][n] = outcomes[c][n] \/ NewOutcome(c, n)
    BY <1>10, <1>u DEF DeliverRemote, groupVars, callerVars
<1>11. ASSUME NEW i \in Node, DeliverOwn(i)
       PROVE  \A c \in Call, n \in Node : outcomes'[c][n] = outcomes[c][n] \/ NewOutcome(c, n)
    <2>1. \/ outcomes' = outcomes
          \/ SetOutcome(NextCall(i), i, Reply(i)) /\ ~ Satisfied(NextCall(i), i)
        BY <1>11 DEF DeliverOwn
    <2>2. CASE outcomes' = outcomes  BY <2>2
    <2>3. CASE SetOutcome(NextCall(i), i, Reply(i)) /\ ~ Satisfied(NextCall(i), i)
        <3>1. /\ NextCall(i) \in Call /\ executions[NextCall(i)][i] = 0
              /\ executions' = [executions EXCEPT ![NextCall(i)][i] = @ + 1]
            BY <1>11, NextCallType, NotExecuted DEF DeliverOwn, Execute
        <3>2. executions'[NextCall(i)][i] = 1  BY <3>1, <1>t
        <3>3. NewOutcome(NextCall(i), i)
            BY <2>3, <3>1, <3>2, <1>t, ReplyKind DEF NewOutcome, SetOutcome, Satisfied
        <3> QED  BY <2>3, <3>1, <3>3, <1>t DEF SetOutcome
    <2> QED  BY <2>1, <2>2, <2>3
<1>12. ASSUME NEW i \in Node, NEW j \in Node, RpcRequest(i, j)
       PROVE  \A c \in Call, n \in Node : outcomes'[c][n] = outcomes[c][n] \/ NewOutcome(c, n)
    BY <1>12, <1>u DEF RpcRequest, groupVars, callerVars
<1>13. ASSUME NEW i \in Node, NEW j \in Node, RpcAnswer(i, j)
       PROVE  \A c \in Call, n \in Node : outcomes'[c][n] = outcomes[c][n] \/ NewOutcome(c, n)
    <2> DEFINE m == Head(chan[j][i])
    <2>1. /\ m.call \in Call /\ m.kind \in {"value", "exception"} /\ executions[m.call][j] = 1
        <3>1. chan[j][i] # <<>> /\ m.kind # "request"  BY <1>13 DEF RpcAnswer, RpcReads
        <3>2. m.call \in Call /\ m.kind \in Kind /\ PacketFits(j, i, m)  BY <3>1, HeadFits
        <3> QED  BY <3>1, <3>2 DEF Kind, PacketFits
    <2>2. executions' = executions  BY <1>13 DEF RpcAnswer
    <2>3. \/ outcomes' = outcomes
          \/ SetOutcome(m.call, j, m.kind) /\ ~ Satisfied(m.call, j)
        BY <1>13 DEF RpcAnswer
    <2> HIDE DEF m
    <2>4. CASE outcomes' = outcomes  BY <2>4
    <2>5. CASE SetOutcome(m.call, j, m.kind) /\ ~ Satisfied(m.call, j)
        <3>1. NewOutcome(m.call, j)
            BY <2>1, <2>2, <2>5, <1>t DEF NewOutcome, SetOutcome, Satisfied
        <3> QED  BY <2>1, <2>5, <3>1, <1>t DEF SetOutcome
    <2> QED  BY <2>3, <2>4, <2>5
<1>14. ASSUME NEW i \in Node, NEW j \in Node, SendObjects(i, j)
       PROVE  \A c \in Call, n \in Node : outcomes'[c][n] = outcomes[c][n] \/ NewOutcome(c, n)
    BY <1>14, <1>u DEF SendObjects, groupVars, callerVars
<1>15. ASSUME NEW i \in Node, Cleanup(i)
       PROVE  \A c \in Call, n \in Node : outcomes'[c][n] = outcomes[c][n] \/ NewOutcome(c, n)
    BY <1>15, <1>u DEF Cleanup, groupVars, callerVars
<1>16. ASSUME NEW i \in Node, InstallView(i)
       PROVE  \A c \in Call, n \in Node : outcomes'[c][n] = outcomes[c][n] \/ NewOutcome(c, n)
    BY <1>16, <1>u DEF InstallView, groupVars, callerVars
<1>17. ASSUME NEW i \in Node, ViewUpcall(i)
       PROVE  \A c \in Call, n \in Node : outcomes'[c][n] = outcomes[c][n] \/ NewOutcome(c, n)
    <2>1. view[i] = 2  BY <1>17, <1>t DEF ViewUpcall, IInv, PhasesFit
    <2>2. \A d \in fulfilledList[i] : d \in DOMAIN calls /\ calls[d].caller = i
        BY DEF IInv, FulfilledFits, CallsOf
    <2> TAKE d \in Call, n \in Node
    <2>3. outcomes'[d][n] = IF Affected(i, d, n) THEN "removed" ELSE outcomes[d][n]
        BY <1>17 DEF ViewUpcall
    <2>4. CASE Affected(i, d, n)
        BY <2>1, <2>2, <2>3, <2>4 DEF Affected, Satisfied, NewOutcome
    <2> QED  BY <2>3, <2>4
<1>18. ASSUME LeaderCleanup
       PROVE  \A c \in Call, n \in Node : outcomes'[c][n] = outcomes[c][n] \/ NewOutcome(c, n)
    BY <1>18, <1>u DEF LeaderCleanup, groupVars, callerVars
<1>19. CASE UNCHANGED vars
    BY <1>19, <1>u DEF vars, groupVars, callerVars
<1> QED
    BY <1>1, <1>2, <1>3, <1>4, <1>5, <1>6, <1>7, <1>8, <1>9, <1>10,
       <1>11, <1>12, <1>13, <1>14, <1>15, <1>16, <1>17, <1>18, <1>19
    DEF Next, Environment, Threads

\* Nobody goes back to the first view.
LEMMA ViewGoesOn ==
    ASSUME IInv, [Next]_vars
    PROVE  \A k \in Node : view[k] = 2 => view'[k] = 2
<1>t. view \in [Node -> {1, 2}]  BY DEF IInv, TypeOK
<1>u. ASSUME UNCHANGED view
      PROVE  \A k \in Node : view[k] = 2 => view'[k] = 2
    BY <1>u
<1>1. ASSUME NEW i \in Callers, NEW nodes \in Targets, GetBuffer(i, nodes)
      PROVE  \A k \in Node : view[k] = 2 => view'[k] = 2
    BY <1>1, <1>u DEF GetBuffer, groupVars, callerVars
<1>2. ASSUME NEW i \in Callers, NEW j \in Node \ {i}, P2pWrite(i, j)
      PROVE  \A k \in Node : view[k] = 2 => view'[k] = 2
    BY <1>2, <1>u DEF P2pWrite, groupVars, callerVars
<1>3. ASSUME NEW i \in Node, Crash(i)
      PROVE  \A k \in Node : view[k] = 2 => view'[k] = 2
    BY <1>3, <1>u DEF Crash, groupVars, callerVars
<1>4. ASSUME NEW i \in Node, Wedge(i)
      PROVE  \A k \in Node : view[k] = 2 => view'[k] = 2
    BY <1>4, <1>u DEF Wedge, groupVars, callerVars
<1>5. ASSUME NEW i \in Callers, SendCall(i)
      PROVE  \A k \in Node : view[k] = 2 => view'[k] = 2
    BY <1>5, <1>u DEF SendCall, groupVars, callerVars
<1>6. ASSUME NEW i \in Callers, SendSpins(i)
      PROVE  \A k \in Node : view[k] = 2 => view'[k] = 2
    BY <1>6, <1>u DEF SendSpins, groupVars, callerVars
<1>7. ASSUME NEW i \in Callers, PushPending(i)
      PROVE  \A k \in Node : view[k] = 2 => view'[k] = 2
    BY <1>7, <1>u DEF PushPending, groupVars, callerVars
<1>8. ASSUME NEW i \in Callers, P2pPush(i)
      PROVE  \A k \in Node : view[k] = 2 => view'[k] = 2
    BY <1>8, <1>u DEF P2pPush, groupVars, callerVars
<1>9. ASSUME NEW i \in Node, PassOver(i)
      PROVE  \A k \in Node : view[k] = 2 => view'[k] = 2
    BY <1>9, <1>u DEF PassOver, groupVars, callerVars
<1>10. ASSUME NEW i \in Node, DeliverRemote(i)
       PROVE  \A k \in Node : view[k] = 2 => view'[k] = 2
    BY <1>10, <1>u DEF DeliverRemote, groupVars, callerVars
<1>11. ASSUME NEW i \in Node, DeliverOwn(i)
       PROVE  \A k \in Node : view[k] = 2 => view'[k] = 2
    BY <1>11, <1>u DEF DeliverOwn, groupVars, callerVars
<1>12. ASSUME NEW i \in Node, NEW j \in Node, RpcRequest(i, j)
       PROVE  \A k \in Node : view[k] = 2 => view'[k] = 2
    BY <1>12, <1>u DEF RpcRequest, groupVars, callerVars
<1>13. ASSUME NEW i \in Node, NEW j \in Node, RpcAnswer(i, j)
       PROVE  \A k \in Node : view[k] = 2 => view'[k] = 2
    BY <1>13, <1>u DEF RpcAnswer, groupVars, callerVars
<1>14. ASSUME NEW i \in Node, NEW j \in Node, SendObjects(i, j)
       PROVE  \A k \in Node : view[k] = 2 => view'[k] = 2
    BY <1>14, <1>u DEF SendObjects, groupVars, callerVars
<1>15. ASSUME NEW i \in Node, Cleanup(i)
       PROVE  \A k \in Node : view[k] = 2 => view'[k] = 2
    BY <1>15, <1>u DEF Cleanup, groupVars, callerVars
<1>16. ASSUME NEW i \in Node, InstallView(i)
       PROVE  \A k \in Node : view[k] = 2 => view'[k] = 2
    BY <1>16, <1>t DEF InstallView
<1>17. ASSUME NEW i \in Node, ViewUpcall(i)
       PROVE  \A k \in Node : view[k] = 2 => view'[k] = 2
    BY <1>17, <1>u DEF ViewUpcall, groupVars, callerVars
<1>18. ASSUME LeaderCleanup
       PROVE  \A k \in Node : view[k] = 2 => view'[k] = 2
    BY <1>18, <1>u DEF LeaderCleanup, groupVars, callerVars
<1>19. CASE UNCHANGED vars
    BY <1>19, <1>u DEF vars, groupVars, callerVars
<1> QED
    BY <1>1, <1>2, <1>3, <1>4, <1>5, <1>6, <1>7, <1>8, <1>9, <1>10,
       <1>11, <1>12, <1>13, <1>14, <1>15, <1>16, <1>17, <1>18, <1>19
    DEF Next, Environment, Threads

LEMMA OutcomesStep ==
    ASSUME IInv, [Next]_vars
    PROVE  OutcomesFit'
<1> SUFFICES ASSUME NEW c \in Call, NEW n \in Node
             PROVE  /\ outcomes'[c][n] \in {"value", "exception"} => executions'[c][n] = 1
                    /\ outcomes'[c][n] = "removed" =>
                           /\ c \in DOMAIN calls' /\ view'[calls'[c].caller] = 2
                           /\ n \in RemovedMembers'
    BY DEF OutcomesFit
<1>1. /\ outcomes[c][n] \in {"value", "exception"} => executions[c][n] = 1
      /\ outcomes[c][n] = "removed" =>
             c \in DOMAIN calls /\ view[calls[c].caller] = 2 /\ n \in RemovedMembers
    BY DEF IInv, OutcomesFit
<1>2. outcomes'[c][n] = outcomes[c][n] \/ NewOutcome(c, n)  BY OutcomeChanges
<1>3. executions[c][n] = 1 => executions'[c][n] = 1
    BY ExecutionChanges DEF NewExecution
<1>4. c \in DOMAIN calls /\ view[calls[c].caller] = 2 =>
          c \in DOMAIN calls' /\ view'[calls'[c].caller] = 2
    BY CallsStay, ViewGoesOn, CallsType DEF IInv
<1>5. RemovedMembers' = RemovedMembers  BY MembersStay
<1> QED  BY <1>1, <1>2, <1>3, <1>4, <1>5 DEF NewOutcome

-----------------------------------------------------------------------------
(***************************************************************************)
(* The channels.                                                           *)
(***************************************************************************)
\* A packet that the step does not read.
Kept(a, b, m) ==
    \E k \in 1 .. Len(chan[a][b]) :
        chan[a][b][k] = m /\ (k = 1 => chan'[a][b] # Tail(chan[a][b]))

LEMMA KeptFits ==
    ASSUME IInv, NEW a \in Node, NEW b \in Node, NEW m, Kept(a, b, m)
    PROVE  PacketFits(a, b, m)
BY DEF Kept, IInv, PacketsFit

\* No other packet on the channel is about the call of the one that is read.
LEMMA KeptIsOther ==
    ASSUME IInv, NEW a \in Node, NEW b \in Node, NEW m, Kept(a, b, m),
           chan[a][b] # <<>>, chan'[a][b] = Tail(chan[a][b])
    PROVE  m.call # Head(chan[a][b]).call
<1>1. chan[a][b] \in Seq(Message)  BY ChanType DEF IInv
<1>2. Head(chan[a][b]) = chan[a][b][1] /\ 1 \in 1 .. Len(chan[a][b])  BY <1>1
<1>3. PICK k \in 1 .. Len(chan[a][b]) : chan[a][b][k] = m /\ k # 1  BY DEF Kept
<1> QED  BY <1>2, <1>3 DEF IInv, PacketsFit

\* The answer to a request enters the channel back, unless it gets lost.
LEMMA RequestMoves ==
    ASSUME IInv, NEW i \in Node, NEW j \in Node, RpcRequest(i, j)
    PROVE  /\ i # j /\ chan[j][i] # <<>> /\ chan'[j][i] = Tail(chan[j][i])
           /\ \/ chan'[i][j] = chan[i][j]
              \/ chan'[i][j] =
                     Append(chan[i][j], Packet(Head(chan[j][i]).call, Reply(i)))
           /\ \A a, b \in Node :
                  (a # i \/ b # j) /\ (a # j \/ b # i) => chan'[a][b] = chan[a][b]
<1> DEFINE m == Packet(Head(chan[j][i]).call, Reply(i))
           answer == Arriving(i, j, m)
<1>1. chan[j][i] # <<>> /\ i # j  BY DEF RpcRequest, RpcReads, HasSocket
<1>2. m \in Message
    <2>1. Head(chan[j][i]).call \in Call  BY <1>1, HeadFits
    <2> QED  BY <2>1, ReplyKind DEF Packet, Message, Kind
<1>3. RequestAnswered(i, j, answer)  BY DEF RpcRequest, RequestAnswered
<1> HIDE DEF m
<1>4. answer \in Seq(Message) /\ answer \in {<<>>, <<m>>}  BY <1>2, ArrivingType
<1> HIDE DEF answer
<1>5. /\ chan'[j][i] = Tail(chan[j][i]) /\ chan'[i][j] = chan[i][j] \o answer
      /\ \A a, b \in Node :
             (a # i \/ b # j) /\ (a # j \/ b # i) => chan'[a][b] = chan[a][b]
    BY <1>1, <1>3, <1>4, AnswerWritten DEF IInv
<1>6. chan[i][j] \in Seq(Message)  BY ChanType DEF IInv
<1>7. chan'[i][j] = chan[i][j] \/ chan'[i][j] = Append(chan[i][j], m)
    <2> DEFINE s == chan[i][j]
               t == chan'[i][j]
    <2>1. s \in Seq(Message) /\ t = s \o answer  BY <1>5, <1>6
    <2> HIDE DEF s, t
    <2>2. CASE answer = <<>>
        <3>1. s \o <<>> = s  BY <2>1, ConcatEmptySeq
        <3> QED  BY <2>1, <2>2, <3>1 DEF s, t
    <2>3. CASE answer = <<m>>
        <3>1. Append(s, m) = s \o <<m>>  BY <1>2, <2>1, AppendIsConcat
        <3> QED  BY <2>1, <2>3, <3>1 DEF s, t
    <2> QED  BY <1>4, <2>2, <2>3
<1> QED  BY <1>1, <1>5, <1>7 DEF m

LEMMA WriteMoves ==
    ASSUME IInv, NEW i \in Node, NEW j \in Node, NEW m \in Message, write(i, j, m)
    PROVE  \A a, b \in Node :
               \/ chan'[a][b] = chan[a][b]
               \/ a = i /\ b = j /\ chan'[a][b] = Append(chan[a][b], m)
<1>1. chan \in [Node -> [Node -> Seq(Message)]] /\ chan[i][j] \in Seq(Message)
    BY DEF IInv, TypeOK
<1> DEFINE answer == Arriving(i, j, m)
           more == chan[i][j] \o answer
<1>2. answer \in {<<>>, <<m>>}  BY ArrivingType
<1>4. chan' = [chan EXCEPT ![i][j] = chan[i][j] \o answer]  BY DEF write
<1> HIDE DEF answer
<1>3. more = chan[i][j] \/ more = Append(chan[i][j], m)
    <2> DEFINE s == chan[i][j]
    <2>1. s \in Seq(Message) /\ more = s \o answer  BY <1>1
    <2> HIDE DEF s, more
    <2>2. CASE answer = <<>>
        <3>1. s \o <<>> = s  BY <2>1, ConcatEmptySeq
        <3> QED  BY <2>1, <2>2, <3>1 DEF s
    <2>3. CASE answer = <<m>>
        <3>1. Append(s, m) = s \o <<m>>  BY <2>1, AppendIsConcat
        <3> QED  BY <2>1, <2>3, <3>1 DEF s
    <2> QED  BY <1>2, <2>2, <2>3
<1> HIDE DEF more
<1>5. chan' = [chan EXCEPT ![i][j] = more]  BY <1>4 DEF more
<1>6. \A a, b \in Node : chan'[a][b] = IF a = i /\ b = j THEN more ELSE chan[a][b]
    BY <1>1, <1>5
<1> QED  BY <1>3, <1>6

LEMMA KeptCall ==
    ASSUME IInv, NEW a \in Node, NEW b \in Node, NEW m, Kept(a, b, m)
    PROVE  m \in Message /\ m.call \in Call
<1>1. chan[a][b] \in Seq(Message)  BY ChanType DEF IInv
<1>2. m \in Message  BY <1>1 DEF Kept
<1> QED  BY <1>2 DEF Message

LEMMA RequestStays ==
    ASSUME IInv, [Next]_vars
    PROVE  \A a, b \in Node : \A m : Kept(a, b, m) /\ m.kind = "request" => executions'[m.call][b] = 0
<1>t. /\ executions \in [Call -> [Node -> Nat]] /\ outcomes \in [Call -> [Node -> Outcome]]
    BY DEF IInv, TypeOK
<1>f. \A a, b \in Node : \A m :
          Kept(a, b, m) /\ m.kind = "request" =>
              /\ calls[m.call] = CallTo(a, {b}) /\ m.call \notin Ordered
              /\ executions[m.call][b] = 0 /\ m.call \in Call
    <2> TAKE a, b \in Node
    <2> TAKE m
    <2> HAVE Kept(a, b, m) /\ m.kind = "request"
    <2>1. PacketFits(a, b, m) /\ m.call \in Call  BY KeptFits, KeptCall
    <2> QED  BY <2>1 DEF PacketFits
<1>u. ASSUME UNCHANGED executions
      PROVE  \A a, b \in Node : \A m : Kept(a, b, m) /\ m.kind = "request" => executions'[m.call][b] = 0
    BY <1>u, <1>f, ZenonT(40)
<1>1. ASSUME NEW i \in Callers, NEW nodes \in Targets, GetBuffer(i, nodes)
      PROVE  \A a, b \in Node : \A m : Kept(a, b, m) /\ m.kind = "request" => executions'[m.call][b] = 0
    BY <1>1, <1>u DEF GetBuffer, groupVars, callerVars
<1>2. ASSUME NEW i \in Callers, NEW j \in Node \ {i}, P2pWrite(i, j)
      PROVE  \A a, b \in Node : \A m : Kept(a, b, m) /\ m.kind = "request" => executions'[m.call][b] = 0
    BY <1>2, <1>u DEF P2pWrite, groupVars, callerVars
<1>3. ASSUME NEW i \in Node, Crash(i)
      PROVE  \A a, b \in Node : \A m : Kept(a, b, m) /\ m.kind = "request" => executions'[m.call][b] = 0
    BY <1>3, <1>u DEF Crash, groupVars, callerVars
<1>4. ASSUME NEW i \in Node, Wedge(i)
      PROVE  \A a, b \in Node : \A m : Kept(a, b, m) /\ m.kind = "request" => executions'[m.call][b] = 0
    BY <1>4, <1>u DEF Wedge, groupVars, callerVars
<1>5. ASSUME NEW i \in Callers, SendCall(i)
      PROVE  \A a, b \in Node : \A m : Kept(a, b, m) /\ m.kind = "request" => executions'[m.call][b] = 0
    BY <1>5, <1>u DEF SendCall, groupVars, callerVars
<1>6. ASSUME NEW i \in Callers, SendSpins(i)
      PROVE  \A a, b \in Node : \A m : Kept(a, b, m) /\ m.kind = "request" => executions'[m.call][b] = 0
    BY <1>6, <1>u DEF SendSpins, groupVars, callerVars
<1>7. ASSUME NEW i \in Callers, PushPending(i)
      PROVE  \A a, b \in Node : \A m : Kept(a, b, m) /\ m.kind = "request" => executions'[m.call][b] = 0
    BY <1>7, <1>u DEF PushPending, groupVars, callerVars
<1>8. ASSUME NEW i \in Callers, P2pPush(i)
      PROVE  \A a, b \in Node : \A m : Kept(a, b, m) /\ m.kind = "request" => executions'[m.call][b] = 0
    BY <1>8, <1>u DEF P2pPush, groupVars, callerVars
<1>9. ASSUME NEW i \in Node, PassOver(i)
      PROVE  \A a, b \in Node : \A m : Kept(a, b, m) /\ m.kind = "request" => executions'[m.call][b] = 0
    BY <1>9, <1>u DEF PassOver, groupVars, callerVars
<1>10. ASSUME NEW i \in Node, DeliverRemote(i)
       PROVE  \A a, b \in Node : \A m : Kept(a, b, m) /\ m.kind = "request" => executions'[m.call][b] = 0
    <2>1. NextCall(i) \in Ordered /\ executions' = [executions EXCEPT ![NextCall(i)][i] = @ + 1]
        BY <1>10, NextCallType DEF DeliverRemote, Execute
    <2> TAKE a, b \in Node
    <2> TAKE m
    <2> HAVE Kept(a, b, m) /\ m.kind = "request"
    <2>2. m.call \notin Ordered /\ executions[m.call][b] = 0 /\ m.call \in Call
        BY <1>f, ZenonT(40)
    <2> QED  BY <2>1, <2>2, <1>t
<1>11. ASSUME NEW i \in Node, DeliverOwn(i)
       PROVE  \A a, b \in Node : \A m : Kept(a, b, m) /\ m.kind = "request" => executions'[m.call][b] = 0
    <2>1. NextCall(i) \in Ordered /\ executions' = [executions EXCEPT ![NextCall(i)][i] = @ + 1]
        BY <1>11, NextCallType DEF DeliverOwn, Execute
    <2> TAKE a, b \in Node
    <2> TAKE m
    <2> HAVE Kept(a, b, m) /\ m.kind = "request"
    <2>2. m.call \notin Ordered /\ executions[m.call][b] = 0 /\ m.call \in Call
        BY <1>f, ZenonT(40)
    <2> QED  BY <2>1, <2>2, <1>t
<1>12. ASSUME NEW i \in Node, NEW j \in Node, RpcRequest(i, j)
       PROVE  \A a, b \in Node : \A m : Kept(a, b, m) /\ m.kind = "request" => executions'[m.call][b] = 0
    <2>1. chan[j][i] # <<>> /\ i # j /\ Head(chan[j][i]).kind = "request"
        BY <1>12 DEF RpcRequest, RpcReads, HasSocket
    <2>2. executions' = [executions EXCEPT ![Head(chan[j][i]).call][i] = @ + 1]
        BY <1>12 DEF RpcRequest, Execute
    <2>3. calls[Head(chan[j][i]).call] = CallTo(j, {i}) /\ Head(chan[j][i]).call \in Call
        BY <2>1, HeadFits DEF PacketFits
    <2>4. chan'[j][i] = Tail(chan[j][i])  BY <1>12, RequestMoves
    <2> TAKE a, b \in Node
    <2> TAKE m
    <2> HAVE Kept(a, b, m) /\ m.kind = "request"
    <2>5. calls[m.call] = CallTo(a, {b}) /\ executions[m.call][b] = 0 /\ m.call \in Call
        BY <1>f
    <2>6. ~ (m.call = Head(chan[j][i]).call /\ b = i)
        <3> SUFFICES ASSUME m.call = Head(chan[j][i]).call, b = i
                     PROVE  FALSE
            OBVIOUS
        <3>1. a = j  BY <2>3, <2>5 DEF CallTo
        <3> QED  BY <2>1, <2>4, <3>1, KeptIsOther
    <2> QED  BY <2>2, <2>3, <2>5, <2>6, <1>t
<1>13. ASSUME NEW i \in Node, NEW j \in Node, RpcAnswer(i, j)
       PROVE  \A a, b \in Node : \A m : Kept(a, b, m) /\ m.kind = "request" => executions'[m.call][b] = 0
    BY <1>13, <1>u DEF RpcAnswer, groupVars, callerVars
<1>14. ASSUME NEW i \in Node, NEW j \in Node, SendObjects(i, j)
       PROVE  \A a, b \in Node : \A m : Kept(a, b, m) /\ m.kind = "request" => executions'[m.call][b] = 0
    BY <1>14, <1>u DEF SendObjects, groupVars, callerVars
<1>15. ASSUME NEW i \in Node, Cleanup(i)
       PROVE  \A a, b \in Node : \A m : Kept(a, b, m) /\ m.kind = "request" => executions'[m.call][b] = 0
    BY <1>15, <1>u DEF Cleanup, groupVars, callerVars
<1>16. ASSUME NEW i \in Node, InstallView(i)
       PROVE  \A a, b \in Node : \A m : Kept(a, b, m) /\ m.kind = "request" => executions'[m.call][b] = 0
    BY <1>16, <1>u DEF InstallView, groupVars, callerVars
<1>17. ASSUME NEW i \in Node, ViewUpcall(i)
       PROVE  \A a, b \in Node : \A m : Kept(a, b, m) /\ m.kind = "request" => executions'[m.call][b] = 0
    BY <1>17, <1>u DEF ViewUpcall, groupVars, callerVars
<1>18. ASSUME LeaderCleanup
       PROVE  \A a, b \in Node : \A m : Kept(a, b, m) /\ m.kind = "request" => executions'[m.call][b] = 0
    BY <1>18, <1>u DEF LeaderCleanup, groupVars, callerVars
<1>19. CASE UNCHANGED vars
    BY <1>19, <1>u DEF vars, groupVars, callerVars
<1> QED
    BY <1>1, <1>2, <1>3, <1>4, <1>5, <1>6, <1>7, <1>8, <1>9, <1>10,
       <1>11, <1>12, <1>13, <1>14, <1>15, <1>16, <1>17, <1>18, <1>19
    DEF Next, Environment, Threads

LEMMA AnswerStays ==
    ASSUME IInv, [Next]_vars
    PROVE  \A a, b \in Node : \A m : Kept(a, b, m) /\ m.kind # "request" => outcomes'[m.call][a] \in {"none", "removed"}
<1>t. /\ executions \in [Call -> [Node -> Nat]] /\ outcomes \in [Call -> [Node -> Outcome]]
    BY DEF IInv, TypeOK
<1>f. \A a, b \in Node : \A m :
          Kept(a, b, m) /\ m.kind # "request" =>
              /\ calls[m.call].caller = b /\ a # b /\ m.call \in Call
              /\ outcomes[m.call][a] \in {"none", "removed"}
    <2> TAKE a, b \in Node
    <2> TAKE m
    <2> HAVE Kept(a, b, m) /\ m.kind # "request"
    <2>1. PacketFits(a, b, m) /\ m.call \in Call  BY KeptFits, KeptCall
    <2> QED  BY <2>1 DEF PacketFits
<1>u. ASSUME UNCHANGED outcomes
      PROVE  \A a, b \in Node : \A m : Kept(a, b, m) /\ m.kind # "request" => outcomes'[m.call][a] \in {"none", "removed"}
    BY <1>u, <1>f
<1>1. ASSUME NEW i \in Callers, NEW nodes \in Targets, GetBuffer(i, nodes)
      PROVE  \A a, b \in Node : \A m : Kept(a, b, m) /\ m.kind # "request" => outcomes'[m.call][a] \in {"none", "removed"}
    BY <1>1, <1>u DEF GetBuffer, groupVars, callerVars
<1>2. ASSUME NEW i \in Callers, NEW j \in Node \ {i}, P2pWrite(i, j)
      PROVE  \A a, b \in Node : \A m : Kept(a, b, m) /\ m.kind # "request" => outcomes'[m.call][a] \in {"none", "removed"}
    BY <1>2, <1>u DEF P2pWrite, groupVars, callerVars
<1>3. ASSUME NEW i \in Node, Crash(i)
      PROVE  \A a, b \in Node : \A m : Kept(a, b, m) /\ m.kind # "request" => outcomes'[m.call][a] \in {"none", "removed"}
    BY <1>3, <1>u DEF Crash, groupVars, callerVars
<1>4. ASSUME NEW i \in Node, Wedge(i)
      PROVE  \A a, b \in Node : \A m : Kept(a, b, m) /\ m.kind # "request" => outcomes'[m.call][a] \in {"none", "removed"}
    BY <1>4, <1>u DEF Wedge, groupVars, callerVars
<1>5. ASSUME NEW i \in Callers, SendCall(i)
      PROVE  \A a, b \in Node : \A m : Kept(a, b, m) /\ m.kind # "request" => outcomes'[m.call][a] \in {"none", "removed"}
    BY <1>5, <1>u DEF SendCall, groupVars, callerVars
<1>6. ASSUME NEW i \in Callers, SendSpins(i)
      PROVE  \A a, b \in Node : \A m : Kept(a, b, m) /\ m.kind # "request" => outcomes'[m.call][a] \in {"none", "removed"}
    BY <1>6, <1>u DEF SendSpins, groupVars, callerVars
<1>7. ASSUME NEW i \in Callers, PushPending(i)
      PROVE  \A a, b \in Node : \A m : Kept(a, b, m) /\ m.kind # "request" => outcomes'[m.call][a] \in {"none", "removed"}
    BY <1>7, <1>u DEF PushPending, groupVars, callerVars
<1>8. ASSUME NEW i \in Callers, P2pPush(i)
      PROVE  \A a, b \in Node : \A m : Kept(a, b, m) /\ m.kind # "request" => outcomes'[m.call][a] \in {"none", "removed"}
    BY <1>8, <1>u DEF P2pPush, groupVars, callerVars
<1>9. ASSUME NEW i \in Node, PassOver(i)
      PROVE  \A a, b \in Node : \A m : Kept(a, b, m) /\ m.kind # "request" => outcomes'[m.call][a] \in {"none", "removed"}
    BY <1>9, <1>u DEF PassOver, groupVars, callerVars
<1>10. ASSUME NEW i \in Node, DeliverRemote(i)
       PROVE  \A a, b \in Node : \A m : Kept(a, b, m) /\ m.kind # "request" => outcomes'[m.call][a] \in {"none", "removed"}
    BY <1>10, <1>u DEF DeliverRemote, groupVars, callerVars
<1>11. ASSUME NEW i \in Node, DeliverOwn(i)
       PROVE  \A a, b \in Node : \A m : Kept(a, b, m) /\ m.kind # "request" => outcomes'[m.call][a] \in {"none", "removed"}
    <2>1. outcomes' = outcomes \/ SetOutcome(NextCall(i), i, Reply(i))
        BY <1>11 DEF DeliverOwn
    <2>2. calls[NextCall(i)].caller = i  BY <1>11 DEF DeliverOwn
    <2> TAKE a, b \in Node
    <2> TAKE m
    <2> HAVE Kept(a, b, m) /\ m.kind # "request"
    <2>4. /\ calls[m.call].caller = b /\ a # b /\ m.call \in Call
          /\ outcomes[m.call][a] \in {"none", "removed"}
        BY <1>f
    <2>5. ~ (m.call = NextCall(i) /\ a = i)  BY <2>2, <2>4
    <2>6. CASE outcomes' = outcomes  BY <2>4, <2>6
    <2>7. CASE outcomes' = [outcomes EXCEPT ![NextCall(i)][i] = Reply(i)]
        <3>1. outcomes'[m.call][a] = outcomes[m.call][a]  BY <2>4, <2>5, <2>7, <1>t
        <3> QED  BY <2>4, <3>1
    <2> QED  BY <2>1, <2>6, <2>7 DEF SetOutcome
<1>12. ASSUME NEW i \in Node, NEW j \in Node, RpcRequest(i, j)
       PROVE  \A a, b \in Node : \A m : Kept(a, b, m) /\ m.kind # "request" => outcomes'[m.call][a] \in {"none", "removed"}
    BY <1>12, <1>u DEF RpcRequest, groupVars, callerVars
<1>13. ASSUME NEW i \in Node, NEW j \in Node, RpcAnswer(i, j)
       PROVE  \A a, b \in Node : \A m : Kept(a, b, m) /\ m.kind # "request" => outcomes'[m.call][a] \in {"none", "removed"}
    <2>1. chan[j][i] # <<>> /\ Head(chan[j][i]).kind # "request"
          /\ \/ outcomes' = outcomes
             \/ SetOutcome(Head(chan[j][i]).call, j, Head(chan[j][i]).kind)
        BY <1>13 DEF RpcAnswer, RpcReads
    <2>2. calls[Head(chan[j][i]).call].caller = i  BY <2>1, HeadFits DEF PacketFits
    <2>3. chan'[j][i] = Tail(chan[j][i])
        <3>1. chan \in [Node -> [Node -> Seq(Message)]]  BY DEF IInv, TypeOK
        <3> QED  BY <1>13, <3>1 DEF RpcAnswer
    <2> TAKE a, b \in Node
    <2> TAKE m
    <2> HAVE Kept(a, b, m) /\ m.kind # "request"
    <2>4. /\ calls[m.call].caller = b /\ a # b /\ m.call \in Call
          /\ outcomes[m.call][a] \in {"none", "removed"}
        BY <1>f
    <2>5. ~ (m.call = Head(chan[j][i]).call /\ a = j)
        <3> SUFFICES ASSUME m.call = Head(chan[j][i]).call, a = j
                     PROVE  FALSE
            OBVIOUS
        <3>1. b = i  BY <2>2, <2>4
        <3> QED  BY <2>1, <2>3, <3>1, KeptIsOther
    <2>6. CASE outcomes' = outcomes  BY <2>4, <2>6
    <2>7. CASE outcomes' = [outcomes EXCEPT
                                ![Head(chan[j][i]).call][j] = Head(chan[j][i]).kind]
        <3>1. outcomes'[m.call][a] = outcomes[m.call][a]  BY <2>4, <2>5, <2>7, <1>t
        <3> QED  BY <2>4, <3>1
    <2> QED  BY <2>1, <2>6, <2>7 DEF SetOutcome
<1>14. ASSUME NEW i \in Node, NEW j \in Node, SendObjects(i, j)
       PROVE  \A a, b \in Node : \A m : Kept(a, b, m) /\ m.kind # "request" => outcomes'[m.call][a] \in {"none", "removed"}
    BY <1>14, <1>u DEF SendObjects, groupVars, callerVars
<1>15. ASSUME NEW i \in Node, Cleanup(i)
       PROVE  \A a, b \in Node : \A m : Kept(a, b, m) /\ m.kind # "request" => outcomes'[m.call][a] \in {"none", "removed"}
    BY <1>15, <1>u DEF Cleanup, groupVars, callerVars
<1>16. ASSUME NEW i \in Node, InstallView(i)
       PROVE  \A a, b \in Node : \A m : Kept(a, b, m) /\ m.kind # "request" => outcomes'[m.call][a] \in {"none", "removed"}
    BY <1>16, <1>u DEF InstallView, groupVars, callerVars
<1>17. ASSUME NEW i \in Node, ViewUpcall(i)
       PROVE  \A a, b \in Node : \A m : Kept(a, b, m) /\ m.kind # "request" => outcomes'[m.call][a] \in {"none", "removed"}
    <2> TAKE a, b \in Node
    <2> TAKE m
    <2> HAVE Kept(a, b, m) /\ m.kind # "request"
    <2>4. /\ calls[m.call].caller = b /\ a # b /\ m.call \in Call
          /\ outcomes[m.call][a] \in {"none", "removed"}
        BY <1>f
    <2> QED  BY <1>17, <2>4, <1>t DEF ViewUpcall
<1>18. ASSUME LeaderCleanup
       PROVE  \A a, b \in Node : \A m : Kept(a, b, m) /\ m.kind # "request" => outcomes'[m.call][a] \in {"none", "removed"}
    BY <1>18, <1>u DEF LeaderCleanup, groupVars, callerVars
<1>19. CASE UNCHANGED vars
    BY <1>19, <1>u DEF vars, groupVars, callerVars
<1> QED
    BY <1>1, <1>2, <1>3, <1>4, <1>5, <1>6, <1>7, <1>8, <1>9, <1>10,
       <1>11, <1>12, <1>13, <1>14, <1>15, <1>16, <1>17, <1>18, <1>19
    DEF Next, Environment, Threads

LEMMA KeptPacket ==
    ASSUME IInv, [Next]_vars, NEW a \in Node, NEW b \in Node, NEW m, Kept(a, b, m)
    PROVE  PacketFits(a, b, m)'
<1>1. PacketFits(a, b, m) /\ m.call \in Call  BY KeptFits, KeptCall
<1>2. m.call \in Sent /\ m.call \in Sent' /\ calls'[m.call] = calls[m.call]
    BY <1>1, SentStays, CallsStay DEF PacketFits, Sent
<1>3. m.call \notin Ordered => m.call \notin Ordered'  BY <1>2, OrderedNew
<1>4. executions[m.call][a] = 1 => executions'[m.call][a] = 1
    BY <1>1, ExecutionChanges DEF NewExecution
<1>5. m.kind = "request" => executions'[m.call][b] = 0  BY RequestStays
<1>6. m.kind # "request" => outcomes'[m.call][a] \in {"none", "removed"}
    BY AnswerStays
<1> QED  BY <1>1, <1>2, <1>3, <1>4, <1>5, <1>6 DEF PacketFits

\* What a step does to a channel.
ChanMoves(a, b) ==
    \/ chan'[a][b] = chan[a][b] \/ chan'[a][b] = <<>>
    \/ chan[a][b] # <<>> /\ chan'[a][b] = Tail(chan[a][b])
    \/ \E m \in Message :
           /\ chan'[a][b] = Append(chan[a][b], m)
           /\ PacketFits(a, b, m)'
           /\ \A k \in 1 .. Len(chan[a][b]) : chan[a][b][k].call # m.call

\* An answer that is written is the only packet about its call.
LEMMA AnswerFits ==
    ASSUME IInv, [Next]_vars, NEW i \in Node, NEW j \in Node, i # j,
           NEW c \in Call, c \in Sent, calls[c].caller = j, executions[c][i] = 0,
           executions'[c][i] = 1, outcomes'[c][i] = outcomes[c][i],
           NEW m, m = Packet(c, Reply(i))
    PROVE  /\ m \in Message /\ PacketFits(i, j, m)'
           /\ \A k \in 1 .. Len(chan[i][j]) : chan[i][j][k].call # m.call
<1>1. m.call = c /\ m.kind \in {"value", "exception"} /\ m \in Message
    BY ReplyKind DEF Packet, Message, Kind
<1>2. c \in Sent' /\ calls'[c].caller = j  BY SentStays, CallsStay DEF Sent
<1>3. outcomes[c][i] \in {"none", "removed"}
    <2>1. outcomes[c][i] \in Outcome  BY DEF IInv, TypeOK
    <2>2. outcomes[c][i] \notin {"value", "exception"}  BY DEF IInv, OutcomesFit
    <2> QED  BY <2>1, <2>2 DEF Outcome
<1>4. PacketFits(i, j, m)'  BY <1>1, <1>2, <1>3 DEF PacketFits
<1>5. ASSUME NEW k \in 1 .. Len(chan[i][j]), chan[i][j][k].call = c
      PROVE  FALSE
    <2>1. PacketFits(i, j, chan[i][j][k])  BY DEF IInv, PacketsFit
    <2>2. CASE chan[i][j][k].kind = "request"
        <3>1. calls[c] = CallTo(i, {j})  BY <1>5, <2>1, <2>2 DEF PacketFits
        <3> QED  BY <3>1 DEF CallTo
    <2>3. CASE chan[i][j][k].kind # "request"
        BY <1>5, <2>1, <2>3 DEF PacketFits
    <2> QED  BY <2>2, <2>3
<1> QED  BY <1>1, <1>4, <1>5

LEMMA RequestFits ==
    ASSUME IInv, [Next]_vars, NEW i \in Callers, NEW j \in Node \ {i}, P2pWrite(i, j),
           NEW c, c = Len(calls'), NEW m, m = Packet(c, "request")
    PROVE  /\ m \in Message /\ PacketFits(i, j, m)'
           /\ \A k \in 1 .. Len(chan[i][j]) : chan[i][j][k].call # m.call
<1>t. TypeOK /\ i \in Node /\ {j} \in SUBSET Node  BY CallsType DEF IInv
<1>1. /\ c \in Call /\ c \notin DOMAIN calls /\ DOMAIN calls' = DOMAIN calls \cup {c}
      /\ calls'[c] = CallTo(i, {j})
    BY <1>t, NewCall DEF P2pWrite
<1>2. m.call = c /\ m.kind = "request" /\ m \in Message
    BY <1>1 DEF Packet, Message, Kind
<1>3. c \notin Unsent'
    <2>1. /\ app' = [app EXCEPT ![i] = [pc |-> "written", call |-> c, group |-> view[i]]]
          /\ app \in [Node -> Activity]
        BY <1>t DEF P2pWrite, TypeOK
    <2>2. ASSUME NEW k \in Node, app'[k].pc \in {"buffer", "spinning"}
          PROVE  app'[k].call # c
        <3>1. app'[k] = app[k] /\ app[k].pc # "idle"  BY <1>t, <2>1, <2>2
        <3>2. app[k].call \in DOMAIN calls  BY <3>1, BusyCall
        <3> QED  BY <1>1, <3>1, <3>2
    <2> QED  BY <2>2 DEF Unsent
<1>4. c \in Sent'  BY <1>1, <1>3 DEF Sent
<1>5. c \notin Sent  BY <1>1 DEF Sent
<1>6. c \notin Ordered'
    <2>1. order' = order  BY DEF P2pWrite, groupVars
    <2>2. c \notin Ordered  BY <1>5 DEF IInv, OrdersFit, Ordered
    <2> QED  BY <2>1, <2>2 DEF Ordered
<1>7. executions'[c][j] = 0
    <2>1. executions' = executions  BY DEF P2pWrite
    <2>2. executions[c][j] \in {0, 1} /\ executions[c][j] # 1
        BY <1>1, <1>5 DEF IInv, ExecutionsFit
    <2> QED  BY <2>1, <2>2
<1>8. PacketFits(i, j, m)'  BY <1>1, <1>2, <1>4, <1>6, <1>7 DEF PacketFits
<1>9. \A k \in 1 .. Len(chan[i][j]) : chan[i][j][k].call # c
    <2> TAKE k \in 1 .. Len(chan[i][j])
    <2>1. PacketFits(i, j, chan[i][j][k])  BY <1>t DEF IInv, PacketsFit
    <2> QED  BY <1>5, <2>1 DEF PacketFits
<1> QED  BY <1>2, <1>8, <1>9

LEMMA ChannelsMove ==
    ASSUME IInv, [Next]_vars
    PROVE  \A a, b \in Node : ChanMoves(a, b)
<1>u. ASSUME UNCHANGED chan
      PROVE  \A a, b \in Node : ChanMoves(a, b)
    BY <1>u DEF ChanMoves
<1>1. ASSUME NEW i \in Callers, NEW nodes \in Targets, GetBuffer(i, nodes)
      PROVE  \A a, b \in Node : ChanMoves(a, b)
    BY <1>1, <1>u DEF GetBuffer, groupVars, callerVars
<1>2. ASSUME NEW i \in Callers, NEW j \in Node \ {i}, P2pWrite(i, j)
      PROVE  \A a, b \in Node : ChanMoves(a, b)
    <2>1. PICK c : c = Len(calls')  OBVIOUS
    <2>2. PICK m : m = Packet(c, "request")  OBVIOUS
    <2>3. i \in Node  BY CallsType DEF IInv
    <2>4. /\ m \in Message /\ PacketFits(i, j, m)'
          /\ \A k \in 1 .. Len(chan[i][j]) : chan[i][j][k].call # m.call
        BY <1>2, <2>1, <2>2, RequestFits
    <2>5. chan' = chan \/ write(i, j, m)  BY <1>2, <2>1, <2>2 DEF P2pWrite
    <2>6. \A a, b \in Node :
              \/ chan'[a][b] = chan[a][b]
              \/ a = i /\ b = j /\ chan'[a][b] = Append(chan[a][b], m)
        BY <2>3, <2>4, <2>5, WriteMoves
    <2> QED  BY <2>4, <2>6 DEF ChanMoves
<1>3. ASSUME NEW i \in Node, Crash(i)
      PROVE  \A a, b \in Node : ChanMoves(a, b)
    BY <1>3, <1>u DEF Crash, groupVars, callerVars
<1>4. ASSUME NEW i \in Node, Wedge(i)
      PROVE  \A a, b \in Node : ChanMoves(a, b)
    <2>1. chan' = Unread(i)  BY <1>4 DEF Wedge
    <2> QED  BY <2>1, UnreadType DEF IInv, ChanMoves
<1>5. ASSUME NEW i \in Callers, SendCall(i)
      PROVE  \A a, b \in Node : ChanMoves(a, b)
    BY <1>5, <1>u DEF SendCall, groupVars, callerVars
<1>6. ASSUME NEW i \in Callers, SendSpins(i)
      PROVE  \A a, b \in Node : ChanMoves(a, b)
    BY <1>6, <1>u DEF SendSpins, groupVars, callerVars
<1>7. ASSUME NEW i \in Callers, PushPending(i)
      PROVE  \A a, b \in Node : ChanMoves(a, b)
    BY <1>7, <1>u DEF PushPending, groupVars, callerVars
<1>8. ASSUME NEW i \in Callers, P2pPush(i)
      PROVE  \A a, b \in Node : ChanMoves(a, b)
    BY <1>8, <1>u DEF P2pPush, groupVars, callerVars
<1>9. ASSUME NEW i \in Node, PassOver(i)
      PROVE  \A a, b \in Node : ChanMoves(a, b)
    BY <1>9, <1>u DEF PassOver, groupVars, callerVars
<1>10. ASSUME NEW i \in Node, DeliverRemote(i)
       PROVE  \A a, b \in Node : ChanMoves(a, b)
    <2>1. PICK c : c = NextCall(i)  OBVIOUS
    <2>2. PICK m : m = Packet(c, Reply(i))  OBVIOUS
    <2>3. PICK j : j = calls[c].caller  OBVIOUS
    <2>4. /\ c \in Call /\ c \in Sent /\ executions[c][i] = 0 /\ j \in Node /\ i # j
          /\ executions' = [executions EXCEPT ![c][i] = @ + 1] /\ outcomes' = outcomes
        BY <1>10, <2>1, <2>3, NextCallType, NotExecuted, CallsType DEF DeliverRemote, Execute, IInv
    <2>5. executions'[c][i] = 1  BY <2>4 DEF IInv, TypeOK
    <2>6. /\ m \in Message /\ PacketFits(i, j, m)'
          /\ \A k \in 1 .. Len(chan[i][j]) : chan[i][j][k].call # m.call
        BY <2>2, <2>3, <2>4, <2>5, AnswerFits
    <2>7. chan' = chan \/ write(i, j, m)  BY <1>10, <2>1, <2>2, <2>3 DEF DeliverRemote
    <2>8. \A a, b \in Node :
              \/ chan'[a][b] = chan[a][b]
              \/ a = i /\ b = j /\ chan'[a][b] = Append(chan[a][b], m)
        BY <2>4, <2>6, <2>7, WriteMoves
    <2> QED  BY <2>6, <2>8 DEF ChanMoves
<1>11. ASSUME NEW i \in Node, DeliverOwn(i)
       PROVE  \A a, b \in Node : ChanMoves(a, b)
    BY <1>11, <1>u DEF DeliverOwn, groupVars, callerVars
<1>12. ASSUME NEW i \in Node, NEW j \in Node, RpcRequest(i, j)
       PROVE  \A a, b \in Node : ChanMoves(a, b)
    <2>1. PICK c : c = Head(chan[j][i]).call  OBVIOUS
    <2>2. PICK m : m = Packet(c, Reply(i))  OBVIOUS
    <2>3. /\ i # j /\ chan[j][i] # <<>> /\ chan'[j][i] = Tail(chan[j][i])
          /\ chan'[i][j] = chan[i][j] \/ chan'[i][j] = Append(chan[i][j], m)
          /\ \A a, b \in Node :
                 (a # i \/ b # j) /\ (a # j \/ b # i) => chan'[a][b] = chan[a][b]
        BY <1>12, <2>1, <2>2, RequestMoves
    <2>4. /\ Head(chan[j][i]).kind = "request" /\ outcomes' = outcomes
          /\ executions' = [executions EXCEPT ![c][i] = @ + 1]
        BY <1>12, <2>1, SMTT(40) DEF RpcRequest, Execute
    <2>5. c \in Call /\ c \in Sent /\ executions[c][i] = 0 /\ calls[c] = CallTo(j, {i})
        BY <2>1, <2>3, <2>4, HeadFits DEF PacketFits
    <2>6. executions'[c][i] = 1 /\ calls[c].caller = j  BY <2>4, <2>5 DEF IInv, TypeOK, CallTo
    <2>7. /\ m \in Message /\ PacketFits(i, j, m)'
          /\ \A k \in 1 .. Len(chan[i][j]) : chan[i][j][k].call # m.call
        BY <2>2, <2>3, <2>4, <2>5, <2>6, AnswerFits
    <2> QED  BY <2>3, <2>7 DEF ChanMoves
<1>13. ASSUME NEW i \in Node, NEW j \in Node, RpcAnswer(i, j)
       PROVE  \A a, b \in Node : ChanMoves(a, b)
    <2>1. chan' = [chan EXCEPT ![j][i] = Tail(@)] /\ chan[j][i] # <<>>
        BY <1>13 DEF RpcAnswer, RpcReads
    <2>2. chan \in [Node -> [Node -> Seq(Message)]]  BY DEF IInv, TypeOK
    <2>3. \A a, b \in Node :
              chan'[a][b] = IF a = j /\ b = i THEN Tail(chan[j][i]) ELSE chan[a][b]
        BY <2>1, <2>2
    <2> QED  BY <2>1, <2>3 DEF ChanMoves
<1>14. ASSUME NEW i \in Node, NEW j \in Node, SendObjects(i, j)
       PROVE  \A a, b \in Node : ChanMoves(a, b)
    BY <1>14, <1>u DEF SendObjects, groupVars, callerVars
<1>15. ASSUME NEW i \in Node, Cleanup(i)
       PROVE  \A a, b \in Node : ChanMoves(a, b)
    BY <1>15, <1>u DEF Cleanup, groupVars, callerVars
<1>16. ASSUME NEW i \in Node, InstallView(i)
       PROVE  \A a, b \in Node : ChanMoves(a, b)
    BY <1>16, <1>u DEF InstallView, groupVars, callerVars
<1>17. ASSUME NEW i \in Node, ViewUpcall(i)
       PROVE  \A a, b \in Node : ChanMoves(a, b)
    BY <1>17, <1>u DEF ViewUpcall, groupVars, callerVars
<1>18. ASSUME LeaderCleanup
       PROVE  \A a, b \in Node : ChanMoves(a, b)
    BY <1>18, <1>u DEF LeaderCleanup, groupVars, callerVars
<1>19. CASE UNCHANGED vars
    BY <1>19, <1>u DEF vars, groupVars, callerVars
<1> QED
    BY <1>1, <1>2, <1>3, <1>4, <1>5, <1>6, <1>7, <1>8, <1>9, <1>10,
       <1>11, <1>12, <1>13, <1>14, <1>15, <1>16, <1>17, <1>18, <1>19
    DEF Next, Environment, Threads

LEMMA PacketsStep ==
    ASSUME IInv, [Next]_vars
    PROVE  PacketsFit'
<1> SUFFICES ASSUME NEW a \in Node, NEW b \in Node
             PROVE  /\ \A k \in 1 .. Len(chan'[a][b]) :
                           \A m : m = chan'[a][b][k] => PacketFits(a, b, m)'
                    /\ \A k, l \in 1 .. Len(chan'[a][b]) :
                           chan'[a][b][k].call = chan'[a][b][l].call => k = l
    <2>1. ASSUME NEW a \in Node, NEW b \in Node,
                 \A k \in 1 .. Len(chan'[a][b]) :
                     \A m : m = chan'[a][b][k] => PacketFits(a, b, m)'
          PROVE  (\A k \in 1 .. Len(chan[a][b]) : PacketFits(a, b, chan[a][b][k]))'
        BY <2>1, SMTT(40) DEF PacketFits
    <2> QED  BY <2>1 DEF PacketsFit
<1> DEFINE s == chan[a][b]
           r == chan'[a][b]
<1>1. s \in Seq(Message)  BY ChanType DEF IInv
<1>2. \A k, l \in 1 .. Len(s) : s[k].call = s[l].call => k = l  BY DEF IInv, PacketsFit
<1>3. \A k \in 1 .. Len(s) :
          \A m : m = s[k] /\ (k = 1 => r # Tail(s)) => PacketFits(a, b, m)'
    BY KeptPacket DEF Kept
<1>4. \/ r = s \/ r = <<>>
      \/ s # <<>> /\ r = Tail(s)
      \/ \E m \in Message :
             /\ r = Append(s, m) /\ PacketFits(a, b, m)'
             /\ \A k \in 1 .. Len(s) : s[k].call # m.call
    BY ChannelsMove DEF ChanMoves
<1> HIDE DEF s, r
<1>5. s # <<>> => s # Tail(s) /\ s # <<>>
    <2>1. s # <<>> => Len(Tail(s)) = Len(s) - 1 /\ Len(s) \in Nat  BY <1>1
    <2> QED  BY <2>1
<1>6. CASE s # <<>> /\ r = Tail(s)
    <2>1. /\ Len(r) = Len(s) - 1 /\ Len(s) \in Nat
          /\ \A k \in 1 .. Len(r) : r[k] = s[k + 1]
        BY <1>1, <1>6
    <2>2. \A k \in 1 .. Len(r) : k + 1 \in 1 .. Len(s) /\ k + 1 # 1  BY <2>1
    <2>3. \A k \in 1 .. Len(r) : \A m : m = r[k] => PacketFits(a, b, m)'
        BY <1>3, <2>1, <2>2
    <2>4. \A k, l \in 1 .. Len(r) : r[k].call = r[l].call => k + 1 = l + 1
        BY <1>2, <2>1, <2>2, SMTT(40)
    <2>5. \A k, l \in 1 .. Len(r) : k + 1 = l + 1 => k = l  BY <2>1
    <2> QED  BY <2>3, <2>4, <2>5 DEF r
<1>7. CASE r = s
    <2>1. \A k \in 1 .. Len(s) : s # <<>>  BY <1>1
    <2> QED  BY <1>2, <1>3, <1>5, <1>7, <2>1 DEF r
<1>8. CASE r = <<>>
    BY <1>8 DEF r
<1>9. ASSUME NEW m \in Message, r = Append(s, m), PacketFits(a, b, m)',
             \A k \in 1 .. Len(s) : s[k].call # m.call
      PROVE  /\ \A k \in 1 .. Len(r) : \A n : n = r[k] => PacketFits(a, b, n)'
             /\ \A k, l \in 1 .. Len(r) : r[k].call = r[l].call => k = l
    <2>1. /\ Len(r) = Len(s) + 1 /\ r[Len(s) + 1] = m /\ Len(s) \in Nat
          /\ \A k \in 1 .. Len(s) : r[k] = s[k]
        BY <1>1, <1>9
    <2>2. \A k \in 1 .. Len(r) : k \in 1 .. Len(s) \/ k = Len(s) + 1  BY <2>1
    <2>3. \A k \in 1 .. Len(s) : r # Tail(s)
        <3>1. s # <<>> => Len(Tail(s)) = Len(s) - 1  BY <1>1
        <3>2. \A k \in 1 .. Len(s) : s # <<>>  BY <1>1
        <3> QED  BY <2>1, <3>1, <3>2
    <2>4. \A k \in 1 .. Len(r) : \A n : n = r[k] => PacketFits(a, b, n)'
        BY <1>3, <1>9, <2>1, <2>2, <2>3
    <2>5. \A k, l \in 1 .. Len(r) : r[k].call = r[l].call => k = l
        BY <1>2, <1>9, <2>1, <2>2
    <2> QED  BY <2>4, <2>5
<1> QED  BY <1>4, <1>6, <1>7, <1>8, <1>9 DEF r

-----------------------------------------------------------------------------
(***************************************************************************)
(* Who is to answer, and who has.                                          *)
(***************************************************************************)
LEMMA CallsTypePrimed == TypeOK' => DOMAIN calls' \subseteq Call
<1> SUFFICES ASSUME TypeOK'
             PROVE  DOMAIN calls' \subseteq Call
    OBVIOUS
<1>1. calls' \in Seq(Made) /\ Len(calls') <= MaxCalls  BY DEF TypeOK
<1>2. DOMAIN calls' = 1 .. Len(calls') /\ Len(calls') \in Nat /\ MaxCalls \in Nat
    BY <1>1 DEF CallsAssumption
<1> QED  BY <1>1, <1>2 DEF Call

\* PendingResults is filled with the nodes of the call or the members of the group.
LEMMA FulfilFits ==
    ASSUME IInv, [Next]_vars, NEW i \in Node, NEW c \in Call, NEW nodes, Fulfil(i, c, nodes),
           c \in DOMAIN calls, calls[c].caller = i, nodes \subseteq Node,
           c \in GroupCalls => nodes \subseteq First \cup Second
    PROVE  /\ \A k \in Node : \A d \in fulfilledList'[k] : d \in DOMAIN calls /\ calls[d].caller = k
           /\ \A d \in Call : dest_nodes'[d] # {} =>
                  d \in DOMAIN calls /\ d \in fulfilledList'[calls[d].caller]
           /\ \A d \in GroupCalls : dest_nodes'[d] \subseteq First \cup Second
<1>1. /\ fulfilledList \in [Node -> SUBSET Call] /\ dest_nodes \in [Call -> SUBSET Node]
      /\ \A d \in DOMAIN calls : calls[d].caller \in Node
    BY CallsType DEF IInv, TypeOK
<1>2. /\ \A k \in Node : fulfilledList'[k] = IF k = i THEN fulfilledList[k] \cup {c} ELSE fulfilledList[k]
      /\ \A d \in Call : dest_nodes'[d] = IF d = c THEN dest_nodes[d] \cup nodes ELSE dest_nodes[d]
    BY <1>1 DEF Fulfil
<1>3. /\ \A k \in Node : \A d \in fulfilledList[k] : d \in DOMAIN calls /\ calls[d].caller = k
      /\ \A d \in Call : dest_nodes[d] # {} =>
             d \in DOMAIN calls /\ d \in fulfilledList[calls[d].caller]
      /\ \A d \in GroupCalls : dest_nodes[d] \subseteq First \cup Second
    BY DEF IInv, FulfilledFits, CallsOf
<1>4. \A k \in Node : \A d \in fulfilledList'[k] : d \in DOMAIN calls /\ calls[d].caller = k
    <2> TAKE k \in Node
    <2> TAKE d \in fulfilledList'[k]
    <2>1. d \in fulfilledList[k] \/ (d = c /\ k = i)  BY <1>2, ZenonT(40)
    <2> QED  BY <1>3, <2>1
<1>5. ASSUME NEW d \in Call, dest_nodes'[d] # {}
      PROVE  d \in DOMAIN calls /\ d \in fulfilledList'[calls[d].caller]
    <2>1. CASE d = c  BY <1>2, <2>1
    <2>2. CASE d # c  BY <1>1, <1>2, <1>3, <1>5, <2>2, ZenonT(40)
    <2> QED  BY <2>1, <2>2
<1>6. ASSUME NEW d \in GroupCalls
      PROVE  dest_nodes'[d] \subseteq First \cup Second
    <2>1. CASE d = c  BY <1>2, <1>3, <2>1, <1>6, ZenonT(40)
    <2>2. CASE d # c
        <3>1. d \in Call  BY CallsType DEF IInv
        <3> QED  BY <1>2, <1>3, <1>6, <2>2, <3>1
    <2> QED  BY <2>1, <2>2
<1> QED  BY <1>4, <1>5, <1>6

LEMMA FulfilledStep ==
    ASSUME IInv, [Next]_vars
    PROVE  FulfilledFits'
<1>t. toFulfillQueue \in [Node -> Seq(Call)] /\ dest_nodes \in [Call -> SUBSET Node]
    BY DEF IInv, TypeOK
<1>a. /\ \A k \in Node : \A d \in fulfilledList[k] : d \in DOMAIN calls /\ calls[d].caller = k
      /\ \A k \in Node : \A d \in Range(toFulfillQueue[k]) :
             d \in GroupCalls /\ d \in DOMAIN calls /\ calls[d].caller = k
      /\ \A d \in Call : dest_nodes[d] # {} =>
             d \in DOMAIN calls /\ d \in fulfilledList[calls[d].caller]
      /\ \A d \in GroupCalls : dest_nodes[d] \subseteq First \cup Second
    BY DEF IInv, FulfilledFits, CallsOf
<1>k. \A d \in DOMAIN calls :
          /\ d \in DOMAIN calls' /\ calls'[d].caller = calls[d].caller
          /\ d \in GroupCalls' <=> d \in GroupCalls
    BY CallsStay, KindStays
<1>g. ASSUME /\ \A k \in Node : \A d \in fulfilledList'[k] : d \in DOMAIN calls /\ calls[d].caller = k
             /\ \A k \in Node : \A d \in Range(toFulfillQueue'[k]) :
                    d \in GroupCalls /\ d \in DOMAIN calls /\ calls[d].caller = k
             /\ \A d \in Call : dest_nodes'[d] # {} =>
                    d \in DOMAIN calls /\ d \in fulfilledList'[calls[d].caller]
             /\ \A d \in GroupCalls : dest_nodes'[d] \subseteq First \cup Second
      PROVE  FulfilledFits'
    <2>1. \A k \in Node : fulfilledList'[k] \subseteq CallsOf(k)'
        BY <1>g, <1>k DEF CallsOf
    <2>2. \A k \in Node : Range(toFulfillQueue'[k]) \subseteq CallsOf(k)' \cap GroupCalls'
        BY <1>g, <1>k DEF CallsOf
    <2>3. \A d \in Call : dest_nodes'[d] # {} =>
              d \in DOMAIN calls' /\ d \in fulfilledList'[calls'[d].caller]
        BY <1>g, <1>k
    <2>4. \A d \in GroupCalls' : dest_nodes'[d] \subseteq First \cup Second
        <3> TAKE d \in GroupCalls'
        <3>1. d \in DOMAIN calls'  BY DEF GroupCalls
        <3>4. d \in Call  BY <3>1, TypeStep, CallsTypePrimed
        <3>2. CASE d \in DOMAIN calls  BY <1>g, <1>k, <3>2
        <3>3. CASE d \notin DOMAIN calls
            <4>1. dest_nodes'[d] = {}  BY <1>g, <3>4, <3>3
            <4> QED  BY <4>1
        <3> QED  BY <3>2, <3>3
    <2>5. First' = First /\ Second' = Second  BY MembersStay
    <2> QED  BY <2>1, <2>2, <2>3, <2>4, <2>5 DEF FulfilledFits
<1>u. ASSUME UNCHANGED callerVars
      PROVE  FulfilledFits'
    <2>1. UNCHANGED <<toFulfillQueue, fulfilledList, dest_nodes>>  BY <1>u DEF callerVars
    <2> QED  BY <2>1, <1>a, <1>g
<1>1. ASSUME NEW i \in Callers, NEW nodes \in Targets, GetBuffer(i, nodes)
      PROVE  FulfilledFits'
    BY <1>1, <1>u DEF GetBuffer, groupVars, callerVars
<1>2. ASSUME NEW i \in Callers, NEW j \in Node \ {i}, P2pWrite(i, j)
      PROVE  FulfilledFits'
    BY <1>2, <1>u DEF P2pWrite, groupVars, callerVars
<1>3. ASSUME NEW i \in Node, Crash(i)
      PROVE  FulfilledFits'
    BY <1>3, <1>u DEF Crash, groupVars, callerVars
<1>4. ASSUME NEW i \in Node, Wedge(i)
      PROVE  FulfilledFits'
    BY <1>4, <1>u DEF Wedge, groupVars, callerVars
<1>5. ASSUME NEW i \in Callers, SendCall(i)
      PROVE  FulfilledFits'
    BY <1>5, <1>u DEF SendCall, groupVars, callerVars
<1>6. ASSUME NEW i \in Callers, SendSpins(i)
      PROVE  FulfilledFits'
    BY <1>6, <1>u DEF SendSpins, groupVars, callerVars
<1>7. ASSUME NEW i \in Callers, PushPending(i)
      PROVE  FulfilledFits'
    <2>1. PICK c : c = app[i].call  OBVIOUS
    <2>2. /\ i \in Node /\ c \in Call /\ c \in DOMAIN calls /\ calls[c].caller = i
          /\ calls[c].nodes \subseteq Node
        BY <1>7, <2>1, CallsType, BusyCall DEF PushPending, IInv
    <2>3. CASE ToGroup(c)
        <3>1. UNCHANGED <<fulfilledList, dest_nodes>>
            BY <1>7, <2>1, <2>3 DEF PushPending
        <3>2. toFulfillQueue' = [toFulfillQueue EXCEPT ![i] = Append(toFulfillQueue[i], c)]
            BY <1>7, <2>1, <2>3 DEF PushPending
        <3>3. toFulfillQueue[i] \in Seq(Call)  BY <2>2, <1>t
        <3>4. Range(Append(toFulfillQueue[i], c)) \subseteq Range(toFulfillQueue[i]) \cup {c}
            BY <2>2, <3>3, AppendProperties DEF Range
        <3>5. \A k \in Node : Range(toFulfillQueue'[k]) \subseteq Range(toFulfillQueue[k]) \cup {c}
                              /\ (k # i => toFulfillQueue'[k] = toFulfillQueue[k])
            BY <2>2, <3>2, <3>4, <1>t
        <3>6. c \in GroupCalls  BY <2>3 DEF ToGroup
        <3>7. \A k \in Node : \A d \in Range(toFulfillQueue'[k]) :
                  d \in GroupCalls /\ d \in DOMAIN calls /\ calls[d].caller = k
            BY <2>2, <3>5, <3>6, <1>a
        <3> QED  BY <3>1, <3>7, <1>a, <1>g
    <2>4. CASE ~ ToGroup(c)
        <3>1. Fulfil(i, c, calls[c].nodes) /\ UNCHANGED toFulfillQueue
            BY <1>7, <2>1, <2>4 DEF PushPending
        <3> QED  BY <2>2, <2>4, <3>1, <1>a, <1>g, FulfilFits DEF ToGroup
    <2> QED  BY <2>3, <2>4
<1>8. ASSUME NEW i \in Callers, P2pPush(i)
      PROVE  FulfilledFits'
    <2>1. PICK c : c = app[i].call  OBVIOUS
    <2>2. /\ i \in Node /\ c \in Call /\ c \in DOMAIN calls /\ calls[c].caller = i
          /\ calls[c].nodes \subseteq Node
        BY <1>8, <2>1, CallsType, BusyCall DEF P2pPush, IInv
    <2>3. c \notin GroupCalls  BY <1>8, <2>1, <2>2 DEF P2pPush, IInv, AppFits, ToGroup
    <2>4. UNCHANGED toFulfillQueue  BY <1>8 DEF P2pPush
    <2>5. CASE Fulfil(i, c, calls[c].nodes)
        BY <2>2, <2>3, <2>4, <2>5, <1>a, <1>g, FulfilFits
    <2>6. CASE UNCHANGED <<fulfilledList, dest_nodes>>
        BY <2>4, <2>6, <1>a, <1>g
    <2> QED  BY <1>8, <2>1, <2>5, <2>6 DEF P2pPush
<1>9. ASSUME NEW i \in Node, PassOver(i)
      PROVE  FulfilledFits'
    BY <1>9, <1>u DEF PassOver, groupVars, callerVars
<1>10. ASSUME NEW i \in Node, DeliverRemote(i)
       PROVE  FulfilledFits'
    BY <1>10, <1>u DEF DeliverRemote, groupVars, callerVars
<1>11. ASSUME NEW i \in Node, DeliverOwn(i)
       PROVE  FulfilledFits'
    <2>1. CASE UNCHANGED callerVars  BY <2>1, <1>u
    <2>2. CASE ~ UNCHANGED callerVars
        <3>1. /\ toFulfillQueue[i] # <<>> /\ Fulfil(i, FrontPending(i), members(i))
              /\ toFulfillQueue' = [toFulfillQueue EXCEPT ![i] = Tail(toFulfillQueue[i])]
            BY <1>11, <2>2 DEF DeliverOwn
        <3>2. PICK c : c = FrontPending(i)  OBVIOUS
        <3>3. toFulfillQueue[i] \in Seq(Call)  BY <1>t
        <3>4. c \in Call /\ c \in Range(toFulfillQueue[i])
            <4>1. c = toFulfillQueue[i][1] /\ 1 \in DOMAIN toFulfillQueue[i]
                BY <3>1, <3>2, <3>3 DEF FrontPending
            <4> QED  BY <3>3, <4>1 DEF Range
        <3>5. c \in DOMAIN calls /\ calls[c].caller = i  BY <3>4, <1>a
        <3>6. members(i) \subseteq First \cup Second /\ members(i) \subseteq Node
            BY MembersType DEF IInv
        <3>7. Range(Tail(toFulfillQueue[i])) \subseteq Range(toFulfillQueue[i])
            <4> DEFINE s == toFulfillQueue[i]
            <4>1. s \in Seq(Call) /\ s # <<>>  BY <3>1, <3>3
            <4> HIDE DEF s
            <4>2. \A n \in DOMAIN Tail(s) : n + 1 \in DOMAIN s /\ Tail(s)[n] = s[n + 1]
                BY <4>1, HeadTailProperties
            <4>3. Range(Tail(s)) \subseteq Range(s)  BY <4>2 DEF Range
            <4> QED  BY <4>3 DEF s
        <3>8. \A k \in Node : Range(toFulfillQueue'[k]) \subseteq Range(toFulfillQueue[k])
            BY <3>1, <3>7, <1>t
        <3> QED  BY <3>1, <3>2, <3>4, <3>5, <3>6, <3>8, <1>a, <1>g, FulfilFits
    <2> QED  BY <2>1, <2>2
<1>12. ASSUME NEW i \in Node, NEW j \in Node, RpcRequest(i, j)
       PROVE  FulfilledFits'
    BY <1>12, <1>u DEF RpcRequest, groupVars, callerVars
<1>13. ASSUME NEW i \in Node, NEW j \in Node, RpcAnswer(i, j)
       PROVE  FulfilledFits'
    BY <1>13, <1>u DEF RpcAnswer, groupVars, callerVars
<1>14. ASSUME NEW i \in Node, NEW j \in Node, SendObjects(i, j)
       PROVE  FulfilledFits'
    BY <1>14, <1>u DEF SendObjects, groupVars, callerVars
<1>15. ASSUME NEW i \in Node, Cleanup(i)
       PROVE  FulfilledFits'
    BY <1>15, <1>u DEF Cleanup, groupVars, callerVars
<1>16. ASSUME NEW i \in Node, InstallView(i)
       PROVE  FulfilledFits'
    BY <1>16, <1>u DEF InstallView, groupVars, callerVars
<1>17. ASSUME NEW i \in Node, ViewUpcall(i)
       PROVE  FulfilledFits'
    BY <1>17, <1>u DEF ViewUpcall, groupVars, callerVars
<1>18. ASSUME LeaderCleanup
       PROVE  FulfilledFits'
    BY <1>18, <1>u DEF LeaderCleanup, groupVars, callerVars
<1>19. CASE UNCHANGED vars
    BY <1>19, <1>u DEF vars, groupVars, callerVars
<1> QED
    BY <1>1, <1>2, <1>3, <1>4, <1>5, <1>6, <1>7, <1>8, <1>9, <1>10,
       <1>11, <1>12, <1>13, <1>14, <1>15, <1>16, <1>17, <1>18, <1>19
    DEF Next, Environment, Threads

EndsChange(k) ==
    view'[k] = 2 /\ phase'[k] = "running" =>
        view[k] = 2 /\ (phase[k] = "running" \/ ViewUpcall(k))

\* A view change ends with the view upcall.
LEMMA ChangeEnds ==
    ASSUME IInv, [Next]_vars
    PROVE  \A k \in Node : EndsChange(k)
<1>t. view \in [Node -> {1, 2}] /\ phase \in [Node -> Phase]
    BY DEF IInv, TypeOK
<1>u. ASSUME UNCHANGED <<view, phase>>
      PROVE  \A k \in Node : EndsChange(k)
    BY <1>u DEF EndsChange
<1>1. ASSUME NEW i \in Callers, NEW nodes \in Targets, GetBuffer(i, nodes)
      PROVE  \A k \in Node : EndsChange(k)
    BY <1>1, <1>u DEF GetBuffer, groupVars, callerVars
<1>2. ASSUME NEW i \in Callers, NEW j \in Node \ {i}, P2pWrite(i, j)
      PROVE  \A k \in Node : EndsChange(k)
    BY <1>2, <1>u DEF P2pWrite, groupVars, callerVars
<1>3. ASSUME NEW i \in Node, Crash(i)
      PROVE  \A k \in Node : EndsChange(k)
    BY <1>3, <1>u DEF Crash, groupVars, callerVars
<1>4. ASSUME NEW i \in Node, Wedge(i)
      PROVE  \A k \in Node : EndsChange(k)
    BY <1>4, <1>t DEF Wedge, EndsChange
<1>5. ASSUME NEW i \in Callers, SendCall(i)
      PROVE  \A k \in Node : EndsChange(k)
    BY <1>5, <1>u DEF SendCall, groupVars, callerVars
<1>6. ASSUME NEW i \in Callers, SendSpins(i)
      PROVE  \A k \in Node : EndsChange(k)
    BY <1>6, <1>u DEF SendSpins, groupVars, callerVars
<1>7. ASSUME NEW i \in Callers, PushPending(i)
      PROVE  \A k \in Node : EndsChange(k)
    BY <1>7, <1>u DEF PushPending, groupVars, callerVars
<1>8. ASSUME NEW i \in Callers, P2pPush(i)
      PROVE  \A k \in Node : EndsChange(k)
    BY <1>8, <1>u DEF P2pPush, groupVars, callerVars
<1>9. ASSUME NEW i \in Node, PassOver(i)
      PROVE  \A k \in Node : EndsChange(k)
    BY <1>9, <1>u DEF PassOver, groupVars, callerVars
<1>10. ASSUME NEW i \in Node, DeliverRemote(i)
       PROVE  \A k \in Node : EndsChange(k)
    BY <1>10, <1>u DEF DeliverRemote, groupVars, callerVars
<1>11. ASSUME NEW i \in Node, DeliverOwn(i)
       PROVE  \A k \in Node : EndsChange(k)
    BY <1>11, <1>u DEF DeliverOwn, groupVars, callerVars
<1>12. ASSUME NEW i \in Node, NEW j \in Node, RpcRequest(i, j)
       PROVE  \A k \in Node : EndsChange(k)
    BY <1>12, <1>u DEF RpcRequest, groupVars, callerVars
<1>13. ASSUME NEW i \in Node, NEW j \in Node, RpcAnswer(i, j)
       PROVE  \A k \in Node : EndsChange(k)
    BY <1>13, <1>u DEF RpcAnswer, groupVars, callerVars
<1>14. ASSUME NEW i \in Node, NEW j \in Node, SendObjects(i, j)
       PROVE  \A k \in Node : EndsChange(k)
    BY <1>14, <1>t DEF SendObjects, EndsChange
<1>15. ASSUME NEW i \in Node, Cleanup(i)
       PROVE  \A k \in Node : EndsChange(k)
    BY <1>15, <1>t DEF Cleanup, EndsChange
<1>16. ASSUME NEW i \in Node, InstallView(i)
       PROVE  \A k \in Node : EndsChange(k)
    BY <1>16, <1>t DEF InstallView, EndsChange
<1>17. ASSUME NEW i \in Node, ViewUpcall(i)
       PROVE  \A k \in Node : EndsChange(k)
    <2>1. /\ phase' = [phase EXCEPT ![i] = "running"] /\ view' = view /\ phase[i] = "installed"
        BY <1>17 DEF ViewUpcall
    <2>2. view[i] = 2  BY <2>1, <1>t DEF IInv, PhasesFit
    <2> QED  BY <1>17, <2>1, <2>2, <1>t DEF EndsChange
<1>18. ASSUME LeaderCleanup
       PROVE  \A k \in Node : EndsChange(k)
    BY <1>18, <1>u DEF LeaderCleanup, groupVars, callerVars
<1>19. CASE UNCHANGED vars
    BY <1>19, <1>u DEF vars, groupVars, callerVars
<1> QED
    BY <1>1, <1>2, <1>3, <1>4, <1>5, <1>6, <1>7, <1>8, <1>9, <1>10,
       <1>11, <1>12, <1>13, <1>14, <1>15, <1>16, <1>17, <1>18, <1>19
    DEF Next, Environment, Threads

LEMMA CallsOrDests ==
    ASSUME IInv, [Next]_vars
    PROVE  calls' = calls \/ dest_nodes' = dest_nodes
<1>u. ASSUME UNCHANGED calls
      PROVE  calls' = calls \/ dest_nodes' = dest_nodes
    BY <1>u
<1>1. ASSUME NEW i \in Callers, NEW nodes \in Targets, GetBuffer(i, nodes)
      PROVE  calls' = calls \/ dest_nodes' = dest_nodes
    BY <1>1 DEF GetBuffer, callerVars
<1>2. ASSUME NEW i \in Callers, NEW j \in Node \ {i}, P2pWrite(i, j)
      PROVE  calls' = calls \/ dest_nodes' = dest_nodes
    BY <1>2 DEF P2pWrite, callerVars
<1>3. ASSUME NEW i \in Node, Crash(i)
      PROVE  calls' = calls \/ dest_nodes' = dest_nodes
    BY <1>3, <1>u DEF Crash, groupVars, callerVars
<1>4. ASSUME NEW i \in Node, Wedge(i)
      PROVE  calls' = calls \/ dest_nodes' = dest_nodes
    BY <1>4, <1>u DEF Wedge, groupVars, callerVars
<1>5. ASSUME NEW i \in Callers, SendCall(i)
      PROVE  calls' = calls \/ dest_nodes' = dest_nodes
    BY <1>5, <1>u DEF SendCall, groupVars, callerVars
<1>6. ASSUME NEW i \in Callers, SendSpins(i)
      PROVE  calls' = calls \/ dest_nodes' = dest_nodes
    BY <1>6, <1>u DEF SendSpins, groupVars, callerVars
<1>7. ASSUME NEW i \in Callers, PushPending(i)
      PROVE  calls' = calls \/ dest_nodes' = dest_nodes
    BY <1>7, <1>u DEF PushPending, groupVars, callerVars
<1>8. ASSUME NEW i \in Callers, P2pPush(i)
      PROVE  calls' = calls \/ dest_nodes' = dest_nodes
    BY <1>8, <1>u DEF P2pPush, groupVars, callerVars
<1>9. ASSUME NEW i \in Node, PassOver(i)
      PROVE  calls' = calls \/ dest_nodes' = dest_nodes
    BY <1>9, <1>u DEF PassOver, groupVars, callerVars
<1>10. ASSUME NEW i \in Node, DeliverRemote(i)
       PROVE  calls' = calls \/ dest_nodes' = dest_nodes
    BY <1>10, <1>u DEF DeliverRemote, groupVars, callerVars
<1>11. ASSUME NEW i \in Node, DeliverOwn(i)
       PROVE  calls' = calls \/ dest_nodes' = dest_nodes
    BY <1>11, <1>u DEF DeliverOwn, groupVars, callerVars
<1>12. ASSUME NEW i \in Node, NEW j \in Node, RpcRequest(i, j)
       PROVE  calls' = calls \/ dest_nodes' = dest_nodes
    BY <1>12, <1>u DEF RpcRequest, groupVars, callerVars
<1>13. ASSUME NEW i \in Node, NEW j \in Node, RpcAnswer(i, j)
       PROVE  calls' = calls \/ dest_nodes' = dest_nodes
    BY <1>13, <1>u DEF RpcAnswer, groupVars, callerVars
<1>14. ASSUME NEW i \in Node, NEW j \in Node, SendObjects(i, j)
       PROVE  calls' = calls \/ dest_nodes' = dest_nodes
    BY <1>14, <1>u DEF SendObjects, groupVars, callerVars
<1>15. ASSUME NEW i \in Node, Cleanup(i)
       PROVE  calls' = calls \/ dest_nodes' = dest_nodes
    BY <1>15, <1>u DEF Cleanup, groupVars, callerVars
<1>16. ASSUME NEW i \in Node, InstallView(i)
       PROVE  calls' = calls \/ dest_nodes' = dest_nodes
    BY <1>16, <1>u DEF InstallView, groupVars, callerVars
<1>17. ASSUME NEW i \in Node, ViewUpcall(i)
       PROVE  calls' = calls \/ dest_nodes' = dest_nodes
    BY <1>17, <1>u DEF ViewUpcall, groupVars, callerVars
<1>18. ASSUME LeaderCleanup
       PROVE  calls' = calls \/ dest_nodes' = dest_nodes
    BY <1>18, <1>u DEF LeaderCleanup, groupVars, callerVars
<1>19. CASE UNCHANGED vars
    BY <1>19, <1>u DEF vars, groupVars, callerVars
<1> QED
    BY <1>1, <1>2, <1>3, <1>4, <1>5, <1>6, <1>7, <1>8, <1>9, <1>10,
       <1>11, <1>12, <1>13, <1>14, <1>15, <1>16, <1>17, <1>18, <1>19
    DEF Next, Environment, Threads

NewDest(c) ==
    view[calls[c].caller] = 2 => \A n \in dest_nodes'[c] : n \in dest_nodes[c] \cup Second

\* In the second view nobody else than its members is asked to answer.
LEMMA DestsGrow ==
    ASSUME IInv, [Next]_vars
    PROVE  \A c \in GroupCalls : NewDest(c)
<1>t. dest_nodes \in [Call -> SUBSET Node] /\ GroupCalls \subseteq Call
    BY CallsType DEF IInv, TypeOK
<1>u. ASSUME UNCHANGED dest_nodes
      PROVE  \A c \in GroupCalls : NewDest(c)
    BY <1>u DEF NewDest
<1>1. ASSUME NEW i \in Callers, NEW nodes \in Targets, GetBuffer(i, nodes)
      PROVE  \A c \in GroupCalls : NewDest(c)
    BY <1>1, <1>u DEF GetBuffer, groupVars, callerVars
<1>2. ASSUME NEW i \in Callers, NEW j \in Node \ {i}, P2pWrite(i, j)
      PROVE  \A c \in GroupCalls : NewDest(c)
    BY <1>2, <1>u DEF P2pWrite, groupVars, callerVars
<1>3. ASSUME NEW i \in Node, Crash(i)
      PROVE  \A c \in GroupCalls : NewDest(c)
    BY <1>3, <1>u DEF Crash, groupVars, callerVars
<1>4. ASSUME NEW i \in Node, Wedge(i)
      PROVE  \A c \in GroupCalls : NewDest(c)
    BY <1>4, <1>u DEF Wedge, groupVars, callerVars
<1>5. ASSUME NEW i \in Callers, SendCall(i)
      PROVE  \A c \in GroupCalls : NewDest(c)
    BY <1>5, <1>u DEF SendCall, groupVars, callerVars
<1>6. ASSUME NEW i \in Callers, SendSpins(i)
      PROVE  \A c \in GroupCalls : NewDest(c)
    BY <1>6, <1>u DEF SendSpins, groupVars, callerVars
<1>7. ASSUME NEW i \in Callers, PushPending(i)
      PROVE  \A c \in GroupCalls : NewDest(c)
    <2>1. PICK d : d = app[i].call  OBVIOUS
    <2>2. i \in Node /\ d \in Call  BY <1>7, <2>1, CallsType, BusyCall DEF PushPending, IInv
    <2>3. CASE ToGroup(d)  BY <1>7, <2>1, <2>3 DEF PushPending, NewDest
    <2>4. CASE ~ ToGroup(d)
        <3>1. Fulfil(i, d, calls[d].nodes)  BY <1>7, <2>1, <2>4 DEF PushPending
        <3>2. \A c \in GroupCalls : dest_nodes'[c] = dest_nodes[c]
            BY <2>4, <3>1, <1>t DEF Fulfil, ToGroup
        <3> QED  BY <3>2 DEF NewDest
    <2> QED  BY <2>3, <2>4
<1>8. ASSUME NEW i \in Callers, P2pPush(i)
      PROVE  \A c \in GroupCalls : NewDest(c)
    <2>1. PICK d : d = app[i].call  OBVIOUS
    <2>2. i \in Node /\ d \in Call  BY <1>8, <2>1, CallsType, BusyCall DEF P2pPush, IInv
    <2>3. d \notin GroupCalls  BY <1>8, <2>1, <2>2 DEF P2pPush, IInv, AppFits, ToGroup
    <2>4. CASE dest_nodes' = dest_nodes  BY <2>4 DEF NewDest
    <2>5. CASE Fulfil(i, d, calls[d].nodes)
        <3>2. \A c \in GroupCalls : dest_nodes'[c] = dest_nodes[c]
            BY <2>3, <2>5, <1>t DEF Fulfil
        <3> QED  BY <3>2 DEF NewDest
    <2> QED  BY <1>8, <2>1, <2>4, <2>5 DEF P2pPush
<1>9. ASSUME NEW i \in Node, PassOver(i)
      PROVE  \A c \in GroupCalls : NewDest(c)
    BY <1>9, <1>u DEF PassOver, groupVars, callerVars
<1>10. ASSUME NEW i \in Node, DeliverRemote(i)
       PROVE  \A c \in GroupCalls : NewDest(c)
    BY <1>10, <1>u DEF DeliverRemote, groupVars, callerVars
<1>11. ASSUME NEW i \in Node, DeliverOwn(i)
       PROVE  \A c \in GroupCalls : NewDest(c)
    <2>1. CASE UNCHANGED callerVars  BY <2>1 DEF NewDest, callerVars
    <2>2. CASE ~ UNCHANGED callerVars
        <3>1. toFulfillQueue[i] # <<>> /\ Fulfil(i, FrontPending(i), members(i))
            BY <1>11, <2>2 DEF DeliverOwn
        <3>2. PICK d : d = FrontPending(i)  OBVIOUS
        <3>3. toFulfillQueue[i] \in Seq(Call)  BY DEF IInv, TypeOK
        <3>4. d \in Call /\ d \in Range(toFulfillQueue[i])
            <4>1. d = toFulfillQueue[i][1] /\ 1 \in DOMAIN toFulfillQueue[i]
                BY <3>1, <3>2, <3>3 DEF FrontPending
            <4> QED  BY <3>3, <4>1 DEF Range
        <3>5. calls[d].caller = i  BY <3>4 DEF IInv, FulfilledFits, CallsOf
        <3>6. view[i] = 2 => members(i) = Second
            BY DEF IInv, PhasesFit, members, Second
        <3>7. \A c \in GroupCalls :
                  \/ dest_nodes'[c] = dest_nodes[c]
                  \/ c = d /\ dest_nodes'[c] = dest_nodes[c] \cup members(i)
            BY <3>1, <3>2, <3>4, <1>t DEF Fulfil
        <3> QED  BY <3>5, <3>6, <3>7 DEF NewDest
    <2> QED  BY <2>1, <2>2
<1>12. ASSUME NEW i \in Node, NEW j \in Node, RpcRequest(i, j)
       PROVE  \A c \in GroupCalls : NewDest(c)
    BY <1>12, <1>u DEF RpcRequest, groupVars, callerVars
<1>13. ASSUME NEW i \in Node, NEW j \in Node, RpcAnswer(i, j)
       PROVE  \A c \in GroupCalls : NewDest(c)
    BY <1>13, <1>u DEF RpcAnswer, groupVars, callerVars
<1>14. ASSUME NEW i \in Node, NEW j \in Node, SendObjects(i, j)
       PROVE  \A c \in GroupCalls : NewDest(c)
    BY <1>14, <1>u DEF SendObjects, groupVars, callerVars
<1>15. ASSUME NEW i \in Node, Cleanup(i)
       PROVE  \A c \in GroupCalls : NewDest(c)
    BY <1>15, <1>u DEF Cleanup, groupVars, callerVars
<1>16. ASSUME NEW i \in Node, InstallView(i)
       PROVE  \A c \in GroupCalls : NewDest(c)
    BY <1>16, <1>u DEF InstallView, groupVars, callerVars
<1>17. ASSUME NEW i \in Node, ViewUpcall(i)
       PROVE  \A c \in GroupCalls : NewDest(c)
    BY <1>17, <1>u DEF ViewUpcall, groupVars, callerVars
<1>18. ASSUME LeaderCleanup
       PROVE  \A c \in GroupCalls : NewDest(c)
    BY <1>18, <1>u DEF LeaderCleanup, groupVars, callerVars
<1>19. CASE UNCHANGED vars
    BY <1>19, <1>u DEF vars, groupVars, callerVars
<1> QED
    BY <1>1, <1>2, <1>3, <1>4, <1>5, <1>6, <1>7, <1>8, <1>9, <1>10,
       <1>11, <1>12, <1>13, <1>14, <1>15, <1>16, <1>17, <1>18, <1>19
    DEF Next, Environment, Threads

LEMMA AnswersStep ==
    ASSUME IInv, [Next]_vars
    PROVE  AnswersFit'
<1> SUFFICES ASSUME NEW k \in Node, view'[k] = 2, phase'[k] = "running",
                    NEW c \in fulfilledList'[k], c \in GroupCalls',
                    NEW n \in dest_nodes'[c] \ Second'
             PROVE  outcomes'[c][n] # "none"
    BY DEF AnswersFit, ToGroup, Satisfied
<1>1. Second' = Second  BY MembersStay
<1>2. TypeOK' /\ FulfilledFits'  BY TypeStep, FulfilledStep
<1>3. c \in Call /\ dest_nodes'[c] \in SUBSET Node /\ c \in DOMAIN calls' /\ calls'[c].caller = k
    BY <1>2 DEF TypeOK, FulfilledFits, CallsOf
<1>4. n \in Node /\ n \notin Second  BY <1>1, <1>3
<1>5. outcomes[c][n] # "none" => outcomes'[c][n] # "none"
    BY <1>3, <1>4, OutcomeChanges DEF NewOutcome
<1>6. EndsChange(k)  BY ChangeEnds
<1>7. view[k] = 2 /\ (phase[k] = "running" \/ ViewUpcall(k))  BY <1>6 DEF EndsChange
<1>8. c \in DOMAIN calls
    <2>1. CASE phase[k] = "running" /\ dest_nodes' = dest_nodes
        BY <1>3, <2>1 DEF IInv, FulfilledFits
    <2>2. CASE ViewUpcall(k)  BY <1>3, <2>2 DEF ViewUpcall
    <2>3. CASE dest_nodes' # dest_nodes
        <3>1. calls' = calls  BY <2>3, CallsOrDests
        <3> QED  BY <1>3, <3>1
    <2> QED  BY <1>7, <2>1, <2>2, <2>3
<1>9. calls[c].caller = k /\ c \in GroupCalls  BY <1>3, <1>8, CallsStay, KindStays
<1>10. n \in dest_nodes[c]  BY <1>4, <1>7, <1>9, DestsGrow DEF NewDest
<1>11. c \in fulfilledList[k]  BY <1>3, <1>9, <1>10 DEF IInv, FulfilledFits
<1>12. CASE phase[k] = "running"
    <2>1. outcomes[c][n] # "none"
        BY <1>4, <1>7, <1>9, <1>10, <1>11, <1>12 DEF IInv, AnswersFit, ToGroup, Satisfied
    <2> QED  BY <1>5, <2>1
<1>13. CASE ViewUpcall(k)
    <2>1. n \in First  BY <1>4, <1>9, <1>10 DEF IInv, FulfilledFits
    <2>2. n \in RemovedMembers
        <3>1. Len(views) = 2  BY <1>7 DEF IInv, PhasesFit
        <3>2. views[1] \in Seq(Nat) /\ views[2] \in Seq(Nat)
            BY <3>1, ViewsType DEF IInv, TypeOK
        <3> QED  BY <1>4, <2>1, <3>1, <3>2, NothingMissed DEF First, Second, RemovedMembers
    <2>3. outcomes'[c][n] = IF Affected(k, c, n) THEN "removed" ELSE outcomes[c][n]
        BY <1>3, <1>4, <1>13 DEF ViewUpcall
    <2> QED  BY <1>10, <1>11, <2>2, <2>3 DEF Affected, Satisfied
<1> QED  BY <1>7, <1>12, <1>13

-----------------------------------------------------------------------------
(***************************************************************************)
(* What is over of a sequence, and what is yet to come of it.              *)
(***************************************************************************)
\* The first sequence comes first.
LEMMA ConcatParts ==
    ASSUME NEW U, NEW s \in Seq(U), NEW u \in Seq(U)
    PROVE  /\ s \o u \in Seq(U) /\ Len(s \o u) = Len(s) + Len(u)
           /\ \A k \in 1 .. Len(s) : (s \o u)[k] = s[k]
           /\ \A k \in 1 .. Len(u) : (s \o u)[Len(s) + k] = u[k]
<1>1. /\ s \o u \in Seq(U) /\ Len(s \o u) = Len(s) + Len(u)
      /\ \A k \in 1 .. Len(s) + Len(u) :
             (s \o u)[k] = IF k <= Len(s) THEN s[k] ELSE u[k - Len(s)]
    BY ConcatProperties
<1>2. Len(s) \in Nat /\ Len(u) \in Nat  OBVIOUS
<1> DEFINE m == Len(s)
           n == Len(u)
           r == s \o u
<1> HIDE DEF m, n, r
<1>3. \A k \in 1 .. m + n : r[k] = IF k <= m THEN s[k] ELSE u[k - m]
    BY <1>1 DEF m, n, r
<1>4. m \in Nat /\ n \in Nat  BY <1>2 DEF m, n
<1>5. \A k \in 1 .. m : k \in 1 .. m + n /\ k <= m  BY <1>4
<1>6. \A k \in 1 .. n : m + k \in 1 .. m + n /\ ~ (m + k <= m) /\ m + k - m = k  BY <1>4
<1>7. \A k \in 1 .. m : r[k] = s[k]  BY <1>3, <1>5
<1>8. \A k \in 1 .. n : r[m + k] = u[k]
    <2> TAKE k \in 1 .. n
    <2> DEFINE l == m + k
    <2>1. l \in 1 .. m + n /\ ~ (l <= m) /\ l - m = k  BY <1>4
    <2> HIDE DEF l
    <2>2. r[l] = u[k]  BY <1>3, <2>1
    <2> QED  BY <2>2 DEF l
<1> QED  BY <1>1, <1>7, <1>8 DEF m, n, r

LEMMA RestConcat ==
    ASSUME NEW U, NEW s \in Seq(U), NEW u \in Seq(U), NEW n \in 0 .. Len(s)
    PROVE  Rest(s \o u, n) = Rest(s, n) \o u
<1> DEFINE r == s \o u
           a == Rest(s, n)
           b == Rest(r, n)
           c == a \o u
           p == Len(s)
           q == Len(u)
<1>1. /\ r \in Seq(U) /\ Len(r) = p + q
      /\ \A k \in 1 .. p : r[k] = s[k]
      /\ \A k \in 1 .. q : r[p + k] = u[k]
    BY ConcatParts
<1>2. p \in Nat /\ q \in Nat /\ n \in Nat /\ n <= p  OBVIOUS
<1>3. /\ a \in Seq(U) /\ Len(a) = p - n
      /\ \A k \in 1 .. p - n : a[k] = s[n + k]
    BY RestType
<1> HIDE DEF r, a
<1>4. n \in 0 .. Len(r)
    <2> HIDE DEF p, q
    <2> QED  BY <1>1, <1>2
<1>5. /\ b \in Seq(U) /\ Len(b) = Len(r) - n
      /\ \A k \in 1 .. Len(r) - n : b[k] = r[n + k]
    <2>1. r \in Seq(U)  BY <1>1
    <2> HIDE DEF b, p, q, c
    <2>2. /\ Rest(r, n) \in Seq(U) /\ Len(Rest(r, n)) = Len(r) - n
          /\ \A k \in 1 .. Len(r) - n : Rest(r, n)[k] = r[n + k]
        BY <2>1, <1>4, RestType
    <2> QED  BY <2>2 DEF b
<1>6. /\ c \in Seq(U) /\ Len(c) = Len(a) + q
      /\ \A k \in 1 .. Len(a) : c[k] = a[k]
      /\ \A k \in 1 .. q : c[Len(a) + k] = u[k]
    <2>1. a \in Seq(U)  BY <1>3
    <2> QED  BY <2>1, ConcatParts
<1> HIDE DEF b, c, p, q
<1>7. Len(b) = p + q - n /\ Len(c) = p - n + q /\ Len(b) = Len(c)
    BY <1>1, <1>2, <1>3, <1>5, <1>6
<1>8. ASSUME NEW k \in 1 .. Len(b)
      PROVE  b[k] = c[k]
    <2>1. k \in Nat /\ k \in 1 .. p + q - n /\ b[k] = r[n + k]
        <3>1. k \in 1 .. p + q - n  BY <1>7
        <3>2. k \in Nat  BY <1>2, <3>1
        <3>3. b[k] = r[n + k]  BY <1>5, Zenon
        <3> QED  BY <3>1, <3>2, <3>3
    <2>2. CASE k \in 1 .. p - n
        <3>1. n + k \in 1 .. p  BY <1>2, <2>1, <2>2
        <3>2. b[k] = s[n + k]  BY <1>1, <2>1, <3>1
        <3>3. c[k] = s[n + k]  BY <1>3, <1>6, <2>2
        <3> QED  BY <3>2, <3>3
    <2>3. CASE k \notin 1 .. p - n
        <3> DEFINE j == k - (p - n)
        <3>1. j \in 1 .. q /\ p + j = n + k /\ p - n + j = k  BY <1>2, <2>1, <2>3
        <3> HIDE DEF j
        <3>2. b[k] = u[j]  BY <1>1, <2>1, <3>1
        <3>3. c[k] = u[j]  BY <1>3, <1>6, <3>1
        <3> QED  BY <3>2, <3>3
    <2> QED  BY <2>2, <2>3
<1>9. b = c  BY <1>5, <1>6, <1>7, <1>8, SeqEqual
<1> QED  BY <1>9 DEF a, b, c, r

LEMMA RestNext ==
    ASSUME NEW U, NEW s \in Seq(U), NEW n \in Nat, n < Len(s)
    PROVE  /\ n + 1 \in 0 .. Len(s) /\ n + 1 \in 1 .. Len(s) /\ n \in 0 .. Len(s)
           /\ Rest(s, n) = <<s[n + 1]>> \o Rest(s, n + 1)
<1> DEFINE e == s[n + 1]
           m == n + 1
           l == Len(s)
           a == Rest(s, m)
           b == Rest(s, n)
           h == <<e>>
           c == h \o a
<1>1. l \in Nat /\ n \in Nat /\ m \in 1 .. l /\ m \in 0 .. l /\ n \in 0 .. l
    OBVIOUS
<1>2. e \in U  BY <1>1
<1> HIDE DEF m
<1>3. /\ a \in Seq(U) /\ Len(a) = l - m
      /\ \A k \in 1 .. l - m : a[k] = s[m + k]
    BY <1>1, RestType
<1>4. /\ b \in Seq(U) /\ Len(b) = l - n
      /\ \A k \in 1 .. l - n : b[k] = s[n + k]
    BY <1>1, RestType
<1>5. h \in Seq(U) /\ Len(h) = 1 /\ h[1] = e  BY <1>2
<1> HIDE DEF a, b, h
<1>6. /\ c \in Seq(U) /\ Len(c) = Len(h) + Len(a)
      /\ \A k \in 1 .. Len(h) : c[k] = h[k]
      /\ \A k \in 1 .. Len(a) : c[Len(h) + k] = a[k]
    <2>1. a \in Seq(U) /\ h \in Seq(U)  BY <1>3, <1>5
    <2> QED  BY <2>1, ConcatParts
<1> HIDE DEF c, e, l
<1>7. Len(c) = l - n /\ Len(b) = Len(c)  BY <1>1, <1>3, <1>4, <1>5, <1>6 DEF m
<1>8. ASSUME NEW k \in 1 .. Len(b)
      PROVE  b[k] = c[k]
    <2>1. k \in Nat /\ k \in 1 .. l - n /\ b[k] = s[n + k]  BY <1>1, <1>4
    <2>2. CASE k = 1
        <3>1. b[k] = e  BY <2>1, <2>2 DEF e
        <3>2. 1 \in 1 .. 1  OBVIOUS
        <3>3. c[1] = h[1]  BY <1>5, <1>6, <3>2
        <3> QED  BY <1>5, <2>2, <3>1, <3>3
    <2>3. CASE k # 1
        <3> DEFINE j == k - 1
        <3>1. j \in 1 .. l - m /\ m + j = n + k /\ 1 + j = k
            BY <1>1, <2>1, <2>3 DEF m
        <3> HIDE DEF j
        <3>2. b[k] = s[m + j]  BY <2>1, <3>1
        <3>3. a[j] = s[m + j]  BY <1>3, <3>1
        <3>4. c[k] = a[j]  BY <1>3, <1>5, <1>6, <3>1
        <3> QED  BY <3>2, <3>3, <3>4
    <2> QED  BY <2>2, <2>3
<1>9. b = c  BY <1>4, <1>6, <1>7, <1>8, SeqEqual
<1> QED  BY <1>1, <1>9 DEF a, b, c, e, h, l, m

LEMMA RestNothing ==
    ASSUME NEW U, NEW s \in Seq(U)
    PROVE  Rest(s, 0) = s
<1> DEFINE r == Rest(s, 0)
<1>1. Len(s) \in Nat /\ 0 \in 0 .. Len(s) /\ Len(s) - 0 = Len(s)
      /\ \A k \in 1 .. Len(s) : 0 + k = k
    OBVIOUS
<1>2. r \in Seq(U) /\ Len(r) = Len(s) - 0 /\ \A k \in 1 .. Len(s) - 0 : r[k] = s[0 + k]
    BY <1>1, RestType
<1> HIDE DEF r
<1>3. Len(r) = Len(s) /\ \A k \in 1 .. Len(r) : r[k] = s[k]  BY <1>1, <1>2
<1>4. r = s  BY <1>2, <1>3, SeqEqual
<1> QED  BY <1>4 DEF r

LEMMA UptoNext ==
    ASSUME NEW U, NEW s \in Seq(U), NEW n \in 0 .. Len(s) - 1
    PROVE  Upto(s, n + 1) = Append(Upto(s, n), s[n + 1])
<1> DEFINE e == s[n + 1]
           a == Upto(s, n)
           b == Upto(s, n + 1)
           c == Append(a, e)
<1>1. Len(s) \in Nat /\ n \in Nat /\ n + 1 \in 1 .. Len(s) /\ n + 1 \in 0 .. Len(s) /\ n \in 0 .. Len(s)
    OBVIOUS
<1>2. e \in U  BY <1>1
<1>3. a \in Seq(U) /\ Len(a) = n /\ \A k \in 1 .. n : a[k] = s[k]  BY <1>1, UptoType
<1>4. b \in Seq(U) /\ Len(b) = n + 1 /\ \A k \in 1 .. n + 1 : b[k] = s[k]  BY <1>1, UptoType
<1> HIDE DEF a, b, e
<1>5. /\ c \in Seq(U) /\ Len(c) = Len(a) + 1 /\ c[Len(a) + 1] = e
      /\ \A k \in 1 .. Len(a) : c[k] = a[k]
    BY <1>2, <1>3, AppendProperties
<1> HIDE DEF c
<1>6. \A k \in 1 .. Len(b) : b[k] = c[k]
    <2>1. \A k \in 1 .. n + 1 : k \in 1 .. n \/ k = n + 1  BY <1>1
    <2> QED  BY <1>3, <1>4, <1>5, <2>1 DEF e
<1>7. b = c  BY <1>3, <1>4, <1>5, <1>6, SeqEqual
<1> QED  BY <1>7 DEF a, b, c, e

LEMMA UptoExtends ==
    ASSUME NEW U, NEW s \in Seq(U), NEW r \in Seq(U), NEW n \in 0 .. Len(s), Extends(r, s)
    PROVE  Upto(r, n) = Upto(s, n)
<1>1. n \in Nat /\ Len(s) \in Nat /\ n <= Len(s) /\ Len(r) \in Nat  OBVIOUS
<1>2. n \in 0 .. Len(r)
    <2>1. CASE Len(s) = 0  BY <1>1, <2>1
    <2>2. CASE Len(s) # 0
        <3>1. Len(s) \in 1 .. Len(s)  BY <1>1, <2>2
        <3>2. Len(s) \in 1 .. Len(r)  BY <3>1 DEF Extends
        <3> QED  BY <1>1, <3>2
    <2> QED  BY <2>1, <2>2
<1>3. Upto(s, n) \in Seq(U) /\ Len(Upto(s, n)) = n /\ \A k \in 1 .. n : Upto(s, n)[k] = s[k]
    BY UptoType
<1>4. Upto(r, n) \in Seq(U) /\ Len(Upto(r, n)) = n /\ \A k \in 1 .. n : Upto(r, n)[k] = r[k]
    BY <1>2, UptoType
<1>5. \A k \in 1 .. n : r[k] = s[k]
    <2>1. \A k \in 1 .. n : k \in 1 .. Len(s)  BY <1>1
    <2> QED  BY <2>1 DEF Extends
<1> QED  BY <1>3, <1>4, <1>5, SeqEqual, SMTT(40)

LEMMA UptoNone ==
    ASSUME NEW U, NEW s \in Seq(U)
    PROVE  Upto(s, 0) = <<>>
<1>1. 0 \in 0 .. Len(s)  OBVIOUS
<1>2. Upto(s, 0) \in Seq(U) /\ Len(Upto(s, 0)) = 0  BY <1>1, UptoType
<1> QED  BY <1>2

-----------------------------------------------------------------------------
(***************************************************************************)
(* The front of toFulfillQueue.                                            *)
(***************************************************************************)
LEMMA SelectOne ==
    ASSUME NEW U, NEW e \in U, NEW S
    PROVE  Select(<<e>>, S) = IF e \in S THEN <<e>> ELSE <<>>
<1> DEFINE s == <<>>
<1>1. s \in Seq(U)  OBVIOUS
<1>2. Select(s, S) = <<>>  BY SelectEmpty
<1>3. Append(s, e) = <<e>> /\ Append(<<>>, e) = <<e>>  OBVIOUS
<1> HIDE DEF s
<1>4. Select(Append(s, e), S) = IF e \in S THEN Append(Select(s, S), e) ELSE Select(s, S)
    BY <1>1, SelectAppend
<1> QED  BY <1>2, <1>3, <1>4

\* A sequence in two ways: q then p, and one element then x.
Fronts(q, p, h, x) == q # <<>> /\ Len(h) = 1 /\ q \o p = h \o x

\* What comes first is the front.
LEMMA FrontOf ==
    ASSUME NEW U, NEW q \in Seq(U), NEW p \in Seq(U), NEW x \in Seq(U), NEW h \in Seq(U),
           Fronts(q, p, h, x)
    PROVE  Head(q) = h[1] /\ Tail(q) \in Seq(U) /\ Tail(q) \o p = x
<1>q. q # <<>>  BY DEF Fronts
<1> DEFINE e == h[1]
           r == Tail(q)
           m == Len(q)
           a == q \o p
           b == h \o x
           c == r \o p
<1>1. h \in Seq(U) /\ h[1] = e  OBVIOUS
<1>2. /\ m \in Nat /\ m >= 1 /\ r \in Seq(U) /\ Len(r) = m - 1
      /\ \A k \in 1 .. m - 1 : r[k] = q[k + 1]
      /\ Head(q) = q[1]
    BY <1>q
<1>3. /\ a \in Seq(U) /\ Len(a) = m + Len(p)
      /\ \A k \in 1 .. m : a[k] = q[k]
      /\ \A k \in 1 .. Len(p) : a[m + k] = p[k]
    BY ConcatParts
<1> HIDE DEF r, e
<1>4. /\ b \in Seq(U) /\ Len(b) = Len(h) + Len(x)
      /\ \A k \in 1 .. Len(h) : b[k] = h[k]
      /\ \A k \in 1 .. Len(x) : b[Len(h) + k] = x[k]
    <2>1. h \in Seq(U)  BY <1>1
    <2> QED  BY <2>1, ConcatParts
<1>5. /\ c \in Seq(U) /\ Len(c) = Len(r) + Len(p)
      /\ \A k \in 1 .. Len(r) : c[k] = r[k]
      /\ \A k \in 1 .. Len(p) : c[Len(r) + k] = p[k]
    <2>1. r \in Seq(U)  BY <1>2
    <2> QED  BY <2>1, ConcatParts
<1>7. Len(p) \in Nat /\ Len(x) \in Nat  OBVIOUS
<1> HIDE DEF a, b, c, m
<1>6. Len(h) = 1 /\ a = b  BY DEF Fronts, a, b
<1>8. Head(q) = e
    <2>1. 1 \in 1 .. m /\ 1 \in 1 .. 1  BY <1>2
    <2> QED  BY <2>1, <1>1, <1>2, <1>3, <1>4, <1>6
<1>9. Len(c) = Len(x)
    <2>1. Len(c) = m - 1 + Len(p)  BY <1>2, <1>5
    <2>2. m + Len(p) = 1 + Len(x)  BY <1>3, <1>4, <1>6
    <2> QED  BY <2>1, <2>2, <1>2, <1>7
<1>10. ASSUME NEW k \in 1 .. Len(c)
       PROVE  c[k] = x[k]
    <2>1. k \in 1 .. Len(x) /\ b[1 + k] = x[k]  BY <1>1, <1>4, <1>6, <1>9
    <2>2. k \in 1 .. m - 1 + Len(p) /\ k \in Nat  BY <1>2, <1>5, <1>7
    <2>3. CASE k \in 1 .. m - 1
        <3>1. k + 1 \in 1 .. m /\ k + 1 = 1 + k  BY <1>2, <2>3
        <3>2. c[k] = q[k + 1]  BY <1>2, <1>5, <2>3
        <3> QED  BY <1>3, <1>6, <2>1, <3>1, <3>2
    <2>4. CASE k \notin 1 .. m - 1
        <3> DEFINE j == k - (m - 1)
        <3>1. j \in 1 .. Len(p) /\ m - 1 + j = k /\ m + j = 1 + k  BY <1>2, <1>7, <2>2, <2>4
        <3> HIDE DEF j
        <3>2. c[k] = p[j]  BY <1>2, <1>5, <3>1
        <3>3. a[1 + k] = p[j]  BY <1>3, <3>1
        <3> QED  BY <1>6, <2>1, <3>2, <3>3
    <2> QED  BY <2>3, <2>4
<1>11. c = x  BY <1>5, <1>9, <1>10, SeqEqual
<1> QED  BY <1>2, <1>8, <1>11 DEF c, e, r

QueueFits(k) ==
    Running(k) =>
        toFulfillQueue[k] \o Select(Pushing(k), OwnGroupCalls(k))
            = PassedOver(k) \o Select(Coming(k), OwnGroupCalls(k))

LEMMA QueueType ==
    ASSUME IInv, NEW k \in Node
    PROVE  /\ toFulfillQueue[k] \in Seq(Call)
           /\ Pushing(k) \in Seq(Call) /\ Coming(k) \in Seq(Call)
           /\ \A n \in 1 .. Len(Pushing(k)) : Pushing(k)[n] \in DOMAIN calls
           /\ \A n \in 1 .. Len(Coming(k)) : Coming(k)[n] \in DOMAIN calls
           /\ Coming(k) = Rest(order[view[k]], delivered[k])
           /\ delivered[k] \in 0 .. Len(order[view[k]])
<1>1. /\ view[k] \in 1 .. 2 /\ order[view[k]] \in Seq(Call)
      /\ delivered[k] \in Nat /\ Len(order[view[k]]) \in Nat
      /\ toFulfillQueue[k] \in Seq(Call)
    BY OrderType DEF IInv, TypeOK
<1>2. delivered[k] \in 0 .. Len(order[view[k]])  BY <1>1 DEF IInv, OrdersFit
<1>3. /\ Rest(order[view[k]], delivered[k]) \in Seq(Call)
      /\ Range(Rest(order[view[k]], delivered[k])) \subseteq Range(order[view[k]])
    BY <1>1, <1>2, RestType
<1>4. Coming(k) = Rest(order[view[k]], delivered[k])  BY DEF Coming, Rest
<1>5. Range(order[view[k]]) \subseteq DOMAIN calls  BY <1>1 DEF IInv, OrdersFit, Sent
<1>6. \A n \in 1 .. Len(Coming(k)) : Coming(k)[n] \in DOMAIN calls
    <2>1. Coming(k) \in Seq(Call) /\ Range(Coming(k)) \subseteq DOMAIN calls
        BY <1>3, <1>4, <1>5
    <2> HIDE DEF Coming
    <2>2. DOMAIN Coming(k) = 1 .. Len(Coming(k))  BY <2>1
    <2> QED  BY <2>1, <2>2 DEF Range
<1>7. Pushing(k) \in Seq(Call) /\ \A n \in 1 .. Len(Pushing(k)) : Pushing(k)[n] \in DOMAIN calls
    <2>1. CASE app[k].pc = "sent"
        <3>1. app[k].call \in Call /\ app[k].call \in DOMAIN calls  BY <2>1, BusyCall
        <3>2. Pushing(k) = <<app[k].call>>  BY <2>1 DEF Pushing
        <3> QED  BY <3>1, <3>2
    <2>2. CASE app[k].pc # "sent"
        <3>1. Pushing(k) = <<>>  BY <2>2 DEF Pushing
        <3> QED  BY <3>1
    <2> QED  BY <2>1, <2>2
<1> QED  BY <1>1, <1>2, <1>3, <1>4, <1>6, <1>7

LEMMA OwnStays ==
    ASSUME IInv, [Next]_vars, NEW k \in Node, NEW s \in Seq(Call),
           \A n \in 1 .. Len(s) : s[n] \in DOMAIN calls
    PROVE  Select(s, OwnGroupCalls(k)') = Select(s, OwnGroupCalls(k))
<1>1. \A n \in 1 .. Len(s) : s[n] \in OwnGroupCalls(k)' <=> s[n] \in OwnGroupCalls(k)
    BY KindStays DEF OwnGroupCalls
<1> QED  BY <1>1, SelectSame

\* What a member has delivered, with the calls it names.
LEMMA PassedType ==
    ASSUME IInv, NEW k \in Node
    PROVE  /\ Passed(k) \in Seq(Call) /\ PassedOver(k) \in Seq(Call)
           /\ Len(Passed(k)) = delivered[k]
           /\ Passed(k) = Upto(order[view[k]], delivered[k])
           /\ \A n \in 1 .. delivered[k] :
                  /\ Passed(k)[n] = order[view[k]][n] /\ n \in 1 .. Len(order[view[k]])
                  /\ Passed(k)[n] \in DOMAIN calls
<1>1. /\ view[k] \in 1 .. 2 /\ order[view[k]] \in Seq(Call)
      /\ delivered[k] \in Nat /\ Len(order[view[k]]) \in Nat
      /\ delivered[k] \in 0 .. Len(order[view[k]])
    BY OrderType, QueueType DEF IInv
<1>2. Passed(k) = Upto(order[view[k]], delivered[k])  BY DEF Passed, Upto
<1>3. /\ Passed(k) \in Seq(Call) /\ Len(Passed(k)) = delivered[k]
      /\ \A n \in 1 .. delivered[k] : Passed(k)[n] = order[view[k]][n]
    <2> DEFINE s == order[view[k]]
               m == delivered[k]
    <2>1. s \in Seq(Call) /\ m \in 0 .. Len(s) /\ Passed(k) = Upto(s, m)  BY <1>1, <1>2
    <2> HIDE DEF s, m
    <2>2. /\ Upto(s, m) \in Seq(Call) /\ Len(Upto(s, m)) = m
          /\ \A n \in 1 .. m : Upto(s, m)[n] = s[n]
        BY <2>1, UptoType
    <2> QED  BY <2>1, <2>2 DEF s, m
<1>4. \A n \in 1 .. delivered[k] : n \in 1 .. Len(order[view[k]])  BY <1>1
<1>5. Range(order[view[k]]) \subseteq DOMAIN calls  BY <1>1 DEF IInv, OrdersFit, Sent
<1>6. \A n \in 1 .. Len(order[view[k]]) : order[view[k]][n] \in Range(order[view[k]])
    BY <1>1 DEF Range
<1>7. PassedOver(k) \in Seq(Call)  BY <1>3, SelectType DEF PassedOver
<1> QED  BY <1>2, <1>3, <1>4, <1>5, <1>6, <1>7

\* Nothing has been passed over before the cleanup or in the second view.
LEMMA NonePassedOver ==
    ASSUME IInv, NEW k \in Node, cut > MaxCalls \/ view[k] = 2
    PROVE  PassedOver(k) = <<>>
<1>1. \A c : ~ NotHere(k, c)  BY NothingMissing DEF NotHere
<1>2. \A n \in 1 .. Len(Passed(k)) : Passed(k)[n] \notin {c \in OwnGroupCalls(k) : NotHere(k, c)}
    BY <1>1
<1> QED  BY <1>2, PassedType, SelectNone DEF PassedOver

\* What a member has passed over remains so, and what it has received is not
\* missed in the cleanup.
LEMMA PassedOverStays ==
    ASSUME IInv, [Next]_vars, NEW k \in Node,
           view'[k] = view[k], delivered'[k] = delivered[k]
    PROVE  PassedOver(k)' = PassedOver(k)
<1> DEFINE v == view[k]
           s == order[v]
           r == order'[v]
           n == delivered[k]
           u == Passed(k)
           S == {c \in OwnGroupCalls(k) : NotHere(k, c)}
           T == {c \in OwnGroupCalls(k)' : NotHere(k, c)'}
<1>1. /\ v \in 1 .. 2 /\ s \in Seq(Call) /\ r \in Seq(Call) /\ n \in 0 .. Len(s)
    <2>1. TypeOK'  BY TypeStep DEF IInv
    <2> QED  BY <2>1, OrderType, QueueType DEF IInv, TypeOK
<1>2. Extends(r, s)
    <2>1. v = 1 \/ v = 2  BY <1>1
    <2> QED  BY <2>1, OrdersGrow
<1>3. Passed(k)' = u
    <2>1. Passed(k)' = Upto(r, n)  BY DEF Passed, Upto
    <2>2. u = Upto(s, n)  BY PassedType
    <2> HIDE DEF u, r, s, n
    <2> QED  BY <1>1, <1>2, <2>1, <2>2, UptoExtends
<1>4. u \in Seq(Call) /\ Len(u) = n
      /\ \A m \in 1 .. n : u[m] = s[m] /\ u[m] \in DOMAIN calls
    BY PassedType
<1>5. ASSUME NEW m \in 1 .. n
      PROVE  u[m] \in T <=> u[m] \in S
    <2>1. u[m] \in OwnGroupCalls(k)' <=> u[m] \in OwnGroupCalls(k)
        BY <1>4, KindStays DEF OwnGroupCalls
    <2>2. CASE UNCHANGED missing
        BY <2>1, <2>2 DEF NotHere
    <2>3. CASE LeaderCleanup
        <3>1. v = 1 /\ u[m] = order[1][m]  BY <2>3, <1>4, NothingMissing DEF LeaderCleanup
        <3>2. u[m] \notin Unseen(k) /\ u[m] \notin Unseen(k)'
            BY <2>3, <3>1, CleanupSpares
        <3> QED  BY <3>2 DEF Unseen, NotHere
    <2> QED  BY <2>2, <2>3, MissingStays
<1>6. PassedOver(k) = Select(u, S) /\ PassedOver(k)' = Select(u, T)
    BY <1>3 DEF PassedOver
<1> HIDE DEF u, S, T, n
<1>7. Select(u, T) = Select(u, S)
    <2>1. u \in Seq(Call) /\ \A m \in 1 .. Len(u) : u[m] \in T <=> u[m] \in S
        BY <1>4, <1>5
    <2> QED  BY <2>1, SelectSame
<1> QED  BY <1>6, <1>7

\* A delivery passes over what is not there.
LEMMA PassedOverNext ==
    ASSUME IInv, NEW i \in Node, Delivering(i), Counted(i),
           UNCHANGED <<view, order, calls, missing>>
    PROVE  PassedOver(i)' = IF NextCall(i) \in OwnGroupCalls(i) /\ NotHere(i, NextCall(i))
                            THEN Append(PassedOver(i), NextCall(i)) ELSE PassedOver(i)
<1> DEFINE s == order[view[i]]
           n == delivered[i]
           c == NextCall(i)
           u == Passed(i)
           S == {d \in OwnGroupCalls(i) : NotHere(i, d)}
<1>1. /\ s \in Seq(Call) /\ n \in 0 .. Len(s) - 1 /\ c \in Call /\ c = s[n + 1]
      /\ delivered'[i] = n + 1
    <2>1. s \in Seq(Call) /\ n \in Nat /\ Len(s) \in Nat  BY OrderType DEF IInv
    <2>2. n < Len(s)  BY DEF Delivering
    <2>3. delivered \in [Node -> 0 .. MaxCalls]  BY DEF IInv, TypeOK
    <2>4. delivered'[i] = n + 1  BY <2>3 DEF Counted
    <2>5. c \in Call /\ c = s[n + 1]  BY NextCallType DEF NextCall
    <2> QED  BY <2>1, <2>2, <2>4, <2>5
<1>2. u \in Seq(Call) /\ u = Upto(s, n)  BY PassedType
<1>3. Passed(i)' = Upto(s, n + 1)  BY <1>1 DEF Passed, Upto
<1>4. OwnGroupCalls(i)' = OwnGroupCalls(i)
    BY DEF OwnGroupCalls, CallsOf, GroupCalls
<1>5. {d \in OwnGroupCalls(i)' : NotHere(i, d)'} = S  BY <1>4 DEF NotHere
<1>6. PassedOver(i)' = Select(Upto(s, n + 1), S) /\ PassedOver(i) = Select(u, S)
    BY <1>3, <1>5 DEF PassedOver
<1>7. c \in S <=> c \in OwnGroupCalls(i) /\ NotHere(i, c)  OBVIOUS
<1> HIDE DEF s, n, c, u, S
<1>8. Upto(s, n + 1) = Append(u, c)  BY <1>1, <1>2, UptoNext
<1>9. Select(Append(u, c), S) = IF c \in S THEN Append(Select(u, S), c) ELSE Select(u, S)
    <2>1. u \in Seq(Call) /\ c \in Call  BY <1>1, <1>2
    <2> QED  BY <2>1, SelectAppend
<1> QED  BY <1>6, <1>7, <1>8, <1>9 DEF c

\* Who has received a call of its own has passed over none of its own before.
LEMMA NoneBefore ==
    ASSUME IInv, NEW i \in Node, Delivering(i), ~ NotHere(i, NextCall(i)),
           NextCall(i) \in OwnGroupCalls(i)
    PROVE  PassedOver(i) = <<>>
<1>1. CASE cut > MaxCalls \/ view[i] = 2  BY <1>1, NonePassedOver
<1>2. CASE ~ (cut > MaxCalls \/ view[i] = 2)
    <2>1. /\ cut <= MaxCalls /\ view[i] = 1 /\ cut \in Nat /\ delivered[i] \in Nat
        BY <1>2, CallsType DEF IInv, TypeOK
    <2>2. delivered[i] < cut
        <3>1. phase[i] # "running"  BY <1>2, <2>1, GoesOn DEF Delivering
        <3>2. phase[i] # "installed"  BY <2>1 DEF IInv, PhasesFit
        <3> QED  BY <3>1, <3>2 DEF Delivering
    <2> DEFINE q == delivered[i] + 1
    <2>3. q \in 1 .. cut /\ order[1][q] = NextCall(i) /\ \A p \in 1 .. delivered[i] : p \in 1 .. cut /\ p < q
        BY <2>1, <2>2 DEF NextCall
    <2>4. CutShort(missing[i], cut)  BY <2>1 DEF IInv, MissingFits
    <2> HIDE DEF q
    <2>5. ASSUME NEW p \in 1 .. delivered[i], order[1][p] \in OwnGroupCalls(i), NotHere(i, order[1][p])
          PROVE  FALSE
        <3>1. calls[order[1][p]].caller = i /\ calls[order[1][q]].caller = i
            BY <2>3, <2>5 DEF OwnGroupCalls, CallsOf
        <3>2. order[1][q] \in missing[i]  BY <2>3, <2>4, <2>5, <3>1 DEF CutShort, NotHere
        <3> QED  BY <2>1, <2>3, <3>2 DEF NotHere
    <2>6. \A n \in 1 .. Len(Passed(i)) : Passed(i)[n] \notin {c \in OwnGroupCalls(i) : NotHere(i, c)}
        BY <2>1, <2>5, PassedType
    <2> QED  BY <2>6, PassedType, SelectNone DEF PassedOver
<1> QED  BY <1>1, <1>2

\* A queue that fits does so as long as nothing of it changes.
LEMMA QueueStays ==
    ASSUME IInv, [Next]_vars, NEW k \in Node,
           toFulfillQueue'[k] = toFulfillQueue[k],
           view'[k] = view[k], delivered'[k] = delivered[k],
           Pushing(k)' = Pushing(k), Coming(k)' = Coming(k)
    PROVE  QueueFits(k)'
<1> SUFFICES ASSUME Running(k)'
             PROVE  toFulfillQueue'[k] \o Select(Pushing(k)', OwnGroupCalls(k)')
                        = PassedOver(k)' \o Select(Coming(k)', OwnGroupCalls(k)')
    BY DEF QueueFits
<1>1. Running(k)  BY RunningStays DEF Running
<1>2. toFulfillQueue[k] \o Select(Pushing(k), OwnGroupCalls(k))
          = PassedOver(k) \o Select(Coming(k), OwnGroupCalls(k))
    BY <1>1 DEF IInv, QueuesFit
<1>4. PassedOver(k)' = PassedOver(k)  BY PassedOverStays
<1>3. /\ Select(Pushing(k), OwnGroupCalls(k)') = Select(Pushing(k), OwnGroupCalls(k))
      /\ Select(Coming(k), OwnGroupCalls(k)') = Select(Coming(k), OwnGroupCalls(k))
    BY QueueType, OwnStays
<1> QED  BY <1>2, <1>3, <1>4

\* What a member delivers was the next of what was to come.
LEMMA ComingNext ==
    ASSUME IInv, NEW i \in Node, Delivering(i), Counted(i), UNCHANGED <<view, order>>
    PROVE  /\ Coming(i) = <<NextCall(i)>> \o Coming(i)' /\ Coming(i)' \in Seq(Call)
           /\ \A k \in Node \ {i} : Coming(k)' = Coming(k)
<1>1. /\ view[i] \in 1 .. 2 /\ order[view[i]] \in Seq(Call) /\ delivered[i] \in Nat
      /\ Len(order[view[i]]) \in Nat /\ delivered[i] < Len(order[view[i]])
      /\ delivered \in [Node -> 0 .. MaxCalls]
    BY OrderType DEF IInv, TypeOK, Delivering
<1>2. delivered'[i] = delivered[i] + 1 /\ \A k \in Node \ {i} : delivered'[k] = delivered[k]
    BY <1>1 DEF Counted
<1> DEFINE s == order[view[i]]
           n == delivered[i]
<1>3. /\ n + 1 \in 0 .. Len(s) /\ Rest(s, n) = <<s[n + 1]>> \o Rest(s, n + 1)
      /\ n \in 0 .. Len(s)
    <2>1. s \in Seq(Call) /\ n \in Nat /\ n < Len(s)  BY <1>1
    <2> HIDE DEF s, n
    <2> QED  BY <2>1, RestNext
<1>4. Rest(s, n + 1) \in Seq(Call)
    <2>1. s \in Seq(Call)  BY <1>1
    <2> HIDE DEF s, n
    <2> QED  BY <2>1, <1>3, RestType
<1>5. Coming(i) = Rest(s, n)  BY DEF Coming, Rest
<1>6. Coming(i)' = Rest(s, n + 1)  BY <1>2 DEF Coming, Rest
<1>7. NextCall(i) = s[n + 1]  BY DEF NextCall
<1>8. \A k \in Node \ {i} : Coming(k)' = Coming(k)  BY <1>2 DEF Coming
<1> QED  BY <1>3, <1>4, <1>5, <1>6, <1>7, <1>8, Zenon

\* A delivery that is none of the member's own calls to the group.
LEMMA OthersDelivered ==
    ASSUME IInv, [Next]_vars, NEW i \in Node, Delivering(i), Counted(i), UNCHANGED <<view, order, calls, missing, app>>,
           NextCall(i) \notin OwnGroupCalls(i), toFulfillQueue'[i] = toFulfillQueue[i]
    PROVE  QueueFits(i)'
<1> SUFFICES ASSUME Running(i)'
             PROVE  toFulfillQueue'[i] \o Select(Pushing(i)', OwnGroupCalls(i)')
                        = PassedOver(i)' \o Select(Coming(i)', OwnGroupCalls(i)')
    BY DEF QueueFits
<1> DEFINE c == NextCall(i)
           own == OwnGroupCalls(i)
           next == Coming(i)'
<1>1. c \in Call /\ c \notin own  BY NextCallType
<1>2. Coming(i) = <<c>> \o next /\ next \in Seq(Call)  BY ComingNext
<1>3. Pushing(i)' = Pushing(i)  BY DEF Pushing
<1>4. Running(i)  BY RunningStays DEF Running
<1>5. toFulfillQueue[i] \o Select(Pushing(i), own) = PassedOver(i) \o Select(Coming(i), own)
    BY <1>4 DEF IInv, QueuesFit
<1>6. \A n \in 1 .. Len(next) : next[n] \in DOMAIN calls
    <2> DEFINE h == <<c>>
    <2>1. h \in Seq(Call) /\ Len(h) = 1  BY <1>1
    <2>2. next \in Seq(Call)  BY <1>2
    <2>s. Coming(i) = h \o next  BY <1>2
    <2>3. \A n \in 1 .. Len(Coming(i)) : Coming(i)[n] \in DOMAIN calls  BY QueueType
    <2> HIDE DEF h, next
    <2>4. Len(h \o next) = Len(h) + Len(next)
          /\ \A n \in 1 .. Len(next) : (h \o next)[Len(h) + n] = next[n]
        <3>1. h \in Seq(Call)  BY <2>1
        <3> QED  BY <3>1, <2>2, ConcatParts
    <2>5. \A n \in 1 .. Len(next) : 1 + n \in 1 .. 1 + Len(next)
        BY <2>2
    <2>6. \A n \in 1 .. Len(next) : Coming(i)[1 + n] = next[n] /\ 1 + n \in 1 .. Len(Coming(i))
        BY <2>1, <2>s, <2>4, <2>5
    <2> QED  BY <2>3, <2>6
<1>7. Select(Coming(i), own) = Select(next, own)
    <2> DEFINE h == <<c>>
    <2>1. h \in Seq(Call)  BY <1>1
    <2>2. Select(h, own) = <<>>  BY <1>1, SelectOne
    <2>3. next \in Seq(Call) /\ Coming(i) = h \o next  BY <1>2
    <2> HIDE DEF h, next, own
    <2>4. Select(h \o next, own) = Select(h, own) \o Select(next, own)
        BY <2>1, <2>3, SelectConcat
    <2>5. Select(next, own) \in Seq(Call)  BY <2>3, SelectType
    <2>6. <<>> \o Select(next, own) = Select(next, own)  BY <2>5
    <2> QED  BY <2>2, <2>3, <2>4, <2>6
<1>8. /\ Select(Pushing(i), OwnGroupCalls(i)') = Select(Pushing(i), own)
      /\ Select(next, OwnGroupCalls(i)') = Select(next, own)
    <2>1. Select(Pushing(i), OwnGroupCalls(i)') = Select(Pushing(i), own)
        BY QueueType, OwnStays
    <2>2. next \in Seq(Call)  BY <1>2
    <2> HIDE DEF next
    <2>3. Select(next, OwnGroupCalls(i)') = Select(next, own)
        BY <1>6, <2>2, OwnStays
    <2> QED  BY <2>1, <2>3
<1>9. PassedOver(i)' = PassedOver(i)  BY PassedOverNext
<1> QED  BY <1>3, <1>5, <1>7, <1>8, <1>9

\* The queue has the calls that are to come, whatever happens.
LEMMA QueuesStep ==
    ASSUME IInv, [Next]_vars
    PROVE  QueuesFit'
<1>t. /\ TypeOK /\ PhasesFit /\ app \in [Node -> Activity] /\ Callers \subseteq Node
      /\ toFulfillQueue \in [Node -> Seq(Call)]
      /\ view \in [Node -> {1, 2}] /\ delivered \in [Node -> 0 .. MaxCalls]
      /\ order \in [1 .. 2 -> Seq(Call)] /\ order[1] \in Seq(Call) /\ order[2] \in Seq(Call)
      /\ \A k \in Node : view[k] \in 1 .. 2
    BY CallsType, SMTT(40) DEF IInv, TypeOK
<1>q. ASSUME \A k \in Node : QueueFits(k)'
      PROVE  QueuesFit'
    BY <1>q DEF QueueFits, QueuesFit
<1>u. ASSUME UNCHANGED <<view, order, delivered, toFulfillQueue>>,
             \A k \in Node : app'[k] = app[k] \/ (app[k].pc # "sent" /\ app'[k].pc # "sent")
      PROVE  QueuesFit'
    <2>1. ASSUME NEW k \in Node
          PROVE  QueueFits(k)'
        <3>1. Pushing(k)' = Pushing(k) /\ Coming(k)' = Coming(k)
            BY <1>u DEF Pushing, Coming
        <3>2. toFulfillQueue'[k] = toFulfillQueue[k] /\ view'[k] = view[k] /\ delivered'[k] = delivered[k]
            BY <1>u
        <3> QED  BY <3>1, <3>2, QueueStays
    <2> QED  BY <2>1, <1>q
<1>o. ASSUME NEW i \in Node, Delivering(i), Counted(i), UNCHANGED <<view, order, app>>,
             \A k \in Node \ {i} : toFulfillQueue'[k] = toFulfillQueue[k],
             QueueFits(i)'
      PROVE  QueuesFit'
    <2>1. ASSUME NEW k \in Node \ {i}
          PROVE  QueueFits(k)'
        <3>1. Coming(k)' = Coming(k)  BY <1>o, ComingNext
        <3>2. Pushing(k)' = Pushing(k)  BY <1>o DEF Pushing
        <3>3. view'[k] = view[k] /\ delivered'[k] = delivered[k]
            BY <1>o, <1>t DEF Counted
        <3> QED  BY <1>o, <3>1, <3>2, <3>3, QueueStays
    <2> QED  BY <1>o, <2>1, <1>q
<1>1. ASSUME NEW i \in Callers, NEW nodes \in Targets, GetBuffer(i, nodes)
      PROVE  QueuesFit'
    BY <1>1, <1>u, <1>t DEF GetBuffer, groupVars, callerVars, Idle
<1>2. ASSUME NEW i \in Callers, NEW j \in Node \ {i}, P2pWrite(i, j)
      PROVE  QueuesFit'
    BY <1>2, <1>u, <1>t DEF P2pWrite, groupVars, callerVars, Idle
<1>3. ASSUME NEW i \in Node, Crash(i)
      PROVE  QueuesFit'
    BY <1>3, <1>u, <1>t DEF Crash, groupVars, callerVars
<1>4. ASSUME NEW i \in Node, Wedge(i)
      PROVE  QueuesFit'
    BY <1>4, <1>u, <1>t DEF Wedge, groupVars, callerVars
<1>5. ASSUME NEW i \in Callers, SendCall(i)
      PROVE  QueuesFit'
    <2> DEFINE c == app[i].call
               v == view[i]
    <2>1. /\ i \in Node /\ c \in Call /\ c \in CallsOf(i) /\ v \in 1 .. 2
        BY <1>5, <1>t, SentNow
    <2>2. /\ order' = [order EXCEPT ![v] = Append(@, c)]
          /\ UNCHANGED <<view, delivered, calls, toFulfillQueue, state>>
          /\ app[i].pc = "buffer" /\ app' = [app EXCEPT ![i].pc = "sent"]
        BY <1>5 DEF SendCall, callerVars
    <2> DEFINE one == <<c>>
    <2>3. /\ order'[v] = order[v] \o one /\ \A w \in 1 .. 2 : w # v => order'[w] = order[w]
          /\ one \in Seq(Call) /\ order[v] \in Seq(Call)
        <3>1. order[v] \in Seq(Call)  BY <2>1, <1>t
        <3>2. order'[v] = Append(order[v], c)  BY <2>1, <2>2, <1>t
        <3>3. Append(order[v], c) = order[v] \o one  BY <2>1, <3>1, AppendIsConcat
        <3> QED  BY <2>1, <2>2, <3>1, <3>2, <3>3, <1>t
    <2>o. Select(one, OwnGroupCalls(i)') = Select(one, OwnGroupCalls(i))
        BY <2>2 DEF OwnGroupCalls, CallsOf, GroupCalls
    <2> HIDE DEF one
    <2>4. ASSUME NEW k \in Node, view[k] = v
          PROVE  Coming(k)' = Coming(k) \o one
        <3>1. delivered[k] \in 0 .. Len(order[v]) /\ Coming(k) = Rest(order[v], delivered[k])
            BY <2>4, QueueType
        <3>2. Coming(k)' = Rest(order'[v], delivered[k])
            BY <2>2, <2>4 DEF Coming, Rest
        <3> DEFINE s == order[v]
                   n == delivered[k]
        <3>3. s \in Seq(Call) /\ n \in 0 .. Len(s) /\ order'[v] = s \o one  BY <2>3, <3>1
        <3> HIDE DEF s, n
        <3>4. Rest(s \o one, n) = Rest(s, n) \o one  BY <2>3, <3>3, RestConcat
        <3> QED  BY <3>1, <3>2, <3>3, <3>4 DEF s, n
    <2>5. ASSUME NEW k \in Node, k # i
          PROVE  QueueFits(k)'
        <3> SUFFICES ASSUME Running(k)'
                     PROVE  toFulfillQueue'[k] \o Select(Pushing(k)', OwnGroupCalls(k)')
                                = PassedOver(k)' \o Select(Coming(k)', OwnGroupCalls(k)')
            BY DEF QueueFits
        <3>1. app'[k] = app[k]  BY <2>1, <2>2, <2>5, <1>t
        <3>2. Pushing(k)' = Pushing(k)  BY <3>1 DEF Pushing
        <3>3. OwnGroupCalls(k)' = OwnGroupCalls(k)
            BY <2>2 DEF OwnGroupCalls, CallsOf, GroupCalls
        <3>4. toFulfillQueue[k] \o Select(Pushing(k), OwnGroupCalls(k))
                  = PassedOver(k) \o Select(Coming(k), OwnGroupCalls(k))
            BY <2>2 DEF IInv, QueuesFit, Running
        <3>6. PassedOver(k)' = PassedOver(k)  BY <2>2, PassedOverStays
        <3>5. Select(Coming(k)', OwnGroupCalls(k)) = Select(Coming(k), OwnGroupCalls(k))
            <4>1. CASE view[k] = v
                <5>1. Coming(k)' = Coming(k) \o one /\ Coming(k) \in Seq(Call)
                    BY <2>4, <4>1, QueueType
                <5> DEFINE s == Coming(k)
                           own == OwnGroupCalls(k)
                <5>2. s \in Seq(Call) /\ one \in Seq(Call)  BY <2>3, <5>1
                <5>3. c \notin own  BY <2>1, <2>5 DEF OwnGroupCalls, CallsOf
                <5>4. Select(one, own) = <<>>  BY <2>1, <5>3, SelectOne DEF one
                <5> HIDE DEF s, own
                <5>5. Select(s \o one, own) = Select(s, own) \o Select(one, own)
                    BY <5>2, SelectConcat
                <5>6. Select(s, own) \in Seq(Call)  BY <5>2, SelectType
                <5>7. Select(s, own) \o <<>> = Select(s, own)  BY <5>6
                <5> QED  BY <5>1, <5>4, <5>5, <5>7 DEF s, own
            <4>2. CASE view[k] # v
                <5>1. order'[view[k]] = order[view[k]]  BY <2>1, <2>3, <4>2, <1>t
                <5> QED  BY <2>2, <5>1 DEF Coming
            <4> QED  BY <4>1, <4>2
        <3> QED  BY <2>2, <3>2, <3>3, <3>4, <3>5, <3>6
    <2>6. QueueFits(i)'
        <3> SUFFICES ASSUME Running(i)'
                     PROVE  toFulfillQueue'[i] \o Select(Pushing(i)', OwnGroupCalls(i)')
                                = PassedOver(i)' \o Select(Coming(i)', OwnGroupCalls(i)')
            BY DEF QueueFits
        <3> DEFINE s == Coming(i)
                   own == OwnGroupCalls(i)
                   q == toFulfillQueue[i]
                   z == PassedOver(i)
        <3>1. app'[i].pc = "sent" /\ app'[i].call = c
            <4>1. app[i] \in Activity  BY <2>1, <1>t
            <4> QED  BY <2>1, <2>2, <4>1, <1>t DEF Activity
        <3>2. Pushing(i)' = one  BY <3>1 DEF Pushing, one
        <3>3. OwnGroupCalls(i)' = own
            BY <2>2 DEF OwnGroupCalls, CallsOf, GroupCalls
        <3>4. Pushing(i) = <<>>  BY <2>2 DEF Pushing
        <3>5. q \o Select(<<>>, own) = z \o Select(s, own)
            BY <2>1, <2>2, <3>4 DEF IInv, QueuesFit, Running
        <3>6. s \in Seq(Call) /\ q \in Seq(Call)  BY <2>1, QueueType
        <3>7. q \o <<>> = q  BY <3>6
        <3>8. Coming(i)' = s \o one  BY <2>1, <2>4
        <3>z. z \in Seq(Call) /\ PassedOver(i)' = z
            BY <2>1, <2>2, PassedType, PassedOverStays
        <3> HIDE DEF s, own, z, q
        <3>9. Select(s \o one, own) = Select(s, own) \o Select(one, own)
            <4>1. s \in Seq(Call) /\ one \in Seq(Call)  BY <2>3, <3>6
            <4> QED  BY <4>1, SelectConcat
        <3>10. q = z \o Select(s, own)
            <4>1. Select(<<>>, own) = <<>>  BY SelectEmpty
            <4> QED  BY <3>5, <3>7, <4>1
        <3>11. toFulfillQueue'[i] = q  BY <2>2 DEF q
        <3>12. (z \o Select(s, own)) \o Select(one, own) = z \o (Select(s, own) \o Select(one, own))
            <4>1. Select(s, own) \in Seq(Call) /\ Select(one, own) \in Seq(Call)
                BY <2>3, <3>6, SelectType
            <4> DEFINE x == Select(s, own)
                       y == Select(one, own)
            <4>2. x \in Seq(Call) /\ y \in Seq(Call)  BY <4>1
            <4> HIDE DEF x, y
            <4>3. (z \o x) \o y = z \o (x \o y)  BY <3>z, <4>2, ConcatAssociative, SMTT(40)
            <4> QED  BY <4>3 DEF x, y
        <3> QED  BY <3>2, <3>3, <3>8, <3>9, <3>10, <3>11, <3>12, <3>z
    <2> QED  BY <2>5, <2>6, <1>q
<1>6. ASSUME NEW i \in Callers, SendSpins(i)
      PROVE  QueuesFit'
    BY <1>6, <1>u, <1>t DEF SendSpins, groupVars, callerVars
<1>7. ASSUME NEW i \in Callers, PushPending(i)
      PROVE  QueuesFit'
    <2> DEFINE c == app[i].call
               own == OwnGroupCalls(i)
               s == Coming(i)
               q == toFulfillQueue[i]
               one == <<c>>
               z == PassedOver(i)
    <2>1. /\ i \in Node /\ c \in Call /\ c \in CallsOf(i)
        BY <1>7, <1>t, BusyCall DEF PushPending, CallsOf
    <2>2. /\ UNCHANGED <<view, order, delivered, calls, state>>
          /\ app[i].pc = "sent" /\ app' = [app EXCEPT ![i] = Idle]
        BY <1>7 DEF PushPending, groupVars
    <2>3. /\ ToGroup(c) => toFulfillQueue' = [toFulfillQueue EXCEPT ![i] = Append(@, c)]
          /\ ~ ToGroup(c) => toFulfillQueue' = toFulfillQueue
        BY <1>7 DEF PushPending
    <2>4. ASSUME NEW k \in Node, k # i
          PROVE  QueueFits(k)'
        <3>1. app'[k] = app[k] /\ toFulfillQueue'[k] = toFulfillQueue[k]
            BY <2>1, <2>2, <2>3, <2>4, <1>t
        <3>2. Pushing(k)' = Pushing(k)  BY <3>1 DEF Pushing
        <3>3. Coming(k)' = Coming(k)  BY <2>2 DEF Coming
        <3> QED  BY <2>2, <3>1, <3>2, <3>3, QueueStays
    <2>5. QueueFits(i)'
        <3> SUFFICES ASSUME Running(i)'
                     PROVE  toFulfillQueue'[i] \o Select(Pushing(i)', OwnGroupCalls(i)')
                                = PassedOver(i)' \o Select(Coming(i)', OwnGroupCalls(i)')
            BY DEF QueueFits
        <3>1. Pushing(i) = one  BY <2>2 DEF Pushing
        <3>2. Pushing(i)' = <<>>
            <4>1. app'[i] = Idle  BY <2>1, <2>2, <1>t
            <4> QED  BY <4>1 DEF Pushing, Idle
        <3>3. Coming(i)' = s /\ OwnGroupCalls(i)' = own
            BY <2>2 DEF Coming, OwnGroupCalls, CallsOf, GroupCalls
        <3>4. q \o Select(one, own) = z \o Select(s, own)
            BY <2>1, <2>2, <3>1 DEF IInv, QueuesFit, Running
        <3>5. q \in Seq(Call)  BY <2>1, QueueType
        <3>6. c \in own <=> ToGroup(c)  BY <2>1 DEF OwnGroupCalls, ToGroup
        <3>7. Select(one, own) = IF c \in own THEN one ELSE <<>>  BY <2>1, SelectOne
        <3>z. PassedOver(i)' = z  BY <2>1, <2>2, PassedOverStays
        <3> HIDE DEF own, s, c, q, one, z
        <3>8. Select(<<>>, own) = <<>>  BY SelectEmpty
        <3>9. CASE ToGroup(c)
            <4>1. toFulfillQueue'[i] = Append(q, c)  BY <2>1, <2>3, <3>9, <1>t DEF q
            <4>2. Append(q, c) = q \o one  BY <2>1, <3>5, AppendIsConcat DEF one
            <4>3. Append(q, c) \in Seq(Call)  BY <2>1, <3>5
            <4>4. Append(q, c) \o <<>> = Append(q, c)  BY <4>3
            <4> QED  BY <3>2, <3>3, <3>4, <3>6, <3>7, <3>8, <3>9, <3>z, <4>1, <4>2, <4>4
        <3>10. CASE ~ ToGroup(c)
            <4>1. toFulfillQueue'[i] = q  BY <2>3, <3>10 DEF q
            <4> QED  BY <3>2, <3>3, <3>4, <3>6, <3>7, <3>8, <3>10, <3>z, <4>1
        <3> QED  BY <3>9, <3>10
    <2> QED  BY <2>4, <2>5, <1>q
<1>8. ASSUME NEW i \in Callers, P2pPush(i)
      PROVE  QueuesFit'
    <2>1. /\ UNCHANGED <<view, order, delivered, toFulfillQueue>>
          /\ app[i].pc = "written" /\ app' = [app EXCEPT ![i] = Idle]
        BY <1>8 DEF P2pPush, groupVars
    <2>2. Idle.pc # "sent"  BY DEF Idle
    <2> QED  BY <2>1, <2>2, <1>u, <1>t
<1>9. ASSUME NEW i \in Node, PassOver(i)
      PROVE  QueuesFit'
    <2> DEFINE c == NextCall(i)
               own == OwnGroupCalls(i)
    <2>1. /\ Delivering(i) /\ Counted(i)
          /\ UNCHANGED <<view, order, calls, missing, app, toFulfillQueue, state>>
          /\ NotHere(i, c) \/ ~ ToGroup(c)
        BY <1>9 DEF PassOver, groupVars, callerVars, Addressed
    <2>2. CASE c \notin own
        <3>1. QueueFits(i)'  BY <2>1, <2>2, OthersDelivered
        <3> QED  BY <2>1, <3>1, <1>o
    <2>3. CASE c \in own
        <3> DEFINE h == <<c>>
                   y == Coming(i)'
                   z == PassedOver(i)
                   x == Select(y, own)
        <3>1. c \in Call /\ Running(i)  BY <2>1, NextCallType
        <3>2. NotHere(i, c)  BY <2>1, <2>3 DEF OwnGroupCalls, ToGroup
        <3>3. PassedOver(i)' = Append(z, c)  BY <2>1, <2>3, <3>2, PassedOverNext
        <3>4. toFulfillQueue[i] \o Select(Pushing(i), own) = z \o Select(Coming(i), own)
            BY <3>1 DEF IInv, QueuesFit
        <3>5. Coming(i) = h \o y /\ y \in Seq(Call)  BY <2>1, ComingNext
        <3>6. h \in Seq(Call) /\ Select(h, own) = h  BY <2>3, <3>1, SelectOne
        <3>7. z \in Seq(Call)  BY PassedType
        <3>8. Append(z, c) = z \o h
            <4> HIDE DEF z, c
            <4> QED  BY <3>1, <3>7, AppendIsConcat
        <3>9. OwnGroupCalls(i)' = own /\ Pushing(i)' = Pushing(i)
            BY <2>1 DEF OwnGroupCalls, CallsOf, GroupCalls, Pushing
        <3> HIDE DEF h, y, z, own
        <3>10. Select(h \o y, own) = Select(h, own) \o x
            <4>1. h \in Seq(Call) /\ y \in Seq(Call)  BY <3>5, <3>6
            <4> QED  BY <4>1, SelectConcat
        <3>11. x \in Seq(Call)  BY <3>5, SelectType
        <3> HIDE DEF x
        <3>12. (z \o h) \o x = z \o (h \o x)  BY <3>6, <3>7, <3>11, ConcatAssociative
        <3>13. toFulfillQueue'[i] \o Select(Pushing(i)', own) = (z \o h) \o x
            BY <2>1, <3>4, <3>5, <3>6, <3>9, <3>10, <3>12
        <3>14. QueueFits(i)'
            BY <3>3, <3>8, <3>9, <3>13 DEF QueueFits, x, y
        <3> QED  BY <2>1, <3>14, <1>o
    <2> QED  BY <2>2, <2>3
<1>10. ASSUME NEW i \in Node, DeliverRemote(i)
       PROVE  QueuesFit'
    <2>1. /\ Delivering(i) /\ Counted(i)
          /\ UNCHANGED <<view, order, calls, missing, app, toFulfillQueue>>
          /\ calls[NextCall(i)].caller # i
        BY <1>10 DEF DeliverRemote, groupVars, callerVars
    <2>2. NextCall(i) \notin OwnGroupCalls(i)  BY <2>1 DEF OwnGroupCalls, CallsOf
    <2>3. QueueFits(i)'  BY <2>1, <2>2, OthersDelivered
    <2> QED  BY <2>1, <2>3, <1>o
<1>11. ASSUME NEW i \in Node, DeliverOwn(i)
       PROVE  QueuesFit'
    <2> DEFINE c == NextCall(i)
               own == OwnGroupCalls(i)
               q == toFulfillQueue[i]
               p == Select(Pushing(i), own)
               x == Select(Coming(i)', own)
    <2>1. /\ Delivering(i) /\ Counted(i) /\ UNCHANGED <<view, order, app, calls, missing>>
          /\ calls[c].caller = i /\ ~ NotHere(i, c)
        BY <1>11 DEF DeliverOwn, groupVars
    <2>2. c \in Call /\ c \in DOMAIN calls /\ Running(i) /\ q \in Seq(Call)
        BY <2>1, NextCallType, QueueType
    <2>3. CASE Satisfied(c, i)
        <3>1. Stopped(i, "promise") /\ UNCHANGED callerVars
            BY <1>11, <2>3 DEF DeliverOwn
        <3>2. ~ Running(i)'
            <4>1. state \in [Node -> State]  BY <1>t DEF TypeOK
            <4> QED  BY <3>1, <4>1 DEF Stopped, Running
        <3> QED  BY <2>1, <3>1, <3>2, <1>o DEF QueueFits, callerVars
    <2>4. CASE ~ Satisfied(c, i) /\ ~ ToGroup(c)
        <3>1. UNCHANGED toFulfillQueue
            BY <1>11, <2>4 DEF DeliverOwn, callerVars
        <3>2. c \notin own  BY <2>4 DEF OwnGroupCalls, ToGroup
        <3>3. QueueFits(i)'  BY <2>1, <3>1, <3>2, OthersDelivered
        <3> QED  BY <2>1, <3>1, <3>3, <1>o
    <2>5. CASE ~ Satisfied(c, i) /\ ToGroup(c) /\ q = <<>>
        <3>1. Stopped(i, "queue") /\ UNCHANGED callerVars
            BY <1>11, <2>5 DEF DeliverOwn
        <3>2. ~ Running(i)'
            <4>1. state \in [Node -> State]  BY <1>t DEF TypeOK
            <4> QED  BY <3>1, <4>1 DEF Stopped, Running
        <3> QED  BY <2>1, <3>1, <3>2, <1>o DEF QueueFits, callerVars
    <2>6. CASE ~ Satisfied(c, i) /\ ToGroup(c) /\ q # <<>>
        <3>1. toFulfillQueue' = [toFulfillQueue EXCEPT ![i] = Tail(@)]
            BY <1>11, <2>6 DEF DeliverOwn
        <3>2. toFulfillQueue'[i] = Tail(q)
              /\ \A k \in Node \ {i} : toFulfillQueue'[k] = toFulfillQueue[k]
            BY <3>1, <1>t
        <3>3. q \o p = <<c>> \o x
            <4>1. q \o p = PassedOver(i) \o Select(Coming(i), own)
                BY <2>2 DEF IInv, QueuesFit
            <4> DEFINE h == <<c>>
                       y == Coming(i)'
            <4>2. h \in Seq(Call)  BY <2>2
            <4>3. Coming(i) = h \o y /\ y \in Seq(Call)  BY <2>1, ComingNext
            <4>4. c \in own  BY <2>1, <2>2, <2>6 DEF OwnGroupCalls, CallsOf, ToGroup
            <4>5. Select(h, own) = h  BY <2>2, <4>4, SelectOne
            <4>8. PassedOver(i) = <<>>  BY <2>1, <4>4, NoneBefore
            <4>9. Select(Coming(i), own) \in Seq(Call)  BY QueueType, SelectType
            <4>10. <<>> \o Select(Coming(i), own) = Select(Coming(i), own)  BY <4>9
            <4> HIDE DEF h, y, own
            <4>6. y \in Seq(Call)  BY <4>3
            <4>7. Select(h \o y, own) = Select(h, own) \o Select(y, own)
                BY <4>2, <4>6, SelectConcat
            <4> QED  BY <4>1, <4>3, <4>5, <4>7, <4>8, <4>10 DEF h, y
        <3>4. p \in Seq(Call) /\ x \in Seq(Call)
            <4>1. Pushing(i) \in Seq(Call) /\ Coming(i)' \in Seq(Call)
                BY <2>1, QueueType, ComingNext
            <4> QED  BY <4>1, SelectType
        <3>5. Tail(q) \o p = x
            <4>1. q # <<>>  BY <2>6
            <4> HIDE DEF c, q, p, x
            <4> DEFINE h == <<c>>
            <4>2. h \in Seq(Call) /\ Len(h) = 1  BY <2>2
            <4>3. q \o p = h \o x  BY <3>3
            <4> HIDE DEF c, q, p, x, h
            <4>4. q \in Seq(Call)  BY <2>2
            <4>5. Fronts(q, p, h, x)  BY <4>1, <4>2, <4>3 DEF Fronts
            <4>6. h \in Seq(Call)  BY <4>2
            <4> QED  BY <3>4, <4>4, <4>5, <4>6, FrontOf
        <3>6. QueueFits(i)'
            <4>1. Pushing(i)' = Pushing(i)  BY <2>1 DEF Pushing
            <4>2. OwnGroupCalls(i)' = own
                BY <2>1 DEF OwnGroupCalls, CallsOf, GroupCalls
            <4>3. PassedOver(i)' = <<>>
                <5>1. c \in own  BY <2>1, <2>2, <2>6 DEF OwnGroupCalls, CallsOf, ToGroup
                <5> QED  BY <2>1, <5>1, NoneBefore, PassedOverNext
            <4>4. <<>> \o x = x
                <5> HIDE DEF x
                <5> QED  BY <3>4
            <4> QED  BY <3>2, <3>5, <4>1, <4>2, <4>3, <4>4 DEF QueueFits
        <3> QED  BY <2>1, <3>2, <3>6, <1>o
    <2> QED  BY <2>3, <2>4, <2>5, <2>6
<1>12. ASSUME NEW i \in Node, NEW j \in Node, RpcRequest(i, j)
       PROVE  QueuesFit'
    BY <1>12, <1>u, <1>t DEF RpcRequest, groupVars, callerVars
<1>13. ASSUME NEW i \in Node, NEW j \in Node, RpcAnswer(i, j)
       PROVE  QueuesFit'
    BY <1>13, <1>u, <1>t DEF RpcAnswer, groupVars, callerVars
<1>14. ASSUME NEW i \in Node, NEW j \in Node, SendObjects(i, j)
       PROVE  QueuesFit'
    BY <1>14, <1>u, <1>t DEF SendObjects, groupVars, callerVars
<1>15. ASSUME NEW i \in Node, Cleanup(i)
       PROVE  QueuesFit'
    BY <1>15, <1>u, <1>t DEF Cleanup, groupVars, callerVars
<1>16. ASSUME NEW i \in Node, InstallView(i)
       PROVE  QueuesFit'
    <2> DEFINE more == Undelivered(i)
               early == Upto(order[1], cut)
               later == Rest(order[1], cut)
               own == OwnGroupCalls(i)
               again == CallsOf(i) \cap missing[i]
    <2>1. /\ order' = [order EXCEPT ![2] = @ \o more]
          /\ view' = [view EXCEPT ![i] = 2] /\ delivered' = [delivered EXCEPT ![i] = 0]
          /\ UNCHANGED <<cut, calls, app, toFulfillQueue, state>> /\ cut <= MaxCalls
          /\ i \in Second /\ phase[i] \in {"cleaning", "joined"} /\ Handshake
        BY <1>16 DEF InstallView, callerVars
    <2>2. view[i] = 1
        BY <2>1, <1>t, ZenonT(40) DEF PhasesFit
    <2>3. order'[1] = order[1] /\ order'[2] = order[2] \o more  BY <2>1, <1>t, SMTT(40)
    <2>4. cut \in 0 .. Len(order[1])
        BY <2>1, <1>t DEF IInv, CutFits, TypeOK
    <2>5. /\ more = Select(early, again) \o Select(later, CallsOf(i))
          /\ early \in Seq(Call) /\ later \in Seq(Call) /\ more \in Seq(Call)
        <3>1. early \in Seq(Call) /\ later \in Seq(Call)  BY <2>4, <1>t, UptoType, RestType
        <3>2. more = Select(early, again) \o Select(later, CallsOf(i))
            BY DEF Undelivered, Rest, Upto
        <3>3. more \in Seq(Call)  BY <2>1, Resent
        <3> QED  BY <3>1, <3>2, <3>3
    <2>6. \A c \in Range(more) : c \in CallsOf(i)  BY <2>1, Resent
    <2> HIDE DEF more, early, later
    <2>p. \A k \in Node : Pushing(k)' = Pushing(k) /\ OwnGroupCalls(k)' = OwnGroupCalls(k)
        BY <2>1 DEF Pushing, OwnGroupCalls, CallsOf, GroupCalls
    <2>7. ASSUME NEW k \in Node, k # i
          PROVE  QueueFits(k)'
        <3>1. view'[k] = view[k] /\ delivered'[k] = delivered[k]
            BY <2>1, <2>7, <1>t
        <3>2. CASE view[k] = 1
            <4>1. Coming(k)' = Coming(k)  BY <2>3, <3>1, <3>2 DEF Coming
            <4> QED  BY <2>1, <2>p, <3>1, <4>1, QueueStays
        <3>3. CASE view[k] = 2
            <4> SUFFICES ASSUME Running(k)'
                         PROVE  toFulfillQueue'[k] \o Select(Pushing(k)', OwnGroupCalls(k)')
                                    = PassedOver(k)' \o Select(Coming(k)', OwnGroupCalls(k)')
                BY DEF QueueFits
            <4>1. toFulfillQueue[k] \o Select(Pushing(k), OwnGroupCalls(k))
                      = PassedOver(k) \o Select(Coming(k), OwnGroupCalls(k))
                BY <2>1 DEF IInv, QueuesFit, Running
            <4>10. PassedOver(k)' = PassedOver(k)  BY <3>1, PassedOverStays
            <4> DEFINE s == order[2]
                       n == delivered[k]
                       r == Rest(s, n)
                       o == OwnGroupCalls(k)
            <4>2. Coming(k) = r /\ n \in 0 .. Len(s) /\ s \in Seq(Call) /\ r \in Seq(Call)
                BY <3>3, <1>t, QueueType
            <4>3. Coming(k)' = Rest(s \o more, n)
                <5>1. Coming(k)' = Rest(order'[2], n)  BY <3>1, <3>3 DEF Coming, Rest
                <5> QED  BY <2>3, <5>1
            <4>4. \A m \in 1 .. Len(more) : more[m] \notin o
                <5>1. DOMAIN more = 1 .. Len(more)  BY <2>5
                <5> QED  BY <2>6, <2>7, <5>1 DEF Range, OwnGroupCalls, CallsOf
            <4> HIDE DEF s, n, r, o
            <4>5. Rest(s \o more, n) = Rest(s, n) \o more  BY <2>5, <4>2, RestConcat
            <4>6. Select(more, o) = <<>>
                <5>1. more \in Seq(Call)  BY <2>5
                <5> QED  BY <5>1, <4>4, SelectNone
            <4>7. Select(r \o more, o) = Select(r, o) \o Select(more, o)
                <5>1. more \in Seq(Call) /\ r \in Seq(Call)  BY <2>5, <4>2
                <5> QED  BY <5>1, SelectConcat
            <4>8. Select(r, o) \o <<>> = Select(r, o)
                <5>1. Select(r, o) \in Seq(Call)  BY <4>2, SelectType
                <5> QED  BY <5>1
            <4>9. Select(Coming(k)', o) = Select(Coming(k), o)
                BY <4>2, <4>3, <4>5, <4>6, <4>7, <4>8 DEF r
            <4> QED  BY <2>1, <2>p, <4>1, <4>9, <4>10 DEF o
        <3> QED  BY <3>2, <3>3, <1>t
    <2>8. QueueFits(i)'
        <3> SUFFICES ASSUME Running(i)'
                     PROVE  toFulfillQueue'[i] \o Select(Pushing(i)', OwnGroupCalls(i)')
                                = PassedOver(i)' \o Select(Coming(i)', OwnGroupCalls(i)')
            BY DEF QueueFits
        <3>1. toFulfillQueue[i] \o Select(Pushing(i), own) = PassedOver(i) \o Select(Coming(i), own)
            BY <2>1 DEF IInv, QueuesFit, Running
        <3> DEFINE s == order[2]
        <3>2. s \in Seq(Call) /\ more \in Seq(Call)  BY <2>5, <1>t
        <3>3. Coming(i)' = s \o more
            <4>1. view'[i] = 2 /\ delivered'[i] = 0  BY <2>1, <1>t
            <4>2. Coming(i)' = Rest(order'[2], 0)  BY <4>1 DEF Coming, Rest
            <4> DEFINE r == s \o more
            <4>3. r \in Seq(Call)  BY <3>2
            <4>4. order'[2] = r  BY <2>3
            <4> HIDE DEF r
            <4>5. Rest(r, 0) = r  BY <4>3, RestNothing
            <4> QED  BY <4>2, <4>4, <4>5 DEF r
        <3>4. \A m \in 1 .. Len(s) : s[m] \notin own
            <4>1. \A d \in Range(s) : view[calls[d].caller] = 2
                BY DEF IInv, OrdersFit
            <4>2. DOMAIN s = 1 .. Len(s)  BY <3>2
            <4> QED  BY <2>2, <4>1, <4>2 DEF Range, OwnGroupCalls, CallsOf
        <3>5. Select(more, own) = Select(early, again \cap own) \o Select(later, own)
            <4>1. CallsOf(i) \cap own = own  BY DEF OwnGroupCalls
            <4> DEFINE mine == CallsOf(i)
                       x == Select(early, again)
                       y == Select(later, mine)
            <4> HIDE DEF own, mine, again
            <4>2. Select(y, own) = Select(later, mine \cap own)  BY <2>5, SelectTwice
            <4>3. Select(x, own) = Select(early, again \cap own)  BY <2>5, SelectTwice
            <4>4. x \in Seq(Call) /\ y \in Seq(Call)  BY <2>5, SelectType
            <4>5. more = x \o y  BY <2>5 DEF mine
            <4> HIDE DEF x, y
            <4>6. Select(x \o y, own) = Select(x, own) \o Select(y, own)
                BY <4>4, SelectConcat
            <4> QED  BY <4>1, <4>2, <4>3, <4>5, <4>6 DEF mine
        <3>6. Select(early, again \cap own) \o Select(later, own)
                  = PassedOver(i) \o Select(Coming(i), own)
            <4>1. CASE phase[i] = "cleaning"
                <5>1. delivered[i] = cut  BY <2>1, <4>1 DEF Handshake, CleanedUp
                <5>2. Coming(i) = later  BY <2>2, <5>1 DEF Coming, later, Rest
                <5>3. Passed(i) = early  BY <2>2, <5>1 DEF Passed, early, Upto
                <5>4. {c \in own : NotHere(i, c)} = again \cap own
                    BY <2>2 DEF NotHere, OwnGroupCalls
                <5>5. PassedOver(i) = Select(early, again \cap own)
                    BY <5>3, <5>4 DEF PassedOver
                <5> QED  BY <5>2, <5>5
            <4>2. CASE phase[i] = "joined"
                <5>1. \A d \in DOMAIN calls : calls[d].caller # i
                    BY <4>2 DEF IInv, AppFits, Joining
                <5>2. own = {}  BY <5>1 DEF OwnGroupCalls, CallsOf
                <5>3. \A S : S \subseteq own =>
                          /\ \A m \in 1 .. Len(later) : later[m] \notin S
                          /\ \A m \in 1 .. Len(early) : early[m] \notin S
                          /\ \A m \in 1 .. Len(Coming(i)) : Coming(i)[m] \notin S
                          /\ \A m \in 1 .. Len(Passed(i)) : Passed(i)[m] \notin S
                    BY <5>2
                <5>4. again \cap own \subseteq own /\ {c \in own : NotHere(i, c)} \subseteq own
                    OBVIOUS
                <5>5. Coming(i) \in Seq(Call) /\ Passed(i) \in Seq(Call)
                    BY QueueType, PassedType
                <5>6. PassedOver(i) = Select(Passed(i), {c \in own : NotHere(i, c)})
                    BY DEF PassedOver
                <5> HIDE DEF own, again
                <5>7. Select(later, own) = <<>>  BY <2>5, <5>3, SelectNone
                <5>8. Select(early, again \cap own) = <<>>  BY <2>5, <5>3, <5>4, SelectNone
                <5>9. Select(Coming(i), own) = <<>>  BY <5>3, <5>5, SelectNone
                <5>10. PassedOver(i) = <<>>  BY <5>3, <5>4, <5>5, <5>6, SelectNone
                <5> QED  BY <5>7, <5>8, <5>9, <5>10
            <4> QED  BY <2>1, <4>1, <4>2
        <3>11. PassedOver(i)' = <<>>
            <4>1. view'[i] = 2 /\ delivered'[i] = 0  BY <2>1, <1>t
            <4>2. Passed(i)' = Upto(order'[2], 0)  BY <4>1 DEF Passed, Upto
            <4> DEFINE r == s \o more
            <4>3. r \in Seq(Call)  BY <3>2
            <4>4. order'[2] = r  BY <2>3
            <4> HIDE DEF r
            <4>5. Passed(i)' = <<>>  BY <4>2, <4>3, <4>4, UptoNone
            <4> QED  BY <4>5, SelectEmpty DEF PassedOver
        <3>7. OwnGroupCalls(i)' = own  BY <2>p
        <3> HIDE DEF own, s
        <3>8. Select(s \o more, own) = Select(s, own) \o Select(more, own)
            BY <3>2, SelectConcat
        <3>9. Select(s, own) = <<>>  BY <3>2, <3>4, SelectNone
        <3>10. <<>> \o Select(more, own) = Select(more, own)
            <4>1. Select(more, own) \in Seq(Call)  BY <3>2, SelectType
            <4> QED  BY <4>1
        <3> QED  BY <2>1, <2>p, <3>1, <3>3, <3>5, <3>6, <3>7, <3>8, <3>9, <3>10, <3>11
    <2> QED  BY <2>7, <2>8, <1>q
<1>17. ASSUME NEW i \in Node, ViewUpcall(i)
       PROVE  QueuesFit'
    BY <1>17, <1>u, <1>t DEF ViewUpcall, groupVars, callerVars
<1>18. ASSUME LeaderCleanup
       PROVE  QueuesFit'
    BY <1>18, <1>u, <1>t DEF LeaderCleanup, groupVars, callerVars
<1>19. CASE UNCHANGED vars
    BY <1>19, <1>u, <1>t DEF vars, groupVars, callerVars
<1> QED
    BY <1>1, <1>2, <1>3, <1>4, <1>5, <1>6, <1>7, <1>8, <1>9, <1>10,
       <1>11, <1>12, <1>13, <1>14, <1>15, <1>16, <1>17, <1>18, <1>19
    DEF Next, Environment, Threads

-----------------------------------------------------------------------------
(***************************************************************************)
(* What the objects have seen.                                             *)
(***************************************************************************)
ObjectFits(k) ==
    Running(k) /\ phase[k] # "joining" =>
        objects[k] = Select(Upto(order[1], SeenOne(k)), SeenCalls(k))
                     \o Select(Upto(order[2], DeliveredTwo(k)), GroupCalls)

LEMMA SeenBounds ==
    ASSUME IInv, NEW k \in Node, phase[k] # "joining"
    PROVE  SeenOne(k) \in 0 .. Len(order[1]) /\ DeliveredTwo(k) \in 0 .. Len(order[2])
<1>1. DeliveredTwo(k) \in 0 .. Len(order[2]) /\ Len(order[1]) \in Nat  BY DeliveredBounds
<1>2. CASE view[k] = 1 /\ phase[k] # "joined"
    <2>1. delivered[k] \in Nat /\ delivered[k] <= Len(order[1])
        BY <1>2, OrderType DEF IInv, OrdersFit
    <2> QED  BY <1>1, <1>2, <2>1 DEF SeenOne
<1>3. CASE ~ (view[k] = 1 /\ phase[k] # "joined")
    <2>1. view[k] = 2 \/ phase[k] = "joined"  BY <1>3, OrderType DEF IInv
    <2>2. cut <= MaxCalls  BY <2>1 DEF IInv, PhasesFit
    <2>3. cut <= Len(order[1]) /\ cut \in 0 .. MaxCalls + 1
        BY <2>2 DEF IInv, CutFits, TypeOK
    <2>4. SeenOne(k) = cut  BY <1>3 DEF SeenOne
    <2> QED  BY <1>1, <2>3, <2>4
<1> QED  BY <1>1, <1>2, <1>3

\* What has been delivered stays delivered.
LEMMA UptoStays ==
    ASSUME IInv, [Next]_vars, NEW v \in 1 .. 2, NEW n \in 0 .. Len(order[v])
    PROVE  Select(Upto(order'[v], n), GroupCalls') = Select(Upto(order[v], n), GroupCalls)
<1> DEFINE s == order[v]
           r == order'[v]
           u == Upto(s, n)
<1>1. s \in Seq(Call) /\ r \in Seq(Call) /\ n \in 0 .. Len(s)
    <2>1. TypeOK'  BY TypeStep DEF IInv
    <2> QED  BY <2>1 DEF IInv, TypeOK
<1>2. Extends(r, s)
    <2>1. v = 1 \/ v = 2  OBVIOUS
    <2> QED  BY <2>1, OrdersGrow
<1>3. \A k \in 1 .. Len(s) : s[k] \in DOMAIN calls
    <2>1. Range(s) \subseteq DOMAIN calls  BY DEF IInv, OrdersFit, Sent
    <2>2. DOMAIN s = 1 .. Len(s)  BY <1>1
    <2> QED  BY <2>1, <2>2 DEF Range
<1> HIDE DEF s, r
<1>4. Upto(r, n) = u  BY <1>1, <1>2, UptoExtends
<1>5. u \in Seq(Call) /\ Len(u) = n /\ \A k \in 1 .. n : u[k] = s[k]  BY <1>1, UptoType
<1>6. \A k \in 1 .. n : k \in 1 .. Len(s)  BY <1>1
<1>7. \A k \in 1 .. Len(u) : u[k] \in GroupCalls' <=> u[k] \in GroupCalls
    BY <1>3, <1>5, <1>6, KindStays
<1> HIDE DEF u
<1>8. Select(u, GroupCalls') = Select(u, GroupCalls)
    <2>1. u \in Seq(Call)  BY <1>5
    <2> QED  BY <2>1, <1>7, SelectSame
<1> QED  BY <1>4, <1>8 DEF r, s, u

LEMMA SeenStays ==
    ASSUME IInv, [Next]_vars, NEW k \in Node, phase[k] # "joining"
    PROVE  Select(Upto(order'[1], SeenOne(k)), SeenCalls(k)')
               = Select(Upto(order[1], SeenOne(k)), SeenCalls(k))
<1> DEFINE s == order[1]
           r == order'[1]
           n == SeenOne(k)
           u == Upto(s, n)
           S == SeenCalls(k)
           T == SeenCalls(k)'
<1>1. s \in Seq(Call) /\ r \in Seq(Call) /\ n \in 0 .. Len(s)
    <2>1. TypeOK'  BY TypeStep DEF IInv
    <2>2. n \in 0 .. Len(s)  BY SeenBounds
    <2> HIDE DEF n
    <2> QED  BY <2>1, <2>2 DEF IInv, TypeOK
<1>2. Extends(r, s)  BY OrdersGrow
<1>3. \A m \in 1 .. Len(s) : s[m] \in DOMAIN calls
    <2>1. Range(s) \subseteq DOMAIN calls  BY DEF IInv, OrdersFit, Sent
    <2>2. DOMAIN s = 1 .. Len(s)  BY <1>1
    <2> QED  BY <2>1, <2>2 DEF Range
<1>4. ASSUME NEW m \in 1 .. n
      PROVE  s[m] \in T <=> s[m] \in S
    <2>1. s[m] \in DOMAIN calls /\ (s[m] \in GroupCalls' <=> s[m] \in GroupCalls)
        BY <1>1, <1>3, KindStays
    <2>2. Copied(k)' = Copied(k)  BY ViewsStay DEF Copied, First
    <2>3. s[m] \in Unseen(Copied(k))' <=> s[m] \in Unseen(Copied(k))
        <3>1. CASE UNCHANGED missing
            <4>1. \A c \in DOMAIN calls : c \in CallerMissed' <=> c \in CallerMissed
                <5> TAKE c \in DOMAIN calls
                <5>1. c \in DOMAIN calls' /\ calls'[c] = calls[c]  BY CallsStay
                <5> QED  BY <3>1, <5>1 DEF CallerMissed
            <4> QED  BY <2>1, <2>2, <3>1, <4>1 DEF Unseen
        <3>2. CASE LeaderCleanup
            <4>1. cut > MaxCalls /\ view[k] = 1  BY <3>2, NothingMissing DEF LeaderCleanup
            <4>2. phase[k] # "joined"
                <5>1. cut \in Nat /\ MaxCalls \in Nat  BY CallsType DEF IInv, TypeOK
                <5>2. ~ (cut <= MaxCalls)  BY <4>1, <5>1
                <5> QED  BY <5>2 DEF IInv, PhasesFit
            <4>3. k \in First  BY <4>1, <4>2 DEF IInv, PhasesFit, Joining
            <4>4. Copied(k) = k /\ n = delivered[k]  BY <4>1, <4>2, <4>3 DEF Copied, SeenOne
            <4>5. s[m] \notin Unseen(k) /\ s[m] \notin Unseen(k)'
                BY <3>2, <4>4, CleanupSpares
            <4>6. Copied(k)' = k  BY <2>2, <4>4
            <4> QED  BY <4>4, <4>5, <4>6 DEF Unseen
        <3> QED  BY <3>1, <3>2, MissingStays
    <2> QED  BY <2>1, <2>3 DEF SeenCalls
<1> HIDE DEF s, r, S, T, n
<1>5. Upto(r, n) = u  BY <1>1, <1>2, UptoExtends
<1>6. u \in Seq(Call) /\ Len(u) = n /\ \A m \in 1 .. n : u[m] = s[m]  BY <1>1, UptoType
<1> HIDE DEF u
<1>7. Select(u, T) = Select(u, S)
    <2>1. u \in Seq(Call) /\ \A m \in 1 .. Len(u) : u[m] \in T <=> u[m] \in S
        BY <1>4, <1>6
    <2> QED  BY <2>1, SelectSame
<1> QED  BY <1>5, <1>7 DEF r, s, u, n, S, T

LEMMA ObjectStays ==
    ASSUME IInv, [Next]_vars, NEW k \in Node, phase[k] # "joining", objects'[k] = objects[k],
           SeenOne(k)' = SeenOne(k), DeliveredTwo(k)' = DeliveredTwo(k)
    PROVE  ObjectFits(k)'
<1> SUFFICES ASSUME Running(k)'
             PROVE  objects'[k] = Select(Upto(order'[1], SeenOne(k)'), SeenCalls(k)')
                                  \o Select(Upto(order'[2], DeliveredTwo(k)'), GroupCalls')
    BY DEF ObjectFits
<1>r. Running(k)  BY RunningStays DEF Running
<1>1. SeenOne(k) \in 0 .. Len(order[1]) /\ DeliveredTwo(k) \in 0 .. Len(order[2])
    BY SeenBounds
<1>2. objects[k] = Select(Upto(order[1], SeenOne(k)), SeenCalls(k))
                   \o Select(Upto(order[2], DeliveredTwo(k)), GroupCalls)
    BY <1>r DEF IInv, ObjectsFit, Upto
<1> DEFINE n == DeliveredTwo(k)
<1>3. Select(Upto(order'[2], n), GroupCalls') = Select(Upto(order[2], n), GroupCalls)
    <2>1. 2 \in 1 .. 2 /\ n \in 0 .. Len(order[2])  BY <1>1
    <2> HIDE DEF n
    <2> QED  BY <2>1, UptoStays
<1>4. Select(Upto(order'[1], SeenOne(k)), SeenCalls(k)')
          = Select(Upto(order[1], SeenOne(k)), SeenCalls(k))
    BY SeenStays
<1> QED  BY <1>2, <1>3, <1>4

\* The objects see a call to the group when it is delivered.
Sees(i) == NextCall(i) \in IF view[i] = 1 THEN SeenCalls(i) ELSE GroupCalls

LEMMA ObjectSees ==
    ASSUME IInv, [Next]_vars, NEW i \in Node, Delivering(i), Counted(i),
           UNCHANGED <<view, phase, order, cut, missing, calls>>,
           objects'[i] = IF Sees(i) THEN Append(objects[i], NextCall(i)) ELSE objects[i]
    PROVE  ObjectFits(i)'
<1> DEFINE c == NextCall(i)
           m == SeenOne(i)
           n == DeliveredTwo(i)
           group == GroupCalls
           seen == SeenCalls(i)
           x == Select(Upto(order[1], m), seen)
           y == Select(Upto(order[2], n), group)
<1>1. /\ c \in Call /\ phase[i] \notin {"joining", "joined"}
      /\ order[1] \in Seq(Call) /\ order[2] \in Seq(Call) /\ view[i] \in 1 .. 2
      /\ delivered[i] \in Nat
    BY NextCallType, OrderType DEF IInv, Joining
<1>2. m \in 0 .. Len(order[1]) /\ n \in 0 .. Len(order[2])  BY <1>1, SeenBounds
<1>3. objects[i] = x \o y  BY <1>1, NextCallType DEF IInv, ObjectsFit, Upto
<1>4. x \in Seq(Call) /\ y \in Seq(Call)
    <2>1. Upto(order[1], m) \in Seq(Call) /\ Upto(order[2], n) \in Seq(Call)
        <3> HIDE DEF m, n
        <3> QED  BY <1>1, <1>2, UptoType
    <2> HIDE DEF m, n, group, seen
    <2> QED  BY <2>1, SelectType
<1>5. GroupCalls' = group /\ SeenCalls(i)' = seen
    <2>1. GroupCalls' = group  BY DEF GroupCalls
    <2>2. Copied(i)' = Copied(i)  BY ViewsStay DEF Copied, First
    <2>3. CallerMissed' = CallerMissed  BY DEF CallerMissed
    <2> QED  BY <2>1, <2>2, <2>3 DEF SeenCalls, Unseen
<1>6. delivered'[i] = delivered[i] + 1
    <2>1. delivered \in [Node -> 0 .. MaxCalls]  BY DEF IInv, TypeOK
    <2> QED  BY <2>1 DEF Counted
<1>9. CASE view[i] = 1
    <2>s. objects'[i] = IF c \in seen THEN Append(x \o y, c) ELSE x \o y
        BY <1>3, <1>9 DEF Sees
    <2>1. /\ m = delivered[i] /\ n = 0 /\ c = order[1][m + 1]
          /\ SeenOne(i)' = m + 1 /\ DeliveredTwo(i)' = n
          /\ m < Len(order[1])
        BY <1>1, <1>6, <1>9 DEF SeenOne, DeliveredTwo, NextCall, Delivering
    <2>2. m \in 0 .. Len(order[1]) - 1  BY <1>2, <2>1
    <2> DEFINE s == order[1]
               a == Upto(s, m)
    <2>3. s \in Seq(Call) /\ m \in 0 .. Len(s) /\ m \in 0 .. Len(s) - 1  BY <1>1, <1>2, <2>2
    <2>4. y = <<>>
        <3> DEFINE r == order[2]
        <3>1. r \in Seq(Call)  BY <1>1
        <3> HIDE DEF r
        <3>2. Upto(r, 0) = <<>>  BY <3>1, UptoNone
        <3> HIDE DEF group, seen
        <3>3. Select(<<>>, group) = <<>>  BY SelectEmpty
        <3> QED  BY <2>1, <3>2, <3>3 DEF r
    <2> HIDE DEF m, s, c, group, seen
    <2>5. a \in Seq(Call) /\ Upto(s, m + 1) = Append(a, c)
        <3>1. a \in Seq(Call)  BY <2>3, UptoType
        <3>2. Upto(s, m + 1) = Append(a, s[m + 1])  BY <2>3, UptoNext
        <3> QED  BY <2>1, <3>1, <3>2 DEF s
    <2> HIDE DEF a
    <2>6. Select(Append(a, c), seen) =
              IF c \in seen THEN Append(Select(a, seen), c) ELSE Select(a, seen)
        BY <1>1, <2>5, SelectAppend
    <2>7. x = Select(a, seen)  BY DEF a, s
    <2> HIDE DEF x, y
    <2>8. x \o y = x  BY <1>4, <2>4
    <2>9. Select(Upto(order'[1], SeenOne(i)'), SeenCalls(i)')
              = IF c \in seen THEN Append(x, c) ELSE x
        BY <1>5, <2>1, <2>5, <2>6, <2>7 DEF s
    <2>10. Select(Upto(order'[2], DeliveredTwo(i)'), GroupCalls') = <<>>
        BY <1>5, <2>1, <2>4 DEF y
    <2>11. Append(x, c) \o <<>> = Append(x, c) /\ x \o <<>> = x
        BY <1>1, <1>4
    <2>12. objects'[i] = Select(Upto(order'[1], SeenOne(i)'), SeenCalls(i)')
                         \o Select(Upto(order'[2], DeliveredTwo(i)'), GroupCalls')
        BY <2>s, <2>8, <2>9, <2>10, <2>11
    <2> QED  BY <2>12 DEF ObjectFits
<1>10. CASE view[i] = 2
    <2>s. objects'[i] = IF c \in group THEN Append(x \o y, c) ELSE x \o y
        BY <1>3, <1>10 DEF Sees
    <2>1. /\ n = delivered[i] /\ m = cut /\ c = order[2][n + 1]
          /\ SeenOne(i)' = m /\ DeliveredTwo(i)' = n + 1
          /\ n < Len(order[2])
        BY <1>1, <1>6, <1>10 DEF SeenOne, DeliveredTwo, NextCall, Delivering
    <2>2. n \in 0 .. Len(order[2]) - 1  BY <1>2, <2>1
    <2> DEFINE s == order[2]
               a == Upto(s, n)
    <2>3. s \in Seq(Call) /\ n \in 0 .. Len(s) /\ n \in 0 .. Len(s) - 1  BY <1>1, <1>2, <2>2
    <2> HIDE DEF n, s, c, group, seen
    <2>5. a \in Seq(Call) /\ Upto(s, n + 1) = Append(a, c)
        <3>1. a \in Seq(Call)  BY <2>3, UptoType
        <3>2. Upto(s, n + 1) = Append(a, s[n + 1])  BY <2>3, UptoNext
        <3> QED  BY <2>1, <3>1, <3>2 DEF s
    <2> HIDE DEF a
    <2>6. Select(Append(a, c), group) =
              IF c \in group THEN Append(Select(a, group), c) ELSE Select(a, group)
        BY <1>1, <2>5, SelectAppend
    <2>7. y = Select(a, group)  BY DEF a, s
    <2> HIDE DEF y
    <2>9. Select(Upto(order'[2], DeliveredTwo(i)'), GroupCalls')
              = IF c \in group THEN Append(y, c) ELSE y
        BY <1>5, <2>1, <2>5, <2>6, <2>7 DEF s
    <2>10. Select(Upto(order'[1], SeenOne(i)'), SeenCalls(i)') = x
        BY <1>5, <2>1
    <2> HIDE DEF x
    <2>11. Append(x \o y, c) = x \o Append(y, c)
        <3>1. c \in Call  BY <1>1
        <3>2. x \in Seq(Call)  BY <1>4
        <3>3. y \in Seq(Call)  BY <1>4
        <3>4. <<c>> \in Seq(Call) /\ x \o y \in Seq(Call)  BY <3>1, <3>2, <3>3
        <3>5. (x \o y) \o <<c>> = x \o (y \o <<c>>)
            BY <3>2, <3>3, <3>4, ConcatAssociative
        <3>6. Append(x \o y, c) = (x \o y) \o <<c>>  BY <3>1, <3>4, AppendIsConcat
        <3>7. Append(y, c) = y \o <<c>>  BY <3>1, <3>3, AppendIsConcat
        <3> QED  BY <3>5, <3>6, <3>7, Zenon
    <2>12. objects'[i] = Select(Upto(order'[1], SeenOne(i)'), SeenCalls(i)')
                         \o Select(Upto(order'[2], DeliveredTwo(i)'), GroupCalls')
        BY <2>s, <2>9, <2>10, <2>11
    <2> QED  BY <2>12 DEF ObjectFits
<1> QED  BY <1>1, <1>9, <1>10

\* The objects have seen what was delivered, whatever happens.
LEMMA ObjectsStep ==
    ASSUME IInv, [Next]_vars
    PROVE  ObjectsFit'
<1>t. /\ TypeOK /\ PhasesFit /\ view \in [Node -> {1, 2}] /\ phase \in [Node -> Phase]
      /\ delivered \in [Node -> 0 .. MaxCalls] /\ objects \in [Node -> Seq(Call)]
      /\ Callers \subseteq Node /\ cut \in 0 .. MaxCalls + 1 /\ MaxCalls \in Nat
    BY CallsType DEF IInv, TypeOK
<1>q. ASSUME \A k \in Node : ObjectFits(k)'
      PROVE  ObjectsFit'
    BY <1>q DEF ObjectFits, ObjectsFit, Upto
<1>k. ASSUME NEW k \in Node, objects'[k] = objects[k], view'[k] = view[k],
             delivered'[k] = delivered[k], cut' = cut,
             phase'[k] = phase[k] \/ ~ (Joining(k) \/ phase'[k] \in {"joining", "joined"})
      PROVE  ObjectFits(k)'
    <2>1. SeenOne(k)' = SeenOne(k) /\ DeliveredTwo(k)' = DeliveredTwo(k)
        BY <1>k DEF SeenOne, DeliveredTwo, Joining
    <2>2. CASE phase[k] # "joining"  BY <1>k, <2>1, <2>2, ObjectStays
    <2>3. CASE phase[k] = "joining"  BY <1>k, <2>3 DEF ObjectFits, Joining
    <2> QED  BY <2>2, <2>3
<1>u. ASSUME UNCHANGED <<view, delivered, cut, objects>>,
             \A k \in Node : phase'[k] = phase[k]
                             \/ ~ (Joining(k) \/ phase'[k] \in {"joining", "joined"})
      PROVE  ObjectsFit'
    <2>1. \A k \in Node : ObjectFits(k)'  BY <1>u, <1>k
    <2> QED  BY <2>1, <1>q
<1>d. ASSUME NEW i \in Node, Delivering(i), Counted(i),
             UNCHANGED <<view, phase, order, cut, missing, calls>>,
             objects' = [objects EXCEPT ![i] = IF ToGroup(NextCall(i)) /\ ~ NotHere(i, NextCall(i))
                                               THEN Append(@, NextCall(i)) ELSE @],
             Running(i)' /\ ToGroup(NextCall(i)) /\ view[i] = 1 =>
                 NextCall(i) \in missing[i] \/ NextCall(i) \notin CallerMissed
      PROVE  ObjectsFit'
    <2> DEFINE c == NextCall(i)
    <2>1. objects'[i] = IF ToGroup(c) /\ ~ NotHere(i, c) THEN Append(objects[i], c)
                        ELSE objects[i]
        BY <1>d, <1>t
    <2>2. ASSUME Running(i)'
          PROVE  Sees(i) <=> ToGroup(c) /\ ~ NotHere(i, c)
        <3>1. CASE view[i] = 1
            <4>1. Copied(i) = i
                BY <1>d, <3>1, <1>t, NextCallType DEF Copied, PhasesFit
            <4>2. c \in Unseen(i) <=> c \in missing[i] \/ c \in CallerMissed  BY DEF Unseen
            <4> HIDE DEF c
            <4> QED  BY <2>2, <3>1, <4>1, <4>2, <1>d DEF Sees, SeenCalls, ToGroup, NotHere, c
        <3>2. CASE view[i] # 1
            BY <3>2 DEF Sees, ToGroup, NotHere
        <3> QED  BY <3>1, <3>2
    <2>3. ObjectFits(i)'
        <3>1. CASE Running(i)'  BY <1>d, <2>1, <2>2, <3>1, ObjectSees
        <3>2. CASE ~ Running(i)'  BY <3>2 DEF ObjectFits
        <3> QED  BY <3>1, <3>2
    <2>4. ASSUME NEW k \in Node \ {i}
          PROVE  ObjectFits(k)'
        <3>1. objects'[k] = objects[k] /\ delivered'[k] = delivered[k]
            BY <1>d, <1>t DEF Counted
        <3> QED  BY <1>d, <3>1, <1>k
    <2> QED  BY <2>3, <2>4, <1>q
<1>1. ASSUME NEW i \in Callers, NEW nodes \in Targets, GetBuffer(i, nodes)
      PROVE  ObjectsFit'
    BY <1>1, <1>u, <1>t DEF GetBuffer, groupVars, callerVars, Joining
<1>2. ASSUME NEW i \in Callers, NEW j \in Node \ {i}, P2pWrite(i, j)
      PROVE  ObjectsFit'
    BY <1>2, <1>u, <1>t DEF P2pWrite, groupVars, callerVars, Joining
<1>3. ASSUME NEW i \in Node, Crash(i)
      PROVE  ObjectsFit'
    BY <1>3, <1>u, <1>t DEF Crash, groupVars, callerVars, Joining
<1>4. ASSUME NEW i \in Node, Wedge(i)
      PROVE  ObjectsFit'
    BY <1>4, <1>u, <1>t DEF Wedge, groupVars, callerVars, Joining
<1>5. ASSUME NEW i \in Callers, SendCall(i)
      PROVE  ObjectsFit'
    BY <1>5, <1>u, <1>t DEF SendCall, groupVars, callerVars, Joining
<1>6. ASSUME NEW i \in Callers, SendSpins(i)
      PROVE  ObjectsFit'
    BY <1>6, <1>u, <1>t DEF SendSpins, groupVars, callerVars, Joining
<1>7. ASSUME NEW i \in Callers, PushPending(i)
      PROVE  ObjectsFit'
    BY <1>7, <1>u, <1>t DEF PushPending, groupVars, callerVars, Joining
<1>8. ASSUME NEW i \in Callers, P2pPush(i)
      PROVE  ObjectsFit'
    BY <1>8, <1>u, <1>t DEF P2pPush, groupVars, callerVars, Joining
<1>9. ASSUME NEW i \in Node, PassOver(i)
      PROVE  ObjectsFit'
    <2>1. /\ Delivering(i) /\ Counted(i)
          /\ UNCHANGED <<view, phase, order, cut, missing, calls, objects>>
          /\ NotHere(i, NextCall(i)) \/ ~ ToGroup(NextCall(i))
        BY <1>9 DEF PassOver, groupVars, Addressed
    <2>2. objects' = [objects EXCEPT ![i] = IF ToGroup(NextCall(i)) /\ ~ NotHere(i, NextCall(i))
                                            THEN Append(@, NextCall(i)) ELSE @]
        BY <2>1, <1>t
    <2>3. view[i] = 1 /\ ToGroup(NextCall(i)) => NextCall(i) \in missing[i]
        BY <2>1 DEF NotHere
    <2> QED  BY <2>1, <2>2, <2>3, <1>d
<1>10. ASSUME NEW i \in Node, DeliverRemote(i)
       PROVE  ObjectsFit'
    <2> DEFINE c == NextCall(i)
    <2>1. /\ Delivering(i) /\ Counted(i)
          /\ UNCHANGED <<view, phase, order, cut, missing, calls>>
          /\ Execute(c, i) /\ ~ NotHere(i, c)
          /\ HasSocket(i, calls[c].caller) \/ Stopped(i, "socket")
        BY <1>10 DEF DeliverRemote, groupVars
    <2>2. objects' = [objects EXCEPT ![i] = IF ToGroup(c) /\ ~ NotHere(i, c)
                                            THEN Append(@, c) ELSE @]
        BY <2>1 DEF Execute
    <2>3. ASSUME Running(i)', view[i] = 1
          PROVE  c \notin CallerMissed
        <3>1. phase[i] = "running"
            <4>1. HasSocket(i, calls[c].caller)
                <5>1. state \in [Node -> State]  BY <1>t DEF TypeOK
                <5>2. Stopped(i, "socket") => state'[i] = "socket"  BY <5>1 DEF Stopped
                <5> QED  BY <2>1, <2>3, <5>2 DEF Running
            <4> QED  BY <2>3, <4>1, <1>t DEF HasSocket, PhasesFit
        <3>2. cut > MaxCalls  BY <2>1, <2>3, <3>1, GoesOn DEF Delivering
        <3> QED  BY <3>2, NothingMissing
    <2> QED  BY <2>1, <2>2, <2>3, <1>d
<1>11. ASSUME NEW i \in Node, DeliverOwn(i)
       PROVE  ObjectsFit'
    <2> DEFINE c == NextCall(i)
    <2>1. /\ Delivering(i) /\ Counted(i)
          /\ UNCHANGED <<view, phase, order, cut, missing, calls>>
          /\ Execute(c, i) /\ ~ NotHere(i, c) /\ calls[c].caller = i
        BY <1>11 DEF DeliverOwn, groupVars
    <2>2. objects' = [objects EXCEPT ![i] = IF ToGroup(c) /\ ~ NotHere(i, c)
                                            THEN Append(@, c) ELSE @]
        BY <2>1 DEF Execute
    <2>3. view[i] = 1 => c \notin CallerMissed  BY <2>1 DEF NotHere, CallerMissed
    <2> QED  BY <2>1, <2>2, <2>3, <1>d
<1>12. ASSUME NEW i \in Node, NEW j \in Node, RpcRequest(i, j)
       PROVE  ObjectsFit'
    <2> DEFINE c == Head(chan[j][i]).call
    <2>1. /\ UNCHANGED <<view, phase, delivered, cut>> /\ Execute(c, i)
          /\ chan[j][i] # <<>> /\ Head(chan[j][i]).kind = "request"
        BY <1>12 DEF RpcRequest, RpcReads, groupVars
    <2>2. calls[c] = CallTo(j, {i})
        <3>1. PacketFits(j, i, Head(chan[j][i]))  BY <2>1, HeadFits
        <3> QED  BY <2>1, <3>1 DEF PacketFits
    <2>3. ~ ToGroup(c)  BY <2>2, SMTT(40) DEF ToGroup, GroupCalls, CallTo
    <2>4. objects' = [objects EXCEPT ![i] = @]
        BY <2>1, <2>3 DEF Execute
    <2>5. objects' = objects  BY <2>4, <1>t
    <2> QED  BY <2>1, <2>5, <1>u
<1>13. ASSUME NEW i \in Node, NEW j \in Node, RpcAnswer(i, j)
       PROVE  ObjectsFit'
    BY <1>13, <1>u, <1>t DEF RpcAnswer, groupVars, callerVars, Joining
<1>14. ASSUME NEW i \in Node, NEW j \in Node, SendObjects(i, j)
       PROVE  ObjectsFit'
    <2>1. /\ UNCHANGED <<views, view, delivered, cut, missing, order, calls>>
          /\ Running(i) /\ i = Head(views[1]) /\ Running(i)'
          /\ phase[i] = "cleaning" /\ delivered[i] = cut /\ phase[j] = "joining"
          /\ phase' = [phase EXCEPT ![j] = "joined"]
          /\ objects' = [objects EXCEPT ![j] = objects[i]]
        BY <1>14 DEF SendObjects, CleanedUp, Running
    <2>2. view[i] = 1 /\ view[j] = 1  BY <2>1, <1>t DEF PhasesFit, Joining
    <2>3. ASSUME NEW k \in Node, k # j
          PROVE  ObjectFits(k)'
        <3>1. objects'[k] = objects[k] /\ phase'[k] = phase[k] /\ view'[k] = view[k]
              /\ delivered'[k] = delivered[k] /\ cut' = cut
            BY <2>1, <2>3, <1>t
        <3> QED  BY <3>1, <1>k
    <2>4. ObjectFits(j)'
        <3>1. objects'[j] = objects[i] /\ phase'[j] = "joined"  BY <2>1, <1>t
        <3>2. objects'[i] = objects[i] /\ phase'[i] = phase[i]  BY <2>1, <1>t
        <3>3. SeenOne(j)' = SeenOne(i)' /\ DeliveredTwo(j)' = DeliveredTwo(i)'
            BY <2>1, <2>2, <3>1, <3>2 DEF SeenOne, DeliveredTwo
        <3>4. phase[i] # "joining" /\ phase'[i] # "joining" /\ i # j  BY <2>1, <3>2
        <3>5. ObjectFits(i)'  BY <2>3, <3>4
        <3>6. objects'[i] = Select(Upto(order'[1], SeenOne(i)'), SeenCalls(i)')
                            \o Select(Upto(order'[2], DeliveredTwo(i)'), GroupCalls')
            BY <2>1, <3>4, <3>5 DEF ObjectFits
        <3>8. SeenCalls(j)' = SeenCalls(i)'
            <4>1. i \in First /\ j \notin First
                BY <2>1, <2>2, <1>t DEF PhasesFit, Joining
            <4>2. Copied(i)' = i /\ Copied(j)' = i  BY <2>1, <4>1 DEF Copied, First
            <4> QED  BY <4>2 DEF SeenCalls
        <3>7. objects'[j] = Select(Upto(order'[1], SeenOne(j)'), SeenCalls(j)')
                            \o Select(Upto(order'[2], DeliveredTwo(j)'), GroupCalls')
            BY <3>1, <3>2, <3>3, <3>6, <3>8
        <3> QED  BY <3>7 DEF ObjectFits
    <2> QED  BY <2>3, <2>4, <1>q
<1>15. ASSUME NEW i \in Node, Cleanup(i)
       PROVE  ObjectsFit'
    BY <1>15, <1>u, <1>t DEF Cleanup, groupVars, callerVars, Joining
<1>16. ASSUME NEW i \in Node, InstallView(i)
       PROVE  ObjectsFit'
    <2>1. /\ UNCHANGED <<cut, objects>> /\ i \in Second /\ phase[i] \in {"cleaning", "joined"}
          /\ Handshake
          /\ phase' = [phase EXCEPT ![i] = "installed"]
          /\ view' = [view EXCEPT ![i] = 2] /\ delivered' = [delivered EXCEPT ![i] = 0]
        BY <1>16 DEF InstallView
    <2>2. view[i] = 1  BY <2>1, <1>t DEF PhasesFit
    <2>3. ASSUME NEW k \in Node, k # i
          PROVE  ObjectFits(k)'
        <3>1. objects'[k] = objects[k] /\ phase'[k] = phase[k] /\ view'[k] = view[k]
              /\ delivered'[k] = delivered[k] /\ cut' = cut
            BY <2>1, <2>3, <1>t
        <3> QED  BY <3>1, <1>k
    <2>4. ObjectFits(i)'
        <3>1. SeenOne(i) = cut
            <4>1. CASE phase[i] = "cleaning"
                BY <2>1, <2>2, <4>1 DEF SeenOne, Handshake, CleanedUp
            <4>2. CASE phase[i] = "joined"  BY <4>2 DEF SeenOne
            <4> QED  BY <2>1, <4>1, <4>2
        <3>2. view'[i] = 2 /\ delivered'[i] = 0  BY <2>1, <1>t
        <3>3. SeenOne(i)' = SeenOne(i) /\ DeliveredTwo(i)' = DeliveredTwo(i)
            BY <2>1, <2>2, <3>1, <3>2 DEF SeenOne, DeliveredTwo
        <3> QED  BY <2>1, <3>3, ObjectStays
    <2> QED  BY <2>3, <2>4, <1>q
<1>17. ASSUME NEW i \in Node, ViewUpcall(i)
       PROVE  ObjectsFit'
    BY <1>17, <1>u, <1>t DEF ViewUpcall, groupVars, callerVars, Joining
<1>18. ASSUME LeaderCleanup
       PROVE  ObjectsFit'
    <2>1. cut > MaxCalls /\ UNCHANGED <<view, phase, delivered, objects>>
        BY <1>18 DEF LeaderCleanup
    <2>2. ~ (cut <= MaxCalls)  BY <2>1, <1>t
    <2>3. ASSUME NEW k \in Node
          PROVE  ObjectFits(k)'
        <3>1. view[k] = 1 /\ phase[k] # "joined"  BY <2>2, <1>t DEF PhasesFit
        <3>2. SeenOne(k)' = SeenOne(k) /\ DeliveredTwo(k)' = DeliveredTwo(k)
            BY <2>1, <3>1 DEF SeenOne, DeliveredTwo
        <3>3. CASE phase[k] # "joining"  BY <2>1, <3>2, <3>3, ObjectStays
        <3>4. CASE phase[k] = "joining"  BY <2>1, <3>4 DEF ObjectFits
        <3> QED  BY <3>3, <3>4
    <2> QED  BY <2>3, <1>q
<1>19. CASE UNCHANGED vars
    BY <1>19, <1>u, <1>t DEF vars, groupVars, callerVars, Joining
<1> QED
    BY <1>1, <1>2, <1>3, <1>4, <1>5, <1>6, <1>7, <1>8, <1>9, <1>10,
       <1>11, <1>12, <1>13, <1>14, <1>15, <1>16, <1>17, <1>18, <1>19
    DEF Next, Environment, Threads

-----------------------------------------------------------------------------
(***************************************************************************)
(* The invariant holds.                                                    *)
(***************************************************************************)
LEMMA InitIInv == Init => IInv
<1> SUFFICES ASSUME Init
             PROVE  IInv
    OBVIOUS
<1>1. /\ views \in Plans /\ Callers \subseteq Node /\ MaxCalls \in Nat
      /\ MaxCalls + 1 \in 0 .. MaxCalls + 1 /\ 0 \in 0 .. MaxCalls /\ ~ (MaxCalls + 1 <= MaxCalls)
    BY DEF Init, CallsAssumption
<1>2. /\ order = << <<>>, <<>> >> /\ order \in [1 .. 2 -> Seq(Call)]
      /\ order[1] = <<>> /\ order[2] = <<>> /\ Len(order[1]) = 0 /\ Len(order[2]) = 0
    <2>1. order = << <<>>, <<>> >>  BY DEF Init
    <2>2. order[1] = <<>> /\ order[2] = <<>> /\ Len(<<>>) = 0 /\ <<>> \in Seq(Call)
        BY <2>1
    <2>3. order = [v \in 1 .. 2 |-> <<>>]
        <3> DEFINE a == <<>>
        <3>1. order = <<a, a>>  BY <2>1
        <3> HIDE DEF a
        <3>2. <<a, a>> = [v \in 1 .. 2 |-> a]  OBVIOUS
        <3> QED  BY <3>1, <3>2 DEF a
    <2> QED  BY <2>1, <2>2, <2>3
<1>3. /\ calls = <<>> /\ calls \in Seq(Made) /\ Len(calls) = 0 /\ DOMAIN calls = {}
      /\ GroupCalls = {} /\ \A i : CallsOf(i) = {}
    BY DEF Init, GroupCalls, CallsOf
<1>4. /\ app = [i \in Node |-> Idle] /\ Idle \in Activity /\ Idle.pc = "idle"
    BY <1>1 DEF Init, Idle, Activity
<1>5. TypeOK
    <2>1. /\ state \in [Node -> State] /\ view \in [Node -> {1, 2}] /\ phase \in [Node -> Phase]
        BY DEF Init, State, Phase
    <2>2. /\ delivered \in [Node -> 0 .. MaxCalls] /\ cut \in 0 .. MaxCalls + 1
          /\ app \in [Node -> Activity] /\ Len(calls) <= MaxCalls
        BY <1>1, <1>3, <1>4 DEF Init
    <2>3. /\ toFulfillQueue \in [Node -> Seq(Call)] /\ fulfilledList \in [Node -> SUBSET Call]
          /\ dest_nodes \in [Call -> SUBSET Node] /\ objects \in [Node -> Seq(Call)]
          /\ executions \in [Call -> [Node -> Nat]]
        BY DEF Init
    <2>4. outcomes \in [Call -> [Node -> Outcome]]  BY DEF Init, Outcome
    <2>5. chan \in [Node -> [Node -> Seq(Message)]]
        <3>1. \A j \in Node : <<>> \in Seq(Message)  OBVIOUS
        <3> QED  BY DEF Init
    <2>6. missing \in [Node -> SUBSET Call]  BY DEF Init
    <2> QED  BY <1>1, <1>2, <1>3, <2>1, <2>2, <2>3, <2>4, <2>5, <2>6 DEF TypeOK
<1>6. PhasesFit
    <2>1. \A i \in Node : /\ view[i] = 1 /\ delivered[i] = 0
                          /\ phase[i] = IF i \in First THEN "running" ELSE "joining"
        BY DEF Init
    <2> QED  BY <2>1 DEF PhasesFit, Joining
<1>7. CutFits  BY <1>1 DEF Init, CutFits
<1>8. OrdersFit
    <2>1. \A i \in Node : view[i] = 1 /\ delivered[i] = 0  BY DEF Init
    <2>2. IsInjective(<<>>) /\ Range(<<>>) = {}  BY DEF IsInjective, Range
    <2>3. \A v \in 1 .. 2 : order[v] = <<>>  BY <1>2
    <2>4. 1 .. 0 = {}  OBVIOUS
    <2> QED  BY <1>2, <2>1, <2>2, <2>3, <2>4 DEF OrdersFit
<1>9. AppFits  BY <1>3, <1>4 DEF AppFits
<1>10. ExecutionsFit  BY DEF Init, ExecutionsFit
<1>11. OutcomesFit  BY DEF Init, OutcomesFit
<1>12. PacketsFit
    <2>1. \A i, j \in Node : chan[i][j] = <<>>  BY DEF Init
    <2>2. \A i, j \in Node : 1 .. Len(chan[i][j]) = {}  BY <2>1
    <2> QED  BY <2>2 DEF PacketsFit
<1>13. FulfilledFits
    <2>1. /\ \A i \in Node : fulfilledList[i] = {} /\ toFulfillQueue[i] = <<>>
          /\ \A c \in Call : dest_nodes[c] = {}
        BY DEF Init
    <2>2. Range(<<>>) = {}  BY DEF Range
    <2> QED  BY <1>3, <2>1, <2>2 DEF FulfilledFits
<1>14. AnswersFit  BY DEF Init, AnswersFit
<1>e. \A S : Select(<<>>, S) = <<>>  BY SelectEmpty
<1>n. <<>> \o <<>> = <<>> /\ SubSeq(<<>>, 1, 0) = <<>>  OBVIOUS
<1>15. QueuesFit
    <2> SUFFICES ASSUME NEW i \in Node
                 PROVE  toFulfillQueue[i] \o Select(Pushing(i), OwnGroupCalls(i))
                            = PassedOver(i) \o Select(Coming(i), OwnGroupCalls(i))
        BY DEF QueuesFit
    <2>1. toFulfillQueue[i] = <<>> /\ view[i] = 1 /\ delivered[i] = 0  BY DEF Init
    <2>2. Pushing(i) = <<>>  BY <1>4 DEF Pushing
    <2>3. Coming(i) = <<>>
        <3>1. Coming(i) = SubSeq(<<>>, 0 + 1, 0)  BY <1>2, <2>1 DEF Coming
        <3> QED  BY <3>1, <1>n
    <2>4. PassedOver(i) = <<>>
        <3>1. Passed(i) = <<>>  BY <1>2, <1>n, <2>1 DEF Passed
        <3> QED  BY <3>1, <1>e DEF PassedOver
    <2> QED  BY <2>1, <2>2, <2>3, <2>4, <1>e, <1>n
<1>16. ObjectsFit
    <2> SUFFICES ASSUME NEW i \in Node, phase[i] # "joining"
                 PROVE  objects[i] = Select(SubSeq(order[1], 1, SeenOne(i)), SeenCalls(i))
                                     \o Select(SubSeq(order[2], 1, DeliveredTwo(i)), GroupCalls)
        BY DEF ObjectsFit
    <2>1. /\ objects[i] = <<>> /\ view[i] = 1 /\ delivered[i] = 0 /\ phase[i] # "joined"
        BY DEF Init
    <2>2. SeenOne(i) = 0 /\ DeliveredTwo(i) = 0  BY <2>1 DEF SeenOne, DeliveredTwo
    <2>3. SubSeq(order[1], 1, SeenOne(i)) = <<>> /\ SubSeq(order[2], 1, DeliveredTwo(i)) = <<>>
        BY <1>2, <2>2, <1>n
    <2> QED  BY <2>1, <2>3, <1>e, <1>n
<1>17. MissingFits
    <2>1. \A i \in Node : missing[i] = {}  BY DEF Init
    <2> QED  BY <1>1, <2>1 DEF MissingFits, CutShort
<1> QED
    BY <1>5, <1>6, <1>7, <1>8, <1>9, <1>10, <1>11, <1>12, <1>13, <1>14, <1>15, <1>16, <1>17
    DEF IInv

LEMMA NextIInv == IInv /\ [Next]_vars => IInv'
<1> SUFFICES ASSUME IInv, [Next]_vars
             PROVE  IInv'
    OBVIOUS
<1>1. TypeOK'  BY TypeStep DEF IInv
<1>2. PhasesFit' /\ CutFits' /\ MissingFits' /\ OrdersFit' /\ AppFits'
    BY PhasesStep, CutStep, MissingStep, OrdersStep, AppStep
<1>3. ExecutionsFit' /\ OutcomesFit' /\ PacketsFit'
    BY ExecutionsStep, OutcomesStep, PacketsStep
<1>4. FulfilledFits' /\ AnswersFit'  BY FulfilledStep, AnswersStep
<1>5. QueuesFit' /\ ObjectsFit'  BY QueuesStep, ObjectsStep
<1> QED  BY <1>1, <1>2, <1>3, <1>4, <1>5 DEF IInv

LEMMA Invariance == Spec => []IInv
<1>1. Init => IInv  BY InitIInv
<1>2. IInv /\ [Next]_vars => IInv'  BY NextIInv
<1> QED  BY <1>1, <1>2, PTL DEF Spec

-----------------------------------------------------------------------------
(***************************************************************************)
(* The theorems.                                                           *)
(***************************************************************************)
\* Every variable keeps its type in every execution.
THEOREM TypeCorrect == Spec => []TypeOK
<1>1. IInv => TypeOK  BY DEF IInv
<1> QED  BY <1>1, Invariance, PTL

\* deliver_message finds in front of toFulfillQueue the call that it delivers,
\* for every order of the calls, over a view change and for what is sent again:
\* fulfil() never gets the results of another call.
THEOREM FrontDelivered == Spec => []FrontIsDelivered
<1>1. IInv => FrontIsDelivered
    <2> SUFFICES ASSUME IInv, NEW i \in Callers, Running(i)
                 PROVE  toFulfillQueue[i] \o Select(Pushing(i), OwnGroupCalls(i))
                            = PassedOver(i) \o Select(Coming(i), OwnGroupCalls(i))
        BY DEF FrontIsDelivered, Pushing, OwnGroupCalls, Coming, PassedOver, Passed
    <2>1. i \in Node  BY CallsType DEF IInv
    <2> QED  BY <2>1 DEF IInv, QueuesFit
<1> QED  BY <1>1, Invariance, PTL

\* set_exceptions_for_removed_nodes in the view upcall: a caller that is in the
\* second view again waits for nobody who is gone, because std::set_difference
\* misses none of them whatever the order of the members is.
THEOREM RemovedAnswered == Spec => []RemovedAreAnswered
<1>1. IInv => RemovedAreAnswered
    <2> SUFFICES ASSUME IInv, NEW i \in Callers, view[i] = 2, phase[i] = "running",
                        NEW c \in fulfilledList[i], ToGroup(c), NEW n \in dest_nodes[c] \ members(i)
                 PROVE  Satisfied(c, n)
        BY DEF RemovedAreAnswered
    <2>1. i \in Node  BY CallsType DEF IInv
    <2>2. Len(views) = 2  BY <2>1 DEF IInv, PhasesFit
    <2>3. members(i) = Second  BY <2>2 DEF members, Second
    <2> QED  BY <2>1, <2>3 DEF IInv, AnswersFit
<1> QED  BY <1>1, Invariance, PTL

\* But for the calls that a member has not received in the cleanup and their callers
\* have, members that have delivered equally many messages of a view have objects
\* that have executed the same calls in the same order, the objects a client has got
\* from the leader when it joined (managed_group_impl.h, SendObjects) and the calls
\* that are sent again included.
THEOREM ObjectsEqual == Spec => []ObjectsAgree
<1>1. IInv => ObjectsAgree
    <2> DEFINE A == Call \ Diverged
               x(k) == Upto(order[1], SeenOne(k))
               y(k) == Upto(order[2], DeliveredTwo(k))
               common == (GroupCalls \ CallerMissed) \cap A
    <2>1. ASSUME IInv, NEW k \in Node, Running(k), phase[k] \notin {"joining", "joined"}
          PROVE  Select(objects[k], A) = Select(x(k), common) \o Select(y(k), GroupCalls \cap A)
        <3> DEFINE S == SeenCalls(k)
                   G == GroupCalls
                   u == x(k)
                   v == y(k)
                   a == Select(u, S)
                   b == Select(v, G)
        <3>1. objects[k] = a \o b  BY <2>1 DEF IInv, ObjectsFit, Upto
        <3>2. u \in Seq(Call) /\ v \in Seq(Call)
            <4> DEFINE s == order[1]
                       t == order[2]
                       m == SeenOne(k)
                       n == DeliveredTwo(k)
            <4>1. /\ s \in Seq(Call) /\ t \in Seq(Call)
                  /\ m \in 0 .. Len(s) /\ n \in 0 .. Len(t)
                BY <2>1, OrderType, SeenBounds DEF IInv
            <4> HIDE DEF s, t, m, n
            <4>2. Upto(s, m) \in Seq(Call) /\ Upto(t, n) \in Seq(Call)  BY <4>1, UptoType
            <4> QED  BY <4>2 DEF s, t, m, n
        <3>3. S \cap A = common
            <4>1. Copied(k) \in Node
                <5>1. views \in Plans /\ views[1] \in Seq(Nat)  BY <2>1, ViewsType DEF IInv, TypeOK
                <5>2. views[1] # <<>>  BY <5>1 DEF CallsAssumption
                <5>3. Head(views[1]) = views[1][1] /\ 1 \in DOMAIN views[1]  BY <5>1, <5>2
                <5>4. Head(views[1]) \in First  BY <5>3 DEF First, Range
                <5>5. First \subseteq Node  BY <5>1, ViewsType
                <5> QED  BY <5>4, <5>5 DEF Copied
            <4> QED  BY <4>1 DEF SeenCalls, Unseen, CallerMissed, Diverged, GroupCalls
        <3> HIDE DEF S, G, A, common, u, v
        <3>4. a \in Seq(Call) /\ b \in Seq(Call)  BY <3>2, SelectType
        <3>5. Select(a, A) = Select(u, S \cap A) /\ Select(b, A) = Select(v, G \cap A)
            BY <3>2, SelectTwice
        <3> HIDE DEF a, b
        <3>6. Select(a \o b, A) = Select(a, A) \o Select(b, A)  BY <3>4, SelectConcat
        <3> QED  BY <3>1, <3>3, <3>5, <3>6 DEF u, v, G
    <2> HIDE DEF A, common
    <2> SUFFICES ASSUME IInv, NEW i \in Node, NEW j \in Node, Running(i), Running(j),
                        phase[i] \notin {"joining", "joined"},
                        phase[j] \notin {"joining", "joined"},
                        view[i] = view[j], delivered[i] = delivered[j]
                 PROVE  Select(objects[i], A) = Select(objects[j], A)
        BY DEF ObjectsAgree, A
    <2>2. SeenOne(i) = SeenOne(j) /\ DeliveredTwo(i) = DeliveredTwo(j)
        BY DEF SeenOne, DeliveredTwo
    <2> QED  BY <2>1, <2>2
<1> QED  BY <1>1, Invariance, PTL

(***************************************************************************)
(* What set_exceptions_for_removed_nodes needs: std::set_difference must   *)
(* not report a member that stays, which it may do when the members are    *)
(* not in ascending order.                                                 *)
(***************************************************************************)
RemovedAreGone ==
    \A plan \in Plans : Len(plan) = 2 =>
        set_difference(plan[1], plan[2]) \cap Range(plan[2]) = {}

\* A view that keeps all members of the one before in their places, whatever the
\* order, has nobody removed: joining does no harm.
LEMMA NothingForJoining ==
    ASSUME NEW a \in Seq(Nat), NEW b \in Seq(Nat), Len(a) <= Len(b),
           \A k \in 1 .. Len(a) : b[k] = a[k]
    PROVE  set_difference(a, b) = {}
<1> DEFINE N == Len(a) + Len(b)
           Even(w) == w.result = {} /\ (w.first <= Len(a) => w.second = w.first)
<1>1. PICK g : Walks(g, a, b) /\ set_difference(a, b) = g[N].result
    BY DifferenceLoop
<1>2. N \in Nat /\ Len(a) \in Nat /\ Len(b) \in Nat
      /\ (\A k \in 1 .. Len(a) : a[k] \in Nat)
    OBVIOUS
<1> DEFINE Good == {m \in Nat : m <= N => Even(g[m])}
<1>3. 0 \in Good  BY <1>1 DEF Walks, Start
<1>4. ASSUME NEW m \in Nat, m \in Good
      PROVE  m + 1 \in Good
    <2> SUFFICES ASSUME m + 1 <= N
                 PROVE  Even(g[m + 1])
        OBVIOUS
    <2> DEFINE w == g[m]
               v == g[m + 1]
    <2>1. w \in Position(a, b) /\ Even(w)
        <3>1. m \in 0 .. N /\ m <= N  BY <1>2
        <3>2. w \in Position(a, b)  BY <3>1, <1>1 DEF Walks
        <3>3. Even(w)  BY <3>1, <1>4
        <3> QED  BY <3>2, <3>3
    <2>2. v = Advance(w, a, b)
        <3>1. m + 1 \in 1 .. N /\ m + 1 - 1 = m  BY <1>2
        <3> QED  BY <3>1, <1>1 DEF Walks
    <2>3. /\ w.first \in 1 .. Len(a) + 1 /\ w.second \in 1 .. Len(b) + 1
          /\ w = [first |-> w.first, second |-> w.second, result |-> w.result]
        BY <2>1 DEF Position
    <2> HIDE DEF w, v
    <2>4. CASE w.first > Len(a)
        <3>1. v = w  BY <2>2, <2>4 DEF Advance
        <3> QED  BY <2>1, <3>1 DEF v
    <2>5. CASE w.first <= Len(a)
        <3>1. /\ w.second = w.first /\ w.first \in 1 .. Len(a) /\ ~ (w.second > Len(b))
              /\ a[w.first] \in Nat /\ b[w.second] = a[w.first]
            BY <2>1, <2>3, <2>5, <1>2
        <3>2. ~ (a[w.first] < b[w.second]) /\ ~ (b[w.second] < a[w.first])
            BY <3>1
        <3>3. v = [w EXCEPT !.first = @ + 1, !.second = @ + 1]
            BY <2>2, <2>3, <2>5, <3>1, <3>2, <1>2, SMTT(40) DEF Advance
        <3>4. v.first = w.first + 1 /\ v.second = w.second + 1 /\ v.result = w.result
            BY <2>3, <3>3
        <3> QED  BY <2>1, <3>1, <3>4 DEF v
    <2>6. w.first \in Nat  BY <2>3
    <2> QED  BY <2>4, <2>5, <2>6, <1>2
<1>5. Nat \subseteq Good
    <2> HIDE DEF Good
    <2> QED  BY <1>3, <1>4, NatSet
<1>6. N \in Good  BY <1>2, <1>5
<1> QED  BY <1>1, <1>2, <1>6

Joins(plan) ==
    Len(plan[1]) <= Len(plan[2]) /\ \A k \in 1 .. Len(plan[1]) : plan[2][k] = plan[1][k]

\* The hypothesis of the two theorems below holds for every plan whose second view
\* only adds members, and for every plan whose views are in ascending order.
THEOREM WhenRemovedAreGone ==
    ASSUME \A plan \in Plans : Len(plan) = 2 =>
               Joins(plan) \/ (Ascending(plan[1]) /\ Ascending(plan[2]))
    PROVE  RemovedAreGone
<1> SUFFICES ASSUME NEW plan \in Plans, Len(plan) = 2
             PROVE  set_difference(plan[1], plan[2]) \cap Range(plan[2]) = {}
    BY DEF RemovedAreGone
<1>1. plan \in Seq(Seq(Nat))  BY DEF CallsAssumption
<1>2. plan[1] \in Seq(Nat) /\ plan[2] \in Seq(Nat)  BY <1>1
<1>3. CASE Ascending(plan[1]) /\ Ascending(plan[2])  BY <1>2, <1>3, NothingTooMuch
<1>4. CASE Joins(plan)
    <2> DEFINE a == plan[1]
               b == plan[2]
    <2>1. /\ a \in Seq(Nat) /\ b \in Seq(Nat) /\ Len(a) <= Len(b)
          /\ \A k \in 1 .. Len(a) : b[k] = a[k]
        BY <1>2, <1>4 DEF Joins
    <2> HIDE DEF a, b
    <2>2. set_difference(a, b) = {}  BY <2>1, NothingForJoining
    <2> QED  BY <2>2 DEF a, b
<1> QED  BY <1>3, <1>4

\* Who is reported as removed is not in the group of the caller.
LEMMA RemovedIsLost ==
    ASSUME RemovedAreGone, IInv, NEW k \in Node, view[k] = 2, NEW n \in RemovedMembers
    PROVE  n \notin members(k)
<1>1. Len(views) = 2 /\ views \in Plans  BY DEF IInv, PhasesFit, TypeOK
<1> QED  BY <1>1 DEF RemovedAreGone, RemovedMembers, members

\* No promise is satisfied a second time, neither by a delivery nor by an answer
\* that is late: a caller that has reported a member as removed has no
\* connection to it any more, and a call is executed once.
THEOREM PromisesSetOnce ==
    ASSUME RemovedAreGone
    PROVE  Spec => []PromiseSetOnce
<1>1. Init => PromiseSetOnce  BY DEF Init, PromiseSetOnce
<1>2. IInv /\ PromiseSetOnce /\ [Next]_vars => PromiseSetOnce'
    <2> SUFFICES ASSUME IInv, PromiseSetOnce, [Next]_vars
                 PROVE  PromiseSetOnce'
        OBVIOUS
    <2>t. state \in [Node -> State] /\ \A k \in Node : state[k] # "promise"
        BY DEF IInv, TypeOK, PromiseSetOnce
    <2>u. ASSUME \/ UNCHANGED state
                 \/ \E i \in Node, why \in State \ {"promise"} : Stopped(i, why)
          PROVE  PromiseSetOnce'
        BY <2>u, <2>t DEF PromiseSetOnce, Stopped
    <2>c. Callers \subseteq Node  BY CallsType DEF IInv
    <2>1. ASSUME NEW i \in Callers, NEW nodes \in Targets, GetBuffer(i, nodes)
          PROVE  PromiseSetOnce'
        BY <2>1, <2>u DEF GetBuffer
    <2>2. ASSUME NEW i \in Callers, NEW j \in Node \ {i}, P2pWrite(i, j)
          PROVE  PromiseSetOnce'
        <3>1. UNCHANGED state \/ Stopped(i, "socket")  BY <2>2 DEF P2pWrite
        <3> QED  BY <3>1, <2>u, <2>c DEF State
    <2>3. ASSUME NEW i \in Node, Crash(i)
          PROVE  PromiseSetOnce'
        BY <2>3, <2>u DEF Crash, State
    <2>4. ASSUME NEW i \in Node, Wedge(i)
          PROVE  PromiseSetOnce'
        BY <2>4, <2>u DEF Wedge
    <2>5. ASSUME NEW i \in Callers, SendCall(i) \/ SendSpins(i) \/ PushPending(i)
          PROVE  PromiseSetOnce'
        BY <2>5, <2>u DEF SendCall, SendSpins, PushPending
    <2>6. ASSUME NEW i \in Callers, P2pPush(i)
          PROVE  PromiseSetOnce'
        <3>1. UNCHANGED state \/ Stopped(i, "group")  BY <2>6 DEF P2pPush
        <3> QED  BY <3>1, <2>u, <2>c DEF State
    <2>7. ASSUME NEW i \in Node, PassOver(i)
          PROVE  PromiseSetOnce'
        BY <2>7, <2>u DEF PassOver
    <2>8. ASSUME NEW i \in Node, DeliverRemote(i)
          PROVE  PromiseSetOnce'
        <3>1. UNCHANGED state \/ Stopped(i, "socket")  BY <2>8 DEF DeliverRemote
        <3> QED  BY <3>1, <2>u DEF State
    <2>9. ASSUME NEW i \in Node, DeliverOwn(i)
          PROVE  PromiseSetOnce'
        <3> DEFINE c == NextCall(i)
        <3>1. Delivering(i) /\ calls[c].caller = i  BY <2>9 DEF DeliverOwn
        <3>2. c \in Call /\ executions[c][i] = 0  BY <3>1, NextCallType, NotExecuted
        <3>3. ~ Satisfied(c, i)
            <4>1. outcomes[c][i] \in Outcome  BY <3>2 DEF IInv, TypeOK
            <4>2. outcomes[c][i] \notin {"value", "exception"}
                BY <3>2 DEF IInv, OutcomesFit
            <4>3. ASSUME outcomes[c][i] = "removed"
                  PROVE  FALSE
                <5>1. view[i] = 2 /\ i \in RemovedMembers
                    BY <3>1, <3>2, <4>3 DEF IInv, OutcomesFit
                <5>2. i \notin members(i)  BY <5>1, RemovedIsLost
                <5>3. i \in Second /\ Len(views) = 2  BY <5>1 DEF IInv, PhasesFit
                <5> QED  BY <5>1, <5>2, <5>3 DEF members, Second
            <4> QED  BY <4>1, <4>2, <4>3 DEF Satisfied, Outcome
        <3>4. UNCHANGED state \/ Stopped(i, "queue")  BY <2>9, <3>3 DEF DeliverOwn
        <3> QED  BY <3>4, <2>u DEF State
    <2>10. ASSUME NEW i \in Node, NEW j \in Node, RpcRequest(i, j)
           PROVE  PromiseSetOnce'
        BY <2>10, <2>u DEF RpcRequest
    <2>11. ASSUME NEW i \in Node, NEW j \in Node, RpcAnswer(i, j)
           PROVE  PromiseSetOnce'
        <3> DEFINE m == Head(chan[j][i])
        <3>1. chan[j][i] # <<>> /\ m.kind # "request" /\ HasSocket(i, j)
            BY <2>11 DEF RpcAnswer, RpcReads
        <3>2. m.call \in Call /\ PacketFits(j, i, m)  BY <3>1, HeadFits
        <3>3. calls[m.call].caller = i /\ outcomes[m.call][j] \in {"none", "removed"}
            BY <3>1, <3>2 DEF PacketFits
        <3>4. outcomes[m.call][j] # "removed"
            <4> SUFFICES ASSUME outcomes[m.call][j] = "removed"
                         PROVE  FALSE
                OBVIOUS
            <4>1. view[i] = 2 /\ j \in RemovedMembers
                BY <3>2, <3>3 DEF IInv, OutcomesFit
            <4>2. j \notin members(i)  BY <4>1, RemovedIsLost
            <4> QED  BY <3>1, <4>2 DEF HasSocket
        <3>5. ~ Satisfied(m.call, j)  BY <3>3, <3>4 DEF Satisfied
        <3> QED  BY <2>11, <3>5, <2>u DEF RpcAnswer
    <2>12. ASSUME NEW i \in Node, NEW j \in Node, SendObjects(i, j)
           PROVE  PromiseSetOnce'
        BY <2>12, <2>u DEF SendObjects
    <2>13. ASSUME NEW i \in Node, Cleanup(i) \/ InstallView(i) \/ ViewUpcall(i)
           PROVE  PromiseSetOnce'
        BY <2>13, <2>u DEF Cleanup, InstallView, ViewUpcall
    <2>14. ASSUME LeaderCleanup
           PROVE  PromiseSetOnce'
        BY <2>14, <2>u DEF LeaderCleanup
    <2>15. CASE UNCHANGED vars  BY <2>15, <2>u DEF vars
    <2> QED
        BY <2>1, <2>2, <2>3, <2>4, <2>5, <2>6, <2>7, <2>8, <2>9, <2>10, <2>11, <2>12, <2>13,
           <2>14, <2>15
        DEF Next, Environment, Threads
<1> QED  BY <1>1, <1>2, Invariance, PTL DEF Spec

\* What the application sees of its calls is what AbstractCalls promises: each
\* member executes a call once, answers only what it has executed, and is
\* reported as removed only when it is not in the group of the caller any more.
THEOREM CallsImplemented ==
    ASSUME RemovedAreGone
    PROVE  Spec => ImplementsCalls
<1>1. Init => Service!Init
    <2> SUFFICES ASSUME Init
                 PROVE  Service!Init
        OBVIOUS
    <2>1. DOMAIN calls = {}  BY DEF Init
    <2>2. \A c \in Call : c \notin DOMAIN calls  BY <2>1
    <2> QED  BY <2>2 DEF Init, Service!Init
<1>2. IInv /\ [Next]_vars => [Service!Next]_Service!avars
    <2> SUFFICES ASSUME IInv, [Next]_vars
                 PROVE  Service!Next
        OBVIOUS
    <2> SUFFICES ASSUME NEW c \in Call, NEW n \in Node
                 PROVE  /\ executions'[c][n] # executions[c][n] => Service!Execution(c, n)
                        /\ outcomes'[c][n] # outcomes[c][n] => Service!Answer(c, n)
        BY DEF Service!Next
    <2>1. executions'[c][n] = executions[c][n] \/ NewExecution(c, n)  BY ExecutionChanges
    <2>2. outcomes'[c][n] = outcomes[c][n] \/ NewOutcome(c, n)  BY OutcomeChanges
    <2>3. NewOutcome(c, n) => Service!Answer(c, n)
        <3> SUFFICES ASSUME NewOutcome(c, n)
                     PROVE  Service!Answer(c, n)
            OBVIOUS
        <3>1. CASE outcomes'[c][n] \in {"value", "exception"} /\ executions'[c][n] = 1
            BY <3>1 DEF NewOutcome, Service!Answer
        <3>2. CASE /\ outcomes'[c][n] = "removed" /\ n \in RemovedMembers
                   /\ c \in DOMAIN calls /\ view[calls[c].caller] = 2
            <4>1. calls[c].caller \in Node  BY <3>2, CallsType DEF IInv
            <4>2. n \notin members(calls[c].caller)  BY <3>2, <4>1, RemovedIsLost
            <4> QED  BY <3>2, <4>2 DEF NewOutcome, Service!Answer
        <3> QED  BY <3>1, <3>2 DEF NewOutcome
    <2> QED  BY <2>1, <2>2, <2>3 DEF NewExecution, Service!Execution
<1> QED  BY <1>1, <1>2, Invariance, PTL DEF Spec, ImplementsCalls, Service!Spec

=============================================================================
