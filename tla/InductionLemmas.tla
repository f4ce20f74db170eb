--------------------------- MODULE InductionLemmas ---------------------------
(***************************************************************************)
(* Induction and recursion over the natural numbers, stated with sets and  *)
(* functions in place of the operator parameters of NaturalsInduction: a   *)
(* proof applies them to the set of the numbers it has a property for, and *)
(* to the function that takes one approximation to the next.  Then, with   *)
(* them, what FlattenSeq of SequencesExt makes of a sequence of sequences. *)
(***************************************************************************)
EXTENDS WellFoundedInduction, TLAPS, SequencesExt

(* Every set of numbers that is not empty has a least element. *)
LEMMA LeastElement ==
  ASSUME NEW T, T \subseteq Nat, T # {}
  PROVE  \E x \in T : \A y \in T : x <= y
  <1>. DEFINE R == { p \in Nat \X Nat : p[1] < p[2] }
  <1>1. R = OpToRel(<, Nat)
    BY DEF OpToRel
  <1>2. IsWellFoundedOn(R, Nat)
    BY <1>1, NatLessThanWellFounded
  <1>3. \A x, y \in Nat : y < x => <<y, x>> \in R
    OBVIOUS
  <1>. HIDE DEF R
  <1>4. PICK x \in T : \A y \in T : <<y, x>> \notin R
    BY <1>2, WFMin
  <1>5. \A y \in T : ~(y < x)
    BY <1>3, <1>4
  <1>. QED
    BY <1>5

(* A set with 0, and with n + 1 if with n, has every number. *)
LEMMA Induction ==
  ASSUME NEW S, 0 \in S, \A n \in Nat : n \in S => n + 1 \in S
  PROVE  Nat \subseteq S
  <1>1. SUFFICES ASSUME Nat \ S # {} PROVE FALSE
    OBVIOUS
  <1>2. PICK x \in Nat \ S : \A y \in Nat \ S : x <= y
    BY <1>1, LeastElement
  <1>3. x # 0 /\ x - 1 \in Nat /\ x - 1 \notin S
    BY <1>2
  <1>. QED
    BY <1>2, <1>3

(* A set with n if with all smaller numbers has every number. *)
LEMMA StrongInduction ==
  ASSUME NEW S, \A n \in Nat : (\A m \in Nat : m < n => m \in S) => n \in S
  PROVE  Nat \subseteq S
  <1>1. SUFFICES ASSUME Nat \ S # {} PROVE FALSE
    OBVIOUS
  <1>2. PICK x \in Nat \ S : \A y \in Nat \ S : x <= y
    BY <1>1, LeastElement
  <1>3. \A m \in Nat : m < x => m \in S
    BY <1>2
  <1>. QED
    BY <1>2, <1>3

(***************************************************************************)
(* A recursive definition: F maps functions to functions, and the value of *)
(* F[g] at n depends only on the values of g below n.                      *)
(***************************************************************************)
Recursive(F, V) ==
  \A g, h \in [Nat -> V], n \in Nat :
    (\A m \in Nat : m < n => g[m] = h[m]) => F[g][n] = F[h][n]

(* It defines a function. *)
LEMMA RecursiveFunction ==
  ASSUME NEW V, NEW F \in [[Nat -> V] -> [Nat -> V]], Recursive(F, V), V # {}
  PROVE  \E f \in [Nat -> V] : f = F[f]
  <1>. DEFINE Good(g, n) == \A m \in Nat : m < n => g[m] = F[g][m]
              S == { n \in Nat : \E g \in [Nat -> V] : Good(g, n) }
  <1>1. 0 \in S
    <2>1. PICK v \in V : TRUE
      OBVIOUS
    <2>2. [n \in Nat |-> v] \in [Nat -> V] /\ Good([n \in Nat |-> v], 0)
      OBVIOUS
    <2>. HIDE DEF Good
    <2>. QED
      BY <2>2
  <1>2. ASSUME NEW n \in Nat, n \in S PROVE n + 1 \in S
    <2>1. PICK g \in [Nat -> V] : Good(g, n)
      BY <1>2
    <2>. DEFINE h == F[g]
    <2>2. h \in [Nat -> V]
      OBVIOUS
    <2>3. ASSUME NEW m \in Nat, m < n + 1 PROVE h[m] = F[h][m]
      <3>1. \A k \in Nat : k < m => g[k] = h[k]
        BY <2>1, <2>3
      <3>. QED
        BY <2>2, <3>1 DEF Recursive
    <2>. QED
      BY <2>2, <2>3
  <1>3. Nat \subseteq S
    <2>. HIDE DEF S
    <2>. QED
      BY <1>1, <1>2, Induction
  <1>4. ASSUME NEW g \in [Nat -> V], NEW h \in [Nat -> V], NEW n \in Nat, Good(g, n), Good(h, n)
        PROVE  \A m \in Nat : m < n => g[m] = h[m]
    <2>. DEFINE A == { m \in Nat : m < n => g[m] = h[m] }
    <2>1. ASSUME NEW m \in Nat, \A k \in Nat : k < m => k \in A PROVE m \in A
      <3>1. CASE m < n
        <4>1. \A k \in Nat : k < m => g[k] = h[k]
          BY <2>1, <3>1
        <4>2. F[g][m] = F[h][m]
          BY <4>1 DEF Recursive
        <4>. QED
          BY <1>4, <3>1, <4>2
      <3>2. CASE ~(m < n)
        BY <3>2
      <3>. QED
        BY <3>1, <3>2
    <2>2. Nat \subseteq A
      <3>. HIDE DEF A
      <3>. QED
        BY <2>1, StrongInduction
    <2>. QED
      BY <2>2
  <1>5. PICK approx \in [Nat -> [Nat -> V]] : \A n \in Nat : Good(approx[n], n)
    <2>1. \A n \in Nat : \E g \in [Nat -> V] : Good(g, n)
      BY <1>3
    <2>. HIDE DEF Good
    <2>2. \A n \in Nat : (CHOOSE g \in [Nat -> V] : Good(g, n)) \in [Nat -> V]
                         /\ Good(CHOOSE g \in [Nat -> V] : Good(g, n), n)
      BY <2>1
    <2>. DEFINE choice == [n \in Nat |-> CHOOSE g \in [Nat -> V] : Good(g, n)]
    <2>3. choice \in [Nat -> [Nat -> V]] /\ \A n \in Nat : Good(choice[n], n)
      BY <2>2
    <2>. HIDE DEF choice, Good
    <2>. QED
      BY <2>3
  <1>. DEFINE f == [n \in Nat |-> approx[n + 1][n]]
  <1>6. f \in [Nat -> V]
    BY <1>5
  <1>7. ASSUME NEW n \in Nat, NEW m \in Nat, m < n PROVE f[m] = approx[n][m]
    <2>1. Good(approx[n], m + 1)
      BY <1>5, <1>7
    <2>2. Good(approx[m + 1], m + 1) /\ approx[m + 1] \in [Nat -> V] /\ approx[n] \in [Nat -> V]
      BY <1>5
    <2>3. approx[m + 1][m] = approx[n][m]
      <3>1. \A k \in Nat : k < m + 1 => approx[m + 1][k] = approx[n][k]
        <4>. HIDE DEF Good
        <4>. QED
          BY <1>4, <2>1, <2>2
      <3>. QED
        BY <3>1
    <2>. QED
      BY <2>3
  <1>8. ASSUME NEW n \in Nat PROVE f[n] = F[f][n]
    <2>. DEFINE a == approx[n + 1]
    <2>1. a \in [Nat -> V] /\ f[n] = a[n]
      BY <1>5
    <2>2. a[n] = F[a][n]
      BY <1>5
    <2>3. \A m \in Nat : m < n => f[m] = a[m]
      <3>. HIDE DEF f
      <3>. QED
        BY <1>7
    <2>. HIDE DEF f, a
    <2>4. F[f][n] = F[a][n]
      BY <1>6, <2>1, <2>3 DEF Recursive
    <2>. QED
      BY <2>1, <2>2, <2>4
  <1>. HIDE DEF f
  <1>9. F[f] \in [Nat -> V]
    BY <1>6
  <1>10. f = F[f]
    BY <1>6, <1>8, <1>9
  <1>. QED
    BY <1>6, <1>10

-----------------------------------------------------------------------------
(***************************************************************************)
(* Sequences of sequences, one element after the other.                    *)
(***************************************************************************)
(* The partial concatenations of the elements of s. *)
IsPartial(g, s) == g[0] = <<>> /\ \A n \in Nat : n < Len(s) => g[n + 1] = g[n] \o s[n + 1]

(* They exist. *)
LEMMA PartialExists ==
  ASSUME NEW V, NEW s \in Seq(Seq(V))
  PROVE  \E g \in [Nat -> Seq(V)] : IsPartial(g, s)
  <1>. DEFINE F == [g \in [Nat -> Seq(V)] |->
                     [n \in Nat |-> IF n = 0 \/ n > Len(s) THEN <<>> ELSE g[n - 1] \o s[n]]]
  <1>1. <<>> \in Seq(V) /\ Len(s) \in Nat
    OBVIOUS
  <1>2. F \in [[Nat -> Seq(V)] -> [Nat -> Seq(V)]]
    <2>. SUFFICES ASSUME NEW g \in [Nat -> Seq(V)], NEW n \in Nat, ~(n = 0 \/ n > Len(s))
                  PROVE  g[n - 1] \o s[n] \in Seq(V)
      BY <1>1
    <2>1. n - 1 \in Nat /\ n \in 1 .. Len(s)
      BY <1>1
    <2>. QED
      BY <2>1
  <1>3. Recursive(F, Seq(V))
    <2>. SUFFICES ASSUME NEW g \in [Nat -> Seq(V)], NEW h \in [Nat -> Seq(V)], NEW n \in Nat,
                         \A m \in Nat : m < n => g[m] = h[m]
                  PROVE  F[g][n] = F[h][n]
      BY DEF Recursive
    <2>1. n # 0 => g[n - 1] = h[n - 1]
      OBVIOUS
    <2>. QED
      BY <2>1
  <1>4. PICK f \in [Nat -> Seq(V)] : f = F[f]
    <2>. HIDE DEF F
    <2>1. Seq(V) # {}
      BY <1>1
    <2>. QED
      BY <1>2, <1>3, <2>1, RecursiveFunction
  <1>5. \A n \in Nat : f[n] = IF n = 0 \/ n > Len(s) THEN <<>> ELSE f[n - 1] \o s[n]
    BY <1>4
  <1>6. \A n \in Nat : n < Len(s) => f[n + 1] = f[n] \o s[n + 1]
    <2>. SUFFICES ASSUME NEW n \in Nat, n < Len(s) PROVE f[n + 1] = f[n] \o s[n + 1]
      OBVIOUS
    <2>. DEFINE l == Len(s)
    <2>1. n < l /\ l \in Nat
      BY <1>1
    <2>. HIDE DEF l, F
    <2>2. n + 1 \in Nat /\ ~(n + 1 = 0 \/ n + 1 > l) /\ (n + 1) - 1 = n
      BY <2>1
    <2>. QED
      BY <1>5, <2>2 DEF l
  <1>. QED
    BY <1>5, <1>6 DEF IsPartial

(* The last of them is the whole. *)
LEMMA FlattenIsPartial ==
  ASSUME NEW V, NEW s \in Seq(Seq(V)), NEW g \in [Nat -> Seq(V)], IsPartial(g, s)
  PROVE  FlattenSeq(s) = g[Len(s)]
  <1>1. CASE Len(s) = 0
    BY <1>1 DEF IsPartial, FlattenSeq
  <1>2. CASE Len(s) # 0
    <2>. DEFINE L == Len(s)
                Next1(f) == [i \in 1 .. L |-> IF i = 1 THEN s[i] ELSE f[i - 1] \o s[i]]
                h == [i \in 1 .. L |-> g[i]]
                flatten == CHOOSE f : f = Next1(f)
    <2>1. L \in Nat \ {0}
      BY <1>2
    <2>2. FlattenSeq(s) = flatten[L]
      BY <1>2 DEF FlattenSeq
    <2>3. \A i \in 1 .. L : g[i] = IF i = 1 THEN s[i] ELSE g[i - 1] \o s[i]
      <3>. SUFFICES ASSUME NEW i \in 1 .. L PROVE g[i] = IF i = 1 THEN s[i] ELSE g[i - 1] \o s[i]
        OBVIOUS
      <3>1. i - 1 \in Nat /\ i - 1 < L /\ (i - 1) + 1 = i
        BY <2>1
      <3>2. g[i] = g[i - 1] \o s[i]
        BY <3>1 DEF IsPartial
      <3>3. CASE i = 1
        <4>1. s[1] \in Seq(V)
          BY <2>1
        <4>2. <<>> \o s[1] = s[1]
          BY <4>1
        <4>3. i - 1 = 0 /\ g[0] = <<>>
          BY <3>3 DEF IsPartial
        <4>4. g[i] = <<>> \o s[1]
          BY <3>2, <3>3, <4>3, Zenon
        <4>. QED
          BY <3>3, <4>2, <4>4
      <3>4. CASE i # 1
        BY <3>2, <3>4
      <3>. QED
        BY <3>3, <3>4
    <2>4. h = Next1(h)
      BY <2>1, <2>3, \A i \in 1 .. L : i # 1 => i - 1 \in 1 .. L
    <2>5. flatten = Next1(flatten)
      <3>. HIDE DEF Next1, h
      <3>. QED
        BY <2>4
    <2>. HIDE DEF flatten, L
    <2>. DEFINE S == { n \in Nat : n < L => flatten[n + 1] = g[n + 1] }
    <2>6. 0 \in S
      BY <2>1, <2>3, <2>5
    <2>7. ASSUME NEW n \in Nat, n \in S PROVE n + 1 \in S
      <3>. SUFFICES ASSUME n + 1 < L PROVE flatten[n + 2] = g[n + 2]
        OBVIOUS
      <3>1. n + 2 \in 1 .. L /\ n + 2 # 1 /\ (n + 2) - 1 = n + 1
        BY <2>1
      <3>2. flatten[n + 2] = flatten[n + 1] \o s[n + 2]
        BY <2>5, <3>1
      <3>3. g[n + 2] = g[n + 1] \o s[n + 2]
        BY <2>3, <3>1
      <3>. QED
        BY <2>1, <2>7, <3>2, <3>3, n < L
    <2>8. Nat \subseteq S
      <3>. HIDE DEF S
      <3>. QED
        BY <2>6, <2>7, Induction
    <2>9. L - 1 \in Nat /\ L - 1 < L /\ (L - 1) + 1 = L
      BY <2>1
    <2>10. flatten[L] = g[L]
      BY <2>8, <2>9
    <2>. QED
      BY <2>2, <2>10 DEF L
  <1>. QED
    BY <1>1, <1>2

(* A function on one position more is an Append. *)
LEMMA MappedAppend ==
  ASSUME NEW V, NEW n \in Nat, NEW f \in [1 .. n -> V], NEW g \in [1 .. n + 1 -> V],
         \A i \in 1 .. n : g[i] = f[i]
  PROVE  f \in Seq(V) /\ g = Append(f, g[n + 1])
  <1>1. f \in Seq(V) /\ Len(f) = n
    BY SMT
  <1>2. g \in Seq(V) /\ Len(g) = n + 1
    BY SMT
  <1>. DEFINE v == g[n + 1]
  <1>3. v \in V
    OBVIOUS
  <1>. HIDE DEF v
  <1>4. Append(f, v) \in Seq(V) /\ Len(Append(f, v)) = n + 1
    BY <1>1, <1>3
  <1>5. \A i \in 1 .. n + 1 : g[i] = Append(f, v)[i]
    BY <1>1, <1>3 DEF v
  <1>6. g = Append(f, v)
    BY <1>2, <1>4, <1>5
  <1>. QED
    BY <1>1, <1>6 DEF v

(* Nothing makes nothing. *)
LEMMA FlattenEmpty == FlattenSeq(<<>>) = <<>>
  BY DEF FlattenSeq

(* The result is a sequence of the elements' elements. *)
LEMMA FlattenType == ASSUME NEW V, NEW s \in Seq(Seq(V)) PROVE FlattenSeq(s) \in Seq(V)
  <1>1. PICK g \in [Nat -> Seq(V)] : IsPartial(g, s)
    BY PartialExists
  <1>2. Len(s) \in Nat
    OBVIOUS
  <1>3. FlattenSeq(s) = g[Len(s)]
    BY <1>1, FlattenIsPartial
  <1>. QED
    BY <1>2, <1>3

(* A further element goes to the end. *)
LEMMA FlattenAppend ==
  ASSUME NEW V, NEW s \in Seq(Seq(V)), NEW e \in Seq(V)
  PROVE  FlattenSeq(Append(s, e)) = FlattenSeq(s) \o e
  <1>. DEFINE t == Append(s, e)
  <1>1. /\ t \in Seq(Seq(V)) /\ Len(t) = Len(s) + 1 /\ t[Len(s) + 1] = e
        /\ \A i \in 1 .. Len(s) : t[i] = s[i]
    OBVIOUS
  <1>. HIDE DEF t
  <1>2. PICK g \in [Nat -> Seq(V)] : IsPartial(g, t)
    BY <1>1, PartialExists
  <1>. DEFINE l == Len(s)
  <1>0. l \in Nat /\ Len(t) = l + 1 /\ \A n \in Nat : n < l => n < l + 1 /\ t[n + 1] = s[n + 1]
    <2>1. Len(s) \in Nat
      OBVIOUS
    <2>2. l \in Nat /\ Len(t) = l + 1 /\ \A i \in 1 .. l : t[i] = s[i]
      BY <1>1, <2>1, Zenon
    <2>. HIDE DEF l
    <2>3. ASSUME NEW n \in Nat, n < l PROVE n < l + 1 /\ n + 1 \in 1 .. l
      BY <2>2, <2>3
    <2>. QED
      BY <2>2, <2>3
  <1>3. IsPartial(g, s)
    <2>. HIDE DEF l
    <2>1. \A n \in Nat : n < l => g[n + 1] = g[n] \o s[n + 1]
      BY <1>0, <1>2 DEF IsPartial
    <2>. QED
      BY <1>2, <2>1 DEF IsPartial, l
  <1>4. FlattenSeq(t) = g[Len(s) + 1] /\ FlattenSeq(s) = g[Len(s)]
    BY <1>1, <1>2, <1>3, FlattenIsPartial
  <1>5. g[Len(s) + 1] = g[Len(s)] \o t[Len(s) + 1]
    <2>. HIDE DEF l
    <2>1. l \in Nat /\ l < Len(t)
      BY <1>0
    <2>2. g[l + 1] = g[l] \o t[l + 1]
      BY <1>2, <2>1 DEF IsPartial
    <2>. QED
      BY <2>2 DEF l
  <1>. QED
    BY <1>1, <1>4, <1>5 DEF t
=============================================================================
