---------------------------- MODULE SequenceLemmas ----------------------------
(***************************************************************************)
(* What the loops over sequences compute, for sequences of any length.     *)
(*                                                                         *)
(* The induction theorems of the library have a predicate as a parameter,  *)
(* for which the provers find no instance. The lemmas here induct on sets  *)
(* instead: a set of numbers that has 0, and n + 1 with n, has them all.   *)
(* It follows from the theorem that the order of the numbers is well       *)
(* founded, which has no such parameter.                                   *)
(***************************************************************************)
EXTENDS SequenceLoops, SequencesExt, SequenceTheorems, FiniteSetTheorems, WellFoundedInduction, TLAPS

LEMMA NatSetInduction ==
  ASSUME NEW T \in SUBSET Nat, 0 \in T, \A n \in T : n + 1 \in T
  PROVE  T = Nat
<1> DEFINE R == OpToRel(<, Nat)
<1>1. IsWellFoundedOn(R, Nat)
  BY NatLessThanWellFounded
<1>2. \A x, y \in Nat : x < y => <<x, y>> \in R
  BY Zenon DEF OpToRel
<1> HIDE DEF R
<1> SUFFICES ASSUME Nat \ T # {} PROVE FALSE
  OBVIOUS
<1>3. PICK x \in Nat \ T : \A y \in Nat \ T : ~ (<<y, x>> \in R)
  BY <1>1, WFMin
<1>4. x # 0 /\ x - 1 \in Nat /\ x - 1 < x /\ (x - 1) + 1 = x
  BY <1>3
<1>5. x - 1 \in T
  BY <1>2, <1>3, <1>4
<1> QED  BY <1>3, <1>4, <1>5

LEMMA LongerSequence ==
  ASSUME NEW S, NEW s \in Seq(S), NEW n \in Nat, Len(s) = n + 1
  PROVE  \E f \in Seq(S), x \in S : s = Append(f, x) /\ Len(f) = n
<1>1. SubSeq(s, 1, n) \in Seq(S) /\ Len(SubSeq(s, 1, n)) = n
      /\ \A i \in 1..n : SubSeq(s, 1, n)[i] = s[i]
  OBVIOUS
<1>2. PICK f \in Seq(S) : Len(f) = n /\ \A i \in 1..n : f[i] = s[i]
  BY <1>1
<1>3. PICK x \in S : x = s[n + 1]
  OBVIOUS
<1>4. /\ Append(f, x) \in Seq(S) /\ Len(Append(f, x)) = n + 1
      /\ \A i \in 1..n : Append(f, x)[i] = f[i]
      /\ Append(f, x)[n + 1] = x
  BY <1>2
<1>5. \A i \in 1..(n + 1) : Append(f, x)[i] = s[i]
  BY <1>2, <1>3, <1>4
<1>6. s = Append(f, x)
  BY <1>4, <1>5, SeqEqual
<1> QED  BY <1>2, <1>6

\* A set of sequences that has the empty one, and with s all that are longer by one.
LEMMA SeqSetInduction ==
  ASSUME NEW S, NEW T \in SUBSET Seq(S), << >> \in T,
         \A s \in T, x \in S : Append(s, x) \in T
  PROVE  T = Seq(S)
<1> DEFINE N == {n \in Nat : \A s \in Seq(S) : Len(s) = n => s \in T}
<1>1. 0 \in N
  OBVIOUS
<1>2. ASSUME NEW n \in N PROVE n + 1 \in N
  <2> SUFFICES ASSUME NEW s \in Seq(S), Len(s) = n + 1 PROVE s \in T
    OBVIOUS
  <2>1. n \in Nat
    OBVIOUS
  <2>2. PICK f \in Seq(S), x \in S : s = Append(f, x) /\ Len(f) = n
    BY <2>1, LongerSequence
  <2> QED  BY <2>2
<1>3. N = Nat
  <2> HIDE DEF N
  <2>1. N \in SUBSET Nat
    BY DEF N
  <2> QED  BY <1>1, <1>2, <2>1, NatSetInduction
<1>4. \A s \in Seq(S) : Len(s) \in Nat
  OBVIOUS
<1>5. \A s \in Seq(S) : s \in T
  BY <1>3, <1>4
<1> QED  BY <1>5

-----------------------------------------------------------------------------
(* Without. *)

\* What is kept of the first elements, for each number of them.
Kept(s, e, f) == /\ f[0] = << >>
                 /\ \A i \in 1..Len(s) : f[i] = IF s[i] = e THEN f[i - 1] ELSE Append(f[i - 1], s[i])

LEMMA KeptUnique ==
  ASSUME NEW S, NEW s \in Seq(S), NEW e, NEW f, NEW g, Kept(s, e, f), Kept(s, e, g)
  PROVE  f[Len(s)] = g[Len(s)]
<1> DEFINE T == {i \in Nat : i <= Len(s) => f[i] = g[i]}
<1>1. 0 \in T
  BY DEF Kept
<1>2. ASSUME NEW m \in Nat, m \in T PROVE m + 1 \in T
  <2> SUFFICES ASSUME m + 1 <= Len(s) PROVE f[m + 1] = g[m + 1]
    OBVIOUS
  <2>1. m + 1 \in 1..Len(s) /\ (m + 1) - 1 = m /\ f[m] = g[m]
    BY <1>2
  <2>2. /\ f[m + 1] = IF s[m + 1] = e THEN f[m] ELSE Append(f[m], s[m + 1])
        /\ g[m + 1] = IF s[m + 1] = e THEN g[m] ELSE Append(g[m], s[m + 1])
    BY <2>1 DEF Kept
  <2> QED  BY <2>1, <2>2
<1>3. T = Nat
  <2> HIDE DEF T
  <2>1. T \in SUBSET Nat
    BY DEF T
  <2> QED  BY <1>1, <1>2, <2>1, NatSetInduction
<1> QED  BY <1>3

LEMMA KeptAppend ==
  ASSUME NEW S, NEW s \in Seq(S), NEW x \in S, NEW e, NEW f \in [0..Len(s) -> Seq(S)], Kept(s, e, f)
  PROVE  \E g \in [0..Len(Append(s, x)) -> Seq(S)] :
            /\ Kept(Append(s, x), e, g)
            /\ g[Len(Append(s, x))] = IF x = e THEN f[Len(s)] ELSE Append(f[Len(s)], x)
<1>1. PICK n \in Nat : n = Len(s)
  OBVIOUS
<1>2. PICK t \in Seq(S) : t = Append(s, x)
  OBVIOUS
<1>3. Len(t) = n + 1 /\ t[n + 1] = x /\ \A i \in 1..n : t[i] = s[i]
  BY <1>1, <1>2
<1>4. PICK y \in Seq(S) : y = IF x = e THEN f[n] ELSE Append(f[n], x)
  <2>1. f[n] \in Seq(S)
    BY <1>1
  <2> QED  BY <2>1
<1> DEFINE g == [i \in 0..(n + 1) |-> IF i = n + 1 THEN y ELSE f[i]]
<1>5. g \in [0..(n + 1) -> Seq(S)]
  BY <1>1
<1>6. g[0] = << >> /\ g[n + 1] = y /\ \A i \in 0..n : g[i] = f[i]
  BY DEF Kept
<1> HIDE DEF g
<1>7. ASSUME NEW i \in 1..(n + 1)
      PROVE  g[i] = IF t[i] = e THEN g[i - 1] ELSE Append(g[i - 1], t[i])
  <2>1. CASE i = n + 1
    <3>1. g[i - 1] = f[n] /\ t[i] = x
      BY <1>3, <1>6, <2>1
    <3> QED  BY <1>4, <1>6, <2>1, <3>1
  <2>2. CASE i \in 1..n
    <3>1. i \in 0..n /\ i - 1 \in 0..n
      BY <2>2
    <3>2. t[i] = s[i]
      BY <1>3, <2>2
    <3>3. g[i] = f[i] /\ g[i - 1] = f[i - 1]
      BY <1>6, <3>1
    <3> QED  BY <1>1, <2>2, <3>2, <3>3 DEF Kept
  <2> QED  BY <2>1, <2>2
<1>8. Kept(t, e, g)
  BY <1>3, <1>6, <1>7 DEF Kept
<1> QED  BY <1>1, <1>2, <1>3, <1>4, <1>5, <1>6, <1>8

LEMMA KeptExists ==
  ASSUME NEW S, NEW s \in Seq(S), NEW e
  PROVE  \E f \in [0..Len(s) -> Seq(S)] : Kept(s, e, f)
<1> DEFINE T == {t \in Seq(S) : \E f \in [0..Len(t) -> Seq(S)] : Kept(t, e, f)}
<1>1. << >> \in T
  <2> DEFINE f == [i \in 0..0 |-> << >>]
  <2>1. f \in [0..0 -> Seq(S)] /\ f[0] = << >>
    OBVIOUS
  <2> HIDE DEF f
  <2>2. Len(<< >>) = 0 /\ << >> \in Seq(S)
    OBVIOUS
  <2>3. \A i \in 1..0 : FALSE
    OBVIOUS
  <2>4. Kept(<< >>, e, f)
    BY <2>1, <2>2, <2>3 DEF Kept
  <2> QED  BY <2>1, <2>2, <2>4
<1>2. ASSUME NEW t \in T, NEW x \in S PROVE Append(t, x) \in T
  <2>1. PICK f \in [0..Len(t) -> Seq(S)] : Kept(t, e, f)
    OBVIOUS
  <2>2. t \in Seq(S) /\ Append(t, x) \in Seq(S)
    OBVIOUS
  <2>3. \E g \in [0..Len(Append(t, x)) -> Seq(S)] : Kept(Append(t, x), e, g)
    BY <2>1, <2>2, KeptAppend
  <2> QED  BY <2>2, <2>3
<1>3. T \in SUBSET Seq(S)
  OBVIOUS
<1> HIDE DEF T
<1>4. T = Seq(S)
  BY <1>1, <1>2, <1>3, SeqSetInduction
<1> QED  BY <1>4 DEF T

LEMMA WithoutKept ==
  ASSUME NEW S, NEW s \in Seq(S), NEW e, NEW f, Kept(s, e, f), f \in [0..Len(s) -> Seq(S)]
  PROVE  Without(s, e) = f[Len(s)]
<1> DEFINE P(k) == k = [i \in 0..Len(s) |-> IF i = 0 THEN <<>> ELSE IF s[i] = e THEN k[i - 1]
                                            ELSE Append(k[i - 1], s[i])]
           c == CHOOSE k : P(k)
<1>1. f = [i \in 0..Len(s) |-> f[i]]
  OBVIOUS
<1>2. \A i \in 0..Len(s) : f[i] = IF i = 0 THEN <<>> ELSE IF s[i] = e THEN f[i - 1] ELSE Append(f[i - 1], s[i])
  <2>1. \A i \in 0..Len(s) : i = 0 \/ (i # 0 /\ i \in 1..Len(s))
    OBVIOUS
  <2> QED  BY <2>1 DEF Kept
<1>3. P(f)
  <2>1. \A i \in 0..Len(s) : f[i] = (IF i = 0 THEN <<>> ELSE IF s[i] = e THEN f[i - 1] ELSE Append(f[i - 1], s[i]))
    BY <1>2
  <2> QED  BY <1>1, <2>1, Zenon
<1>4. P(c)
  BY <1>3, Zenon
<1>5. Without(s, e) = c[Len(s)]
  BY Zenon DEF Without
<1> HIDE DEF c
<1>6. Kept(s, e, c)
  <2>1. 0 \in 0..Len(s) /\ \A i \in 1..Len(s) : i \in 0..Len(s) /\ i # 0
    OBVIOUS
  <2> QED  BY <1>4, <2>1, Zenon DEF Kept
<1> QED  BY <1>5, <1>6, KeptUnique

LEMMA WithoutTyped ==
  ASSUME NEW S, NEW s \in Seq(S), NEW e
  PROVE  Without(s, e) \in Seq(S)
<1>1. PICK f \in [0..Len(s) -> Seq(S)] : Kept(s, e, f)
  BY KeptExists
<1>2. Without(s, e) = f[Len(s)]
  BY <1>1, WithoutKept
<1> QED  BY <1>2

LEMMA WithoutEmpty ==
  ASSUME NEW e
  PROVE  Without(<< >>, e) = << >>
<1>1. << >> \in Seq({}) /\ Len(<< >>) = 0
  OBVIOUS
<1>2. PICK f \in [0..Len(<< >>) -> Seq({})] : Kept(<< >>, e, f)
  BY <1>1, KeptExists
<1>3. Without(<< >>, e) = f[0]
  BY <1>1, <1>2, WithoutKept
<1> QED  BY <1>2, <1>3 DEF Kept

LEMMA WithoutAppend ==
  ASSUME NEW S, NEW s \in Seq(S), NEW x \in S, NEW e
  PROVE  Without(Append(s, x), e) = IF x = e THEN Without(s, e) ELSE Append(Without(s, e), x)
<1>1. PICK f \in [0..Len(s) -> Seq(S)] : Kept(s, e, f)
  BY KeptExists
<1>2. PICK t \in Seq(S) : t = Append(s, x)
  OBVIOUS
<1>3. PICK g \in [0..Len(t) -> Seq(S)] :
         Kept(t, e, g) /\ g[Len(t)] = IF x = e THEN f[Len(s)] ELSE Append(f[Len(s)], x)
  BY <1>1, <1>2, KeptAppend
<1>4. Without(s, e) = f[Len(s)]
  BY <1>1, WithoutKept
<1>5. Without(t, e) = g[Len(t)]
  BY <1>3, WithoutKept
<1> QED  BY <1>2, <1>3, <1>4, <1>5

LEMMA ConcatAppend ==
  ASSUME NEW S, NEW s \in Seq(S), NEW t \in Seq(S), NEW x \in S
  PROVE  s \o Append(t, x) = Append(s \o t, x)
OBVIOUS

LEMMA ConcatEmpty ==
  ASSUME NEW S, NEW s \in Seq(S)
  PROVE  s \o << >> = s /\ << >> \o s = s /\ << >> \in Seq(S)
OBVIOUS

LEMMA AppendTyped ==
  ASSUME NEW S, NEW s \in Seq(S), NEW x \in S
  PROVE  Append(s, x) \in Seq(S)
OBVIOUS

LEMMA ConcatTyped ==
  ASSUME NEW S, NEW s \in Seq(S), NEW t \in Seq(S)
  PROVE  s \o t \in Seq(S)
OBVIOUS

LEMMA ConcatAssoc ==
  ASSUME NEW S, NEW s \in Seq(S), NEW t \in Seq(S), NEW u \in Seq(S)
  PROVE  s \o (t \o u) = (s \o t) \o u
OBVIOUS

LEMMA ReplaceLast ==
  ASSUME NEW S, NEW s \in Seq(S), NEW x \in S, NEW p \in S
  PROVE  [Append(s, x) EXCEPT ![Len(Append(s, x))] = p] = Append(s, p)
<1>1. PICK n \in Nat : n = Len(s)
  OBVIOUS
<1>2. PICK t \in Seq(S) : t = Append(s, x)
  BY AppendTyped
<1>3. PICK u \in Seq(S) : u = Append(s, p)
  BY AppendTyped
<1>4. Len(t) = n + 1 /\ \A i \in 1..n : t[i] = s[i]
  BY <1>1, <1>2
<1>5. Len(u) = n + 1 /\ u[n + 1] = p /\ \A i \in 1..n : u[i] = s[i]
  BY <1>1, <1>3
<1>6. DOMAIN t = 1..(n + 1) /\ n + 1 \in 1..(n + 1)
  BY <1>4
<1>7. [t EXCEPT ![n + 1] = p] \in Seq(S) /\ Len([t EXCEPT ![n + 1] = p]) = n + 1
  BY <1>4, <1>6
<1>8. \A i \in 1..(n + 1) : [t EXCEPT ![n + 1] = p][i] = u[i]
  <2>1. \A i \in 1..(n + 1) : [t EXCEPT ![n + 1] = p][i] = IF i = n + 1 THEN p ELSE t[i]
    BY <1>6
  <2>2. \A i \in 1..(n + 1) : i \in 1..n \/ i = n + 1
    OBVIOUS
  <2> QED  BY <1>4, <1>5, <2>1, <2>2
<1>9. [t EXCEPT ![n + 1] = p] = u
  BY <1>5, <1>7, <1>8, SeqEqual
<1> QED  BY <1>2, <1>3, <1>4, <1>9

\* What is left of two sequences is left of each. It has a name of its own, and what
\* follows from it has too: an equation of sequences gives the provers a new sequence
\* for each that they have.
ConcatWithout(s, t, e) == Without(s \o t, e) = Without(s, e) \o Without(t, e)

LEMMA WithoutConcat ==
  ASSUME NEW S, NEW s \in Seq(S), NEW t \in Seq(S), NEW e
  PROVE  ConcatWithout(s, t, e)
<1> DEFINE T == {u \in Seq(S) : Without(s \o u, e) = Without(s, e) \o Without(u, e)}
<1>1. << >> \in T
  BY ConcatEmpty, WithoutEmpty, WithoutTyped
<1>2. ASSUME NEW u \in T, NEW x \in S PROVE Append(u, x) \in T
  <2>1. u \in Seq(S) /\ Without(s \o u, e) = Without(s, e) \o Without(u, e)
    OBVIOUS
  <2> HIDE DEF T
  <2>2. s \o Append(u, x) = Append(s \o u, x) /\ s \o u \in Seq(S) /\ Append(u, x) \in Seq(S)
    BY <2>1, ConcatAppend, ConcatTyped, AppendTyped
  <2>3. Without(Append(s \o u, x), e) = IF x = e THEN Without(s \o u, e) ELSE Append(Without(s \o u, e), x)
    BY <2>2, WithoutAppend
  <2>4. Without(Append(u, x), e) = IF x = e THEN Without(u, e) ELSE Append(Without(u, e), x)
    BY <2>1, WithoutAppend
  <2>5. Without(s, e) \o Append(Without(u, e), x) = Append(Without(s, e) \o Without(u, e), x)
    BY <2>1, WithoutTyped, ConcatAppend
  <2>6. Without(s \o Append(u, x), e) = Without(s, e) \o Without(Append(u, x), e)
    BY <2>1, <2>2, <2>3, <2>4, <2>5
  <2> QED  BY <2>2, <2>6 DEF T
<1>3. T \in SUBSET Seq(S)
  OBVIOUS
<1> HIDE DEF T
<1>4. T = Seq(S)
  BY <1>1, <1>2, <1>3, SeqSetInduction
<1> QED  BY <1>4 DEF T, ConcatWithout

LongerWithout(a, b, c, d, e) ==
  Without(a \o (b \o (c \o d)), e) = Without(a \o (b \o c), e) \o Without(d, e)

LEMMA WithoutLonger ==
  ASSUME NEW S, NEW a \in Seq(S), NEW b \in Seq(S), NEW c \in Seq(S), NEW d \in Seq(S), NEW e
  PROVE  LongerWithout(a, b, c, d, e)
<1>1. PICK u \in Seq(S) : u = b \o c
  BY ConcatTyped
<1>2. PICK v \in Seq(S) : v = a \o u
  BY ConcatTyped
<1>3. b \o (c \o d) = u \o d
  BY <1>1, ConcatAssoc
<1>4. a \o (u \o d) = v \o d
  BY <1>2, ConcatAssoc
<1>5. Without(v \o d, e) = Without(v, e) \o Without(d, e)
  <2>1. ConcatWithout(v, d, e)
    BY WithoutConcat
  <2> QED  BY <2>1 DEF ConcatWithout
<1> QED  BY <1>1, <1>2, <1>3, <1>4, <1>5 DEF LongerWithout

LEMMA WithoutLast ==
  ASSUME NEW S, NEW a \in Seq(S), NEW b \in Seq(S), NEW c \in Seq(S), NEW d \in Seq(S), NEW e \in S
  PROVE  Without(a \o (b \o (c \o Append(d, e))), e) = Without(a \o ((b \o c) \o d), e)
<1>1. PICK u \in Seq(S) : u = b \o c
  BY ConcatTyped
<1>2. PICK v \in Seq(S) : v = u \o d
  BY ConcatTyped
<1>3. PICK w \in Seq(S) : w = a \o v
  BY ConcatTyped
<1>4. PICK l \in Seq(S) : l = Append(d, e)
  BY AppendTyped
<1>5. b \o (c \o l) = u \o l
  BY <1>1, ConcatAssoc
<1>6. u \o l = Append(v, e)
  BY <1>2, <1>4, ConcatAppend
<1>7. a \o Append(v, e) = Append(w, e)
  BY <1>3, ConcatAppend
<1>8. Without(Append(w, e), e) = Without(w, e)
  BY WithoutAppend
<1> QED  BY <1>1, <1>2, <1>3, <1>4, <1>5, <1>6, <1>7, <1>8

LEMMA AppendSet ==
  ASSUME NEW S, NEW s \in Seq(S), NEW x \in S
  PROVE  ToSet(Append(s, x)) = ToSet(s) \cup {x}
<1>1. /\ DOMAIN Append(s, x) = 1..(Len(s) + 1) /\ DOMAIN s = 1..Len(s)
      /\ \A i \in 1..Len(s) : Append(s, x)[i] = s[i]
      /\ Append(s, x)[Len(s) + 1] = x
  OBVIOUS
<1>2. PICK t \in Seq(S) : t = Append(s, x)
  BY AppendTyped
<1>3. ASSUME NEW y \in ToSet(t) PROVE y \in ToSet(s) \cup {x}
  <2>1. PICK i \in 1..(Len(s) + 1) : t[i] = y
    BY <1>1, <1>2 DEF ToSet
  <2>2. i \in 1..Len(s) \/ i = Len(s) + 1
    OBVIOUS
  <2> QED  BY <1>1, <1>2, <2>1, <2>2 DEF ToSet
<1>4. ASSUME NEW y \in ToSet(s) \cup {x} PROVE y \in ToSet(t)
  <2>1. CASE y \in ToSet(s)
    <3>1. PICK i \in 1..Len(s) : s[i] = y
      BY <1>1, <2>1 DEF ToSet
    <3>2. i \in 1..(Len(s) + 1) /\ t[i] = y
      BY <1>1, <1>2, <3>1
    <3> QED  BY <1>1, <1>2, <3>2 DEF ToSet
  <2>2. CASE y = x
    <3>1. Len(s) + 1 \in 1..(Len(s) + 1)
      OBVIOUS
    <3> QED  BY <1>1, <1>2, <2>2, <3>1 DEF ToSet
  <2> QED  BY <2>1, <2>2
<1> QED  BY <1>2, <1>3, <1>4

LEMMA EmptySet == ToSet(<< >>) = {}
BY DEF ToSet

\* A sequence stays without repetitions when an element it has not is appended, and
\* loses none when its last element goes.
LEMMA AppendOnce ==
  ASSUME NEW S, NEW s \in Seq(S), NEW x \in S
  PROVE  /\ IsInjective(Append(s, x)) => IsInjective(s) /\ x \notin ToSet(s)
         /\ IsInjective(s) /\ x \notin ToSet(s) => IsInjective(Append(s, x))
<1>1. PICK t \in Seq(S) : t = Append(s, x)
  BY AppendTyped
<1>2. PICK n \in Nat : n = Len(s)
  OBVIOUS
<1>3. /\ DOMAIN t = 1..(n + 1) /\ DOMAIN s = 1..n /\ t[n + 1] = x
      /\ \A i \in 1..n : t[i] = s[i]
  BY <1>1, <1>2
<1>4. \A i \in 1..n : i \in 1..(n + 1) /\ i # n + 1
  OBVIOUS
<1>5. n + 1 \in 1..(n + 1) /\ \A i \in 1..(n + 1) : i \in 1..n \/ i = n + 1
  OBVIOUS
<1>6. ASSUME IsInjective(t) PROVE IsInjective(s) /\ x \notin ToSet(s)
  BY <1>3, <1>4, <1>5, <1>6, Zenon DEF IsInjective, ToSet
<1>7. ASSUME IsInjective(s), x \notin ToSet(s) PROVE IsInjective(t)
  <2> SUFFICES ASSUME NEW i \in 1..(n + 1), NEW j \in 1..(n + 1), t[i] = t[j] PROVE i = j
    BY <1>3 DEF IsInjective
  <2>1. \A k \in 1..n : s[k] # x
    BY <1>3, <1>7 DEF ToSet
  <2>2. \A k, l \in 1..n : s[k] = s[l] => k = l
    BY <1>3, <1>7 DEF IsInjective
  <2> QED  BY <1>3, <1>5, <2>1, <2>2
<1>8. IsInjective(t) => IsInjective(s) /\ x \notin ToSet(s)
  BY <1>6
<1>9. IsInjective(s) /\ x \notin ToSet(s) => IsInjective(t)
  BY <1>7
<1> QED  BY <1>1, <1>8, <1>9, Zenon

\* What is left out is gone, the rest is there, and nothing comes twice that did not.
LEMMA WithoutSet ==
  ASSUME NEW S, NEW s \in Seq(S), NEW e
  PROVE  /\ ToSet(Without(s, e)) = ToSet(s) \ {e}
         /\ IsInjective(s) => IsInjective(Without(s, e))
         /\ e \notin ToSet(s) => Without(s, e) = s
<1> DEFINE P(u) == /\ ToSet(Without(u, e)) = ToSet(u) \ {e}
                   /\ IsInjective(u) => IsInjective(Without(u, e))
                   /\ e \notin ToSet(u) => Without(u, e) = u
           T == {u \in Seq(S) : P(u)}
<1>1. << >> \in T
  <2>1. << >> \in Seq(S)
    OBVIOUS
  <2> QED  BY <2>1, EmptySet, WithoutEmpty
<1>2. ASSUME NEW u \in T, NEW x \in S PROVE Append(u, x) \in T
  <2>1. PICK v \in Seq(S) : v = Append(u, x)
    BY AppendTyped
  <2>2. u \in Seq(S) /\ P(u)
    OBVIOUS
  <2>3. PICK w \in Seq(S) : w = Without(u, e)
    BY <2>2, WithoutTyped
  <2> HIDE DEF P, T
  <2>4. ToSet(v) = ToSet(u) \cup {x} /\ ToSet(Append(w, x)) = ToSet(w) \cup {x}
    BY <2>1, <2>2, <2>3, AppendSet
  <2>5. /\ IsInjective(v) => IsInjective(u) /\ x \notin ToSet(u)
        /\ IsInjective(w) /\ x \notin ToSet(w) => IsInjective(Append(w, x))
    <3>1. IsInjective(Append(u, x)) => IsInjective(u) /\ x \notin ToSet(u)
      BY <2>2, AppendOnce
    <3>2. IsInjective(w) /\ x \notin ToSet(w) => IsInjective(Append(w, x))
      BY AppendOnce
    <3> QED  BY <2>1, <3>1, <3>2, Zenon
  <2>6. Without(v, e) = IF x = e THEN w ELSE Append(w, x)
    BY <2>1, <2>2, <2>3, WithoutAppend
  <2>7. P(v)
    <3>1. CASE x = e
      BY <2>2, <2>3, <2>4, <2>5, <2>6, <3>1, Zenon DEF P
    <3>2. CASE x # e
      <4>1. /\ ToSet(w) = ToSet(u) \ {e}
            /\ IsInjective(u) => IsInjective(w)
            /\ e \notin ToSet(u) => w = u
        BY <2>2, <2>3 DEF P
      <4>2. Without(v, e) = Append(w, x)
        BY <2>6, <3>2
      <4>3. ToSet(Append(w, x)) = ToSet(v) \ {e}
        BY <2>4, <3>2, <4>1
      <4>4. IsInjective(v) => IsInjective(Append(w, x))
        BY <2>5, <4>1
      <4>5. e \notin ToSet(v) => Append(w, x) = v
        BY <2>1, <2>4, <4>1
      <4> QED  BY <4>2, <4>3, <4>4, <4>5 DEF P
    <3> QED  BY <3>1, <3>2
  <2> QED  BY <2>1, <2>7 DEF T
<1>3. T \in SUBSET Seq(S)
  OBVIOUS
<1> HIDE DEF T
<1>4. T = Seq(S)
  BY <1>1, <1>2, <1>3, SeqSetInduction
<1> QED  BY <1>4 DEF T

-----------------------------------------------------------------------------
(* What stands next to what. *)

NextTo(s, x, y) == \E j, k \in 1..Len(s) : k = j + 1 /\ s[j] = x /\ s[k] = y
Ends(s, x) == Len(s) # 0 /\ s[Len(s)] = x

LEMMA AppendNextTo ==
  ASSUME NEW S, NEW s \in Seq(S), NEW z \in S, NEW x, NEW y
  PROVE  /\ Ends(Append(s, z), x) <=> z = x
         /\ NextTo(Append(s, z), x, y) <=> NextTo(s, x, y) \/ (Ends(s, x) /\ z = y)
<1>1. PICK t \in Seq(S) : t = Append(s, z)
  BY AppendTyped
<1>2. PICK n \in Nat : n = Len(s)
  OBVIOUS
<1>3. Len(t) = n + 1 /\ t[n + 1] = z /\ \A i \in 1..n : t[i] = s[i]
  BY <1>1, <1>2
<1>4. Ends(t, x) <=> z = x
  BY <1>3 DEF Ends
<1>5. ASSUME NextTo(t, x, y) PROVE NextTo(s, x, y) \/ (Ends(s, x) /\ z = y)
  <2>1. PICK j, k \in 1..(n + 1) : k = j + 1 /\ t[j] = x /\ t[k] = y
    BY <1>3, <1>5 DEF NextTo
  <2>2. CASE k = n + 1
    <3>1. j = n /\ n # 0 /\ n \in 1..n
      BY <2>1, <2>2
    <3> QED  BY <1>2, <1>3, <2>1, <2>2, <3>1 DEF Ends
  <2>3. CASE k # n + 1
    <3>1. j \in 1..n /\ k \in 1..n
      BY <2>1, <2>3
    <3> QED  BY <1>2, <1>3, <2>1, <3>1 DEF NextTo
  <2> QED  BY <2>2, <2>3
<1>6. ASSUME NextTo(s, x, y) PROVE NextTo(t, x, y)
  <2>1. PICK j, k \in 1..n : k = j + 1 /\ s[j] = x /\ s[k] = y
    BY <1>2, <1>6 DEF NextTo
  <2>2. j \in 1..(n + 1) /\ k \in 1..(n + 1)
    OBVIOUS
  <2> QED  BY <1>3, <2>1, <2>2 DEF NextTo
<1>7. ASSUME Ends(s, x), z = y PROVE NextTo(t, x, y)
  <2>1. n # 0 /\ s[n] = x
    BY <1>2, <1>7 DEF Ends
  <2>2. n \in 1..n /\ n \in 1..(n + 1) /\ n + 1 \in 1..(n + 1)
    BY <2>1
  <2>3. t[n] = x /\ t[n + 1] = y
    BY <1>3, <1>7, <2>1, <2>2
  <2> QED  BY <1>3, <2>2, <2>3 DEF NextTo
<1> QED  BY <1>1, <1>4, <1>5, <1>6, <1>7, Zenon

\* Elements that are kept stay next to each other.
LEMMA WithoutNextTo ==
  ASSUME NEW S, NEW s \in Seq(S), NEW e, NEW x, NEW y, x # e, y # e, NextTo(s, x, y)
  PROVE  NextTo(Without(s, e), x, y)
<1> DEFINE P(u) == /\ NextTo(u, x, y) => NextTo(Without(u, e), x, y)
                   /\ Ends(u, x) => Ends(Without(u, e), x)
           T == {u \in Seq(S) : P(u)}
<1>1. << >> \in T
  <2>1. << >> \in Seq(S) /\ Len(<< >>) = 0 /\ ~(\E j \in 1..0 : TRUE)
    OBVIOUS
  <2>2. ~NextTo(<< >>, x, y) /\ ~Ends(<< >>, x)
    BY <2>1 DEF NextTo, Ends
  <2> QED  BY <2>1, <2>2
<1>2. ASSUME NEW u \in T, NEW z \in S PROVE Append(u, z) \in T
  <2>1. PICK v \in Seq(S) : v = Append(u, z)
    BY AppendTyped
  <2>2. u \in Seq(S) /\ P(u)
    OBVIOUS
  <2>3. PICK w \in Seq(S) : w = Without(u, e)
    BY <2>2, WithoutTyped
  <2> HIDE DEF P, T
  <2>4. Without(v, e) = IF z = e THEN w ELSE Append(w, z)
    BY <2>1, <2>2, <2>3, WithoutAppend
  <2>5. /\ Ends(v, x) <=> z = x
        /\ NextTo(v, x, y) <=> NextTo(u, x, y) \/ (Ends(u, x) /\ z = y)
    BY <2>1, <2>2, AppendNextTo
  <2>6. /\ Ends(Append(w, z), x) <=> z = x
        /\ NextTo(Append(w, z), x, y) <=> NextTo(w, x, y) \/ (Ends(w, x) /\ z = y)
    BY AppendNextTo
  <2>7. /\ NextTo(u, x, y) => NextTo(w, x, y)
        /\ Ends(u, x) => Ends(w, x)
    BY <2>2, <2>3 DEF P
  <2>8. P(v)
    <3>1. CASE z = e
      <4>1. Without(v, e) = w
        BY <2>4, <3>1
      <4> QED  BY <2>5, <2>7, <3>1, <4>1, Zenon DEF P
    <3>2. CASE z # e
      <4>1. Without(v, e) = Append(w, z)
        BY <2>4, <3>2
      <4> QED  BY <2>5, <2>6, <2>7, <4>1, Zenon DEF P
    <3> QED  BY <3>1, <3>2
  <2> QED  BY <2>1, <2>8 DEF T
<1>3. T \in SUBSET Seq(S)
  OBVIOUS
<1> HIDE DEF T
<1>4. T = Seq(S)
  BY <1>1, <1>2, <1>3, SeqSetInduction
<1> QED  BY <1>4 DEF T

-----------------------------------------------------------------------------
(* Sequences without repetitions. *)

\* They are as long as they have elements.
LEMMA InjectiveLen ==
  ASSUME NEW S, NEW s \in Seq(S), IsInjective(s)
  PROVE  IsFiniteSet(ToSet(s)) /\ Cardinality(ToSet(s)) = Len(s)
<1> DEFINE P(u) == IsInjective(u) => IsFiniteSet(ToSet(u)) /\ Cardinality(ToSet(u)) = Len(u)
           T == {u \in Seq(S) : P(u)}
<1>1. << >> \in T
  <2>1. << >> \in Seq(S) /\ Len(<< >>) = 0
    OBVIOUS
  <2> QED  BY <2>1, EmptySet, FS_EmptySet
<1>2. ASSUME NEW u \in T, NEW x \in S PROVE Append(u, x) \in T
  <2>1. PICK v \in Seq(S) : v = Append(u, x)
    BY AppendTyped
  <2>2. u \in Seq(S) /\ P(u)
    OBVIOUS
  <2> HIDE DEF T
  <2>3. ToSet(v) = ToSet(u) \cup {x} /\ Len(v) = Len(u) + 1
    BY <2>1, <2>2, AppendSet
  <2>4. SUFFICES ASSUME IsInjective(v) PROVE IsFiniteSet(ToSet(v)) /\ Cardinality(ToSet(v)) = Len(v)
    BY <2>1 DEF T
  <2>5. IsInjective(u) /\ x \notin ToSet(u)
    BY <2>1, <2>2, <2>4, AppendOnce
  <2>6. IsFiniteSet(ToSet(u)) /\ Cardinality(ToSet(u)) = Len(u)
    BY <2>2, <2>5
  <2>7. /\ IsFiniteSet(ToSet(u) \cup {x})
        /\ Cardinality(ToSet(u) \cup {x}) = IF x \in ToSet(u) THEN Cardinality(ToSet(u)) ELSE Cardinality(ToSet(u)) + 1
    BY <2>6, FS_AddElement
  <2> QED  BY <2>3, <2>5, <2>6, <2>7
<1>3. T \in SUBSET Seq(S)
  OBVIOUS
<1> HIDE DEF T
<1>4. T = Seq(S)
  BY <1>1, <1>2, <1>3, SeqSetInduction
<1> QED  BY <1>4 DEF T

LEMMA ToSetTyped ==
  ASSUME NEW S, NEW s \in Seq(S)
  PROVE  ToSet(s) \in SUBSET S
BY DEF ToSet

\* The lists a finite set has are its sequences without repetitions.
LEMMA InjectiveLists ==
  ASSUME NEW S, IsFiniteSet(S), NEW s
  PROVE  s \in {t \in SeqOf(S, Cardinality(S)) : IsInjective(t)} <=> s \in Seq(S) /\ IsInjective(s)
<1>1. Cardinality(S) \in Nat
  BY FS_CardinalityType
<1>2. ASSUME s \in SeqOf(S, Cardinality(S)) PROVE s \in Seq(S)
  <2>1. PICK m \in 0..Cardinality(S) : s \in [1..m -> S]
    BY <1>2 DEF SeqOf
  <2> QED  BY <1>1, <2>1
<1>3. ASSUME s \in Seq(S), IsInjective(s) PROVE s \in SeqOf(S, Cardinality(S))
  <2>1. Cardinality(ToSet(s)) = Len(s) /\ Len(s) \in Nat
    BY <1>3, InjectiveLen
  <2>2. Cardinality(ToSet(s)) <= Cardinality(S)
    BY <1>3, ToSetTyped, FS_Subset
  <2>3. Len(s) \in 0..Cardinality(S) /\ s \in [1..Len(s) -> S]
    BY <1>1, <1>3, <2>1, <2>2
  <2> QED  BY <2>3 DEF SeqOf
<1> QED  BY <1>2, <1>3, Zenon

\* What is left when the first elements go.
LEMMA InjectiveTail ==
  ASSUME NEW S, NEW s \in Seq(S), s # << >>, IsInjective(s)
  PROVE  Tail(s) \in Seq(S) /\ IsInjective(Tail(s))
<1>1. PICK t \in Seq(S) : t = Tail(s)
  BY HeadTailProperties
<1>2. PICK n \in Nat : n + 1 = Len(s)
  <2>1. Len(s) - 1 \in Nat /\ (Len(s) - 1) + 1 = Len(s)
    OBVIOUS
  <2> QED  BY <2>1
<1>3. DOMAIN t = 1..n /\ DOMAIN s = 1..(n + 1) /\ \A i \in 1..n : t[i] = s[i + 1]
  BY <1>1, <1>2
<1>4. \A i \in 1..n : i + 1 \in 1..(n + 1)
  OBVIOUS
<1>5. \A i, j \in 1..n : i + 1 = j + 1 => i = j
  OBVIOUS
<1>6. IsInjective(t)
  BY <1>3, <1>4, <1>5, Zenon DEF IsInjective
<1> QED  BY <1>1, <1>6

-----------------------------------------------------------------------------
(* FlattenSeq. *)

\* What the first sequences are together, for each number of them.
Joined(ss, f) == \A i \in 1..Len(ss) : f[i] = IF i = 1 THEN ss[i] ELSE f[i - 1] \o ss[i]

LEMMA JoinedUnique ==
  ASSUME NEW S, NEW ss \in Seq(S), NEW f, NEW g, Joined(ss, f), Joined(ss, g), Len(ss) # 0
  PROVE  f[Len(ss)] = g[Len(ss)]
<1> DEFINE T == {i \in Nat : i + 1 <= Len(ss) => f[i + 1] = g[i + 1]}
<1>1. 0 \in T
  <2>1. Len(ss) >= 1 => 1 \in 1..Len(ss)
    OBVIOUS
  <2> QED  BY <2>1 DEF Joined
<1>2. ASSUME NEW m \in Nat, m \in T PROVE m + 1 \in T
  <2> SUFFICES ASSUME (m + 1) + 1 <= Len(ss) PROVE f[(m + 1) + 1] = g[(m + 1) + 1]
    OBVIOUS
  <2>1. PICK n \in Nat : n = (m + 1) + 1
    OBVIOUS
  <2>2. n \in 1..Len(ss) /\ n # 1 /\ n - 1 = m + 1 /\ f[n - 1] = g[n - 1]
    BY <1>2, <2>1
  <2>3. f[n] = f[n - 1] \o ss[n] /\ g[n] = g[n - 1] \o ss[n]
    BY <2>2 DEF Joined
  <2> QED  BY <2>1, <2>2, <2>3
<1>3. T = Nat
  <2> HIDE DEF T
  <2>1. T \in SUBSET Nat
    BY DEF T
  <2> QED  BY <1>1, <1>2, <2>1, NatSetInduction
<1>4. PICK n \in Nat : n + 1 = Len(ss)
  <2>1. Len(ss) - 1 \in Nat /\ (Len(ss) - 1) + 1 = Len(ss)
    OBVIOUS
  <2> QED  BY <2>1
<1>5. \A i \in Nat : i + 1 <= Len(ss) => f[i + 1] = g[i + 1]
  BY <1>3
<1> QED  BY <1>4, <1>5

LEMMA JoinedAppend ==
  ASSUME NEW S, NEW X, X = Seq(S), NEW ss \in Seq(X), NEW s \in X,
         NEW f \in [1..Len(ss) -> X], Joined(ss, f)
  PROVE  \E g \in [1..Len(Append(ss, s)) -> X] :
            /\ Joined(Append(ss, s), g)
            /\ g[Len(Append(ss, s))] = IF Len(ss) = 0 THEN s ELSE f[Len(ss)] \o s
<1>1. PICK n \in Nat : n = Len(ss)
  OBVIOUS
<1>2. PICK t \in Seq(X) : t = Append(ss, s)
  BY AppendTyped
<1>3. Len(t) = n + 1 /\ t[n + 1] = s /\ \A i \in 1..n : t[i] = ss[i]
  BY <1>1, <1>2
<1>4. PICK y \in X : y = IF n = 0 THEN s ELSE f[n] \o s
  <2>1. n # 0 => n \in 1..n
    OBVIOUS
  <2>2. n # 0 => f[n] \in X
    BY <1>1, <2>1
  <2>3. n # 0 => f[n] \o s \in X
    BY <2>2, ConcatTyped
  <2> QED  BY <2>3
<1> DEFINE g == [i \in 1..(n + 1) |-> IF i = n + 1 THEN y ELSE f[i]]
<1>5. g \in [1..(n + 1) -> X]
  BY <1>1
<1>6. g[n + 1] = y /\ \A i \in 1..n : g[i] = f[i]
  OBVIOUS
<1> HIDE DEF g
<1>7. ASSUME NEW i \in 1..(n + 1)
      PROVE  g[i] = IF i = 1 THEN t[i] ELSE g[i - 1] \o t[i]
  <2>1. CASE i = n + 1
    <3>1. t[i] = s /\ (i = 1 <=> n = 0) /\ i - 1 = n
      BY <1>3, <2>1
    <3>2. n # 0 => g[i - 1] = f[n]
      BY <1>6, <3>1
    <3> QED  BY <1>4, <1>6, <2>1, <3>1, <3>2
  <2>2. CASE i \in 1..n
    <3>1. g[i] = f[i] /\ t[i] = ss[i]
      BY <1>3, <1>6, <2>2
    <3>2. i # 1 => i - 1 \in 1..n
      BY <2>2
    <3>3. i # 1 => g[i - 1] = f[i - 1]
      BY <1>6, <3>2
    <3> QED  BY <1>1, <2>2, <3>1, <3>3 DEF Joined
  <2> QED  BY <2>1, <2>2
<1>8. Joined(t, g)
  BY <1>3, <1>7 DEF Joined
<1> QED  BY <1>1, <1>2, <1>3, <1>4, <1>5, <1>6, <1>8

LEMMA JoinedExists ==
  ASSUME NEW S, NEW X, X = Seq(S), NEW ss \in Seq(X)
  PROVE  \E f \in [1..Len(ss) -> X] : Joined(ss, f)
<1> DEFINE T == {t \in Seq(X) : \E f \in [1..Len(t) -> X] : Joined(t, f)}
<1>1. << >> \in T
  <2> DEFINE f == [i \in 1..0 |-> << >>]
  <2>1. f \in [1..0 -> X]
    OBVIOUS
  <2> HIDE DEF f
  <2>2. Len(<< >>) = 0 /\ << >> \in Seq(X)
    OBVIOUS
  <2>3. \A i \in 1..0 : FALSE
    OBVIOUS
  <2>4. Joined(<< >>, f)
    BY <2>2, <2>3 DEF Joined
  <2> QED  BY <2>1, <2>2, <2>4
<1>2. ASSUME NEW t \in T, NEW x \in X PROVE Append(t, x) \in T
  <2>1. PICK f \in [1..Len(t) -> X] : Joined(t, f)
    OBVIOUS
  <2>2. t \in Seq(X) /\ Append(t, x) \in Seq(X)
    BY AppendTyped
  <2>3. \E g \in [1..Len(Append(t, x)) -> X] : Joined(Append(t, x), g)
    BY <2>1, <2>2, JoinedAppend
  <2> QED  BY <2>2, <2>3
<1>3. T \in SUBSET Seq(X)
  OBVIOUS
<1> HIDE DEF T
<1>4. T = Seq(X)
  BY <1>1, <1>2, <1>3, SeqSetInduction
<1> QED  BY <1>4 DEF T

LEMMA FlattenJoined ==
  ASSUME NEW X, NEW ss \in Seq(X), NEW f, Joined(ss, f), f \in [1..Len(ss) -> X], Len(ss) # 0
  PROVE  FlattenSeq(ss) = f[Len(ss)]
<1> DEFINE P(k) == k = [i \in 1..Len(ss) |-> IF i = 1 THEN ss[i] ELSE k[i - 1] \o ss[i]]
           c == CHOOSE k : P(k)
<1>1. f = [i \in 1..Len(ss) |-> f[i]]
  OBVIOUS
<1>2. P(f)
  <2>1. \A i \in 1..Len(ss) : f[i] = (IF i = 1 THEN ss[i] ELSE f[i - 1] \o ss[i])
    BY DEF Joined
  <2> QED  BY <1>1, <2>1, Zenon
<1>3. P(c)
  BY <1>2, Zenon
<1>4. FlattenSeq(ss) = c[Len(ss)]
  BY Zenon DEF FlattenSeq
<1> HIDE DEF c
<1>5. Joined(ss, c)
  BY <1>3, Zenon DEF Joined
<1> QED  BY <1>4, <1>5, JoinedUnique

LEMMA FlattenEmpty == FlattenSeq(<< >>) = << >>
<1>1. Len(<< >>) = 0
  OBVIOUS
<1> QED  BY <1>1, Zenon DEF FlattenSeq

LEMMA FlattenTyped ==
  ASSUME NEW S, NEW ss \in Seq(Seq(S))
  PROVE  FlattenSeq(ss) \in Seq(S)
<1>1. PICK X : X = Seq(S)
  OBVIOUS
<1>2. ss \in Seq(X)
  BY <1>1
<1>3. PICK f \in [1..Len(ss) -> X] : Joined(ss, f)
  BY <1>1, <1>2, JoinedExists
<1>4. CASE Len(ss) # 0
  <2>1. FlattenSeq(ss) = f[Len(ss)]
    BY <1>2, <1>3, <1>4, FlattenJoined
  <2>2. Len(ss) \in 1..Len(ss)
    BY <1>2, <1>4
  <2> QED  BY <1>1, <1>3, <2>1, <2>2
<1>5. CASE Len(ss) = 0
  <2>1. ss = << >> /\ << >> \in Seq(S)
    BY <1>5
  <2> QED  BY <2>1, FlattenEmpty
<1> QED  BY <1>4, <1>5

LEMMA FlattenAppend ==
  ASSUME NEW S, NEW ss \in Seq(Seq(S)), NEW s \in Seq(S)
  PROVE  FlattenSeq(Append(ss, s)) = FlattenSeq(ss) \o s
<1>1. PICK X : X = Seq(S)
  OBVIOUS
<1>2. ss \in Seq(X) /\ s \in X
  BY <1>1
<1>3. PICK f \in [1..Len(ss) -> X] : Joined(ss, f)
  BY <1>1, <1>2, JoinedExists
<1>4. PICK t \in Seq(X) : t = Append(ss, s)
  BY <1>2, AppendTyped
<1>5. PICK g \in [1..Len(t) -> X] :
         Joined(t, g) /\ g[Len(t)] = IF Len(ss) = 0 THEN s ELSE f[Len(ss)] \o s
  BY <1>1, <1>2, <1>3, <1>4, JoinedAppend
<1>6. Len(t) # 0
  BY <1>2, <1>4
<1>7. FlattenSeq(t) = g[Len(t)]
  BY <1>4, <1>5, <1>6, FlattenJoined
<1>8. CASE Len(ss) # 0
  <2>1. FlattenSeq(ss) = f[Len(ss)]
    BY <1>2, <1>3, <1>8, FlattenJoined
  <2> QED  BY <1>4, <1>5, <1>7, <1>8, <2>1
<1>9. CASE Len(ss) = 0
  <2>1. ss = << >>
    BY <1>9
  <2>2. FlattenSeq(ss) \o s = s
    BY <2>1, FlattenEmpty, ConcatEmpty
  <2> QED  BY <1>4, <1>5, <1>7, <1>9, <2>2
<1> QED  BY <1>8, <1>9
===============================================================================
