----------------------------- MODULE NamesProofs ------------------------------
(***************************************************************************)
(* What TLAPS proves of Names: natural sort orders names of every length,  *)
(* the stored keys sort as the names do, and a search finds what was       *)
(* typed.  The definitions are recursive functions, so each one is first   *)
(* shown to exist; induction is the choice of a least counterexample.      *)
(***************************************************************************)
EXTENDS Names, WellFoundedInduction, TLAPS

------------------------------------------------------------------------------
(* The least number principle and recursive functions.                      *)

\* A set of naturals that is not empty has a least member.
LEMMA LeastOfSet ==
  ASSUME NEW T \in SUBSET Nat, T # {}
  PROVE  \E x \in T : \A y \in T : x <= y
<1>1. PICK R : R = {ss \in Nat \X Nat : ss[1] < ss[2]}
  OBVIOUS
<1>2. OpToRel(<, Nat) = R
  BY <1>1, Zenon DEF OpToRel
<1>3. IsWellFoundedOn(R, Nat)
  BY <1>2, NatLessThanWellFounded, Zenon
<1>4. PICK x \in T : \A y \in T : ~ (<<y, x>> \in R)
  BY <1>3, WFMin, Zenon
<1>5. ASSUME NEW y \in T PROVE x <= y
  <2>1. x \in Nat /\ y \in Nat
    OBVIOUS
  <2>2. y < x => <<y, x>> \in R
    BY <2>1, <1>1
  <2> QED BY <1>4, <2>1, <2>2
<1> QED BY <1>5, Zenon

\* A set of naturals below a bound that is not empty has a greatest member.
LEMMA GreatestOfSet ==
  ASSUME NEW n \in Nat, NEW T \in SUBSET (0..n), T # {}
  PROVE  \E x \in T : \A y \in T : x >= y
<1> DEFINE D == {n - y : y \in T}
<1>1. D \in SUBSET Nat /\ D # {}
  <2>1. \A y \in T : n - y \in Nat
    OBVIOUS
  <2>2. \E y \in T : TRUE
    OBVIOUS
  <2> QED BY <2>1, <2>2, Zenon
<1>2. PICK d \in D : \A e \in D : d <= e
  <2> HIDE DEF D
  <2> QED BY <1>1, LeastOfSet, Zenon
<1>3. PICK x \in T : d = n - x
  BY <1>2
<1>4. \A y \in T : n - x <= n - y
  BY <1>2, <1>3
<1> QED BY <1>4

\* T holds a member of A if it holds those of a smaller measure.
Inductive(A, m, T) == \A x \in A : (\A y \in A : m[y] < m[x] => y \in T) => x \in T

\* Induction on a measure, for the set of what has a property.
LEMMA MeasureInduction ==
  ASSUME NEW A, NEW N \in Nat, NEW m \in [A -> 0..N], NEW T, Inductive(A, m, T)
  PROVE  A \subseteq T
<1> DEFINE D == {m[x] : x \in A \ T}
<1> SUFFICES ASSUME D # {} PROVE FALSE
  OBVIOUS
<1>1. D \in SUBSET Nat
  OBVIOUS
<1>2. PICK n \in D : \A k \in D : n <= k
  <2> HIDE DEF D
  <2> QED BY <1>1, LeastOfSet
<1>3. PICK x \in A \ T : n = m[x]
  BY <1>2
<1>4. ASSUME NEW y \in A, m[y] < m[x] PROVE y \in T
  <2>1. y \notin T => m[y] \in D
    OBVIOUS
  <2>2. m[y] \in D => m[x] <= m[y]
    BY <1>2, <1>3
  <2> QED BY <1>4, <2>1, <2>2
<1> QED BY <1>3, <1>4 DEF Inductive

\* Induction up to a bound.
LEMMA UpwardInduction ==
  ASSUME NEW n \in Nat, NEW T, 0 \in T, \A k \in 1..n : k - 1 \in T => k \in T
  PROVE  0..n \subseteq T
<1> DEFINE A == 0..n
           m == [k \in A |-> k]
<1>1. m \in [A -> 0..n]
  OBVIOUS
<1>2. ASSUME NEW k \in A, \A y \in A : m[y] < m[k] => y \in T PROVE k \in T
  <2>1. k # 0 => k - 1 \in A /\ m[k - 1] < m[k] /\ k \in 1..n
    OBVIOUS
  <2> HIDE DEF A, m
  <2> QED BY <1>2, <2>1
<1>3. Inductive(A, m, T)
  <2> HIDE DEF A, m
  <2> QED BY <1>2 DEF Inductive
<1>4. \E N \in Nat : m \in [A -> 0..N]
  <2> HIDE DEF A, m
  <2> QED BY <1>1, Zenon
<1>5. A \subseteq T
  <2> HIDE DEF A, m
  <2> QED BY <1>3, <1>4, MeasureInduction
<1> QED BY <1>5

\* F makes a function on A of another; the value at x depends on the other
\* one only at arguments of a smaller measure.
Grounded(A, V, m, F) ==
  /\ V # {} /\ \E N \in Nat : m \in [A -> 0..N]
  /\ F \in [[A -> V] -> [A -> V]]
  /\ \A f, g \in [A -> V] : \A x \in A :
        (\A y \in A : m[y] < m[x] => f[y] = g[y]) => F[f][x] = F[g][x]

\* A recursive function exists if its definition is grounded.
LEMMA FixedPoint ==
  ASSUME NEW A, NEW V, NEW m, NEW F, Grounded(A, V, m, F)
  PROVE  \E f \in [A -> V] : F[f] = f
<1>0. PICK N \in Nat : m \in [A -> 0..N]
  BY DEF Grounded
<1> /\ F \in [[A -> V] -> [A -> V]]
    /\ m \in [A -> 0..N]
  BY <1>0 DEF Grounded
<1> DEFINE Upto(n) == \E f \in [A -> V] : \A x \in A : m[x] < n => F[f][x] = f[x]
           Bad == {n \in 0..(N + 1) : ~Upto(n)}
<1>1. Bad = {}
  <2> SUFFICES ASSUME Bad # {} PROVE FALSE
    OBVIOUS
  <2>1. PICK n \in Bad : \A k \in Bad : n <= k
    <3>1. Bad \in SUBSET Nat
      OBVIOUS
    <3> HIDE DEF Bad
    <3> QED BY <3>1, LeastOfSet
  <2>2. n # 0
    <3>0. PICK v0 \in V : TRUE
      BY DEF Grounded
    <3>1. [x \in A |-> v0] \in [A -> V]
      OBVIOUS
    <3>2. \A x \in A : ~ (m[x] < 0)
      OBVIOUS
    <3>3. Upto(0)
      BY <3>1, <3>2
    <3> QED BY <3>3
  <2>3. n \in 1..(N + 1) /\ n - 1 \in 0..(N + 1) /\ n - 1 \notin Bad
    BY <2>1, <2>2
  <2>4. Upto(n - 1)
    BY <2>3
  <2>5. PICK f \in [A -> V] : \A x \in A : m[x] < n - 1 => F[f][x] = f[x]
    BY <2>4
  <2>6. PICK g \in [A -> V] : g = F[f]
    OBVIOUS
  <2>7. ASSUME NEW x \in A, m[x] < n PROVE F[g][x] = g[x]
    <3>1. \A y \in A : m[y] < m[x] => m[y] < n - 1
      BY <2>3, <2>7
    <3>2. \A y \in A : m[y] < m[x] => f[y] = g[y]
      BY <2>5, <2>6, <3>1
    <3>3. F[f][x] = F[g][x]
      BY <3>2 DEF Grounded
    <3> QED BY <2>6, <3>3
  <2>8. Upto(n)
    BY <2>7
  <2> QED BY <2>1, <2>8
<1>2. Upto(N + 1)
  <2>1. N + 1 \in 0..(N + 1)
    OBVIOUS
  <2> QED BY <1>1, <2>1
<1>3. PICK f \in [A -> V] : \A x \in A : m[x] < N + 1 => F[f][x] = f[x]
  BY <1>2
<1>4. \A x \in A : m[x] < N + 1
  OBVIOUS
<1>5. \A x \in A : F[f][x] = f[x]
  BY <1>3, <1>4
<1>6. F[f] = f
  <2>1. F[f] \in [A -> V]
    OBVIOUS
  <2> QED BY <1>5, <2>1
<1> QED BY <1>6
------------------------------------------------------------------------------
(* Runs of digits and their numbers.                                        *)

\* Digits are their own lower case, and no other character's.
LEMMA CharacterTypes ==
  /\ Zero \in Nat
  /\ \A c \in Characters : c \in Nat /\ Lower[c] \in Nat /\ Lower[c] \in Characters
  /\ \A c \in Characters : IsDigit(c) => Lower[c] = c
  /\ \A c \in Characters : ~IsDigit(c) => ~IsDigit(Lower[c])
<1>1. \A c \in Characters : IsDigit(Lower[c]) => IsDigit(c)
  BY CharacterAssumption DEF IsDigit
<1> QED BY <1>1, CharacterAssumption DEF IsDigit

\* A run of digits ends, at the end of the name or before the next character
\* that is no digit.
LEMMA RunEnds ==
  ASSUME NEW s \in Seq(Characters), NEW i \in 1..(Len(s) + 1)
  PROVE  /\ RunEnd(s, i) \in i..(Len(s) + 1)
         /\ \A k \in i..(RunEnd(s, i) - 1) : IsDigit(s[k])
         /\ RunEnd(s, i) = Len(s) + 1 \/ ~IsDigit(s[RunEnd(s, i)])
         /\ i <= Len(s) /\ IsDigit(s[i]) => RunEnd(s, i) > i
<1> DEFINE T == {j \in i..(Len(s) + 1) : j = Len(s) + 1 \/ ~IsDigit(s[j])}
           Ends(j) == /\ \A k \in i..(j - 1) : IsDigit(s[k])
                      /\ j = Len(s) + 1 \/ ~IsDigit(s[j])
<1>1. Len(s) \in Nat
  OBVIOUS
<1>2. T \in SUBSET Nat /\ T # {}
  <2>1. Len(s) + 1 \in T
    OBVIOUS
  <2> QED BY <2>1, <1>1
<1>3. PICK j \in T : \A k \in T : j <= k
  <2> HIDE DEF T
  <2> QED BY <1>2, LeastOfSet
<1>4. j \in i..(Len(s) + 1) /\ Ends(j)
  <2>1. ASSUME NEW k \in i..(j - 1) PROVE IsDigit(s[k])
    <3>1. k \notin T
      BY <1>3
    <3> QED BY <3>1
  <2> QED BY <1>3, <2>1
<1>5. RunEnd(s, i) \in i..(Len(s) + 1) /\ Ends(RunEnd(s, i))
  BY <1>4, Zenon DEF RunEnd
<1>6. i <= Len(s) /\ IsDigit(s[i]) => RunEnd(s, i) > i
  BY <1>1, <1>5
<1> QED BY <1>5, <1>6

\* take_number adds up digit after digit.
LEMMA TakenNumbers ==
  ASSUME NEW s \in Seq(Characters), NEW i \in 1..(Len(s) + 1)
  PROVE  \E v \in [(i - 1)..Len(s) -> Int] :
            /\ v[i - 1] = 0
            /\ \A k \in i..Len(s) :
                 v[k] = Least(Least(v[k - 1] * 10, MaxNumber) + s[k] - Zero, MaxNumber)
            /\ Number(s, i) = v[RunEnd(s, i) - 1]
            /\ Number(s, i) \in Int
<1> DEFINE A == (i - 1)..Len(s)
           Step(f, k) ==
             IF k < i THEN 0
             ELSE Least(Least(f[k - 1] * 10, MaxNumber) + s[k] - Zero, MaxNumber)
           F == [f \in [A -> Int] |-> [k \in A |-> Step(f, k)]]
           m == [k \in A |-> k - (i - 1)]
<1>1. Len(s) \in Nat /\ \A k \in 1..Len(s) : s[k] \in Nat
  BY CharacterTypes
<1>2. ASSUME NEW f, NEW k \in A, k >= i => f[k - 1] \in Int PROVE Step(f, k) \in Int
  <2>1. CASE k < i
    BY <2>1
  <2>2. CASE k >= i
    <3>1. f[k - 1] \in Int /\ s[k] \in Int /\ Zero \in Int /\ MaxNumber \in Int
      BY <1>1, <1>2, <2>2, CharacterTypes, NumberAssumption
    <3> QED BY <2>2, <3>1 DEF Least
  <2> QED BY <1>1, <2>1, <2>2
<1>0. ASSUME NEW k \in A, k >= i PROVE k - 1 \in A /\ m[k - 1] < m[k]
  BY <1>0, <1>1
<1>3. F \in [[A -> Int] -> [A -> Int]]
  <2>1. \A f \in [A -> Int] : \A k \in A : Step(f, k) \in Int
    <3> HIDE DEF A, Step
    <3> QED BY <1>2, <1>0
  <2> HIDE DEF A, Step
  <2> QED BY <2>1
<1>4. m \in [A -> 0..Len(s)]
  BY <1>1
<1>5. ASSUME NEW f \in [A -> Int], NEW g \in [A -> Int], NEW k \in A,
             \A y \in A : m[y] < m[k] => f[y] = g[y]
      PROVE  F[f][k] = F[g][k]
  <2>1. k >= i => f[k - 1] = g[k - 1]
    <3> HIDE DEF A, m
    <3> QED BY <1>0, <1>5
  <2>2. Step(f, k) = Step(g, k)
    BY <1>1, <2>1
  <2> HIDE DEF Step, A
  <2> QED BY <2>2
<1>6. PICK v \in [A -> Int] : F[v] = v
  <2>1. Grounded(A, Int, m, F)
    <3> HIDE DEF A, F, m
    <3>1. Int # {}
      BY SMTT(30)
    <3>2. \E N \in Nat : m \in [A -> 0..N]
      BY <1>1, <1>4, Zenon
    <3>3. \A f, g \in [A -> Int] : \A k \in A :
             (\A y \in A : m[y] < m[k] => f[y] = g[y]) => F[f][k] = F[g][k]
      BY <1>5, Zenon
    <3> QED BY <1>3, <3>1, <3>2, <3>3, Zenon DEF Grounded
  <2> HIDE DEF A, F, m
  <2> QED BY <2>1, FixedPoint
<1>7. v = [k \in A |-> Step(v, k)]
  BY <1>6
<1>8. PICK w : /\ w = [k \in A |-> Step(w, k)]
               /\ Number(s, i) = w[RunEnd(s, i) - 1]
  BY <1>7 DEF Number
<1>9. \A k \in A : w[k] \in Int
  <2> DEFINE T == {k \in A : w[k] \in Int}
  <2>1. ASSUME NEW k \in A, \A y \in A : m[y] < m[k] => y \in T PROVE k \in T
    <3>1. k >= i => w[k - 1] \in Int
      <4> HIDE DEF A, m
      <4> QED BY <1>0, <2>1
    <3>2. w[k] = Step(w, k)
      <4> HIDE DEF Step, A
      <4> QED BY <1>8
    <3>3. Step(w, k) \in Int
      <4> HIDE DEF Step, A
      <4> QED BY <1>2, <3>1
    <3> QED BY <3>2, <3>3
  <2>2. Inductive(A, m, T)
    <3> HIDE DEF T, A, m
    <3> QED BY <2>1 DEF Inductive
  <2>3. A \subseteq T
    <3> HIDE DEF T, A, m
    <3> QED BY <1>1, <1>4, <2>2, MeasureInduction, Zenon
  <2> QED BY <2>3
<1>10. w \in [A -> Int]
  <2> HIDE DEF Step, A
  <2> QED BY <1>8, <1>9
<1>11. /\ w[i - 1] = 0
       /\ \A k \in i..Len(s) :
            w[k] = Least(Least(w[k - 1] * 10, MaxNumber) + s[k] - Zero, MaxNumber)
  <2>1. \A k \in A : w[k] = Step(w, k)
    <3> HIDE DEF Step, A
    <3> QED BY <1>8
  <2>2. i - 1 \in A /\ i - 1 < i /\ \A k \in i..Len(s) : k \in A /\ ~ (k < i)
    BY <1>1
  <2> HIDE DEF A
  <2> QED BY <2>1, <2>2
<1>12. RunEnd(s, i) - 1 \in A
  BY <1>1, RunEnds
<1>13. Number(s, i) \in Int
  BY <1>8, <1>9, <1>12
<1> QED BY <1>8, <1>10, <1>11, <1>13
------------------------------------------------------------------------------
(* natsort::cmp compares what two names have at a position of each.         *)

Spots(s) == 1..(Len(s) + 1)

Digit(s, i) == i <= Len(s) /\ IsDigit(s[i])

\* What stands at i: nothing, a number or a character; all numbers together
\* come where the character '0' comes.
Class(s, i) == IF i > Len(s) THEN -1 ELSE IF IsDigit(s[i]) THEN Zero ELSE Lower[s[i]]

Amount(s, i) == IF Digit(s, i) THEN Number(s, i) ELSE 0

\* Where the comparison goes on.
After(s, i) == IF Digit(s, i) THEN RunEnd(s, i) ELSE i + 1

\* What a comparison looks at, at a position, and that it goes on behind it.
LEMMA Heads ==
  ASSUME NEW s \in Seq(Characters), NEW i \in Spots(s)
  PROVE  /\ Len(s) \in Nat /\ i \in Nat /\ Class(s, i) \in Int /\ Amount(s, i) \in Int
         /\ i > Len(s) <=> Class(s, i) = -1
         /\ i <= Len(s) => After(s, i) \in Spots(s) /\ After(s, i) > i
         /\ Class(s, i) = Zero <=> Digit(s, i)
<1>1. Len(s) \in Nat /\ i \in 1..(Len(s) + 1) /\ \A k \in 1..Len(s) : s[k] \in Characters
  BY DEF Spots
<1>2. /\ RunEnd(s, i) \in i..(Len(s) + 1)
      /\ i <= Len(s) /\ IsDigit(s[i]) => RunEnd(s, i) > i
  BY <1>1, RunEnds
<1>3. Number(s, i) \in Int
  BY <1>1, TakenNumbers
<1>4. i <= Len(s) => /\ Class(s, i) \in Nat
                     /\ Class(s, i) = Zero <=> IsDigit(s[i])
  BY <1>1, CharacterTypes DEF Class, IsDigit
<1>5. i > Len(s) => Class(s, i) = -1 /\ ~Digit(s, i) /\ Zero # -1
  BY <1>1, CharacterTypes DEF Class, Digit
<1>6. Amount(s, i) \in Int
  BY <1>3 DEF Amount
<1>7. i <= Len(s) => After(s, i) \in Spots(s) /\ After(s, i) > i
  BY <1>1, <1>2 DEF After, Digit, Spots
<1> QED BY <1>1, <1>4, <1>5, <1>6, <1>7 DEF Digit

\* Inside a name there is a character to compare.
LEMMA ClassIsNat ==
  ASSUME NEW s \in Seq(Characters), NEW i \in Spots(s), i <= Len(s)
  PROVE  Class(s, i) \in Nat /\ ~(i > Len(s)) /\ i \in 1..Len(s)
<1>1. i \in 1..Len(s) /\ s[i] \in Characters /\ ~(i > Len(s))
  BY DEF Spots
<1> QED BY <1>1, CharacterTypes DEF Class

\* v holds the result of the comparison from each pair of positions.
Compares(v, a, b) ==
  /\ v \in [Spots(a) \X Spots(b) -> {-1, 0, 1}]
  /\ \A i \in Spots(a), j \in Spots(b) :
       v[<<i, j>>] =
         IF Class(a, i) # Class(b, j) THEN Sign(Class(a, i), Class(b, j))
         ELSE IF Amount(a, i) # Amount(b, j) THEN Sign(Amount(a, i), Amount(b, j))
         ELSE IF i > Len(a) THEN 0
         ELSE v[<<After(a, i), After(b, j)>>]

\* natsort::cmp is the recursion over pairs of positions that it is written as.
LEMMA Comparing ==
  ASSUME NEW a \in Seq(Characters), NEW b \in Seq(Characters)
  PROVE  \E v : Compares(v, a, b) /\ Compare(a, b) = v[<<1, 1>>]
<1> DEFINE A == (1..(Len(a) + 1)) \X (1..(Len(b) + 1))
           V == {-1, 0, 1}
           Step(f, here) ==
             LET i == here[1]
                 j == here[2]
             IN  IF i > Len(a) \/ j > Len(b)
                 THEN Sign(Len(a) - i, Len(b) - j)
                 ELSE IF IsDigit(a[i]) /\ IsDigit(b[j])
                 THEN IF Number(a, i) # Number(b, j) THEN Sign(Number(a, i), Number(b, j))
                      ELSE f[<<RunEnd(a, i), RunEnd(b, j)>>]
                 ELSE IF Lower[a[i]] # Lower[b[j]] THEN Sign(Lower[a[i]], Lower[b[j]])
                 ELSE f[<<i + 1, j + 1>>]
           F == [f \in [A -> V] |-> [here \in A |-> Step(f, here)]]
           m == [here \in A |-> Len(a) + 1 - here[1]]
           Jump(i, j) == IF IsDigit(a[i]) /\ IsDigit(b[j])
                         THEN <<RunEnd(a, i), RunEnd(b, j)>> ELSE <<i + 1, j + 1>>
<1>1. Len(a) \in Nat /\ Len(b) \in Nat
  OBVIOUS
<1>7. (\E v : v = [here \in A |-> Step(v, here)]) =>
        \E v : /\ v = [here \in A |-> Step(v, here)]
               /\ Compare(a, b) = v[<<1, 1>>]
  BY DEF Compare
<1>2. ASSUME NEW i \in Spots(a), NEW j \in Spots(b), i <= Len(a), j <= Len(b)
      PROVE  Jump(i, j) \in A /\ m[Jump(i, j)] < m[<<i, j>>]
  <2>1. /\ RunEnd(a, i) \in i..(Len(a) + 1) /\ (IsDigit(a[i]) => RunEnd(a, i) > i)
        /\ RunEnd(b, j) \in j..(Len(b) + 1)
    BY <1>2, RunEnds DEF Spots
  <2>2. PICK k \in Spots(a), l \in Spots(b) : Jump(i, j) = <<k, l>> /\ k > i
    BY <1>1, <1>2, <2>1, SMTT(30) DEF Spots
  <2>3. <<k, l>> \in A /\ <<i, j>> \in A
    BY DEF Spots
  <2>4. m[<<k, l>>] = Len(a) + 1 - k /\ m[<<i, j>>] = Len(a) + 1 - i
    <3> HIDE DEF A, Jump
    <3> QED BY <2>3
  <2> HIDE DEF A, Jump, m
  <2> QED BY <1>1, <2>2, <2>3, <2>4 DEF Spots
<1>0. ASSUME NEW f, NEW i \in Spots(a), NEW j \in Spots(b)
      PROVE  Step(f, <<i, j>>) =
               IF i > Len(a) \/ j > Len(b)
               THEN Sign(Len(a) - i, Len(b) - j)
               ELSE IF IsDigit(a[i]) /\ IsDigit(b[j]) /\ Number(a, i) # Number(b, j)
               THEN Sign(Number(a, i), Number(b, j))
               ELSE IF ~(IsDigit(a[i]) /\ IsDigit(b[j])) /\ Lower[a[i]] # Lower[b[j]]
               THEN Sign(Lower[a[i]], Lower[b[j]])
               ELSE f[Jump(i, j)]
  OBVIOUS
<1>3. ASSUME NEW f, NEW i \in Spots(a), NEW j \in Spots(b)
      PROVE  Step(f, <<i, j>>) =
               IF Class(a, i) # Class(b, j) THEN Sign(Class(a, i), Class(b, j))
               ELSE IF Amount(a, i) # Amount(b, j) THEN Sign(Amount(a, i), Amount(b, j))
               ELSE IF i > Len(a) THEN 0
               ELSE f[<<After(a, i), After(b, j)>>]
  <2>1. CASE i > Len(a) \/ j > Len(b)
    <3>1. Step(f, <<i, j>>) = Sign(Len(a) - i, Len(b) - j)
      BY <1>0, <2>1
    <3>2. /\ i > Len(a) => i = Len(a) + 1 /\ Class(a, i) = -1 /\ Amount(a, i) = 0
          /\ j > Len(b) => j = Len(b) + 1 /\ Class(b, j) = -1 /\ Amount(b, j) = 0
          /\ i <= Len(a) => Class(a, i) \in Nat
          /\ j <= Len(b) => Class(b, j) \in Nat
      BY <1>1, CharacterTypes DEF Class, Amount, Digit, Spots
    <3> HIDE DEF Step
    <3> QED BY <1>1, <2>1, <3>1, <3>2 DEF Sign, Spots
  <2>2. CASE i <= Len(a) /\ j <= Len(b)
    <3>1. /\ a[i] \in Characters /\ b[j] \in Characters
          /\ Class(a, i) = IF IsDigit(a[i]) THEN Zero ELSE Lower[a[i]]
          /\ Class(b, j) = IF IsDigit(b[j]) THEN Zero ELSE Lower[b[j]]
          /\ Amount(a, i) = IF IsDigit(a[i]) THEN Number(a, i) ELSE 0
          /\ Amount(b, j) = IF IsDigit(b[j]) THEN Number(b, j) ELSE 0
          /\ After(a, i) = IF IsDigit(a[i]) THEN RunEnd(a, i) ELSE i + 1
          /\ After(b, j) = IF IsDigit(b[j]) THEN RunEnd(b, j) ELSE j + 1
      BY <1>1, <2>2 DEF Class, Amount, After, Digit, Spots
    <3>2. Step(f, <<i, j>>) =
            IF IsDigit(a[i]) /\ IsDigit(b[j]) /\ Number(a, i) # Number(b, j)
            THEN Sign(Number(a, i), Number(b, j))
            ELSE IF ~(IsDigit(a[i]) /\ IsDigit(b[j])) /\ Lower[a[i]] # Lower[b[j]]
            THEN Sign(Lower[a[i]], Lower[b[j]])
            ELSE f[Jump(i, j)]
      BY <1>1, <2>2 DEF Spots
    <3> HIDE DEF Step
    <3>3. CASE IsDigit(a[i]) /\ IsDigit(b[j])
      BY <1>1, <2>2, <3>1, <3>2, <3>3 DEF Spots
    <3>4. CASE ~IsDigit(a[i]) /\ ~IsDigit(b[j])
      BY <1>1, <2>2, <3>1, <3>2, <3>4 DEF Spots
    <3>5. CASE \/ IsDigit(a[i]) /\ ~IsDigit(b[j])
               \/ ~IsDigit(a[i]) /\ IsDigit(b[j])
      <4>1. /\ Lower[a[i]] \in Nat /\ Lower[b[j]] \in Nat /\ Zero \in Nat
            /\ IsDigit(a[i]) => Lower[a[i]] \in Zero..(Zero + 9)
            /\ ~IsDigit(a[i]) => Lower[a[i]] \notin Zero..(Zero + 9)
            /\ IsDigit(b[j]) => Lower[b[j]] \in Zero..(Zero + 9)
            /\ ~IsDigit(b[j]) => Lower[b[j]] \notin Zero..(Zero + 9)
        BY <3>1, CharacterTypes DEF IsDigit
      <4>2. CASE IsDigit(a[i]) /\ ~IsDigit(b[j])
        <5>1. Lower[a[i]] # Lower[b[j]] /\ Zero # Lower[b[j]]
              /\ Sign(Zero, Lower[b[j]]) = Sign(Lower[a[i]], Lower[b[j]])
          BY <4>1, <4>2 DEF Sign
        <5> QED BY <3>1, <3>2, <4>2, <5>1
      <4>3. CASE ~IsDigit(a[i]) /\ IsDigit(b[j])
        <5>1. Lower[a[i]] # Lower[b[j]] /\ Zero # Lower[a[i]]
              /\ Sign(Lower[a[i]], Zero) = Sign(Lower[a[i]], Lower[b[j]])
          BY <4>1, <4>3, SMTT(30) DEF Sign
        <5> QED BY <3>1, <3>2, <4>3, <5>1
      <4> QED BY <3>5, <4>2, <4>3
    <3> QED BY <3>3, <3>4, <3>5
  <2> QED BY <1>1, <2>1, <2>2 DEF Spots
<1>4. ASSUME NEW f, NEW i \in Spots(a), NEW j \in Spots(b),
             i <= Len(a) /\ j <= Len(b) => f[Jump(i, j)] \in V
      PROVE  Step(f, <<i, j>>) \in V
  <2>1. \A x, y : Sign(x, y) \in V
    BY DEF Sign
  <2>2. ~ (i > Len(a) \/ j > Len(b)) => f[Jump(i, j)] \in V
    BY <1>1, <1>4 DEF Spots
  <2>3. \/ Step(f, <<i, j>>) = Sign(Len(a) - i, Len(b) - j)
        \/ Step(f, <<i, j>>) = Sign(Number(a, i), Number(b, j))
        \/ Step(f, <<i, j>>) = Sign(Lower[a[i]], Lower[b[j]])
        \/ ~ (i > Len(a) \/ j > Len(b)) /\ Step(f, <<i, j>>) = f[Jump(i, j)]
    OBVIOUS
  <2> HIDE DEF Step, Jump, V
  <2> QED BY <2>1, <2>2, <2>3, Zenon
<1>5. Grounded(A, V, m, F)
  <2>1. V # {}
    OBVIOUS
  <2>2. m \in [A -> 0..(Len(a) + 1)]
    BY <1>1
  <2>3. A = {<<i, j>> : i \in Spots(a), j \in Spots(b)}
    BY DEF Spots
  <2>4. \A f \in [A -> V] : \A here \in A : Step(f, here) \in V
    <3> HIDE DEF Step, V, m, Jump
    <3>1. ASSUME NEW f \in [A -> V], NEW i \in Spots(a), NEW j \in Spots(b)
          PROVE  Step(f, <<i, j>>) \in V
      <4>1. i <= Len(a) /\ j <= Len(b) => f[Jump(i, j)] \in V
        <5> HIDE DEF A
        <5> QED BY <1>2
      <4> HIDE DEF A
      <4> QED BY <1>4, <4>1
    <3> HIDE DEF A
    <3> QED BY <2>3, <3>1
  <2>5. F \in [[A -> V] -> [A -> V]]
    <3> HIDE DEF A, V, Step
    <3> QED BY <2>4
  <2>6. ASSUME NEW f \in [A -> V], NEW g \in [A -> V], NEW here \in A,
               \A y \in A : m[y] < m[here] => f[y] = g[y]
        PROVE  F[f][here] = F[g][here]
    <3>1. PICK i \in Spots(a), j \in Spots(b) : here = <<i, j>>
      BY <2>3
    <3>2. ~ (i > Len(a) \/ j > Len(b)) => f[Jump(i, j)] = g[Jump(i, j)]
      <4>1. ~ (i > Len(a) \/ j > Len(b)) => i <= Len(a) /\ j <= Len(b)
        BY <1>1 DEF Spots
      <4> HIDE DEF A, m, Jump
      <4> QED BY <1>2, <2>6, <3>1, <4>1
    <3>3. Step(f, <<i, j>>) = Step(g, <<i, j>>)
      <4>1. CASE i > Len(a) \/ j > Len(b)
        BY <4>1
      <4>2. CASE ~ (i > Len(a) \/ j > Len(b))
        BY <3>2, <4>2
      <4> QED BY <4>1, <4>2
    <3> HIDE DEF Step, A, V
    <3> QED BY <3>1, <3>3
  <2>7. \A f, g \in [A -> V] : \A k \in A :
           (\A y \in A : m[y] < m[k] => f[y] = g[y]) => F[f][k] = F[g][k]
    <3> HIDE DEF A, V, F, m
    <3> QED BY <2>6, Zenon
  <2>8. \E N \in Nat : m \in [A -> 0..N]
    <3>1. Len(a) + 1 \in Nat
      BY <1>1
    <3> HIDE DEF A, m
    <3> QED BY <2>2, <3>1, Zenon
  <2> HIDE DEF A, V, F, m
  <2> QED BY <2>1, <2>5, <2>7, <2>8, Zenon DEF Grounded
<1>6. PICK g \in [A -> V] : F[g] = g
  <2> HIDE DEF A, V, F, m
  <2> QED BY <1>5, FixedPoint
<1>8. PICK v : /\ v = [here \in A |-> Step(v, here)]
               /\ Compare(a, b) = v[<<1, 1>>]
  BY <1>6, <1>7
<1>9. \A i \in Spots(a), j \in Spots(b) : v[<<i, j>>] = Step(v, <<i, j>>)
  <2> HIDE DEF Step
  <2> QED BY <1>8 DEF Spots
<1>10. \A here \in A : v[here] \in V
  <2> DEFINE T == {here \in A : v[here] \in V}
  <2>1. ASSUME NEW here \in A, \A y \in A : m[y] < m[here] => y \in T PROVE here \in T
    <3>1. PICK i \in Spots(a), j \in Spots(b) : here = <<i, j>>
      BY DEF Spots
    <3>2. i <= Len(a) /\ j <= Len(b) => v[Jump(i, j)] \in V
      <4> HIDE DEF A, m, Jump
      <4> QED BY <1>2, <2>1, <3>1
    <3>3. v[<<i, j>>] \in V
      <4> HIDE DEF V, Step, Jump
      <4> QED BY <1>4, <1>9, <3>2
    <3> QED BY <3>1, <3>3
  <2>2. Inductive(A, m, T)
    <3> HIDE DEF T, A, m
    <3> QED BY <2>1 DEF Inductive
  <2>3. \E N \in Nat : m \in [A -> 0..N]
    <3>1. Len(a) + 1 \in Nat /\ m \in [A -> 0..(Len(a) + 1)]
      BY <1>1
    <3> HIDE DEF A, m
    <3> QED BY <3>1, Zenon
  <2>4. A \subseteq T
    <3> HIDE DEF T, A, m
    <3> QED BY <2>2, <2>3, MeasureInduction
  <2> QED BY <2>4
<1>11. v \in [Spots(a) \X Spots(b) -> {-1, 0, 1}]
  <2> HIDE DEF Step
  <2> QED BY <1>8, <1>10 DEF Spots
<1>12. Compares(v, a, b)
  <2> HIDE DEF Step
  <2> QED BY <1>3, <1>9, <1>11 DEF Compares
<1> QED BY <1>8, <1>12
------------------------------------------------------------------------------
(* natsort::cmp is an order.                                                *)

\* Induction from the end of a name towards its start.
LEMMA BackwardInduction ==
  ASSUME NEW s \in Seq(Characters), NEW T,
         \A i \in Spots(s) : (\A k \in Spots(s) : k > i => k \in T) => i \in T
  PROVE  Spots(s) \subseteq T
<1> DEFINE m == [i \in Spots(s) |-> Len(s) + 1 - i]
<1>1. Len(s) + 1 \in Nat /\ m \in [Spots(s) -> 0..(Len(s) + 1)]
  BY DEF Spots
<1>2. \A i, k \in Spots(s) : k > i => m[k] < m[i]
  BY DEF Spots
<1>3. Inductive(Spots(s), m, T)
  <2> HIDE DEF m
  <2> QED BY <1>2 DEF Inductive
<1>4. \E N \in Nat : m \in [Spots(s) -> 0..N]
  <2> HIDE DEF m
  <2> QED BY <1>1, Zenon
<1> HIDE DEF m
<1> QED BY <1>3, <1>4, MeasureInduction

\* natsort::cmp answers -1, 0 or 1, and the opposite with the names swapped.
LEMMA CompareMirrored ==
  ASSUME NEW a \in Seq(Characters), NEW b \in Seq(Characters)
  PROVE  Compare(a, b) \in {-1, 0, 1} /\ Compare(b, a) = -Compare(a, b)
<1>1. PICK v : Compares(v, a, b) /\ Compare(a, b) = v[<<1, 1>>]
  BY Comparing
<1>2. PICK w : Compares(w, b, a) /\ Compare(b, a) = w[<<1, 1>>]
  BY Comparing
<1> DEFINE T == {i \in Spots(a) : \A j \in Spots(b) : w[<<j, i>>] = -v[<<i, j>>]}
<1>3. ASSUME NEW i \in Spots(a), \A k \in Spots(a) : k > i => k \in T,
             NEW j \in Spots(b)
      PROVE  w[<<j, i>>] = -v[<<i, j>>]
  <2> DEFINE ca == Class(a, i)
             cb == Class(b, j)
             na == Amount(a, i)
             nb == Amount(b, j)
  <2>1. /\ ca \in Int /\ na \in Int /\ cb \in Int /\ nb \in Int
        /\ i <= Len(a) => After(a, i) \in Spots(a) /\ After(a, i) > i
        /\ j <= Len(b) => After(b, j) \in Spots(b)
        /\ i > Len(a) <=> ca = -1
        /\ j > Len(b) <=> cb = -1
        /\ i \in Nat /\ j \in Nat /\ Len(a) \in Nat /\ Len(b) \in Nat
    BY Heads
  <2>2. v[<<i, j>>] =
         IF ca # cb THEN Sign(ca, cb)
         ELSE IF na # nb THEN Sign(na, nb)
         ELSE IF i > Len(a) THEN 0
         ELSE v[<<After(a, i), After(b, j)>>]
    BY <1>1 DEF Compares
  <2>3. w[<<j, i>>] =
         IF cb # ca THEN Sign(cb, ca)
         ELSE IF nb # na THEN Sign(nb, na)
         ELSE IF j > Len(b) THEN 0
         ELSE w[<<After(b, j), After(a, i)>>]
    BY <1>2 DEF Compares
  <2> HIDE DEF ca, cb, na, nb
  <2>4. CASE ca # cb \/ na # nb
    <3>1. \A x, y \in Int : Sign(y, x) = -Sign(x, y)
      BY DEF Sign
    <3>2. Sign(cb, ca) = -Sign(ca, cb) /\ Sign(nb, na) = -Sign(na, nb)
      BY <2>1, <3>1
    <3>3. CASE ca # cb
      <4>1. v[<<i, j>>] = Sign(ca, cb) /\ w[<<j, i>>] = Sign(cb, ca)
        BY <2>2, <2>3, <3>3
      <4> QED BY <3>2, <4>1
    <3>4. CASE ca = cb /\ na # nb
      <4>1. v[<<i, j>>] = Sign(na, nb) /\ w[<<j, i>>] = Sign(nb, na)
        BY <2>2, <2>3, <3>4
      <4> QED BY <3>2, <4>1
    <3> QED BY <2>4, <3>3, <3>4
  <2>5. CASE ca = cb /\ na = nb /\ i > Len(a)
    <3>1. j > Len(b)
      BY <2>1, <2>5
    <3>2. v[<<i, j>>] = 0
      BY <2>2, <2>5
    <3>3. w[<<j, i>>] = 0
      BY <2>3, <2>5, <3>1
    <3>4. \A x \in Int : -x = 0 - x
      OBVIOUS
    <3>5. v[<<i, j>>] \in Int /\ w[<<j, i>>] = 0 - v[<<i, j>>]
      BY <3>2, <3>3
    <3> QED BY <3>4, <3>5
  <2>6. CASE ca = cb /\ na = nb /\ i <= Len(a)
    <3>0. i <= Len(a) /\ j <= Len(b) /\ ~(i > Len(a)) /\ ~(j > Len(b))
      BY <2>1, <2>6
    <3>1. After(a, i) \in T /\ After(b, j) \in Spots(b) /\ ~(i > Len(a)) /\ ~(j > Len(b))
      <4>1. After(a, i) \in Spots(a) /\ After(a, i) > i /\ After(b, j) \in Spots(b)
        BY <2>1, <3>0
      <4> HIDE DEF T
      <4> QED BY <1>3, <3>0, <4>1
    <3>2. v[<<i, j>>] = v[<<After(a, i), After(b, j)>>]
      BY <2>2, <2>6, <3>1
    <3>3. w[<<j, i>>] = w[<<After(b, j), After(a, i)>>]
      BY <2>3, <2>6, <3>1
    <3>4. w[<<After(b, j), After(a, i)>>] = -v[<<After(a, i), After(b, j)>>]
      BY <3>1
    <3> QED BY <3>2, <3>3, <3>4
  <2> QED BY <2>1, <2>4, <2>5, <2>6
<1>4. Spots(a) \subseteq T
  <2>1. \A i \in Spots(a) : (\A k \in Spots(a) : k > i => k \in T) => i \in T
    BY <1>3
  <2> HIDE DEF T
  <2> QED BY <2>1, BackwardInduction
<1>5. 1 \in Spots(a) /\ 1 \in Spots(b)
  BY DEF Spots
<1>6. w[<<1, 1>>] = -v[<<1, 1>>]
  BY <1>4, <1>5
<1>7. v[<<1, 1>>] \in {-1, 0, 1}
  BY <1>1, <1>5 DEF Compares
<1> QED BY <1>1, <1>2, <1>6, <1>7

\* natsort::cmp is transitive, and equality too: the sort needs it to be.
LEMMA CompareTransitive ==
  ASSUME NEW a \in Seq(Characters), NEW b \in Seq(Characters), NEW c \in Seq(Characters),
         Compare(a, b) <= 0, Compare(b, c) <= 0
  PROVE  /\ Compare(a, c) <= 0
         /\ Compare(a, c) = 0 => Compare(a, b) = 0 /\ Compare(b, c) = 0
<1>1. PICK v : Compares(v, a, b) /\ Compare(a, b) = v[<<1, 1>>]
  BY Comparing
<1>2. PICK w : Compares(w, b, c) /\ Compare(b, c) = w[<<1, 1>>]
  BY Comparing
<1>3. PICK u : Compares(u, a, c) /\ Compare(a, c) = u[<<1, 1>>]
  BY Comparing
<1> DEFINE Good(i, j, k) ==
             v[<<i, j>>] <= 0 /\ w[<<j, k>>] <= 0 =>
               /\ u[<<i, k>>] <= 0
               /\ u[<<i, k>>] = 0 => v[<<i, j>>] = 0 /\ w[<<j, k>>] = 0
           T == {i \in Spots(a) : \A j \in Spots(b), k \in Spots(c) : Good(i, j, k)}
<1>4. ASSUME NEW i \in Spots(a), \A l \in Spots(a) : l > i => l \in T,
             NEW j \in Spots(b), NEW k \in Spots(c)
      PROVE  Good(i, j, k)
  <2> DEFINE ca == Class(a, i)
             cb == Class(b, j)
             cc == Class(c, k)
             na == Amount(a, i)
             nb == Amount(b, j)
             nc == Amount(c, k)
  <2>1. /\ ca \in Int /\ na \in Int /\ cb \in Int /\ nb \in Int /\ cc \in Int /\ nc \in Int
        /\ i <= Len(a) => After(a, i) \in Spots(a) /\ After(a, i) > i
        /\ j <= Len(b) => After(b, j) \in Spots(b)
        /\ k <= Len(c) => After(c, k) \in Spots(c)
        /\ i > Len(a) <=> ca = -1
        /\ j > Len(b) <=> cb = -1
        /\ k > Len(c) <=> cc = -1
        /\ i \in Nat /\ j \in Nat /\ k \in Nat
        /\ Len(a) \in Nat /\ Len(b) \in Nat /\ Len(c) \in Nat
    BY Heads
  <2>2. v[<<i, j>>] =
         IF ca # cb THEN Sign(ca, cb)
         ELSE IF na # nb THEN Sign(na, nb)
         ELSE IF i > Len(a) THEN 0
         ELSE v[<<After(a, i), After(b, j)>>]
    BY <1>1 DEF Compares
  <2>3. w[<<j, k>>] =
         IF cb # cc THEN Sign(cb, cc)
         ELSE IF nb # nc THEN Sign(nb, nc)
         ELSE IF j > Len(b) THEN 0
         ELSE w[<<After(b, j), After(c, k)>>]
    BY <1>2 DEF Compares
  <2>4. u[<<i, k>>] =
         IF ca # cc THEN Sign(ca, cc)
         ELSE IF na # nc THEN Sign(na, nc)
         ELSE IF i > Len(a) THEN 0
         ELSE u[<<After(a, i), After(c, k)>>]
    BY <1>3 DEF Compares
  <2> HIDE DEF ca, cb, cc, na, nb, nc
  <2>5. CASE ca # cb \/ na # nb \/ cb # cc \/ nb # nc
    BY <2>1, <2>2, <2>3, <2>4, <2>5 DEF Sign
  <2>6. CASE ca = cb /\ na = nb /\ cb = cc /\ nb = nc /\ i > Len(a)
    BY <2>1, <2>2, <2>3, <2>4, <2>6
  <2>7. CASE ca = cb /\ na = nb /\ cb = cc /\ nb = nc /\ i <= Len(a)
    <3>1. /\ After(a, i) \in T /\ After(b, j) \in Spots(b) /\ After(c, k) \in Spots(c)
          /\ ~(i > Len(a)) /\ ~(j > Len(b))
      <4>0. /\ i <= Len(a) /\ j <= Len(b) /\ k <= Len(c)
            /\ ~(i > Len(a)) /\ ~(j > Len(b))
        BY <2>1, <2>7
      <4>1. /\ After(a, i) \in Spots(a) /\ After(a, i) > i
            /\ After(b, j) \in Spots(b) /\ After(c, k) \in Spots(c)
        BY <2>1, <4>0
      <4> HIDE DEF T
      <4> QED BY <1>4, <4>0, <4>1
    <3>2. Good(After(a, i), After(b, j), After(c, k))
      BY <3>1
    <3> QED BY <2>2, <2>3, <2>4, <2>7, <3>1, <3>2
  <2> QED BY <2>1, <2>5, <2>6, <2>7
<1>5. Spots(a) \subseteq T
  <2>1. \A i \in Spots(a) : (\A l \in Spots(a) : l > i => l \in T) => i \in T
    <3> HIDE DEF Good
    <3> QED BY <1>4
  <2> HIDE DEF T
  <2> QED BY <2>1, BackwardInduction
<1>6. Good(1, 1, 1)
  <2>1. 1 \in Spots(a) /\ 1 \in Spots(b) /\ 1 \in Spots(c)
    BY DEF Spots
  <2> HIDE DEF Good
  <2> QED BY <1>5, <2>1
<1> QED BY <1>1, <1>2, <1>3, <1>6
------------------------------------------------------------------------------
(* Keys are written piece by piece.                                         *)

\* Powers of ten grow.
LEMMA Powers ==
  /\ \A k \in 0..PadWidth : Power[k] \in Nat /\ Power[k] <= Power[PadWidth]
  /\ Power[0] = 1
  /\ \A k \in 1..PadWidth : Power[k] = 10 * Power[k - 1]
<1> DEFINE A == 0..PadWidth
           Step(f, k) == IF k = 0 THEN 1 ELSE 10 * f[k - 1]
           F == [f \in [A -> Nat] |-> [k \in A |-> Step(f, k)]]
           m == [k \in A |-> k]
<1>1. PadWidth \in Nat \ {0} /\ m \in [A -> 0..PadWidth]
  BY NumberAssumption
<1>2. ASSUME NEW f, NEW k \in A, k # 0 => f[k - 1] \in Nat PROVE Step(f, k) \in Nat
  BY <1>2
<1>3. ASSUME NEW k \in A, k # 0 PROVE k - 1 \in A /\ m[k - 1] < m[k]
  BY <1>1, <1>3
<1>4. Grounded(A, Nat, m, F)
  <2>1. Nat # {}
    OBVIOUS
  <2>2. \E N \in Nat : m \in [A -> 0..N]
    <3> HIDE DEF A, m
    <3> QED BY <1>1, Zenon
  <2>3. \A f \in [A -> Nat] : \A k \in A : Step(f, k) \in Nat
    <3> HIDE DEF A, Step, m
    <3> QED BY <1>2, <1>3
  <2>4. F \in [[A -> Nat] -> [A -> Nat]]
    <3> HIDE DEF A, Step
    <3> QED BY <2>3
  <2>5. ASSUME NEW f \in [A -> Nat], NEW g \in [A -> Nat], NEW k \in A,
               \A y \in A : m[y] < m[k] => f[y] = g[y]
        PROVE  F[f][k] = F[g][k]
    <3>1. k # 0 => f[k - 1] = g[k - 1]
      <4> HIDE DEF A, m
      <4> QED BY <1>3, <2>5
    <3>2. Step(f, k) = Step(g, k)
      BY <3>1
    <3> HIDE DEF Step, A
    <3> QED BY <3>2
  <2>6. \A f, g \in [A -> Nat] : \A k \in A :
           (\A y \in A : m[y] < m[k] => f[y] = g[y]) => F[f][k] = F[g][k]
    <3> HIDE DEF A, F, m
    <3> QED BY <2>5, Zenon
  <2> HIDE DEF A, F, m
  <2> QED BY <2>1, <2>2, <2>4, <2>6, Zenon DEF Grounded
<1>5. PICK g \in [A -> Nat] : F[g] = g
  <2> HIDE DEF A, F, m
  <2> QED BY <1>4, FixedPoint
<1>6. (\E v : v = [k \in A |-> Step(v, k)]) => Power = [k \in A |-> Step(Power, k)]
  BY DEF Power
<1>7. Power = [k \in A |-> Step(Power, k)]
  BY <1>5, <1>6
<1>8. \A k \in A : Power[k] = Step(Power, k)
  <2> HIDE DEF Step, A
  <2> QED BY <1>7
<1>9. Power[0] = 1 /\ \A k \in 1..PadWidth : Power[k] = 10 * Power[k - 1]
  BY <1>1, <1>8
<1>10. \A k \in 0..PadWidth : Power[k] \in Nat /\ \A l \in 0..k : Power[l] \in Nat /\ Power[l] <= Power[k]
  <2> DEFINE T == {k \in 0..PadWidth : Power[k] \in Nat /\ \A l \in 0..k : Power[l] \in Nat /\ Power[l] <= Power[k]}
  <2>1. 0 \in T
    BY <1>1, <1>9
  <2>2. ASSUME NEW k \in 1..PadWidth, k - 1 \in T PROVE k \in T
    <3>1. Power[k] = 10 * Power[k - 1] /\ Power[k - 1] \in Nat
      BY <1>9, <2>2
    <3>2. ASSUME NEW l \in 0..k PROVE Power[l] \in Nat /\ Power[l] <= Power[k]
      <4>1. CASE l = k
        BY <3>1, <4>1
      <4>2. CASE l # k
        <5>1. l \in 0..(k - 1)
          BY <1>1, <4>2
        <5>2. Power[l] <= Power[k - 1] /\ Power[l] \in Nat
          BY <2>2, <5>1
        <5> QED BY <3>1, <5>2
      <4> QED BY <4>1, <4>2
    <3> QED BY <1>1, <3>1, <3>2
  <2>3. 0..PadWidth \subseteq T
    <3> HIDE DEF T
    <3> QED BY <1>1, <2>1, <2>2, UpwardInduction
  <2> QED BY <2>3
<1> QED BY <1>1, <1>9, <1>10

\* What key writes for the number or the character at i.
Chunk(s, i) == IF IsDigit(s[i]) THEN Padded(SubSeq(s, i, RunEnd(s, i) - 1)) ELSE <<Lower[s[i]]>>

\* What is written for one position is a text.
LEMMA ChunkTypes ==
  ASSUME NEW s \in Seq(Characters), NEW i \in 1..Len(s)
  PROVE  Chunk(s, i) \in Seq(Nat)
<1>1. /\ Len(s) \in Nat /\ RunEnd(s, i) - 1 \in (i - 1)..Len(s)
      /\ \A k \in 1..Len(s) : s[k] \in Nat /\ Lower[s[k]] \in Nat
  <2>1. Len(s) \in Nat /\ i \in 1..(Len(s) + 1) /\ \A k \in 1..Len(s) : s[k] \in Characters
    OBVIOUS
  <2>2. RunEnd(s, i) \in i..(Len(s) + 1)
    BY <2>1, RunEnds
  <2>3. \A k \in 1..Len(s) : s[k] \in Nat /\ Lower[s[k]] \in Nat
    BY <2>1, CharacterTypes
  <2> QED BY <2>1, <2>2, <2>3
<1> DEFINE d == SubSeq(s, i, RunEnd(s, i) - 1)
           pad == [k \in 1..(IF Len(d) < PadWidth THEN PadWidth - Len(d) ELSE 0) |-> Zero]
<1>2. d \in Seq(Nat) /\ Len(d) \in Nat
  <2>1. s \in Seq(Nat)
    BY <1>1
  <2> QED BY <1>1, <2>1
<1>3. pad \in Seq(Nat)
  <2>1. (IF Len(d) < PadWidth THEN PadWidth - Len(d) ELSE 0) \in Nat
    BY <1>2, NumberAssumption
  <2> HIDE DEF d
  <2> QED BY <2>1, CharacterTypes
<1>4. Padded(d) = pad \o d
  BY DEF Padded
<1>5. Padded(d) \in Seq(Nat)
  <2> HIDE DEF d, pad
  <2> QED BY <1>2, <1>3, <1>4
<1> QED BY <1>1, <1>5 DEF Chunk

\* r holds what key writes from each position on.
Writes(r, s) ==
  /\ r \in [Spots(s) -> Seq(Nat)]
  /\ r[Len(s) + 1] = <<>>
  /\ \A i \in 1..Len(s) : r[i] = Chunk(s, i) \o r[After(s, i)]

\* natsort::key is the recursion over positions that it is written as.
LEMMA Writing ==
  ASSUME NEW s \in Seq(Characters)
  PROVE  \E r : Writes(r, s) /\ Key(s) = r[1]
<1> DEFINE A == 1..(Len(s) + 1)
           V == Seq(Nat)
           Step(f, i) ==
             IF i > Len(s) THEN <<>>
             ELSE IF IsDigit(s[i])
             THEN Padded(SubSeq(s, i, RunEnd(s, i) - 1)) \o f[RunEnd(s, i)]
             ELSE <<Lower[s[i]]>> \o f[i + 1]
           F == [f \in [A -> V] |-> [i \in A |-> Step(f, i)]]
           m == [i \in A |-> Len(s) + 1 - i]
<1>1. Len(s) \in Nat /\ Len(s) + 1 \in Nat /\ m \in [A -> 0..(Len(s) + 1)]
  OBVIOUS
<1>2. ASSUME NEW i \in A, i <= Len(s) PROVE After(s, i) \in A /\ m[After(s, i)] < m[i]
  <2>1. After(s, i) \in A /\ After(s, i) > i
    BY <1>2, Heads DEF Spots
  <2> QED BY <1>1, <2>1
<1>3. ASSUME NEW f, NEW i \in A
      PROVE  Step(f, i) = IF i > Len(s) THEN <<>> ELSE Chunk(s, i) \o f[After(s, i)]
  BY <1>1 DEF Chunk, After, Digit
<1>4. Grounded(A, V, m, F)
  <2>1. V # {}
    <3>1. <<>> \in Seq(Nat)
      OBVIOUS
    <3> QED BY <3>1, Zenon
  <2>2. \E N \in Nat : m \in [A -> 0..N]
    <3> HIDE DEF A, m
    <3> QED BY <1>1, Zenon
  <2>3. ASSUME NEW f \in [A -> V], NEW i \in A PROVE Step(f, i) \in V
    <3>1. CASE i > Len(s)
      BY <3>1
    <3>2. CASE i <= Len(s)
      <4>1. Chunk(s, i) \in Seq(Nat)
        BY <3>2, <1>1, ChunkTypes
      <4>2. f[After(s, i)] \in Seq(Nat)
        <5> HIDE DEF A
        <5> QED BY <1>2, <3>2
      <4>3. Step(f, i) = Chunk(s, i) \o f[After(s, i)]
        <5> HIDE DEF Step, A, V
        <5>1. Step(f, i) = IF i > Len(s) THEN <<>> ELSE Chunk(s, i) \o f[After(s, i)]
          BY <1>3, Zenon
        <5>2. ~(i > Len(s))
          BY <1>1, <3>2
        <5> QED BY <5>1, <5>2
      <4> HIDE DEF Step
      <4> QED BY <4>1, <4>2, <4>3
    <3> QED BY <1>1, <3>1, <3>2
  <2>4. F \in [[A -> V] -> [A -> V]]
    <3> HIDE DEF A, V, Step
    <3> QED BY <2>3
  <2>5. ASSUME NEW f \in [A -> V], NEW g \in [A -> V], NEW i \in A,
               \A y \in A : m[y] < m[i] => f[y] = g[y]
        PROVE  F[f][i] = F[g][i]
    <3>1. i <= Len(s) => f[After(s, i)] = g[After(s, i)]
      <4> HIDE DEF A, V, m
      <4> QED BY <1>2, <2>5
    <3>2. Step(f, i) = Step(g, i)
      <4>1. CASE i > Len(s)
        BY <4>1
      <4>2. CASE i <= Len(s)
        <5> HIDE DEF Step
        <5> QED BY <1>1, <1>3, <3>1, <4>2
      <4> QED BY <1>1, <4>1, <4>2
    <3> HIDE DEF Step, A, V
    <3> QED BY <3>2
  <2>6. \A f, g \in [A -> V] : \A k \in A :
           (\A y \in A : m[y] < m[k] => f[y] = g[y]) => F[f][k] = F[g][k]
    <3> HIDE DEF A, V, F, m
    <3> QED BY <2>5, Zenon
  <2> HIDE DEF A, V, F, m
  <2> QED BY <2>1, <2>2, <2>4, <2>6, Zenon DEF Grounded
<1>5. PICK g \in [A -> V] : F[g] = g
  <2> HIDE DEF A, V, F, m
  <2> QED BY <1>4, FixedPoint
<1>6. (\E v : v = [i \in A |-> Step(v, i)]) =>
        \E v : v = [i \in A |-> Step(v, i)] /\ Key(s) = v[1]
  BY DEF Key
<1>7. PICK r : r = [i \in A |-> Step(r, i)] /\ Key(s) = r[1]
  BY <1>5, <1>6
<1>8. \A i \in A : r[i] = Step(r, i)
  <2> HIDE DEF Step, A
  <2> QED BY <1>7
<1>9. /\ r[Len(s) + 1] = <<>>
      /\ \A i \in 1..Len(s) : r[i] = Chunk(s, i) \o r[After(s, i)]
  <2>1. Len(s) + 1 \in A /\ \A i \in 1..Len(s) : i \in A /\ ~(i > Len(s))
    BY <1>1
  <2>2. Len(s) + 1 > Len(s)
    BY <1>1
  <2> HIDE DEF Step, A
  <2> QED BY <1>3, <1>8, <2>1, <2>2
<1>10. \A i \in A : r[i] \in V
  <2> DEFINE T == {i \in A : r[i] \in V}
  <2>1. ASSUME NEW i \in Spots(s), \A k \in Spots(s) : k > i => k \in T PROVE i \in T
    <3>1. i \in A /\ i \in Nat
      BY <1>1 DEF Spots
    <3>2. CASE i > Len(s)
      <4>1. i = Len(s) + 1
        BY <1>1, <3>2 DEF Spots
      <4>2. <<>> \in V
        OBVIOUS
      <4> HIDE DEF V, A
      <4> QED BY <1>9, <3>1, <4>1, <4>2
    <3>3. CASE i <= Len(s)
      <4>0. i \in 1..Len(s) /\ After(s, i) \in Spots(s) /\ After(s, i) > i
        BY <1>1, <3>3, Heads DEF Spots
      <4>1. After(s, i) \in T
        <5> HIDE DEF T
        <5> QED BY <2>1, <4>0
      <4>2. r[i] = Chunk(s, i) \o r[After(s, i)] /\ Chunk(s, i) \in Seq(Nat)
        BY <1>9, <4>0, ChunkTypes
      <4>3. r[After(s, i)] \in Seq(Nat)
        BY <4>1
      <4>4. r[i] \in Seq(Nat)
        BY <4>2, <4>3
      <4> QED BY <3>1, <4>4
    <3> QED BY <1>1, <3>1, <3>2, <3>3
  <2>2. Spots(s) \subseteq T
    <3> HIDE DEF T
    <3> QED BY <2>1, BackwardInduction
  <2> QED BY <2>2 DEF Spots
<1>11. r \in [Spots(s) -> Seq(Nat)]
  <2> HIDE DEF Step
  <2> QED BY <1>7, <1>10 DEF Spots
<1> QED BY <1>7, <1>9, <1>11 DEF Writes
------------------------------------------------------------------------------
(* A padded number.                                                         *)

\* One more digit, x, behind a number y that is less than p.
LEMMA OneMoreDigit ==
  ASSUME NEW y \in Nat, NEW p \in Nat, NEW n \in Nat, NEW x \in 0..9,
         y <= p - 1, 10 * p - 1 <= n
  PROVE  /\ 10 * y + x \in Nat /\ 10 * y + x <= 10 * p - 1
         /\ 10 * y <= n /\ 10 * y + x <= n
  OBVIOUS

\* A digit is worth 0 to 9.
LEMMA DigitValue ==
  ASSUME NEW z \in Nat, NEW p \in z..(z + 9)
  PROVE  p - z \in 0..9 /\ p = z + (p - z)
  OBVIOUS

\* P is n digits and v holds the values of its beginnings.
Counts(v, P, n) ==
  /\ P \in Seq(Nat) /\ Len(P) = n
  /\ \A k \in 1..n : P[k] \in Zero..(Zero + 9)
  /\ v \in [0..n -> Nat] /\ v[0] = 0
  /\ \A k \in 1..n : v[k] = 10 * v[k - 1] + P[k] - Zero

\* A number that is not longer than the padding is written with all its
\* digits, and take_number does not saturate for it.
LEMMA PaddedNumber ==
  ASSUME NEW s \in Seq(Characters), NEW i \in 1..Len(s), IsDigit(s[i]),
         RunEnd(s, i) <= i + PadWidth
  PROVE  \E v : Counts(v, Chunk(s, i), PadWidth) /\ v[PadWidth] = Number(s, i)
<1>0. MaxNumber \in Nat /\ Power[PadWidth] - 1 <= MaxNumber
  BY NumberAssumption
<1>1. Len(s) \in Nat /\ i \in 1..(Len(s) + 1) /\ i \in Nat /\ PadWidth \in Nat
  BY NumberAssumption
<1>2. PICK e \in (i + 1)..(Len(s) + 1) :
        e = RunEnd(s, i) /\ \A k \in i..(e - 1) : IsDigit(s[k])
  BY <1>1, RunEnds
<1>3. PICK n \in 1..PadWidth, off \in 0..PadWidth : off = PadWidth - n /\ e = i + n
  <2>1. e \in Nat /\ i \in Nat /\ PadWidth \in Nat /\ i + 1 <= e
    BY <1>1
  <2>2. e <= i + PadWidth
    BY <1>2
  <2>3. PICK n \in Nat : n = e - i
    BY <2>1
  <2>4. n \in 1..PadWidth /\ PadWidth - n \in 0..PadWidth /\ e = i + n
    BY <2>1, <2>2, <2>3
  <2> QED BY <2>4
<1>4. PICK u \in [(i - 1)..Len(s) -> Int] :
         /\ u[i - 1] = 0
         /\ \A k \in i..Len(s) :
              u[k] = Least(Least(u[k - 1] * 10, MaxNumber) + s[k] - Zero, MaxNumber)
         /\ Number(s, i) = u[e - 1]
  BY <1>1, <1>2, TakenNumbers
<1> DEFINE d == SubSeq(s, i, e - 1)
           pad == [k \in 1..(IF Len(d) < PadWidth THEN PadWidth - Len(d) ELSE 0) |-> Zero]
           P == Chunk(s, i)
<1>5. P \in Seq(Nat) /\ Len(P) = PadWidth
      /\ \A k \in 1..PadWidth : P[k] = IF k <= off THEN Zero ELSE s[i + (k - off) - 1]
  <2>1. \A k \in 1..Len(s) : s[k] \in Nat
    BY CharacterTypes
  <2>2. d \in Seq(Nat) /\ Len(d) = n /\ \A k \in 1..n : d[k] = s[i + k - 1]
    <3>1. s \in Seq(Nat)
      BY <2>1
    <3>2. i \in 1..(Len(s) + 1) /\ e - 1 \in (i - 1)..Len(s) /\ e - 1 - i + 1 = n /\ n \in Nat
      BY <1>1, <1>3
    <3>3. d \in Seq(Nat) /\ Len(d) = e - 1 - i + 1
      BY <3>1, <3>2
    <3>4. \A k \in 1..(e - 1 - i + 1) : d[k] = s[i + k - 1]
      BY <3>1, <3>2
    <3> QED BY <3>2, <3>3, <3>4
  <2>3. pad \in Seq(Nat) /\ Len(pad) = off /\ \A k \in 1..off : pad[k] = Zero
    <3>1. (IF Len(d) < PadWidth THEN PadWidth - Len(d) ELSE 0) = off
      <4> HIDE DEF d
      <4> QED BY <1>1, <1>3, <2>2
    <3>2. pad = [k \in 1..off |-> Zero]
      BY <3>1
    <3> HIDE DEF pad
    <3> QED BY <1>3, <3>2, CharacterTypes
  <2>4. P = pad \o d
    BY <1>2 DEF Chunk, Padded
  <2> HIDE DEF pad, d, P
  <2>5. P \in Seq(Nat) /\ Len(P) = Len(pad) + Len(d)
        /\ \A k \in 1..(Len(pad) + Len(d)) :
             P[k] = IF k <= Len(pad) THEN pad[k] ELSE d[k - Len(pad)]
    <3>1. pad \in Seq(Nat) /\ d \in Seq(Nat)
      BY <2>2, <2>3
    <3> QED BY <2>4, <3>1
  <2>6. P \in Seq(Nat) /\ Len(P) = PadWidth
        /\ \A k \in 1..PadWidth : P[k] = IF k <= off THEN pad[k] ELSE d[k - off]
    <3>1. Len(pad) + Len(d) = PadWidth
      BY <1>1, <1>3, <2>2, <2>3
    <3> QED BY <2>3, <2>5, <3>1
  <2>7. ASSUME NEW k \in 1..PadWidth
        PROVE  P[k] = IF k <= off THEN Zero ELSE s[i + (k - off) - 1]
    <3>1. CASE k <= off
      <4>1. k \in 1..off
        BY <1>3, <3>1
      <4> QED BY <2>3, <2>6, <3>1, <4>1
    <3>2. CASE ~(k <= off)
      <4>1. P[k] = d[k - off]
        BY <2>6, <3>2
      <4>3. k - off \in 1..n
        BY <1>1, <1>3, <3>2
      <4>2. d[k - off] = s[i + (k - off) - 1]
        BY <2>2, <4>3
      <4> QED BY <3>2, <4>1, <4>2
    <3> QED BY <3>1, <3>2
  <2> QED BY <2>6, <2>7
<1> DEFINE v == [k \in 0..PadWidth |-> IF k <= off THEN 0 ELSE u[i - 1 + (k - off)]]
<1> HIDE DEF P
<1>6. \A k \in 1..PadWidth : P[k] \in Zero..(Zero + 9)
  <2>1. ASSUME NEW k \in 1..PadWidth PROVE P[k] \in Zero..(Zero + 9)
    <3>1. CASE k <= off
      BY <1>5, <3>1, CharacterTypes, SMTT(30)
    <3>2. CASE ~(k <= off)
      <4>1. i + (k - off) - 1 \in i..(e - 1)
        BY <1>1, <1>3, <3>2
      <4>2. IsDigit(s[i + (k - off) - 1])
        BY <1>2, <4>1
      <4> QED BY <1>5, <3>2, <4>2 DEF IsDigit
    <3> QED BY <3>1, <3>2
  <2> QED BY <2>1
<1>7. \A k \in 0..PadWidth : /\ v[k] \in Nat /\ v[k] <= Power[k] - 1
                             /\ k # 0 => v[k] = 10 * v[k - 1] + P[k] - Zero
  <2> DEFINE T == {k \in 0..PadWidth : /\ v[k] \in Nat /\ v[k] <= Power[k] - 1
                                       /\ k # 0 => v[k] = 10 * v[k - 1] + P[k] - Zero}
  <2>1. 0 \in T
    <3>1. v[0] = 0 /\ Power[0] = 1
      BY <1>1, <1>3, Powers
    <3> QED BY <1>1, <3>1
  <2>2. ASSUME NEW k \in 1..PadWidth, k - 1 \in T PROVE k \in T
    <3>1. PICK p \in Nat : p = Power[k - 1] /\ Power[k] = 10 * p /\ 10 * p - 1 <= MaxNumber
      <4>1. k \in 0..PadWidth /\ k - 1 \in 0..PadWidth /\ PadWidth \in 0..PadWidth
        BY <1>1
      <4>2. Power[k - 1] \in Nat /\ Power[k] = 10 * Power[k - 1]
        BY <4>1, Powers
      <4>3. Power[k] \in Nat /\ Power[PadWidth] \in Nat /\ Power[k] <= Power[PadWidth]
        BY <4>1, Powers
      <4>4. Power[k] - 1 <= MaxNumber
        BY <1>0, <4>3, SMTT(30)
      <4> QED BY <4>2, <4>4
    <3>2. PICK y \in Nat : y = v[k - 1] /\ y <= p - 1
      BY <2>2, <3>1
    <3>3. PICK x \in 0..9 : P[k] - Zero = x /\ P[k] = Zero + x
      <4>1. Zero \in Nat
        BY CharacterTypes
      <4>2. P[k] \in Zero..(Zero + 9)
        BY <1>6
      <4> QED BY <4>1, <4>2, DigitValue
    <3>0. /\ 10 * y + x \in Nat /\ 10 * y + x <= 10 * p - 1
          /\ 10 * y <= MaxNumber /\ 10 * y + x <= MaxNumber
      BY <1>0, <3>1, <3>2, OneMoreDigit
    <3>4. v[k] = 10 * y + x
      <4>1. CASE k <= off
        <5>1. P[k] = Zero /\ v[k] = 0 /\ v[k - 1] = 0
          <6>1. P[k] = Zero
            BY <1>5, <4>1
          <6>2. k \in 0..PadWidth /\ k - 1 \in 0..PadWidth /\ k - 1 <= off
            BY <1>1, <1>3, <4>1
          <6> QED BY <4>1, <6>1, <6>2
        <5>2. x = 0
          BY <3>3, <5>1, CharacterTypes, SMTT(30)
        <5> QED BY <3>2, <5>1, <5>2, SMTT(30)
      <4>2. CASE ~(k <= off)
        <5>1. PICK q \in i..Len(s) : q = i - 1 + (k - off)
          BY <1>1, <1>2, <1>3, <4>2
        <5>2. v[k] = u[q] /\ v[k - 1] = u[q - 1]
          <6>1. v[k] = u[q]
            BY <1>1, <1>3, <4>2, <5>1
          <6>2. CASE k - 1 <= off
            <7>1. q - 1 = i - 1 /\ v[k - 1] = 0
              BY <1>1, <1>3, <4>2, <5>1, <6>2
            <7> QED BY <1>4, <6>1, <7>1
          <6>3. CASE ~(k - 1 <= off)
            <7>1. v[k - 1] = u[i - 1 + (k - 1 - off)] /\ i - 1 + (k - 1 - off) = q - 1
              BY <1>1, <1>3, <4>2, <5>1, <6>3
            <7> QED BY <6>1, <7>1
          <6> QED BY <6>2, <6>3
        <5>3. s[q] = Zero + x
          <6>1. q = i + (k - off) - 1
            BY <1>1, <1>3, <5>1
          <6> QED BY <1>5, <3>3, <4>2, <6>1
        <5>4. u[q] = Least(Least(u[q - 1] * 10, MaxNumber) + s[q] - Zero, MaxNumber)
          BY <1>4
        <5>5. u[q - 1] = y
          BY <3>2, <5>2
        <5>6. Least(y * 10, MaxNumber) = y * 10
          BY <1>0, <3>0 DEF Least
        <5>7. y * 10 + (Zero + x) - Zero = y * 10 + x
          BY CharacterTypes
        <5>8. Least(y * 10 + x, MaxNumber) = 10 * y + x
          BY <1>0, <3>0 DEF Least
        <5>9. u[q] = Least(y * 10 + (Zero + x) - Zero, MaxNumber)
          BY <5>3, <5>4, <5>5, <5>6
        <5> QED BY <5>2, <5>7, <5>8, <5>9
      <4> QED BY <4>1, <4>2
    <3>5. v[k] \in Nat /\ v[k] <= Power[k] - 1
      <4>1. 10 * y + x \in Nat /\ 10 * y + x <= 10 * p - 1
        BY <3>0
      <4> QED BY <3>1, <3>4, <4>1
    <3>6. v[k] = 10 * v[k - 1] + P[k] - Zero
      <4>1. 10 * y + x = 10 * y + (Zero + x) - Zero
        BY CharacterTypes
      <4> QED BY <3>2, <3>3, <3>4, <4>1
    <3> HIDE DEF v
    <3> QED BY <3>5, <3>6
  <2>3. 0..PadWidth \subseteq T
    <3> HIDE DEF T
    <3> QED BY <1>1, <2>1, <2>2, UpwardInduction
  <2> QED BY <2>3
<1>8. v \in [0..PadWidth -> Nat] /\ v[0] = 0
  <2>1. \A k \in 0..PadWidth : v[k] \in Nat
    BY <1>7
  <2>2. v[0] = 0
    BY <1>1, <1>3
  <2> QED BY <2>1, <2>2
<1>9. v[PadWidth] = Number(s, i)
  <2>1. ~(PadWidth <= off) /\ i - 1 + (PadWidth - off) = e - 1 /\ PadWidth \in 0..PadWidth
    BY <1>1, <1>3
  <2> QED BY <1>4, <2>1
<1>10. \A k \in 1..PadWidth : v[k] = 10 * v[k - 1] + P[k] - Zero
  <2> HIDE DEF v
  <2> QED BY <1>1, <1>7
<1>11. Counts(v, P, PadWidth)
  <2> HIDE DEF v
  <2> QED BY <1>5, <1>6, <1>8, <1>10 DEF Counts
<1> QED BY <1>9, <1>11 DEF P

\* Two first digits that differ: the later ones cannot make up for it.
LEMMA OneMoreOfBoth ==
  ASSUME NEW y \in Nat, NEW z \in Nat, NEW p \in Zero..(Zero + 9), NEW q \in Zero..(Zero + 9),
         y < z
  PROVE  10 * y + p - Zero < 10 * z + q - Zero
  BY CharacterTypes

\* Padded numbers compare as their first digits that differ.
LEMMA SameWidth ==
  ASSUME NEW n \in Nat, NEW v, NEW w, NEW P, NEW Q, Counts(v, P, n), Counts(w, Q, n)
  PROVE  /\ v[n] = w[n] => P = Q
         /\ v[n] # w[n] => \E k \in 1..n :
               /\ \A l \in 1..(k - 1) : P[l] = Q[l]
               /\ P[k] # Q[k]
               /\ Sign(v[n], w[n]) = Sign(P[k], Q[k])
<1>1. /\ P \in Seq(Nat) /\ Q \in Seq(Nat) /\ Len(P) = n /\ Len(Q) = n /\ Zero \in Nat
      /\ v \in [0..n -> Nat] /\ w \in [0..n -> Nat] /\ v[0] = 0 /\ w[0] = 0
  BY CharacterTypes DEF Counts
<1>2. \A k \in 1..n : /\ P[k] \in Zero..(Zero + 9) /\ v[k] = 10 * v[k - 1] + P[k] - Zero
                      /\ Q[k] \in Zero..(Zero + 9) /\ w[k] = 10 * w[k - 1] + Q[k] - Zero
  BY DEF Counts
<1> DEFINE Alike(k) == (\A l \in 1..k : P[l] = Q[l]) /\ v[k] = w[k]
           Apart(k) == \E m \in 1..k :
               /\ \A l \in 1..(m - 1) : P[l] = Q[l]
               /\ P[m] # Q[m]
               /\ v[k] # w[k] /\ Sign(v[k], w[k]) = Sign(P[m], Q[m])
           T == {k \in 0..n : Alike(k) \/ Apart(k)}
<1>3. 0 \in T
  BY <1>1
<1>4. ASSUME NEW k \in 1..n, k - 1 \in T PROVE k \in T
  <2>1. PICK y \in Nat, z \in Nat : y = v[k - 1] /\ z = w[k - 1]
    <3>1. k - 1 \in 0..n
      OBVIOUS
    <3>2. v[k - 1] \in Nat /\ w[k - 1] \in Nat
      BY <1>1, <3>1
    <3> QED BY <3>2
  <2>2. PICK p \in Zero..(Zero + 9), q \in Zero..(Zero + 9) : p = P[k] /\ q = Q[k]
    BY <1>2
  <2>3. v[k] = 10 * y + p - Zero /\ w[k] = 10 * z + q - Zero
    BY <1>2, <2>1, <2>2
  <2>4. CASE Alike(k - 1) /\ p = q
    <3>1. y = z /\ v[k] = w[k]
      BY <2>1, <2>3, <2>4
    <3>2. ASSUME NEW l \in 1..k PROVE P[l] = Q[l]
      <4>1. l = k \/ l \in 1..(k - 1)
        OBVIOUS
      <4> QED BY <2>2, <2>4, <4>1
    <3> QED BY <3>1, <3>2
  <2>5. CASE Alike(k - 1) /\ p # q
    <3>1. y = z
      BY <2>1, <2>5
    <3>2. v[k] # w[k] /\ Sign(v[k], w[k]) = Sign(p, q)
      BY <1>1, <2>3, <2>5, <3>1 DEF Sign
    <3>3. Apart(k)
      BY <2>2, <2>5, <3>2
    <3> QED BY <3>3
  <2>6. CASE Apart(k - 1)
    <3>1. PICK m \in 1..(k - 1) :
               /\ \A l \in 1..(m - 1) : P[l] = Q[l]
               /\ P[m] # Q[m]
               /\ y # z /\ Sign(y, z) = Sign(P[m], Q[m])
      BY <2>1, <2>6
    <3>2. (y < z => v[k] < w[k]) /\ (z < y => w[k] < v[k])
      BY <2>3, OneMoreOfBoth
    <3>3. v[k] \in Nat /\ w[k] \in Nat
      BY <1>1
    <3>4. v[k] # w[k] /\ Sign(v[k], w[k]) = Sign(y, z)
      BY <3>1, <3>2, <3>3 DEF Sign
    <3>5. m \in 1..k
      OBVIOUS
    <3>6. Apart(k)
      BY <3>1, <3>4, <3>5
    <3> QED BY <3>6
  <2> QED BY <1>4, <2>4, <2>5, <2>6
<1>5. n \in T
  <2>1. 0..n \subseteq T
    <3> HIDE DEF T
    <3> QED BY <1>3, <1>4, UpwardInduction
  <2> HIDE DEF T
  <2> QED BY <2>1
<1>6. CASE Alike(n)
  <2>1. P = Q
    BY <1>1, <1>6
  <2> QED BY <1>6, <2>1
<1>7. CASE Apart(n)
  BY <1>7
<1> QED BY <1>5, <1>6, <1>7
------------------------------------------------------------------------------
(* SQLite's order of keys.                                                  *)

Differ(x, y) == {i \in 1..Len(x) : i > Len(y) \/ x[i] # y[i]}

\* Where keys differ, the first difference decides.
LEMMA CollateAtFirst ==
  ASSUME NEW x, NEW y, NEW i \in Differ(x, y), \A k \in Differ(x, y) : i <= k,
         Differ(x, y) \subseteq Nat
  PROVE  Collate(x, y) = IF i > Len(y) THEN 1 ELSE Sign(x[i], y[i])
<1> DEFINE j == CHOOSE k \in Differ(x, y) : \A m \in Differ(x, y) : k <= m
<1>1. j \in Differ(x, y) /\ \A m \in Differ(x, y) : j <= m
  <2> HIDE DEF Differ
  <2> QED OBVIOUS
<1>2. j = i
  <2>1. j <= i /\ i <= j /\ j \in Nat /\ i \in Nat
    BY <1>1
  <2> HIDE DEF j
  <2> QED BY <2>1
<1>3. Differ(x, y) # {}
  OBVIOUS
<1> QED BY <1>2, <1>3, Zenon DEF Collate, Differ

\* Where they do not differ, their lengths decide.
LEMMA CollateSame ==
  ASSUME NEW x, NEW y, Differ(x, y) = {}
  PROVE  Collate(x, y) = Sign(Len(x), Len(y))
  BY DEF Collate, Differ

\* Keys with characters that differ compare as the first of them.
LEMMA CollateApart ==
  ASSUME NEW x \in Seq(Nat), NEW y \in Seq(Nat), NEW k \in 1..Len(x), k <= Len(y),
         \A l \in 1..(k - 1) : x[l] = y[l], x[k] # y[k]
  PROVE  Collate(x, y) = Sign(x[k], y[k])
<1>1. k \in Differ(x, y) /\ Differ(x, y) \subseteq Nat
  BY DEF Differ
<1>2. ASSUME NEW l \in Differ(x, y) PROVE k <= l
  <2>1. l \in 1..Len(x) /\ (l > Len(y) \/ x[l] # y[l])
    BY DEF Differ
  <2> QED BY <2>1
<1>3. ~(k > Len(y))
  OBVIOUS
<1> QED BY <1>1, <1>2, <1>3, CollateAtFirst

\* The empty key comes first.
LEMMA CollateEnds ==
  ASSUME NEW x \in Seq(Nat)
  PROVE  /\ Collate(<<>>, <<>>) = 0
         /\ x # <<>> => Collate(<<>>, x) = -1 /\ Collate(x, <<>>) = 1
<1>1. Len(<<>>) = 0 /\ Len(x) \in Nat /\ (x # <<>> => Len(x) > 0)
  OBVIOUS
<1>2. Differ(<<>>, <<>>) = {} /\ Differ(<<>>, x) = {}
  BY <1>1 DEF Differ
<1>3. Collate(<<>>, <<>>) = 0
  BY <1>1, <1>2, CollateSame DEF Sign
<1>4. x # <<>> => Collate(<<>>, x) = -1
  BY <1>1, <1>2, CollateSame DEF Sign
<1>5. ASSUME x # <<>> PROVE Collate(x, <<>>) = 1
  <2>1. 1 \in Differ(x, <<>>) /\ Differ(x, <<>>) \subseteq Nat
        /\ \A k \in Differ(x, <<>>) : 1 <= k
    BY <1>1, <1>5 DEF Differ
  <2>2. 1 > Len(<<>>)
    BY <1>1
  <2> QED BY <2>1, <2>2, CollateAtFirst
<1> QED BY <1>3, <1>4, <1>5

\* What two keys have in common at their start does not matter.
LEMMA CollateBehind ==
  ASSUME NEW p \in Seq(Nat), NEW x \in Seq(Nat), NEW y \in Seq(Nat)
  PROVE  Collate(p \o x, p \o y) = Collate(x, y)
<1> DEFINE n == Len(p)
           px == p \o x
           py == p \o y
<1>1. /\ n \in Nat /\ Len(x) \in Nat /\ Len(y) \in Nat
      /\ px \in Seq(Nat) /\ Len(px) = n + Len(x)
      /\ py \in Seq(Nat) /\ Len(py) = n + Len(y)
  OBVIOUS
<1>2. /\ \A i \in 1..n : px[i] = p[i] /\ py[i] = p[i]
      /\ \A i \in 1..Len(x) : px[n + i] = x[i]
      /\ \A i \in 1..Len(y) : py[n + i] = y[i]
  OBVIOUS
<1> HIDE DEF n, px, py
<1>3. Differ(px, py) = {n + i : i \in Differ(x, y)}
  <2>1. ASSUME NEW i \in Differ(x, y) PROVE n + i \in Differ(px, py)
    <3>1. i \in 1..Len(x) /\ (i > Len(y) \/ x[i] # y[i])
      BY DEF Differ
    <3>2. n + i \in 1..Len(px) /\ px[n + i] = x[i]
      BY <1>1, <1>2, <3>1
    <3>3. i <= Len(y) => py[n + i] = y[i]
      <4>1. i <= Len(y) => i \in 1..Len(y)
        BY <1>1, <3>1
      <4> QED BY <1>2, <4>1
    <3> QED BY <1>1, <3>1, <3>2, <3>3 DEF Differ
  <2>2. ASSUME NEW j \in Differ(px, py) PROVE \E i \in Differ(x, y) : j = n + i
    <3>1. j \in 1..Len(px) /\ (j > Len(py) \/ px[j] # py[j])
      BY DEF Differ
    <3>2. j > n
      BY <1>1, <1>2, <3>1
    <3>3. PICK i \in 1..Len(x) : j = n + i
      <4>1. j - n \in 1..Len(x) /\ j = n + (j - n)
        BY <1>1, <3>1, <3>2
      <4> QED BY <4>1
    <3>4. px[j] = x[i]
      BY <1>2, <3>3
    <3>5. i <= Len(y) => py[j] = y[i]
      <4>1. i <= Len(y) => i \in 1..Len(y)
        BY <1>1
      <4> QED BY <1>2, <3>3, <4>1
    <3>6. i \in Differ(x, y)
      <4>1. j > Len(py) => i > Len(y)
        BY <1>1, <3>3
      <4>2. i > Len(y) \/ i <= Len(y)
        BY <1>1
      <4>3. i > Len(y) \/ x[i] # y[i]
        BY <3>1, <3>4, <3>5, <4>1, <4>2
      <4> QED BY <4>3 DEF Differ
    <3> QED BY <3>3, <3>6
  <2> QED BY <2>1, <2>2
<1>4. CASE Differ(x, y) = {}
  <2>1. Collate(x, y) = Sign(Len(x), Len(y)) /\ Collate(px, py) = Sign(Len(px), Len(py))
    <3>1. Differ(px, py) = {}
      BY <1>3, <1>4
    <3> QED BY <1>4, <3>1, CollateSame
  <2>2. Sign(n + Len(x), n + Len(y)) = Sign(Len(x), Len(y))
    BY <1>1 DEF Sign
  <2> QED BY <1>1, <2>1, <2>2 DEF px, py
<1>5. CASE Differ(x, y) # {}
  <2>1. Differ(x, y) \in SUBSET Nat /\ Differ(px, py) \subseteq Nat
    BY DEF Differ
  <2>2. PICK i \in Differ(x, y) : \A k \in Differ(x, y) : i <= k
    BY <1>5, <2>1, LeastOfSet
  <2>3. Collate(x, y) = IF i > Len(y) THEN 1 ELSE Sign(x[i], y[i])
    BY <2>1, <2>2, CollateAtFirst
  <2>4. n + i \in Differ(px, py)
    BY <1>3
  <2>5. \A k \in Differ(px, py) : n + i <= k
    BY <1>1, <1>3, <2>1, <2>2
  <2>6. Collate(px, py) = IF n + i > Len(py) THEN 1 ELSE Sign(px[n + i], py[n + i])
    BY <2>1, <2>4, <2>5, CollateAtFirst
  <2>7. i \in 1..Len(x) /\ i \in Nat
    BY DEF Differ
  <2>8. n + i > Len(py) <=> i > Len(y)
    BY <1>1, <2>7, SMTT(30)
  <2>9. px[n + i] = x[i] /\ (~(i > Len(y)) => py[n + i] = y[i])
    <3>1. ~(i > Len(y)) => i \in 1..Len(y)
      BY <1>1, <2>7
    <3> QED BY <1>2, <2>7, <3>1
  <2>10. Collate(px, py) = Collate(x, y)
    <3>1. CASE i > Len(y)
      BY <2>3, <2>6, <2>8, <3>1
    <3>2. CASE ~(i > Len(y))
      BY <2>3, <2>6, <2>8, <2>9, <3>2
    <3> QED BY <3>1, <3>2
  <2> QED BY <2>10 DEF px, py
<1> QED BY <1>4, <1>5
------------------------------------------------------------------------------
(* Keys sort as natsort::cmp does.                                          *)

\* No number in s has more digits than a key has for it.
Short(s) == \A i \in 1..Len(s) : RunEnd(s, i) <= i + PadWidth

\* What a key has for the number or the character at a position.
LEMMA ChunkFacts ==
  ASSUME NEW s \in Seq(Characters), Short(s), NEW i \in 1..Len(s)
  PROVE  LET P == Chunk(s, i)
         IN  /\ P \in Seq(Nat) /\ Len(P) >= 1
             /\ IF IsDigit(s[i])
                THEN /\ Len(P) = PadWidth /\ IsDigit(P[1])
                     /\ \E v : Counts(v, P, PadWidth) /\ v[PadWidth] = Amount(s, i)
                     /\ Class(s, i) = Zero
                ELSE P = <<Class(s, i)>> /\ Class(s, i) \in Nat /\ ~IsDigit(Class(s, i))
<1>1. Len(s) \in Nat /\ PadWidth \in Nat \ {0} /\ s[i] \in Characters /\ ~(i > Len(s)) /\ i <= Len(s)
  BY NumberAssumption
<1>2. CASE IsDigit(s[i])
  <2>1. PICK v : Counts(v, Chunk(s, i), PadWidth) /\ v[PadWidth] = Number(s, i)
    BY <1>2, PaddedNumber DEF Short
  <2>2. Class(s, i) = Zero /\ Amount(s, i) = Number(s, i)
    BY <1>1, <1>2 DEF Class, Amount, Digit
  <2>3. 1 \in 1..PadWidth
    BY <1>1
  <2>4. Chunk(s, i) \in Seq(Nat) /\ Len(Chunk(s, i)) = PadWidth /\ IsDigit(Chunk(s, i)[1])
    BY <2>1, <2>3 DEF Counts, IsDigit
  <2> QED BY <1>1, <1>2, <2>1, <2>2, <2>4
<1>3. CASE ~IsDigit(s[i])
  <2>1. Class(s, i) = Lower[s[i]] /\ Chunk(s, i) = <<Lower[s[i]]>>
    BY <1>1, <1>3 DEF Class, Chunk
  <2>2. Lower[s[i]] \in Nat /\ ~IsDigit(Lower[s[i]])
    BY <1>1, <1>3, CharacterTypes
  <2> QED BY <1>3, <2>1, <2>2
<1> QED BY <1>2, <1>3

\* A key goes on, from each position, with what is written for it.
LEMMA KeyFrom ==
  ASSUME NEW s \in Seq(Characters), Short(s), NEW r, Writes(r, s), NEW i \in Spots(s)
  PROVE  /\ r[i] \in Seq(Nat)
         /\ i > Len(s) => r[i] = <<>>
         /\ i <= Len(s) =>
              /\ i \in 1..Len(s) /\ r[i] # <<>>
              /\ Chunk(s, i) \in Seq(Nat) /\ Len(Chunk(s, i)) >= 1
              /\ r[After(s, i)] \in Seq(Nat)
              /\ r[i] = Chunk(s, i) \o r[After(s, i)]
<1>1. Len(s) \in Nat /\ i \in 1..(Len(s) + 1)
  BY DEF Spots
<1>2. r[i] \in Seq(Nat)
  BY DEF Writes
<1>3. CASE i > Len(s)
  <2>1. i = Len(s) + 1 /\ ~(i <= Len(s))
    BY <1>1, <1>3
  <2>2. r[i] = <<>>
    BY <2>1 DEF Writes
  <2> QED BY <1>2, <2>1, <2>2
<1>4. CASE i <= Len(s)
  <2>1. i \in 1..Len(s)
    BY <1>1, <1>4
  <2>2. After(s, i) \in Spots(s)
    BY <1>4, Heads
  <2>3. PICK p \in Seq(Nat) : p = Chunk(s, i) /\ Len(p) >= 1
    BY <2>1, ChunkFacts
  <2>4. PICK x \in Seq(Nat) : x = r[After(s, i)] /\ r[i] = p \o x
    BY <2>1, <2>2, <2>3 DEF Writes
  <2>5. p \o x # <<>>
    BY <2>3
  <2>6. /\ r[i] # <<>> /\ Chunk(s, i) \in Seq(Nat) /\ Len(Chunk(s, i)) >= 1
        /\ r[After(s, i)] \in Seq(Nat) /\ r[i] = Chunk(s, i) \o r[After(s, i)]
    BY <2>3, <2>4, <2>5
  <2>7. ~(i > Len(s))
    BY <1>1, <1>4
  <2>8. i > Len(s) => r[i] = <<>>
    BY <2>7
  <2>9. i <= Len(s) =>
          /\ i \in 1..Len(s) /\ r[i] # <<>>
          /\ Chunk(s, i) \in Seq(Nat) /\ Len(Chunk(s, i)) >= 1
          /\ r[After(s, i)] \in Seq(Nat)
          /\ r[i] = Chunk(s, i) \o r[After(s, i)]
    BY <2>1, <2>6, Zenon
  <2> QED BY <1>2, <2>8, <2>9
<1> QED BY <1>1, <1>3, <1>4

\* A digit compares with another character as '0' does.
LEMMA DigitOrNot ==
  ASSUME NEW x \in Nat, NEW y \in Nat, IsDigit(x), ~IsDigit(y)
  PROVE  x # y /\ Sign(x, y) = Sign(Zero, y) /\ Sign(y, x) = Sign(y, Zero)
  BY CharacterTypes DEF IsDigit, Sign

\* Keys compare as natsort::cmp compares the names they were made of, if no
\* number is longer than the padding.
LEMMA KeyOrder ==
  ASSUME NEW a \in Seq(Characters), NEW b \in Seq(Characters), Short(a), Short(b)
  PROVE  Collate(Key(a), Key(b)) = Compare(a, b)
<1>1. PICK v : Compares(v, a, b) /\ Compare(a, b) = v[<<1, 1>>]
  BY Comparing
<1>2. PICK r : Writes(r, a) /\ Key(a) = r[1]
  BY Writing
<1>3. PICK t : Writes(t, b) /\ Key(b) = t[1]
  BY Writing
<1>4. Len(a) \in Nat /\ Len(b) \in Nat
  OBVIOUS
<1> DEFINE T == {i \in Spots(a) : \A j \in Spots(b) : Collate(r[i], t[j]) = v[<<i, j>>]}
<1>5. ASSUME NEW i \in Spots(a), \A k \in Spots(a) : k > i => k \in T,
             NEW j \in Spots(b)
      PROVE  Collate(r[i], t[j]) = v[<<i, j>>]
  <2>1. /\ i \in Nat /\ j \in Nat /\ Class(a, i) \in Int /\ Class(b, j) \in Int
        /\ i <= Len(a) => After(a, i) \in Spots(a) /\ After(a, i) > i
        /\ j <= Len(b) => After(b, j) \in Spots(b)
        /\ i > Len(a) <=> Class(a, i) = -1
        /\ j > Len(b) <=> Class(b, j) = -1
    BY Heads
  <2>2. v[<<i, j>>] =
         IF Class(a, i) # Class(b, j) THEN Sign(Class(a, i), Class(b, j))
         ELSE IF Amount(a, i) # Amount(b, j) THEN Sign(Amount(a, i), Amount(b, j))
         ELSE IF i > Len(a) THEN 0
         ELSE v[<<After(a, i), After(b, j)>>]
    BY <1>1 DEF Compares
  <2>3. CASE i > Len(a) \/ j > Len(b)
    <3>1. CASE i > Len(a) /\ j > Len(b)
      <4>1. r[i] = <<>> /\ t[j] = <<>>
        BY <1>2, <1>3, <3>1, KeyFrom
      <4>2. v[<<i, j>>] = 0
        <5>1. Class(a, i) = Class(b, j)
          BY <2>1, <3>1
        <5>2. Amount(a, i) = 0 /\ Amount(b, j) = 0
          BY <1>4, <2>1, <3>1 DEF Amount, Digit
        <5> QED BY <2>2, <3>1, <5>1, <5>2
      <4>3. Collate(<<>>, <<>>) = 0
        <5>1. <<>> \in Seq(Nat)
          OBVIOUS
        <5> QED BY <5>1, CollateEnds
      <4> QED BY <4>1, <4>2, <4>3
    <3>2. CASE i > Len(a) /\ j <= Len(b)
      <4>1. r[i] = <<>> /\ t[j] # <<>> /\ t[j] \in Seq(Nat)
        BY <1>2, <1>3, <3>2, KeyFrom
      <4>2. Class(a, i) = -1 /\ Class(b, j) >= 0
        BY <3>2, <2>1, ClassIsNat
      <4>3. v[<<i, j>>] = -1
        BY <2>1, <2>2, <4>2 DEF Sign
      <4> QED BY <4>1, <4>3, CollateEnds
    <3>3. CASE i <= Len(a) /\ j > Len(b)
      <4>1. t[j] = <<>> /\ r[i] # <<>> /\ r[i] \in Seq(Nat)
        BY <1>2, <1>3, <3>3, KeyFrom
      <4>2. Class(b, j) = -1 /\ Class(a, i) >= 0
        BY <3>3, <2>1, ClassIsNat
      <4>3. v[<<i, j>>] = 1
        BY <2>1, <2>2, <4>2 DEF Sign
      <4> QED BY <4>1, <4>3, CollateEnds
    <3> QED BY <1>4, <2>1, <2>3, <3>1, <3>2, <3>3
  <2>4. CASE i <= Len(a) /\ j <= Len(b)
    <3>1. PICK p \in Seq(Nat), x \in Seq(Nat) :
            /\ p = Chunk(a, i) /\ x = r[After(a, i)] /\ r[i] = p \o x /\ Len(p) >= 1
            /\ i \in 1..Len(a)
      BY <1>2, <2>4, KeyFrom
    <3>2. PICK q \in Seq(Nat), y \in Seq(Nat) :
            /\ q = Chunk(b, j) /\ y = t[After(b, j)] /\ t[j] = q \o y /\ Len(q) >= 1
            /\ j \in 1..Len(b)
      BY <1>3, <2>4, KeyFrom
    <3>3. Collate(x, y) = v[<<After(a, i), After(b, j)>>]
      <4>1. After(a, i) \in Spots(a) /\ After(a, i) > i /\ After(b, j) \in Spots(b)
        BY <2>1, <2>4
      <4>2. After(a, i) \in T
        <5> HIDE DEF T
        <5> QED BY <1>5, <4>1
      <4> QED BY <3>1, <3>2, <4>1, <4>2
    <3>4. ASSUME p = q, Class(a, i) = Class(b, j), Amount(a, i) = Amount(b, j)
          PROVE  Collate(r[i], t[j]) = v[<<i, j>>]
      <4>1. Collate(r[i], t[j]) = Collate(x, y)
        BY <3>1, <3>2, <3>4, CollateBehind
      <4>2. ~(i > Len(a))
        BY <1>4, <2>1, <2>4
      <4> QED BY <2>2, <3>3, <3>4, <4>1, <4>2
    <3>5. ASSUME NEW k \in 1..Len(p), k <= Len(q), \A l \in 1..(k - 1) : p[l] = q[l],
                 p[k] # q[k]
          PROVE  Collate(r[i], t[j]) = Sign(p[k], q[k])
      <4>1. PICK px \in Seq(Nat), qy \in Seq(Nat) : px = p \o x /\ qy = q \o y
        <5>1. p \o x \in Seq(Nat)
          BY <3>1
        <5>2. q \o y \in Seq(Nat)
          BY <3>2
        <5> QED BY <5>1, <5>2, Zenon
      <4>2. /\ k \in 1..Len(px) /\ k <= Len(qy) /\ px[k] = p[k] /\ qy[k] = q[k]
            /\ \A l \in 1..(k - 1) : px[l] = qy[l]
        <5>1. Len(p) \in Nat /\ Len(q) \in Nat /\ Len(x) \in Nat /\ Len(y) \in Nat
              /\ Len(px) = Len(p) + Len(x) /\ Len(qy) = Len(q) + Len(y)
          BY <4>1
        <5>2. k \in 1..Len(px) /\ k <= Len(qy) /\ k \in 1..Len(q)
          <6>1. PICK lp \in Nat, lq \in Nat, lx \in Nat, ly \in Nat :
                  lp = Len(p) /\ lq = Len(q) /\ lx = Len(x) /\ ly = Len(y)
            BY <5>1
          <6>2. k \in 1..lp /\ k <= lq
            BY <3>5, <6>1
          <6>3. k \in 1..(lp + lx) /\ k <= lq + ly /\ k \in 1..lq
            BY <6>2
          <6> QED BY <5>1, <6>1, <6>3
        <5>3. \A l \in 1..Len(p) : px[l] = p[l]
          BY <4>1
        <5>4. \A l \in 1..Len(q) : qy[l] = q[l]
          BY <4>1
        <5>5. ASSUME NEW l \in 1..(k - 1)
              PROVE  l \in 1..Len(p) /\ l \in 1..Len(q)
          <6>1. PICK lp \in Nat, lq \in Nat : lp = Len(p) /\ lq = Len(q)
            BY <5>1
          <6>2. k \in 1..lp /\ k \in 1..lq
            BY <3>5, <5>2, <6>1
          <6>3. l \in 1..lp /\ l \in 1..lq
            BY <6>2
          <6> QED BY <6>1, <6>3
        <5>6. \A l \in 1..(k - 1) : px[l] = qy[l]
          BY <3>5, <5>3, <5>4, <5>5, Zenon
        <5>7. px[k] = p[k] /\ qy[k] = q[k]
          BY <5>2, <5>3, <5>4, Zenon
        <5> QED BY <5>2, <5>6, <5>7, Zenon
      <4>3. Collate(px, qy) = Sign(px[k], qy[k])
        BY <3>5, <4>2, CollateApart
      <4> QED BY <3>1, <3>2, <4>1, <4>2, <4>3
    <3>6. CASE IsDigit(a[i]) /\ IsDigit(b[j])
      <4>1. /\ Len(p) = PadWidth /\ Len(q) = PadWidth /\ PadWidth \in Nat
            /\ Class(a, i) = Class(b, j)
        BY <3>1, <3>2, <3>6, ChunkFacts
      <4>2. PICK f : Counts(f, p, PadWidth) /\ f[PadWidth] = Amount(a, i)
        BY <3>1, <3>6, ChunkFacts
      <4>3. PICK g : Counts(g, q, PadWidth) /\ g[PadWidth] = Amount(b, j)
        BY <3>2, <3>6, ChunkFacts
      <4>4. CASE Amount(a, i) = Amount(b, j)
        BY <3>4, <4>1, <4>2, <4>3, <4>4, SameWidth
      <4>5. CASE Amount(a, i) # Amount(b, j)
        <5>1. PICK k \in 1..PadWidth :
               /\ \A l \in 1..(k - 1) : p[l] = q[l]
               /\ p[k] # q[k]
               /\ Sign(Amount(a, i), Amount(b, j)) = Sign(p[k], q[k])
          <6>1. f[PadWidth] # g[PadWidth]
            BY <4>2, <4>3, <4>5
          <6>2. PICK n \in Nat : n = PadWidth
            BY <4>1
          <6>3. Counts(f, p, n) /\ Counts(g, q, n) /\ f[n] # g[n]
            BY <4>2, <4>3, <6>1, <6>2
          <6>4. \E k \in 1..n :
                   /\ \A l \in 1..(k - 1) : p[l] = q[l]
                   /\ p[k] # q[k]
                   /\ Sign(f[n], g[n]) = Sign(p[k], q[k])
            BY <6>3, SameWidth
          <6> QED BY <4>2, <4>3, <6>2, <6>4
        <5>2. Collate(r[i], t[j]) = Sign(p[k], q[k])
          BY <3>5, <4>1, <5>1
        <5> QED BY <2>2, <4>1, <4>5, <5>1, <5>2
      <4> QED BY <4>4, <4>5
    <3>7. CASE ~(IsDigit(a[i]) /\ IsDigit(b[j]))
      <4>1. CASE Class(a, i) = Class(b, j)
        <5>1. ~IsDigit(a[i]) /\ ~IsDigit(b[j])
          BY <2>1, <2>4, <3>7, <4>1, Heads DEF Digit
        <5>2. p = q
          BY <3>1, <3>2, <4>1, <5>1, ChunkFacts
        <5>3. Amount(a, i) = Amount(b, j)
          BY <5>1 DEF Amount, Digit
        <5> QED BY <3>4, <4>1, <5>2, <5>3
      <4>2. CASE Class(a, i) # Class(b, j)
        <5>1. /\ p[1] \in Nat /\ q[1] \in Nat /\ Len(p) \in Nat /\ Len(q) \in Nat
              /\ 1 \in 1..Len(p) /\ 1 <= Len(q) /\ \A l \in 1..(1 - 1) : p[l] = q[l]
          BY <3>1, <3>2, SMTT(30)
        <5>2. /\ IF IsDigit(a[i]) THEN IsDigit(p[1]) /\ Class(a, i) = Zero
                 ELSE p[1] = Class(a, i) /\ ~IsDigit(p[1])
              /\ IF IsDigit(b[j]) THEN IsDigit(q[1]) /\ Class(b, j) = Zero
                 ELSE q[1] = Class(b, j) /\ ~IsDigit(q[1])
          <6>1. IF IsDigit(a[i]) THEN IsDigit(p[1]) /\ Class(a, i) = Zero
                ELSE p = <<Class(a, i)>> /\ ~IsDigit(Class(a, i))
            BY <3>1, ChunkFacts
          <6>2. IF IsDigit(b[j]) THEN IsDigit(q[1]) /\ Class(b, j) = Zero
                ELSE q = <<Class(b, j)>> /\ ~IsDigit(Class(b, j))
            BY <3>2, ChunkFacts
          <6>3. (p = <<Class(a, i)>> => p[1] = Class(a, i))
                /\ (q = <<Class(b, j)>> => q[1] = Class(b, j))
            OBVIOUS
          <6> QED BY <6>1, <6>2, <6>3
        <5>3. p[1] # q[1] /\ Sign(p[1], q[1]) = Sign(Class(a, i), Class(b, j))
          <6>1. CASE IsDigit(a[i])
            <7>1. ~IsDigit(b[j])
              BY <3>7, <6>1
            <7>2. IsDigit(p[1]) /\ Class(a, i) = Zero /\ q[1] = Class(b, j) /\ ~IsDigit(q[1])
              BY <5>2, <6>1, <7>1
            <7> QED BY <5>1, <7>2, DigitOrNot
          <6>2. CASE IsDigit(b[j])
            <7>1. ~IsDigit(a[i])
              BY <3>7, <6>2
            <7>2. IsDigit(q[1]) /\ Class(b, j) = Zero /\ p[1] = Class(a, i) /\ ~IsDigit(p[1])
              BY <5>2, <6>2, <7>1
            <7> QED BY <5>1, <7>2, DigitOrNot
          <6>3. CASE ~IsDigit(a[i]) /\ ~IsDigit(b[j])
            BY <4>2, <5>2, <6>3
          <6> QED BY <6>1, <6>2, <6>3
        <5>4. Collate(r[i], t[j]) = Sign(p[1], q[1])
          BY <3>5, <5>1, <5>3
        <5> QED BY <2>2, <4>2, <5>3, <5>4
      <4> QED BY <4>1, <4>2
    <3> QED BY <3>6, <3>7
  <2> QED BY <1>4, <2>1, <2>3, <2>4
<1>6. Spots(a) \subseteq T
  <2>1. \A i \in Spots(a) : (\A k \in Spots(a) : k > i => k \in T) => i \in T
    BY <1>5
  <2> HIDE DEF T
  <2> QED BY <2>1, BackwardInduction
<1>7. 1 \in Spots(a) /\ 1 \in Spots(b)
  BY DEF Spots
<1> QED BY <1>1, <1>2, <1>3, <1>6, <1>7
------------------------------------------------------------------------------
(* A search: where the characters of the query are found in a name.         *)

\* v holds, for each position in p and in name, whether LIKE matches the rest.
Matches(v, p, name) ==
  \A i \in Spots(p), j \in Spots(name) :
    v[<<i, j>>] =
      IF i > Len(p) THEN j > Len(name)
      ELSE IF p[i] = Percent THEN \E k \in j..(Len(name) + 1) : v[<<i + 1, k>>]
      ELSE IF p[i] = Underscore THEN j <= Len(name) /\ v[<<i + 1, j + 1>>]
      ELSE IF p[i] = Backslash
      THEN /\ i < Len(p) /\ j <= Len(name)
           /\ Lower[p[i + 1]] = Lower[name[j]]
           /\ v[<<i + 2, j + 1>>]
      ELSE j <= Len(name) /\ Lower[p[i]] = Lower[name[j]] /\ v[<<i + 1, j + 1>>]

\* Equivalent claims are equal.
LEMMA SameTruth ==
  ASSUME NEW P \in BOOLEAN, NEW Q \in BOOLEAN, P => Q, Q => P
  PROVE  P = Q
OBVIOUS

\* LIKE is the recursion over pairs of positions that it is written as.
LEMMA Matching ==
  ASSUME NEW p \in Seq(Characters), NEW name \in Seq(Characters)
  PROVE  \E v : Matches(v, p, name) /\ Like(p, name) = v[<<1, 1>>]
<1> DEFINE A == (1..(Len(p) + 1)) \X (1..(Len(name) + 1))
           V == BOOLEAN
           Step(f, here) ==
             LET i == here[1]
                 j == here[2]
             IN  IF i > Len(p) THEN j > Len(name)
                 ELSE CASE p[i] = Percent ->
                             \E k \in j..(Len(name) + 1) : f[<<i + 1, k>>]
                        [] p[i] = Underscore -> j <= Len(name) /\ f[<<i + 1, j + 1>>]
                        [] p[i] = Backslash ->
                             /\ i < Len(p) /\ j <= Len(name)
                             /\ Lower[p[i + 1]] = Lower[name[j]]
                             /\ f[<<i + 2, j + 1>>]
                        [] OTHER ->
                             /\ j <= Len(name)
                             /\ Lower[p[i]] = Lower[name[j]]
                             /\ f[<<i + 1, j + 1>>]
           F == [f \in [A -> V] |-> [here \in A |-> Step(f, here)]]
           m == [here \in A |-> Len(p) + 1 - here[1]]
           Wild(f, i, j) == \E k \in j..(Len(name) + 1) : f[<<i + 1, k>>]
           One(f, i, j) == j <= Len(name) /\ f[<<i + 1, j + 1>>]
           Escaped(f, i, j) == /\ i < Len(p) /\ j <= Len(name)
                               /\ Lower[p[i + 1]] = Lower[name[j]]
                               /\ f[<<i + 2, j + 1>>]
           Plain(f, i, j) == /\ j <= Len(name)
                             /\ Lower[p[i]] = Lower[name[j]]
                             /\ f[<<i + 1, j + 1>>]
<1>1. Len(p) \in Nat /\ Len(name) \in Nat
  OBVIOUS
<1>2. (\E v : v = [here \in A |-> Step(v, here)]) =>
        \E v : /\ v = [here \in A |-> Step(v, here)]
               /\ Like(p, name) = v[<<1, 1>>]
  BY DEF Like
<1>3. ASSUME NEW f, NEW i \in Spots(p), NEW j \in Spots(name)
      PROVE  /\ i > Len(p) => Step(f, <<i, j>>) = (j > Len(name))
             /\ ~(i > Len(p)) /\ p[i] = Percent => Step(f, <<i, j>>) = Wild(f, i, j)
             /\ ~(i > Len(p)) /\ p[i] = Underscore => Step(f, <<i, j>>) = One(f, i, j)
             /\ ~(i > Len(p)) /\ p[i] = Backslash => Step(f, <<i, j>>) = Escaped(f, i, j)
             /\ ~(i > Len(p)) /\ p[i] # Percent /\ p[i] # Underscore /\ p[i] # Backslash
                  => Step(f, <<i, j>>) = Plain(f, i, j)
  <2>1. CASE i > Len(p)
    BY <2>1
  <2>2. CASE ~(i > Len(p)) /\ p[i] = Percent
    BY <2>2, CharacterAssumption
  <2>3. CASE ~(i > Len(p)) /\ p[i] = Underscore
    BY <2>3, CharacterAssumption
  <2>4. CASE ~(i > Len(p)) /\ p[i] = Backslash
    BY <2>4, CharacterAssumption
  <2>5. CASE ~(i > Len(p)) /\ p[i] # Percent /\ p[i] # Underscore /\ p[i] # Backslash
    BY <2>5, CharacterAssumption
  <2> QED BY <2>1, <2>2, <2>3, <2>4, <2>5
<1>4. ASSUME NEW f, NEW i \in Spots(p), NEW j \in Spots(name),
             \A y \in A : m[y] < m[<<i, j>>] => f[y] \in V
      PROVE  Step(f, <<i, j>>) \in V
  <2>1. ASSUME NEW k \in Spots(p), NEW l \in Spots(name), k > i
        PROVE  f[<<k, l>>] \in V
    <3>1. <<k, l>> \in A /\ <<i, j>> \in A
      BY DEF Spots
    <3>2. m[<<k, l>>] = Len(p) + 1 - k /\ m[<<i, j>>] = Len(p) + 1 - i
      <4> HIDE DEF A
      <4> QED BY <3>1
    <3>3. m[<<k, l>>] < m[<<i, j>>]
      <4> HIDE DEF A, m
      <4> QED BY <1>1, <2>1, <3>2 DEF Spots
    <3> HIDE DEF A, m, V
    <3> QED BY <1>4, <3>1, <3>3
  <2>2. ~(i > Len(p)) => /\ i + 1 \in Spots(p) /\ i + 1 > i
                         /\ i < Len(p) => i + 2 \in Spots(p) /\ i + 2 > i
    BY <1>1 DEF Spots
  <2>3. /\ j <= Len(name) => j + 1 \in Spots(name)
        /\ \A k \in j..(Len(name) + 1) : k \in Spots(name)
    BY <1>1 DEF Spots
  <2>4. ~(i > Len(p)) =>
          /\ Wild(f, i, j) \in BOOLEAN /\ One(f, i, j) \in BOOLEAN
          /\ Escaped(f, i, j) \in BOOLEAN /\ Plain(f, i, j) \in BOOLEAN
    OBVIOUS
  <2>5. (j > Len(name)) \in BOOLEAN
    OBVIOUS
  <2> HIDE DEF Step, Wild, One, Escaped, Plain
  <2>6. CASE i > Len(p)
    BY <1>3, <2>5, <2>6, Zenon
  <2>7. CASE ~(i > Len(p)) /\ p[i] = Percent
    BY <1>3, <2>4, <2>7, Zenon
  <2>8. CASE ~(i > Len(p)) /\ p[i] = Underscore
    BY <1>3, <2>4, <2>8, Zenon
  <2>9. CASE ~(i > Len(p)) /\ p[i] = Backslash
    BY <1>3, <2>4, <2>9, Zenon
  <2>10. CASE ~(i > Len(p)) /\ p[i] # Percent /\ p[i] # Underscore /\ p[i] # Backslash
    BY <1>3, <2>4, <2>10, Zenon
  <2> QED BY <2>6, <2>7, <2>8, <2>9, <2>10, Zenon
<1>5. ASSUME NEW f, NEW g, NEW i \in Spots(p), NEW j \in Spots(name),
             \A y \in A : m[y] < m[<<i, j>>] => f[y] = g[y]
      PROVE  Step(f, <<i, j>>) = Step(g, <<i, j>>)
  <2>1. ASSUME NEW k \in Spots(p), NEW l \in Spots(name), k > i
        PROVE  f[<<k, l>>] = g[<<k, l>>]
    <3>1. <<k, l>> \in A /\ <<i, j>> \in A
      BY DEF Spots
    <3>2. m[<<k, l>>] = Len(p) + 1 - k /\ m[<<i, j>>] = Len(p) + 1 - i
      <4> HIDE DEF A
      <4> QED BY <3>1
    <3>3. m[<<k, l>>] < m[<<i, j>>]
      <4> HIDE DEF A, m
      <4> QED BY <1>1, <2>1, <3>2 DEF Spots
    <3> HIDE DEF A, m
    <3> QED BY <1>5, <3>1, <3>3
  <2>2. ~(i > Len(p)) => /\ i + 1 \in Spots(p) /\ i + 1 > i
                         /\ i < Len(p) => i + 2 \in Spots(p) /\ i + 2 > i
    BY <1>1 DEF Spots
  <2>3. /\ j <= Len(name) => j + 1 \in Spots(name)
        /\ \A k \in j..(Len(name) + 1) : k \in Spots(name)
    BY <1>1 DEF Spots
  <2>4. ~(i > Len(p)) =>
          /\ Wild(f, i, j) = Wild(g, i, j) /\ One(f, i, j) = One(g, i, j)
          /\ Escaped(f, i, j) = Escaped(g, i, j) /\ Plain(f, i, j) = Plain(g, i, j)
    BY <2>1, <2>2, <2>3
  <2> HIDE DEF Step, Wild, One, Escaped, Plain
  <2>5. CASE i > Len(p)
    BY <1>3, <2>5, Zenon
  <2>6. CASE ~(i > Len(p)) /\ p[i] = Percent
    BY <1>3, <2>4, <2>6, Zenon
  <2>7. CASE ~(i > Len(p)) /\ p[i] = Underscore
    BY <1>3, <2>4, <2>7, Zenon
  <2>8. CASE ~(i > Len(p)) /\ p[i] = Backslash
    BY <1>3, <2>4, <2>8, Zenon
  <2>9. CASE ~(i > Len(p)) /\ p[i] # Percent /\ p[i] # Underscore /\ p[i] # Backslash
    BY <1>3, <2>4, <2>9, Zenon
  <2> QED BY <2>5, <2>6, <2>7, <2>8, <2>9, Zenon
<1>6. \A here \in A : \E i \in Spots(p), j \in Spots(name) : here = <<i, j>>
  BY DEF Spots
<1>7. Grounded(A, V, m, F)
  <2>1. \A f \in [A -> V] : \A here \in A : Step(f, here) \in V
    <3> SUFFICES ASSUME NEW f \in [A -> V], NEW here \in A PROVE Step(f, here) \in V
      OBVIOUS
    <3>1. PICK i \in Spots(p), j \in Spots(name) : here = <<i, j>>
      BY <1>6
    <3>2. \A y \in A : f[y] \in V
      <4> HIDE DEF A, V
      <4> QED OBVIOUS
    <3> HIDE DEF A, V, m, Step
    <3> QED BY <1>4, <3>1, <3>2, Zenon
  <2>2. F \in [[A -> V] -> [A -> V]]
    <3> HIDE DEF A, V, Step
    <3> QED BY <2>1
  <2>3. ASSUME NEW f \in [A -> V], NEW g \in [A -> V], NEW here \in A,
               \A y \in A : m[y] < m[here] => f[y] = g[y]
        PROVE  F[f][here] = F[g][here]
    <3>1. PICK i \in Spots(p), j \in Spots(name) : here = <<i, j>>
      BY <1>6
    <3> HIDE DEF A, V, m, Step
    <3>2. Step(f, here) = Step(g, here)
      BY <1>5, <2>3, <3>1, Zenon
    <3> QED BY <3>2
  <2>4. \A f, g \in [A -> V] : \A k \in A :
           (\A y \in A : m[y] < m[k] => f[y] = g[y]) => F[f][k] = F[g][k]
    <3> HIDE DEF A, V, F, m
    <3> QED BY <2>3, Zenon
  <2>5. \E N \in Nat : m \in [A -> 0..N]
    <3>1. Len(p) + 1 \in Nat /\ m \in [A -> 0..(Len(p) + 1)]
      BY <1>1
    <3> HIDE DEF A, m
    <3> QED BY <3>1, Zenon
  <2>6. V # {}
    OBVIOUS
  <2> HIDE DEF A, V, F, m
  <2> QED BY <2>2, <2>4, <2>5, <2>6, Zenon DEF Grounded
<1>8. PICK g \in [A -> V] : F[g] = g
  <2> HIDE DEF A, V, F, m
  <2> QED BY <1>7, FixedPoint
<1>9. PICK v : v = [here \in A |-> Step(v, here)] /\ Like(p, name) = v[<<1, 1>>]
  BY <1>2, <1>8
<1>10. ASSUME NEW i \in Spots(p), NEW j \in Spots(name)
       PROVE  v[<<i, j>>] =
                IF i > Len(p) THEN j > Len(name)
                ELSE IF p[i] = Percent THEN Wild(v, i, j)
                ELSE IF p[i] = Underscore THEN One(v, i, j)
                ELSE IF p[i] = Backslash THEN Escaped(v, i, j)
                ELSE Plain(v, i, j)
  <2>1. <<i, j>> \in A
    BY DEF Spots
  <2>2. v[<<i, j>>] = Step(v, <<i, j>>)
    <3> HIDE DEF A, Step
    <3> QED BY <1>9, <2>1
  <2> HIDE DEF Step, Wild, One, Escaped, Plain, A
  <2>3. CASE i > Len(p)
    BY <1>3, <2>2, <2>3, Zenon
  <2>4. CASE ~(i > Len(p)) /\ p[i] = Percent
    BY <1>3, <2>2, <2>4, Zenon
  <2>5. CASE ~(i > Len(p)) /\ p[i] = Underscore
    <3>1. p[i] # Percent
      BY <2>5, CharacterAssumption
    <3> QED BY <1>3, <2>2, <2>5, <3>1, Zenon
  <2>6. CASE ~(i > Len(p)) /\ p[i] = Backslash
    <3>1. p[i] # Percent /\ p[i] # Underscore
      BY <2>6, CharacterAssumption
    <3> QED BY <1>3, <2>2, <2>6, <3>1, Zenon
  <2>7. CASE ~(i > Len(p)) /\ p[i] # Percent /\ p[i] # Underscore /\ p[i] # Backslash
    BY <1>3, <2>2, <2>7, Zenon
  <2> QED BY <2>3, <2>4, <2>5, <2>6, <2>7, Zenon
<1>11. Matches(v, p, name)
  <2> HIDE DEF Step
  <2> QED BY <1>10, Zenon DEF Matches
<1> QED BY <1>9, <1>11

\* r holds what to_like_pattern writes from each position on.
Patterns(r, q) ==
  /\ r \in [Spots(q) -> Seq(Characters)]
  /\ r[Len(q) + 1] = <<Percent>>
  /\ \A i \in 1..Len(q) : r[i] = LikeText(q[i]) \o r[i + 1]

\* What stands in a pattern for each kind of character.
LEMMA LikeTexts ==
  ASSUME NEW c \in Characters
  PROVE  /\ LikeText(c) \in Seq(Characters)
         /\ c \in {Backslash, Percent, Underscore} => LikeText(c) = <<Backslash, c>>
         /\ c = Star => LikeText(c) = <<Percent>>
         /\ c \notin {Star, Backslash, Percent, Underscore} => LikeText(c) = <<c>>
<1>1. CASE c \in {Backslash, Percent, Underscore}
  <2>1. c # Star
    BY <1>1, CharacterAssumption
  <2>2. LikeText(c) = <<Backslash, c>>
    BY <1>1, <2>1 DEF LikeText
  <2>3. Backslash \in Characters
    BY CharacterAssumption
  <2> QED BY <1>1, <2>1, <2>2, <2>3
<1>2. CASE c = Star
  <2>1. c \notin {Backslash, Percent, Underscore} /\ Percent \in Characters
    BY <1>2, CharacterAssumption
  <2>2. LikeText(c) = <<Percent>>
    BY <1>2, <2>1 DEF LikeText
  <2> QED BY <1>2, <2>1, <2>2
<1>3. CASE c \notin {Star, Backslash, Percent, Underscore}
  <2>1. LikeText(c) = <<c>>
    BY <1>3 DEF LikeText
  <2> QED BY <1>3, <2>1
<1> QED BY <1>1, <1>2, <1>3

\* to_like_pattern is the recursion over positions that it is written as.
LEMMA Patterning ==
  ASSUME NEW q \in Seq(Characters)
  PROVE  \E r : Patterns(r, q) /\ ToLikePattern(q) = <<Percent>> \o r[1]
<1> DEFINE A == 1..(Len(q) + 1)
           V == Seq(Characters)
           Step(f, i) == IF i > Len(q) THEN <<Percent>> ELSE LikeText(q[i]) \o f[i + 1]
           F == [f \in [A -> V] |-> [i \in A |-> Step(f, i)]]
           m == [i \in A |-> Len(q) + 1 - i]
<1>1. Len(q) \in Nat /\ Len(q) + 1 \in Nat /\ m \in [A -> 0..(Len(q) + 1)]
  OBVIOUS
<1>2. ASSUME NEW i \in A, ~(i > Len(q)) PROVE i + 1 \in A /\ m[i + 1] < m[i]
  BY <1>1, <1>2
<1>3. <<Percent>> \in V /\ \A i \in 1..Len(q) : LikeText(q[i]) \in V
  <2>1. <<Percent>> \in V
    BY CharacterAssumption
  <2>2. ASSUME NEW i \in 1..Len(q) PROVE LikeText(q[i]) \in V
    BY LikeTexts
  <2> HIDE DEF V
  <2> QED BY <2>1, <2>2
<1>4. ASSUME NEW f, NEW i \in A, ~(i > Len(q)) => f[i + 1] \in V
      PROVE  Step(f, i) \in V
  <2>1. CASE i > Len(q)
    BY <1>3, <2>1
  <2>2. CASE ~(i > Len(q))
    <3>1. i \in 1..Len(q)
      BY <1>1, <2>2
    <3> QED BY <1>3, <1>4, <2>2, <3>1
  <2> QED BY <2>1, <2>2
<1>5. Grounded(A, V, m, F)
  <2>1. \A f \in [A -> V] : \A i \in A : Step(f, i) \in V
    <3> SUFFICES ASSUME NEW f \in [A -> V], NEW i \in A PROVE Step(f, i) \in V
      OBVIOUS
    <3>1. ~(i > Len(q)) => f[i + 1] \in V
      <4> HIDE DEF A, V, m
      <4> QED BY <1>2
    <3> HIDE DEF A, V, m, Step
    <3> QED BY <1>4, <3>1
  <2>2. F \in [[A -> V] -> [A -> V]]
    <3> HIDE DEF A, V, Step
    <3> QED BY <2>1
  <2>3. ASSUME NEW f \in [A -> V], NEW g \in [A -> V], NEW i \in A,
               \A y \in A : m[y] < m[i] => f[y] = g[y]
        PROVE  F[f][i] = F[g][i]
    <3>1. ~(i > Len(q)) => f[i + 1] = g[i + 1]
      <4> HIDE DEF A, V, m
      <4> QED BY <1>2, <2>3
    <3>2. Step(f, i) = Step(g, i)
      <4> HIDE DEF A, V, m
      <4> QED BY <3>1
    <3> HIDE DEF A, V, m, Step
    <3> QED BY <3>2
  <2>4. \A f, g \in [A -> V] : \A k \in A :
           (\A y \in A : m[y] < m[k] => f[y] = g[y]) => F[f][k] = F[g][k]
    <3> HIDE DEF A, V, F, m
    <3> QED BY <2>3, Zenon
  <2>5. \E N \in Nat : m \in [A -> 0..N]
    <3> HIDE DEF A, m
    <3> QED BY <1>1, Zenon
  <2>6. V # {}
    <3> HIDE DEF V
    <3> QED BY <1>3
  <2> HIDE DEF A, V, F, m
  <2> QED BY <2>2, <2>4, <2>5, <2>6, Zenon DEF Grounded
<1>6. PICK g \in [A -> V] : F[g] = g
  <2> HIDE DEF A, V, F, m
  <2> QED BY <1>5, FixedPoint
<1>7. (\E v : v = [i \in A |-> Step(v, i)]) =>
        \E v : v = [i \in A |-> Step(v, i)] /\ ToLikePattern(q) = <<Percent>> \o v[1]
  BY DEF ToLikePattern
<1>8. PICK r : r = [i \in A |-> Step(r, i)] /\ ToLikePattern(q) = <<Percent>> \o r[1]
  BY <1>6, <1>7
<1>9. \A i \in A : r[i] = Step(r, i)
  <2> HIDE DEF Step, A
  <2> QED BY <1>8
<1>10. \A i \in Spots(q) : r[i] \in V
  <2> DEFINE T == {i \in Spots(q) : r[i] \in V}
  <2>1. ASSUME NEW i \in Spots(q), \A k \in Spots(q) : k > i => k \in T PROVE i \in T
    <3>1. i \in A
      BY DEF Spots
    <3>2. ~(i > Len(q)) => i + 1 \in T
      <4>1. ~(i > Len(q)) => i + 1 \in Spots(q) /\ i + 1 > i
        BY <1>1 DEF Spots
      <4> HIDE DEF T
      <4> QED BY <2>1, <4>1
    <3>3. Step(r, i) \in V
      <4>1. ~(i > Len(q)) => r[i + 1] \in V
        <5> HIDE DEF V
        <5> QED BY <3>2
      <4> HIDE DEF A, V, Step
      <4> QED BY <1>4, <3>1, <4>1
    <3> HIDE DEF A, V, Step
    <3> QED BY <1>9, <3>1, <3>3
  <2>2. Spots(q) \subseteq T
    <3> HIDE DEF T
    <3> QED BY <2>1, BackwardInduction
  <2> QED BY <2>2
<1>11. r \in [Spots(q) -> Seq(Characters)]
  <2> HIDE DEF Step
  <2> QED BY <1>8, <1>10 DEF Spots
<1>12. /\ r[Len(q) + 1] = <<Percent>>
       /\ \A i \in 1..Len(q) : r[i] = LikeText(q[i]) \o r[i + 1]
  <2>1. /\ Len(q) + 1 \in A /\ Len(q) + 1 > Len(q)
        /\ \A i \in 1..Len(q) : i \in A /\ ~(i > Len(q))
    BY <1>1
  <2> HIDE DEF A
  <2> QED BY <1>9, <2>1
<1> QED BY <1>8, <1>11, <1>12 DEF Patterns

\* Where in the pattern p the text x begins that p ends with.
Place(p, x) == Len(p) - Len(x) + 1

\* p ends with x.
Ending(p, x) == \E y \in Seq(Characters) : p = y \o x

\* What a text that p ends with has at its start.
LEMMA Endings ==
  ASSUME NEW p \in Seq(Characters), NEW x \in Seq(Characters), Ending(p, x)
  PROVE  \E n \in Spots(p) :
           /\ n = Place(p, x) /\ Len(p) = n - 1 + Len(x)
           /\ Len(x) >= 1 => p[n] = x[1]
           /\ Len(x) >= 2 => p[n + 1] = x[2]
<1>1. PICK y \in Seq(Characters) : p = y \o x
  BY DEF Ending
<1>2. PICK a \in Nat, b \in Nat, c \in Nat : a = Len(p) /\ b = Len(x) /\ c = Len(y)
  OBVIOUS
<1>3. a = c + b /\ \A k \in 1..Len(x) : p[c + k] = x[k]
  BY <1>1, <1>2
<1>4. c + 1 \in Spots(p) /\ c + 1 = Place(p, x) /\ a = c + 1 - 1 + b /\ c + 1 + 1 = c + 2
  BY <1>2, <1>3 DEF Spots, Place
<1>5. /\ Len(x) >= 1 => 1 \in 1..Len(x)
      /\ Len(x) >= 2 => 2 \in 1..Len(x)
  BY <1>2
<1>6. /\ Len(x) >= 1 => p[c + 1] = x[1]
      /\ Len(x) >= 2 => p[c + 2] = x[2]
  BY <1>3, <1>5
<1>7. Len(p) = c + 1 - 1 + Len(x) /\ c + 1 + 1 = c + 2
  BY <1>2, <1>4
<1>8. PICK n \in Spots(p) : n = c + 1
  BY <1>4, Zenon
<1>9. /\ n = Place(p, x) /\ Len(p) = n - 1 + Len(x)
      /\ Len(x) >= 1 => p[n] = x[1]
      /\ Len(x) >= 2 => p[n + 1] = x[2]
  BY <1>4, <1>6, <1>7, <1>8
<1> QED BY <1>9, Zenon

\* Behind a piece of an ending comes an ending.
LEMMA EndingInside ==
  ASSUME NEW p \in Seq(Characters), NEW x \in Seq(Characters), NEW y \in Seq(Characters),
         Ending(p, x \o y)
  PROVE  Ending(p, y) /\ Place(p, y) = Place(p, x \o y) + Len(x)
<1>1. PICK z \in Seq(Characters) : p = z \o (x \o y)
  BY DEF Ending
<1>2. p = (z \o x) \o y /\ z \o x \in Seq(Characters)
  BY <1>1
<1>3. Ending(p, y)
  BY <1>2, Zenon DEF Ending
<1>4. PICK lx \in Nat, ly \in Nat, lp \in Nat : lx = Len(x) /\ ly = Len(y) /\ lp = Len(p)
  OBVIOUS
<1>5. Len(x \o y) = lx + ly
  BY <1>4
<1>6. lp - ly + 1 = lp - (lx + ly) + 1 + lx
  BY <1>4
<1>7. Place(p, y) = Place(p, x \o y) + Len(x)
  BY <1>4, <1>5, <1>6 DEF Place
<1> QED BY <1>3, <1>7

\* How the pattern stands for the query.
Stands(p, r, q) ==
  /\ p \in Seq(Characters) /\ p[1] = Percent /\ 1 <= Len(p)
  /\ Place(p, r[1]) = 2
  /\ Place(p, r[Len(q) + 1]) = Len(p) /\ p[Len(p)] = Percent
  /\ \A i \in 1..Len(q) :
       LET n == Place(p, r[i])
           c == q[i]
       IN  /\ n \in Spots(p) /\ n <= Len(p)
           /\ c \in {Backslash, Percent, Underscore} =>
                /\ p[n] = Backslash /\ n < Len(p) /\ p[n + 1] = c
                /\ Place(p, r[i + 1]) = n + 2
           /\ c \notin {Backslash, Percent, Underscore} =>
                /\ Place(p, r[i + 1]) = n + 1
                /\ p[n] = IF c = Star THEN Percent ELSE c

\* Every position of the query has its place in the pattern.
LEMMA Places ==
  ASSUME NEW q \in Seq(Characters), NEW r, Patterns(r, q), NEW p, p = <<Percent>> \o r[1]
  PROVE  Stands(p, r, q)
<1>1. /\ Len(q) \in Nat /\ r \in [Spots(q) -> Seq(Characters)] /\ Percent \in Characters
      /\ 1 \in Spots(q)
      /\ \A i \in 1..Len(q) : i \in Spots(q) /\ i + 1 \in Spots(q) /\ q[i] \in Characters
  BY CharacterAssumption DEF Patterns, Spots
<1>0. <<Percent>> \in Seq(Characters) /\ r[1] \in Seq(Characters)
  BY <1>1
<1>2. PICK z \in Seq(Characters), h \in Seq(Characters) : z = r[1] /\ h = <<Percent>>
  BY <1>0, Zenon
<1>3. p \in Seq(Characters) /\ p[1] = Percent /\ 1 <= Len(p)
      /\ Len(p) = Len(z) + 1 /\ Len(z) \in Nat
  <2>1. p = h \o z /\ Len(h) = 1 /\ h[1] = Percent /\ 1 \in 1..Len(h)
    BY <1>2
  <2>2. Len(z) \in Nat /\ Len(h \o z) = Len(h) + Len(z) /\ h \o z \in Seq(Characters)
        /\ \A k \in 1..Len(h) : (h \o z)[k] = h[k]
    OBVIOUS
  <2>0. p[1] = Percent
    <3>1. (h \o z)[1] = h[1]
      BY <2>1, <2>2, Zenon
    <3> QED BY <2>1, <3>1, Zenon
  <2>3. Len(p) = 1 + Len(z) /\ p[1] = Percent /\ p \in Seq(Characters)
    BY <2>0, <2>1, <2>2, Zenon
  <2>4. \A k \in Nat : 1 + k = k + 1 /\ 1 <= 1 + k
    OBVIOUS
  <2> QED BY <2>2, <2>3, <2>4
<1>4. Ending(p, r[1]) /\ Place(p, r[1]) = 2
  <2>1. p = h \o z
    BY <1>2
  <2>2. Ending(p, z)
    BY <2>1 DEF Ending
  <2>3. Place(p, z) = 2
    BY <1>3 DEF Place
  <2> QED BY <1>2, <2>2, <2>3
<1>5. ASSUME NEW i \in 1..Len(q), Ending(p, r[i])
      PROVE  Ending(p, r[i + 1]) /\ Place(p, r[i + 1]) = Place(p, r[i]) + Len(LikeText(q[i]))
  <2>0. /\ LikeText(q[i]) \in Seq(Characters) /\ r[i + 1] \in Seq(Characters)
        /\ r[i] = LikeText(q[i]) \o r[i + 1]
    BY <1>1, LikeTexts DEF Patterns
  <2>1. PICK x \in Seq(Characters), y \in Seq(Characters) :
          x = LikeText(q[i]) /\ y = r[i + 1] /\ r[i] = x \o y
    BY <2>0, Zenon
  <2>2. Ending(p, x \o y)
    BY <1>5, <2>1
  <2>3. Ending(p, y) /\ Place(p, y) = Place(p, x \o y) + Len(x)
    BY <1>3, <2>2, EndingInside, ZenonT(40)
  <2> QED BY <2>1, <2>3
<1>6. \A i \in Spots(q) : Ending(p, r[i])
  <2> DEFINE T == {k \in 0..Len(q) : Ending(p, r[k + 1])}
  <2>1. 0 \in T
    BY <1>1, <1>4
  <2>2. ASSUME NEW k \in 1..Len(q), k - 1 \in T PROVE k \in T
    <3>1. Ending(p, r[k]) /\ k \in 0..Len(q)
      BY <1>1, <2>2
    <3> QED BY <1>5, <3>1
  <2>3. 0..Len(q) \subseteq T
    <3> HIDE DEF T
    <3> QED BY <1>1, <2>1, <2>2, UpwardInduction
  <2>4. ASSUME NEW i \in Spots(q) PROVE Ending(p, r[i])
    <3>1. i - 1 \in 0..Len(q) /\ i - 1 + 1 = i
      BY <1>1 DEF Spots
    <3>2. i - 1 \in T
      <4> HIDE DEF T
      <4> QED BY <2>3, <3>1
    <3> QED BY <3>1, <3>2
  <2> QED BY <2>4
<1>7. Place(p, r[Len(q) + 1]) = Len(p) /\ p[Len(p)] = Percent
  <2>1. r[Len(q) + 1] = h /\ Ending(p, r[Len(q) + 1]) /\ Len(h) = 1 /\ h[1] = Percent
    <3>1. Len(q) + 1 \in Spots(q)
      BY <1>1 DEF Spots
    <3> QED BY <1>2, <1>6, <3>1 DEF Patterns
  <2>2. PICK n \in Spots(p) : n = Place(p, h) /\ Len(p) = n - 1 + Len(h)
                              /\ (Len(h) >= 1 => p[n] = h[1])
    <3>1. Ending(p, h)
      BY <2>1
    <3> QED BY <1>3, <3>1, Endings
  <2>3. n \in Nat /\ Len(p) = n
    BY <1>3, <2>1, <2>2 DEF Spots
  <2> QED BY <2>1, <2>2, <2>3
<1>8. ASSUME NEW i \in 1..Len(q)
      PROVE  LET n == Place(p, r[i])
                 c == q[i]
             IN  /\ n \in Spots(p) /\ n <= Len(p)
                 /\ c \in {Backslash, Percent, Underscore} =>
                      /\ p[n] = Backslash /\ n < Len(p) /\ p[n + 1] = c
                      /\ Place(p, r[i + 1]) = n + 2
                 /\ c \notin {Backslash, Percent, Underscore} =>
                      /\ Place(p, r[i + 1]) = n + 1
                      /\ p[n] = IF c = Star THEN Percent ELSE c
  <2>0. /\ LikeText(q[i]) \in Seq(Characters) /\ r[i + 1] \in Seq(Characters)
        /\ r[i] = LikeText(q[i]) \o r[i + 1]
    BY <1>1, LikeTexts DEF Patterns
  <2>1. PICK x \in Seq(Characters), y \in Seq(Characters) :
          x = LikeText(q[i]) /\ y = r[i + 1] /\ r[i] = x \o y
    BY <2>0, Zenon
  <2>2. Ending(p, x \o y) /\ Ending(p, y)
    BY <1>1, <1>6, <2>1
  <2>3. PICK lx \in Nat, ly \in Nat, lp \in Nat : lx = Len(x) /\ ly = Len(y) /\ lp = Len(p)
    BY <1>3
  <2>4. /\ Len(x \o y) = lx + ly /\ x \o y \in Seq(Characters)
        /\ \A k \in 1..Len(x) : (x \o y)[k] = x[k]
    BY <2>3
  <2>5. PICK n \in Spots(p) :
          /\ n = Place(p, x \o y) /\ lp = n - 1 + Len(x \o y)
          /\ Len(x \o y) >= 1 => p[n] = (x \o y)[1]
          /\ Len(x \o y) >= 2 => p[n + 1] = (x \o y)[2]
    BY <1>3, <2>2, <2>3, <2>4, Endings
  <2>6. n \in Nat /\ n = Place(p, r[i]) /\ lp = n - 1 + (lx + ly)
    <3>1. n \in Nat
      BY DEF Spots
    <3> QED BY <2>1, <2>4, <2>5, <3>1
  <2>7. Place(p, r[i + 1]) = n + lx
    <3>1. lp - ly + 1 = n + lx
      <4>1. PICK k \in Nat : k = n
        BY <2>6
      <4>2. lp = k - 1 + (lx + ly)
        BY <2>6, <4>1
      <4>3. lp - ly + 1 = k + lx
        BY <4>2
      <4> QED BY <4>1, <4>3
    <3> QED BY <2>1, <2>3, <3>1 DEF Place
  <2>8. CASE q[i] \in {Backslash, Percent, Underscore}
    <3>1. x = <<Backslash, q[i]>>
      BY <1>1, <2>1, <2>8, LikeTexts
    <3>2. lx = 2 /\ x[1] = Backslash /\ x[2] = q[i]
      BY <2>3, <3>1
    <3>3. n < lp /\ n <= lp /\ lx + ly >= 1 /\ lx + ly >= 2
      <4>1. PICK k \in Nat : k = n
        BY <2>6
      <4>2. lp = k - 1 + (lx + ly)
        BY <2>6, <4>1
      <4>3. k < lp /\ k <= lp /\ lx + ly >= 1 /\ lx + ly >= 2
        BY <3>2, <4>2
      <4> QED BY <4>1, <4>3
    <3>4. (x \o y)[1] = x[1] /\ (x \o y)[2] = x[2]
      BY <2>3, <2>4, <3>2
    <3>5. p[n] = Backslash /\ p[n + 1] = q[i]
      BY <2>4, <2>5, <3>2, <3>3, <3>4
    <3> QED BY <2>3, <2>6, <2>7, <2>8, <3>2, <3>3, <3>5
  <2>9. CASE q[i] \notin {Backslash, Percent, Underscore}
    <3>1. x = <<IF q[i] = Star THEN Percent ELSE q[i]>>
      BY <1>1, <2>1, <2>9, LikeTexts
    <3>2. lx = 1 /\ x[1] = (IF q[i] = Star THEN Percent ELSE q[i])
      BY <2>3, <3>1
    <3>3. n <= lp /\ lx + ly >= 1
      <4>1. PICK k \in Nat : k = n
        BY <2>6
      <4>2. lp = k - 1 + (lx + ly)
        BY <2>6, <4>1
      <4>3. k <= lp /\ lx + ly >= 1
        BY <3>2, <4>2
      <4> QED BY <4>1, <4>3
    <3>4. (x \o y)[1] = x[1]
      BY <2>3, <2>4, <3>2
    <3>5. p[n] = IF q[i] = Star THEN Percent ELSE q[i]
      BY <2>4, <2>5, <3>2, <3>3, <3>4
    <3> QED BY <2>3, <2>6, <2>7, <2>9, <3>2, <3>3, <3>5
  <2> QED BY <2>8, <2>9
<1> QED BY <1>3, <1>4, <1>7, <1>8 DEF Stands

\* M holds the pairs of a position in the query and one in the name from
\* where on the query is found.
Literal(M, q, name) ==
  /\ \A j \in Spots(name) : <<Len(q) + 1, j>> \in M
  /\ \A i \in 1..Len(q), j \in Spots(name) :
       /\ q[i] = Star =>
            (<<i, j>> \in M <=> \E k \in j..(Len(name) + 1) : <<i + 1, k>> \in M)
       /\ q[i] # Star =>
            (<<i, j>> \in M <=> /\ j <= Len(name) /\ Lower[q[i]] = Lower[name[j]]
                                /\ <<i + 1, j + 1>> \in M)

\* LIKE with the pattern of a query looks for the query itself: each character
\* for itself, each star for anything.
LEMMA Searching ==
  ASSUME NEW q \in Seq(Characters), NEW name \in Seq(Characters)
  PROVE  \E M : /\ Literal(M, q, name)
                /\ Like(ToLikePattern(q), name) <=> \E k \in Spots(name) : <<1, k>> \in M
<1>1. PICK r : Patterns(r, q) /\ ToLikePattern(q) = <<Percent>> \o r[1]
  BY Patterning
<1>2. PICK p : p = <<Percent>> \o r[1]
  OBVIOUS
<1>3. /\ p \in Seq(Characters) /\ p[1] = Percent /\ 1 <= Len(p)
      /\ Place(p, r[1]) = 2
      /\ Place(p, r[Len(q) + 1]) = Len(p) /\ p[Len(p)] = Percent
      /\ \A i \in 1..Len(q) :
           LET n == Place(p, r[i])
               c == q[i]
           IN  /\ n \in Spots(p) /\ n <= Len(p)
               /\ c \in {Backslash, Percent, Underscore} =>
                    /\ p[n] = Backslash /\ n < Len(p) /\ p[n + 1] = c
                    /\ Place(p, r[i + 1]) = n + 2
               /\ c \notin {Backslash, Percent, Underscore} =>
                    /\ Place(p, r[i + 1]) = n + 1
                    /\ p[n] = IF c = Star THEN Percent ELSE c
  <2>1. Stands(p, r, q)
    BY <1>1, <1>2, Places
  <2> QED BY <2>1 DEF Stands
<1>4. PICK v : Matches(v, p, name) /\ Like(p, name) = v[<<1, 1>>]
  BY <1>3, Matching
<1> DEFINE M == {here \in Spots(q) \X Spots(name) : v[<<Place(p, r[here[1]]), here[2]>>]}
<1>5. \A i \in Spots(q), j \in Spots(name) :
         <<i, j>> \in M <=> v[<<Place(p, r[i]), j>>]
  OBVIOUS
<1>6. /\ Len(q) \in Nat /\ Len(name) \in Nat /\ Len(p) \in Nat
      /\ Percent # Underscore /\ Percent # Backslash /\ Underscore # Backslash
      /\ Star \notin {Percent, Underscore, Backslash}
  BY <1>3, CharacterAssumption
<1>7. ASSUME NEW i \in Spots(p), NEW j \in Spots(name), i <= Len(p)
      PROVE  /\ p[i] = Percent =>
                  v[<<i, j>>] = \E k \in j..(Len(name) + 1) : v[<<i + 1, k>>]
             /\ p[i] = Backslash =>
                  v[<<i, j>>] = (/\ i < Len(p) /\ j <= Len(name)
                                 /\ Lower[p[i + 1]] = Lower[name[j]]
                                 /\ v[<<i + 2, j + 1>>])
             /\ p[i] \notin {Percent, Underscore, Backslash} =>
                  v[<<i, j>>] = (/\ j <= Len(name) /\ Lower[p[i]] = Lower[name[j]]
                                 /\ v[<<i + 1, j + 1>>])
  <2>1. ~(i > Len(p))
    BY <1>6, <1>7 DEF Spots
  <2>2. v[<<i, j>>] =
          IF i > Len(p) THEN j > Len(name)
          ELSE IF p[i] = Percent THEN \E k \in j..(Len(name) + 1) : v[<<i + 1, k>>]
          ELSE IF p[i] = Underscore THEN j <= Len(name) /\ v[<<i + 1, j + 1>>]
          ELSE IF p[i] = Backslash
          THEN /\ i < Len(p) /\ j <= Len(name)
               /\ Lower[p[i + 1]] = Lower[name[j]]
               /\ v[<<i + 2, j + 1>>]
          ELSE j <= Len(name) /\ Lower[p[i]] = Lower[name[j]] /\ v[<<i + 1, j + 1>>]
    BY <1>4, Zenon DEF Matches
  <2>3. CASE p[i] = Percent
    BY <1>6, <2>1, <2>2, <2>3
  <2>4. CASE p[i] = Backslash
    BY <1>6, <2>1, <2>2, <2>4
  <2>5. CASE p[i] # Percent /\ p[i] # Backslash
    BY <1>6, <2>1, <2>2, <2>5
  <2> QED BY <2>3, <2>4, <2>5
<1>8. ASSUME NEW j \in Spots(name) PROVE <<Len(q) + 1, j>> \in M
  <2>1. Len(p) \in Spots(p) /\ Len(p) <= Len(p) /\ Len(p) + 1 \in Spots(p) /\ Len(p) + 1 > Len(p)
        /\ Len(name) + 1 \in j..(Len(name) + 1) /\ Len(name) + 1 \in Spots(name)
        /\ Len(name) + 1 > Len(name) /\ Len(q) + 1 \in Spots(q)
    BY <1>3, <1>6 DEF Spots
  <2>2. v[<<Len(p) + 1, Len(name) + 1>>]
    BY <1>4, <2>1 DEF Matches
  <2>3. v[<<Len(p), j>>] = \E k \in j..(Len(name) + 1) : v[<<Len(p) + 1, k>>]
    BY <1>3, <1>7, <2>1
  <2>4. v[<<Len(p), j>>]
    BY <2>1, <2>2, <2>3
  <2> HIDE DEF M
  <2> QED BY <1>3, <1>5, <2>1, <2>4
<1>9. ASSUME NEW i \in 1..Len(q), NEW j \in Spots(name), q[i] = Star
      PROVE  <<i, j>> \in M <=> \E k \in j..(Len(name) + 1) : <<i + 1, k>> \in M
  <2>1. PICK n \in Spots(p) : /\ n = Place(p, r[i]) /\ n <= Len(p)
                              /\ Place(p, r[i + 1]) = n + 1 /\ p[n] = Percent
    BY <1>3, <1>6, <1>9
  <2>2. v[<<n, j>>] = \E k \in j..(Len(name) + 1) : v[<<n + 1, k>>]
    BY <1>7, <2>1
  <2>3. i \in Spots(q) /\ i + 1 \in Spots(q) /\ \A k \in j..(Len(name) + 1) : k \in Spots(name)
    BY <1>6 DEF Spots
  <2> HIDE DEF M
  <2>4. <<i, j>> \in M <=> v[<<n, j>>]
    BY <1>5, <2>1, <2>3
  <2>5. \A k \in j..(Len(name) + 1) : <<i + 1, k>> \in M <=> v[<<n + 1, k>>]
    BY <1>5, <2>1, <2>3
  <2> QED BY <2>2, <2>4, <2>5
<1>10. ASSUME NEW i \in 1..Len(q), NEW j \in Spots(name), q[i] # Star
       PROVE  <<i, j>> \in M <=> /\ j <= Len(name) /\ Lower[q[i]] = Lower[name[j]]
                                 /\ <<i + 1, j + 1>> \in M
  <2>1. i \in Spots(q) /\ i + 1 \in Spots(q) /\ (j <= Len(name) => j + 1 \in Spots(name))
    BY <1>6 DEF Spots
  <2>2. PICK n \in Spots(p) :
          /\ n = Place(p, r[i])
          /\ v[<<n, j>>] = (/\ j <= Len(name) /\ Lower[q[i]] = Lower[name[j]]
                            /\ v[<<Place(p, r[i + 1]), j + 1>>])
    <3>1. PICK n \in Spots(p) : n = Place(p, r[i]) /\ n <= Len(p)
      BY <1>3
    <3>2. CASE q[i] \in {Backslash, Percent, Underscore}
      <4>1. p[n] = Backslash /\ n < Len(p) /\ p[n + 1] = q[i] /\ Place(p, r[i + 1]) = n + 2
        BY <1>3, <3>1, <3>2
      <4>2. v[<<n, j>>] = (/\ j <= Len(name) /\ Lower[q[i]] = Lower[name[j]]
                           /\ v[<<n + 2, j + 1>>])
        BY <1>7, <3>1, <4>1, ZenonT(40)
      <4> QED BY <3>1, <4>1, <4>2
    <3>3. CASE q[i] \notin {Backslash, Percent, Underscore}
      <4>1. p[n] = q[i] /\ Place(p, r[i + 1]) = n + 1
        BY <1>3, <1>10, <3>1, <3>3
      <4>2. v[<<n, j>>] = (/\ j <= Len(name) /\ Lower[q[i]] = Lower[name[j]]
                           /\ v[<<n + 1, j + 1>>])
        BY <1>7, <3>1, <3>3, <4>1, ZenonT(40)
      <4> QED BY <3>1, <4>1, <4>2
    <3> QED BY <3>2, <3>3
  <2> HIDE DEF M
  <2>3. <<i, j>> \in M <=> v[<<n, j>>]
    BY <1>5, <2>1, <2>2
  <2>4. j <= Len(name) => (<<i + 1, j + 1>> \in M <=> v[<<Place(p, r[i + 1]), j + 1>>])
    BY <1>5, <2>1, <2>2
  <2> QED BY <2>2, <2>3, <2>4
<1>11. Like(ToLikePattern(q), name) <=> \E k \in Spots(name) : <<1, k>> \in M
  <2>1. 1 \in Spots(p) /\ 1 \in Spots(q) /\ 1 \in Spots(name) /\ 1 + 1 = 2
        /\ 1..(Len(name) + 1) = Spots(name)
    BY <1>6 DEF Spots
  <2>2. v[<<1, 1>>] = \E k \in 1..(Len(name) + 1) : v[<<1 + 1, k>>]
    BY <1>3, <1>7, <2>1
  <2> HIDE DEF M
  <2>3. \A k \in Spots(name) : <<1, k>> \in M <=> v[<<2, k>>]
    BY <1>3, <1>5, <2>1
  <2>4. ToLikePattern(q) = p
    BY <1>1, <1>2
  <2> QED BY <1>4, <2>1, <2>2, <2>3, <2>4
<1>12. Literal(M, q, name)
  <2> HIDE DEF M
  <2> QED BY <1>8, <1>9, <1>10 DEF Literal
<1> QED BY <1>11, <1>12

\* The characters of the query from i on that are no stars.
Kept(q, i) == {x \in 1..Len(q) : x >= i /\ q[x] # Star}

\* f places them in the name from j on, in order, neighbours side by side.
Laid(f, q, name, i, j) ==
  /\ f \in [Kept(q, i) -> j..Len(name)]
  /\ \A x \in Kept(q, i) : Lower[q[x]] = Lower[name[f[x]]]
  /\ \A x, y \in Kept(q, i) : x < y => IF y = x + 1 THEN f[y] = f[x] + 1 ELSE f[x] < f[y]

\* The first of them, if it is the one at i, is placed at j.
Begun(f, q, name, i, j) ==
  Laid(f, q, name, i, j) /\ (i \in Kept(q, i) => f[i] = j)

\* What is laid from j on begins somewhere from j on.
LEMMA BeginsSomewhere ==
  ASSUME NEW q \in Seq(Characters), NEW name \in Seq(Characters),
         NEW i \in Spots(q), NEW j \in Spots(name), NEW f, Laid(f, q, name, i, j)
  PROVE  \E k \in j..(Len(name) + 1) : Begun(f, q, name, i, k)
<1>1. i \in Nat /\ j \in Nat /\ Len(q) \in Nat /\ Len(name) \in Nat /\ j \in j..(Len(name) + 1)
  BY DEF Spots
<1>2. CASE i \notin Kept(q, i)
  BY <1>1, <1>2 DEF Begun
<1>3. CASE i \in Kept(q, i)
  <2>1. PICK k \in j..Len(name) : k = f[i]
    BY <1>3 DEF Laid
  <2>2. ASSUME NEW x \in Kept(q, i) PROVE f[x] \in k..Len(name)
    <3>1. f[x] \in j..Len(name) /\ x \in Nat /\ x >= i
      BY DEF Laid, Kept
    <3>2. i < x => f[i] < f[x]
      <4>1. i < x => IF x = i + 1 THEN f[x] = f[i] + 1 ELSE f[i] < f[x]
        BY <1>3 DEF Laid
      <4> QED BY <1>1, <2>1, <3>1, <4>1
    <3> QED BY <1>1, <2>1, <3>1, <3>2
  <2>3. f \in [Kept(q, i) -> k..Len(name)]
    BY <2>2 DEF Laid
  <2>4. Laid(f, q, name, i, k)
    BY <2>3 DEF Laid
  <2>5. k \in j..(Len(name) + 1)
    BY <1>1
  <2> QED BY <2>1, <2>4, <2>5 DEF Begun
<1> QED BY <1>2, <1>3

\* Laid further behind is laid.
LEMMA LaidBefore ==
  ASSUME NEW q \in Seq(Characters), NEW name \in Seq(Characters), NEW i \in Spots(q),
         NEW j \in Spots(name), NEW k \in j..(Len(name) + 1),
         NEW f, Laid(f, q, name, i, k)
  PROVE  Laid(f, q, name, i, j)
<1>1. k..Len(name) \subseteq j..Len(name)
  BY DEF Spots
<1> QED BY <1>1 DEF Laid

\* The characters that are left at a position and at the next.
LEMMA KeptNext ==
  ASSUME NEW q \in Seq(Characters), NEW i \in 1..Len(q)
  PROVE  /\ i + 1 \in Spots(q) /\ i \in Spots(q) /\ i \in Nat
         /\ q[i] = Star => Kept(q, i) = Kept(q, i + 1) /\ i \notin Kept(q, i)
         /\ q[i] # Star => /\ Kept(q, i) = Kept(q, i + 1) \cup {i} /\ i \in Kept(q, i)
                           /\ \A x \in Kept(q, i + 1) : x \in Nat /\ x > i
<1>1. i + 1 \in Spots(q) /\ i \in Spots(q) /\ i \in Nat /\ Len(q) \in Nat
  BY DEF Spots
<1>2. \A x \in 1..Len(q) : x >= i <=> (x = i \/ x >= i + 1)
  BY <1>1
<1>3. \A x \in Kept(q, i + 1) : x \in Nat /\ x > i
  BY <1>1 DEF Kept
<1>4. i \in Kept(q, i) <=> q[i] # Star
  BY <1>1 DEF Kept
<1>5. Kept(q, i) = Kept(q, i + 1) \cup {x \in {i} : q[x] # Star}
  BY <1>1, <1>2 DEF Kept
<1> QED BY <1>1, <1>3, <1>4, <1>5

\* The query is found from a position on exactly if its characters can be laid
\* there.
LEMMA Embedding ==
  ASSUME NEW q \in Seq(Characters), NEW name \in Seq(Characters),
         NEW M, Literal(M, q, name)
  PROVE  \A i \in Spots(q), j \in Spots(name) :
            <<i, j>> \in M <=> \E f : Begun(f, q, name, i, j)
<1> DEFINE T == {i \in Spots(q) : \A j \in Spots(name) :
                    <<i, j>> \in M <=> \E f : Begun(f, q, name, i, j)}
<1>1. Len(q) \in Nat /\ Len(name) \in Nat
  OBVIOUS
<1>2. ASSUME NEW j \in Spots(name) PROVE \E f : Begun(f, q, name, Len(q) + 1, j)
  <2>1. Kept(q, Len(q) + 1) = {}
    BY <1>1 DEF Kept
  <2>2. PICK f : f = [x \in {} |-> j]
    OBVIOUS
  <2>3. f \in [{} -> j..Len(name)]
    BY <2>2
  <2> QED BY <2>1, <2>3 DEF Begun, Laid
<1>3. ASSUME NEW i \in 1..Len(q), i + 1 \in T, NEW j \in Spots(name), q[i] = Star
      PROVE  <<i, j>> \in M <=> \E f : Begun(f, q, name, i, j)
  <2>1. Kept(q, i) = Kept(q, i + 1) /\ i \notin Kept(q, i) /\ i + 1 \in Spots(q)
    BY <1>3, KeptNext
  <2>2. /\ <<i, j>> \in M <=> \E k \in j..(Len(name) + 1) : <<i + 1, k>> \in M
        /\ \A k \in j..(Len(name) + 1) : k \in Spots(name)
    <3>1. \A k \in j..(Len(name) + 1) : k \in Spots(name)
      BY <1>1 DEF Spots
    <3>2. <<i, j>> \in M <=> \E k \in j..(Len(name) + 1) : <<i + 1, k>> \in M
      BY <1>3 DEF Literal
    <3> QED BY <3>1, <3>2
  <2>3. \A k \in j..(Len(name) + 1) :
           <<i + 1, k>> \in M <=> \E f : Begun(f, q, name, i + 1, k)
    BY <1>3, <2>2
  <2>4. ASSUME NEW k \in j..(Len(name) + 1), NEW f, Begun(f, q, name, i + 1, k)
        PROVE  Begun(f, q, name, i, j)
    <3>1. Laid(f, q, name, i + 1, k)
      BY <2>4 DEF Begun
    <3>2. Laid(f, q, name, i + 1, j)
      BY <2>1, <3>1, LaidBefore
    <3>3. Laid(f, q, name, i, j)
      BY <2>1, <3>2 DEF Laid
    <3> QED BY <2>1, <3>3 DEF Begun
  <2>5. ASSUME NEW f, Begun(f, q, name, i, j)
        PROVE  \E k \in j..(Len(name) + 1) : Begun(f, q, name, i + 1, k)
    <3>1. Laid(f, q, name, i, j)
      BY <2>5 DEF Begun
    <3>2. Laid(f, q, name, i + 1, j)
      BY <2>1, <3>1 DEF Laid
    <3> QED BY <2>1, <3>2, BeginsSomewhere
  <2> HIDE DEF T
  <2> QED BY <2>2, <2>3, <2>4, <2>5
<1>4. ASSUME NEW i \in 1..Len(q), i + 1 \in T, NEW j \in Spots(name), q[i] # Star
      PROVE  <<i, j>> \in M <=> \E f : Begun(f, q, name, i, j)
  <2> DEFINE D == Kept(q, i + 1)
  <2>1. /\ Kept(q, i) = D \cup {i} /\ i \in Kept(q, i) /\ i + 1 \in Spots(q) /\ i \in Nat
        /\ \A x \in D : x \in Nat /\ x > i
        /\ i + 1 \in Kept(q, i) <=> i + 1 \in D
    <3>1. i + 1 # i
      BY <1>1
    <3> QED BY <1>4, <3>1, KeptNext
  <2>2. <<i, j>> \in M <=> /\ j <= Len(name) /\ Lower[q[i]] = Lower[name[j]]
                           /\ <<i + 1, j + 1>> \in M
    BY <1>4 DEF Literal
  <2>3. j \in Nat /\ (j <= Len(name) => j + 1 \in Spots(name) /\ j \in j..Len(name))
    BY <1>1 DEF Spots
  <2>4. j <= Len(name) =>
          (<<i + 1, j + 1>> \in M <=> \E f : Begun(f, q, name, i + 1, j + 1))
    BY <1>4, <2>3
  <2> HIDE DEF T, D
  <2>5. ASSUME j <= Len(name), Lower[q[i]] = Lower[name[j]],
               NEW g, Begun(g, q, name, i + 1, j + 1)
        PROVE  \E f : Begun(f, q, name, i, j)
    <3>1. PICK f : f = [x \in D \cup {i} |-> IF x = i THEN j ELSE g[x]]
      OBVIOUS
    <3>2. f[i] = j /\ \A x \in D : f[x] = g[x]
      BY <2>1, <3>1
    <3>3. /\ g \in [D -> (j + 1)..Len(name)]
          /\ \A x \in D : Lower[q[x]] = Lower[name[g[x]]]
          /\ \A x, y \in D : x < y => IF y = x + 1 THEN g[y] = g[x] + 1 ELSE g[x] < g[y]
          /\ i + 1 \in D => g[i + 1] = j + 1
      BY <2>5 DEF Begun, Laid, D
    <3>4. \A x \in D : f[x] \in j..Len(name) /\ f[x] \in Nat /\ f[x] > j
      <4>1. \A x \in D : g[x] \in (j + 1)..Len(name)
        BY <3>3
      <4>2. \A n \in (j + 1)..Len(name) : n \in j..Len(name) /\ n \in Nat /\ n > j
        BY <1>1, <2>3
      <4> QED BY <3>2, <4>1, <4>2
    <3>5. f \in [D \cup {i} -> j..Len(name)]
      BY <2>3, <2>5, <3>1, <3>2, <3>4
    <3>6. \A x \in D \cup {i} : Lower[q[x]] = Lower[name[f[x]]]
      BY <2>5, <3>2, <3>3
    <3>7. ASSUME NEW x \in D \cup {i}, NEW y \in D \cup {i}, x < y
          PROVE  IF y = x + 1 THEN f[y] = f[x] + 1 ELSE f[x] < f[y]
      <4>1. y \in D
        BY <2>1, <3>7
      <4>2. CASE x \in D
        BY <3>2, <3>3, <3>7, <4>1, <4>2
      <4>3. CASE x = i
        BY <2>3, <3>2, <3>3, <3>4, <4>1, <4>3
      <4> QED BY <4>2, <4>3
    <3>8. Laid(f, q, name, i, j)
      BY <2>1, <3>5, <3>6, <3>7 DEF Laid
    <3> QED BY <3>2, <3>8 DEF Begun
  <2>6. ASSUME NEW f, Begun(f, q, name, i, j)
        PROVE  /\ j <= Len(name) /\ Lower[q[i]] = Lower[name[j]]
               /\ \E g : Begun(g, q, name, i + 1, j + 1)
    <3>1. /\ f \in [D \cup {i} -> j..Len(name)] /\ f[i] = j
          /\ \A x \in D \cup {i} : Lower[q[x]] = Lower[name[f[x]]]
          /\ \A x, y \in D \cup {i} :
               x < y => IF y = x + 1 THEN f[y] = f[x] + 1 ELSE f[x] < f[y]
      BY <2>1, <2>6 DEF Begun, Laid
    <3>2. j <= Len(name) /\ Lower[q[i]] = Lower[name[j]]
      <4>1. f[i] \in j..Len(name)
        BY <3>1
      <4> QED BY <1>1, <2>3, <3>1, <4>1
    <3>3. PICK g : g = [x \in D |-> f[x]]
      OBVIOUS
    <3>4. ASSUME NEW x \in D PROVE f[x] \in (j + 1)..Len(name)
      <4>1. x > i /\ x \in Nat /\ f[x] \in j..Len(name)
        BY <2>1, <3>1
      <4>2. IF x = i + 1 THEN f[x] = f[i] + 1 ELSE f[i] < f[x]
        BY <2>1, <3>1, <4>1
      <4> QED BY <1>1, <2>3, <3>1, <4>1, <4>2
    <3>5. g \in [D -> (j + 1)..Len(name)]
      BY <3>3, <3>4
    <3>6. /\ \A x \in D : Lower[q[x]] = Lower[name[g[x]]]
          /\ \A x, y \in D : x < y => IF y = x + 1 THEN g[y] = g[x] + 1 ELSE g[x] < g[y]
      BY <3>1, <3>3
    <3>7. i + 1 \in D => g[i + 1] = j + 1
      BY <2>1, <3>1, <3>3
    <3>8. Begun(g, q, name, i + 1, j + 1)
      BY <3>5, <3>6, <3>7 DEF Begun, Laid, D
    <3> QED BY <3>2, <3>8
  <2> QED BY <2>2, <2>4, <2>5, <2>6
<1>5. ASSUME NEW i \in Spots(q), \A k \in Spots(q) : k > i => k \in T PROVE i \in T
  <2>1. CASE i = Len(q) + 1
    <3>1. \A j \in Spots(name) : <<i, j>> \in M
      BY <2>1 DEF Literal
    <3> QED BY <1>2, <2>1, <3>1
  <2>2. CASE i # Len(q) + 1
    <3>1. i \in 1..Len(q) /\ i + 1 \in Spots(q) /\ i + 1 > i
      BY <1>1, <2>2 DEF Spots
    <3>2. i + 1 \in T
      <4> HIDE DEF T
      <4> QED BY <1>5, <3>1
    <3>3. \A j \in Spots(name) : <<i, j>> \in M <=> \E f : Begun(f, q, name, i, j)
      <4> HIDE DEF T
      <4> QED BY <1>3, <1>4, <3>1, <3>2
    <3> QED BY <3>3
  <2> QED BY <2>1, <2>2
<1>6. Spots(q) \subseteq T
  <2> HIDE DEF T
  <2> QED BY <1>5, BackwardInduction
<1> QED BY <1>6

\* A name is LIKE the pattern of a query exactly if it holds the text of it.
LEMMA LikeIsLiteral ==
  ASSUME NEW q \in Seq(Characters), NEW name \in Seq(Characters)
  PROVE  Like(ToLikePattern(q), name) <=> \E f : Laid(f, q, name, 1, 1)
<1>1. PICK M : /\ Literal(M, q, name)
               /\ Like(ToLikePattern(q), name) <=> \E k \in Spots(name) : <<1, k>> \in M
  BY Searching
<1>2. /\ 1 \in Spots(q) /\ 1 \in Spots(name)
      /\ \A k \in Spots(name) : k \in 1..(Len(name) + 1)
      /\ \A k \in 1..(Len(name) + 1) : k \in Spots(name)
  BY DEF Spots
<1>3. \A k \in Spots(name) : <<1, k>> \in M <=> \E f : Begun(f, q, name, 1, k)
  BY <1>1, <1>2, Embedding
<1>4. ASSUME NEW k \in Spots(name), NEW f, Begun(f, q, name, 1, k)
      PROVE  Laid(f, q, name, 1, 1)
  <2>1. Laid(f, q, name, 1, k)
    BY <1>4 DEF Begun
  <2> QED BY <1>2, <2>1, LaidBefore
<1>5. ASSUME NEW f, Laid(f, q, name, 1, 1)
      PROVE  \E k \in Spots(name) : Begun(f, q, name, 1, k)
  BY <1>2, <1>5, BeginsSomewhere
<1> QED BY <1>1, <1>3, <1>4, <1>5
==============================================================================
