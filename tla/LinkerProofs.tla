---------------------------- MODULE LinkerProofs ----------------------------
(* What is compiled and what is linked describes its code.                 *)
EXTENDS Linker, FiniteSetTheorems, SequenceTheorems, WellFoundedInduction, TLAPS

-----------------------------------------------------------------------------
(* Induction.  The theorems of the library on it take a predicate, these a *)
(* set.                                                                    *)

LEMMA LeastElement ==
  ASSUME NEW S \in SUBSET Nat, S # {}
  PROVE  \E x \in S : \A y \in S : x <= y
<1> DEFINE R == OpToRel(<, Nat)
<1>1. IsWellFoundedOn(R, Nat) BY NatLessThanWellFounded, Zenon
<1>2. PICK x \in S : \A y \in S : <<y, x>> \notin R
  <2> HIDE DEF R
  <2> QED BY <1>1, WFMin, Zenon
<1>3. ASSUME NEW y \in S PROVE x <= y
  <2>1. <<y, x>> \notin R BY <1>2, Zenon
  <2>2. x \in Nat /\ y \in Nat OBVIOUS
  <2>3. ~(y < x) BY <2>1, <2>2, Zenon DEF OpToRel
  <2> QED BY <2>2, <2>3
<1> QED BY <1>3

LEMMA SetInduction ==
  ASSUME NEW P \in SUBSET Nat, 0 \in P, \A n \in P : n + 1 \in P
  PROVE  P = Nat
<1> SUFFICES ASSUME NEW z \in Nat \ P PROVE FALSE OBVIOUS
<1>1. PICK x \in Nat \ P : \A y \in Nat \ P : x <= y BY LeastElement
<1>2. x # 0 /\ x - 1 \in Nat /\ x - 1 \notin Nat \ P BY <1>1
<1>3. x - 1 \in P BY <1>2
<1>4. (x - 1) + 1 \in P BY <1>3
<1> QED BY <1>1, <1>4

Recursion(f, T, a, L, D) ==
  /\ f \in [0..L -> T] /\ f[0] = a
  /\ \A i \in 1..L : f[i] = D[i][f[i - 1]]

(* A function that is defined by recursion exists. *)
LEMMA RecursionExists ==
  ASSUME NEW T, NEW a \in T, NEW L \in Nat, NEW D \in [1..L -> [T -> T]]
  PROVE  \E f : Recursion(f, T, a, L, D)
<1> DEFINE Is(f, n) == f[0] = a /\ \A i \in 1..n : f[i] = D[i][f[i - 1]]
           P == {n \in Nat : n <= L => \E f \in [0..n -> T] : Is(f, n)}
<1>1. 0 \in P
  <2>1. [i \in 0..0 |-> a] \in [0..0 -> T] /\ Is([i \in 0..0 |-> a], 0) OBVIOUS
  <2> QED BY <2>1
<1>2. ASSUME NEW n \in P PROVE n + 1 \in P
  <2> SUFFICES ASSUME n + 1 <= L
               PROVE  \E f \in [0..n + 1 -> T] : Is(f, n + 1)
    OBVIOUS
  <2>1. PICK f \in [0..n -> T] : Is(f, n) OBVIOUS
  <2> DEFINE b == D[n + 1][f[n]]
             g == [i \in 0..n + 1 |-> IF i = n + 1 THEN b ELSE f[i]]
  <2>2. b \in T
    <3>1. f[n] \in T /\ n + 1 \in 1..L OBVIOUS
    <3> QED BY <3>1
  <2>3. g \in [0..n + 1 -> T] BY <2>2
  <2>4. \A i \in 0..n : g[i] = f[i] OBVIOUS
  <2>5. g[n + 1] = b OBVIOUS
  <2> HIDE DEF g
  <2>6. g[0] = a BY <2>1, <2>4
  <2>7. ASSUME NEW i \in 1..n + 1 PROVE g[i] = D[i][g[i - 1]]
    <3>1. CASE i = n + 1
      <4>1. i - 1 = n /\ n \in 0..n BY <3>1
      <4>2. g[i - 1] = f[n] BY <4>1, <2>4, Zenon
      <4> QED BY <3>1, <4>2, <2>5, Zenon
    <3>2. CASE i \in 1..n
      <4>1. g[i] = f[i] /\ g[i - 1] = f[i - 1] BY <3>2, <2>4
      <4> QED BY <3>2, <4>1, <2>1
    <3> QED BY <3>1, <3>2
  <2> QED BY <2>3, <2>6, <2>7
<1>3. P \in SUBSET Nat OBVIOUS
<1> HIDE DEF P
<1>4. P = Nat BY <1>1, <1>2, <1>3, SetInduction, Zenon
<1>5. L \in P BY <1>4
<1>6. \E f \in [0..L -> T] : Is(f, L) BY <1>5 DEF P
<1> QED BY <1>6 DEF Recursion

LEMMA SumToFacts ==
  ASSUME NEW s \in Seq(Nat)
  PROVE  /\ SumTo(s, 0) = 0
         /\ \A n \in 1..Len(s) : SumTo(s, n) = SumTo(s, n - 1) + s[n]
         /\ \A n \in 0..Len(s) : SumTo(s, n) \in Nat
<1> DEFINE L == Len(s)
           D == [i \in 1..L |-> [x \in Nat |-> x + s[i]]]
           Is(f) == f = [i \in 0..L |-> IF i = 0 THEN 0 ELSE f[i - 1] + s[i]]
           sum == CHOOSE f : Is(f)
<1>1. L \in Nat /\ \A i \in 1..L : s[i] \in Nat OBVIOUS
<1>2. D \in [1..L -> [Nat -> Nat]] BY <1>1
<1>3. \A i \in 1..L, x \in Nat : D[i][x] = x + s[i] OBVIOUS
<1> HIDE DEF D, L
<1>4. PICK f : Recursion(f, Nat, 0, L, D)
  <2>1. 0 \in Nat OBVIOUS
  <2> QED BY <1>1, <1>2, <2>1, RecursionExists, Zenon
<1>5. Is(f)
  <2>1. ASSUME NEW i \in 1..L PROVE f[i] = f[i - 1] + s[i]
    <3>1. f[i - 1] \in Nat BY <1>1, <1>4 DEF Recursion
    <3> QED BY <1>3, <1>4, <3>1, Zenon DEF Recursion
  <2>2. f \in [0..L -> Nat] /\ f[0] = 0 BY <1>4 DEF Recursion
  <2>3. \A i \in 0..L : i = 0 \/ i \in 1..L BY <1>1
  <2>4. \A i \in 0..L : f[i] = IF i = 0 THEN 0 ELSE f[i - 1] + s[i]
    BY <2>1, <2>2, <2>3, Zenon
  <2> QED BY <2>2, <2>4
<1>6. Is(sum) BY <1>5, Zenon
<1>7. \A n : SumTo(s, n) = sum[n] BY Zenon DEF SumTo, L
<1> HIDE DEF sum
<1>8. sum[0] = 0 /\ \A i \in 1..L : sum[i] = sum[i - 1] + s[i] BY <1>1, <1>6
<1> DEFINE P == {n \in Nat : n <= L => sum[n] \in Nat}
<1>9. 0 \in P BY <1>8
<1>10. ASSUME NEW n \in P, n + 1 <= L PROVE sum[n + 1] \in Nat
  <2>1. n + 1 \in 1..L /\ (n + 1) - 1 = n /\ sum[n] \in Nat BY <1>1, <1>10
  <2>2. sum[n + 1] = sum[n] + s[n + 1] BY <2>1, <1>8
  <2> QED BY <2>1, <2>2, <1>1
<1>11. \A n \in P : n + 1 \in P BY <1>10
<1>12. P \in SUBSET Nat OBVIOUS
<1>13. P = Nat BY <1>9, <1>11, <1>12, SetInduction, Zenon
<1>14. ASSUME NEW n \in 0..L PROVE sum[n] \in Nat
  <2>1. n \in P /\ n <= L BY <1>1, <1>13
  <2> QED BY <2>1
<1> QED BY <1>7, <1>8, <1>14 DEF L

LEMMA ConcatToFacts ==
  ASSUME NEW A, NEW ss \in Seq(Seq(A))
  PROVE  /\ ConcatTo(ss, 0) = <<>>
         /\ \A n \in 1..Len(ss) : ConcatTo(ss, n) = ConcatTo(ss, n - 1) \o ss[n]
         /\ \A n \in 0..Len(ss) : ConcatTo(ss, n) \in Seq(A)
<1> DEFINE L == Len(ss)
           T == Seq(A)
           D == [i \in 1..L |-> [x \in T |-> x \o ss[i]]]
           Is(f) == f = [i \in 0..L |-> IF i = 0 THEN <<>> ELSE f[i - 1] \o ss[i]]
           concat == CHOOSE f : Is(f)
<1>1. L \in Nat /\ \A i \in 1..L : ss[i] \in T OBVIOUS
<1>2. <<>> \in T /\ \A x, y \in T : x \o y \in T BY EmptySeq, ConcatProperties
<1>3. \A i \in 1..L, x \in T : D[i][x] = x \o ss[i] OBVIOUS
<1> HIDE DEF T
<1>4. D \in [1..L -> [T -> T]] BY <1>1, <1>2
<1> HIDE DEF D, L
<1>5. PICK f : Recursion(f, T, <<>>, L, D)
  BY <1>1, <1>2, <1>4, RecursionExists, Zenon
<1>6. Is(f)
  <2>1. ASSUME NEW i \in 1..L PROVE f[i] = f[i - 1] \o ss[i]
    <3>1. i - 1 \in 0..L BY <1>1
    <3>2. f[i - 1] \in T BY <3>1, <1>5, Zenon DEF Recursion
    <3> QED BY <1>3, <1>5, <3>2, Zenon DEF Recursion
  <2>2. f \in [0..L -> T] /\ f[0] = <<>> BY <1>5, Zenon DEF Recursion
  <2>3. \A i \in 0..L : i = 0 \/ i \in 1..L BY <1>1
  <2>4. \A i \in 0..L : f[i] = IF i = 0 THEN <<>> ELSE f[i - 1] \o ss[i]
    BY <2>1, <2>2, <2>3, Zenon
  <2> QED BY <2>2, <2>4, Zenon
<1>7. Is(concat) BY <1>6, Zenon
<1>8. \A n : ConcatTo(ss, n) = concat[n] BY Zenon DEF ConcatTo, L
<1> HIDE DEF concat
<1>9. concat[0] = <<>> /\ \A i \in 1..L : concat[i] = concat[i - 1] \o ss[i]
  <2>1. \A i \in 0..L : concat[i] = IF i = 0 THEN <<>> ELSE concat[i - 1] \o ss[i]
    BY <1>7, Zenon
  <2>2. 0 \in 0..L /\ \A i \in 1..L : i \in 0..L /\ i # 0 BY <1>1
  <2> QED BY <2>1, <2>2, Zenon
<1> DEFINE P == {n \in Nat : n <= L => concat[n] \in T}
<1>10. 0 \in P BY <1>2, <1>9
<1>11. ASSUME NEW n \in P, n + 1 <= L PROVE concat[n + 1] \in T
  <2>1. n + 1 \in 1..L /\ (n + 1) - 1 = n /\ concat[n] \in T BY <1>1, <1>11
  <2>2. concat[n + 1] = concat[n] \o ss[n + 1] BY <2>1, <1>9, Zenon
  <2> QED BY <2>1, <2>2, <1>1, <1>2, Zenon
<1>12. \A n \in P : n + 1 \in P BY <1>11
<1>13. P \in SUBSET Nat OBVIOUS
<1>14. P = Nat BY <1>10, <1>12, <1>13, SetInduction, Zenon
<1>15. ASSUME NEW n \in 0..L PROVE concat[n] \in T
  <2>1. n \in P /\ n <= L BY <1>1, <1>14
  <2> QED BY <2>1
<1> QED BY <1>8, <1>9, <1>15, Zenon DEF L, T

(* Sums of sizes grow, and a part lies within the whole. *)
LEMMA SumGrows ==
  ASSUME NEW s \in Seq(Nat), NEW m \in 0..Len(s), NEW n \in 0..Len(s), m <= n
  PROVE  SumTo(s, m) <= SumTo(s, n)
<1> DEFINE P == {d \in Nat : m + d <= Len(s) => SumTo(s, m) <= SumTo(s, m + d)}
<1>1. Len(s) \in Nat /\ m \in Nat /\ n \in Nat OBVIOUS
<1>2. 0 \in P
  <2>1. SumTo(s, m) \in Nat /\ m + 0 = m BY SumToFacts
  <2> QED BY <2>1
<1>3. ASSUME NEW d \in P, m + (d + 1) <= Len(s)
      PROVE  SumTo(s, m) <= SumTo(s, m + (d + 1))
  <2> DEFINE k == m + (d + 1)
  <2>1. k \in 1..Len(s) /\ k - 1 = m + d /\ m + d \in 0..Len(s) BY <1>1, <1>3
  <2>2. SumTo(s, m) <= SumTo(s, m + d) BY <2>1
  <2>3. SumTo(s, k) = SumTo(s, k - 1) + s[k] BY <2>1, SumToFacts, Zenon
  <2>4. s[k] \in Nat BY <2>1
  <2>5. SumTo(s, m) \in Nat /\ SumTo(s, m + d) \in Nat BY <2>1, SumToFacts
  <2> HIDE DEF k
  <2>6. SumTo(s, m) <= SumTo(s, k) BY <2>1, <2>2, <2>3, <2>4, <2>5
  <2> QED BY <2>6 DEF k
<1>4. \A d \in P : d + 1 \in P BY <1>3
<1>5. P \in SUBSET Nat OBVIOUS
<1>6. P = Nat BY <1>2, <1>4, <1>5, SetInduction, Zenon
<1>7. n - m \in Nat /\ m + (n - m) = n /\ n <= Len(s) BY <1>1
<1>8. n - m \in P BY <1>6, <1>7, Zenon
<1> QED BY <1>7, <1>8, Zenon

(* Sums and rows depend on what they add up only. *)
LEMMA SumToSame ==
  ASSUME NEW s \in Seq(Nat), NEW t \in Seq(Nat), NEW n \in Nat,
         n <= Len(s), n <= Len(t), \A i \in 1..n : s[i] = t[i]
  PROVE  SumTo(s, n) = SumTo(t, n)
<1> DEFINE P == {k \in Nat : k <= n => SumTo(s, k) = SumTo(t, k)}
<1>1. 0 \in P BY SumToFacts
<1>2. ASSUME NEW k \in P, k + 1 <= n PROVE SumTo(s, k + 1) = SumTo(t, k + 1)
  <2>1. k + 1 \in 1..Len(s) /\ k + 1 \in 1..Len(t) /\ (k + 1) - 1 = k
        /\ k + 1 \in 1..n /\ SumTo(s, k) = SumTo(t, k)
    BY <1>2
  <2>2. SumTo(s, k + 1) = SumTo(s, k) + s[k + 1] BY <2>1, SumToFacts
  <2>3. SumTo(t, k + 1) = SumTo(t, k) + t[k + 1] BY <2>1, SumToFacts
  <2> QED BY <2>1, <2>2, <2>3, Zenon
<1>3. \A k \in P : k + 1 \in P BY <1>2
<1>4. P \in SUBSET Nat OBVIOUS
<1>5. P = Nat BY <1>1, <1>3, <1>4, SetInduction, Zenon
<1> QED BY <1>5

LEMMA ConcatToSame ==
  ASSUME NEW A, NEW ss \in Seq(Seq(A)), NEW tt \in Seq(Seq(A)), NEW n \in Nat,
         n <= Len(ss), n <= Len(tt), \A i \in 1..n : ss[i] = tt[i]
  PROVE  ConcatTo(ss, n) = ConcatTo(tt, n)
<1> DEFINE P == {k \in Nat : k <= n => ConcatTo(ss, k) = ConcatTo(tt, k)}
<1>1. 0 \in P BY ConcatToFacts, Zenon
<1>2. ASSUME NEW k \in P, k + 1 <= n PROVE ConcatTo(ss, k + 1) = ConcatTo(tt, k + 1)
  <2>1. k + 1 \in 1..Len(ss) /\ k + 1 \in 1..Len(tt) /\ (k + 1) - 1 = k
        /\ k + 1 \in 1..n /\ ConcatTo(ss, k) = ConcatTo(tt, k)
    BY <1>2
  <2>2. ConcatTo(ss, k + 1) = ConcatTo(ss, k) \o ss[k + 1] BY <2>1, ConcatToFacts, Zenon
  <2>3. ConcatTo(tt, k + 1) = ConcatTo(tt, k) \o tt[k + 1] BY <2>1, ConcatToFacts, Zenon
  <2> QED BY <2>1, <2>2, <2>3, Zenon
<1>3. \A k \in P : k + 1 \in P BY <1>2
<1>4. P \in SUBSET Nat OBVIOUS
<1>5. P = Nat BY <1>1, <1>3, <1>4, SetInduction, Zenon
<1> QED BY <1>5

(* A function on the first numbers is a sequence. *)
LEMMA FunctionSeq ==
  ASSUME NEW T, NEW n \in Nat, NEW f \in [1..n -> T]
  PROVE  f \in Seq(T) /\ Len(f) = n /\ DOMAIN f = 1..n
<1>1. f \in Seq(T) BY SeqDef
<1>2. DOMAIN f = 1..n OBVIOUS
<1> QED BY <1>1, <1>2

(* Two sequences in a row, with the places of both counted from 1. *)
Joined(A, a, b) ==
  /\ a \o b \in Seq(A) /\ Len(a \o b) = Len(a) + Len(b)
  /\ \A i \in 1..Len(a) : (a \o b)[i] = a[i]
  /\ \A i \in 1..Len(b) : (a \o b)[Len(a) + i] = b[i]

LEMMA JoinFacts ==
  ASSUME NEW A, NEW a \in Seq(A), NEW b \in Seq(A)
  PROVE  Joined(A, a, b)
<1>1. /\ a \o b \in Seq(A) /\ Len(a \o b) = Len(a) + Len(b)
      /\ \A i \in 1..Len(a) + Len(b) :
           (a \o b)[i] = IF i <= Len(a) THEN a[i] ELSE b[i - Len(a)]
  BY ConcatProperties, Zenon
<1>2. Len(a) \in Nat /\ Len(b) \in Nat OBVIOUS
<1>3. ASSUME NEW i \in 1..Len(a) PROVE (a \o b)[i] = a[i]
  <2>1. i \in 1..Len(a) + Len(b) /\ i <= Len(a) BY <1>2
  <2> QED BY <1>1, <2>1, Zenon
<1>4. ASSUME NEW i \in 1..Len(b) PROVE (a \o b)[Len(a) + i] = b[i]
  <2>1. /\ Len(a) + i \in 1..Len(a) + Len(b)
        /\ ~(Len(a) + i <= Len(a)) /\ (Len(a) + i) - Len(a) = i
    BY <1>2
  <2> QED BY <1>1, <2>1, Zenon
<1> QED BY <1>1, <1>3, <1>4, Zenon DEF Joined

JoinsAsRow(A, a, b, c) == (a \o b) \o c = a \o (b \o c)

LEMMA JoinThree ==
  ASSUME NEW A, NEW a \in Seq(A), NEW b \in Seq(A), NEW c \in Seq(A)
  PROVE  JoinsAsRow(A, a, b, c)
BY ConcatAssociative DEF JoinsAsRow

LEMMA JoinIs ==
  ASSUME NEW A, NEW a \in Seq(A), NEW b \in Seq(A), NEW c \in Seq(A),
         Len(c) = Len(a) + Len(b),
         \A i \in 1..Len(a) : c[i] = a[i],
         \A i \in 1..Len(b) : c[Len(a) + i] = b[i]
  PROVE  c = a \o b
<1>1. /\ a \o b \in Seq(A) /\ Len(a \o b) = Len(a) + Len(b)
      /\ \A i \in 1..Len(a) : (a \o b)[i] = a[i]
      /\ \A i \in 1..Len(b) : (a \o b)[Len(a) + i] = b[i]
  <2>1. Joined(A, a, b) BY JoinFacts, Zenon
  <2> QED BY <2>1, Zenon DEF Joined
<1>2. Len(a) \in Nat /\ Len(b) \in Nat OBVIOUS
<1>3. ASSUME NEW i \in 1..Len(c) PROVE c[i] = (a \o b)[i]
  <2>1. i \in 1..Len(a) \/ (i - Len(a) \in 1..Len(b) /\ Len(a) + (i - Len(a)) = i)
    BY <1>2
  <2> QED BY <1>1, <2>1, Zenon
<1>4. Len(c) = Len(a \o b) BY <1>1, Zenon
<1> QED BY <1>1, <1>3, <1>4, SeqEqual, Zenon

LEMMA LensFacts ==
  ASSUME NEW A, NEW ss \in Seq(Seq(A))
  PROVE  /\ Lens(ss) \in Seq(Nat) /\ Len(Lens(ss)) = Len(ss)
         /\ \A k \in 1..Len(ss) : Lens(ss)[k] = Len(ss[k])
<1>1. Len(ss) \in Nat /\ DOMAIN ss = 1..Len(ss) OBVIOUS
<1>2. \A k \in 1..Len(ss) : Len(ss[k]) \in Nat OBVIOUS
<1>3. Lens(ss) \in [1..Len(ss) -> Nat] BY <1>1, <1>2, Zenon DEF Lens
<1>4. \A k \in 1..Len(ss) : Lens(ss)[k] = Len(ss[k]) BY <1>1, Zenon DEF Lens
<1> QED BY <1>1, <1>3, <1>4, FunctionSeq, Zenon

LEMMA ConcatToLen ==
  ASSUME NEW A, NEW ss \in Seq(Seq(A)), NEW n \in 0..Len(ss)
  PROVE  Len(ConcatTo(ss, n)) = SumTo(Lens(ss), n)
<1> DEFINE P == {k \in Nat : k <= Len(ss) => Len(ConcatTo(ss, k)) = SumTo(Lens(ss), k)}
<1>0. Len(ss) \in Nat /\ n \in Nat OBVIOUS
<1>1. 0 \in P
  <2>1. ConcatTo(ss, 0) = <<>> BY ConcatToFacts, Zenon
  <2>2. SumTo(Lens(ss), 0) = 0 BY LensFacts, SumToFacts, Zenon
  <2> QED BY <2>1, <2>2
<1>2. ASSUME NEW k \in P, k + 1 <= Len(ss)
      PROVE  Len(ConcatTo(ss, k + 1)) = SumTo(Lens(ss), k + 1)
  <2>1. k + 1 \in 1..Len(ss) /\ (k + 1) - 1 = k /\ k \in 0..Len(ss)
        /\ Len(ConcatTo(ss, k)) = SumTo(Lens(ss), k)
    BY <1>0, <1>2
  <2>2. ConcatTo(ss, k + 1) = ConcatTo(ss, k) \o ss[k + 1] BY <2>1, ConcatToFacts, Zenon
  <2>3. ConcatTo(ss, k) \in Seq(A) BY <2>1, ConcatToFacts, Zenon
  <2>4. ss[k + 1] \in Seq(A) BY <2>1
  <2>5. Len(ConcatTo(ss, k) \o ss[k + 1]) = Len(ConcatTo(ss, k)) + Len(ss[k + 1])
    BY <2>3, <2>4, ConcatProperties, Zenon
  <2>6. SumTo(Lens(ss), k + 1) = SumTo(Lens(ss), k) + Len(ss[k + 1])
    <3>1. Lens(ss) \in Seq(Nat) /\ k + 1 \in 1..Len(Lens(ss))
          /\ Lens(ss)[k + 1] = Len(ss[k + 1])
      BY <2>1, LensFacts, Zenon
    <3> QED BY <2>1, <3>1, SumToFacts, Zenon
  <2> QED BY <2>1, <2>2, <2>5, <2>6, Zenon
<1>3. \A k \in P : k + 1 \in P BY <1>2
<1>4. P \in SUBSET Nat OBVIOUS
<1>5. P = Nat BY <1>1, <1>3, <1>4, SetInduction, Zenon
<1> QED BY <1>0, <1>5

(* What a row holds in its places, and where each part of it begins. *)
LEMMA ConcatToAt ==
  ASSUME NEW A, NEW ss \in Seq(Seq(A)), NEW n \in 0..Len(ss),
         NEW k \in 1..n, NEW i \in 1..Len(ss[k])
  PROVE  /\ SumBefore(Lens(ss), k) + i \in 1..Len(ConcatTo(ss, n))
         /\ ConcatTo(ss, n)[SumBefore(Lens(ss), k) + i] = ss[k][i]
<1> DEFINE p == SumBefore(Lens(ss), k) + i
           Is(m) == p \in 1..Len(ConcatTo(ss, m)) /\ ConcatTo(ss, m)[p] = ss[k][i]
           P == {d \in Nat : k + d <= Len(ss) => Is(k + d)}
<1>1. /\ Len(ss) \in Nat /\ n \in Nat /\ k \in 1..Len(ss) /\ n <= Len(ss) /\ k <= n
      /\ ss[k] \in Seq(A) /\ Len(ss[k]) \in Nat
  OBVIOUS
<1>2. SumBefore(Lens(ss), k) \in Nat /\ p \in Nat
  <2>1. k - 1 \in 0..Len(ss) BY <1>1
  <2>2. SumTo(Lens(ss), k - 1) \in Nat BY <2>1, LensFacts, SumToFacts
  <2> QED BY <2>2 DEF SumBefore
<1>3. ASSUME NEW m \in 1..Len(ss)
      PROVE  /\ ConcatTo(ss, m - 1) \in Seq(A) /\ ss[m] \in Seq(A)
             /\ ConcatTo(ss, m) = ConcatTo(ss, m - 1) \o ss[m]
             /\ Len(ConcatTo(ss, m)) = Len(ConcatTo(ss, m - 1)) + Len(ss[m])
             /\ Len(ConcatTo(ss, m - 1)) = SumBefore(Lens(ss), m)
  <2>1. m - 1 \in 0..Len(ss) /\ ss[m] \in Seq(A) BY <1>1
  <2>2. ConcatTo(ss, m - 1) \in Seq(A) BY <2>1, ConcatToFacts, Zenon
  <2>3. ConcatTo(ss, m) = ConcatTo(ss, m - 1) \o ss[m] BY ConcatToFacts, Zenon
  <2>4. Len(ConcatTo(ss, m - 1)) = SumTo(Lens(ss), m - 1) BY <2>1, ConcatToLen, Zenon
  <2> QED BY <2>1, <2>2, <2>3, <2>4, ConcatProperties, Zenon DEF SumBefore
<1> HIDE DEF p
<1>4. 0 \in P
  <2>1. p = Len(ConcatTo(ss, k - 1)) + i BY <1>1, <1>3, Zenon DEF p
  <2>2. ConcatTo(ss, k) = ConcatTo(ss, k - 1) \o ss[k]
        /\ ConcatTo(ss, k - 1) \in Seq(A)
    BY <1>1, <1>3, Zenon
  <2>3. Is(k)
    <3> DEFINE c == ConcatTo(ss, k - 1)
    <3>1. Len(c) \in Nat BY <2>2, LenProperties, Zenon
    <3>2. Len(c \o ss[k]) = Len(c) + Len(ss[k])
          /\ \A j \in 1..Len(c) + Len(ss[k]) :
               (c \o ss[k])[j] = IF j <= Len(c) THEN c[j] ELSE ss[k][j - Len(c)]
      BY <1>1, <2>2, ConcatProperties, Zenon
    <3> HIDE DEF c
    <3>3. p \in 1..Len(c) + Len(ss[k]) /\ ~(p <= Len(c)) /\ p - Len(c) = i
      BY <1>1, <2>1, <3>1 DEF c
    <3> QED BY <2>2, <3>2, <3>3, Zenon DEF c
  <2>4. k + 0 = k BY <1>1
  <2> QED BY <2>3, <2>4
<1>5. ASSUME NEW d \in P, k + (d + 1) <= Len(ss) PROVE Is(k + (d + 1))
  <2> DEFINE m == k + (d + 1)
  <2>1. m \in 1..Len(ss) /\ m - 1 = k + d /\ k + d <= Len(ss) BY <1>1, <1>5
  <2>2. Is(m - 1) BY <2>1
  <2> HIDE DEF m
  <2> DEFINE c == ConcatTo(ss, m - 1)
  <2>3. ConcatTo(ss, m) = c \o ss[m] /\ c \in Seq(A) /\ ss[m] \in Seq(A)
    BY <2>1, <1>3, Zenon
  <2>4. Len(c \o ss[m]) = Len(c) + Len(ss[m])
        /\ \A j \in 1..Len(c) + Len(ss[m]) :
             (c \o ss[m])[j] = IF j <= Len(c) THEN c[j] ELSE ss[m][j - Len(c)]
    BY <2>3, ConcatProperties, Zenon
  <2>5. Len(c) \in Nat /\ Len(ss[m]) \in Nat BY <2>3, LenProperties, Zenon
  <2>6. p \in 1..Len(c) + Len(ss[m]) /\ p <= Len(c)
    <3>1. p \in 1..Len(c) BY <2>2
    <3> HIDE DEF c
    <3> QED BY <2>5, <3>1
  <2>7. Is(m) BY <2>2, <2>3, <2>4, <2>6, Zenon
  <2> QED BY <2>7 DEF m
<1>6. \A d \in P : d + 1 \in P BY <1>5
<1>7. P \in SUBSET Nat OBVIOUS
<1>8. P = Nat BY <1>4, <1>6, <1>7, SetInduction, Zenon
<1>9. n - k \in Nat /\ k + (n - k) = n BY <1>1
<1>10. n - k \in P BY <1>8, <1>9, Zenon
<1>11. Is(n) BY <1>1, <1>9, <1>10, Zenon
<1> QED BY <1>11 DEF p

(* Every place of a row is in one of its parts. *)
LEMMA ConcatToFinds ==
  ASSUME NEW A, NEW ss \in Seq(Seq(A)), NEW n \in 0..Len(ss),
         NEW p \in 1..Len(ConcatTo(ss, n))
  PROVE  \E k \in 1..n : \E i \in 1..Len(ss[k]) : p = SumBefore(Lens(ss), k) + i
<1> DEFINE At(m, q) ==
             \E k \in 1..m : \E i \in 1..Len(ss[k]) : q = SumBefore(Lens(ss), k) + i
           P == {m \in Nat : m <= Len(ss) =>
                               \A q \in 1..Len(ConcatTo(ss, m)) : At(m, q)}
<1>1. Len(ss) \in Nat /\ n \in Nat /\ n <= Len(ss) OBVIOUS
<1>2. 0 \in P
  <2>1. ConcatTo(ss, 0) = <<>> BY ConcatToFacts, Zenon
  <2>2. Len(<<>>) = 0 OBVIOUS
  <2>3. \A q \in 1..Len(ConcatTo(ss, 0)) : FALSE BY <2>1, <2>2
  <2> QED BY <2>3
<1>3. ASSUME NEW m \in P, m + 1 <= Len(ss), NEW q \in 1..Len(ConcatTo(ss, m + 1))
      PROVE  At(m + 1, q)
  <2> DEFINE c == ConcatTo(ss, m)
  <2>1. m + 1 \in 1..Len(ss) /\ (m + 1) - 1 = m /\ m \in 0..Len(ss) /\ m \in Nat
    BY <1>1, <1>3
  <2>2. ss[m + 1] \in Seq(A) BY <2>1
  <2>3. c \in Seq(A) /\ ConcatTo(ss, m + 1) = c \o ss[m + 1]
    BY <2>1, ConcatToFacts, Zenon
  <2>4. Len(c) = SumBefore(Lens(ss), m + 1)
    BY <2>1, ConcatToLen, Zenon DEF SumBefore
  <2>5. Len(ConcatTo(ss, m + 1)) = Len(c) + Len(ss[m + 1])
    BY <2>2, <2>3, ConcatProperties, Zenon
  <2>6. Len(c) \in Nat /\ Len(ss[m + 1]) \in Nat BY <2>2, <2>3, LenProperties, Zenon
  <2>7. CASE q <= Len(c)
    <3>1. q \in 1..Len(c) BY <2>7, <2>6, <1>3
    <3>2. At(m, q) BY <3>1, <2>1
    <3>3. \A k \in 1..m : k \in 1..m + 1 BY <2>1
    <3> QED BY <3>2, <3>3, Zenon
  <2>8. CASE ~(q <= Len(c))
    <3> DEFINE i == q - Len(c)
    <3>1. i \in 1..Len(ss[m + 1]) /\ q = Len(c) + i
      <4>1. \A x, y \in Nat : \A z \in 1..x + y :
              ~(z <= x) => z - x \in 1..y /\ z = x + (z - x)
        OBVIOUS
      <4>2. q \in 1..Len(c) + Len(ss[m + 1]) BY <2>5, <1>3, Zenon
      <4> QED BY <2>6, <2>8, <4>1, <4>2, Zenon
    <3>2. m + 1 \in 1..m + 1 BY <2>1
    <3> QED BY <3>1, <3>2, <2>4, Zenon
  <2> QED BY <2>7, <2>8
<1>4. \A m \in P : m + 1 \in P
  <2> SUFFICES ASSUME NEW m \in P PROVE m + 1 \in P OBVIOUS
  <2>1. m + 1 \in Nat OBVIOUS
  <2>2. m + 1 <= Len(ss) => \A q \in 1..Len(ConcatTo(ss, m + 1)) : At(m + 1, q)
    BY <1>3, Zenon
  <2> QED BY <2>1, <2>2, Zenon
<1>5. P \in SUBSET Nat OBVIOUS
<1>6. P = Nat BY <1>2, <1>4, <1>5, SetInduction, Zenon
<1>7. n \in P BY <1>1, <1>6, Zenon
<1> QED BY <1>1, <1>7, Zenon

(* The same for the whole row. *)
LEMMA ConcatAt ==
  ASSUME NEW A, NEW ss \in Seq(Seq(A)), NEW k \in 1..Len(ss), NEW i \in 1..Len(ss[k])
  PROVE  /\ SumBefore(Lens(ss), k) + i \in 1..Len(Concat(ss))
         /\ Concat(ss)[SumBefore(Lens(ss), k) + i] = ss[k][i]
<1>1. Len(ss) \in 0..Len(ss) OBVIOUS
<1> QED BY <1>1, ConcatToAt, Zenon DEF Concat

LEMMA ConcatFinds ==
  ASSUME NEW A, NEW ss \in Seq(Seq(A)), NEW p \in 1..Len(Concat(ss))
  PROVE  \E k \in 1..Len(ss) : \E i \in 1..Len(ss[k]) :
           p = SumBefore(Lens(ss), k) + i
<1>1. Len(ss) \in 0..Len(ss) OBVIOUS
<1>2. p \in 1..Len(ConcatTo(ss, Len(ss))) BY Zenon DEF Concat
<1> QED BY <1>1, <1>2, ConcatToFinds, Zenon

(* The row of two rows. *)
LEMMA ConcatTwo ==
  ASSUME NEW A, NEW ss \in Seq(Seq(A)), NEW tt \in Seq(Seq(A))
  PROVE  Concat(ss \o tt) = Concat(ss) \o Concat(tt)
<1> DEFINE L == Len(ss)
           M == Len(tt)
           all == ss \o tt
           P == {n \in Nat : n <= M =>
                   ConcatTo(all, L + n) = ConcatTo(ss, L) \o ConcatTo(tt, n)}
<1>1. L \in Nat /\ M \in Nat OBVIOUS
<1>2. /\ all \in Seq(Seq(A)) /\ Len(all) = L + M
      /\ \A i \in 1..L + M : all[i] = IF i <= L THEN ss[i] ELSE tt[i - L]
  BY ConcatProperties, Zenon
<1> HIDE DEF all
<1>3. 0 \in P
  <2>1. \A i \in 1..L : all[i] = ss[i] BY <1>1, <1>2
  <2>2. L <= Len(all) /\ L <= Len(ss) /\ L + 0 = L /\ L \in 0..Len(ss) BY <1>1, <1>2
  <2>3. ConcatTo(all, L) = ConcatTo(ss, L) BY <1>1, <1>2, <2>1, <2>2, ConcatToSame, Zenon
  <2>4. ConcatTo(ss, L) \in Seq(A) /\ ConcatTo(tt, 0) = <<>>
    BY <2>2, ConcatToFacts, Zenon
  <2>5. ConcatTo(ss, L) \o <<>> = ConcatTo(ss, L) BY <2>4, ConcatEmptySeq, Zenon
  <2>6. ConcatTo(all, L + 0) = ConcatTo(ss, L) \o ConcatTo(tt, 0)
    BY <2>2, <2>3, <2>4, <2>5, Zenon
  <2> QED BY <2>6
<1>4. ASSUME NEW n \in P, n + 1 <= M
      PROVE  ConcatTo(all, L + (n + 1)) = ConcatTo(ss, L) \o ConcatTo(tt, n + 1)
  <2> DEFINE k == L + (n + 1)
  <2>1. /\ k \in 1..Len(all) /\ k - 1 = L + n /\ k \in 1..L + M /\ ~(k <= L)
        /\ k - L = n + 1 /\ n + 1 \in 1..M /\ (n + 1) - 1 = n /\ n \in 0..M
        /\ L \in 0..L
    <3>1. n \in Nat OBVIOUS
    <3>2. Len(all) = L + M BY <1>2
    <3> HIDE DEF L, M, P
    <3> QED BY <1>1, <3>1, <3>2, <1>4
  <2>2. ConcatTo(all, L + n) = ConcatTo(ss, L) \o ConcatTo(tt, n) BY <1>1, <1>4
  <2>3. ConcatTo(all, k) = ConcatTo(all, k - 1) \o all[k]
    BY <2>1, <1>2, ConcatToFacts, Zenon
  <2>4. all[k] = tt[n + 1] BY <2>1, <1>2, Zenon
  <2>5. ConcatTo(tt, n + 1) = ConcatTo(tt, n) \o tt[n + 1]
    BY <2>1, ConcatToFacts, Zenon
  <2>6. ConcatTo(ss, L) \in Seq(A) /\ ConcatTo(tt, n) \in Seq(A)
    BY <2>1, ConcatToFacts, Zenon
  <2>7. tt[n + 1] \in Seq(A) BY <2>1
  <2> HIDE DEF k
  <2>8. ConcatTo(all, k) = (ConcatTo(ss, L) \o ConcatTo(tt, n)) \o tt[n + 1]
    BY <2>1, <2>2, <2>3, <2>4, Zenon
  <2>9. (ConcatTo(ss, L) \o ConcatTo(tt, n)) \o tt[n + 1] =
          ConcatTo(ss, L) \o (ConcatTo(tt, n) \o tt[n + 1])
    <3> DEFINE x == ConcatTo(ss, L)
               y == ConcatTo(tt, n)
               z == tt[n + 1]
    <3>1. x \in Seq(A) /\ y \in Seq(A) /\ z \in Seq(A) BY <2>6, <2>7
    <3> HIDE DEF x, y, z
    <3>2. JoinsAsRow(A, x, y, z) BY <3>1, JoinThree, Zenon
    <3> QED BY <3>2, Zenon DEF x, y, z, JoinsAsRow
  <2>10. ConcatTo(all, k) = ConcatTo(ss, L) \o ConcatTo(tt, n + 1)
    BY <2>5, <2>8, <2>9, Zenon
  <2> QED BY <2>10 DEF k
<1>5. \A n \in P : n + 1 \in P
  <2> SUFFICES ASSUME NEW n \in P PROVE n + 1 \in P OBVIOUS
  <2>1. n + 1 \in Nat OBVIOUS
  <2> QED BY <2>1, <1>4, Zenon
<1>6. P \in SUBSET Nat OBVIOUS
<1>7. P = Nat BY <1>3, <1>5, <1>6, SetInduction, Zenon
<1>8. M \in P BY <1>1, <1>7, Zenon
<1>9. M <= M BY <1>1
<1>10. ConcatTo(all, L + M) = ConcatTo(ss, L) \o ConcatTo(tt, M) BY <1>8, <1>9, Zenon
<1> QED BY <1>2, <1>10, Zenon DEF Concat, all

(* A row of nothing. *)
LEMMA ConcatNothing ==
  ASSUME NEW A, NEW ss \in Seq(Seq(A)), \A k \in 1..Len(ss) : ss[k] = <<>>
  PROVE  Concat(ss) = <<>>
<1> DEFINE P == {n \in Nat : n <= Len(ss) => ConcatTo(ss, n) = <<>>}
<1>1. 0 \in P BY ConcatToFacts, Zenon
<1>2. ASSUME NEW n \in P, n + 1 <= Len(ss) PROVE ConcatTo(ss, n + 1) = <<>>
  <2>1. n + 1 \in 1..Len(ss) /\ (n + 1) - 1 = n /\ ConcatTo(ss, n) = <<>> BY <1>2
  <2>2. ConcatTo(ss, n + 1) = ConcatTo(ss, n) \o ss[n + 1]
    BY <2>1, ConcatToFacts, Zenon
  <2>3. <<>> \o <<>> = <<>> OBVIOUS
  <2> QED BY <2>1, <2>2, <2>3, Zenon
<1>3. \A n \in P : n + 1 \in P BY <1>2
<1>4. P \in SUBSET Nat OBVIOUS
<1>5. P = Nat BY <1>1, <1>3, <1>4, SetInduction, Zenon
<1>6. Len(ss) \in Nat /\ Len(ss) <= Len(ss) OBVIOUS
<1> QED BY <1>5, <1>6, Zenon DEF Concat

LEMMA ConcatFacts ==
  ASSUME NEW A, NEW ss \in Seq(Seq(A))
  PROVE  Concat(ss) \in Seq(A) /\ Len(Concat(ss)) = Sum(Lens(ss))
<1>1. Len(ss) \in 0..Len(ss) OBVIOUS
<1>2. ConcatTo(ss, Len(ss)) \in Seq(A) BY <1>1, ConcatToFacts, Zenon
<1>3. Len(ConcatTo(ss, Len(ss))) = SumTo(Lens(ss), Len(ss))
  BY <1>1, ConcatToLen, Zenon
<1>4. Len(Lens(ss)) = Len(ss) BY LensFacts, Zenon
<1> QED BY <1>2, <1>3, <1>4, Zenon DEF Concat, Sum

-----------------------------------------------------------------------------
(* What code creates                                                       *)

IdOrNone == Id \cup {None}
Creates(cell) == IF cell.holds = "create" THEN <<cell.id>> ELSE <<>>
CreatedParts(cells) == [p \in DOMAIN cells |-> Creates(cells[p])]

LEMMA CreatedPartsFacts ==
  ASSUME NEW cells \in Seq(Cell)
  PROVE  /\ CreatedParts(cells) \in Seq(Seq(IdOrNone))
         /\ Len(CreatedParts(cells)) = Len(cells)
         /\ \A p \in 1..Len(cells) : CreatedParts(cells)[p] = Creates(cells[p])
         /\ CreatedIn(cells) = Concat(CreatedParts(cells))
         /\ CreatedIn(cells) \in Seq(IdOrNone)
<1>1. Len(cells) \in Nat /\ DOMAIN cells = 1..Len(cells) OBVIOUS
<1>2. \A p \in 1..Len(cells) : Creates(cells[p]) \in Seq(IdOrNone)
  <2> SUFFICES ASSUME NEW p \in 1..Len(cells) PROVE Creates(cells[p]) \in Seq(IdOrNone)
    OBVIOUS
  <2>1. cells[p] \in Cell OBVIOUS
  <2>2. cells[p].id \in IdOrNone BY <2>1 DEF Cell, IdOrNone
  <2>3. <<cells[p].id>> \in Seq(IdOrNone) /\ <<>> \in Seq(IdOrNone) BY <2>2
  <2> QED BY <2>3 DEF Creates
<1>3. CreatedParts(cells) \in [1..Len(cells) -> Seq(IdOrNone)]
  BY <1>1, <1>2, Zenon DEF CreatedParts
<1>4. \A p \in 1..Len(cells) : CreatedParts(cells)[p] = Creates(cells[p])
  BY <1>1, Zenon DEF CreatedParts
<1>5. CreatedIn(cells) = Concat(CreatedParts(cells))
  BY Zenon DEF CreatedIn, CreatedParts, Creates
<1>6. CreatedParts(cells) \in Seq(Seq(IdOrNone)) /\ Len(CreatedParts(cells)) = Len(cells)
  BY <1>1, <1>3, FunctionSeq, Zenon
<1> QED BY <1>4, <1>5, <1>6, ConcatFacts, Zenon

(* Code in two parts. *)
LEMMA CreatedTwo ==
  ASSUME NEW a \in Seq(Cell), NEW b \in Seq(Cell)
  PROVE  CreatedIn(a \o b) = CreatedIn(a) \o CreatedIn(b)
<1> DEFINE A == Seq(IdOrNone)
           x == CreatedParts(a)
           y == CreatedParts(b)
           z == CreatedParts(a \o b)
<1>1. /\ a \o b \in Seq(Cell) /\ Len(a \o b) = Len(a) + Len(b)
      /\ \A i \in 1..Len(a) + Len(b) :
           (a \o b)[i] = IF i <= Len(a) THEN a[i] ELSE b[i - Len(a)]
  BY ConcatProperties, Zenon
<1>2. /\ x \in Seq(A) /\ Len(x) = Len(a) /\ y \in Seq(A) /\ Len(y) = Len(b)
      /\ z \in Seq(A) /\ Len(z) = Len(a) + Len(b)
  BY <1>1, CreatedPartsFacts, Zenon
<1>3. Len(a) \in Nat /\ Len(b) \in Nat OBVIOUS
<1>5. \A i \in 1..Len(a) : x[i] = Creates(a[i]) BY CreatedPartsFacts, Zenon
<1>6. \A i \in 1..Len(b) : y[i] = Creates(b[i]) BY CreatedPartsFacts, Zenon
<1>7. \A i \in 1..Len(a) + Len(b) : z[i] = Creates((a \o b)[i])
  BY <1>1, CreatedPartsFacts, Zenon
<1> HIDE DEF x, y, z, A
<1>4. /\ x \o y \in Seq(A) /\ Len(x \o y) = Len(a) + Len(b)
      /\ \A i \in 1..Len(a) + Len(b) :
           (x \o y)[i] = IF i <= Len(a) THEN x[i] ELSE y[i - Len(a)]
  <2>1. /\ x \o y \in Seq(A) /\ Len(x \o y) = Len(x) + Len(y)
        /\ \A i \in 1..Len(x) + Len(y) :
             (x \o y)[i] = IF i <= Len(x) THEN x[i] ELSE y[i - Len(x)]
    <3>1. x \in Seq(A) /\ y \in Seq(A) BY <1>2
    <3> QED BY <3>1, ConcatProperties
  <2> QED BY <1>2, <2>1, Zenon
<1>8. ASSUME NEW i \in 1..Len(a) + Len(b) PROVE z[i] = (x \o y)[i]
  <2>1. CASE i <= Len(a)
    <3>1. i \in 1..Len(a) BY <2>1, <1>3
    <3> QED BY <2>1, <3>1, <1>1, <1>4, <1>5, <1>7, Zenon
  <2>2. CASE ~(i <= Len(a))
    <3>1. i - Len(a) \in 1..Len(b) BY <2>2, <1>3
    <3> QED BY <2>2, <3>1, <1>1, <1>4, <1>6, <1>7, Zenon
  <2> QED BY <2>1, <2>2
<1>9. z = x \o y
  <2>1. Len(z) = Len(x \o y) /\ \A i \in 1..Len(z) : z[i] = (x \o y)[i]
    BY <1>2, <1>4, <1>8, Zenon
  <2> QED BY <1>2, <1>4, <2>1, SeqEqual, Zenon
<1>10. Concat(z) = Concat(x) \o Concat(y) BY <1>2, <1>9, ConcatTwo, Zenon DEF A
<1> QED BY <1>1, <1>10, CreatedPartsFacts, Zenon DEF x, y, z

(* Code in a row of parts. *)
CreatedByParts(cc) == [k \in DOMAIN cc |-> CreatedIn(cc[k])]

LEMMA CreatedByPartsFacts ==
  ASSUME NEW cc \in Seq(Seq(Cell))
  PROVE  /\ CreatedByParts(cc) \in Seq(Seq(IdOrNone))
         /\ Len(CreatedByParts(cc)) = Len(cc)
         /\ \A k \in 1..Len(cc) : CreatedByParts(cc)[k] = CreatedIn(cc[k])
<1>1. Len(cc) \in Nat /\ DOMAIN cc = 1..Len(cc) OBVIOUS
<1>2. \A k \in 1..Len(cc) : cc[k] \in Seq(Cell) OBVIOUS
<1>3. CreatedByParts(cc) \in [1..Len(cc) -> Seq(IdOrNone)]
  BY <1>1, <1>2, CreatedPartsFacts, Zenon DEF CreatedByParts
<1>4. \A k \in 1..Len(cc) : CreatedByParts(cc)[k] = CreatedIn(cc[k])
  BY <1>1, Zenon DEF CreatedByParts
<1> QED BY <1>1, <1>3, <1>4, FunctionSeq, Zenon

LEMMA CreatedNothing ==
  ASSUME NEW cells \in Seq(Cell), \A p \in 1..Len(cells) : cells[p].holds # "create"
  PROVE  CreatedIn(cells) = <<>>
<1>1. \A p \in 1..Len(cells) : CreatedParts(cells)[p] = <<>>
  BY CreatedPartsFacts, Zenon DEF Creates
<1> QED BY <1>1, CreatedPartsFacts, ConcatNothing, Zenon

LEMMA CreatedConcat ==
  ASSUME NEW cc \in Seq(Seq(Cell))
  PROVE  CreatedIn(Concat(cc)) = Concat(CreatedByParts(cc))
<1> DEFINE xx == CreatedByParts(cc)
           P == {n \in Nat : n <= Len(cc) =>
                   CreatedIn(ConcatTo(cc, n)) = ConcatTo(xx, n)}
<1>1. /\ xx \in Seq(Seq(IdOrNone)) /\ Len(xx) = Len(cc)
      /\ \A k \in 1..Len(cc) : xx[k] = CreatedIn(cc[k])
  BY CreatedByPartsFacts, Zenon
<1> HIDE DEF xx
<1>2. 0 \in P
  <2>1. ConcatTo(cc, 0) = <<>> /\ ConcatTo(xx, 0) = <<>>
    BY <1>1, ConcatToFacts, Zenon
  <2>2. <<>> \in Seq(Cell) /\ \A p \in 1..Len(<<>>) : FALSE OBVIOUS
  <2>3. CreatedIn(<<>>) = <<>> BY <2>2, CreatedNothing, Zenon
  <2> QED BY <2>1, <2>3
<1>3. ASSUME NEW n \in P, n + 1 <= Len(cc)
      PROVE  CreatedIn(ConcatTo(cc, n + 1)) = ConcatTo(xx, n + 1)
  <2>1. n + 1 \in 1..Len(cc) /\ (n + 1) - 1 = n /\ n \in 0..Len(cc)
        /\ CreatedIn(ConcatTo(cc, n)) = ConcatTo(xx, n)
    BY <1>3
  <2>2. ConcatTo(cc, n + 1) = ConcatTo(cc, n) \o cc[n + 1]
        /\ ConcatTo(cc, n) \in Seq(Cell)
    BY <2>1, ConcatToFacts, Zenon
  <2>3. ConcatTo(xx, n + 1) = ConcatTo(xx, n) \o xx[n + 1]
    BY <2>1, <1>1, ConcatToFacts, Zenon
  <2>4. cc[n + 1] \in Seq(Cell) BY <2>1
  <2>5. CreatedIn(ConcatTo(cc, n) \o cc[n + 1]) =
          CreatedIn(ConcatTo(cc, n)) \o CreatedIn(cc[n + 1])
    BY <2>2, <2>4, CreatedTwo, Zenon
  <2> QED BY <2>1, <2>2, <2>3, <2>5, <1>1, Zenon
<1>4. \A n \in P : n + 1 \in P BY <1>3
<1>5. P \in SUBSET Nat OBVIOUS
<1>6. P = Nat BY <1>2, <1>4, <1>5, SetInduction, Zenon
<1>7. Len(cc) \in Nat /\ Len(cc) <= Len(cc) OBVIOUS
<1> QED BY <1>1, <1>6, <1>7, Zenon DEF Concat, xx

-----------------------------------------------------------------------------
(* Modules that are linked                                                 *)

(* Each variable takes two cells of main code at least: one that creates   *)
(* it and one that refers to it.  No placeholder is written.               *)
Good == {m \in Module :
           /\ IsModule(m) /\ DescribesCode(m)
           /\ Len(m.cells) < Word /\ 2 * Len(m.var_defs) <= m.main_size
           /\ \A p \in 1..Len(m.cells) : m.cells[p].value = None}

LEMMA WordFacts ==
  ASSUME NEW a \in Nat
  PROVE  /\ a % Word \in 0..Word - 1
         /\ a < Word => a % Word = a
         /\ Word <= a /\ a < 2 * Word => a % Word = a - Word
BY WordAssumption, Z3

LEMMA GoodFacts ==
  ASSUME NEW m \in Good
  PROVE  /\ m.cells \in Seq(Cell) /\ Len(m.cells) \in Nat
         /\ m.main_size \in Nat /\ m.main_size <= Len(m.cells)
         /\ Len(m.cells) < Word
         /\ m.func_defs \subseteq [id: Func, address: m.main_size..Len(m.cells) - 1]
         /\ m.var_defs \in Seq(Var) /\ m.native_defs \subseteq Native
         /\ m.refs \in [Id -> SUBSET (0..Len(m.cells) - 1)]
         /\ \A id \in Id : m.refs[id] = RefsIn(m.cells, id)
         /\ m.var_defs = CreatedIn(m.cells)
         /\ \A p \in 1..Len(m.cells) :
              m.cells[p].holds = "create" => p <= m.main_size
         /\ 2 * Len(m.var_defs) <= m.main_size
         /\ \A p \in 1..Len(m.cells) : m.cells[p].value = None
<1>1. IsModule(m) /\ DescribesCode(m) /\ Len(m.cells) < Word
      /\ 2 * Len(m.var_defs) <= m.main_size
      /\ \A p \in 1..Len(m.cells) : m.cells[p].value = None
  BY DEF Good
<1>2. m.cells \in Seq(Cell) /\ m.main_size \in 0..Len(m.cells) BY <1>1 DEF IsModule
<1>3. Len(m.cells) \in Nat /\ DOMAIN m.cells = 1..Len(m.cells) BY <1>2
<1>4. m.main_size \in Nat /\ m.main_size <= Len(m.cells) BY <1>2, <1>3
<1> QED BY <1>1, <1>2, <1>3, <1>4, Zenon DEF IsModule, DescribesCode

LEMMA SizesFacts ==
  ASSUME NEW ms \in Seq(Good)
  PROVE  /\ Len(ms) \in Nat /\ DOMAIN ms = 1..Len(ms)
         /\ \A k \in 1..Len(ms) : ms[k] \in Good
         /\ MainSizes(ms) \in Seq(Nat) /\ Len(MainSizes(ms)) = Len(ms)
         /\ FuncSizes(ms) \in Seq(Nat) /\ Len(FuncSizes(ms)) = Len(ms)
         /\ CodeSizes(ms) \in Seq(Nat) /\ Len(CodeSizes(ms)) = Len(ms)
         /\ \A k \in 1..Len(ms) :
              /\ MainSizes(ms)[k] = ms[k].main_size
              /\ FuncSizes(ms)[k] = Len(ms[k].cells) - ms[k].main_size
              /\ CodeSizes(ms)[k] = Len(ms[k].cells)
              /\ CodeSizes(ms)[k] = MainSizes(ms)[k] + FuncSizes(ms)[k]
<1>1. Len(ms) \in Nat /\ DOMAIN ms = 1..Len(ms) OBVIOUS
<1>2. \A k \in 1..Len(ms) : ms[k] \in Good OBVIOUS
<1>3. ASSUME NEW k \in 1..Len(ms)
      PROVE  /\ ms[k].main_size \in Nat /\ Len(ms[k].cells) \in Nat
             /\ Len(ms[k].cells) - ms[k].main_size \in Nat
             /\ Len(ms[k].cells) =
                  ms[k].main_size + (Len(ms[k].cells) - ms[k].main_size)
  <2>1. /\ ms[k].main_size \in Nat /\ Len(ms[k].cells) \in Nat
        /\ ms[k].main_size <= Len(ms[k].cells)
    BY <1>2, GoodFacts, Zenon
  <2> QED BY <2>1
<1>4. \A k \in 1..Len(ms) :
        /\ MainSizes(ms)[k] = ms[k].main_size
        /\ FuncSizes(ms)[k] = Len(ms[k].cells) - ms[k].main_size
        /\ CodeSizes(ms)[k] = Len(ms[k].cells)
  BY <1>1, Zenon DEF MainSizes, FuncSizes, CodeSizes
<1>5. /\ MainSizes(ms) \in [1..Len(ms) -> Nat]
      /\ FuncSizes(ms) \in [1..Len(ms) -> Nat]
      /\ CodeSizes(ms) \in [1..Len(ms) -> Nat]
  BY <1>1, <1>3, Zenon DEF MainSizes, FuncSizes, CodeSizes
<1>6. /\ MainSizes(ms) \in Seq(Nat) /\ Len(MainSizes(ms)) = Len(ms)
      /\ FuncSizes(ms) \in Seq(Nat) /\ Len(FuncSizes(ms)) = Len(ms)
      /\ CodeSizes(ms) \in Seq(Nat) /\ Len(CodeSizes(ms)) = Len(ms)
  BY <1>1, <1>5, FunctionSeq, Zenon
<1> QED BY <1>1, <1>2, <1>3, <1>4, <1>6, Zenon

LEMMA SizesAdd ==
  ASSUME NEW ms \in Seq(Good), NEW n \in 0..Len(ms)
  PROVE  /\ SumTo(CodeSizes(ms), n) = SumTo(MainSizes(ms), n) + SumTo(FuncSizes(ms), n)
         /\ SumTo(CodeSizes(ms), n) \in Nat
         /\ SumTo(MainSizes(ms), n) \in Nat /\ SumTo(FuncSizes(ms), n) \in Nat
<1> DEFINE a == MainSizes(ms)
           b == FuncSizes(ms)
           c == CodeSizes(ms)
           L == Len(ms)
           P == {i \in Nat : i <= L => SumTo(c, i) = SumTo(a, i) + SumTo(b, i)}
<1>1. /\ a \in Seq(Nat) /\ b \in Seq(Nat) /\ c \in Seq(Nat) /\ L \in Nat
      /\ Len(a) = L /\ Len(b) = L /\ Len(c) = L /\ n \in 0..L
      /\ \A k \in 1..L : c[k] = a[k] + b[k]
  BY SizesFacts, Zenon
<1> HIDE DEF a, b, c, L
<1>2. \A i \in 0..L : SumTo(a, i) \in Nat /\ SumTo(b, i) \in Nat /\ SumTo(c, i) \in Nat
  BY <1>1, SumToFacts, Zenon
<1>3. 0 \in P
  <2>1. SumTo(a, 0) = 0 /\ SumTo(b, 0) = 0 /\ SumTo(c, 0) = 0
    BY <1>1, SumToFacts, Zenon
  <2> QED BY <2>1
<1>4. ASSUME NEW i \in P, i + 1 <= L
      PROVE  SumTo(c, i + 1) = SumTo(a, i + 1) + SumTo(b, i + 1)
  <2>1. i + 1 \in 1..L /\ (i + 1) - 1 = i /\ i \in 0..L
        /\ SumTo(c, i) = SumTo(a, i) + SumTo(b, i)
    BY <1>1, <1>4
  <2>2. /\ SumTo(a, i + 1) = SumTo(a, i) + a[i + 1]
        /\ SumTo(b, i + 1) = SumTo(b, i) + b[i + 1]
        /\ SumTo(c, i + 1) = SumTo(c, i) + c[i + 1]
    BY <1>1, <2>1, SumToFacts, Zenon
  <2>3. c[i + 1] = a[i + 1] + b[i + 1] BY <1>1, <2>1
  <2>4. \A s \in Seq(Nat) : \A k \in 1..Len(s) : s[k] \in Nat OBVIOUS
  <2>5. a[i + 1] \in Nat /\ b[i + 1] \in Nat BY <1>1, <2>1, <2>4, Zenon
  <2>6. SumTo(a, i) \in Nat /\ SumTo(b, i) \in Nat BY <1>2, <2>1
  <2> QED BY <2>1, <2>2, <2>3, <2>5, <2>6
<1>5. \A i \in P : i + 1 \in P BY <1>4
<1>6. P \in SUBSET Nat OBVIOUS
<1>7. P = Nat BY <1>3, <1>5, <1>6, SetInduction, Zenon
<1>8. n \in P /\ n <= L BY <1>1, <1>7
<1> QED BY <1>1, <1>2, <1>8, Zenon DEF a, b, c

(* What passes the checks of sizes is smaller than a word altogether. *)
LEMMA SizesSmall ==
  ASSUME NEW ms \in Seq(Good), NEW n \in 0..Len(ms), SizesFit(ms, n)
  PROVE  SumTo(CodeSizes(ms), n) < Word
<1> DEFINE c == CodeSizes(ms)
           P == {i \in Nat : i <= n => SumTo(c, i) < Word}
<1>1. /\ c \in Seq(Nat) /\ Len(c) = Len(ms) /\ Len(ms) \in Nat
      /\ \A k \in 1..Len(ms) : c[k] = Len(ms[k].cells) /\ ms[k] \in Good
  BY SizesFacts, Zenon
<1>2. \A k \in 1..n : CheckAddressOverflow(SumBefore(c, k), Len(ms[k].cells))
  BY Zenon DEF SizesFit
<1> HIDE DEF c
<1>3. 0 \in P BY <1>1, SumToFacts, WordAssumption
<1>4. ASSUME NEW i \in P, i + 1 <= n PROVE SumTo(c, i + 1) < Word
  <2> DEFINE x == SumTo(c, i)
             y == c[i + 1]
  <2>1. i + 1 \in 1..n /\ i + 1 \in 1..Len(ms) /\ (i + 1) - 1 = i /\ i \in 0..Len(ms)
        /\ x < Word
    BY <1>1, <1>4
  <2>2. SumTo(c, i + 1) = x + y BY <1>1, <2>1, SumToFacts, Zenon
  <2>3. x \in Nat BY <1>1, <2>1, SumToFacts, Zenon
  <2>4. y \in Nat /\ y < Word BY <1>1, <2>1, GoodFacts, Zenon
  <2>5. (x + y) % Word >= x
    BY <1>1, <1>2, <2>1, Zenon DEF CheckAddressOverflow, SumBefore
  <2> HIDE DEF x, y
  <2>6. x + y \in Nat /\ x + y < 2 * Word BY <2>1, <2>3, <2>4, WordAssumption
  <2>7. Word <= x + y => (x + y) % Word = (x + y) - Word BY <2>6, WordFacts, Zenon
  <2>8. x + y < Word BY <2>1, <2>3, <2>4, <2>5, <2>7, WordAssumption
  <2> QED BY <2>2, <2>8, Zenon
<1>5. \A i \in P : i + 1 \in P BY <1>4
<1>6. P \in SUBSET Nat OBVIOUS
<1>7. P = Nat BY <1>3, <1>5, <1>6, SetInduction, Zenon
<1>8. n \in P /\ n <= n BY <1>7
<1> QED BY <1>8 DEF c

(* The main code and the functions of each module. *)
LEMMA PartsFacts ==
  ASSUME NEW ms \in Seq(Good)
  PROVE  /\ MainCmds(ms) \in Seq(Seq(Cell)) /\ Len(MainCmds(ms)) = Len(ms)
         /\ Lens(MainCmds(ms)) = MainSizes(ms)
         /\ FuncCmds(ms) \in Seq(Seq(Cell)) /\ Len(FuncCmds(ms)) = Len(ms)
         /\ Lens(FuncCmds(ms)) = FuncSizes(ms)
         /\ \A k \in 1..Len(ms) :
              /\ Len(MainCmds(ms)[k]) = MainSizes(ms)[k]
              /\ Len(FuncCmds(ms)[k]) = FuncSizes(ms)[k]
              /\ \A i \in 1..MainSizes(ms)[k] : MainCmds(ms)[k][i] = ms[k].cells[i]
              /\ \A i \in 1..FuncSizes(ms)[k] :
                   FuncCmds(ms)[k][i] = ms[k].cells[ms[k].main_size + i]
<1>1. /\ Len(ms) \in Nat /\ DOMAIN ms = 1..Len(ms)
      /\ \A k \in 1..Len(ms) : ms[k] \in Good
  BY SizesFacts, Zenon
<1>2. \A k \in 1..Len(ms) :
        /\ MainCmds(ms)[k] = SubSeq(ms[k].cells, 1, ms[k].main_size)
        /\ FuncCmds(ms)[k] =
             SubSeq(ms[k].cells, ms[k].main_size + 1, Len(ms[k].cells))
  BY <1>1, Zenon DEF MainCmds, FuncCmds
<1>3. ASSUME NEW k \in 1..Len(ms)
      PROVE  /\ MainCmds(ms)[k] \in Seq(Cell) /\ FuncCmds(ms)[k] \in Seq(Cell)
             /\ Len(MainCmds(ms)[k]) = MainSizes(ms)[k]
             /\ Len(FuncCmds(ms)[k]) = FuncSizes(ms)[k]
             /\ \A i \in 1..MainSizes(ms)[k] : MainCmds(ms)[k][i] = ms[k].cells[i]
             /\ \A i \in 1..FuncSizes(ms)[k] :
                  FuncCmds(ms)[k][i] = ms[k].cells[ms[k].main_size + i]
  <2> DEFINE cells == ms[k].cells
             n == ms[k].main_size
  <2>1. cells \in Seq(Cell) /\ Len(cells) \in Nat /\ n \in Nat /\ n <= Len(cells)
    BY <1>1, GoodFacts, Zenon
  <2>2. MainSizes(ms)[k] = n /\ FuncSizes(ms)[k] = Len(cells) - n BY SizesFacts, Zenon
  <2>3. MainCmds(ms)[k] = SubSeq(cells, 1, n)
        /\ FuncCmds(ms)[k] = SubSeq(cells, n + 1, Len(cells))
    BY <1>2, Zenon
  <2> HIDE DEF cells, n
  <2>4. /\ SubSeq(cells, 1, n) \in Seq(Cell) /\ Len(SubSeq(cells, 1, n)) = n
        /\ \A i \in 1..n : SubSeq(cells, 1, n)[i] = cells[i]
    BY <2>1
  <2>5. /\ SubSeq(cells, n + 1, Len(cells)) \in Seq(Cell)
        /\ Len(SubSeq(cells, n + 1, Len(cells))) = Len(cells) - n
        /\ \A i \in 1..Len(cells) - n :
             SubSeq(cells, n + 1, Len(cells))[i] = cells[n + i]
    BY <2>1
  <2> QED BY <2>2, <2>3, <2>4, <2>5, Zenon DEF cells, n
<1>4. MainCmds(ms) \in [1..Len(ms) -> Seq(Cell)]
      /\ FuncCmds(ms) \in [1..Len(ms) -> Seq(Cell)]
  <2>1. DOMAIN MainCmds(ms) = 1..Len(ms) /\ DOMAIN FuncCmds(ms) = 1..Len(ms)
    BY <1>1, Zenon DEF MainCmds, FuncCmds
  <2>2. MainCmds(ms) = [k \in 1..Len(ms) |-> MainCmds(ms)[k]]
        /\ FuncCmds(ms) = [k \in 1..Len(ms) |-> FuncCmds(ms)[k]]
    BY <1>1, Zenon DEF MainCmds, FuncCmds
  <2> QED BY <2>1, <2>2, <1>3
<1>5. /\ MainCmds(ms) \in Seq(Seq(Cell)) /\ Len(MainCmds(ms)) = Len(ms)
      /\ FuncCmds(ms) \in Seq(Seq(Cell)) /\ Len(FuncCmds(ms)) = Len(ms)
  BY <1>1, <1>4, FunctionSeq, Zenon
<1>6. /\ MainSizes(ms) \in Seq(Nat) /\ Len(MainSizes(ms)) = Len(ms)
      /\ FuncSizes(ms) \in Seq(Nat) /\ Len(FuncSizes(ms)) = Len(ms)
  BY SizesFacts, Zenon
<1>7. Lens(MainCmds(ms)) = MainSizes(ms)
  <2>1. /\ Lens(MainCmds(ms)) \in Seq(Nat) /\ Len(Lens(MainCmds(ms))) = Len(ms)
        /\ \A k \in 1..Len(ms) : Lens(MainCmds(ms))[k] = Len(MainCmds(ms)[k])
    BY <1>5, LensFacts, Zenon
  <2>2. \A k \in 1..Len(Lens(MainCmds(ms))) : Lens(MainCmds(ms))[k] = MainSizes(ms)[k]
    BY <1>3, <2>1, Zenon
  <2>3. Len(Lens(MainCmds(ms))) = Len(MainSizes(ms)) BY <1>6, <2>1, Zenon
  <2> QED BY <1>6, <2>1, <2>2, <2>3, SeqEqual, Zenon
<1>8. Lens(FuncCmds(ms)) = FuncSizes(ms)
  <2>1. /\ Lens(FuncCmds(ms)) \in Seq(Nat) /\ Len(Lens(FuncCmds(ms))) = Len(ms)
        /\ \A k \in 1..Len(ms) : Lens(FuncCmds(ms))[k] = Len(FuncCmds(ms)[k])
    BY <1>5, LensFacts, Zenon
  <2>2. \A k \in 1..Len(Lens(FuncCmds(ms))) : Lens(FuncCmds(ms))[k] = FuncSizes(ms)[k]
    BY <1>3, <2>1, Zenon
  <2>3. Len(Lens(FuncCmds(ms))) = Len(FuncSizes(ms)) BY <1>6, <2>1, Zenon
  <2> QED BY <1>6, <2>1, <2>2, <2>3, SeqEqual, Zenon
<1> QED BY <1>3, <1>5, <1>7, <1>8, Zenon

LEMMA MainPart ==
  ASSUME NEW ms \in Seq(Good), NEW k \in 1..Len(ms)
  PROVE  /\ k \in 1..Len(MainCmds(ms))
         /\ Len(MainCmds(ms)[k]) = ms[k].main_size
         /\ \A i \in 1..ms[k].main_size : MainCmds(ms)[k][i] = ms[k].cells[i]
<1>1. MainSizes(ms)[k] = ms[k].main_size BY SizesFacts, Zenon
<1>2. Len(MainCmds(ms)) = Len(ms) BY PartsFacts, Zenon
<1>3. /\ Len(MainCmds(ms)[k]) = MainSizes(ms)[k]
      /\ \A i \in 1..MainSizes(ms)[k] : MainCmds(ms)[k][i] = ms[k].cells[i]
  BY PartsFacts, Zenon
<1> QED BY <1>1, <1>2, <1>3, Zenon

LEMMA FuncPart ==
  ASSUME NEW ms \in Seq(Good), NEW k \in 1..Len(ms)
  PROVE  /\ k \in 1..Len(FuncCmds(ms))
         /\ Len(FuncCmds(ms)[k]) = Len(ms[k].cells) - ms[k].main_size
         /\ \A i \in 1..Len(ms[k].cells) - ms[k].main_size :
              FuncCmds(ms)[k][i] = ms[k].cells[ms[k].main_size + i]
<1>1. FuncSizes(ms)[k] = Len(ms[k].cells) - ms[k].main_size BY SizesFacts, Zenon
<1>2. Len(FuncCmds(ms)) = Len(ms) BY PartsFacts, Zenon
<1>3. /\ Len(FuncCmds(ms)[k]) = FuncSizes(ms)[k]
      /\ \A i \in 1..FuncSizes(ms)[k] :
           FuncCmds(ms)[k][i] = ms[k].cells[ms[k].main_size + i]
  BY PartsFacts, Zenon
<1> QED BY <1>1, <1>2, <1>3, Zenon

(* The linked code is the main codes and then the functions. *)
LEMMA WriteFacts ==
  ASSUME NEW ms \in Seq(Good)
  PROVE  LET cells == WriteModuleCmds(ms)
             main == Sum(MainSizes(ms))
         IN
         /\ cells \in Seq(Cell) /\ main \in Nat /\ Len(cells) \in Nat
         /\ Len(cells) = main + Sum(FuncSizes(ms))
         /\ Len(cells) = SumTo(CodeSizes(ms), Len(ms))
         /\ \A i \in 1..main : cells[i] = Concat(MainCmds(ms))[i]
         /\ \A i \in 1..Sum(FuncSizes(ms)) :
              cells[main + i] = Concat(FuncCmds(ms))[i]
         /\ Len(Concat(MainCmds(ms))) = main
         /\ Len(Concat(FuncCmds(ms))) = Sum(FuncSizes(ms))
         /\ Concat(MainCmds(ms)) \in Seq(Cell) /\ Concat(FuncCmds(ms)) \in Seq(Cell)
<1> DEFINE a == Concat(MainCmds(ms))
           b == Concat(FuncCmds(ms))
           n == Sum(MainSizes(ms))
           f == Sum(FuncSizes(ms))
<1>1. a \in Seq(Cell) /\ Len(a) = n /\ b \in Seq(Cell) /\ Len(b) = f
  <2>1. MainCmds(ms) \in Seq(Seq(Cell)) /\ Lens(MainCmds(ms)) = MainSizes(ms)
    BY PartsFacts, Zenon
  <2>2. FuncCmds(ms) \in Seq(Seq(Cell)) /\ Lens(FuncCmds(ms)) = FuncSizes(ms)
    BY PartsFacts, Zenon
  <2>3. a \in Seq(Cell) /\ Len(a) = n BY <2>1, ConcatFacts, Zenon
  <2>4. b \in Seq(Cell) /\ Len(b) = f BY <2>2, ConcatFacts, Zenon
  <2> QED BY <2>3, <2>4
<1>2. SumTo(CodeSizes(ms), Len(ms)) = n + f
  <2>1. Len(ms) \in 0..Len(ms) OBVIOUS
  <2> QED BY <2>1, SizesAdd, SizesFacts, Zenon DEF Sum
<1>3. WriteModuleCmds(ms) = a \o b BY Zenon DEF WriteModuleCmds
<1> HIDE DEF a, b, n, f
<1>4. n \in Nat /\ f \in Nat BY <1>1
<1>5. /\ a \o b \in Seq(Cell) /\ Len(a \o b) = n + f
      /\ \A i \in 1..n : (a \o b)[i] = a[i]
      /\ \A i \in 1..f : (a \o b)[n + i] = b[i]
  <2>1. Joined(Cell, a, b) BY <1>1, JoinFacts, Zenon
  <2> QED BY <1>1, <2>1, Zenon DEF Joined
<1>6. n + f \in Nat BY <1>4
<1> QED BY <1>1, <1>2, <1>3, <1>4, <1>5, <1>6, Zenon DEF a, b, n, f

(* An address that is moved leads to the same cell; main code stays main   *)
(* code.                                                                   *)
LEMMA MovedFacts ==
  ASSUME NEW ms \in Seq(Good), SizesFit(ms, Len(ms)),
         NEW k \in 1..Len(ms), NEW p \in 1..Len(ms[k].cells)
  PROVE  LET to == Moved(ms, k, p - 1) IN
         /\ to \in Nat /\ to + 1 \in 1..Len(WriteModuleCmds(ms))
         /\ WriteModuleCmds(ms)[to + 1] = ms[k].cells[p]
         /\ p <= ms[k].main_size =>
              /\ to = SumBefore(MainSizes(ms), k) + (p - 1)
              /\ to < Sum(MainSizes(ms))
         /\ ~(p <= ms[k].main_size) =>
              /\ to = Sum(MainSizes(ms)) + (SumBefore(FuncSizes(ms), k)
                        + ((p - 1) - ms[k].main_size))
              /\ ~(to < Sum(MainSizes(ms)))
<1> DEFINE n == ms[k].main_size
           main == Sum(MainSizes(ms))
           funcs == Sum(FuncSizes(ms))
           x == SumBefore(MainSizes(ms), k)
           y == SumBefore(FuncSizes(ms), k)
           to == Moved(ms, k, p - 1)
           cells == WriteModuleCmds(ms)
           L == Len(ms[k].cells)
<1>1. n \in Nat /\ n <= L /\ p \in 1..L /\ L \in Nat BY SizesFacts, GoodFacts, Zenon
<1>2. k \in 1..Len(ms) /\ k - 1 \in 0..Len(ms) /\ Len(ms) \in Nat OBVIOUS
<1>3. x \in Nat /\ y \in Nat BY <1>2, SizesAdd, Zenon DEF SumBefore
<1>4. main \in Nat /\ funcs \in Nat /\ main + funcs < Word
  <2>1. Len(ms) \in 0..Len(ms) BY <1>2
  <2>2. SumTo(CodeSizes(ms), Len(ms)) < Word BY <2>1, SizesSmall, Zenon
  <2> QED BY <2>1, <2>2, SizesAdd, SizesFacts, Zenon DEF Sum
<1>5. to = ((p - 1) + IF p - 1 < n THEN x ELSE (main + y) - n) % Word
  BY Zenon DEF Moved, GetAbsoluteAddress
<1>6. \A i \in 1..main : cells[i] = Concat(MainCmds(ms))[i] BY WriteFacts, Zenon
<1>7. \A i \in 1..funcs : cells[main + i] = Concat(FuncCmds(ms))[i]
  BY WriteFacts, Zenon
<1>8. Len(cells) = main + funcs BY WriteFacts, Zenon
<1>9. CASE p <= n
  <2>1. p \in 1..Len(MainCmds(ms)[k]) /\ MainCmds(ms)[k][p] = ms[k].cells[p]
    <3>1. p \in 1..n BY <1>1, <1>9
    <3> QED BY <3>1, MainPart, Zenon
  <2>2. x + p \in 1..main /\ Concat(MainCmds(ms))[x + p] = MainCmds(ms)[k][p]
    <3>1. MainCmds(ms) \in Seq(Seq(Cell)) /\ Lens(MainCmds(ms)) = MainSizes(ms)
      BY PartsFacts, Zenon
    <3>2. k \in 1..Len(MainCmds(ms)) BY MainPart, Zenon
    <3>3. Len(Concat(MainCmds(ms))) = main BY WriteFacts, Zenon
    <3>4. p \in 1..Len(MainCmds(ms)[k]) BY <2>1
    <3> HIDE DEF main
    <3>5. /\ SumBefore(Lens(MainCmds(ms)), k) + p \in 1..Len(Concat(MainCmds(ms)))
          /\ Concat(MainCmds(ms))[SumBefore(Lens(MainCmds(ms)), k) + p] =
               MainCmds(ms)[k][p]
      BY <3>1, <3>2, <3>4, ConcatAt, Zenon
    <3> QED BY <3>1, <3>3, <3>5, Zenon
  <2> HIDE DEF n, main, funcs, x, y, to, cells, L
  <2>3. p - 1 < n /\ (p - 1) + x \in Nat /\ (p - 1) + x < Word
        /\ ((p - 1) + x) + 1 = x + p
    <3>1. x + p \in 1..main BY <2>2
    <3>2. Word \in Nat BY WordAssumption
    <3> QED BY <1>1, <1>3, <1>4, <1>9, <3>1, <3>2
  <2>4. to = (p - 1) + x BY <1>5, <2>3, WordFacts, Zenon
  <2>5. /\ to = x + (p - 1) /\ to < main /\ to \in Nat /\ to + 1 = x + p
        /\ x + p \in 1..main + funcs
    BY <1>1, <1>3, <1>4, <2>2, <2>4
  <2>6. cells[x + p] = ms[k].cells[p] BY <1>6, <2>1, <2>2, Zenon
  <2> QED BY <1>8, <1>9, <2>5, <2>6, Zenon DEF n, main, x, to, cells
<1>10. CASE ~(p <= n)
  <2> DEFINE i == p - n
  <2>1. i \in 1..Len(FuncCmds(ms)[k]) /\ FuncCmds(ms)[k][i] = ms[k].cells[p]
    <3>1. i \in 1..L - n /\ n + i = p BY <1>1, <1>10
    <3> HIDE DEF i
    <3> QED BY <3>1, FuncPart, Zenon
  <2>2. y + i \in 1..funcs /\ Concat(FuncCmds(ms))[y + i] = FuncCmds(ms)[k][i]
    <3>1. FuncCmds(ms) \in Seq(Seq(Cell)) /\ Lens(FuncCmds(ms)) = FuncSizes(ms)
      BY PartsFacts, Zenon
    <3>2. k \in 1..Len(FuncCmds(ms)) BY FuncPart, Zenon
    <3>3. Len(Concat(FuncCmds(ms))) = funcs BY WriteFacts, Zenon
    <3>4. i \in 1..Len(FuncCmds(ms)[k]) BY <2>1, Zenon
    <3> HIDE DEF funcs, i
    <3>5. /\ SumBefore(Lens(FuncCmds(ms)), k) + i \in 1..Len(Concat(FuncCmds(ms)))
          /\ Concat(FuncCmds(ms))[SumBefore(Lens(FuncCmds(ms)), k) + i] =
               FuncCmds(ms)[k][i]
      BY <3>1, <3>2, <3>4, ConcatAt, Zenon
    <3> QED BY <3>1, <3>3, <3>5, Zenon
  <2> HIDE DEF n, main, funcs, x, y, to, cells, L
  <2>3. /\ ~(p - 1 < n)
        /\ (p - 1) + ((main + y) - n) = main + (y + ((p - 1) - n))
        /\ main + (y + ((p - 1) - n)) \in Nat
        /\ main + (y + ((p - 1) - n)) < Word
        /\ ~(main + (y + ((p - 1) - n)) < main)
        /\ (main + (y + ((p - 1) - n))) + 1 = main + (y + i)
        /\ main + (y + i) \in 1..main + funcs
    <3>1. y + i \in 1..funcs BY <2>2
    <3>2. Word \in Nat BY WordAssumption
    <3>3. p \in Nat /\ i = p - n BY <1>1
    <3> HIDE DEF i
    <3>4. i \in Nat /\ y + i <= funcs /\ p - 1 = n + (i - 1) /\ i >= 1
      BY <1>1, <1>10, <1>3, <1>4, <3>1, <3>3
    <3> QED BY <1>1, <1>3, <1>4, <1>10, <3>1, <3>2, <3>4
  <2>4. to = main + (y + ((p - 1) - n)) BY <1>5, <2>3, WordFacts, Zenon
  <2>5. cells[main + (y + i)] = ms[k].cells[p] BY <1>7, <2>1, <2>2, Zenon
  <2>6. to \in Nat /\ to + 1 \in 1..Len(cells) /\ cells[to + 1] = ms[k].cells[p]
        /\ ~(to < main)
    BY <1>8, <2>3, <2>4, <2>5, Zenon
  <2> QED BY <1>10, <2>4, <2>6, Zenon DEF n, main, y, to, cells
<1> QED BY <1>9, <1>10

(* Every cell of the linked code was moved there. *)
LEMMA MovedOnto ==
  ASSUME NEW ms \in Seq(Good), SizesFit(ms, Len(ms)),
         NEW q \in 1..Len(WriteModuleCmds(ms))
  PROVE  \E k \in 1..Len(ms) : \E p \in 1..Len(ms[k].cells) :
           q = Moved(ms, k, p - 1) + 1
<1> DEFINE main == Sum(MainSizes(ms))
           funcs == Sum(FuncSizes(ms))
<1>1. main \in Nat /\ Len(WriteModuleCmds(ms)) = main + funcs
      /\ Len(Concat(MainCmds(ms))) = main /\ Len(Concat(FuncCmds(ms))) = funcs
  BY WriteFacts, Zenon
<1>2. funcs \in Nat /\ Len(ms) \in 0..Len(ms)
  <2>1. Len(ms) \in 0..Len(ms) OBVIOUS
  <2> QED BY <2>1, SizesAdd, SizesFacts, Zenon DEF Sum
<1>3. q \in 1..main + funcs BY <1>1
<1> HIDE DEF main, funcs
<1>4. CASE q <= main
  <2>1. q \in 1..Len(Concat(MainCmds(ms)))
    <3>1. q \in 1..main BY <1>1, <1>3, <1>4
    <3> QED BY <1>1, <3>1, Zenon
  <2>2. PICK k \in 1..Len(ms) : \E i \in 1..Len(MainCmds(ms)[k]) :
          q = SumBefore(MainSizes(ms), k) + i
    <3>1. /\ MainCmds(ms) \in Seq(Seq(Cell)) /\ Len(MainCmds(ms)) = Len(ms)
          /\ Lens(MainCmds(ms)) = MainSizes(ms)
      BY PartsFacts, Zenon
    <3>2. \E k \in 1..Len(MainCmds(ms)) : \E i \in 1..Len(MainCmds(ms)[k]) :
            q = SumBefore(Lens(MainCmds(ms)), k) + i
      BY <2>1, <3>1, ConcatFinds, Zenon
    <3> QED BY <3>1, <3>2, Zenon
  <2>3. PICK i \in 1..Len(MainCmds(ms)[k]) : q = SumBefore(MainSizes(ms), k) + i
    BY <2>2
  <2>4. Len(MainCmds(ms)[k]) = ms[k].main_size BY MainPart, Zenon
  <2>5. ms[k].main_size \in Nat /\ ms[k].main_size <= Len(ms[k].cells)
        /\ Len(ms[k].cells) \in Nat
    BY SizesFacts, GoodFacts, Zenon
  <2>6. i \in 1..Len(ms[k].cells) /\ i <= ms[k].main_size BY <2>4, <2>5
  <2>7. Moved(ms, k, i - 1) = SumBefore(MainSizes(ms), k) + (i - 1)
    BY <2>6, MovedFacts, Zenon
  <2>8. SumBefore(MainSizes(ms), k) \in Nat
    <3>1. k - 1 \in 0..Len(ms) OBVIOUS
    <3> QED BY <3>1, SizesAdd, Zenon DEF SumBefore
  <2>9. q = Moved(ms, k, i - 1) + 1 BY <2>3, <2>7, <2>8
  <2> QED BY <2>6, <2>9, Zenon
<1>5. CASE ~(q <= main)
  <2> DEFINE r == q - main
  <2>1. r \in 1..Len(Concat(FuncCmds(ms)))
    <3>1. r \in 1..funcs BY <1>1, <1>2, <1>3, <1>5
    <3> QED BY <1>1, <3>1, Zenon
  <2>2. PICK k \in 1..Len(ms) : \E i \in 1..Len(FuncCmds(ms)[k]) :
          r = SumBefore(FuncSizes(ms), k) + i
    <3>1. /\ FuncCmds(ms) \in Seq(Seq(Cell)) /\ Len(FuncCmds(ms)) = Len(ms)
          /\ Lens(FuncCmds(ms)) = FuncSizes(ms)
      BY PartsFacts, Zenon
    <3> HIDE DEF r
    <3>2. \E k \in 1..Len(FuncCmds(ms)) : \E i \in 1..Len(FuncCmds(ms)[k]) :
            r = SumBefore(Lens(FuncCmds(ms)), k) + i
      BY <2>1, <3>1, ConcatFinds, Zenon
    <3> QED BY <3>1, <3>2, Zenon
  <2>3. PICK i \in 1..Len(FuncCmds(ms)[k]) : r = SumBefore(FuncSizes(ms), k) + i
    BY <2>2
  <2>4. Len(FuncCmds(ms)[k]) = Len(ms[k].cells) - ms[k].main_size
    BY FuncPart, Zenon
  <2>5. ms[k].main_size \in Nat /\ ms[k].main_size <= Len(ms[k].cells)
        /\ Len(ms[k].cells) \in Nat
    BY SizesFacts, GoodFacts, Zenon
  <2> DEFINE p == ms[k].main_size + i
  <2>6. p \in 1..Len(ms[k].cells) /\ ~(p <= ms[k].main_size)
        /\ (p - 1) - ms[k].main_size = i - 1
    <3>1. \A n, c \in Nat : \A j \in 1..c - n :
            n + j \in 1..c /\ ~(n + j <= n) /\ ((n + j) - 1) - n = j - 1
      OBVIOUS
    <3> QED BY <2>4, <2>5, <3>1, Zenon
  <2>7. Moved(ms, k, p - 1) =
          main + (SumBefore(FuncSizes(ms), k) + ((p - 1) - ms[k].main_size))
    BY <2>6, MovedFacts, Zenon DEF main
  <2>8. SumBefore(FuncSizes(ms), k) \in Nat
    <3>1. k - 1 \in 0..Len(ms) OBVIOUS
    <3> QED BY <3>1, SizesAdd, Zenon DEF SumBefore
  <2> HIDE DEF p
  <2>9. i \in Nat BY <2>4, <2>5
  <2>10. Moved(ms, k, p - 1) = main + (SumBefore(FuncSizes(ms), k) + (i - 1))
    BY <2>6, <2>7, Zenon
  <2>11. q = Moved(ms, k, p - 1) + 1
    <3>1. \A x, y, j, z \in Nat : z - x = y + j => z = (x + (y + (j - 1))) + 1
      OBVIOUS
    <3>2. q \in Nat /\ main \in Nat BY <1>1, <1>3
    <3> DEFINE y == SumBefore(FuncSizes(ms), k)
    <3>3. y \in Nat /\ i \in Nat /\ q - main = y + i BY <2>3, <2>8, <2>9, Zenon
    <3>4. Moved(ms, k, p - 1) = main + (y + (i - 1)) BY <2>10
    <3> HIDE DEF y
    <3>5. q = (main + (y + (i - 1))) + 1 BY <3>1, <3>2, <3>3, Zenon
    <3> QED BY <3>4, <3>5, Zenon
  <2> QED BY <2>6, <2>11, Zenon
<1> QED BY <1>4, <1>5

(* The cells of the linked code that hold something are those where the    *)
(* cells of the modules that hold it have moved to.                        *)
LEMMA MovedRefs ==
  ASSUME NEW ms \in Seq(Good), SizesFit(ms, Len(ms)), NEW id \in Id
  PROVE  CollectRefs(ms)[id] = RefsIn(WriteModuleCmds(ms), id)
<1> DEFINE cells == WriteModuleCmds(ms)
           Is(cell) == cell.holds = "ref" /\ cell.id = id
<1>1. DOMAIN ms = 1..Len(ms) /\ DOMAIN cells = 1..Len(cells)
      /\ \A k \in 1..Len(ms) : DOMAIN ms[k].cells = 1..Len(ms[k].cells)
  <2>1. cells \in Seq(Cell) BY WriteFacts, Zenon
  <2>2. \A k \in 1..Len(ms) : ms[k].cells \in Seq(Cell)
    BY SizesFacts, GoodFacts, Zenon
  <2>3. \A s \in Seq(Cell) : DOMAIN s = 1..Len(s) OBVIOUS
  <2> QED BY <2>1, <2>2, <2>3, SizesFacts, Zenon
<1>2. \A x : x \in CollectRefs(ms)[id] <=>
               \E k \in 1..Len(ms) : \E a \in ms[k].refs[id] : x = Moved(ms, k, a)
  <2>1. CollectRefs(ms)[id] =
          UNION {{Moved(ms, k, a) : a \in ms[k].refs[id]} : k \in 1..Len(ms)}
    BY <1>1, Zenon DEF CollectRefs
  <2> HIDE DEF cells, Is
  <2> QED BY <2>1
<1>3. \A k \in 1..Len(ms) :
        ms[k].refs[id] = {p - 1 : p \in {q \in 1..Len(ms[k].cells) : Is(ms[k].cells[q])}}
  <2> TAKE k \in 1..Len(ms)
  <2>1. ms[k].refs[id] = RefsIn(ms[k].cells, id) BY SizesFacts, GoodFacts, Zenon
  <2> QED BY <1>1, <2>1, Zenon DEF RefsIn
<1>4. RefsIn(cells, id) = {p - 1 : p \in {q \in 1..Len(cells) : Is(cells[q])}}
  BY <1>1, Zenon DEF RefsIn
<1>5. ASSUME NEW k \in 1..Len(ms), NEW p \in 1..Len(ms[k].cells)
      PROVE  /\ Moved(ms, k, p - 1) + 1 \in 1..Len(cells)
             /\ (Moved(ms, k, p - 1) + 1) - 1 = Moved(ms, k, p - 1)
             /\ cells[Moved(ms, k, p - 1) + 1] = ms[k].cells[p]
  <2>1. Moved(ms, k, p - 1) \in Nat /\ Moved(ms, k, p - 1) + 1 \in 1..Len(cells)
        /\ cells[Moved(ms, k, p - 1) + 1] = ms[k].cells[p]
    BY MovedFacts, Zenon
  <2> HIDE DEF cells
  <2> QED BY <2>1
<1>6. \A q \in 1..Len(cells) : \E k \in 1..Len(ms) : \E p \in 1..Len(ms[k].cells) :
        q = Moved(ms, k, p - 1) + 1
  BY MovedOnto, Zenon
<1> HIDE DEF cells, Is
<1>7. ASSUME NEW k \in 1..Len(ms), NEW a \in ms[k].refs[id]
      PROVE  Moved(ms, k, a) \in RefsIn(cells, id)
  <2>1. PICK p \in 1..Len(ms[k].cells) : a = p - 1 /\ Is(ms[k].cells[p])
    BY <1>3, Zenon
  <2> QED BY <1>4, <1>5, <2>1, Zenon
<1>8. ASSUME NEW q \in 1..Len(cells), Is(cells[q])
      PROVE  \E k \in 1..Len(ms) : \E a \in ms[k].refs[id] : q - 1 = Moved(ms, k, a)
  <2>1. PICK k \in 1..Len(ms) : \E p \in 1..Len(ms[k].cells) :
          q = Moved(ms, k, p - 1) + 1
    BY <1>6, Zenon
  <2>9. PICK p \in 1..Len(ms[k].cells) : q = Moved(ms, k, p - 1) + 1
    BY <2>1
  <2>2. p - 1 \in ms[k].refs[id] /\ q - 1 = Moved(ms, k, p - 1)
    BY <1>3, <1>5, <1>8, <2>9, Zenon
  <2> QED BY <2>2, Zenon
<1>9. ASSUME NEW b \in CollectRefs(ms)[id] PROVE b \in RefsIn(cells, id)
  <2>1. PICK k \in 1..Len(ms) : \E a \in ms[k].refs[id] : b = Moved(ms, k, a)
    BY <1>2, Zenon
  <2>2. PICK a \in ms[k].refs[id] : b = Moved(ms, k, a) BY <2>1
  <2> QED BY <1>7, <2>2, Zenon
<1>10. RefsIn(cells, id) \subseteq CollectRefs(ms)[id]
  <2> SUFFICES ASSUME NEW a \in RefsIn(cells, id) PROVE a \in CollectRefs(ms)[id]
    OBVIOUS
  <2>1. PICK q \in 1..Len(cells) : a = q - 1 /\ Is(cells[q]) BY <1>4, Zenon
  <2>2. PICK k \in 1..Len(ms) : \E b \in ms[k].refs[id] : a = Moved(ms, k, b)
    BY <1>8, <2>1, Zenon
  <2> QED BY <1>2, <2>2, Zenon
<1> QED BY <1>9, <1>10, Zenon DEF cells

(* The entries that some code has, at their addresses. *)
EntriesIn(cells) ==
  {<<p - 1, cells[p].id>> : p \in {q \in DOMAIN cells : cells[q].holds = "entry"}}

LEMMA MovedDefs ==
  ASSUME NEW ms \in Seq(Good), SizesFit(ms, Len(ms))
  PROVE  /\ {<<def.address, def.id>> : def \in CollectFuncDefs(ms)} =
              EntriesIn(WriteModuleCmds(ms))
         /\ CollectFuncDefs(ms) \subseteq
              [id: Func,
               address: Sum(MainSizes(ms))..Len(WriteModuleCmds(ms)) - 1]
<1> DEFINE cells == WriteModuleCmds(ms)
           main == Sum(MainSizes(ms))
           Pairs(defs) == {<<def.address, def.id>> : def \in defs}
<1>1. DOMAIN ms = 1..Len(ms) /\ DOMAIN cells = 1..Len(cells)
      /\ \A k \in 1..Len(ms) : DOMAIN ms[k].cells = 1..Len(ms[k].cells)
  <2>1. cells \in Seq(Cell) BY WriteFacts, Zenon
  <2>2. \A k \in 1..Len(ms) : ms[k].cells \in Seq(Cell)
    BY SizesFacts, GoodFacts, Zenon
  <2>3. \A s \in Seq(Cell) : DOMAIN s = 1..Len(s) OBVIOUS
  <2> QED BY <2>1, <2>2, <2>3, SizesFacts, Zenon
<1>2. ASSUME NEW k \in 1..Len(ms), NEW p \in 1..Len(ms[k].cells)
      PROVE  /\ Moved(ms, k, p - 1) + 1 \in 1..Len(cells)
             /\ (Moved(ms, k, p - 1) + 1) - 1 = Moved(ms, k, p - 1)
             /\ cells[Moved(ms, k, p - 1) + 1] = ms[k].cells[p]
             /\ ~(p <= ms[k].main_size) =>
                  Moved(ms, k, p - 1) \in main..Len(cells) - 1
  <2>1. Moved(ms, k, p - 1) \in Nat /\ Moved(ms, k, p - 1) + 1 \in 1..Len(cells)
        /\ cells[Moved(ms, k, p - 1) + 1] = ms[k].cells[p]
        /\ (~(p <= ms[k].main_size) => ~(Moved(ms, k, p - 1) < main))
    BY MovedFacts, Zenon
  <2>2. main \in Nat /\ Len(cells) \in Nat BY WriteFacts, Zenon
  <2> HIDE DEF cells, main
  <2>3. (Moved(ms, k, p - 1) + 1) - 1 = Moved(ms, k, p - 1) BY <2>1
  <2>4. ASSUME ~(p <= ms[k].main_size)
        PROVE  Moved(ms, k, p - 1) \in main..Len(cells) - 1
    <3>1. ~(Moved(ms, k, p - 1) < main) BY <2>1, <2>4, Zenon
    <3> QED BY <2>1, <2>2, <3>1
  <2> QED BY <2>1, <2>3, <2>4, Zenon
<1>3. \A q \in 1..Len(cells) : \E k \in 1..Len(ms) : \E p \in 1..Len(ms[k].cells) :
        q = Moved(ms, k, p - 1) + 1
  BY MovedOnto, Zenon
<1>4. ASSUME NEW k \in 1..Len(ms)
      PROVE  /\ Pairs(ms[k].func_defs) =
                  {<<p - 1, ms[k].cells[p].id>> :
                     p \in {q \in 1..Len(ms[k].cells) : ms[k].cells[q].holds = "entry"}}
             /\ \A def \in ms[k].func_defs :
                  def.id \in Func
                  /\ \E p \in 1..Len(ms[k].cells) :
                       p - 1 = def.address /\ ~(p <= ms[k].main_size)
  <2>1. ms[k] \in Good BY SizesFacts, Zenon
  <2>2. DescribesCode(ms[k]) BY <2>1 DEF Good
  <2>3. ms[k].func_defs \subseteq
          [id: Func, address: ms[k].main_size..Len(ms[k].cells) - 1]
        /\ ms[k].main_size \in Nat /\ Len(ms[k].cells) \in Nat
    BY <2>1, GoodFacts, Zenon
  <2>4. ASSUME NEW def \in ms[k].func_defs
        PROVE  def.id \in Func /\ \E p \in 1..Len(ms[k].cells) :
                 p - 1 = def.address /\ ~(p <= ms[k].main_size)
    <3>1. def.id \in Func /\ def.address \in ms[k].main_size..Len(ms[k].cells) - 1
      BY <2>3
    <3>2. /\ def.address + 1 \in 1..Len(ms[k].cells)
          /\ (def.address + 1) - 1 = def.address
          /\ ~(def.address + 1 <= ms[k].main_size)
      BY <2>3, <3>1
    <3> QED BY <3>1, <3>2, Zenon
  <2> QED BY <1>1, <2>2, <2>4, Zenon DEF DescribesCode
<1>5. \A x : x \in CollectFuncDefs(ms) <=>
               \E k \in 1..Len(ms) : \E def \in ms[k].func_defs :
                 x = [id |-> def.id, address |-> Moved(ms, k, def.address)]
  <2>1. CollectFuncDefs(ms) =
          UNION {{[id |-> def.id, address |-> Moved(ms, k, def.address)] :
                    def \in ms[k].func_defs} : k \in 1..Len(ms)}
    BY <1>1, Zenon DEF CollectFuncDefs
  <2> HIDE DEF cells, main
  <2> QED BY <2>1
<1>6. EntriesIn(cells) =
        {<<p - 1, cells[p].id>> : p \in {q \in 1..Len(cells) : cells[q].holds = "entry"}}
  BY <1>1, Zenon DEF EntriesIn
<1> HIDE DEF cells, main
<1>7. ASSUME NEW k \in 1..Len(ms), NEW def \in ms[k].func_defs
      PROVE  /\ <<Moved(ms, k, def.address), def.id>> \in EntriesIn(cells)
             /\ [id |-> def.id, address |-> Moved(ms, k, def.address)] \in
                  [id: Func, address: main..Len(cells) - 1]
  <2>1. <<def.address, def.id>> \in Pairs(ms[k].func_defs) BY Zenon
  <2>2. PICK p \in {q \in 1..Len(ms[k].cells) : ms[k].cells[q].holds = "entry"} :
          <<def.address, def.id>> = <<p - 1, ms[k].cells[p].id>>
    <3>1. <<def.address, def.id>> \in
            {<<p - 1, ms[k].cells[p].id>> :
               p \in {q \in 1..Len(ms[k].cells) : ms[k].cells[q].holds = "entry"}}
      BY <1>4, <2>1, Zenon
    <3> QED BY <3>1, Zenon
  <2>3. def.address = p - 1 /\ def.id = ms[k].cells[p].id BY <2>2, Zenon
  <2>4. PICK r \in 1..Len(ms[k].cells) : r - 1 = def.address /\ ~(r <= ms[k].main_size)
    BY <1>4, Zenon
  <2>5. def.id \in Func BY <1>4, Zenon
  <2>6. Moved(ms, k, def.address) \in main..Len(cells) - 1 BY <1>2, <2>4, Zenon
  <2>7. <<Moved(ms, k, def.address), def.id>> \in EntriesIn(cells)
    <3> DEFINE q == Moved(ms, k, p - 1) + 1
    <3>1. q \in 1..Len(cells) /\ q - 1 = Moved(ms, k, p - 1)
          /\ cells[q] = ms[k].cells[p]
      BY <1>2, Zenon
    <3> HIDE DEF q
    <3>2. cells[q].holds = "entry" BY <2>2, <3>1, Zenon
    <3>3. <<q - 1, cells[q].id>> \in EntriesIn(cells) BY <1>6, <3>1, <3>2, Zenon
    <3> QED BY <2>3, <3>1, <3>3, Zenon
  <2> QED BY <2>5, <2>6, <2>7
<1>8. ASSUME NEW q \in 1..Len(cells), cells[q].holds = "entry"
      PROVE  \E k \in 1..Len(ms) : \E def \in ms[k].func_defs :
               <<q - 1, cells[q].id>> = <<Moved(ms, k, def.address), def.id>>
  <2>1. PICK k \in 1..Len(ms) : \E p \in 1..Len(ms[k].cells) :
          q = Moved(ms, k, p - 1) + 1
    BY <1>3, Zenon
  <2>9. PICK p \in 1..Len(ms[k].cells) : q = Moved(ms, k, p - 1) + 1
    BY <2>1
  <2>2. q - 1 = Moved(ms, k, p - 1) /\ cells[q] = ms[k].cells[p]
    BY <1>2, <2>9, Zenon
  <2>3. <<p - 1, ms[k].cells[p].id>> \in Pairs(ms[k].func_defs)
    BY <1>4, <1>8, <2>2, Zenon
  <2>4. PICK def \in ms[k].func_defs :
          <<p - 1, ms[k].cells[p].id>> = <<def.address, def.id>>
    BY <2>3, Zenon
  <2>5. p - 1 = def.address /\ ms[k].cells[p].id = def.id BY <2>4, Zenon
  <2> QED BY <2>2, <2>5, Zenon
<1>9. ASSUME NEW def \in CollectFuncDefs(ms)
      PROVE  /\ <<def.address, def.id>> \in EntriesIn(cells)
             /\ def \in [id: Func, address: main..Len(cells) - 1]
  <2>1. PICK k \in 1..Len(ms) : \E d \in ms[k].func_defs :
          def = [id |-> d.id, address |-> Moved(ms, k, d.address)]
    BY <1>5, Zenon
  <2>2. PICK d \in ms[k].func_defs :
          def = [id |-> d.id, address |-> Moved(ms, k, d.address)]
    BY <2>1
  <2>3. def.address = Moved(ms, k, d.address) /\ def.id = d.id BY <2>2
  <2> QED BY <1>7, <2>2, <2>3, Zenon
<1>10. ASSUME NEW e \in EntriesIn(cells) PROVE e \in Pairs(CollectFuncDefs(ms))
  <2>1. PICK q \in 1..Len(cells) :
          cells[q].holds = "entry" /\ e = <<q - 1, cells[q].id>>
    BY <1>6, Zenon
  <2>2. PICK k \in 1..Len(ms) : \E def \in ms[k].func_defs :
          e = <<Moved(ms, k, def.address), def.id>>
    BY <1>8, <2>1, Zenon
  <2>3. PICK def \in ms[k].func_defs : e = <<Moved(ms, k, def.address), def.id>>
    BY <2>2
  <2> DEFINE to == [id |-> def.id, address |-> Moved(ms, k, def.address)]
  <2>4. to \in CollectFuncDefs(ms) BY <1>5, Zenon
  <2>5. to.address = Moved(ms, k, def.address) /\ to.id = def.id OBVIOUS
  <2> HIDE DEF to
  <2> QED BY <2>3, <2>4, <2>5, Zenon
<1>11. Pairs(CollectFuncDefs(ms)) = EntriesIn(cells) BY <1>9, <1>10, Zenon
<1> QED BY <1>9, <1>11, Zenon DEF cells, main

LEMMA SumTwice ==
  ASSUME NEW s \in Seq(Nat), NEW t \in Seq(Nat), Len(s) = Len(t),
         \A k \in 1..Len(s) : 2 * s[k] <= t[k]
  PROVE  2 * Sum(s) <= Sum(t)
<1> DEFINE P == {n \in Nat : n <= Len(s) => 2 * SumTo(s, n) <= SumTo(t, n)}
<1>1. 0 \in P
  <2>1. SumTo(s, 0) = 0 /\ SumTo(t, 0) = 0 BY SumToFacts, Zenon
  <2> QED BY <2>1
<1>2. ASSUME NEW n \in P, n + 1 <= Len(s)
      PROVE  2 * SumTo(s, n + 1) <= SumTo(t, n + 1)
  <2>1. n + 1 \in 1..Len(s) /\ (n + 1) - 1 = n /\ n \in 0..Len(s)
        /\ 2 * SumTo(s, n) <= SumTo(t, n)
    BY <1>2
  <2>2. SumTo(s, n + 1) = SumTo(s, n) + s[n + 1] BY <2>1, SumToFacts, Zenon
  <2>3. SumTo(t, n + 1) = SumTo(t, n) + t[n + 1] BY <2>1, SumToFacts, Zenon
  <2>4. SumTo(s, n) \in Nat /\ SumTo(t, n) \in Nat BY <2>1, SumToFacts, Zenon
  <2>5. s[n + 1] \in Nat /\ t[n + 1] \in Nat
    <3>1. \A x \in Seq(Nat) : \A k \in 1..Len(x) : x[k] \in Nat OBVIOUS
    <3> QED BY <2>1, <3>1, Zenon
  <2>6. 2 * s[n + 1] <= t[n + 1] BY <2>1, Zenon
  <2>7. \A a, b, c, d \in Nat : 2 * a <= b /\ 2 * c <= d => 2 * (a + c) <= b + d
    OBVIOUS
  <2> QED BY <2>1, <2>2, <2>3, <2>4, <2>5, <2>6, <2>7, Zenon
<1>3. \A n \in P : n + 1 \in P BY <1>2
<1>4. P \in SUBSET Nat OBVIOUS
<1>5. P = Nat BY <1>1, <1>3, <1>4, SetInduction, Zenon
<1>6. Len(s) \in Nat /\ Len(s) <= Len(s) OBVIOUS
<1> QED BY <1>5, <1>6, Zenon DEF Sum

(* A module's variables are those that its main code creates. *)
LEMMA MainCreates ==
  ASSUME NEW ms \in Seq(Good), NEW k \in 1..Len(ms)
  PROVE  /\ CreatedIn(MainCmds(ms)[k]) = ms[k].var_defs
         /\ \A i \in 1..Len(FuncCmds(ms)[k]) : FuncCmds(ms)[k][i].holds # "create"
<1> DEFINE a == MainCmds(ms)[k]
           b == FuncCmds(ms)[k]
           c == ms[k].cells
           n == ms[k].main_size
<1>1. /\ c \in Seq(Cell) /\ Len(c) \in Nat /\ n \in Nat /\ n <= Len(c)
      /\ ms[k].var_defs = CreatedIn(c)
      /\ \A p \in 1..Len(c) : c[p].holds = "create" => p <= n
  BY SizesFacts, GoodFacts, Zenon
<1>2. /\ Len(a) = n /\ \A i \in 1..n : a[i] = c[i] BY MainPart, Zenon
<1>3. /\ Len(b) = Len(c) - n /\ \A i \in 1..Len(c) - n : b[i] = c[n + i]
  BY FuncPart, Zenon
<1>4. a \in Seq(Cell) /\ b \in Seq(Cell)
  <2>1. MainCmds(ms) \in Seq(Seq(Cell)) /\ FuncCmds(ms) \in Seq(Seq(Cell))
    BY PartsFacts, Zenon
  <2>2. k \in 1..Len(MainCmds(ms)) /\ k \in 1..Len(FuncCmds(ms))
    BY MainPart, FuncPart, Zenon
  <2>3. \A s \in Seq(Seq(Cell)) : \A i \in 1..Len(s) : s[i] \in Seq(Cell) OBVIOUS
  <2> QED BY <2>1, <2>2, <2>3, Zenon
<1> HIDE DEF a, b, c, n
<1>5. ASSUME NEW i \in 1..Len(b) PROVE b[i].holds # "create"
  <2>1. i \in 1..Len(c) - n /\ n + i \in 1..Len(c) /\ ~(n + i <= n) BY <1>1, <1>3
  <2> QED BY <1>1, <1>3, <2>1, Zenon
<1>6. CreatedIn(b) = <<>> BY <1>4, <1>5, CreatedNothing, Zenon
<1>7. c = a \o b
  <2>1. Len(c) = Len(a) + Len(b) BY <1>1, <1>2, <1>3
  <2>2. (\A i \in 1..Len(a) : c[i] = a[i]) /\ (\A i \in 1..Len(b) : c[Len(a) + i] = b[i])
    BY <1>2, <1>3, Zenon
  <2> QED BY <1>1, <1>4, <2>1, <2>2, JoinIs, Zenon
<1>8. CreatedIn(c) = CreatedIn(a) \o <<>> BY <1>4, <1>6, <1>7, CreatedTwo, Zenon
<1>9. CreatedIn(a) \o <<>> = CreatedIn(a)
  <2>1. CreatedIn(a) \in Seq(IdOrNone) BY <1>4, CreatedPartsFacts, Zenon
  <2> QED BY <2>1, ConcatEmptySeq, Zenon
<1> QED BY <1>1, <1>5, <1>8, <1>9, Zenon DEF a, b, c

LEMMA MovedVars ==
  ASSUME NEW ms \in Seq(Good)
  PROVE  /\ CollectGlobalVarDefs(ms) = CreatedIn(WriteModuleCmds(ms))
         /\ CollectGlobalVarDefs(ms) \in Seq(Var)
         /\ 2 * Len(CollectGlobalVarDefs(ms)) <= Sum(MainSizes(ms))
<1> DEFINE vd == [k \in DOMAIN ms |-> ms[k].var_defs]
           L == Len(ms)
           a == Concat(MainCmds(ms))
           b == Concat(FuncCmds(ms))
<1>1. L \in Nat /\ DOMAIN ms = 1..L
      /\ \A k \in 1..L : ms[k].var_defs \in Seq(Var)
                         /\ 2 * Len(ms[k].var_defs) <= ms[k].main_size
  BY SizesFacts, GoodFacts, Zenon
<1>2. vd \in [1..L -> Seq(Var)] /\ \A k \in 1..L : vd[k] = ms[k].var_defs
  BY <1>1, Zenon
<1>3. CollectGlobalVarDefs(ms) = Concat(vd) BY Zenon DEF CollectGlobalVarDefs
<1> HIDE DEF vd
<1>4. vd \in Seq(Seq(Var)) /\ Len(vd) = L BY <1>1, <1>2, FunctionSeq, Zenon
<1>5. /\ MainCmds(ms) \in Seq(Seq(Cell)) /\ Len(MainCmds(ms)) = L
      /\ FuncCmds(ms) \in Seq(Seq(Cell)) /\ Len(FuncCmds(ms)) = L
  BY PartsFacts, Zenon
<1>6. CreatedByParts(MainCmds(ms)) = vd
  <2> DEFINE x == CreatedByParts(MainCmds(ms))
  <2>1. x \in Seq(Seq(IdOrNone)) /\ Len(x) = L
        /\ \A k \in 1..L : x[k] = CreatedIn(MainCmds(ms)[k])
    BY <1>5, CreatedByPartsFacts, Zenon
  <2>2. \A k \in 1..L : x[k] = vd[k] BY <1>2, <2>1, MainCreates, Zenon
  <2>3. \A s \in Seq(Seq(Var)) : s \in Seq(Seq(IdOrNone))
    <3>1. Var \subseteq IdOrNone BY DEF IdOrNone, Id
    <3>2. Seq(Var) \subseteq Seq(IdOrNone) BY <3>1
    <3>3. \A T, U : T \subseteq U => Seq(T) \subseteq Seq(U) OBVIOUS
    <3> QED BY <3>2, <3>3, Zenon
  <2> HIDE DEF x
  <2>4. vd \in Seq(Seq(IdOrNone)) BY <1>4, <2>3, Zenon
  <2>5. Len(x) = Len(vd) /\ \A k \in 1..Len(x) : x[k] = vd[k]
    BY <1>4, <2>1, <2>2, Zenon
  <2>6. x = vd BY <2>1, <2>4, <2>5, SeqEqual, Zenon
  <2> QED BY <2>6 DEF x
<1>7. a \in Seq(Cell) /\ b \in Seq(Cell) BY WriteFacts, Zenon
<1>8. ASSUME NEW q \in 1..Len(b) PROVE b[q].holds # "create"
  <2>1. PICK k \in 1..L : \E i \in 1..Len(FuncCmds(ms)[k]) :
          q = SumBefore(Lens(FuncCmds(ms)), k) + i
    <3>1. q \in 1..Len(Concat(FuncCmds(ms))) OBVIOUS
    <3>2. \E k \in 1..Len(FuncCmds(ms)) : \E i \in 1..Len(FuncCmds(ms)[k]) :
            q = SumBefore(Lens(FuncCmds(ms)), k) + i
      BY <1>5, <3>1, ConcatFinds, Zenon
    <3> QED BY <1>5, <3>2, Zenon
  <2>2. PICK i \in 1..Len(FuncCmds(ms)[k]) : q = SumBefore(Lens(FuncCmds(ms)), k) + i
    BY <2>1
  <2>3. k \in 1..Len(FuncCmds(ms)) BY <1>5, Zenon
  <2>4. Concat(FuncCmds(ms))[SumBefore(Lens(FuncCmds(ms)), k) + i] = FuncCmds(ms)[k][i]
    BY <1>5, <2>3, ConcatAt, Zenon
  <2> QED BY <2>2, <2>4, MainCreates, Zenon
<1>9. CreatedIn(WriteModuleCmds(ms)) = Concat(vd)
  <2>1. CreatedIn(a) = Concat(vd) BY <1>5, <1>6, CreatedConcat, Zenon
  <2> HIDE DEF a, b
  <2>2. CreatedIn(b) = <<>> BY <1>7, <1>8, CreatedNothing, Zenon
  <2>3. CreatedIn(a \o b) = CreatedIn(a) \o <<>> BY <1>7, <2>2, CreatedTwo, Zenon
  <2>4. CreatedIn(a) \in Seq(IdOrNone) BY <1>7, CreatedPartsFacts, Zenon
  <2>5. CreatedIn(a) \o <<>> = CreatedIn(a) BY <2>4, ConcatEmptySeq, Zenon
  <2> QED BY <2>1, <2>3, <2>5, Zenon DEF a, b, WriteModuleCmds
<1>10. Concat(vd) \in Seq(Var) /\ Len(Concat(vd)) = Sum(Lens(vd))
  BY <1>4, ConcatFacts, Zenon
<1>11. 2 * Sum(Lens(vd)) <= Sum(MainSizes(ms))
  <2>1. Lens(vd) \in Seq(Nat) /\ Len(Lens(vd)) = L
        /\ \A k \in 1..L : Lens(vd)[k] = Len(vd[k])
    BY <1>4, LensFacts, Zenon
  <2>2. MainSizes(ms) \in Seq(Nat) /\ Len(MainSizes(ms)) = L
        /\ \A k \in 1..L : MainSizes(ms)[k] = ms[k].main_size
    BY SizesFacts, Zenon
  <2>3. \A k \in 1..L : 2 * Lens(vd)[k] <= MainSizes(ms)[k]
    BY <1>1, <1>2, <2>1, <2>2, Zenon
  <2> QED BY <2>1, <2>2, <2>3, SumTwice, Zenon
<1> QED BY <1>3, <1>9, <1>10, <1>11, Zenon

(* Linking modules that describe their code makes one that does: each      *)
(* reference and each function is listed where it was moved to and no      *)
(* other address is, and the variables are listed as main code creates     *)
(* them (BaseLinker::ProcessModule, GetAbsoluteAddress, LibLinker::Link).  *)
THEOREM LinkKeepsTables ==
  ASSUME NEW ms \in Seq(Good), LibLinks(ms)
  PROVE  LinkLib(ms) \in Good
<1> DEFINE cells == WriteModuleCmds(ms)
           main == Sum(MainSizes(ms))
           m == LinkLib(ms)
<1>1. SizesFit(ms, Len(ms)) BY DEF LibLinks
<1>2. /\ m.cells = cells /\ m.main_size = main
      /\ m.func_defs = CollectFuncDefs(ms) /\ m.var_defs = CollectGlobalVarDefs(ms)
      /\ m.native_defs = CollectNativeFuncDefs(ms) /\ m.refs = CollectRefs(ms)
      /\ m = [cells |-> m.cells, main_size |-> m.main_size,
              func_defs |-> m.func_defs, var_defs |-> m.var_defs,
              native_defs |-> m.native_defs, refs |-> m.refs]
  BY DEF LinkLib
<1>3. cells \in Seq(Cell) /\ main \in Nat /\ Len(cells) \in Nat
      /\ Len(cells) = main + Sum(FuncSizes(ms))
      /\ Len(cells) = SumTo(CodeSizes(ms), Len(ms))
  BY WriteFacts, Zenon
<1>4. main \in 0..Len(cells) /\ Len(cells) < Word /\ DOMAIN cells = 1..Len(cells)
  <2>1. Len(ms) \in 0..Len(ms) OBVIOUS
  <2>2. Sum(FuncSizes(ms)) \in Nat BY <2>1, SizesAdd, SizesFacts, Zenon DEF Sum
  <2>3. SumTo(CodeSizes(ms), Len(ms)) < Word BY <1>1, <2>1, SizesSmall, Zenon
  <2> QED BY <1>3, <2>2, <2>3
<1>5. /\ {<<def.address, def.id>> : def \in CollectFuncDefs(ms)} = EntriesIn(cells)
      /\ CollectFuncDefs(ms) \subseteq [id: Func, address: main..Len(cells) - 1]
  BY <1>1, MovedDefs, Zenon
<1>6. /\ CollectGlobalVarDefs(ms) = CreatedIn(cells)
      /\ CollectGlobalVarDefs(ms) \in Seq(Var)
      /\ 2 * Len(CollectGlobalVarDefs(ms)) <= main
  BY MovedVars, Zenon
<1>7. \A id \in Id : CollectRefs(ms)[id] = RefsIn(cells, id)
  BY <1>1, MovedRefs, Zenon
<1>8. CollectRefs(ms) \in [Id -> SUBSET (0..Len(cells) - 1)]
  <2>1. ASSUME NEW id \in Id PROVE RefsIn(cells, id) \subseteq 0..Len(cells) - 1
    <3> HIDE DEF cells
    <3>1. \A q \in 1..Len(cells) : q - 1 \in 0..Len(cells) - 1 BY <1>3
    <3> QED BY <1>4, <3>1, Zenon DEF RefsIn
  <2>2. CollectRefs(ms) = [id \in Id |-> CollectRefs(ms)[id]] BY Zenon DEF CollectRefs
  <2>3. \A id \in Id : CollectRefs(ms)[id] \in SUBSET (0..Len(cells) - 1)
    BY <1>7, <2>1, Zenon
  <2> QED BY <2>2, <2>3, Zenon
<1>9. CollectNativeFuncDefs(ms) \subseteq Native
  <2>1. \A k \in DOMAIN ms : ms[k].native_defs \subseteq Native
    BY SizesFacts, GoodFacts, Zenon
  <2> QED BY <2>1 DEF CollectNativeFuncDefs
<1>10. ASSUME NEW q \in 1..Len(cells), cells[q].holds = "create" PROVE q <= main
  <2>1. PICK k \in 1..Len(ms) : \E p \in 1..Len(ms[k].cells) :
          q = Moved(ms, k, p - 1) + 1
    BY <1>1, MovedOnto, Zenon
  <2>2. PICK p \in 1..Len(ms[k].cells) : q = Moved(ms, k, p - 1) + 1 BY <2>1
  <2>3. /\ Moved(ms, k, p - 1) \in Nat /\ cells[q] = ms[k].cells[p]
        /\ p <= ms[k].main_size => Moved(ms, k, p - 1) < main
    BY <1>1, <2>2, MovedFacts, Zenon
  <2>4. p <= ms[k].main_size BY <1>10, <2>3, SizesFacts, GoodFacts, Zenon
  <2>5. Moved(ms, k, p - 1) < main BY <2>3, <2>4, Zenon
  <2> HIDE DEF main, cells
  <2> QED BY <1>3, <2>2, <2>3, <2>5
<1>15. ASSUME NEW q \in 1..Len(cells) PROVE cells[q].value = None
  <2>1. PICK k \in 1..Len(ms) : \E p \in 1..Len(ms[k].cells) :
          q = Moved(ms, k, p - 1) + 1
    BY <1>1, MovedOnto, Zenon
  <2>2. PICK p \in 1..Len(ms[k].cells) : q = Moved(ms, k, p - 1) + 1 BY <2>1
  <2>3. cells[q] = ms[k].cells[p] BY <1>1, <2>2, MovedFacts, Zenon
  <2>4. ms[k] \in Good BY SizesFacts, Zenon
  <2>5. \A i \in 1..Len(ms[k].cells) : ms[k].cells[i].value = None
    BY <2>4, GoodFacts, Zenon
  <2> QED BY <2>3, <2>5, Zenon
<1> HIDE DEF cells, main, m
<1>11. IsModule(m) BY <1>2, <1>3, <1>4, <1>5, <1>6, <1>8, <1>9, Zenon DEF IsModule
<1>12. DescribesCode(m)
  BY <1>2, <1>4, <1>5, <1>6, <1>7, <1>10, Zenon DEF DescribesCode, EntriesIn
<1>13. m \in Module
  <2>1. main..Len(cells) - 1 \subseteq Nat /\ 0..Len(cells) - 1 \subseteq Nat
    BY <1>3
  <2>2. m.refs \in [Id -> SUBSET Nat] BY <1>2, <1>8, <2>1
  <2>3. m.func_defs \subseteq [id: Func, address: Nat] BY <1>2, <1>5, <2>1
  <2> QED BY <1>2, <1>3, <1>6, <1>9, <2>2, <2>3 DEF Module
<1>14. Len(m.cells) < Word /\ 2 * Len(m.var_defs) <= m.main_size
  BY <1>2, <1>4, <1>6, Zenon
<1>16. \A q \in 1..Len(m.cells) : m.cells[q].value = None BY <1>2, <1>15, Zenon
<1> QED BY <1>11, <1>12, <1>13, <1>14, <1>16 DEF Good, m

-----------------------------------------------------------------------------
(* Modules that are compiled                                               *)

LEMMA ConcatOne ==
  ASSUME NEW A, NEW ss \in Seq(Seq(A)), Len(ss) = 1
  PROVE  Concat(ss) = ss[1]
<1>1. 1 \in 1..Len(ss) /\ 1 - 1 = 0 OBVIOUS
<1>2. ConcatTo(ss, 1) = ConcatTo(ss, 0) \o ss[1] /\ ConcatTo(ss, 0) = <<>>
  BY <1>1, ConcatToFacts, Zenon
<1>3. ss[1] \in Seq(A) BY <1>1
<1>4. <<>> \o ss[1] = ss[1] BY <1>3, ConcatEmptySeq, Zenon
<1> QED BY <1>2, <1>4, Zenon DEF Concat

NoEntry == {cell \in Cell : cell.holds # "entry" /\ cell.value = None}
NoCreate ==
  {cell \in Cell : cell.holds \notin {"entry", "create"} /\ cell.value = None}

LEMMA CellFacts ==
  ASSUME NEW id \in Id
  PROVE  /\ Plain \in NoCreate /\ Ref(id) \in NoCreate /\ Create(id) \in NoEntry
         /\ Plain.holds = "cmd" /\ Ref(id).holds = "ref"
         /\ Create(id).holds = "create" /\ Create(id).id = id
         /\ Entry(id) \in Cell /\ Entry(id).holds = "entry" /\ Entry(id).id = id
         /\ Entry(id).value = None
BY DEF Plain, Ref, Create, Entry, Cell, NoCreate, NoEntry

LEMMA CreatedOne ==
  ASSUME NEW cells \in Seq(Cell), Len(cells) = 1
  PROVE  CreatedIn(cells) = Creates(cells[1])
<1>1. 1 \in 1..Len(cells) OBVIOUS
<1> QED BY <1>1, ConcatOne, CreatedPartsFacts, Zenon

StmtCreates(stmt) == IF stmt.defines THEN <<stmt.id>> ELSE <<>>

LEMMA OneAndOne ==
  ASSUME NEW A, NEW a \in A, NEW b \in A
  PROVE  <<a, b>> = <<a>> \o <<b>>
<1>1. /\ <<a>> \in Seq(A) /\ <<b>> \in Seq(A) /\ <<a, b>> \in Seq(A)
      /\ Len(<<a>>) = 1 /\ Len(<<b>>) = 1 /\ Len(<<a, b>>) = 2
      /\ <<a>>[1] = a /\ <<b>>[1] = b /\ <<a, b>>[1] = a /\ <<a, b>>[2] = b
  OBVIOUS
<1> DEFINE x == <<a>>
           y == <<b>>
           z == <<a, b>>
<1> HIDE DEF x, y, z
<1>2. /\ x \in Seq(A) /\ y \in Seq(A) /\ z \in Seq(A)
      /\ Len(x) = 1 /\ Len(y) = 1 /\ Len(z) = 2
      /\ x[1] = a /\ y[1] = b /\ z[1] = a /\ z[2] = b
  BY <1>1, Zenon DEF x, y, z
<1>3. Len(z) = Len(x) + Len(y) BY <1>2
<1>4. \A i \in 1..Len(x) : z[i] = x[i]
  <2>1. \A i \in 1..Len(x) : i = 1 BY <1>2
  <2> QED BY <1>2, <2>1, Zenon
<1>5. \A i \in 1..Len(y) : z[Len(x) + i] = y[i]
  <2>1. \A i \in 1..Len(y) : i = 1 /\ Len(x) + i = 2 BY <1>2
  <2> QED BY <1>2, <2>1, Zenon
<1>6. z = x \o y BY <1>2, <1>3, <1>4, <1>5, JoinIs, Zenon
<1> QED BY <1>6, Zenon DEF x, y, z

LEMMA StmtFacts ==
  ASSUME NEW stmt \in Stmt
  PROVE  /\ VisitStmt(stmt) \in Seq(NoEntry) /\ VisitStmt(stmt) \in Seq(Cell)
         /\ Len(VisitStmt(stmt)) = 2
         /\ CreatedIn(VisitStmt(stmt)) = StmtCreates(stmt)
         /\ StmtCreates(stmt) \in Seq(Var)
         /\ Len(StmtCreates(stmt)) \in Nat /\ 2 * Len(StmtCreates(stmt)) <= 2
<1>1. stmt.id \in Id /\ stmt.defines \in BOOLEAN /\ (stmt.defines => stmt.id \in Var)
  BY DEF Stmt
<1> DEFINE a == IF stmt.defines THEN Create(stmt.id) ELSE Plain
           b == Ref(stmt.id)
<1>2. a \in NoEntry /\ b \in NoCreate
      /\ (stmt.defines => a.holds = "create" /\ a.id = stmt.id)
      /\ (~stmt.defines => a \in NoCreate)
  <2>1. NoCreate \subseteq NoEntry BY DEF NoCreate, NoEntry
  <2> QED BY <1>1, <2>1, CellFacts, Zenon
<1>3. b \in NoEntry /\ a \in Cell /\ b \in Cell /\ b.holds # "create"
      /\ (~stmt.defines => a.holds # "create")
  BY <1>2 DEF NoCreate, NoEntry
<1>4. VisitStmt(stmt) = <<a, b>> BY DEF VisitStmt
<1> HIDE DEF a, b
<1>5. /\ <<a, b>> \in Seq(NoEntry) /\ <<a, b>> \in Seq(Cell) /\ Len(<<a, b>>) = 2
      /\ <<a>> \in Seq(Cell) /\ Len(<<a>>) = 1 /\ <<a>>[1] = a
      /\ <<b>> \in Seq(Cell) /\ Len(<<b>>) = 1 /\ <<b>>[1] = b
      /\ <<a, b>> = <<a>> \o <<b>>
  <2>1. /\ \A T : \A x, y \in T : <<x, y>> \in Seq(T) /\ <<x>> \in Seq(T)
        /\ Len(<<a, b>>) = 2 /\ Len(<<a>>) = 1 /\ <<a>>[1] = a
        /\ Len(<<b>>) = 1 /\ <<b>>[1] = b
    OBVIOUS
  <2>2. <<a, b>> = <<a>> \o <<b>> BY <1>3, OneAndOne, Zenon
  <2> QED BY <1>2, <1>3, <2>1, <2>2, Zenon
<1>6. /\ CreatedIn(<<a, b>>) = CreatedIn(<<a>>) \o CreatedIn(<<b>>)
      /\ CreatedIn(<<a>>) = Creates(a) /\ CreatedIn(<<b>>) = Creates(b)
  BY <1>5, CreatedTwo, CreatedOne, Zenon
<1>7. Creates(b) = <<>> /\ Creates(a) = StmtCreates(stmt)
  BY <1>1, <1>2, <1>3 DEF Creates, StmtCreates
<1>8. /\ StmtCreates(stmt) \in Seq(Var) /\ StmtCreates(stmt) \o <<>> = StmtCreates(stmt)
      /\ Len(StmtCreates(stmt)) \in Nat /\ 2 * Len(StmtCreates(stmt)) <= 2
  <2>1. CASE stmt.defines
    <3>1. StmtCreates(stmt) = <<stmt.id>> BY <2>1 DEF StmtCreates
    <3> QED BY <1>1, <2>1, <3>1
  <2>2. CASE ~stmt.defines
    <3>1. StmtCreates(stmt) = <<>> BY <2>2 DEF StmtCreates
    <3> QED BY <3>1
  <2> QED BY <1>1, <2>1, <2>2
<1> QED BY <1>4, <1>5, <1>6, <1>7, <1>8, Zenon

LEMMA BodyFacts ==
  ASSUME NEW def \in FuncDef
  PROVE  /\ VisitFuncDefWithBody(def) \in Seq(Cell)
         /\ 1 \in 1..Len(VisitFuncDefWithBody(def))
         /\ VisitFuncDefWithBody(def)[1] = Entry(def.id)
         /\ def.id \in Func
         /\ \A j \in 1..Len(VisitFuncDefWithBody(def)) :
              /\ j # 1 => VisitFuncDefWithBody(def)[j].holds # "entry"
              /\ VisitFuncDefWithBody(def)[j].holds # "create"
              /\ VisitFuncDefWithBody(def)[j].value = None
<1> DEFINE uses == [i \in DOMAIN def.uses |-> <<Plain, Ref(def.uses[i])>>]
           code == Concat(uses)
           e == Entry(def.id)
<1>1. def.id \in Func /\ def.uses \in Seq(Id) BY DEF FuncDef
<1>2. DOMAIN def.uses = 1..Len(def.uses) /\ Len(def.uses) \in Nat
      /\ \A i \in 1..Len(def.uses) : def.uses[i] \in Id
  BY <1>1
<1>3. \A i \in 1..Len(def.uses) : <<Plain, Ref(def.uses[i])>> \in Seq(NoCreate)
  <2> TAKE i \in 1..Len(def.uses)
  <2>1. Plain \in NoCreate /\ Ref(def.uses[i]) \in NoCreate BY <1>2, CellFacts, Zenon
  <2> QED BY <2>1
<1>4. uses \in [1..Len(def.uses) -> Seq(NoCreate)] BY <1>2, <1>3, Zenon
<1> HIDE DEF uses
<1>5. uses \in Seq(Seq(NoCreate)) BY <1>2, <1>4, FunctionSeq, Zenon
<1>6. code \in Seq(NoCreate) BY <1>5, ConcatFacts, Zenon
<1>7. e \in Cell /\ e.holds = "entry" /\ e.value = None
  <2>1. def.id \in Id BY <1>1 DEF Id
  <2> QED BY <2>1, CellFacts, Zenon
<1>8. VisitFuncDefWithBody(def) = <<e>> \o code BY Zenon DEF VisitFuncDefWithBody, uses
<1>9. e = Entry(def.id) OBVIOUS
<1> HIDE DEF code, e
<1>10. \A j \in 1..Len(code) : code[j] \in NoCreate BY <1>6
<1>11. NoCreate \subseteq Cell
       /\ \A cell \in NoCreate :
            cell.holds # "entry" /\ cell.holds # "create" /\ cell.value = None
  BY DEF NoCreate
<1>12. code \in Seq(Cell) /\ Len(code) \in Nat BY <1>6, <1>11
<1>13. /\ <<e>> \o code \in Seq(Cell) /\ Len(<<e>> \o code) = 1 + Len(code)
       /\ (<<e>> \o code)[1] = e
       /\ \A j \in 2..1 + Len(code) : (<<e>> \o code)[j] = code[j - 1]
  BY <1>7, <1>12
<1> DEFINE all == <<e>> \o code
<1> HIDE DEF all
<1>14. /\ all \in Seq(Cell) /\ Len(all) = 1 + Len(code) /\ all[1] = e
       /\ \A j \in 2..1 + Len(code) : all[j] = code[j - 1]
  BY <1>13 DEF all
<1>15. ASSUME NEW j \in 1..Len(all)
       PROVE  /\ j # 1 => all[j].holds # "entry"
              /\ all[j].holds # "create" /\ all[j].value = None
  <2>1. CASE j = 1 BY <2>1, <1>7, <1>14
  <2>2. CASE j # 1
    <3>1. j \in 2..1 + Len(code) /\ j - 1 \in 1..Len(code) BY <2>2, <1>12, <1>14
    <3> QED BY <3>1, <1>10, <1>11, <1>14, Zenon
  <2> QED BY <2>1, <2>2
<1>16. 1 \in 1..Len(all) BY <1>12, <1>14
<1> QED BY <1>1, <1>8, <1>9, <1>14, <1>15, <1>16, Zenon DEF all

(* A module that the compiler makes describes its code: what it notes of   *)
(* each function, variable and reference while it writes the main code     *)
(* first and the functions behind it is where they are in the end          *)
(* (SimpleCodeGenerator::Generate, VisitFuncDefWithBody).                  *)
THEOREM CompiledKeepsTables ==
  ASSUME NEW text \in Program, Len(GenerateModule(text).cells) < Word
  PROVE  GenerateModule(text) \in Good
<1> DEFINE stmts == [i \in DOMAIN text.main |-> VisitStmt(text.main[i])]
           bodies == [i \in DOMAIN text.funcs |-> VisitFuncDefWithBody(text.funcs[i])]
           parts == [i \in DOMAIN text.main |-> StmtCreates(text.main[i])]
           main == Concat(stmts)
           code == Concat(bodies)
           cells == main \o code
           start(i) == Len(main) + SumBefore(Lens(bodies), i)
           m == GenerateModule(text)
           S == Len(text.main)
           F == Len(text.funcs)
           defs == {[id |-> text.funcs[i].id, address |-> start(i)] : i \in 1..F}
<1>1. /\ text.main \in Seq(Stmt) /\ S \in Nat /\ DOMAIN text.main = 1..S
      /\ text.funcs \in Seq(FuncDef) /\ F \in Nat /\ DOMAIN text.funcs = 1..F
      /\ text.natives \subseteq Native
      /\ (\A i \in 1..S : text.main[i] \in Stmt)
      /\ (\A i \in 1..F : text.funcs[i] \in FuncDef)
  BY DEF Program
<1>2. /\ stmts \in [1..S -> Seq(Cell)] /\ stmts \in [1..S -> Seq(NoEntry)]
      /\ \A i \in 1..S : stmts[i] = VisitStmt(text.main[i])
  BY <1>1, StmtFacts, Zenon
<1>3. bodies \in [1..F -> Seq(Cell)]
      /\ \A i \in 1..F : bodies[i] = VisitFuncDefWithBody(text.funcs[i])
  BY <1>1, BodyFacts, Zenon
<1>4. parts \in [1..S -> Seq(Var)]
      /\ \A i \in 1..S : parts[i] = StmtCreates(text.main[i])
  BY <1>1, StmtFacts, Zenon
<1>5. /\ m.cells = cells /\ m.main_size = Len(main) /\ m.func_defs = defs
      /\ m.var_defs = Concat(parts) /\ m.native_defs = text.natives
      /\ m.refs = [id \in Id |-> RefsIn(cells, id)]
      /\ m = [cells |-> m.cells, main_size |-> m.main_size,
              func_defs |-> m.func_defs, var_defs |-> m.var_defs,
              native_defs |-> m.native_defs, refs |-> m.refs]
  <2>1. DOMAIN bodies = 1..F BY <1>1, Zenon
  <2> HIDE DEF F
  <2> QED BY <2>1 DEF GenerateModule, StmtCreates
<1> HIDE DEF stmts, bodies, parts, S, F
<1>6. /\ stmts \in Seq(Seq(Cell)) /\ stmts \in Seq(Seq(NoEntry)) /\ Len(stmts) = S
      /\ bodies \in Seq(Seq(Cell)) /\ Len(bodies) = F
      /\ parts \in Seq(Seq(Var)) /\ Len(parts) = S
  BY <1>1, <1>2, <1>3, <1>4, FunctionSeq, Zenon
<1>7. /\ main \in Seq(Cell) /\ main \in Seq(NoEntry) /\ code \in Seq(Cell)
      /\ Len(main) = Sum(Lens(stmts))
      /\ Concat(parts) \in Seq(Var) /\ Len(Concat(parts)) = Sum(Lens(parts))
  BY <1>6, ConcatFacts, Zenon
<1>8. \A i \in 1..F : \A j \in 1..Len(bodies[i]) :
        /\ SumBefore(Lens(bodies), i) + j \in 1..Len(code)
        /\ code[SumBefore(Lens(bodies), i) + j] = bodies[i][j]
  BY <1>6, ConcatAt, Zenon
<1>9. \A q \in 1..Len(code) : \E i \in 1..F : \E j \in 1..Len(bodies[i]) :
        q = SumBefore(Lens(bodies), i) + j
  BY <1>6, ConcatFinds, Zenon
<1>10. \A i \in 1..F : SumBefore(Lens(bodies), i) \in Nat
  <2> TAKE i \in 1..F
  <2>1. i - 1 \in 0..F BY <1>1
  <2> QED BY <1>6, <2>1, LensFacts, SumToFacts, Zenon DEF SumBefore
<1>11. Concat(parts) = CreatedIn(main)
  <2> DEFINE x == CreatedByParts(stmts)
  <2>1. x \in Seq(Seq(IdOrNone)) /\ Len(x) = S
        /\ \A i \in 1..S : x[i] = CreatedIn(stmts[i])
    BY <1>6, CreatedByPartsFacts, Zenon
  <2>2. \A i \in 1..S : x[i] = parts[i] BY <1>1, <1>2, <1>4, <2>1, StmtFacts, Zenon
  <2>3. CreatedIn(main) = Concat(x) BY <1>6, CreatedConcat, Zenon
  <2>4. parts \in Seq(Seq(IdOrNone))
    <3>1. Var \subseteq IdOrNone BY DEF IdOrNone, Id
    <3>2. Seq(Var) \subseteq Seq(IdOrNone) BY <3>1
    <3>3. \A T, U : T \subseteq U => Seq(T) \subseteq Seq(U) OBVIOUS
    <3> QED BY <1>6, <3>2, <3>3, Zenon
  <2> HIDE DEF x
  <2>5. Len(x) = Len(parts) /\ \A i \in 1..Len(x) : x[i] = parts[i]
    BY <1>6, <2>1, <2>2, Zenon
  <2>6. x = parts BY <2>1, <2>4, <2>5, SeqEqual, Zenon
  <2> QED BY <2>3, <2>6, Zenon
<1>12. 2 * Len(Concat(parts)) <= Len(main)
  <2>1. /\ Lens(parts) \in Seq(Nat) /\ Len(Lens(parts)) = S
        /\ \A i \in 1..S : Lens(parts)[i] = Len(parts[i])
    BY <1>6, LensFacts, Zenon
  <2>2. /\ Lens(stmts) \in Seq(Nat) /\ Len(Lens(stmts)) = S
        /\ \A i \in 1..S : Lens(stmts)[i] = Len(stmts[i])
    BY <1>6, LensFacts, Zenon
  <2>3. ASSUME NEW i \in 1..S PROVE 2 * Lens(parts)[i] <= Lens(stmts)[i]
    <3>1. text.main[i] \in Stmt BY <1>1, Zenon
    <3>2. Len(VisitStmt(text.main[i])) = 2 /\ 2 * Len(StmtCreates(text.main[i])) <= 2
      BY <3>1, StmtFacts, Zenon
    <3>3. Lens(stmts)[i] = Len(VisitStmt(text.main[i])) BY <1>2, <2>2, Zenon
    <3>4. Lens(parts)[i] = Len(StmtCreates(text.main[i])) BY <1>4, <2>1, Zenon
    <3> QED BY <3>2, <3>3, <3>4, Zenon
  <2>4. 2 * Sum(Lens(parts)) <= Sum(Lens(stmts))
    BY <2>1, <2>2, <2>3, SumTwice, Zenon
  <2> QED BY <1>7, <2>4, Zenon
<1>13. \A i \in 1..F :
         /\ 1 \in 1..Len(bodies[i]) /\ bodies[i][1] = Entry(text.funcs[i].id)
         /\ text.funcs[i].id \in Func
         /\ \A j \in 1..Len(bodies[i]) :
              /\ j # 1 => bodies[i][j].holds # "entry"
              /\ bodies[i][j].holds # "create" /\ bodies[i][j].value = None
  <2> TAKE i \in 1..F
  <2>1. text.funcs[i] \in FuncDef BY <1>1, Zenon
  <2>2. bodies[i] = VisitFuncDefWithBody(text.funcs[i]) BY <1>3, Zenon
  <2> QED BY <2>1, <2>2, BodyFacts, Zenon
<1>14. ASSUME NEW q \in 1..Len(code)
       PROVE  code[q].holds # "create" /\ code[q].value = None
  <2>1. PICK i \in 1..F : \E j \in 1..Len(bodies[i]) :
          q = SumBefore(Lens(bodies), i) + j
    BY <1>9, Zenon
  <2>2. PICK j \in 1..Len(bodies[i]) : q = SumBefore(Lens(bodies), i) + j BY <2>1
  <2>3. code[q] = bodies[i][j] BY <1>8, <2>2, Zenon
  <2> QED BY <1>13, <2>3, Zenon
<1>15. \A q \in 1..Len(main) : main[q].holds # "entry" /\ main[q].value = None
  <2>1. \A q \in 1..Len(main) : main[q] \in NoEntry BY <1>7
  <2> QED BY <2>1 DEF NoEntry
<1> HIDE DEF main, code, m, defs
<1>16. /\ cells \in Seq(Cell) /\ Len(cells) = Len(main) + Len(code)
       /\ Len(main) \in Nat /\ Len(code) \in Nat /\ DOMAIN cells = 1..Len(cells)
       /\ \A q \in 1..Len(main) : cells[q] = main[q]
       /\ \A q \in 1..Len(code) : cells[Len(main) + q] = code[q]
  <2>1. main \in Seq(Cell) /\ code \in Seq(Cell) BY <1>7
  <2>2. /\ main \o code \in Seq(Cell) /\ Len(main \o code) = Len(main) + Len(code)
        /\ \A q \in 1..Len(main) : (main \o code)[q] = main[q]
        /\ \A q \in 1..Len(code) : (main \o code)[Len(main) + q] = code[q]
    <3>1. Joined(Cell, main, code) BY <2>1, JoinFacts, Zenon
    <3> QED BY <3>1, Zenon DEF Joined
  <2>3. Len(main) \in Nat /\ Len(code) \in Nat /\ DOMAIN cells = 1..Len(cells)
    BY <2>1, <2>2
  <2> QED BY <2>2, <2>3, Zenon
<1> HIDE DEF cells
<1>17. CreatedIn(cells) = Concat(parts)
  <2>1. CreatedIn(code) = <<>> BY <1>7, <1>14, CreatedNothing, Zenon
  <2>2. CreatedIn(cells) = CreatedIn(main) \o <<>>
    BY <1>7, <2>1, CreatedTwo, Zenon DEF cells
  <2>3. CreatedIn(main) \in Seq(IdOrNone) BY <1>7, CreatedPartsFacts, Zenon
  <2>4. CreatedIn(main) \o <<>> = CreatedIn(main) BY <2>3, ConcatEmptySeq, Zenon
  <2> QED BY <1>11, <2>2, <2>4, Zenon
<1>18. ASSUME NEW q \in 1..Len(cells), ~(q <= Len(main))
       PROVE  \E i \in 1..F : \E j \in 1..Len(bodies[i]) :
                /\ q = start(i) + j /\ cells[q] = bodies[i][j]
  <2>1. q - Len(main) \in 1..Len(code) /\ Len(main) + (q - Len(main)) = q
    BY <1>16, <1>18
  <2>2. PICK i \in 1..F : \E j \in 1..Len(bodies[i]) :
          q - Len(main) = SumBefore(Lens(bodies), i) + j
    BY <1>9, <2>1, Zenon
  <2>3. PICK j \in 1..Len(bodies[i]) :
          q - Len(main) = SumBefore(Lens(bodies), i) + j
    BY <2>2
  <2>4. code[q - Len(main)] = bodies[i][j] BY <1>8, <2>3, Zenon
  <2>5. cells[q] = bodies[i][j] BY <1>16, <2>1, <2>4, Zenon
  <2>6. q = start(i) + j
    <3> DEFINE x == SumBefore(Lens(bodies), i)
               n == Len(main)
    <3>1. x \in Nat /\ j \in Nat /\ q \in Nat BY <1>10
    <3>2. q - n = x + j /\ n \in Nat BY <1>16, <2>3, Zenon
    <3> HIDE DEF x, n
    <3>3. q = (n + x) + j BY <3>1, <3>2
    <3> QED BY <3>3, Zenon DEF x, n
  <2> QED BY <2>5, <2>6, Zenon
<1>19. ASSUME NEW i \in 1..F
       PROVE  /\ start(i) \in Len(main)..Len(cells) - 1
              /\ start(i) + 1 \in 1..Len(cells) /\ (start(i) + 1) - 1 = start(i)
              /\ cells[start(i) + 1] = Entry(text.funcs[i].id)
  <2> DEFINE x == SumBefore(Lens(bodies), i)
  <2>1. x + 1 \in 1..Len(code) /\ code[x + 1] = Entry(text.funcs[i].id)
    BY <1>8, <1>13, Zenon
  <2>2. x \in Nat BY <1>10
  <2> HIDE DEF x
  <2>3. cells[Len(main) + (x + 1)] = Entry(text.funcs[i].id) BY <1>16, <2>1, Zenon
  <2>4. /\ Len(main) + x \in Len(main)..Len(cells) - 1
        /\ (Len(main) + x) + 1 \in 1..Len(cells)
        /\ ((Len(main) + x) + 1) - 1 = Len(main) + x
        /\ (Len(main) + x) + 1 = Len(main) + (x + 1)
    BY <1>16, <2>1, <2>2
  <2> QED BY <2>3, <2>4, Zenon DEF x
<1> HIDE DEF start
<1>20. defs \subseteq [id: Func, address: Len(main)..Len(cells) - 1]
  BY <1>13, <1>19 DEF defs
<1>21. {<<def.address, def.id>> : def \in defs} = EntriesIn(cells)
  <2>1. ASSUME NEW def \in defs PROVE <<def.address, def.id>> \in EntriesIn(cells)
    <3>1. PICK i \in 1..F : def = [id |-> text.funcs[i].id, address |-> start(i)]
      BY Zenon DEF defs
    <3>2. def.id = text.funcs[i].id /\ def.address = start(i) BY <3>1
    <3>3. text.funcs[i].id \in Id BY <1>13 DEF Id
    <3>4. Entry(text.funcs[i].id).holds = "entry"
          /\ Entry(text.funcs[i].id).id = text.funcs[i].id
      BY <3>3, CellFacts, Zenon
    <3> DEFINE q == start(i) + 1
    <3>5. q \in DOMAIN cells /\ cells[q].holds = "entry" /\ q - 1 = start(i)
          /\ cells[q].id = text.funcs[i].id
      BY <1>16, <1>19, <3>4, Zenon
    <3> HIDE DEF q
    <3>6. <<q - 1, cells[q].id>> \in EntriesIn(cells) BY <3>5, Zenon DEF EntriesIn
    <3> QED BY <3>2, <3>5, <3>6, Zenon
  <2>2. ASSUME NEW e \in EntriesIn(cells)
        PROVE  \E def \in defs : e = <<def.address, def.id>>
    <3>1. PICK q \in {q \in DOMAIN cells : cells[q].holds = "entry"} :
            e = <<q - 1, cells[q].id>>
      BY Zenon DEF EntriesIn
    <3>2. q \in 1..Len(cells) /\ cells[q].holds = "entry" BY <1>16, Zenon
    <3>3. ~(q <= Len(main))
      <4> SUFFICES ASSUME q <= Len(main) PROVE FALSE OBVIOUS
      <4>1. q \in 1..Len(main) BY <1>16, <3>2
      <4> QED BY <1>15, <1>16, <3>2, <4>1, Zenon
    <3>4. PICK i \in 1..F : \E j \in 1..Len(bodies[i]) :
            q = start(i) + j /\ cells[q] = bodies[i][j]
      BY <1>18, <3>2, <3>3, Zenon
    <3>5. PICK j \in 1..Len(bodies[i]) : q = start(i) + j /\ cells[q] = bodies[i][j]
      BY <3>4
    <3>6. j = 1 BY <1>13, <3>2, <3>5, Zenon
    <3>7. text.funcs[i].id \in Id BY <1>13 DEF Id
    <3>8. cells[q].id = text.funcs[i].id
      <4>1. cells[q] = Entry(text.funcs[i].id) BY <1>13, <3>5, <3>6, Zenon
      <4>2. Entry(text.funcs[i].id).id = text.funcs[i].id BY <3>7, CellFacts, Zenon
      <4> QED BY <4>1, <4>2, Zenon
    <3>9. q - 1 = start(i) BY <1>19, <3>5, <3>6, Zenon
    <3> DEFINE def == [id |-> text.funcs[i].id, address |-> start(i)]
    <3>10. def \in defs BY DEF defs
    <3>11. def.id = text.funcs[i].id /\ def.address = start(i) OBVIOUS
    <3> HIDE DEF def
    <3> QED BY <3>1, <3>8, <3>9, <3>10, <3>11, Zenon
  <2> QED BY <2>1, <2>2, Zenon
<1>22. \A id \in Id : RefsIn(cells, id) \subseteq 0..Len(cells) - 1
  <2>1. \A q \in 1..Len(cells) : q - 1 \in 0..Len(cells) - 1 BY <1>16
  <2> QED BY <1>16, <2>1, Zenon DEF RefsIn
<1>23. /\ Len(main) \in 0..Len(cells)
       /\ Len(main)..Len(cells) - 1 \subseteq Nat /\ 0..Len(cells) - 1 \subseteq Nat
  BY <1>16
<1>24. m.refs \in [Id -> SUBSET (0..Len(cells) - 1)]
       /\ \A id \in Id : m.refs[id] = RefsIn(cells, id)
  BY <1>5, <1>22, Zenon
<1>25. IsModule(m)
  BY <1>1, <1>5, <1>7, <1>16, <1>20, <1>23, <1>24, Zenon DEF IsModule
<1>26. ASSUME NEW q \in 1..Len(cells), cells[q].holds = "create"
       PROVE  q <= Len(main)
  BY <1>13, <1>18, <1>26, Zenon
<1>27. DescribesCode(m)
  <2>1. {<<def.address, def.id>> : def \in m.func_defs} = EntriesIn(m.cells)
    BY <1>5, <1>21, Zenon
  <2> QED BY <1>5, <1>16, <1>17, <1>24, <1>26, <2>1, Zenon DEF DescribesCode, EntriesIn
<1>28. m \in Module
  <2>1. m.refs \in [Id -> SUBSET Nat] BY <1>23, <1>24
  <2>2. m.func_defs \subseteq [id: Func, address: Nat] BY <1>5, <1>20, <1>23
  <2> QED BY <1>1, <1>5, <1>7, <1>16, <2>1, <2>2 DEF Module
<1>29. ASSUME NEW q \in 1..Len(cells) PROVE cells[q].value = None
  <2>1. CASE q <= Len(main)
    <3>1. q \in 1..Len(main) BY <1>16, <2>1
    <3> QED BY <1>15, <1>16, <3>1, Zenon
  <2>2. CASE ~(q <= Len(main))
    <3>1. PICK i \in 1..F : \E j \in 1..Len(bodies[i]) :
            q = start(i) + j /\ cells[q] = bodies[i][j]
      BY <1>18, <2>2, Zenon
    <3>2. PICK j \in 1..Len(bodies[i]) : cells[q] = bodies[i][j] BY <3>1
    <3>3. bodies[i][j].value = None BY <1>13, Zenon
    <3> QED BY <3>2, <3>3, Zenon
  <2> QED BY <2>1, <2>2
<1>30. \A q \in 1..Len(m.cells) : m.cells[q].value = None BY <1>5, <1>29, Zenon
<1> QED BY <1>5, <1>12, <1>25, <1>27, <1>28, <1>30 DEF Good, m

-----------------------------------------------------------------------------
(* Executables                                                             *)

(* The sizes of the first modules do not depend on those behind. *)
LEMMA FirstFit ==
  ASSUME NEW ms \in Seq(Good), NEW n \in 1..Len(ms), SizesFit(ms, n)
  PROVE  LET first == SubSeq(ms, 1, n) IN
         /\ first \in Seq(Good) /\ Len(first) = n /\ SizesFit(first, n)
<1> DEFINE first == SubSeq(ms, 1, n)
<1>1. Len(ms) \in Nat OBVIOUS
<1>2. /\ first \in Seq(Good) /\ Len(first) = n /\ \A k \in 1..n : first[k] = ms[k]
  BY <1>1
<1> HIDE DEF first
<1>3. /\ MainSizes(ms) \in Seq(Nat) /\ Len(MainSizes(ms)) = Len(ms)
      /\ CodeSizes(ms) \in Seq(Nat) /\ Len(CodeSizes(ms)) = Len(ms)
      /\ \A k \in 1..Len(ms) : /\ MainSizes(ms)[k] = ms[k].main_size
                               /\ CodeSizes(ms)[k] = Len(ms[k].cells)
  BY SizesFacts, Zenon
<1>4. /\ MainSizes(first) \in Seq(Nat) /\ Len(MainSizes(first)) = n
      /\ CodeSizes(first) \in Seq(Nat) /\ Len(CodeSizes(first)) = n
      /\ \A k \in 1..n : /\ MainSizes(first)[k] = first[k].main_size
                         /\ CodeSizes(first)[k] = Len(first[k].cells)
  BY <1>2, SizesFacts, Zenon
<1>5. \A k \in 1..n : k \in 1..Len(ms) BY <1>1
<1>6. \A k \in 1..n : MainSizes(first)[k] = MainSizes(ms)[k]
                      /\ CodeSizes(first)[k] = CodeSizes(ms)[k]
  BY <1>2, <1>3, <1>4, <1>5, Zenon
<1>7. ASSUME NEW k \in 1..n
      PROVE  /\ SumBefore(MainSizes(first), k) = SumBefore(MainSizes(ms), k)
             /\ SumBefore(CodeSizes(first), k) = SumBefore(CodeSizes(ms), k)
  <2>1. k - 1 \in Nat /\ k - 1 <= n /\ k - 1 <= Len(ms)
        /\ \A i \in 1..k - 1 : i \in 1..n
    BY <1>1
  <2>2. \A i \in 1..k - 1 : MainSizes(first)[i] = MainSizes(ms)[i]
                            /\ CodeSizes(first)[i] = CodeSizes(ms)[i]
    BY <1>6, <2>1, Zenon
  <2>3. SumTo(MainSizes(first), k - 1) = SumTo(MainSizes(ms), k - 1)
    BY <1>3, <1>4, <2>1, <2>2, SumToSame, Zenon
  <2>4. SumTo(CodeSizes(first), k - 1) = SumTo(CodeSizes(ms), k - 1)
    BY <1>3, <1>4, <2>1, <2>2, SumToSame, Zenon
  <2> QED BY <2>3, <2>4, Zenon DEF SumBefore
<1>8. SizesFit(first, n)
  <2>1. \A k \in 1..n :
          /\ CheckAddressOverflow(SumBefore(MainSizes(ms), k), ms[k].main_size)
          /\ CheckAddressOverflow(SumBefore(CodeSizes(ms), k), Len(ms[k].cells))
    BY Zenon DEF SizesFit
  <2>2. \A k \in 1..n :
          /\ CheckAddressOverflow(SumBefore(MainSizes(first), k), first[k].main_size)
          /\ CheckAddressOverflow(SumBefore(CodeSizes(first), k), Len(first[k].cells))
    BY <1>2, <1>7, <2>1, Zenon
  <2> QED BY <2>2, Zenon DEF SizesFit
<1> QED BY <1>2, <1>8, Zenon DEF first

LEMMA SumTwo ==
  ASSUME NEW s \in Seq({1, 2}), NEW n \in 0..Len(s)
  PROVE  SumTo(s, n) \in 0..2 * n
<1> DEFINE P == {i \in Nat : i <= Len(s) => SumTo(s, i) \in 0..2 * i}
<1>1. s \in Seq(Nat) /\ Len(s) \in Nat /\ \A i \in 1..Len(s) : s[i] \in {1, 2}
  OBVIOUS
<1>2. 0 \in P
  <2>1. SumTo(s, 0) = 0 BY <1>1, SumToFacts, Zenon
  <2> QED BY <2>1
<1>3. ASSUME NEW i \in P, i + 1 <= Len(s) PROVE SumTo(s, i + 1) \in 0..2 * (i + 1)
  <2>1. i + 1 \in 1..Len(s) /\ (i + 1) - 1 = i /\ SumTo(s, i) \in 0..2 * i
    BY <1>1, <1>3
  <2>2. SumTo(s, i + 1) = SumTo(s, i) + s[i + 1] BY <1>1, <2>1, SumToFacts, Zenon
  <2>3. s[i + 1] \in {1, 2} BY <1>1, <2>1, Zenon
  <2>4. i \in Nat OBVIOUS
  <2> QED BY <2>1, <2>2, <2>3, <2>4
<1>4. \A i \in P : i + 1 \in P BY <1>3
<1>5. P \in SUBSET Nat OBVIOUS
<1>6. P = Nat BY <1>2, <1>4, <1>5, SetInduction, Zenon
<1>7. n \in Nat /\ n <= Len(s) OBVIOUS
<1> QED BY <1>6, <1>7, Zenon

(* The indices of variables are sums of sizes: each variable has code that *)
(* creates it and is no smaller, so that no index reaches a word.          *)
LEMMA IndexFacts ==
  ASSUME NEW ms \in Seq(Good), SizesFit(ms, Len(ms))
  PROVE  LET names == CollectGlobalVarDefs(ms)
             sizes == VarSizes(names)
         IN
         /\ names \in Seq(Var) /\ Len(names) \in Nat
         /\ DOMAIN names = 1..Len(names)
         /\ sizes \in Seq(Nat) /\ Len(sizes) = Len(names)
         /\ \A k \in 1..Len(names) : sizes[k] = Size[names[k]]
         /\ \A k \in 1..Len(names) + 1 :
              /\ VarIndex(names, k) = SumBefore(sizes, k)
              /\ VarIndex(names, k) \in Nat
              /\ VarIndex(names, k) <= 2 * (k - 1)
         /\ 2 * Len(names) < Word
<1> DEFINE names == CollectGlobalVarDefs(ms)
           sizes == VarSizes(names)
<1>1. names \in Seq(Var) /\ 2 * Len(names) <= Sum(MainSizes(ms))
  BY MovedVars, Zenon
<1>2. /\ Sum(MainSizes(ms)) \in Nat /\ Sum(MainSizes(ms)) < Word
  <2>1. Len(ms) \in 0..Len(ms) OBVIOUS
  <2>2. /\ SumTo(CodeSizes(ms), Len(ms)) =
             SumTo(MainSizes(ms), Len(ms)) + SumTo(FuncSizes(ms), Len(ms))
        /\ SumTo(MainSizes(ms), Len(ms)) \in Nat
        /\ SumTo(FuncSizes(ms), Len(ms)) \in Nat
    BY <2>1, SizesAdd, Zenon
  <2>3. SumTo(CodeSizes(ms), Len(ms)) < Word BY <2>1, SizesSmall, Zenon
  <2>4. Len(MainSizes(ms)) = Len(ms) BY SizesFacts, Zenon
  <2>5. SumTo(MainSizes(ms), Len(ms)) < Word BY <2>2, <2>3, WordAssumption
  <2> QED BY <2>2, <2>4, <2>5, Zenon DEF Sum
<1> HIDE DEF names
<1>3. /\ Len(names) \in Nat /\ DOMAIN names = 1..Len(names)
      /\ \A i \in 1..Len(names) : names[i] \in Var
  BY <1>1
<1>4. 2 * Len(names) < Word BY <1>1, <1>2, <1>3, WordAssumption
<1>5. /\ sizes \in Seq({1, 2}) /\ Len(sizes) = Len(names)
      /\ \A k \in 1..Len(names) : sizes[k] = Size[names[k]]
  <2>1. \A x \in Var : Size[x] \in {1, 2} BY IdsAssumption, Zenon
  <2>2. sizes \in [1..Len(names) -> {1, 2}] BY <1>3, <2>1, Zenon DEF VarSizes
  <2>3. \A k \in 1..Len(names) : sizes[k] = Size[names[k]]
    BY <1>3, Zenon DEF VarSizes
  <2> HIDE DEF sizes
  <2> QED BY <1>3, <2>2, <2>3, FunctionSeq, Zenon
<1> HIDE DEF sizes
<1>6. sizes \in Seq(Nat) BY <1>5
<1>7. ASSUME NEW k \in 1..Len(names) + 1
      PROVE  /\ VarIndex(names, k) = SumBefore(sizes, k)
             /\ VarIndex(names, k) \in Nat /\ VarIndex(names, k) <= 2 * (k - 1)
  <2> DEFINE sum == SumBefore(sizes, k)
  <2>1. k - 1 \in 0..Len(names) BY <1>3
  <2>2. sum \in 0..2 * (k - 1) BY <1>5, <2>1, SumTwo, Zenon DEF SumBefore
  <2> HIDE DEF sum
  <2>3. sum \in Nat /\ sum < Word /\ sum <= 2 * (k - 1)
    BY <1>3, <1>4, <2>1, <2>2, WordAssumption
  <2>4. VarIndex(names, k) = sum BY <2>3, WordFacts, Zenon DEF VarIndex, sum, sizes
  <2> QED BY <2>3, <2>4, Zenon DEF sum
<1> QED BY <1>1, <1>3, <1>4, <1>5, <1>6, <1>7, Zenon DEF names, sizes

(* The modules that were passed are not too large: the linker's count of   *)
(* the slots of variables cannot be.                                       *)
LEMMA NeverTooMany ==
  ASSUME NEW ms \in Seq(Good)
  PROVE  ~DefsCountOverflows(ms)
<1> SUFFICES ASSUME DefsCountOverflows(ms) PROVE FALSE OBVIOUS
<1>1. PICK n \in DOMAIN ms :
        LET names == CollectGlobalVarDefs(SubSeq(ms, 1, n)) IN
        /\ SizesFit(ms, n)
        /\ \E k \in DOMAIN names : (VarIndex(names, k) + 1) % Word < VarIndex(names, k)
  BY Zenon DEF DefsCountOverflows
<1> DEFINE first == SubSeq(ms, 1, n)
           names == CollectGlobalVarDefs(first)
<1>2. n \in 1..Len(ms) OBVIOUS
<1>3. first \in Seq(Good) /\ SizesFit(first, Len(first))
  BY <1>1, <1>2, FirstFit, Zenon
<1>4. PICK k \in DOMAIN names : (VarIndex(names, k) + 1) % Word < VarIndex(names, k)
  BY <1>1, Zenon
<1> HIDE DEF first
<1>5. /\ Len(names) \in Nat /\ DOMAIN names = 1..Len(names) /\ 2 * Len(names) < Word
      /\ \A i \in 1..Len(names) + 1 :
           VarIndex(names, i) \in Nat /\ VarIndex(names, i) <= 2 * (i - 1)
  BY <1>3, IndexFacts, Zenon
<1> DEFINE sum == VarIndex(names, k)
<1> HIDE DEF names
<1>6. k \in 1..Len(names) BY <1>5, Zenon
<1>7. k \in 1..Len(names) + 1 BY <1>5, <1>6
<1>8. sum \in Nat /\ sum <= 2 * (k - 1) BY <1>5, <1>7, Zenon
<1> HIDE DEF sum
<1>9. sum + 1 \in Nat /\ sum + 1 < Word /\ ~(sum + 1 < sum)
  BY <1>5, <1>6, <1>8, WordAssumption
<1>10. (sum + 1) % Word = sum + 1 BY <1>9, WordFacts, Zenon
<1> QED BY <1>4, <1>9, <1>10, Zenon DEF sum

(* The slots of a variable end before those of the next begin. *)
LEMMA IndexesApart ==
  ASSUME NEW ms \in Seq(Good), SizesFit(ms, Len(ms)),
         NEW j \in 1..Len(CollectGlobalVarDefs(ms)),
         NEW k \in 1..Len(CollectGlobalVarDefs(ms)) + 1, j < k
  PROVE  LET names == CollectGlobalVarDefs(ms) IN
         VarIndex(names, j) + Size[names[j]] <= VarIndex(names, k)
<1> DEFINE names == CollectGlobalVarDefs(ms)
           sizes == VarSizes(names)
<1>1. /\ Len(names) \in Nat /\ sizes \in Seq(Nat) /\ Len(sizes) = Len(names)
      /\ \A i \in 1..Len(names) : sizes[i] = Size[names[i]]
      /\ \A i \in 1..Len(names) + 1 : VarIndex(names, i) = SumBefore(sizes, i)
  BY IndexFacts, Zenon
<1> HIDE DEF names, sizes
<1>2. /\ j \in 1..Len(names) /\ j \in 1..Len(names) + 1 /\ j \in 0..Len(names)
      /\ k \in 1..Len(names) + 1 /\ k - 1 \in 0..Len(names) /\ j <= k - 1
  BY <1>1 DEF names
<1>3. SumTo(sizes, j) = SumTo(sizes, j - 1) + sizes[j] BY <1>1, <1>2, SumToFacts, Zenon
<1>4. SumTo(sizes, j) <= SumTo(sizes, k - 1) BY <1>1, <1>2, SumGrows, Zenon
<1>5. sizes[j] = Size[names[j]] BY <1>1, <1>2, Zenon
<1> QED BY <1>1, <1>2, <1>3, <1>4, <1>5, Zenon DEF SumBefore, names

(* What the addresses are those of. *)
AddressesTell(ms) ==
  LET names == CollectGlobalVarDefs(ms) IN
  /\ \A def \in Addresses(ms) :
       /\ def.id \in Id /\ def.id \notin Native /\ def.address \in Nat
       /\ def.id \in Func => def \in CollectFuncDefs(ms)
       /\ def.id \in Var =>
            \E k \in 1..Len(names) :
              def.id = names[k] /\ def.address = VarIndex(names, k)
  /\ \A k \in 1..Len(names) : \E def \in Addresses(ms) : def.id = names[k]
  /\ CollectFuncDefs(ms) \subseteq Addresses(ms)

LEMMA AddressesFacts ==
  ASSUME NEW ms \in Seq(Good), SizesFit(ms, Len(ms))
  PROVE  AddressesTell(ms)
<1> DEFINE names == CollectGlobalVarDefs(ms)
           var(k) == [id |-> names[k], address |-> VarIndex(names, k)]
           funcs == CollectFuncDefs(ms)
           all == Addresses(ms)
<1>1. /\ names \in Seq(Var) /\ Len(names) \in Nat /\ DOMAIN names = 1..Len(names)
      /\ \A k \in 1..Len(names) + 1 : VarIndex(names, k) \in Nat
  BY IndexFacts, Zenon
<1>2. \A def \in funcs : def.id \in Func /\ def.address \in Nat
  <2> DEFINE main == Sum(MainSizes(ms))
             n == Len(WriteModuleCmds(ms))
  <2>1. funcs \subseteq [id: Func, address: main..n - 1] BY MovedDefs, Zenon
  <2>2. main \in Nat /\ n \in Nat BY WriteFacts, Zenon
  <2> HIDE DEF main, n, funcs
  <2> QED BY <2>1, <2>2
<1>3. all = {var(k) : k \in DOMAIN names} \cup funcs BY Zenon DEF Addresses
<1> HIDE DEF names, funcs, all
<1>4. \A k \in 1..Len(names) : k \in 1..Len(names) + 1 /\ names[k] \in Var BY <1>1
<1>5. ASSUME NEW k \in 1..Len(names)
      PROVE  /\ var(k).id = names[k] /\ var(k).address = VarIndex(names, k)
             /\ var(k).id \in Var /\ var(k).address \in Nat /\ var(k) \in all
  BY <1>1, <1>3, <1>4
<1> HIDE DEF var
<1>6. ASSUME NEW def \in all
      PROVE  \/ def \in funcs
             \/ \E k \in 1..Len(names) : def = var(k)
  BY <1>1, <1>3, Zenon
<1>7. ASSUME NEW def \in all
      PROVE  /\ def.id \in Id /\ def.id \notin Native /\ def.address \in Nat
             /\ def.id \in Func => def \in funcs
             /\ def.id \in Var =>
                  \E k \in 1..Len(names) :
                    def.id = names[k] /\ def.address = VarIndex(names, k)
  <2>1. /\ \A x \in Var : x \in Id /\ x \notin Native /\ x \notin Func
        /\ \A x \in Func : x \in Id /\ x \notin Native /\ x \notin Var
    BY IdsAssumption DEF Id
  <2>2. CASE def \in funcs BY <1>2, <2>1, <2>2, Zenon
  <2>3. CASE \E k \in 1..Len(names) : def = var(k)
    <3>1. PICK k \in 1..Len(names) : def = var(k) BY <2>3
    <3>2. def.id = names[k] /\ def.address = VarIndex(names, k)
          /\ def.id \in Var /\ def.address \in Nat
      BY <1>5, <3>1, Zenon
    <3> QED BY <2>1, <3>2, Zenon
  <2> QED BY <1>6, <2>2, <2>3, Zenon
<1>8. \A k \in 1..Len(names) : \E def \in all : def.id = names[k] BY <1>5, Zenon
<1>9. funcs \subseteq all BY <1>3, Zenon
<1> QED BY <1>7, <1>8, <1>9, Zenon DEF AddressesTell, names, funcs, all

(* The definitions that a reference may be linked to, and the one it is.   *)
TargetsOf(ms, id) == {def \in Addresses(ms) : def.id = id}
TargetOf(ms, id) == CHOOSE def \in TargetsOf(ms, id) : TRUE

IsLinked(ms, cell) == cell.holds = "ref" /\ TargetsOf(ms, cell.id) # {}

IsFilled(ms, filled) ==
  LET cells == WriteModuleCmds(ms) IN
  /\ filled \in Seq(Cell) /\ Len(filled) = Len(cells)
  /\ \A p \in 1..Len(cells) :
       /\ filled[p].holds = cells[p].holds /\ filled[p].id = cells[p].id
       /\ IsLinked(ms, cells[p]) =>
            filled[p].value = TargetOf(ms, cells[p].id).address
       /\ ~IsLinked(ms, cells[p]) => filled[p] = cells[p]

(* The placeholders that are overwritten are the references to what has an *)
(* address, each with the address of its own id.                           *)
LEMMA FilledFacts ==
  ASSUME NEW ms \in Seq(Good), SizesFit(ms, Len(ms))
  PROVE  IsFilled(ms, FillAddressPlaceholders(ms))
<1> DEFINE cells == WriteModuleCmds(ms)
           filled == FillAddressPlaceholders(ms)
           places(id) == UNION {{Moved(ms, k, a) : a \in ms[k].refs[id]} : k \in DOMAIN ms}
           at(p) == {def \in Addresses(ms) : p - 1 \in places(def.id)}
           cell(p) == IF at(p) = {} THEN cells[p]
                      ELSE [cells[p] EXCEPT !.value =
                              (CHOOSE def \in at(p) : TRUE).address]
<1>1. filled = [p \in DOMAIN cells |-> cell(p)] BY Zenon DEF FillAddressPlaceholders
<1>2. cells \in Seq(Cell) BY WriteFacts, Zenon
<1>3. \A id \in Id : places(id) = RefsIn(cells, id)
  <2>1. \A id \in Id : places(id) = CollectRefs(ms)[id] BY Zenon DEF CollectRefs
  <2> HIDE DEF places, cells
  <2>2. \A id \in Id : CollectRefs(ms)[id] = RefsIn(cells, id)
    BY MovedRefs, Zenon DEF cells
  <2> QED BY <2>1, <2>2, Zenon
<1>4. AddressesTell(ms) BY AddressesFacts, Zenon
<1>5. \A def \in Addresses(ms) : def.id \in Id /\ def.address \in Nat
  BY <1>4, Zenon DEF AddressesTell
<1> HIDE DEF cells, filled, places
<1>6. DOMAIN cells = 1..Len(cells) /\ Len(cells) \in Nat
      /\ \A p \in 1..Len(cells) : cells[p] \in Cell
  BY <1>2
<1>7. ASSUME NEW p \in 1..Len(cells), NEW id \in Id
      PROVE  p - 1 \in places(id) <=> cells[p].holds = "ref" /\ cells[p].id = id
  <2>1. places(id) = {q - 1 : q \in {q \in 1..Len(cells) :
                                        cells[q].holds = "ref" /\ cells[q].id = id}}
    BY <1>3, <1>6, Zenon DEF RefsIn
  <2>2. \A q \in 1..Len(cells) : p - 1 = q - 1 => p = q BY <1>6
  <2> QED BY <2>1, <2>2, Zenon
<1>8. ASSUME NEW p \in 1..Len(cells)
      PROVE  at(p) = IF cells[p].holds = "ref" THEN TargetsOf(ms, cells[p].id) ELSE {}
  <2>1. \A def \in Addresses(ms) :
          p - 1 \in places(def.id) <=> cells[p].holds = "ref" /\ cells[p].id = def.id
    BY <1>5, <1>7, Zenon
  <2>2. \A def : def \in at(p) <=>
                   def \in Addresses(ms) /\ cells[p].holds = "ref" /\ cells[p].id = def.id
    BY <2>1, Zenon
  <2> HIDE DEF at
  <2>3. CASE cells[p].holds = "ref"
    <3>1. \A def : def \in at(p) <=> def \in TargetsOf(ms, cells[p].id)
      BY <2>2, <2>3, Zenon DEF TargetsOf
    <3> QED BY <2>3, <3>1, Zenon
  <2>4. CASE cells[p].holds # "ref"
    <3>1. \A def : def \notin at(p) BY <2>2, <2>4, Zenon
    <3> QED BY <2>4, <3>1, Zenon
  <2> QED BY <2>3, <2>4, Zenon
<1> HIDE DEF at
<1>9. \A id : TargetsOf(ms, id) # {} => TargetOf(ms, id).address \in Nat
  <2> TAKE id
  <2>1. TargetsOf(ms, id) # {} => TargetOf(ms, id) \in TargetsOf(ms, id)
    BY Zenon DEF TargetOf
  <2>2. \A def \in TargetsOf(ms, id) : def.address \in Nat BY <1>5, Zenon DEF TargetsOf
  <2> QED BY <2>1, <2>2, Zenon
<1>10. ASSUME NEW p \in 1..Len(cells)
       PROVE  /\ cell(p) \in Cell
              /\ cell(p).holds = cells[p].holds /\ cell(p).id = cells[p].id
              /\ IsLinked(ms, cells[p]) =>
                   cell(p).value = TargetOf(ms, cells[p].id).address
              /\ ~IsLinked(ms, cells[p]) => cell(p) = cells[p]
  <2>1. CASE IsLinked(ms, cells[p])
    <3>1. cells[p].holds = "ref" /\ TargetsOf(ms, cells[p].id) # {}
      BY <2>1, Zenon DEF IsLinked
    <3>2. at(p) = TargetsOf(ms, cells[p].id) /\ at(p) # {} BY <1>8, <3>1, Zenon
    <3>3. (CHOOSE def \in at(p) : TRUE) = TargetOf(ms, cells[p].id)
      BY <3>2, Zenon DEF TargetOf
    <3>4. cell(p) = [cells[p] EXCEPT !.value = TargetOf(ms, cells[p].id).address]
      BY <3>2, <3>3, Zenon
    <3>5. TargetOf(ms, cells[p].id).address \in Nat BY <1>9, <3>1, Zenon
    <3> DEFINE v == TargetOf(ms, cells[p].id).address
               c == cells[p]
    <3>6. c \in Cell /\ v \in Nat /\ cell(p) = [c EXCEPT !.value = v]
      BY <1>6, <3>4, <3>5, Zenon
    <3> HIDE DEF cell, v, c
    <3>7. cell(p) \in Cell /\ cell(p).holds = c.holds /\ cell(p).id = c.id
          /\ cell(p).value = v
      BY <3>6 DEF Cell
    <3> QED BY <2>1, <3>7, Zenon DEF c, v
  <2>2. CASE ~IsLinked(ms, cells[p])
    <3>1. at(p) = {} BY <1>8, <2>2, Zenon DEF IsLinked
    <3>2. cell(p) = cells[p] BY <3>1, Zenon
    <3> HIDE DEF cell
    <3> QED BY <1>6, <2>2, <3>2, Zenon
  <2> QED BY <2>1, <2>2, Zenon
<1> HIDE DEF cell
<1>11. filled \in [1..Len(cells) -> Cell] /\ \A p \in 1..Len(cells) : filled[p] = cell(p)
  BY <1>1, <1>6, <1>10, Zenon
<1>12. filled \in Seq(Cell) /\ Len(filled) = Len(cells)
  BY <1>6, <1>11, FunctionSeq, Zenon
<1>13. \A p \in 1..Len(cells) :
         /\ filled[p].holds = cells[p].holds /\ filled[p].id = cells[p].id
         /\ IsLinked(ms, cells[p]) =>
              filled[p].value = TargetOf(ms, cells[p].id).address
         /\ ~IsLinked(ms, cells[p]) => filled[p] = cells[p]
  BY <1>10, <1>11, Zenon
<1> QED BY <1>12, <1>13, Zenon DEF IsFilled, cells, filled

(* Whatever linked code refers to is defined by a module. *)
LEMMA RefersToDefined ==
  ASSUME NEW ms \in Seq(Good), ExeLinks(ms), NEW id \in Id,
         NEW p \in 1..Len(WriteModuleCmds(ms)),
         WriteModuleCmds(ms)[p].holds = "ref", WriteModuleCmds(ms)[p].id = id
  PROVE  \E j \in 1..Len(ms) : id \in DefinedIn(ms[j])
<1> DEFINE cells == WriteModuleCmds(ms)
<1>1. SizesFit(ms, Len(ms)) BY Zenon DEF ExeLinks, LibLinks
<1>2. CollectRefs(ms)[id] = RefsIn(cells, id) BY <1>1, MovedRefs, Zenon
<1>3. cells \in Seq(Cell) BY WriteFacts, Zenon
<1>4. p \in 1..Len(cells) /\ cells[p].holds = "ref" /\ cells[p].id = id OBVIOUS
<1> HIDE DEF cells
<1>5. DOMAIN cells = 1..Len(cells) BY <1>3
<1>6. p - 1 \in RefsIn(cells, id) BY <1>4, <1>5, Zenon DEF RefsIn
<1>7. p - 1 \in UNION {{Moved(ms, k, a) : a \in ms[k].refs[id]} : k \in DOMAIN ms}
  BY <1>2, <1>6, Zenon DEF CollectRefs
<1>8. PICK k \in DOMAIN ms : ms[k].refs[id] # {} BY <1>7
<1>9. \E j \in DOMAIN ms : id \in DefinedIn(ms[j]) BY <1>8, Zenon DEF ExeLinks
<1> QED BY <1>9, SizesFacts, Zenon

(* So it has an address, unless it is a native function. *)
LEMMA HasTarget ==
  ASSUME NEW ms \in Seq(Good), ExeLinks(ms), NEW id \in Var \cup Func,
         NEW p \in 1..Len(WriteModuleCmds(ms)),
         WriteModuleCmds(ms)[p].holds = "ref", WriteModuleCmds(ms)[p].id = id
  PROVE  /\ IsLinked(ms, WriteModuleCmds(ms)[p])
         /\ TargetOf(ms, id) \in Addresses(ms) /\ TargetOf(ms, id).id = id
<1> DEFINE names == CollectGlobalVarDefs(ms)
<1>1. SizesFit(ms, Len(ms)) BY Zenon DEF ExeLinks, LibLinks
<1>2. AddressesTell(ms) BY <1>1, AddressesFacts, Zenon
<1>3. id \in Id BY DEF Id
<1>4. PICK j \in 1..Len(ms) : id \in DefinedIn(ms[j])
  BY <1>3, RefersToDefined, Zenon
<1>5. /\ Len(ms) \in Nat /\ DOMAIN ms = 1..Len(ms)
      /\ ms[j].native_defs \subseteq Native /\ ms[j].var_defs \in Seq(Var)
      /\ ms[j].func_defs \subseteq
           [id: Func, address: ms[j].main_size..Len(ms[j].cells) - 1]
      /\ \A k \in 1..Len(ms) : ms[k].var_defs \in Seq(Var)
  BY SizesFacts, GoodFacts, Zenon
<1>6. \/ id \in ToSet(ms[j].var_defs)
      \/ \E def \in ms[j].func_defs : def.id = id
  <2>1. id \notin Native BY IdsAssumption
  <2>2. id \in ToSet(ms[j].var_defs) \cup {def.id : def \in ms[j].func_defs}
                 \cup ms[j].native_defs
    BY <1>4, Zenon DEF DefinedIn
  <2> QED BY <1>5, <2>1, <2>2, Zenon
<1>7. CASE id \in ToSet(ms[j].var_defs)
  <2> DEFINE vd == [k \in DOMAIN ms |-> ms[k].var_defs]
  <2>1. PICK i \in DOMAIN ms[j].var_defs : id = ms[j].var_defs[i]
    BY <1>7, Zenon DEF ToSet
  <2>2. vd \in [1..Len(ms) -> Seq(Var)] /\ vd[j] = ms[j].var_defs BY <1>5, Zenon
  <2>3. names = Concat(vd) BY Zenon DEF CollectGlobalVarDefs
  <2>4. i \in 1..Len(ms[j].var_defs) BY <1>5
  <2> HIDE DEF vd, names
  <2>5. vd \in Seq(Seq(Var)) /\ j \in 1..Len(vd) BY <1>5, <2>2, FunctionSeq, Zenon
  <2>6. \E k \in 1..Len(names) : names[k] = id
    <3>1. /\ SumBefore(Lens(vd), j) + i \in 1..Len(Concat(vd))
          /\ Concat(vd)[SumBefore(Lens(vd), j) + i] = vd[j][i]
      <4>1. i \in 1..Len(vd[j]) BY <2>2, <2>4, Zenon
      <4>2. Concat(vd)[SumBefore(Lens(vd), j) + i] = vd[j][i]
        BY <2>5, <4>1, ConcatAt, Zenon
      <4>3. SumBefore(Lens(vd), j) + i \in 1..Len(Concat(vd))
        BY <2>5, <4>1, ConcatAt, Zenon
      <4> QED BY <4>2, <4>3, Zenon
    <3> QED BY <2>1, <2>2, <2>3, <3>1, Zenon
  <2>7. \E def \in Addresses(ms) : def.id = id
    BY <1>2, <2>6, Zenon DEF AddressesTell, names
  <2>8. TargetsOf(ms, id) # {} BY <2>7, Zenon DEF TargetsOf
  <2>9. TargetOf(ms, id) \in TargetsOf(ms, id) BY <2>8, Zenon DEF TargetOf
  <2> QED BY <2>8, <2>9, Zenon DEF IsLinked, TargetsOf
<1>8. CASE \E def \in ms[j].func_defs : def.id = id
  <2>1. PICK def \in ms[j].func_defs : def.id = id BY <1>8
  <2> DEFINE to == [id |-> def.id, address |-> Moved(ms, j, def.address)]
  <2>2. to \in CollectFuncDefs(ms)
    <3> DEFINE part(k) == {[id |-> d.id, address |-> Moved(ms, k, d.address)] :
                             d \in ms[k].func_defs}
    <3>1. CollectFuncDefs(ms) = UNION {part(k) : k \in DOMAIN ms}
      BY Zenon DEF CollectFuncDefs
    <3>2. to \in part(j) OBVIOUS
    <3> HIDE DEF part, to
    <3> QED BY <1>5, <3>1, <3>2
  <2>3. to.id = id BY <2>1
  <2> HIDE DEF to
  <2>4. to \in Addresses(ms) BY <1>2, <2>2, Zenon DEF AddressesTell
  <2>5. TargetsOf(ms, id) # {} BY <2>3, <2>4, Zenon DEF TargetsOf
  <2>6. TargetOf(ms, id) \in TargetsOf(ms, id) BY <2>5, Zenon DEF TargetOf
  <2> QED BY <2>5, <2>6, Zenon DEF IsLinked, TargetsOf
<1> QED BY <1>6, <1>7, <1>8, Zenon

(* Modules leave every placeholder open. *)
LEMMA NothingWritten ==
  ASSUME NEW ms \in Seq(Good), SizesFit(ms, Len(ms)),
         NEW p \in 1..Len(WriteModuleCmds(ms))
  PROVE  WriteModuleCmds(ms)[p].value = None
<1>1. PICK k \in 1..Len(ms) : \E i \in 1..Len(ms[k].cells) :
        p = Moved(ms, k, i - 1) + 1
  BY MovedOnto, Zenon
<1>2. PICK i \in 1..Len(ms[k].cells) : p = Moved(ms, k, i - 1) + 1 BY <1>1
<1>3. WriteModuleCmds(ms)[p] = ms[k].cells[i] BY <1>2, MovedFacts, Zenon
<1>4. ms[k] \in Good BY SizesFacts, Zenon
<1>5. \A q \in 1..Len(ms[k].cells) : ms[k].cells[q].value = None
  BY <1>4, GoodFacts, Zenon
<1> QED BY <1>3, <1>5, Zenon

(* The address of a function is where its code begins. *)
LEMMA FuncTarget ==
  ASSUME NEW ms \in Seq(Good), SizesFit(ms, Len(ms)), NEW id \in Func,
         NEW def \in Addresses(ms), def.id = id
  PROVE  /\ def.address \in Sum(MainSizes(ms))..Len(WriteModuleCmds(ms)) - 1
         /\ def.address + 1 \in 1..Len(WriteModuleCmds(ms))
         /\ FillAddressPlaceholders(ms)[def.address + 1] = Entry(id)
<1> DEFINE cells == WriteModuleCmds(ms)
           main == Sum(MainSizes(ms))
           filled == FillAddressPlaceholders(ms)
<1>1. def \in CollectFuncDefs(ms) BY AddressesFacts, Zenon DEF AddressesTell
<1>2. /\ {<<d.address, d.id>> : d \in CollectFuncDefs(ms)} = EntriesIn(cells)
      /\ CollectFuncDefs(ms) \subseteq [id: Func, address: main..Len(cells) - 1]
  BY MovedDefs, Zenon
<1>3. cells \in Seq(Cell) /\ Len(cells) \in Nat /\ main \in Nat BY WriteFacts, Zenon
<1>4. IsFilled(ms, filled) BY FilledFacts, Zenon
<1>5. \A p \in 1..Len(cells) :
        /\ filled[p].holds = cells[p].holds /\ filled[p].id = cells[p].id
        /\ ~IsLinked(ms, cells[p]) => filled[p] = cells[p]
  BY <1>4, Zenon DEF IsFilled
<1>6. \A p \in 1..Len(cells) : cells[p].value = None BY NothingWritten, Zenon
<1> HIDE DEF cells, main, filled
<1>7. def.address \in main..Len(cells) - 1 BY <1>1, <1>2
<1>8. DOMAIN cells = 1..Len(cells) /\ \A p \in 1..Len(cells) : cells[p] \in Cell
  BY <1>3
<1>9. <<def.address, def.id>> \in EntriesIn(cells) BY <1>1, <1>2, Zenon
<1>10. PICK q \in {q \in 1..Len(cells) : cells[q].holds = "entry"} :
         <<def.address, def.id>> = <<q - 1, cells[q].id>>
  BY <1>8, <1>9, Zenon DEF EntriesIn
<1>11. def.address = q - 1 /\ id = cells[q].id BY <1>10, Zenon
<1>12. q \in 1..Len(cells) /\ cells[q].holds = "entry" BY <1>10
<1>13. def.address + 1 = q BY <1>3, <1>11, <1>12
<1>14. "entry" # "ref" OBVIOUS
<1>15. filled[q] = cells[q] BY <1>5, <1>12, <1>14, Zenon DEF IsLinked
<1>16. cells[q] = Entry(id)
  <2>1. cells[q] \in Cell /\ cells[q].value = None BY <1>6, <1>8, <1>12, Zenon
  <2> QED BY <1>11, <1>12, <2>1 DEF Cell, Entry
<1> QED BY <1>7, <1>12, <1>13, <1>15, <1>16, Zenon DEF cells, main, filled

(* The address of a variable is the index of one of its kind; the slots    *)
(* from there are its own.                                                 *)
LEMMA VarTargets ==
  ASSUME NEW ms \in Seq(Good), SizesFit(ms, Len(ms)),
         NEW d \in Addresses(ms), NEW e \in Addresses(ms),
         d.id \in Var, e.id \in Var
  PROVE  LET names == CollectGlobalVarDefs(ms) IN
         /\ d.address \in Nat
         /\ d.address + Size[d.id] <= VarIndex(names, Len(names) + 1)
         /\ d.id # e.id => \/ d.address + Size[d.id] <= e.address
                           \/ e.address + Size[e.id] <= d.address
<1> DEFINE names == CollectGlobalVarDefs(ms)
<1>1. PICK j \in 1..Len(names) : d.id = names[j] /\ d.address = VarIndex(names, j)
  BY AddressesFacts, Zenon DEF AddressesTell
<1>2. PICK k \in 1..Len(names) : e.id = names[k] /\ e.address = VarIndex(names, k)
  BY AddressesFacts, Zenon DEF AddressesTell
<1>3. Len(names) \in Nat BY IndexFacts, Zenon
<1>4. \A a \in 1..Len(names) : \A b \in 1..Len(names) + 1 :
        a < b => VarIndex(names, a) + Size[names[a]] <= VarIndex(names, b)
  BY IndexesApart, Zenon
<1>5. d.address \in Nat BY AddressesFacts, Zenon DEF AddressesTell
<1> HIDE DEF names
<1>6. /\ Len(names) + 1 \in 1..Len(names) + 1 /\ j < Len(names) + 1
      /\ j \in 1..Len(names) + 1 /\ k \in 1..Len(names) + 1
      /\ j = k \/ j < k \/ k < j
  BY <1>3
<1>7. d.address + Size[d.id] <= VarIndex(names, Len(names) + 1)
  BY <1>1, <1>4, <1>6, Zenon
<1>8. ASSUME d.id # e.id
      PROVE  \/ d.address + Size[d.id] <= e.address
             \/ e.address + Size[e.id] <= d.address
  <2>1. j < k \/ k < j BY <1>1, <1>2, <1>6, <1>8, Zenon
  <2> QED BY <1>1, <1>2, <1>4, <1>6, <2>1, Zenon
<1> QED BY <1>5, <1>7, <1>8, Zenon DEF names
-----------------------------------------------------------------------------
(* Libraries stand for the modules they were linked from                   *)

(* What each element of a row is cut to, and of each row of a row.         *)
Cutting(f, A, B) == f \in [A -> Seq(B)]
Each(f, s) == [k \in DOMAIN s |-> f[s[k]]]
EachRow(f, rows) == [i \in DOMAIN rows |-> Concat(Each(f, rows[i]))]

IsEach(B, each, f, s) ==
  /\ each \in Seq(Seq(B)) /\ Len(each) = Len(s)
  /\ \A k \in 1..Len(s) : each[k] = f[s[k]]

LEMMA EachFacts ==
  ASSUME NEW A, NEW B, NEW f, Cutting(f, A, B), NEW s \in Seq(A)
  PROVE  IsEach(B, Each(f, s), f, s)
<1>1. Len(s) \in Nat /\ DOMAIN s = 1..Len(s) /\ \A k \in 1..Len(s) : s[k] \in A
  OBVIOUS
<1>2. Each(f, s) \in [1..Len(s) -> Seq(B)] BY <1>1, Zenon DEF Each, Cutting
<1>3. \A k \in 1..Len(s) : Each(f, s)[k] = f[s[k]] BY <1>1, Zenon DEF Each
<1> QED BY <1>1, <1>2, <1>3, FunctionSeq, Zenon DEF IsEach

EachJoins(f, a, b) == Each(f, a \o b) = Each(f, a) \o Each(f, b)

LEMMA EachTwo ==
  ASSUME NEW A, NEW B, NEW f, Cutting(f, A, B), NEW a \in Seq(A), NEW b \in Seq(A)
  PROVE  EachJoins(f, a, b)
<1> DEFINE x == Each(f, a)
           y == Each(f, b)
           z == Each(f, a \o b)
<1>1. Joined(A, a, b) BY JoinFacts, Zenon
<1>2. a \o b \in Seq(A) /\ Len(a \o b) = Len(a) + Len(b) BY <1>1, Zenon DEF Joined
<1>3. IsEach(B, x, f, a) /\ IsEach(B, y, f, b) /\ IsEach(B, z, f, a \o b)
  BY <1>2, EachFacts, Zenon
<1> HIDE DEF x, y, z
<1>4. /\ x \in Seq(Seq(B)) /\ Len(x) = Len(a)
      /\ y \in Seq(Seq(B)) /\ Len(y) = Len(b)
      /\ z \in Seq(Seq(B)) /\ Len(z) = Len(x) + Len(y)
  BY <1>2, <1>3, Zenon DEF IsEach
<1>5. Len(a) \in Nat /\ Len(b) \in Nat OBVIOUS
<1>6. ASSUME NEW i \in 1..Len(x) PROVE z[i] = x[i]
  <2>1. i \in 1..Len(a) BY <1>4, Zenon
  <2>2. i \in 1..Len(a \o b) BY <1>2, <1>5, <2>1
  <2>3. x[i] = f[a[i]] BY <1>3, <2>1, Zenon DEF IsEach
  <2>4. z[i] = f[(a \o b)[i]] BY <1>3, <2>2, Zenon DEF IsEach
  <2>5. (a \o b)[i] = a[i] BY <1>1, <2>1, Zenon DEF Joined
  <2> QED BY <2>3, <2>4, <2>5, Zenon
<1>7. ASSUME NEW i \in 1..Len(y) PROVE z[Len(x) + i] = y[i]
  <2>1. i \in 1..Len(b) BY <1>4, Zenon
  <2>2. Len(a) + i \in 1..Len(a \o b) BY <1>2, <1>5, <2>1
  <2>3. y[i] = f[b[i]] BY <1>3, <2>1, Zenon DEF IsEach
  <2>4. z[Len(a) + i] = f[(a \o b)[Len(a) + i]] BY <1>3, <2>2, Zenon DEF IsEach
  <2>5. (a \o b)[Len(a) + i] = b[i] BY <1>1, <2>1, Zenon DEF Joined
  <2> QED BY <1>4, <2>3, <2>4, <2>5, Zenon
<1>8. z = x \o y BY <1>4, <1>6, <1>7, JoinIs, Zenon
<1> QED BY <1>8, Zenon DEF x, y, z, EachJoins

IsEachRow(B, cut, f, rows) ==
  /\ cut \in Seq(Seq(B)) /\ Len(cut) = Len(rows)
  /\ \A i \in 1..Len(rows) : cut[i] = Concat(Each(f, rows[i]))

LEMMA EachRowFacts ==
  ASSUME NEW A, NEW B, NEW f, Cutting(f, A, B), NEW rows \in Seq(Seq(A))
  PROVE  IsEachRow(B, EachRow(f, rows), f, rows)
<1>1. /\ Len(rows) \in Nat /\ DOMAIN rows = 1..Len(rows)
      /\ \A i \in 1..Len(rows) : rows[i] \in Seq(A)
  OBVIOUS
<1>2. ASSUME NEW i \in 1..Len(rows) PROVE Concat(Each(f, rows[i])) \in Seq(B)
  <2>1. rows[i] \in Seq(A) BY <1>1, Zenon
  <2>2. IsEach(B, Each(f, rows[i]), f, rows[i]) BY <2>1, EachFacts, Zenon
  <2>3. Each(f, rows[i]) \in Seq(Seq(B)) BY <2>2, Zenon DEF IsEach
  <2> QED BY <2>3, ConcatFacts, Zenon
<1>3. EachRow(f, rows) \in [1..Len(rows) -> Seq(B)] BY <1>1, <1>2, Zenon DEF EachRow
<1>4. \A i \in 1..Len(rows) : EachRow(f, rows)[i] = Concat(Each(f, rows[i]))
  BY <1>1, Zenon DEF EachRow
<1>5. EachRow(f, rows) \in Seq(Seq(B)) /\ Len(EachRow(f, rows)) = Len(rows)
  BY <1>1, <1>3, FunctionSeq, Zenon
<1> QED BY <1>4, <1>5, Zenon DEF IsEachRow

(* It does not matter whether rows are put together before or after their  *)
(* elements are cut.                                                       *)
CutsTogether(f, rows) == Concat(Each(f, Concat(rows))) = Concat(EachRow(f, rows))

LEMMA ConcatEach ==
  ASSUME NEW A, NEW B, NEW f, Cutting(f, A, B), NEW rows \in Seq(Seq(A))
  PROVE  CutsTogether(f, rows)
<1> DEFINE cut == EachRow(f, rows)
           P == {n \in Nat : n <= Len(rows) =>
                   Concat(Each(f, ConcatTo(rows, n))) = ConcatTo(cut, n)}
<1>1. /\ cut \in Seq(Seq(B)) /\ Len(cut) = Len(rows)
      /\ \A i \in 1..Len(rows) : cut[i] = Concat(Each(f, rows[i]))
  <2>1. IsEachRow(B, cut, f, rows) BY EachRowFacts, Zenon
  <2> HIDE DEF cut
  <2> QED BY <2>1, Zenon DEF IsEachRow
<1> HIDE DEF cut
<1>2. 0 \in P
  <2>1. ConcatTo(rows, 0) = <<>> /\ ConcatTo(cut, 0) = <<>>
    BY <1>1, ConcatToFacts, Zenon
  <2>2. <<>> \in Seq(A) /\ Len(<<>>) = 0 /\ 1..0 = {} OBVIOUS
  <2>3. Each(f, <<>>) \in Seq(Seq(B)) /\ Len(Each(f, <<>>)) = 0
    <3>1. IsEach(B, Each(f, <<>>), f, <<>>) BY <2>2, EachFacts, Zenon
    <3> QED BY <2>2, <3>1, Zenon DEF IsEach
  <2>4. \A k \in 1..Len(Each(f, <<>>)) : Each(f, <<>>)[k] = <<>>
    BY <2>2, <2>3, Zenon
  <2>5. Concat(Each(f, <<>>)) = <<>> BY <2>3, <2>4, ConcatNothing, Zenon
  <2> QED BY <2>1, <2>5
<1>3. ASSUME NEW n \in P, n + 1 <= Len(rows)
      PROVE  Concat(Each(f, ConcatTo(rows, n + 1))) = ConcatTo(cut, n + 1)
  <2> DEFINE before == ConcatTo(rows, n)
  <2>1. n + 1 \in 1..Len(rows) /\ (n + 1) - 1 = n /\ n \in 0..Len(rows)
        /\ Concat(Each(f, before)) = ConcatTo(cut, n)
    BY <1>3
  <2>2. ConcatTo(rows, n + 1) = before \o rows[n + 1] /\ before \in Seq(A)
    BY <2>1, ConcatToFacts, Zenon
  <2>3. ConcatTo(cut, n + 1) = ConcatTo(cut, n) \o cut[n + 1]
    BY <2>1, <1>1, ConcatToFacts, Zenon
  <2>4. rows[n + 1] \in Seq(A) BY <2>1
  <2> HIDE DEF before
  <2>5. Each(f, before \o rows[n + 1]) = Each(f, before) \o Each(f, rows[n + 1])
    <3>1. EachJoins(f, before, rows[n + 1]) BY <2>2, <2>4, EachTwo, Zenon
    <3> QED BY <3>1, Zenon DEF EachJoins
  <2>6. Each(f, before) \in Seq(Seq(B)) /\ Each(f, rows[n + 1]) \in Seq(Seq(B))
    <3>1. IsEach(B, Each(f, before), f, before)
          /\ IsEach(B, Each(f, rows[n + 1]), f, rows[n + 1])
      BY <2>2, <2>4, EachFacts, Zenon
    <3> QED BY <3>1, Zenon DEF IsEach
  <2>7. Concat(Each(f, before) \o Each(f, rows[n + 1])) =
          Concat(Each(f, before)) \o Concat(Each(f, rows[n + 1]))
    BY <2>6, ConcatTwo, Zenon
  <2> QED BY <2>1, <2>2, <2>3, <2>5, <2>7, <1>1, Zenon
<1>4. \A n \in P : n + 1 \in P BY <1>3
<1>5. P \in SUBSET Nat OBVIOUS
<1>6. P = Nat BY <1>2, <1>4, <1>5, SetInduction, Zenon
<1>7. Len(rows) \in Nat /\ Len(rows) <= Len(rows) OBVIOUS
<1> QED BY <1>1, <1>6, <1>7, Zenon DEF Concat, CutsTogether, cut

(* No place of a row of rows is that of two elements. *)
LEMMA PlacesDiffer ==
  ASSUME NEW A, NEW rows \in Seq(Seq(A)),
         NEW i \in 1..Len(rows), NEW j \in 1..Len(rows),
         NEW a \in 1..Len(rows[i]), NEW b \in 1..Len(rows[j]), i < j
  PROVE  SumBefore(Lens(rows), i) + a # SumBefore(Lens(rows), j) + b
<1> DEFINE L == Lens(rows)
<1>1. /\ L \in Seq(Nat) /\ Len(L) = Len(rows)
      /\ \A k \in 1..Len(rows) : L[k] = Len(rows[k])
  BY LensFacts, Zenon
<1>2. /\ i \in 1..Len(rows) /\ i - 1 \in 0..Len(rows) /\ j - 1 \in 0..Len(rows)
      /\ i \in 0..Len(rows) /\ i <= j - 1
  <2>1. Len(rows) \in Nat OBVIOUS
  <2> QED BY <2>1
<1> HIDE DEF L
<1>3. SumTo(L, i) = SumTo(L, i - 1) + Len(rows[i]) BY <1>1, <1>2, SumToFacts, Zenon
<1>4. SumTo(L, i - 1) \in Nat /\ SumTo(L, i) \in Nat /\ SumTo(L, j - 1) \in Nat
  BY <1>1, <1>2, SumToFacts, Zenon
<1>5. SumTo(L, i) <= SumTo(L, j - 1) BY <1>1, <1>2, SumGrows, Zenon
<1>6. Len(rows[i]) \in Nat /\ Len(rows[j]) \in Nat OBVIOUS
<1>7. a \in Nat /\ a <= Len(rows[i]) /\ b \in Nat /\ 1 <= b BY <1>6
<1>8. SumTo(L, i - 1) + a # SumTo(L, j - 1) + b
  <2>1. \A x, y, n, c, d \in Nat : x + n <= y /\ c <= n /\ 1 <= d => x + c # y + d
    OBVIOUS
  <2> QED BY <1>3, <1>4, <1>5, <1>6, <1>7, <2>1, Zenon
<1> QED BY <1>8, Zenon DEF SumBefore, L

(* The code of modules is cut from each of them. *)
MainOf == [m \in Good |-> SubSeq(m.cells, 1, m.main_size)]
FuncOf == [m \in Good |-> SubSeq(m.cells, m.main_size + 1, Len(m.cells))]

LEMMA PartsAreCut ==
  /\ Cutting(MainOf, Good, Cell) /\ Cutting(FuncOf, Good, Cell)
  /\ \A ms \in Seq(Good) : /\ MainCmds(ms) = Each(MainOf, ms)
                           /\ FuncCmds(ms) = Each(FuncOf, ms)
<1>1. ASSUME NEW m \in Good
      PROVE  /\ SubSeq(m.cells, 1, m.main_size) \in Seq(Cell)
             /\ SubSeq(m.cells, m.main_size + 1, Len(m.cells)) \in Seq(Cell)
  <2> DEFINE cells == m.cells
             n == m.main_size
  <2>1. cells \in Seq(Cell) /\ Len(cells) \in Nat /\ n \in Nat /\ n <= Len(cells)
    BY GoodFacts, Zenon
  <2> HIDE DEF cells, n
  <2>2. SubSeq(cells, 1, n) \in Seq(Cell) /\ SubSeq(cells, n + 1, Len(cells)) \in Seq(Cell)
    BY <2>1
  <2> QED BY <2>2, Zenon DEF cells, n
<1>2. MainOf \in [Good -> Seq(Cell)] /\ FuncOf \in [Good -> Seq(Cell)]
  BY <1>1, Zenon DEF MainOf, FuncOf
<1>3. ASSUME NEW ms \in Seq(Good)
      PROVE  MainCmds(ms) = Each(MainOf, ms) /\ FuncCmds(ms) = Each(FuncOf, ms)
  <2>1. \A k \in DOMAIN ms : ms[k] \in Good BY SizesFacts, Zenon
  <2>2. \A k \in DOMAIN ms :
          /\ MainOf[ms[k]] = SubSeq(ms[k].cells, 1, ms[k].main_size)
          /\ FuncOf[ms[k]] = SubSeq(ms[k].cells, ms[k].main_size + 1, Len(ms[k].cells))
    BY <2>1, Zenon DEF MainOf, FuncOf
  <2> QED BY <2>2, Zenon DEF MainCmds, FuncCmds, Each
<1> QED BY <1>2, <1>3, Zenon DEF Cutting

(* Libraries, and the rows of modules that they were linked from. *)
Libs(rows) == [i \in DOMAIN rows |-> LinkLib(rows[i])]
AreLibs(rows) == \A i \in 1..Len(rows) : LibLinks(rows[i])

IsLib(lib, ms) ==
  /\ lib \in Good /\ ms \in Seq(Good) /\ LibLinks(ms) /\ lib = LinkLib(ms)
  /\ lib.cells = WriteModuleCmds(ms) /\ lib.main_size = Sum(MainSizes(ms))

LEMMA LibsFacts ==
  ASSUME NEW rows \in Seq(Seq(Good)), AreLibs(rows)
  PROVE  /\ Libs(rows) \in Seq(Good) /\ Len(Libs(rows)) = Len(rows)
         /\ Concat(rows) \in Seq(Good) /\ Len(rows) \in Nat
         /\ \A i \in 1..Len(rows) : IsLib(Libs(rows)[i], rows[i])
<1>1. /\ Len(rows) \in Nat /\ DOMAIN rows = 1..Len(rows)
      /\ \A i \in 1..Len(rows) : rows[i] \in Seq(Good)
  OBVIOUS
<1>2. ASSUME NEW i \in 1..Len(rows) PROVE IsLib(LinkLib(rows[i]), rows[i])
  <2>1. rows[i] \in Seq(Good) /\ LibLinks(rows[i]) BY <1>1, Zenon DEF AreLibs
  <2>2. LinkLib(rows[i]) \in Good BY <2>1, LinkKeepsTables, Zenon
  <2>3. /\ LinkLib(rows[i]).cells = WriteModuleCmds(rows[i])
        /\ LinkLib(rows[i]).main_size = Sum(MainSizes(rows[i]))
    BY DEF LinkLib
  <2> QED BY <2>1, <2>2, <2>3, Zenon DEF IsLib
<1>3. \A i \in 1..Len(rows) : LinkLib(rows[i]) \in Good BY <1>2, Zenon DEF IsLib
<1>4. Libs(rows) \in [1..Len(rows) -> Good] BY <1>1, <1>3, Zenon DEF Libs
<1>5. \A i \in 1..Len(rows) : Libs(rows)[i] = LinkLib(rows[i])
  BY <1>1, Zenon DEF Libs
<1>6. Libs(rows) \in Seq(Good) /\ Len(Libs(rows)) = Len(rows)
  BY <1>1, <1>4, FunctionSeq, Zenon
<1>7. Concat(rows) \in Seq(Good) BY ConcatFacts, Zenon
<1> QED BY <1>1, <1>2, <1>5, <1>6, <1>7, Zenon

LEMMA LibsAreCut ==
  ASSUME NEW rows \in Seq(Seq(Good)), AreLibs(rows)
  PROVE  /\ MainCmds(Libs(rows)) = EachRow(MainOf, rows)
         /\ FuncCmds(Libs(rows)) = EachRow(FuncOf, rows)
<1> DEFINE libs == Libs(rows)
<1>1. /\ libs \in Seq(Good) /\ Len(libs) = Len(rows) /\ Len(rows) \in Nat
      /\ \A i \in 1..Len(rows) : IsLib(libs[i], rows[i])
  BY LibsFacts, Zenon
<1> HIDE DEF libs
<1>2. /\ MainCmds(libs) \in Seq(Seq(Cell)) /\ Len(MainCmds(libs)) = Len(rows)
      /\ FuncCmds(libs) \in Seq(Seq(Cell)) /\ Len(FuncCmds(libs)) = Len(rows)
  BY <1>1, PartsFacts, Zenon
<1>3. /\ IsEachRow(Cell, EachRow(MainOf, rows), MainOf, rows)
      /\ IsEachRow(Cell, EachRow(FuncOf, rows), FuncOf, rows)
  BY PartsAreCut, EachRowFacts, Zenon
<1>4. ASSUME NEW i \in 1..Len(rows)
      PROVE  /\ MainCmds(libs)[i] = Concat(Each(MainOf, rows[i]))
             /\ FuncCmds(libs)[i] = Concat(Each(FuncOf, rows[i]))
  <2> DEFINE ms == rows[i]
             main == Sum(MainSizes(ms))
             func == Sum(FuncSizes(ms))
             a == MainCmds(libs)[i]
             b == FuncCmds(libs)[i]
             c == Concat(MainCmds(ms))
             d == Concat(FuncCmds(ms))
  <2>1. /\ libs[i] \in Good /\ ms \in Seq(Good)
        /\ libs[i].cells = WriteModuleCmds(ms) /\ libs[i].main_size = main
    BY <1>1, Zenon DEF IsLib
  <2>2. MainCmds(ms) = Each(MainOf, ms) /\ FuncCmds(ms) = Each(FuncOf, ms)
    BY <2>1, PartsAreCut, Zenon
  <2>3. a \in Seq(Cell) /\ b \in Seq(Cell) BY <1>2
  <2>4. i \in 1..Len(libs) BY <1>1, Zenon
  <2>0. libs \in Seq(Good) BY <1>1, Zenon
  <2>5. Len(a) = main /\ \A j \in 1..main : a[j] = WriteModuleCmds(ms)[j]
    <3>1. /\ Len(a) = libs[i].main_size
          /\ \A j \in 1..libs[i].main_size : a[j] = libs[i].cells[j]
      BY <2>0, <2>4, MainPart, Zenon
    <3> HIDE DEF a, main
    <3> QED BY <2>1, <3>1, Zenon
  <2>6. /\ Len(b) = Len(WriteModuleCmds(ms)) - main
        /\ \A j \in 1..Len(WriteModuleCmds(ms)) - main :
             b[j] = WriteModuleCmds(ms)[main + j]
    <3>1. /\ Len(b) = Len(libs[i].cells) - libs[i].main_size
          /\ \A j \in 1..Len(libs[i].cells) - libs[i].main_size :
               b[j] = libs[i].cells[libs[i].main_size + j]
      BY <2>0, <2>4, FuncPart, Zenon
    <3> HIDE DEF b, main
    <3> QED BY <2>1, <3>1, Zenon
  <2>7. /\ c \in Seq(Cell) /\ Len(c) = main /\ d \in Seq(Cell) /\ Len(d) = func
        /\ \A j \in 1..main : WriteModuleCmds(ms)[j] = c[j]
        /\ \A j \in 1..func : WriteModuleCmds(ms)[main + j] = d[j]
        /\ Len(WriteModuleCmds(ms)) = main + func /\ main \in Nat
    BY <2>1, WriteFacts, Zenon
  <2> HIDE DEF a, b, c, d, main, func
  <2>8. Len(WriteModuleCmds(ms)) - main = func
    <3>1. func \in Nat BY <2>7
    <3> QED BY <2>7, <3>1
  <2>9. a = c BY <2>3, <2>5, <2>7, SeqEqual, Zenon
  <2>10. b = d BY <2>3, <2>6, <2>7, <2>8, SeqEqual, Zenon
  <2> QED BY <2>2, <2>9, <2>10, Zenon DEF a, b, c, d, ms
<1>5. MainCmds(libs) = EachRow(MainOf, rows)
  <2> DEFINE t == EachRow(MainOf, rows)
  <2>1. t \in Seq(Seq(Cell)) /\ Len(t) = Len(rows)
        /\ \A i \in 1..Len(rows) : t[i] = Concat(Each(MainOf, rows[i]))
    BY <1>3, Zenon DEF IsEachRow
  <2> HIDE DEF t
  <2> QED BY <1>2, <1>4, <2>1, SeqEqual, Zenon DEF t
<1>6. FuncCmds(libs) = EachRow(FuncOf, rows)
  <2> DEFINE t == EachRow(FuncOf, rows)
  <2>1. t \in Seq(Seq(Cell)) /\ Len(t) = Len(rows)
        /\ \A i \in 1..Len(rows) : t[i] = Concat(Each(FuncOf, rows[i]))
    BY <1>3, Zenon DEF IsEachRow
  <2> HIDE DEF t
  <2> QED BY <1>2, <1>4, <2>1, SeqEqual, Zenon DEF t
<1> QED BY <1>5, <1>6, Zenon DEF libs

(* Libraries have the code of their modules, in the same order. *)
LEMMA LibsCells ==
  ASSUME NEW rows \in Seq(Seq(Good)), AreLibs(rows)
  PROVE  /\ WriteModuleCmds(Libs(rows)) = WriteModuleCmds(Concat(rows))
         /\ Sum(MainSizes(Libs(rows))) = Sum(MainSizes(Concat(rows)))
<1> DEFINE libs == Libs(rows)
           flat == Concat(rows)
<1>1. libs \in Seq(Good) /\ flat \in Seq(Good) BY LibsFacts, Zenon
<1>2. /\ Concat(MainCmds(libs)) = Concat(EachRow(MainOf, rows))
      /\ Concat(FuncCmds(libs)) = Concat(EachRow(FuncOf, rows))
  BY LibsAreCut, Zenon
<1>3. /\ Concat(Each(MainOf, flat)) = Concat(EachRow(MainOf, rows))
      /\ Concat(Each(FuncOf, flat)) = Concat(EachRow(FuncOf, rows))
  <2>1. CutsTogether(MainOf, rows) /\ CutsTogether(FuncOf, rows)
    BY PartsAreCut, ConcatEach, Zenon
  <2> QED BY <2>1, Zenon DEF CutsTogether
<1>4. MainCmds(flat) = Each(MainOf, flat) /\ FuncCmds(flat) = Each(FuncOf, flat)
  BY <1>1, PartsAreCut, Zenon
<1> HIDE DEF libs, flat
<1>5. /\ Concat(MainCmds(libs)) = Concat(MainCmds(flat))
      /\ Concat(FuncCmds(libs)) = Concat(FuncCmds(flat))
  BY <1>2, <1>3, <1>4, Zenon
<1>6. WriteModuleCmds(libs) = WriteModuleCmds(flat)
  BY <1>5, Zenon DEF WriteModuleCmds
<1>7. /\ Len(Concat(MainCmds(libs))) = Sum(MainSizes(libs))
      /\ Len(Concat(MainCmds(flat))) = Sum(MainSizes(flat))
  BY <1>1, WriteFacts, Zenon
<1> QED BY <1>5, <1>6, <1>7, Zenon DEF libs, flat

(* The checks of sizes are that all code has an address. *)
LEMMA FitsIff ==
  ASSUME NEW ms \in Seq(Good)
  PROVE  SizesFit(ms, Len(ms)) <=> Len(WriteModuleCmds(ms)) < Word
<1> DEFINE n == Len(ms)
           c == CodeSizes(ms)
           s == MainSizes(ms)
           size == Len(WriteModuleCmds(ms))
<1>1. /\ n \in Nat /\ s \in Seq(Nat) /\ Len(s) = n /\ c \in Seq(Nat) /\ Len(c) = n
      /\ \A k \in 1..n : s[k] = ms[k].main_size /\ c[k] = Len(ms[k].cells)
  BY SizesFacts, Zenon
<1>2. n \in 0..n BY <1>1
<1>3. size = SumTo(c, n) /\ size \in Nat BY WriteFacts, Zenon
<1>4. SizesFit(ms, n) => size < Word BY <1>2, <1>3, SizesSmall, Zenon
<1>5. SumTo(s, n) <= size
  <2>1. SumTo(c, n) = SumTo(s, n) + SumTo(FuncSizes(ms), n)
        /\ SumTo(s, n) \in Nat /\ SumTo(FuncSizes(ms), n) \in Nat
    BY <1>2, SizesAdd, Zenon
  <2> HIDE DEF s, c, size
  <2> QED BY <1>3, <2>1
<1> HIDE DEF n, c, s, size
<1>6. ASSUME NEW t \in Seq(Nat), Len(t) = n, SumTo(t, n) <= size, size < Word,
             NEW k \in 1..n
      PROVE  CheckAddressOverflow(SumBefore(t, k), t[k])
  <2> DEFINE x == SumTo(t, k - 1)
             y == SumTo(t, k)
             z == SumTo(t, n)
  <2>1. k \in 1..Len(t) /\ k \in 0..Len(t) /\ k - 1 \in 0..Len(t) /\ n \in 0..Len(t)
        /\ k <= n
    BY <1>1, <1>6
  <2>2. y = x + t[k] /\ x \in Nat /\ y \in Nat /\ z \in Nat
    BY <2>1, SumToFacts, Zenon
  <2>3. y <= z BY <2>1, SumGrows, Zenon
  <2>4. t[k] \in Nat BY <2>1
  <2> HIDE DEF x, y, z
  <2>5. y < Word BY <1>3, <1>6, <2>2, <2>3, WordAssumption DEF z
  <2>6. y % Word = y BY <2>2, <2>5, WordFacts, Zenon
  <2>7. y >= x BY <2>2, <2>4
  <2>8. (x + t[k]) % Word >= x BY <2>2, <2>6, <2>7, Zenon
  <2> QED BY <2>8, Zenon DEF CheckAddressOverflow, SumBefore, x
<1>7. ASSUME size < Word PROVE SizesFit(ms, n)
  <2>1. SumTo(c, n) <= size BY <1>3
  <2>2. ASSUME NEW k \in 1..n
        PROVE  /\ CheckAddressOverflow(SumBefore(s, k), ms[k].main_size)
               /\ CheckAddressOverflow(SumBefore(c, k), Len(ms[k].cells))
    <3>1. CheckAddressOverflow(SumBefore(s, k), s[k])
      BY <1>1, <1>5, <1>6, <1>7, Zenon
    <3>2. CheckAddressOverflow(SumBefore(c, k), c[k])
      BY <1>1, <1>6, <1>7, <2>1, Zenon
    <3> QED BY <1>1, <3>1, <3>2, Zenon
  <2> QED BY <2>2, Zenon DEF SizesFit, s, c
<1> QED BY <1>4, <1>7, Zenon DEF n, size

(* The ids that modules define and refer to are those of their library. *)
LEMMA ConcatToSet ==
  ASSUME NEW A, NEW ss \in Seq(Seq(A))
  PROVE  \A x : x \in ToSet(Concat(ss)) <=> \E k \in 1..Len(ss) : x \in ToSet(ss[k])
<1>1. /\ Len(ss) \in Nat /\ Concat(ss) \in Seq(A)
      /\ \A k \in 1..Len(ss) : ss[k] \in Seq(A)
  BY ConcatFacts
<1>2. DOMAIN Concat(ss) = 1..Len(Concat(ss)) BY <1>1
<1>3. \A k \in 1..Len(ss) : DOMAIN ss[k] = 1..Len(ss[k]) BY <1>1
<1>4. ASSUME NEW x \in ToSet(Concat(ss)) PROVE \E k \in 1..Len(ss) : x \in ToSet(ss[k])
  <2>1. PICK p \in 1..Len(Concat(ss)) : x = Concat(ss)[p] BY <1>2, Zenon DEF ToSet
  <2>2. PICK k \in 1..Len(ss) : \E i \in 1..Len(ss[k]) :
          p = SumBefore(Lens(ss), k) + i
    BY ConcatFinds, Zenon
  <2>3. PICK i \in 1..Len(ss[k]) : p = SumBefore(Lens(ss), k) + i BY <2>2, Zenon
  <2>4. x = ss[k][i] BY <2>1, <2>3, ConcatAt, Zenon
  <2> QED BY <1>3, <2>4, Zenon DEF ToSet
<1>5. ASSUME NEW x, NEW k \in 1..Len(ss), x \in ToSet(ss[k])
      PROVE  x \in ToSet(Concat(ss))
  <2>1. PICK i \in 1..Len(ss[k]) : x = ss[k][i] BY <1>3, <1>5, Zenon DEF ToSet
  <2>2. /\ SumBefore(Lens(ss), k) + i \in 1..Len(Concat(ss))
        /\ Concat(ss)[SumBefore(Lens(ss), k) + i] = ss[k][i]
    BY ConcatAt, Zenon
  <2> QED BY <1>2, <2>1, <2>2, Zenon DEF ToSet
<1> QED BY <1>4, <1>5, Zenon

SomeDefines(ms, id) == \E k \in 1..Len(ms) : id \in DefinedIn(ms[k])
SomeRefers(ms, id) == \E k \in 1..Len(ms) : ms[k].refs[id] # {}

LEMMA LibDefines ==
  ASSUME NEW ms \in Seq(Good)
  PROVE  \A id : id \in DefinedIn(LinkLib(ms)) <=> SomeDefines(ms, id)
<1> DEFINE rows == [k \in DOMAIN ms |-> ms[k].var_defs]
           lib == LinkLib(ms)
           funcs(m) == {def.id : def \in m.func_defs}
<1>1. /\ Len(ms) \in Nat /\ DOMAIN ms = 1..Len(ms)
      /\ \A k \in 1..Len(ms) : ms[k].var_defs \in Seq(Var)
  BY SizesFacts, GoodFacts, Zenon
<1>2. /\ lib.var_defs = Concat(rows) /\ lib.func_defs = CollectFuncDefs(ms)
      /\ lib.native_defs = CollectNativeFuncDefs(ms)
  BY DEF LinkLib, CollectGlobalVarDefs
<1>3. /\ rows \in [1..Len(ms) -> Seq(Var)]
      /\ \A k \in 1..Len(ms) : rows[k] = ms[k].var_defs
  BY <1>1, Zenon
<1> HIDE DEF rows, lib
<1>4. rows \in Seq(Seq(Var)) /\ Len(rows) = Len(ms) BY <1>1, <1>3, FunctionSeq, Zenon
<1>5. \A id : id \in ToSet(lib.var_defs) <=>
                \E k \in 1..Len(ms) : id \in ToSet(ms[k].var_defs)
  BY <1>2, <1>3, <1>4, ConcatToSet, Zenon
<1>6. \A id : id \in funcs(lib) <=> \E k \in 1..Len(ms) : id \in funcs(ms[k])
  <2> DEFINE moved(k, def) == [id |-> def.id, address |-> Moved(ms, k, def.address)]
  <2>1. \A k, def : moved(k, def).id = def.id OBVIOUS
  <2>2. CollectFuncDefs(ms) =
          UNION {{moved(k, def) : def \in ms[k].func_defs} : k \in 1..Len(ms)}
    BY <1>1, Zenon DEF CollectFuncDefs
  <2> HIDE DEF moved
  <2>3. ASSUME NEW id \in funcs(lib) PROVE \E k \in 1..Len(ms) : id \in funcs(ms[k])
    <3>1. PICK to \in CollectFuncDefs(ms) : id = to.id BY <1>2, Zenon
    <3>2. PICK k \in 1..Len(ms) : to \in {moved(k, def) : def \in ms[k].func_defs}
      BY <2>2, <3>1, Zenon
    <3>3. PICK def \in ms[k].func_defs : to = moved(k, def) BY <3>2, Zenon
    <3>4. id = def.id BY <2>1, <3>1, <3>3, Zenon
    <3> QED BY <3>4, Zenon
  <2>4. ASSUME NEW k \in 1..Len(ms), NEW id \in funcs(ms[k]) PROVE id \in funcs(lib)
    <3>1. PICK def \in ms[k].func_defs : id = def.id BY Zenon
    <3>2. moved(k, def) \in {moved(k, d) : d \in ms[k].func_defs} BY Zenon
    <3>3. moved(k, def) \in lib.func_defs
      <4> DEFINE part(j) == {moved(j, d) : d \in ms[j].func_defs}
      <4>1. lib.func_defs = UNION {part(j) : j \in 1..Len(ms)} BY <1>2, <2>2, Zenon
      <4>2. moved(k, def) \in part(k) BY <3>2, Zenon
      <4> HIDE DEF part
      <4>3. part(k) \in {part(j) : j \in 1..Len(ms)} BY Zenon
      <4> QED BY <4>1, <4>2, <4>3
    <3>4. id = moved(k, def).id BY <2>1, <3>1, Zenon
    <3> QED BY <3>3, <3>4, Zenon
  <2> QED BY <2>3, <2>4, Zenon
<1>7. \A id : id \in lib.native_defs <=> \E k \in 1..Len(ms) : id \in ms[k].native_defs
  BY <1>1, <1>2, Zenon DEF CollectNativeFuncDefs
<1> HIDE DEF funcs
<1>8. \A m : DefinedIn(m) = ToSet(m.var_defs) \cup funcs(m) \cup m.native_defs
  BY Zenon DEF DefinedIn, funcs
<1>9. ASSUME NEW id \in DefinedIn(lib) PROVE SomeDefines(ms, id)
  <2>1. id \in ToSet(lib.var_defs) \/ id \in funcs(lib) \/ id \in lib.native_defs
    BY <1>8, Zenon
  <2>2. PICK k \in 1..Len(ms) :
          id \in ToSet(ms[k].var_defs) \/ id \in funcs(ms[k]) \/ id \in ms[k].native_defs
    BY <1>5, <1>6, <1>7, <2>1, Zenon
  <2> QED BY <1>8, <2>2, Zenon DEF SomeDefines
<1>10. ASSUME NEW id, SomeDefines(ms, id) PROVE id \in DefinedIn(lib)
  <2>1. PICK k \in 1..Len(ms) : id \in DefinedIn(ms[k]) BY <1>10, Zenon DEF SomeDefines
  <2>2. id \in ToSet(ms[k].var_defs) \/ id \in funcs(ms[k]) \/ id \in ms[k].native_defs
    BY <1>8, <2>1, Zenon
  <2>3. id \in ToSet(lib.var_defs) \/ id \in funcs(lib) \/ id \in lib.native_defs
    BY <1>5, <1>6, <1>7, <2>2, Zenon
  <2> QED BY <1>8, <2>3, Zenon
<1> QED BY <1>9, <1>10, Zenon DEF lib

LEMMA LibRefers ==
  ASSUME NEW ms \in Seq(Good), NEW id \in Id
  PROVE  LinkLib(ms).refs[id] # {} <=> SomeRefers(ms, id)
<1> DEFINE moved(k) == {Moved(ms, k, a) : a \in ms[k].refs[id]}
<1>1. DOMAIN ms = 1..Len(ms) BY SizesFacts, Zenon
<1>2. LinkLib(ms).refs = CollectRefs(ms) BY DEF LinkLib
<1>3. CollectRefs(ms)[id] = UNION {moved(k) : k \in 1..Len(ms)}
  BY <1>1, Zenon DEF CollectRefs
<1>4. \A k \in 1..Len(ms) : moved(k) # {} <=> ms[k].refs[id] # {} BY Zenon
<1> HIDE DEF moved
<1>5. CollectRefs(ms)[id] # {} <=> \E k \in 1..Len(ms) : moved(k) # {}
  <2>1. \A x : x \in CollectRefs(ms)[id] <=> \E k \in 1..Len(ms) : x \in moved(k)
    BY <1>3
  <2> QED BY <2>1
<1> QED BY <1>2, <1>4, <1>5, Zenon DEF SomeRefers

(* Where each module of a row of rows is in all of them. *)
PlaceOf(rows, i, a) == SumBefore(Lens(rows), i) + a

LEMMA FlatPlaces ==
  ASSUME NEW A, NEW rows \in Seq(Seq(A))
  PROVE  /\ \A p \in 1..Len(Concat(rows)) :
              \E i \in 1..Len(rows) : \E a \in 1..Len(rows[i]) :
                p = PlaceOf(rows, i, a) /\ Concat(rows)[p] = rows[i][a]
         /\ \A i \in 1..Len(rows) : \A a \in 1..Len(rows[i]) :
              /\ PlaceOf(rows, i, a) \in 1..Len(Concat(rows))
              /\ Concat(rows)[PlaceOf(rows, i, a)] = rows[i][a]
<1>1. ASSUME NEW i \in 1..Len(rows), NEW a \in 1..Len(rows[i])
      PROVE  /\ PlaceOf(rows, i, a) \in 1..Len(Concat(rows))
             /\ Concat(rows)[PlaceOf(rows, i, a)] = rows[i][a]
  BY ConcatAt, Zenon DEF PlaceOf
<1>2. ASSUME NEW p \in 1..Len(Concat(rows))
      PROVE  \E i \in 1..Len(rows) : \E a \in 1..Len(rows[i]) :
               p = PlaceOf(rows, i, a) /\ Concat(rows)[p] = rows[i][a]
  <2>1. PICK i \in 1..Len(rows) : \E a \in 1..Len(rows[i]) : p = PlaceOf(rows, i, a)
    BY ConcatFinds, Zenon DEF PlaceOf
  <2>2. PICK a \in 1..Len(rows[i]) : p = PlaceOf(rows, i, a) BY <2>1, Zenon
  <2> QED BY <1>1, <2>2, Zenon
<1> QED BY <1>1, <1>2, Zenon

LEMMA LibsTables ==
  ASSUME NEW rows \in Seq(Seq(Good)), AreLibs(rows), NEW id
  PROVE  /\ SomeDefines(Libs(rows), id) <=> SomeDefines(Concat(rows), id)
         /\ id \in Id => (SomeRefers(Libs(rows), id) <=> SomeRefers(Concat(rows), id))
<1> DEFINE libs == Libs(rows)
           flat == Concat(rows)
<1>1. /\ Len(libs) = Len(rows)
      /\ \A i \in 1..Len(rows) : rows[i] \in Seq(Good) /\ libs[i] = LinkLib(rows[i])
  BY LibsFacts, Zenon DEF IsLib
<1>2. ASSUME NEW p \in 1..Len(flat)
      PROVE  \E i \in 1..Len(rows) : \E a \in 1..Len(rows[i]) : flat[p] = rows[i][a]
  <2>1. PICK i \in 1..Len(rows) : \E a \in 1..Len(rows[i]) :
          p = PlaceOf(rows, i, a) /\ flat[p] = rows[i][a]
    BY FlatPlaces, Zenon
  <2> HIDE DEF flat
  <2> QED BY <2>1, Zenon
<1>3. ASSUME NEW i \in 1..Len(rows), NEW a \in 1..Len(rows[i])
      PROVE  \E p \in 1..Len(flat) : flat[p] = rows[i][a]
  <2>1. PlaceOf(rows, i, a) \in 1..Len(flat) /\ flat[PlaceOf(rows, i, a)] = rows[i][a]
    BY FlatPlaces, Zenon
  <2> HIDE DEF flat
  <2> QED BY <2>1, Zenon
<1> HIDE DEF libs, flat
<1>4. SomeDefines(libs, id) <=> SomeDefines(flat, id)
  <2>1. \A i \in 1..Len(rows) : id \in DefinedIn(libs[i]) <=> SomeDefines(rows[i], id)
    BY <1>1, LibDefines, Zenon
  <2>2. ASSUME SomeDefines(libs, id) PROVE SomeDefines(flat, id)
    <3>1. PICK i \in 1..Len(rows) : id \in DefinedIn(libs[i])
      BY <1>1, <2>2, Zenon DEF SomeDefines
    <3>2. PICK a \in 1..Len(rows[i]) : id \in DefinedIn(rows[i][a])
      BY <2>1, <3>1, Zenon DEF SomeDefines
    <3>3. PICK p \in 1..Len(flat) : flat[p] = rows[i][a] BY <1>3, Zenon
    <3> QED BY <3>2, <3>3, Zenon DEF SomeDefines
  <2>3. ASSUME SomeDefines(flat, id) PROVE SomeDefines(libs, id)
    <3>1. PICK p \in 1..Len(flat) : id \in DefinedIn(flat[p])
      BY <2>3, Zenon DEF SomeDefines
    <3>2. PICK i \in 1..Len(rows) : \E a \in 1..Len(rows[i]) : flat[p] = rows[i][a]
      BY <1>2, Zenon
    <3>3. SomeDefines(rows[i], id) BY <3>1, <3>2, Zenon DEF SomeDefines
    <3>4. id \in DefinedIn(libs[i]) BY <2>1, <3>3, Zenon
    <3> QED BY <1>1, <3>4, Zenon DEF SomeDefines
  <2> QED BY <2>2, <2>3, Zenon
<1>5. ASSUME id \in Id PROVE SomeRefers(libs, id) <=> SomeRefers(flat, id)
  <2>1. \A i \in 1..Len(rows) : libs[i].refs[id] # {} <=> SomeRefers(rows[i], id)
    BY <1>1, <1>5, LibRefers, Zenon
  <2>2. ASSUME SomeRefers(libs, id) PROVE SomeRefers(flat, id)
    <3>1. PICK i \in 1..Len(rows) : libs[i].refs[id] # {}
      BY <1>1, <2>2, Zenon DEF SomeRefers
    <3>2. PICK a \in 1..Len(rows[i]) : rows[i][a].refs[id] # {}
      BY <2>1, <3>1, Zenon DEF SomeRefers
    <3>3. PICK p \in 1..Len(flat) : flat[p] = rows[i][a] BY <1>3, Zenon
    <3> QED BY <3>2, <3>3, Zenon DEF SomeRefers
  <2>3. ASSUME SomeRefers(flat, id) PROVE SomeRefers(libs, id)
    <3>1. PICK p \in 1..Len(flat) : flat[p].refs[id] # {}
      BY <2>3, Zenon DEF SomeRefers
    <3>2. PICK i \in 1..Len(rows) : \E a \in 1..Len(rows[i]) : flat[p] = rows[i][a]
      BY <1>2, Zenon
    <3>3. SomeRefers(rows[i], id) BY <3>1, <3>2, Zenon DEF SomeRefers
    <3>4. libs[i].refs[id] # {} BY <2>1, <3>3, Zenon
    <3> QED BY <1>1, <3>4, Zenon DEF SomeRefers
  <2> QED BY <2>2, <2>3, Zenon
<1> QED BY <1>4, <1>5, Zenon DEF libs, flat

(* The modules of all libraries define nothing twice if and only if the    *)
(* libraries do not, as no library does.                                   *)
LEMMA LibsNoDuplicates ==
  ASSUME NEW rows \in Seq(Seq(Good)), AreLibs(rows)
  PROVE  NoDuplicates(Libs(rows)) <=> NoDuplicates(Concat(rows))
<1> DEFINE libs == Libs(rows)
           flat == Concat(rows)
<1>1. /\ libs \in Seq(Good) /\ flat \in Seq(Good) /\ Len(libs) = Len(rows)
      /\ Len(rows) \in Nat
      /\ \A i \in 1..Len(rows) : /\ rows[i] \in Seq(Good) /\ LibLinks(rows[i])
                                 /\ libs[i] = LinkLib(rows[i])
  BY LibsFacts, Zenon DEF IsLib
<1>2. /\ \A p \in 1..Len(flat) :
           \E i \in 1..Len(rows) : \E a \in 1..Len(rows[i]) :
             p = PlaceOf(rows, i, a) /\ flat[p] = rows[i][a]
      /\ \A i \in 1..Len(rows) : \A a \in 1..Len(rows[i]) :
           PlaceOf(rows, i, a) \in 1..Len(flat) /\ flat[PlaceOf(rows, i, a)] = rows[i][a]
  BY FlatPlaces, Zenon
<1> HIDE DEF libs, flat
<1>3. DOMAIN libs = 1..Len(rows) /\ DOMAIN flat = 1..Len(flat)
  BY <1>1, SizesFacts, Zenon
<1>4. \A i \in 1..Len(rows) : DOMAIN rows[i] = 1..Len(rows[i]) /\ NoDuplicates(rows[i])
  BY <1>1, SizesFacts, Zenon DEF LibLinks
<1>5. \A i \in 1..Len(rows) : \A id :
        id \in DefinedIn(libs[i]) <=>
          \E a \in 1..Len(rows[i]) : id \in DefinedIn(rows[i][a])
  BY <1>1, LibDefines, Zenon DEF SomeDefines
<1>6. ASSUME NoDuplicates(libs), NEW p \in 1..Len(flat), NEW q \in 1..Len(flat),
             p # q, NEW id \in DefinedIn(flat[p]), id \in DefinedIn(flat[q])
      PROVE  FALSE
  <2>1. PICK i \in 1..Len(rows) : \E a \in 1..Len(rows[i]) :
          p = PlaceOf(rows, i, a) /\ flat[p] = rows[i][a]
    BY <1>2, Zenon
  <2>2. PICK a \in 1..Len(rows[i]) : p = PlaceOf(rows, i, a) /\ flat[p] = rows[i][a]
    BY <2>1, Zenon
  <2>3. PICK j \in 1..Len(rows) : \E b \in 1..Len(rows[j]) :
          q = PlaceOf(rows, j, b) /\ flat[q] = rows[j][b]
    BY <1>2, Zenon
  <2>4. PICK b \in 1..Len(rows[j]) : q = PlaceOf(rows, j, b) /\ flat[q] = rows[j][b]
    BY <2>3, Zenon
  <2>5. id \in DefinedIn(libs[i]) /\ id \in DefinedIn(libs[j])
    BY <1>5, <1>6, <2>2, <2>4, Zenon
  <2>6. i = j BY <1>3, <1>6, <2>5, Zenon DEF NoDuplicates
  <2>7. a # b BY <1>6, <2>2, <2>4, <2>6, Zenon
  <2>8. DefinedIn(rows[i][a]) \cap DefinedIn(rows[i][b]) = {}
    BY <1>4, <2>6, <2>7, Zenon DEF NoDuplicates
  <2> QED BY <1>6, <2>2, <2>4, <2>6, <2>8, Zenon
<1>7. ASSUME NoDuplicates(flat), NEW i \in 1..Len(rows), NEW j \in 1..Len(rows),
             i < j, NEW id \in DefinedIn(libs[i]), id \in DefinedIn(libs[j])
      PROVE  FALSE
  <2>1. PICK a \in 1..Len(rows[i]) : id \in DefinedIn(rows[i][a]) BY <1>5, Zenon
  <2>2. PICK b \in 1..Len(rows[j]) : id \in DefinedIn(rows[j][b]) BY <1>5, <1>7, Zenon
  <2>3. PlaceOf(rows, i, a) # PlaceOf(rows, j, b)
    BY <1>7, PlacesDiffer, Zenon DEF PlaceOf
  <2>4. DefinedIn(flat[PlaceOf(rows, i, a)]) \cap DefinedIn(flat[PlaceOf(rows, j, b)]) = {}
    BY <1>2, <1>3, <1>7, <2>3, Zenon DEF NoDuplicates
  <2> QED BY <1>2, <2>1, <2>2, <2>4, Zenon
<1>8. NoDuplicates(libs) => NoDuplicates(flat) BY <1>3, <1>6, Zenon DEF NoDuplicates
<1>9. NoDuplicates(flat) => NoDuplicates(libs)
  <2>1. \A i, j \in 1..Len(rows) : i # j => i < j \/ j < i BY <1>1
  <2> QED BY <1>3, <1>7, <2>1, Zenon DEF NoDuplicates
<1> QED BY <1>8, <1>9, Zenon DEF libs, flat

(* The code of a module that describes it tells the tables. *)
LEMMA CodeTells ==
  ASSUME NEW m \in Good, NEW n \in Good, m.cells = n.cells,
         m.main_size = n.main_size, m.native_defs = n.native_defs
  PROVE  m = n
<1> DEFINE places(k) == {<<def.address, def.id>> : def \in k.func_defs}
<1>1. ASSUME NEW k \in Good
      PROVE  /\ k = [cells |-> k.cells, main_size |-> k.main_size,
                     func_defs |-> k.func_defs, var_defs |-> k.var_defs,
                     native_defs |-> k.native_defs, refs |-> k.refs]
             /\ k.func_defs \subseteq [id: Func, address: Nat]
  BY DEF Good, Module
<1>2. ASSUME NEW k \in Good
      PROVE  /\ k.refs = [id \in Id |-> RefsIn(k.cells, id)]
             /\ k.var_defs = CreatedIn(k.cells) /\ places(k) = EntriesIn(k.cells)
  <2>1. /\ k.refs \in [Id -> SUBSET (0..Len(k.cells) - 1)]
        /\ \A id \in Id : k.refs[id] = RefsIn(k.cells, id)
        /\ k.var_defs = CreatedIn(k.cells)
    BY GoodFacts, Zenon
  <2>2. DescribesCode(k) BY DEF Good
  <2>3. places(k) = EntriesIn(k.cells) BY <2>2, Zenon DEF DescribesCode, EntriesIn
  <2>4. k.refs = [id \in Id |-> k.refs[id]] BY <2>1, Zenon
  <2>5. k.refs = [id \in Id |-> RefsIn(k.cells, id)] BY <2>1, <2>4, Zenon
  <2> QED BY <2>1, <2>3, <2>5, Zenon
<1>3. places(m) = places(n) BY <1>2, Zenon
<1>4. ASSUME NEW x \in Good, NEW y \in Good, places(x) = places(y),
             NEW def \in x.func_defs
      PROVE  def \in y.func_defs
  <2>1. <<def.address, def.id>> \in places(y) BY <1>4, Zenon
  <2>2. PICK e \in y.func_defs : <<def.address, def.id>> = <<e.address, e.id>>
    BY <2>1, Zenon
  <2>3. def.address = e.address /\ def.id = e.id BY <2>2
  <2>4. def \in [id: Func, address: Nat] /\ e \in [id: Func, address: Nat]
    BY <1>1, Zenon
  <2>5. def = e BY <2>3, <2>4
  <2> QED BY <2>5, Zenon
<1> HIDE DEF places
<1>5. m.func_defs = n.func_defs BY <1>3, <1>4, Zenon
<1>6. m.refs = n.refs /\ m.var_defs = n.var_defs BY <1>2, Zenon
<1> QED BY <1>1, <1>5, <1>6, Zenon

LEMMA LibsLink ==
  ASSUME NEW rows \in Seq(Seq(Good)), AreLibs(rows)
  PROVE  LibLinks(Libs(rows)) <=> LibLinks(Concat(rows))
<1> DEFINE libs == Libs(rows)
           flat == Concat(rows)
<1>1. libs \in Seq(Good) /\ flat \in Seq(Good) BY LibsFacts, Zenon
<1>2. WriteModuleCmds(libs) = WriteModuleCmds(flat) BY LibsCells, Zenon
<1>3. NoDuplicates(libs) <=> NoDuplicates(flat) BY LibsNoDuplicates, Zenon
<1> HIDE DEF libs, flat
<1>4. /\ SizesFit(libs, Len(libs)) <=> Len(WriteModuleCmds(libs)) < Word
      /\ SizesFit(flat, Len(flat)) <=> Len(WriteModuleCmds(flat)) < Word
  BY <1>1, FitsIff, Zenon
<1>5. SizesFit(libs, Len(libs)) <=> SizesFit(flat, Len(flat)) BY <1>2, <1>4, Zenon
<1> QED BY <1>3, <1>5, Zenon DEF LibLinks, libs, flat

LEMMA LibsAreOne ==
  ASSUME NEW rows \in Seq(Seq(Good)), AreLibs(rows), LibLinks(Concat(rows))
  PROVE  LinkLib(Libs(rows)) = LinkLib(Concat(rows))
<1> DEFINE libs == Libs(rows)
           flat == Concat(rows)
<1>1. /\ libs \in Seq(Good) /\ flat \in Seq(Good) /\ Len(libs) = Len(rows)
      /\ Len(rows) \in Nat
      /\ \A i \in 1..Len(rows) : rows[i] \in Seq(Good) /\ libs[i] = LinkLib(rows[i])
  BY LibsFacts, Zenon DEF IsLib
<1>2. /\ WriteModuleCmds(libs) = WriteModuleCmds(flat)
      /\ Sum(MainSizes(libs)) = Sum(MainSizes(flat))
  BY LibsCells, Zenon
<1>3. LibLinks(libs) BY LibsLink, Zenon
<1>4. CollectNativeFuncDefs(libs) = CollectNativeFuncDefs(flat)
  <2>1. /\ \A p \in 1..Len(flat) :
             \E i \in 1..Len(rows) : \E a \in 1..Len(rows[i]) :
               p = PlaceOf(rows, i, a) /\ flat[p] = rows[i][a]
        /\ \A i \in 1..Len(rows) : \A a \in 1..Len(rows[i]) :
             PlaceOf(rows, i, a) \in 1..Len(flat) /\ flat[PlaceOf(rows, i, a)] = rows[i][a]
    BY FlatPlaces, Zenon
  <2> HIDE DEF libs, flat
  <2>2. DOMAIN libs = 1..Len(rows) /\ DOMAIN flat = 1..Len(flat)
        /\ \A i \in 1..Len(rows) : DOMAIN rows[i] = 1..Len(rows[i])
    BY <1>1, SizesFacts, Zenon
  <2>3. \A i \in 1..Len(rows) : libs[i].native_defs = CollectNativeFuncDefs(rows[i])
    <3>1. \A ms : LinkLib(ms).native_defs = CollectNativeFuncDefs(ms) BY DEF LinkLib
    <3> QED BY <1>1, <3>1, Zenon
  <2>4. \A ms, id : id \in CollectNativeFuncDefs(ms) <=>
                      \E k \in DOMAIN ms : id \in ms[k].native_defs
    BY Zenon DEF CollectNativeFuncDefs
  <2>5. ASSUME NEW id \in CollectNativeFuncDefs(libs)
        PROVE  id \in CollectNativeFuncDefs(flat)
    <3>1. PICK i \in 1..Len(rows) : id \in libs[i].native_defs BY <2>2, <2>4, Zenon
    <3>2. id \in CollectNativeFuncDefs(rows[i]) BY <2>3, <3>1, Zenon
    <3>3. PICK a \in 1..Len(rows[i]) : id \in rows[i][a].native_defs
      BY <2>2, <2>4, <3>2, Zenon
    <3>4. PlaceOf(rows, i, a) \in DOMAIN flat
          /\ id \in flat[PlaceOf(rows, i, a)].native_defs
      BY <2>1, <2>2, <3>3, Zenon
    <3> QED BY <2>4, <3>4, Zenon
  <2>6. ASSUME NEW id \in CollectNativeFuncDefs(flat)
        PROVE  id \in CollectNativeFuncDefs(libs)
    <3>1. PICK p \in 1..Len(flat) : id \in flat[p].native_defs BY <2>2, <2>4, Zenon
    <3>2. PICK i \in 1..Len(rows) : \E a \in 1..Len(rows[i]) : flat[p] = rows[i][a]
      BY <2>1, Zenon
    <3>3. PICK a \in 1..Len(rows[i]) : flat[p] = rows[i][a] BY <3>2, Zenon
    <3>4. id \in rows[i][a].native_defs /\ a \in DOMAIN rows[i]
      BY <2>2, <3>1, <3>3, Zenon
    <3>5. id \in CollectNativeFuncDefs(rows[i]) BY <2>4, <3>4, Zenon
    <3>6. id \in libs[i].native_defs BY <2>3, <3>5, Zenon
    <3> QED BY <2>2, <2>4, <3>6, Zenon
  <2> QED BY <2>5, <2>6, Zenon
<1> HIDE DEF libs, flat
<1>5. LinkLib(libs) \in Good /\ LinkLib(flat) \in Good
  BY <1>1, <1>3, LinkKeepsTables, Zenon DEF flat
<1>6. \A ms : /\ LinkLib(ms).cells = WriteModuleCmds(ms)
              /\ LinkLib(ms).main_size = Sum(MainSizes(ms))
              /\ LinkLib(ms).native_defs = CollectNativeFuncDefs(ms)
  BY DEF LinkLib
<1>7. /\ LinkLib(libs).cells = LinkLib(flat).cells
      /\ LinkLib(libs).main_size = LinkLib(flat).main_size
      /\ LinkLib(libs).native_defs = LinkLib(flat).native_defs
  BY <1>2, <1>4, <1>6, Zenon DEF libs, flat
<1> QED BY <1>5, <1>7, CodeTells, Zenon DEF libs, flat

LEMMA LibsLinkExe ==
  ASSUME NEW rows \in Seq(Seq(Good)), AreLibs(rows)
  PROVE  ExeLinks(Libs(rows)) <=> ExeLinks(Concat(rows))
<1> DEFINE libs == Libs(rows)
           flat == Concat(rows)
<1>1. libs \in Seq(Good) /\ flat \in Seq(Good) BY LibsFacts, Zenon
<1>2. LibLinks(libs) <=> LibLinks(flat) BY LibsLink, Zenon
<1>3. \A id : /\ SomeDefines(libs, id) <=> SomeDefines(flat, id)
              /\ id \in Id => (SomeRefers(libs, id) <=> SomeRefers(flat, id))
  BY LibsTables, Zenon
<1> HIDE DEF libs, flat
<1>4. ASSUME NEW ms \in Seq(Good)
      PROVE  ExeLinks(ms) <=>
               /\ LibLinks(ms)
               /\ \A id \in Id : SomeRefers(ms, id) => SomeDefines(ms, id)
  <2>1. DOMAIN ms = 1..Len(ms) BY SizesFacts, Zenon
  <2>2. ~DefsCountOverflows(ms) BY NeverTooMany, Zenon
  <2> QED BY <2>1, <2>2, Zenon DEF ExeLinks, SomeRefers, SomeDefines
<1>5. (\A id \in Id : SomeRefers(libs, id) => SomeDefines(libs, id)) <=>
        (\A id \in Id : SomeRefers(flat, id) => SomeDefines(flat, id))
  BY <1>3, Zenon
<1> QED BY <1>1, <1>2, <1>4, <1>5, Zenon DEF libs, flat

(* What is written at placeholders depends on what a library of the        *)
(* modules tells, and on nothing else.                                     *)
LEMMA FilledSame ==
  ASSUME NEW ms \in Seq(Good), NEW ns \in Seq(Good),
         SizesFit(ms, Len(ms)), SizesFit(ns, Len(ns)),
         WriteModuleCmds(ms) = WriteModuleCmds(ns), Addresses(ms) = Addresses(ns)
  PROVE  FillAddressPlaceholders(ms) = FillAddressPlaceholders(ns)
<1> DEFINE x == FillAddressPlaceholders(ms)
           y == FillAddressPlaceholders(ns)
           cells == WriteModuleCmds(ms)
<1>1. IsFilled(ms, x) /\ IsFilled(ns, y) BY FilledFacts, Zenon
<1> HIDE DEF x, y
<1>2. /\ x \in Seq(Cell) /\ y \in Seq(Cell)
      /\ Len(x) = Len(cells) /\ Len(y) = Len(cells)
  BY <1>1, Zenon DEF IsFilled
<1>3. \A id : TargetsOf(ms, id) = TargetsOf(ns, id) BY Zenon DEF TargetsOf
<1>4. \A id : TargetOf(ms, id) = TargetOf(ns, id)
  <2> DEFINE one(S) == CHOOSE def \in S : TRUE
  <2>1. \A id : /\ TargetOf(ms, id) = one(TargetsOf(ms, id))
                /\ TargetOf(ns, id) = one(TargetsOf(ns, id))
    BY Zenon DEF TargetOf
  <2> HIDE DEF one
  <2> QED BY <1>3, <2>1, Zenon
<1>5. \A cell : IsLinked(ms, cell) <=> IsLinked(ns, cell) BY <1>3, Zenon DEF IsLinked
<1>6. ASSUME NEW p \in 1..Len(cells) PROVE x[p] = y[p]
  <2>1. /\ x[p].holds = cells[p].holds /\ x[p].id = cells[p].id
        /\ IsLinked(ms, cells[p]) => x[p].value = TargetOf(ms, cells[p].id).address
        /\ ~IsLinked(ms, cells[p]) => x[p] = cells[p]
    BY <1>1, Zenon DEF IsFilled
  <2>2. /\ y[p].holds = cells[p].holds /\ y[p].id = cells[p].id
        /\ IsLinked(ns, cells[p]) => y[p].value = TargetOf(ns, cells[p].id).address
        /\ ~IsLinked(ns, cells[p]) => y[p] = cells[p]
    BY <1>1, Zenon DEF IsFilled
  <2>3. x[p] \in Cell /\ y[p] \in Cell BY <1>2
  <2>4. CASE ~IsLinked(ms, cells[p]) BY <1>5, <2>1, <2>2, <2>4, Zenon
  <2>5. CASE IsLinked(ms, cells[p])
    <3>1. x[p].value = y[p].value BY <1>4, <1>5, <2>1, <2>2, <2>5, Zenon
    <3>2. x[p].holds = y[p].holds /\ x[p].id = y[p].id BY <2>1, <2>2, Zenon
    <3>3. \A a, b \in Cell : a.holds = b.holds /\ a.id = b.id /\ a.value = b.value
                               => a = b
      BY DEF Cell
    <3> QED BY <2>3, <3>1, <3>2, <3>3, Zenon
  <2> QED BY <2>4, <2>5, Zenon
<1> HIDE DEF cells
<1>7. x = y BY <1>2, <1>6, SeqEqual, Zenon
<1> QED BY <1>7, Zenon DEF x, y

LEMMA LibsExeIsOne ==
  ASSUME NEW rows \in Seq(Seq(Good)), AreLibs(rows), ExeLinks(Concat(rows))
  PROVE  LinkExe(Libs(rows)) = LinkExe(Concat(rows))
<1> DEFINE libs == Libs(rows)
           flat == Concat(rows)
<1>1. libs \in Seq(Good) /\ flat \in Seq(Good) BY LibsFacts, Zenon
<1>2. LibLinks(flat) BY Zenon DEF ExeLinks
<1>3. LibLinks(libs) BY <1>2, LibsLink, Zenon
<1>4. LinkLib(libs) = LinkLib(flat) BY <1>2, LibsAreOne, Zenon
<1> HIDE DEF libs, flat
<1>5. \A ms : /\ LinkLib(ms).cells = WriteModuleCmds(ms)
              /\ LinkLib(ms).main_size = Sum(MainSizes(ms))
              /\ LinkLib(ms).func_defs = CollectFuncDefs(ms)
              /\ LinkLib(ms).var_defs = CollectGlobalVarDefs(ms)
              /\ LinkLib(ms).native_defs = CollectNativeFuncDefs(ms)
              /\ LinkLib(ms).refs = CollectRefs(ms)
  BY DEF LinkLib
<1>6. /\ WriteModuleCmds(libs) = WriteModuleCmds(flat)
      /\ Sum(MainSizes(libs)) = Sum(MainSizes(flat))
      /\ CollectFuncDefs(libs) = CollectFuncDefs(flat)
      /\ CollectGlobalVarDefs(libs) = CollectGlobalVarDefs(flat)
      /\ CollectNativeFuncDefs(libs) = CollectNativeFuncDefs(flat)
      /\ CollectRefs(libs) = CollectRefs(flat)
  BY <1>4, <1>5, Zenon
<1>7. Addresses(libs) = Addresses(flat) BY <1>6, Zenon DEF Addresses
<1>8. SizesFit(libs, Len(libs)) /\ SizesFit(flat, Len(flat))
  BY <1>2, <1>3, Zenon DEF LibLinks
<1>9. FillAddressPlaceholders(libs) = FillAddressPlaceholders(flat)
  BY <1>1, <1>6, <1>7, <1>8, FilledSame, Zenon
<1>10. LinkExe(libs) = LinkExe(flat) BY <1>6, <1>9, Zenon DEF LinkExe
<1> QED BY <1>10, Zenon DEF libs, flat

(* Whatever rows of modules were linked to libraries: the libraries link,  *)
(* to a library or to an executable, if and only if all the modules would, *)
(* and the result is the same (LibLinker, ExeLinker).                      *)
THEOREM LibrariesStandForModules ==
  ASSUME NEW rows \in Seq(Seq(Good)), AreLibs(rows)
  PROVE  LET libs == Libs(rows)
             modules == Concat(rows)
         IN
         /\ LibLinks(libs) <=> LibLinks(modules)
         /\ LibLinks(modules) => LinkLib(libs) = LinkLib(modules)
         /\ ExeLinks(libs) <=> ExeLinks(modules)
         /\ ExeLinks(modules) => LinkExe(libs) = LinkExe(modules)
BY LibsLink, LibsAreOne, LibsLinkExe, LibsExeIsOne, Zenon

(* A module alone is its own library. *)
LEMMA LibOfOne ==
  ASSUME NEW m \in Good
  PROVE  <<m>> \in Seq(Good) /\ LibLinks(<<m>>) /\ LinkLib(<<m>>) = m
<1> DEFINE ms == <<m>>
<1>1. ms \in Seq(Good) /\ Len(ms) = 1 /\ ms[1] = m /\ DOMAIN ms = {1} /\ 1..1 = {1}
  OBVIOUS
<1> HIDE DEF ms
<1>2. /\ m.cells \in Seq(Cell) /\ Len(m.cells) \in Nat /\ m.main_size \in Nat
      /\ m.main_size <= Len(m.cells) /\ Len(m.cells) < Word
  BY GoodFacts, Zenon
<1>3. 1 \in 1..Len(ms) BY <1>1, Zenon
<1>4. /\ MainCmds(ms) \in Seq(Seq(Cell)) /\ Len(MainCmds(ms)) = 1
      /\ FuncCmds(ms) \in Seq(Seq(Cell)) /\ Len(FuncCmds(ms)) = 1
  BY <1>1, PartsFacts, Zenon
<1>5. Concat(MainCmds(ms)) = MainCmds(ms)[1] /\ Concat(FuncCmds(ms)) = FuncCmds(ms)[1]
  BY <1>4, ConcatOne, Zenon
<1> DEFINE a == MainCmds(ms)[1]
           b == FuncCmds(ms)[1]
<1>6. a \in Seq(Cell) /\ b \in Seq(Cell)
  <2>1. \A ss \in Seq(Seq(Cell)) : Len(ss) = 1 => ss[1] \in Seq(Cell) OBVIOUS
  <2> QED BY <1>4, <2>1, Zenon
<1>7. Len(a) = m.main_size /\ \A i \in 1..m.main_size : a[i] = m.cells[i]
  <2>1. /\ Len(a) = ms[1].main_size
        /\ \A i \in 1..ms[1].main_size : a[i] = ms[1].cells[i]
    BY <1>1, <1>3, MainPart, Zenon
  <2> HIDE DEF a
  <2> QED BY <1>1, <2>1, Zenon
<1>8. /\ Len(b) = Len(m.cells) - m.main_size
      /\ \A i \in 1..Len(m.cells) - m.main_size : b[i] = m.cells[m.main_size + i]
  <2>1. /\ Len(b) = Len(ms[1].cells) - ms[1].main_size
        /\ \A i \in 1..Len(ms[1].cells) - ms[1].main_size :
             b[i] = ms[1].cells[ms[1].main_size + i]
    BY <1>1, <1>3, FuncPart, Zenon
  <2> HIDE DEF b
  <2> QED BY <1>1, <2>1, Zenon
<1>9. WriteModuleCmds(ms) = a \o b BY <1>5, Zenon DEF WriteModuleCmds
<1> HIDE DEF a, b
<1>10. m.cells = a \o b
  <2>1. Len(m.cells) = Len(a) + Len(b) BY <1>2, <1>7, <1>8
  <2>2. \A i \in 1..Len(a) : m.cells[i] = a[i] BY <1>7, Zenon
  <2>3. \A i \in 1..Len(b) : m.cells[Len(a) + i] = b[i] BY <1>7, <1>8, Zenon
  <2> QED BY <1>2, <1>6, <2>1, <2>2, <2>3, JoinIs, Zenon
<1>11. WriteModuleCmds(ms) = m.cells BY <1>9, <1>10, Zenon
<1>12. LibLinks(ms)
  <2>1. SizesFit(ms, Len(ms)) BY <1>1, <1>2, <1>11, FitsIff, Zenon
  <2>2. NoDuplicates(ms) BY <1>1, Zenon DEF NoDuplicates
  <2> QED BY <2>1, <2>2, Zenon DEF LibLinks
<1>13. LinkLib(ms) \in Good BY <1>1, <1>12, LinkKeepsTables, Zenon
<1>14. Sum(MainSizes(ms)) = m.main_size
  <2>1. Len(Concat(MainCmds(ms))) = Sum(MainSizes(ms)) BY <1>1, WriteFacts, Zenon
  <2> QED BY <1>5, <1>7, <2>1, Zenon DEF a
<1>15. CollectNativeFuncDefs(ms) = m.native_defs
  <2>1. CollectNativeFuncDefs(ms) = UNION {ms[k].native_defs : k \in {1}}
    BY <1>1, Zenon DEF CollectNativeFuncDefs
  <2> QED BY <1>1, <2>1
<1>16. /\ LinkLib(ms).cells = m.cells /\ LinkLib(ms).main_size = m.main_size
       /\ LinkLib(ms).native_defs = m.native_defs
  BY <1>11, <1>14, <1>15 DEF LinkLib
<1>17. LinkLib(ms) = m BY <1>13, <1>16, CodeTells, Zenon
<1> QED BY <1>1, <1>12, <1>17, Zenon DEF ms
=============================================================================
