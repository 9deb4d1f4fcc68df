--------------------------- MODULE ToolchainProofs ---------------------------
(* What is written to a file and read again is the same, a file that is    *)
(* cut short is no module, and what the tools make of it.                  *)
EXTENDS Toolchain, LinkerProofs

-----------------------------------------------------------------------------
(* Rows and parts of rows                                                  *)

LEMMA PartIs ==
  ASSUME NEW A, NEW s \in Seq(A), NEW t \in Seq(A), NEW o \in Nat,
         o + Len(t) <= Len(s), \A i \in 1..Len(t) : s[o + i] = t[i]
  PROVE  SubSeq(s, o + 1, o + Len(t)) = t
<1> DEFINE n == Len(t)
           u == SubSeq(s, o + 1, o + n)
<1>1. n \in Nat /\ Len(s) \in Nat OBVIOUS
<1>2. \A i \in o + 1..o + n : s[i] \in A OBVIOUS
<1> HIDE DEF n
<1>3. /\ u \in Seq(A)
      /\ Len(u) = IF o + 1 <= o + n THEN (o + n) - (o + 1) + 1 ELSE 0
      /\ \A i \in 1..(o + n) - (o + 1) + 1 : u[i] = s[(o + 1) + i - 1]
  <2>1. o + 1 \in Int /\ o + n \in Int BY <1>1
  <2> HIDE DEF u
  <2> QED BY <1>2, <2>1, SubSeqProperties DEF u
<1>4. (IF o + 1 <= o + n THEN (o + n) - (o + 1) + 1 ELSE 0) = n
      /\ (o + n) - (o + 1) + 1 = n
      /\ \A i \in 1..n : (o + 1) + i - 1 = o + i
  BY <1>1
<1> HIDE DEF u
<1>5. Len(u) = n /\ \A i \in 1..n : u[i] = s[o + i] BY <1>3, <1>4, Zenon
<1>6. u = t BY <1>3, <1>5, SeqEqual, Zenon DEF n
<1> QED BY <1>6, Zenon DEF u, n

(* Each part of a row is found where the sizes of those before it say. *)
LEMMA ConcatPart ==
  ASSUME NEW A, NEW ss \in Seq(Seq(A)), NEW k \in 1..Len(ss)
  PROVE  /\ SumBefore(Lens(ss), k) \in Nat
         /\ SumBefore(Lens(ss), k) + Len(ss[k]) <= Len(Concat(ss))
         /\ \A i \in 1..Len(ss[k]) :
              /\ SumBefore(Lens(ss), k) + i \in 1..Len(Concat(ss))
              /\ Concat(ss)[SumBefore(Lens(ss), k) + i] = ss[k][i]
<1>1. Lens(ss) \in Seq(Nat) /\ Len(Lens(ss)) = Len(ss)
      /\ \A j \in 1..Len(ss) : Lens(ss)[j] = Len(ss[j])
  BY LensFacts, Zenon
<1>2. k - 1 \in 0..Len(ss) /\ k \in 0..Len(ss) /\ Len(ss) \in 0..Len(ss)
      /\ k <= Len(ss)
  OBVIOUS
<1>3. SumBefore(Lens(ss), k) \in Nat BY <1>1, <1>2, SumToFacts, Zenon DEF SumBefore
<1>4. SumTo(Lens(ss), k) = SumBefore(Lens(ss), k) + Len(ss[k])
  BY <1>1, SumToFacts, Zenon DEF SumBefore
<1>5. SumTo(Lens(ss), k) <= SumTo(Lens(ss), Len(ss))
  BY <1>1, <1>2, SumGrows, Zenon
<1>6. Len(Concat(ss)) = SumTo(Lens(ss), Len(ss))
  BY <1>1, ConcatFacts, Zenon DEF Sum
<1> QED BY <1>3, <1>4, <1>5, <1>6, ConcatAt, Zenon

(* A row of parts of one length. *)
LEMMA SumSame ==
  ASSUME NEW s \in Seq(Nat), NEW n \in 0..Len(s), \A k \in 1..Len(s) : s[k] = 2
  PROVE  SumTo(s, n) = 2 * n
<1> DEFINE P == {i \in Nat : i <= Len(s) => SumTo(s, i) = 2 * i}
<1>1. 0 \in P
  <2>1. SumTo(s, 0) = 0 BY SumToFacts, Zenon
  <2> QED BY <2>1
<1>2. ASSUME NEW i \in P, i + 1 <= Len(s) PROVE SumTo(s, i + 1) = 2 * (i + 1)
  <2>1. i + 1 \in 1..Len(s) /\ (i + 1) - 1 = i /\ SumTo(s, i) = 2 * i
        /\ 2 * i + 2 = 2 * (i + 1)
    BY <1>2
  <2>2. SumTo(s, i + 1) = SumTo(s, i) + s[i + 1] BY <2>1, SumToFacts, Zenon
  <2> QED BY <2>1, <2>2, Zenon
<1>3. \A i \in P : i + 1 \in P BY <1>2
<1>4. P \in SUBSET Nat OBVIOUS
<1>5. P = Nat BY <1>1, <1>3, <1>4, SetInduction, Zenon
<1>6. n \in Nat /\ n <= Len(s) OBVIOUS
<1> QED BY <1>5, <1>6, Zenon

LEMMA PairsRow ==
  ASSUME NEW A, NEW ss \in Seq(Seq(A)), \A k \in 1..Len(ss) : Len(ss[k]) = 2
  PROVE  /\ Len(Concat(ss)) = 2 * Len(ss)
         /\ \A k \in 1..Len(ss) :
              /\ Concat(ss)[2 * k - 1] = ss[k][1]
              /\ Concat(ss)[2 * k] = ss[k][2]
<1>1. Lens(ss) \in Seq(Nat) /\ Len(Lens(ss)) = Len(ss)
      /\ \A k \in 1..Len(Lens(ss)) : Lens(ss)[k] = 2
  <2>1. Lens(ss) \in Seq(Nat) /\ Len(Lens(ss)) = Len(ss)
        /\ \A k \in 1..Len(ss) : Lens(ss)[k] = Len(ss[k])
    BY LensFacts, Zenon
  <2> QED BY <2>1, Zenon
<1>2. Len(ss) \in Nat /\ Len(ss) \in 0..Len(ss) OBVIOUS
<1>3. \A n \in 0..Len(ss) : SumTo(Lens(ss), n) = 2 * n
  BY <1>1, SumSame, Zenon
<1>4. Len(Concat(ss)) = 2 * Len(ss)
  BY <1>1, <1>2, <1>3, ConcatFacts, Zenon DEF Sum
<1>5. ASSUME NEW k \in 1..Len(ss)
      PROVE  Concat(ss)[2 * k - 1] = ss[k][1] /\ Concat(ss)[2 * k] = ss[k][2]
  <2>1. k - 1 \in 0..Len(ss) /\ 2 * (k - 1) + 1 = 2 * k - 1 /\ 2 * (k - 1) + 2 = 2 * k
        /\ 1 \in 1..2 /\ 2 \in 1..2
    OBVIOUS
  <2>2. SumBefore(Lens(ss), k) = 2 * (k - 1) BY <1>3, <2>1, Zenon DEF SumBefore
  <2>3. \A i \in 1..Len(ss[k]) : Concat(ss)[SumBefore(Lens(ss), k) + i] = ss[k][i]
    BY ConcatAt, Zenon
  <2>4. Len(ss[k]) = 2 OBVIOUS
  <2> QED BY <2>1, <2>2, <2>3, <2>4, Zenon
<1> QED BY <1>4, <1>5, Zenon

-----------------------------------------------------------------------------
(* Sets as sequences                                                       *)

LEMMA SetToSeqFacts ==
  ASSUME NEW S, IsFiniteSet(S)
  PROVE  /\ Ext!SetToSeq(S) \in Seq(S) /\ Len(Ext!SetToSeq(S)) = Cardinality(S)
         /\ \A i \in 1..Cardinality(S) : Ext!SetToSeq(S)[i] \in S
         /\ \A i, j \in 1..Cardinality(S) :
              Ext!SetToSeq(S)[i] = Ext!SetToSeq(S)[j] => i = j
         /\ \A x \in S : \E i \in 1..Cardinality(S) : Ext!SetToSeq(S)[i] = x
<1> DEFINE n == Cardinality(S)
           f == Ext!SetToSeq(S)
<1>1. n \in Nat /\ ExistsBijection(1..n, S) BY FS_CardinalityType, Zenon
<1>2. \E g \in [1..n -> S] : Ext!IsInjective(g)
  <2>1. PICK g \in [1..n -> S] : IsInjective(g)
    BY <1>1, Zenon DEF ExistsBijection, Bijection, Injection
  <2> QED BY <2>1, Zenon DEF IsInjective, Ext!IsInjective
<1>3. f \in [1..n -> S] /\ Ext!IsInjective(f)
  <2>1. f = CHOOSE g \in [1..n -> S] : Ext!IsInjective(g)
    BY Zenon DEF Ext!SetToSeq, Ext!Cardinality, Cardinality, Ext!IsFiniteSet, IsFiniteSet
  <2> HIDE DEF n, f
  <2> QED BY <1>2, <2>1, Zenon
<1> HIDE DEF f
<1>4. f \in Injection(1..n, S)
  BY <1>3, Zenon DEF Injection, IsInjective, Ext!IsInjective
<1>5. Cardinality(1..n) = n
  <2>1. 1 \in Int /\ n \in Int BY <1>1
  <2>2. Cardinality(1..n) = IF 1 > n THEN 0 ELSE n - 1 + 1 BY <2>1, FS_Interval, Zenon
  <2> HIDE DEF n
  <2> QED BY <1>1, <2>2
<1>6. f \in Surjection(1..n, S) BY <1>4, <1>5, FS_Injection, Zenon
<1>7. \A x \in S : \E i \in 1..n : f[i] = x BY <1>6, Zenon DEF Surjection
<1>8. \A i, j \in 1..n : f[i] = f[j] => i = j
  BY <1>3, Zenon DEF Ext!IsInjective
<1>9. f \in Seq(S) /\ Len(f) = n BY <1>1, <1>3, FunctionSeq, Zenon
<1>10. \A i \in 1..n : f[i] \in S BY <1>3, Zenon
<1> QED BY <1>7, <1>8, <1>9, <1>10, Zenon DEF f

Rank(S, a) == Cardinality({b \in S : b < a})

LEMMA RankFacts ==
  ASSUME NEW S \in SUBSET Nat, IsFiniteSet(S)
  PROVE  /\ Cardinality(S) \in Nat
         /\ \A a \in S : Rank(S, a) \in 0..Cardinality(S) - 1
         /\ \A a, b \in S : Rank(S, a) = Rank(S, b) => a = b
         /\ \A r \in 0..Cardinality(S) - 1 : \E a \in S : Rank(S, a) = r
<1> DEFINE n == Cardinality(S)
           Below(a) == {b \in S : b < a}
<1>1. n \in Nat BY FS_CardinalityType, Zenon
<1>2. ASSUME NEW a \in S
      PROVE  /\ IsFiniteSet(Below(a)) /\ Rank(S, a) \in Nat
             /\ Cardinality(Below(a) \cup {a}) = Rank(S, a) + 1
             /\ IsFiniteSet(Below(a) \cup {a})
  <2>1. Below(a) \in SUBSET S /\ a \notin Below(a) OBVIOUS
  <2> HIDE DEF Below
  <2>2. IsFiniteSet(Below(a)) BY <2>1, FS_Subset, Zenon
  <2>3. Cardinality(Below(a)) \in Nat BY <2>2, FS_CardinalityType, Zenon
  <2>4. IsFiniteSet(Below(a) \cup {a})
        /\ Cardinality(Below(a) \cup {a}) = Cardinality(Below(a)) + 1
    BY <2>1, <2>2, FS_AddElement, Zenon
  <2> QED BY <2>2, <2>3, <2>4, Zenon DEF Rank, Below
<1>3. ASSUME NEW a \in S PROVE Rank(S, a) \in 0..n - 1
  <2>1. Below(a) \cup {a} \in SUBSET S OBVIOUS
  <2> HIDE DEF Below
  <2>2. Cardinality(Below(a) \cup {a}) <= n BY <2>1, FS_Subset, Zenon
  <2>3. Rank(S, a) + 1 <= n /\ Rank(S, a) \in Nat BY <1>2, <2>2, Zenon
  <2> HIDE DEF n
  <2> QED BY <1>1, <2>3
<1>4. ASSUME NEW a \in S, NEW b \in S, a < b PROVE Rank(S, a) < Rank(S, b)
  <2>1. Below(a) \cup {a} \in SUBSET Below(b)
    <3>1. \A c \in S : c < a => c < b BY <1>4
    <3> QED BY <1>4, <3>1
  <2> HIDE DEF Below
  <2>2. Cardinality(Below(a) \cup {a}) <= Cardinality(Below(b))
    BY <1>2, <2>1, FS_Subset, Zenon
  <2>3. Cardinality(Below(b)) = Rank(S, b) BY Zenon DEF Below, Rank
  <2>4. Rank(S, a) + 1 <= Rank(S, b) /\ Rank(S, a) \in Nat /\ Rank(S, b) \in Nat
    BY <1>2, <2>2, <2>3, Zenon
  <2> QED BY <2>4
<1>5. ASSUME NEW a \in S, NEW b \in S, Rank(S, a) = Rank(S, b) PROVE a = b
  <2>1. Rank(S, a) \in Nat BY <1>2, Zenon
  <2>2. ~(Rank(S, a) < Rank(S, b)) /\ ~(Rank(S, b) < Rank(S, a)) BY <1>5, <2>1
  <2>3. ~(a < b) /\ ~(b < a) BY <1>4, <2>2, Zenon
  <2> HIDE DEF Below
  <2> QED BY <2>3
<1> DEFINE f == [a \in S |-> Rank(S, a)]
<1>6. f \in [S -> 0..n - 1] /\ \A a \in S : f[a] = Rank(S, a) BY <1>3, Zenon
<1>7. DOMAIN f = S BY Zenon
<1> HIDE DEF f, Below
<1>8. f \in Injection(S, 0..n - 1)
  <2>1. ASSUME NEW a \in S, NEW b \in S, f[a] = f[b] PROVE a = b
    <3>1. Rank(S, a) = Rank(S, b) BY <1>6, <2>1, Zenon
    <3> QED BY <1>5, <3>1, Zenon
  <2>2. IsInjective(f) BY <1>7, <2>1, Zenon DEF IsInjective
  <2> QED BY <1>6, <2>2, Zenon DEF Injection
<1>9. IsFiniteSet(0..n - 1) /\ Cardinality(0..n - 1) = n
  <2>1. 0 \in Int /\ n - 1 \in Int BY <1>1
  <2>2. IsFiniteSet(0..n - 1)
        /\ Cardinality(0..n - 1) = IF 0 > n - 1 THEN 0 ELSE (n - 1) - 0 + 1
    BY <2>1, FS_Interval, Zenon
  <2> HIDE DEF n
  <2> QED BY <1>1, <2>2
<1>10. f \in Surjection(S, 0..n - 1) BY <1>8, <1>9, FS_Injection, Zenon
<1>11. \A r \in 0..n - 1 : \E a \in S : Rank(S, a) = r
  BY <1>6, <1>10, Zenon DEF Surjection
<1> QED BY <1>1, <1>3, <1>5, <1>11, Zenon

(* Each of some addresses stands once in their ascending order. *)
LEMMA AscendingFacts ==
  ASSUME NEW S \in SUBSET Nat, IsFiniteSet(S)
  PROVE  /\ Ascending(S) \in Seq(S) /\ Len(Ascending(S)) = Cardinality(S)
         /\ Cardinality(S) \in Nat
         /\ \A i \in 1..Cardinality(S) : Ascending(S)[i] \in S
         /\ \A a \in S : \E i \in 1..Cardinality(S) : Ascending(S)[i] = a
<1> DEFINE n == Cardinality(S)
           f == Ascending(S)
<1>1. /\ n \in Nat /\ \A a \in S : Rank(S, a) \in 0..n - 1
      /\ \A a, b \in S : Rank(S, a) = Rank(S, b) => a = b
      /\ \A r \in 0..n - 1 : \E a \in S : Rank(S, a) = r
  BY RankFacts, Zenon
<1>2. f = [i \in 1..n |-> CHOOSE a \in S : Rank(S, a) = i - 1]
  BY Zenon DEF Ascending, Rank
<1> HIDE DEF n, f
<1>3. ASSUME NEW i \in 1..n PROVE f[i] \in S /\ Rank(S, f[i]) = i - 1
  <2>1. i - 1 \in 0..n - 1 BY <1>1
  <2>2. \E a \in S : Rank(S, a) = i - 1 BY <1>1, <2>1, Zenon
  <2>3. f[i] = CHOOSE a \in S : Rank(S, a) = i - 1 BY <1>2, Zenon
  <2> QED BY <2>2, <2>3, Zenon
<1>4. f \in [1..n -> S]
  <2>1. \A i \in 1..n : (CHOOSE a \in S : Rank(S, a) = i - 1) \in S
    BY <1>2, <1>3, Zenon
  <2> QED BY <1>2, <2>1, Zenon
<1>5. f \in Seq(S) /\ Len(f) = n BY <1>1, <1>4, FunctionSeq, Zenon
<1>6. ASSUME NEW a \in S PROVE \E i \in 1..n : f[i] = a
  <2>1. Rank(S, a) \in 0..n - 1 BY <1>1, Zenon
  <2>2. Rank(S, a) + 1 \in 1..n /\ (Rank(S, a) + 1) - 1 = Rank(S, a) BY <1>1, <2>1
  <2>3. f[Rank(S, a) + 1] = a BY <1>1, <1>3, <2>2, Zenon
  <2> QED BY <2>2, <2>3, Zenon
<1> QED BY <1>1, <1>3, <1>5, <1>6, Zenon DEF n, f

-----------------------------------------------------------------------------
(* Files                                                                   *)

FileCell == [holds: {"cmd", "create", "entry", "ref", "number", "id"},
             id: Id \cup {None}, value: Nat \cup {None}]

LEMMA FileCellFacts ==
  /\ Cell \subseteq FileCell /\ Seq(Cell) \subseteq Seq(FileCell)
  /\ \A n \in Nat : Number(n) \in FileCell /\ Number(n).value = n
  /\ \A id \in Id : IdCell(id) \in FileCell /\ IdCell(id).id = id
<1>1. Cell \subseteq FileCell BY DEF Cell, FileCell
<1>2. Seq(Cell) \subseteq Seq(FileCell) BY <1>1
<1>3. \A n \in Nat : Number(n) \in FileCell /\ Number(n).value = n
  BY DEF Number, FileCell
<1>4. \A id \in Id : IdCell(id) \in FileCell /\ IdCell(id).id = id
  BY DEF IdCell, FileCell
<1> QED BY <1>1, <1>2, <1>3, <1>4, Zenon

LEMMA DirectoryFacts ==
  ASSUME NEW start \in Nat, NEW tables \in Seq(Seq(FileCell))
  PROVE  /\ Directory(start, tables) \in Seq(FileCell)
         /\ Len(Directory(start, tables)) = 2 * Len(tables)
         /\ \A t \in 1..Len(tables) :
              /\ Directory(start, tables)[2 * t - 1] =
                   Number(start + SumBefore(Lens(tables), t))
              /\ Directory(start, tables)[2 * t] = Number(Len(tables[t]))
<1> DEFINE at(t) == Number(start + SumBefore(Lens(tables), t))
           size(t) == Number(Len(tables[t]))
           ss == [t \in DOMAIN tables |-> <<at(t), size(t)>>]
           L == Len(tables)
<1>1. L \in Nat /\ DOMAIN tables = 1..L /\ \A t \in 1..L : Len(tables[t]) \in Nat
  OBVIOUS
<1>2. ASSUME NEW t \in 1..L
      PROVE  <<at(t), size(t)>> \in Seq(FileCell) /\ Len(<<at(t), size(t)>>) = 2
             /\ <<at(t), size(t)>>[1] = at(t) /\ <<at(t), size(t)>>[2] = size(t)
  <2>1. SumBefore(Lens(tables), t) \in Nat BY ConcatPart, Zenon
  <2>2. start + SumBefore(Lens(tables), t) \in Nat BY <2>1
  <2>3. at(t) \in FileCell /\ size(t) \in FileCell
    BY <1>1, <2>2, FileCellFacts, Zenon
  <2> HIDE DEF at, size
  <2> QED BY <2>3
<1>3. ss \in [1..L -> Seq(FileCell)] /\ \A t \in 1..L : ss[t] = <<at(t), size(t)>>
  BY <1>1, <1>2, Zenon
<1>4. Directory(start, tables) = Concat(ss) BY Zenon DEF Directory
<1> HIDE DEF ss, at, size
<1>5. ss \in Seq(Seq(FileCell)) /\ Len(ss) = L BY <1>1, <1>3, FunctionSeq, Zenon
<1>6. \A t \in 1..Len(ss) : Len(ss[t]) = 2 BY <1>2, <1>3, <1>5, Zenon
<1>7. Concat(ss) \in Seq(FileCell) BY <1>5, ConcatFacts, Zenon
<1>8. /\ Len(Concat(ss)) = 2 * Len(ss)
      /\ \A t \in 1..Len(ss) :
           Concat(ss)[2 * t - 1] = ss[t][1] /\ Concat(ss)[2 * t] = ss[t][2]
  BY <1>5, <1>6, PairsRow, Zenon
<1>9. \A t \in 1..L : ss[t][1] = at(t) /\ ss[t][2] = size(t) BY <1>2, <1>3, Zenon
<1> QED BY <1>4, <1>5, <1>7, <1>8, <1>9, Zenon DEF at, size

(* A file of any kind: numbers that are its own, the sizes of its code,    *)
(* where its tables are, the code and the tables.                          *)
HeaderSize(pre, tables) == Len(pre) + (2 + 2 * Len(tables))
Header(pre, cells, main, tables) ==
  (pre \o <<Number(main), Number(Len(cells) - main)>>)
    \o Directory(HeaderSize(pre, tables) + Len(cells), tables)
Filed(pre, cells, main, tables) ==
  (Header(pre, cells, main, tables) \o cells) \o Concat(tables)

IsFiled(pre, cells, main, tables) ==
  /\ pre \in Seq(FileCell) /\ Len(pre) >= 1 /\ cells \in Seq(Cell)
  /\ main \in 0..Len(cells) /\ tables \in Seq(Seq(FileCell))

HeaderTells(pre, cells, main, tables) ==
  LET head == Header(pre, cells, main, tables)
      size == HeaderSize(pre, tables)
  IN
  /\ size \in Nat /\ Len(pre) + 2 <= size
  /\ head \in Seq(FileCell) /\ Len(head) = size
  /\ \A i \in 1..Len(pre) : head[i] = pre[i]
  /\ head[Len(pre) + 1] = Number(main)
  /\ head[Len(pre) + 2] = Number(Len(cells) - main)
  /\ \A t \in 1..Len(tables) :
       /\ head[Len(pre) + 2 * t + 1] =
            Number((size + Len(cells)) + SumBefore(Lens(tables), t))
       /\ head[Len(pre) + 2 * t + 2] = Number(Len(tables[t]))
       /\ Len(pre) + 2 * t + 2 <= size

LEMMA HeaderFacts ==
  ASSUME NEW pre, NEW cells, NEW main, NEW tables, IsFiled(pre, cells, main, tables)
  PROVE  HeaderTells(pre, cells, main, tables)
<1> DEFINE two == <<Number(main), Number(Len(cells) - main)>>
           size == HeaderSize(pre, tables)
           dir == Directory(size + Len(cells), tables)
           p == Len(pre)
           L == Len(tables)
           a == pre \o two
<1>1. /\ pre \in Seq(FileCell) /\ p \in Nat /\ Len(cells) \in Nat
      /\ main \in Nat /\ Len(cells) - main \in Nat /\ L \in Nat
      /\ size = p + (2 + 2 * L)
      /\ tables \in Seq(Seq(FileCell))
  BY DEF IsFiled, HeaderSize
<1>2. two \in Seq(FileCell) /\ Len(two) = 2
      /\ two[1] = Number(main) /\ two[2] = Number(Len(cells) - main)
  <2>1. Number(main) \in FileCell /\ Number(Len(cells) - main) \in FileCell
    BY <1>1, FileCellFacts, Zenon
  <2> QED BY <2>1
<1>3. size \in Nat /\ size + Len(cells) \in Nat BY <1>1
<1>4. /\ dir \in Seq(FileCell) /\ Len(dir) = 2 * L
      /\ \A t \in 1..L :
           /\ dir[2 * t - 1] = Number((size + Len(cells)) + SumBefore(Lens(tables), t))
           /\ dir[2 * t] = Number(Len(tables[t]))
  BY <1>1, <1>3, DirectoryFacts, Zenon
<1>5. Header(pre, cells, main, tables) = a \o dir BY Zenon DEF Header
<1> HIDE DEF two, size, dir, p, L
<1>6. /\ a \in Seq(FileCell) /\ Len(a) = p + 2
      /\ \A i \in 1..p : a[i] = pre[i]
      /\ \A i \in 1..2 : a[p + i] = two[i]
  <2>1. Joined(FileCell, pre, two) BY <1>1, <1>2, JoinFacts, Zenon
  <2> QED BY <1>1, <1>2, <2>1, Zenon DEF Joined, p
<1> HIDE DEF a
<1>7. /\ a \o dir \in Seq(FileCell) /\ Len(a \o dir) = (p + 2) + 2 * L
      /\ \A i \in 1..p + 2 : (a \o dir)[i] = a[i]
      /\ \A i \in 1..2 * L : (a \o dir)[(p + 2) + i] = dir[i]
  <2>1. Joined(FileCell, a, dir) BY <1>4, <1>6, JoinFacts, Zenon
  <2> QED BY <1>4, <1>6, <2>1, Zenon DEF Joined
<1> DEFINE head == a \o dir
<1> HIDE DEF head
<1>8. \A i \in 1..p : head[i] = pre[i]
  <2>1. \A i \in 1..p : i \in 1..p + 2 BY <1>1
  <2> QED BY <1>6, <1>7, <2>1, Zenon DEF head
<1>9. head[p + 1] = Number(main) /\ head[p + 2] = Number(Len(cells) - main)
  <2>1. /\ p + 1 \in 1..p + 2 /\ p + 2 \in 1..p + 2 /\ 1 \in 1..2 /\ 2 \in 1..2
    BY <1>1
  <2> QED BY <1>2, <1>6, <1>7, <2>1, Zenon DEF head
<1>10. ASSUME NEW t \in 1..L
       PROVE  /\ head[p + 2 * t + 1] =
                   Number((size + Len(cells)) + SumBefore(Lens(tables), t))
              /\ head[p + 2 * t + 2] = Number(Len(tables[t]))
              /\ p + 2 * t + 2 <= size
  <2>1. /\ 2 * t - 1 \in 1..2 * L /\ 2 * t \in 1..2 * L
        /\ (p + 2) + (2 * t - 1) = p + 2 * t + 1 /\ (p + 2) + 2 * t = p + 2 * t + 2
        /\ p + 2 * t + 2 <= size
    BY <1>1
  <2> QED BY <1>4, <1>7, <2>1, Zenon DEF head
<1>11. (p + 2) + 2 * L = size /\ p + 2 <= size BY <1>1
<1> QED BY <1>3, <1>5, <1>7, <1>8, <1>9, <1>10, <1>11, Zenon DEF head, p, L, size, HeaderTells

FiledAs(pre, cells, main, tables) ==
  LET text == Filed(pre, cells, main, tables)
      size == HeaderSize(pre, tables)
  IN
  /\ text \in Seq(FileCell) /\ Len(cells) \in Nat /\ Len(Concat(tables)) \in Nat
  /\ Len(text) = (size + Len(cells)) + Len(Concat(tables))
  /\ \A i \in 1..size : text[i] = Header(pre, cells, main, tables)[i]
  /\ \A i \in 1..Len(cells) : text[size + i] = cells[i]
  /\ \A i \in 1..Len(Concat(tables)) :
       text[(size + Len(cells)) + i] = Concat(tables)[i]

LEMMA FiledFacts ==
  ASSUME NEW pre, NEW cells, NEW main, NEW tables, IsFiled(pre, cells, main, tables)
  PROVE  FiledAs(pre, cells, main, tables)
<1> DEFINE head == Header(pre, cells, main, tables)
           size == HeaderSize(pre, tables)
           rest == Concat(tables)
           n == Len(cells)
           a == head \o cells
<1>1. /\ size \in Nat /\ head \in Seq(FileCell) /\ Len(head) = size
  BY HeaderFacts, Zenon DEF HeaderTells
<1>2. cells \in Seq(FileCell) /\ n \in Nat
  <2>1. cells \in Seq(Cell) BY Zenon DEF IsFiled
  <2>2. n \in Nat BY <2>1
  <2> QED BY <2>1, <2>2, FileCellFacts, Zenon
<1>3. rest \in Seq(FileCell) /\ Len(rest) \in Nat
  <2>1. tables \in Seq(Seq(FileCell)) BY Zenon DEF IsFiled
  <2>2. rest \in Seq(FileCell) BY <2>1, ConcatFacts, Zenon
  <2> QED BY <2>2
<1>4. Filed(pre, cells, main, tables) = a \o rest BY Zenon DEF Filed
<1> HIDE DEF head, size, rest
<1>5. /\ a \in Seq(FileCell) /\ Len(a) = size + n
      /\ \A i \in 1..size : a[i] = head[i]
      /\ \A i \in 1..n : a[size + i] = cells[i]
  <2>1. Joined(FileCell, head, cells) BY <1>1, <1>2, JoinFacts, Zenon
  <2> QED BY <1>1, <2>1, Zenon DEF Joined
<1> HIDE DEF a, n
<1>6. /\ a \o rest \in Seq(FileCell) /\ Len(a \o rest) = (size + n) + Len(rest)
      /\ \A i \in 1..size + n : (a \o rest)[i] = a[i]
      /\ \A i \in 1..Len(rest) : (a \o rest)[(size + n) + i] = rest[i]
  <2>1. Joined(FileCell, a, rest) BY <1>3, <1>5, JoinFacts, Zenon
  <2> QED BY <1>5, <2>1, Zenon DEF Joined
<1>7. /\ \A i \in 1..size : i \in 1..size + n
      /\ \A i \in 1..n : size + i \in 1..size + n
  BY <1>1, <1>2
<1> QED BY <1>2, <1>3, <1>4, <1>5, <1>6, <1>7, Zenon
         DEF head, size, rest, n, FiledAs

(* The header tells where everything is, and a file that begins with one   *)
(* is read the same though it is cut short behind.                         *)
HasHeader(text, pre, cells, main, tables) ==
  /\ IsFiled(pre, cells, main, tables)
  /\ pre[Len(pre)] = Number(HeaderSize(pre, tables))
  /\ \A i \in 1..HeaderSize(pre, tables) :
       text[i] = Header(pre, cells, main, tables)[i]

FieldsTell(text, pre, cells, main, tables) ==
  LET first == Len(pre) - 1
      size == HeaderSize(pre, tables)
  IN
  /\ Field(text, first) = size /\ Field(text, first + 1) = main
  /\ CmdsSize(text, first) = Len(cells)
  /\ \A t \in 1..Len(tables) :
       /\ TableAddress(text, first, t) =
            (size + Len(cells)) + SumBefore(Lens(tables), t)
       /\ TableSize(text, first, t) = Len(tables[t])

LEMMA FieldsFacts ==
  ASSUME NEW text, NEW pre, NEW cells, NEW main, NEW tables,
         HasHeader(text, pre, cells, main, tables)
  PROVE  FieldsTell(text, pre, cells, main, tables)
<1> DEFINE p == Len(pre)
           first == p - 1
           size == HeaderSize(pre, tables)
           head == Header(pre, cells, main, tables)
           n == Len(cells)
           L == Len(tables)
           sum(t) == SumBefore(Lens(tables), t)
<1>1. /\ IsFiled(pre, cells, main, tables) /\ pre[p] = Number(size)
      /\ \A i \in 1..size : text[i] = head[i]
  BY Zenon DEF HasHeader
<1>2. /\ p \in Nat /\ 1 <= p /\ n \in Nat /\ main \in Nat /\ n - main \in Nat
      /\ L \in Nat /\ tables \in Seq(Seq(FileCell))
  BY <1>1 DEF IsFiled
<1>3. /\ size \in Nat /\ p + 2 <= size
      /\ \A i \in 1..p : head[i] = pre[i]
      /\ head[p + 1] = Number(main) /\ head[p + 2] = Number(n - main)
      /\ \A t \in 1..L :
           /\ head[p + 2 * t + 1] = Number((size + n) + sum(t))
           /\ head[p + 2 * t + 2] = Number(Len(tables[t]))
           /\ p + 2 * t + 2 <= size
  <2>1. HeaderTells(pre, cells, main, tables) BY <1>1, HeaderFacts, Zenon
  <2> QED BY <2>1, Zenon DEF HeaderTells
<1>4. \A t \in 1..L : (size + n) + sum(t) \in Nat /\ Len(tables[t]) \in Nat
  <2> TAKE t \in 1..L
  <2>1. sum(t) \in Nat BY <1>2, ConcatPart, Zenon
  <2>2. Len(tables[t]) \in Nat BY <1>2
  <2>3. \A x, y, z \in Nat : (x + y) + z \in Nat OBVIOUS
  <2>4. size \in Nat /\ n \in Nat BY <1>2, <1>3, Zenon
  <2> QED BY <2>1, <2>2, <2>3, <2>4, Zenon
<1> HIDE DEF size, head, p, n, L, sum
<1>5. \A i \in 1..size : Field(text, i - 1) = head[i].value
  <2>1. \A i \in 1..size : (i - 1) + 1 = i OBVIOUS
  <2> QED BY <1>1, <2>1, Zenon DEF Field, CellAt
<1>6. \A x \in Nat : Number(x).value = x BY FileCellFacts, Zenon
<1>7. Field(text, p - 1) = size
  <2>1. p \in 1..size /\ p \in 1..p BY <1>2, <1>3
  <2>2. head[p] = Number(size) BY <1>1, <1>3, <2>1, Zenon
  <2> QED BY <1>3, <1>5, <1>6, <2>1, <2>2, Zenon
<1>8. Field(text, (p - 1) + 1) = main /\ Field(text, (p - 1) + 2) = n - main
  <2>1. /\ p + 1 \in 1..size /\ p + 2 \in 1..size
        /\ (p - 1) + 1 = (p + 1) - 1 /\ (p - 1) + 2 = (p + 2) - 1
    BY <1>2, <1>3
  <2> QED BY <1>2, <1>3, <1>5, <1>6, <2>1, Zenon
<1>9. CmdsSize(text, p - 1) = n
  <2>1. main + (n - main) = n BY <1>2
  <2> QED BY <1>8, <2>1, Zenon DEF CmdsSize
<1>10. ASSUME NEW t \in 1..L
       PROVE  /\ TableAddress(text, p - 1, t) = (size + n) + sum(t)
              /\ TableSize(text, p - 1, t) = Len(tables[t])
  <2>1. p + 2 * t + 2 <= size BY <1>3
  <2>2. /\ p + 2 * t + 1 \in 1..size /\ p + 2 * t + 2 \in 1..size
        /\ ((p - 1) + 1) + 2 * t = (p + 2 * t + 1) - 1
        /\ ((p - 1) + 2) + 2 * t = (p + 2 * t + 2) - 1
    BY <1>2, <1>3, <2>1
  <2>5. head[p + 2 * t + 1] = Number((size + n) + sum(t))
        /\ head[p + 2 * t + 2] = Number(Len(tables[t]))
    BY <1>3, Zenon
  <2>6. Number((size + n) + sum(t)).value = (size + n) + sum(t)
        /\ Number(Len(tables[t])).value = Len(tables[t])
    BY <1>4, <1>6, Zenon
  <2>3. Field(text, (p + 2 * t + 1) - 1) = (size + n) + sum(t)
    BY <1>5, <2>2, <2>5, <2>6, Zenon
  <2>4. Field(text, (p + 2 * t + 2) - 1) = Len(tables[t])
    BY <1>5, <2>2, <2>5, <2>6, Zenon
  <2> QED BY <2>2, <2>3, <2>4, Zenon DEF TableAddress, TableSize
<1> QED BY <1>7, <1>8, <1>9, <1>10, Zenon DEF p, n, size, L, sum, FieldsTell

(* What was written is read. *)
IsReadBack(pre, cells, main, tables) ==
  LET text == Filed(pre, cells, main, tables)
      first == Len(pre) - 1
  IN
  /\ \A i \in 1..Len(pre) : text[i] = pre[i]
  /\ Field(text, first + 1) = main
  /\ ReadCmds(text, first) = cells
  /\ \A t \in 1..Len(tables) : Table(text, first, t) = tables[t]

LEMMA ReadsBack ==
  ASSUME NEW pre, NEW cells, NEW main, NEW tables, IsFiled(pre, cells, main, tables),
         pre[Len(pre)] = Number(HeaderSize(pre, tables))
  PROVE  IsReadBack(pre, cells, main, tables)
<1> DEFINE text == Filed(pre, cells, main, tables)
           first == Len(pre) - 1
           size == HeaderSize(pre, tables)
           n == Len(cells)
           rest == Concat(tables)
           L == Len(tables)
<1>1. /\ text \in Seq(FileCell) /\ n \in Nat /\ Len(rest) \in Nat
      /\ Len(text) = (size + n) + Len(rest)
      /\ \A i \in 1..size : text[i] = Header(pre, cells, main, tables)[i]
      /\ \A i \in 1..n : text[size + i] = cells[i]
      /\ \A i \in 1..Len(rest) : text[(size + n) + i] = rest[i]
  <2>1. FiledAs(pre, cells, main, tables) BY FiledFacts, Zenon
  <2> QED BY <2>1, Zenon DEF FiledAs
<1>2. HasHeader(text, pre, cells, main, tables) BY <1>1, Zenon DEF HasHeader
<1> HIDE DEF text
<1>3. /\ Field(text, first) = size /\ Field(text, first + 1) = main
      /\ CmdsSize(text, first) = n
      /\ \A t \in 1..L :
           /\ TableAddress(text, first, t) = (size + n) + SumBefore(Lens(tables), t)
           /\ TableSize(text, first, t) = Len(tables[t])
  <2>1. FieldsTell(text, pre, cells, main, tables) BY <1>2, FieldsFacts, Zenon
  <2> QED BY <2>1, Zenon DEF FieldsTell
<1>4. /\ size \in Nat /\ Len(pre) + 2 <= size
      /\ \A i \in 1..Len(pre) : Header(pre, cells, main, tables)[i] = pre[i]
  <2>1. HeaderTells(pre, cells, main, tables) BY HeaderFacts, Zenon
  <2> QED BY <2>1, Zenon DEF HeaderTells
<1>5. \A i \in 1..Len(pre) : text[i] = pre[i]
  <2>1. Len(pre) \in Nat BY DEF IsFiled
  <2> HIDE DEF size
  <2>2. \A i \in 1..Len(pre) : i \in 1..size BY <1>4, <2>1
  <2> QED BY <1>1, <1>4, <2>2, Zenon
<1>6. cells \in Seq(FileCell) /\ tables \in Seq(Seq(FileCell))
  BY FileCellFacts, Zenon DEF IsFiled
<1> HIDE DEF size, first, n, rest
<1>7. ReadCmds(text, first) = cells
  <2>1. size + n <= Len(text) BY <1>1, <1>4
  <2>2. SubSeq(text, size + 1, size + n) = cells
    BY <1>1, <1>4, <1>6, <2>1, PartIs, Zenon DEF n
  <2> QED BY <1>3, <2>2, Zenon DEF ReadCmds
<1>8. ASSUME NEW t \in 1..L PROVE Table(text, first, t) = tables[t]
  <2> DEFINE o == SumBefore(Lens(tables), t)
             m == Len(tables[t])
  <2>1. /\ o \in Nat /\ o + m <= Len(rest)
        /\ \A i \in 1..m : o + i \in 1..Len(rest) /\ rest[o + i] = tables[t][i]
    BY <1>6, ConcatPart, Zenon DEF rest
  <2>2. tables[t] \in Seq(FileCell) /\ m \in Nat BY <1>6
  <2>3. TableAddress(text, first, t) = (size + n) + o /\ TableSize(text, first, t) = m
    BY <1>3, Zenon
  <2> HIDE DEF o, m
  <2>4. (size + n) + o \in Nat /\ ((size + n) + o) + m <= Len(text)
    BY <1>1, <1>4, <2>1, <2>2
  <2>5. \A i \in 1..m : text[((size + n) + o) + i] = tables[t][i]
    <3>1. \A x, y, i \in Nat : (x + y) + i = x + (y + i) OBVIOUS
    <3>2. size + n \in Nat /\ \A i \in 1..m : i \in Nat BY <1>1, <1>4, <2>2
    <3> QED BY <1>1, <2>1, <3>1, <3>2, Zenon
  <2>6. SubSeq(text, ((size + n) + o) + 1, ((size + n) + o) + m) = tables[t]
    BY <1>1, <2>2, <2>4, <2>5, PartIs, Zenon DEF m
  <2> QED BY <2>3, <2>6, Zenon DEF Table
<1> QED BY <1>3, <1>5, <1>7, <1>8, Zenon DEF text, first, L, IsReadBack

(* What is left of a file that was cut short is not read through. *)
LEMMA CutIsNoticed ==
  ASSUME NEW pre, NEW cells, NEW main, NEW tables, IsFiled(pre, cells, main, tables),
         pre[Len(pre)] = Number(HeaderSize(pre, tables)), tables # <<>>,
         NEW n \in 0..Len(Filed(pre, cells, main, tables)) - 1
  PROVE  ~IsReadThrough(SubSeq(Filed(pre, cells, main, tables), 1, n),
                        HeaderSize(pre, tables), Len(pre) - 1, Len(tables))
<1> DEFINE text == Filed(pre, cells, main, tables)
           cut == SubSeq(text, 1, n)
           first == Len(pre) - 1
           size == HeaderSize(pre, tables)
           rest == Concat(tables)
           L == Len(tables)
           o == SumBefore(Lens(tables), L)
<1> SUFFICES ASSUME IsReadThrough(cut, size, first, L) PROVE FALSE OBVIOUS
<1>1. /\ text \in Seq(FileCell) /\ Len(cells) \in Nat /\ Len(rest) \in Nat
      /\ Len(text) = (size + Len(cells)) + Len(rest)
      /\ \A i \in 1..size : text[i] = Header(pre, cells, main, tables)[i]
  <2>1. FiledAs(pre, cells, main, tables) BY FiledFacts, Zenon
  <2> QED BY <2>1, Zenon DEF FiledAs
<1>2. size \in Nat BY HeaderFacts, Zenon DEF HeaderTells
<1>3. n \in Nat /\ n < Len(text)
  <2>1. Len(text) \in Nat /\ n \in 0..Len(text) - 1 BY <1>1
  <2> HIDE DEF text
  <2> QED BY <2>1
<1>4. tables \in Seq(Seq(FileCell)) BY Zenon DEF IsFiled
<1>5. L \in Nat /\ L \in 1..L /\ L \in 0..L BY <1>4
<1> HIDE DEF text
<1>6. Len(cut) = n /\ \A i \in 1..n : cut[i] = text[i]
  <2>1. text \in Seq(FileCell) /\ n \in 0..Len(text) BY <1>1, <1>3
  <2> QED BY <2>1
<1>7. Len(cut) >= size BY Zenon DEF IsReadThrough
<1> HIDE DEF cut, size
<1>8. HasHeader(cut, pre, cells, main, tables)
  <2>1. \A i \in 1..size : i \in 1..n BY <1>2, <1>3, <1>6, <1>7
  <2>2. \A i \in 1..size : cut[i] = Header(pre, cells, main, tables)[i]
    BY <1>1, <1>6, <2>1, Zenon
  <2> QED BY <2>2, Zenon DEF HasHeader, size
<1>9. /\ TableAddress(cut, first, L) = (size + Len(cells)) + o
      /\ TableSize(cut, first, L) = Len(tables[L])
  <2>1. FieldsTell(cut, pre, cells, main, tables) BY <1>8, FieldsFacts, Zenon
  <2> QED BY <1>5, <2>1, Zenon DEF FieldsTell, size
<1>10. o \in Nat /\ o + Len(tables[L]) = Len(rest)
  <2>1. o \in Nat BY <1>4, <1>5, ConcatPart, Zenon
  <2>2. Lens(tables) \in Seq(Nat) /\ Len(Lens(tables)) = L
        /\ Lens(tables)[L] = Len(tables[L])
    BY <1>4, <1>5, LensFacts, Zenon
  <2>3. SumTo(Lens(tables), L) = o + Len(tables[L])
    BY <1>5, <2>2, SumToFacts, Zenon DEF SumBefore
  <2>4. Len(rest) = SumTo(Lens(tables), L)
    BY <1>4, <2>2, ConcatFacts, Zenon DEF Sum
  <2> QED BY <2>1, <2>3, <2>4, Zenon
<1>11. TableAddress(cut, first, L) + TableSize(cut, first, L) <= n
  BY <1>5, <1>6, Zenon DEF IsReadThrough
<1>12. Len(tables[L]) \in Nat BY <1>4, <1>5
<1>13. ((size + Len(cells)) + o) + Len(tables[L]) <= n BY <1>9, <1>11, Zenon
<1> DEFINE x == size + Len(cells)
           y == Len(tables[L])
           l == Len(text)
           m == Len(rest)
<1>14. /\ x \in Nat /\ y \in Nat /\ o \in Nat /\ m \in Nat /\ n \in Nat
       /\ o + y = m /\ l = x + m /\ (x + o) + y <= n /\ n < l
  <2>1. x \in Nat BY <1>1, <1>2
  <2> QED BY <1>1, <1>3, <1>10, <1>12, <1>13, <2>1, Zenon
<1> HIDE DEF x, y, o, l, m
<1> QED BY <1>14

-----------------------------------------------------------------------------
(* Tables                                                                  *)

PairParts(ss) ==
  [i \in 1..Len(ss) |-> [id |-> ss[i][1].id, number |-> ss[i][2].value]]

LEMMA PairsBack ==
  ASSUME NEW ss \in Seq(Seq(FileCell)), \A k \in 1..Len(ss) : Len(ss[k]) = 2
  PROVE  ReadPairs(Concat(ss)) = PairParts(ss)
<1> DEFINE L == Len(ss)
           table == Concat(ss)
<1>1. /\ Len(table) = 2 * L
      /\ \A k \in 1..L : table[2 * k - 1] = ss[k][1] /\ table[2 * k] = ss[k][2]
  BY PairsRow, Zenon
<1>2. L \in Nat OBVIOUS
<1>3. (2 * L) \div 2 = L BY <1>2
<1> HIDE DEF table, L
<1>4. Len(table) \div 2 = L BY <1>1, <1>3, Zenon
<1>5. ReadPairs(table) =
        [i \in 1..L |-> [id |-> table[2 * i - 1].id, number |-> table[2 * i].value]]
  BY <1>4, Zenon DEF ReadPairs
<1>6. \A i \in 1..L :
        [id |-> table[2 * i - 1].id, number |-> table[2 * i].value] =
          [id |-> ss[i][1].id, number |-> ss[i][2].value]
  BY <1>1, Zenon
<1> QED BY <1>5, <1>6, Zenon DEF PairParts, L, table

(* A table of pairs of an id and a number is read back. *)
IsPairs(table, ids, numbers) ==
  /\ table \in Seq(FileCell)
  /\ Len(ReadPairs(table)) = Len(ids) /\ DOMAIN ReadPairs(table) = 1..Len(ids)
  /\ \A i \in 1..Len(ids) :
       ReadPairs(table)[i].id = ids[i] /\ ReadPairs(table)[i].number = numbers[i]

LEMMA PairsRead ==
  ASSUME NEW n \in Nat, NEW ids \in Seq(Id), NEW numbers \in Seq(Nat),
         Len(ids) = n, Len(numbers) = n
  PROVE  IsPairs(Concat([i \in 1..n |-> <<IdCell(ids[i]), Number(numbers[i])>>]),
                 ids, numbers)
<1> DEFINE pair(i) == <<IdCell(ids[i]), Number(numbers[i])>>
           ss == [i \in 1..n |-> pair(i)]
<1>1. ASSUME NEW i \in 1..n
      PROVE  /\ pair(i) \in Seq(FileCell) /\ Len(pair(i)) = 2
             /\ pair(i)[1].id = ids[i] /\ pair(i)[2].value = numbers[i]
  <2>1. ids[i] \in Id /\ numbers[i] \in Nat OBVIOUS
  <2> DEFINE a == IdCell(ids[i])
             b == Number(numbers[i])
  <2>2. a \in FileCell /\ b \in FileCell /\ a.id = ids[i] /\ b.value = numbers[i]
    BY <2>1, FileCellFacts, Zenon
  <2> HIDE DEF a, b
  <2>3. <<a, b>> \in Seq(FileCell) /\ Len(<<a, b>>) = 2 /\ <<a, b>>[1] = a
        /\ <<a, b>>[2] = b
    BY <2>2
  <2> QED BY <2>2, <2>3, Zenon DEF a, b
<1>2. ss \in [1..n -> Seq(FileCell)] /\ \A i \in 1..n : ss[i] = pair(i)
  BY <1>1, Zenon
<1> HIDE DEF ss, pair
<1>3. ss \in Seq(Seq(FileCell)) /\ Len(ss) = n BY <1>2, FunctionSeq, Zenon
<1>10. \A k \in 1..n : Len(ss[k]) = 2 BY <1>1, <1>2, Zenon
<1>4. \A k \in 1..Len(ss) : Len(ss[k]) = 2 BY <1>3, <1>10, Zenon
<1>5. ReadPairs(Concat(ss)) = PairParts(ss) BY <1>3, <1>4, PairsBack, Zenon
<1>6. Concat(ss) \in Seq(FileCell) BY <1>3, ConcatFacts, Zenon
<1>7. /\ DOMAIN PairParts(ss) = 1..n
      /\ \A i \in 1..n : PairParts(ss)[i] =
           [id |-> ss[i][1].id, number |-> ss[i][2].value]
  BY <1>3, Zenon DEF PairParts
<1>8. Len(PairParts(ss)) = n BY <1>7
<1>9. ASSUME NEW i \in 1..n
      PROVE  PairParts(ss)[i].id = ids[i] /\ PairParts(ss)[i].number = numbers[i]
  <2>1. ss[i][1].id = ids[i] /\ ss[i][2].value = numbers[i] BY <1>1, <1>2, Zenon
  <2> QED BY <1>7, <2>1
<1> QED BY <1>5, <1>6, <1>7, <1>8, <1>9, Zenon DEF IsPairs, ss, pair

LEMMA VarsRead ==
  ASSUME NEW names \in Seq(Var)
  PROVE  /\ IdSizes(names) \in Seq(FileCell)
         /\ [i \in DOMAIN ReadPairs(IdSizes(names)) |->
               ReadPairs(IdSizes(names))[i].id] = names
<1> DEFINE n == Len(names)
           numbers == [i \in 1..n |-> Size[names[i]]]
           table == IdSizes(names)
<1>1. n \in Nat /\ DOMAIN names = 1..n /\ \A i \in 1..n : names[i] \in Var OBVIOUS
<1>2. names \in Seq(Id) BY DEF Id
<1>3. \A x \in Var : Size[x] \in Nat BY IdsAssumption
<1>4. numbers \in [1..n -> Nat] BY <1>1, <1>3, Zenon
<1> HIDE DEF n
<1>5. numbers \in Seq(Nat) /\ Len(numbers) = n BY <1>1, <1>4, FunctionSeq, Zenon
<1>6. table = Concat([i \in 1..n |-> <<IdCell(names[i]), Number(numbers[i])>>])
  BY <1>1, Zenon DEF IdSizes
<1> HIDE DEF numbers, table
<1>7. IsPairs(table, names, numbers) BY <1>1, <1>2, <1>5, <1>6, PairsRead, Zenon DEF n
<1>8. names = [i \in 1..n |-> names[i]] BY <1>1
<1> QED BY <1>7, <1>8, Zenon DEF IsPairs, n, table

FuncsIn(table) ==
  {[id |-> ReadPairs(table)[i].id, address |-> ReadPairs(table)[i].number] :
     i \in DOMAIN ReadPairs(table)}

LEMMA FuncsRead ==
  ASSUME NEW defs \in SUBSET [id: Func, address: Nat], IsFiniteSet(defs)
  PROVE  FuncAddresses(defs) \in Seq(FileCell) /\ FuncsIn(FuncAddresses(defs)) = defs
<1> DEFINE seq == Ext!SetToSeq(defs)
           n == Cardinality(defs)
           ids == [i \in 1..n |-> seq[i].id]
           numbers == [i \in 1..n |-> seq[i].address]
           table == FuncAddresses(defs)
<1>1. /\ Len(seq) = n /\ seq \in Seq(defs)
      /\ \A i \in 1..n : seq[i] \in defs
      /\ \A x \in defs : \E i \in 1..n : seq[i] = x
  BY SetToSeqFacts, Zenon
<1>2. n \in Nat BY FS_CardinalityType, Zenon
<1>3. \A x \in defs : /\ x.id \in Func /\ x.id \in Id /\ x.address \in Nat
                      /\ x = [id |-> x.id, address |-> x.address]
  BY DEF Id
<1> HIDE DEF seq, n
<1>4. DOMAIN seq = 1..n BY <1>1
<1>5. table = Concat([i \in 1..n |-> <<IdCell(ids[i]), Number(numbers[i])>>])
  BY <1>4, Zenon DEF FuncAddresses, seq
<1>6. ids \in [1..n -> Id] /\ numbers \in [1..n -> Nat] BY <1>1, <1>3, Zenon
<1>7. \A i \in 1..n : ids[i] = seq[i].id /\ numbers[i] = seq[i].address BY Zenon
<1> HIDE DEF ids, numbers, table
<1>8. ids \in Seq(Id) /\ Len(ids) = n /\ numbers \in Seq(Nat) /\ Len(numbers) = n
  BY <1>2, <1>6, FunctionSeq, Zenon
<1>9. IsPairs(table, ids, numbers) BY <1>2, <1>5, <1>8, PairsRead, Zenon
<1>10. /\ table \in Seq(FileCell) /\ DOMAIN ReadPairs(table) = 1..n
       /\ \A i \in 1..n :
            ReadPairs(table)[i].id = seq[i].id
            /\ ReadPairs(table)[i].number = seq[i].address
  BY <1>7, <1>8, <1>9, Zenon DEF IsPairs
<1>11. \A i \in 1..n :
         [id |-> ReadPairs(table)[i].id, address |-> ReadPairs(table)[i].number] = seq[i]
  BY <1>1, <1>3, <1>10, Zenon
<1>12. ASSUME NEW x \in FuncsIn(table) PROVE x \in defs
  <2>1. PICK i \in 1..n : x = [id |-> ReadPairs(table)[i].id,
                               address |-> ReadPairs(table)[i].number]
    BY <1>10, Zenon DEF FuncsIn
  <2>2. x = seq[i] BY <1>11, <2>1, Zenon
  <2> QED BY <1>1, <2>2, Zenon
<1>13. ASSUME NEW x \in defs PROVE x \in FuncsIn(table)
  <2>1. PICK i \in 1..n : seq[i] = x BY <1>1, Zenon
  <2>2. x = [id |-> ReadPairs(table)[i].id, address |-> ReadPairs(table)[i].number]
    BY <1>11, <2>1, Zenon
  <2> QED BY <1>10, <2>2, Zenon DEF FuncsIn
<1>14. FuncsIn(table) = defs BY <1>12, <1>13, Zenon
<1> QED BY <1>10, <1>14, Zenon DEF table

LEMMA IdsRead ==
  ASSUME NEW ids \in SUBSET Id
  PROVE  WriteIds(ids) \in Seq(FileCell) /\ ReadIds(WriteIds(ids)) = ids
<1> DEFINE seq == Ext!SetToSeq(ids)
           n == Cardinality(ids)
           table == WriteIds(ids)
<1>0. IsFiniteSet(ids) BY IdsAssumption, FS_Subset, Zenon
<1>1. /\ Len(seq) = n /\ seq \in Seq(ids)
      /\ \A i \in 1..n : seq[i] \in ids
      /\ \A x \in ids : \E i \in 1..n : seq[i] = x
  BY <1>0, SetToSeqFacts, Zenon
<1>2. n \in Nat BY <1>0, FS_CardinalityType, Zenon
<1> HIDE DEF seq, n
<1>3. DOMAIN seq = 1..n BY <1>1
<1>4. table = [i \in 1..n |-> IdCell(seq[i])] BY <1>3, Zenon DEF WriteIds, seq
<1>5. \A i \in 1..n : IdCell(seq[i]) \in FileCell /\ IdCell(seq[i]).id = seq[i]
  <2>1. \A i \in 1..n : seq[i] \in Id BY <1>1
  <2> QED BY <2>1, FileCellFacts, Zenon
<1> HIDE DEF table
<1>6. table \in [1..n -> FileCell] /\ \A i \in 1..n : table[i] = IdCell(seq[i])
  BY <1>4, <1>5, Zenon
<1>7. table \in Seq(FileCell) /\ DOMAIN table = 1..n
  BY <1>2, <1>6, FunctionSeq, Zenon
<1>8. \A x : x \in ReadIds(table) <=> \E i \in 1..n : x = table[i].id
  BY <1>7 DEF ReadIds
<1>9. \A i \in 1..n : table[i].id = seq[i] BY <1>5, <1>6, Zenon
<1>10. ASSUME NEW x \in ReadIds(table) PROVE x \in ids
  <2>1. PICK i \in 1..n : x = table[i].id BY <1>8, Zenon
  <2>2. x = seq[i] BY <1>9, <2>1, Zenon
  <2> QED BY <1>1, <2>2, Zenon
<1>12. ASSUME NEW x \in ids PROVE x \in ReadIds(table)
  <2>1. PICK i \in 1..n : seq[i] = x BY <1>1, Zenon
  <2>2. x = table[i].id BY <1>9, <2>1, Zenon
  <2> QED BY <1>8, <2>2, Zenon
<1>11. ReadIds(table) = ids BY <1>10, <1>12, Zenon
<1> QED BY <1>7, <1>11, Zenon DEF table

(* A table of references: entries of two cells and as many more as the     *)
(* second says.                                                            *)
AreEntries(ss) ==
  /\ ss \in Seq(Seq(FileCell))
  /\ \A k \in 1..Len(ss) : ss[k][2].value \in Nat
                           /\ Len(ss[k]) = 2 + ss[k][2].value

Start(ss, k) == SumTo(Lens(ss), k)

HasEntry(table, start, e) ==
  /\ e[2].value \in Nat /\ Len(e) = 2 + e[2].value
  /\ \A i \in 1..Len(e) : table[start + i] = e[i]
  /\ table[start + 2] = e[2]

LEMMA EntryCell ==
  ASSUME NEW ss, AreEntries(ss), NEW k \in 1..Len(ss)
  PROVE  HasEntry(Concat(ss), Start(ss, k - 1), ss[k])
<1>1. /\ ss \in Seq(Seq(FileCell))
      /\ ss[k][2].value \in Nat /\ Len(ss[k]) = 2 + ss[k][2].value
  BY Zenon DEF AreEntries
<1>2. SumBefore(Lens(ss), k) = Start(ss, k - 1) BY Zenon DEF SumBefore, Start
<1>3. \A i \in 1..Len(ss[k]) : Concat(ss)[SumBefore(Lens(ss), k) + i] = ss[k][i]
  BY <1>1, ConcatPart, Zenon
<1>4. \A i \in 1..Len(ss[k]) : Concat(ss)[Start(ss, k - 1) + i] = ss[k][i]
  BY <1>2, <1>3, Zenon
<1>5. \A v \in Nat : 2 \in 1..2 + v OBVIOUS
<1>6. 2 \in 1..Len(ss[k]) BY <1>1, <1>5, Zenon
<1> QED BY <1>1, <1>4, <1>6, Zenon DEF HasEntry

LEMMA StartFacts ==
  ASSUME NEW ss, AreEntries(ss)
  PROVE  /\ Len(ss) \in Nat /\ Len(Concat(ss)) \in Nat
         /\ Start(ss, 0) = 0 /\ Start(ss, Len(ss)) = Len(Concat(ss))
         /\ \A k \in 0..Len(ss) : Start(ss, k) \in Nat
                                  /\ k <= Start(ss, k)
         /\ \A k \in 1..Len(ss) :
              /\ Start(ss, k) = Start(ss, k - 1) + Len(ss[k])
              /\ Start(ss, k - 1) # Len(Concat(ss))
         /\ Len(ss) <= Len(Concat(ss))
<1> DEFINE L == Len(ss)
           N == Len(Concat(ss))
           lens == Lens(ss)
<1>1. /\ ss \in Seq(Seq(FileCell)) /\ L \in Nat
      /\ \A k \in 1..L : Len(ss[k]) \in Nat /\ Len(ss[k]) >= 2
  <2>1. ss \in Seq(Seq(FileCell)) BY Zenon DEF AreEntries
  <2>2. ASSUME NEW k \in 1..L PROVE Len(ss[k]) \in Nat /\ Len(ss[k]) >= 2
    <3>1. ss[k][2].value \in Nat /\ Len(ss[k]) = 2 + ss[k][2].value
      BY EntryCell, Zenon DEF HasEntry
    <3>2. \A v \in Nat : 2 + v \in Nat /\ 2 + v >= 2 OBVIOUS
    <3> QED BY <3>1, <3>2, Zenon
  <2> QED BY <2>1, <2>2
<1>2. lens \in Seq(Nat) /\ Len(lens) = L /\ \A k \in 1..L : lens[k] = Len(ss[k])
  BY <1>1, LensFacts, Zenon
<1>3. N \in Nat
  <2>1. Concat(ss) \in Seq(FileCell) BY <1>1, ConcatFacts, Zenon
  <2> QED BY <2>1
<1>4. N = Start(ss, L) BY <1>1, <1>2, ConcatFacts, Zenon DEF Sum, Start
<1> HIDE DEF L, N, lens
<1>5. /\ Start(ss, 0) = 0 /\ \A k \in 0..L : Start(ss, k) \in Nat
      /\ \A k \in 1..L : Start(ss, k) = Start(ss, k - 1) + Len(ss[k])
  BY <1>2, SumToFacts, Zenon DEF Start, lens
<1> DEFINE P == {n \in Nat : n <= L => n <= Start(ss, n)}
<1>6. 0 \in P BY <1>5
<1>7. ASSUME NEW n \in P, n + 1 <= L PROVE n + 1 <= Start(ss, n + 1)
  <2>1. n + 1 \in 1..L /\ (n + 1) - 1 = n /\ n \in 0..L /\ n <= Start(ss, n)
    BY <1>1, <1>7
  <2>2. Start(ss, n + 1) = Start(ss, n) + Len(ss[n + 1]) BY <1>5, <2>1, Zenon
  <2>3. Start(ss, n) \in Nat /\ Len(ss[n + 1]) \in Nat /\ Len(ss[n + 1]) >= 2
    BY <1>1, <1>5, <2>1, Zenon
  <2> QED BY <2>1, <2>2, <2>3
<1>8. \A n \in P : n + 1 \in P BY <1>7
<1>9. P \in SUBSET Nat OBVIOUS
<1>10. P = Nat BY <1>6, <1>8, <1>9, SetInduction, Zenon
<1>11. \A k \in 0..L : k <= Start(ss, k)
  <2>1. \A k \in 0..L : k \in Nat /\ k <= L BY <1>1
  <2> QED BY <1>10, <2>1, Zenon
<1>12. ASSUME NEW k \in 1..L PROVE Start(ss, k - 1) # N
  <2>1. k \in 0..L /\ L \in 0..L /\ k - 1 \in 0..L /\ k <= L BY <1>1
  <2>2. Start(ss, k) <= Start(ss, L) BY <1>2, <2>1, SumGrows, Zenon DEF Start, lens
  <2>3. Start(ss, k) = Start(ss, k - 1) + Len(ss[k]) BY <1>5, Zenon
  <2>4. Start(ss, k - 1) \in Nat /\ Start(ss, k) \in Nat BY <1>5, <2>1, Zenon
  <2>5. Len(ss[k]) \in Nat /\ Len(ss[k]) >= 2 BY <1>1, Zenon
  <2> QED BY <1>3, <1>4, <2>2, <2>3, <2>4, <2>5
<1>13. L <= N
  <2>1. L \in 0..L BY <1>1
  <2> QED BY <1>4, <1>11, <2>1, Zenon
<1> QED BY <1>1, <1>3, <1>4, <1>5, <1>11, <1>12, <1>13, Zenon DEF L, N

(* The reader stops at the beginning of each entry and at the end. *)
LEMMA EntryAddressFacts ==
  ASSUME NEW ss, AreEntries(ss), NEW n \in 0..Len(Concat(ss))
  PROVE  EntryAddress(Concat(ss), n) =
           IF n <= Len(ss) THEN Start(ss, n) ELSE Len(Concat(ss))
<1> DEFINE table == Concat(ss)
           N == Len(table)
           L == Len(ss)
           at(i) == IF i <= L THEN Start(ss, i) ELSE N
           next(x) == IF x = N THEN N ELSE x + 2 + Field(table, x + 1)
           Is(f) == f = [i \in 0..N |-> IF i = 0 THEN 0
                                        ELSE IF f[i - 1] = N THEN N
                                        ELSE f[i - 1] + 2 + Field(table, f[i - 1] + 1)]
           start == CHOOSE f : Is(f)
           f == [i \in 0..N |-> at(i)]
<1>1. /\ L \in Nat /\ N \in Nat /\ L <= N
      /\ Start(ss, 0) = 0 /\ Start(ss, L) = N
      /\ \A k \in 1..L : /\ Start(ss, k) = Start(ss, k - 1) + Len(ss[k])
                         /\ Start(ss, k - 1) # N
      /\ \A k \in 0..L : Start(ss, k) \in Nat
  BY StartFacts, Zenon
<1>2. EntryAddress(table, n) = start[n] BY Zenon DEF EntryAddress
<1>3. ASSUME NEW k \in 1..L PROVE 2 + Field(table, Start(ss, k - 1) + 1) = Len(ss[k])
  <2>1. 2 + ss[k][2].value = Len(ss[k]) /\ table[Start(ss, k - 1) + 2] = ss[k][2]
    BY EntryCell, Zenon DEF HasEntry
  <2>4. k - 1 \in 0..L BY <1>1
  <2>5. (Start(ss, k - 1) + 1) + 1 = Start(ss, k - 1) + 2 BY <1>1, <2>4
  <2> QED BY <2>1, <2>5, Zenon DEF Field, CellAt
<1> HIDE DEF table, N, L, start
<1>4. at(0) = 0 BY <1>1
<1>5. ASSUME NEW i \in 1..N PROVE at(i) = next(at(i - 1))
  <2>1. CASE i <= L
    <3>1. i \in 1..L /\ i - 1 <= L /\ i - 1 \in 0..L BY <1>1, <2>1
    <3>2. at(i - 1) = Start(ss, i - 1) /\ at(i) = Start(ss, i) BY <2>1, <3>1, Zenon
    <3>3. Start(ss, i - 1) # N BY <1>1, <3>1, Zenon
    <3> DEFINE x == Start(ss, i - 1)
               y == Field(table, x + 1)
    <3>4. x \in Nat /\ 2 + y = Len(ss[i]) /\ Start(ss, i) = x + Len(ss[i])
      BY <1>1, <1>3, <3>1, Zenon
    <3>5. next(x) = x + 2 + y BY <3>3, Zenon
    <3>6. y \in Nat
      <4>1. ss[i][2].value \in Nat /\ table[x + 2] = ss[i][2]
        BY <3>1, EntryCell, Zenon DEF table, L, HasEntry
      <4>4. (x + 1) + 1 = x + 2 BY <3>4
      <4> QED BY <4>1, <4>4, Zenon DEF Field, CellAt
    <3> HIDE DEF x, y
    <3>7. x + 2 + y = x + (2 + y) BY <3>4, <3>6
    <3> QED BY <3>2, <3>4, <3>5, <3>7, Zenon DEF x
  <2>2. CASE ~(i <= L)
    <3>1. i - 1 <= L => i - 1 = L BY <1>1, <2>2
    <3>2. at(i - 1) = N BY <1>1, <3>1, Zenon
    <3> QED BY <2>2, <3>2, Zenon
  <2> QED BY <2>1, <2>2, Zenon
<1> HIDE DEF at
<1>6. \A i \in 1..N : i \in 0..N /\ i - 1 \in 0..N /\ i # 0 BY <1>1
<1>7. \A i \in 0..N : i = 0 \/ i \in 1..N BY <1>1
<1>8. Is(f)
  <2>1. \A i \in 0..N : f[i] = at(i) BY Zenon
  <2> HIDE DEF f
  <2>2. ASSUME NEW i \in 0..N
        PROVE  at(i) = IF i = 0 THEN 0
                       ELSE IF f[i - 1] = N THEN N
                       ELSE f[i - 1] + 2 + Field(table, f[i - 1] + 1)
    <3>1. CASE i = 0 BY <1>4, <3>1, Zenon
    <3>2. CASE i \in 1..N
      <4>1. f[i - 1] = at(i - 1) BY <1>6, <2>1, <3>2, Zenon
      <4> QED BY <1>5, <1>6, <3>2, <4>1, Zenon
    <3> QED BY <1>7, <3>1, <3>2, Zenon
  <2> QED BY <2>2, Zenon DEF f
<1>9. Is(start) BY <1>8, Zenon DEF start
<1>10. start[0] = 0 /\ \A i \in 1..N : start[i] = next(start[i - 1])
  <2>1. \A i \in 0..N :
          start[i] = IF i = 0 THEN 0
                     ELSE IF start[i - 1] = N THEN N
                     ELSE start[i - 1] + 2 + Field(table, start[i - 1] + 1)
    BY <1>9, Zenon
  <2>2. 0 \in 0..N BY <1>1
  <2> QED BY <1>6, <2>1, <2>2, Zenon
<1> HIDE DEF next, f
<1> DEFINE P == {i \in Nat : i <= N => start[i] = at(i)}
<1>11. 0 \in P BY <1>4, <1>10
<1>12. ASSUME NEW i \in P, i + 1 <= N PROVE start[i + 1] = at(i + 1)
  <2>1. i + 1 \in 1..N /\ (i + 1) - 1 = i /\ start[i] = at(i) BY <1>1, <1>12
  <2> QED BY <1>5, <1>10, <2>1, Zenon
<1>13. \A i \in P : i + 1 \in P BY <1>12
<1>14. P \in SUBSET Nat OBVIOUS
<1>15. P = Nat BY <1>11, <1>13, <1>14, SetInduction, Zenon
<1>16. n \in Nat /\ n <= N BY <1>1 DEF N, table
<1>17. start[n] = at(n) BY <1>15, <1>16, Zenon
<1> QED BY <1>2, <1>17, Zenon DEF at, table, N, L

LEMMA EntriesFound ==
  ASSUME NEW ss, AreEntries(ss)
  PROVE  {EntryAddress(Concat(ss), n) : n \in 0..Len(Concat(ss))} \ {Len(Concat(ss))} =
           {Start(ss, k - 1) : k \in 1..Len(ss)}
<1> DEFINE N == Len(Concat(ss))
           L == Len(ss)
           S == {EntryAddress(Concat(ss), n) : n \in 0..N} \ {N}
           T == {Start(ss, k - 1) : k \in 1..L}
<1>1. /\ L \in Nat /\ N \in Nat /\ L <= N /\ Start(ss, L) = N
      /\ \A k \in 1..L : Start(ss, k - 1) # N
  BY StartFacts, Zenon
<1>2. \A n \in 0..N :
        EntryAddress(Concat(ss), n) = IF n <= L THEN Start(ss, n) ELSE N
  BY EntryAddressFacts, Zenon
<1> HIDE DEF N, L
<1>3. ASSUME NEW x \in S PROVE x \in T
  <2>1. PICK n \in 0..N : x = EntryAddress(Concat(ss), n) BY Zenon
  <2>2. x # N BY Zenon
  <2>3. n <= L /\ x = Start(ss, n) BY <1>2, <2>1, <2>2, Zenon
  <2>4. n # L BY <1>1, <2>2, <2>3, Zenon
  <2>5. n + 1 \in 1..L /\ (n + 1) - 1 = n BY <1>1, <2>1, <2>3, <2>4
  <2> QED BY <2>3, <2>5, Zenon
<1>4. ASSUME NEW x \in T PROVE x \in S
  <2>1. PICK k \in 1..L : x = Start(ss, k - 1) BY Zenon
  <2>2. x # N BY <1>1, <2>1, Zenon
  <2>3. k - 1 \in 0..N /\ k - 1 <= L BY <1>1
  <2>4. EntryAddress(Concat(ss), k - 1) = x BY <1>2, <2>1, <2>3, Zenon
  <2> QED BY <2>2, <2>3, <2>4, Zenon
<1>5. S = T BY <1>3, <1>4, Zenon
<1> QED BY <1>5, Zenon DEF N, L

(* What each entry is read as. *)
EntryRead(e) ==
  [id |-> e[1].id, addresses |-> {e[2 + i].value : i \in 1..e[2].value}]

LEMMA EntriesRead ==
  ASSUME NEW ss, AreEntries(ss)
  PROVE  ReadIdAddresses(Concat(ss)) = {EntryRead(ss[k]) : k \in 1..Len(ss)}
<1> DEFINE table == Concat(ss)
           L == Len(ss)
           read(at) == [id |-> CellAt(table, at).id,
                        addresses |-> {Field(table, at + 1 + i) :
                                         i \in 1..Field(table, at + 1)}]
<1>1. ReadIdAddresses(table) = {read(at) : at \in {Start(ss, k - 1) : k \in 1..L}}
  BY EntriesFound, Zenon DEF ReadIdAddresses
<1>2. ASSUME NEW k \in 1..L PROVE read(Start(ss, k - 1)) = EntryRead(ss[k])
  <2> DEFINE x == Start(ss, k - 1)
             v == ss[k][2].value
  <2>1. /\ v \in Nat /\ Len(ss[k]) = 2 + v
        /\ \A i \in 1..Len(ss[k]) : table[x + i] = ss[k][i]
    <3>1. HasEntry(table, x, ss[k]) BY EntryCell, Zenon
    <3> QED BY <3>1, Zenon DEF HasEntry
  <2>2. x \in Nat
    <3>1. k - 1 \in 0..L BY StartFacts
    <3> QED BY <3>1, StartFacts, Zenon
  <2> HIDE DEF x, v, table
  <2>3. /\ 1 \in 1..2 + v /\ 2 \in 1..2 + v /\ (x + 1) + 1 = x + 2
        /\ \A i \in 1..v : 2 + i \in 1..2 + v /\ (x + 1 + i) + 1 = x + (2 + i)
    BY <2>1, <2>2
  <2>4. CellAt(table, x) = ss[k][1] /\ Field(table, x + 1) = v
    BY <2>1, <2>3, Zenon DEF CellAt, Field, v
  <2>5. \A i \in 1..v : Field(table, x + 1 + i) = ss[k][2 + i].value
    BY <2>1, <2>3, Zenon DEF CellAt, Field
  <2>6. {Field(table, x + 1 + i) : i \in 1..v} = {ss[k][2 + i].value : i \in 1..v}
    BY <2>5
  <2> QED BY <2>4, <2>6, Zenon DEF EntryRead, x, v
<1> HIDE DEF read, table, L
<1>3. {read(at) : at \in {Start(ss, k - 1) : k \in 1..L}} =
        {EntryRead(ss[k]) : k \in 1..L}
  <2>1. \A k \in 1..L : read(Start(ss, k - 1)) = EntryRead(ss[k]) BY <1>2, Zenon
  <2> QED BY <2>1
<1> QED BY <1>1, <1>3, Zenon DEF table, L

(* A reference table is read back: what an id's entry holds, or nothing.   *)
IsEntryOf(e, id, addresses) ==
  /\ e \in Seq(FileCell) /\ e[2].value \in Nat /\ Len(e) = 2 + e[2].value
  /\ EntryRead(e) = [id |-> id, addresses |-> addresses]

LEMMA IdAddressesFacts ==
  ASSUME NEW id \in Id, NEW addresses \in SUBSET Nat, IsFiniteSet(addresses)
  PROVE  IsEntryOf(IdAddresses(id, addresses), id, addresses)
<1> DEFINE seq == Ascending(addresses)
           n == Cardinality(addresses)
           head == <<IdCell(id), Number(Len(seq))>>
           rest == [i \in DOMAIN seq |-> Number(seq[i])]
           e == head \o rest
<1>1. /\ seq \in Seq(addresses) /\ Len(seq) = n /\ n \in Nat
      /\ \A i \in 1..n : seq[i] \in addresses
      /\ \A a \in addresses : \E i \in 1..n : seq[i] = a
  BY AscendingFacts, Zenon
<1> HIDE DEF seq, n
<1>2. DOMAIN seq = 1..n BY <1>1
<1>3. \A i \in 1..n : Number(seq[i]) \in FileCell /\ Number(seq[i]).value = seq[i]
  <2>1. \A a \in addresses : a \in Nat OBVIOUS
  <2> QED BY <1>1, <2>1, FileCellFacts, Zenon
<1>4. rest = [i \in 1..n |-> Number(seq[i])] BY <1>2, Zenon
<1> HIDE DEF rest
<1>5. rest \in [1..n -> FileCell] /\ \A i \in 1..n : rest[i] = Number(seq[i])
  BY <1>3, <1>4, Zenon
<1>6. rest \in Seq(FileCell) /\ Len(rest) = n BY <1>1, <1>5, FunctionSeq, Zenon
<1>7. /\ head \in Seq(FileCell) /\ Len(head) = 2 /\ head[1].id = id
      /\ head[2].value = n
  <2> DEFINE a == IdCell(id)
             b == Number(n)
  <2>1. a \in FileCell /\ b \in FileCell /\ a.id = id /\ b.value = n
    BY <1>1, FileCellFacts, Zenon
  <2> HIDE DEF a, b
  <2>2. <<a, b>> \in Seq(FileCell) /\ Len(<<a, b>>) = 2 /\ <<a, b>>[1] = a
        /\ <<a, b>>[2] = b
    BY <2>1
  <2>3. head = <<a, b>> BY <1>1, Zenon DEF a, b
  <2> QED BY <2>1, <2>2, <2>3, Zenon
<1> HIDE DEF head
<1>8. /\ e \in Seq(FileCell) /\ Len(e) = 2 + n
      /\ \A i \in 1..2 : e[i] = head[i]
      /\ \A i \in 1..n : e[2 + i] = rest[i]
  <2>1. Joined(FileCell, head, rest) BY <1>6, <1>7, JoinFacts, Zenon
  <2> QED BY <1>6, <1>7, <2>1, Zenon DEF Joined
<1> HIDE DEF e
<1>9. e[1].id = id /\ e[2].value = n
  <2>1. 1 \in 1..2 /\ 2 \in 1..2 OBVIOUS
  <2> QED BY <1>7, <1>8, <2>1, Zenon
<1>10. {e[2 + i].value : i \in 1..n} = addresses
  <2>1. \A i \in 1..n : e[2 + i].value = seq[i] BY <1>3, <1>5, <1>8, Zenon
  <2>2. ASSUME NEW x \in {e[2 + i].value : i \in 1..n} PROVE x \in addresses
    <3>1. PICK i \in 1..n : x = e[2 + i].value BY Zenon
    <3>2. x = seq[i] BY <2>1, <3>1, Zenon
    <3> QED BY <1>1, <3>2, Zenon
  <2>3. ASSUME NEW a \in addresses PROVE a \in {e[2 + i].value : i \in 1..n}
    <3>1. PICK i \in 1..n : seq[i] = a BY <1>1, Zenon
    <3>2. a = e[2 + i].value BY <2>1, <3>1, Zenon
    <3> QED BY <3>2, Zenon
  <2> QED BY <2>2, <2>3, Zenon
<1>11. IdAddresses(id, addresses) = e BY Zenon DEF IdAddresses, e, head, rest, seq
<1>12. {e[2 + i].value : i \in 1..e[2].value} = addresses BY <1>9, <1>10, Zenon
<1>13. EntryRead(e) = [id |-> id, addresses |-> addresses]
  BY <1>9, <1>12, Zenon DEF EntryRead
<1>14. IsEntryOf(e, id, addresses) BY <1>1, <1>8, <1>9, <1>13, Zenon DEF IsEntryOf
<1> QED BY <1>11, <1>14, Zenon

(* The addresses of ids, each finitely many. *)
AreRefs(refs, ids) ==
  /\ ids \subseteq Id
  /\ \A id \in ids : refs[id] \subseteq Nat /\ IsFiniteSet(refs[id])

RefsRead(refs, ids) ==
  /\ WriteIdAddresses(refs, ids) \in Seq(FileCell)
  /\ \A id \in ids : ReadRefs(WriteIdAddresses(refs, ids), id) = refs[id]

LEMMA RefsReadBack ==
  ASSUME NEW refs, NEW ids, AreRefs(refs, ids)
  PROVE  RefsRead(refs, ids)
<1> DEFINE used == {id \in ids : refs[id] # {}}
           seq == Ext!SetToSeq(used)
           n == Cardinality(used)
           ss == [i \in DOMAIN seq |-> IdAddresses(seq[i], refs[seq[i]])]
           table == WriteIdAddresses(refs, ids)
<1>1. used \in SUBSET ids /\ used \in SUBSET Id BY DEF AreRefs
<1>2. IsFiniteSet(used) BY <1>1, IdsAssumption, FS_Subset, Zenon
<1>3. /\ Len(seq) = n /\ seq \in Seq(used)
      /\ \A i \in 1..n : seq[i] \in used
      /\ \A x \in used : \E i \in 1..n : seq[i] = x
  BY <1>2, SetToSeqFacts, Zenon
<1>4. n \in Nat BY <1>2, FS_CardinalityType, Zenon
<1>5. table = Concat(ss) BY Zenon DEF WriteIdAddresses
<1>6. \A x \in used : x \in ids /\ refs[x] # {}
      /\ x \in Id /\ refs[x] \in SUBSET Nat /\ IsFiniteSet(refs[x])
  BY DEF AreRefs
<1>7. \A x \in ids : x \notin used => refs[x] = {} OBVIOUS
<1> HIDE DEF used, seq, n, table
<1>8. DOMAIN seq = 1..n BY <1>3
<1>9. ss = [i \in 1..n |-> IdAddresses(seq[i], refs[seq[i]])] BY <1>8, Zenon
<1>10. \A i \in 1..n : ss[i] = IdAddresses(seq[i], refs[seq[i]]) BY <1>9, Zenon
<1>11. ASSUME NEW i \in 1..n
       PROVE  /\ ss[i] \in Seq(FileCell) /\ ss[i][2].value \in Nat
              /\ Len(ss[i]) = 2 + ss[i][2].value
              /\ EntryRead(ss[i]) = [id |-> seq[i], addresses |-> refs[seq[i]]]
  <2>1. seq[i] \in Id /\ refs[seq[i]] \in SUBSET Nat /\ IsFiniteSet(refs[seq[i]])
    BY <1>3, <1>6, Zenon
  <2>2. IsEntryOf(ss[i], seq[i], refs[seq[i]])
    BY <1>10, <2>1, IdAddressesFacts, Zenon
  <2> QED BY <2>2, Zenon DEF IsEntryOf
<1>12. ss \in [1..n -> Seq(FileCell)]
  <2>1. \A i \in 1..n : IdAddresses(seq[i], refs[seq[i]]) \in Seq(FileCell)
    BY <1>10, <1>11, Zenon
  <2> QED BY <1>9, <2>1, Zenon
<1> HIDE DEF ss
<1>13. ss \in Seq(Seq(FileCell)) /\ Len(ss) = n BY <1>4, <1>12, FunctionSeq, Zenon
<1>14. AreEntries(ss) BY <1>11, <1>13, Zenon DEF AreEntries
<1>15. ReadIdAddresses(table) = {EntryRead(ss[k]) : k \in 1..n}
  BY <1>5, <1>13, <1>14, EntriesRead, Zenon
<1>16. table \in Seq(FileCell) BY <1>5, <1>13, ConcatFacts, Zenon
<1>17. ASSUME NEW x \in ids PROVE ReadRefs(table, x) = refs[x]
  <2> DEFINE S == {e \in ReadIdAddresses(table) : e.id = x}
             U == UNION {e.addresses : e \in S}
  <2>1. ReadRefs(table, x) = U BY Zenon DEF ReadRefs
  <2>2. ASSUME NEW e \in S PROVE x \in used /\ e.addresses = refs[x]
    <3>1. e \in ReadIdAddresses(table) /\ e.id = x BY Zenon
    <3>2. PICK k \in 1..n : e = EntryRead(ss[k]) BY <1>15, <3>1, Zenon
    <3>3. e = [id |-> seq[k], addresses |-> refs[seq[k]]] BY <1>11, <3>2, Zenon
    <3>4. e.id = seq[k] /\ e.addresses = refs[seq[k]] BY <3>3
    <3>5. seq[k] = x BY <3>1, <3>4, Zenon
    <3> QED BY <1>3, <3>4, <3>5, Zenon
  <2>3. x \in used => \E e \in S : TRUE
    <3>1. SUFFICES ASSUME x \in used PROVE \E e \in S : TRUE OBVIOUS
    <3>2. PICK k \in 1..n : seq[k] = x BY <1>3, <3>1, Zenon
    <3>3. EntryRead(ss[k]) \in ReadIdAddresses(table) BY <1>15, Zenon
    <3>4. EntryRead(ss[k]) = [id |-> seq[k], addresses |-> refs[seq[k]]]
      BY <1>11, Zenon
    <3>5. EntryRead(ss[k]).id = x BY <3>2, <3>4
    <3> QED BY <3>3, <3>5, Zenon
  <2>4. \A a : a \in U <=> \E e \in S : a \in e.addresses
    <3> HIDE DEF S
    <3> QED OBVIOUS
  <2> HIDE DEF S, U
  <2>5. CASE x \in used
    <3>1. \A a : a \in U <=> a \in refs[x] BY <2>2, <2>3, <2>4, <2>5, Zenon
    <3>2. U = refs[x] BY <3>1, Zenon
    <3> QED BY <2>1, <3>2, Zenon
  <2>6. CASE x \notin used
    <3>1. refs[x] = {} BY <1>7, <2>6, Zenon
    <3>2. \A a : a \notin U BY <2>2, <2>4, <2>6, Zenon
    <3>3. U = {} BY <3>2, Zenon
    <3> QED BY <2>1, <3>1, <3>3, Zenon
  <2> QED BY <2>5, <2>6, Zenon
<1> QED BY <1>16, <1>17, Zenon DEF RefsRead, table

-----------------------------------------------------------------------------
(* Module files                                                            *)

LEMMA FiniteBelow ==
  ASSUME NEW n \in Nat, NEW S \in SUBSET (0..n - 1)
  PROVE  IsFiniteSet(S) /\ S \in SUBSET Nat
<1>1. 0 \in Int /\ n - 1 \in Int OBVIOUS
<1>2. IsFiniteSet(0..n - 1) BY <1>1, FS_Interval, Zenon
<1>3. 0..n - 1 \subseteq Nat OBVIOUS
<1> QED BY <1>2, <1>3, FS_Subset, Zenon

DefsWithin(a, b) == [id: Func, address: a..b - 1]

LEMMA FiniteDefs ==
  ASSUME NEW a \in Nat, NEW b \in Nat, NEW defs \in SUBSET DefsWithin(a, b)
  PROVE  IsFiniteSet(defs) /\ defs \in SUBSET [id: Func, address: Nat]
<1> DEFINE S == Func \X (a..b - 1)
           R == [id: Func, address: a..b - 1]
           f == [x \in S |-> [id |-> x[1], address |-> x[2]]]
<1>1. IsFiniteSet(Func)
  <2>1. Func \in SUBSET Id BY DEF Id
  <2> QED BY <2>1, IdsAssumption, FS_Subset, Zenon
<1>2. IsFiniteSet(a..b - 1)
  <2>1. a \in Int /\ b - 1 \in Int OBVIOUS
  <2> QED BY <2>1, FS_Interval, Zenon
<1>3. IsFiniteSet(S) BY <1>1, <1>2, FS_Product, Zenon
<1>4. f \in Surjection(S, R)
  <2>1. f \in [S -> R] OBVIOUS
  <2>2. ASSUME NEW r \in R PROVE \E x \in S : f[x] = r
    <3>1. <<r.id, r.address>> \in S /\ f[<<r.id, r.address>>] = r OBVIOUS
    <3> QED BY <3>1, Zenon
  <2> QED BY <2>1, <2>2, Zenon DEF Surjection
<1>6. R \subseteq [id: Func, address: Nat] OBVIOUS
<1> HIDE DEF R, S, f
<1>5. IsFiniteSet(R) BY <1>3, <1>4, FS_Surjection, Zenon
<1>7. defs \in SUBSET R BY Zenon DEF R, DefsWithin
<1> QED BY <1>5, <1>6, <1>7, FS_Subset, Zenon

(* What goes into a module file and comes back. *)
CanWrite(m) ==
  /\ m.var_defs \in Seq(Var) /\ m.native_defs \in SUBSET Id
  /\ m.func_defs \in SUBSET [id: Func, address: Nat] /\ IsFiniteSet(m.func_defs)
  /\ AreRefs(m.refs, Var) /\ AreRefs(m.refs, Func) /\ AreRefs(m.refs, Native)
  /\ m.cells \in Seq(Cell) /\ m.main_size \in 0..Len(m.cells)
  /\ m = [cells |-> m.cells, main_size |-> m.main_size,
          func_defs |-> m.func_defs, var_defs |-> m.var_defs,
          native_defs |-> m.native_defs, refs |-> m.refs]
  /\ m.refs = [id \in Id |-> m.refs[id]]

LEMMA GoodIsWritten == \A m \in Good : CanWrite(m)
<1> SUFFICES ASSUME NEW m \in Good PROVE CanWrite(m) OBVIOUS
<1> DEFINE n == Len(m.cells)
           main == m.main_size
<1>1. /\ m.cells \in Seq(Cell) /\ n \in Nat /\ main \in Nat /\ main <= n
      /\ m.func_defs \subseteq [id: Func, address: main..n - 1]
      /\ m.var_defs \in Seq(Var) /\ m.native_defs \subseteq Native
      /\ m.refs \in [Id -> SUBSET (0..n - 1)]
  BY GoodFacts, Zenon
<1> HIDE DEF n, main
<1>2. main \in 0..n BY <1>1
<1>3. m.func_defs \in SUBSET [id: Func, address: Nat] /\ IsFiniteSet(m.func_defs)
  <2>1. m.func_defs \in SUBSET DefsWithin(main, n) BY <1>1 DEF DefsWithin
  <2>2. main \in Nat /\ n \in Nat BY <1>1, Zenon
  <2> DEFINE defs == m.func_defs
  <2> HIDE DEF defs
  <2>3. defs \in SUBSET DefsWithin(main, n) BY <2>1, Zenon DEF defs
  <2>4. IsFiniteSet(defs) /\ defs \in SUBSET [id: Func, address: Nat]
    BY <2>2, <2>3, FiniteDefs
  <2> QED BY <2>4, Zenon DEF defs
<1>4. \A id \in Id : m.refs[id] \in SUBSET (0..n - 1) BY <1>1, Zenon
<1>5. \A id \in Id : m.refs[id] \subseteq Nat /\ IsFiniteSet(m.refs[id])
  BY <1>1, <1>4, FiniteBelow, Zenon
<1>6. Var \subseteq Id /\ Func \subseteq Id /\ Native \subseteq Id BY DEF Id
<1>7. AreRefs(m.refs, Var) /\ AreRefs(m.refs, Func) /\ AreRefs(m.refs, Native)
  BY <1>5, <1>6, Zenon DEF AreRefs
<1>8. m.refs = [id \in Id |-> m.refs[id]] BY <1>1, Zenon
<1>9. m.native_defs \in SUBSET Id BY <1>1, <1>6
<1>10. m = [cells |-> m.cells, main_size |-> m.main_size,
            func_defs |-> m.func_defs, var_defs |-> m.var_defs,
            native_defs |-> m.native_defs, refs |-> m.refs]
  BY DEF Good, Module
<1> QED BY <1>1, <1>2, <1>3, <1>7, <1>8, <1>9, <1>10, Zenon DEF CanWrite, main, n

ModulePre == <<Number(kVersion), Number(ModuleHeaderSize)>>
ModuleFile(m) == Filed(ModulePre, m.cells, m.main_size, ModuleTables(m))

TablesOf(m, t) ==
  /\ ModuleTables(m) \in Seq(Seq(FileCell)) /\ Len(ModuleTables(m)) = 6
  /\ t[1] = IdSizes(m.var_defs) /\ t[2] = FuncAddresses(m.func_defs)
  /\ t[3] = WriteIds(m.native_defs) /\ t[4] = WriteIdAddresses(m.refs, Var)
  /\ t[5] = WriteIdAddresses(m.refs, Func) /\ t[6] = WriteIdAddresses(m.refs, Native)

LEMMA ModuleTablesFacts ==
  ASSUME NEW m, CanWrite(m)
  PROVE  TablesOf(m, ModuleTables(m))
<1> DEFINE a == IdSizes(m.var_defs)
           b == FuncAddresses(m.func_defs)
           c == WriteIds(m.native_defs)
           d == WriteIdAddresses(m.refs, Var)
           e == WriteIdAddresses(m.refs, Func)
           f == WriteIdAddresses(m.refs, Native)
           t == ModuleTables(m)
<1>1. a \in Seq(FileCell) BY VarsRead, Zenon DEF CanWrite
<1>2. b \in Seq(FileCell) BY FuncsRead, Zenon DEF CanWrite
<1>3. c \in Seq(FileCell) BY IdsRead, Zenon DEF CanWrite
<1>4. d \in Seq(FileCell) BY RefsReadBack, Zenon DEF CanWrite, RefsRead
<1>5. e \in Seq(FileCell) BY RefsReadBack, Zenon DEF CanWrite, RefsRead
<1>6. f \in Seq(FileCell) BY RefsReadBack, Zenon DEF CanWrite, RefsRead
<1>7. t = <<a, b, c, d, e, f>> BY Zenon DEF ModuleTables
<1> HIDE DEF a, b, c, d, e, f, t
<1>8. /\ <<a, b, c, d, e, f>> \in Seq(Seq(FileCell))
      /\ Len(<<a, b, c, d, e, f>>) = 6
  BY <1>1, <1>2, <1>3, <1>4, <1>5, <1>6
<1>9. /\ t[1] = a /\ t[2] = b /\ t[3] = c /\ t[4] = d /\ t[5] = e /\ t[6] = f
  BY <1>7
<1> QED BY <1>7, <1>8, <1>9, Zenon DEF TablesOf, a, b, c, d, e, f, t

LEMMA PreFacts ==
  /\ ModulePre \in Seq(FileCell) /\ Len(ModulePre) = 2
  /\ ModulePre[2] = Number(ModuleHeaderSize)
<1> DEFINE a == Number(kVersion)
           b == Number(ModuleHeaderSize)
<1>1. a \in FileCell /\ b \in FileCell
  <2>1. kVersion \in Nat /\ ModuleHeaderSize \in Nat BY DEF kVersion, ModuleHeaderSize
  <2> QED BY <2>1, FileCellFacts, Zenon
<1> HIDE DEF a, b
<1>2. <<a, b>> \in Seq(FileCell) /\ Len(<<a, b>>) = 2 /\ <<a, b>>[2] = b BY <1>1
<1> QED BY <1>2, Zenon DEF ModulePre, a, b

LEMMA ModuleFiled ==
  ASSUME NEW m, CanWrite(m)
  PROVE  /\ IsFiled(ModulePre, m.cells, m.main_size, ModuleTables(m))
         /\ HeaderSize(ModulePre, ModuleTables(m)) = ModuleHeaderSize
         /\ WriteModule(m) = ModuleFile(m)
<1> DEFINE tables == ModuleTables(m)
<1>1. tables \in Seq(Seq(FileCell)) /\ Len(tables) = 6
  BY ModuleTablesFacts, Zenon DEF TablesOf
<1>2. m.cells \in Seq(Cell) /\ m.main_size \in 0..Len(m.cells) BY Zenon DEF CanWrite
<1> HIDE DEF tables
<1>3. HeaderSize(ModulePre, tables) = ModuleHeaderSize
  <2>1. 2 + (2 + 2 * 6) = 16 OBVIOUS
  <2> QED BY <1>1, <2>1, PreFacts, Zenon DEF HeaderSize, ModuleHeaderSize
<1>4. Len(ModulePre) >= 1
  <2>1. 2 >= 1 OBVIOUS
  <2> QED BY <2>1, PreFacts, Zenon
<1>5. IsFiled(ModulePre, m.cells, m.main_size, tables)
  BY <1>1, <1>2, <1>4, PreFacts, Zenon DEF IsFiled
<1>6. WriteModule(m) = Filed(ModulePre, m.cells, m.main_size, tables)
  BY <1>3, Zenon DEF WriteModule, Filed, Header, CodeSizesFields, ModulePre, tables
<1> QED BY <1>3, <1>5, <1>6, Zenon DEF tables, ModuleFile

(* What is read of a module's file is the module: the commands, the sizes, *)
(* the definitions and every reference, wherever the tables of the file    *)
(* begin and in whatever order their entries stand (SimpleModuleWriter,    *)
(* SimpleCodeContainerWriter, SimpleModuleReader::ReadFromCodeUnsafe).     *)
THEOREM ModulesAreReadBack ==
  ASSUME NEW m \in Good
  PROVE  ReadModule(WriteModule(m)) = m
<1> DEFINE text == WriteModule(m)
           tables == ModuleTables(m)
<1>1. CanWrite(m) BY GoodIsWritten, Zenon
<1>2. text = Filed(ModulePre, m.cells, m.main_size, tables)
  BY <1>1, ModuleFiled, Zenon DEF ModuleFile
<1>3. IsFiled(ModulePre, m.cells, m.main_size, tables) BY <1>1, ModuleFiled, Zenon
<1>4. ModulePre[Len(ModulePre)] = Number(HeaderSize(ModulePre, tables))
  BY <1>1, ModuleFiled, PreFacts, Zenon
<1>5. Len(tables) = 6 /\ TablesOf(m, tables)
  BY <1>1, ModuleTablesFacts, Zenon DEF TablesOf
<1>6. Len(ModulePre) - 1 = 1
  <2>1. 2 - 1 = 1 OBVIOUS
  <2> QED BY <2>1, PreFacts, Zenon
<1> HIDE DEF text, tables
<1>7. /\ Field(text, 1 + 1) = m.main_size /\ ReadCmds(text, 1) = m.cells
      /\ \A t \in 1..6 : Table(text, 1, t) = tables[t]
  <2>1. IsReadBack(ModulePre, m.cells, m.main_size, tables)
    BY <1>3, <1>4, ReadsBack, Zenon
  <2> QED BY <1>2, <1>5, <1>6, <2>1, Zenon DEF IsReadBack
<1>8. Field(text, 2) = m.main_size
  <2>1. 1 + 1 = 2 OBVIOUS
  <2> QED BY <1>7, <2>1, Zenon
<1>9. /\ Table(text, 1, 1) = IdSizes(m.var_defs)
      /\ Table(text, 1, 2) = FuncAddresses(m.func_defs)
      /\ Table(text, 1, 3) = WriteIds(m.native_defs)
      /\ Table(text, 1, 4) = WriteIdAddresses(m.refs, Var)
      /\ Table(text, 1, 5) = WriteIdAddresses(m.refs, Func)
      /\ Table(text, 1, 6) = WriteIdAddresses(m.refs, Native)
  <2>1. 1 \in 1..6 /\ 2 \in 1..6 /\ 3 \in 1..6 /\ 4 \in 1..6 /\ 5 \in 1..6 /\ 6 \in 1..6
    OBVIOUS
  <2> QED BY <1>5, <1>7, <2>1, Zenon DEF TablesOf
<1> DEFINE names == ReadPairs(Table(text, 1, 1))
           funcs == ReadPairs(Table(text, 1, 2))
           refs(id) == CASE id \in Var -> ReadRefs(Table(text, 1, 4), id)
                         [] id \in Func -> ReadRefs(Table(text, 1, 5), id)
                         [] id \in Native -> ReadRefs(Table(text, 1, 6), id)
<1>10. [i \in DOMAIN names |-> names[i].id] = m.var_defs
  <2>1. m.var_defs \in Seq(Var) BY <1>1, Zenon DEF CanWrite
  <2> QED BY <1>9, <2>1, VarsRead, Zenon
<1>11. {[id |-> funcs[i].id, address |-> funcs[i].number] : i \in DOMAIN funcs}
         = m.func_defs
  <2>1. m.func_defs \in SUBSET [id: Func, address: Nat] /\ IsFiniteSet(m.func_defs)
    BY <1>1, Zenon DEF CanWrite
  <2>2. FuncsIn(FuncAddresses(m.func_defs)) = m.func_defs BY <2>1, FuncsRead, Zenon
  <2> QED BY <1>9, <2>2, Zenon DEF FuncsIn
<1>12. ReadIds(Table(text, 1, 3)) = m.native_defs
  <2>1. m.native_defs \in SUBSET Id BY <1>1, Zenon DEF CanWrite
  <2> QED BY <1>9, <2>1, IdsRead, Zenon
<1>13. ASSUME NEW id \in Id PROVE refs(id) = m.refs[id]
  <2>1. AreRefs(m.refs, Var) /\ AreRefs(m.refs, Func) /\ AreRefs(m.refs, Native)
    BY <1>1, Zenon DEF CanWrite
  <2>2. RefsRead(m.refs, Var) /\ RefsRead(m.refs, Func) /\ RefsRead(m.refs, Native)
    BY <2>1, RefsReadBack, Zenon
  <2>3. /\ id \in Var => ReadRefs(Table(text, 1, 4), id) = m.refs[id]
        /\ id \in Func => ReadRefs(Table(text, 1, 5), id) = m.refs[id]
        /\ id \in Native => ReadRefs(Table(text, 1, 6), id) = m.refs[id]
    BY <1>9, <2>2, Zenon DEF RefsRead
  <2>4. id \in Var \/ id \in Func \/ id \in Native BY DEF Id
  <2> QED BY <2>3, <2>4, Zenon
<1>14. [id \in Id |-> refs(id)] = m.refs
  <2>1. m.refs = [id \in Id |-> m.refs[id]] BY <1>1, Zenon DEF CanWrite
  <2> HIDE DEF refs
  <2> QED BY <1>13, <2>1, Zenon
<1>15. ReadModule(text) =
         [cells |-> ReadCmds(text, 1), main_size |-> Field(text, 2),
          func_defs |-> {[id |-> funcs[i].id, address |-> funcs[i].number] :
                           i \in DOMAIN funcs},
          var_defs |-> [i \in DOMAIN names |-> names[i].id],
          native_defs |-> ReadIds(Table(text, 1, 3)),
          refs |-> [id \in Id |-> refs(id)]]
  BY Zenon DEF ReadModule
<1> HIDE DEF names, funcs, refs
<1>16. m = [cells |-> m.cells, main_size |-> m.main_size,
            func_defs |-> m.func_defs, var_defs |-> m.var_defs,
            native_defs |-> m.native_defs, refs |-> m.refs]
  BY <1>1, Zenon DEF CanWrite
<1> QED BY <1>7, <1>8, <1>10, <1>11, <1>12, <1>14, <1>15, <1>16, Zenon DEF text

LEMMA CutModules ==
  ASSUME NEW m \in Good, NEW n \in 0..Len(WriteModule(m)) - 1
  PROVE  ~IsReadAsModule(SubSeq(WriteModule(m), 1, n))
<1> DEFINE tables == ModuleTables(m)
<1>1. CanWrite(m) BY GoodIsWritten, Zenon
<1>2. WriteModule(m) = Filed(ModulePre, m.cells, m.main_size, tables)
  BY <1>1, ModuleFiled, Zenon DEF ModuleFile
<1>3. IsFiled(ModulePre, m.cells, m.main_size, tables) BY <1>1, ModuleFiled, Zenon
<1>4. HeaderSize(ModulePre, tables) = ModuleHeaderSize BY <1>1, ModuleFiled, Zenon
<1>5. ModulePre[Len(ModulePre)] = Number(HeaderSize(ModulePre, tables))
  BY <1>4, PreFacts, Zenon
<1>6. Len(tables) = 6 BY <1>1, ModuleTablesFacts, Zenon DEF TablesOf
<1> HIDE DEF tables
<1>7. tables # <<>>
  <2>1. Len(<<>>) # 6 OBVIOUS
  <2> QED BY <1>6, <2>1, Zenon
<1>8. Len(ModulePre) - 1 = 1
  <2>1. 2 - 1 = 1 OBVIOUS
  <2> QED BY <2>1, PreFacts, Zenon
<1>9. n \in 0..Len(Filed(ModulePre, m.cells, m.main_size, tables)) - 1
  BY <1>2, Zenon
<1>10. ~IsReadThrough(SubSeq(Filed(ModulePre, m.cells, m.main_size, tables), 1, n),
                      HeaderSize(ModulePre, tables), Len(ModulePre) - 1, Len(tables))
  BY <1>3, <1>5, <1>7, <1>9, CutIsNoticed, Zenon
<1> QED BY <1>2, <1>4, <1>6, <1>8, <1>10, Zenon DEF IsReadAsModule

-----------------------------------------------------------------------------
(* Executable files                                                        *)

Exe == [cells: Seq(Cell), main_size: Nat, vars_size: Nat,
        native_defs: SUBSET Native, native_refs: [Native -> SUBSET Nat]]

GoodExe ==
  {e \in Exe : e.main_size \in 0..Len(e.cells) /\ AreRefs(e.native_refs, Native)}

ExePre(e) == <<Number(kVersion), Number(e.vars_size), Number(ExeHeaderSize)>>

ExeFiledAs(e) ==
  LET tables == ExeTables(e) IN
  /\ IsFiled(ExePre(e), e.cells, e.main_size, tables)
  /\ HeaderSize(ExePre(e), tables) = ExeHeaderSize
  /\ WriteExe(e) = Filed(ExePre(e), e.cells, e.main_size, tables)
  /\ Len(ExePre(e)) = 3 /\ ExePre(e)[2].value = e.vars_size
  /\ ExePre(e)[3] = Number(ExeHeaderSize)
  /\ Len(tables) = 2 /\ tables[1] = WriteIds(e.native_defs)
  /\ tables[2] = WriteIdAddresses(e.native_refs, Native)

LEMMA ExeFacts ==
  ASSUME NEW e \in GoodExe
  PROVE  /\ e.cells \in Seq(Cell) /\ e.main_size \in 0..Len(e.cells)
         /\ e.vars_size \in Nat /\ e.native_defs \in SUBSET Id
         /\ AreRefs(e.native_refs, Native)
         /\ e = [cells |-> e.cells, main_size |-> e.main_size,
                 vars_size |-> e.vars_size, native_defs |-> e.native_defs,
                 native_refs |-> e.native_refs]
         /\ e.native_refs = [id \in Native |-> e.native_refs[id]]
<1>1. e \in Exe /\ e.main_size \in 0..Len(e.cells) /\ AreRefs(e.native_refs, Native)
  BY Zenon DEF GoodExe
<1>2. /\ e.cells \in Seq(Cell) /\ e.vars_size \in Nat /\ e.native_defs \in SUBSET Id
      /\ e.native_refs \in [Native -> SUBSET Nat]
      /\ e = [cells |-> e.cells, main_size |-> e.main_size,
              vars_size |-> e.vars_size, native_defs |-> e.native_defs,
              native_refs |-> e.native_refs]
  BY <1>1 DEF Exe, Id
<1>3. e.native_refs = [id \in Native |-> e.native_refs[id]] BY <1>2, Zenon
<1> QED BY <1>1, <1>2, <1>3, Zenon

LEMMA ExeFiled == \A e \in GoodExe : ExeFiledAs(e)
<1> SUFFICES ASSUME NEW e \in GoodExe PROVE ExeFiledAs(e) OBVIOUS
<1> DEFINE a == Number(kVersion)
           b == Number(e.vars_size)
           c == Number(ExeHeaderSize)
           s == WriteIds(e.native_defs)
           t == WriteIdAddresses(e.native_refs, Native)
           pre == ExePre(e)
           tables == ExeTables(e)
<1>1. /\ e.cells \in Seq(Cell) /\ e.main_size \in 0..Len(e.cells)
      /\ e.vars_size \in Nat /\ e.native_defs \in SUBSET Id
      /\ AreRefs(e.native_refs, Native)
  BY ExeFacts, Zenon
<1>2. s \in Seq(FileCell) BY <1>1, IdsRead, Zenon
<1>3. t \in Seq(FileCell) BY <1>1, RefsReadBack, Zenon DEF RefsRead
<1>4. tables = <<s, t>> BY Zenon DEF ExeTables
<1>5. a \in FileCell /\ b \in FileCell /\ c \in FileCell /\ b.value = e.vars_size
  <2>1. kVersion \in Nat /\ ExeHeaderSize \in Nat BY DEF kVersion, ExeHeaderSize
  <2> QED BY <1>1, <2>1, FileCellFacts, Zenon
<1>6. pre = <<a, b, c>> BY Zenon DEF ExePre
<1> HIDE DEF a, b, c, s, t, pre, tables
<1>7. /\ <<s, t>> \in Seq(Seq(FileCell)) /\ Len(<<s, t>>) = 2
      /\ <<s, t>>[1] = s /\ <<s, t>>[2] = t
  BY <1>2, <1>3
<1>8. /\ <<a, b, c>> \in Seq(FileCell) /\ Len(<<a, b, c>>) = 3
      /\ <<a, b, c>>[2] = b /\ <<a, b, c>>[3] = c
  BY <1>5
<1>9. HeaderSize(pre, tables) = ExeHeaderSize
  <2>1. 3 + (2 + 2 * 2) = 9 OBVIOUS
  <2> QED BY <1>4, <1>6, <1>7, <1>8, <2>1, Zenon DEF HeaderSize, ExeHeaderSize
<1>10. IsFiled(pre, e.cells, e.main_size, tables)
  <2>1. 3 >= 1 OBVIOUS
  <2> QED BY <1>1, <1>4, <1>6, <1>7, <1>8, <2>1, Zenon DEF IsFiled
<1>11. WriteExe(e) = Filed(pre, e.cells, e.main_size, tables)
  BY <1>9, Zenon DEF WriteExe, Filed, Header, CodeSizesFields, ExePre, pre, tables
<1>12. /\ Len(pre) = 3 /\ pre[2].value = e.vars_size /\ pre[3] = c
       /\ Len(tables) = 2 /\ tables[1] = s /\ tables[2] = t
  BY <1>4, <1>5, <1>6, <1>7, <1>8, Zenon
<1> QED BY <1>9, <1>10, <1>11, <1>12, Zenon DEF ExeFiledAs, pre, tables, s, t, c

(* What is read of an executable's file is the executable: the commands,   *)
(* the size of the storage, and where native functions are called          *)
(* (SimpleExeWriter, SimpleExeReader::ReadFromCode).                       *)
THEOREM ExesAreReadBack ==
  ASSUME NEW e \in GoodExe
  PROVE  ReadExe(WriteExe(e)) = e
<1> DEFINE text == WriteExe(e)
           tables == ExeTables(e)
           pre == ExePre(e)
<1>1. /\ IsFiled(pre, e.cells, e.main_size, tables)
      /\ HeaderSize(pre, tables) = ExeHeaderSize
      /\ text = Filed(pre, e.cells, e.main_size, tables)
      /\ Len(pre) = 3 /\ pre[2].value = e.vars_size /\ pre[3] = Number(ExeHeaderSize)
      /\ Len(tables) = 2 /\ tables[1] = WriteIds(e.native_defs)
      /\ tables[2] = WriteIdAddresses(e.native_refs, Native)
  BY ExeFiled, Zenon DEF ExeFiledAs
<1> HIDE DEF text, tables, pre
<1>2. pre[Len(pre)] = Number(HeaderSize(pre, tables)) BY <1>1, Zenon
<1>3. IsReadBack(pre, e.cells, e.main_size, tables) BY <1>1, <1>2, ReadsBack, Zenon
<1>4. 3 - 1 = 2 /\ 2 + 1 = 3 /\ 1 + 1 = 2 /\ 2 \in 1..3 /\ 1 \in 1..2 /\ 2 \in 1..2
  OBVIOUS
<1>5. Len(pre) - 1 = 2 BY <1>1, <1>4, Zenon
<1>6. /\ \A i \in 1..3 : text[i] = pre[i]
      /\ Field(text, 3) = e.main_size
      /\ ReadCmds(text, 2) = e.cells
      /\ \A t \in 1..2 : Table(text, 2, t) = tables[t]
  BY <1>1, <1>3, <1>4, <1>5, Zenon DEF IsReadBack
<1>7. Field(text, 1) = e.vars_size BY <1>1, <1>4, <1>6, Zenon DEF Field, CellAt
<1>8. ReadIds(Table(text, 2, 1)) = e.native_defs
  <2>1. e.native_defs \in SUBSET Id BY ExeFacts, Zenon
  <2>2. Table(text, 2, 1) = WriteIds(e.native_defs) BY <1>1, <1>4, <1>6, Zenon
  <2> QED BY <2>1, <2>2, IdsRead, Zenon
<1>9. [id \in Native |-> ReadRefs(Table(text, 2, 2), id)] = e.native_refs
  <2>1. AreRefs(e.native_refs, Native)
        /\ e.native_refs = [id \in Native |-> e.native_refs[id]]
    BY ExeFacts, Zenon
  <2>2. Table(text, 2, 2) = WriteIdAddresses(e.native_refs, Native)
    BY <1>1, <1>4, <1>6, Zenon
  <2>3. RefsRead(e.native_refs, Native) BY <2>1, RefsReadBack, Zenon
  <2>4. \A id \in Native : ReadRefs(Table(text, 2, 2), id) = e.native_refs[id]
    BY <2>2, <2>3, Zenon DEF RefsRead
  <2> QED BY <2>1, <2>4, Zenon
<1>10. e = [cells |-> e.cells, main_size |-> e.main_size,
            vars_size |-> e.vars_size, native_defs |-> e.native_defs,
            native_refs |-> e.native_refs]
  BY ExeFacts, Zenon
<1> QED BY <1>6, <1>7, <1>8, <1>9, <1>10, Zenon DEF ReadExe, text

LEMMA CutExes ==
  ASSUME NEW e \in GoodExe, NEW n \in 0..Len(WriteExe(e)) - 1
  PROVE  ~IsReadAsExe(SubSeq(WriteExe(e), 1, n))
<1> DEFINE tables == ExeTables(e)
           pre == ExePre(e)
<1>1. /\ IsFiled(pre, e.cells, e.main_size, tables)
      /\ HeaderSize(pre, tables) = ExeHeaderSize
      /\ WriteExe(e) = Filed(pre, e.cells, e.main_size, tables)
      /\ Len(pre) = 3 /\ pre[3] = Number(ExeHeaderSize)
      /\ Len(tables) = 2
  BY ExeFiled, Zenon DEF ExeFiledAs
<1> HIDE DEF tables, pre
<1>2. pre[Len(pre)] = Number(HeaderSize(pre, tables)) BY <1>1, Zenon
<1>3. tables # <<>>
  <2>1. Len(<<>>) # 2 OBVIOUS
  <2> QED BY <1>1, <2>1, Zenon
<1>4. Len(pre) - 1 = 2
  <2>1. 3 - 1 = 2 OBVIOUS
  <2> QED BY <1>1, <2>1, Zenon
<1>5. n \in 0..Len(Filed(pre, e.cells, e.main_size, tables)) - 1 BY <1>1, Zenon
<1>6. ~IsReadThrough(SubSeq(Filed(pre, e.cells, e.main_size, tables), 1, n),
                     HeaderSize(pre, tables), Len(pre) - 1, Len(tables))
  BY <1>1, <1>2, <1>3, <1>5, CutIsNoticed, Zenon
<1> QED BY <1>1, <1>4, <1>6, Zenon DEF IsReadAsExe

LEMMA LinkedExe ==
  ASSUME NEW ms \in Seq(Good), LibLinks(ms)
  PROVE  LinkExe(ms) \in GoodExe
<1> DEFINE m == LinkLib(ms)
           cells == WriteModuleCmds(ms)
           e == LinkExe(ms)
           names == CollectGlobalVarDefs(ms)
           n == Len(cells)
<1>0. SizesFit(ms, Len(ms)) BY Zenon DEF LibLinks
<1>1. m \in Good BY LinkKeepsTables, Zenon
<1>2. /\ m.cells = cells /\ m.main_size = Sum(MainSizes(ms))
      /\ m.func_defs = CollectFuncDefs(ms) /\ m.var_defs = names
      /\ m.native_defs = CollectNativeFuncDefs(ms) /\ m.refs = CollectRefs(ms)
  BY DEF LinkLib
<1>3. /\ cells \in Seq(Cell) /\ n \in Nat
      /\ Sum(MainSizes(ms)) \in Nat /\ Sum(MainSizes(ms)) <= n
      /\ CollectFuncDefs(ms) \subseteq [id: Func, address: Sum(MainSizes(ms))..n - 1]
      /\ names \in Seq(Var) /\ CollectNativeFuncDefs(ms) \subseteq Native
      /\ CollectRefs(ms) \in [Id -> SUBSET (0..n - 1)]
  BY <1>1, <1>2, GoodFacts, Zenon
<1>4. /\ e.cells = FillAddressPlaceholders(ms) /\ e.main_size = Sum(MainSizes(ms))
      /\ e.vars_size = VarIndex(names, Len(names) + 1)
      /\ e.native_defs = CollectNativeFuncDefs(ms)
      /\ e.native_refs = [id \in Native |-> CollectRefs(ms)[id]]
      /\ e = [cells |-> e.cells, main_size |-> e.main_size,
              vars_size |-> e.vars_size, native_defs |-> e.native_defs,
              native_refs |-> e.native_refs]
  BY DEF LinkExe
<1> HIDE DEF m, cells, e, names, n
<1>5. VarIndex(names, Len(names) + 1) \in Nat
  <2>1. /\ Len(names) \in Nat
        /\ \A k \in 1..Len(names) + 1 : VarIndex(names, k) \in Nat
    BY <1>0, IndexFacts, Zenon DEF names
  <2>2. Len(names) + 1 \in 1..Len(names) + 1 BY <2>1
  <2> QED BY <2>1, <2>2, Zenon
<1>7. FillAddressPlaceholders(ms) \in Seq(Cell)
      /\ Len(FillAddressPlaceholders(ms)) = n
  BY <1>0, FilledFacts, Zenon DEF IsFilled, n, cells
<1>8. Sum(MainSizes(ms)) \in 0..n BY <1>3
<1>9. /\ \A id \in Native : id \in Id BY DEF Id
<1>10. \A id \in Native :
         CollectRefs(ms)[id] \in SUBSET Nat /\ IsFiniteSet(CollectRefs(ms)[id])
  <2>1. \A id \in Native : CollectRefs(ms)[id] \in SUBSET (0..n - 1)
    BY <1>3, <1>9, Zenon
  <2> QED BY <1>3, <2>1, FiniteBelow, Zenon
<1>11. \A id \in Native : e.native_refs[id] = CollectRefs(ms)[id] BY <1>4, Zenon
<1>12. e.native_refs \in [Native -> SUBSET Nat] BY <1>4, <1>10, Zenon
<1>13. AreRefs(e.native_refs, Native)
  <2>1. Native \subseteq Id BY DEF Id
  <2> QED BY <1>10, <1>11, <2>1, Zenon DEF AreRefs
<1>14. e.vars_size \in Nat BY <1>4, <1>5, Zenon
<1>15. e \in Exe
  <2>1. /\ e.cells \in Seq(Cell) /\ e.main_size \in Nat
        /\ e.native_defs \in SUBSET Native
    BY <1>3, <1>4, <1>7, Zenon
  <2>2. e = [cells |-> e.cells, main_size |-> e.main_size,
             vars_size |-> e.vars_size, native_defs |-> e.native_defs,
             native_refs |-> e.native_refs]
    BY <1>4, Zenon
  <2> QED BY <1>12, <1>14, <2>1, <2>2 DEF Exe
<1>16. e.main_size \in 0..Len(e.cells) BY <1>4, <1>7, <1>8, Zenon
<1> QED BY <1>13, <1>15, <1>16, Zenon DEF GoodExe, e

-----------------------------------------------------------------------------
(* What is resolved                                                        *)

(* A linked executable's cells, and its references to some ids, are those  *)
(* of the linked code.                                                     *)
ExeIsOf(e, ms) ==
  LET cells == WriteModuleCmds(ms)
      names == CollectGlobalVarDefs(ms)
  IN
  /\ e.cells = FillAddressPlaceholders(ms) /\ e.main_size = Sum(MainSizes(ms))
  /\ e.vars_size = VarIndex(names, Len(names) + 1)
  /\ e.native_defs = CollectNativeFuncDefs(ms)
  /\ \A id \in Native : e.native_refs[id] = RefsIn(cells, id)
  /\ Len(e.cells) = Len(cells) /\ Len(cells) \in Nat
  /\ \A ids : Referring(e.cells, ids) =
                {p \in 1..Len(cells) : cells[p].holds = "ref" /\ cells[p].id \in ids}

LEMMA ExeIsOfFacts ==
  ASSUME NEW ms \in Seq(Good), SizesFit(ms, Len(ms))
  PROVE  ExeIsOf(LinkExe(ms), ms)
<1> DEFINE e == LinkExe(ms)
           cells == WriteModuleCmds(ms)
           names == CollectGlobalVarDefs(ms)
<1>1. /\ e.cells = FillAddressPlaceholders(ms) /\ e.main_size = Sum(MainSizes(ms))
      /\ e.vars_size = VarIndex(names, Len(names) + 1)
      /\ e.native_defs = CollectNativeFuncDefs(ms)
      /\ e.native_refs = [id \in Native |-> CollectRefs(ms)[id]]
  BY DEF LinkExe
<1>2. IsFilled(ms, e.cells) BY <1>1, FilledFacts, Zenon
<1> HIDE DEF e
<1>3. \A id \in Native : e.native_refs[id] = RefsIn(cells, id)
  <2>1. \A id \in Native : e.native_refs[id] = CollectRefs(ms)[id] BY <1>1, Zenon
  <2>2. \A id \in Native : id \in Id BY DEF Id
  <2>3. \A id \in Id : CollectRefs(ms)[id] = RefsIn(cells, id) BY MovedRefs, Zenon
  <2> QED BY <2>1, <2>2, <2>3, Zenon
<1>4. /\ e.cells \in Seq(Cell) /\ Len(e.cells) = Len(cells)
      /\ \A p \in 1..Len(cells) : e.cells[p].holds = cells[p].holds
                                  /\ e.cells[p].id = cells[p].id
  BY <1>2, Zenon DEF IsFilled
<1>5. DOMAIN e.cells = 1..Len(e.cells) BY <1>4
<1>6. Len(cells) \in Nat BY WriteFacts, Zenon
<1>7. ASSUME NEW ids
      PROVE  Referring(e.cells, ids) =
               {p \in 1..Len(cells) : cells[p].holds = "ref" /\ cells[p].id \in ids}
  <2>1. DOMAIN e.cells = 1..Len(cells) BY <1>4, <1>5, Zenon
  <2> HIDE DEF cells
  <2>2. Referring(e.cells, ids) =
          {p \in 1..Len(cells) : e.cells[p].holds = "ref" /\ e.cells[p].id \in ids}
    BY <2>1, Zenon DEF Referring
  <2> QED BY <1>4, <2>2, Zenon
<1> QED BY <1>1, <1>3, <1>4, <1>6, <1>7, Zenon DEF ExeIsOf, e

(* An executable of modules that link is resolved. *)
LEMMA LinkedIsResolved ==
  ASSUME NEW ms \in Seq(Good), ExeLinks(ms)
  PROVE  IsResolved(LinkExe(ms))
<1> DEFINE e == LinkExe(ms)
           cells == WriteModuleCmds(ms)
           names == CollectGlobalVarDefs(ms)
           n == Len(cells)
<1>1. SizesFit(ms, Len(ms)) BY Zenon DEF ExeLinks, LibLinks
<1>2. ExeIsOf(e, ms) BY <1>1, ExeIsOfFacts, Zenon
<1>3. IsFilled(ms, e.cells) BY <1>1, <1>2, FilledFacts, Zenon DEF ExeIsOf
<1>4. /\ e.cells = FillAddressPlaceholders(ms) /\ e.main_size = Sum(MainSizes(ms))
      /\ e.vars_size = VarIndex(names, Len(names) + 1)
      /\ e.native_defs = CollectNativeFuncDefs(ms)
      /\ \A id \in Native : e.native_refs[id] = RefsIn(cells, id)
      /\ Len(e.cells) = n /\ n \in Nat
      /\ \A ids : Referring(e.cells, ids) =
                    {p \in 1..n : cells[p].holds = "ref" /\ cells[p].id \in ids}
  BY <1>2, Zenon DEF ExeIsOf
<1>5. \A p \in 1..n :
        /\ e.cells[p].id = cells[p].id
        /\ IsLinked(ms, cells[p]) => e.cells[p].value = TargetOf(ms, cells[p].id).address
        /\ ~IsLinked(ms, cells[p]) => e.cells[p] = cells[p]
  BY <1>3, Zenon DEF IsFilled
<1>6. ASSUME NEW p \in 1..n, cells[p].holds = "ref", cells[p].id \in Var \cup Func
      PROVE  /\ e.cells[p].value = TargetOf(ms, cells[p].id).address
             /\ TargetOf(ms, cells[p].id) \in Addresses(ms)
             /\ TargetOf(ms, cells[p].id).id = cells[p].id
  <2>1. /\ IsLinked(ms, cells[p]) /\ TargetOf(ms, cells[p].id) \in Addresses(ms)
        /\ TargetOf(ms, cells[p].id).id = cells[p].id
    BY <1>6, HasTarget, Zenon
  <2> QED BY <1>5, <2>1, Zenon
<1>7. cells \in Seq(Cell) BY WriteFacts, Zenon
<1> HIDE DEF e, cells, names, n
<1>8. ASSUME NEW p \in Referring(e.cells, Func)
      PROVE  LET target == e.cells[p].value IN
             /\ target \in e.main_size..Len(e.cells) - 1
             /\ e.cells[target + 1] = Entry(e.cells[p].id)
  <2> DEFINE id == cells[p].id
             def == TargetOf(ms, id)
  <2>1. p \in 1..n /\ cells[p].holds = "ref" /\ id \in Func BY <1>4, Zenon
  <2>2. /\ e.cells[p].value = def.address /\ def \in Addresses(ms) /\ def.id = id
        /\ e.cells[p].id = id
    BY <1>5, <1>6, <2>1, Zenon
  <2> HIDE DEF id, def
  <2>3. /\ def.address \in Sum(MainSizes(ms))..Len(WriteModuleCmds(ms)) - 1
        /\ FillAddressPlaceholders(ms)[def.address + 1] = Entry(id)
    BY <1>1, <2>1, <2>2, FuncTarget, Zenon
  <2> QED BY <1>4, <2>2, <2>3, Zenon DEF n, cells
<1>9. ASSUME NEW p \in Referring(e.cells, Var), NEW q \in Referring(e.cells, Var)
      PROVE  LET x == e.cells[p].id
                 y == e.cells[q].id
                 i == e.cells[p].value
                 j == e.cells[q].value
             IN  /\ i \in Nat /\ i + Size[x] <= e.vars_size
                 /\ IF x = y THEN i = j ELSE i + Size[x] <= j \/ j + Size[y] <= i
  <2> DEFINE x == cells[p].id
             y == cells[q].id
             d == TargetOf(ms, x)
             t == TargetOf(ms, y)
  <2>1. p \in 1..n /\ cells[p].holds = "ref" /\ x \in Var BY <1>4, Zenon
  <2>2. q \in 1..n /\ cells[q].holds = "ref" /\ y \in Var BY <1>4, Zenon
  <2>3. e.cells[p].value = d.address /\ d \in Addresses(ms) /\ d.id = x
        /\ e.cells[p].id = x
    BY <1>5, <1>6, <2>1, Zenon
  <2>4. e.cells[q].value = t.address /\ t \in Addresses(ms) /\ t.id = y
        /\ e.cells[q].id = y
    BY <1>5, <1>6, <2>2, Zenon
  <2>5. x = y => d = t BY Zenon
  <2> HIDE DEF x, y, d, t
  <2>6. /\ d.address \in Nat
        /\ d.address + Size[d.id] <= VarIndex(names, Len(names) + 1)
        /\ d.id # t.id => \/ d.address + Size[d.id] <= t.address
                          \/ t.address + Size[t.id] <= d.address
    BY <1>1, <2>1, <2>2, <2>3, <2>4, VarTargets, Zenon DEF names
  <2> QED BY <1>4, <2>3, <2>4, <2>5, <2>6, Zenon
<1>10. ASSUME NEW id \in Native
       PROVE  /\ {a + 1 : a \in e.native_refs[id]} = Referring(e.cells, {id})
              /\ Referring(e.cells, {id}) # {} => id \in e.native_defs
  <2>1. DOMAIN cells = 1..n BY <1>7 DEF n
  <2>2. RefsIn(cells, id) =
          {p - 1 : p \in {q \in 1..n : cells[q].holds = "ref" /\ cells[q].id = id}}
    BY <2>1, Zenon DEF RefsIn
  <2>3. \A p \in 1..n : (p - 1) + 1 = p BY <1>4
  <2>4. Referring(e.cells, {id}) =
          {p \in 1..n : cells[p].holds = "ref" /\ cells[p].id = id}
    <3>1. Referring(e.cells, {id}) =
            {p \in 1..n : cells[p].holds = "ref" /\ cells[p].id \in {id}}
      BY <1>4, Zenon
    <3>2. \A p \in 1..n : cells[p].id \in {id} <=> cells[p].id = id BY Zenon
    <3> QED BY <3>1, <3>2, Zenon
  <2>5. {a + 1 : a \in e.native_refs[id]} = Referring(e.cells, {id})
    <3> DEFINE found == {p \in 1..n : cells[p].holds = "ref" /\ cells[p].id = id}
    <3>1. e.native_refs[id] = {p - 1 : p \in found} BY <1>4, <2>2, Zenon
    <3>2. found \subseteq 1..n BY Zenon
    <3> HIDE DEF found
    <3>3. ASSUME NEW p \in {a + 1 : a \in {q - 1 : q \in found}} PROVE p \in found
      <4>1. PICK q \in found : p = (q - 1) + 1 BY Zenon
      <4> QED BY <2>3, <3>2, <4>1, Zenon
    <3>4. ASSUME NEW p \in found PROVE p \in {a + 1 : a \in {q - 1 : q \in found}}
      <4>1. p = (p - 1) + 1 BY <2>3, <3>2, Zenon
      <4>2. p - 1 \in {q - 1 : q \in found} BY Zenon
      <4> QED BY <4>1, <4>2, Zenon
    <3>5. {a + 1 : a \in {q - 1 : q \in found}} = found BY <3>3, <3>4, Zenon
    <3> QED BY <2>4, <3>1, <3>5, Zenon DEF found
  <2>6. ASSUME NEW p \in Referring(e.cells, {id}) PROVE id \in e.native_defs
    <3>1. p \in 1..n /\ cells[p].holds = "ref" /\ cells[p].id = id BY <2>4, Zenon
    <3>2. id \in Id /\ id \notin Var /\ id \notin Func BY IdsAssumption DEF Id
    <3>3. PICK j \in 1..Len(ms) : id \in DefinedIn(ms[j])
      BY <3>1, <3>2, RefersToDefined, Zenon DEF cells, n
    <3>4. /\ ms[j].var_defs \in Seq(Var) /\ DOMAIN ms = 1..Len(ms)
          /\ ms[j].func_defs \subseteq
               [id: Func, address: ms[j].main_size..Len(ms[j].cells) - 1]
      BY SizesFacts, GoodFacts, Zenon
    <3>5. id \notin ToSet(ms[j].var_defs)
      <4>1. \A i \in DOMAIN ms[j].var_defs : ms[j].var_defs[i] \in Var BY <3>4
      <4> QED BY <3>2, <4>1, Zenon DEF ToSet
    <3>6. id \notin {def.id : def \in ms[j].func_defs} BY <3>2, <3>4
    <3>7. id \in ms[j].native_defs BY <3>3, <3>5, <3>6, Zenon DEF DefinedIn
    <3> QED BY <1>4, <3>4, <3>7, Zenon DEF CollectNativeFuncDefs
  <2> QED BY <2>5, <2>6, Zenon
<1>11. ASSUME NEW p \in Referring(e.cells, Native) PROVE e.cells[p].value = None
  <2>1. p \in 1..n /\ cells[p].holds = "ref" /\ cells[p].id \in Native BY <1>4, Zenon
  <2>2. ~IsLinked(ms, cells[p])
    <3>1. \A def \in Addresses(ms) : def.id \notin Native
      BY <1>1, AddressesFacts, Zenon DEF AddressesTell
    <3> QED BY <2>1, <3>1, Zenon DEF IsLinked, TargetsOf
  <2>3. e.cells[p] = cells[p] BY <1>5, <2>1, <2>2, Zenon
  <2>4. cells[p].value = None BY <1>1, <2>1, NothingWritten, Zenon DEF cells, n
  <2> QED BY <2>3, <2>4, Zenon
<1>12. \A p \in Referring(e.cells, Func) :
         LET target == e.cells[p].value IN
         /\ target \in e.main_size..Len(e.cells) - 1
         /\ e.cells[target + 1] = Entry(e.cells[p].id)
  BY <1>8, Zenon
<1>13. \A p, q \in Referring(e.cells, Var) :
         LET x == e.cells[p].id
             y == e.cells[q].id
             i == e.cells[p].value
             j == e.cells[q].value
         IN  /\ i \in Nat /\ i + Size[x] <= e.vars_size
             /\ IF x = y THEN i = j ELSE i + Size[x] <= j \/ j + Size[y] <= i
  BY <1>9, Zenon
<1> QED BY <1>10, <1>11, <1>12, <1>13, Zenon DEF IsResolved, e

(* A table as long as a set, in which the set is found, holds each once.   *)
LEMMA NoneTwice ==
  ASSUME NEW U, IsFiniteSet(U), NEW order \in [1..Cardinality(U) -> U],
         ToSet(order) = U
  PROVE  \A i, j \in DOMAIN order : order[i] = order[j] => i = j
<1> DEFINE n == Cardinality(U)
<1>1. n \in Nat BY FS_CardinalityType, Zenon
<1>2. IsFiniteSet(1..n) /\ Cardinality(1..n) = n
  <2>1. 1 \in Int /\ n \in Int BY <1>1
  <2>2. IsFiniteSet(1..n) /\ Cardinality(1..n) = IF 1 > n THEN 0 ELSE n - 1 + 1
    BY <2>1, FS_Interval, Zenon
  <2>3. (IF 1 > n THEN 0 ELSE n - 1 + 1) = n BY <1>1
  <2> QED BY <2>2, <2>3, Zenon
<1>3. DOMAIN order = 1..n /\ order \in [1..n -> U] BY Zenon
<1>4. \A t \in U : \E i \in 1..n : order[i] = t BY <1>3, Zenon DEF ToSet
<1>5. order \in Surjection(1..n, U) BY <1>3, <1>4, Zenon DEF Surjection
<1>6. order \in Injection(1..n, U)
  <2> HIDE DEF n
  <2>1. Cardinality(1..n) = Cardinality(U) BY <1>2, Zenon DEF n
  <2> QED BY <1>2, <1>5, <2>1, FS_SurjSameCardinalityImpliesInj, Zenon
<1>7. \A i, j \in 1..n : order[i] = order[j] => i = j
  BY <1>6, Zenon DEF Injection, IsInjective
<1> QED BY <1>3, <1>7, Zenon

(* Once it is loaded, a resolved executable has its native functions       *)
(* linked.                                                                 *)
LEMMA LoadedHasNatives ==
  ASSUME NEW e \in GoodExe, IsResolved(e),
         NEW order \in [1..Cardinality(UsedNatives(e)) -> UsedNatives(e)],
         ToSet(order) = UsedNatives(e)
  PROVE  HasNativesLinked([cells |-> LinkNatives(e, order), natives |-> order])
<1> DEFINE U == UsedNatives(e)
           cells == LinkNatives(e, order)
           machine == [cells |-> cells, natives |-> order]
           refers(p, i) == p - 1 \in e.native_refs[order[i]]
<1>1. machine.cells = cells /\ machine.natives = order OBVIOUS
<1>2. IsFiniteSet(U) /\ U \subseteq Native
  <2>1. U \subseteq Native BY Zenon DEF UsedNatives
  <2>2. Native \subseteq Id BY DEF Id
  <2>3. U \in SUBSET Id BY <2>1, <2>2, Zenon
  <2> QED BY <2>1, <2>3, FS_Subset, IdsAssumption, Zenon
<1>3. \A i, j \in DOMAIN order : order[i] = order[j] => i = j
  BY <1>2, NoneTwice, Zenon
<1>4. /\ DOMAIN order = 1..Cardinality(U) /\ \A i \in DOMAIN order : order[i] \in U
      /\ \A id \in U : \E i \in DOMAIN order : order[i] = id
  <2>1. ToSet(order) = U BY Zenon
  <2>2. \A id \in U : \E i \in DOMAIN order : order[i] = id BY <2>1, Zenon DEF ToSet
  <2> QED BY <2>2, Zenon
<1>5. /\ e.cells \in Seq(Cell) /\ \A p \in DOMAIN e.cells : e.cells[p] \in Cell /\ p \in Nat
  <2>1. e.cells \in Seq(Cell) BY DEF GoodExe, Exe
  <2> QED BY <2>1
<1>6. /\ DOMAIN cells = DOMAIN e.cells
      /\ \A p \in DOMAIN e.cells :
           cells[p] = IF \E i \in DOMAIN order : refers(p, i)
                      THEN [e.cells[p] EXCEPT
                              !.value = (CHOOSE i \in DOMAIN order : refers(p, i)) - 1]
                      ELSE e.cells[p]
  BY Zenon DEF LinkNatives
<1> HIDE DEF machine, cells, U, refers
<1>7. ASSUME NEW p \in DOMAIN e.cells, NEW i \in DOMAIN order, refers(p, i)
      PROVE  e.cells[p].holds = "ref" /\ e.cells[p].id = order[i]
  <2>1. order[i] \in Native BY <1>2, <1>4, Zenon
  <2>2. {a + 1 : a \in e.native_refs[order[i]]} = Referring(e.cells, {order[i]})
    BY <2>1, Zenon DEF IsResolved
  <2>3. (p - 1) + 1 = p BY <1>5
  <2>4. p \in {a + 1 : a \in e.native_refs[order[i]]}
    BY <1>7, <2>3, Zenon DEF refers
  <2>5. p \in Referring(e.cells, {order[i]}) BY <2>2, <2>4, Zenon
  <2> QED BY <2>5, Zenon DEF Referring
<1>8. \A p \in DOMAIN cells : /\ cells[p].holds = e.cells[p].holds
                              /\ cells[p].id = e.cells[p].id
  BY <1>5, <1>6 DEF Cell
<1>9. ASSUME NEW p \in Referring(cells, Native)
      PROVE  cells[p].value + 1 \in DOMAIN order
             /\ order[cells[p].value + 1] = cells[p].id
  <2> DEFINE id == e.cells[p].id
             k == CHOOSE i \in DOMAIN order : refers(p, i)
  <2>1. p \in DOMAIN e.cells /\ e.cells[p].holds = "ref" /\ id \in Native
        /\ cells[p].id = id
    BY <1>6, <1>8, Zenon DEF Referring
  <2>2. p - 1 \in e.native_refs[id]
    <3>1. p \in Referring(e.cells, {id}) BY <2>1, Zenon DEF Referring
    <3>2. {a + 1 : a \in e.native_refs[id]} = Referring(e.cells, {id})
      BY <2>1, Zenon DEF IsResolved
    <3>3. PICK a \in e.native_refs[id] : p = a + 1 BY <3>1, <3>2, Zenon
    <3>4. a \in Nat
      <4>1. e.native_refs[id] \subseteq Nat BY <2>1 DEF GoodExe, Exe
      <4> QED BY <4>1, Zenon
    <3>5. p - 1 = a BY <3>3, <3>4
    <3> QED BY <3>5, Zenon
  <2>3. id \in U BY <2>1, <2>2, Zenon DEF UsedNatives, U
  <2>4. \E i \in DOMAIN order : refers(p, i) BY <1>4, <2>2, <2>3, Zenon DEF refers
  <2>5. k \in DOMAIN order /\ refers(p, k) BY <2>4, Zenon
  <2>6. order[k] = id BY <1>7, <2>1, <2>5, Zenon
  <2>7. cells[p] = [e.cells[p] EXCEPT !.value = k - 1] BY <1>6, <2>1, <2>4, Zenon
  <2>8. e.cells[p] \in Cell /\ k \in Nat
    <3>1. k \in 1..Cardinality(U) /\ Cardinality(U) \in Nat
      BY <1>2, <1>4, <2>5, FS_CardinalityType, Zenon
    <3> HIDE DEF k
    <3>2. k \in Nat BY <3>1
    <3> QED BY <1>5, <2>1, <3>2, Zenon
  <2> HIDE DEF id, k
  <2>9. cells[p].value + 1 = k BY <2>7, <2>8 DEF Cell
  <2> QED BY <2>1, <2>5, <2>6, <2>9, Zenon
<1>10. HasNativesLinked(machine) BY <1>1, <1>3, <1>9, Zenon DEF HasNativesLinked
<1> QED BY <1>10, Zenon DEF machine, cells

-----------------------------------------------------------------------------
(* What the tools make of the files                                        *)

PartOf(text, whole) == \E n \in 0..Len(whole) : text = SubSeq(whole, 1, n)

IsModuleFile(file) == file = Absent \/ \E m \in Good : PartOf(file, WriteModule(m))

IsExeFile(file) ==
  \/ file = Absent
  \/ \E ms \in Seq(Good) : ExeLinks(ms) /\ PartOf(file, WriteExe(LinkExe(ms)))

(* The inductive invariant: every file holds what is left of a module that *)
(* describes its code, or of an executable that was linked from such ones. *)
ToolInv ==
  /\ DOMAIN files = File /\ \A f \in File : IsModuleFile(files[f])
  /\ IsExeFile(exe) /\ last.outcome # "terminated"

LEMMA WrittenFacts ==
  /\ \A m \in Good : WriteModule(m) \in Seq(FileCell)
  /\ \A e \in GoodExe : WriteExe(e) \in Seq(FileCell)
<1>1. ASSUME NEW m \in Good PROVE WriteModule(m) \in Seq(FileCell)
  <2>1. CanWrite(m) BY GoodIsWritten, Zenon
  <2>2. /\ IsFiled(ModulePre, m.cells, m.main_size, ModuleTables(m))
        /\ WriteModule(m) = Filed(ModulePre, m.cells, m.main_size, ModuleTables(m))
    BY <2>1, ModuleFiled, Zenon DEF ModuleFile
  <2>3. FiledAs(ModulePre, m.cells, m.main_size, ModuleTables(m))
    BY <2>2, FiledFacts, Zenon
  <2> QED BY <2>2, <2>3, Zenon DEF FiledAs
<1>2. ASSUME NEW e \in GoodExe PROVE WriteExe(e) \in Seq(FileCell)
  <2>1. /\ IsFiled(ExePre(e), e.cells, e.main_size, ExeTables(e))
        /\ WriteExe(e) = Filed(ExePre(e), e.cells, e.main_size, ExeTables(e))
    BY ExeFiled, Zenon DEF ExeFiledAs
  <2>2. FiledAs(ExePre(e), e.cells, e.main_size, ExeTables(e))
    BY <2>1, FiledFacts, Zenon
  <2> QED BY <2>1, <2>2, Zenon DEF FiledAs
<1> QED BY <1>1, <1>2, Zenon

(* Parts of parts, and the parts that are cut short. *)
LEMMA PartFacts ==
  ASSUME NEW A, NEW whole \in Seq(A), NEW k \in 0..Len(whole)
  PROVE  LET part == SubSeq(whole, 1, k) IN
         /\ part \in Seq(A) /\ Len(part) = k
         /\ k = Len(whole) => part = whole
         /\ \A n \in 0..k - 1 : SubSeq(part, 1, n) = SubSeq(whole, 1, n)
         /\ k < Len(whole) => k \in 0..Len(whole) - 1
         /\ \A n \in 0..k - 1 : n \in 0..Len(whole) - 1
<1> DEFINE part == SubSeq(whole, 1, k)
<1>0. Len(whole) \in Nat OBVIOUS
<1>1. part \in Seq(A) /\ Len(part) = k /\ \A i \in 1..k : part[i] = whole[i]
  OBVIOUS
<1>2. ASSUME k = Len(whole) PROVE part = whole
  <2>1. Len(part) = Len(whole) /\ \A i \in 1..Len(part) : part[i] = whole[i]
    BY <1>1, <1>2, Zenon
  <2> HIDE DEF part
  <2> QED BY <1>1, <2>1, SeqEqual, Zenon
<1>3. ASSUME NEW n \in 0..k - 1 PROVE SubSeq(part, 1, n) = SubSeq(whole, 1, n)
  <2>1. n \in 0..Len(whole) /\ n \in 0..k /\ \A i \in 1..n : i \in 1..k BY <1>0
  <2>2. /\ SubSeq(whole, 1, n) \in Seq(A) /\ Len(SubSeq(whole, 1, n)) = n
        /\ \A i \in 1..n : SubSeq(whole, 1, n)[i] = whole[i]
    BY <2>1
  <2> HIDE DEF part
  <2>3. /\ SubSeq(part, 1, n) \in Seq(A) /\ Len(SubSeq(part, 1, n)) = n
        /\ \A i \in 1..n : SubSeq(part, 1, n)[i] = part[i]
    BY <1>1, <2>1
  <2>4. \A i \in 1..n : SubSeq(part, 1, n)[i] = SubSeq(whole, 1, n)[i]
    BY <1>1, <2>1, <2>2, <2>3, Zenon
  <2> QED BY <2>2, <2>3, <2>4, SeqEqual, Zenon
<1>4. /\ k < Len(whole) => k \in 0..Len(whole) - 1
      /\ \A n \in 0..k - 1 : n \in 0..Len(whole) - 1
  BY <1>0
<1> QED BY <1>1, <1>2, <1>3, <1>4, Zenon

(* What can be read was written as a whole. *)
LEMMA ReadablePart ==
  ASSUME NEW m \in Good, NEW file, PartOf(file, WriteModule(m)), IsReadAsModule(file)
  PROVE  file = WriteModule(m) /\ ReadModule(file) = m
<1> DEFINE whole == WriteModule(m)
<1>1. PICK k \in 0..Len(whole) : file = SubSeq(whole, 1, k) BY Zenon DEF PartOf
<1>2. whole \in Seq(FileCell) BY WrittenFacts, Zenon
<1> HIDE DEF whole
<1>3. Len(whole) \in Nat BY <1>2
<1>4. CASE k = Len(whole)
  <2>1. file = whole BY <1>1, <1>2, <1>4, PartFacts, Zenon
  <2>2. ReadModule(file) = m BY <2>1, ModulesAreReadBack, Zenon DEF whole
  <2> QED BY <2>1, <2>2, Zenon DEF whole
<1>5. CASE k < Len(whole)
  <2>1. k \in 0..Len(whole) - 1 BY <1>3, <1>5
  <2>2. ~IsReadAsModule(file) BY <1>1, <2>1, CutModules, Zenon DEF whole
  <2> QED BY <2>2, Zenon
<1>6. k = Len(whole) \/ k < Len(whole) BY <1>3
<1> QED BY <1>4, <1>5, <1>6, Zenon

LEMMA ReadableModule ==
  ASSUME NEW file, IsModuleFile(file), CanRead(file)
  PROVE  ReadModule(file) \in Good /\ file = WriteModule(ReadModule(file))
<1>1. file # Absent /\ IsReadAsModule(file) BY Zenon DEF CanRead
<1>2. PICK m \in Good : PartOf(file, WriteModule(m)) BY <1>1, Zenon DEF IsModuleFile
<1>3. file = WriteModule(m) /\ ReadModule(file) = m BY <1>1, <1>2, ReadablePart, Zenon
<1> QED BY <1>3, Zenon

LEMMA CutModuleFile ==
  ASSUME NEW file, IsModuleFile(file), NEW text \in Cuts(file)
  PROVE  ~IsReadAsModule(text)
<1>1. file # Absent BY DEF Cuts
<1>2. PICK m \in Good : PartOf(file, WriteModule(m)) BY <1>1, Zenon DEF IsModuleFile
<1> DEFINE whole == WriteModule(m)
<1>3. PICK k \in 0..Len(whole) : file = SubSeq(whole, 1, k)
  BY <1>2, Zenon DEF PartOf
<1>4. whole \in Seq(FileCell) BY WrittenFacts, Zenon
<1>5. PICK n \in 0..Len(file) - 1 : text = SubSeq(file, 1, n) BY <1>1, Zenon DEF Cuts
<1> HIDE DEF whole
<1>6. Len(file) = k BY <1>3, <1>4, PartFacts, Zenon
<1>7. text = SubSeq(whole, 1, n) /\ n \in 0..Len(whole) - 1
  <2>1. n \in 0..k - 1 BY <1>6, Zenon
  <2> QED BY <1>3, <1>4, <1>5, <2>1, PartFacts, Zenon
<1> QED BY <1>7, CutModules, Zenon DEF whole

LEMMA ReadableExe ==
  ASSUME NEW file, IsExeFile(file), file # Absent, IsReadAsExe(file)
  PROVE  \E ms \in Seq(Good) :
           /\ ExeLinks(ms) /\ file = WriteExe(LinkExe(ms))
           /\ ReadExe(file) = LinkExe(ms)
<1>1. PICK ms \in Seq(Good) : ExeLinks(ms) /\ PartOf(file, WriteExe(LinkExe(ms)))
  BY Zenon DEF IsExeFile
<1> DEFINE whole == WriteExe(LinkExe(ms))
<1>2. LinkExe(ms) \in GoodExe BY <1>1, LinkedExe, Zenon DEF ExeLinks
<1>3. PICK k \in 0..Len(whole) : file = SubSeq(whole, 1, k)
  BY <1>1, Zenon DEF PartOf
<1>4. whole \in Seq(FileCell) BY <1>2, WrittenFacts, Zenon
<1> HIDE DEF whole
<1>5. Len(whole) \in Nat BY <1>4
<1>6. CASE k = Len(whole)
  <2>1. file = whole BY <1>3, <1>4, <1>6, PartFacts, Zenon
  <2>2. ReadExe(file) = LinkExe(ms) BY <1>2, <2>1, ExesAreReadBack, Zenon DEF whole
  <2> QED BY <1>1, <2>1, <2>2, Zenon DEF whole
<1>7. CASE k < Len(whole)
  <2>1. k \in 0..Len(whole) - 1 BY <1>5, <1>7
  <2>2. ~IsReadAsExe(file) BY <1>2, <1>3, <2>1, CutExes, Zenon DEF whole
  <2> QED BY <2>2, Zenon
<1>8. k = Len(whole) \/ k < Len(whole) BY <1>5
<1> QED BY <1>6, <1>7, <1>8, Zenon

LEMMA CutExeFile ==
  ASSUME NEW file, IsExeFile(file), NEW text \in Cuts(file)
  PROVE  ~IsReadAsExe(text)
<1>1. file # Absent BY DEF Cuts
<1>2. PICK ms \in Seq(Good) : ExeLinks(ms) /\ PartOf(file, WriteExe(LinkExe(ms)))
  BY <1>1, Zenon DEF IsExeFile
<1> DEFINE whole == WriteExe(LinkExe(ms))
<1>3. PICK k \in 0..Len(whole) : file = SubSeq(whole, 1, k)
  BY <1>2, Zenon DEF PartOf
<1>4. LinkExe(ms) \in GoodExe BY <1>2, LinkedExe, Zenon DEF ExeLinks
<1>5. whole \in Seq(FileCell) BY <1>4, WrittenFacts, Zenon
<1>6. PICK n \in 0..Len(file) - 1 : text = SubSeq(file, 1, n) BY <1>1, Zenon DEF Cuts
<1> HIDE DEF whole
<1>7. Len(file) = k BY <1>3, <1>5, PartFacts, Zenon
<1>8. text = SubSeq(whole, 1, n) /\ n \in 0..Len(whole) - 1
  <2>1. n \in 0..k - 1 BY <1>7, Zenon
  <2> QED BY <1>3, <1>5, <1>6, <2>1, PartFacts, Zenon
<1> QED BY <1>4, <1>8, CutExes, Zenon DEF whole

LEMMA ModulesRead ==
  ASSUME NEW inputs \in Inputs, \A f \in File : IsModuleFile(files[f])
  PROVE  Modules(inputs) \in Seq(Good)
<1> DEFINE S == {f \in File : CanRead(files[f])}
           ss == [i \in DOMAIN inputs |-> <<ReadModule(files[inputs[i]])>>]
<1>1. PICK n \in 1..MaxInputs : inputs \in [1..n -> S] BY Zenon DEF Inputs
<1>2. n \in Nat BY FilesAssumption
<1>3. ASSUME NEW i \in 1..n PROVE ReadModule(files[inputs[i]]) \in Good
  <2>1. inputs[i] \in File /\ CanRead(files[inputs[i]]) BY <1>1, Zenon
  <2> QED BY <2>1, ReadableModule, Zenon
<1>4. \A m \in Good : <<m>> \in Seq(Good) OBVIOUS
<1>5. ss \in [1..n -> Seq(Good)]
  <2>1. DOMAIN inputs = 1..n BY <1>1, Zenon
  <2>2. \A i \in 1..n : <<ReadModule(files[inputs[i]])>> \in Seq(Good)
    BY <1>3, <1>4, Zenon
  <2> QED BY <2>1, <2>2, Zenon
<1>6. Modules(inputs) = Concat(ss) BY Zenon DEF Modules
<1> HIDE DEF ss
<1>7. ss \in Seq(Seq(Good)) BY <1>2, <1>5, FunctionSeq, Zenon
<1> QED BY <1>6, <1>7, ConcatFacts, Zenon

IsLeft(end, old, output) ==
  /\ end.file = old \/ PartOf(end.file, output)
  /\ end.outcome \in {"overflow", "done", "failed write"}
  /\ end.outcome = "overflow" => end.file = old
  /\ end.outcome = "done" => end.file = output
  /\ end.outcome \in {"done", "failed write"} => PartOf(end.file, output)

LEMMA LeavesFacts ==
  ASSUME NEW A, NEW old, NEW output \in Seq(A), NEW end \in Leaves(old, output)
  PROVE  IsLeft(end, old, output)
<1>1. Len(output) \in Nat OBVIOUS
<1>2. CASE end = [outcome |-> "overflow", file |-> old]
  <2>1. end.file = old /\ end.outcome = "overflow" BY <1>2
  <2> QED BY <2>1, Zenon DEF IsLeft
<1>3. CASE end = [outcome |-> "done", file |-> output]
  <2>1. Len(output) \in 0..Len(output) /\ output = SubSeq(output, 1, Len(output))
    <3>1. Len(output) \in 0..Len(output) BY <1>1
    <3> QED BY <3>1, PartFacts, Zenon
  <2>2. PartOf(output, output) BY <2>1, Zenon DEF PartOf
  <2>3. end.file = output /\ end.outcome = "done" BY <1>3
  <2> QED BY <2>2, <2>3, Zenon DEF IsLeft
<1>4. ASSUME NEW n \in {n \in CutAt : n < Len(output)},
             end = [outcome |-> "failed write", file |-> SubSeq(output, 1, n)]
      PROVE  PartOf(end.file, output) /\ end.outcome = "failed write"
  <2>1. n \in 0..Len(output) BY <1>1, FilesAssumption
  <2>2. PartOf(SubSeq(output, 1, n), output) BY <2>1, Zenon DEF PartOf
  <2>3. end.file = SubSeq(output, 1, n) /\ end.outcome = "failed write" BY <1>4
  <2> QED BY <2>2, <2>3, Zenon
<1>5. \/ end = [outcome |-> "overflow", file |-> old]
      \/ end = [outcome |-> "done", file |-> output]
      \/ \E n \in {n \in CutAt : n < Len(output)} :
           end = [outcome |-> "failed write", file |-> SubSeq(output, 1, n)]
  BY Zenon DEF Leaves
<1> QED BY <1>2, <1>3, <1>4, <1>5, Zenon DEF IsLeft

LEMMA InitHolds == Init => ToolInv
<1> SUFFICES ASSUME Init PROVE ToolInv OBVIOUS
<1>1. files = [f \in File |-> Absent] /\ exe = Absent /\ last.outcome = "done"
  BY DEF Init
<1>2. DOMAIN files = File /\ \A f \in File : files[f] = Absent BY <1>1, Zenon
<1>3. \A f \in File : IsModuleFile(files[f]) BY <1>2, Zenon DEF IsModuleFile
<1>4. IsExeFile(exe) BY <1>1, Zenon DEF IsExeFile
<1>5. last.outcome # "terminated" BY <1>1
<1> QED BY <1>2, <1>3, <1>4, <1>5, Zenon DEF ToolInv

LEMMA EndsFacts ==
  ASSUME NEW tool, NEW from, NEW outcome, Ends(tool, from, outcome),
         outcome # "terminated"
  PROVE  last'.outcome # "terminated"
BY DEF Ends

LEMMA FailsFacts ==
  ASSUME ToolInv, NEW tool, NEW from, NEW outcome, Fails(tool, from, outcome),
         outcome # "terminated"
  PROVE  ToolInv'
<1>1. files' = files /\ exe' = exe BY DEF Fails
<1>2. last'.outcome # "terminated" BY EndsFacts, Zenon DEF Fails
<1> QED BY <1>1, <1>2, Zenon DEF ToolInv, IsModuleFile, IsExeFile

LEMMA WriteFileFacts ==
  ASSUME ToolInv, NEW tool, NEW f \in File, NEW m \in Good, NEW from,
         WriteFile(tool, f, m, from)
  PROVE  ToolInv'
<1>1. PICK end \in Leaves(files[f], WriteModule(m)) :
        files' = [files EXCEPT ![f] = end.file] /\ Ends(tool, from, end.outcome)
  BY Zenon DEF WriteFile
<1>2. exe' = exe BY DEF WriteFile
<1>3. WriteModule(m) \in Seq(FileCell) BY WrittenFacts, Zenon
<1>4. /\ end.file = files[f] \/ PartOf(end.file, WriteModule(m))
      /\ end.outcome \in {"overflow", "done", "failed write"}
  <2>1. IsLeft(end, files[f], WriteModule(m)) BY <1>3, LeavesFacts, Zenon
  <2> QED BY <2>1, Zenon DEF IsLeft
<1>5. DOMAIN files = File /\ \A g \in File : IsModuleFile(files[g])
  BY Zenon DEF ToolInv
<1>6. IsModuleFile(end.file) BY <1>4, <1>5, Zenon DEF IsModuleFile
<1>7. DOMAIN files' = File
      /\ \A g \in File : files'[g] = IF g = f THEN end.file ELSE files[g]
  BY <1>1, <1>5
<1>8. \A g \in File : IsModuleFile(files'[g]) BY <1>5, <1>6, <1>7, Zenon
<1>9. last'.outcome # "terminated"
  <2>1. end.outcome # "terminated" BY <1>4
  <2> QED BY <1>1, <2>1, EndsFacts, Zenon
<1>10. IsExeFile(exe') BY <1>2, Zenon DEF ToolInv
<1> QED BY <1>7, <1>8, <1>9, <1>10, Zenon DEF ToolInv, IsModuleFile, IsExeFile

LEMMA StepHolds == ToolInv /\ [Next \/ Done]_vars => ToolInv'
<1> SUFFICES ASSUME ToolInv, [Next \/ Done]_vars PROVE ToolInv' OBVIOUS
<1>0. \A f \in File : IsModuleFile(files[f]) BY Zenon DEF ToolInv
<1>1. CASE CompilerApp
  <2>1. PICK f \in SourceFile : \E text \in Text :
          LET m == GenerateModule(text) IN
          IF Len(m.cells) < Word THEN WriteFile("compiler", f, m, <<m>>)
          ELSE Fails("compiler", <<>>, "overflow")
    BY <1>1, Zenon DEF CompilerApp
  <2>2. PICK text \in Text :
          LET m == GenerateModule(text) IN
          IF Len(m.cells) < Word THEN WriteFile("compiler", f, m, <<m>>)
          ELSE Fails("compiler", <<>>, "overflow")
    BY <2>1, Zenon
  <2>3. text \in Program BY TextAssumption, Zenon
  <2>4. f \in File BY DEF File
  <2>5. CASE Len(GenerateModule(text).cells) < Word
    <3>1. GenerateModule(text) \in Good BY <2>3, <2>5, CompiledKeepsTables, Zenon
    <3> QED BY <2>2, <2>4, <2>5, <3>1, WriteFileFacts, Zenon
  <2>6. CASE ~(Len(GenerateModule(text).cells) < Word)
    <3>1. Fails("compiler", <<>>, "overflow") BY <2>2, <2>6, Zenon
    <3>2. "overflow" # "terminated" OBVIOUS
    <3> QED BY <3>1, <3>2, FailsFacts, Zenon
  <2> QED BY <2>5, <2>6, Zenon
<1>2. CASE LinkerAppLib
  <2>1. PICK inputs \in Inputs : \E f \in LibFile :
          IF LibLinks(Modules(inputs))
          THEN WriteFile("lib", f, LinkLib(Modules(inputs)), MadeOf(inputs))
          ELSE Fails("lib", MadeOf(inputs), "failed")
    BY <1>2, Zenon DEF LinkerAppLib
  <2>2. PICK f \in LibFile :
          IF LibLinks(Modules(inputs))
          THEN WriteFile("lib", f, LinkLib(Modules(inputs)), MadeOf(inputs))
          ELSE Fails("lib", MadeOf(inputs), "failed")
    BY <2>1, Zenon
  <2>3. Modules(inputs) \in Seq(Good) BY <1>0, ModulesRead, Zenon
  <2>4. f \in File BY DEF File
  <2>5. CASE LibLinks(Modules(inputs))
    <3>1. LinkLib(Modules(inputs)) \in Good BY <2>3, <2>5, LinkKeepsTables, Zenon
    <3> QED BY <2>2, <2>4, <2>5, <3>1, WriteFileFacts, Zenon
  <2>6. CASE ~LibLinks(Modules(inputs))
    <3>1. "failed" # "terminated" OBVIOUS
    <3> QED BY <2>2, <2>6, <3>1, FailsFacts, Zenon
  <2> QED BY <2>5, <2>6, Zenon
<1>3. CASE LinkerAppExe
  <2>1. PICK inputs \in Inputs :
          \/ /\ ExeLinks(Modules(inputs))
             /\ \E end \in Leaves(exe, WriteExe(LinkExe(Modules(inputs)))) :
                  exe' = end.file /\ Ends("exe", MadeOf(inputs), end.outcome)
             /\ UNCHANGED <<files, loaded, made>>
          \/ /\ ~ExeLinks(Modules(inputs)) /\ ~DefsCountOverflows(Modules(inputs))
             /\ Fails("exe", MadeOf(inputs), "failed")
          \/ /\ DefsCountOverflows(Modules(inputs))
             /\ Fails("exe", MadeOf(inputs), "terminated")
    BY <1>3, Zenon DEF LinkerAppExe
  <2> DEFINE ms == Modules(inputs)
             from == MadeOf(inputs)
  <2>2. ms \in Seq(Good) BY <1>0, ModulesRead, Zenon
  <2>3. ~DefsCountOverflows(ms) BY <2>2, NeverTooMany, Zenon
  <2> HIDE DEF ms, from
  <2>4. CASE Fails("exe", from, "failed")
    <3>1. "failed" # "terminated" OBVIOUS
    <3> QED BY <2>4, <3>1, FailsFacts, Zenon
  <2>5. CASE /\ ExeLinks(ms)
             /\ \E end \in Leaves(exe, WriteExe(LinkExe(ms))) :
                  exe' = end.file /\ Ends("exe", from, end.outcome)
             /\ UNCHANGED <<files, loaded, made>>
    <3>1. PICK end \in Leaves(exe, WriteExe(LinkExe(ms))) :
            exe' = end.file /\ Ends("exe", from, end.outcome)
      BY <2>5, Zenon
    <3>2. LinkExe(ms) \in GoodExe BY <2>2, <2>5, LinkedExe, Zenon DEF ExeLinks
    <3>3. WriteExe(LinkExe(ms)) \in Seq(FileCell) BY <3>2, WrittenFacts, Zenon
    <3>4. /\ end.file = exe \/ PartOf(end.file, WriteExe(LinkExe(ms)))
          /\ end.outcome \in {"overflow", "done", "failed write"}
      <4>1. IsLeft(end, exe, WriteExe(LinkExe(ms))) BY <3>3, LeavesFacts, Zenon
      <4> QED BY <4>1, Zenon DEF IsLeft
    <3>5. IsExeFile(exe) BY Zenon DEF ToolInv
    <3>6. IsExeFile(end.file) BY <2>2, <2>5, <3>4, <3>5, Zenon DEF IsExeFile
    <3>7. end.outcome # "terminated" BY <3>4
    <3>8. last'.outcome # "terminated" BY <3>1, <3>7, EndsFacts, Zenon
    <3>9. files' = files BY <2>5
    <3>10. DOMAIN files' = File /\ \A f \in File : IsModuleFile(files'[f])
      BY <3>9, Zenon DEF ToolInv
    <3>11. IsExeFile(exe') BY <3>1, <3>6, Zenon
    <3> QED BY <3>8, <3>10, <3>11, Zenon DEF ToolInv, IsModuleFile, IsExeFile
  <2> QED BY <2>1, <2>3, <2>4, <2>5, Zenon DEF ms, from
<1>4. CASE VMApp
  <2>1. files' = files /\ exe' = exe BY <1>4, Zenon DEF VMApp, Fails
  <2>2. \E from, outcome : outcome # "terminated" /\ Ends("vm", from, outcome)
    <3>1. "done" # "terminated" /\ "failed" # "terminated" OBVIOUS
    <3>2. Ends("vm", <<>>, "done") \/ Ends("vm", <<>>, "failed")
      BY <1>4, Zenon DEF VMApp, Fails
    <3> QED BY <3>1, <3>2, Zenon
  <2>3. last'.outcome # "terminated" BY <2>2, EndsFacts, Zenon
  <2> QED BY <2>1, <2>3, Zenon DEF ToolInv, IsModuleFile, IsExeFile
<1>5. CASE Done \/ UNCHANGED vars
  <2>1. files' = files /\ exe' = exe /\ last' = last BY <1>5 DEF Done, vars
  <2> QED BY <2>1, Zenon DEF ToolInv, IsModuleFile, IsExeFile
<1> QED BY <1>1, <1>2, <1>3, <1>4, <1>5, Zenon DEF Next

LEMMA ToolInvHolds == Spec => []ToolInv
BY InitHolds, StepHolds, PTL DEF Spec

(* However a module came about, by compilation or through any number of    *)
(* links of what other runs left, what a tool reads of its file describes  *)
(* its code, whatever the programs, their sizes and the errors of writing. *)
THEOREM TablesCorrect == Spec => []TablesMatchCode
<1>1. ToolInv => TablesMatchCode
  <2> SUFFICES ASSUME ToolInv, NEW f \in File, CanRead(files[f])
               PROVE  /\ IsModule(ReadModule(files[f]))
                      /\ DescribesCode(ReadModule(files[f]))
    BY DEF TablesMatchCode
  <2>1. ReadModule(files[f]) \in Good BY ReadableModule, Zenon DEF ToolInv
  <2> QED BY <2>1 DEF Good
<1> QED BY <1>1, ToolInvHolds, PTL

(* No tool takes a file that is cut short for a module or an executable,   *)
(* and what is read as one is all that was written.                        *)
THEOREM CutsCorrect == Spec => []CutFilesAreNoticed
<1>1. ToolInv => CutFilesAreNoticed
  <2> SUFFICES ASSUME ToolInv PROVE CutFilesAreNoticed OBVIOUS
  <2>1. IsExeFile(exe) /\ \A f \in File : IsModuleFile(files[f]) BY Zenon DEF ToolInv
  <2>2. \A f \in File : \A text \in Cuts(files[f]) : ~IsReadAsModule(text)
    BY <2>1, CutModuleFile, Zenon
  <2>3. \A text \in Cuts(exe) : ~IsReadAsExe(text) BY <2>1, CutExeFile, Zenon
  <2>4. \A f \in File : CanRead(files[f]) => files[f] = WriteModule(ReadModule(files[f]))
    BY <2>1, ReadableModule, Zenon
  <2>5. ASSUME CanLoad PROVE exe = WriteExe(ReadExe(exe))
    <3>1. exe # Absent /\ IsReadAsExe(exe) BY <2>5, Zenon DEF CanLoad
    <3>2. PICK ms \in Seq(Good) :
            exe = WriteExe(LinkExe(ms)) /\ ReadExe(exe) = LinkExe(ms)
      BY <2>1, <3>1, ReadableExe, Zenon
    <3> QED BY <3>2, Zenon
  <2> QED BY <2>2, <2>3, <2>4, <2>5, Zenon DEF CutFilesAreNoticed
<1> QED BY <1>1, ToolInvHolds, PTL

(* The error that the linker does not catch is never raised: each variable *)
(* has code that creates it and is no smaller.                             *)
THEOREM DefsCorrect == Spec => []DefsNeverOverflow
<1>1. ToolInv => DefsNeverOverflow BY DEF ToolInv, DefsNeverOverflow
<1> QED BY <1>1, ToolInvHolds, PTL

(* What is in the machine has its native functions linked. *)
LoadedInv == loaded # Absent => HasNativesLinked(loaded)

(* An executable that can be read was linked and is resolved. *)
LEMMA ReadIsResolved ==
  ASSUME ToolInv, CanLoad
  PROVE  ReadExe(exe) \in GoodExe /\ IsResolved(ReadExe(exe))
<1>1. exe # Absent /\ IsReadAsExe(exe) BY Zenon DEF CanLoad
<1>2. PICK ms \in Seq(Good) : ExeLinks(ms) /\ ReadExe(exe) = LinkExe(ms)
  BY <1>1, ReadableExe, Zenon DEF ToolInv
<1>3. LinkExe(ms) \in GoodExe BY <1>2, LinkedExe, Zenon DEF ExeLinks
<1>4. IsResolved(LinkExe(ms)) BY <1>2, LinkedIsResolved, Zenon
<1> QED BY <1>2, <1>3, <1>4, Zenon

LEMMA LoadedStep == ToolInv /\ LoadedInv /\ [Next \/ Done]_vars => LoadedInv'
<1> SUFFICES ASSUME ToolInv, LoadedInv, [Next \/ Done]_vars PROVE LoadedInv'
  OBVIOUS
<1>1. CASE loaded' = loaded
  <2>1. (loaded # Absent)' <=> loaded # Absent BY <1>1, Zenon
  <2>2. HasNativesLinked(loaded)' <=> HasNativesLinked(loaded)
    BY <1>1, Zenon DEF HasNativesLinked
  <2> QED BY <2>1, <2>2, Zenon DEF LoadedInv
<1>2. CASE VMApp
  <2> DEFINE read == ReadExe(exe)
  <2>1. CanLoad BY <1>2, Zenon DEF VMApp
  <2>2. read \in GoodExe /\ IsResolved(read) BY <2>1, ReadIsResolved, Zenon
  <2>3. \/ loaded' = loaded
        \/ \E order \in [1..Cardinality(UsedNatives(read)) -> UsedNatives(read)] :
             /\ ToSet(order) = UsedNatives(read)
             /\ loaded' = [cells |-> LinkNatives(read, order), natives |-> order]
    BY <1>2, Zenon DEF VMApp, Fails
  <2> HIDE DEF read
  <2>4. ASSUME NEW order \in [1..Cardinality(UsedNatives(read)) -> UsedNatives(read)],
               ToSet(order) = UsedNatives(read),
               loaded' = [cells |-> LinkNatives(read, order), natives |-> order]
        PROVE  LoadedInv'
    <3>1. HasNativesLinked([cells |-> LinkNatives(read, order), natives |-> order])
      BY <2>2, <2>4, LoadedHasNatives, Zenon
    <3>2. HasNativesLinked(loaded') BY <2>4, <3>1, Zenon
    <3> QED BY <3>2, Zenon DEF LoadedInv
  <2> QED BY <1>1, <2>3, <2>4, Zenon
<1>3. CompilerApp => loaded' = loaded
  BY Zenon DEF CompilerApp, WriteFile, Fails
<1>4. LinkerAppLib => loaded' = loaded
  BY Zenon DEF LinkerAppLib, WriteFile, Fails
<1>5. LinkerAppExe => loaded' = loaded
  BY Zenon DEF LinkerAppExe, Fails
<1>6. Done \/ UNCHANGED vars => loaded' = loaded BY DEF Done, vars
<1> QED BY <1>1, <1>2, <1>3, <1>4, <1>5, <1>6, Zenon DEF Next

(* Every reference leads to what it names: a call of a function to where   *)
(* its code begins, an access to a variable to slots that are no other's,  *)
(* and a call of a native function, once loaded, to its one index in the   *)
(* table (ExeLinker, SimpleNativeFuncLinker), however many modules and     *)
(* libraries were linked and whatever the sizes and the word.              *)
THEOREM ResolvedCorrect == Spec => []ExeIsResolved
<1>1. Init => LoadedInv BY DEF Init, LoadedInv
<1>2. ToolInv /\ LoadedInv => ExeIsResolved
  BY ReadIsResolved, Zenon DEF LoadedInv, ExeIsResolved
<1> QED BY <1>1, <1>2, LoadedStep, ToolInvHolds, PTL DEF Spec

-----------------------------------------------------------------------------
(* How a program was put together                                          *)

(* Elements in a row are the row. *)
LEMMA ConcatSingles ==
  ASSUME NEW A, NEW s \in Seq(A)
  PROVE  Concat([i \in DOMAIN s |-> <<s[i]>>]) = s
<1> DEFINE ones == [i \in DOMAIN s |-> <<s[i]>>]
           P == {n \in Nat : n <= Len(s) =>
                   /\ Len(ConcatTo(ones, n)) = n
                   /\ \A i \in 1..n : ConcatTo(ones, n)[i] = s[i]}
<1>1. Len(s) \in Nat /\ DOMAIN s = 1..Len(s) /\ \A i \in 1..Len(s) : s[i] \in A
  OBVIOUS
<1>2. \A i \in 1..Len(s) : <<s[i]>> \in Seq(A) BY <1>1
<1>3. ones \in [1..Len(s) -> Seq(A)] /\ \A i \in 1..Len(s) : ones[i] = <<s[i]>>
  BY <1>1, <1>2, Zenon
<1> HIDE DEF ones
<1>4. ones \in Seq(Seq(A)) /\ Len(ones) = Len(s) BY <1>1, <1>3, FunctionSeq, Zenon
<1>5. 0 \in P
  <2>1. ConcatTo(ones, 0) = <<>> BY <1>4, ConcatToFacts, Zenon
  <2> QED BY <2>1
<1>6. ASSUME NEW n \in P, n + 1 <= Len(s)
      PROVE  /\ Len(ConcatTo(ones, n + 1)) = n + 1
             /\ \A i \in 1..n + 1 : ConcatTo(ones, n + 1)[i] = s[i]
  <2> DEFINE before == ConcatTo(ones, n)
             x == s[n + 1]
  <2>1. n \in Nat /\ n + 1 \in 1..Len(s) /\ (n + 1) - 1 = n /\ n \in 0..Len(s)
        /\ Len(before) = n /\ \A i \in 1..n : before[i] = s[i]
    BY <1>1, <1>6
  <2>2. ConcatTo(ones, n + 1) = before \o <<x>> /\ before \in Seq(A)
    <3>1. /\ ConcatTo(ones, n + 1) = ConcatTo(ones, (n + 1) - 1) \o ones[n + 1]
          /\ ConcatTo(ones, n) \in Seq(A)
      BY <1>4, <2>1, ConcatToFacts, Zenon
    <3>2. ones[n + 1] = <<x>> BY <1>3, <2>1, Zenon
    <3> HIDE DEF x
    <3> QED BY <2>1, <3>1, <3>2, Zenon
  <2>3. x \in A BY <1>1, <2>1, Zenon
  <2> HIDE DEF before, x
  <2>4. /\ Len(before \o <<x>>) = Len(before) + 1
        /\ (before \o <<x>>)[Len(before) + 1] = x
        /\ \A i \in 1..Len(before) : (before \o <<x>>)[i] = before[i]
    BY <2>2, <2>3
  <2>5. \A i \in 1..n + 1 : i \in 1..n \/ i = n + 1 BY <2>1
  <2> QED BY <2>1, <2>2, <2>4, <2>5, Zenon DEF x
<1>7. \A n \in P : n + 1 \in P BY <1>6
<1>8. P \in SUBSET Nat OBVIOUS
<1>9. P = Nat BY <1>5, <1>7, <1>8, SetInduction, Zenon
<1>10. Len(Concat(ones)) = Len(s) /\ \A i \in 1..Len(s) : Concat(ones)[i] = s[i]
  <2>1. Len(s) \in P /\ Len(s) <= Len(s) BY <1>1, <1>9
  <2> QED BY <1>4, <2>1, Zenon DEF Concat
<1>11. Concat(ones) \in Seq(A) BY <1>4, ConcatFacts, Zenon
<1> QED BY <1>10, <1>11, SeqEqual, Zenon DEF ones

(* Each file is what is left of the library of the compiled modules it was *)
(* made of.                                                                *)
IsMade(file, ms) == LibLinks(ms) /\ PartOf(file, WriteModule(LinkLib(ms)))

MadeInv ==
  /\ DOMAIN made = File /\ \A f \in File : made[f] \in Seq(Good)
  /\ \A f \in File : files[f] # Absent => IsMade(files[f], made[f])

(* A run of the linker ends as it would have with the compiled modules. *)
EndsAsDeserved(run, output) ==
  /\ run.tool = "exe" /\ run.outcome = "done" =>
       output = WriteExe(LinkExe(run.from))
  /\ run.tool = "exe" => (run.outcome = "failed" <=> ~ExeLinks(run.from))
  /\ run.tool = "lib" => (run.outcome = "failed" <=> ~LibLinks(run.from))

LEMMA ReadIsMade ==
  ASSUME NEW ms \in Seq(Good), NEW file, IsMade(file, ms), CanRead(file)
  PROVE  /\ file = WriteModule(LinkLib(ms)) /\ ReadModule(file) = LinkLib(ms)
<1>1. IsReadAsModule(file) /\ LibLinks(ms) /\ PartOf(file, WriteModule(LinkLib(ms)))
  BY Zenon DEF CanRead, IsMade
<1>2. LinkLib(ms) \in Good BY <1>1, LinkKeepsTables, Zenon
<1> QED BY <1>1, <1>2, ReadablePart, Zenon

(* The inputs of the linker are the libraries of what they were made of. *)
LEMMA InputsAreLibs ==
  ASSUME MadeInv, NEW inputs \in Inputs
  PROVE  \E rows \in Seq(Seq(Good)) :
           /\ AreLibs(rows) /\ Modules(inputs) = Libs(rows)
           /\ MadeOf(inputs) = Concat(rows)
<1> DEFINE S == {f \in File : CanRead(files[f])}
           rows == [i \in DOMAIN inputs |-> made[inputs[i]]]
<1>1. PICK n \in 1..MaxInputs : inputs \in [1..n -> S] BY Zenon DEF Inputs
<1>2. n \in Nat BY FilesAssumption
<1>3. DOMAIN inputs = 1..n BY <1>1, Zenon
<1>4. ASSUME NEW i \in 1..n
      PROVE  /\ made[inputs[i]] \in Seq(Good) /\ LibLinks(made[inputs[i]])
             /\ ReadModule(files[inputs[i]]) = LinkLib(made[inputs[i]])
  <2>1. inputs[i] \in File /\ CanRead(files[inputs[i]]) BY <1>1, Zenon
  <2>2. made[inputs[i]] \in Seq(Good) /\ IsMade(files[inputs[i]], made[inputs[i]])
    BY <2>1, Zenon DEF MadeInv, CanRead
  <2>3. ReadModule(files[inputs[i]]) = LinkLib(made[inputs[i]])
    BY <2>1, <2>2, ReadIsMade, Zenon
  <2> QED BY <2>2, <2>3, Zenon DEF IsMade
<1>5. rows \in [1..n -> Seq(Good)] /\ \A i \in 1..n : rows[i] = made[inputs[i]]
  BY <1>3, <1>4, Zenon
<1>6. rows \in Seq(Seq(Good)) /\ Len(rows) = n BY <1>2, <1>5, FunctionSeq, Zenon
<1>7. AreLibs(rows) BY <1>4, <1>5, <1>6, Zenon DEF AreLibs
<1>8. MadeOf(inputs) = Concat(rows) BY Zenon DEF MadeOf
<1>9. Modules(inputs) = Concat([i \in 1..n |-> <<ReadModule(files[inputs[i]])>>])
  BY <1>3, Zenon DEF Modules
<1> HIDE DEF rows
<1>10. Libs(rows) \in Seq(Good) /\ Len(Libs(rows)) = n
  BY <1>6, <1>7, LibsFacts, Zenon
<1>11. DOMAIN Libs(rows) = 1..n BY <1>10, SizesFacts, Zenon
<1>12. \A i \in 1..n : Libs(rows)[i] = ReadModule(files[inputs[i]])
  <2>1. DOMAIN rows = 1..n BY <1>5, Zenon
  <2> QED BY <1>4, <1>5, <2>1, Zenon DEF Libs
<1>13. Concat([i \in 1..n |-> <<Libs(rows)[i]>>]) = Libs(rows)
  BY <1>10, <1>11, ConcatSingles, Zenon
<1>14. [i \in 1..n |-> <<Libs(rows)[i]>>] =
         [i \in 1..n |-> <<ReadModule(files[inputs[i]])>>]
  BY <1>12, Zenon
<1>15. Modules(inputs) = Libs(rows) BY <1>9, <1>13, <1>14, Zenon
<1> QED BY <1>6, <1>7, <1>8, <1>15, Zenon

LEMMA LinksAsMade ==
  ASSUME MadeInv, NEW inputs \in Inputs
  PROVE  LET ms == Modules(inputs)
             from == MadeOf(inputs)
         IN
         /\ ms \in Seq(Good) /\ from \in Seq(Good)
         /\ LibLinks(ms) <=> LibLinks(from)
         /\ LibLinks(from) => LinkLib(ms) = LinkLib(from)
         /\ ExeLinks(ms) <=> ExeLinks(from)
         /\ ExeLinks(from) => LinkExe(ms) = LinkExe(from)
<1>1. PICK rows \in Seq(Seq(Good)) :
        /\ AreLibs(rows) /\ Modules(inputs) = Libs(rows)
        /\ MadeOf(inputs) = Concat(rows)
  BY InputsAreLibs, Zenon
<1>2. Libs(rows) \in Seq(Good) /\ Concat(rows) \in Seq(Good) BY <1>1, LibsFacts, Zenon
<1>3. /\ LibLinks(Libs(rows)) <=> LibLinks(Concat(rows))
      /\ LibLinks(Concat(rows)) => LinkLib(Libs(rows)) = LinkLib(Concat(rows))
      /\ ExeLinks(Libs(rows)) <=> ExeLinks(Concat(rows))
      /\ ExeLinks(Concat(rows)) => LinkExe(Libs(rows)) = LinkExe(Concat(rows))
  BY <1>1, LibrariesStandForModules, Zenon
<1> QED BY <1>1, <1>2, <1>3, Zenon

LEMMA EndsTell ==
  ASSUME NEW tool, NEW from, NEW outcome, Ends(tool, from, outcome)
  PROVE  last'.tool = tool /\ last'.from = from /\ last'.outcome = outcome
BY DEF Ends

LEMMA WriteFileMade ==
  ASSUME ToolInv, MadeInv, NEW tool, NEW f \in File, NEW ms \in Seq(Good),
         LibLinks(ms), WriteFile(tool, f, LinkLib(ms), ms)
  PROVE  /\ MadeInv'
         /\ last'.tool = tool /\ last'.from = ms /\ last'.outcome # "failed"
<1> DEFINE output == WriteModule(LinkLib(ms))
<1>1. PICK end \in Leaves(files[f], output) :
        /\ files' = [files EXCEPT ![f] = end.file]
        /\ made' = IF end.outcome \in {"done", "failed write"}
                   THEN [made EXCEPT ![f] = ms] ELSE made
        /\ Ends(tool, ms, end.outcome)
  BY Zenon DEF WriteFile
<1>2. output \in Seq(FileCell) BY LinkKeepsTables, WrittenFacts, Zenon
<1>3. /\ end.outcome \in {"overflow", "done", "failed write"}
      /\ end.outcome = "overflow" => end.file = files[f]
      /\ end.outcome \in {"done", "failed write"} => PartOf(end.file, output)
  <2>1. IsLeft(end, files[f], output) BY <1>2, LeavesFacts, Zenon
  <2> HIDE DEF output
  <2> QED BY <2>1, Zenon DEF IsLeft
<1>4. DOMAIN files = File /\ DOMAIN made = File BY Zenon DEF ToolInv, MadeInv
<1>5. \A g \in File : files'[g] = IF g = f THEN end.file ELSE files[g]
  BY <1>1, <1>4, Zenon
<1>6. last'.tool = tool /\ last'.from = ms /\ last'.outcome = end.outcome
  BY <1>1, EndsTell, Zenon
<1>7. last'.outcome # "failed" BY <1>3, <1>6
<1>8. CASE end.outcome = "overflow"
  <2>1. made' = made BY <1>1, <1>8
  <2>2. \A g \in File : files'[g] = files[g] BY <1>3, <1>5, <1>8, Zenon
  <2>3. MadeInv' BY <2>1, <2>2, Zenon DEF MadeInv, IsMade
  <2> QED BY <1>6, <1>7, <2>3, Zenon
<1>9. CASE end.outcome \in {"done", "failed write"}
  <2>1. made' = [made EXCEPT ![f] = ms] BY <1>1, <1>9, Zenon
  <2>2. /\ DOMAIN made' = File
        /\ \A g \in File : made'[g] = IF g = f THEN ms ELSE made[g]
    BY <1>4, <2>1, Zenon
  <2>3. IsMade(end.file, ms) BY <1>3, <1>9, Zenon DEF IsMade
  <2>4. \A g \in File : made'[g] \in Seq(Good) BY <2>2, Zenon DEF MadeInv
  <2>5. \A g \in File : files'[g] # Absent => IsMade(files'[g], made'[g])
    BY <1>5, <2>2, <2>3, Zenon DEF MadeInv
  <2>6. MadeInv' BY <2>2, <2>4, <2>5, Zenon DEF MadeInv, IsMade
  <2> QED BY <1>6, <1>7, <2>6, Zenon
<1> QED BY <1>3, <1>8, <1>9, Zenon

TransparentInv == MadeInv /\ EndsAsDeserved(last, exe)

LEMMA FailsMade ==
  ASSUME MadeInv, NEW tool, NEW from, NEW outcome, Fails(tool, from, outcome)
  PROVE  /\ MadeInv' /\ last'.tool = tool /\ last'.from = from
         /\ last'.outcome = outcome
<1>1. files' = files /\ made' = made /\ Ends(tool, from, outcome)
  BY Zenon DEF Fails
<1>2. MadeInv' BY <1>1, Zenon DEF MadeInv, IsMade
<1> QED BY <1>1, <1>2, EndsTell, Zenon

LEMMA TransparentStep ==
  ToolInv /\ TransparentInv /\ [Next \/ Done]_vars => TransparentInv'
<1> SUFFICES ASSUME ToolInv, TransparentInv, [Next \/ Done]_vars
             PROVE  TransparentInv'
  OBVIOUS
<1>0. MadeInv /\ EndsAsDeserved(last, exe) BY Zenon DEF TransparentInv
<1>1. ASSUME MadeInv', EndsAsDeserved(last', exe') PROVE TransparentInv'
  BY <1>1, Zenon DEF TransparentInv, EndsAsDeserved
<1>2. CASE CompilerApp
  <2>1. PICK f \in SourceFile : \E text \in Text :
          LET m == GenerateModule(text) IN
          IF Len(m.cells) < Word THEN WriteFile("compiler", f, m, <<m>>)
          ELSE Fails("compiler", <<>>, "overflow")
    BY <1>2, Zenon DEF CompilerApp
  <2>2. PICK text \in Text :
          LET m == GenerateModule(text) IN
          IF Len(m.cells) < Word THEN WriteFile("compiler", f, m, <<m>>)
          ELSE Fails("compiler", <<>>, "overflow")
    BY <2>1, Zenon
  <2> DEFINE m == GenerateModule(text)
  <2>3. text \in Program BY TextAssumption, Zenon
  <2>4. f \in File BY DEF File
  <2>5. CASE Len(m.cells) < Word
    <3>1. m \in Good BY <2>3, <2>5, CompiledKeepsTables, Zenon
    <3>2. WriteFile("compiler", f, m, <<m>>) BY <2>2, <2>5, Zenon
    <3> HIDE DEF m
    <3>3. <<m>> \in Seq(Good) /\ LibLinks(<<m>>) /\ LinkLib(<<m>>) = m
      BY <3>1, LibOfOne, Zenon
    <3>4. WriteFile("compiler", f, LinkLib(<<m>>), <<m>>) BY <3>2, <3>3, Zenon
    <3>5. MadeInv' /\ last'.tool = "compiler"
      BY <1>0, <2>4, <3>3, <3>4, WriteFileMade, Zenon
    <3>6. EndsAsDeserved(last', exe') BY <3>5 DEF EndsAsDeserved
    <3> QED BY <1>1, <3>5, <3>6, Zenon
  <2>6. CASE ~(Len(m.cells) < Word)
    <3>1. Fails("compiler", <<>>, "overflow") BY <2>2, <2>6, Zenon
    <3>2. MadeInv' /\ last'.tool = "compiler" BY <1>0, <3>1, FailsMade, Zenon
    <3>3. EndsAsDeserved(last', exe') BY <3>2 DEF EndsAsDeserved
    <3> QED BY <1>1, <3>2, <3>3, Zenon
  <2> QED BY <2>5, <2>6, Zenon
<1>3. CASE LinkerAppLib
  <2>1. PICK inputs \in Inputs : \E f \in LibFile :
          IF LibLinks(Modules(inputs))
          THEN WriteFile("lib", f, LinkLib(Modules(inputs)), MadeOf(inputs))
          ELSE Fails("lib", MadeOf(inputs), "failed")
    BY <1>3, Zenon DEF LinkerAppLib
  <2>2. PICK f \in LibFile :
          IF LibLinks(Modules(inputs))
          THEN WriteFile("lib", f, LinkLib(Modules(inputs)), MadeOf(inputs))
          ELSE Fails("lib", MadeOf(inputs), "failed")
    BY <2>1, Zenon
  <2> DEFINE ms == Modules(inputs)
             from == MadeOf(inputs)
  <2>3. /\ ms \in Seq(Good) /\ from \in Seq(Good)
        /\ LibLinks(ms) <=> LibLinks(from)
        /\ LibLinks(from) => LinkLib(ms) = LinkLib(from)
    BY <1>0, LinksAsMade, Zenon
  <2>4. f \in File BY DEF File
  <2>5. CASE LibLinks(ms)
    <3>1. WriteFile("lib", f, LinkLib(ms), from) BY <2>2, <2>5, Zenon
    <3> HIDE DEF ms, from
    <3>2. WriteFile("lib", f, LinkLib(from), from) /\ LibLinks(from)
      BY <2>3, <2>5, <3>1, Zenon
    <3>3. /\ MadeInv' /\ last'.tool = "lib" /\ last'.from = from
          /\ last'.outcome # "failed"
      BY <1>0, <2>3, <2>4, <3>2, WriteFileMade, Zenon
    <3>4. EndsAsDeserved(last', exe') BY <3>2, <3>3 DEF EndsAsDeserved
    <3> QED BY <1>1, <3>3, <3>4, Zenon
  <2>6. CASE ~LibLinks(ms)
    <3>1. Fails("lib", from, "failed") BY <2>2, <2>6, Zenon
    <3> HIDE DEF ms, from
    <3>2. /\ MadeInv' /\ last'.tool = "lib" /\ last'.from = from
          /\ last'.outcome = "failed"
      BY <1>0, <3>1, FailsMade, Zenon
    <3>3. ~LibLinks(from) BY <2>3, <2>6, Zenon
    <3>4. EndsAsDeserved(last', exe') BY <3>2, <3>3 DEF EndsAsDeserved
    <3> QED BY <1>1, <3>2, <3>4, Zenon
  <2> QED BY <2>5, <2>6, Zenon
<1>4. CASE LinkerAppExe
  <2>1. PICK inputs \in Inputs :
          \/ /\ ExeLinks(Modules(inputs))
             /\ \E end \in Leaves(exe, WriteExe(LinkExe(Modules(inputs)))) :
                  exe' = end.file /\ Ends("exe", MadeOf(inputs), end.outcome)
             /\ UNCHANGED <<files, loaded, made>>
          \/ /\ ~ExeLinks(Modules(inputs)) /\ ~DefsCountOverflows(Modules(inputs))
             /\ Fails("exe", MadeOf(inputs), "failed")
          \/ /\ DefsCountOverflows(Modules(inputs))
             /\ Fails("exe", MadeOf(inputs), "terminated")
    BY <1>4, Zenon DEF LinkerAppExe
  <2> DEFINE ms == Modules(inputs)
             from == MadeOf(inputs)
  <2>2. /\ ms \in Seq(Good) /\ from \in Seq(Good)
        /\ ExeLinks(ms) <=> ExeLinks(from)
        /\ ExeLinks(from) => LinkExe(ms) = LinkExe(from)
    BY <1>0, LinksAsMade, Zenon
  <2>3. ~DefsCountOverflows(ms) BY <2>2, NeverTooMany, Zenon
  <2> HIDE DEF ms, from
  <2>4. CASE ~ExeLinks(ms) /\ Fails("exe", from, "failed")
    <3>1. /\ MadeInv' /\ last'.tool = "exe" /\ last'.from = from
          /\ last'.outcome = "failed"
      BY <1>0, <2>4, FailsMade, Zenon
    <3>2. ~ExeLinks(from) BY <2>2, <2>4, Zenon
    <3>3. EndsAsDeserved(last', exe') BY <3>1, <3>2 DEF EndsAsDeserved
    <3> QED BY <1>1, <3>1, <3>3, Zenon
  <2>5. CASE /\ ExeLinks(ms)
             /\ \E end \in Leaves(exe, WriteExe(LinkExe(ms))) :
                  exe' = end.file /\ Ends("exe", from, end.outcome)
             /\ UNCHANGED <<files, loaded, made>>
    <3>1. PICK end \in Leaves(exe, WriteExe(LinkExe(ms))) :
            exe' = end.file /\ Ends("exe", from, end.outcome)
      BY <2>5, Zenon
    <3>2. LinkExe(ms) \in GoodExe BY <2>2, <2>5, LinkedExe, Zenon DEF ExeLinks
    <3>3. WriteExe(LinkExe(ms)) \in Seq(FileCell) BY <3>2, WrittenFacts, Zenon
    <3>4. /\ end.outcome \in {"overflow", "done", "failed write"}
          /\ end.outcome = "done" => end.file = WriteExe(LinkExe(ms))
      <4>1. IsLeft(end, exe, WriteExe(LinkExe(ms))) BY <3>3, LeavesFacts, Zenon
      <4> QED BY <4>1, Zenon DEF IsLeft
    <3>5. ExeLinks(from) /\ LinkExe(ms) = LinkExe(from) BY <2>2, <2>5, Zenon
    <3>6. last'.tool = "exe" /\ last'.from = from /\ last'.outcome = end.outcome
      BY <3>1, EndsTell, Zenon
    <3>7. files' = files /\ made' = made BY <2>5
    <3>8. MadeInv' BY <1>0, <3>7, Zenon DEF MadeInv, IsMade
    <3>9. end.outcome # "failed" BY <3>4
    <3>10. EndsAsDeserved(last', exe')
      <4>1. last'.outcome = "done" => exe' = WriteExe(LinkExe(last'.from))
        BY <3>1, <3>4, <3>5, <3>6, Zenon
      <4>2. last'.outcome # "failed" /\ ExeLinks(last'.from)
        BY <3>5, <3>6, <3>9, Zenon
      <4>3. last'.tool # "lib" BY <3>6
      <4> QED BY <4>1, <4>2, <4>3, Zenon DEF EndsAsDeserved
    <3> QED BY <1>1, <3>8, <3>10, Zenon
  <2> QED BY <2>1, <2>3, <2>4, <2>5, Zenon DEF ms, from
<1>5. CASE VMApp
  <2>1. files' = files /\ made' = made BY <1>5, Zenon DEF VMApp, Fails
  <2>2. MadeInv' BY <1>0, <2>1, Zenon DEF MadeInv, IsMade
  <2>3. last'.tool = "vm"
    <3>1. Ends("vm", <<>>, "done") \/ Ends("vm", <<>>, "failed")
      BY <1>5, Zenon DEF VMApp, Fails
    <3> QED BY <3>1, EndsTell, Zenon
  <2>4. EndsAsDeserved(last', exe') BY <2>3 DEF EndsAsDeserved
  <2> QED BY <1>1, <2>2, <2>4, Zenon
<1>6. CASE Done \/ UNCHANGED vars
  <2>1. files' = files /\ made' = made /\ exe' = exe /\ last' = last
    BY <1>6 DEF Done, vars
  <2>2. MadeInv' BY <1>0, <2>1, Zenon DEF MadeInv, IsMade
  <2>3. EndsAsDeserved(last', exe') BY <1>0, <2>1, Zenon
  <2> QED BY <1>1, <2>2, <2>3, Zenon
<1> QED BY <1>2, <1>3, <1>4, <1>5, <1>6, Zenon DEF Next

(* It does not matter how a program was put together: every library is     *)
(* what linking its compiled modules gives, linking libraries succeeds if  *)
(* and only if linking those would, and the executable is the same, however *)
(* often the linker's outputs were its inputs (LibLinker, ExeLinker).      *)
THEOREM LibrariesCorrect == Spec => []LibrariesAreTransparent
<1>1. Init => TransparentInv
  <2> SUFFICES ASSUME Init PROVE TransparentInv OBVIOUS
  <2>1. /\ files = [f \in File |-> Absent] /\ made = [f \in File |-> <<>>]
        /\ last.tool = "none"
    BY DEF Init
  <2>2. DOMAIN made = File /\ \A f \in File : files[f] = Absent /\ made[f] = <<>>
    BY <2>1, Zenon
  <2>3. <<>> \in Seq(Good) OBVIOUS
  <2>4. MadeInv BY <2>2, <2>3, Zenon DEF MadeInv
  <2>5. EndsAsDeserved(last, exe) BY <2>1 DEF EndsAsDeserved
  <2> QED BY <2>4, <2>5, Zenon DEF TransparentInv
<1>2. TransparentInv => LibrariesAreTransparent
  <2> SUFFICES ASSUME TransparentInv PROVE LibrariesAreTransparent OBVIOUS
  <2>1. MadeInv /\ EndsAsDeserved(last, exe) BY Zenon DEF TransparentInv
  <2>2. ASSUME NEW f \in LibFile, CanRead(files[f])
        PROVE  files[f] = WriteModule(LinkLib(made[f]))
    <3>1. f \in File BY DEF File
    <3>2. made[f] \in Seq(Good) /\ IsMade(files[f], made[f])
      BY <2>1, <2>2, <3>1, Zenon DEF MadeInv, CanRead
    <3> QED BY <2>2, <3>2, ReadIsMade, Zenon
  <2> QED BY <2>1, <2>2, Zenon DEF EndsAsDeserved, LibrariesAreTransparent
<1> QED BY <1>1, <1>2, TransparentStep, ToolInvHolds, PTL DEF Spec
=============================================================================
