------------------------- MODULE SourceFilesProofs -------------------------
(* The files read are those that the main file leads to, each once and     *)
(* depth first, and a refusal has its reason.                              *)
EXTENDS SourceFiles, SequenceTheorems, WellFoundedInduction, TLAPS

-----------------------------------------------------------------------------
(* Induction.  The theorem of the library takes a predicate, this a set.   *)

LEMMA LeastElement ==
  ASSUME NEW S \in SUBSET Nat, S # {}
  PROVE  \E x \in S : \A y \in S : x <= y
<1> DEFINE R == OpToRel(<, Nat)
<1>1. IsWellFoundedOn(R, Nat) BY NatLessThanWellFounded, Zenon
<1>2. PICK x \in S : \A y \in S : <<y, x>> \notin R
  <2> HIDE DEF R
  <2> QED BY <1>1, WFMin, Zenon
<1>3. ASSUME NEW y \in S PROVE x <= y
  <2>1. <<y, x>> \notin R BY <1>2, Zenon
  <2>2. x \in Nat /\ y \in Nat OBVIOUS
  <2>3. ~(y < x) BY <2>1, <2>2, Zenon DEF OpToRel
  <2> QED BY <2>2, <2>3
<1> QED BY <1>3

LEMMA SetInduction ==
  ASSUME NEW P \in SUBSET Nat, 0 \in P, \A n \in P : n + 1 \in P
  PROVE  P = Nat
<1> SUFFICES ASSUME NEW z \in Nat \ P PROVE FALSE OBVIOUS
<1>1. PICK x \in Nat \ P : \A y \in Nat \ P : x <= y BY LeastElement
<1>2. x # 0 /\ x - 1 \in Nat /\ x - 1 \notin Nat \ P BY <1>1
<1>3. x - 1 \in P BY <1>2
<1>4. (x - 1) + 1 \in P BY <1>3
<1> QED BY <1>1, <1>4

-----------------------------------------------------------------------------
(* The imports of a text are a sequence of names.                          *)

LEMMA ExtractIsSeq ==
  ASSUME NEW stmts, stmts \in Seq({stmts[i] : i \in DOMAIN stmts}), NEW N,
         \A i \in DOMAIN stmts : IsImport(stmts[i]) => stmts[i].name \in N
  PROVE  Extract(stmts) \in Seq(N)
<1> DEFINE L == Len(stmts)
           T == Seq(N)
           G(i, x) == IF IsImport(stmts[i]) THEN Append(x, stmts[i].name)
                      ELSE x
           Is(f) == f = [i \in 0..L |-> IF i = 0 THEN <<>>
                          ELSE IF IsImport(stmts[i])
                               THEN Append(f[i - 1], stmts[i].name)
                          ELSE f[i - 1]]
           Upto(f, n) == /\ f \in [0..n -> T] /\ f[0] = <<>>
                         /\ \A i \in 1..n : f[i] = G(i, f[i - 1])
           P == {n \in Nat : n <= L => \E f : Upto(f, n)}
           upTo == CHOOSE f : Is(f)
<1>1. L \in Nat /\ DOMAIN stmts = 1..L OBVIOUS
<1>2. <<>> \in T OBVIOUS
<1>3. ASSUME NEW i \in 1..L, NEW x \in T PROVE G(i, x) \in T
  <2>1. CASE IsImport(stmts[i])
    <3>1. stmts[i].name \in N BY <2>1, <1>1, Zenon
    <3>2. Append(x, stmts[i].name) \in T BY <3>1
    <3> QED BY <2>1, <3>2
  <2>2. CASE ~IsImport(stmts[i]) BY <2>2
  <2> QED BY <2>1, <2>2
<1> HIDE DEF T, G, L
<1>4. 0 \in P
  <2>1. Upto([i \in 0..0 |-> <<>>], 0) BY <1>2
  <2> QED BY <2>1
<1>5. ASSUME NEW n \in P PROVE n + 1 \in P
  <2> SUFFICES ASSUME n + 1 <= L PROVE \E f : Upto(f, n + 1)
    <3> HIDE DEF Upto
    <3> QED OBVIOUS
  <2>1. PICK f : Upto(f, n)
    <3> HIDE DEF Upto
    <3> QED BY <1>1
  <2> DEFINE b == G(n + 1, f[n])
             g == [i \in 0..n + 1 |-> IF i = n + 1 THEN b ELSE f[i]]
  <2>2. b \in T
    <3>1. f[n] \in T /\ n + 1 \in 1..L BY <2>1, <1>1
    <3> QED BY <3>1, <1>3
  <2> HIDE DEF b
  <2>3. g \in [0..n + 1 -> T] BY <2>1, <2>2
  <2>4. \A i \in 0..n : g[i] = f[i] OBVIOUS
  <2>5. g[n + 1] = b OBVIOUS
  <2> HIDE DEF g
  <2>6. g[0] = <<>> BY <2>1, <2>4
  <2>7. ASSUME NEW i \in 1..n + 1 PROVE g[i] = G(i, g[i - 1])
    <3>1. CASE i = n + 1
      <4>1. i - 1 = n /\ n \in 0..n BY <3>1
      <4>2. g[i - 1] = f[n] BY <4>1, <2>4, Zenon
      <4> QED BY <3>1, <4>2, <2>5, Zenon DEF b
    <3>2. CASE i \in 1..n
      <4>1. g[i] = f[i] /\ g[i - 1] = f[i - 1] BY <3>2, <2>4
      <4> QED BY <3>2, <4>1, <2>1, Zenon
    <3> QED BY <3>1, <3>2
  <2> QED BY <2>3, <2>6, <2>7, Zenon
<1>6. P \in SUBSET Nat OBVIOUS
<1> HIDE DEF P
<1>7. P = Nat BY <1>4, <1>5, <1>6, SetInduction, Zenon
<1>8. L \in P BY <1>1, <1>7
<1>9. PICK f : Upto(f, L) BY <1>1, <1>8 DEF P
<1>10. Is(f)
  <2>1. \A i \in 0..L : i = 0 \/ i \in 1..L BY <1>1
  <2>2. \A i \in 0..L : f[i] = IF i = 0 THEN <<>>
                          ELSE IF IsImport(stmts[i])
                               THEN Append(f[i - 1], stmts[i].name)
                          ELSE f[i - 1]
    BY <1>9, <2>1 DEF G
  <2>3. f \in [0..L -> T] BY <1>9
  <2> QED BY <2>2, <2>3
<1>11. Is(upTo) BY <1>10, Zenon
<1>12. Extract(stmts) = upTo[L] BY Zenon DEF Extract, L
<1> HIDE DEF upTo
<1>13. upTo[0] = <<>> /\ \A i \in 1..L : upTo[i] = G(i, upTo[i - 1])
  <2>1. ASSUME NEW i \in 0..L
        PROVE  upTo[i] = IF i = 0 THEN <<>>
                         ELSE IF IsImport(stmts[i])
                              THEN Append(upTo[i - 1], stmts[i].name)
                         ELSE upTo[i - 1]
    BY <1>11, Zenon
  <2>2. upTo[0] = <<>> BY <1>1, <2>1
  <2>3. ASSUME NEW i \in 1..L PROVE upTo[i] = G(i, upTo[i - 1])
    <3>1. i \in 0..L /\ i # 0 BY <1>1
    <3> QED BY <2>1, <3>1, Zenon DEF G
  <2> QED BY <2>2, <2>3
<1> DEFINE Q == {n \in Nat : n <= L => upTo[n] \in T}
<1>14. 0 \in Q BY <1>2, <1>13
<1>15. ASSUME NEW n \in Q, n + 1 <= L PROVE upTo[n + 1] \in T
  <2>1. n + 1 \in 1..L /\ (n + 1) - 1 = n /\ upTo[n] \in T BY <1>1, <1>15
  <2>2. upTo[n + 1] = G(n + 1, upTo[n]) BY <1>13, <2>1
  <2>3. G(n + 1, upTo[n]) \in T BY <1>3, <2>1, Zenon
  <2> QED BY <2>2, <2>3, Zenon
<1>16. \A n \in Q : n + 1 \in Q BY <1>15
<1>17. Q \in SUBSET Nat OBVIOUS
<1>18. Q = Nat BY <1>14, <1>16, <1>17, SetInduction, Zenon
<1>19. upTo[L] \in T BY <1>1, <1>18
<1> QED BY <1>12, <1>19 DEF T

-----------------------------------------------------------------------------
(* What a project leads to.                                                *)

NamesOf(stmts) ==
  {stmts[i].name : i \in {i \in DOMAIN stmts : IsImport(stmts[i])}}
ImportNames(p) == UNION {NamesOf(p.texts[file].stmts) : file \in DOMAIN p.texts}

LEMMA ImportNamesHas ==
  ASSUME NEW p, NEW file \in DOMAIN p.texts,
         NEW i \in DOMAIN p.texts[file].stmts, IsImport(p.texts[file].stmts[i])
  PROVE  p.texts[file].stmts[i].name \in ImportNames(p)
<1> DEFINE stmts == p.texts[file].stmts
<1>1. stmts[i].name \in NamesOf(stmts)
  <2> HIDE DEF stmts
  <2> QED BY Zenon DEF NamesOf, stmts
<1> HIDE DEF stmts
<1>2. NamesOf(stmts) \subseteq ImportNames(p) BY Zenon DEF ImportNames, stmts
<1> QED BY <1>1, <1>2, Zenon DEF stmts

LEMMA FileFacts ==
  ASSUME NEW p, IsProject(p), NEW path \in PathsIn(p)
  PROVE  FileIn(p, path) \in DOMAIN p.texts
BY Zenon DEF IsProject, PathsIn, FileIn

LEMMA NamesInIsSeq ==
  ASSUME NEW p, IsProject(p), NEW path \in PathsIn(p)
  PROVE  NamesIn(p, path) \in Seq(ImportNames(p))
<1> DEFINE file == FileIn(p, path)
           stmts == p.texts[file].stmts
<1>1. file \in DOMAIN p.texts BY FileFacts
<1>2. stmts \in Seq({stmts[i] : i \in DOMAIN stmts}) BY <1>1, Zenon DEF IsProject
<1>3. \A i \in DOMAIN stmts : IsImport(stmts[i]) => stmts[i].name \in ImportNames(p)
  BY <1>1, ImportNamesHas, Zenon
<1>4. TextIn(p, path).stmts = stmts BY Zenon DEF TextIn
<1> HIDE DEF stmts
<1>5. Extract(stmts) \in Seq(ImportNames(p)) BY <1>2, <1>3, ExtractIsSeq
<1>6. <<>> \in Seq(ImportNames(p)) OBVIOUS
<1> QED BY <1>4, <1>5, <1>6, Zenon DEF NamesIn

LEMMA LeadsToPath ==
  ASSUME NEW p, IsProject(p), NEW name \in ImportNames(p), LeadsIn(p, name)
  PROVE  SearchIn(p, name) \in PathsIn(p)
<1>1. PICK file \in DOMAIN p.texts :
             name \in NamesOf(p.texts[file].stmts)
  BY Zenon DEF ImportNames
<1> DEFINE stmts == p.texts[file].stmts
<1> PICK i \in DOMAIN stmts : IsImport(stmts[i]) /\ name = stmts[i].name
  BY <1>1, Zenon DEF NamesOf
<1>2. name = BadPath \/ SearchIn(p, name)
                          \in DOMAIN p.texts \cup {Absent, Unsearchable}
  BY Zenon DEF IsProject
<1> QED BY <1>2, Zenon DEF LeadsIn, PathsIn

LEMMA ImportFacts ==
  ASSUME NEW p, IsProject(p), NEW path \in PathsIn(p)
  PROVE  /\ NamesIn(p, path) \in Seq(ImportNames(p))
         /\ Len(NamesIn(p, path)) \in Nat
         /\ DOMAIN NamesIn(p, path) = 1..Len(NamesIn(p, path))
         /\ \A i \in DOMAIN NamesIn(p, path) :
              LeadsIn(p, NamesIn(p, path)[i]) =>
                SearchIn(p, NamesIn(p, path)[i]) \in PathsIn(p)
<1> DEFINE names == NamesIn(p, path)
<1>1. names \in Seq(ImportNames(p)) BY NamesInIsSeq
<1> HIDE DEF names
<1>2. Len(names) \in Nat /\ DOMAIN names = 1..Len(names) BY <1>1
<1>3. \A i \in DOMAIN names : names[i] \in ImportNames(p) BY <1>1
<1>4. \A i \in DOMAIN names :
         LeadsIn(p, names[i]) => SearchIn(p, names[i]) \in PathsIn(p)
  BY <1>3, LeadsToPath, Zenon
<1> QED BY <1>1, <1>2, <1>4 DEF names

(* The main file is reached, and what a file imports that is reached. *)
LEMMA ReachedFacts ==
  ASSUME NEW p, IsProject(p)
  PROVE  /\ Reached(p) \subseteq PathsIn(p)
         /\ p.mainPath \in Reached(p)
         /\ IsClosed(p, Reached(p))
<1>1. Reached(p) \subseteq PathsIn(p) BY Zenon DEF Reached
<1>2. p.mainPath \in Reached(p) BY Zenon DEF Reached, PathsIn
<1>3. ASSUME NEW path \in Reached(p), NEW i \in DOMAIN NamesIn(p, path),
             LeadsIn(p, NamesIn(p, path)[i])
      PROVE  SearchIn(p, NamesIn(p, path)[i]) \in Reached(p)
  <2> DEFINE found == SearchIn(p, NamesIn(p, path)[i])
  <2>1. path \in PathsIn(p) BY <1>1, Zenon
  <2>2. found \in PathsIn(p) BY <1>3, <2>1, ImportFacts, Zenon
  <2>3. ASSUME NEW paths \in SUBSET PathsIn(p), p.mainPath \in paths,
               IsClosed(p, paths)
        PROVE  found \in paths
    <3>1. path \in paths BY <1>3, <2>3, Zenon DEF Reached
    <3> QED BY <1>3, <2>3, <3>1, Zenon DEF IsClosed
  <2> HIDE DEF found
  <2>4. found \in Reached(p) BY <2>2, <2>3, Zenon DEF Reached
  <2> QED BY <2>4 DEF found
<1>4. IsClosed(p, Reached(p)) BY <1>3, Zenon DEF IsClosed
<1> QED BY <1>1, <1>2, <1>4

LEMMA FullIsReached ==
  ASSUME NEW p, IsProject(p), NEW met \in SUBSET Reached(p),
         p.mainPath \in met, IsFull(p, met)
  PROVE  met = Reached(p) /\ IsReadable(p)
<1>1. IsClosed(p, met) BY Zenon DEF IsFull, IsClosed
<1>2. met \in SUBSET PathsIn(p) BY ReachedFacts, Zenon
<1>3. Reached(p) \subseteq met BY <1>1, <1>2, Zenon DEF Reached
<1>4. met = Reached(p) BY <1>3, Zenon
<1>5. IsReadable(p) BY <1>3, Zenon DEF IsFull, IsReadable
<1> QED BY <1>4, <1>5

-----------------------------------------------------------------------------
(* The stack has every import that is open, the last of the first file at  *)
(* the bottom: its name j is the import pos[j] of file own[j].             *)

Pending(p, files, names, met, own, pos) ==
  /\ own \in [DOMAIN names -> DOMAIN files]
  /\ \A j \in DOMAIN names :
       /\ pos[j] \in DOMAIN NamesIn(p, files[own[j]])
       /\ names[j] = NamesIn(p, files[own[j]])[pos[j]]
  /\ \A i, j \in DOMAIN names :
       i < j => own[i] < own[j] \/ (own[i] = own[j] /\ pos[j] < pos[i])
  /\ \A k \in DOMAIN files : \A n \in OpenImports(p, files[k], met) :
       \E j \in DOMAIN names : own[j] = k /\ pos[j] = n

IsPending(p, files, names, met) ==
  \E own, pos : Pending(p, files, names, met, own, pos)

LEMMA NothingPending ==
  ASSUME NEW p, NEW met
  PROVE  IsPending(p, <<>>, <<>>, met)
<1>1. DOMAIN <<>> = {} OBVIOUS
<1>2. [j \in {} |-> 0] \in [{} -> {}] OBVIOUS
<1>3. Pending(p, <<>>, <<>>, met, [j \in {} |-> 0], [j \in {} |-> 0])
  BY <1>1, <1>2, Zenon DEF Pending
<1> QED BY <1>3, Zenon DEF IsPending

LEMMA OpenIsFewer ==
  ASSUME NEW p, NEW path, NEW met, NEW more, met \subseteq more
  PROVE  OpenImports(p, path, more) \subseteq OpenImports(p, path, met)
BY Zenon DEF OpenImports

(* The import on top is taken off once it was met. *)
LEMMA TopIsTaken ==
  ASSUME NEW p, NEW S, NEW T, NEW files \in Seq(S), NEW names \in Seq(T),
         names # <<>>, NEW met, NEW more, met \subseteq more,
         IsPending(p, files, names, met),
         LeadsIn(p, names[Len(names)]),
         SearchIn(p, names[Len(names)]) \in more
  PROVE  IsPending(p, files, SubSeq(names, 1, Len(names) - 1), more)
<1> DEFINE top == Len(names)
           rest == SubSeq(names, 1, Len(names) - 1)
           I == 1..top - 1
<1>1. PICK own, pos : Pending(p, files, names, met, own, pos)
  BY Zenon DEF IsPending
<1>1b. \A f \in DOMAIN files : \A m \in OpenImports(p, files[f], met) :
          \E j \in DOMAIN names : own[j] = f /\ pos[j] = m
  BY <1>1, Zenon DEF Pending
<1>2. /\ top \in Nat \ {0} /\ DOMAIN names = 1..top
      /\ DOMAIN rest = I /\ \A j \in I : rest[j] = names[j]
  OBVIOUS
<1>3. I \subseteq DOMAIN names /\ \A j \in DOMAIN names : j \in I \/ j = top
  BY <1>2
<1> HIDE DEF I, rest, top
<1> DEFINE own2 == [j \in I |-> own[j]]
<1>4. own2 \in [DOMAIN rest -> DOMAIN files] BY <1>1, <1>2, <1>3, Zenon DEF Pending
<1>5. \A j \in I : own2[j] = own[j] OBVIOUS
<1> HIDE DEF own2
<1>6. ASSUME NEW j \in DOMAIN rest
      PROVE  /\ pos[j] \in DOMAIN NamesIn(p, files[own2[j]])
             /\ rest[j] = NamesIn(p, files[own2[j]])[pos[j]]
  <2>1. j \in I /\ j \in DOMAIN names BY <1>2, <1>3, Zenon
  <2>2. own2[j] = own[j] /\ rest[j] = names[j] BY <1>2, <1>5, <2>1, Zenon
  <2> QED BY <1>1, <2>1, <2>2, Zenon DEF Pending
<1>7. ASSUME NEW i \in DOMAIN rest, NEW j \in DOMAIN rest, i < j
      PROVE  own2[i] < own2[j] \/ (own2[i] = own2[j] /\ pos[j] < pos[i])
  <2>1. i \in I /\ i \in DOMAIN names /\ j \in I /\ j \in DOMAIN names
    BY <1>2, <1>3, Zenon
  <2>2. own2[i] = own[i] /\ own2[j] = own[j] BY <1>5, <2>1, Zenon
  <2> QED BY <1>1, <1>7, <2>1, <2>2, Zenon DEF Pending
<1>8. ASSUME NEW k \in DOMAIN files, NEW n \in OpenImports(p, files[k], more)
      PROVE  \E j \in DOMAIN rest : own2[j] = k /\ pos[j] = n
  <2>1. n \in OpenImports(p, files[k], met) BY OpenIsFewer, Zenon
  <2>2. PICK j \in DOMAIN names : own[j] = k /\ pos[j] = n
    BY <1>1b, <2>1, Zenon
  <2>3. ASSUME j = top PROVE FALSE
    <3>1. names[top] = NamesIn(p, files[k])[n]
      BY <1>1, <2>2, <2>3, Zenon DEF Pending
    <3>2. LeadsIn(p, NamesIn(p, files[k])[n]) BY <3>1, Zenon DEF top
    <3>3. SearchIn(p, NamesIn(p, files[k])[n]) \in more BY <3>1, Zenon DEF top
    <3> QED BY <3>2, <3>3, Zenon DEF OpenImports
  <2>4. j \in I BY <1>3, <2>3, Zenon
  <2> QED BY <1>2, <1>5, <2>2, <2>4, Zenon
<1>9. Pending(p, files, rest, more, own2, pos)
  BY <1>4, <1>6, <1>7, <1>8, Zenon DEF Pending
<1> QED BY <1>9, Zenon DEF IsPending, rest, top

LEMMA PushedFacts ==
  ASSUME NEW T, NEW names \in Seq(T), NEW onto \in Seq(T)
  PROVE  /\ Pushed(names, onto) \in Seq(T)
         /\ Len(Pushed(names, onto)) = Len(onto) + Len(names)
         /\ \A j \in 1..Len(onto) : Pushed(names, onto)[j] = onto[j]
         /\ \A j \in Len(onto) + 1..Len(onto) + Len(names) :
              Pushed(names, onto)[j] = names[Len(onto) + Len(names) + 1 - j]
<1> DEFINE back == [i \in DOMAIN names |-> names[Len(names) + 1 - i]]
<1>1. back \in Seq(T) /\ Len(back) = Len(names)
  <2>1. \A i \in 1..Len(names) : names[Len(names) + 1 - i] \in T OBVIOUS
  <2> QED BY <2>1
<1>2. \A i \in 1..Len(names) : back[i] = names[Len(names) + 1 - i] OBVIOUS
<1> HIDE DEF back
<1>3. Pushed(names, onto) = onto \o back BY DEF Pushed, back
<1>4. /\ onto \o back \in Seq(T) /\ Len(onto \o back) = Len(onto) + Len(back)
      /\ \A j \in 1..Len(onto) : (onto \o back)[j] = onto[j]
      /\ \A j \in Len(onto) + 1..Len(onto) + Len(back) :
           (onto \o back)[j] = back[j - Len(onto)]
  BY <1>1
<1>5. ASSUME NEW j \in Len(onto) + 1..Len(onto) + Len(names)
      PROVE  (onto \o back)[j] = names[Len(onto) + Len(names) + 1 - j]
  <2>1. j - Len(onto) \in 1..Len(names) BY <1>1
  <2>2. back[j - Len(onto)] = names[Len(names) + 1 - (j - Len(onto))]
    BY <1>2, <2>1
  <2>3. Len(names) + 1 - (j - Len(onto)) = Len(onto) + Len(names) + 1 - j
    BY <1>1
  <2> QED BY <1>1, <1>4, <2>2, <2>3
<1> QED BY <1>1, <1>3, <1>4, <1>5

LEMMA PushedUnder ==
  ASSUME NEW T, NEW names \in Seq(T), NEW onto \in Seq(T), NEW j \in 1..Len(onto)
  PROVE  Pushed(names, onto)[j] = onto[j]
BY PushedFacts

LEMMA PushedOnTop ==
  ASSUME NEW T, NEW names \in Seq(T), NEW onto \in Seq(T),
         NEW j \in Len(onto) + 1..Len(onto) + Len(names)
  PROVE  Pushed(names, onto)[j] = names[Len(onto) + Len(names) + 1 - j]
BY PushedFacts

(* A file is read, and its imports are put on top. *)
LEMMA ImportsArePushed ==
  ASSUME NEW p, IsProject(p), NEW files \in Seq(PathsIn(p)), NEW path \in PathsIn(p),
         NEW names \in Seq(ImportNames(p)), NEW met, IsPending(p, files, names, met)
  PROVE  IsPending(p, Append(files, path), Pushed(NamesIn(p, path), names), met)
<1> DEFINE new == NamesIn(p, path)
           all == Pushed(new, names)
           more == Append(files, path)
           h == Len(names)
           d == Len(new)
           k == Len(files)
           own2(own) == [j \in 1..h + d |-> IF j <= h THEN own[j] ELSE k + 1]
           pos2(pos) == [j \in 1..h + d |-> IF j <= h THEN pos[j] ELSE h + d + 1 - j]
<1>1. PICK own, pos : Pending(p, files, names, met, own, pos)
  BY Zenon DEF IsPending
<1>1b. \A f \in DOMAIN files : \A m \in OpenImports(p, files[f], met) :
          \E j \in DOMAIN names : own[j] = f /\ pos[j] = m
  BY <1>1, Zenon DEF Pending
<1>2. h \in Nat /\ d \in Nat /\ k \in Nat /\ new \in Seq(ImportNames(p))
  BY ImportFacts
<1>3. DOMAIN names = 1..h /\ DOMAIN new = 1..d /\ DOMAIN files = 1..k
  BY <1>2
<1>4. /\ all \in Seq(ImportNames(p)) /\ Len(all) = h + d
      /\ \A j \in 1..h : all[j] = names[j]
      /\ \A j \in h + 1..h + d : all[j] = new[h + d + 1 - j]
  <2> HIDE DEF new
  <2>1. all \in Seq(ImportNames(p)) BY <1>2, PushedFacts, Zenon
  <2>2. Len(all) = h + d BY <1>2, PushedFacts, Zenon
  <2>3. ASSUME NEW j \in 1..h PROVE all[j] = names[j]
    BY <1>2, PushedUnder, Zenon
  <2>4. ASSUME NEW j \in h + 1..h + d PROVE all[j] = new[h + d + 1 - j]
    BY <1>2, PushedOnTop, Zenon
  <2> HIDE DEF all, h, d
  <2> QED BY <2>1, <2>2, <2>3, <2>4, Zenon
<1>5. DOMAIN all = 1..h + d
  <2> HIDE DEF all, h, d
  <2> QED BY <1>4
<1>6. DOMAIN more = 1..k + 1 /\ more[k + 1] = path /\ \A i \in 1..k : more[i] = files[i]
  OBVIOUS
<1> HIDE DEF new, all, more, h, d, k
<1> DEFINE o == own2(own)
           q == pos2(pos)
<1>7. \A j \in 1..h : own[j] \in 1..k BY <1>1, <1>3, Zenon DEF Pending
<1>8. o \in [1..h + d -> 1..k + 1]
  <2>1. ASSUME NEW j \in 1..h + d
        PROVE  (IF j <= h THEN own[j] ELSE k + 1) \in 1..k + 1
    <3>1. CASE j \in 1..h
      <4>1. own[j] \in 1..k BY <1>7, <3>1, Zenon
      <4> QED BY <1>2, <3>1, <4>1
    <3>2. CASE ~(j \in 1..h)
      <4>1. ~(j <= h) BY <1>2, <3>2
      <4> QED BY <1>2, <4>1
    <3> QED BY <3>1, <3>2
  <2> QED BY <2>1
<1>9. ASSUME NEW j \in 1..h
      PROVE  o[j] = own[j] /\ q[j] = pos[j] /\ o[j] \in 1..k
  <2>1. j \in 1..h + d /\ j <= h BY <1>2
  <2> QED BY <1>7, <2>1
<1>10. ASSUME NEW j \in h + 1..h + d
       PROVE  o[j] = k + 1 /\ q[j] = h + d + 1 - j /\ q[j] \in 1..d
  <2>1. j \in 1..h + d /\ ~(j <= h) /\ h + d + 1 - j \in 1..d BY <1>2
  <2> QED BY <2>1
<1>11. \A j \in 1..h + d : j \in 1..h \/ j \in h + 1..h + d BY <1>2
<1> HIDE DEF o, q
<1>12. ASSUME NEW j \in DOMAIN all
       PROVE  /\ q[j] \in DOMAIN NamesIn(p, more[o[j]])
              /\ all[j] = NamesIn(p, more[o[j]])[q[j]]
  <2>1. CASE j \in 1..h
    <3>1. q[j] = pos[j] /\ more[o[j]] = files[own[j]] /\ all[j] = names[j]
      BY <1>4, <1>6, <1>9, <2>1, Zenon
    <3>2. /\ pos[j] \in DOMAIN NamesIn(p, files[own[j]])
          /\ names[j] = NamesIn(p, files[own[j]])[pos[j]]
      BY <1>1, <1>3, <2>1, Zenon DEF Pending
    <3> QED BY <3>1, <3>2, Zenon
  <2>2. CASE j \in h + 1..h + d
    <3>1. NamesIn(p, more[o[j]]) = new BY <1>6, <1>10, <2>2, Zenon DEF new
    <3>2. q[j] \in DOMAIN new /\ all[j] = new[q[j]]
      BY <1>3, <1>4, <1>10, <2>2, Zenon
    <3> QED BY <3>1, <3>2, Zenon
  <2> QED BY <1>5, <1>11, <2>1, <2>2, Zenon
<1>13. ASSUME NEW i \in DOMAIN all, NEW j \in DOMAIN all, i < j
       PROVE  o[i] < o[j] \/ (o[i] = o[j] /\ q[j] < q[i])
  <2>1. i \in 1..h + d /\ j \in 1..h + d BY <1>5, Zenon
  <2>2. CASE j \in 1..h
    <3>1. i \in 1..h BY <1>2, <1>13, <2>1, <2>2
    <3>2. own[i] < own[j] \/ (own[i] = own[j] /\ pos[j] < pos[i])
      BY <1>1, <1>3, <1>13, <2>2, <3>1, Zenon DEF Pending
    <3> QED BY <1>9, <2>2, <3>1, <3>2, Zenon
  <2>3. CASE j \in h + 1..h + d /\ i \in 1..h
    <3>1. o[j] = k + 1 /\ o[i] \in 1..k BY <1>9, <1>10, <2>3, Zenon
    <3> QED BY <1>2, <3>1
  <2>4. CASE j \in h + 1..h + d /\ i \in h + 1..h + d
    <3>1. o[j] = o[i] /\ q[j] = h + d + 1 - j /\ q[i] = h + d + 1 - i
      BY <1>10, <2>4, Zenon
    <3>2. q[j] < q[i] BY <1>2, <1>13, <2>1, <3>1
    <3> QED BY <3>1, <3>2, Zenon
  <2> QED BY <1>11, <2>1, <2>2, <2>3, <2>4, Zenon
<1>14. ASSUME NEW l \in DOMAIN more, NEW n \in OpenImports(p, more[l], met)
       PROVE  \E j \in DOMAIN all : o[j] = l /\ q[j] = n
  <2>1. CASE l \in 1..k
    <3> l \in DOMAIN files /\ n \in OpenImports(p, files[l], met)
      BY <1>3, <1>6, <2>1, Zenon
    <3>1. PICK j \in DOMAIN names : own[j] = l /\ pos[j] = n BY <1>1b, Zenon
    <3>2. o[j] = l /\ q[j] = n BY <1>3, <1>9, <3>1, Zenon
    <3>3. j \in DOMAIN all BY <1>2, <1>3, <1>5, <3>1
    <3> QED BY <3>2, <3>3, Zenon
  <2>2. CASE l = k + 1
    <3>1. n \in 1..d BY <1>3, <1>6, <1>14, <2>2, Zenon DEF OpenImports, new
    <3>2. h + d + 1 - n \in h + 1..h + d /\ h + d + 1 - (h + d + 1 - n) = n
      BY <1>2, <3>1
    <3>3. o[h + d + 1 - n] = l /\ q[h + d + 1 - n] = n
      BY <1>10, <2>2, <3>2, Zenon
    <3>4. h + d + 1 - n \in DOMAIN all BY <1>2, <1>5, <3>1
    <3> QED BY <3>3, <3>4, Zenon
  <2>3. l \in 1..k \/ l = k + 1 BY <1>2, <1>6
  <2> QED BY <2>1, <2>2, <2>3, Zenon
<1>15. Pending(p, more, all, met, o, q)
  BY <1>5, <1>6, <1>8, <1>12, <1>13, <1>14, Zenon DEF Pending
<1> QED BY <1>15, Zenon DEF IsPending, more, all, new

(* The import on top is the first one that is open in the last file that   *)
(* has one.                                                                *)
LEMMA TopIsNext ==
  ASSUME NEW p, IsProject(p), NEW files \in Seq(PathsIn(p)),
         NEW names \in Seq(ImportNames(p)), names # <<>>,
         IsPending(p, files, names, Met(files)),
         SearchIn(p, names[Len(names)]) \notin Met(files)
  PROVE  IsNext(p, SearchIn(p, names[Len(names)]), files)
<1> DEFINE top == Len(names)
           met == Met(files)
<1>1. PICK own, pos : Pending(p, files, names, met, own, pos)
  BY Zenon DEF IsPending
<1>1b. \A f \in DOMAIN files : \A m \in OpenImports(p, files[f], met) :
          \E j \in DOMAIN names : own[j] = f /\ pos[j] = m
  BY <1>1, Zenon DEF Pending
<1>2. top \in Nat \ {0} /\ DOMAIN names = 1..top OBVIOUS
<1>3. top \in DOMAIN names /\ \A j \in DOMAIN names : j = top \/ j < top BY <1>2
<1> HIDE DEF top, met
<1> DEFINE k == own[top]
           n == pos[top]
           path == SearchIn(p, names[top])
<1>4. k \in DOMAIN files /\ n \in DOMAIN NamesIn(p, files[k])
      /\ names[top] = NamesIn(p, files[k])[n]
  BY <1>1, <1>3, Zenon DEF Pending
<1>5. path \notin met BY Zenon DEF met, top
<1>6. n \in OpenImports(p, files[k], met) BY <1>4, <1>5, Zenon DEF OpenImports
<1>7. ASSUME NEW f \in DOMAIN files, NEW m \in OpenImports(p, files[f], met)
      PROVE  m \in Nat /\ n \in Nat /\ (f = k => n <= m) /\ ~(k < f)
  <2>1. PICK j \in DOMAIN names : own[j] = f /\ pos[j] = m
    BY <1>1b, Zenon
  <2>2. j < top => own[j] < own[top] \/ (own[j] = own[top] /\ pos[top] < pos[j])
    BY <1>1, <1>3, <2>1, Zenon DEF Pending
  <2>3. j = top \/ j < top BY <1>3, <2>1, Zenon
  <2>4. m \in DOMAIN NamesIn(p, files[f]) BY <1>7, Zenon DEF OpenImports
  <2>5. files[f] \in PathsIn(p) /\ files[k] \in PathsIn(p) BY <1>4
  <2>6. /\ Len(NamesIn(p, files[f])) \in Nat
        /\ DOMAIN NamesIn(p, files[f]) = 1..Len(NamesIn(p, files[f]))
        /\ Len(NamesIn(p, files[k])) \in Nat
        /\ DOMAIN NamesIn(p, files[k]) = 1..Len(NamesIn(p, files[k]))
    BY <2>5, ImportFacts, Zenon
  <2>7. m \in Nat BY <2>4, <2>6
  <2>8. n \in Nat BY <1>4, <2>6
  <2>9. f \in Nat /\ k \in Nat BY <1>4
  <2>10. j = top => f = k /\ n = m BY <2>1, Zenon
  <2>11. j < top => f < k \/ (f = k /\ n < m) BY <2>1, <2>2, Zenon
  <2> HIDE DEF k, n
  <2> QED BY <2>3, <2>7, <2>8, <2>9, <2>10, <2>11
<1>8. \A m \in OpenImports(p, files[k], met) : n <= m BY <1>4, <1>7, Zenon
<1>9. ASSUME NEW f \in DOMAIN files, f > k PROVE OpenImports(p, files[f], met) = {}
  <2>1. k < f BY <1>4, <1>9
  <2> QED BY <1>7, <2>1, Zenon
<1>10. /\ path = SearchIn(p, NamesIn(p, files[k])[n])
       /\ path \notin Met(files)
       /\ \A m \in OpenImports(p, files[k], Met(files)) : n <= m
       /\ \A f \in DOMAIN files : f > k => OpenImports(p, files[f], Met(files)) = {}
  BY <1>4, <1>5, <1>8, <1>9, Zenon DEF met
<1>11. n \in OpenImports(p, files[k], Met(files)) BY <1>6, Zenon DEF met
<1> HIDE DEF k, n, path
<1>12. IsNext(p, path, files) BY <1>4, <1>10, <1>11, Zenon DEF IsNext
<1> QED BY <1>12, Zenon DEF path, top

LEMMA TopComesFrom ==
  ASSUME NEW p, NEW files, NEW S, NEW names \in Seq(S), names # <<>>, NEW met,
         IsPending(p, files, names, met)
  PROVE  \E k \in DOMAIN files : \E n \in DOMAIN NamesIn(p, files[k]) :
           names[Len(names)] = NamesIn(p, files[k])[n]
<1>1. PICK own, pos : Pending(p, files, names, met, own, pos)
  BY Zenon DEF IsPending
<1> DEFINE top == Len(names)
<1>2. top \in DOMAIN names OBVIOUS
<1> HIDE DEF top
<1>3. own[top] \in DOMAIN files BY <1>1, <1>2, Zenon DEF Pending
<1>4. /\ pos[top] \in DOMAIN NamesIn(p, files[own[top]])
      /\ names[top] = NamesIn(p, files[own[top]])[pos[top]]
  BY <1>1, <1>2, Zenon DEF Pending
<1> QED BY <1>3, <1>4, Zenon DEF top

LEMMA NothingOpen ==
  ASSUME NEW p, NEW files, IsPending(p, files, <<>>, Met(files)),
         \A path \in Met(files) : TextIn(p, path).status = "good"
  PROVE  IsFull(p, Met(files))
<1>1. PICK own, pos : Pending(p, files, <<>>, Met(files), own, pos)
  BY Zenon DEF IsPending
<1>2. DOMAIN <<>> = {} OBVIOUS
<1>3. \A k \in DOMAIN files : OpenImports(p, files[k], Met(files)) = {}
  BY <1>1, <1>2, Zenon DEF Pending
<1>4. \A path \in Met(files) : OpenImports(p, path, Met(files)) = {}
  BY <1>3, Zenon DEF Met
<1> QED BY <1>4, Zenon DEF OpenImports, IsFull

LEMMA DepthFirstGoesOn ==
  ASSUME NEW p, NEW S, NEW files \in Seq(S), NEW path \in S, files # <<>>,
         IsDepthFirst(p, files), IsNext(p, path, files)
  PROVE  IsDepthFirst(p, Append(files, path))
<1> DEFINE more == Append(files, path)
<1>1. Len(files) \in Nat \ {0} /\ Len(more) = Len(files) + 1 OBVIOUS
<1>2. ASSUME NEW i \in 1..Len(files)
      PROVE  IsNext(p, more[i + 1], SubSeq(more, 1, i))
  <2>1. CASE i = Len(files)
    <3>1. more[i + 1] = path /\ SubSeq(more, 1, i) = files BY <2>1
    <3> QED BY <3>1, Zenon
  <2>2. CASE i # Len(files)
    <3>1. i \in 1..(Len(files) - 1) BY <1>1, <2>2
    <3>2. more[i + 1] = files[i + 1] BY <1>1, <3>1
    <3>3. SubSeq(more, 1, i) = SubSeq(files, 1, i) BY <1>1, <3>1
    <3> QED BY <3>1, <3>2, <3>3, Zenon DEF IsDepthFirst
  <2> QED BY <2>1, <2>2
<1> HIDE DEF more
<1>3. 1..(Len(more) - 1) = 1..Len(files) BY <1>1
<1> QED BY <1>2, <1>3, Zenon DEF IsDepthFirst, more

LEMMA MetGrows ==
  ASSUME NEW S, NEW files \in Seq(S), NEW path \in S
  PROVE  Met(Append(files, path)) = Met(files) \cup {path}
<1> DEFINE more == Append(files, path)
<1>1. /\ Len(files) \in Nat /\ DOMAIN files = 1..Len(files)
      /\ DOMAIN more = 1..Len(files) + 1
      /\ more[Len(files) + 1] = path /\ \A i \in 1..Len(files) : more[i] = files[i]
  OBVIOUS
<1> HIDE DEF more
<1>2. \A i \in 1..Len(files) + 1 : i \in 1..Len(files) \/ i = Len(files) + 1
  BY <1>1
<1>3. \A i \in 1..Len(files) : i \in 1..Len(files) + 1 BY <1>1
<1>4. Len(files) + 1 \in 1..Len(files) + 1 BY <1>1
<1>5. Met(more) \subseteq Met(files) \cup {path} BY <1>1, <1>2, Zenon DEF Met
<1>6. Met(files) \cup {path} \subseteq Met(more) BY <1>1, <1>3, <1>4, Zenon DEF Met
<1> QED BY <1>5, <1>6, Zenon DEF more

-----------------------------------------------------------------------------
(* What holds while files are read.  Each file read is one that the main   *)
(* file leads to, and an import of it was met or is on the stack.          *)

ReadingInv ==
  /\ IsProject(project)
  /\ programs \in Seq(Reached(project))
  /\ stack \in Seq(ImportNames(project))
  /\ In("reading") => programs = <<>>
  /\ In("importing") =>
       /\ processed = Met(FilesRead)
       /\ \A path \in Met(FilesRead) : TextIn(project, path).status = "good"
       /\ IsPending(project, FilesRead, stack, Met(FilesRead))
  /\ IsDepthFirst(project, FilesRead)
  /\ ReadingIsOver => IsFull(project, Met(FilesRead))
  /\ phase.reason \in Refusals => ~IsReadable(project)

LEMMA FilesGrow ==
  ASSUME NEW S, NEW main \in S, NEW files \in Seq(S), NEW path \in S
  PROVE  <<main>> \o Append(files, path) = Append(<<main>> \o files, path)
OBVIOUS

LEMMA FilesFacts ==
  ASSUME NEW S, NEW main \in S, NEW files \in Seq(S)
  PROVE  /\ <<main>> \o files \in Seq(S)
         /\ <<main>> \o files # <<>>
         /\ main \in Met(<<main>> \o files)
         /\ Met(<<main>> \o files) \subseteq S
<1> DEFINE all == <<main>> \o files
<1>1. all \in Seq(S) /\ Len(all) = Len(files) + 1 /\ all[1] = main
      /\ DOMAIN all = 1..Len(all)
  OBVIOUS
<1>3. 1 \in DOMAIN all /\ all # <<>> BY <1>1
<1>4. \A i \in DOMAIN all : all[i] \in S BY <1>1
<1> HIDE DEF all
<1>5. main \in Met(all) /\ Met(all) \subseteq S BY <1>1, <1>3, <1>4, Zenon DEF Met
<1> QED BY <1>1, <1>3, <1>5, Zenon DEF all

LEMMA AloneFacts ==
  ASSUME NEW main
  PROVE  /\ <<main>> \o <<>> = <<main>> /\ Append(<<>>, main) = <<main>>
         /\ Met(<<main>>) = {main}
         /\ \A p : IsDepthFirst(p, <<main>>)
<1>1. <<main>> \o <<>> = <<main>> /\ Append(<<>>, main) = <<main>> OBVIOUS
<1>2. Met(<<main>>) = {main} BY DEF Met
<1>3. 1..(Len(<<main>>) - 1) = {} OBVIOUS
<1>4. \A p : IsDepthFirst(p, <<main>>) BY <1>3, Zenon DEF IsDepthFirst
<1> QED BY <1>1, <1>2, <1>4, Zenon

LEMMA InitIsReadingInv == ReadingInit => ReadingInv
<1> SUFFICES ASSUME ReadingInit PROVE ReadingInv OBVIOUS
<1>1. IsProject(project) BY ProjectsAssumption, Zenon DEF ReadingInit
<1>2. programs = <<>> /\ stack = <<>> BY Zenon DEF ReadingInit
<1>3. programs \in Seq(Reached(project)) /\ stack \in Seq(ImportNames(project))
  BY <1>2
<1>4. IsDepthFirst(project, FilesRead) BY <1>2, AloneFacts, Zenon DEF FilesRead
<1>5. phase.name = "reading" /\ phase.reason = None BY DEF ReadingInit
<1>6. /\ ~In("importing") /\ ~ReadingIsOver /\ phase.reason \notin Refusals
  BY <1>5 DEF In, ReadingIsOver, Refusals, None
<1> QED BY <1>1, <1>2, <1>3, <1>4, <1>6, Zenon DEF ReadingInv

LEMMA FailedFacts ==
  ASSUME NEW reason, Failed(reason)
  PROVE  phase'.name = "failed"
BY DEF Failed

(* What is left when reading fails: the same files, and a reason. *)
LEMMA FailingKeepsInv ==
  ASSUME ReadingInv, UNCHANGED <<project, programs>>,
         stack' \in Seq(ImportNames(project)), ~IsReadable(project),
         phase'.name = "failed"
  PROVE  ReadingInv'
<1>1. FilesRead' = FilesRead BY DEF FilesRead
<1>2. ~In("reading")' /\ ~In("importing")' /\ ~ReadingIsOver'
  BY DEF In, ReadingIsOver
<1>3. ReadingInv!1 /\ ReadingInv!2 /\ ReadingInv!6 BY Zenon DEF ReadingInv
<1> HIDE DEF FilesRead
<1> QED BY <1>1, <1>2, <1>3, Zenon DEF ReadingInv

LEMMA FilesReadFacts ==
  ASSUME ReadingInv
  PROVE  /\ FilesRead \in Seq(Reached(project))
         /\ FilesRead \in Seq(PathsIn(project))
         /\ FilesRead # <<>>
         /\ project.mainPath \in Met(FilesRead)
         /\ Met(FilesRead) \subseteq Reached(project)
         /\ Reached(project) \subseteq PathsIn(project)
         /\ \A path \in Reached(project) :
              <<project.mainPath>> \o Append(programs, path)
                = Append(FilesRead, path)
<1>1. IsProject(project) /\ programs \in Seq(Reached(project))
  BY Zenon DEF ReadingInv
<1>2. Reached(project) \subseteq PathsIn(project)
      /\ project.mainPath \in Reached(project)
  BY <1>1, ReachedFacts, Zenon
<1>3. /\ FilesRead \in Seq(Reached(project)) /\ FilesRead # <<>>
      /\ project.mainPath \in Met(FilesRead)
      /\ Met(FilesRead) \subseteq Reached(project)
  <2> DEFINE main == project.mainPath
  <2>1. main \in Reached(project) BY <1>2, Zenon
  <2> HIDE DEF main
  <2>2. FilesRead = <<main>> \o programs BY Zenon DEF FilesRead, main
  <2> QED BY <1>1, <2>1, <2>2, FilesFacts, Zenon DEF main
<1>6. ASSUME NEW path \in Reached(project)
      PROVE  <<project.mainPath>> \o Append(programs, path)
               = Append(FilesRead, path)
  <2> DEFINE main == project.mainPath
  <2>1. main \in Reached(project) BY <1>2, Zenon
  <2> HIDE DEF main
  <2>2. <<main>> \o Append(programs, path) = Append(<<main>> \o programs, path)
    BY <1>1, <2>1, FilesGrow
  <2> QED BY <2>2, Zenon DEF FilesRead, main
<1>4. \A S, T : S \subseteq T => Seq(S) \subseteq Seq(T) OBVIOUS
<1>5. FilesRead \in Seq(PathsIn(project)) BY <1>2, <1>3, <1>4, Zenon
<1> QED BY <1>2, <1>3, <1>5, <1>6, Zenon

LEMMA MainFileKeepsInv == ReadingInv /\ ParseMainFile => ReadingInv'
<1> SUFFICES ASSUME ReadingInv, ParseMainFile PROVE ReadingInv' OBVIOUS
<1> DEFINE main == project.mainPath
           text == TextIn(project, main)
<1>1. /\ IsProject(project) /\ programs = <<>> /\ UNCHANGED <<project, programs>>
      /\ ParseFile(main, <<>>) /\ processed' = {main}
  BY Zenon DEF ReadingInv, ParseMainFile
<1>2. main \in Reached(project) /\ main \in PathsIn(project)
  BY <1>1, ReachedFacts, Zenon
<1>3. CASE text.status # "good"
  <2>1. phase'.name = "failed" /\ stack' = <<>>
    BY <1>1, <1>3, FailedFacts, Zenon DEF ParseFile, TextAt
  <2>2. ~IsReadable(project) BY <1>2, <1>3, Zenon DEF IsReadable
  <2>3. stack' \in Seq(ImportNames(project)) BY <2>1
  <2> QED BY <1>1, <2>1, <2>2, <2>3, FailingKeepsInv, Zenon
<1>4. CASE text.status = "good"
  <2> DEFINE new == NamesIn(project, main)
  <2>1. stack' = Pushed(Extract(text.stmts), <<>>) /\ Enters("importing")
    BY <1>1, <1>4, Zenon DEF ParseFile, TextAt
  <2>2. stack' = Pushed(new, <<>>) BY <1>4, <2>1, Zenon DEF NamesIn
  <2>3. new \in Seq(ImportNames(project)) BY <1>1, <1>2, ImportFacts, Zenon
  <2>4. <<>> \in Seq(ImportNames(project)) /\ <<>> \in Seq(PathsIn(project)) OBVIOUS
  <2>5. stack' \in Seq(ImportNames(project))
    BY <2>2, <2>3, <2>4, PushedFacts, Zenon
  <2>6. phase'.name = "importing" /\ phase'.reason = None BY <2>1 DEF Enters
  <2>7. /\ ~In("reading")' /\ ~ReadingIsOver' /\ phase'.reason \notin Refusals
    BY <2>6 DEF In, ReadingIsOver, Refusals, None
  <2>8. FilesRead = <<main>> /\ FilesRead' = FilesRead
    BY <1>1, AloneFacts, Zenon DEF FilesRead
  <2>9. Met(<<main>>) = {main} /\ IsDepthFirst(project, <<main>>)
        /\ Append(<<>>, main) = <<main>>
    BY AloneFacts, Zenon
  <2>10. IsPending(project, <<main>>, Pushed(new, <<>>), {main})
    <3>1. IsPending(project, <<>>, <<>>, {main}) BY NothingPending, Zenon
    <3> QED BY <1>1, <1>2, <2>4, <2>9, <3>1, ImportsArePushed, Zenon
  <2> HIDE DEF main, text, new, FilesRead
  <2> QED BY <1>1, <1>4, <2>2, <2>5, <2>7, <2>8, <2>9, <2>10, Zenon
          DEF ReadingInv, text
<1> QED BY <1>3, <1>4

(* The import on top: where it comes from, and what is below it. *)
LEMMA TopFacts ==
  ASSUME ReadingInv, In("importing"), stack # <<>>
  PROVE  /\ NextImport \in ImportNames(project)
         /\ OtherImports \in Seq(ImportNames(project))
         /\ LeadsIn(project, NextImport) =>
              SearchIn(project, NextImport) \in Reached(project)
         /\ ~LeadsIn(project, NextImport) => ~IsReadable(project)
<1>1. /\ IsProject(project) /\ stack \in Seq(ImportNames(project))
      /\ IsPending(project, FilesRead, stack, Met(FilesRead))
  BY Zenon DEF ReadingInv
<1>2. NextImport \in ImportNames(project)
      /\ OtherImports \in Seq(ImportNames(project))
  BY <1>1 DEF NextImport, OtherImports
<1>3. PICK k \in DOMAIN FilesRead :
             \E n \in DOMAIN NamesIn(project, FilesRead[k]) :
               NextImport = NamesIn(project, FilesRead[k])[n]
  <2> HIDE DEF FilesRead
  <2>1. \E k \in DOMAIN FilesRead :
          \E n \in DOMAIN NamesIn(project, FilesRead[k]) :
            stack[Len(stack)] = NamesIn(project, FilesRead[k])[n]
    BY <1>1, TopComesFrom
  <2> QED BY <2>1, Zenon DEF NextImport
<1>4. PICK n \in DOMAIN NamesIn(project, FilesRead[k]) :
             NextImport = NamesIn(project, FilesRead[k])[n]
  BY <1>3, Zenon
<1>5. FilesRead[k] \in Reached(project)
  BY <1>3, FilesReadFacts, Zenon DEF Met
<1>6. LeadsIn(project, NextImport) =>
        SearchIn(project, NextImport) \in Reached(project)
  BY <1>1, <1>4, <1>5, ReachedFacts, Zenon DEF IsClosed
<1>7. ~LeadsIn(project, NextImport) => ~IsReadable(project)
  BY <1>4, <1>5, Zenon DEF IsReadable
<1> QED BY <1>2, <1>6, <1>7, Zenon

LEMMA RejectKeepsInv == ReadingInv /\ RejectImport => ReadingInv'
<1> SUFFICES ASSUME ReadingInv, RejectImport PROVE ReadingInv' OBVIOUS
<1>1. /\ In("importing") /\ stack # <<>> /\ stack' = OtherImports
      /\ UNCHANGED <<project, programs>>
  BY Zenon DEF RejectImport
<1>2. ~LeadsIn(project, NextImport) BY Zenon DEF RejectImport, LeadsIn, Search
<1>3. phase'.name = "failed" BY FailedFacts, Zenon DEF RejectImport
<1> QED BY <1>1, <1>2, <1>3, TopFacts, FailingKeepsInv, Zenon

LEMMA SkipKeepsInv == ReadingInv /\ SkipImport => ReadingInv'
<1> SUFFICES ASSUME ReadingInv, SkipImport PROVE ReadingInv' OBVIOUS
<1>1. /\ In("importing") /\ stack # <<>> /\ stack' = OtherImports
      /\ LeadsIn(project, NextImport) /\ SearchIn(project, NextImport) \in processed
      /\ UNCHANGED <<project, phase, processed, programs>>
  BY Zenon DEF SkipImport, Leads, Search
<1>2. /\ processed = Met(FilesRead) /\ stack \in Seq(ImportNames(project))
      /\ IsPending(project, FilesRead, stack, Met(FilesRead))
  BY <1>1, Zenon DEF ReadingInv
<1>3. stack' \in Seq(ImportNames(project)) BY <1>1, TopFacts, Zenon
<1>4. FilesRead \in Seq(PathsIn(project)) BY FilesReadFacts, Zenon
<1>5. IsPending(project, FilesRead, stack', Met(FilesRead))
  BY <1>1, <1>2, <1>4, TopIsTaken, Zenon DEF NextImport, OtherImports
<1>6. FilesRead' = FilesRead BY <1>1, Zenon DEF FilesRead
<1>7. (In("reading")' = In("reading")) /\ (In("importing")' = In("importing"))
      /\ (ReadingIsOver' = ReadingIsOver)
  BY <1>1, Zenon DEF In, ReadingIsOver
<1> HIDE DEF FilesRead
<1> QED BY <1>1, <1>3, <1>5, <1>6, <1>7, Zenon DEF ReadingInv

(* Nothing is left to be read once no import is on the stack. *)
LEMMA StartKeepsInv == ReadingInv /\ StartAnalysis => ReadingInv'
<1> SUFFICES ASSUME ReadingInv, StartAnalysis PROVE ReadingInv' OBVIOUS
<1>1. /\ In("importing") /\ stack = <<>>
      /\ UNCHANGED <<project, stack, programs>> /\ Enters("analyzing")
  BY Zenon DEF StartAnalysis, reading
<1>2. IsFull(project, Met(FilesRead)) BY <1>1, NothingOpen, Zenon DEF ReadingInv
<1>3. FilesRead' = FilesRead BY <1>1, Zenon DEF FilesRead
<1>4. phase'.name = "analyzing" /\ phase'.reason = None BY <1>1 DEF Enters
<1>5. ~In("reading")' /\ ~In("importing")' /\ phase'.reason \notin Refusals
  BY <1>4 DEF In, Refusals, None
<1> HIDE DEF FilesRead
<1> QED BY <1>1, <1>2, <1>3, <1>5, Zenon DEF ReadingInv

(* What follows leaves alone what was read. *)
LEMMA GoingOnKeepsInv == ReadingInv /\ GoesOn => ReadingInv'
<1> SUFFICES ASSUME ReadingInv, GoesOn PROVE ReadingInv' OBVIOUS
<1>1. /\ UNCHANGED <<project, stack, programs>> /\ ReadingIsOver
      /\ phase'.reason \notin Refusals
      /\ (ReadingIsOver' \/ phase'.name = "failed")
  BY Zenon DEF GoesOn, reading
<1>2. FilesRead' = FilesRead BY <1>1, Zenon DEF FilesRead
<1>3. ~In("reading")' /\ ~In("importing")' BY <1>1 DEF In, ReadingIsOver
<1> HIDE DEF FilesRead
<1> QED BY <1>1, <1>2, <1>3, Zenon DEF ReadingInv

(* An import is read: the next file depth first. *)
LEMMA ImportKeepsInv == ReadingInv /\ ParseImport => ReadingInv'
<1> SUFFICES ASSUME ReadingInv, ParseImport PROVE ReadingInv' OBVIOUS
<1> DEFINE path == SearchIn(project, NextImport)
           text == TextIn(project, path)
<1>1. /\ In("importing") /\ stack # <<>> /\ LeadsIn(project, NextImport)
      /\ path \notin processed /\ ParseFile(path, OtherImports)
      /\ programs' = IF phase'.name = "failed" THEN programs
                     ELSE Append(programs, path)
      /\ processed' = IF phase'.name = "failed" THEN processed
                      ELSE processed \cup {path}
      /\ project' = project
  BY Zenon DEF ParseImport, Leads, Search
<1>2. /\ IsProject(project) /\ processed = Met(FilesRead)
      /\ programs \in Seq(Reached(project)) /\ stack \in Seq(ImportNames(project))
      /\ \A f \in Met(FilesRead) : TextIn(project, f).status = "good"
      /\ IsPending(project, FilesRead, stack, Met(FilesRead))
      /\ IsDepthFirst(project, FilesRead)
  BY <1>1, Zenon DEF ReadingInv
<1>3. path \in Reached(project) /\ OtherImports \in Seq(ImportNames(project))
  BY <1>1, TopFacts, Zenon
<1>4. path \in PathsIn(project) BY <1>3, FilesReadFacts, Zenon
<1> HIDE DEF path
<1>5. CASE text.status # "good"
  <2>1. phase'.name = "failed" /\ stack' = OtherImports
    BY <1>1, <1>5, FailedFacts, Zenon DEF ParseFile, TextAt
  <2>2. ~IsReadable(project) BY <1>3, <1>5, Zenon DEF IsReadable
  <2>3. programs' = programs BY <1>1, <2>1, Zenon
  <2> QED BY <1>1, <1>3, <2>1, <2>2, <2>3, FailingKeepsInv, Zenon
<1>6. CASE text.status = "good"
  <2> DEFINE new == NamesIn(project, path)
             met == Met(FilesRead) \cup {path}
             more == Append(FilesRead, path)
  <2>1. stack' = Pushed(Extract(text.stmts), OtherImports) /\ Enters("importing")
    BY <1>1, <1>6, Zenon DEF ParseFile, TextAt
  <2>2. stack' = Pushed(new, OtherImports) BY <1>6, <2>1, Zenon DEF NamesIn
  <2>3. phase'.name = "importing" /\ phase'.reason = None BY <2>1 DEF Enters
  <2>4. ~In("reading")' /\ ~ReadingIsOver' /\ phase'.reason \notin Refusals
        /\ phase'.name # "failed"
    BY <2>3 DEF In, ReadingIsOver, Refusals, None
  <2>5. programs' = Append(programs, path) /\ processed' = processed \cup {path}
    BY <1>1, <2>4, Zenon
  <2>6. FilesRead' = more
    <3>1. <<project.mainPath>> \o Append(programs, path) = more
      BY <1>3, FilesReadFacts, Zenon
    <3> QED BY <1>1, <2>5, <3>1, Zenon DEF FilesRead
  <2>7. FilesRead \in Seq(PathsIn(project)) /\ FilesRead # <<>>
    BY FilesReadFacts, Zenon
  <2> HIDE DEF FilesRead
  <2>8. Met(more) = met BY <1>4, <2>7, MetGrows
  <2>9. new \in Seq(ImportNames(project)) BY <1>2, <1>4, ImportFacts, Zenon
  <2>10. stack' \in Seq(ImportNames(project))
    BY <1>3, <2>2, <2>9, PushedFacts, Zenon
  <2>11. programs' \in Seq(Reached(project)) BY <1>2, <1>3, <2>5
  <2>12. IsDepthFirst(project, more)
    <3>1. IsNext(project, path, FilesRead)
      BY <1>1, <1>2, <2>7, TopIsNext, Zenon DEF path, NextImport
    <3> QED BY <1>2, <1>4, <2>7, <3>1, DepthFirstGoesOn, Zenon
  <2>13. IsPending(project, more, stack', met)
    <3>1. IsPending(project, FilesRead, OtherImports, met)
      <4>1. Met(FilesRead) \subseteq met /\ path \in met BY Zenon
      <4> HIDE DEF met
      <4> QED BY <1>1, <1>2, <2>7, <4>1, TopIsTaken, Zenon
              DEF path, NextImport, OtherImports
    <3> HIDE DEF met
    <3> QED BY <1>2, <1>3, <1>4, <2>2, <2>7, <3>1, ImportsArePushed, Zenon
  <2>14. \A f \in met : TextIn(project, f).status = "good"
    BY <1>2, <1>6, Zenon
  <2>15. processed' = met BY <1>2, <2>5, Zenon
  <2> HIDE DEF met, more, new
  <2> QED BY <1>1, <1>2, <2>4, <2>6, <2>8, <2>10, <2>11, <2>12, <2>13, <2>14,
             <2>15, Zenon DEF ReadingInv
<1> QED BY <1>5, <1>6

LEMMA StutterKeepsInv ==
  ReadingInv /\ UNCHANGED <<project, phase, reading>> => ReadingInv'
<1> SUFFICES ASSUME ReadingInv, UNCHANGED <<project, phase, reading>>
             PROVE  ReadingInv'
  OBVIOUS
<1>1. UNCHANGED <<project, phase, stack, processed, programs>> BY DEF reading
<1>2. FilesRead' = FilesRead BY <1>1, Zenon DEF FilesRead
<1>3. (In("reading")' = In("reading")) /\ (In("importing")' = In("importing"))
      /\ (ReadingIsOver' = ReadingIsOver)
  BY <1>1, Zenon DEF In, ReadingIsOver
<1> HIDE DEF FilesRead
<1> QED BY <1>1, <1>2, <1>3, Zenon DEF ReadingInv

-----------------------------------------------------------------------------
(* The reader holds ReadingInv, whatever the files that a project has and  *)
(* however they import each other, and whatever follows the reading        *)
(* (ParseFiles).                                                           *)
THEOREM ReadingSpecInv == ReadingSpec => []ReadingInv
<1>1. ReadingInv /\ [Reads \/ GoesOn]_<<project, phase, reading>> => ReadingInv'
  BY MainFileKeepsInv, RejectKeepsInv, SkipKeepsInv, ImportKeepsInv,
     StartKeepsInv, GoingOnKeepsInv, StutterKeepsInv, Zenon DEF Reads
<1> QED BY <1>1, InitIsReadingInv, PTL DEF ReadingSpec

(* Files are read depth first and each once, reading ends well only with   *)
(* all that they import, and it is refused only for something that the     *)
(* main file leads to (ParseFiles).                                        *)
THEOREM ImportsFollowed == ReadingSpec => []ImportsAreFollowed
<1>1. ReadingInv => ImportsAreFollowed BY Zenon DEF ReadingInv, ImportsAreFollowed
<1> QED BY <1>1, ReadingSpecInv, PTL

(* Once all is read, the files read are exactly those that the main file   *)
(* leads to, and each of them could be read (ParseFiles).                  *)
ReadsAllReached ==
  ReadingIsOver => Met(FilesRead) = Reached(project) /\ IsReadable(project)

THEOREM AllReachedIsRead == ReadingSpec => []ReadsAllReached
<1>1. ASSUME ReadingInv, ReadingIsOver
      PROVE  Met(FilesRead) = Reached(project) /\ IsReadable(project)
  <2>1. IsProject(project) /\ IsFull(project, Met(FilesRead))
    BY <1>1, Zenon DEF ReadingInv
  <2>2. project.mainPath \in Met(FilesRead)
        /\ Met(FilesRead) \in SUBSET Reached(project)
    BY <1>1, FilesReadFacts, Zenon
  <2> QED BY <2>1, <2>2, FullIsReached, Zenon
<1>2. ReadingInv => ReadsAllReached BY <1>1, Zenon DEF ReadsAllReached
<1> QED BY <1>2, ReadingSpecInv, PTL

=============================================================================
