------------------------- MODULE ValuesMemoryProofs -------------------------
(* Storages count their references: what Default, Clone, Multidimensional, *)
(* DecRefsCount, Set and the moves do to the counts, and how values come   *)
(* and go among the variables and the operands.                            *)
EXTENDS Values, FiniteSetTheorems, WellFoundedInduction, TLAPS

-----------------------------------------------------------------------------
(* Induction, for sets. *)

LEMMA SetInduction ==
  ASSUME NEW P \in SUBSET Nat, 0 \in P, \A n \in P : n + 1 \in P
  PROVE  \A n \in Nat : n \in P
<1> SUFFICES ASSUME NEW z \in Nat \ P PROVE FALSE OBVIOUS
<1> DEFINE R == OpToRel(<, Nat)
<1>1. IsWellFoundedOn(R, Nat) BY NatLessThanWellFounded, Zenon
<1>2. PICK x \in Nat \ P : \A y \in Nat \ P : <<y, x>> \notin R
  <2> HIDE DEF R
  <2>1. Nat \ P # {} /\ Nat \ P \in SUBSET Nat OBVIOUS
  <2> QED BY <1>1, <2>1, WFMin, Zenon
<1> HIDE DEF R
<1>3. x # 0 /\ x - 1 \in Nat /\ x - 1 < x /\ (x - 1) + 1 = x OBVIOUS
<1>4. <<x - 1, x>> \in R BY <1>2, <1>3, Zenon DEF OpToRel, R
<1>5. x - 1 \in P BY <1>2, <1>3, <1>4, Zenon
<1> QED BY <1>2, <1>3, <1>5, Zenon

-----------------------------------------------------------------------------
(* Types *)

LEMMA TypeOf1 ==
  ASSUME NEW t \in Type
  PROVE  /\ t.dims \in 0..MaxDims /\ t.dims \in Int /\ t.base \in {"int", "string"}
         /\ t = [base |-> t.base, dims |-> t.dims]
         /\ \A d : [t EXCEPT !.dims = d] = [base |-> t.base, dims |-> d]
         /\ \A d \in 0..MaxDims : [base |-> t.base, dims |-> d] \in Type
  BY ValuesAssumption DEF Type

ArrayFacts(t) ==
  /\ t.dims \in 0..MaxDims /\ t.dims \in Int /\ (IsArray(t) => HasStorage(t))
  /\ HasStorage(t) /\ ~IsArray(t) => t = String0
  /\ IsArray(t) => /\ ElementOf(t) \in Type /\ ElementOf(t).dims = t.dims - 1
                   /\ ArrayOf(ElementOf(t)) = t
  /\ t.dims < MaxDims => /\ ArrayOf(t) \in Type /\ IsArray(ArrayOf(t))
                         /\ ElementOf(ArrayOf(t)) = t /\ ArrayOf(t).dims = t.dims + 1

LEMMA TypeFacts ==
  /\ Int0 \in Type /\ String0 \in Type /\ HasStorage(String0) /\ ~HasStorage(Int0)
  /\ ~IsArray(Int0) /\ ~IsArray(String0) /\ Int0.dims = 0 /\ String0.dims = 0
  /\ \A t \in Type : ArrayFacts(t)
<1>1. /\ Int0 \in Type /\ String0 \in Type /\ HasStorage(String0) /\ ~HasStorage(Int0)
      /\ ~IsArray(Int0) /\ ~IsArray(String0) /\ Int0.dims = 0 /\ String0.dims = 0
  BY ValuesAssumption DEF Type, Int0, String0, HasStorage, IsArray
<1>2. ASSUME NEW t \in Type PROVE ArrayFacts(t)
  <2>1. /\ t.dims \in 0..MaxDims /\ t.dims \in Int /\ t.base \in {"int", "string"}
        /\ t = [base |-> t.base, dims |-> t.dims]
        /\ \A d \in 0..MaxDims : [base |-> t.base, dims |-> d] \in Type
    BY TypeOf1
  <2>2. ElementOf(t) = [base |-> t.base, dims |-> t.dims - 1]
    BY TypeOf1 DEF ElementOf
  <2>3. ArrayOf(t) = [base |-> t.base, dims |-> t.dims + 1]
    BY TypeOf1 DEF ArrayOf
  <2>4. MaxDims \in Nat BY ValuesAssumption
  <2>5. IsArray(t) => HasStorage(t) BY <2>1 DEF IsArray, HasStorage, Int0
  <2>6. HasStorage(t) /\ ~IsArray(t) => t = String0
    BY <2>1 DEF IsArray, HasStorage, Int0, String0
  <2>7. ASSUME IsArray(t)
        PROVE  /\ ElementOf(t) \in Type /\ ElementOf(t).dims = t.dims - 1
               /\ ArrayOf(ElementOf(t)) = t
    <3>1. t.dims - 1 \in 0..MaxDims /\ (t.dims - 1) + 1 = t.dims BY <2>1, <2>4, <2>7 DEF IsArray
    <3>2. ElementOf(t) \in Type /\ ElementOf(t).dims = t.dims - 1 /\ ElementOf(t).base = t.base
      BY <2>1, <2>2, <3>1
    <3>3. ArrayOf(ElementOf(t)) = [base |-> t.base, dims |-> t.dims]
      BY <3>1, <3>2, TypeOf1 DEF ArrayOf
    <3> QED BY <2>1, <3>2, <3>3
  <2>8. ASSUME t.dims < MaxDims
        PROVE  /\ ArrayOf(t) \in Type /\ IsArray(ArrayOf(t))
               /\ ElementOf(ArrayOf(t)) = t /\ ArrayOf(t).dims = t.dims + 1
    <3>1. t.dims + 1 \in 0..MaxDims /\ (t.dims + 1) - 1 = t.dims /\ t.dims + 1 > 0
      BY <2>1, <2>4, <2>8
    <3>2. ArrayOf(t) \in Type /\ ArrayOf(t).dims = t.dims + 1 /\ ArrayOf(t).base = t.base
      BY <2>1, <2>3, <3>1
    <3>3. ElementOf(ArrayOf(t)) = [base |-> t.base, dims |-> t.dims]
      BY <3>1, <3>2, TypeOf1 DEF ElementOf
    <3> QED BY <2>1, <3>1, <3>2, <3>3 DEF IsArray
  <2> QED BY <2>1, <2>5, <2>6, <2>7, <2>8 DEF ArrayFacts
<1> QED BY <1>1, <1>2

(* The type of what is d dimensions down. *)
Down(t, d) == [t EXCEPT !.dims = @ - d]

DownIs(t, d) ==
  /\ Down(t, d) \in Type /\ Down(t, d).dims = t.dims - d
  /\ IsArray(Down(t, d)) <=> d < t.dims
  /\ HasStorage(t) /\ d < t.dims => HasStorage(Down(t, d))
  /\ d < t.dims => ElementOf(Down(t, d)) = Down(t, d + 1)

LEMMA DownFacts ==
  ASSUME NEW t \in Type
  PROVE  Down(t, 0) = t /\ \A d \in 0..t.dims : DownIs(t, d)
<1>1. /\ t.dims \in 0..MaxDims /\ t.dims \in Int /\ t.base \in {"int", "string"}
      /\ t = [base |-> t.base, dims |-> t.dims]
      /\ \A d \in 0..MaxDims : [base |-> t.base, dims |-> d] \in Type
      /\ MaxDims \in Nat
  BY TypeOf1, ValuesAssumption
<1>2. \A d : Down(t, d) = [base |-> t.base, dims |-> t.dims - d] BY TypeOf1 DEF Down
<1>3. Down(t, 0) = t
  <2>1. t.dims - 0 = t.dims BY <1>1
  <2> QED BY <1>1, <1>2, <2>1
<1>4. ASSUME NEW d \in 0..t.dims PROVE DownIs(t, d)
  <2>1. t.dims - d \in 0..MaxDims /\ d < t.dims <=> t.dims - d > 0 BY <1>1
  <2>2. /\ Down(t, d) \in Type /\ Down(t, d).dims = t.dims - d
        /\ IsArray(Down(t, d)) <=> d < t.dims
    BY <1>1, <1>2, <2>1 DEF IsArray
  <2>3. d < t.dims => HasStorage(Down(t, d))
    BY <2>1, <2>2, TypeFacts DEF ArrayFacts
  <2>4. d < t.dims => ElementOf(Down(t, d)) = Down(t, d + 1)
    <3>1. ElementOf(Down(t, d)) = [base |-> t.base, dims |-> (t.dims - d) - 1]
      BY <1>2, <2>2, TypeOf1 DEF ElementOf
    <3>2. (t.dims - d) - 1 = t.dims - (d + 1) BY <1>1
    <3> QED BY <1>2, <3>1, <3>2
  <2> QED BY <2>2, <2>3, <2>4 DEF DownIs
<1> QED BY <1>3, <1>4

-----------------------------------------------------------------------------
(* Counting *)

Into(A, s) == {e \in A : e[3] = s}

(* Each storage counts the references of A that lead to it, and no         *)
(* reference leads elsewhere.                                              *)
Counted(at, A) ==
  /\ \A e \in A : e[3] \in DOMAIN at
  /\ \A s \in DOMAIN at :
       /\ IsFiniteSet(Into(A, s))
       /\ at[s].refs = Cardinality(Into(A, s)) + at[s].lost

LEMMA CountAdd ==
  ASSUME NEW at, NEW A, NEW e, Counted(at, A), e \notin A, e[3] \in DOMAIN at,
         NEW bt, DOMAIN bt = DOMAIN at,
         \A s \in DOMAIN at : /\ bt[s].lost = at[s].lost /\ at[s].lost \in Nat
                              /\ bt[s].refs = IF s = e[3] THEN at[s].refs + 1 ELSE at[s].refs
  PROVE  Counted(bt, A \cup {e})
<1>1. \A f \in A \cup {e} : f[3] \in DOMAIN bt BY Zenon DEF Counted
<1>2. ASSUME NEW s \in DOMAIN bt
      PROVE  /\ IsFiniteSet(Into(A \cup {e}, s))
             /\ bt[s].refs = Cardinality(Into(A \cup {e}, s)) + bt[s].lost
  <2>1. IsFiniteSet(Into(A, s)) /\ at[s].refs = Cardinality(Into(A, s)) + at[s].lost
    BY Zenon DEF Counted
  <2>2. CASE s = e[3]
    <3>1. Into(A \cup {e}, s) = Into(A, s) \cup {e} /\ e \notin Into(A, s)
      BY <2>2 DEF Into
    <3>2. /\ IsFiniteSet(Into(A, s) \cup {e})
          /\ Cardinality(Into(A, s) \cup {e}) = Cardinality(Into(A, s)) + 1
      BY <2>1, <3>1, FS_AddElement, Zenon
    <3>3. Cardinality(Into(A, s)) \in Nat BY <2>1, FS_CardinalityType, Zenon
    <3>4. bt[s].refs = at[s].refs + 1 /\ bt[s].lost = at[s].lost /\ at[s].lost \in Nat
      BY <2>2
    <3>5. bt[s].refs = (Cardinality(Into(A, s)) + 1) + bt[s].lost BY <2>1, <3>3, <3>4
    <3> QED BY <3>1, <3>2, <3>5, Zenon
  <2>3. CASE s # e[3]
    <3>1. Into(A \cup {e}, s) = Into(A, s) BY <2>3 DEF Into
    <3> HIDE DEF Into
    <3> QED BY <2>1, <2>3, <3>1
  <2> QED BY <2>2, <2>3
<1> QED BY <1>1, <1>2, Zenon DEF Counted

LEMMA CountNew ==
  ASSUME NEW at, NEW A, NEW e, Counted(at, A), NEW bt, e[3] \notin DOMAIN at,
         DOMAIN bt = DOMAIN at \cup {e[3]}, \A s \in DOMAIN at : bt[s] = at[s],
         bt[e[3]].refs = 1, bt[e[3]].lost = 0
  PROVE  Counted(bt, A \cup {e})
<1>1. \A f \in A \cup {e} : f[3] \in DOMAIN bt BY Zenon DEF Counted
<1>2. ASSUME NEW s \in DOMAIN bt
      PROVE  /\ IsFiniteSet(Into(A \cup {e}, s))
             /\ bt[s].refs = Cardinality(Into(A \cup {e}, s)) + bt[s].lost
  <2>1. CASE s = e[3]
    <3>1. \A f \in A : f[3] # s BY <2>1, Zenon DEF Counted
    <3>2. Into(A \cup {e}, s) = {e} BY <2>1, <3>1 DEF Into
    <3>3. IsFiniteSet({e}) /\ Cardinality({e}) = 1 BY FS_Singleton, Zenon
    <3> QED BY <2>1, <3>2, <3>3
  <2>2. CASE s # e[3]
    <3>1. Into(A \cup {e}, s) = Into(A, s) BY <2>2 DEF Into
    <3>2. s \in DOMAIN at /\ bt[s] = at[s] BY <2>2
    <3> QED BY <3>1, <3>2, Zenon DEF Counted
  <2> QED BY <2>1, <2>2
<1> QED BY <1>1, <1>2, Zenon DEF Counted

SameCounts(at, bt) ==
  /\ DOMAIN bt = DOMAIN at
  /\ \A s \in DOMAIN at : bt[s].refs = at[s].refs /\ bt[s].lost = at[s].lost

(* A reference moves to another place. *)
LEMMA CountMove ==
  ASSUME NEW at, NEW A, NEW e \in A, NEW f, Counted(at, A), f \notin A, f[3] = e[3],
         NEW bt, SameCounts(at, bt)
  PROVE  Counted(bt, (A \ {e}) \cup {f})
<1> DEFINE B == (A \ {e}) \cup {f}
<1>1. \A g \in B : g[3] \in DOMAIN bt BY Zenon DEF Counted, SameCounts
<1>2. ASSUME NEW s \in DOMAIN bt
      PROVE  /\ IsFiniteSet(Into(B, s))
             /\ bt[s].refs = Cardinality(Into(B, s)) + bt[s].lost
  <2>1. /\ IsFiniteSet(Into(A, s)) /\ at[s].refs = Cardinality(Into(A, s)) + at[s].lost
        /\ bt[s].refs = at[s].refs /\ bt[s].lost = at[s].lost
    BY Zenon DEF Counted, SameCounts
  <2>2. CASE s = e[3]
    <3>1. /\ Into(B, s) = (Into(A, s) \ {e}) \cup {f} /\ e \in Into(A, s)
          /\ f \notin Into(A, s) \ {e}
      BY <2>2 DEF Into
    <3>2. /\ IsFiniteSet(Into(A, s) \ {e})
          /\ Cardinality(Into(A, s) \ {e}) = Cardinality(Into(A, s)) - 1
      BY <2>1, <3>1, FS_RemoveElement, Zenon
    <3>3. /\ IsFiniteSet((Into(A, s) \ {e}) \cup {f})
          /\ Cardinality((Into(A, s) \ {e}) \cup {f}) = Cardinality(Into(A, s) \ {e}) + 1
      BY <3>1, <3>2, FS_AddElement, Zenon
    <3>4. Cardinality(Into(A, s)) \in Nat BY <2>1, FS_CardinalityType, Zenon
    <3>5. Cardinality((Into(A, s) \ {e}) \cup {f}) = Cardinality(Into(A, s))
      BY <3>2, <3>3, <3>4
    <3> QED BY <2>1, <3>1, <3>3, <3>5, Zenon
  <2>3. CASE s # e[3]
    <3>1. Into(B, s) = Into(A, s) BY <2>3 DEF Into
    <3> QED BY <2>1, <3>1, Zenon
  <2> QED BY <2>2, <2>3
<1> QED BY <1>1, <1>2, Zenon DEF Counted

(* A reference is overwritten and stays counted. *)
LEMMA CountLose ==
  ASSUME NEW at, NEW A, NEW e \in A, Counted(at, A),
         NEW bt, DOMAIN bt = DOMAIN at,
         \A s \in DOMAIN at : /\ bt[s].refs = at[s].refs /\ at[s].lost \in Nat
                              /\ bt[s].lost = IF s = e[3] THEN at[s].lost + 1 ELSE at[s].lost
  PROVE  Counted(bt, A \ {e})
<1>1. \A f \in A \ {e} : f[3] \in DOMAIN bt BY Zenon DEF Counted
<1>2. ASSUME NEW s \in DOMAIN bt
      PROVE  /\ IsFiniteSet(Into(A \ {e}, s))
             /\ bt[s].refs = Cardinality(Into(A \ {e}, s)) + bt[s].lost
  <2>1. IsFiniteSet(Into(A, s)) /\ at[s].refs = Cardinality(Into(A, s)) + at[s].lost
    BY Zenon DEF Counted
  <2>2. CASE s = e[3]
    <3>1. Into(A \ {e}, s) = Into(A, s) \ {e} /\ e \in Into(A, s) BY <2>2 DEF Into
    <3>2. /\ IsFiniteSet(Into(A, s) \ {e})
          /\ Cardinality(Into(A, s) \ {e}) = Cardinality(Into(A, s)) - 1
      BY <2>1, <3>1, FS_RemoveElement, Zenon
    <3>3. Cardinality(Into(A, s)) \in Nat BY <2>1, FS_CardinalityType, Zenon
    <3> HIDE DEF Into
    <3> QED BY <2>1, <2>2, <3>1, <3>2, <3>3
  <2>3. CASE s # e[3]
    <3>1. Into(A \ {e}, s) = Into(A, s) BY <2>3 DEF Into
    <3> HIDE DEF Into
    <3> QED BY <2>1, <2>3, <3>1
  <2> QED BY <2>2, <2>3
<1> QED BY <1>1, <1>2, Zenon DEF Counted

(* References are given up together. *)
CanGive(at, A, given, s) ==
  /\ Losses(given, s) \in Nat /\ at[s].refs \in Nat /\ Losses(given, s) <= at[s].refs
  /\ IsFiniteSet(Into(A \ given, s))
  /\ at[s].refs - Losses(given, s) = Cardinality(Into(A \ given, s)) + at[s].lost
  /\ Losses(given, s) = 0 <=> Into(given, s) = {}
  /\ Losses(given, s) = at[s].refs => at[s].lost = 0 /\ Into(A, s) \subseteq given

LEMMA CountGive ==
  ASSUME NEW at, NEW A, NEW given \in SUBSET A, Counted(at, A),
         NEW s \in DOMAIN at, at[s].lost \in Nat
  PROVE  CanGive(at, A, given, s)
<1>1. /\ IsFiniteSet(Into(A, s)) /\ at[s].refs = Cardinality(Into(A, s)) + at[s].lost
  BY Zenon DEF Counted
<1>2. /\ Into(given, s) \subseteq Into(A, s) /\ Into(given, s) = Into(A, s) \cap given
      /\ Into(A \ given, s) = Into(A, s) \ given
  BY DEF Into
<1>3. Losses(given, s) = Cardinality(Into(given, s)) BY Zenon DEF Losses, Into
<1>4. IsFiniteSet(Into(given, s)) BY <1>1, <1>2, FS_Subset, Zenon
<1>5. /\ Cardinality(Into(given, s)) \in Nat /\ Cardinality(Into(A, s)) \in Nat
  BY <1>1, <1>4, FS_CardinalityType, Zenon
<1>6. /\ IsFiniteSet(Into(A, s) \ given)
      /\ Cardinality(Into(A, s) \ given)
           = Cardinality(Into(A, s)) - Cardinality(Into(A, s) \cap given)
  BY <1>1, FS_Difference, Zenon
<1>7. /\ Cardinality(Into(A, s) \ given) \in Nat
      /\ Cardinality(Into(A, s) \ given) = 0 <=> Into(A, s) \ given = {}
  BY <1>6, FS_CardinalityType, FS_EmptySet, Zenon
<1>8. Cardinality(Into(given, s)) = 0 <=> Into(given, s) = {} BY <1>4, FS_EmptySet, Zenon
<1>9. Into(A, s) \ given = {} <=> Into(A, s) \subseteq given BY Zenon
<1> HIDE DEF Into
<1>10. /\ at[s].refs \in Nat /\ Losses(given, s) \in Nat /\ Losses(given, s) <= at[s].refs
       /\ at[s].refs - Losses(given, s) = Cardinality(Into(A, s) \ given) + at[s].lost
       /\ Losses(given, s) = at[s].refs =>
            at[s].lost = 0 /\ Cardinality(Into(A, s) \ given) = 0
  BY <1>1, <1>2, <1>3, <1>5, <1>6, <1>7
<1> QED BY <1>2, <1>3, <1>6, <1>7, <1>8, <1>9, <1>10, Zenon DEF CanGive

LEMMA CountGiven ==
  ASSUME NEW at, NEW A, NEW given \in SUBSET A, Counted(at, A),
         \A s \in DOMAIN at : at[s].lost \in Nat,
         NEW bt, DOMAIN bt = {s \in DOMAIN at : at[s].refs > Losses(given, s)},
         \A s \in DOMAIN bt : /\ bt[s].refs = at[s].refs - Losses(given, s)
                              /\ bt[s].lost = at[s].lost
  PROVE  Counted(bt, A \ given)
<1>1. ASSUME NEW e \in A \ given PROVE e[3] \in DOMAIN bt
  <2>1. e[3] \in DOMAIN at /\ e \in Into(A, e[3]) /\ e \notin given BY Zenon DEF Counted, Into
  <2>5. CanGive(at, A, given, e[3]) BY <2>1, CountGive, Zenon
  <2>2. /\ Losses(given, e[3]) \in Nat /\ at[e[3]].refs \in Nat
        /\ Losses(given, e[3]) <= at[e[3]].refs
        /\ Losses(given, e[3]) = at[e[3]].refs => Into(A, e[3]) \subseteq given
    BY <2>5, Zenon DEF CanGive
  <2>3. Losses(given, e[3]) # at[e[3]].refs BY <2>1, <2>2, Zenon
  <2>4. at[e[3]].refs > Losses(given, e[3]) BY <2>2, <2>3
  <2> QED BY <2>1, <2>4, Zenon
<1>2. ASSUME NEW s \in DOMAIN bt
      PROVE  /\ IsFiniteSet(Into(A \ given, s))
             /\ bt[s].refs = Cardinality(Into(A \ given, s)) + bt[s].lost
  <2>1. s \in DOMAIN at /\ at[s].lost \in Nat BY Zenon
  <2>2. bt[s].refs = at[s].refs - Losses(given, s) /\ bt[s].lost = at[s].lost BY Zenon
  <2>4. CanGive(at, A, given, s) BY <2>1, CountGive, Zenon
  <2>3. /\ IsFiniteSet(Into(A \ given, s))
        /\ at[s].refs - Losses(given, s) = Cardinality(Into(A \ given, s)) + at[s].lost
    BY <2>4, Zenon DEF CanGive
  <2> QED BY <2>2, <2>3, Zenon
<1> QED BY <1>1, <1>2, Zenon DEF Counted

-----------------------------------------------------------------------------
(* Memories *)

Storage == [refs: Nat \ {0}, type: Type \ {Int0}, items: Seq(Value), lost: Nat]

LEMMA ValueFacts ==
  /\ \A s : Ref(s).kind = "ref" /\ Ref(s).id = s
  /\ \A i : IntValue(i).kind = "int" /\ IntValue(i).int = i
  /\ \A r, s : Ref(r) = Ref(s) => r = s
  /\ \A r, s : Ref(r) # IntValue(s)
  /\ \A v \in Value : v.kind = "ref" => v.id \in StorageId /\ v = Ref(v.id)
<1>1. /\ \A s : Ref(s).kind = "ref" /\ Ref(s).id = s
      /\ \A i : IntValue(i).kind = "int" /\ IntValue(i).int = i
  BY DEF Ref, IntValue
<1>2. "ref" # "int" OBVIOUS
<1>3. \A v \in Value : v.kind = "ref" => v.id \in StorageId /\ v = Ref(v.id)
  <2> SUFFICES ASSUME NEW v \in Value, v.kind = "ref"
               PROVE  v.id \in StorageId /\ v = Ref(v.id)
    BY Zenon
  <2>1. CASE \E i \in {0, 1} \cup Size : v = IntValue(i) BY <1>1, <1>2, <2>1, Zenon
  <2>2. CASE \E s \in StorageId : v = Ref(s) BY <1>1, <2>2, Zenon
  <2> QED BY <2>1, <2>2, Zenon DEF Value
<1>4. ASSUME NEW r, NEW s, Ref(r) = Ref(s) PROVE r = s
  <2>1. Ref(r).id = Ref(s).id BY <1>4, Zenon
  <2>2. Ref(r).id = r /\ Ref(s).id = s BY <1>1, Zenon
  <2> QED BY <2>1, <2>2
<1>5. ASSUME NEW r, NEW s, Ref(r) = IntValue(s) PROVE FALSE
  <2>1. Ref(r).kind = IntValue(s).kind BY <1>5, Zenon
  <2> QED BY <1>1, <1>2, <2>1, Zenon
<1> QED BY <1>1, <1>3, <1>4, <1>5, Zenon

(* A value of a type; a reference is to a storage of just that type. *)
IsOf(at, v, t) ==
  IF HasStorage(t) THEN \E s \in DOMAIN at : v = Ref(s) /\ at[s].type = t
  ELSE \E i \in {0, 1} \cup Size : v = IntValue(i)

LEMMA IsOfFacts ==
  ASSUME NEW at, NEW v, NEW t, IsOf(at, v, t), DOMAIN at \subseteq StorageId
  PROVE  /\ v \in Value
         /\ v.kind = "ref" <=> HasStorage(t)
         /\ HasStorage(t) => v = Ref(v.id) /\ v.id \in DOMAIN at /\ at[v.id].type = t
         /\ ~HasStorage(t) => v.int \in Nat
<1>0. "ref" # "int" OBVIOUS
<1>1. CASE HasStorage(t)
  <2>1. PICK s \in DOMAIN at : v = Ref(s) /\ at[s].type = t BY <1>1, Zenon DEF IsOf
  <2>2. s \in StorageId BY <2>1
  <2> QED BY <1>1, <2>1, <2>2, ValueFacts, Zenon DEF Value
<1>2. CASE ~HasStorage(t)
  <2>1. PICK i \in {0, 1} \cup Size : v = IntValue(i) BY <1>2, Zenon DEF IsOf
  <2>2. i \in Nat BY ValuesAssumption
  <2> QED BY <1>0, <1>2, <2>1, <2>2, ValueFacts, Zenon DEF Value
<1> QED BY <1>1, <1>2

(* The items at the places M are about to be overwritten. *)
ItemsOK(at, s, M) ==
  /\ at[s].lost > 0 => at[s].type = String0
  /\ ~IsArray(at[s].type) => at[s].items = <<>>
  /\ \A i \in DOMAIN at[s].items :
       <<s, i>> \notin M => IsOf(at, at[s].items[i], ElementOf(at[s].type))

Typed(at, M) ==
  /\ at \in [DOMAIN at -> Storage] /\ DOMAIN at \subseteq StorageId
  /\ IsFiniteSet(DOMAIN at)
  /\ \A s \in DOMAIN at : ItemsOK(at, s, M)

Items(at, M) == {e \in UNION {ItemsOf(at, s) : s \in DOMAIN at} : e[2] \notin M}

IsItem(at, e, s, i) ==
  /\ s \in DOMAIN at /\ i \in DOMAIN at[s].items /\ at[s].items[i].kind = "ref"
  /\ e = <<"item", <<s, i>>, at[s].items[i].id>>

LEMMA ItemsOfIs ==
  ASSUME NEW at, NEW s \in DOMAIN at
  PROVE  \A e : e \in ItemsOf(at, s) <=> \E i \in DOMAIN at[s].items : IsItem(at, e, s, i)
<1> DEFINE vs == at[s].items
           js == {j \in DOMAIN vs : vs[j].kind = "ref"}
<1>1. RefsAmong("item", vs) = {<<"item", i, vs[i].id>> : i \in js} BY Zenon DEF RefsAmong
<1>2. ItemsOf(at, s) = {<<"item", <<s, r[2]>>, r[3]>> : r \in RefsAmong("item", vs)}
  BY Zenon DEF ItemsOf
<1>3. \A i : LET r == <<"item", i, vs[i].id>> IN r[2] = i /\ r[3] = vs[i].id OBVIOUS
<1>4. \A e : e \in ItemsOf(at, s) <=> \E i \in js : e = <<"item", <<s, i>>, vs[i].id>>
  <2> HIDE DEF js, vs
  <2> TAKE e
  <2>1. ASSUME NEW i \in js, e = <<"item", <<s, i>>, vs[i].id>> PROVE e \in ItemsOf(at, s)
    <3> DEFINE r == <<"item", i, vs[i].id>>
    <3>1. r \in RefsAmong("item", vs) /\ r[2] = i /\ r[3] = vs[i].id BY <1>1, <1>3, Zenon
    <3> HIDE DEF r
    <3> QED BY <1>2, <2>1, <3>1, Zenon
  <2>2. ASSUME e \in ItemsOf(at, s) PROVE \E i \in js : e = <<"item", <<s, i>>, vs[i].id>>
    <3>1. PICK r \in RefsAmong("item", vs) : e = <<"item", <<s, r[2]>>, r[3]>>
      BY <1>2, <2>2, Zenon
    <3>2. PICK i \in js : r = <<"item", i, vs[i].id>> BY <1>1, <3>1, Zenon
    <3> QED BY <1>3, <3>1, <3>2, Zenon
  <2> QED BY <2>1, <2>2, Zenon
<1> QED BY <1>4, Zenon DEF IsItem

LEMMA ItemsIs ==
  ASSUME NEW at, NEW M
  PROVE  \A e : e \in Items(at, M) <=> \E s \in DOMAIN at : \E i \in DOMAIN at[s].items :
                                         IsItem(at, e, s, i) /\ <<s, i>> \notin M
<1>1. \A e : e \in Items(at, M)
               <=> \E s \in DOMAIN at : e \in ItemsOf(at, s) /\ e[2] \notin M
  BY Zenon DEF Items
<1>2. \A e, s, i : IsItem(at, e, s, i) => e[2] = <<s, i>> BY DEF IsItem
<1>3. \A s \in DOMAIN at : \A e : e \in ItemsOf(at, s) <=>
         \E i \in DOMAIN at[s].items : IsItem(at, e, s, i)
  BY ItemsOfIs, Zenon
<1> TAKE e
<1>4. ASSUME NEW s \in DOMAIN at, e \in ItemsOf(at, s), e[2] \notin M
      PROVE  \E i \in DOMAIN at[s].items : IsItem(at, e, s, i) /\ <<s, i>> \notin M
  <2>1. PICK i \in DOMAIN at[s].items : IsItem(at, e, s, i) BY <1>3, <1>4, Zenon
  <2>2. <<s, i>> \notin M BY <1>2, <1>4, <2>1
  <2> QED BY <2>1, <2>2, Zenon
<1>5. ASSUME NEW s \in DOMAIN at, NEW i \in DOMAIN at[s].items, IsItem(at, e, s, i),
             <<s, i>> \notin M
      PROVE  e \in ItemsOf(at, s) /\ e[2] \notin M
  <2>1. e[2] = <<s, i>> BY <1>2, <1>5, Zenon
  <2> QED BY <1>3, <1>5, <2>1, Zenon
<1> QED BY <1>1, <1>4, <1>5, Zenon

(* All references are counted: those of E and those of the items.  What E  *)
(* holds are variables, operands, and the items that are overwritten.      *)
Good(at, E, M) ==
  /\ Typed(at, M) /\ Counted(at, E \cup Items(at, M)) /\ E \cap Items(at, M) = {}

(* Only references were given up. *)
Kept(at, bt) ==
  /\ DOMAIN bt \subseteq DOMAIN at
  /\ \A s \in DOMAIN bt : /\ bt[s].type = at[s].type /\ bt[s].items = at[s].items
                          /\ bt[s].lost = at[s].lost

LEMMA KeptItems ==
  ASSUME NEW at, NEW bt, NEW M, Kept(at, bt)
  PROVE  \A e : e \in Items(bt, M) <=> e \in Items(at, M) /\ e[2][1] \in DOMAIN bt
<1>1. \A e, s, i : IsItem(at, e, s, i) => e[2][1] = s BY DEF IsItem
<1>2. ASSUME NEW s \in DOMAIN bt
      PROVE  /\ s \in DOMAIN at /\ bt[s].items = at[s].items
             /\ \A e, i : IsItem(at, e, s, i) <=> IsItem(bt, e, s, i)
  <2>1. s \in DOMAIN at /\ bt[s].items = at[s].items BY Zenon DEF Kept
  <2> QED BY <2>1, Zenon DEF IsItem
<1> TAKE e
<1>3. ASSUME e \in Items(bt, M) PROVE e \in Items(at, M) /\ e[2][1] \in DOMAIN bt
  <2>1. PICK s \in DOMAIN bt : \E i \in DOMAIN bt[s].items : IsItem(bt, e, s, i) /\ <<s, i>> \notin M
    BY <1>3, ItemsIs, Zenon
  <2>2. PICK i \in DOMAIN bt[s].items : IsItem(bt, e, s, i) /\ <<s, i>> \notin M BY <2>1, Zenon
  <2>3. s \in DOMAIN at /\ i \in DOMAIN at[s].items /\ IsItem(at, e, s, i) /\ e[2][1] = s
    <3>1. s \in DOMAIN at /\ bt[s].items = at[s].items /\ IsItem(at, e, s, i) BY <1>2, <2>2, Zenon
    <3> QED BY <1>1, <2>2, <3>1
  <2> QED BY <2>2, <2>3, ItemsIs, Zenon
<1>4. ASSUME e \in Items(at, M), e[2][1] \in DOMAIN bt PROVE e \in Items(bt, M)
  <2>1. PICK s \in DOMAIN at : \E i \in DOMAIN at[s].items : IsItem(at, e, s, i) /\ <<s, i>> \notin M
    BY <1>4, ItemsIs, Zenon
  <2>2. PICK i \in DOMAIN at[s].items : IsItem(at, e, s, i) /\ <<s, i>> \notin M BY <2>1, Zenon
  <2>3. e[2][1] = s /\ s \in DOMAIN bt BY <1>1, <1>4, <2>2, Zenon
  <2>4. bt[s].items = at[s].items /\ IsItem(bt, e, s, i) BY <1>2, <2>2, <2>3, Zenon
  <2> QED BY <2>2, <2>3, <2>4, ItemsIs
<1> QED BY <1>3, <1>4, Zenon

Sound(at) == [at |-> at, sound |-> TRUE]

LEMMA MemoryExcept ==
  ASSUME NEW x, NEW y, NEW f
  PROVE  [[at |-> x, sound |-> f] EXCEPT !.at = y] = [at |-> y, sound |-> f]
OBVIOUS

LEMMA SoundFacts ==
  /\ \A at : Sound(at).at = at /\ Sound(at).sound = TRUE
  /\ \A at, bt : [Sound(at) EXCEPT !.at = bt] = Sound(bt)
<1>1. \A at : Sound(at).at = at /\ Sound(at).sound = TRUE BY DEF Sound
<1>2. \A at, bt : [Sound(at) EXCEPT !.at = bt] = Sound(bt)
  BY MemoryExcept, Zenon DEF Sound
<1> QED BY <1>1, <1>2, Zenon

(* References of one type are given up, and the storages that nothing      *)
(* refers to any more go: their items are the references given up next.    *)
GiveOK(at, bt, E, M, given, t) ==
  LET next == UNION {ItemsOf(at, r) : r \in DOMAIN at \ DOMAIN bt}
  IN  /\ Kept(at, bt)
      /\ Good(bt, (E \ given) \cup next, M) /\ (E \ given) \cap next = {}
      /\ \A s \in DOMAIN at \ DOMAIN bt : at[s].type = t
      /\ \A e \in next : /\ IsArray(t) /\ e[3] \in DOMAIN bt
                         /\ bt[e[3]].type = ElementOf(t)

LEMMA GiveLevel ==
  ASSUME NEW at, NEW E, NEW M, NEW given \in SUBSET E, NEW t \in Type,
         Good(at, E, M), \A p \in M : p[1] \in DOMAIN at => at[p[1]].type # t,
         \A e \in given : at[e[3]].type = t
  PROVE  \E bt : /\ GiveUpAll(Sound(at), given, t) = Sound(bt)
                 /\ GiveOK(at, bt, E, M, given, t)
<1> DEFINE A == E \cup Items(at, M)
           D == {r \in DOMAIN at : at[r].refs > Losses(given, r)}
           bt == [s \in D |-> [at[s] EXCEPT !.refs = @ - Losses(given, s)]]
           next == UNION {ItemsOf(at, r) : r \in DOMAIN at \ D}
<1>1. /\ Typed(at, M) /\ Counted(at, A) /\ E \cap Items(at, M) = {} /\ given \in SUBSET A
      /\ at \in [DOMAIN at -> Storage] /\ DOMAIN at \subseteq StorageId
      /\ IsFiniteSet(DOMAIN at) /\ \A s \in DOMAIN at : ItemsOK(at, s, M)
  BY Zenon DEF Good, Typed
<1>2. \A s \in DOMAIN at : /\ at[s] \in Storage /\ at[s].refs \in Nat \ {0}
                           /\ at[s].lost \in Nat
  <2>1. \A s \in DOMAIN at : at[s] \in Storage BY <1>1, Zenon
  <2> QED BY <2>1 DEF Storage
<1>3. \A s \in DOMAIN at : CanGive(at, A, given, s) BY <1>1, <1>2, CountGive, Zenon
<1>4. \A s \in DOMAIN at :
        /\ Losses(given, s) \in Nat /\ Losses(given, s) <= at[s].refs
        /\ Losses(given, s) = 0 <=> Into(given, s) = {}
  BY <1>3, Zenon DEF CanGive
<1>5. GiveUpAll(Sound(at), given, t) = Sound(bt)
  <2> DEFINE m == Sound(at)
             can == \A g \in given : Holds(m, g[3], t) /\ Losses(given, g[3]) <= m.at[g[3]].refs
             new == [s \in {r \in DOMAIN m.at : m.at[r].refs > Losses(given, r)} |->
                       [m.at[s] EXCEPT !.refs = @ - Losses(given, s)]]
  <2>1. can
    <3> SUFFICES ASSUME NEW g \in given
                 PROVE  Holds(m, g[3], t) /\ Losses(given, g[3]) <= m.at[g[3]].refs
      BY Zenon
    <3>1. g[3] \in DOMAIN at BY <1>1, Zenon DEF Counted
    <3>2. m.at = at BY SoundFacts, Zenon
    <3> QED BY <3>1, <3>2, <1>4, Zenon DEF Holds
  <2>2. GiveUpAll(m, given, t) = IF can THEN [m EXCEPT !.at = new] ELSE Unsound(m)
    BY DEF GiveUpAll
  <2>3. m.at = at BY SoundFacts, Zenon
  <2>4. new = bt BY <2>3, Zenon
  <2> HIDE DEF new, bt, can
  <2> QED BY <2>1, <2>2, <2>4, SoundFacts, Zenon
<1>6. /\ DOMAIN bt = D /\ D \subseteq DOMAIN at
      /\ \A s \in D : bt[s] = [at[s] EXCEPT !.refs = @ - Losses(given, s)]
  OBVIOUS
<1> HIDE DEF bt
<1>7. \A s \in D : /\ bt[s] \in Storage /\ bt[s].refs = at[s].refs - Losses(given, s)
                   /\ bt[s].lost = at[s].lost /\ bt[s].type = at[s].type
                   /\ bt[s].items = at[s].items
  <2> SUFFICES ASSUME NEW s \in D
               PROVE  /\ bt[s] \in Storage /\ bt[s].refs = at[s].refs - Losses(given, s)
                      /\ bt[s].lost = at[s].lost /\ bt[s].type = at[s].type
                      /\ bt[s].items = at[s].items
    BY Zenon
  <2> DEFINE n == at[s].refs - Losses(given, s)
  <2>1. n \in Nat \ {0}
    <3>1. s \in DOMAIN at /\ at[s].refs > Losses(given, s) OBVIOUS
    <3> HIDE DEF D
    <3> QED BY <3>1, <1>2, <1>4
  <2>2. bt[s] = [at[s] EXCEPT !.refs = n] /\ at[s] \in Storage BY <1>2, <1>6
  <2> HIDE DEF n, D
  <2>3. /\ bt[s] \in Storage /\ bt[s].refs = n /\ bt[s].lost = at[s].lost
        /\ bt[s].type = at[s].type /\ bt[s].items = at[s].items
    BY <2>1, <2>2 DEF Storage
  <2> QED BY <2>3 DEF n
<1>8. Kept(at, bt) BY <1>6, <1>7, Zenon DEF Kept
<1>9. Counted(bt, A \ given)
  <2>1. DOMAIN bt = {s \in DOMAIN at : at[s].refs > Losses(given, s)} BY <1>6
  <2>2. \A s \in DOMAIN bt : /\ bt[s].refs = at[s].refs - Losses(given, s)
                             /\ bt[s].lost = at[s].lost
    BY <1>6, <1>7, Zenon
  <2> HIDE DEF A, D
  <2> QED BY <1>1, <1>2, <2>1, <2>2, CountGiven, Zenon
<1>10. \A s \in DOMAIN at \ D : at[s].type = t /\ \A i : <<s, i>> \notin M
  <2> SUFFICES ASSUME NEW s \in DOMAIN at \ D
               PROVE  at[s].type = t /\ \A i : <<s, i>> \notin M
    BY Zenon
  <2>1. Losses(given, s) # 0
    <3>1. ~(at[s].refs > Losses(given, s)) OBVIOUS
    <3> HIDE DEF D
    <3> QED BY <3>1, <1>2, <1>4
  <2>2. PICK g \in given : g[3] = s BY <1>4, <2>1 DEF Into
  <2>3. at[s].type = t BY <2>2, Zenon
  <2>4. ASSUME NEW i, <<s, i>> \in M PROVE FALSE
    <3>1. <<s, i>>[1] = s OBVIOUS
    <3> QED BY <2>3, <2>4, <3>1, Zenon
  <2> QED BY <2>3, <2>4, Zenon
<1>11. \A e : e \in next => e \in Items(at, M) /\ e[2][1] \notin D
  <2> SUFFICES ASSUME NEW r \in DOMAIN at \ D, NEW e \in ItemsOf(at, r)
               PROVE  e \in Items(at, M) /\ e[2][1] \notin D
    BY Zenon
  <2>1. PICK i \in DOMAIN at[r].items : IsItem(at, e, r, i) BY ItemsOfIs, Zenon
  <2>2. <<r, i>> \notin M BY <1>10, Zenon
  <2>3. e[2][1] = r BY <2>1 DEF IsItem
  <2> QED BY <2>1, <2>2, <2>3, ItemsIs, Zenon
<1>12. \A e \in Items(at, M) : e[2][1] \notin D => e \in next
  <2> SUFFICES ASSUME NEW e \in Items(at, M), e[2][1] \notin D PROVE e \in next
    BY Zenon
  <2>1. PICK r \in DOMAIN at : \E i \in DOMAIN at[r].items :
                                 IsItem(at, e, r, i) /\ <<r, i>> \notin M
    BY ItemsIs, Zenon
  <2>2. PICK i \in DOMAIN at[r].items : IsItem(at, e, r, i) BY <2>1, Zenon
  <2>3. e[2][1] = r BY <2>2 DEF IsItem
  <2>4. e \in ItemsOf(at, r) BY <2>2, ItemsOfIs, Zenon
  <2> HIDE DEF D
  <2> QED BY <2>3, <2>4, Zenon
<1>13. \A e : e \in Items(bt, M) <=> e \in Items(at, M) /\ e[2][1] \in D
  BY <1>6, <1>8, KeptItems, Zenon
<1>14. A \ given = ((E \ given) \cup next) \cup Items(bt, M)
  <2> HIDE DEF next, D
  <2> QED BY <1>1, <1>11, <1>12, <1>13
<1>15. (E \ given) \cap next = {} /\ ((E \ given) \cup next) \cap Items(bt, M) = {}
  <2> HIDE DEF next, D
  <2> QED BY <1>1, <1>11, <1>13
<1>16. \A e \in A \ given : e[3] \in D BY <1>6, <1>9, Zenon DEF Counted
<1>17. \A s \in D : ItemsOK(bt, s, M)
  <2> SUFFICES ASSUME NEW s \in D PROVE ItemsOK(bt, s, M) BY Zenon
  <2>1. ItemsOK(at, s, M) BY <1>1, <1>6, Zenon
  <2>2. /\ bt[s].lost = at[s].lost /\ bt[s].type = at[s].type /\ bt[s].items = at[s].items
    BY <1>7, Zenon
  <2>3. ASSUME NEW i \in DOMAIN at[s].items, <<s, i>> \notin M
        PROVE  IsOf(bt, at[s].items[i], ElementOf(at[s].type))
    <3> DEFINE v == at[s].items[i]
               u == ElementOf(at[s].type)
    <3>1. IsOf(at, v, u) BY <2>1, <2>3, Zenon DEF ItemsOK
    <3>2. CASE HasStorage(u)
      <4>1. v.kind = "ref" /\ v = Ref(v.id) /\ v.id \in DOMAIN at /\ at[v.id].type = u
        <5> HIDE DEF v, u
        <5> QED BY <1>1, <3>1, <3>2, IsOfFacts, Zenon
      <4> DEFINE e == <<"item", <<s, i>>, v.id>>
      <4>2. IsItem(at, e, s, i) BY <1>6, <4>1, Zenon DEF IsItem
      <4>3. e[2][1] = s /\ e[3] = v.id OBVIOUS
      <4> HIDE DEF e, v, u
      <4>4. e \in Items(at, M) BY <1>6, <2>3, <4>2, ItemsIs, Zenon
      <4>5. e \in A \ given BY <1>1, <4>4
      <4>6. v.id \in D BY <1>16, <4>3, <4>5, Zenon
      <4>7. bt[v.id].type = u BY <1>7, <4>1, <4>6, Zenon
      <4>8. IsOf(bt, v, u) BY <1>6, <3>2, <4>1, <4>6, <4>7, Zenon DEF IsOf
      <4> QED BY <4>8 DEF v, u
    <3>3. CASE ~HasStorage(u) BY <3>1, <3>3, Zenon DEF IsOf
    <3> QED BY <3>2, <3>3, Zenon
  <2> QED BY <2>1, <2>2, <2>3, Zenon DEF ItemsOK
<1>18. Typed(bt, M)
  <2>1. bt \in [D -> Storage]
    <3>1. \A s \in D : bt[s] \in Storage BY <1>7, Zenon
    <3>2. bt = [s \in D |-> bt[s]] BY DEF bt
    <3> HIDE DEF D
    <3> QED BY <3>1, <3>2
  <2>2. IsFiniteSet(D) /\ D \subseteq StorageId BY <1>1, <1>6, FS_Subset, Zenon
  <2> HIDE DEF D
  <2> QED BY <1>6, <1>17, <2>1, <2>2, Zenon DEF Typed
<1>19. Good(bt, (E \ given) \cup next, M) BY <1>9, <1>14, <1>15, <1>18, Zenon DEF Good
<1>20. ASSUME NEW e \in next
       PROVE  IsArray(t) /\ e[3] \in D /\ bt[e[3]].type = ElementOf(t)
  <2>1. PICK r \in DOMAIN at \ D : e \in ItemsOf(at, r) BY Zenon
  <2>2. PICK i \in DOMAIN at[r].items : IsItem(at, e, r, i) BY <2>1, ItemsOfIs, Zenon
  <2>3. at[r].type = t /\ <<r, i>> \notin M /\ ItemsOK(at, r, M) BY <1>1, <1>10, Zenon
  <2>4. IsArray(t)
    <3>1. at[r].items # <<>> BY <2>2
    <3> QED BY <2>3, <3>1, Zenon DEF ItemsOK
  <2> DEFINE v == at[r].items[i]
  <2>5. IsOf(at, v, ElementOf(t)) BY <2>2, <2>3, Zenon DEF ItemsOK
  <2>6. v.kind = "ref" /\ e[3] = v.id BY <2>2 DEF IsItem
  <2>7. at[e[3]].type = ElementOf(t)
    <3> HIDE DEF v
    <3>1. /\ v.kind = "ref" <=> HasStorage(ElementOf(t))
          /\ HasStorage(ElementOf(t)) =>
               v = Ref(v.id) /\ v.id \in DOMAIN at /\ at[v.id].type = ElementOf(t)
      BY <1>1, <2>5, IsOfFacts, Zenon
    <3> QED BY <2>6, <3>1, Zenon
  <2>8. e \in A \ given BY <1>1, <1>11
  <2>9. e[3] \in D BY <1>16, <2>8, Zenon
  <2> QED BY <2>4, <2>7, <2>9, <1>7, Zenon
<1>21. GiveOK(at, bt, E, M, given, t)
  <2> HIDE DEF D
  <2> QED BY <1>6, <1>8, <1>10, <1>15, <1>19, <1>20, Zenon DEF GiveOK
<1> QED BY <1>5, <1>21, Zenon

(* One reference is given up, and with the last one all that hangs on it.  *)
DecOK(at, bt, E, M, e, t) ==
  /\ Kept(at, bt) /\ Good(bt, E \ {e}, M)
  /\ \A s \in DOMAIN at \ DOMAIN bt : at[s].type.dims <= t.dims

LEMMA DecRefsFacts ==
  ASSUME NEW at, NEW E, NEW M, NEW e \in E, NEW t \in Type, Good(at, E, M),
         at[e[3]].type = t, <<"given", 0, e[3]>> \notin E,
         \A p \in M : p[1] \in DOMAIN at => at[p[1]].type.dims > t.dims
  PROVE  \E bt : /\ DecRefsCount(Sound(at), e[3], t) = Sound(bt)
                 /\ DecOK(at, bt, E, M, e, t)
<1> DEFINE n == t.dims + 1
           g0 == <<"given", 0, e[3]>>
           base == [memory |-> Sound(at), given |-> {g0}]
           G(x, d) == LET after == GiveUpAll(x.memory, x.given, [t EXCEPT !.dims = @ - (d - 1)])
                      IN  [memory |-> after,
                           given |-> UNION {ItemsOf(x.memory.at, r) : r \in Freed(x.memory, after)}]
           Is(f, k) == f = [d \in 0..k |-> IF d = 0 THEN base ELSE G(f[d - 1], d)]
           level == CHOOSE f : Is(f, n)
<1>1. DecRefsCount(Sound(at), e[3], t) = level[n].memory BY DEF DecRefsCount
<1>2. n \in Nat /\ t.dims \in Nat /\ n = t.dims + 1 BY TypeFacts, ValuesAssumption DEF ArrayFacts
<1> HIDE DEF n
<1> SUFFICES \E bt : level[n].memory = Sound(bt) /\ DecOK(at, bt, E, M, e, t)
  BY <1>1, Zenon
<1> DEFINE E1 == E \ {e}
           Ok(x, d) == \E bt : /\ x.memory = Sound(bt) /\ Kept(at, bt)
                               /\ Good(bt, E1 \cup x.given, M) /\ E1 \cap x.given = {}
                               /\ \A s \in DOMAIN at \ DOMAIN bt : at[s].type.dims <= t.dims
                               /\ \A g \in x.given : d <= t.dims /\ bt[g[3]].type = Down(t, d)
<1>3. Is(level, n)
  <2> HIDE DEF G, base
  <2> DEFINE P == {k \in Nat : \E f : Is(f, k)}
  <2>1. 0 \in P
    <3>1. Is([d \in 0..0 |-> base], 0) OBVIOUS
    <3> QED BY <3>1
  <2>2. ASSUME NEW k \in P PROVE k + 1 \in P
    <3>1. PICK f : Is(f, k) OBVIOUS
    <3> DEFINE h == [d \in 0..k + 1 |-> IF d = k + 1 THEN G(f[k], k + 1) ELSE f[d]]
    <3>2. h[k + 1] = G(f[k], k + 1) /\ \A d \in 0..k : h[d] = f[d] OBVIOUS
    <3>3. \A d \in 0..k : f[d] = IF d = 0 THEN base ELSE G(f[d - 1], d) BY <3>1
    <3>4. h = [d \in 0..k + 1 |-> h[d]] BY DEF h
    <3> HIDE DEF h
    <3>5. \A d \in 0..k + 1 : h[d] = IF d = 0 THEN base ELSE G(h[d - 1], d)
      <4> SUFFICES ASSUME NEW d \in 0..k + 1
                   PROVE  h[d] = IF d = 0 THEN base ELSE G(h[d - 1], d)
        BY Zenon
      <4>1. CASE d = k + 1
        <5>1. d # 0 /\ d - 1 = k /\ k \in 0..k BY <4>1
        <5> QED BY <4>1, <5>1, <3>2, Zenon
      <4>2. CASE d = 0
        <5>1. d \in 0..k BY <4>2
        <5> QED BY <4>2, <5>1, <3>2, <3>3, Zenon
      <4>3. CASE d \in 1..k
        <5>1. d \in 0..k /\ d - 1 \in 0..k /\ d # 0 BY <4>3
        <5> QED BY <5>1, <3>2, <3>3, Zenon
      <4> QED BY <4>1, <4>2, <4>3
    <3>6. Is(h, k + 1) BY <3>4, <3>5, Zenon
    <3> QED BY <3>6
  <2>3. P \in SUBSET Nat OBVIOUS
  <2> HIDE DEF P
  <2>4. n \in P BY <1>2, <2>1, <2>2, <2>3, SetInduction, Zenon
  <2>5. \E f : Is(f, n) BY <2>4 DEF P
  <2> HIDE DEF Is
  <2> QED BY <2>5, Zenon
<1> HIDE DEF level
<1>4. level[0] = base /\ \A d \in 1..n : level[d] = G(level[d - 1], d)
  <2> HIDE DEF G, base
  <2>1. \A d \in 0..n : level[d] = IF d = 0 THEN base ELSE G(level[d - 1], d) BY <1>3, Zenon
  <2>2. 0 \in 0..n /\ \A d \in 1..n : d \in 0..n /\ d # 0 BY <1>2
  <2> QED BY <2>1, <2>2, Zenon
<1> HIDE DEF Is
<1>5. Ok(level[0], 0)
  <2>1. level[0].memory = Sound(at) /\ level[0].given = {g0} BY <1>4
  <2>2. Kept(at, at) BY Zenon DEF Kept
  <2>3. E1 \cap {g0} = {} /\ g0[3] = e[3] /\ 0 <= t.dims BY <1>2
  <2>4. Down(t, 0) = t BY DownFacts, Zenon
  <2>5. g0 \notin E \cup Items(at, M)
    <3>1. ASSUME g0 \in Items(at, M) PROVE FALSE
      <4>1. \E s \in DOMAIN at : \E i \in DOMAIN at[s].items :
              IsItem(at, g0, s, i) /\ <<s, i>> \notin M
        <5> HIDE DEF g0
        <5> QED BY <3>1, ItemsIs, Zenon
      <4>2. g0[1] = "item" BY <4>1 DEF IsItem
      <4> QED BY <4>2
    <3> QED BY <3>1, Zenon
  <2>6. Good(at, E1 \cup {g0}, M)
    <3> HIDE DEF g0
    <3>1. Typed(at, M) /\ Counted(at, E \cup Items(at, M)) /\ E \cap Items(at, M) = {}
      BY Zenon DEF Good
    <3>2. SameCounts(at, at) BY Zenon DEF SameCounts
    <3>3. Counted(at, ((E \cup Items(at, M)) \ {e}) \cup {g0})
      BY <2>3, <2>5, <3>1, <3>2, CountMove, Zenon
    <3>4. ((E \cup Items(at, M)) \ {e}) \cup {g0} = (E1 \cup {g0}) \cup Items(at, M)
      BY <3>1
    <3>5. (E1 \cup {g0}) \cap Items(at, M) = {} BY <2>5, <3>1
    <3> QED BY <3>1, <3>3, <3>4, <3>5, Zenon DEF Good
  <2> HIDE DEF g0, E1
  <2> QED BY <2>1, <2>2, <2>3, <2>4, <2>6, Zenon
<1>6. ASSUME NEW d \in 0..t.dims, Ok(level[d], d) PROVE Ok(level[d + 1], d + 1)
  <2> DEFINE x == level[d]
             u == Down(t, d)
  <2>1. PICK bt : /\ x.memory = Sound(bt) /\ Kept(at, bt)
                  /\ Good(bt, E1 \cup x.given, M) /\ E1 \cap x.given = {}
                  /\ \A s \in DOMAIN at \ DOMAIN bt : at[s].type.dims <= t.dims
                  /\ \A g \in x.given : d <= t.dims /\ bt[g[3]].type = u
    BY <1>6, Zenon
  <2>2. /\ u \in Type /\ u.dims = t.dims - d /\ (IsArray(u) <=> d < t.dims)
        /\ d < t.dims => ElementOf(u) = Down(t, d + 1)
    <3>1. DownIs(t, d) BY DownFacts, Zenon
    <3> QED BY <3>1, Zenon DEF DownIs
  <2>3. \A p \in M : p[1] \in DOMAIN bt => bt[p[1]].type # u
    <3> SUFFICES ASSUME NEW p \in M, p[1] \in DOMAIN bt PROVE bt[p[1]].type # u BY Zenon
    <3>1. p[1] \in DOMAIN at /\ bt[p[1]].type = at[p[1]].type BY <2>1, Zenon DEF Kept
    <3>2. at[p[1]].type.dims > t.dims BY <3>1, Zenon
    <3>3. u.dims <= t.dims BY <1>2, <2>2
    <3>4. at[p[1]].type.dims # u.dims
      <4> HIDE DEF u
      <4>1. u.dims \in Int /\ t.dims \in Int BY <1>2, <2>2
      <4> QED BY <3>2, <3>3, <4>1, <1>2
    <3> QED BY <3>1, <3>4, Zenon
  <2>4. PICK ct : /\ GiveUpAll(Sound(bt), x.given, u) = Sound(ct)
                  /\ GiveOK(bt, ct, E1 \cup x.given, M, x.given, u)
    <3> HIDE DEF u, x, E1
    <3>1. x.given \in SUBSET (E1 \cup x.given) BY Zenon
    <3>2. \A g \in x.given : bt[g[3]].type = u BY <2>1, Zenon
    <3>3. Good(bt, E1 \cup x.given, M) BY <2>1, Zenon
    <3> QED BY <2>2, <2>3, <3>1, <3>2, <3>3, GiveLevel, Zenon
  <2> DEFINE next == UNION {ItemsOf(bt, r) : r \in DOMAIN bt \ DOMAIN ct}
  <2>5. level[d + 1].memory = Sound(ct) /\ level[d + 1].given = next
    <3>1. d + 1 \in 1..n /\ (d + 1) - 1 = d BY <1>2
    <3>2. level[d + 1] = G(x, d + 1)
      <4> HIDE DEF G
      <4> QED BY <1>4, <3>1, Zenon
    <3>3. [t EXCEPT !.dims = @ - ((d + 1) - 1)] = u BY <3>1, Zenon DEF Down
    <3>4. GiveUpAll(x.memory, x.given, [t EXCEPT !.dims = @ - ((d + 1) - 1)]) = Sound(ct)
      <4> HIDE DEF x, u
      <4> QED BY <2>1, <2>4, <3>3, Zenon
    <3>5. G(x, d + 1) = [memory |-> Sound(ct),
                         given |-> UNION {ItemsOf(Sound(bt).at, r) : r \in Freed(Sound(bt), Sound(ct))}]
      <4> HIDE DEF x, u
      <4> QED BY <2>1, <3>4, Zenon
    <3>6. Freed(Sound(bt), Sound(ct)) = DOMAIN bt \ DOMAIN ct /\ Sound(bt).at = bt
      BY SoundFacts, Zenon DEF Freed
    <3>7. G(x, d + 1) = [memory |-> Sound(ct), given |-> next]
      <4> HIDE DEF G
      <4> QED BY <3>5, <3>6, Zenon
    <3> HIDE DEF G, x, next
    <3> QED BY <3>2, <3>7
  <2>6. /\ Kept(bt, ct)
        /\ Good(ct, ((E1 \cup x.given) \ x.given) \cup next, M)
        /\ ((E1 \cup x.given) \ x.given) \cap next = {}
        /\ \A s \in DOMAIN bt \ DOMAIN ct : bt[s].type = u
        /\ \A g \in next : IsArray(u) /\ ct[g[3]].type = ElementOf(u)
    <3> HIDE DEF x, u, E1
    <3> QED BY <2>4, Zenon DEF GiveOK
  <2>7. (E1 \cup x.given) \ x.given = E1
    <3> HIDE DEF x, E1
    <3> QED BY <2>1
  <2>8. Kept(at, ct)
    <3> HIDE DEF x, u, next
    <3>1. Kept(at, bt) /\ Kept(bt, ct) BY <2>1, <2>6, Zenon
    <3> QED BY <3>1, Zenon DEF Kept
  <2>9. ASSUME NEW s \in DOMAIN at \ DOMAIN ct PROVE at[s].type.dims <= t.dims
    <3>1. CASE s \in DOMAIN bt
      <4>1. bt[s].type = u BY <2>6, <3>1, Zenon
      <4>2. bt[s].type = at[s].type BY <2>1, <3>1, Zenon DEF Kept
      <4>3. u.dims <= t.dims BY <1>2, <2>2
      <4> QED BY <4>1, <4>2, <4>3, Zenon
    <3>2. CASE s \notin DOMAIN bt BY <2>1, <3>2, Zenon
    <3> QED BY <3>1, <3>2, Zenon
  <2>10. ASSUME NEW g \in next PROVE d + 1 <= t.dims /\ ct[g[3]].type = Down(t, d + 1)
    <3>1. IsArray(u) /\ ct[g[3]].type = ElementOf(u) BY <2>6, Zenon
    <3>2. d < t.dims BY <2>2, <3>1, Zenon
    <3>3. d + 1 <= t.dims BY <1>2, <3>2
    <3> QED BY <2>2, <3>1, <3>2, <3>3, Zenon
  <2> HIDE DEF x, u, next, E1
  <2> QED BY <2>5, <2>6, <2>7, <2>8, <2>9, <2>10, Zenon
<1>7. Ok(level[n], n)
  <2> HIDE DEF Ok
  <2> DEFINE P == {d \in Nat : d <= n => Ok(level[d], d)}
  <2>1. 0 \in P BY <1>5
  <2>2. ASSUME NEW d \in P PROVE d + 1 \in P
    <3>1. ASSUME d + 1 <= n PROVE Ok(level[d + 1], d + 1)
      <4>1. d \in 0..t.dims /\ d <= n BY <1>2, <3>1
      <4> QED BY <1>6, <4>1
    <3> QED BY <3>1
  <2>3. P \in SUBSET Nat OBVIOUS
  <2> HIDE DEF P
  <2>4. n \in P BY <1>2, <2>1, <2>2, <2>3, SetInduction, Zenon
  <2> QED BY <1>2, <2>4 DEF P
<1>8. PICK bt : /\ level[n].memory = Sound(bt) /\ Kept(at, bt)
                /\ Good(bt, E1 \cup level[n].given, M)
                /\ \A s \in DOMAIN at \ DOMAIN bt : at[s].type.dims <= t.dims
                /\ \A g \in level[n].given : n <= t.dims
  BY <1>7, Zenon
<1>9. level[n].given = {}
  <2>1. ~(n <= t.dims) BY <1>2
  <2> QED BY <1>8, <2>1, Zenon
<1>10. E1 \cup level[n].given = E1
  <2> HIDE DEF E1
  <2> QED BY <1>9
<1>11. Good(bt, E \ {e}, M) BY <1>8, <1>10
<1> QED BY <1>8, <1>11, Zenon DEF DecOK

(* What holds of a value, after storages were added or some were freed.    *)
Grown(at, bt) ==
  DOMAIN at \subseteq DOMAIN bt /\ \A s \in DOMAIN at : bt[s].type = at[s].type

LEMMA GrownIsOf ==
  ASSUME NEW at, NEW bt, Grown(at, bt)
  PROVE  \A v, t : IsOf(at, v, t) => IsOf(bt, v, t)
<1> SUFFICES ASSUME NEW v, NEW t, IsOf(at, v, t) PROVE IsOf(bt, v, t) BY Zenon
<1>1. CASE HasStorage(t)
  <2>1. PICK s \in DOMAIN at : v = Ref(s) /\ at[s].type = t BY <1>1, Zenon DEF IsOf
  <2>2. s \in DOMAIN bt /\ bt[s].type = t BY <2>1, Zenon DEF Grown
  <2> QED BY <1>1, <2>1, <2>2, Zenon DEF IsOf
<1>2. CASE ~HasStorage(t) BY <1>2, Zenon DEF IsOf
<1> QED BY <1>1, <1>2

LEMMA KeptIsOf ==
  ASSUME NEW at, NEW bt, NEW v, NEW t, Kept(at, bt), IsOf(at, v, t),
         DOMAIN at \subseteq StorageId, v.kind = "ref" => v.id \in DOMAIN bt
  PROVE  IsOf(bt, v, t)
<1>1. CASE HasStorage(t)
  <2>1. v.kind = "ref" /\ v = Ref(v.id) /\ v.id \in DOMAIN at /\ at[v.id].type = t
    BY <1>1, IsOfFacts, Zenon
  <2>2. v.id \in DOMAIN bt /\ bt[v.id].type = t BY <2>1, Zenon DEF Kept
  <2> QED BY <1>1, <2>1, <2>2, Zenon DEF IsOf
<1>2. CASE ~HasStorage(t) BY <1>2, Zenon DEF IsOf
<1> QED BY <1>1, <1>2

LEMMA NotAnItem ==
  ASSUME NEW e, e[1] # "item"
  PROVE  \A at, M : e \notin Items(at, M)
<1> SUFFICES ASSUME NEW at, NEW M, e \in Items(at, M) PROVE FALSE BY Zenon
<1>1. PICK s \in DOMAIN at : \E i \in DOMAIN at[s].items : IsItem(at, e, s, i) /\ <<s, i>> \notin M
  BY ItemsIs, Zenon
<1>2. e[1] = "item" BY <1>1 DEF IsItem
<1> QED BY <1>2

(* Another variable or operand holds a reference. *)
LEMMA MoveOuter ==
  ASSUME NEW at, NEW E, NEW M, NEW e \in E, NEW f, Good(at, E, M),
         f[1] # "item", f \notin E, f[3] = e[3]
  PROVE  Good(at, (E \ {e}) \cup {f}, M)
<1>1. Typed(at, M) /\ Counted(at, E \cup Items(at, M)) /\ E \cap Items(at, M) = {}
  BY Zenon DEF Good
<1>2. f \notin Items(at, M) BY NotAnItem, Zenon
<1>3. SameCounts(at, at) BY Zenon DEF SameCounts
<1>4. Counted(at, ((E \cup Items(at, M)) \ {e}) \cup {f})
  BY <1>1, <1>2, <1>3, CountMove, Zenon
<1>5. ((E \cup Items(at, M)) \ {e}) \cup {f} = ((E \ {e}) \cup {f}) \cup Items(at, M)
  BY <1>1
<1>6. ((E \ {e}) \cup {f}) \cap Items(at, M) = {} BY <1>1, <1>2
<1> QED BY <1>1, <1>4, <1>5, <1>6, Zenon DEF Good

Alike(at, bt) ==
  /\ DOMAIN bt = DOMAIN at /\ bt \in [DOMAIN at -> Storage]
  /\ \A s \in DOMAIN at : /\ bt[s].type = at[s].type /\ bt[s].items = at[s].items
                          /\ bt[s].lost > 0 => bt[s].type = String0

LEMMA TypedSame ==
  ASSUME NEW at, NEW bt, NEW M, Typed(at, M), Alike(at, bt)
  PROVE  Typed(bt, M) /\ Items(bt, M) = Items(at, M)
<1>0. /\ DOMAIN bt = DOMAIN at /\ bt \in [DOMAIN at -> Storage]
      /\ \A s \in DOMAIN at : /\ bt[s].type = at[s].type /\ bt[s].items = at[s].items
                              /\ bt[s].lost > 0 => bt[s].type = String0
  BY Zenon DEF Alike
<1>1. Grown(at, bt) BY <1>0, Zenon DEF Grown
<1>2. ASSUME NEW s \in DOMAIN at PROVE ItemsOK(bt, s, M)
  <2>1. ItemsOK(at, s, M) BY Zenon DEF Typed
  <2>2. /\ bt[s].type = at[s].type /\ bt[s].items = at[s].items
        /\ bt[s].lost > 0 => bt[s].type = String0
    BY <1>0, Zenon
  <2>3. \A i \in DOMAIN at[s].items :
          <<s, i>> \notin M => IsOf(bt, at[s].items[i], ElementOf(at[s].type))
    BY <1>1, <2>1, GrownIsOf, Zenon DEF ItemsOK
  <2> QED BY <2>1, <2>2, <2>3, Zenon DEF ItemsOK
<1>3. Typed(bt, M) BY <1>0, <1>2, Zenon DEF Typed
<1>4. \A e, s, i : IsItem(at, e, s, i) <=> IsItem(bt, e, s, i)
  <2> SUFFICES ASSUME NEW e, NEW s, NEW i PROVE IsItem(at, e, s, i) <=> IsItem(bt, e, s, i)
    BY Zenon
  <2>1. CASE s \in DOMAIN at
    <3>1. bt[s].items = at[s].items BY <1>0, <2>1, Zenon
    <3> QED BY <1>0, <3>1, Zenon DEF IsItem
  <2>2. CASE s \notin DOMAIN at BY <1>0, <2>2, Zenon DEF IsItem
  <2> QED BY <2>1, <2>2
<1>5. \A e : e \in Items(bt, M) <=> e \in Items(at, M)
  <2> SUFFICES ASSUME NEW e PROVE e \in Items(bt, M) <=> e \in Items(at, M) BY Zenon
  <2>1. \A s \in DOMAIN at : bt[s].items = at[s].items BY <1>0, Zenon
  <2>2. (\E s \in DOMAIN at : \E i \in DOMAIN at[s].items : IsItem(at, e, s, i) /\ <<s, i>> \notin M)
          <=> \E s \in DOMAIN bt : \E i \in DOMAIN bt[s].items :
                IsItem(bt, e, s, i) /\ <<s, i>> \notin M
    BY <1>0, <1>4, <2>1
  <2> QED BY <2>2, ItemsIs, Zenon
<1> QED BY <1>3, <1>5

(* Clone counts one reference more. *)
Cloned(at, bt, E, M, e) ==
  Good(bt, E \cup {e}, M) /\ DOMAIN bt = DOMAIN at /\ Kept(at, bt)

LEMMA CloneFacts ==
  ASSUME NEW at, NEW E, NEW M, NEW t, NEW e, Good(at, E, M), e \notin E, e[1] # "item",
         e[3] \in DOMAIN at, at[e[3]].type = t
  PROVE  \E bt : Clone(Sound(at), e[3], t) = Sound(bt) /\ Cloned(at, bt, E, M, e)
<1> DEFINE s == e[3]
           bt == [at EXCEPT ![s].refs = @ + 1]
<1>1. /\ Typed(at, M) /\ Counted(at, E \cup Items(at, M)) /\ E \cap Items(at, M) = {}
      /\ at \in [DOMAIN at -> Storage]
  BY Zenon DEF Good, Typed
<1>2. Clone(Sound(at), s, t) = Sound(bt)
  <2>1. Holds(Sound(at), s, t) BY SoundFacts, Zenon DEF Holds
  <2>2. Clone(Sound(at), s, t) = [Sound(at) EXCEPT !.at[s].refs = @ + 1]
    BY <2>1, Zenon DEF Clone
  <2>3. [Sound(at) EXCEPT !.at[s].refs = @ + 1] = [Sound(at) EXCEPT !.at = bt]
    BY SoundFacts
  <2> HIDE DEF bt
  <2> QED BY <2>2, <2>3, SoundFacts, Zenon
<1>3. DOMAIN bt = DOMAIN at /\ bt[s] = [at[s] EXCEPT !.refs = @ + 1]
      /\ \A r \in DOMAIN at : r # s => bt[r] = at[r]
  OBVIOUS
<1> HIDE DEF bt
<1>4. \A r \in DOMAIN at : at[r] \in Storage BY <1>1, Zenon
<1>5. /\ bt[s] \in Storage /\ bt[s].refs = at[s].refs + 1 /\ bt[s].lost = at[s].lost
      /\ bt[s].type = at[s].type /\ bt[s].items = at[s].items
  <2>1. at[s] \in Storage BY <1>4
  <2> HIDE DEF s
  <2> QED BY <1>3, <2>1 DEF Storage
<1>6. \A r \in DOMAIN at :
        /\ bt[r] \in Storage /\ bt[r].type = at[r].type /\ bt[r].items = at[r].items
        /\ bt[r].lost = at[r].lost /\ at[r].lost \in Nat
        /\ bt[r].refs = IF r = s THEN at[r].refs + 1 ELSE at[r].refs
  <2>1. \A r \in DOMAIN at : at[r].lost \in Nat BY <1>4 DEF Storage
  <2> HIDE DEF s
  <2> QED BY <1>3, <1>4, <1>5, <2>1, Zenon
<1>7. bt \in [DOMAIN at -> Storage]
  <2>1. bt = [r \in DOMAIN bt |-> bt[r]] BY <1>1 DEF bt
  <2> QED BY <1>3, <1>6, <2>1
<1>8. \A r \in DOMAIN at : bt[r].lost > 0 => bt[r].type = String0
  BY <1>1, <1>6, Zenon DEF Typed, ItemsOK
<1>9. Typed(bt, M) /\ Items(bt, M) = Items(at, M)
  <2>1. Alike(at, bt) BY <1>3, <1>6, <1>7, <1>8, Zenon DEF Alike
  <2> QED BY <1>1, <2>1, TypedSame, Zenon
<1>10. e \notin Items(at, M) BY NotAnItem, Zenon
<1>11. Counted(bt, (E \cup Items(at, M)) \cup {e})
  <2>1. e \notin E \cup Items(at, M) BY <1>10, Zenon
  <2>2. \A r \in DOMAIN at :
          /\ bt[r].lost = at[r].lost /\ at[r].lost \in Nat
          /\ bt[r].refs = IF r = e[3] THEN at[r].refs + 1 ELSE at[r].refs
    BY <1>6, Zenon
  <2>3. Counted(at, E \cup Items(at, M)) /\ DOMAIN bt = DOMAIN at BY <1>1, <1>3, Zenon
  <2> QED BY <2>1, <2>2, <2>3, CountAdd, Zenon
<1>12. (E \cup Items(at, M)) \cup {e} = (E \cup {e}) \cup Items(bt, M) BY <1>9
<1>13. (E \cup {e}) \cap Items(bt, M) = {} BY <1>1, <1>9, <1>10
<1>14. Good(bt, E \cup {e}, M) BY <1>9, <1>11, <1>12, <1>13, Zenon DEF Good
<1>15. Kept(at, bt) BY <1>3, <1>6, Zenon DEF Kept
<1> QED BY <1>2, <1>3, <1>14, <1>15, Zenon DEF Cloned

(* There is a free address. *)
LEMMA FreeIdIs ==
  ASSUME ~IsFiniteSet(StorageId), NEW at, IsFiniteSet(DOMAIN at)
  PROVE  FreeId(Sound(at)) \in StorageId \ DOMAIN at
<1> DEFINE S == StorageId \ DOMAIN at
           R == OpToRel(<, Nat)
<1>1. S # {}
  <2>1. ASSUME StorageId \subseteq DOMAIN at PROVE FALSE BY <2>1, FS_Subset, Zenon
  <2> QED BY <2>1
<1>2. S \subseteq Nat BY ValuesAssumption
<1> HIDE DEF S
<1>3. \E x \in S : \A y \in S : x <= y
  <2>1. IsWellFoundedOn(R, Nat) BY NatLessThanWellFounded, Zenon
  <2>2. PICK x \in S : \A y \in S : <<y, x>> \notin R
    <3> HIDE DEF R
    <3>1. S \in SUBSET Nat BY <1>2, Zenon
    <3> QED BY <1>1, <2>1, <3>1, WFMin, Zenon
  <2>3. ASSUME NEW y \in S PROVE x <= y
    <3>1. x \in Nat /\ y \in Nat BY <1>2
    <3>2. ~(y < x)
      <4>1. <<y, x>> \notin R BY <2>2, Zenon
      <4> QED BY <3>1, <4>1, Zenon DEF OpToRel
    <3> HIDE DEF R
    <3> QED BY <3>1, <3>2
  <2> QED BY <2>3, Zenon
<1>4. FreeId(Sound(at)) = CHOOSE x \in S : \A y \in S : x <= y
  <2>1. Sound(at).at = at BY SoundFacts, Zenon
  <2> QED BY <2>1, Zenon DEF FreeId, S
<1>5. FreeId(Sound(at)) \in S BY <1>3, <1>4, Zenon
<1> QED BY <1>5, Zenon DEF S

(* Allocate gives a storage with one reference. *)
NewOK(at, bt, s, t, items) ==
  /\ DOMAIN bt = DOMAIN at \cup {s} /\ bt[s] = NewStorage(t, items)
  /\ \A r \in DOMAIN at : bt[r] = at[r]
  /\ bt = [r \in DOMAIN bt |-> bt[r]]

LEMMA AllocateIs ==
  ASSUME NEW at, NEW s, NEW t, NEW items, s \notin DOMAIN at
  PROVE  \E bt : Allocate(Sound(at), s, t, items) = Sound(bt) /\ NewOK(at, bt, s, t, items)
<1> DEFINE bt == [r \in DOMAIN at \cup {s} |-> IF r = s THEN NewStorage(t, items) ELSE at[r]]
<1>1. Allocate(Sound(at), s, t, items) = Sound(bt)
  <2>1. Sound(at).at = at BY SoundFacts, Zenon
  <2>2. Allocate(Sound(at), s, t, items) = [Sound(at) EXCEPT !.at = bt]
    BY <2>1, Zenon DEF Allocate
  <2> HIDE DEF bt
  <2> QED BY <2>2, SoundFacts, Zenon
<1>2. NewOK(at, bt, s, t, items)
  <2>1. /\ DOMAIN bt = DOMAIN at \cup {s} /\ bt[s] = NewStorage(t, items)
        /\ \A r \in DOMAIN at : bt[r] = at[r]
    BY Zenon
  <2>2. bt = [r \in DOMAIN bt |-> bt[r]] BY Zenon
  <2> HIDE DEF bt
  <2> QED BY <2>1, <2>2, Zenon DEF NewOK
<1> QED BY <1>1, <1>2, Zenon

LEMMA NewStorageIs ==
  ASSUME NEW t, NEW items
  PROVE  /\ NewStorage(t, items).refs = 1 /\ NewStorage(t, items).type = t
         /\ NewStorage(t, items).items = items /\ NewStorage(t, items).lost = 0
         /\ t \in Type \ {Int0} /\ items \in Seq(Value) => NewStorage(t, items) \in Storage
BY DEF NewStorage, Storage

AddedOK(at, bt, E, M, s, t, e) ==
  /\ Good(bt, E \cup {e}, M) /\ Grown(at, bt) /\ bt[s].type = t
  /\ s \in DOMAIN bt /\ e \notin E

LEMMA NewFacts ==
  ASSUME NEW at, NEW E, NEW M, NEW bt, NEW s, NEW t \in Type, NEW e, Good(at, E, M),
         NewOK(at, bt, s, t, <<>>), s \in StorageId \ DOMAIN at, HasStorage(t),
         e[1] # "item", e[3] = s
  PROVE  AddedOK(at, bt, E, M, s, t, e)
<1>1. /\ Typed(at, M) /\ Counted(at, E \cup Items(at, M)) /\ E \cap Items(at, M) = {}
      /\ at \in [DOMAIN at -> Storage] /\ DOMAIN at \subseteq StorageId
      /\ IsFiniteSet(DOMAIN at) /\ \A r \in DOMAIN at : ItemsOK(at, r, M)
  BY Zenon DEF Good, Typed
<1>2. /\ DOMAIN bt = DOMAIN at \cup {s} /\ bt[s] = NewStorage(t, <<>>)
      /\ \A r \in DOMAIN at : bt[r] = at[r] /\ bt = [q \in DOMAIN bt |-> bt[q]]
  BY Zenon DEF NewOK
<1>3. /\ bt[s].refs = 1 /\ bt[s].type = t /\ bt[s].items = <<>> /\ bt[s].lost = 0
      /\ bt[s] \in Storage
  <2>1. t \in Type \ {Int0} BY DEF HasStorage
  <2>2. <<>> \in Seq(Value) OBVIOUS
  <2> DEFINE new == NewStorage(t, <<>>)
  <2>3. new.refs = 1 /\ new.type = t /\ new.items = <<>> /\ new.lost = 0 BY NewStorageIs
  <2>4. new \in Storage BY <2>1, <2>2, NewStorageIs
  <2> HIDE DEF new
  <2>5. bt[s] = new BY <1>2 DEF new
  <2> QED BY <2>3, <2>4, <2>5, Zenon
<1>4. Grown(at, bt) BY <1>2, Zenon DEF Grown
<1>5. bt \in [DOMAIN bt -> Storage]
  <2>1. \A r \in DOMAIN bt : bt[r] \in Storage BY <1>1, <1>2, <1>3
  <2>2. bt = [q \in DOMAIN bt |-> bt[q]] BY DEF NewOK
  <2> QED BY <2>1, <2>2
<1>6. IsFiniteSet(DOMAIN bt) /\ DOMAIN bt \subseteq StorageId
  <2>1. IsFiniteSet(DOMAIN at \cup {s}) BY <1>1, FS_AddElement, Zenon
  <2> QED BY <1>1, <1>2, <2>1
<1>7. ASSUME NEW r \in DOMAIN bt PROVE ItemsOK(bt, r, M)
  <2>1. CASE r = s
    <3>1. DOMAIN bt[r].items = {} /\ ~(bt[r].lost > 0) /\ bt[r].items = <<>> BY <1>3, <2>1
    <3> QED BY <3>1, Zenon DEF ItemsOK
  <2>2. CASE r \in DOMAIN at
    <3>1. ItemsOK(at, r, M) /\ bt[r] = at[r] BY <1>1, <1>2, <2>2, Zenon
    <3> QED BY <1>4, <3>1, GrownIsOf, Zenon DEF ItemsOK
  <2> QED BY <1>2, <2>1, <2>2, Zenon
<1>8. Typed(bt, M) BY <1>5, <1>6, <1>7, Zenon DEF Typed
<1>9. \A x : x \in Items(bt, M) <=> x \in Items(at, M)
  <2> SUFFICES ASSUME NEW x PROVE x \in Items(bt, M) <=> x \in Items(at, M) BY Zenon
  <2>1. \A r \in DOMAIN at : \A i : IsItem(at, x, r, i) <=> IsItem(bt, x, r, i)
    BY <1>2, Zenon DEF IsItem
  <2>2. DOMAIN bt[s].items = {} BY <1>3
  <2>3. (\E r \in DOMAIN at : \E i \in DOMAIN at[r].items : IsItem(at, x, r, i) /\ <<r, i>> \notin M)
          <=> \E r \in DOMAIN bt : \E i \in DOMAIN bt[r].items :
                IsItem(bt, x, r, i) /\ <<r, i>> \notin M
    <3>1. DOMAIN bt = DOMAIN at \cup {s} /\ \A r \in DOMAIN at : bt[r] = at[r] BY <1>2, Zenon
    <3> QED BY <2>1, <2>2, <3>1
  <2> QED BY <2>3, ItemsIs, Zenon
<1>10. Items(bt, M) = Items(at, M) BY <1>9
<1>11. e \notin Items(at, M) BY NotAnItem, Zenon
<1>12. Counted(bt, (E \cup Items(at, M)) \cup {e})
  <2>1. /\ e[3] \notin DOMAIN at /\ DOMAIN bt = DOMAIN at \cup {e[3]}
        /\ bt[e[3]].refs = 1 /\ bt[e[3]].lost = 0
    BY <1>2, <1>3, Zenon
  <2>2. Counted(at, E \cup Items(at, M)) /\ \A r \in DOMAIN at : bt[r] = at[r]
    BY <1>1, <1>2, Zenon
  <2> QED BY <2>1, <2>2, CountNew, Zenon
<1>13. (E \cup Items(at, M)) \cup {e} = (E \cup {e}) \cup Items(bt, M) BY <1>10
<1>14. (E \cup {e}) \cap Items(bt, M) = {} BY <1>1, <1>10, <1>11
<1>15. Good(bt, E \cup {e}, M) BY <1>8, <1>12, <1>13, <1>14, Zenon DEF Good
<1>16. e \notin E BY <1>1, Zenon DEF Counted
<1> QED BY <1>2, <1>3, <1>4, <1>15, <1>16, Zenon DEF AddedOK

(* An array takes one more item; a reference moves there. *)
Taken(at, bt, s, v) ==
  /\ DOMAIN bt = DOMAIN at /\ bt \in [DOMAIN at -> Storage]
  /\ \A r \in DOMAIN at \ {s} : bt[r] = at[r]
  /\ bt[s].type = at[s].type /\ bt[s].refs = at[s].refs /\ bt[s].lost = at[s].lost
  /\ bt[s].items = Append(at[s].items, v)

LEMMA TakenFacts ==
  ASSUME NEW at, NEW E, NEW bt, NEW s \in DOMAIN at, NEW v, NEW e, Good(at, E, {}),
         Taken(at, bt, s, v), IsArray(at[s].type), IsOf(at, v, ElementOf(at[s].type)),
         v.kind = "ref" => e \in E /\ e[3] = v.id, \A f \in E : f[1] # "item"
  PROVE  Good(bt, IF v.kind = "ref" THEN E \ {e} ELSE E, {}) /\ Grown(at, bt)
<1> DEFINE n == Len(at[s].items)
           f == <<"item", <<s, n + 1>>, v.id>>
           new == IF v.kind = "ref" THEN {f} ELSE {}
           E1 == IF v.kind = "ref" THEN E \ {e} ELSE E
<1>1. /\ Typed(at, {}) /\ Counted(at, E \cup Items(at, {})) /\ E \cap Items(at, {}) = {}
      /\ at \in [DOMAIN at -> Storage] /\ DOMAIN at \subseteq StorageId
      /\ IsFiniteSet(DOMAIN at) /\ \A r \in DOMAIN at : ItemsOK(at, r, {})
  BY Zenon DEF Good, Typed
<1>2. /\ DOMAIN bt = DOMAIN at /\ bt \in [DOMAIN at -> Storage]
      /\ \A r \in DOMAIN at \ {s} : bt[r] = at[r]
      /\ bt[s].type = at[s].type /\ bt[s].refs = at[s].refs /\ bt[s].lost = at[s].lost
      /\ bt[s].items = Append(at[s].items, v)
  BY Zenon DEF Taken
<1>3. at[s].items \in Seq(Value) /\ v \in Value
  <2>1. at[s] \in Storage BY <1>1
  <2>2. at[s].items \in Seq(Value) BY <2>1 DEF Storage
  <2>3. v \in Value BY <1>1, IsOfFacts, Zenon
  <2> QED BY <2>2, <2>3
<1>4. /\ n \in Nat /\ DOMAIN at[s].items = 1..n /\ DOMAIN bt[s].items = 1..n + 1
      /\ bt[s].items[n + 1] = v /\ \A i \in 1..n : bt[s].items[i] = at[s].items[i]
  <2> DEFINE vs == at[s].items
  <2>1. vs \in Seq(Value) BY <1>3
  <2> HIDE DEF vs
  <2>2. /\ Len(vs) \in Nat /\ DOMAIN vs = 1..Len(vs) /\ DOMAIN Append(vs, v) = 1..Len(vs) + 1
        /\ Append(vs, v)[Len(vs) + 1] = v
        /\ \A i \in 1..Len(vs) : Append(vs, v)[i] = vs[i]
    BY <1>3, <2>1
  <2> USE DEF vs
  <2> QED BY <1>2, <2>2, Zenon
<1> HIDE DEF n
<1>5. Grown(at, bt)
  <2>1. \A r \in DOMAIN at : bt[r].type = at[r].type BY <1>2, Zenon
  <2> QED BY <1>2, <2>1, Zenon DEF Grown
<1>6. ASSUME NEW r \in DOMAIN at PROVE ItemsOK(bt, r, {})
  <2>1. ItemsOK(at, r, {}) BY <1>1, Zenon
  <2>2. CASE r = s
    <3>1. ASSUME NEW i \in 1..n + 1 PROVE IsOf(bt, bt[s].items[i], ElementOf(bt[s].type))
      <4>1. CASE i = n + 1
        <5>1. IsOf(bt, v, ElementOf(at[s].type)) BY <1>5, GrownIsOf, Zenon
        <5> QED BY <1>2, <1>4, <4>1, <5>1, Zenon
      <4>2. CASE i \in 1..n
        <5>1. IsOf(at, at[s].items[i], ElementOf(at[s].type))
          BY <1>4, <2>1, <2>2, <4>2, Zenon DEF ItemsOK
        <5>2. IsOf(bt, at[s].items[i], ElementOf(at[s].type)) BY <1>5, <5>1, GrownIsOf, Zenon
        <5> QED BY <1>2, <1>4, <4>2, <5>2, Zenon
      <4> QED BY <1>4, <4>1, <4>2
    <3>2. bt[s].lost > 0 => bt[s].type = String0 BY <1>2, <2>1, <2>2, Zenon DEF ItemsOK
    <3> QED BY <1>2, <1>4, <2>2, <3>1, <3>2, Zenon DEF ItemsOK
  <2>3. CASE r # s
    <3>1. bt[r] = at[r] BY <1>2, <2>3
    <3> QED BY <1>5, <2>1, <3>1, GrownIsOf, Zenon DEF ItemsOK
  <2> QED BY <2>2, <2>3
<1>7. Typed(bt, {}) BY <1>1, <1>2, <1>6, Zenon DEF Typed
<1>8. ASSUME NEW x PROVE x \in Items(bt, {}) <=> x \in Items(at, {}) \/ x \in new
  <2>1. \A r \in DOMAIN at \ {s} : \A i :
          DOMAIN bt[r].items = DOMAIN at[r].items /\ (IsItem(at, x, r, i) <=> IsItem(bt, x, r, i))
    BY <1>2, Zenon DEF IsItem
  <2>2. \A i \in 1..n : IsItem(at, x, s, i) <=> IsItem(bt, x, s, i)
    <3>1. \A i \in 1..n : i \in 1..n + 1 BY <1>4
    <3> QED BY <1>2, <1>4, <3>1, Zenon DEF IsItem
  <2>3. x \in new <=> IsItem(bt, x, s, n + 1)
    <3>1. n + 1 \in 1..n + 1 BY <1>4
    <3> QED BY <1>2, <1>4, <3>1, Zenon DEF IsItem
  <2> HIDE DEF new
  <2>4. ASSUME x \in Items(bt, {}) PROVE x \in Items(at, {}) \/ x \in new
    <3>1. PICK r \in DOMAIN bt : \E i \in DOMAIN bt[r].items : IsItem(bt, x, r, i) /\ <<r, i>> \notin {}
      BY <2>4, ItemsIs, Zenon
    <3>2. PICK i \in DOMAIN bt[r].items : IsItem(bt, x, r, i) BY <3>1, Zenon
    <3>3. CASE r # s
      <4>1. r \in DOMAIN at /\ i \in DOMAIN at[r].items /\ IsItem(at, x, r, i)
        BY <1>2, <2>1, <3>2, <3>3
      <4> QED BY <4>1, ItemsIs, Zenon
    <3>4. CASE r = s /\ i = n + 1 BY <2>3, <3>2, <3>4, Zenon
    <3>5. CASE r = s /\ i \in 1..n
      <4>1. IsItem(at, x, s, i) /\ i \in DOMAIN at[s].items BY <1>4, <2>2, <3>2, <3>5, Zenon
      <4> QED BY <4>1, ItemsIs, Zenon
    <3>6. r = s => i \in 1..n + 1 BY <1>4, <3>2, Zenon
    <3> QED BY <1>4, <3>3, <3>4, <3>5, <3>6
  <2>5. ASSUME x \in Items(at, {}) PROVE x \in Items(bt, {})
    <3>1. PICK r \in DOMAIN at : \E i \in DOMAIN at[r].items : IsItem(at, x, r, i) /\ <<r, i>> \notin {}
      BY <2>5, ItemsIs, Zenon
    <3>2. PICK i \in DOMAIN at[r].items : IsItem(at, x, r, i) BY <3>1, Zenon
    <3>3. CASE r # s
      <4>1. r \in DOMAIN bt /\ i \in DOMAIN bt[r].items /\ IsItem(bt, x, r, i)
        BY <1>2, <2>1, <3>2, <3>3
      <4> QED BY <4>1, ItemsIs, Zenon
    <3>4. CASE r = s
      <4>1. i \in 1..n BY <1>4, <3>2, <3>4, Zenon
      <4>2. i \in 1..n + 1 BY <1>4, <4>1
      <4>3. IsItem(bt, x, s, i) /\ i \in DOMAIN bt[s].items BY <1>4, <2>2, <3>2, <3>4, <4>1, <4>2, Zenon
      <4> QED BY <1>2, <4>3, ItemsIs, Zenon
    <3> QED BY <3>3, <3>4
  <2>6. ASSUME x \in new PROVE x \in Items(bt, {})
    <3>1. IsItem(bt, x, s, n + 1) /\ n + 1 \in DOMAIN bt[s].items
      BY <2>3, <2>6, Zenon DEF IsItem
    <3> QED BY <1>2, <3>1, ItemsIs, Zenon
  <2> QED BY <2>4, <2>5, <2>6, Zenon
<1>9. Items(bt, {}) = Items(at, {}) \cup new
  <2> HIDE DEF new
  <2> QED BY <1>8
<1>10. SameCounts(at, bt)
  <2>1. \A r \in DOMAIN at : bt[r].refs = at[r].refs /\ bt[r].lost = at[r].lost BY <1>2, Zenon
  <2> QED BY <1>2, <2>1, Zenon DEF SameCounts
<1>11. Counted(bt, E1 \cup Items(bt, {})) /\ E1 \cap Items(bt, {}) = {}
  <2> DEFINE A == E \cup Items(at, {})
  <2>1. CASE v.kind = "ref"
    <3>1. f \notin A
      <4>1. f[1] = "item" /\ f[2] = <<s, n + 1>> OBVIOUS
      <4>2. f \notin E BY <4>1, Zenon
      <4>3. ASSUME f \in Items(at, {}) PROVE FALSE
        <5>1. PICK r \in DOMAIN at : \E i \in DOMAIN at[r].items :
                IsItem(at, f, r, i) /\ <<r, i>> \notin {}
          <6> HIDE DEF f
          <6> QED BY <4>3, ItemsIs, Zenon
        <5>2. PICK i \in DOMAIN at[r].items : f = <<"item", <<r, i>>, at[r].items[i].id>>
          BY <5>1, Zenon DEF IsItem
        <5>3. <<r, i>> = <<s, n + 1>> BY <4>1, <5>2
        <5>4. r = s /\ i = n + 1 BY <5>3
        <5>5. n + 1 \in 1..n BY <1>4, <5>2, <5>4, Zenon
        <5> QED BY <1>4, <5>5
      <4> QED BY <4>2, <4>3
    <3>2. e \in A /\ f[3] = e[3] BY <2>1
    <3> HIDE DEF f
    <3>3. Counted(bt, (A \ {e}) \cup {f})
      <4> HIDE DEF A
      <4>1. Counted(at, A) BY <1>1 DEF A
      <4> QED BY <1>10, <3>1, <3>2, <4>1, CountMove, Zenon
    <3>4. e \in E BY <2>1
    <3>5. new = {f} /\ E1 = E \ {e} BY <2>1
    <3>6. (A \ {e}) \cup {f} = E1 \cup Items(bt, {}) BY <1>1, <1>9, <3>1, <3>4, <3>5
    <3>7. E1 \cap Items(bt, {}) = {} BY <1>1, <1>9, <3>1, <3>4, <3>5
    <3> QED BY <3>3, <3>6, <3>7
  <2>2. CASE v.kind # "ref"
    <3>1. E1 = E /\ Items(bt, {}) = Items(at, {}) BY <1>9, <2>2
    <3>2. Counted(bt, A) BY <1>1, <1>2, <1>10, Zenon DEF Counted, SameCounts
    <3> QED BY <1>1, <3>1, <3>2, Zenon
  <2> QED BY <2>1, <2>2
<1> HIDE DEF E1
<1>12. Good(bt, E1, {}) BY <1>7, <1>11, Zenon DEF Good
<1> QED BY <1>5, <1>12, Zenon DEF E1

(* A value that is or was referred to from a place. *)
With(E, h, i, v) == IF v.kind = "ref" THEN E \cup {<<h, i, v.id>>} ELSE E
Without(E, h, i, v) == IF v.kind = "ref" THEN E \ {<<h, i, v.id>>} ELSE E

NoItems(E) == \A e \in E : e[1] # "item"

LEMMA AppendItem ==
  ASSUME NEW at, NEW s \in DOMAIN at, NEW v \in Value, at \in [DOMAIN at -> Storage]
  PROVE  \E bt : /\ [Sound(at) EXCEPT !.at[s].items = Append(@, v)] = Sound(bt)
                 /\ Taken(at, bt, s, v)
<1> DEFINE bt == [at EXCEPT ![s].items = Append(@, v)]
<1>1. [Sound(at) EXCEPT !.at[s].items = Append(@, v)] = Sound(bt)
  <2>1. [Sound(at) EXCEPT !.at[s].items = Append(@, v)] = [Sound(at) EXCEPT !.at = bt]
    BY SoundFacts
  <2> HIDE DEF bt
  <2> QED BY <2>1, SoundFacts, Zenon
<1>2. at[s] \in Storage /\ at[s].items \in Seq(Value)
  <2>1. at[s] \in Storage OBVIOUS
  <2> QED BY <2>1 DEF Storage
<1>3. Append(at[s].items, v) \in Seq(Value) BY <1>2
<1>4. DOMAIN bt = DOMAIN at /\ bt[s] = [at[s] EXCEPT !.items = Append(@, v)]
      /\ \A r \in DOMAIN at \ {s} : bt[r] = at[r]
  OBVIOUS
<1>5. bt = [r \in DOMAIN bt |-> bt[r]] OBVIOUS
<1> HIDE DEF bt
<1>6. /\ bt[s] \in Storage /\ bt[s].refs = at[s].refs /\ bt[s].lost = at[s].lost
      /\ bt[s].type = at[s].type /\ bt[s].items = Append(at[s].items, v)
  <2> DEFINE vs == Append(at[s].items, v)
  <2>1. bt[s] = [at[s] EXCEPT !.items = vs] BY <1>4
  <2>2. vs \in Seq(Value) BY <1>3
  <2> HIDE DEF vs
  <2>3. /\ bt[s] \in Storage /\ bt[s].refs = at[s].refs /\ bt[s].lost = at[s].lost
        /\ bt[s].type = at[s].type /\ bt[s].items = vs
    BY <1>2, <2>1, <2>2 DEF Storage
  <2> QED BY <2>3 DEF vs
<1>7. bt \in [DOMAIN at -> Storage]
  <2>1. \A r \in DOMAIN at : bt[r] \in Storage BY <1>4, <1>6
  <2> QED BY <1>4, <1>5, <2>1
<1>8. Taken(at, bt, s, v) BY <1>4, <1>6, <1>7, Zenon DEF Taken
<1> QED BY <1>1, <1>8, Zenon

(* new are storages of a type. *)
Built(x, at, E, t) ==
  \E bt : /\ x = [memory |-> Sound(bt), new |-> x.new] /\ Good(bt, E, {}) /\ Grown(at, bt)
          /\ x.new \in Seq(StorageId)
          /\ \A i \in DOMAIN x.new : x.new[i] \in DOMAIN bt /\ bt[x.new[i]].type = t

LEMMA AddItemFacts ==
  ASSUME ~IsFiniteSet(StorageId), NEW x, NEW at, NEW E, NEW t \in Type, NEW s \in DOMAIN at,
         Built(x, at, E, t), NoItems(E), IsArray(at[s].type), ElementOf(at[s].type) = t
  PROVE  Built(AddItem(x, s, t), at, E, t)
<1>1. PICK bt : /\ x = [memory |-> Sound(bt), new |-> x.new] /\ Good(bt, E, {}) /\ Grown(at, bt)
                /\ x.new \in Seq(StorageId)
                /\ \A i \in DOMAIN x.new : x.new[i] \in DOMAIN bt /\ bt[x.new[i]].type = t
  BY Zenon DEF Built
<1>2. s \in DOMAIN bt /\ bt[s].type = at[s].type BY <1>1, Zenon DEF Grown
<1>3. /\ IsFiniteSet(DOMAIN bt) /\ bt \in [DOMAIN bt -> Storage] /\ DOMAIN bt \subseteq StorageId
  BY <1>1, Zenon DEF Good, Typed
<1>4. x.memory = Sound(bt) BY <1>1
<1>5. CASE HasStorage(t)
  <2> DEFINE r == FreeId(x.memory)
             e == <<"new", 0, r>>
  <2>1. r \in StorageId \ DOMAIN bt BY <1>3, <1>4, FreeIdIs, Zenon
  <2> HIDE DEF r
  <2>2. PICK ct : Allocate(Sound(bt), r, t, <<>>) = Sound(ct) /\ NewOK(bt, ct, r, t, <<>>)
    BY <2>1, AllocateIs, Zenon
  <2>3. e[1] # "item" /\ e[3] = r OBVIOUS
  <2> HIDE DEF e
  <2>4. /\ Good(ct, E \cup {e}, {}) /\ Grown(bt, ct) /\ ct[r].type = t
        /\ r \in DOMAIN ct /\ e \notin E
    <3>1. AddedOK(bt, ct, E, {}, r, t, e)
      BY <1>1, <1>5, <2>1, <2>2, <2>3, NewFacts, Zenon
    <3> QED BY <3>1, Zenon DEF AddedOK
  <2>5. s \in DOMAIN ct /\ ct[s].type = at[s].type BY <1>2, <2>4, Zenon DEF Grown
  <2>6. IsOf(ct, Ref(r), t) BY <1>5, <2>4, Zenon DEF IsOf
  <2>7. ct \in [DOMAIN ct -> Storage] BY <2>4, Zenon DEF Good, Typed
  <2>8. Ref(r) \in Value BY <2>1, Zenon DEF Value
  <2>9. PICK dt : /\ [Sound(ct) EXCEPT !.at[s].items = Append(@, Ref(r))] = Sound(dt)
                  /\ Taken(ct, dt, s, Ref(r))
    BY <2>5, <2>7, <2>8, AppendItem, Zenon
  <2>10. Good(dt, E, {}) /\ Grown(ct, dt)
    <3>1. Ref(r).kind = "ref" /\ Ref(r).id = r BY ValueFacts, Zenon
    <3>2. \A f \in E \cup {e} : f[1] # "item" BY <2>3, Zenon DEF NoItems
    <3>3. e \in E \cup {e} /\ e[3] = Ref(r).id /\ (E \cup {e}) \ {e} = E
      BY <2>3, <2>4, <3>1
    <3>4. IsOf(ct, Ref(r), ElementOf(ct[s].type)) /\ IsArray(ct[s].type) BY <2>5, <2>6, Zenon
    <3>5. Good(dt, IF Ref(r).kind = "ref" THEN (E \cup {e}) \ {e} ELSE E \cup {e}, {})
          /\ Grown(ct, dt)
      <4> DEFINE F == E \cup {e}
                 w == Ref(r)
      <4>1. Good(ct, F, {}) /\ \A f \in F : f[1] # "item" BY <2>4, <3>2
      <4>2. w.kind = "ref" => e \in F /\ e[3] = w.id BY <3>3
      <4>3. Taken(ct, dt, s, w) /\ IsOf(ct, w, ElementOf(ct[s].type)) BY <2>9, <3>4
      <4> HIDE DEF F, w
      <4>4. Good(dt, IF w.kind = "ref" THEN F \ {e} ELSE F, {}) /\ Grown(ct, dt)
        BY <2>5, <3>4, <4>1, <4>2, <4>3, TakenFacts, Zenon
      <4> QED BY <4>4 DEF F, w
    <3> QED BY <3>1, <3>3, <3>5
  <2>11. AddItem(x, s, t) = [memory |-> Sound(dt), new |-> Append(x.new, r)]
    BY <1>4, <1>5, <2>2, <2>9, Zenon DEF AddItem, r
  <2>12. Append(x.new, r) \in Seq(StorageId) BY <1>1, <2>1
  <2>13. \A i \in DOMAIN Append(x.new, r) :
           Append(x.new, r)[i] \in DOMAIN dt /\ dt[Append(x.new, r)[i]].type = t
    <3> SUFFICES ASSUME NEW i \in DOMAIN Append(x.new, r)
                 PROVE  Append(x.new, r)[i] \in DOMAIN dt /\ dt[Append(x.new, r)[i]].type = t
      BY Zenon
    <3>1. \A q \in DOMAIN bt : q \in DOMAIN dt /\ dt[q].type = bt[q].type
      BY <2>4, <2>10, Zenon DEF Grown
    <3>2. r \in DOMAIN dt /\ dt[r].type = t BY <2>4, <2>10, Zenon DEF Grown
    <3>3. CASE i \in DOMAIN x.new
      <4>1. Append(x.new, r)[i] = x.new[i] BY <1>1, <2>1, <3>3
      <4> QED BY <1>1, <3>1, <3>3, <4>1, Zenon
    <3>4. CASE i \notin DOMAIN x.new
      <4>1. Append(x.new, r)[i] = r BY <1>1, <2>1, <3>4
      <4> QED BY <3>2, <4>1, Zenon
    <3> QED BY <3>3, <3>4
  <2>14. Grown(at, dt) BY <1>1, <2>4, <2>10, Zenon DEF Grown
  <2> DEFINE y == [memory |-> Sound(dt), new |-> Append(x.new, r)]
  <2>15. y = [memory |-> Sound(dt), new |-> y.new] /\ y.new = Append(x.new, r) BY Zenon
  <2> HIDE DEF y
  <2>16. Built(y, at, E, t) BY <2>10, <2>12, <2>13, <2>14, <2>15, Zenon DEF Built
  <2> QED BY <2>11, <2>16 DEF y
<1>6. CASE ~HasStorage(t)
  <2>1. AnInt \in Value /\ AnInt.kind # "ref" /\ IsOf(bt, AnInt, t)
    <3>1. IsOf(bt, AnInt, t) BY <1>6, Zenon DEF IsOf, AnInt
    <3>2. "int" # "ref" /\ AnInt.kind = "int" BY ValueFacts DEF AnInt
    <3> QED BY <1>3, <3>1, <3>2, IsOfFacts, Zenon
  <2>2. PICK dt : /\ [Sound(bt) EXCEPT !.at[s].items = Append(@, AnInt)] = Sound(dt)
                  /\ Taken(bt, dt, s, AnInt)
    BY <1>2, <1>3, <2>1, AppendItem, Zenon
  <2>3. Good(dt, E, {}) /\ Grown(bt, dt)
    <3>1. IsOf(bt, AnInt, ElementOf(bt[s].type)) /\ IsArray(bt[s].type) BY <1>2, <2>1, Zenon
    <3>2. Good(dt, IF AnInt.kind = "ref" THEN E \ {AnInt} ELSE E, {}) /\ Grown(bt, dt)
      <4> DEFINE w == AnInt
      <4>1. w.kind = "ref" => AnInt \in E /\ AnInt[3] = w.id BY <2>1
      <4>2. \A f \in E : f[1] # "item" BY DEF NoItems
      <4>3. Taken(bt, dt, s, w) /\ IsOf(bt, w, ElementOf(bt[s].type)) BY <2>2, <3>1
      <4> HIDE DEF w
      <4>4. Good(dt, IF w.kind = "ref" THEN E \ {AnInt} ELSE E, {}) /\ Grown(bt, dt)
        BY <1>1, <1>2, <3>1, <4>1, <4>2, <4>3, TakenFacts, Zenon
      <4> QED BY <4>4 DEF w
    <3> QED BY <2>1, <3>2, Zenon
  <2>4. AddItem(x, s, t) = [memory |-> Sound(dt), new |-> x.new]
    BY <1>4, <1>6, <2>2, Zenon DEF AddItem
  <2>5. Grown(at, dt) BY <1>1, <2>3, Zenon DEF Grown
  <2>6. \A i \in DOMAIN x.new : x.new[i] \in DOMAIN dt /\ dt[x.new[i]].type = t
    BY <1>1, <2>3, Zenon DEF Grown
  <2> DEFINE y == [memory |-> Sound(dt), new |-> x.new]
  <2>7. y = [memory |-> Sound(dt), new |-> y.new] /\ y.new = x.new BY Zenon
  <2> HIDE DEF y
  <2>8. Built(y, at, E, t) BY <1>1, <2>3, <2>5, <2>6, <2>7, Zenon DEF Built
  <2> QED BY <2>4, <2>8 DEF y
<1> QED BY <1>5, <1>6

LEMMA AddItemsFacts ==
  ASSUME ~IsFiniteSet(StorageId), NEW x, NEW at, NEW E, NEW t \in Type, NEW s \in DOMAIN at,
         NEW n \in Nat,
         Built(x, at, E, t), NoItems(E), IsArray(at[s].type), ElementOf(at[s].type) = t
  PROVE  Built(AddItems(x, s, t, n), at, E, t)
<1> DEFINE base == x
           G(y, d) == AddItem(y, s, t)
           Is(f, k) == f = [d \in 0..k |-> IF d = 0 THEN base ELSE G(f[d - 1], d)]
           level == CHOOSE f : Is(f, n)
           Ok(y, d) == Built(y, at, E, t)
<1>1. AddItems(x, s, t, n) = level[n] BY DEF AddItems
<1>2. n \in Nat OBVIOUS
<1>3. Is(level, n)
  <2> HIDE DEF G, base
  <2> DEFINE P == {k \in Nat : \E f : Is(f, k)}
  <2>1. 0 \in P
    <3>1. Is([d \in 0..0 |-> base], 0) OBVIOUS
    <3> QED BY <3>1
  <2>2. ASSUME NEW k \in P PROVE k + 1 \in P
    <3>1. PICK f : Is(f, k) OBVIOUS
    <3> DEFINE h == [d \in 0..k + 1 |-> IF d = k + 1 THEN G(f[k], k + 1) ELSE f[d]]
    <3>2. h[k + 1] = G(f[k], k + 1) /\ \A d \in 0..k : h[d] = f[d] OBVIOUS
    <3>3. \A d \in 0..k : f[d] = IF d = 0 THEN base ELSE G(f[d - 1], d) BY <3>1
    <3>4. h = [d \in 0..k + 1 |-> h[d]] BY DEF h
    <3> HIDE DEF h
    <3>5. \A d \in 0..k + 1 : h[d] = IF d = 0 THEN base ELSE G(h[d - 1], d)
      <4> SUFFICES ASSUME NEW d \in 0..k + 1
                   PROVE  h[d] = IF d = 0 THEN base ELSE G(h[d - 1], d)
        BY Zenon
      <4>1. CASE d = k + 1
        <5>1. d # 0 /\ d - 1 = k /\ k \in 0..k BY <4>1
        <5> QED BY <4>1, <5>1, <3>2, Zenon
      <4>2. CASE d = 0
        <5>1. d \in 0..k BY <4>2
        <5> QED BY <4>2, <5>1, <3>2, <3>3, Zenon
      <4>3. CASE d \in 1..k
        <5>1. d \in 0..k /\ d - 1 \in 0..k /\ d # 0 BY <4>3
        <5> QED BY <5>1, <3>2, <3>3, Zenon
      <4> QED BY <4>1, <4>2, <4>3
    <3>6. Is(h, k + 1) BY <3>4, <3>5, Zenon
    <3> QED BY <3>6
  <2>3. P \in SUBSET Nat OBVIOUS
  <2> HIDE DEF P
  <2>4. n \in P BY <1>2, <2>1, <2>2, <2>3, SetInduction, Zenon
  <2>5. \E f : Is(f, n) BY <2>4 DEF P
  <2> HIDE DEF Is
  <2> QED BY <2>5, Zenon
<1> HIDE DEF level
<1>4. level[0] = base /\ \A d \in 1..n : level[d] = G(level[d - 1], d)
  <2> HIDE DEF G, base
  <2>1. \A d \in 0..n : level[d] = IF d = 0 THEN base ELSE G(level[d - 1], d) BY <1>3, Zenon
  <2>2. 0 \in 0..n /\ \A d \in 1..n : d \in 0..n /\ d # 0 BY <1>2
  <2> QED BY <2>1, <2>2, Zenon
<1> HIDE DEF Is
<1>5. Ok(level[0], 0) BY <1>4, Zenon
<1>6. ASSUME NEW d \in 0..n - 1, Ok(level[d], d) PROVE Ok(level[d + 1], d + 1)
  <2>1. d + 1 \in 1..n /\ (d + 1) - 1 = d BY <1>2
  <2>2. level[d + 1] = AddItem(level[d], s, t) BY <1>4, <2>1, Zenon
  <2>3. Built(level[d], at, E, t) BY <1>6, Zenon
  <2> QED BY <2>2, <2>3, AddItemFacts, Zenon
<1>7. Ok(level[n], n)
  <2> HIDE DEF Ok
  <2> DEFINE P == {d \in Nat : d <= n => Ok(level[d], d)}
  <2>1. 0 \in P BY <1>5
  <2>2. ASSUME NEW d \in P PROVE d + 1 \in P
    <3>1. ASSUME d + 1 <= n PROVE Ok(level[d + 1], d + 1)
      <4>1. d \in 0..n - 1 /\ d <= n BY <1>2, <3>1
      <4> QED BY <1>6, <4>1
    <3> QED BY <3>1
  <2>3. P \in SUBSET Nat OBVIOUS
  <2> HIDE DEF P
  <2>4. n \in P BY <1>2, <2>1, <2>2, <2>3, SetInduction, Zenon
  <2> QED BY <1>2, <2>4 DEF P
<1> QED BY <1>1, <1>7, Zenon

LEMMA FillArraysFacts ==
  ASSUME ~IsFiniteSet(StorageId), NEW at, NEW E, NEW t \in Type, NEW arrays \in Seq(StorageId),
         NEW size \in Nat, Good(at, E, {}), NoItems(E),
         \A i \in DOMAIN arrays : /\ arrays[i] \in DOMAIN at /\ IsArray(at[arrays[i]].type)
                                  /\ ElementOf(at[arrays[i]].type) = t
  PROVE  Built(FillArrays(Sound(at), arrays, t, size), at, E, t)
<1> DEFINE n == Len(arrays)
           base == [memory |-> Sound(at), new |-> <<>>]
           G(y, d) == AddItems(y, arrays[d], t, size)
           Is(f, k) == f = [d \in 0..k |-> IF d = 0 THEN base ELSE G(f[d - 1], d)]
           level == CHOOSE f : Is(f, n)
           Ok(y, d) == Built(y, at, E, t)
<1>1. FillArrays(Sound(at), arrays, t, size) = level[n] BY DEF FillArrays
<1>2. n \in Nat /\ DOMAIN arrays = 1..n OBVIOUS
<1> HIDE DEF n
<1>3. Is(level, n)
  <2> HIDE DEF G, base
  <2> DEFINE P == {k \in Nat : \E f : Is(f, k)}
  <2>1. 0 \in P
    <3>1. Is([d \in 0..0 |-> base], 0) OBVIOUS
    <3> QED BY <3>1
  <2>2. ASSUME NEW k \in P PROVE k + 1 \in P
    <3>1. PICK f : Is(f, k) OBVIOUS
    <3> DEFINE h == [d \in 0..k + 1 |-> IF d = k + 1 THEN G(f[k], k + 1) ELSE f[d]]
    <3>2. h[k + 1] = G(f[k], k + 1) /\ \A d \in 0..k : h[d] = f[d] OBVIOUS
    <3>3. \A d \in 0..k : f[d] = IF d = 0 THEN base ELSE G(f[d - 1], d) BY <3>1
    <3>4. h = [d \in 0..k + 1 |-> h[d]] BY DEF h
    <3> HIDE DEF h
    <3>5. \A d \in 0..k + 1 : h[d] = IF d = 0 THEN base ELSE G(h[d - 1], d)
      <4> SUFFICES ASSUME NEW d \in 0..k + 1
                   PROVE  h[d] = IF d = 0 THEN base ELSE G(h[d - 1], d)
        BY Zenon
      <4>1. CASE d = k + 1
        <5>1. d # 0 /\ d - 1 = k /\ k \in 0..k BY <4>1
        <5> QED BY <4>1, <5>1, <3>2, Zenon
      <4>2. CASE d = 0
        <5>1. d \in 0..k BY <4>2
        <5> QED BY <4>2, <5>1, <3>2, <3>3, Zenon
      <4>3. CASE d \in 1..k
        <5>1. d \in 0..k /\ d - 1 \in 0..k /\ d # 0 BY <4>3
        <5> QED BY <5>1, <3>2, <3>3, Zenon
      <4> QED BY <4>1, <4>2, <4>3
    <3>6. Is(h, k + 1) BY <3>4, <3>5, Zenon
    <3> QED BY <3>6
  <2>3. P \in SUBSET Nat OBVIOUS
  <2> HIDE DEF P
  <2>4. n \in P BY <1>2, <2>1, <2>2, <2>3, SetInduction, Zenon
  <2>5. \E f : Is(f, n) BY <2>4 DEF P
  <2> HIDE DEF Is
  <2> QED BY <2>5, Zenon
<1> HIDE DEF level
<1>4. level[0] = base /\ \A d \in 1..n : level[d] = G(level[d - 1], d)
  <2> HIDE DEF G, base
  <2>1. \A d \in 0..n : level[d] = IF d = 0 THEN base ELSE G(level[d - 1], d) BY <1>3, Zenon
  <2>2. 0 \in 0..n /\ \A d \in 1..n : d \in 0..n /\ d # 0 BY <1>2
  <2> QED BY <2>1, <2>2, Zenon
<1> HIDE DEF Is
<1>5. Ok(level[0], 0)
  <2>1. base.new = <<>> /\ base = [memory |-> Sound(at), new |-> base.new] OBVIOUS
  <2>2. base.new \in Seq(StorageId) /\ DOMAIN base.new = {} OBVIOUS
  <2>3. Grown(at, at) BY Zenon DEF Grown
  <2> HIDE DEF base
  <2>4. Built(base, at, E, t) BY <2>1, <2>2, <2>3, Zenon DEF Built
  <2> QED BY <1>4, <2>4, Zenon
<1>6. ASSUME NEW d \in 0..n - 1, Ok(level[d], d) PROVE Ok(level[d + 1], d + 1)
  <2>1. d + 1 \in 1..n /\ (d + 1) - 1 = d BY <1>2
  <2>2. level[d + 1] = AddItems(level[d], arrays[d + 1], t, size) BY <1>4, <2>1, Zenon
  <2>3. Built(level[d], at, E, t) BY <1>6, Zenon
  <2>4. /\ arrays[d + 1] \in DOMAIN at /\ IsArray(at[arrays[d + 1]].type)
        /\ ElementOf(at[arrays[d + 1]].type) = t
    BY <1>2, <2>1, Zenon
  <2> QED BY <2>2, <2>3, <2>4, AddItemsFacts, Zenon
<1>7. Ok(level[n], n)
  <2> HIDE DEF Ok
  <2> DEFINE P == {d \in Nat : d <= n => Ok(level[d], d)}
  <2>1. 0 \in P BY <1>5
  <2>2. ASSUME NEW d \in P PROVE d + 1 \in P
    <3>1. ASSUME d + 1 <= n PROVE Ok(level[d + 1], d + 1)
      <4>1. d \in 0..n - 1 /\ d <= n BY <1>2, <3>1
      <4> QED BY <1>6, <4>1
    <3> QED BY <3>1
  <2>3. P \in SUBSET Nat OBVIOUS
  <2> HIDE DEF P
  <2>4. n \in P BY <1>2, <2>1, <2>2, <2>3, SetInduction, Zenon
  <2> QED BY <1>2, <2>4 DEF P
<1> QED BY <1>1, <1>7, Zenon

(* A new value of a type, and the place from which it is referred to. *)
Made(x, at, E, h, i, t) ==
  \E bt, v : /\ x = [memory |-> Sound(bt), value |-> v] /\ IsOf(bt, v, t) /\ Grown(at, bt)
             /\ v.kind = "ref" => v.id \notin DOMAIN at
             /\ Good(bt, With(E, h, i, v), {})

LEMMA MultidimensionalFacts ==
  ASSUME ~IsFiniteSet(StorageId), NEW at, NEW E, NEW t \in Type, NEW h, NEW i, h # "item",
         Good(at, E, {}), NoItems(E), NEW dimensions \in Seq(Nat), Len(dimensions) <= t.dims
  PROVE  Made(Multidimensional(Sound(at), t, dimensions), at, E, h, i, t)
<1>1. CASE ~HasStorage(t)
  <2>1. Multidimensional(Sound(at), t, dimensions) = [memory |-> Sound(at), value |-> AnInt]
    BY <1>1, Zenon DEF Multidimensional
  <2>2. IsOf(at, AnInt, t) BY <1>1, Zenon DEF IsOf, AnInt
  <2>3. AnInt.kind # "ref"
    <3>1. "int" # "ref" /\ AnInt.kind = "int" BY ValueFacts DEF AnInt
    <3> QED BY <3>1
  <2>4. With(E, h, i, AnInt) = E BY <2>3, Zenon DEF With
  <2>5. Grown(at, at) BY Zenon DEF Grown
  <2> QED BY <2>1, <2>2, <2>3, <2>4, <2>5, Zenon DEF Made
<1>2. CASE HasStorage(t)
  <2> DEFINE s == FreeId(Sound(at))
             n == Len(dimensions)
             base == [memory |-> Allocate(Sound(at), s, t, <<>>), new |-> <<s>>]
             G(y, d) == FillArrays(y.memory, y.new, [t EXCEPT !.dims = @ - d], dimensions[d])
             Is(f, k) == f = [d \in 0..k |-> IF d = 0 THEN base ELSE G(f[d - 1], d)]
             level == CHOOSE f : Is(f, n)
             e == <<h, i, s>>
  <2>1. Multidimensional(Sound(at), t, dimensions)
          = [memory |-> level[n].memory, value |-> Ref(s)]
    BY <1>2, Zenon DEF Multidimensional
  <2>2. /\ n \in Nat /\ DOMAIN dimensions = 1..n /\ n <= t.dims /\ t.dims \in Nat
        /\ \A d \in 1..n : dimensions[d] \in Nat
    BY TypeFacts, ValuesAssumption DEF ArrayFacts
  <2>3. s \in StorageId \ DOMAIN at
    <3>1. IsFiniteSet(DOMAIN at) BY Zenon DEF Good, Typed
    <3> QED BY <3>1, FreeIdIs, Zenon
  <2> HIDE DEF s, n
  <2>4. PICK bt : Allocate(Sound(at), s, t, <<>>) = Sound(bt) /\ NewOK(at, bt, s, t, <<>>)
    BY <2>3, AllocateIs, Zenon
  <2>5. e[1] # "item" /\ e[3] = s OBVIOUS
  <2> HIDE DEF e
  <2>6. /\ Good(bt, E \cup {e}, {}) /\ Grown(at, bt) /\ bt[s].type = t /\ s \in DOMAIN bt
    <3>1. AddedOK(at, bt, E, {}, s, t, e) BY <1>2, <2>3, <2>4, <2>5, NewFacts, Zenon
    <3> QED BY <3>1, Zenon DEF AddedOK
  <2>7. NoItems(E \cup {e}) BY <2>5, Zenon DEF NoItems
<2>8. Is(level, n)
  <3> HIDE DEF G, base
  <3> DEFINE P == {k \in Nat : \E f : Is(f, k)}
  <3>1. 0 \in P
    <4>1. Is([d \in 0..0 |-> base], 0) OBVIOUS
    <4> QED BY <4>1
  <3>2. ASSUME NEW k \in P PROVE k + 1 \in P
    <4>1. PICK f : Is(f, k) OBVIOUS
    <4> DEFINE g == [d \in 0..k + 1 |-> IF d = k + 1 THEN G(f[k], k + 1) ELSE f[d]]
    <4>2. g[k + 1] = G(f[k], k + 1) /\ \A d \in 0..k : g[d] = f[d] OBVIOUS
    <4>3. \A d \in 0..k : f[d] = IF d = 0 THEN base ELSE G(f[d - 1], d) BY <4>1
    <4>4. g = [d \in 0..k + 1 |-> g[d]] BY DEF g
    <4> HIDE DEF g
    <4>5. \A d \in 0..k + 1 : g[d] = IF d = 0 THEN base ELSE G(g[d - 1], d)
      <5> SUFFICES ASSUME NEW d \in 0..k + 1
                   PROVE  g[d] = IF d = 0 THEN base ELSE G(g[d - 1], d)
        BY Zenon
      <5>1. CASE d = k + 1
        <6>1. d # 0 /\ d - 1 = k /\ k \in 0..k BY <5>1
        <6> QED BY <5>1, <6>1, <4>2, Zenon
      <5>2. CASE d = 0
        <6>1. d \in 0..k BY <5>2
        <6> QED BY <5>2, <6>1, <4>2, <4>3, Zenon
      <5>3. CASE d \in 1..k
        <6>1. d \in 0..k /\ d - 1 \in 0..k /\ d # 0 BY <5>3
        <6> QED BY <6>1, <4>2, <4>3, Zenon
      <5> QED BY <5>1, <5>2, <5>3
    <4>6. Is(g, k + 1) BY <4>4, <4>5, Zenon
      <4>7. k + 1 \in Nat OBVIOUS
      <4> HIDE DEF Is
      <4> QED BY <4>6, <4>7, Zenon
  <3>3. P \in SUBSET Nat OBVIOUS
  <3> HIDE DEF P
  <3>4. n \in P BY <2>2, <3>1, <3>2, <3>3, SetInduction, Zenon
  <3>5. \E f : Is(f, n) BY <3>4 DEF P
  <3> HIDE DEF Is
  <3> QED BY <3>5, Zenon
<2> HIDE DEF level
<2>9. level[0] = base /\ \A d \in 1..n : level[d] = G(level[d - 1], d)
  <3> HIDE DEF G, base
  <3>1. \A d \in 0..n : level[d] = IF d = 0 THEN base ELSE G(level[d - 1], d) BY <2>8, Zenon
  <3>2. 0 \in 0..n /\ \A d \in 1..n : d \in 0..n /\ d # 0 BY <2>2
  <3> QED BY <3>1, <3>2, Zenon
<2> HIDE DEF Is
  <2> DEFINE F == E \cup {e}
             Ok(y, d) == Built(y, bt, F, Down(t, d))
  <2>10. Ok(level[0], 0)
    <3>1. base.new = <<s>> /\ base.memory = Sound(bt) /\ base = [memory |-> base.memory, new |-> base.new]
      BY <2>4
    <3>2. base.new \in Seq(StorageId) /\ \A j \in DOMAIN base.new : base.new[j] = s
      BY <2>3
    <3>3. Grown(bt, bt) BY Zenon DEF Grown
    <3>4. Down(t, 0) = t BY DownFacts, Zenon
    <3> HIDE DEF base
    <3>5. Built(base, bt, F, t) BY <2>6, <3>1, <3>2, <3>3, Zenon DEF Built
    <3> QED BY <2>9, <3>4, <3>5, Zenon
  <2>11. ASSUME NEW d \in 0..n - 1, Ok(level[d], d) PROVE Ok(level[d + 1], d + 1)
    <3>1. d + 1 \in 1..n /\ (d + 1) - 1 = d /\ d \in 0..t.dims /\ d < t.dims /\ d + 1 \in 0..t.dims
      BY <2>2
    <3>2. /\ IsArray(Down(t, d)) /\ ElementOf(Down(t, d)) = Down(t, d + 1)
          /\ Down(t, d + 1) \in Type
      <4>1. DownIs(t, d) /\ DownIs(t, d + 1) BY <3>1, DownFacts, Zenon
      <4> QED BY <3>1, <4>1, Zenon DEF DownIs
    <3> DEFINE x == level[d]
    <3>3. PICK ct : /\ x = [memory |-> Sound(ct), new |-> x.new] /\ Good(ct, F, {})
                    /\ Grown(bt, ct) /\ x.new \in Seq(StorageId)
                    /\ \A j \in DOMAIN x.new : x.new[j] \in DOMAIN ct /\ ct[x.new[j]].type = Down(t, d)
      BY <2>11, Zenon DEF Built
    <3>4. x.memory = Sound(ct) BY <3>3
    <3>5. level[d + 1] = FillArrays(Sound(ct), x.new, Down(t, d + 1), dimensions[d + 1])
      <4>1. level[d + 1] = G(x, d + 1)
        <5> HIDE DEF G
        <5> QED BY <2>9, <3>1, Zenon
      <4> HIDE DEF x
      <4> QED BY <3>4, <4>1, Zenon DEF Down
    <3>6. \A j \in DOMAIN x.new : /\ x.new[j] \in DOMAIN ct /\ IsArray(ct[x.new[j]].type)
                                  /\ ElementOf(ct[x.new[j]].type) = Down(t, d + 1)
      BY <3>2, <3>3, Zenon
    <3>7. dimensions[d + 1] \in Nat BY <2>2, <3>1
    <3> HIDE DEF x, F
    <3>8. Built(level[d + 1], ct, F, Down(t, d + 1))
      <4>1. NoItems(F) BY <2>7 DEF F
      <4> QED BY <3>2, <3>3, <3>5, <3>6, <3>7, <4>1, FillArraysFacts, Zenon
    <3>9. PICK dt : /\ level[d + 1] = [memory |-> Sound(dt), new |-> level[d + 1].new]
                    /\ Good(dt, F, {}) /\ Grown(ct, dt) /\ level[d + 1].new \in Seq(StorageId)
                    /\ \A j \in DOMAIN level[d + 1].new :
                         /\ level[d + 1].new[j] \in DOMAIN dt
                         /\ dt[level[d + 1].new[j]].type = Down(t, d + 1)
      BY <3>8, Zenon DEF Built
    <3>10. Grown(bt, dt) BY <3>3, <3>9, Zenon DEF Grown
    <3> QED BY <3>9, <3>10, Zenon DEF Built
<2>12. Ok(level[n], n)
  <3> HIDE DEF Ok
  <3> DEFINE P == {d \in Nat : d <= n => Ok(level[d], d)}
  <3>1. 0 \in P BY <2>10
  <3>2. ASSUME NEW d \in P PROVE d + 1 \in P
    <4>1. ASSUME d + 1 <= n PROVE Ok(level[d + 1], d + 1)
      <5>1. d \in 0..n - 1 /\ d <= n BY <2>2, <4>1
      <5> QED BY <2>11, <5>1
    <4> QED BY <4>1
  <3>3. P \in SUBSET Nat OBVIOUS
  <3> HIDE DEF P
  <3>4. n \in P BY <2>2, <3>1, <3>2, <3>3, SetInduction, Zenon
  <3> QED BY <2>2, <3>4 DEF P
  <2>13. PICK ct : /\ level[n] = [memory |-> Sound(ct), new |-> level[n].new] /\ Good(ct, F, {})
                   /\ Grown(bt, ct)
    BY <2>12, Zenon DEF Built
  <2>14. level[n].memory = Sound(ct) BY <2>13
  <2>15. IsOf(ct, Ref(s), t)
    <3>1. s \in DOMAIN ct /\ ct[s].type = t BY <2>6, <2>13, Zenon DEF Grown
    <3> QED BY <1>2, <3>1, Zenon DEF IsOf
  <2>16. Ref(s).kind = "ref" /\ Ref(s).id = s BY ValueFacts, Zenon
  <2>17. With(E, h, i, Ref(s)) = F BY <2>16, Zenon DEF With, e
  <2>18. Grown(at, ct) BY <2>6, <2>13, Zenon DEF Grown
  <2> HIDE DEF F
  <2> QED BY <2>1, <2>3, <2>13, <2>14, <2>15, <2>16, <2>17, <2>18, Zenon DEF Made
<1> QED BY <1>1, <1>2

LEMMA NewOKIs ==
  ASSUME NEW at, NEW bt, NEW ct, NEW s, NEW t, NEW items, s \notin DOMAIN at,
         NewOK(at, bt, s, t, items), NewOK(at, ct, s, t, items)
  PROVE  bt = ct
<1>1. DOMAIN bt = DOMAIN ct /\ \A r \in DOMAIN bt : bt[r] = ct[r]
  <2>1. /\ DOMAIN bt = DOMAIN at \cup {s} /\ DOMAIN ct = DOMAIN at \cup {s}
        /\ bt[s] = ct[s] /\ \A r \in DOMAIN at : bt[r] = ct[r]
    BY Zenon DEF NewOK
  <2> QED BY <2>1
<1>2. bt = [r \in DOMAIN bt |-> bt[r]] /\ ct = [r \in DOMAIN ct |-> ct[r]] BY Zenon DEF NewOK
<1> QED BY <1>1, <1>2

(* The operands that an array with values takes as its items. *)
Moved(items, place, n) ==
  {<<"operand", place[j], items[j].id>> : j \in {l \in 1..n : items[l].kind = "ref"}}

LEMMA InitArrayFacts ==
  ASSUME NEW at, NEW E, NEW t \in Type, NEW n \in Nat, NEW items, NEW place, NEW s, NEW e, NEW bt,
         items \in [1..n -> Value], Good(at, E, {}), NoItems(E), IsArray(t),
         \A j \in 1..n : IsOf(at, items[j], ElementOf(t)),
         Moved(items, place, n) \subseteq E, \A j, k \in 1..n : place[j] = place[k] => j = k,
         s \in StorageId \ DOMAIN at, e[1] # "item", e[3] = s, NewOK(at, bt, s, t, items)
  PROVE  Good(bt, (E \ Moved(items, place, n)) \cup {e}, {}) /\ Grown(at, bt)
<1> DEFINE prefix(k) == [j \in 1..k |-> items[j]]
           F(k) == (E \ Moved(items, place, k)) \cup {e}
           Ok(k) == \E ct : NewOK(at, ct, s, t, prefix(k)) /\ Good(ct, F(k), {}) /\ Grown(at, ct)
<1>1. Typed(at, {}) /\ Counted(at, E \cup Items(at, {})) /\ DOMAIN at \subseteq StorageId
  BY Zenon DEF Good, Typed
<1>2. e \notin E BY <1>1, Zenon DEF Counted
<1>3. t # Int0 /\ HasStorage(t) BY TypeFacts DEF ArrayFacts, HasStorage
<1>4. Ok(0)
  <2>1. PICK ct : NewOK(at, ct, s, t, <<>>) BY AllocateIs, Zenon
  <2>2. AddedOK(at, ct, E, {}, s, t, e) BY <1>3, <2>1, NewFacts, Zenon
  <2>3. prefix(0) = <<>> OBVIOUS
  <2>4. F(0) = E \cup {e}
    <3>1. \A j : j \notin {l \in 1..0 : items[l].kind = "ref"} OBVIOUS
    <3>2. Moved(items, place, 0) = {} BY <3>1 DEF Moved
    <3> QED BY <3>2
  <2> HIDE DEF F, prefix
  <2> QED BY <2>1, <2>2, <2>3, <2>4, Zenon DEF AddedOK
<1>5. ASSUME NEW k \in 0..n - 1, Ok(k) PROVE Ok(k + 1)
  <2> DEFINE v == items[k + 1]
             f == <<"operand", place[k + 1], v.id>>
  <2>1. PICK ct : NewOK(at, ct, s, t, prefix(k)) /\ Good(ct, F(k), {}) /\ Grown(at, ct)
    BY <1>5, Zenon
  <2>2. /\ k \in Nat /\ k + 1 \in 1..n /\ \A j \in 1..k : j \in 1..n /\ j # k + 1
        /\ \A j \in 1..k + 1 : j \in 1..k \/ j = k + 1
        /\ \A j \in 1..k : j \in 1..k + 1
    OBVIOUS
  <2>3. v \in Value /\ IsOf(at, v, ElementOf(t)) BY <2>2
  <2>4. prefix(k) \in Seq(Value) /\ prefix(k + 1) = Append(prefix(k), v)
        /\ prefix(k + 1) \in Seq(Value)
    <3>1. \A j \in 1..k : items[j] \in Value BY <2>2
    <3>2. prefix(k) \in [1..k -> Value] BY <3>1
    <3>3. prefix(k) \in Seq(Value) BY <2>2, <3>2
    <3>4. Len(prefix(k)) = k BY <2>2
    <3>5. prefix(k + 1) = Append(prefix(k), v) BY <2>2, <3>3, <3>4
    <3> HIDE DEF v
    <3> QED BY <2>3, <3>3, <3>5
  <2>5. /\ DOMAIN ct = DOMAIN at \cup {s} /\ ct[s] = NewStorage(t, prefix(k))
        /\ \A r \in DOMAIN at : ct[r] = at[r]
    BY <2>1, Zenon DEF NewOK
  <2>6. /\ ct[s].type = t /\ ct[s].items = prefix(k) /\ ct[s].refs = 1 /\ ct[s].lost = 0
    <3> HIDE DEF prefix
    <3> QED BY <2>5, NewStorageIs
  <2>7. s \in DOMAIN ct /\ ct \in [DOMAIN ct -> Storage] BY <2>1, <2>5, Zenon DEF Good, Typed
  <2>8. PICK dt : Taken(ct, dt, s, v)
    <3> HIDE DEF v
    <3> QED BY <2>3, <2>7, AppendItem, Zenon
  <2>9. NewOK(at, dt, s, t, prefix(k + 1))
    <3> HIDE DEF prefix
    <3>1. /\ DOMAIN dt = DOMAIN ct /\ dt \in [DOMAIN ct -> Storage]
          /\ \A r \in DOMAIN ct \ {s} : dt[r] = ct[r]
          /\ dt[s].type = t /\ dt[s].refs = 1 /\ dt[s].lost = 0 /\ dt[s].items = prefix(k + 1)
      BY <2>4, <2>6, <2>8, Zenon DEF Taken
    <3>2. dt[s] = NewStorage(t, prefix(k + 1))
      <4>1. dt[s] \in Storage BY <2>7, <3>1
      <4>2. dt[s] = [refs |-> dt[s].refs, type |-> dt[s].type, items |-> dt[s].items, lost |-> dt[s].lost]
        BY <4>1 DEF Storage
      <4> QED BY <3>1, <4>2 DEF NewStorage
    <3>3. \A r \in DOMAIN at : dt[r] = at[r] BY <2>5, <3>1
    <3>4. dt = [r \in DOMAIN dt |-> dt[r]] BY <3>1
    <3> QED BY <2>5, <3>1, <3>2, <3>3, <3>4, Zenon DEF NewOK
  <2>10. IsOf(ct, v, ElementOf(ct[s].type)) /\ IsArray(ct[s].type)
    BY <2>1, <2>3, <2>6, GrownIsOf, Zenon
  <2>11. \A g \in F(k) : g[1] # "item" BY Zenon DEF NoItems
  <2>12. v.kind = "ref" => f \in F(k)
    <3> SUFFICES ASSUME v.kind = "ref" PROVE f \in F(k) BY Zenon
    <3>1. f \in Moved(items, place, n) BY <2>2 DEF Moved
    <3>2. ASSUME f \in Moved(items, place, k) PROVE FALSE
      <4>1. PICK j \in 1..k : f = <<"operand", place[j], items[j].id>> BY <3>2, Zenon DEF Moved
      <4>2. place[j] = place[k + 1] BY <4>1
      <4> QED BY <2>2, <4>2, Zenon
    <3> QED BY <3>1, <3>2, Zenon
  <2>13. F(k + 1) = IF v.kind = "ref" THEN F(k) \ {f} ELSE F(k)
    <3>1. CASE v.kind = "ref"
      <4>1. \A g : g \in Moved(items, place, k + 1) <=> g \in Moved(items, place, k) \/ g = f
        <5> SUFFICES ASSUME NEW g
                     PROVE  g \in Moved(items, place, k + 1) <=> g \in Moved(items, place, k) \/ g = f
          BY Zenon
        <5>1. ASSUME g \in Moved(items, place, k + 1) PROVE g \in Moved(items, place, k) \/ g = f
          <6>1. PICK j \in 1..k + 1 : items[j].kind = "ref" /\ g = <<"operand", place[j], items[j].id>>
            BY <5>1, Zenon DEF Moved
          <6>2. CASE j = k + 1 BY <6>1, <6>2, Zenon
          <6>3. CASE j \in 1..k BY <6>1, <6>3, Zenon DEF Moved
          <6> QED BY <2>2, <6>2, <6>3, Zenon
        <5>2. ASSUME g = f PROVE g \in Moved(items, place, k + 1)
          <6>1. k + 1 \in 1..k + 1 BY <2>2
          <6> QED BY <3>1, <5>2, <6>1, Zenon DEF Moved
        <5>3. ASSUME g \in Moved(items, place, k) PROVE g \in Moved(items, place, k + 1)
          BY <2>2, <5>3, Zenon DEF Moved
        <5> QED BY <5>1, <5>2, <5>3, Zenon
      <4>2. f \in E /\ f # e
        <5>1. f \in Moved(items, place, n) BY <2>2, <3>1 DEF Moved
        <5> QED BY <1>2, <5>1
      <4> HIDE DEF f, v
      <4> QED BY <3>1, <4>1, <4>2
    <3>2. CASE v.kind # "ref"
      <4>1. \A g : g \in Moved(items, place, k + 1) <=> g \in Moved(items, place, k)
        <5> SUFFICES ASSUME NEW g
                     PROVE  g \in Moved(items, place, k + 1) <=> g \in Moved(items, place, k)
          BY Zenon
        <5>1. ASSUME g \in Moved(items, place, k + 1) PROVE g \in Moved(items, place, k)
          <6>1. PICK j \in 1..k + 1 : items[j].kind = "ref" /\ g = <<"operand", place[j], items[j].id>>
            BY <5>1, Zenon DEF Moved
          <6>2. j # k + 1 BY <3>2, <6>1, Zenon
          <6>3. j \in 1..k BY <2>2, <6>2, Zenon
          <6> QED BY <6>1, <6>3, Zenon DEF Moved
        <5>2. ASSUME g \in Moved(items, place, k) PROVE g \in Moved(items, place, k + 1)
          BY <2>2, <5>2, Zenon DEF Moved
        <5> QED BY <5>1, <5>2, Zenon
      <4>2. Moved(items, place, k + 1) = Moved(items, place, k) BY <4>1
      <4> QED BY <3>2, <4>2
    <3> QED BY <3>1, <3>2
  <2>14. Good(dt, F(k + 1), {}) /\ Grown(ct, dt)
    <3> DEFINE H == F(k)
    <3>1. f[3] = v.id OBVIOUS
    <3>2. Good(ct, H, {}) /\ (\A g \in H : g[1] # "item") /\ (v.kind = "ref" => f \in H /\ f[3] = v.id)
      BY <2>1, <2>11, <2>12, <3>1
    <3> HIDE DEF F, H, f, v
    <3>3. Good(dt, IF v.kind = "ref" THEN H \ {f} ELSE H, {}) /\ Grown(ct, dt)
      BY <2>7, <2>8, <2>10, <3>2, TakenFacts, Zenon
    <3> QED BY <2>13, <3>3 DEF H
  <2>15. Grown(at, dt) BY <2>1, <2>14, Zenon DEF Grown
  <2> HIDE DEF F, prefix
  <2> QED BY <2>9, <2>14, <2>15, Zenon
<1>6. Ok(n)
  <2> HIDE DEF Ok
  <2> DEFINE P == {k \in Nat : k <= n => Ok(k)}
  <2>1. 0 \in P BY <1>4
  <2>2. ASSUME NEW k \in P PROVE k + 1 \in P
    <3>1. ASSUME k + 1 <= n PROVE Ok(k + 1)
      <4>1. k \in 0..n - 1 /\ k <= n BY <3>1
      <4> QED BY <1>5, <4>1
    <3> QED BY <3>1
  <2>3. P \in SUBSET Nat OBVIOUS
  <2> HIDE DEF P
  <2>4. n \in P BY <2>1, <2>2, <2>3, SetInduction, Zenon
  <2> QED BY <2>4 DEF P
<1>7. PICK ct : NewOK(at, ct, s, t, prefix(n)) /\ Good(ct, F(n), {}) /\ Grown(at, ct)
  BY <1>6, Zenon
<1>8. prefix(n) = items OBVIOUS
<1> HIDE DEF prefix, F
<1>9. NewOK(at, ct, s, t, items) BY <1>7, <1>8, Zenon
<1>10. ct = bt
  <2>1. s \notin DOMAIN at OBVIOUS
  <2> QED BY <1>9, <2>1, NewOKIs, Zenon
<1> QED BY <1>7, <1>10, Zenon DEF F

-----------------------------------------------------------------------------
(* Storing *)

(* An item is about to be overwritten. *)
LEMMA MaskFacts ==
  ASSUME NEW at, NEW E, NEW s \in DOMAIN at, NEW i \in DOMAIN at[s].items, Good(at, E, {})
  PROVE  Good(at, With(E, "item", <<s, i>>, at[s].items[i]), {<<s, i>>})
<1> DEFINE v == at[s].items[i]
           p == <<s, i>>
           f == <<"item", p, v.id>>
<1>1. /\ Typed(at, {}) /\ Counted(at, E \cup Items(at, {})) /\ E \cap Items(at, {}) = {}
  BY Zenon DEF Good
<1>2. Typed(at, {p})
  <2>1. \A r \in DOMAIN at : ItemsOK(at, r, {}) => ItemsOK(at, r, {p}) BY Zenon DEF ItemsOK
  <2> QED BY <1>1, <2>1, Zenon DEF Typed
<1>3. ASSUME NEW x
      PROVE  x \in Items(at, {}) <=> x \in Items(at, {p}) \/ (v.kind = "ref" /\ x = f)
  <2>1. ASSUME x \in Items(at, {}) PROVE x \in Items(at, {p}) \/ (v.kind = "ref" /\ x = f)
    <3>1. PICK r \in DOMAIN at : \E j \in DOMAIN at[r].items : IsItem(at, x, r, j) /\ <<r, j>> \notin {}
      BY <2>1, ItemsIs, Zenon
    <3>2. PICK j \in DOMAIN at[r].items : IsItem(at, x, r, j) BY <3>1, Zenon
    <3>3. CASE <<r, j>> = p
      <4>1. r = s /\ j = i BY <3>3
      <4> QED BY <3>2, <4>1, Zenon DEF IsItem
    <3>4. CASE <<r, j>> # p
      <4>1. <<r, j>> \notin {p} BY <3>4
      <4> QED BY <3>2, <4>1, ItemsIs, Zenon
    <3> QED BY <3>3, <3>4
  <2>2. ASSUME x \in Items(at, {p}) PROVE x \in Items(at, {})
    <3>1. PICK r \in DOMAIN at : \E j \in DOMAIN at[r].items : IsItem(at, x, r, j) /\ <<r, j>> \notin {p}
      BY <2>2, ItemsIs, Zenon
    <3>2. PICK j \in DOMAIN at[r].items : IsItem(at, x, r, j) BY <3>1, Zenon
    <3>3. <<r, j>> \notin {} OBVIOUS
    <3> QED BY <3>2, <3>3, ItemsIs, Zenon
  <2>3. ASSUME v.kind = "ref", x = f PROVE x \in Items(at, {})
    <3>1. IsItem(at, x, s, i) BY <2>3, Zenon DEF IsItem
    <3>2. <<s, i>> \notin {} OBVIOUS
    <3> QED BY <3>1, <3>2, ItemsIs, Zenon
  <2> QED BY <2>1, <2>2, <2>3, Zenon
<1>4. f \notin Items(at, {p})
  <2>1. ASSUME f \in Items(at, {p}) PROVE FALSE
    <3>1. PICK r \in DOMAIN at : \E j \in DOMAIN at[r].items : IsItem(at, f, r, j) /\ <<r, j>> \notin {p}
      <4> HIDE DEF f
      <4> QED BY <2>1, ItemsIs, Zenon
    <3>2. PICK j \in DOMAIN at[r].items : IsItem(at, f, r, j) /\ <<r, j>> \notin {p} BY <3>1, Zenon
    <3>3. f = <<"item", <<r, j>>, at[r].items[j].id>> BY <3>2, Zenon DEF IsItem
    <3>4. p = <<r, j>> BY <3>3
    <3> QED BY <3>2, <3>4
  <2> QED BY <2>1, Zenon
<1> DEFINE F == With(E, "item", p, v)
<1>5. F \cup Items(at, {p}) = E \cup Items(at, {}) /\ F \cap Items(at, {p}) = {}
  <2>1. \A x : x \in F <=> x \in E \/ (v.kind = "ref" /\ x = f) BY Zenon DEF With
  <2> HIDE DEF F, v, f, p
  <2> QED BY <1>1, <1>3, <1>4, <2>1
<1> HIDE DEF F
<1>6. Good(at, F, {p}) BY <1>1, <1>2, <1>5, Zenon DEF Good
<1> QED BY <1>6 DEF F

(* The move assignment of a string forgets a reference. *)
Lost(at, bt, E, M, e) ==
  /\ Good(bt, E \ {e}, M) /\ Grown(at, bt) /\ DOMAIN bt = DOMAIN at
  /\ \A r \in DOMAIN at : bt[r].items = at[r].items

LEMMA LoseFacts ==
  ASSUME NEW at, NEW E, NEW M, NEW e \in E, Good(at, E, M), at[e[3]].type = String0
  PROVE  \E bt : Lose(Sound(at), e[3]) = Sound(bt) /\ Lost(at, bt, E, M, e)
<1> DEFINE s == e[3]
           bt == [at EXCEPT ![s].lost = @ + 1]
<1>1. /\ Typed(at, M) /\ Counted(at, E \cup Items(at, M)) /\ E \cap Items(at, M) = {}
      /\ at \in [DOMAIN at -> Storage]
  BY Zenon DEF Good, Typed
<1>2. s \in DOMAIN at BY <1>1, Zenon DEF Counted
<1>3. Lose(Sound(at), s) = Sound(bt)
  <2>0. Lose(Sound(at), s) = [Sound(at) EXCEPT !.at[s].lost = @ + 1] BY Zenon DEF Lose
  <2>1. [Sound(at) EXCEPT !.at[s].lost = @ + 1] = [Sound(at) EXCEPT !.at = bt] BY SoundFacts
  <2> HIDE DEF bt
  <2> QED BY <2>0, <2>1, SoundFacts, Zenon
<1>4. /\ DOMAIN bt = DOMAIN at /\ bt[s] = [at[s] EXCEPT !.lost = @ + 1]
      /\ \A r \in DOMAIN at : r # s => bt[r] = at[r]
      /\ bt = [r \in DOMAIN bt |-> bt[r]]
  BY <1>2
<1> HIDE DEF bt
<1>5. \A r \in DOMAIN at : at[r] \in Storage BY <1>1, Zenon
<1>6. /\ bt[s] \in Storage /\ bt[s].refs = at[s].refs /\ bt[s].lost = at[s].lost + 1
      /\ bt[s].type = at[s].type /\ bt[s].items = at[s].items
  <2>1. at[s] \in Storage BY <1>2, <1>5
  <2> HIDE DEF s
  <2> QED BY <1>4, <2>1 DEF Storage
<1>7. \A r \in DOMAIN at :
        /\ bt[r] \in Storage /\ bt[r].type = at[r].type /\ bt[r].items = at[r].items
        /\ bt[r].refs = at[r].refs /\ at[r].lost \in Nat
        /\ bt[r].lost = IF r = s THEN at[r].lost + 1 ELSE at[r].lost
  <2>1. \A r \in DOMAIN at : at[r].lost \in Nat BY <1>5 DEF Storage
  <2> HIDE DEF s
  <2> QED BY <1>4, <1>5, <1>6, <2>1, Zenon
<1>8. Alike(at, bt)
  <2>1. bt \in [DOMAIN at -> Storage] BY <1>4, <1>7
  <2>2. \A r \in DOMAIN at : bt[r].lost > 0 => bt[r].type = String0
    <3> SUFFICES ASSUME NEW r \in DOMAIN at, bt[r].lost > 0 PROVE bt[r].type = String0
      BY Zenon
    <3>1. CASE r = s BY <1>7, <3>1, Zenon
    <3>2. CASE r # s
      <4>1. bt[r].lost = at[r].lost BY <1>7, <3>2, Zenon
      <4> QED BY <1>1, <1>7, <4>1, Zenon DEF Typed, ItemsOK
    <3> QED BY <3>1, <3>2
  <2> QED BY <1>4, <1>7, <2>1, <2>2, Zenon DEF Alike
<1>9. Typed(bt, M) /\ Items(bt, M) = Items(at, M) BY <1>1, <1>8, TypedSame, Zenon
<1>10. Counted(bt, (E \cup Items(at, M)) \ {e})
  <2>1. \A r \in DOMAIN at :
          /\ bt[r].refs = at[r].refs /\ at[r].lost \in Nat
          /\ bt[r].lost = IF r = e[3] THEN at[r].lost + 1 ELSE at[r].lost
    BY <1>7, Zenon
  <2> DEFINE A == E \cup Items(at, M)
  <2>2. e \in A /\ Counted(at, A) /\ DOMAIN bt = DOMAIN at BY <1>1, <1>4
  <2> HIDE DEF A
  <2>3. Counted(bt, A \ {e}) BY <2>1, <2>2, CountLose, Zenon
  <2> QED BY <2>3 DEF A
<1>11. (E \cup Items(at, M)) \ {e} = (E \ {e}) \cup Items(bt, M) BY <1>1, <1>9
<1>12. (E \ {e}) \cap Items(bt, M) = {} BY <1>1, <1>9
<1>13. Good(bt, E \ {e}, M) BY <1>9, <1>10, <1>11, <1>12, Zenon DEF Good
<1>14. Grown(at, bt) BY <1>4, <1>7, Zenon DEF Grown
<1>15. \A r \in DOMAIN at : bt[r].items = at[r].items BY <1>7, Zenon
<1> QED BY <1>3, <1>4, <1>13, <1>14, <1>15, Zenon DEF Lost

(* The item is overwritten. *)
Unmasked(at, bt, E, v, e) ==
  /\ Good(bt, IF v.kind = "ref" THEN E \ {e} ELSE E, {})
  /\ Grown(at, bt) /\ DOMAIN bt = DOMAIN at

LEMMA UnmaskFacts ==
  ASSUME NEW at, NEW E, NEW s \in DOMAIN at, NEW i \in DOMAIN at[s].items, NEW v, NEW e,
         Good(at, E, {<<s, i>>}), NoItems(E), IsOf(at, v, ElementOf(at[s].type)),
         v.kind = "ref" => e \in E /\ e[3] = v.id
  PROVE  \E bt : SetItem(Sound(at), s, i, v) = Sound(bt) /\ Unmasked(at, bt, E, v, e)
<1> DEFINE p == <<s, i>>
           f == <<"item", p, v.id>>
           bt == [at EXCEPT ![s].items[i] = v]
           vs == at[s].items
           ws == [vs EXCEPT ![i] = v]
           new == IF v.kind = "ref" THEN {f} ELSE {}
           E1 == IF v.kind = "ref" THEN E \ {e} ELSE E
<1>1. /\ Typed(at, {p}) /\ Counted(at, E \cup Items(at, {p})) /\ E \cap Items(at, {p}) = {}
      /\ at \in [DOMAIN at -> Storage] /\ DOMAIN at \subseteq StorageId
      /\ \A r \in DOMAIN at : ItemsOK(at, r, {p})
  BY Zenon DEF Good, Typed
<1>2. SetItem(Sound(at), s, i, v) = Sound(bt)
  <2>0. SetItem(Sound(at), s, i, v) = [Sound(at) EXCEPT !.at[s].items[i] = v] BY Zenon DEF SetItem
  <2>1. [Sound(at) EXCEPT !.at[s].items[i] = v] = [Sound(at) EXCEPT !.at = bt] BY SoundFacts
  <2> HIDE DEF bt
  <2> QED BY <2>0, <2>1, SoundFacts, Zenon
<1>3. /\ DOMAIN bt = DOMAIN at /\ bt[s] = [at[s] EXCEPT !.items = ws]
      /\ \A r \in DOMAIN at \ {s} : bt[r] = at[r]
      /\ bt = [r \in DOMAIN bt |-> bt[r]]
  OBVIOUS
<1> HIDE DEF bt
<1>4. v \in Value BY <1>1, IsOfFacts, Zenon
<1>5. at[s] \in Storage /\ vs \in Seq(Value)
  <2>1. at[s] \in Storage BY <1>1
  <2> QED BY <2>1 DEF Storage
<1>6. /\ ws \in Seq(Value) /\ DOMAIN ws = DOMAIN vs /\ ws[i] = v
      /\ \A j \in DOMAIN vs : j # i => ws[j] = vs[j]
  <2>1. vs \in Seq(Value) /\ i \in DOMAIN vs BY <1>5
  <2> HIDE DEF vs
  <2> QED BY <1>4, <2>1
<1> HIDE DEF ws, vs
<1>7. /\ bt[s] \in Storage /\ bt[s].refs = at[s].refs /\ bt[s].lost = at[s].lost
      /\ bt[s].type = at[s].type /\ bt[s].items = ws
  BY <1>3, <1>5, <1>6 DEF Storage
<1>8. bt \in [DOMAIN at -> Storage]
  <2>1. \A r \in DOMAIN at : bt[r] \in Storage BY <1>1, <1>3, <1>7
  <2> QED BY <1>3, <2>1
<1>9. Grown(at, bt)
  <2>1. \A r \in DOMAIN at : bt[r].type = at[r].type BY <1>3, <1>7
  <2> QED BY <1>3, <2>1, Zenon DEF Grown
<1>10. ASSUME NEW r \in DOMAIN at PROVE ItemsOK(bt, r, {})
  <2>1. ItemsOK(at, r, {p}) BY <1>1, Zenon
  <2>2. CASE r = s
    <3>1. vs # <<>>
      <4>1. i \in DOMAIN vs BY DEF vs
      <4> QED BY <4>1
    <3>2. IsArray(at[s].type) BY <2>1, <2>2, <3>1, Zenon DEF ItemsOK, vs
    <3>3. ASSUME NEW j \in DOMAIN ws PROVE IsOf(bt, ws[j], ElementOf(bt[s].type))
      <4>1. CASE j = i BY <1>6, <1>7, <1>9, <4>1, GrownIsOf, Zenon
      <4>2. CASE j # i
        <5>1. <<s, j>> # p BY <4>2
        <5>2. <<s, j>> \notin {p} BY <5>1
        <5>3. IsOf(at, vs[j], ElementOf(at[s].type))
          BY <1>6, <2>1, <2>2, <5>2, Zenon DEF ItemsOK, vs
        <5> QED BY <1>6, <1>7, <1>9, <4>2, <5>3, GrownIsOf, Zenon
      <4> QED BY <4>1, <4>2
    <3> QED BY <1>7, <2>1, <2>2, <3>2, <3>3, Zenon DEF ItemsOK
  <2>3. CASE r # s
    <3>1. bt[r] = at[r] BY <1>3, <2>3
    <3>2. \A j : <<r, j>> \notin {p} BY <2>3
    <3> QED BY <1>9, <2>1, <3>1, <3>2, GrownIsOf, Zenon DEF ItemsOK
  <2> QED BY <2>2, <2>3
<1>11. Typed(bt, {}) BY <1>1, <1>3, <1>8, <1>10, Zenon DEF Good, Typed
<1>12. ASSUME NEW x PROVE x \in Items(bt, {}) <=> x \in Items(at, {p}) \/ x \in new
  <2>1. \A r \in DOMAIN at : DOMAIN bt[r].items = DOMAIN at[r].items
    BY <1>3, <1>6, <1>7 DEF vs
  <2>2. \A r \in DOMAIN at : \A j \in DOMAIN at[r].items :
          <<r, j>> \notin {p} => (IsItem(at, x, r, j) <=> IsItem(bt, x, r, j))
    <3> SUFFICES ASSUME NEW r \in DOMAIN at, NEW j \in DOMAIN at[r].items, <<r, j>> \notin {p}
                 PROVE  IsItem(at, x, r, j) <=> IsItem(bt, x, r, j)
      BY Zenon
    <3>1. bt[r].items[j] = at[r].items[j]
      <4>1. CASE r = s
        <5>1. j # i BY <4>1
        <5> QED BY <1>6, <1>7, <4>1, <5>1, Zenon DEF vs
      <4>2. CASE r # s BY <1>3, <4>2
      <4> QED BY <4>1, <4>2
    <3> QED BY <1>3, <2>1, <3>1, Zenon DEF IsItem
  <2>3. x \in new <=> IsItem(bt, x, s, i) BY <1>3, <1>6, <1>7, <2>1, Zenon DEF IsItem
  <2> HIDE DEF new
  <2>4. ASSUME x \in Items(bt, {}) PROVE x \in Items(at, {p}) \/ x \in new
    <3>1. PICK r \in DOMAIN bt : \E j \in DOMAIN bt[r].items : IsItem(bt, x, r, j) /\ <<r, j>> \notin {}
      BY <2>4, ItemsIs, Zenon
    <3>2. PICK j \in DOMAIN bt[r].items : IsItem(bt, x, r, j) BY <3>1, Zenon
    <3>3. CASE <<r, j>> = p
      <4>1. r = s /\ j = i BY <3>3
      <4> QED BY <2>3, <3>2, <4>1, Zenon
    <3>4. CASE <<r, j>> # p
      <4>1. <<r, j>> \notin {p} BY <3>4
      <4>2. r \in DOMAIN at /\ j \in DOMAIN at[r].items BY <1>3, <2>1, <3>2, Zenon
      <4>3. IsItem(at, x, r, j) BY <2>2, <3>2, <4>1, <4>2, Zenon
      <4> QED BY <4>1, <4>2, <4>3, ItemsIs, Zenon
    <3> QED BY <3>3, <3>4
  <2>5. ASSUME x \in Items(at, {p}) PROVE x \in Items(bt, {})
    <3>1. PICK r \in DOMAIN at : \E j \in DOMAIN at[r].items : IsItem(at, x, r, j) /\ <<r, j>> \notin {p}
      BY <2>5, ItemsIs, Zenon
    <3>2. PICK j \in DOMAIN at[r].items : IsItem(at, x, r, j) /\ <<r, j>> \notin {p} BY <3>1, Zenon
    <3>3. IsItem(bt, x, r, j) /\ r \in DOMAIN bt /\ j \in DOMAIN bt[r].items
      BY <1>3, <2>1, <2>2, <3>2, Zenon
    <3>4. <<r, j>> \notin {} OBVIOUS
    <3> QED BY <3>3, <3>4, ItemsIs, Zenon
  <2>6. ASSUME x \in new PROVE x \in Items(bt, {})
    <3>1. IsItem(bt, x, s, i) BY <2>3, <2>6, Zenon
    <3>2. s \in DOMAIN bt /\ i \in DOMAIN bt[s].items /\ <<s, i>> \notin {}
      BY <3>1, Zenon DEF IsItem
    <3> QED BY <3>1, <3>2, ItemsIs, Zenon
  <2> QED BY <2>4, <2>5, <2>6, Zenon
<1>13. SameCounts(at, bt)
  <2>1. \A r \in DOMAIN at : bt[r].refs = at[r].refs /\ bt[r].lost = at[r].lost
    BY <1>3, <1>7
  <2> QED BY <1>3, <2>1, Zenon DEF SameCounts
<1>14. f \notin Items(at, {p})
  <2>1. ASSUME f \in Items(at, {p}) PROVE FALSE
    <3>1. PICK r \in DOMAIN at : \E j \in DOMAIN at[r].items : IsItem(at, f, r, j) /\ <<r, j>> \notin {p}
      <4> HIDE DEF f
      <4> QED BY <2>1, ItemsIs, Zenon
    <3>2. PICK j \in DOMAIN at[r].items : IsItem(at, f, r, j) /\ <<r, j>> \notin {p} BY <3>1, Zenon
    <3>3. f = <<"item", <<r, j>>, at[r].items[j].id>> BY <3>2, Zenon DEF IsItem
    <3>4. p = <<r, j>> BY <3>3
    <3> QED BY <3>2, <3>4
  <2> QED BY <2>1, Zenon
<1>15. f \notin E
  <2>1. f[1] = "item" OBVIOUS
  <2> HIDE DEF f
  <2> QED BY <2>1, Zenon DEF NoItems
<1>16. Counted(bt, E1 \cup Items(bt, {})) /\ E1 \cap Items(bt, {}) = {}
  <2> DEFINE A == E \cup Items(at, {p})
  <2>0. f[3] = v.id OBVIOUS
  <2>1. CASE v.kind = "ref"
    <3>1. new = {f} /\ E1 = E \ {e} BY <2>1
    <3> HIDE DEF f, new, E1
    <3>2. e \in A /\ f[3] = e[3] /\ f \notin A /\ e \in E BY <1>14, <1>15, <2>0, <2>1
    <3>3. Counted(bt, (A \ {e}) \cup {f})
      <4> HIDE DEF A
      <4>1. Counted(at, A) BY <1>1 DEF A
      <4> QED BY <1>13, <3>2, <4>1, CountMove, Zenon
    <3>4. (A \ {e}) \cup {f} = E1 \cup Items(bt, {}) BY <1>1, <1>12, <3>1, <3>2
    <3>5. E1 \cap Items(bt, {}) = {} BY <1>1, <1>12, <3>1, <3>2
    <3> QED BY <3>3, <3>4, <3>5
  <2>2. CASE v.kind # "ref"
    <3>1. E1 = E /\ new = {} BY <2>2
    <3> HIDE DEF E1, new
    <3>2. Items(bt, {}) = Items(at, {p}) BY <1>12, <3>1
    <3>3. Counted(bt, A) BY <1>1, <1>3, <1>13, Zenon DEF Counted, SameCounts
    <3> QED BY <1>1, <3>1, <3>2, <3>3, Zenon
  <2> QED BY <2>1, <2>2
<1> HIDE DEF E1
<1>17. Good(bt, E1, {}) BY <1>11, <1>16, Zenon DEF Good
<1> QED BY <1>2, <1>3, <1>9, <1>17, Zenon DEF E1, Unmasked

-----------------------------------------------------------------------------
(* The references of variables and operands *)

IsRef(h, vs, i, e) == vs[i].kind = "ref" /\ e = <<h, i, vs[i].id>>

LEMMA RefsAre ==
  ASSUME NEW h, NEW vs
  PROVE  \A e : e \in RefsAmong(h, vs) <=> \E i \in DOMAIN vs : IsRef(h, vs, i, e)
BY DEF RefsAmong, IsRef

(* One value more. *)
LEMMA RefsAdd ==
  ASSUME NEW h, NEW vs, NEW ws, NEW i, NEW v, i \notin DOMAIN vs,
         DOMAIN ws = DOMAIN vs \cup {i}, ws[i] = v, \A j \in DOMAIN vs : ws[j] = vs[j]
  PROVE  RefsAmong(h, ws) = With(RefsAmong(h, vs), h, i, v)
<1> SUFFICES ASSUME NEW e PROVE e \in RefsAmong(h, ws) <=> e \in With(RefsAmong(h, vs), h, i, v)
  OBVIOUS
<1>1. e \in With(RefsAmong(h, vs), h, i, v)
        <=> e \in RefsAmong(h, vs) \/ (v.kind = "ref" /\ e = <<h, i, v.id>>)
  BY DEF With
<1>2. e \in RefsAmong(h, vs) <=> \E j \in DOMAIN vs : IsRef(h, vs, j, e) BY RefsAre
<1>3. e \in RefsAmong(h, ws) <=> \E j \in DOMAIN ws : IsRef(h, ws, j, e) BY RefsAre
<1>4. \A j \in DOMAIN vs : IsRef(h, ws, j, e) <=> IsRef(h, vs, j, e) BY DEF IsRef
<1>5. IsRef(h, ws, i, e) <=> v.kind = "ref" /\ e = <<h, i, v.id>> BY DEF IsRef
<1> QED BY <1>1, <1>2, <1>3, <1>4, <1>5

(* Some values less. *)
LEMMA RefsKeep ==
  ASSUME NEW h, NEW vs, NEW ws, DOMAIN ws \subseteq DOMAIN vs,
         \A j \in DOMAIN ws : ws[j] = vs[j]
  PROVE  \A e : e \in RefsAmong(h, ws) <=> e \in RefsAmong(h, vs) /\ e[2] \in DOMAIN ws
<1> SUFFICES ASSUME NEW e
             PROVE  e \in RefsAmong(h, ws) <=> e \in RefsAmong(h, vs) /\ e[2] \in DOMAIN ws
  OBVIOUS
<1>2. e \in RefsAmong(h, vs) <=> \E j \in DOMAIN vs : IsRef(h, vs, j, e) BY RefsAre
<1>3. e \in RefsAmong(h, ws) <=> \E j \in DOMAIN ws : IsRef(h, ws, j, e) BY RefsAre
<1>4. \A j \in DOMAIN ws : IsRef(h, ws, j, e) <=> IsRef(h, vs, j, e) BY DEF IsRef
<1>5. \A j : IsRef(h, vs, j, e) => e[2] = j BY DEF IsRef
<1> QED BY <1>2, <1>3, <1>4, <1>5

(* One value changes. *)
LEMMA RefsSet ==
  ASSUME NEW h, NEW vs, NEW ws, NEW i \in DOMAIN vs, NEW v,
         DOMAIN ws = DOMAIN vs, ws[i] = v, \A j \in DOMAIN vs \ {i} : ws[j] = vs[j]
  PROVE  RefsAmong(h, ws) = With(Without(RefsAmong(h, vs), h, i, vs[i]), h, i, v)
<1> SUFFICES ASSUME NEW e
             PROVE  e \in RefsAmong(h, ws)
                      <=> e \in With(Without(RefsAmong(h, vs), h, i, vs[i]), h, i, v)
  OBVIOUS
<1>1. e \in With(Without(RefsAmong(h, vs), h, i, vs[i]), h, i, v)
        <=> \/ e \in RefsAmong(h, vs) /\ ~IsRef(h, vs, i, e)
            \/ v.kind = "ref" /\ e = <<h, i, v.id>>
  BY DEF With, Without, IsRef
<1>2. e \in RefsAmong(h, vs) <=> \E j \in DOMAIN vs : IsRef(h, vs, j, e) BY RefsAre
<1>3. e \in RefsAmong(h, ws) <=> \E j \in DOMAIN ws : IsRef(h, ws, j, e) BY RefsAre
<1>4. \A j \in DOMAIN vs \ {i} : IsRef(h, ws, j, e) <=> IsRef(h, vs, j, e) BY DEF IsRef
<1>5. IsRef(h, ws, i, e) <=> v.kind = "ref" /\ e = <<h, i, v.id>> BY DEF IsRef
<1>6. \A j \in DOMAIN vs \ {i} : IsRef(h, vs, j, e) => ~IsRef(h, vs, i, e) BY DEF IsRef
<1> QED BY <1>1, <1>2, <1>3, <1>4, <1>5, <1>6

Locs(lo) == [i \in DOMAIN lo |-> lo[i].value]
Outer(gl, lo, op) ==
  RefsAmong("global", gl) \cup RefsAmong("local", Locs(lo)) \cup RefsAmong("operand", op)

IsHolder(h) == h \in {"global", "local", "operand"}

LEMMA OuterIs ==
  ASSUME NEW gl, NEW lo, NEW op
  PROVE  /\ \A e \in Outer(gl, lo, op) : IsHolder(e[1])
         /\ \A i, s : <<"global", i, s>> \in Outer(gl, lo, op)
                        <=> i \in DOMAIN gl /\ gl[i].kind = "ref" /\ gl[i].id = s
         /\ \A i, s : <<"local", i, s>> \in Outer(gl, lo, op)
                        <=> i \in DOMAIN lo /\ lo[i].value.kind = "ref" /\ lo[i].value.id = s
         /\ \A i, s : <<"operand", i, s>> \in Outer(gl, lo, op)
                        <=> i \in DOMAIN op /\ op[i].kind = "ref" /\ op[i].id = s
<1>1. \A h, vs, e : e \in RefsAmong(h, vs) => e[1] = h
  BY DEF RefsAmong
<1>2. \A h, vs, i, s : <<h, i, s>> \in RefsAmong(h, vs)
                         <=> i \in DOMAIN vs /\ vs[i].kind = "ref" /\ vs[i].id = s
  BY DEF RefsAmong
<1>3. \A h, i, s : <<h, i, s>>[1] = h OBVIOUS
<1>4. \A i : i \in DOMAIN Locs(lo) <=> i \in DOMAIN lo BY DEF Locs
<1>5. \A i \in DOMAIN lo : Locs(lo)[i] = lo[i].value BY DEF Locs
<1>6. \A e \in Outer(gl, lo, op) : IsHolder(e[1])
  BY <1>1 DEF Outer, IsHolder
<1>7. \A i, s : <<"global", i, s>> \in Outer(gl, lo, op)
                  <=> i \in DOMAIN gl /\ gl[i].kind = "ref" /\ gl[i].id = s
  <2>1. \A i, s : <<"global", i, s>> \in Outer(gl, lo, op)
                    <=> <<"global", i, s>> \in RefsAmong("global", gl)
    BY <1>1, <1>3 DEF Outer
  <2> QED BY <2>1, <1>2, Zenon
<1>8. \A i, s : <<"local", i, s>> \in Outer(gl, lo, op)
                  <=> i \in DOMAIN lo /\ lo[i].value.kind = "ref" /\ lo[i].value.id = s
  <2>1. \A i, s : <<"local", i, s>> \in Outer(gl, lo, op)
                    <=> <<"local", i, s>> \in RefsAmong("local", Locs(lo))
    BY <1>1, <1>3 DEF Outer
  <2>2. \A i, s : <<"local", i, s>> \in RefsAmong("local", Locs(lo))
                    <=> i \in DOMAIN Locs(lo) /\ Locs(lo)[i].kind = "ref" /\ Locs(lo)[i].id = s
    BY <1>2, Zenon
  <2>3. \A i, s : i \in DOMAIN Locs(lo) /\ Locs(lo)[i].kind = "ref" /\ Locs(lo)[i].id = s
                    <=> i \in DOMAIN lo /\ lo[i].value.kind = "ref" /\ lo[i].value.id = s
    BY <1>4, <1>5, Zenon
  <2> QED BY <2>1, <2>2, <2>3, Zenon
<1>9. \A i, s : <<"operand", i, s>> \in Outer(gl, lo, op)
                  <=> i \in DOMAIN op /\ op[i].kind = "ref" /\ op[i].id = s
  <2>1. \A i, s : <<"operand", i, s>> \in Outer(gl, lo, op)
                    <=> <<"operand", i, s>> \in RefsAmong("operand", op)
    BY <1>1, <1>3 DEF Outer
  <2> QED BY <2>1, <1>2, Zenon
<1> QED BY <1>6, <1>7, <1>8, <1>9

WithJoins(A, B, h, i, v) == A \cup With(B, h, i, v) = With(A \cup B, h, i, v)
WithoutJoins(A, B, h, i, v) == A \cup Without(B, h, i, v) = Without(A \cup B, h, i, v)

LEMMA WithUnion ==
  ASSUME NEW A, NEW B, NEW h, NEW i, NEW v
  PROVE  WithJoins(A, B, h, i, v)
BY DEF With, WithJoins

NoneOf(h, A) == \A e \in A : e[1] # h

LEMMA WithoutUnion ==
  ASSUME NEW A, NEW B, NEW h, NEW i, NEW v, NoneOf(h, A)
  PROVE  WithoutJoins(A, B, h, i, v)
<1> DEFINE e == <<h, i, v.id>>
<1>1. e[1] = h OBVIOUS
<1>2. Without(B, h, i, v) = IF v.kind = "ref" THEN B \ {e} ELSE B BY DEF Without
<1>3. Without(A \cup B, h, i, v) = IF v.kind = "ref" THEN (A \cup B) \ {e} ELSE A \cup B BY DEF Without
<1> HIDE DEF e
<1>4. e \notin A BY <1>1 DEF NoneOf
<1> QED BY <1>2, <1>3, <1>4 DEF WithoutJoins

RefsOf(h, A) == \A e \in A : e[1] = h

LEMMA RefsOfIs ==
  \A h, vs : RefsOf(h, RefsAmong(h, vs))
BY DEF RefsOf, RefsAmong

LEMMA OuterPush ==
  ASSUME NEW gl, NEW lo, NEW S, NEW op \in Seq(S), NEW v
  PROVE  Outer(gl, lo, Append(op, v)) = With(Outer(gl, lo, op), "operand", Len(op) + 1, v)
<1> DEFINE n == Len(op) + 1
           ws == Append(op, v)
<1>1. /\ n \notin DOMAIN op /\ DOMAIN ws = DOMAIN op \cup {n} /\ ws[n] = v
      /\ \A j \in DOMAIN op : ws[j] = op[j]
  OBVIOUS
<1> HIDE DEF n, ws
<1>2. RefsAmong("operand", ws) = With(RefsAmong("operand", op), "operand", n, v)
  BY <1>1, RefsAdd
<1> DEFINE C == RefsAmong("global", gl) \cup RefsAmong("local", Locs(lo))
           A == RefsAmong("operand", op)
<1> HIDE DEF C, A
<1>3. WithJoins(C, A, "operand", n, v) BY WithUnion, Zenon
<1> QED BY <1>2, <1>3 DEF Outer, n, ws, C, A, WithJoins

LEMMA OuterPop ==
  ASSUME NEW gl, NEW lo, NEW S, NEW op \in Seq(S), NEW n \in 0..Len(op)
  PROVE  /\ \A e : e \in Outer(gl, lo, SubSeq(op, 1, n))
                     <=> e \in Outer(gl, lo, op) /\ (e[1] = "operand" => e[2] \in 1..n)
         /\ n = Len(op) - 1 =>
              Outer(gl, lo, SubSeq(op, 1, n))
                = Without(Outer(gl, lo, op), "operand", n + 1, op[n + 1])
<1> DEFINE ws == SubSeq(op, 1, n)
           A == RefsAmong("operand", op)
           B == RefsAmong("global", gl)
           C == RefsAmong("local", Locs(lo))
<1>1. DOMAIN ws = 1..n /\ \A j \in DOMAIN ws : j \in DOMAIN op /\ ws[j] = op[j] OBVIOUS
<1> HIDE DEF ws
<1>2. \A e : e \in RefsAmong("operand", ws) <=> e \in A /\ e[2] \in 1..n
  BY <1>1, RefsKeep
<1>3. RefsOf("operand", A) /\ RefsOf("global", B) /\ RefsOf("local", C) BY RefsOfIs
<1>4. \A e : e \in Outer(gl, lo, ws) <=> e \in Outer(gl, lo, op) /\ (e[1] = "operand" => e[2] \in 1..n)
  BY <1>2, <1>3 DEF Outer, RefsOf
<1>5. ASSUME n = Len(op) - 1
      PROVE  Outer(gl, lo, ws) = Without(Outer(gl, lo, op), "operand", n + 1, op[n + 1])
  <2>1. \A e \in A : e[2] \in 1..n \/ e[2] = n + 1
    <3>1. \A e \in A : \E i \in DOMAIN op : IsRef("operand", op, i, e) BY RefsAre
    <3> QED BY <3>1, <1>5 DEF IsRef
  <2>2. \A e \in A : e[2] = n + 1 => op[n + 1].kind = "ref" /\ e = <<"operand", n + 1, op[n + 1].id>>
    <3>1. \A e \in A : \E i \in DOMAIN op : IsRef("operand", op, i, e) BY RefsAre
    <3> QED BY <3>1 DEF IsRef
  <2>3. n + 1 \notin 1..n OBVIOUS
  <2>4. RefsAmong("operand", ws) = Without(A, "operand", n + 1, op[n + 1])
    <3> SUFFICES ASSUME NEW e PROVE e \in RefsAmong("operand", ws) <=> e \in Without(A, "operand", n + 1, op[n + 1])
      OBVIOUS
    <3>1. e = <<"operand", n + 1, op[n + 1].id>> => e[2] = n + 1 OBVIOUS
    <3>2. e \in Without(A, "operand", n + 1, op[n + 1])
            <=> e \in A /\ ~(op[n + 1].kind = "ref" /\ e = <<"operand", n + 1, op[n + 1].id>>)
      BY DEF Without
    <3> HIDE DEF A
    <3> QED BY <3>1, <3>2, <1>2, <2>1, <2>2, <2>3
  <2> DEFINE D == B \cup C
  <2>5. NoneOf("operand", D) BY <1>3 DEF RefsOf, NoneOf
  <2> HIDE DEF A, B, C, D
  <2>6. WithoutJoins(D, A, "operand", n + 1, op[n + 1])
    BY <2>5, WithoutUnion, Zenon
  <2> QED BY <2>4, <2>6 DEF Outer, A, B, C, D, WithoutJoins
<1> QED BY <1>4, <1>5 DEF ws

(* A global variable is created, or changed. *)
GlobalChange(gl, lo, op, hl, x, v) ==
  Outer(hl, lo, op) = With(IF x \in DOMAIN gl THEN Without(Outer(gl, lo, op), "global", x, gl[x])
                           ELSE Outer(gl, lo, op), "global", x, v)

LEMMA OuterGlobal ==
  ASSUME NEW gl, NEW lo, NEW op, NEW x, NEW v, NEW hl, DOMAIN hl = DOMAIN gl \cup {x},
         hl[x] = v, \A y \in DOMAIN gl \ {x} : hl[y] = gl[y]
  PROVE  GlobalChange(gl, lo, op, hl, x, v)
<1> DEFINE A == RefsAmong("operand", op)
           B == RefsAmong("global", gl)
           C == RefsAmong("local", Locs(lo))
<1>1. CASE x \notin DOMAIN gl
  <2>1. RefsAmong("global", hl) = With(B, "global", x, v) BY <1>1, RefsAdd
  <2> DEFINE E == A \cup C
  <2> HIDE DEF A, B, C, E
  <2>2. WithJoins(E, B, "global", x, v) BY WithUnion, Zenon
  <2> QED BY <1>1, <2>1, <2>2 DEF Outer, A, B, C, E, WithJoins, GlobalChange
<1>2. CASE x \in DOMAIN gl
  <2>1. RefsAmong("global", hl) = With(Without(B, "global", x, gl[x]), "global", x, v)
    BY <1>2, RefsSet
  <2>2. RefsOf("operand", A) /\ RefsOf("local", C) BY RefsOfIs
  <2> DEFINE E == A \cup C
           D == Without(B, "global", x, gl[x])
  <2>3. NoneOf("global", E) BY <2>2 DEF RefsOf, NoneOf
  <2> HIDE DEF A, B, C, E
  <2>4. WithoutJoins(E, B, "global", x, gl[x]) BY <2>3, WithoutUnion, Zenon
  <2>5. WithJoins(E, D, "global", x, v) BY WithUnion, Zenon
  <2>8. E \cup D = Without(E \cup B, "global", x, gl[x]) BY <2>4 DEF WithoutJoins, D
  <2> HIDE DEF D
  <2>6. Outer(hl, lo, op) = E \cup With(D, "global", x, v)
    BY <2>1 DEF Outer, A, C, D, E
  <2>7. Outer(gl, lo, op) = E \cup B BY DEF Outer, A, B, C, E
  <2> QED BY <1>2, <2>5, <2>6, <2>7, <2>8 DEF WithJoins, GlobalChange
<1> QED BY <1>1, <1>2

(* A local variable is created, or changed. *)
LocalChange(gl, lo, op, mo, x, v) ==
  Outer(gl, mo, op) = With(IF x \in DOMAIN lo THEN Without(Outer(gl, lo, op), "local", x, lo[x].value)
                           ELSE Outer(gl, lo, op), "local", x, v)

LEMMA OuterLocal ==
  ASSUME NEW gl, NEW lo, NEW op, NEW x, NEW v, NEW mo, DOMAIN mo = DOMAIN lo \cup {x},
         mo[x].value = v, \A y \in DOMAIN lo \ {x} : mo[y] = lo[y]
  PROVE  LocalChange(gl, lo, op, mo, x, v)
<1> DEFINE A == RefsAmong("operand", op)
           C == RefsAmong("global", gl)
           l == Locs(lo)
           m == Locs(mo)
           B == RefsAmong("local", l)
           E == A \cup C
<1>1. /\ DOMAIN l = DOMAIN lo /\ DOMAIN m = DOMAIN l \cup {x} /\ m[x] = v
      /\ \A y \in DOMAIN l : l[y] = lo[y].value
      /\ \A y \in DOMAIN l \ {x} : m[y] = l[y]
  BY DEF Locs
<1>3. Outer(gl, mo, op) = E \cup RefsAmong("local", m) BY DEF Outer
<1>4. Outer(gl, lo, op) = E \cup B BY DEF Outer
<1> HIDE DEF l, m
<1>5. CASE x \notin DOMAIN lo
  <2>1. RefsAmong("local", m) = With(B, "local", x, v) BY <1>1, <1>5, RefsAdd
  <2> HIDE DEF A, B, C, E
  <2>2. WithJoins(E, B, "local", x, v) BY WithUnion, Zenon
  <2> QED BY <1>3, <1>4, <1>5, <2>1, <2>2 DEF WithJoins, LocalChange
<1>6. CASE x \in DOMAIN lo
  <2>1. RefsAmong("local", m) = With(Without(B, "local", x, l[x]), "local", x, v)
    BY <1>1, <1>6, RefsSet
  <2>2. RefsOf("operand", A) /\ RefsOf("global", C) BY RefsOfIs
  <2>3. NoneOf("local", E) BY <2>2 DEF RefsOf, NoneOf
  <2> HIDE DEF A, B, C, E
  <2> DEFINE D == Without(B, "local", x, l[x])
  <2>4. WithoutJoins(E, B, "local", x, l[x]) BY <2>3, WithoutUnion, Zenon
  <2>5. WithJoins(E, D, "local", x, v) BY WithUnion, Zenon
  <2>8. E \cup D = Without(E \cup B, "local", x, l[x]) BY <2>4 DEF WithoutJoins, D
  <2>9. l[x] = lo[x].value BY <1>1, <1>6
  <2>10. RefsAmong("local", m) = With(D, "local", x, v) BY <2>1 DEF D
  <2> HIDE DEF D
  <2> QED BY <1>3, <1>4, <1>6, <2>5, <2>8, <2>9, <2>10 DEF WithJoins, LocalChange
<1> QED BY <1>5, <1>6

(* The last local variable is destroyed. *)
LocalLess(gl, lo, op, mo, n) ==
  Outer(gl, mo, op) = Without(Outer(gl, lo, op), "local", n, lo[n].value)

LEMMA OuterLess ==
  ASSUME NEW gl, NEW S, NEW lo \in Seq(S), NEW op, NEW n \in Nat, n + 1 = Len(lo)
  PROVE  LocalLess(gl, lo, op, SubSeq(lo, 1, n), n + 1)
<1> DEFINE mo == SubSeq(lo, 1, n)
           e == <<"local", n + 1, lo[n + 1].value.id>>
<1>1. DOMAIN mo = 1..n /\ DOMAIN lo = 1..n + 1 /\ \A j \in 1..n : mo[j] = lo[j] OBVIOUS
<1> HIDE DEF mo
<1> DEFINE A == RefsAmong("operand", op)
           C == RefsAmong("global", gl)
           l == Locs(lo)
           m == Locs(mo)
           B == RefsAmong("local", l)
           E == A \cup C
<1>2. /\ DOMAIN l = 1..n + 1 /\ DOMAIN m = 1..n
      /\ \A y \in 1..n + 1 : l[y] = lo[y].value
      /\ \A y \in 1..n : m[y] = l[y]
  BY <1>1 DEF Locs
<1>3. Outer(gl, mo, op) = E \cup RefsAmong("local", m) BY DEF Outer
<1>4. Outer(gl, lo, op) = E \cup B BY DEF Outer
<1> HIDE DEF l, m
<1>5. \A f : f \in RefsAmong("local", m) <=> f \in B /\ f[2] \in 1..n
  <2>1. DOMAIN m \subseteq DOMAIN l /\ \A j \in DOMAIN m : m[j] = l[j] BY <1>2
  <2> QED BY <2>1, <1>2, RefsKeep
<1>6. RefsAmong("local", m) = Without(B, "local", n + 1, l[n + 1])
  <2> SUFFICES ASSUME NEW f PROVE f \in RefsAmong("local", m) <=> f \in Without(B, "local", n + 1, l[n + 1])
    OBVIOUS
  <2>1. \A g \in B : \E i \in DOMAIN l : IsRef("local", l, i, g) BY RefsAre
  <2>2. \A g \in B : g[2] \in 1..n \/ g[2] = n + 1 BY <2>1, <1>2 DEF IsRef
  <2>3. \A g \in B : g[2] = n + 1 => l[n + 1].kind = "ref" /\ g = <<"local", n + 1, l[n + 1].id>>
    BY <2>1 DEF IsRef
  <2>4. n + 1 \notin 1..n OBVIOUS
  <2>5. f = <<"local", n + 1, l[n + 1].id>> => f[2] = n + 1 OBVIOUS
  <2>6. f \in Without(B, "local", n + 1, l[n + 1])
            <=> f \in B /\ ~(l[n + 1].kind = "ref" /\ f = <<"local", n + 1, l[n + 1].id>>)
    BY DEF Without
  <2> HIDE DEF B
  <2> QED BY <1>5, <2>2, <2>3, <2>4, <2>5, <2>6
<1>7. RefsOf("operand", A) /\ RefsOf("global", C) BY RefsOfIs
<1>8. NoneOf("local", E) BY <1>7 DEF RefsOf, NoneOf
<1>9. l[n + 1] = lo[n + 1].value BY <1>2
<1> HIDE DEF A, B, C, E
<1>10. WithoutJoins(E, B, "local", n + 1, l[n + 1]) BY <1>8, WithoutUnion, Zenon
<1> QED BY <1>3, <1>4, <1>6, <1>9, <1>10 DEF WithoutJoins, LocalLess, mo

-----------------------------------------------------------------------------
(* Values are destroyed, copied and given up *)

Plain(E) == \A e \in E : IsHolder(e[1])
NoGiven(E) == \A e \in E : e[1] # "given"

LEMMA PlainFacts ==
  ASSUME NEW E, Plain(E)
  PROVE  NoItems(E) /\ NoGiven(E)
BY DEF Plain, NoItems, NoGiven, IsHolder

LEMMA OuterPlain ==
  \A gl, lo, op : Plain(Outer(gl, lo, op)) /\ NoItems(Outer(gl, lo, op)) /\ NoGiven(Outer(gl, lo, op))
<1>1. \A gl, lo, op : Plain(Outer(gl, lo, op)) BY OuterIs DEF Plain
<1> QED BY <1>1, PlainFacts

(* The types of storages that are there before and after. *)
Agree(at, bt) == \A s \in DOMAIN at : s \in DOMAIN bt => bt[s].type = at[s].type

(* Arrays of more dimensions than t outlive values of type t. *)
Outlive(at, bt, t) ==
  \A s \in DOMAIN at : /\ at[s].type.dims > t.dims => s \in DOMAIN bt
                       /\ s \in DOMAIN bt => bt[s].items = at[s].items

Larger(at, M, t) == \A p \in M : p[1] \in DOMAIN at => at[p[1]].type.dims > t.dims

GivenUp(at, bt, E, M, t) ==
  Good(bt, E, M) /\ Agree(at, bt) /\ Outlive(at, bt, t) /\ DOMAIN bt \subseteq DOMAIN at

LEMMA GivenUpSame ==
  ASSUME NEW at, NEW E, NEW M, NEW t, Good(at, E, M)
  PROVE  GivenUp(at, at, E, M, t)
BY DEF GivenUp, Agree, Outlive

LEMMA DestroyFacts ==
  ASSUME NEW at, NEW E, NEW M, NEW t \in Type, NEW h, NEW i, NEW v, Good(at, E, M),
         IsOf(at, v, t), v.kind = "ref" => <<h, i, v.id>> \in E, NoGiven(E), Larger(at, M, t)
  PROVE  \E bt : /\ Destroy(Sound(at), v, t) = Sound(bt)
                 /\ GivenUp(at, bt, Without(E, h, i, v), M, t)
<1>1. DOMAIN at \subseteq StorageId BY DEF Good, Typed
<1>2. /\ v.kind = "ref" <=> HasStorage(t)
      /\ HasStorage(t) => v = Ref(v.id) /\ v.id \in DOMAIN at /\ at[v.id].type = t
  BY <1>1, IsOfFacts
<1>3. CASE ~HasStorage(t)
  <2>1. Destroy(Sound(at), v, t) = Sound(at) BY <1>3 DEF Destroy
  <2>2. Without(E, h, i, v) = E BY <1>2, <1>3 DEF Without
  <2> QED BY <2>1, <2>2, GivenUpSame, Zenon
<1>4. CASE HasStorage(t)
  <2> DEFINE e == <<h, i, v.id>>
  <2>1. e \in E /\ e[3] = v.id BY <1>2, <1>4
  <2>2. Without(E, h, i, v) = E \ {e} BY <1>2, <1>4 DEF Without
  <2>3. Destroy(Sound(at), v, t) = DecRefsCount(Sound(at), e[3], t) BY <1>4, <2>1 DEF Destroy
  <2> HIDE DEF e
  <2>4. <<"given", 0, e[3]>> \notin E
    <3>1. <<"given", 0, e[3]>>[1] = "given" OBVIOUS
    <3> QED BY <3>1 DEF NoGiven
  <2>5. at[e[3]].type = t BY <1>2, <1>4, <2>1
  <2>6. \A p \in M : p[1] \in DOMAIN at => at[p[1]].type.dims > t.dims BY DEF Larger
  <2>7. PICK bt : DecRefsCount(Sound(at), e[3], t) = Sound(bt) /\ DecOK(at, bt, E, M, e, t)
    BY <2>1, <2>4, <2>5, <2>6, DecRefsFacts
  <2>8. GivenUp(at, bt, E \ {e}, M, t)
    <3>1. /\ Kept(at, bt) /\ Good(bt, E \ {e}, M)
          /\ \A s \in DOMAIN at \ DOMAIN bt : at[s].type.dims <= t.dims
      BY <2>7 DEF DecOK
    <3>2. Agree(at, bt) BY <3>1 DEF Kept, Agree
    <3>3. Outlive(at, bt, t)
      <4>1. at \in [DOMAIN at -> Storage] BY DEF Good, Typed
      <4>6. \A s \in DOMAIN bt : bt[s].items = at[s].items BY <3>1 DEF Kept
      <4> SUFFICES ASSUME NEW s \in DOMAIN at, at[s].type.dims > t.dims
                   PROVE  s \in DOMAIN bt
        BY <4>6 DEF Outlive
      <4>2. at[s] \in Storage BY <4>1
      <4>3. at[s].type \in Type BY <4>2 DEF Storage
      <4>4. at[s].type.dims \in Int /\ t.dims \in Int BY <4>3, TypeOf1
      <4> QED BY <3>1, <4>4
    <3> QED BY <3>1, <3>2, <3>3 DEF GivenUp, Kept
  <2> QED BY <2>2, <2>3, <2>7, <2>8
<1> QED BY <1>3, <1>4

Copied(at, bt, E) == Good(bt, E, {}) /\ DOMAIN bt = DOMAIN at /\ Kept(at, bt)

LEMMA CopyFacts ==
  ASSUME NEW at, NEW E, NEW t \in Type, NEW h, NEW i, NEW v, Good(at, E, {}),
         IsOf(at, v, t), v.kind = "ref" => <<h, i, v.id>> \notin E, h # "item"
  PROVE  \E bt : Copy(Sound(at), v, t) = Sound(bt) /\ Copied(at, bt, With(E, h, i, v))
<1>1. DOMAIN at \subseteq StorageId BY DEF Good, Typed
<1>2. /\ v.kind = "ref" <=> HasStorage(t)
      /\ HasStorage(t) => v = Ref(v.id) /\ v.id \in DOMAIN at /\ at[v.id].type = t
  BY <1>1, IsOfFacts
<1>3. CASE ~HasStorage(t)
  <2>1. Copy(Sound(at), v, t) = Sound(at) BY <1>3 DEF Copy
  <2>2. With(E, h, i, v) = E BY <1>2, <1>3 DEF With
  <2>3. Kept(at, at) BY DEF Kept
  <2> QED BY <2>1, <2>2, <2>3, Zenon DEF Copied
<1>4. CASE HasStorage(t)
  <2> DEFINE e == <<h, i, v.id>>
  <2>1. e \notin E /\ e[3] = v.id /\ e[1] = h BY <1>2, <1>4
  <2>2. With(E, h, i, v) = E \cup {e} BY <1>2, <1>4 DEF With
  <2>3. Copy(Sound(at), v, t) = Clone(Sound(at), e[3], t) BY <1>4, <2>1 DEF Copy
  <2> HIDE DEF e
  <2>4. e[3] \in DOMAIN at /\ at[e[3]].type = t BY <1>2, <1>4, <2>1
  <2>5. e[1] # "item" BY <2>1
  <2>6. PICK bt : Clone(Sound(at), e[3], t) = Sound(bt) /\ Cloned(at, bt, E, {}, e)
    BY <2>1, <2>4, <2>5, CloneFacts, Zenon
  <2> QED BY <2>2, <2>3, <2>6, Zenon DEF Cloned, Copied
<1> QED BY <1>3, <1>4

(* What a store does with the value that was there. *)
LEMMA GiveUpFacts ==
  ASSUME NEW at, NEW E, NEW M, NEW t \in Type, NEW h, NEW i, NEW v, Good(at, E, M),
         IsOf(at, v, t), v.kind = "ref" => <<h, i, v.id>> \in E, NoGiven(E), Larger(at, M, t)
  PROVE  \E bt : /\ GiveUp(Sound(at), v, t) = Sound(bt)
                 /\ GivenUp(at, bt, Without(E, h, i, v), M, t)
<1>1. DOMAIN at \subseteq StorageId BY DEF Good, Typed
<1>2. /\ v.kind = "ref" <=> HasStorage(t)
      /\ HasStorage(t) => v = Ref(v.id) /\ v.id \in DOMAIN at /\ at[v.id].type = t
  BY <1>1, IsOfFacts
<1>3. ArrayFacts(t) /\ HasStorage(String0) /\ ~IsArray(String0) BY TypeFacts
<1>4. CASE IsArray(t)
  <2>1. GiveUp(Sound(at), v, t) = Destroy(Sound(at), v, t) BY <1>4 DEF GiveUp
  <2> QED BY <2>1, DestroyFacts
<1>5. CASE ~HasStorage(t)
  <2>1. GiveUp(Sound(at), v, t) = Sound(at) BY <1>3, <1>5 DEF GiveUp, ArrayFacts
  <2>2. Without(E, h, i, v) = E BY <1>2, <1>5 DEF Without
  <2> QED BY <2>1, <2>2, GivenUpSame, Zenon
<1>6. CASE HasStorage(t) /\ ~IsArray(t)
  <2> DEFINE e == <<h, i, v.id>>
  <2>0. t = String0 BY <1>3, <1>6 DEF ArrayFacts
  <2>1. e \in E /\ e[3] = v.id BY <1>2, <1>6
  <2>2. Without(E, h, i, v) = E \ {e} BY <1>2, <1>6 DEF Without
  <2>3. GiveUp(Sound(at), v, t) = Lose(Sound(at), e[3])
    <3>1. GiveUp(Sound(at), v, t) = Lose(Sound(at), v.id) BY <1>6, <2>0, Zenon DEF GiveUp
    <3> QED BY <2>1, <3>1, Zenon
  <2> HIDE DEF e
  <2>5. at[e[3]].type = String0 BY <1>2, <1>6, <2>0, <2>1
  <2>6. PICK bt : Lose(Sound(at), e[3]) = Sound(bt) /\ Lost(at, bt, E, M, e)
    BY <2>1, <2>5, LoseFacts, Zenon
  <2>7. GivenUp(at, bt, E \ {e}, M, t) BY <2>6 DEF GivenUp, Agree, Outlive, Grown, Lost
  <2>8. GiveUp(Sound(at), v, t) = Sound(bt) BY <2>3, <2>6, Zenon
  <2> QED BY <2>2, <2>7, <2>8
<1> QED BY <1>4, <1>5, <1>6

-----------------------------------------------------------------------------
(* What the variables and operands are between two commands: their types,  *)
(* and what is known of the operand on top.  It is a value like any other; *)
(* or an array that a variable or an item holds as well ("kept"), so that  *)
(* an address in it stays when the operand is given up; or an address.     *)

Shape == [operands: Seq(Type), locals: Seq(Type), globals: SUBSET Global,
          mode: {"any", "kept", "address"}]

Local == [type: Type, value: Value]
Operand == Value \cup Address

Slots(at, gl, lo, a) ==
  /\ DOMAIN gl = a.globals /\ lo \in Seq(Local) /\ Len(lo) = Len(a.locals)
  /\ \A x \in DOMAIN gl : IsOf(at, gl[x], TypeOf[x])
  /\ \A i \in DOMAIN lo : lo[i].type = a.locals[i] /\ IsOf(at, lo[i].value, lo[i].type)

OpsOK(at, op, ts, n) == \A i \in 1..n : IsOf(at, op[i], ts[i])

AlsoHeld(at, gl, lo, v) ==
  v.kind = "ref" => \E f \in Outer(gl, lo, <<>>) \cup Items(at, {}) : f[3] = v.id

Leads(at, gl, lo, ad, t) ==
  \/ \E x \in DOMAIN gl : ad = GlobalAddress(x) /\ TypeOf[x] = t
  \/ \E i \in DOMAIN lo : ad = LocalAddress(i) /\ lo[i].type = t
  \/ \E s \in DOMAIN at, i \in {0, 1} \cup Size :
       /\ ad = ItemAddress(s, i) /\ IsArray(at[s].type) /\ ElementOf(at[s].type) = t
       /\ i + 1 \in DOMAIN at[s].items

Stack(at, gl, lo, op, a) ==
  /\ op \in Seq(Operand) /\ Len(op) = Len(a.operands)
  /\ OpsOK(at, op, a.operands, IF a.mode = "address" THEN Len(op) - 1 ELSE Len(op))
  /\ a.mode # "any" => op # <<>>
  /\ a.mode = "kept" => AlsoHeld(at, gl, lo, op[Len(op)])
  /\ a.mode = "address" => Leads(at, gl, lo, op[Len(op)], a.operands[Len(op)])

Fits(at, gl, lo, op, a) ==
  Good(at, Outer(gl, lo, op), {}) /\ Slots(at, gl, lo, a) /\ Stack(at, gl, lo, op, a)

LEMMA AgreeIsOf ==
  ASSUME NEW at, NEW bt, NEW v, NEW t, Agree(at, bt), DOMAIN at \subseteq StorageId,
         IsOf(at, v, t), v.kind = "ref" => v.id \in DOMAIN bt
  PROVE  IsOf(bt, v, t)
<1>1. /\ v.kind = "ref" <=> HasStorage(t)
      /\ HasStorage(t) => v = Ref(v.id) /\ v.id \in DOMAIN at /\ at[v.id].type = t
  BY IsOfFacts
<1>2. CASE HasStorage(t) BY <1>1, <1>2 DEF IsOf, Agree
<1>3. CASE ~HasStorage(t) BY <1>3 DEF IsOf
<1> QED BY <1>2, <1>3

LEMMA SurviveFacts ==
  ASSUME NEW at, NEW bt, NEW A, NEW gl, NEW lo, NEW a, NEW S, NEW op \in Seq(S),
         NEW n \in 0..Len(op), NEW ts, Slots(at, gl, lo, a), OpsOK(at, op, ts, n),
         Agree(at, bt), Good(bt, A, {}), Outer(gl, lo, SubSeq(op, 1, n)) \subseteq A,
         DOMAIN at \subseteq StorageId
  PROVE  Slots(bt, gl, lo, a) /\ OpsOK(bt, op, ts, n)
<1> DEFINE ws == SubSeq(op, 1, n)
<1>1. DOMAIN ws = 1..n /\ \A j \in 1..n : ws[j] = op[j] OBVIOUS
<1> HIDE DEF ws
<1>2. \A e \in A : e[3] \in DOMAIN bt BY DEF Good, Counted
<1>3. \A h, i, s : <<h, i, s>> \in Outer(gl, lo, ws) => s \in DOMAIN bt
  <2> SUFFICES ASSUME NEW h, NEW i, NEW s, <<h, i, s>> \in Outer(gl, lo, ws) PROVE s \in DOMAIN bt
    BY Zenon
  <2>1. <<h, i, s>> \in A BY DEF ws
  <2>2. <<h, i, s>>[3] = s OBVIOUS
  <2> QED BY <1>2, <2>1, <2>2
<1>4. \A x \in DOMAIN gl : gl[x].kind = "ref" => gl[x].id \in DOMAIN bt
  <2> SUFFICES ASSUME NEW x \in DOMAIN gl, gl[x].kind = "ref" PROVE gl[x].id \in DOMAIN bt
    BY Zenon
  <2>1. <<"global", x, gl[x].id>> \in Outer(gl, lo, ws) BY OuterIs
  <2> QED BY <1>3, <2>1, Zenon
<1>5. \A i \in DOMAIN lo : lo[i].value.kind = "ref" => lo[i].value.id \in DOMAIN bt
  <2> SUFFICES ASSUME NEW i \in DOMAIN lo, lo[i].value.kind = "ref" PROVE lo[i].value.id \in DOMAIN bt
    BY Zenon
  <2>1. <<"local", i, lo[i].value.id>> \in Outer(gl, lo, ws) BY OuterIs
  <2> QED BY <1>3, <2>1, Zenon
<1>6. \A i \in 1..n : op[i].kind = "ref" => op[i].id \in DOMAIN bt
  <2> SUFFICES ASSUME NEW i \in 1..n, op[i].kind = "ref" PROVE op[i].id \in DOMAIN bt
    BY Zenon
  <2>1. <<"operand", i, op[i].id>> \in Outer(gl, lo, ws) BY <1>1, OuterIs
  <2> QED BY <1>3, <2>1, Zenon
<1>7. \A x \in DOMAIN gl : IsOf(bt, gl[x], TypeOf[x])
  BY <1>4, AgreeIsOf, Zenon DEF Slots
<1>8. \A i \in DOMAIN lo : lo[i].type = a.locals[i] /\ IsOf(bt, lo[i].value, lo[i].type)
  BY <1>5, AgreeIsOf, Zenon DEF Slots
<1>9. OpsOK(bt, op, ts, n) BY <1>6, AgreeIsOf, Zenon DEF OpsOK
<1>10. Slots(bt, gl, lo, a) BY <1>7, <1>8, Zenon DEF Slots
<1> QED BY <1>9, <1>10

LEMMA AgreeFacts ==
  ASSUME NEW at, NEW bt
  PROVE  (Kept(at, bt) => Agree(at, bt)) /\ (Grown(at, bt) => Agree(at, bt))
BY DEF Kept, Grown, Agree

Under(op, n) == SubSeq(op, 1, Len(op) - n)

UnderIs(op, n, ws) ==
  /\ Len(ws) = Len(op) - n /\ DOMAIN ws = 1..Len(op) - n /\ \A i \in 1..Len(op) - n : ws[i] = op[i]

LEMMA UnderFacts ==
  ASSUME NEW S, NEW op \in Seq(S), NEW n \in 0..Len(op)
  PROVE  Under(op, n) \in Seq(S) /\ UnderIs(op, n, Under(op, n))
BY DEF Under, UnderIs

PushMode(at, gl, lo, v, a) ==
  a.mode = "any" \/ (a.mode = "kept" /\ AlsoHeld(at, gl, lo, v))

(* Some operands are taken and one is pushed, or none. *)
LEMMA PushFits ==
  ASSUME NEW at, NEW gl, NEW lo, NEW op \in Seq(Operand), NEW ts \in Seq(Type),
         NEW a, NEW n \in 0..Len(op), Len(ts) = Len(op), NEW v, NEW t \in Type,
         a.operands = Append(Under(ts, n), t), PushMode(at, gl, lo, v, a),
         Good(at, Outer(gl, lo, Append(Under(op, n), v)), {}), Slots(at, gl, lo, a),
         OpsOK(at, op, ts, Len(op) - n), IsOf(at, v, t)
  PROVE  Fits(at, gl, lo, Append(Under(op, n), v), a)
<1> DEFINE us == Under(op, n)
           ws == Append(us, v)
           k == Len(op) - n
<1>0. v \in Operand BY IsOfFacts DEF Good, Typed, Operand
<1>1. us \in Seq(Operand) /\ UnderIs(op, n, us) BY UnderFacts
<1>2. Under(ts, n) \in Seq(Type) /\ UnderIs(ts, n, Under(ts, n)) BY UnderFacts
<1>7. k \in Nat OBVIOUS
<1> HIDE DEF us
<1>3. /\ ws \in Seq(Operand) /\ Len(ws) = k + 1 /\ ws[k + 1] = v
      /\ \A i \in 1..k : ws[i] = op[i]
  BY <1>0, <1>1 DEF UnderIs
<1>4. /\ Len(a.operands) = k + 1 /\ a.operands[k + 1] = t
      /\ \A i \in 1..k : a.operands[i] = ts[i]
  <2> DEFINE xs == Under(ts, n)
  <2>1. xs \in Seq(Type) /\ Len(xs) = k /\ \A i \in 1..k : xs[i] = ts[i] BY <1>2 DEF UnderIs
  <2>2. a.operands = Append(xs, t) OBVIOUS
  <2> HIDE DEF xs, k
  <2> QED BY <1>7, <2>1, <2>2
<1>8. OpsOK(at, op, ts, k) OBVIOUS
<1> HIDE DEF ws, k
<1>5. OpsOK(at, ws, a.operands, k + 1)
  <2> SUFFICES ASSUME NEW i \in 1..k + 1 PROVE IsOf(at, ws[i], a.operands[i]) BY DEF OpsOK
  <2>1. CASE i \in 1..k BY <1>3, <1>4, <1>8, <2>1 DEF OpsOK
  <2>2. CASE i = k + 1 BY <1>3, <1>4, <2>2
  <2>3. i \in 1..k \/ i = k + 1 BY <1>7
  <2> QED BY <2>1, <2>2, <2>3
<1>6. Stack(at, gl, lo, ws, a)
  <2>1. ws # <<>> /\ ws[Len(ws)] = v BY <1>3, <1>7
  <2>2. a.mode # "address" /\ (a.mode = "kept" => AlsoHeld(at, gl, lo, v)) BY DEF PushMode
  <2> QED BY <1>3, <1>4, <1>5, <2>1, <2>2 DEF Stack
<1> QED BY <1>6 DEF Fits, us, ws

LEMMA PopFits ==
  ASSUME NEW at, NEW gl, NEW lo, NEW op \in Seq(Operand), NEW ts \in Seq(Type),
         NEW a, NEW n \in 0..Len(op), Len(ts) = Len(op), a.operands = Under(ts, n), a.mode = "any",
         Good(at, Outer(gl, lo, Under(op, n)), {}), Slots(at, gl, lo, a),
         OpsOK(at, op, ts, Len(op) - n)
  PROVE  Fits(at, gl, lo, Under(op, n), a)
<1> DEFINE us == Under(op, n)
           k == Len(op) - n
<1>1. us \in Seq(Operand) /\ UnderIs(op, n, us) BY UnderFacts
<1>2. Under(ts, n) \in Seq(Type) /\ UnderIs(ts, n, Under(ts, n)) BY UnderFacts
<1> HIDE DEF us
<1>3. Len(us) = k /\ \A i \in 1..k : us[i] = op[i] BY <1>1 DEF UnderIs
<1>4. Len(a.operands) = k /\ \A i \in 1..k : a.operands[i] = ts[i] BY <1>2 DEF UnderIs
<1>5. OpsOK(at, us, a.operands, k) BY <1>3, <1>4 DEF OpsOK
<1>6. Stack(at, gl, lo, us, a) BY <1>1, <1>3, <1>4, <1>5 DEF Stack
<1> QED BY <1>6 DEF Fits, us

(* The references of the operands that stay. *)
UnderOne(gl, lo, op) ==
  Outer(gl, lo, Under(op, 1)) = Without(Outer(gl, lo, op), "operand", Len(op), op[Len(op)])
UnderTwo(gl, lo, op) ==
  Outer(gl, lo, Under(op, 2))
    = Without(Outer(gl, lo, Under(op, 1)), "operand", Len(op) - 1, op[Len(op) - 1])

LEMMA OuterUnder ==
  ASSUME NEW gl, NEW lo, NEW S, NEW op \in Seq(S), Len(op) > 0
  PROVE  UnderOne(gl, lo, op) /\ (Len(op) > 1 => UnderTwo(gl, lo, op))
<1>1. Len(op) - 1 \in 0..Len(op) /\ Len(op) - 1 + 1 = Len(op) OBVIOUS
<1>2. Outer(gl, lo, Under(op, 1)) = Without(Outer(gl, lo, op), "operand", Len(op), op[Len(op)])
  <2>1. Outer(gl, lo, SubSeq(op, 1, Len(op) - 1))
          = Without(Outer(gl, lo, op), "operand", Len(op) - 1 + 1, op[Len(op) - 1 + 1])
    BY <1>1, OuterPop
  <2> QED BY <1>1, <2>1 DEF Under
<1>3. ASSUME Len(op) > 1
      PROVE  Outer(gl, lo, Under(op, 2))
                = Without(Outer(gl, lo, Under(op, 1)), "operand", Len(op) - 1, op[Len(op) - 1])
  <2> DEFINE us == Under(op, 1)
             n == Len(op) - 2
  <2>1. us \in Seq(S) /\ UnderIs(op, 1, us) BY UnderFacts
  <2>2. /\ n \in 0..Len(us) /\ n = Len(us) - 1 /\ n + 1 = Len(op) - 1
        /\ us[n + 1] = op[Len(op) - 1]
    BY <1>3, <2>1 DEF UnderIs
  <2>3. Under(op, 2) = SubSeq(us, 1, n)
    BY <1>3 DEF Under
  <2> HIDE DEF us, n
  <2>4. Outer(gl, lo, SubSeq(us, 1, n)) = Without(Outer(gl, lo, us), "operand", n + 1, us[n + 1])
    BY <2>1, <2>2, OuterPop
  <2> QED BY <2>2, <2>3, <2>4 DEF us
<1> QED BY <1>2, <1>3 DEF UnderOne, UnderTwo

-----------------------------------------------------------------------------
(* What each command takes, gives and needs. *)

SameVars(a, b) == b.locals = a.locals /\ b.globals = a.globals
Modes(a, b, m, n) == a.mode = m /\ b.mode = n
Plainly(a, b) == SameVars(a, b) /\ Modes(a, b, "any", "any")
Pushes(a, b, n, t) ==
  n \in 0..Len(a.operands) /\ b.operands = Append(Under(a.operands, n), t)
Pops(a, b, n) == n \in 0..Len(a.operands) /\ b.operands = Under(a.operands, n)
On(a, n, t) == n \in 1..Len(a.operands) /\ a.operands[Len(a.operands) - n + 1] = t

StepLoadIntValue(c, a, b) ==
  c.int \in {0, 1} \cup Size /\ Pushes(a, b, 0, Int0) /\ Plainly(a, b)
StepLoadStringValue(a, b) == Pushes(a, b, 0, String0) /\ Plainly(a, b)
NewGlobal(c, a, b) ==
  /\ c.var \in Global \ a.globals /\ c.type = TypeOf[c.var]
  /\ b.locals = a.locals /\ b.globals = a.globals \cup {c.var} /\ Modes(a, b, "any", "any")
StepCreateGlobalVar(c, a, b) == NewGlobal(c, a, b) /\ Pops(a, b, 0)
StepCreateAndInitGlobalVar(c, a, b) == NewGlobal(c, a, b) /\ On(a, 1, c.type) /\ Pops(a, b, 1)
NewLocal(c, a, b) ==
  /\ c.type \in Type /\ b.locals = Append(a.locals, c.type) /\ b.globals = a.globals
  /\ Modes(a, b, "any", "any")
StepCreateLocalVar(c, a, b) == NewLocal(c, a, b) /\ Pops(a, b, 0)
StepCreateAndInitLocalVar(c, a, b) == NewLocal(c, a, b) /\ On(a, 1, c.type) /\ Pops(a, b, 1)
StepDestroyLocalVar(c, a, b) ==
  /\ Len(a.locals) > 0 /\ c.type = a.locals[Len(a.locals)] /\ b.locals = Under(a.locals, 1)
  /\ b.globals = a.globals /\ Pops(a, b, 0) /\ Modes(a, b, "any", "any")
StepUnload(c, a, b) == On(a, 1, c.type) /\ Pops(a, b, 1) /\ Plainly(a, b)
StepCallNative(a, b) == On(a, 1, String0) /\ Pops(a, b, 1) /\ Plainly(a, b)
LoadsValue(a, b, t) ==
  Pushes(a, b, 0, t) /\ SameVars(a, b) /\ a.mode = "any" /\ b.mode \in {"any", "kept"}
StepLoadGlobalVarValue(c, a, b) ==
  c.var \in a.globals /\ c.type = TypeOf[c.var] /\ LoadsValue(a, b, c.type)
StepLoadLocalVarValue(c, a, b) ==
  c.index \in 1..Len(a.locals) /\ c.type = a.locals[c.index] /\ LoadsValue(a, b, c.type)
LoadsAddress(a, b, t) ==
  Pushes(a, b, 0, t) /\ SameVars(a, b) /\ Modes(a, b, "any", "address")
StepLoadGlobalVarAddress(c, a, b) ==
  c.var \in a.globals /\ LoadsAddress(a, b, TypeOf[c.var])
StepLoadLocalVarAddress(c, a, b) ==
  c.index \in 1..Len(a.locals) /\ c.index <= MaxLocals /\ LoadsAddress(a, b, a.locals[c.index])
StepCreateArray(c, a, b) ==
  /\ c.type \in Type /\ c.dims \in 0..c.type.dims /\ \A j \in 1..c.dims : On(a, j, Int0)
  /\ Pushes(a, b, c.dims, c.type) /\ Plainly(a, b)
StepCreateAndInitArray(c, a, b) ==
  /\ c.type \in Type /\ IsArray(c.type) /\ \A j \in 1..c.count : On(a, j, ElementOf(c.type))
  /\ Pushes(a, b, c.count, c.type) /\ Plainly(a, b)
LoadsElement(c, a, b) ==
  /\ c.type \in Type /\ IsArray(c.type) /\ On(a, 1, c.type) /\ On(a, 2, Int0)
  /\ Pushes(a, b, 2, ElementOf(c.type)) /\ SameVars(a, b)
StepLoadElementValue(c, a, b) ==
  LoadsElement(c, a, b) /\ a.mode = b.mode /\ a.mode \in {"any", "kept"}
StepLoadElementAddress(c, a, b) == LoadsElement(c, a, b) /\ Modes(a, b, "kept", "address")
StepStore(c, a, b) ==
  /\ On(a, 1, c.type) /\ On(a, 2, c.type) /\ Pops(a, b, 2) /\ SameVars(a, b)
  /\ Modes(a, b, "address", "any")
StepPreInc(a, b) ==
  On(a, 1, Int0) /\ Pops(a, b, 1) /\ SameVars(a, b) /\ Modes(a, b, "address", "any")
StepEqual(c, a, b) ==
  On(a, 1, c.type) /\ On(a, 2, c.type) /\ Pushes(a, b, 2, Int0) /\ Plainly(a, b)
StepSum(a, b) ==
  On(a, 1, String0) /\ On(a, 2, String0) /\ Pushes(a, b, 2, String0) /\ Plainly(a, b)

Step(c, a, b) ==
  \/ c.op = "LoadIntValue" /\ StepLoadIntValue(c, a, b)
  \/ c.op = "LoadStringValue" /\ StepLoadStringValue(a, b)
  \/ c.op = "CreateGlobalVar" /\ StepCreateGlobalVar(c, a, b)
  \/ c.op = "CreateAndInitGlobalVar" /\ StepCreateAndInitGlobalVar(c, a, b)
  \/ c.op = "CreateLocalVar" /\ StepCreateLocalVar(c, a, b)
  \/ c.op = "CreateAndInitLocalVar" /\ StepCreateAndInitLocalVar(c, a, b)
  \/ c.op = "DestroyLocalVar" /\ StepDestroyLocalVar(c, a, b)
  \/ c.op = "Unload" /\ StepUnload(c, a, b)
  \/ c.op = "CallNative" /\ StepCallNative(a, b)
  \/ c.op = "LoadGlobalVarValue" /\ StepLoadGlobalVarValue(c, a, b)
  \/ c.op = "LoadLocalVarValue" /\ StepLoadLocalVarValue(c, a, b)
  \/ c.op = "LoadGlobalVarAddress" /\ StepLoadGlobalVarAddress(c, a, b)
  \/ c.op = "LoadLocalVarAddress" /\ StepLoadLocalVarAddress(c, a, b)
  \/ c.op = "CreateArray" /\ StepCreateArray(c, a, b)
  \/ c.op = "CreateAndInitArray" /\ StepCreateAndInitArray(c, a, b)
  \/ c.op = "LoadArrayElementValue" /\ StepLoadElementValue(c, a, b)
  \/ c.op = "LoadArrayElementAddress" /\ StepLoadElementAddress(c, a, b)
  \/ c.op = "Store" /\ StepStore(c, a, b)
  \/ c.op = "PreInc" /\ StepPreInc(a, b)
  \/ c.op = "Equal" /\ StepEqual(c, a, b)
  \/ c.op = "Sum" /\ StepSum(a, b)

ShapeFacts(a) ==
  /\ a.operands \in Seq(Type) /\ a.locals \in Seq(Type) /\ a.globals \in SUBSET Global
  /\ a.mode \in {"any", "kept", "address"}

LEMMA ShapeIs == \A a \in Shape : ShapeFacts(a)
BY DEF Shape, ShapeFacts

LEMMA SlotsSame ==
  ASSUME NEW at, NEW gl, NEW lo, NEW a, NEW b, Slots(at, gl, lo, a), SameVars(a, b)
  PROVE  Slots(at, gl, lo, b)
BY DEF Slots, SameVars

(* An operand: its value, and its reference. *)
Has(at, E, op, n, t) ==
  /\ n \in 1..Len(op) /\ Len(op) - n + 1 \in 1..Len(op)
  /\ IsOf(at, op[Len(op) - n + 1], t) /\ t \in Type
  /\ op[Len(op) - n + 1].kind = "ref" =>
       <<"operand", Len(op) - n + 1, op[Len(op) - n + 1].id>> \in E

LEMMA OnFacts ==
  ASSUME NEW at, NEW gl, NEW lo, NEW op, NEW a \in Shape, NEW n, NEW t,
         Fits(at, gl, lo, op, a), On(a, n, t), a.mode # "address" \/ n # 1
  PROVE  Has(at, Outer(gl, lo, op), op, n, t)
<1>1. op \in Seq(Operand) /\ Len(op) = Len(a.operands) BY DEF Fits, Stack
<1>2. a.operands \in Seq(Type) BY ShapeIs DEF ShapeFacts
<1> DEFINE i == Len(op) - n + 1
<1>3. /\ n \in 1..Len(op) /\ i \in 1..Len(op) /\ a.operands[i] = t /\ t \in Type
      /\ n # 1 => i <= Len(op) - 1
  BY <1>1, <1>2 DEF On
<1>4. OpsOK(at, op, a.operands, IF a.mode = "address" THEN Len(op) - 1 ELSE Len(op))
  BY DEF Fits, Stack
<1>5. Len(op) \in Nat /\ DOMAIN op = 1..Len(op) BY <1>1
<1> HIDE DEF i
<1>6. IsOf(at, op[i], t) BY <1>3, <1>4, <1>5 DEF OpsOK
<1>7. op[i].kind = "ref" => <<"operand", i, op[i].id>> \in Outer(gl, lo, op)
  BY <1>3, <1>5, OuterIs
<1> QED BY <1>3, <1>6, <1>7 DEF Has, i

FitsBasics(at, gl, lo, op, a) ==
  /\ op \in Seq(Operand) /\ Len(op) = Len(a.operands) /\ a.operands \in Seq(Type)
  /\ Slots(at, gl, lo, a) /\ Good(at, Outer(gl, lo, op), {}) /\ DOMAIN at \subseteq StorageId
  /\ OpsOK(at, op, a.operands, Len(op) - 1)
  /\ a.mode # "address" => OpsOK(at, op, a.operands, Len(op))

LEMMA FitsFacts ==
  ASSUME NEW at, NEW gl, NEW lo, NEW op, NEW a \in Shape, Fits(at, gl, lo, op, a)
  PROVE  FitsBasics(at, gl, lo, op, a)
<1>1. /\ op \in Seq(Operand) /\ Len(op) = Len(a.operands) /\ Slots(at, gl, lo, a)
      /\ Good(at, Outer(gl, lo, op), {}) /\ DOMAIN at \subseteq StorageId
  BY DEF Fits, Stack, Good, Typed
<1>2. a.operands \in Seq(Type) BY ShapeIs DEF ShapeFacts
<1>3. OpsOK(at, op, a.operands, IF a.mode = "address" THEN Len(op) - 1 ELSE Len(op))
  BY DEF Fits, Stack
<1>4. Len(op) \in Nat BY <1>1
<1>5. OpsOK(at, op, a.operands, Len(op)) => OpsOK(at, op, a.operands, Len(op) - 1)
  BY <1>4 DEF OpsOK
<1> QED BY <1>1, <1>2, <1>3, <1>5 DEF FitsBasics

(* A reference among the operands. *)
LEMMA OuterOperand ==
  ASSUME NEW gl, NEW lo, NEW op, NEW e \in Outer(gl, lo, op), e[1] = "operand"
  PROVE  e[2] \in DOMAIN op /\ op[e[2]].kind = "ref" /\ e = <<"operand", e[2], op[e[2]].id>>
<1>1. RefsOf("global", RefsAmong("global", gl)) /\ RefsOf("local", RefsAmong("local", Locs(lo)))
  BY RefsOfIs
<1>2. e \in RefsAmong("operand", op) BY <1>1 DEF Outer, RefsOf
<1>3. PICK i \in DOMAIN op : IsRef("operand", op, i, e) BY <1>2, RefsAre
<1> QED BY <1>3 DEF IsRef

LEMMA OuterInts ==
  ASSUME NEW gl, NEW lo, NEW S, NEW op \in Seq(S), NEW n \in 0..Len(op),
         \A i \in 1..Len(op) : i > Len(op) - n => op[i].kind # "ref"
  PROVE  Outer(gl, lo, Under(op, n)) = Outer(gl, lo, op)
<1> DEFINE k == Len(op) - n
<1>1. k \in 0..Len(op) /\ DOMAIN op = 1..Len(op) OBVIOUS
<1>2. Under(op, n) = SubSeq(op, 1, k) BY DEF Under
<1>3. \A i \in 1..Len(op) : i > k => op[i].kind # "ref" OBVIOUS
<1> HIDE DEF k
<1>4. \A e : e \in Outer(gl, lo, SubSeq(op, 1, k))
                     <=> e \in Outer(gl, lo, op) /\ (e[1] = "operand" => e[2] \in 1..k)
  BY <1>1, OuterPop
<1>5. \A e \in Outer(gl, lo, op) : e[1] = "operand" => e[2] \in 1..k
  <2> SUFFICES ASSUME NEW e \in Outer(gl, lo, op), e[1] = "operand" PROVE e[2] \in 1..k
    BY Zenon
  <2>1. e[2] \in 1..Len(op) /\ op[e[2]].kind = "ref" BY <1>1, OuterOperand
  <2> QED BY <1>1, <1>3, <2>1
<1>6. \A e : e \in Outer(gl, lo, SubSeq(op, 1, k)) <=> e \in Outer(gl, lo, op) BY <1>4, <1>5, Zenon
<1> QED BY <1>2, <1>6

(* A value is pushed over the operands that stay. *)
LEMMA OuterPushed ==
  ASSUME NEW gl, NEW lo, NEW S, NEW op \in Seq(S), NEW n \in 0..Len(op), NEW v
  PROVE  Outer(gl, lo, Append(Under(op, n), v))
           = With(Outer(gl, lo, Under(op, n)), "operand", Len(op) - n + 1, v)
<1>1. Under(op, n) \in Seq(S) /\ Len(Under(op, n)) = Len(op) - n BY UnderFacts DEF UnderIs
<1> QED BY <1>1, OuterPush

LEMMA UnderSubset ==
  ASSUME NEW gl, NEW lo, NEW S, NEW op \in Seq(S), NEW n \in 0..Len(op)
  PROVE  /\ Outer(gl, lo, Under(op, n)) \subseteq Outer(gl, lo, op)
         /\ Outer(gl, lo, SubSeq(op, 1, Len(op) - n)) = Outer(gl, lo, Under(op, n))
         /\ Outer(gl, lo, Under(op, 0)) = Outer(gl, lo, op)
<1>1. Len(op) - n \in 0..Len(op) OBVIOUS
<1>2. \A e : e \in Outer(gl, lo, Under(op, n)) => e \in Outer(gl, lo, op)
  BY <1>1, OuterPop DEF Under
<1>3. 0 \in 0..Len(op) /\ \A i \in 1..Len(op) : ~(i > Len(op) - 0) OBVIOUS
<1>4. Outer(gl, lo, Under(op, 0)) = Outer(gl, lo, op) BY <1>3, OuterInts
<1> QED BY <1>2, <1>4 DEF Under

(* After some operands were taken the memory is another one, which counts  *)
(* those that stay and one that is pushed.                                 *)
LEMMA PushedFits ==
  ASSUME NEW at, NEW bt, NEW gl, NEW lo, NEW op, NEW a \in Shape, NEW b, NEW n, NEW v, NEW t \in Type,
         Fits(at, gl, lo, op, a), Pushes(a, b, n, t), SameVars(a, b), PushMode(bt, gl, lo, v, b),
         a.mode # "address" \/ n # 0, Agree(at, bt), IsOf(bt, v, t),
         Good(bt, With(Outer(gl, lo, Under(op, n)), "operand", Len(op) - n + 1, v), {})
  PROVE  Fits(bt, gl, lo, Append(Under(op, n), v), b)
<1>1. FitsBasics(at, gl, lo, op, a) BY FitsFacts
<1>2. /\ op \in Seq(Operand) /\ a.operands \in Seq(Type) /\ Len(a.operands) = Len(op)
      /\ n \in 0..Len(op) /\ b.operands = Append(Under(a.operands, n), t)
      /\ Slots(at, gl, lo, a) /\ DOMAIN at \subseteq StorageId
  BY <1>1 DEF FitsBasics, Pushes
<1> DEFINE E == With(Outer(gl, lo, Under(op, n)), "operand", Len(op) - n + 1, v)
<1>3. E = Outer(gl, lo, Append(Under(op, n), v)) BY <1>2, OuterPushed
<1>4. Outer(gl, lo, Under(op, n)) \subseteq E BY DEF With
<1>5. OpsOK(at, op, a.operands, Len(op) - n)
  <2>1. Len(op) \in Nat /\ (n = 0 => Len(op) - n = Len(op)) BY <1>2
  <2>2. CASE n = 0 BY <1>1, <2>1, <2>2 DEF FitsBasics
  <2>3. CASE n # 0
    <3>1. OpsOK(at, op, a.operands, Len(op) - 1) BY <1>1 DEF FitsBasics
    <3>2. 1..Len(op) - n \subseteq 1..Len(op) - 1 BY <1>2, <2>1, <2>3
    <3> QED BY <3>1, <3>2 DEF OpsOK
  <2> QED BY <2>2, <2>3
<1>6. Good(bt, E, {}) OBVIOUS
<1> HIDE DEF E
<1>7. Slots(bt, gl, lo, a) /\ OpsOK(bt, op, a.operands, Len(op) - n)
  <2> DEFINE k == Len(op) - n
  <2>0. SubSeq(op, 1, k) = Under(op, n) BY Zenon DEF Under
  <2>1. k \in 0..Len(op) BY <1>2
  <2>4. Outer(gl, lo, SubSeq(op, 1, k)) = Outer(gl, lo, Under(op, n)) BY <2>0, Zenon
  <2>5. Outer(gl, lo, SubSeq(op, 1, k)) \subseteq E BY <1>4, <2>4
  <2>2. OpsOK(at, op, a.operands, k) BY <1>5
  <2> HIDE DEF k
  <2>3. Slots(bt, gl, lo, a) /\ OpsOK(bt, op, a.operands, k)
    BY <1>2, <1>6, <2>1, <2>2, <2>5, SurviveFacts
  <2> QED BY <2>3 DEF k
<1>8. Slots(bt, gl, lo, b) BY <1>7, SlotsSame
<1>9. Good(bt, Outer(gl, lo, Append(Under(op, n), v)), {}) BY <1>3, <1>6
<1> QED BY <1>2, <1>7, <1>8, <1>9, PushFits

LEMMA PoppedFits ==
  ASSUME NEW at, NEW bt, NEW gl, NEW lo, NEW op, NEW a \in Shape, NEW b, NEW n,
         Fits(at, gl, lo, op, a), Pops(a, b, n), SameVars(a, b), b.mode = "any",
         a.mode # "address" \/ n # 0, Agree(at, bt), Good(bt, Outer(gl, lo, Under(op, n)), {})
  PROVE  Fits(bt, gl, lo, Under(op, n), b)
<1>1. FitsBasics(at, gl, lo, op, a) BY FitsFacts
<1>2. /\ op \in Seq(Operand) /\ a.operands \in Seq(Type) /\ Len(a.operands) = Len(op)
      /\ n \in 0..Len(op) /\ b.operands = Under(a.operands, n)
      /\ Slots(at, gl, lo, a) /\ DOMAIN at \subseteq StorageId
  BY <1>1 DEF FitsBasics, Pops
<1>5. OpsOK(at, op, a.operands, Len(op) - n)
  <2>1. Len(op) \in Nat /\ (n = 0 => Len(op) - n = Len(op)) BY <1>2
  <2>2. CASE n = 0 BY <1>1, <2>1, <2>2 DEF FitsBasics
  <2>3. CASE n # 0
    <3>1. OpsOK(at, op, a.operands, Len(op) - 1) BY <1>1 DEF FitsBasics
    <3>2. 1..Len(op) - n \subseteq 1..Len(op) - 1 BY <1>2, <2>1, <2>3
    <3> QED BY <3>1, <3>2 DEF OpsOK
  <2> QED BY <2>2, <2>3
<1>7. Slots(bt, gl, lo, a) /\ OpsOK(bt, op, a.operands, Len(op) - n)
  <2> DEFINE k == Len(op) - n
             E == Outer(gl, lo, Under(op, n))
  <2>0. SubSeq(op, 1, k) = Under(op, n) BY Zenon DEF Under
  <2>1. k \in 0..Len(op) BY <1>2
  <2>4. Outer(gl, lo, SubSeq(op, 1, k)) = Outer(gl, lo, Under(op, n)) BY <2>0, Zenon
  <2>5. Outer(gl, lo, SubSeq(op, 1, k)) \subseteq E BY <2>4
  <2>2. OpsOK(at, op, a.operands, k) /\ Good(bt, E, {}) BY <1>5
  <2> HIDE DEF k, E
  <2>3. Slots(bt, gl, lo, a) /\ OpsOK(bt, op, a.operands, k)
    BY <1>2, <2>1, <2>2, <2>5, SurviveFacts
  <2> QED BY <2>3 DEF k
<1>8. Slots(bt, gl, lo, b) BY <1>7, SlotsSame
<1> QED BY <1>2, <1>7, <1>8, PopFits

(* A new value is pushed; the operands taken held no references. *)
LEMMA MadeFits ==
  ASSUME NEW x, NEW at, NEW gl, NEW lo, NEW op, NEW a \in Shape, NEW b, NEW n, NEW t \in Type,
         Fits(at, gl, lo, op, a), Pushes(a, b, n, t), Plainly(a, b),
         Outer(gl, lo, Under(op, n)) = Outer(gl, lo, op),
         Made(x, at, Outer(gl, lo, op), "operand", Len(op) - n + 1, t)
  PROVE  \E bt, v : x = [memory |-> Sound(bt), value |-> v]
                    /\ Fits(bt, gl, lo, Append(Under(op, n), v), b)
<1> DEFINE E == Outer(gl, lo, op)
           p == Len(op) - n + 1
<1>1. PICK bt, v : /\ x = [memory |-> Sound(bt), value |-> v] /\ IsOf(bt, v, t) /\ Grown(at, bt)
                   /\ v.kind = "ref" => v.id \notin DOMAIN at
                   /\ Good(bt, With(E, "operand", p, v), {})
  <2> HIDE DEF E, p
  <2>1. Made(x, at, E, "operand", p, t) BY DEF E, p
  <2> QED BY <2>1, Zenon DEF Made
<1>2. Agree(at, bt) BY <1>1, AgreeFacts
<1>3. Good(bt, With(Outer(gl, lo, Under(op, n)), "operand", Len(op) - n + 1, v), {}) BY <1>1
<1>4. Fits(bt, gl, lo, Append(Under(op, n), v), b)
  <2>1. PushMode(bt, gl, lo, v, b) /\ SameVars(a, b) /\ a.mode # "address"
    BY DEF Plainly, Modes, PushMode
  <2> QED BY <1>1, <1>2, <1>3, <2>1, PushedFits
<1> QED BY <1>1, <1>4

(* A copy is pushed. *)
LEMMA CopyFits ==
  ASSUME NEW at, NEW gl, NEW lo, NEW op, NEW a \in Shape, NEW b, NEW v, NEW t \in Type,
         Fits(at, gl, lo, op, a), LoadsValue(a, b, t), IsOf(at, v, t),
         v.kind = "ref" => \E f \in Outer(gl, lo, <<>>) : f[3] = v.id
  PROVE  \E bt : Copy(Sound(at), v, t) = Sound(bt) /\ Fits(bt, gl, lo, Append(Under(op, 0), v), b)
<1> DEFINE E == Outer(gl, lo, op)
           p == Len(op) + 1
<1>1. FitsBasics(at, gl, lo, op, a) BY FitsFacts
<1>2. op \in Seq(Operand) /\ Good(at, E, {}) BY <1>1 DEF FitsBasics
<1>3. <<"operand", p, v.id>> \notin E
  <2>1. p \notin DOMAIN op BY <1>2
  <2> QED BY <2>1, OuterIs
<1>4. PICK bt : Copy(Sound(at), v, t) = Sound(bt) /\ Copied(at, bt, With(E, "operand", p, v))
  BY <1>2, <1>3, CopyFacts
<1>5. /\ Good(bt, With(E, "operand", p, v), {}) /\ DOMAIN bt = DOMAIN at /\ Kept(at, bt)
  BY <1>4 DEF Copied
<1>6. Agree(at, bt) BY <1>5, AgreeFacts
<1>7. IsOf(bt, v, t)
  <2>1. DOMAIN at \subseteq StorageId BY <1>1 DEF FitsBasics
  <2>2. v.kind = "ref" => v.id \in DOMAIN bt BY <1>5, <2>1, IsOfFacts
  <2> QED BY <1>6, <2>1, <2>2, AgreeIsOf
<1>8. Outer(gl, lo, Under(op, 0)) = E /\ Len(op) - 0 + 1 = p BY <1>2, UnderSubset
<1>9. Good(bt, With(Outer(gl, lo, Under(op, 0)), "operand", Len(op) - 0 + 1, v), {})
  <2> HIDE DEF E, p
  <2> QED BY <1>5, <1>8
<1>10. Fits(bt, gl, lo, Append(Under(op, 0), v), b)
  <2>1. PushMode(bt, gl, lo, v, b) BY DEF LoadsValue, PushMode, AlsoHeld
  <2>2. Pushes(a, b, 0, t) /\ SameVars(a, b) /\ a.mode # "address" BY DEF LoadsValue
  <2> QED BY <1>6, <1>7, <1>9, <2>1, <2>2, PushedFits
<1> QED BY <1>4, <1>10

(* The operand on top is destroyed. *)
LEMMA DropFits ==
  ASSUME NEW at, NEW gl, NEW lo, NEW op, NEW a \in Shape, NEW b, NEW t,
         Fits(at, gl, lo, op, a), On(a, 1, t), Pops(a, b, 1), Plainly(a, b)
  PROVE  \E bt : Destroy(Sound(at), op[Len(op)], t) = Sound(bt) /\ Fits(bt, gl, lo, Under(op, 1), b)
<1> DEFINE E == Outer(gl, lo, op)
           v == op[Len(op)]
           i == Len(op)
<1>1. FitsBasics(at, gl, lo, op, a) BY FitsFacts
<1>2. op \in Seq(Operand) /\ Good(at, E, {}) BY <1>1 DEF FitsBasics
<1>3. Has(at, E, op, 1, t) BY OnFacts DEF Plainly, Modes
<1>4. Len(op) - 1 + 1 = i /\ Len(op) > 0 BY <1>2, <1>3 DEF Has
<1>5. IsOf(at, v, t) /\ t \in Type /\ (v.kind = "ref" => <<"operand", i, v.id>> \in E)
  BY <1>3, <1>4 DEF Has
<1>6. NoGiven(E) /\ Larger(at, {}, t) BY OuterPlain DEF Larger
<1>7. Without(E, "operand", i, v) = Outer(gl, lo, Under(op, 1))
  <2>1. UnderOne(gl, lo, op) BY <1>2, <1>4, OuterUnder, Zenon
  <2> QED BY <2>1 DEF UnderOne
<1> HIDE DEF E, v, i
<1>8. PICK bt : Destroy(Sound(at), v, t) = Sound(bt)
                /\ GivenUp(at, bt, Without(E, "operand", i, v), {}, t)
  BY <1>2, <1>5, <1>6, DestroyFacts
<1>9. Agree(at, bt) /\ Good(bt, Outer(gl, lo, Under(op, 1)), {})
  BY <1>7, <1>8, Zenon DEF GivenUp
<1>10. Fits(bt, gl, lo, Under(op, 1), b)
  <2>1. SameVars(a, b) /\ b.mode = "any" /\ a.mode # "address" BY DEF Plainly, Modes
  <2> QED BY <1>9, <2>1, PoppedFits
<1> QED BY <1>8, <1>10 DEF v

LEMMA AgreeTrans ==
  ASSUME NEW at, NEW bt, NEW ct, Agree(at, bt), Agree(bt, ct),
         DOMAIN at \subseteq DOMAIN bt \/ DOMAIN ct \subseteq DOMAIN bt
  PROVE  Agree(at, ct)
BY DEF Agree

(* Two operands are destroyed. *)
TwoGone(x, at, F) ==
  \E bt : x = Sound(bt) /\ Good(bt, F, {}) /\ Agree(at, bt) /\ DOMAIN bt \subseteq DOMAIN at

LEMMA DropTwo ==
  ASSUME NEW at, NEW E, NEW p, NEW q, NEW v, NEW w, NEW t \in Type, NEW u \in Type, p # q,
         Good(at, E, {}), NoGiven(E), IsOf(at, v, t), IsOf(at, w, u),
         v.kind = "ref" => <<"operand", p, v.id>> \in E,
         w.kind = "ref" => <<"operand", q, w.id>> \in E
  PROVE  TwoGone(Destroy(Destroy(Sound(at), v, t), w, u), at,
                 Without(Without(E, "operand", p, v), "operand", q, w))
<1> DEFINE F == Without(E, "operand", p, v)
           f == <<"operand", q, w.id>>
<1>1. Larger(at, {}, t) BY DEF Larger
<1>2. PICK bt : Destroy(Sound(at), v, t) = Sound(bt) /\ GivenUp(at, bt, F, {}, t)
  BY <1>1, DestroyFacts
<1>3. w.kind = "ref" => f \in F /\ f[3] = w.id
  <2>1. f # <<"operand", p, v.id>> OBVIOUS
  <2>2. f[3] = w.id OBVIOUS
  <2> QED BY <2>1, <2>2 DEF Without
<1>4. NoGiven(F) BY DEF NoGiven, Without
<1>5. DOMAIN at \subseteq StorageId BY DEF Good, Typed
<1> HIDE DEF F
<1>6. Good(bt, F, {}) /\ Agree(at, bt) /\ DOMAIN bt \subseteq DOMAIN at BY <1>2 DEF GivenUp
<1>7. \A e \in F : e[3] \in DOMAIN bt BY <1>6 DEF Good, Counted
<1>8. w.kind = "ref" => w.id \in DOMAIN bt
  <2> HIDE DEF f
  <2> QED BY <1>3, <1>7
<1>9. IsOf(bt, w, u) BY <1>5, <1>6, <1>8, AgreeIsOf
<1>10. Larger(bt, {}, u) BY DEF Larger
<1>11. PICK ct : /\ Destroy(Sound(bt), w, u) = Sound(ct)
                 /\ GivenUp(bt, ct, Without(F, "operand", q, w), {}, u)
  BY <1>3, <1>4, <1>6, <1>9, <1>10, DestroyFacts
<1>12. Good(ct, Without(F, "operand", q, w), {}) /\ Agree(bt, ct) /\ DOMAIN ct \subseteq DOMAIN bt
  BY <1>11 DEF GivenUp
<1>13. Agree(at, ct) BY <1>6, <1>12, AgreeTrans
<1>14. Destroy(Destroy(Sound(at), v, t), w, u) = Sound(ct) BY <1>2, <1>11
<1>15. DOMAIN ct \subseteq DOMAIN at BY <1>6, <1>12
<1> QED BY <1>12, <1>13, <1>14, <1>15 DEF TwoGone, F

TwoOnTop(at, gl, lo, op, t, u) ==
  LET E == Outer(gl, lo, op)
      n == Len(op)
  IN  /\ op \in Seq(Operand) /\ n > 1 /\ n - 1 # n /\ n \in Nat
      /\ op[n - 1 + 1] = op[n] /\ op[n - 2 + 1] = op[n - 1]
      /\ Good(at, E, {}) /\ NoGiven(E) /\ DOMAIN at \subseteq StorageId
      /\ t \in Type /\ u \in Type /\ IsOf(at, op[n], t) /\ IsOf(at, op[n - 1], u)
      /\ op[n].kind = "ref" => <<"operand", n, op[n].id>> \in E
      /\ op[n - 1].kind = "ref" => <<"operand", n - 1, op[n - 1].id>> \in E
      /\ Outer(gl, lo, Under(op, 2))
           = Without(Without(E, "operand", n, op[n]), "operand", n - 1, op[n - 1])

LEMMA OuterTwo ==
  ASSUME NEW at, NEW gl, NEW lo, NEW op, NEW a \in Shape, NEW t, NEW u,
         Fits(at, gl, lo, op, a), On(a, 1, t), On(a, 2, u), a.mode # "address"
  PROVE  TwoOnTop(at, gl, lo, op, t, u)
<1> DEFINE E == Outer(gl, lo, op)
           n == Len(op)
<1>1. FitsBasics(at, gl, lo, op, a) BY FitsFacts
<1>2. /\ op \in Seq(Operand) /\ Good(at, E, {}) /\ DOMAIN at \subseteq StorageId
  BY <1>1 DEF FitsBasics
<1>3. Has(at, E, op, 1, t) /\ Has(at, E, op, 2, u)
  <2>1. Has(at, E, op, 1, t) BY OnFacts
  <2>2. 2 # 1 OBVIOUS
  <2>3. Has(at, E, op, 2, u) BY <2>2, OnFacts
  <2> QED BY <2>1, <2>3
<1>4. n - 1 + 1 = n /\ n - 2 + 1 = n - 1 /\ n > 1 /\ n > 0 /\ n - 1 # n /\ n \in Nat
  BY <1>2, <1>3 DEF Has
<1>5. NoGiven(E) BY OuterPlain, Zenon
<1>6. Outer(gl, lo, Under(op, 2))
        = Without(Without(E, "operand", n, op[n]), "operand", n - 1, op[n - 1])
  <2>2. UnderOne(gl, lo, op) /\ UnderTwo(gl, lo, op) BY <1>2, <1>4, OuterUnder, Zenon
  <2>3. Outer(gl, lo, Under(op, 1)) = Without(E, "operand", n, op[n]) BY <2>2 DEF UnderOne
  <2> HIDE DEF E
  <2> QED BY <2>2, <2>3, Zenon DEF UnderTwo
<1> HIDE DEF E, n
<1>7. /\ t \in Type /\ u \in Type /\ IsOf(at, op[n], t) /\ IsOf(at, op[n - 1], u)
      /\ op[n].kind = "ref" => <<"operand", n, op[n].id>> \in E
      /\ op[n - 1].kind = "ref" => <<"operand", n - 1, op[n - 1].id>> \in E
  BY <1>3, <1>4, Zenon DEF Has, n
<1> QED BY <1>2, <1>4, <1>5, <1>6, <1>7, Zenon DEF E, n, TwoOnTop

(* An address is pushed. *)
LEMMA AddressFits ==
  ASSUME NEW at, NEW bt, NEW gl, NEW lo, NEW op, NEW a \in Shape, NEW b, NEW n, NEW v, NEW t \in Type,
         Fits(at, gl, lo, op, a), Pushes(a, b, n, t), SameVars(a, b), b.mode = "address",
         a.mode # "address", Agree(at, bt), Leads(bt, gl, lo, v, t), v \in Address,
         v.kind # "ref", Good(bt, Outer(gl, lo, Under(op, n)), {})
  PROVE  Fits(bt, gl, lo, Append(Under(op, n), v), b)
<1>1. FitsBasics(at, gl, lo, op, a) BY FitsFacts
<1>2. /\ op \in Seq(Operand) /\ a.operands \in Seq(Type) /\ Len(a.operands) = Len(op)
      /\ n \in 0..Len(op) /\ b.operands = Append(Under(a.operands, n), t)
      /\ Slots(at, gl, lo, a) /\ DOMAIN at \subseteq StorageId /\ OpsOK(at, op, a.operands, Len(op))
  BY <1>1 DEF FitsBasics, Pushes
<1> DEFINE E == Outer(gl, lo, Under(op, n))
           k == Len(op) - n
           us == Under(op, n)
           ws == Append(us, v)
           xs == Under(a.operands, n)
<1>3. k \in 0..Len(op) /\ OpsOK(at, op, a.operands, k) BY <1>2 DEF OpsOK
<1>4. Slots(bt, gl, lo, a) /\ OpsOK(bt, op, a.operands, k)
  <2>1. SubSeq(op, 1, k) = Under(op, n) BY Zenon DEF Under
  <2>2. Outer(gl, lo, SubSeq(op, 1, k)) = Outer(gl, lo, Under(op, n)) BY <2>1, Zenon
  <2>3. Outer(gl, lo, SubSeq(op, 1, k)) \subseteq E BY <2>2
  <2>4. Good(bt, E, {}) OBVIOUS
  <2> HIDE DEF k, E
  <2> QED BY <1>2, <1>3, <2>3, <2>4, SurviveFacts
<1>5. Slots(bt, gl, lo, b) BY <1>4, SlotsSame
<1>6. Good(bt, Outer(gl, lo, ws), {})
  <2>1. Outer(gl, lo, ws) = With(E, "operand", Len(op) - n + 1, v) BY <1>2, OuterPushed
  <2>2. With(E, "operand", Len(op) - n + 1, v) = E BY DEF With
  <2> QED BY <2>1, <2>2
<1>7. us \in Seq(Operand) /\ UnderIs(op, n, us) BY <1>2, UnderFacts
<1>8. xs \in Seq(Type) /\ UnderIs(a.operands, n, xs) BY <1>2, UnderFacts
<1>9. b.operands = Append(xs, t) BY <1>2
<1>10. v \in Operand BY DEF Operand
<1>11. /\ Len(us) = k /\ Len(xs) = k
       /\ \A i \in 1..k : us[i] = op[i] /\ xs[i] = a.operands[i]
  BY <1>2, <1>7, <1>8 DEF UnderIs
<1>12. k \in Nat BY <1>2
<1> HIDE DEF us, xs, k
<1>13. /\ ws \in Seq(Operand) /\ Len(ws) = k + 1 /\ ws[k + 1] = v
       /\ \A i \in 1..k : ws[i] = op[i]
  BY <1>7, <1>10, <1>11, <1>12
<1>14. /\ Len(b.operands) = k + 1 /\ b.operands[k + 1] = t
       /\ \A i \in 1..k : b.operands[i] = a.operands[i]
  BY <1>8, <1>9, <1>11, <1>12
<1> HIDE DEF ws
<1>15. OpsOK(bt, ws, b.operands, Len(ws) - 1)
  <2>1. Len(ws) - 1 = k BY <1>12, <1>13
  <2> QED BY <1>4, <1>13, <1>14, <2>1 DEF OpsOK
<1>16. Stack(bt, gl, lo, ws, b)
  <2>1. ws # <<>> /\ ws[Len(ws)] = v /\ b.operands[Len(ws)] = t BY <1>12, <1>13, <1>14
  <2>2. Len(ws) = Len(b.operands) BY <1>13, <1>14
  <2> QED BY <1>13, <1>15, <2>1, <2>2 DEF Stack
<1> QED BY <1>5, <1>6, <1>16 DEF Fits, ws, us
=============================================================================
