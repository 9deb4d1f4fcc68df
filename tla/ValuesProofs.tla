---------------------------- MODULE ValuesProofs ----------------------------
(* What the commands of a program make of its variables and operands: the  *)
(* counts are right after each command, none meets a storage that is gone, *)
(* and a statement leaves nothing behind.                                  *)
EXTENDS ValuesMemoryProofs

-----------------------------------------------------------------------------
(* The expressions are those of the equations that define them. *)

OwnExprs(t) == {v.value : v \in Variables(t)} \cup Literals(t)

ExprsAre ==
  /\ \A t \in Type : Exprs[0][t] = OwnExprs(t) \cup {}
  /\ \A d \in 1..Depth, t \in Type :
       Exprs[d][t] = OwnExprs(t) \cup ComposedExprs(t, Exprs[d - 1])

LEMMA ExprsFacts == ExprsAre
<1> DEFINE n == Depth
           C(t, x) == ComposedExprs(t, x)
           O(t) == OwnExprs(t)
           B(f, d) == [t \in Type |-> O(t) \cup IF d = 0 THEN {} ELSE C(t, f[d - 1])]
           Is(f, k) == f = [d \in 0..k |-> B(f, d)]
           Same(f, h, d) == d # 0 => f[d - 1] = h[d - 1]
<1>1. Exprs = CHOOSE f : Is(f, n) BY DEF Exprs, OwnExprs
<1> HIDE DEF O, C
<1>2. \A f, h, d : Same(f, h, d) => B(f, d) = B(h, d)
  <2> SUFFICES ASSUME NEW f, NEW h, NEW d, Same(f, h, d)
               PROVE  B(f, d) = B(h, d)
    BY Zenon
  <2>1. CASE d = 0 BY <2>1, Zenon
  <2>2. CASE d # 0 BY <2>2, Zenon
  <2> QED BY <2>1, <2>2
<1> HIDE DEF B
<1>3. \E f : Is(f, n)
  <2> DEFINE P == {k \in Nat : \E f : Is(f, k)}
  <2>1. 0 \in P
    <3> DEFINE f == [d \in 0..0 |-> B([x \in {} |-> x], d)]
    <3>1. \A d \in 0..0 : f[d] = B(f, d)
      <4>1. \A d \in 0..0 : d = 0 /\ f[d] = B([x \in {} |-> x], d) OBVIOUS
      <4>2. \A d \in 0..0 : Same([x \in {} |-> x], f, d) BY <4>1
      <4> HIDE DEF f, Same
      <4> QED BY <1>2, <4>1, <4>2
    <3>2. f = [d \in 0..0 |-> f[d]] OBVIOUS
    <3> HIDE DEF f
    <3>3. Is(f, 0) BY <3>1, <3>2, Zenon
    <3>4. \E g : Is(g, 0) BY <3>3, Zenon
    <3> HIDE DEF Is
    <3> QED BY <3>4
  <2>2. ASSUME NEW k \in P PROVE k + 1 \in P
    <3>1. PICK f : Is(f, k) OBVIOUS
    <3> DEFINE h == [d \in 0..k + 1 |-> IF d = k + 1 THEN B(f, k + 1) ELSE f[d]]
    <3>2. h[k + 1] = B(f, k + 1) /\ \A d \in 0..k : h[d] = f[d] OBVIOUS
    <3>3. \A d \in 0..k : f[d] = B(f, d) BY <3>1
    <3>4. h = [d \in 0..k + 1 |-> h[d]] BY DEF h
    <3> HIDE DEF h
    <3>5. \A d \in 0..k + 1 : h[d] = B(h, d)
      <4> SUFFICES ASSUME NEW d \in 0..k + 1 PROVE h[d] = B(h, d) BY Zenon
      <4>1. d # 0 => d - 1 \in 0..k OBVIOUS
      <4>2. Same(f, h, d) BY <3>2, <4>1, Zenon
      <4> HIDE DEF Same
      <4>4. B(f, d) = B(h, d) BY <1>2, <4>2
      <4>3. d = k + 1 \/ d \in 0..k OBVIOUS
      <4> QED BY <3>2, <3>3, <4>4, <4>3, Zenon
    <3>6. Is(h, k + 1) BY <3>4, <3>5, Zenon
    <3>7. k + 1 \in Nat OBVIOUS
    <3> HIDE DEF Is
    <3> QED BY <3>6, <3>7, Zenon
  <2>3. P \in SUBSET Nat /\ n \in Nat BY ValuesAssumption
  <2> HIDE DEF P
  <2>4. n \in P BY <2>1, <2>2, <2>3, SetInduction, Zenon
  <2> HIDE DEF n, Is
  <2> QED BY <2>4 DEF P
<1>4. Is(Exprs, n) BY <1>1, <1>3, Zenon
<1>5. \A d \in 0..Depth : Exprs[d] = B(Exprs, d)
  <2> HIDE DEF B
  <2> QED BY <1>4, Zenon
<1>6. 0 \in 0..Depth /\ \A d \in 1..Depth : d \in 0..Depth /\ d # 0 BY ValuesAssumption
<1>7. \A d, t : t \in Type => B(Exprs, d)[t] = O(t) \cup IF d = 0 THEN {} ELSE C(t, Exprs[d - 1])
  BY Zenon DEF B
<1>8. \A t \in Type : Exprs[0][t] = O(t) \cup {}
  BY <1>5, <1>6, <1>7, Zenon
<1>9. \A d \in 1..Depth, t \in Type : Exprs[d][t] = O(t) \cup C(t, Exprs[d - 1])
  BY <1>5, <1>6, <1>7, Zenon
<1> QED BY <1>8, <1>9, Zenon DEF ExprsAre, O, C

AssignableAre ==
  /\ \A t \in Type : Assignable[0][t] = Variables(t) \cup {}
  /\ \A d \in 1..Depth, t \in Type :
       Assignable[d][t] = Variables(t) \cup AssignableItems(t, Assignable[d - 1])

LEMMA AssignableFacts == AssignableAre
<1> DEFINE n == Depth
           C(t, x) == AssignableItems(t, x)
           O(t) == Variables(t)
           B(f, d) == [t \in Type |-> O(t) \cup IF d = 0 THEN {} ELSE C(t, f[d - 1])]
           Is(f, k) == f = [d \in 0..k |-> B(f, d)]
           Same(f, h, d) == d # 0 => f[d - 1] = h[d - 1]
<1>1. Assignable = CHOOSE f : Is(f, n) BY DEF Assignable
<1> HIDE DEF O, C
<1>2. \A f, h, d : Same(f, h, d) => B(f, d) = B(h, d)
  <2> SUFFICES ASSUME NEW f, NEW h, NEW d, Same(f, h, d)
               PROVE  B(f, d) = B(h, d)
    BY Zenon
  <2>1. CASE d = 0 BY <2>1, Zenon
  <2>2. CASE d # 0 BY <2>2, Zenon
  <2> QED BY <2>1, <2>2
<1> HIDE DEF B
<1>3. \E f : Is(f, n)
  <2> DEFINE P == {k \in Nat : \E f : Is(f, k)}
  <2>1. 0 \in P
    <3> DEFINE f == [d \in 0..0 |-> B([x \in {} |-> x], d)]
    <3>1. \A d \in 0..0 : f[d] = B(f, d)
      <4>1. \A d \in 0..0 : d = 0 /\ f[d] = B([x \in {} |-> x], d) OBVIOUS
      <4>2. \A d \in 0..0 : Same([x \in {} |-> x], f, d) BY <4>1
      <4> HIDE DEF f, Same
      <4> QED BY <1>2, <4>1, <4>2
    <3>2. f = [d \in 0..0 |-> f[d]] OBVIOUS
    <3> HIDE DEF f
    <3>3. Is(f, 0) BY <3>1, <3>2, Zenon
    <3>4. \E g : Is(g, 0) BY <3>3, Zenon
    <3> HIDE DEF Is
    <3> QED BY <3>4
  <2>2. ASSUME NEW k \in P PROVE k + 1 \in P
    <3>1. PICK f : Is(f, k) OBVIOUS
    <3> DEFINE h == [d \in 0..k + 1 |-> IF d = k + 1 THEN B(f, k + 1) ELSE f[d]]
    <3>2. h[k + 1] = B(f, k + 1) /\ \A d \in 0..k : h[d] = f[d] OBVIOUS
    <3>3. \A d \in 0..k : f[d] = B(f, d) BY <3>1
    <3>4. h = [d \in 0..k + 1 |-> h[d]] BY DEF h
    <3> HIDE DEF h
    <3>5. \A d \in 0..k + 1 : h[d] = B(h, d)
      <4> SUFFICES ASSUME NEW d \in 0..k + 1 PROVE h[d] = B(h, d) BY Zenon
      <4>1. d # 0 => d - 1 \in 0..k OBVIOUS
      <4>2. Same(f, h, d) BY <3>2, <4>1, Zenon
      <4> HIDE DEF Same
      <4>4. B(f, d) = B(h, d) BY <1>2, <4>2
      <4>3. d = k + 1 \/ d \in 0..k OBVIOUS
      <4> QED BY <3>2, <3>3, <4>4, <4>3, Zenon
    <3>6. Is(h, k + 1) BY <3>4, <3>5, Zenon
    <3>7. k + 1 \in Nat OBVIOUS
    <3> HIDE DEF Is
    <3> QED BY <3>6, <3>7, Zenon
  <2>3. P \in SUBSET Nat /\ n \in Nat BY ValuesAssumption
  <2> HIDE DEF P
  <2>4. n \in P BY <2>1, <2>2, <2>3, SetInduction, Zenon
  <2> HIDE DEF n, Is
  <2> QED BY <2>4 DEF P
<1>4. Is(Assignable, n) BY <1>1, <1>3, Zenon
<1>5. \A d \in 0..Depth : Assignable[d] = B(Assignable, d)
  <2> HIDE DEF B
  <2> QED BY <1>4, Zenon
<1>6. 0 \in 0..Depth /\ \A d \in 1..Depth : d \in 0..Depth /\ d # 0 BY ValuesAssumption
<1>7. \A d, t : t \in Type => B(Assignable, d)[t] = O(t) \cup IF d = 0 THEN {} ELSE C(t, Assignable[d - 1])
  BY Zenon DEF B
<1>8. \A t \in Type : Assignable[0][t] = O(t) \cup {}
  BY <1>5, <1>6, <1>7, Zenon
<1>9. \A d \in 1..Depth, t \in Type : Assignable[d][t] = O(t) \cup C(t, Assignable[d - 1])
  BY <1>5, <1>6, <1>7, Zenon
<1> QED BY <1>8, <1>9, Zenon DEF AssignableAre, O, C

-----------------------------------------------------------------------------
(* Every command makes of the variables and operands what Step says. *)

Fitting(a) == Fits(storages, globals, locals, operands, a)
Ran(b) ==
  \/ status' = "running" /\ Fits(storages', globals', locals', operands', b)
  \/ status' = "aborted" /\ UNCHANGED <<storages, globals, locals, operands>>

LEMMA MachineFacts ==
  /\ Memory = Sound(storages)
  /\ \A bt : Ends(Sound(bt)) => storages' = bt /\ status' = "running"
  /\ \A n : Popped(n) = Under(operands, n)
  /\ \A n, v : Push(n, v) => operands' = Append(Under(operands, n), v)
  /\ \A n : Top(n) = operands[Len(operands) - n + 1]
BY DEF Memory, Sound, Ends, Popped, Under, Push, Top

(* The top operand is destroyed. *)
LEMMA TopIs ==
  ASSUME NEW a \in Shape, NEW t, Fitting(a), On(a, 1, t)
  PROVE  operands \in Seq(Operand) /\ Top(1) = operands[Len(operands)] /\ Len(operands) > 0
<1>1. FitsBasics(storages, globals, locals, operands, a) BY FitsFacts DEF Fitting
<1>2. operands \in Seq(Operand) /\ Len(operands) = Len(a.operands) BY <1>1 DEF FitsBasics
<1>3. Len(operands) - 1 + 1 = Len(operands) /\ Len(operands) > 0 BY <1>2 DEF On
<1> QED BY <1>2, <1>3, MachineFacts

LEMMA LoadIntValueRuns ==
  ASSUME NEW a \in Shape, NEW b \in Shape, Fitting(a), VisitLoadIntValue, Step(Head(code), a, b)
  PROVE  Ran(b)
<1>1. Arg.op = "LoadIntValue" /\ Push(0, IntValue(Arg.int)) /\ Ends(Memory)
      /\ UNCHANGED <<globals, locals>>
  BY DEF VisitLoadIntValue, Executes, Arg
<1>2. StepLoadIntValue(Arg, a, b) BY <1>1 DEF Step, Arg
<1> DEFINE v == IntValue(Arg.int)
           E == Outer(globals, locals, operands)
<1>3. storages' = storages /\ status' = "running" /\ operands' = Append(Under(operands, 0), v)
  BY <1>1, MachineFacts
<1>4. IsOf(storages, v, Int0) /\ v.kind = "int"
  BY <1>2, TypeFacts, ValueFacts DEF StepLoadIntValue, IsOf
<1>5. FitsBasics(storages, globals, locals, operands, a) BY FitsFacts DEF Fitting
<1>6. Good(storages, E, {}) /\ E = Outer(globals, locals, Under(operands, 0))
  BY <1>5, UnderSubset DEF FitsBasics
<1>7. Good(storages, With(Outer(globals, locals, Under(operands, 0)), "operand", Len(operands) - 0 + 1, v), {})
  BY <1>4, <1>6 DEF With
<1>8. /\ Pushes(a, b, 0, Int0) /\ SameVars(a, b) /\ a.mode # "address"
      /\ PushMode(storages, globals, locals, v, b)
  BY <1>2 DEF StepLoadIntValue, Plainly, Modes, PushMode
<1>9. Agree(storages, storages) /\ Int0 \in Type BY TypeFacts DEF Agree
<1> HIDE DEF v
<1>10. Fits(storages, globals, locals, Append(Under(operands, 0), v), b)
  BY <1>4, <1>7, <1>8, <1>9, PushedFits DEF Fitting
<1> QED BY <1>1, <1>3, <1>10 DEF Ran

LEMMA UnloadRuns ==
  ASSUME NEW a \in Shape, NEW b \in Shape, Fitting(a), VisitUnload, Step(Head(code), a, b)
  PROVE  Ran(b)
<1>1. Arg.op = "Unload" /\ Ends(Destroy(Memory, Top(1), Arg.type)) /\ operands' = Popped(1)
      /\ UNCHANGED <<globals, locals>>
  BY DEF VisitUnload, Executes, Arg
<1>2. On(a, 1, Arg.type) /\ Pops(a, b, 1) /\ Plainly(a, b) BY <1>1 DEF Step, Arg, StepUnload
<1>3. PICK bt : /\ Destroy(Sound(storages), operands[Len(operands)], Arg.type) = Sound(bt)
                /\ Fits(bt, globals, locals, Under(operands, 1), b)
  BY <1>2, DropFits DEF Fitting
<1>4. Destroy(Memory, Top(1), Arg.type) = Sound(bt) BY <1>2, <1>3, TopIs, MachineFacts
<1>5. storages' = bt /\ status' = "running" /\ operands' = Under(operands, 1)
  BY <1>1, <1>4, MachineFacts
<1> QED BY <1>1, <1>3, <1>5 DEF Ran

LEMMA CallNativeRuns ==
  ASSUME NEW a \in Shape, NEW b \in Shape, Fitting(a), VisitCallNative, Step(Head(code), a, b)
  PROVE  Ran(b)
<1>1. Arg.op = "CallNative" /\ Ends(Destroy(Memory, Top(1), String0)) /\ operands' = Popped(1)
      /\ UNCHANGED <<globals, locals>>
  BY DEF VisitCallNative, Executes, Arg
<1>2. On(a, 1, String0) /\ Pops(a, b, 1) /\ Plainly(a, b) BY <1>1 DEF Step, Arg, StepCallNative
<1>3. PICK bt : /\ Destroy(Sound(storages), operands[Len(operands)], String0) = Sound(bt)
                /\ Fits(bt, globals, locals, Under(operands, 1), b)
  BY <1>2, DropFits DEF Fitting
<1>4. Destroy(Memory, Top(1), String0) = Sound(bt) BY <1>2, <1>3, TopIs, MachineFacts
<1>5. storages' = bt /\ status' = "running" /\ operands' = Under(operands, 1)
  BY <1>1, <1>4, MachineFacts
<1> QED BY <1>1, <1>3, <1>5 DEF Ran

LEMMA LoadStringValueRuns ==
  ASSUME ~IsFiniteSet(StorageId), NEW a \in Shape, NEW b \in Shape, Fitting(a),
         VisitLoadStringValue, Step(Head(code), a, b)
  PROVE  Ran(b)
<1> DEFINE new == Multidimensional(Sound(storages), String0, <<>>)
           E == Outer(globals, locals, operands)
<1>1. Arg.op = "LoadStringValue" /\ Push(0, new.value) /\ Ends(new.memory)
      /\ UNCHANGED <<globals, locals>>
  BY MachineFacts DEF VisitLoadStringValue, Executes, Arg, Default
<1>2. Pushes(a, b, 0, String0) /\ Plainly(a, b) BY <1>1 DEF Step, Arg, StepLoadStringValue
<1>3. FitsBasics(storages, globals, locals, operands, a) BY FitsFacts DEF Fitting
<1>4. /\ Good(storages, E, {}) /\ NoItems(E) /\ operands \in Seq(Operand)
      /\ Outer(globals, locals, Under(operands, 0)) = E
  BY <1>3, UnderSubset, OuterPlain DEF FitsBasics
<1>5. <<>> \in Seq(Nat) /\ Len(<<>>) <= String0.dims /\ String0 \in Type /\ "operand" # "item"
  BY TypeFacts
<1> HIDE DEF E
<1>6. Made(new, storages, E, "operand", Len(operands) - 0 + 1, String0)
  BY <1>4, <1>5, MultidimensionalFacts
<1> HIDE DEF new
<1>7. PICK bt, v : new = [memory |-> Sound(bt), value |-> v]
                   /\ Fits(bt, globals, locals, Append(Under(operands, 0), v), b)
  BY <1>2, <1>4, <1>5, <1>6, MadeFits DEF Fitting, E
<1>8. new.memory = Sound(bt) /\ new.value = v BY <1>7
<1>9. storages' = bt /\ status' = "running" /\ operands' = Append(Under(operands, 0), v)
  BY <1>1, <1>8, MachineFacts
<1> QED BY <1>1, <1>7, <1>9 DEF Ran

LEMMA CreateArrayRuns ==
  ASSUME ~IsFiniteSet(StorageId), NEW a \in Shape, NEW b \in Shape, Fitting(a),
         VisitCreateArray, Step(Head(code), a, b)
  PROVE  Ran(b)
<1> DEFINE n == Arg.dims
           t == Arg.type
           sizes == [i \in 1..n |-> Top(i).int]
           new == Multidimensional(Sound(storages), t, sizes)
           E == Outer(globals, locals, operands)
<1>1. Arg.op = "CreateArray" /\ Push(n, new.value) /\ Ends(new.memory)
      /\ UNCHANGED <<globals, locals>>
  BY MachineFacts DEF VisitCreateArray, Executes, Arg
<1>2. /\ Pushes(a, b, n, t) /\ Plainly(a, b) /\ t \in Type /\ n \in 0..t.dims
      /\ \A j \in 1..n : On(a, j, Int0)
  BY <1>1 DEF Step, Arg, StepCreateArray
<1>3. FitsBasics(storages, globals, locals, operands, a) BY FitsFacts DEF Fitting
<1>4. /\ Good(storages, E, {}) /\ NoItems(E) /\ operands \in Seq(Operand)
      /\ Len(operands) = Len(a.operands) /\ DOMAIN storages \subseteq StorageId
  BY <1>3, OuterPlain DEF FitsBasics
<1>5. \A j \in 1..n : Has(storages, E, operands, j, Int0)
  <2> SUFFICES ASSUME NEW j \in 1..n PROVE Has(storages, E, operands, j, Int0) BY Zenon
  <2>1. On(a, j, Int0) /\ a.mode # "address" BY <1>2 DEF Plainly, Modes
  <2> QED BY <2>1, OnFacts DEF Fitting
<1>6. \A j \in 1..n : Top(j).int \in Nat /\ Top(j).kind # "ref"
  <2> SUFFICES ASSUME NEW j \in 1..n PROVE Top(j).int \in Nat /\ Top(j).kind # "ref" BY Zenon
  <2>1. IsOf(storages, operands[Len(operands) - j + 1], Int0) BY <1>5, Zenon DEF Has
  <2>2. Top(j) = operands[Len(operands) - j + 1] BY MachineFacts
  <2>3. IsOf(storages, Top(j), Int0) BY <2>1, <2>2
  <2> QED BY <1>4, <2>3, IsOfFacts, TypeFacts
<1>7. t.dims \in Nat /\ n \in Nat /\ n \in 0..Len(operands)
  <2>1. t.dims \in 0..MaxDims BY <1>2, TypeOf1
  <2>2. t.dims \in Nat BY <2>1, ValuesAssumption
  <2> HIDE DEF t, n
  <2> QED BY <1>2, <1>4, <2>2 DEF Pushes
<1> HIDE DEF n, t
<1>8. sizes \in Seq(Nat) /\ Len(sizes) <= t.dims
  <2>1. sizes \in [1..n -> Nat] BY <1>6
  <2>2. Len(sizes) = n /\ sizes \in Seq(Nat) BY <1>7, <2>1
  <2> QED BY <1>2, <1>7, <2>2
<1>9. Outer(globals, locals, Under(operands, n)) = E
  <2>1. \A i \in 1..Len(operands) : i > Len(operands) - n => operands[i].kind # "ref"
    <3> SUFFICES ASSUME NEW i \in 1..Len(operands), i > Len(operands) - n
                 PROVE  operands[i].kind # "ref"
      BY Zenon
    <3> DEFINE j == Len(operands) - i + 1
    <3>1. j \in 1..n /\ Len(operands) - j + 1 = i BY <1>4, <1>7
    <3>2. Top(j) = operands[i] BY <3>1, MachineFacts
    <3> HIDE DEF j
    <3> QED BY <1>6, <3>1, <3>2
  <2> QED BY <1>4, <1>7, <2>1, OuterInts
<1> HIDE DEF E, sizes
<1>10. Made(new, storages, E, "operand", Len(operands) - n + 1, t)
  <2>1. "operand" # "item" OBVIOUS
  <2> QED BY <1>2, <1>4, <1>8, <2>1, MultidimensionalFacts
<1> HIDE DEF new
<1>11. PICK bt, v : new = [memory |-> Sound(bt), value |-> v]
                   /\ Fits(bt, globals, locals, Append(Under(operands, n), v), b)
  BY <1>2, <1>9, <1>10, MadeFits DEF Fitting, E
<1>12. new.memory = Sound(bt) /\ new.value = v BY <1>11
<1>13. storages' = bt /\ status' = "running" /\ operands' = Append(Under(operands, n), v)
  BY <1>1, <1>12, MachineFacts
<1> QED BY <1>1, <1>11, <1>13 DEF Ran

LEMMA LoadGlobalVarValueRuns ==
  ASSUME NEW a \in Shape, NEW b \in Shape, Fitting(a), VisitLoadGlobalVarValue,
         Step(Head(code), a, b)
  PROVE  Ran(b)
<1> DEFINE x == Arg.var
           t == Arg.type
           v == globals[x]
<1>1. /\ Arg.op = "LoadGlobalVarValue" /\ Push(0, v) /\ Ends(Copy(Sound(storages), v, t))
      /\ UNCHANGED <<globals, locals>>
  BY MachineFacts DEF VisitLoadGlobalVarValue, Executes, Arg
<1>2. x \in a.globals /\ t = TypeOf[x] /\ LoadsValue(a, b, t)
  BY <1>1 DEF Step, Arg, StepLoadGlobalVarValue
<1>3. FitsBasics(storages, globals, locals, operands, a) BY FitsFacts DEF Fitting
<1>4. /\ x \in DOMAIN globals /\ IsOf(storages, v, t) /\ DOMAIN storages \subseteq StorageId
      /\ x \in Global
  BY <1>2, <1>3, ShapeIs DEF FitsBasics, Slots, ShapeFacts
<1>5. t \in Type BY <1>2, <1>4, ValuesAssumption
<1>6. v.kind = "ref" => \E f \in Outer(globals, locals, <<>>) : f[3] = v.id
  <2>1. v.kind = "ref" => <<"global", x, v.id>> \in Outer(globals, locals, <<>>) BY <1>4, OuterIs
  <2>2. <<"global", x, v.id>>[3] = v.id OBVIOUS
  <2> QED BY <2>1, <2>2, Zenon
<1> HIDE DEF v, t, x
<1>7. PICK bt : /\ Copy(Sound(storages), v, t) = Sound(bt)
                /\ Fits(bt, globals, locals, Append(Under(operands, 0), v), b)
  BY <1>2, <1>4, <1>5, <1>6, CopyFits DEF Fitting
<1>8. storages' = bt /\ status' = "running" /\ operands' = Append(Under(operands, 0), v)
  BY <1>1, <1>7, MachineFacts
<1> QED BY <1>1, <1>7, <1>8 DEF Ran

LEMMA LoadLocalVarValueRuns ==
  ASSUME NEW a \in Shape, NEW b \in Shape, Fitting(a), VisitLoadLocalVarValue,
         Step(Head(code), a, b)
  PROVE  Ran(b)
<1> DEFINE i == Arg.index
           t == Arg.type
           v == locals[i].value
<1>1. /\ Arg.op = "LoadLocalVarValue" /\ Push(0, v) /\ Ends(Copy(Sound(storages), v, t))
      /\ UNCHANGED <<globals, locals>>
  BY MachineFacts DEF VisitLoadLocalVarValue, Executes, Arg
<1>2. i \in 1..Len(a.locals) /\ t = a.locals[i] /\ LoadsValue(a, b, t)
  BY <1>1 DEF Step, Arg, StepLoadLocalVarValue
<1>3. FitsBasics(storages, globals, locals, operands, a) BY FitsFacts DEF Fitting
<1>4. /\ i \in DOMAIN locals /\ IsOf(storages, v, t) /\ DOMAIN storages \subseteq StorageId
  <2>1. Slots(storages, globals, locals, a) BY <1>3 DEF FitsBasics
  <2>2. locals \in Seq(Local) /\ Len(locals) = Len(a.locals) BY <2>1 DEF Slots
  <2>3. i \in DOMAIN locals BY <1>2, <2>2
  <2> QED BY <1>2, <1>3, <2>1, <2>3 DEF FitsBasics, Slots
<1>5. t \in Type
  <2>1. a.locals \in Seq(Type) BY ShapeIs DEF ShapeFacts
  <2> QED BY <1>2, <2>1
<1>6. v.kind = "ref" => \E f \in Outer(globals, locals, <<>>) : f[3] = v.id
  <2>1. v.kind = "ref" => <<"local", i, v.id>> \in Outer(globals, locals, <<>>) BY <1>4, OuterIs
  <2>2. <<"local", i, v.id>>[3] = v.id OBVIOUS
  <2> QED BY <2>1, <2>2, Zenon
<1> HIDE DEF v, t, i
<1>7. PICK bt : /\ Copy(Sound(storages), v, t) = Sound(bt)
                /\ Fits(bt, globals, locals, Append(Under(operands, 0), v), b)
  BY <1>2, <1>4, <1>5, <1>6, CopyFits DEF Fitting
<1>8. storages' = bt /\ status' = "running" /\ operands' = Append(Under(operands, 0), v)
  BY <1>1, <1>7, MachineFacts
<1> QED BY <1>1, <1>7, <1>8 DEF Ran

LEMMA LoadGlobalVarAddressRuns ==
  ASSUME NEW a \in Shape, NEW b \in Shape, Fitting(a), VisitLoadGlobalVarAddress,
         Step(Head(code), a, b)
  PROVE  Ran(b)
<1> DEFINE x == Arg.var
           v == GlobalAddress(x)
           t == TypeOf[x]
<1>1. /\ Arg.op = "LoadGlobalVarAddress" /\ Push(0, v) /\ Ends(Sound(storages))
      /\ UNCHANGED <<globals, locals>>
  BY MachineFacts DEF VisitLoadGlobalVarAddress, Executes, Arg
<1>2. x \in a.globals /\ LoadsAddress(a, b, t) BY <1>1 DEF Step, Arg, StepLoadGlobalVarAddress
<1>3. FitsBasics(storages, globals, locals, operands, a) BY FitsFacts DEF Fitting
<1>4. /\ x \in DOMAIN globals /\ x \in Global /\ Good(storages, Outer(globals, locals, operands), {})
      /\ Outer(globals, locals, Under(operands, 0)) = Outer(globals, locals, operands)
  BY <1>2, <1>3, ShapeIs, UnderSubset DEF FitsBasics, Slots, ShapeFacts
<1>5. t \in Type BY <1>4, ValuesAssumption
<1>6. v.kind # "ref" /\ v \in Address BY <1>4 DEF GlobalAddress, Address
<1>7. Leads(storages, globals, locals, v, t) BY <1>4 DEF Leads
<1>8. Agree(storages, storages) BY DEF Agree
<1>9. /\ Pushes(a, b, 0, t) /\ SameVars(a, b) /\ b.mode = "address" /\ a.mode # "address"
      /\ Good(storages, Outer(globals, locals, Under(operands, 0)), {})
  BY <1>2, <1>4 DEF LoadsAddress, Modes
<1> HIDE DEF v, t, x
<1>10. Fits(storages, globals, locals, Append(Under(operands, 0), v), b)
  BY <1>5, <1>6, <1>7, <1>8, <1>9, AddressFits DEF Fitting
<1>11. storages' = storages /\ status' = "running" /\ operands' = Append(Under(operands, 0), v)
  BY <1>1, MachineFacts
<1> QED BY <1>1, <1>10, <1>11 DEF Ran

LEMMA LoadLocalVarAddressRuns ==
  ASSUME NEW a \in Shape, NEW b \in Shape, Fitting(a), VisitLoadLocalVarAddress,
         Step(Head(code), a, b)
  PROVE  Ran(b)
<1> DEFINE i == Arg.index
           v == LocalAddress(i)
           t == a.locals[i]
<1>1. /\ Arg.op = "LoadLocalVarAddress" /\ Push(0, v) /\ Ends(Sound(storages))
      /\ UNCHANGED <<globals, locals>>
  BY MachineFacts DEF VisitLoadLocalVarAddress, Executes, Arg
<1>2. i \in 1..Len(a.locals) /\ i <= MaxLocals /\ LoadsAddress(a, b, t)
  BY <1>1 DEF Step, Arg, StepLoadLocalVarAddress
<1>3. FitsBasics(storages, globals, locals, operands, a) BY FitsFacts DEF Fitting
<1>4. /\ Good(storages, Outer(globals, locals, operands), {})
      /\ Outer(globals, locals, Under(operands, 0)) = Outer(globals, locals, operands)
      /\ Slots(storages, globals, locals, a)
  BY <1>3, UnderSubset DEF FitsBasics
<1>5. a.locals \in Seq(Type) /\ locals \in Seq(Local) /\ Len(locals) = Len(a.locals)
  BY <1>4, ShapeIs DEF ShapeFacts, Slots
<1>6. t \in Type /\ i \in DOMAIN locals /\ i \in 1..MaxLocals
  BY <1>2, <1>5, ValuesAssumption
<1>7. locals[i].type = t BY <1>4, <1>6 DEF Slots
<1>8. v.kind # "ref" /\ v \in Address BY <1>6 DEF LocalAddress, Address
<1>9. Leads(storages, globals, locals, v, t) BY <1>6, <1>7 DEF Leads
<1>10. Agree(storages, storages) BY DEF Agree
<1>11. /\ Pushes(a, b, 0, t) /\ SameVars(a, b) /\ b.mode = "address" /\ a.mode # "address"
       /\ Good(storages, Outer(globals, locals, Under(operands, 0)), {})
  BY <1>2, <1>4 DEF LoadsAddress, Modes
<1> HIDE DEF v, t, i
<1>12. Fits(storages, globals, locals, Append(Under(operands, 0), v), b)
  BY <1>6, <1>8, <1>9, <1>10, <1>11, AddressFits DEF Fitting
<1>13. storages' = storages /\ status' = "running" /\ operands' = Append(Under(operands, 0), v)
  BY <1>1, MachineFacts
<1> QED BY <1>1, <1>12, <1>13 DEF Ran

(* What is pushed instead of two operands. *)
SameAtLast(E, p, q, u, v, w) ==
  Without(Without(With(E, "operand", p, u), "operand", p, v), "operand", q, w)
    = With(Without(Without(E, "operand", q, w), "operand", p, v), "operand", p, u)

LEMMA WithLast ==
  ASSUME NEW E, NEW p, NEW q, NEW u, NEW v, NEW w, p # q,
         (u.kind = "ref" /\ v.kind = "ref") => u.id # v.id
  PROVE  SameAtLast(E, p, q, u, v, w)
<1> DEFINE d == <<"operand", p, u.id>>
           e == <<"operand", p, v.id>>
           f == <<"operand", q, w.id>>
           I == u.kind = "ref"
           J == v.kind = "ref"
           K == w.kind = "ref"
           L == Without(Without(With(E, "operand", p, u), "operand", p, v), "operand", q, w)
           R == With(Without(Without(E, "operand", q, w), "operand", p, v), "operand", p, u)
<1>1. d # f /\ (I /\ J => d # e) OBVIOUS
<1>2. \A x : x \in L <=> (x \in E \/ (I /\ x = d)) /\ ~(J /\ x = e) /\ ~(K /\ x = f)
  BY DEF With, Without
<1>3. \A x : x \in R <=> (x \in E /\ ~(K /\ x = f) /\ ~(J /\ x = e)) \/ (I /\ x = d)
  BY DEF With, Without
<1> HIDE DEF d, e, f, I, J, K, L, R
<1>4. \A x : x \in L <=> x \in R BY <1>1, <1>2, <1>3
<1>5. L = R BY <1>4
<1> QED BY <1>5 DEF L, R, SameAtLast

LEMMA EqualRuns ==
  ASSUME NEW a \in Shape, NEW b \in Shape, Fitting(a), VisitEqual, Step(Head(code), a, b)
  PROVE  Ran(b)
<1> DEFINE t == Arg.type
           n == Len(operands)
           p == n - 1
           r == operands[n]
           l == operands[p]
           E == Outer(globals, locals, operands)
<1>1. /\ Arg.op = "Equal" /\ Push(2, AnInt)
      /\ Ends(Destroy(Destroy(Sound(storages), Top(2), t), Top(1), t))
      /\ UNCHANGED <<globals, locals>>
  BY MachineFacts DEF VisitEqual, Executes, Arg
<1>2. On(a, 1, t) /\ On(a, 2, t) /\ Pushes(a, b, 2, Int0) /\ SameVars(a, b) /\ Modes(a, b, "any", "any")
  BY <1>1 DEF Step, Arg, StepEqual, Plainly
<1>3. /\ operands \in Seq(Operand) /\ p # n
      /\ operands[n - 1 + 1] = r /\ operands[n - 2 + 1] = l
      /\ Good(storages, E, {}) /\ NoGiven(E)
      /\ t \in Type /\ IsOf(storages, r, t) /\ IsOf(storages, l, t)
      /\ r.kind = "ref" => <<"operand", n, r.id>> \in E
      /\ l.kind = "ref" => <<"operand", p, l.id>> \in E
      /\ Outer(globals, locals, Under(operands, 2))
           = Without(Without(E, "operand", n, r), "operand", p, l)
  <2>1. Fits(storages, globals, locals, operands, a) /\ a.mode # "address"
    BY <1>2 DEF Fitting, Modes
  <2>2. TwoOnTop(storages, globals, locals, operands, t, t) BY <1>2, <2>1, OuterTwo, Zenon
  <2> QED BY <2>2, Zenon DEF TwoOnTop
<1>4. Top(1) = r /\ Top(2) = l BY <1>3, MachineFacts
<1>5. AnInt.kind # "ref" /\ AnInt.kind = "int" BY ValueFacts DEF AnInt
<1>6. IsOf(storages, AnInt, Int0) BY TypeFacts DEF IsOf, AnInt
<1> DEFINE F == Without(Without(E, "operand", p, l), "operand", n, r)
<1>7. n - 2 + 1 = p
  <2>1. n \in Nat BY <1>3
  <2> HIDE DEF n
  <2> QED BY <2>1
<1>8. F = With(Outer(globals, locals, Under(operands, 2)), "operand", n - 2 + 1, AnInt)
  <2>1. \A A, i : With(A, "operand", i, AnInt) = A BY <1>5 DEF With
  <2>2. p # n /\ ((AnInt.kind = "ref" /\ l.kind = "ref") => AnInt.id # l.id) BY <1>3, <1>5
  <2> HIDE DEF n, p, r, l, E
  <2>3. SameAtLast(E, p, n, AnInt, l, r) BY <2>2, WithLast, Zenon
  <2>4. F = With(Without(Without(E, "operand", n, r), "operand", p, l), "operand", p, AnInt)
    BY <2>1, <2>3 DEF SameAtLast
  <2>5. F = With(Outer(globals, locals, Under(operands, 2)), "operand", p, AnInt)
    BY <1>3, <2>4, Zenon
  <2> QED BY <1>7, <2>5
<1> HIDE DEF t, n, p, r, l, E
<1>9. TwoGone(Destroy(Destroy(Sound(storages), l, t), r, t), storages, F)
  BY <1>3, DropTwo
<1>10. PICK bt : /\ Destroy(Destroy(Sound(storages), l, t), r, t) = Sound(bt)
                 /\ Good(bt, F, {}) /\ Agree(storages, bt)
  BY <1>9, Zenon DEF TwoGone
<1>11. IsOf(bt, AnInt, Int0) BY TypeFacts DEF IsOf, AnInt
<1>12. Fits(bt, globals, locals, Append(Under(operands, 2), AnInt), b)
  <2>1. Good(bt, With(Outer(globals, locals, Under(operands, 2)), "operand", Len(operands) - 2 + 1, AnInt), {})
    BY <1>8, <1>10 DEF n
  <2>2. PushMode(bt, globals, locals, AnInt, b) /\ a.mode # "address" /\ Int0 \in Type
    BY <1>2, TypeFacts DEF Modes, PushMode
  <2> QED BY <1>2, <1>10, <1>11, <2>1, <2>2, PushedFits DEF Fitting
<1>13. storages' = bt /\ status' = "running" /\ operands' = Append(Under(operands, 2), AnInt)
  BY <1>1, <1>4, <1>10, MachineFacts
<1> QED BY <1>1, <1>12, <1>13 DEF Ran

LEMMA SumStringRuns ==
  ASSUME ~IsFiniteSet(StorageId), NEW a \in Shape, NEW b \in Shape, Fitting(a), VisitSumString,
         Step(Head(code), a, b)
  PROVE  Ran(b)
<1> DEFINE t == String0
           n == Len(operands)
           p == n - 1
           r == operands[n]
           l == operands[p]
           E == Outer(globals, locals, operands)
           new == Multidimensional(Sound(storages), t, <<>>)
<1>1. /\ Arg.op = "Sum" /\ Push(2, new.value)
      /\ Ends(Destroy(Destroy(new.memory, Top(2), t), Top(1), t))
      /\ UNCHANGED <<globals, locals>>
  BY MachineFacts DEF VisitSumString, Executes, Arg, Default
<1>2. On(a, 1, t) /\ On(a, 2, t) /\ Pushes(a, b, 2, t) /\ SameVars(a, b) /\ Modes(a, b, "any", "any")
  BY <1>1 DEF Step, Arg, StepSum, Plainly
<1>3. /\ operands \in Seq(Operand) /\ p # n
      /\ operands[n - 1 + 1] = r /\ operands[n - 2 + 1] = l
      /\ Good(storages, E, {}) /\ NoGiven(E) /\ DOMAIN storages \subseteq StorageId
      /\ t \in Type /\ IsOf(storages, r, t) /\ IsOf(storages, l, t)
      /\ r.kind = "ref" => <<"operand", n, r.id>> \in E
      /\ l.kind = "ref" => <<"operand", p, l.id>> \in E
      /\ Outer(globals, locals, Under(operands, 2))
           = Without(Without(E, "operand", n, r), "operand", p, l)
  <2>1. Fits(storages, globals, locals, operands, a) /\ a.mode # "address"
    BY <1>2 DEF Fitting, Modes
  <2>2. TwoOnTop(storages, globals, locals, operands, t, t) BY <1>2, <2>1, OuterTwo, Zenon
  <2> QED BY <2>2, Zenon DEF TwoOnTop
<1>4. Top(1) = r /\ Top(2) = l BY <1>3, MachineFacts
<1>5. NoItems(E) /\ <<>> \in Seq(Nat) /\ Len(<<>>) <= t.dims /\ "operand" # "item"
  BY OuterPlain, TypeFacts
<1>6. n - 2 + 1 = p
  <2>1. n \in Nat BY <1>3
  <2> HIDE DEF n
  <2> QED BY <2>1
<1> HIDE DEF E, n, p, r, l
<1>7. Made(new, storages, E, "operand", p, t) BY <1>3, <1>5, MultidimensionalFacts
<1>8. HasStorage(t) BY TypeFacts
<1> HIDE DEF new, t
<1>9. PICK bt, v : /\ new = [memory |-> Sound(bt), value |-> v] /\ IsOf(bt, v, t)
                   /\ Grown(storages, bt)
                   /\ v.kind = "ref" => v.id \notin DOMAIN storages
                   /\ Good(bt, With(E, "operand", p, v), {})
  BY <1>7, Zenon DEF Made
<1>10. new.memory = Sound(bt) /\ new.value = v BY <1>9
<1> DEFINE D == With(E, "operand", p, v)
           F == Without(Without(D, "operand", p, l), "operand", n, r)
<1>11. /\ IsOf(bt, l, t) /\ IsOf(bt, r, t) /\ NoGiven(D)
       /\ r.kind = "ref" => <<"operand", n, r.id>> \in D
       /\ l.kind = "ref" => <<"operand", p, l.id>> \in D
  <2>1. IsOf(bt, l, t) /\ IsOf(bt, r, t) BY <1>3, <1>9, GrownIsOf, Zenon
  <2>2. E \subseteq D BY DEF With
  <2>3. NoGiven(D) BY <1>3 DEF NoGiven, With
  <2> QED BY <1>3, <2>1, <2>2, <2>3
<1>12. F = With(Outer(globals, locals, Under(operands, 2)), "operand", p, v)
  <2>1. l.kind = "ref" => l.id \in DOMAIN storages BY <1>3, IsOfFacts
  <2>2. (v.kind = "ref" /\ l.kind = "ref") => v.id # l.id BY <1>9, <2>1
  <2>3. SameAtLast(E, p, n, v, l, r) BY <1>3, <2>2, WithLast, Zenon
  <2> QED BY <1>3, <2>3 DEF SameAtLast
<1>13. v.kind = "ref" /\ v = Ref(v.id)
  <2>1. DOMAIN bt \subseteq StorageId BY <1>9 DEF Good, Typed
  <2> QED BY <1>8, <1>9, <2>1, IsOfFacts
<1>14. Good(bt, D, {}) BY <1>9
<1> HIDE DEF D
<1>15. TwoGone(Destroy(Destroy(Sound(bt), l, t), r, t), bt, F)
  BY <1>3, <1>11, <1>14, DropTwo
<1> HIDE DEF F
<1>16. PICK ct : /\ Destroy(Destroy(Sound(bt), l, t), r, t) = Sound(ct)
                 /\ Good(ct, F, {}) /\ Agree(bt, ct)
  BY <1>15, Zenon DEF TwoGone
<1>17. Agree(storages, bt) /\ DOMAIN storages \subseteq DOMAIN bt BY <1>9, AgreeFacts DEF Grown
<1>18. Agree(storages, ct) BY <1>16, <1>17, AgreeTrans
<1>19. IsOf(ct, v, t)
  <2>1. <<"operand", p, v.id>> \in F BY <1>12, <1>13 DEF With
  <2>2. <<"operand", p, v.id>>[3] = v.id OBVIOUS
  <2>3. \A e \in F : e[3] \in DOMAIN ct BY <1>16 DEF Good, Counted
  <2>4. v.id \in DOMAIN ct BY <2>1, <2>2, <2>3
  <2>5. DOMAIN bt \subseteq StorageId BY <1>9 DEF Good, Typed
  <2> QED BY <1>9, <1>16, <2>4, <2>5, AgreeIsOf
<1>20. Fits(ct, globals, locals, Append(Under(operands, 2), v), b)
  <2>1. Good(ct, With(Outer(globals, locals, Under(operands, 2)), "operand", Len(operands) - 2 + 1, v), {})
    BY <1>6, <1>12, <1>16 DEF n
  <2>2. PushMode(ct, globals, locals, v, b) /\ a.mode # "address"
    BY <1>2 DEF Modes, PushMode
  <2> QED BY <1>2, <1>3, <1>18, <1>19, <2>1, <2>2, PushedFits DEF Fitting
<1>21. storages' = ct /\ status' = "running" /\ operands' = Append(Under(operands, 2), v)
  BY <1>1, <1>4, <1>10, <1>16, MachineFacts
<1> QED BY <1>1, <1>20, <1>21 DEF Ran

(* An array that a variable or an item holds outlives the operand. *)
LEMMA HeldStays ==
  ASSUME NEW at, NEW bt, NEW gl, NEW lo, NEW E, NEW F, NEW s, NEW t \in Type,
         Good(at, E, {}), Good(bt, F, {}), Agree(at, bt), Outlive(at, bt, t),
         Outer(gl, lo, <<>>) \subseteq F, AlsoHeld(at, gl, lo, Ref(s)),
         s \in DOMAIN at, at[s].type = t
  PROVE  s \in DOMAIN bt /\ bt[s].items = at[s].items /\ bt[s].type = t
<1>1. PICK f \in Outer(gl, lo, <<>>) \cup Items(at, {}) : f[3] = s
  BY ValueFacts DEF AlsoHeld
<1>2. \A e \in F \cup Items(bt, {}) : e[3] \in DOMAIN bt BY DEF Good, Counted
<1>3. CASE f \in Outer(gl, lo, <<>>) BY <1>1, <1>2, <1>3 DEF Agree, Outlive
<1>4. CASE f \in Items(at, {})
  <2>1. PICK r \in DOMAIN at : \E i \in DOMAIN at[r].items : IsItem(at, f, r, i)
    BY <1>4, ItemsIs, Zenon
  <2>2. PICK i \in DOMAIN at[r].items : IsItem(at, f, r, i) BY <2>1
  <2>3. /\ at[r].items[i].kind = "ref" /\ at[r].items[i].id = s
        /\ f = <<"item", <<r, i>>, at[r].items[i].id>>
    BY <1>1, <2>2 DEF IsItem
  <2>4. Typed(at, {}) /\ ItemsOK(at, r, {}) /\ DOMAIN at \subseteq StorageId BY DEF Good, Typed
  <2>5. IsOf(at, at[r].items[i], ElementOf(at[r].type)) BY <2>4 DEF ItemsOK
  <2>6. ElementOf(at[r].type) = t BY <2>3, <2>4, <2>5, IsOfFacts
  <2>7. at[r].type \in Type /\ IsArray(at[r].type)
    <3>1. at[r] \in Storage BY <2>4 DEF Typed
    <3>2. at[r].items # <<>> BY <2>2
    <3> QED BY <2>4, <3>1, <3>2 DEF ItemsOK, Storage
  <2>8. at[r].type.dims \in Int /\ t.dims = at[r].type.dims - 1
    BY <2>6, <2>7, TypeFacts DEF ArrayFacts
  <2>9. r \in DOMAIN bt /\ bt[r].items = at[r].items
    <3>1. at[r].type.dims > t.dims BY <2>8
    <3> QED BY <3>1 DEF Outlive
  <2>10. IsItem(bt, f, r, i) BY <2>2, <2>9 DEF IsItem
  <2>11. f \in Items(bt, {})
    <3>1. <<r, i>> \notin {} /\ i \in DOMAIN bt[r].items BY <2>2, <2>9
    <3> QED BY <2>9, <2>10, <3>1, ItemsIs, Zenon
  <2>12. s \in DOMAIN bt BY <1>1, <1>2, <2>11
  <2> QED BY <2>12 DEF Agree, Outlive
<1> QED BY <1>1, <1>3, <1>4

(* An array over its index. *)
ArrayOnTop(at, gl, lo, op, t) ==
  LET E == Outer(gl, lo, op)
      n == Len(op)
      r == op[n]
      l == op[n - 1]
  IN  /\ op \in Seq(Operand) /\ n - 1 # n /\ n - 2 + 1 = n - 1 /\ n - 1 + 1 = n
      /\ Good(at, E, {}) /\ NoGiven(E) /\ DOMAIN at \subseteq StorageId
      /\ r = Ref(r.id) /\ r.kind = "ref" /\ r.id \in DOMAIN at /\ at[r.id].type = t
      /\ IsOf(at, r, t) /\ <<"operand", n, r.id>> \in E
      /\ l.kind # "ref" /\ l.int \in {0, 1} \cup Size /\ l.int \in Nat
      /\ Outer(gl, lo, Under(op, 2)) = Without(E, "operand", n, r)
      /\ at[r.id].items \in Seq(Value)
      /\ l.int < Len(at[r.id].items) =>
           /\ l.int + 1 \in DOMAIN at[r.id].items
           /\ IsOf(at, at[r.id].items[l.int + 1], ElementOf(t))

LEMMA ArrayFits ==
  ASSUME NEW at, NEW gl, NEW lo, NEW op, NEW a \in Shape, NEW b, NEW c,
         Fits(at, gl, lo, op, a), LoadsElement(c, a, b), a.mode # "address"
  PROVE  ArrayOnTop(at, gl, lo, op, c.type)
<1> DEFINE t == c.type
           E == Outer(gl, lo, op)
           n == Len(op)
           r == op[n]
           l == op[n - 1]
<1>1. t \in Type /\ IsArray(t) /\ On(a, 1, t) /\ On(a, 2, Int0) BY DEF LoadsElement
<1>2. TwoOnTop(at, gl, lo, op, t, Int0) BY <1>1, OuterTwo, Zenon
<1>3. /\ op \in Seq(Operand) /\ n - 1 # n /\ n \in Nat
      /\ Good(at, E, {}) /\ NoGiven(E) /\ DOMAIN at \subseteq StorageId
      /\ IsOf(at, r, t) /\ IsOf(at, l, Int0)
      /\ r.kind = "ref" => <<"operand", n, r.id>> \in E
      /\ Outer(gl, lo, Under(op, 2))
           = Without(Without(E, "operand", n, r), "operand", n - 1, l)
  BY <1>2, Zenon DEF TwoOnTop
<1>4. n - 2 + 1 = n - 1 /\ n - 1 + 1 = n
  <2> HIDE DEF n
  <2> QED BY <1>3
<1> HIDE DEF E, n, r, l
<1>5. HasStorage(t) BY <1>1, TypeFacts DEF ArrayFacts
<1>6. r = Ref(r.id) /\ r.kind = "ref" /\ r.id \in DOMAIN at /\ at[r.id].type = t
  BY <1>3, <1>5, IsOfFacts
<1>7. l.kind # "ref" /\ l.int \in {0, 1} \cup Size /\ l.int \in Nat
  <2>1. l.kind # "ref" /\ l.int \in Nat BY <1>3, TypeFacts, IsOfFacts
  <2>2. PICK i \in {0, 1} \cup Size : l = IntValue(i) BY <1>3, TypeFacts DEF IsOf
  <2>3. l.int = i BY <2>2, ValueFacts
  <2> QED BY <2>1, <2>2, <2>3
<1>8. Outer(gl, lo, Under(op, 2)) = Without(E, "operand", n, r)
  <2> DEFINE A == Without(E, "operand", n, r)
  <2>1. Without(A, "operand", n - 1, l) = A BY <1>7 DEF Without
  <2> QED BY <1>3, <2>1
<1>9. at[r.id].items \in Seq(Value) /\ ItemsOK(at, r.id, {})
  <2>1. Typed(at, {}) BY <1>3 DEF Good
  <2>2. at[r.id] \in Storage /\ ItemsOK(at, r.id, {}) BY <1>6, <2>1 DEF Typed
  <2> QED BY <2>2 DEF Storage
<1>10. ASSUME l.int < Len(at[r.id].items)
       PROVE  /\ l.int + 1 \in DOMAIN at[r.id].items
              /\ IsOf(at, at[r.id].items[l.int + 1], ElementOf(t))
  <2>1. l.int + 1 \in DOMAIN at[r.id].items
    <3> DEFINE items == at[r.id].items
               i == l.int
    <3>1. items \in Seq(Value) /\ i \in Nat /\ i < Len(items) BY <1>7, <1>9, <1>10
    <3> HIDE DEF items, i
    <3>2. i + 1 \in DOMAIN items BY <3>1
    <3> QED BY <3>2 DEF items, i
  <2> QED BY <1>6, <1>9, <2>1 DEF ItemsOK
<1> QED BY <1>3, <1>4, <1>6, <1>7, <1>8, <1>9, <1>10, Zenon DEF ArrayOnTop, E, n, r, l

LEMMA OuterVars ==
  ASSUME NEW gl, NEW lo, NEW op
  PROVE  Outer(gl, lo, <<>>) \subseteq Outer(gl, lo, op)
<1>1. RefsAmong("operand", <<>>) = {} BY DEF RefsAmong
<1> QED BY <1>1 DEF Outer

LEMMA LoadElementAddressRuns ==
  ASSUME NEW a \in Shape, NEW b \in Shape, Fitting(a), VisitLoadArrayElementAddress,
         Step(Head(code), a, b)
  PROVE  Ran(b)
<1> DEFINE t == Arg.type
           n == Len(operands)
           r == operands[n]
           l == operands[n - 1]
           s == r.id
           i == l.int
           E == Outer(globals, locals, operands)
           v == ItemAddress(s, i)
<1>1. Arg.op = "LoadArrayElementAddress" BY DEF VisitLoadArrayElementAddress, Executes, Arg
<1>2. LoadsElement(Arg, a, b) /\ Modes(a, b, "kept", "address")
  BY <1>1 DEF Step, Arg, StepLoadElementAddress
<1>3. Fits(storages, globals, locals, operands, a) /\ a.mode # "address" BY <1>2 DEF Fitting, Modes
<1>4. ArrayOnTop(storages, globals, locals, operands, t) BY <1>2, <1>3, ArrayFits, Zenon
<1>5. /\ operands \in Seq(Operand) /\ n - 1 # n /\ n - 2 + 1 = n - 1 /\ n - 1 + 1 = n
      /\ Good(storages, E, {}) /\ NoGiven(E) /\ DOMAIN storages \subseteq StorageId
      /\ r = Ref(s) /\ r.kind = "ref" /\ s \in DOMAIN storages /\ storages[s].type = t
      /\ IsOf(storages, r, t) /\ <<"operand", n, s>> \in E
      /\ i \in {0, 1} \cup Size /\ i \in Nat
      /\ Outer(globals, locals, Under(operands, 2)) = Without(E, "operand", n, r)
      /\ i < Len(storages[s].items) => i + 1 \in DOMAIN storages[s].items
  BY <1>4, Zenon DEF ArrayOnTop
<1>6. Top(1).id = s /\ Top(2).int = i
  <2>1. Top(1) = operands[n - 1 + 1] /\ Top(2) = operands[n - 2 + 1] BY MachineFacts, Zenon
  <2> HIDE DEF n
  <2> QED BY <1>5, <2>1 DEF r, l
<1>7. IF HasItem(Sound(storages), s, i)
      THEN Push(2, v) /\ Ends(Destroy(Sound(storages), r, t)) /\ UNCHANGED <<globals, locals>>
      ELSE Abort
  BY <1>5, <1>6, MachineFacts, Zenon DEF VisitLoadArrayElementAddress
<1>8. CASE ~HasItem(Sound(storages), s, i) BY <1>7, <1>8 DEF Abort, Ran
<1>9. CASE HasItem(Sound(storages), s, i)
  <2>1. i + 1 \in DOMAIN storages[s].items BY <1>5, <1>9, SoundFacts, Zenon DEF HasItem
  <2>2. t \in Type /\ IsArray(t) /\ Pushes(a, b, 2, ElementOf(t)) /\ SameVars(a, b)
    BY <1>2, Zenon DEF LoadsElement
  <2> HIDE DEF t, n, r, l, s, i, E, v
  <2>3. Larger(storages, {}, t) BY DEF Larger
  <2>4. r.kind = "ref" => <<"operand", n, r.id>> \in E BY <1>5 DEF s
  <2>5. PICK bt : /\ Destroy(Sound(storages), r, t) = Sound(bt)
                  /\ GivenUp(storages, bt, Without(E, "operand", n, r), {}, t)
    BY <1>5, <2>2, <2>3, <2>4, DestroyFacts
  <2> DEFINE F == Outer(globals, locals, Under(operands, 2))
  <2>6. Good(bt, F, {}) /\ Agree(storages, bt) /\ Outlive(storages, bt, t)
    BY <1>5, <2>5 DEF GivenUp
  <2>7. Outer(globals, locals, <<>>) \subseteq F BY OuterVars, Zenon
  <2>8. AlsoHeld(storages, globals, locals, Ref(s))
    <3>1. AlsoHeld(storages, globals, locals, operands[Len(operands)])
      BY <1>2 DEF Fitting, Fits, Stack, Modes
    <3> QED BY <1>5, <3>1, Zenon DEF r, n
  <2> HIDE DEF F
  <2>9. s \in DOMAIN bt /\ bt[s].items = storages[s].items /\ bt[s].type = t
    BY <1>5, <2>2, <2>6, <2>7, <2>8, HeldStays
  <2>10. Leads(bt, globals, locals, v, ElementOf(t)) BY <1>5, <2>1, <2>2, <2>9 DEF Leads, v
  <2>11. v \in Address /\ v.kind # "ref" BY <1>5 DEF v, Address, ItemAddress
  <2>12. ElementOf(t) \in Type BY <2>2, TypeFacts DEF ArrayFacts
  <2>13. Fits(bt, globals, locals, Append(Under(operands, 2), v), b)
    <3>1. b.mode = "address" BY <1>2 DEF Modes
    <3>2. Good(bt, Outer(globals, locals, Under(operands, 2)), {}) BY <2>6 DEF F
    <3> QED BY <1>3, <2>2, <2>6, <2>10, <2>11, <2>12, <3>1, <3>2, AddressFits
  <2>14. storages' = bt /\ status' = "running" /\ operands' = Append(Under(operands, 2), v)
    BY <1>7, <1>9, <2>5, MachineFacts
  <2>15. Fits(storages', globals', locals', operands', b) BY <1>7, <1>9, <2>13, <2>14, Zenon
  <2> QED BY <2>14, <2>15, Zenon DEF Ran
<1> QED BY <1>8, <1>9

LEMMA LoadElementValueRuns ==
  ASSUME NEW a \in Shape, NEW b \in Shape, Fitting(a), VisitLoadArrayElementValue,
         Step(Head(code), a, b)
  PROVE  Ran(b)
<1> DEFINE t == Arg.type
           u == ElementOf(t)
           n == Len(operands)
           p == n - 1
           r == operands[n]
           l == operands[p]
           s == r.id
           i == l.int
           v == storages[s].items[i + 1]
           E == Outer(globals, locals, operands)
           F == Outer(globals, locals, Under(operands, 2))
           m == Destroy(Copy(Sound(storages), v, u), r, t)
<1>1. Arg.op = "LoadArrayElementValue" BY DEF VisitLoadArrayElementValue, Executes, Arg
<1>2. LoadsElement(Arg, a, b) /\ a.mode = b.mode /\ a.mode \in {"any", "kept"}
  BY <1>1 DEF Step, Arg, StepLoadElementValue
<1>3. Fits(storages, globals, locals, operands, a) /\ a.mode # "address" BY <1>2 DEF Fitting
<1>4. ArrayOnTop(storages, globals, locals, operands, t) BY <1>2, <1>3, ArrayFits, Zenon
<1>5. /\ operands \in Seq(Operand) /\ p # n /\ n - 2 + 1 = p /\ n - 1 + 1 = n
      /\ Good(storages, E, {}) /\ NoGiven(E) /\ DOMAIN storages \subseteq StorageId
      /\ r = Ref(s) /\ r.kind = "ref" /\ s \in DOMAIN storages /\ storages[s].type = t
      /\ IsOf(storages, r, t) /\ <<"operand", n, s>> \in E
      /\ l.kind # "ref" /\ i \in {0, 1} \cup Size /\ i \in Nat
      /\ F = Without(E, "operand", n, r)
      /\ i < Len(storages[s].items) => i + 1 \in DOMAIN storages[s].items /\ IsOf(storages, v, u)
  BY <1>4, Zenon DEF ArrayOnTop
<1>6. Top(1).id = s /\ Top(2).int = i
  <2>1. Top(1) = operands[n - 1 + 1] /\ Top(2) = operands[n - 2 + 1] BY MachineFacts, Zenon
  <2> HIDE DEF n, p
  <2> QED BY <1>5, <2>1 DEF r, l
<1>7. Holds(Sound(storages), s, t) BY <1>5, SoundFacts, Zenon DEF Holds
<1>8. IF HasItem(Sound(storages), s, i) THEN LoadArrayElementValue(s, i) ELSE Abort
  BY <1>6, <1>7, MachineFacts, Zenon DEF VisitLoadArrayElementValue
<1>9. CASE ~HasItem(Sound(storages), s, i) BY <1>8, <1>9 DEF Abort, Ran
<1>10. CASE HasItem(Sound(storages), s, i)
  <2>1. i + 1 \in DOMAIN storages[s].items /\ IsOf(storages, v, u)
    BY <1>5, <1>10, SoundFacts, Zenon DEF HasItem
  <2>2. Push(2, v) /\ Ends(m) /\ UNCHANGED <<globals, locals>>
    BY <1>5, <1>8, <1>10, MachineFacts, Zenon DEF LoadArrayElementValue
  <2>3. t \in Type /\ u \in Type /\ Pushes(a, b, 2, u) /\ SameVars(a, b)
    <3>1. t \in Type /\ IsArray(t) /\ Pushes(a, b, 2, u) /\ SameVars(a, b)
      BY <1>2, Zenon DEF LoadsElement
    <3> QED BY <3>1, TypeFacts, Zenon DEF ArrayFacts
  <2>4. <<"operand", p, v.id>> \notin E
    <3> HIDE DEF p, v
    <3>1. <<"operand", p, v.id>> \in E => operands[p].kind = "ref" BY OuterIs
    <3> QED BY <1>5, <3>1
  <2>20. AlsoHeld(storages, globals, locals, r) \/ a.mode = "any"
    BY <1>2, <1>3, Zenon DEF Fits, Stack
  <2>21. Outer(globals, locals, <<>>) \subseteq F BY OuterVars, Zenon
  <2>22. storages[s].items[i + 1] = v OBVIOUS
  <2> DEFINE D == With(E, "operand", p, v)
  <2>5. <<"operand", n, s>> \in D /\ NoGiven(D)
    <3>1. <<"operand", n, s>> \in E /\ NoGiven(E) BY <1>5, Zenon
    <3> HIDE DEF E, n, s, p, v
    <3> QED BY <3>1 DEF With, NoGiven
  <2> HIDE DEF t, u, n, p, r, l, i, v, E, F
  <2>6. PICK bt : Copy(Sound(storages), v, u) = Sound(bt) /\ Copied(storages, bt, D)
    <3>1. "operand" # "item" OBVIOUS
    <3> QED BY <1>5, <2>1, <2>3, <2>4, <3>1, CopyFacts, Zenon
  <2>7. Good(bt, D, {}) /\ DOMAIN bt = DOMAIN storages /\ Kept(storages, bt) /\ Agree(storages, bt)
    BY <2>6, AgreeFacts, Zenon DEF Copied
  <2>8. IsOf(bt, r, t) /\ IsOf(bt, v, u)
    <3>1. r.id \in DOMAIN bt BY <1>5, <2>7 DEF s
    <3>2. v.kind = "ref" => v.id \in DOMAIN bt BY <1>5, <2>1, <2>7, IsOfFacts
    <3> QED BY <1>5, <2>1, <2>7, <3>1, <3>2, AgreeIsOf, Zenon
  <2>9. Larger(bt, {}, t) BY DEF Larger
  <2> HIDE DEF D
  <2>10. PICK ct : /\ Destroy(Sound(bt), r, t) = Sound(ct)
                   /\ GivenUp(bt, ct, Without(D, "operand", n, r), {}, t)
    <3>1. r.kind = "ref" => <<"operand", n, r.id>> \in D BY <2>5 DEF s
    <3> QED BY <2>3, <2>5, <2>7, <2>8, <2>9, <3>1, DestroyFacts, Zenon
  <2>11. Without(D, "operand", n, r) = With(F, "operand", p, v)
    <3>1. \A A : Without(A, "operand", p, l) = A BY <1>5, Zenon DEF Without
    <3>2. p # n /\ ~(v.kind = "ref" /\ l.kind = "ref") BY <1>5, Zenon
    <3>3. SameAtLast(E, p, n, v, l, r) BY <3>2, WithLast, Zenon
    <3> QED BY <1>5, <3>1, <3>3, Zenon DEF SameAtLast, D
  <2>12. /\ Good(ct, With(F, "operand", p, v), {}) /\ Agree(bt, ct) /\ Outlive(bt, ct, t)
         /\ DOMAIN ct \subseteq DOMAIN bt
    BY <2>10, <2>11 DEF GivenUp
  <2>13. Agree(storages, ct) BY <2>7, <2>12, AgreeTrans, Zenon
  <2>14. IsOf(ct, v, u)
    <3> DEFINE e == <<"operand", p, v.id>>
    <3>1. e[3] = v.id OBVIOUS
    <3>2. v.kind = "ref" => e \in With(F, "operand", p, v) BY DEF With
    <3>3. \A f \in With(F, "operand", p, v) : f[3] \in DOMAIN ct
      BY <2>12, Zenon DEF Good, Counted
    <3> HIDE DEF e
    <3>4. v.kind = "ref" => v.id \in DOMAIN ct BY <3>1, <3>2, <3>3, Zenon
    <3> QED BY <1>5, <2>7, <2>8, <2>12, <3>4, AgreeIsOf, Zenon
  <2>15. PushMode(ct, globals, locals, v, b)
    <3>1. CASE a.mode = "any" BY <1>2, <3>1 DEF PushMode
    <3>2. CASE a.mode = "kept"
      <4>1. AlsoHeld(storages, globals, locals, r) BY <2>20, <3>2
      <4>2. AlsoHeld(bt, globals, locals, Ref(s))
        <5>1. \A e : e \in Items(bt, {}) <=> e \in Items(storages, {})
          <6>1. \A e : e \in Items(bt, {}) <=> e \in Items(storages, {}) /\ e[2][1] \in DOMAIN bt
            BY <2>7, KeptItems, Zenon
          <6>2. ASSUME NEW e \in Items(storages, {}) PROVE e[2][1] \in DOMAIN storages
            <7>1. PICK q \in DOMAIN storages : \E j \in DOMAIN storages[q].items :
                     IsItem(storages, e, q, j) /\ <<q, j>> \notin {}
              BY <6>2, ItemsIs, Zenon
            <7>2. e[2][1] = q BY <7>1 DEF IsItem
            <7> QED BY <7>1, <7>2
          <6> QED BY <2>7, <6>1, <6>2, Zenon
        <5> QED BY <1>5, <4>1, <5>1, Zenon DEF AlsoHeld
      <4>3. s \in DOMAIN bt /\ bt[s].type = t /\ bt[s].items = storages[s].items
        BY <1>5, <2>7, Zenon DEF Kept
      <4>4. Outer(globals, locals, <<>>) \subseteq With(F, "operand", p, v)
        BY <2>21 DEF With
      <4>5. s \in DOMAIN ct /\ ct[s].items = bt[s].items /\ ct[s].type = t
        BY <2>3, <2>7, <2>12, <4>2, <4>3, <4>4, HeldStays
      <4>6. ct[s].items = storages[s].items BY <4>3, <4>5, Zenon
      <4>7. AlsoHeld(ct, globals, locals, v)
        <5> SUFFICES ASSUME v.kind = "ref" PROVE \E f \in Items(ct, {}) : f[3] = v.id
          BY Zenon DEF AlsoHeld
        <5> DEFINE f == <<"item", <<s, i + 1>>, v.id>>
        <5>1. f[3] = v.id OBVIOUS
        <5>2. i + 1 \in DOMAIN ct[s].items /\ ct[s].items[i + 1] = v BY <2>1, <2>22, <4>6
        <5>3. IsItem(ct, f, s, i + 1) BY <4>5, <5>2 DEF IsItem
        <5>4. f \in Items(ct, {})
          <6>1. <<s, i + 1>> \notin {} OBVIOUS
          <6> HIDE DEF f
          <6> QED BY <4>5, <5>2, <5>3, <6>1, ItemsIs, Zenon
        <5> QED BY <5>1, <5>4
      <4> QED BY <1>2, <3>2, <4>7 DEF PushMode
    <3> QED BY <1>2, <3>1, <3>2
  <2>16. Fits(ct, globals, locals, Append(Under(operands, 2), v), b)
    <3>1. Good(ct, With(Outer(globals, locals, Under(operands, 2)), "operand", Len(operands) - 2 + 1, v), {})
      BY <1>5, <2>12, Zenon DEF n, F
    <3> QED BY <1>3, <2>3, <2>13, <2>14, <2>15, <3>1, PushedFits, Zenon
  <2>17. m = Sound(ct) BY <2>6, <2>10, Zenon
  <2>18. storages' = ct /\ status' = "running" /\ operands' = Append(Under(operands, 2), v)
    BY <2>2, <2>17, MachineFacts, Zenon
  <2>19. Fits(storages', globals', locals', operands', b) BY <2>2, <2>16, <2>18, Zenon
  <2> QED BY <2>18, <2>19, Zenon DEF Ran
<1> QED BY <1>9, <1>10

(* The values of a new array are the operands on top, the first above.     *)
UnderMoved(gl, lo, op, M, k) ==
  M \subseteq Outer(gl, lo, op) /\ Outer(gl, lo, op) \ M = Outer(gl, lo, Under(op, k))

LEMMA MovedUnder ==
  ASSUME NEW gl, NEW lo, NEW op \in Seq(Operand), NEW k \in 0..Len(op), NEW items, NEW place,
         \A j \in 1..k : place[j] = Len(op) - j + 1 /\ items[j] = op[Len(op) - j + 1]
  PROVE  UnderMoved(gl, lo, op, Moved(items, place, k), k)
<1> DEFINE n == Len(op)
           m == n - k
           M == Moved(items, place, k)
           E == Outer(gl, lo, op)
           F == Outer(gl, lo, Under(op, k))
<1>1. n \in Nat /\ k \in Nat /\ m \in 0..n /\ n - k = m /\ DOMAIN op = 1..n OBVIOUS
<1>2. Under(op, k) = SubSeq(op, 1, m) BY DEF Under
<1>3. \A e : e \in M <=> \E j \in 1..k : items[j].kind = "ref" /\ e = <<"operand", place[j], items[j].id>>
  BY DEF Moved
<1>4. \A j \in 1..k : place[j] = n - j + 1 /\ items[j] = op[n - j + 1] OBVIOUS
<1>5. \A e : e \in F <=> e \in E /\ (e[1] = "operand" => e[2] \in 1..m)
  <2> HIDE DEF m, n, E
  <2>1. \A e : e \in Outer(gl, lo, SubSeq(op, 1, m))
                 <=> e \in Outer(gl, lo, op) /\ (e[1] = "operand" => e[2] \in 1..m)
    BY <1>1, OuterPop DEF n
  <2> QED BY <1>2, <2>1, Zenon DEF E
<1>6. \A e \in E : e[1] = "operand" =>
         e[2] \in 1..n /\ op[e[2]].kind = "ref" /\ e = <<"operand", e[2], op[e[2]].id>>
  BY <1>1, OuterOperand
<1>7. \A i \in 1..n : op[i].kind = "ref" => <<"operand", i, op[i].id>> \in E
  BY <1>1, OuterIs
<1> HIDE DEF n, m, M, E, F
<1>8. \A j \in 1..k : n - j + 1 \in 1..n /\ ~(n - j + 1 \in 1..m) BY <1>1
<1>9. \A i \in 1..n : ~(i \in 1..m) => \E j \in 1..k : n - j + 1 = i
  <2> SUFFICES ASSUME NEW i \in 1..n, ~(i \in 1..m) PROVE \E j \in 1..k : n - j + 1 = i
    OBVIOUS
  <2>1. n - i + 1 \in 1..k /\ n - (n - i + 1) + 1 = i BY <1>1
  <2> QED BY <2>1
<1>10. ASSUME NEW e \in M PROVE e \in E /\ ~(e \in F)
  <2>1. PICK j \in 1..k : items[j].kind = "ref" /\ e = <<"operand", place[j], items[j].id>> BY <1>3
  <2> DEFINE i == n - j + 1
  <2>2. i \in 1..n /\ ~(i \in 1..m) /\ place[j] = i /\ items[j] = op[i] BY <1>4, <1>8
  <2> HIDE DEF i
  <2>3. op[i].kind = "ref" /\ e = <<"operand", i, op[i].id>> BY <2>1, <2>2
  <2>4. e[1] = "operand" /\ e[2] = i BY <2>3
  <2> QED BY <1>5, <1>7, <2>2, <2>3, <2>4
<1>11. ASSUME NEW e \in E, ~(e \in F) PROVE e \in M
  <2>1. e[1] = "operand" /\ ~(e[2] \in 1..m) BY <1>5, <1>11
  <2>2. e[2] \in 1..n /\ op[e[2]].kind = "ref" /\ e = <<"operand", e[2], op[e[2]].id>>
    BY <1>6, <2>1
  <2>3. PICK j \in 1..k : n - j + 1 = e[2] BY <1>9, <2>1, <2>2
  <2>4. place[j] = e[2] /\ items[j] = op[e[2]] BY <1>4, <2>3
  <2> QED BY <1>3, <2>2, <2>4
<1>12. \A e : e \in F => e \in E BY <1>5
<1>13. M \subseteq E /\ E \ M = F BY <1>10, <1>11, <1>12
<1> QED BY <1>13 DEF UnderMoved, M, E, F

LEMMA CreateAndInitArrayRuns ==
  ASSUME ~IsFiniteSet(StorageId), NEW a \in Shape, NEW b \in Shape, Fitting(a),
         VisitCreateAndInitArray, Step(Head(code), a, b)
  PROVE  Ran(b)
<1> DEFINE t == Arg.type
           k == Arg.count
           n == Len(operands)
           s == FreeId(Sound(storages))
           items == [i \in 1..k |-> Top(i)]
           place == [i \in 1..k |-> n - i + 1]
           E == Outer(globals, locals, operands)
           F == Outer(globals, locals, Under(operands, k))
           M == Moved(items, place, k)
           e == <<"operand", n - k + 1, s>>
<1>1. /\ Arg.op = "CreateAndInitArray" /\ Push(k, Ref(s))
      /\ Ends(Allocate(Sound(storages), s, t, items)) /\ UNCHANGED <<globals, locals>>
  BY MachineFacts DEF VisitCreateAndInitArray, Executes, Arg
<1>2. /\ t \in Type /\ IsArray(t) /\ \A j \in 1..k : On(a, j, ElementOf(t))
      /\ Pushes(a, b, k, t) /\ Plainly(a, b)
  BY <1>1 DEF Step, Arg, StepCreateAndInitArray
<1>3. /\ operands \in Seq(Operand) /\ Good(storages, E, {}) /\ DOMAIN storages \subseteq StorageId
      /\ k \in 0..n
  <2>1. FitsBasics(storages, globals, locals, operands, a) BY FitsFacts DEF Fitting
  <2>2. k \in 0..Len(a.operands) BY <1>2 DEF Pushes
  <2> QED BY <2>1, <2>2 DEF FitsBasics
<1>4. NoItems(E) BY OuterPlain, Zenon
<1>5. SameVars(a, b) /\ a.mode # "address" /\ b.mode = "any" BY <1>2 DEF Plainly, Modes
<1>6. s \in StorageId \ DOMAIN storages
  <2>1. IsFiniteSet(DOMAIN storages) BY <1>3 DEF Good, Typed
  <2> QED BY <2>1, FreeIdIs, Zenon
<1>7. \A j \in 1..k : /\ items[j] = operands[n - j + 1] /\ place[j] = n - j + 1
                      /\ IsOf(storages, items[j], ElementOf(t))
  <2> SUFFICES ASSUME NEW j \in 1..k
               PROVE  /\ items[j] = operands[n - j + 1] /\ place[j] = n - j + 1
                      /\ IsOf(storages, items[j], ElementOf(t))
    BY Zenon
  <2>1. items[j] = operands[n - j + 1] /\ place[j] = n - j + 1 BY MachineFacts, Zenon
  <2>2. Has(storages, E, operands, j, ElementOf(t)) BY <1>2, <1>5, OnFacts, Zenon DEF Fitting
  <2> QED BY <2>1, <2>2, Zenon DEF Has
<1>8. items \in [1..k -> Value] /\ k \in Nat
  <2>1. \A j \in 1..k : items[j] \in Value BY <1>3, <1>7, IsOfFacts, Zenon
  <2>2. k \in Nat BY <1>3
  <2>3. items = [j \in 1..k |-> items[j]] OBVIOUS
  <2> HIDE DEF items, k
  <2> QED BY <2>1, <2>2, <2>3
<1>9. \A i, j \in 1..k : place[i] = place[j] => i = j
  <2>1. n \in Nat BY <1>3
  <2> HIDE DEF n, k, place
  <2>2. \A i, j \in 1..k : n - i + 1 = n - j + 1 => i = j BY <2>1
  <2> QED BY <1>7, <2>2
<1>10. M \subseteq E /\ E \ M = F
  <2>1. \A j \in 1..k : place[j] = Len(operands) - j + 1 /\ items[j] = operands[Len(operands) - j + 1]
    BY <1>7
  <2> HIDE DEF items, place
  <2>2. UnderMoved(globals, locals, operands, M, k) BY <1>3, <2>1, MovedUnder, Zenon
  <2> QED BY <2>2, Zenon DEF UnderMoved
<1>11. e[1] # "item" /\ e[3] = s OBVIOUS
<1> HIDE DEF t, k, n, s, items, place, E, M, e
<1>12. PICK bt : /\ Allocate(Sound(storages), s, t, items) = Sound(bt)
                 /\ NewOK(storages, bt, s, t, items)
  BY <1>6, AllocateIs, Zenon
<1>13. Good(bt, (E \ M) \cup {e}, {}) /\ Grown(storages, bt)
  BY <1>2, <1>3, <1>4, <1>6, <1>7, <1>8, <1>9, <1>10, <1>11, <1>12, InitArrayFacts DEF M
<1>14. Agree(storages, bt) BY <1>13, AgreeFacts, Zenon
<1>15. IsOf(bt, Ref(s), t)
  <2>1. HasStorage(t) BY <1>2, TypeFacts, Zenon DEF ArrayFacts
  <2>2. s \in DOMAIN bt /\ bt[s].type = t BY <1>12 DEF NewOK, NewStorage
  <2> QED BY <2>1, <2>2, Zenon DEF IsOf
<1>16. Good(bt, With(F, "operand", n - k + 1, Ref(s)), {})
  <2>1. With(F, "operand", n - k + 1, Ref(s)) = F \cup {e} BY ValueFacts DEF With, e
  <2> QED BY <1>10, <1>13, <2>1, Zenon
<1>17. Fits(bt, globals, locals, Append(Under(operands, k), Ref(s)), b)
  <2>1. PushMode(bt, globals, locals, Ref(s), b) BY <1>5 DEF PushMode
  <2>2. Good(bt, With(Outer(globals, locals, Under(operands, k)), "operand", Len(operands) - k + 1, Ref(s)), {})
    BY <1>16, Zenon DEF F, n
  <2> QED BY <1>2, <1>5, <1>14, <1>15, <2>1, <2>2, PushedFits, Zenon DEF Fitting
<1>18. storages' = bt /\ status' = "running" /\ operands' = Append(Under(operands, k), Ref(s))
  BY <1>1, <1>12, MachineFacts, Zenon
<1>19. Fits(storages', globals', locals', operands', b) BY <1>1, <1>17, <1>18, Zenon
<1> QED BY <1>18, <1>19, Zenon DEF Ran

-----------------------------------------------------------------------------
(* Variables are created, changed and destroyed. *)

(* Variables with values that were there before, or are there now. *)
NewSlots(at, bt, gl, lo, b) ==
  /\ DOMAIN gl = b.globals /\ lo \in Seq(Local) /\ Len(lo) = Len(b.locals)
  /\ \A x \in DOMAIN gl : IsOf(at, gl[x], TypeOf[x]) \/ IsOf(bt, gl[x], TypeOf[x])
  /\ \A i \in DOMAIN lo : lo[i].type = b.locals[i]
  /\ \A i \in DOMAIN lo : IsOf(at, lo[i].value, lo[i].type) \/ IsOf(bt, lo[i].value, lo[i].type)

LEMMA ChangeFits ==
  ASSUME NEW at, NEW bt, NEW gl, NEW lo, NEW op, NEW a \in Shape, NEW b, NEW n, NEW hl, NEW mo,
         Fits(at, gl, lo, op, a), Pops(a, b, n), b.mode = "any", a.mode # "address" \/ n # 0,
         Agree(at, bt), NewSlots(at, bt, hl, mo, b), Good(bt, Outer(hl, mo, Under(op, n)), {})
  PROVE  Fits(bt, hl, mo, Under(op, n), b)
<1>1. FitsBasics(at, gl, lo, op, a) BY FitsFacts
<1>2. /\ op \in Seq(Operand) /\ a.operands \in Seq(Type) /\ Len(a.operands) = Len(op)
      /\ n \in 0..Len(op) /\ b.operands = Under(a.operands, n) /\ DOMAIN at \subseteq StorageId
  BY <1>1 DEF FitsBasics, Pops
<1> DEFINE k == Len(op) - n
           ws == Under(op, n)
           A == Outer(hl, mo, ws)
<1>3. OpsOK(at, op, a.operands, k)
  <2>1. Len(op) \in Nat /\ (n = 0 => k = Len(op)) BY <1>2
  <2>2. CASE n = 0 BY <1>1, <2>1, <2>2 DEF FitsBasics
  <2>3. CASE n # 0
    <3>1. OpsOK(at, op, a.operands, Len(op) - 1) BY <1>1 DEF FitsBasics
    <3>2. 1..k \subseteq 1..Len(op) - 1 BY <1>2, <2>1, <2>3
    <3> QED BY <3>1, <3>2 DEF OpsOK
  <2> QED BY <2>2, <2>3
<1>4. DOMAIN ws = 1..k /\ \A i \in 1..k : ws[i] = op[i] BY <1>2, UnderFacts DEF UnderIs
<1>5. Good(bt, A, {}) OBVIOUS
<1> HIDE DEF ws, A, k
<1>6. \A e \in A : e[3] \in DOMAIN bt BY <1>5, Zenon DEF Good, Counted
<1>7. \A h, i, s : <<h, i, s>> \in A => s \in DOMAIN bt
  <2>1. \A h, i, s : <<h, i, s>>[3] = s OBVIOUS
  <2> QED BY <1>6, <2>1
<1>8. \A x \in DOMAIN hl : IsOf(bt, hl[x], TypeOf[x])
  <2> SUFFICES ASSUME NEW x \in DOMAIN hl, IsOf(at, hl[x], TypeOf[x]) PROVE IsOf(bt, hl[x], TypeOf[x])
    BY Zenon DEF NewSlots
  <2>1. hl[x].kind = "ref" => <<"global", x, hl[x].id>> \in A BY OuterIs DEF A
  <2> QED BY <1>2, <1>7, <2>1, AgreeIsOf, Zenon
<1>9. \A i \in DOMAIN mo : IsOf(bt, mo[i].value, mo[i].type)
  <2> SUFFICES ASSUME NEW i \in DOMAIN mo, IsOf(at, mo[i].value, mo[i].type)
               PROVE  IsOf(bt, mo[i].value, mo[i].type)
    BY Zenon DEF NewSlots
  <2>1. mo[i].value.kind = "ref" => <<"local", i, mo[i].value.id>> \in A BY OuterIs DEF A
  <2> QED BY <1>2, <1>7, <2>1, AgreeIsOf, Zenon
<1>10. OpsOK(bt, op, a.operands, k)
  <2> SUFFICES ASSUME NEW i \in 1..k PROVE IsOf(bt, op[i], a.operands[i]) BY DEF OpsOK
  <2>1. IsOf(at, op[i], a.operands[i]) BY <1>3 DEF OpsOK
  <2>2. op[i].kind = "ref" => <<"operand", i, op[i].id>> \in A
    <3>1. i \in DOMAIN ws /\ ws[i] = op[i] BY <1>4
    <3>2. ws[i].kind = "ref" => <<"operand", i, ws[i].id>> \in A BY <3>1, OuterIs DEF A
    <3> QED BY <3>1, <3>2
  <2> QED BY <1>2, <1>7, <2>1, <2>2, AgreeIsOf, Zenon
<1>11. Slots(bt, hl, mo, b) BY <1>8, <1>9, Zenon DEF Slots, NewSlots
<1> QED BY <1>2, <1>5, <1>10, <1>11, PopFits DEF k, A, ws

(* The variables as they were. *)
LEMMA SlotsKept ==
  ASSUME NEW at, NEW bt, NEW gl, NEW lo, NEW a, Slots(at, gl, lo, a)
  PROVE  NewSlots(at, bt, gl, lo, a)
BY Zenon DEF Slots, NewSlots

LEMMA MoveValue ==
  ASSUME NEW at, NEW E, NEW M, NEW v, NEW h, NEW i, NEW k, NEW j, Good(at, E, M), k # "item",
         v.kind = "ref" => <<h, i, v.id>> \in E /\ <<k, j, v.id>> \notin E
  PROVE  Good(at, With(Without(E, h, i, v), k, j, v), M)
<1>1. CASE v.kind # "ref" BY <1>1, Zenon DEF With, Without
<1>2. CASE v.kind = "ref"
  <2> DEFINE e == <<h, i, v.id>>
             f == <<k, j, v.id>>
  <2>1. With(Without(E, h, i, v), k, j, v) = (E \ {e}) \cup {f} BY <1>2, Zenon DEF With, Without
  <2>2. e \in E /\ f \notin E /\ f[1] # "item" /\ f[3] = e[3] BY <1>2
  <2> HIDE DEF e, f
  <2>3. Good(at, (E \ {e}) \cup {f}, M) BY <2>2, MoveOuter, Zenon
  <2> QED BY <2>1, <2>3, Zenon
<1> QED BY <1>1, <1>2

EitherOrder(E, h, i, v, k, j, w) ==
  Without(Without(E, h, i, v), k, j, w) = Without(Without(E, k, j, w), h, i, v)

LEMMA WithoutTwo ==
  ASSUME NEW E, NEW h, NEW i, NEW v, NEW k, NEW j, NEW w
  PROVE  EitherOrder(E, h, i, v, k, j, w)
<1> DEFINE d == <<h, i, v.id>>
           e == <<k, j, w.id>>
           I == v.kind = "ref"
           J == w.kind = "ref"
           L == Without(Without(E, h, i, v), k, j, w)
           R == Without(Without(E, k, j, w), h, i, v)
<1>1. \A x : x \in L <=> x \in E /\ ~(I /\ x = d) /\ ~(J /\ x = e) BY DEF Without
<1>2. \A x : x \in R <=> x \in E /\ ~(I /\ x = d) /\ ~(J /\ x = e) BY DEF Without
<1> HIDE DEF d, e, I, J, L, R
<1>3. L = R BY <1>1, <1>2
<1> QED BY <1>3 DEF L, R, EitherOrder

(* A variable is created with a new value, over the operands as they are.  *)
LEMMA MadeVar ==
  ASSUME ~IsFiniteSet(StorageId), NEW a \in Shape, NEW t \in Type, NEW h, NEW i, h # "item",
         Fitting(a)
  PROVE  \E bt, v : /\ Default(Memory, t) = [memory |-> Sound(bt), value |-> v]
                    /\ IsOf(bt, v, t) /\ Agree(storages, bt)
                    /\ Good(bt, With(Outer(globals, locals, Under(operands, 0)), h, i, v), {})
<1> DEFINE E == Outer(globals, locals, operands)
           new == Multidimensional(Sound(storages), t, <<>>)
<1>1. FitsBasics(storages, globals, locals, operands, a) BY FitsFacts DEF Fitting
<1>2. Good(storages, E, {}) /\ operands \in Seq(Operand) BY <1>1 DEF FitsBasics
<1>3. E = Outer(globals, locals, Under(operands, 0)) BY <1>2, UnderSubset
<1>4. NoItems(E) BY OuterPlain, Zenon
<1>5. <<>> \in Seq(Nat) /\ Len(<<>>) <= t.dims BY TypeFacts DEF ArrayFacts
<1>6. Default(Memory, t) = new BY MachineFacts, Zenon DEF Default
<1> HIDE DEF E
<1>7. Made(new, storages, E, h, i, t) BY <1>2, <1>4, <1>5, MultidimensionalFacts
<1> HIDE DEF new
<1>8. PICK bt, v : /\ new = [memory |-> Sound(bt), value |-> v] /\ IsOf(bt, v, t)
                   /\ Grown(storages, bt) /\ Good(bt, With(E, h, i, v), {})
  BY <1>7, Zenon DEF Made
<1>9. Agree(storages, bt) BY <1>8, AgreeFacts, Zenon
<1> QED BY <1>3, <1>6, <1>8, <1>9, Zenon

(* The operand on top becomes the value of a variable. *)
LEMMA TakenVar ==
  ASSUME NEW a \in Shape, NEW t, NEW h, NEW i, h # "item", Fitting(a), On(a, 1, t), a.mode # "address",
         \A s : <<h, i, s>> \notin Outer(globals, locals, operands)
  PROVE  /\ IsOf(storages, Top(1), t) /\ t \in Type
         /\ Good(storages, With(Outer(globals, locals, Under(operands, 1)), h, i, Top(1)), {})
<1> DEFINE E == Outer(globals, locals, operands)
           n == Len(operands)
           v == operands[n]
<1>1. FitsBasics(storages, globals, locals, operands, a) BY FitsFacts DEF Fitting
<1>2. Good(storages, E, {}) BY <1>1 DEF FitsBasics
<1>3. operands \in Seq(Operand) /\ Top(1) = v /\ Len(operands) > 0 BY TopIs, Zenon
<1>4. Has(storages, E, operands, 1, t) BY OnFacts DEF Fitting
<1>5. n - 1 + 1 = n BY <1>3
<1>6. IsOf(storages, v, t) /\ t \in Type /\ (v.kind = "ref" => <<"operand", n, v.id>> \in E)
  BY <1>4, <1>5, Zenon DEF Has
<1>7. Without(E, "operand", n, v) = Outer(globals, locals, Under(operands, 1))
  <2>1. UnderOne(globals, locals, operands) BY <1>3, OuterUnder, Zenon
  <2> QED BY <2>1 DEF UnderOne
<1>8. \A s : <<h, i, s>> \notin E OBVIOUS
<1> HIDE DEF E, n, v
<1>9. Good(storages, With(Without(E, "operand", n, v), h, i, v), {})
  BY <1>2, <1>6, <1>8, MoveValue
<1> QED BY <1>3, <1>6, <1>7, <1>9, Zenon

(* One global variable more. *)
LEMMA GlobalFits ==
  ASSUME NEW a \in Shape, NEW b, NEW c, NEW n, NEW bt, NEW v, NEW hl, Fitting(a), NewGlobal(c, a, b), Pops(a, b, n),
         IsOf(bt, v, c.type) \/ IsOf(storages, v, c.type), Agree(storages, bt),
         DOMAIN hl = DOMAIN globals \cup {c.var}, hl[c.var] = v,
         \A y \in DOMAIN globals \ {c.var} : hl[y] = globals[y],
         Good(bt, With(Outer(globals, locals, Under(operands, n)), "global", c.var, v), {})
  PROVE  Fits(bt, hl, locals, Under(operands, n), b)
<1>1. /\ c.var \in Global \ a.globals /\ c.type = TypeOf[c.var] /\ b.locals = a.locals
      /\ b.globals = a.globals \cup {c.var} /\ a.mode # "address" /\ b.mode = "any"
  BY DEF NewGlobal, Modes
<1>2. FitsBasics(storages, globals, locals, operands, a) BY FitsFacts DEF Fitting
<1>3. Slots(storages, globals, locals, a) BY <1>2 DEF FitsBasics
<1>4. c.var \notin DOMAIN globals BY <1>1, <1>3 DEF Slots
<1>5. Outer(hl, locals, Under(operands, n))
        = With(Outer(globals, locals, Under(operands, n)), "global", c.var, v)
  <2>1. GlobalChange(globals, locals, Under(operands, n), hl, c.var, v) BY OuterGlobal, Zenon
  <2> QED BY <1>4, <2>1, Zenon DEF GlobalChange
<1>6. NewSlots(storages, bt, hl, locals, b)
  <2>1. DOMAIN hl = b.globals BY <1>1, <1>3 DEF Slots
  <2>2. ASSUME NEW x \in DOMAIN hl
        PROVE  IsOf(storages, hl[x], TypeOf[x]) \/ IsOf(bt, hl[x], TypeOf[x])
    <3>1. CASE x = c.var BY <1>1, <3>1
    <3>2. CASE x # c.var
      <4>1. x \in DOMAIN globals /\ hl[x] = globals[x] BY <3>2
      <4> QED BY <1>3, <4>1 DEF Slots
    <3> QED BY <3>1, <3>2
  <2> QED BY <1>1, <1>3, <2>1, <2>2, Zenon DEF Slots, NewSlots
<1>7. Good(bt, Outer(hl, locals, Under(operands, n)), {}) BY <1>5
<1> QED BY <1>1, <1>6, <1>7, ChangeFits DEF Fitting

LEMMA CreateGlobalVarRuns ==
  ASSUME ~IsFiniteSet(StorageId), NEW a \in Shape, NEW b \in Shape, Fitting(a), VisitCreateGlobalVar,
         Step(Head(code), a, b)
  PROVE  Ran(b)
<1> DEFINE new == Default(Memory, Arg.type)
<1>1. /\ Arg.op = "CreateGlobalVar" /\ SetGlobal(Arg.var, new.value) /\ Ends(new.memory)
      /\ UNCHANGED <<locals, operands>>
  BY DEF VisitCreateGlobalVar, Executes, Arg
<1>2. NewGlobal(Arg, a, b) /\ Pops(a, b, 0) BY <1>1 DEF Step, Arg, StepCreateGlobalVar
<1>3. Arg.type \in Type BY <1>2, ValuesAssumption DEF NewGlobal
<1>4. PICK bt, v : /\ new = [memory |-> Sound(bt), value |-> v]
                   /\ IsOf(bt, v, Arg.type) /\ Agree(storages, bt)
                   /\ Good(bt, With(Outer(globals, locals, Under(operands, 0)), "global", Arg.var, v), {})
  BY <1>3, MadeVar
<1>5. new.memory = Sound(bt) /\ new.value = v BY <1>4
<1> HIDE DEF new
<1>6. /\ DOMAIN globals' = DOMAIN globals \cup {Arg.var} /\ globals'[Arg.var] = v
      /\ \A y \in DOMAIN globals \ {Arg.var} : globals'[y] = globals[y]
  BY <1>1, <1>5 DEF SetGlobal
<1>7. Fits(bt, globals', locals, Under(operands, 0), b) BY <1>2, <1>4, <1>6, GlobalFits
<1>8. Under(operands, 0) = operands
  <2>1. operands \in Seq(Operand) BY FitsFacts DEF Fitting, FitsBasics
  <2> QED BY <2>1 DEF Under
<1>9. storages' = bt /\ status' = "running" BY <1>1, <1>5, MachineFacts
<1>10. Fits(storages', globals', locals', operands', b) BY <1>1, <1>7, <1>8, <1>9
<1> QED BY <1>9, <1>10, Zenon DEF Ran

LEMMA CreateAndInitGlobalVarRuns ==
  ASSUME NEW a \in Shape, NEW b \in Shape, Fitting(a), VisitCreateAndInitGlobalVar,
         Step(Head(code), a, b)
  PROVE  Ran(b)
<1> DEFINE v == Top(1)
<1>1. /\ Arg.op = "CreateAndInitGlobalVar" /\ SetGlobal(Arg.var, v) /\ Ends(Sound(storages))
      /\ operands' = Under(operands, 1) /\ UNCHANGED locals
  BY MachineFacts DEF VisitCreateAndInitGlobalVar, Executes, Arg
<1>2. NewGlobal(Arg, a, b) /\ On(a, 1, Arg.type) /\ Pops(a, b, 1)
  BY <1>1 DEF Step, Arg, StepCreateAndInitGlobalVar
<1>3. \A s : <<"global", Arg.var, s>> \notin Outer(globals, locals, operands)
  <2>1. Arg.var \notin DOMAIN globals BY <1>2 DEF NewGlobal, Fitting, Fits, Slots
  <2> QED BY <2>1, OuterIs
<1>4. /\ IsOf(storages, v, Arg.type)
      /\ Good(storages, With(Outer(globals, locals, Under(operands, 1)), "global", Arg.var, v), {})
  <2>1. a.mode # "address" /\ "global" # "item" BY <1>2 DEF NewGlobal, Modes
  <2> QED BY <1>2, <1>3, <2>1, TakenVar
<1> HIDE DEF v
<1>5. /\ DOMAIN globals' = DOMAIN globals \cup {Arg.var} /\ globals'[Arg.var] = v
      /\ \A y \in DOMAIN globals \ {Arg.var} : globals'[y] = globals[y]
  BY <1>1 DEF SetGlobal
<1>6. Agree(storages, storages) BY DEF Agree
<1>7. Fits(storages, globals', locals, Under(operands, 1), b)
  BY <1>2, <1>4, <1>5, <1>6, GlobalFits
<1>8. storages' = storages /\ status' = "running" BY <1>1, MachineFacts
<1>9. Fits(storages', globals', locals', operands', b) BY <1>1, <1>7, <1>8
<1> QED BY <1>8, <1>9, Zenon DEF Ran

(* One local variable more. *)
LEMMA AppendFacts ==
  ASSUME NEW S, NEW s \in Seq(S), NEW v \in S
  PROVE  /\ Append(s, v) \in Seq(S) /\ Len(Append(s, v)) = Len(s) + 1 /\ Len(s) \in Nat
         /\ DOMAIN Append(s, v) = DOMAIN s \cup {Len(s) + 1} /\ Append(s, v)[Len(s) + 1] = v
         /\ \A i \in DOMAIN s : Append(s, v)[i] = s[i] /\ i # Len(s) + 1
         /\ Len(s) + 1 \notin DOMAIN s
OBVIOUS

LEMMA LocalFits ==
  ASSUME NEW a \in Shape, NEW b, NEW c, NEW n, NEW bt, NEW v, NEW mo, Fitting(a), NewLocal(c, a, b),
         Pops(a, b, n), v \in Value, IsOf(bt, v, c.type) \/ IsOf(storages, v, c.type), Agree(storages, bt),
         mo = Append(locals, [type |-> c.type, value |-> v]),
         Good(bt, With(Outer(globals, locals, Under(operands, n)), "local", Len(locals) + 1, v), {})
  PROVE  Fits(bt, globals, mo, Under(operands, n), b)
<1> DEFINE x == Len(locals) + 1
           l == [type |-> c.type, value |-> v]
<1>1. /\ c.type \in Type /\ b.locals = Append(a.locals, c.type) /\ b.globals = a.globals
      /\ a.mode # "address" /\ b.mode = "any"
  BY DEF NewLocal, Modes
<1>2. FitsBasics(storages, globals, locals, operands, a) BY FitsFacts DEF Fitting
<1>3. Slots(storages, globals, locals, a) BY <1>2 DEF FitsBasics
<1>4. locals \in Seq(Local) /\ a.locals \in Seq(Type) /\ Len(a.locals) = Len(locals)
  BY <1>3, ShapeIs DEF Slots, ShapeFacts
<1>5. l \in Local /\ l.type = c.type /\ l.value = v BY <1>1 DEF Local
<1> HIDE DEF l
<1>6. /\ mo \in Seq(Local) /\ Len(mo) = x /\ DOMAIN mo = DOMAIN locals \cup {x} /\ mo[x] = l
      /\ \A i \in DOMAIN locals : mo[i] = locals[i]
      /\ x \notin DOMAIN locals
  BY <1>4, <1>5, AppendFacts DEF l
<1>7. /\ Len(b.locals) = x /\ b.locals[x] = c.type
      /\ \A i \in DOMAIN locals : b.locals[i] = a.locals[i]
  <2>1. DOMAIN locals = DOMAIN a.locals BY <1>4
  <2> QED BY <1>1, <1>4, <2>1, AppendFacts
<1> HIDE DEF x
<1>8. NewSlots(storages, bt, globals, mo, b)
  <2>1. ASSUME NEW i \in DOMAIN mo
        PROVE  /\ mo[i].type = b.locals[i]
               /\ IsOf(storages, mo[i].value, mo[i].type) \/ IsOf(bt, mo[i].value, mo[i].type)
    <3>1. CASE i = x BY <1>5, <1>6, <1>7, <3>1
    <3>2. CASE i # x
      <4>1. i \in DOMAIN locals BY <1>6, <3>2
      <4>2. mo[i] = locals[i] /\ b.locals[i] = a.locals[i] BY <1>6, <1>7, <4>1
      <4>3. locals[i].type = a.locals[i] /\ IsOf(storages, locals[i].value, locals[i].type)
        BY <1>3, <4>1, Zenon DEF Slots
      <4> QED BY <4>2, <4>3, Zenon
    <3> QED BY <3>1, <3>2
  <2> QED BY <1>1, <1>3, <1>6, <1>7, <2>1, Zenon DEF Slots, NewSlots
<1>9. Good(bt, Outer(globals, mo, Under(operands, n)), {})
  <2>1. mo[x].value = v /\ DOMAIN mo = DOMAIN locals \cup {x} /\ \A y \in DOMAIN locals \ {x} : mo[y] = locals[y]
    BY <1>5, <1>6
  <2>2. LocalChange(globals, locals, Under(operands, n), mo, x, v) BY <2>1, OuterLocal, Zenon
  <2> QED BY <1>6, <2>2, Zenon DEF LocalChange, x
<1> QED BY <1>1, <1>8, <1>9, ChangeFits DEF Fitting

LEMMA CreateLocalVarRuns ==
  ASSUME ~IsFiniteSet(StorageId), NEW a \in Shape, NEW b \in Shape, Fitting(a), VisitCreateLocalVar,
         Step(Head(code), a, b)
  PROVE  Ran(b)
<1> DEFINE new == Default(Memory, Arg.type)
<1>1. /\ Arg.op = "CreateLocalVar" /\ PushLocal(Arg.type, new.value) /\ Ends(new.memory)
      /\ UNCHANGED <<globals, operands>>
  BY DEF VisitCreateLocalVar, Executes, Arg
<1>2. NewLocal(Arg, a, b) /\ Pops(a, b, 0) BY <1>1 DEF Step, Arg, StepCreateLocalVar
<1>3. Arg.type \in Type BY <1>2 DEF NewLocal
<1>4. PICK bt, v : /\ new = [memory |-> Sound(bt), value |-> v]
                   /\ IsOf(bt, v, Arg.type) /\ Agree(storages, bt)
                   /\ Good(bt, With(Outer(globals, locals, Under(operands, 0)), "local", Len(locals) + 1, v), {})
  BY <1>3, MadeVar
<1>5. new.memory = Sound(bt) /\ new.value = v BY <1>4
<1> HIDE DEF new
<1>6. locals' = Append(locals, [type |-> Arg.type, value |-> v]) BY <1>1, <1>5 DEF PushLocal
<1>7. v \in Value
  <2>1. DOMAIN bt \subseteq StorageId BY <1>4 DEF Good, Typed
  <2> QED BY <1>4, <2>1, IsOfFacts, Zenon
<1>8. Fits(bt, globals, locals', Under(operands, 0), b) BY <1>2, <1>4, <1>6, <1>7, LocalFits
<1>9. Under(operands, 0) = operands
  <2>1. operands \in Seq(Operand) BY FitsFacts DEF Fitting, FitsBasics
  <2> QED BY <2>1 DEF Under
<1>10. storages' = bt /\ status' = "running" BY <1>1, <1>5, MachineFacts
<1>11. Fits(storages', globals', locals', operands', b) BY <1>1, <1>8, <1>9, <1>10
<1> QED BY <1>10, <1>11, Zenon DEF Ran

LEMMA CreateAndInitLocalVarRuns ==
  ASSUME NEW a \in Shape, NEW b \in Shape, Fitting(a), VisitCreateAndInitLocalVar,
         Step(Head(code), a, b)
  PROVE  Ran(b)
<1> DEFINE v == Top(1)
<1>1. /\ Arg.op = "CreateAndInitLocalVar" /\ PushLocal(Arg.type, v) /\ Ends(Sound(storages))
      /\ operands' = Under(operands, 1) /\ UNCHANGED globals
  BY MachineFacts DEF VisitCreateAndInitLocalVar, Executes, Arg
<1>2. NewLocal(Arg, a, b) /\ On(a, 1, Arg.type) /\ Pops(a, b, 1)
  BY <1>1 DEF Step, Arg, StepCreateAndInitLocalVar
<1>3. \A s : <<"local", Len(locals) + 1, s>> \notin Outer(globals, locals, operands)
  <2>1. locals \in Seq(Local) BY DEF Fitting, Fits, Slots
  <2>2. Len(locals) + 1 \notin DOMAIN locals BY <2>1
  <2> QED BY <2>2, OuterIs
<1>4. /\ IsOf(storages, v, Arg.type)
      /\ Good(storages, With(Outer(globals, locals, Under(operands, 1)), "local", Len(locals) + 1, v), {})
  <2>1. a.mode # "address" /\ "local" # "item" BY <1>2 DEF NewLocal, Modes
  <2> QED BY <1>2, <1>3, <2>1, TakenVar
<1> HIDE DEF v
<1>5. locals' = Append(locals, [type |-> Arg.type, value |-> v]) BY <1>1 DEF PushLocal
<1>6. Agree(storages, storages) BY DEF Agree
<1>7. v \in Value
  <2>1. DOMAIN storages \subseteq StorageId BY <1>4 DEF Good, Typed
  <2> QED BY <1>4, <2>1, IsOfFacts, Zenon
<1>8. Fits(storages, globals, locals', Under(operands, 1), b)
  BY <1>2, <1>4, <1>5, <1>6, <1>7, LocalFits
<1>9. storages' = storages /\ status' = "running" BY <1>1, MachineFacts
<1>10. Fits(storages', globals', locals', operands', b) BY <1>1, <1>8, <1>9
<1> QED BY <1>9, <1>10, Zenon DEF Ran

LEMMA DestroyLocalVarRuns ==
  ASSUME NEW a \in Shape, NEW b \in Shape, Fitting(a), VisitDestroyLocalVar,
         Step(Head(code), a, b)
  PROVE  Ran(b)
<1> DEFINE t == Arg.type
           n == Len(locals)
           k == n - 1
           v == locals[n].value
           mo == SubSeq(locals, 1, k)
           E == Outer(globals, locals, operands)
<1>1. /\ Arg.op = "DestroyLocalVar" /\ Ends(Destroy(Sound(storages), v, t)) /\ locals' = mo
      /\ UNCHANGED <<globals, operands>>
  BY MachineFacts DEF VisitDestroyLocalVar, Executes, Arg, LastLocal
<1>2. /\ Len(a.locals) > 0 /\ t = a.locals[Len(a.locals)] /\ b.locals = Under(a.locals, 1)
      /\ b.globals = a.globals /\ Pops(a, b, 0) /\ a.mode = "any" /\ b.mode = "any"
  BY <1>1 DEF Step, Arg, StepDestroyLocalVar, Modes
<1>3. FitsBasics(storages, globals, locals, operands, a) BY FitsFacts DEF Fitting
<1>4. /\ Slots(storages, globals, locals, a) /\ Good(storages, E, {}) /\ operands \in Seq(Operand)
      /\ DOMAIN storages \subseteq StorageId
  BY <1>3 DEF FitsBasics
<1>5. locals \in Seq(Local) /\ a.locals \in Seq(Type) /\ Len(a.locals) = n
  BY <1>4, ShapeIs DEF Slots, ShapeFacts
<1>6. n \in Nat /\ k \in Nat /\ k + 1 = n /\ n \in DOMAIN locals /\ n \in DOMAIN a.locals
  BY <1>2, <1>5
<1>7. t \in Type /\ IsOf(storages, v, t)
  <2>1. locals[n].type = t /\ IsOf(storages, v, locals[n].type)
    BY <1>2, <1>4, <1>5, <1>6, Zenon DEF Slots
  <2> QED BY <1>2, <1>5, <1>6, <2>1
<1>8. /\ mo \in Seq(Local) /\ Len(mo) = k /\ DOMAIN mo = 1..k
      /\ \A i \in 1..k : mo[i] = locals[i] /\ i \in DOMAIN locals
  BY <1>5, <1>6
<1>9. Len(b.locals) = k /\ \A i \in 1..k : b.locals[i] = a.locals[i]
  BY <1>2, <1>5, <1>6 DEF Under
<1>10. v.kind = "ref" => <<"local", n, v.id>> \in E BY <1>6, OuterIs
<1>11. NoGiven(E) /\ Larger(storages, {}, t) BY OuterPlain, Zenon DEF Larger
<1>12. LocalLess(globals, locals, operands, mo, n)
  <2> HIDE DEF n, k
  <2>1. LocalLess(globals, locals, operands, SubSeq(locals, 1, k), k + 1)
    BY <1>5, <1>6, OuterLess DEF n
  <2> QED BY <1>6, <2>1, Zenon
<1>13. Outer(globals, mo, operands) = Without(E, "local", n, v) BY <1>12, Zenon DEF LocalLess
<1> HIDE DEF t, n, k, v, mo, E
<1>14. PICK bt : /\ Destroy(Sound(storages), v, t) = Sound(bt)
                 /\ GivenUp(storages, bt, Without(E, "local", n, v), {}, t)
  BY <1>4, <1>7, <1>10, <1>11, DestroyFacts
<1>15. Under(operands, 0) = operands
  <2> QED BY <1>4 DEF Under
<1>16. Agree(storages, bt) /\ Good(bt, Outer(globals, mo, Under(operands, 0)), {})
  BY <1>13, <1>14, <1>15, Zenon DEF GivenUp
<1>17. NewSlots(storages, bt, globals, mo, b)
  <2>1. \A i \in DOMAIN mo : mo[i].type = b.locals[i] /\ IsOf(storages, mo[i].value, mo[i].type)
    BY <1>4, <1>8, <1>9 DEF Slots
  <2> QED BY <1>2, <1>4, <1>8, <1>9, <2>1, Zenon DEF Slots, NewSlots
<1>18. Fits(bt, globals, mo, Under(operands, 0), b)
  <2>1. a.mode # "address" BY <1>2
  <2> QED BY <1>2, <1>16, <1>17, <2>1, ChangeFits DEF Fitting
<1>19. storages' = bt /\ status' = "running" BY <1>1, <1>14, MachineFacts
<1>20. Fits(storages', globals', locals', operands', b) BY <1>1, <1>15, <1>18, <1>19
<1> QED BY <1>19, <1>20, Zenon DEF Ran

-----------------------------------------------------------------------------
(* What an address leads to is overwritten: the old value is given up, and *)
(* the place takes over the reference of an operand.                       *)

Overwritten(x, at, E) == \E bt : x = Sound(bt) /\ Agree(at, bt) /\ Good(bt, E, {})

LEMMA OverwriteVar ==
  ASSUME NEW at, NEW E, NEW t \in Type, NEW h, NEW i, NEW old, NEW p, NEW v, Good(at, E, {}), NoGiven(E),
         h \in {"global", "local"}, IsOf(at, old, t),
         \A s : <<h, i, s>> \in E <=> old.kind = "ref" /\ old.id = s,
         v.kind = "ref" => <<"operand", p, v.id>> \in E
  PROVE  Overwritten(GiveUp(Sound(at), old, t), at,
                     With(Without(Without(E, "operand", p, v), h, i, old), h, i, v))
<1> DEFINE D == Without(E, h, i, old)
<1>1. h # "item" /\ h # "operand" OBVIOUS
<1>2. Larger(at, {}, t) BY DEF Larger
<1>3. old.kind = "ref" => <<h, i, old.id>> \in E OBVIOUS
<1>4. PICK bt : GiveUp(Sound(at), old, t) = Sound(bt) /\ GivenUp(at, bt, D, {}, t)
  BY <1>2, <1>3, GiveUpFacts
<1>5. v.kind = "ref" => <<"operand", p, v.id>> \in D /\ <<h, i, v.id>> \notin D
  <2> SUFFICES ASSUME v.kind = "ref" PROVE <<"operand", p, v.id>> \in D /\ <<h, i, v.id>> \notin D
    BY Zenon
  <2>1. <<"operand", p, v.id>> # <<h, i, old.id>> BY <1>1
  <2>2. \A x : x \in D <=> x \in E /\ ~(old.kind = "ref" /\ x = <<h, i, old.id>>)
    BY Zenon DEF Without
  <2>3. <<h, i, v.id>> \in E => old.kind = "ref" /\ <<h, i, v.id>> = <<h, i, old.id>> OBVIOUS
  <2> QED BY <2>1, <2>2, <2>3, Zenon
<1>6. Without(Without(E, "operand", p, v), h, i, old) = Without(D, "operand", p, v)
  <2>1. EitherOrder(E, "operand", p, v, h, i, old) BY WithoutTwo, Zenon
  <2> QED BY <2>1, Zenon DEF EitherOrder
<1> HIDE DEF D
<1>7. Good(bt, D, {}) /\ Agree(at, bt) BY <1>4, Zenon DEF GivenUp
<1>8. Good(bt, With(Without(D, "operand", p, v), h, i, v), {}) BY <1>1, <1>5, <1>7, MoveValue, Zenon
<1> QED BY <1>4, <1>6, <1>7, <1>8, Zenon DEF Overwritten

LEMMA OverwriteItem ==
  ASSUME NEW at, NEW E, NEW t \in Type, NEW s \in DOMAIN at, NEW i \in DOMAIN at[s].items, NEW p, NEW v,
         Good(at, E, {}), Plain(E), IsArray(at[s].type), ElementOf(at[s].type) = t, IsOf(at, v, t),
         v.kind = "ref" => <<"operand", p, v.id>> \in E
  PROVE  \E bt : /\ GiveUp(Sound(at), at[s].items[i], t) = Sound(bt)
                 /\ Overwritten(SetItem(Sound(bt), s, i, v), at, Without(E, "operand", p, v))
<1> DEFINE old == at[s].items[i]
           q == <<s, i>>
           D == With(E, "item", q, old)
<1>1. Typed(at, {}) /\ ItemsOK(at, s, {}) /\ at[s] \in Storage /\ DOMAIN at \subseteq StorageId
  BY DEF Good, Typed
<1>2. IsOf(at, old, t)
  <2>1. <<s, i>> \notin {} OBVIOUS
  <2> QED BY <1>1, <2>1, Zenon DEF ItemsOK
<1>3. Good(at, D, {q}) BY MaskFacts
<1>4. at[s].type \in Type /\ at[s].type.dims > t.dims
  <2>1. at[s].type \in Type BY <1>1 DEF Storage
  <2>2. at[s].type.dims \in Int /\ t.dims = at[s].type.dims - 1 BY <2>1, TypeFacts DEF ArrayFacts
  <2> QED BY <2>1, <2>2
<1>5. NoItems(E) /\ NoGiven(E) BY PlainFacts, Zenon
<1>6. NoGiven(D)
  <2>1. <<"item", q, old.id>>[1] # "given" OBVIOUS
  <2> QED BY <1>5, <2>1, Zenon DEF NoGiven, With
<1>7. Larger(at, {q}, t)
  <2>1. q[1] = s OBVIOUS
  <2> QED BY <1>4, <2>1 DEF Larger
<1>8. old.kind = "ref" => <<"item", q, old.id>> \in D BY DEF With
<1>9. Without(D, "item", q, old) = E
  <2> DEFINE f == <<"item", q, old.id>>
  <2>1. f[1] = "item" OBVIOUS
  <2>2. D = IF old.kind = "ref" THEN E \cup {f} ELSE E BY Zenon DEF With
  <2>3. Without(D, "item", q, old) = IF old.kind = "ref" THEN D \ {f} ELSE D BY Zenon DEF Without
  <2> HIDE DEF f, D, old, q
  <2>4. f \notin E BY <1>5, <2>1, Zenon DEF NoItems
  <2> QED BY <2>2, <2>3, <2>4
<1> HIDE DEF D, old
<1>10. PICK bt : GiveUp(Sound(at), old, t) = Sound(bt) /\ GivenUp(at, bt, Without(D, "item", q, old), {q}, t)
  BY <1>2, <1>3, <1>6, <1>7, <1>8, GiveUpFacts
<1>11. /\ Good(bt, E, {q}) /\ Agree(at, bt) /\ Outlive(at, bt, t) /\ DOMAIN bt \subseteq DOMAIN at
  BY <1>9, <1>10, Zenon DEF GivenUp
<1>12. s \in DOMAIN bt /\ bt[s].items = at[s].items /\ bt[s].type = at[s].type
  BY <1>4, <1>11, Zenon DEF Outlive, Agree
<1>13. IsOf(bt, v, ElementOf(bt[s].type))
  <2> DEFINE e == <<"operand", p, v.id>>
  <2>1. e[3] = v.id OBVIOUS
  <2>2. v.kind = "ref" => e \in E OBVIOUS
  <2> HIDE DEF e
  <2>3. \A x \in E : x[3] \in DOMAIN bt BY <1>11, Zenon DEF Good, Counted
  <2>4. v.kind = "ref" => v.id \in DOMAIN bt BY <2>1, <2>2, <2>3, Zenon
  <2> QED BY <1>1, <1>11, <1>12, <2>4, AgreeIsOf, Zenon
<1>14. PICK ct : SetItem(Sound(bt), s, i, v) = Sound(ct) /\ Unmasked(bt, ct, E, v, <<"operand", p, v.id>>)
  <2>1. i \in DOMAIN bt[s].items BY <1>12
  <2>2. <<"operand", p, v.id>>[3] = v.id OBVIOUS
  <2> QED BY <1>5, <1>11, <1>12, <1>13, <2>1, <2>2, UnmaskFacts
<1>15. Good(ct, Without(E, "operand", p, v), {}) /\ Agree(bt, ct) /\ DOMAIN ct = DOMAIN bt
  BY <1>14, AgreeFacts, Zenon DEF Unmasked, Without
<1>16. Agree(at, ct) BY <1>11, <1>15, AgreeTrans
<1>17. Overwritten(SetItem(Sound(bt), s, i, v), at, Without(E, "operand", p, v))
  BY <1>14, <1>15, <1>16, Zenon DEF Overwritten
<1> QED BY <1>10, <1>17 DEF old

LEMMA AddressIs ==
  /\ \A x : GlobalAddress(x).kind = "global" /\ GlobalAddress(x).var = x
  /\ \A i : LocalAddress(i).kind = "local" /\ LocalAddress(i).index = i
  /\ \A s, i : /\ ItemAddress(s, i).kind = "item" /\ ItemAddress(s, i).id = s
               /\ ItemAddress(s, i).index = i
  /\ "global" # "local" /\ "global" # "item" /\ "local" # "item"
BY DEF GlobalAddress, LocalAddress, ItemAddress

LEMMA IndexIs == \A i \in {0, 1} \cup Size : i \in Nat
BY ValuesAssumption

(* A command writes through the address on top. *)
Writing(a, b, n, v, t, p) ==
  /\ Fitting(a) /\ On(a, 1, t) /\ Pops(a, b, n) /\ n # 0 /\ SameVars(a, b)
  /\ Modes(a, b, "address", "any") /\ t \in Type /\ IsOf(storages, v, t)
  /\ v.kind = "ref" => <<"operand", p, v.id>> \in Outer(globals, locals, operands)
  /\ Outer(globals, locals, Under(operands, n))
       = Without(Outer(globals, locals, operands), "operand", p, v)

Overwrites(b, m, gl, lo, n) ==
  /\ Ends(m) /\ globals' = gl /\ locals' = lo /\ operands' = Under(operands, n)

LEMMA OverwritesRuns ==
  ASSUME NEW a \in Shape, NEW b, NEW n, NEW v, NEW t, NEW p, Writing(a, b, n, v, t, p),
         NEW m, NEW hl, NEW mo, Overwrites(b, m, hl, mo, n),
         NewSlots(storages, storages, hl, mo, b),
         Overwritten(m, storages, Outer(hl, mo, Under(operands, n)))
  PROVE  Ran(b)
<1>1. PICK bt : m = Sound(bt) /\ Agree(storages, bt) /\ Good(bt, Outer(hl, mo, Under(operands, n)), {})
  BY Zenon DEF Overwritten
<1>2. NewSlots(storages, bt, hl, mo, b) BY Zenon DEF NewSlots
<1>3. Pops(a, b, n) /\ n # 0 /\ b.mode = "any" /\ Fitting(a) BY Zenon DEF Writing, Modes
<1>4. Fits(bt, hl, mo, Under(operands, n), b)
  BY <1>1, <1>2, <1>3, ChangeFits DEF Fitting
<1>5. storages' = bt /\ status' = "running" BY <1>1, MachineFacts, Zenon DEF Overwrites
<1>6. Fits(storages', globals', locals', operands', b) BY <1>4, <1>5, Zenon DEF Overwrites
<1> QED BY <1>5, <1>6, Zenon DEF Ran

LEMMA WriteGlobal ==
  ASSUME NEW a \in Shape, NEW b \in Shape, NEW n, NEW v, NEW t, NEW p, Writing(a, b, n, v, t, p),
         NEW x \in DOMAIN globals, Top(1) = GlobalAddress(x), TypeOf[x] = t, Writes(n, v, t)
  PROVE  Ran(b)
<1> DEFINE ad == Top(1)
           old == globals[x]
           hl == [globals EXCEPT ![x] = v]
           E == Outer(globals, locals, operands)
           F == Outer(globals, locals, Under(operands, n))
           m == GiveUp(Sound(storages), old, t)
<1>1. ad.kind = "global" /\ ad.kind # "local" /\ ad.kind # "item" /\ ad.var = x BY AddressIs
<1>2. Points(ad) BY <1>1 DEF Points
<1>3. At(ad) = old BY <1>1 DEF At
<1>4. Put(GiveUp(Memory, At(ad), t), ad, v) /\ operands' = Popped(n) BY <1>2, Zenon DEF Writes
<1>5. Overwrites(b, m, hl, locals, n)
  <2>1. GiveUp(Memory, At(ad), t) = m BY <1>3, MachineFacts, Zenon
  <2>2. Ends(m) /\ globals' = hl /\ locals' = locals BY <1>1, <1>4, <2>1, Zenon DEF Put
  <2> QED BY <1>4, <2>2, MachineFacts, Zenon DEF Overwrites
<1>6. /\ Fitting(a) /\ SameVars(a, b) /\ t \in Type /\ IsOf(storages, v, t)
      /\ v.kind = "ref" => <<"operand", p, v.id>> \in E
      /\ F = Without(E, "operand", p, v)
  BY Zenon DEF Writing
<1>7. FitsBasics(storages, globals, locals, operands, a) BY <1>6, FitsFacts DEF Fitting
<1>8. /\ Slots(storages, globals, locals, a) /\ Good(storages, E, {}) BY <1>7 DEF FitsBasics
<1>9. IsOf(storages, old, t) BY <1>8, Zenon DEF Slots
<1>10. \A s : <<"global", x, s>> \in E <=> old.kind = "ref" /\ old.id = s
  <2> SUFFICES ASSUME NEW s PROVE <<"global", x, s>> \in E <=> old.kind = "ref" /\ old.id = s
    BY Zenon
  <2> QED BY OuterIs
<1>11. NoGiven(E) BY OuterPlain, Zenon
<1>12. DOMAIN hl = DOMAIN globals \cup {x} /\ DOMAIN hl = DOMAIN globals /\ hl[x] = v
       /\ \A y \in DOMAIN globals \ {x} : hl[y] = globals[y]
  OBVIOUS
<1> HIDE DEF hl, m, ad, old
<1>13. Outer(hl, locals, Under(operands, n)) = With(Without(F, "global", x, old), "global", x, v)
  <2>1. GlobalChange(globals, locals, Under(operands, n), hl, x, v) BY <1>12, OuterGlobal, Zenon
  <2> QED BY <2>1, Zenon DEF GlobalChange, old
<1>14. Overwritten(m, storages, Outer(hl, locals, Under(operands, n)))
  <2> HIDE DEF E, F
  <2>1. "global" \in {"global", "local"} OBVIOUS
  <2>2. Overwritten(m, storages, With(Without(Without(E, "operand", p, v), "global", x, old), "global", x, v))
    BY <1>6, <1>8, <1>9, <1>10, <1>11, <2>1, OverwriteVar, Zenon DEF m
  <2> QED BY <1>6, <1>13, <2>2, Zenon
<1>15. NewSlots(storages, storages, hl, locals, b)
  <2>1. \A y \in DOMAIN hl : IsOf(storages, hl[y], TypeOf[y])
    BY <1>6, <1>8, <1>12, Zenon DEF Slots
  <2> QED BY <1>6, <1>8, <1>12, <2>1, Zenon DEF Slots, NewSlots, SameVars
<1> QED BY <1>5, <1>14, <1>15, OverwritesRuns, Zenon

LEMMA WriteLocal ==
  ASSUME NEW a \in Shape, NEW b \in Shape, NEW n, NEW v, NEW t, NEW p, Writing(a, b, n, v, t, p),
         NEW x \in DOMAIN locals, Top(1) = LocalAddress(x), locals[x].type = t, Writes(n, v, t)
  PROVE  Ran(b)
<1> DEFINE ad == Top(1)
           old == locals[x].value
           mo == [locals EXCEPT ![x].value = v]
           E == Outer(globals, locals, operands)
           F == Outer(globals, locals, Under(operands, n))
           m == GiveUp(Sound(storages), old, t)
<1>1. ad.kind = "local" /\ ad.kind # "global" /\ ad.kind # "item" /\ ad.index = x BY AddressIs
<1>2. Points(ad) BY <1>1 DEF Points
<1>3. At(ad) = old BY <1>1 DEF At
<1>4. Put(GiveUp(Memory, At(ad), t), ad, v) /\ operands' = Popped(n) BY <1>2, Zenon DEF Writes
<1>5. Overwrites(b, m, globals, mo, n)
  <2>1. GiveUp(Memory, At(ad), t) = m BY <1>3, MachineFacts, Zenon
  <2>2. Ends(m) /\ locals' = mo /\ globals' = globals BY <1>1, <1>4, <2>1, Zenon DEF Put
  <2> QED BY <1>4, <2>2, MachineFacts, Zenon DEF Overwrites
<1>6. /\ Fitting(a) /\ SameVars(a, b) /\ t \in Type /\ IsOf(storages, v, t)
      /\ v.kind = "ref" => <<"operand", p, v.id>> \in E
      /\ F = Without(E, "operand", p, v)
  BY Zenon DEF Writing
<1>7. FitsBasics(storages, globals, locals, operands, a) BY <1>6, FitsFacts DEF Fitting
<1>8. /\ Slots(storages, globals, locals, a) /\ Good(storages, E, {}) /\ DOMAIN storages \subseteq StorageId
  BY <1>7 DEF FitsBasics
<1>9. IsOf(storages, old, t) BY <1>8, Zenon DEF Slots
<1>10. \A s : <<"local", x, s>> \in E <=> old.kind = "ref" /\ old.id = s
  <2> SUFFICES ASSUME NEW s PROVE <<"local", x, s>> \in E <=> old.kind = "ref" /\ old.id = s
    BY Zenon
  <2> QED BY OuterIs
<1>11. NoGiven(E) BY OuterPlain, Zenon
<1>12. /\ DOMAIN mo = DOMAIN locals \cup {x} /\ DOMAIN mo = DOMAIN locals /\ mo[x].value = v
       /\ mo[x].type = locals[x].type /\ Len(mo) = Len(locals) /\ mo \in Seq(Local)
       /\ \A y \in DOMAIN locals \ {x} : mo[y] = locals[y]
  <2>1. locals \in Seq(Local) BY <1>8 DEF Slots
  <2>2. v \in Value BY <1>6, <1>8, IsOfFacts, Zenon
  <2>3. locals[x] \in Local BY <2>1
  <2> DEFINE l == [locals[x] EXCEPT !.value = v]
  <2>4. l \in Local /\ l.value = v /\ l.type = locals[x].type BY <2>2, <2>3 DEF Local
  <2>5. mo = [locals EXCEPT ![x] = l] BY Zenon
  <2>6. x \in DOMAIN locals OBVIOUS
  <2> HIDE DEF l, mo
  <2>7. DOMAIN mo = DOMAIN locals BY <2>5
  <2>8. mo[x] = l /\ \A y \in DOMAIN locals \ {x} : mo[y] = locals[y] BY <2>5, <2>6
  <2>9. mo \in Seq(Local) /\ Len(mo) = Len(locals) BY <2>1, <2>4, <2>5, <2>6
  <2> QED BY <2>4, <2>6, <2>7, <2>8, <2>9
<1> HIDE DEF mo, m, ad, old
<1>13. Outer(globals, mo, Under(operands, n)) = With(Without(F, "local", x, old), "local", x, v)
  <2>1. LocalChange(globals, locals, Under(operands, n), mo, x, v) BY <1>12, OuterLocal, Zenon
  <2> QED BY <2>1, Zenon DEF LocalChange, old
<1>14. Overwritten(m, storages, Outer(globals, mo, Under(operands, n)))
  <2> HIDE DEF E, F
  <2>1. "local" \in {"global", "local"} OBVIOUS
  <2>2. Overwritten(m, storages, With(Without(Without(E, "operand", p, v), "local", x, old), "local", x, v))
    BY <1>6, <1>8, <1>9, <1>10, <1>11, <2>1, OverwriteVar, Zenon DEF m
  <2> QED BY <1>6, <1>13, <2>2, Zenon
<1>15. NewSlots(storages, storages, globals, mo, b)
  <2>1. \A y \in DOMAIN mo : mo[y].type = b.locals[y] /\ IsOf(storages, mo[y].value, mo[y].type)
    BY <1>6, <1>8, <1>12, Zenon DEF Slots, SameVars
  <2> QED BY <1>6, <1>8, <1>12, <2>1, Zenon DEF Slots, NewSlots, SameVars
<1> QED BY <1>5, <1>14, <1>15, OverwritesRuns, Zenon

LEMMA WriteItem ==
  ASSUME NEW a \in Shape, NEW b \in Shape, NEW n, NEW v, NEW t, NEW p, Writing(a, b, n, v, t, p),
         NEW s \in DOMAIN storages, NEW i \in {0, 1} \cup Size, Top(1) = ItemAddress(s, i),
         IsArray(storages[s].type), ElementOf(storages[s].type) = t,
         i + 1 \in DOMAIN storages[s].items, Writes(n, v, t)
  PROVE  Ran(b)
<1> DEFINE ad == Top(1)
           old == storages[s].items[i + 1]
           E == Outer(globals, locals, operands)
           F == Outer(globals, locals, Under(operands, n))
           m == GiveUp(Sound(storages), old, t)
<1>1. ad.kind = "item" /\ ad.kind # "local" /\ ad.kind # "global" /\ ad.id = s /\ ad.index = i
  BY AddressIs
<1>6. /\ Fitting(a) /\ SameVars(a, b) /\ t \in Type /\ IsOf(storages, v, t)
      /\ v.kind = "ref" => <<"operand", p, v.id>> \in E
      /\ F = Without(E, "operand", p, v)
  BY Zenon DEF Writing
<1>7. FitsBasics(storages, globals, locals, operands, a) BY <1>6, FitsFacts DEF Fitting
<1>8. /\ Slots(storages, globals, locals, a) /\ Good(storages, E, {}) BY <1>7 DEF FitsBasics
<1>2. Points(ad)
  <2>1. storages[s].items \in Seq(Value)
    <3>1. storages[s] \in Storage BY <1>8 DEF Good, Typed
    <3> QED BY <3>1 DEF Storage
  <2>2. i \in Nat BY IndexIs, Zenon
  <2>3. i < Len(storages[s].items) BY <2>1, <2>2
  <2> QED BY <1>1, <2>3, Zenon DEF Points
<1>3. At(ad) = old BY <1>1 DEF At
<1>4. Put(GiveUp(Memory, At(ad), t), ad, v) /\ operands' = Popped(n) BY <1>2, Zenon DEF Writes
<1>9. Plain(E) BY OuterPlain, Zenon
<1> HIDE DEF E, F
<1>10. PICK bt : /\ m = Sound(bt)
                 /\ Overwritten(SetItem(Sound(bt), s, i + 1, v), storages, Without(E, "operand", p, v))
  BY <1>6, <1>8, <1>9, OverwriteItem
<1>5. Overwrites(b, SetItem(Sound(bt), s, i + 1, v), globals, locals, n)
  <2>1. GiveUp(Memory, At(ad), t) = Sound(bt) BY <1>3, <1>10, MachineFacts, Zenon
  <2>2. Ends(SetItem(Sound(bt), s, i + 1, v)) /\ locals' = locals /\ globals' = globals
    BY <1>1, <1>4, <2>1, Zenon DEF Put
  <2> QED BY <1>4, <2>2, MachineFacts, Zenon DEF Overwrites
<1>11. Overwritten(SetItem(Sound(bt), s, i + 1, v), storages, Outer(globals, locals, Under(operands, n)))
  BY <1>6, <1>10, Zenon DEF F
<1>12. NewSlots(storages, storages, globals, locals, b)
  <2>1. Slots(storages, globals, locals, b) BY <1>6, <1>8, SlotsSame, Zenon
  <2> QED BY <2>1, SlotsKept, Zenon
<1> QED BY <1>5, <1>11, <1>12, OverwritesRuns, Zenon

LEMMA WriteRuns ==
  ASSUME NEW a \in Shape, NEW b \in Shape, NEW n, NEW v, NEW t, NEW p, Writing(a, b, n, v, t, p),
         Writes(n, v, t)
  PROVE  Ran(b)
<1>1. Fitting(a) /\ On(a, 1, t) /\ a.mode = "address" BY Zenon DEF Writing, Modes
<1>2. Top(1) = operands[Len(operands)] /\ operands \in Seq(Operand) /\ Len(operands) > 0
  BY <1>1, TopIs, Zenon
<1>3. Leads(storages, globals, locals, Top(1), t)
  <2>1. Stack(storages, globals, locals, operands, a) BY <1>1, Zenon DEF Fitting, Fits
  <2>2. Leads(storages, globals, locals, operands[Len(operands)], a.operands[Len(operands)])
    BY <1>1, <2>1, Zenon DEF Stack
  <2>3. Len(operands) = Len(a.operands) BY <2>1, Zenon DEF Stack
  <2>4. Len(operands) - 1 + 1 = Len(operands) BY <1>2
  <2>5. a.operands[Len(operands)] = t BY <1>1, <2>3, <2>4 DEF On
  <2> QED BY <1>2, <2>2, <2>5
<1>4. CASE \E x \in DOMAIN globals : Top(1) = GlobalAddress(x) /\ TypeOf[x] = t
  BY <1>4, WriteGlobal, Zenon
<1>5. CASE \E i \in DOMAIN locals : Top(1) = LocalAddress(i) /\ locals[i].type = t
  BY <1>5, WriteLocal, Zenon
<1>6. CASE \E s \in DOMAIN storages, i \in {0, 1} \cup Size :
             /\ Top(1) = ItemAddress(s, i) /\ IsArray(storages[s].type)
             /\ ElementOf(storages[s].type) = t /\ i + 1 \in DOMAIN storages[s].items
  <2>1. PICK s \in DOMAIN storages, i \in {0, 1} \cup Size :
             /\ Top(1) = ItemAddress(s, i) /\ IsArray(storages[s].type)
             /\ ElementOf(storages[s].type) = t /\ i + 1 \in DOMAIN storages[s].items
    BY <1>6, Zenon
  <2> QED BY <2>1, WriteItem
<1> QED BY <1>3, <1>4, <1>5, <1>6, Zenon DEF Leads

(* An address holds no reference. *)
LEMMA AddressUnder ==
  ASSUME NEW a \in Shape, NEW t, Fitting(a), On(a, 1, t), a.mode = "address"
  PROVE  /\ Outer(globals, locals, Under(operands, 1)) = Outer(globals, locals, operands)
         /\ operands \in Seq(Operand) /\ Len(operands) > 0 /\ t \in Type
<1> DEFINE E == Outer(globals, locals, operands)
           n == Len(operands)
<1>1. operands \in Seq(Operand) /\ n > 0 BY TopIs
<1>2. UnderOne(globals, locals, operands) BY <1>1, OuterUnder, Zenon
<1>3. operands[n].kind # "ref"
  <2>1. Leads(storages, globals, locals, operands[n], a.operands[n])
    BY DEF Fitting, Fits, Stack
  <2>2. "global" # "ref" /\ "local" # "ref" /\ "item" # "ref" OBVIOUS
  <2> DEFINE ad == operands[n]
  <2>3. /\ \A x : ad = GlobalAddress(x) => ad.kind # "ref"
        /\ \A i : ad = LocalAddress(i) => ad.kind # "ref"
        /\ \A s, i : ad = ItemAddress(s, i) => ad.kind # "ref"
    BY <2>2, AddressIs
  <2> HIDE DEF ad
  <2>4. Leads(storages, globals, locals, ad, a.operands[n]) => ad.kind # "ref" BY <2>3 DEF Leads
  <2> QED BY <2>1, <2>4 DEF ad
<1>4. Without(E, "operand", n, operands[n]) = E BY <1>3, Zenon DEF Without
<1>5. t \in Type
  <2>1. a.operands \in Seq(Type) BY ShapeIs DEF ShapeFacts
  <2> QED BY <2>1 DEF On
<1> HIDE DEF E
<1>6. Outer(globals, locals, Under(operands, 1)) = E BY <1>2, <1>4, Zenon DEF UnderOne, E
<1> QED BY <1>1, <1>5, <1>6 DEF E

LEMMA StoreRuns ==
  ASSUME NEW a \in Shape, NEW b \in Shape, Fitting(a), VisitStore, Step(Head(code), a, b)
  PROVE  Ran(b)
<1> DEFINE t == Arg.type
           n == Len(operands)
           p == n - 1
           v == Top(2)
           E == Outer(globals, locals, operands)
<1>1. Arg.op = "Store" /\ Writes(2, v, t) BY DEF VisitStore, Executes, Arg
<1>2. On(a, 1, t) /\ On(a, 2, t) /\ Pops(a, b, 2) /\ SameVars(a, b) /\ Modes(a, b, "address", "any")
  BY <1>1 DEF Step, Arg, StepStore
<1>3. /\ Outer(globals, locals, Under(operands, 1)) = E
      /\ operands \in Seq(Operand) /\ n > 0 /\ t \in Type
  BY <1>2, AddressUnder DEF Modes
<1>4. Has(storages, E, operands, 2, t)
  <2>1. 2 # 1 OBVIOUS
  <2> QED BY <1>2, <2>1, OnFacts, Zenon DEF Fitting
<1>5. n - 2 + 1 = p /\ n > 1 BY <1>3, <1>4 DEF Has
<1>6. v = operands[p] BY <1>5, MachineFacts, Zenon
<1>7. IsOf(storages, v, t) /\ (v.kind = "ref" => <<"operand", p, v.id>> \in E)
  BY <1>4, <1>5, <1>6, Zenon DEF Has
<1>8. Outer(globals, locals, Under(operands, 2)) = Without(E, "operand", p, v)
  <2>1. UnderTwo(globals, locals, operands) BY <1>3, <1>5, OuterUnder, Zenon
  <2> QED BY <1>3, <1>6, <2>1, Zenon DEF UnderTwo
<1>9. Writing(a, b, 2, v, t, p)
  <2>1. 2 # 0 OBVIOUS
  <2> HIDE DEF v, t, p
  <2> QED BY <1>2, <1>3, <1>7, <1>8, <2>1, Zenon DEF Writing
<1> QED BY <1>1, <1>9, WriteRuns, Zenon

LEMMA PreIncRuns ==
  ASSUME NEW a \in Shape, NEW b \in Shape, Fitting(a), VisitPreInc, Step(Head(code), a, b)
  PROVE  Ran(b)
<1> DEFINE E == Outer(globals, locals, operands)
<1>1. Arg.op = "PreInc" /\ Writes(1, AnInt, Int0) BY DEF VisitPreInc, Executes, Arg
<1>2. On(a, 1, Int0) /\ Pops(a, b, 1) /\ SameVars(a, b) /\ Modes(a, b, "address", "any")
  BY <1>1 DEF Step, Arg, StepPreInc
<1>3. Outer(globals, locals, Under(operands, 1)) = E BY <1>2, AddressUnder DEF Modes
<1>4. IsOf(storages, AnInt, Int0) BY TypeFacts DEF IsOf, AnInt
<1>5. AnInt.kind # "ref" BY ValueFacts DEF AnInt
<1>6. Without(E, "operand", 0, AnInt) = E BY <1>5, Zenon DEF Without
<1>7. Writing(a, b, 1, AnInt, Int0, 0)
  <2>1. 1 # 0 /\ Int0 \in Type BY TypeFacts
  <2> QED BY <1>2, <1>3, <1>4, <1>5, <1>6, <2>1, Zenon DEF Writing
<1> QED BY <1>1, <1>7, WriteRuns, Zenon

(* One command. *)
LEMMA CommandRuns ==
  ASSUME ~IsFiniteSet(StorageId), NEW a \in Shape, NEW b \in Shape, Fitting(a), ExecutesCmd,
         Step(Head(code), a, b)
  PROVE  Ran(b)
<1>1. CASE VisitLoadIntValue BY <1>1, LoadIntValueRuns, Zenon
<1>2. CASE VisitLoadStringValue BY <1>2, LoadStringValueRuns, Zenon
<1>3. CASE VisitCreateGlobalVar BY <1>3, CreateGlobalVarRuns, Zenon
<1>4. CASE VisitCreateAndInitGlobalVar BY <1>4, CreateAndInitGlobalVarRuns, Zenon
<1>5. CASE VisitCreateLocalVar BY <1>5, CreateLocalVarRuns, Zenon
<1>6. CASE VisitCreateAndInitLocalVar BY <1>6, CreateAndInitLocalVarRuns, Zenon
<1>7. CASE VisitDestroyLocalVar BY <1>7, DestroyLocalVarRuns, Zenon
<1>8. CASE VisitUnload BY <1>8, UnloadRuns, Zenon
<1>9. CASE VisitCallNative BY <1>9, CallNativeRuns, Zenon
<1>10. CASE VisitLoadGlobalVarValue BY <1>10, LoadGlobalVarValueRuns, Zenon
<1>11. CASE VisitLoadLocalVarValue BY <1>11, LoadLocalVarValueRuns, Zenon
<1>12. CASE VisitLoadGlobalVarAddress BY <1>12, LoadGlobalVarAddressRuns, Zenon
<1>13. CASE VisitLoadLocalVarAddress BY <1>13, LoadLocalVarAddressRuns, Zenon
<1>14. CASE VisitCreateArray BY <1>14, CreateArrayRuns, Zenon
<1>15. CASE VisitCreateAndInitArray BY <1>15, CreateAndInitArrayRuns, Zenon
<1>16. CASE VisitLoadArrayElementValue BY <1>16, LoadElementValueRuns, Zenon
<1>17. CASE VisitLoadArrayElementAddress BY <1>17, LoadElementAddressRuns, Zenon
<1>18. CASE VisitStore BY <1>18, StoreRuns, Zenon
<1>19. CASE VisitPreInc BY <1>19, PreIncRuns, Zenon
<1>20. CASE VisitEqual BY <1>20, EqualRuns, Zenon
<1>21. CASE VisitSumString BY <1>21, SumStringRuns, Zenon
<1> QED BY <1>1, <1>2, <1>3, <1>4, <1>5, <1>6, <1>7, <1>8, <1>9, <1>10, <1>11, <1>12, <1>13,
           <1>14, <1>15, <1>16, <1>17, <1>18, <1>19, <1>20, <1>21, Zenon DEF ExecutesCmd

LEMMA CommandIs ==
  ASSUME ExecutesCmd
  PROVE  status = "running" /\ code # <<>> /\ code' = Tail(code)
<1>1. \A op : Executes(op) => status = "running" /\ code # <<>> /\ code' = Tail(code)
  BY Zenon DEF Executes
<1> QED BY <1>1, Zenon DEF ExecutesCmd, VisitLoadIntValue, VisitLoadStringValue,
           VisitCreateGlobalVar, VisitCreateAndInitGlobalVar, VisitCreateLocalVar,
           VisitCreateAndInitLocalVar, VisitDestroyLocalVar, VisitUnload, VisitCallNative,
           VisitLoadGlobalVarValue, VisitLoadLocalVarValue, VisitLoadGlobalVarAddress,
           VisitLoadLocalVarAddress, VisitCreateArray, VisitCreateAndInitArray,
           VisitLoadArrayElementValue, VisitLoadArrayElementAddress, VisitStore, VisitPreInc,
           VisitEqual, VisitSumString

-----------------------------------------------------------------------------
(* What a sequence of commands makes of a shape, command by command. *)

IsCode(c) == \E S : c \in Seq(S)
Trace(c, tr, a, b) ==
  /\ tr \in [0..Len(c) -> Shape] /\ tr[0] = a /\ tr[Len(c)] = b
  /\ \A i \in 1..Len(c) : Step(c[i], tr[i - 1], tr[i])
Yields(c, a, b) == IsCode(c) /\ \E tr : Trace(c, tr, a, b)

LEMMA YieldsShapes ==
  ASSUME NEW c, NEW a, NEW b, Yields(c, a, b)
  PROVE  a \in Shape /\ b \in Shape /\ (c = <<>> => a = b)
<1>1. PICK S : c \in Seq(S) BY DEF Yields, IsCode
<1>2. PICK tr : Trace(c, tr, a, b) BY Zenon DEF Yields
<1>3. 0 \in 0..Len(c) /\ Len(c) \in 0..Len(c) /\ (c = <<>> => Len(c) = 0) BY <1>1
<1> QED BY <1>2, <1>3 DEF Trace

LEMMA YieldsNone ==
  ASSUME NEW a \in Shape
  PROVE  Yields(<<>>, a, a)
<1> DEFINE tr == [i \in 0..0 |-> a]
<1>1. <<>> \in Seq({}) /\ Len(<<>>) = 0 OBVIOUS
<1>2. Trace(<<>>, tr, a, a) BY <1>1 DEF Trace
<1>3. IsCode(<<>>) BY <1>1, Zenon DEF IsCode
<1> QED BY <1>2, <1>3, Zenon DEF Yields

LEMMA YieldsStep ==
  ASSUME NEW c, NEW x, NEW a, NEW b, NEW d \in Shape, Yields(c, a, b), Step(x, b, d)
  PROVE  Yields(Append(c, x), a, d)
<1>1. PICK S : c \in Seq(S) BY DEF Yields, IsCode
<1>2. PICK tr : Trace(c, tr, a, b) BY Zenon DEF Yields
<1> DEFINE T == S \cup {x}
           n == Len(c)
           e == Append(c, x)
           us == [i \in 0..n + 1 |-> IF i = n + 1 THEN d ELSE tr[i]]
<1>3. c \in Seq(T) /\ x \in T BY <1>1
<1> HIDE DEF T
<1>4. /\ n \in Nat /\ e \in Seq(T) /\ Len(e) = n + 1 /\ e[n + 1] = x
      /\ \A i \in 1..n : e[i] = c[i]
  BY <1>3
<1>5. /\ tr \in [0..n -> Shape] /\ tr[0] = a /\ tr[n] = b
      /\ \A i \in 1..n : Step(c[i], tr[i - 1], tr[i])
  BY <1>2 DEF Trace
<1> HIDE DEF n, e
<1>6. us \in [0..n + 1 -> Shape] /\ us[n + 1] = d /\ \A i \in 0..n : us[i] = tr[i]
  BY <1>4, <1>5
<1> HIDE DEF us
<1>7. ASSUME NEW i \in 1..n + 1 PROVE Step(e[i], us[i - 1], us[i])
  <2>1. CASE i = n + 1
    <3>1. i - 1 = n /\ n \in 0..n BY <1>4, <2>1
    <3> QED BY <1>4, <1>5, <1>6, <2>1, <3>1
  <2>2. CASE i # n + 1
    <3>1. i \in 1..n /\ i \in 0..n /\ i - 1 \in 0..n BY <1>4, <2>2
    <3> QED BY <1>4, <1>5, <1>6, <3>1
  <2> QED BY <2>1, <2>2
<1>8. us[0] = a
  <2>1. 0 \in 0..n BY <1>4
  <2> QED BY <1>5, <1>6, <2>1
<1>9. Trace(e, us, a, d) BY <1>4, <1>6, <1>7, <1>8 DEF Trace
<1>10. IsCode(e) BY <1>4, Zenon DEF IsCode
<1> QED BY <1>9, <1>10, Zenon DEF Yields, e

LEMMA YieldsOne ==
  ASSUME NEW x, NEW a \in Shape, NEW b \in Shape, Step(x, a, b)
  PROVE  Yields(<<x>>, a, b)
<1>1. Yields(<<>>, a, a) BY YieldsNone
<1>2. Yields(Append(<<>>, x), a, b) BY <1>1, YieldsStep, Zenon
<1>3. Append(<<>>, x) = <<x>> OBVIOUS
<1> QED BY <1>2, <1>3, Zenon

LEMMA YieldsThree ==
  ASSUME NEW x, NEW y, NEW z, NEW a \in Shape, NEW b \in Shape, NEW d \in Shape, NEW e \in Shape,
         Step(x, a, b), Step(y, b, d), Step(z, d, e)
  PROVE  Yields(<<x, y, z>>, a, e)
<1> DEFINE c == <<x, y, z>>
           tr == [i \in 0..3 |-> IF i = 0 THEN a ELSE IF i = 1 THEN b ELSE IF i = 2 THEN d ELSE e]
<1>1. c \in Seq({x, y, z}) /\ Len(c) = 3 /\ c[1] = x /\ c[2] = y /\ c[3] = z OBVIOUS
<1>2. tr \in [0..3 -> Shape] /\ tr[0] = a /\ tr[1] = b /\ tr[2] = d /\ tr[3] = e OBVIOUS
<1> HIDE DEF c, tr
<1>3. \A i \in 1..3 : Step(c[i], tr[i - 1], tr[i])
  <2> SUFFICES ASSUME NEW i \in 1..3 PROVE Step(c[i], tr[i - 1], tr[i]) BY Zenon
  <2>1. (i = 1 /\ i - 1 = 0) \/ (i = 2 /\ i - 1 = 1) \/ (i = 3 /\ i - 1 = 2) OBVIOUS
  <2> QED BY <1>1, <1>2, <2>1, Zenon
<1>4. Trace(c, tr, a, e) BY <1>1, <1>2, <1>3 DEF Trace
<1>5. IsCode(c) BY <1>1, Zenon DEF IsCode
<1> QED BY <1>4, <1>5, Zenon DEF Yields, c

(* One sequence after the other. *)
LEMMA YieldsThen ==
  ASSUME NEW c, NEW e, NEW a, NEW b, NEW d, Yields(c, a, b), Yields(e, b, d)
  PROVE  Yields(c \o e, a, d)
<1>1. PICK S : c \in Seq(S) BY DEF Yields, IsCode
<1>2. PICK tr : Trace(c, tr, a, b) BY Zenon DEF Yields
<1>3. PICK T : e \in Seq(T) BY DEF Yields, IsCode
<1>4. PICK us : Trace(e, us, b, d) BY Zenon DEF Yields
<1> DEFINE R == S \cup T
           n == Len(c)
           m == Len(e)
           f == c \o e
           vs == [i \in 0..n + m |-> IF i <= n THEN tr[i] ELSE us[i - n]]
<1>5. c \in Seq(R) /\ e \in Seq(R) BY <1>1, <1>3
<1> HIDE DEF R
<1>6. /\ n \in Nat /\ m \in Nat /\ f \in Seq(R) /\ Len(f) = n + m
      /\ \A i \in 1..n : f[i] = c[i]
      /\ \A i \in n + 1..n + m : f[i] = e[i - n]
  BY <1>5
<1>7. /\ tr \in [0..n -> Shape] /\ tr[0] = a /\ tr[n] = b
      /\ \A i \in 1..n : Step(c[i], tr[i - 1], tr[i])
  BY <1>2 DEF Trace
<1>8. /\ us \in [0..m -> Shape] /\ us[0] = b /\ us[m] = d
      /\ \A i \in 1..m : Step(e[i], us[i - 1], us[i])
  BY <1>4 DEF Trace
<1> HIDE DEF n, m, f
<1>9. /\ vs \in [0..n + m -> Shape] /\ \A i \in 0..n : vs[i] = tr[i]
      /\ \A i \in n..n + m : vs[i] = us[i - n]
  <2>1. ASSUME NEW i \in 0..n + m, i > n PROVE i - n \in 0..m BY <1>6, <2>1
  <2>2. ASSUME NEW i \in 0..n + m, ~(i > n) PROVE i \in 0..n BY <1>6, <2>2
  <2>3. vs \in [0..n + m -> Shape] BY <1>6, <1>7, <1>8, <2>1, <2>2
  <2>4. \A i \in 0..n : vs[i] = tr[i] BY <1>6
  <2>5. \A i \in n..n + m : vs[i] = us[i - n]
    <3> SUFFICES ASSUME NEW i \in n..n + m PROVE vs[i] = us[i - n] BY Zenon
    <3>1. CASE i = n
      <4>1. i - n = 0 /\ n \in 0..n BY <1>6, <3>1
      <4> QED BY <1>7, <1>8, <2>4, <3>1, <4>1
    <3>2. CASE i # n BY <1>6, <3>2
    <3> QED BY <3>1, <3>2
  <2> QED BY <2>3, <2>4, <2>5
<1> HIDE DEF vs
<1>10. ASSUME NEW i \in 1..n + m PROVE Step(f[i], vs[i - 1], vs[i])
  <2>1. CASE i <= n
    <3>1. i \in 1..n /\ i \in 0..n /\ i - 1 \in 0..n BY <1>6, <2>1
    <3> QED BY <1>6, <1>7, <1>9, <3>1
  <2>2. CASE ~(i <= n)
    <3>1. /\ i \in n + 1..n + m /\ i \in n..n + m /\ i - 1 \in n..n + m /\ i - n \in 1..m
          /\ i - 1 - n = i - n - 1
      BY <1>6, <2>2
    <3>2. Step(e[i - n], us[i - n - 1], us[i - n]) BY <1>8, <3>1
    <3> QED BY <1>6, <1>9, <3>1, <3>2
  <2> QED BY <2>1, <2>2
<1>11. vs[0] = a /\ vs[n + m] = d
  <2>1. 0 \in 0..n /\ n + m \in n..n + m /\ n + m - n = m BY <1>6
  <2>2. vs[0] = tr[0] BY <1>9, <2>1
  <2>3. vs[n + m] = us[m]
    <3> DEFINE j == n + m
    <3>1. j \in n..n + m /\ j - n = m BY <1>6
    <3> HIDE DEF j
    <3>2. vs[j] = us[j - n] BY <1>9, <3>1
    <3>3. vs[j] = us[m] BY <3>1, <3>2, Zenon
    <3> QED BY <3>3 DEF j
  <2> QED BY <1>7, <1>8, <2>2, <2>3, Zenon
<1>12. Trace(f, vs, a, d) BY <1>6, <1>9, <1>10, <1>11 DEF Trace
<1>13. IsCode(f) BY <1>6, Zenon DEF IsCode
<1> QED BY <1>12, <1>13, Zenon DEF Yields, f

(* The first command, and the others. *)
LEMMA YieldsHead ==
  ASSUME NEW c, NEW a, NEW b, Yields(c, a, b), c # <<>>
  PROVE  \E d \in Shape : Step(Head(c), a, d) /\ Yields(Tail(c), d, b)
<1>1. PICK S : c \in Seq(S) BY DEF Yields, IsCode
<1>2. PICK tr : Trace(c, tr, a, b) BY Zenon DEF Yields
<1> DEFINE n == Len(c)
           m == n - 1
           e == Tail(c)
           us == [i \in 0..m |-> tr[i + 1]]
<1>3. /\ n \in Nat /\ n > 0 /\ e \in Seq(S) /\ Len(e) = m /\ Head(c) = c[1]
      /\ \A i \in 1..m : e[i] = c[i + 1]
  BY <1>1
<1>4. /\ tr \in [0..n -> Shape] /\ tr[0] = a /\ tr[n] = b
      /\ \A i \in 1..n : Step(c[i], tr[i - 1], tr[i])
  BY <1>2 DEF Trace
<1>10. m \in Nat /\ m + 1 = n BY <1>3
<1> HIDE DEF n, m, e
<1>5. us \in [0..m -> Shape] /\ \A i \in 0..m : us[i] = tr[i + 1]
  <2>1. \A i \in 0..m : i + 1 \in 0..n BY <1>10
  <2> QED BY <1>4, <2>1
<1> HIDE DEF us
<1>6. us[0] = tr[1] /\ us[m] = b /\ tr[1] \in Shape
  <2>1. 0 \in 0..m /\ m \in 0..m /\ 0 + 1 = 1 /\ 1 \in 0..n BY <1>10
  <2> QED BY <1>4, <1>5, <1>10, <2>1
<1>7. ASSUME NEW i \in 1..m PROVE Step(e[i], us[i - 1], us[i])
  <2>1. i \in 0..m /\ i - 1 \in 0..m /\ i + 1 \in 1..n /\ i + 1 - 1 = i /\ i - 1 + 1 = i BY <1>10
  <2>2. Step(c[i + 1], tr[i], tr[i + 1])
    <3> DEFINE j == i + 1
    <3>1. j \in 1..n /\ j - 1 = i BY <2>1
    <3> HIDE DEF j
    <3>2. Step(c[j], tr[j - 1], tr[j]) BY <1>4, <3>1, Zenon
    <3>3. Step(c[j], tr[i], tr[j]) BY <3>1, <3>2, Zenon
    <3> QED BY <3>3 DEF j
  <2>3. us[i] = tr[i + 1] /\ us[i - 1] = tr[i] BY <1>5, <2>1
  <2> QED BY <1>3, <2>2, <2>3
<1>8. Trace(e, us, tr[1], b) BY <1>3, <1>5, <1>6, <1>7 DEF Trace
<1>9. Step(Head(c), a, tr[1])
  <2>1. 1 \in 1..n /\ 1 - 1 = 0 BY <1>3
  <2> QED BY <1>3, <1>4, <2>1
<1>11. Yields(e, tr[1], b)
  <2>1. IsCode(e) BY <1>3, Zenon DEF IsCode
  <2> QED BY <1>8, <2>1, Zenon DEF Yields
<1> QED BY <1>6, <1>9, <1>11 DEF e

-----------------------------------------------------------------------------
(* What expressions leave: one operand more. *)

Push1(a, t, m) == [operands |-> Append(a.operands, t), locals |-> a.locals,
                   globals |-> a.globals, mode |-> m]

(* The variables are those that there are when a statement is compiled. *)
Here(a) ==
  /\ a \in Shape /\ a.mode = "any" /\ a.globals = DOMAIN globals
  /\ Len(a.locals) = Len(locals) /\ Len(locals) <= MaxLocals
  /\ DOMAIN locals = 1..Len(locals)
  /\ \A i \in DOMAIN locals : a.locals[i] = locals[i].type

ExprOK(e, t) == \A a : Here(a) => Yields(e, a, Push1(a, t, "any"))
AssignableOK(v, t) ==
  \A a : Here(a) => /\ Yields(v.value, a, Push1(a, t, "kept"))
                    /\ Yields(v.address, a, Push1(a, t, "address"))

PushIs(a, t, b, m) ==
  /\ b \in Shape /\ b.operands = Append(a.operands, t) /\ SameVars(a, b) /\ b.mode = m
  /\ On(b, 1, t) /\ Pushes(a, b, 0, t) /\ 1 \in 0..Len(b.operands)
  /\ Under(b.operands, 1) = a.operands /\ Under(a.operands, 0) = a.operands
  /\ Here(a) /\ m = "any" => Here(b)

LEMMA Push1Is ==
  ASSUME NEW a \in Shape, NEW t \in Type, NEW m \in {"any", "kept", "address"}
  PROVE  PushIs(a, t, Push1(a, t, m), m)
<1> DEFINE op == a.operands
           os == Append(op, t)
           b == Push1(a, t, m)
<1>1. op \in Seq(Type) /\ a.locals \in Seq(Type) /\ a.globals \in SUBSET Global
  BY ShapeIs DEF ShapeFacts
<1>2. /\ os \in Seq(Type) /\ Len(os) = Len(op) + 1 /\ os[Len(op) + 1] = t /\ Len(op) \in Nat
      /\ SubSeq(os, 1, Len(op)) = op /\ SubSeq(op, 1, Len(op)) = op
  BY <1>1
<1>3. b \in Shape /\ b.operands = os /\ SameVars(a, b) /\ b.mode = m
  <2> HIDE DEF os
  <2> QED BY <1>1, <1>2 DEF Push1, Shape, SameVars, os
<1> HIDE DEF os, b
<1>4. Len(os) - 1 + 1 = Len(os) /\ Len(os) - 1 = Len(op) /\ Len(op) - 0 = Len(op) BY <1>2
<1>5. Under(os, 1) = op /\ Under(op, 0) = op BY <1>2, <1>4 DEF Under
<1>6. 1 \in 1..Len(os) /\ 1 \in 0..Len(os) /\ 0 \in 0..Len(op) BY <1>2
<1>7. On(b, 1, t) BY <1>2, <1>3, <1>4, <1>6 DEF On
<1>8. Pushes(a, b, 0, t) BY <1>3, <1>5, <1>6 DEF Pushes, os
<1>9. Here(a) /\ m = "any" => Here(b) BY <1>3, Zenon DEF Here, SameVars
<1> QED BY <1>3, <1>5, <1>6, <1>7, <1>8, <1>9, Zenon DEF PushIs, b, os

TwoOn(a, u, t, b) ==
  /\ On(b, 1, t) /\ On(b, 2, u) /\ 2 \in 0..Len(b.operands) /\ Under(b.operands, 2) = a.operands

LEMMA PushTwo ==
  ASSUME NEW a \in Shape, NEW t \in Type, NEW u \in Type, NEW m \in {"any", "kept", "address"}
  PROVE  TwoOn(a, u, t, Push1(Push1(a, u, "any"), t, m))
<1> DEFINE op == a.operands
           os == Append(op, u)
           ot == Append(os, t)
           d == Push1(a, u, "any")
           b == Push1(d, t, m)
<1>1. op \in Seq(Type) BY ShapeIs DEF ShapeFacts
<1>2. PushIs(a, u, d, "any") BY Push1Is
<1>3. d \in Shape /\ d.operands = os BY <1>2 DEF PushIs
<1> HIDE DEF d
<1>4. PushIs(d, t, b, m) BY <1>3, Push1Is
<1>5. b.operands = ot BY <1>3, <1>4 DEF PushIs
<1> HIDE DEF b
<1>6. /\ Len(ot) = Len(op) + 2 /\ ot[Len(op) + 2] = t /\ ot[Len(op) + 1] = u /\ Len(op) \in Nat
      /\ SubSeq(ot, 1, Len(op)) = op
  BY <1>1
<1> HIDE DEF ot
<1>7. /\ Len(ot) - 1 + 1 = Len(op) + 2 /\ Len(ot) - 2 + 1 = Len(op) + 1 /\ Len(ot) - 2 = Len(op)
      /\ 1 \in 1..Len(ot) /\ 2 \in 1..Len(ot) /\ 2 \in 0..Len(ot)
  BY <1>6
<1>8. TwoOn(a, u, t, b)
  <2>1. Under(ot, 2) = op BY <1>6, <1>7 DEF Under
  <2>2. On(b, 1, t) /\ On(b, 2, u) BY <1>5, <1>6, <1>7 DEF On
  <2> QED BY <1>5, <1>7, <2>1, <2>2 DEF TwoOn
<1> QED BY <1>8 DEF b, d

(* Codes from the last to the first leave as many operands. *)
Filled(a, b, u, n) ==
  /\ b \in Shape /\ SameVars(a, b) /\ b.mode = "any" /\ Len(b.operands) = Len(a.operands) + n
  /\ \A i \in 1..Len(a.operands) : b.operands[i] = a.operands[i]
  /\ \A i \in Len(a.operands) + 1..Len(a.operands) + n : b.operands[i] = u

LEMMA FilledMore ==
  ASSUME NEW a \in Shape, NEW b, NEW u \in Type, NEW n \in Nat,
         Filled(Push1(a, u, "any"), b, u, n)
  PROVE  Filled(a, b, u, n + 1)
<1> DEFINE d == Push1(a, u, "any")
           k == Len(a.operands)
<1>1. PushIs(a, u, d, "any") BY Push1Is
<1> HIDE DEF d
<1>2. a.operands \in Seq(Type) BY ShapeIs DEF ShapeFacts
<1>3. d.operands = Append(a.operands, u) /\ SameVars(a, d) BY <1>1 DEF PushIs
<1>4. /\ k \in Nat /\ Len(d.operands) = k + 1 /\ d.operands[k + 1] = u
      /\ \A i \in 1..k : d.operands[i] = a.operands[i]
  BY <1>2, <1>3
<1>5. /\ b \in Shape /\ SameVars(d, b) /\ b.mode = "any" /\ Len(b.operands) = k + 1 + n
      /\ \A i \in 1..k + 1 : b.operands[i] = d.operands[i]
      /\ \A i \in k + 1 + 1..k + 1 + n : b.operands[i] = u
  BY <1>4, Zenon DEF Filled, d
<1>6. SameVars(a, b) BY <1>3, <1>5, Zenon DEF SameVars
<1> HIDE DEF k
<1>7. \A i \in 1..k : b.operands[i] = a.operands[i] BY <1>4, <1>5
<1>8. \A i \in k + 1..k + (n + 1) : b.operands[i] = u
  <2> SUFFICES ASSUME NEW i \in k + 1..k + (n + 1) PROVE b.operands[i] = u BY Zenon
  <2>1. CASE i = k + 1
    <3>1. k + 1 \in 1..k + 1 BY <1>4
    <3>2. b.operands[k + 1] = d.operands[k + 1] BY <1>5, <3>1, Zenon
    <3> QED BY <1>4, <2>1, <3>2, Zenon
  <2>2. CASE i # k + 1
    <3>1. i \in k + 1 + 1..k + 1 + n BY <1>4, <2>2
    <3> QED BY <1>5, <3>1, Zenon
  <2> QED BY <2>1, <2>2
<1>9. Len(b.operands) = k + (n + 1) BY <1>4, <1>5
<1> QED BY <1>5, <1>6, <1>7, <1>8, <1>9, Zenon DEF Filled, k

FillsAll(c, u, n) == \A a : Here(a) => \E b : Filled(a, b, u, n) /\ Yields(c, a, b)

LEMMA FromLastIs ==
  ASSUME NEW codes, NEW u \in Type, NEW n \in Nat, Len(codes) = n,
         \A i \in 1..n : ExprOK(codes[i], u)
  PROVE  FillsAll(FromLast(codes), u, n)
<1> DEFINE G(x, d) == codes[d] \o x
           base == <<>>
           Is(f, k) == f = [d \in 0..k |-> IF d = 0 THEN base ELSE G(f[d - 1], d)]
           level == CHOOSE f : Is(f, n)
           Ok(x, d) == FillsAll(x, u, d)
<1>0. n \in Nat OBVIOUS
<1>1. FromLast(codes) = level[n] BY DEF FromLast
<1>2. Is(level, n)
  <2> HIDE DEF G, base
  <2> DEFINE P == {k \in Nat : \E f : Is(f, k)}
  <2>1. 0 \in P
    <3>1. Is([d \in 0..0 |-> base], 0) OBVIOUS
    <3> QED BY <3>1
  <2>2. ASSUME NEW k \in P PROVE k + 1 \in P
    <3>1. PICK f : Is(f, k) OBVIOUS
    <3> DEFINE h == [d \in 0..k + 1 |-> IF d = k + 1 THEN G(f[k], k + 1) ELSE f[d]]
    <3>2. h[k + 1] = G(f[k], k + 1) /\ \A d \in 0..k : h[d] = f[d] OBVIOUS
    <3>3. \A d \in 0..k : f[d] = IF d = 0 THEN base ELSE G(f[d - 1], d) BY <3>1
    <3>4. h = [d \in 0..k + 1 |-> h[d]] BY DEF h
    <3> HIDE DEF h
    <3>5. \A d \in 0..k + 1 : h[d] = IF d = 0 THEN base ELSE G(h[d - 1], d)
      <4> SUFFICES ASSUME NEW d \in 0..k + 1
                   PROVE  h[d] = IF d = 0 THEN base ELSE G(h[d - 1], d)
        BY Zenon
      <4>1. CASE d = k + 1
        <5>1. d # 0 /\ d - 1 = k /\ k \in 0..k BY <4>1
        <5> QED BY <4>1, <5>1, <3>2, Zenon
      <4>2. CASE d = 0
        <5>1. d \in 0..k BY <4>2
        <5> QED BY <4>2, <5>1, <3>2, <3>3, Zenon
      <4>3. CASE d \in 1..k
        <5>1. d \in 0..k /\ d - 1 \in 0..k /\ d # 0 BY <4>3
        <5> QED BY <5>1, <3>2, <3>3, Zenon
      <4> QED BY <4>1, <4>2, <4>3
    <3>6. Is(h, k + 1) BY <3>4, <3>5, Zenon
    <3> QED BY <3>6
  <2>3. P \in SUBSET Nat OBVIOUS
  <2> HIDE DEF P
  <2>4. n \in P BY <1>0, <2>1, <2>2, <2>3, SetInduction, Zenon
  <2>5. \E f : Is(f, n) BY <2>4 DEF P
  <2> HIDE DEF Is
  <2> QED BY <2>5, Zenon
<1> HIDE DEF level
<1>3. level[0] = base /\ \A d \in 1..n : level[d] = G(level[d - 1], d)
  <2> HIDE DEF G, base
  <2>1. \A d \in 0..n : level[d] = IF d = 0 THEN base ELSE G(level[d - 1], d) BY <1>2, Zenon
  <2>2. 0 \in 0..n /\ \A d \in 1..n : d \in 0..n /\ d # 0 BY <1>0
  <2> QED BY <2>1, <2>2, Zenon
<1> HIDE DEF Is
<1>4. Ok(level[0], 0)
  <2> SUFFICES ASSUME NEW a, Here(a) PROVE \E b : Filled(a, b, u, 0) /\ Yields(<<>>, a, b)
    BY <1>3, Zenon DEF FillsAll
  <2>1. a \in Shape /\ a.mode = "any" BY DEF Here
  <2>2. Len(a.operands) \in Nat BY <2>1, ShapeIs DEF ShapeFacts
  <2>3. Filled(a, a, u, 0) BY <2>1, <2>2 DEF Filled, SameVars
  <2> QED BY <2>1, <2>3, YieldsNone, Zenon
<1>5. ASSUME NEW d \in 0..n - 1, Ok(level[d], d) PROVE Ok(level[d + 1], d + 1)
  <2>1. d + 1 \in 1..n /\ d + 1 - 1 = d /\ d \in Nat BY <1>0
  <2>2. level[d + 1] = codes[d + 1] \o level[d]
    <3> DEFINE j == d + 1
    <3>1. j \in 1..n /\ j - 1 = d BY <2>1
    <3> HIDE DEF j, level
    <3>2. level[j] = codes[j] \o level[j - 1] BY <1>3, <3>1
    <3>3. level[j] = codes[j] \o level[d] BY <3>1, <3>2, Zenon
    <3> QED BY <3>3 DEF j
  <2>3. ExprOK(codes[d + 1], u) BY <2>1
  <2> HIDE DEF G, base
  <2> SUFFICES ASSUME NEW a, Here(a)
               PROVE  \E b : Filled(a, b, u, d + 1) /\ Yields(codes[d + 1] \o level[d], a, b)
    BY <2>2, Zenon DEF FillsAll
  <2> DEFINE e == Push1(a, u, "any")
  <2>4. a \in Shape /\ a.mode = "any" BY DEF Here
  <2>5. Yields(codes[d + 1], a, e) BY <2>3, Zenon DEF ExprOK
  <2>6. PushIs(a, u, e, "any") BY <2>4, Push1Is, Zenon
  <2>7. Here(e) BY <2>6, Zenon DEF PushIs
  <2>8. PICK b : Filled(e, b, u, d) /\ Yields(level[d], e, b) BY <1>5, <2>7, Zenon DEF FillsAll
  <2>9. Filled(a, b, u, d + 1) BY <2>1, <2>4, <2>8, FilledMore, Zenon
  <2>10. Yields(codes[d + 1] \o level[d], a, b) BY <2>5, <2>8, YieldsThen, Zenon
  <2> QED BY <2>9, <2>10, Zenon
<1>6. Ok(level[n], n)
  <2> HIDE DEF Ok
  <2> DEFINE P == {d \in Nat : d <= n => Ok(level[d], d)}
  <2>1. 0 \in P BY <1>4
  <2>2. ASSUME NEW d \in P PROVE d + 1 \in P
    <3>1. ASSUME d + 1 <= n PROVE Ok(level[d + 1], d + 1)
      <4>1. d \in 0..n - 1 /\ d <= n BY <1>0, <3>1
      <4> QED BY <1>5, <4>1
    <3> QED BY <3>1
  <2>3. P \in SUBSET Nat OBVIOUS
  <2> HIDE DEF P
  <2>4. n \in P BY <1>0, <2>1, <2>2, <2>3, SetInduction, Zenon
  <2> QED BY <1>0, <2>4 DEF P
<1> QED BY <1>1, <1>6, Zenon

-----------------------------------------------------------------------------
(* Expressions leave a value of their type. *)

LEMMA OneExpr ==
  ASSUME NEW c, NEW t \in Type, \A a, b : Here(a) /\ PushIs(a, t, b, "any") => Step(c, a, b)
  PROVE  ExprOK(<<c>>, t)
<1> SUFFICES ASSUME NEW a, Here(a) PROVE Yields(<<c>>, a, Push1(a, t, "any")) BY Zenon DEF ExprOK
<1> DEFINE b == Push1(a, t, "any")
<1>1. a \in Shape BY DEF Here
<1>2. PushIs(a, t, b, "any") BY <1>1, Push1Is
<1> HIDE DEF b
<1>3. b \in Shape /\ Step(c, a, b) BY <1>2, Zenon DEF PushIs
<1>4. Yields(<<c>>, a, b) BY <1>1, <1>3, YieldsOne, Zenon
<1> QED BY <1>4 DEF b

LEMMA IntExpr ==
  ASSUME NEW i \in {0, 1} \cup Size
  PROVE  ExprOK(<<LoadIntValue(i)>>, Int0)
<1> DEFINE c == LoadIntValue(i)
<1>1. c.op = "LoadIntValue" /\ c.int = i BY DEF LoadIntValue
<1> HIDE DEF c
<1>2. ASSUME NEW a, NEW b, Here(a), PushIs(a, Int0, b, "any") PROVE Step(c, a, b)
  <2>1. a.mode = "any" BY <1>2 DEF Here
  <2>2. Pushes(a, b, 0, Int0) /\ SameVars(a, b) /\ b.mode = "any" BY <1>2 DEF PushIs
  <2>3. StepLoadIntValue(c, a, b) BY <1>1, <2>1, <2>2 DEF StepLoadIntValue, Plainly, Modes
  <2> QED BY <1>1, <2>3, Zenon DEF Step
<1>3. ExprOK(<<c>>, Int0) BY <1>2, OneExpr, TypeFacts, Zenon
<1> QED BY <1>3 DEF c

LEMMA StringExpr == ExprOK(<<LoadStringValue>>, String0)
<1> DEFINE c == LoadStringValue
<1>1. c.op = "LoadStringValue" BY DEF LoadStringValue
<1> HIDE DEF c
<1>2. ASSUME NEW a, NEW b, Here(a), PushIs(a, String0, b, "any") PROVE Step(c, a, b)
  <2>1. a.mode = "any" BY <1>2 DEF Here
  <2>2. Pushes(a, b, 0, String0) /\ SameVars(a, b) /\ b.mode = "any" BY <1>2 DEF PushIs
  <2>3. StepLoadStringValue(a, b) BY <2>1, <2>2 DEF StepLoadStringValue, Plainly, Modes
  <2> QED BY <1>1, <2>3, Zenon DEF Step
<1>3. ExprOK(<<c>>, String0) BY <1>2, OneExpr, TypeFacts, Zenon
<1> QED BY <1>3 DEF c

FilledIs(a, b, u, n, t) ==
  /\ n \in 0..Len(b.operands) /\ Under(b.operands, n) = a.operands
  /\ \A j \in 1..n : On(b, j, u)
  /\ Pushes(b, Push1(a, t, "any"), n, t) /\ Plainly(b, Push1(a, t, "any"))

LEMMA FilledFacts ==
  ASSUME NEW a \in Shape, NEW b, NEW u, NEW n \in Nat, NEW t \in Type, Filled(a, b, u, n)
  PROVE  FilledIs(a, b, u, n, t)
<1> DEFINE k == Len(a.operands)
           d == Push1(a, t, "any")
<1>1. a.operands \in Seq(Type) /\ k \in Nat BY ShapeIs DEF ShapeFacts
<1>2. /\ b \in Shape /\ SameVars(a, b) /\ b.mode = "any" /\ Len(b.operands) = k + n
      /\ \A i \in 1..k : b.operands[i] = a.operands[i]
      /\ \A i \in k + 1..k + n : b.operands[i] = u
  BY Zenon DEF Filled
<1>3. b.operands \in Seq(Type) BY <1>2, ShapeIs DEF ShapeFacts
<1>4. PushIs(a, t, d, "any") BY Push1Is
<1> HIDE DEF d
<1>5. d.operands = Append(a.operands, t) /\ SameVars(a, d) /\ d.mode = "any" BY <1>4, Zenon DEF PushIs
<1>6. n \in 0..Len(b.operands) /\ Len(b.operands) - n = k
  <2> HIDE DEF k
  <2> QED BY <1>1, <1>2
<1>7. Under(b.operands, n) = a.operands
  <2>1. Under(b.operands, n) \in Seq(Type) /\ UnderIs(b.operands, n, Under(b.operands, n))
    BY <1>3, <1>6, UnderFacts
  <2> HIDE DEF k
  <2>2. /\ Len(Under(b.operands, n)) = k
        /\ \A i \in 1..k : Under(b.operands, n)[i] = a.operands[i]
    BY <1>2, <1>6, <2>1 DEF UnderIs
  <2> QED BY <1>1, <2>1, <2>2 DEF k
<1> HIDE DEF k
<1>8. \A j \in 1..n : On(b, j, u)
  <2> SUFFICES ASSUME NEW j \in 1..n PROVE On(b, j, u) BY Zenon
  <2>1. j \in 1..Len(b.operands) /\ Len(b.operands) - j + 1 \in k + 1..k + n BY <1>1, <1>2
  <2> QED BY <1>2, <2>1 DEF On
<1>9. SameVars(b, d) BY <1>2, <1>5, Zenon DEF SameVars
<1> QED BY <1>2, <1>5, <1>6, <1>7, <1>8, <1>9 DEF FilledIs, Pushes, Plainly, Modes, d

(* An array of sizes, and an array of values. *)
LEMMA FillExpr ==
  ASSUME NEW codes, NEW u \in Type, NEW n \in Nat, Len(codes) = n,
         \A i \in 1..n : ExprOK(codes[i], u), NEW c, NEW t \in Type,
         \A a, b : Plainly(a, b) /\ Pushes(a, b, n, t) /\ (\A j \in 1..n : On(a, j, u))
                     => Step(c, a, b)
  PROVE  ExprOK(Append(FromLast(codes), c), t)
<1> DEFINE e == FromLast(codes)
<1>1. FillsAll(e, u, n) BY FromLastIs
<1> HIDE DEF e
<1> SUFFICES ASSUME NEW a, Here(a) PROVE Yields(Append(e, c), a, Push1(a, t, "any"))
  BY Zenon DEF ExprOK, e
<1> DEFINE d == Push1(a, t, "any")
<1>2. a \in Shape BY DEF Here
<1>3. PICK b : Filled(a, b, u, n) /\ Yields(e, a, b) BY <1>1, Zenon DEF FillsAll
<1>4. FilledIs(a, b, u, n, t) BY <1>2, <1>3, FilledFacts, Zenon
<1>5. PushIs(a, t, d, "any") BY <1>2, Push1Is
<1>6. Step(c, b, d) BY <1>4, Zenon DEF FilledIs
<1>7. d \in Shape BY <1>5, Zenon DEF PushIs
<1> QED BY <1>3, <1>6, <1>7, YieldsStep, Zenon

LEMMA AllocExpr ==
  ASSUME NEW t \in Type, NEW sizes \in [1..t.dims -> Size]
  PROVE  ExprOK(VisitArrayAllocWithoutInit(t, sizes), t)
<1> DEFINE n == t.dims
           codes == [i \in DOMAIN sizes |-> <<LoadIntValue(sizes[i])>>]
           c == CreateArray(t, Len(sizes))
<1>1. n \in Nat BY TypeFacts DEF ArrayFacts
<1> HIDE DEF n
<1>2. sizes \in [1..n -> Size] BY DEF n
<1>3. /\ DOMAIN sizes = 1..n /\ Len(sizes) = n
      /\ \A i \in 1..n : sizes[i] \in {0, 1} \cup Size
  <2>1. \A i \in 1..n : sizes[i] \in Size BY <1>2
  <2>2. Len(sizes) = n BY <1>1, <1>2
  <2> QED BY <1>2, <2>1, <2>2
<1>4. Len(codes) = n /\ \A i \in 1..n : codes[i] = <<LoadIntValue(sizes[i])>>
  <2>1. \A i \in 1..n : codes[i] = <<LoadIntValue(sizes[i])>> BY <1>3
  <2>2. codes \in [1..n -> {<<LoadIntValue(i)>> : i \in Size}] BY <1>2, <1>3
  <2> HIDE DEF codes
  <2>3. Len(codes) = n BY <1>1, <2>2
  <2> QED BY <2>1, <2>3
<1>5. c.op = "CreateArray" /\ c.type = t /\ c.dims = n BY <1>3 DEF CreateArray
<1> HIDE DEF codes, c
<1>6. \A i \in 1..n : ExprOK(codes[i], Int0) BY <1>3, <1>4, IntExpr
<1>7. ASSUME NEW a, NEW b, Plainly(a, b), Pushes(a, b, n, t), \A j \in 1..n : On(a, j, Int0)
      PROVE  Step(c, a, b)
  <2>1. c.dims \in 0..c.type.dims BY <1>1, <1>5 DEF n
  <2>2. StepCreateArray(c, a, b) BY <1>5, <1>7, <2>1 DEF StepCreateArray
  <2> QED BY <1>5, <2>2, Zenon DEF Step
<1>8. ExprOK(Append(FromLast(codes), c), t) BY <1>1, <1>4, <1>6, <1>7, FillExpr, TypeFacts, Zenon
<1> QED BY <1>8 DEF VisitArrayAllocWithoutInit, codes, c

LEMMA InitExpr ==
  ASSUME NEW t \in Type, IsArray(t), NEW n \in Nat, NEW S, NEW values \in [1..n -> S],
         \A i \in 1..n : ExprOK(values[i], ElementOf(t))
  PROVE  ExprOK(VisitArrayAllocWithInit(t, values), t)
<1> DEFINE c == CreateAndInitArray(t, Len(values))
<1>1. Len(values) = n /\ ElementOf(t) \in Type BY TypeFacts DEF ArrayFacts
<1>2. c.op = "CreateAndInitArray" /\ c.type = t /\ c.count = n BY <1>1 DEF CreateAndInitArray
<1> HIDE DEF c
<1>3. ASSUME NEW a, NEW b, Plainly(a, b), Pushes(a, b, n, t), \A j \in 1..n : On(a, j, ElementOf(t))
      PROVE  Step(c, a, b)
  <2>1. StepCreateAndInitArray(c, a, b) BY <1>2, <1>3, Zenon DEF StepCreateAndInitArray
  <2> QED BY <1>2, <2>1, Zenon DEF Step
<1>4. ExprOK(Append(FromLast(values), c), t) BY <1>1, <1>3, FillExpr, Zenon
<1> QED BY <1>4 DEF VisitArrayAllocWithInit, c

LEMMA EmptyArrayExpr ==
  ASSUME NEW t \in Type, IsArray(t)
  PROVE  ExprOK(VisitArrayAllocWithInit(t, <<>>), t)
<1>1. <<>> \in [1..0 -> {}] /\ \A i \in 1..0 : ExprOK(<<>>[i], ElementOf(t)) OBVIOUS
<1> QED BY <1>1, InitExpr

(* Variables *)
LEMMA GlobalLoads ==
  ASSUME NEW x \in DOMAIN globals, DOMAIN globals \subseteq Global, NEW a, Here(a)
  PROVE  /\ \A m \in {"any", "kept"} :
              Yields(<<LoadGlobalVarValue(x)>>, a, Push1(a, TypeOf[x], m))
         /\ Yields(<<LoadGlobalVarAddress(x)>>, a, Push1(a, TypeOf[x], "address"))
<1> DEFINE t == TypeOf[x]
           c == LoadGlobalVarValue(x)
           d == LoadGlobalVarAddress(x)
<1>1. t \in Type BY ValuesAssumption
<1>2. a \in Shape /\ a.mode = "any" /\ x \in a.globals BY DEF Here
<1>3. /\ c.op = "LoadGlobalVarValue" /\ c.var = x /\ c.type = t
      /\ d.op = "LoadGlobalVarAddress" /\ d.var = x
  BY DEF LoadGlobalVarValue, LoadGlobalVarAddress
<1> HIDE DEF c, d
<1>4. ASSUME NEW m \in {"any", "kept"} PROVE Yields(<<c>>, a, Push1(a, t, m))
  <2> DEFINE b == Push1(a, t, m)
  <2>1. PushIs(a, t, b, m) BY <1>1, <1>2, Push1Is
  <2> HIDE DEF b
  <2>2. b \in Shape /\ b.mode = m /\ SameVars(a, b) /\ Pushes(a, b, 0, t) BY <2>1, Zenon DEF PushIs
  <2> HIDE DEF t
  <2>3. LoadsValue(a, b, t) BY <1>2, <2>2 DEF LoadsValue
  <2>4. StepLoadGlobalVarValue(c, a, b) BY <1>2, <1>3, <2>3 DEF StepLoadGlobalVarValue, t
  <2>5. Step(c, a, b) BY <1>3, <2>4, Zenon DEF Step
  <2> QED BY <1>2, <2>2, <2>5, YieldsOne, Zenon DEF b
<1>5. Yields(<<d>>, a, Push1(a, t, "address"))
  <2> DEFINE b == Push1(a, t, "address")
  <2>1. PushIs(a, t, b, "address") BY <1>1, <1>2, Push1Is
  <2> HIDE DEF b
  <2>2. b \in Shape /\ b.mode = "address" /\ SameVars(a, b) /\ Pushes(a, b, 0, t)
    BY <2>1, Zenon DEF PushIs
  <2>3. LoadsAddress(a, b, t) BY <1>2, <2>2, Zenon DEF LoadsAddress, Modes
  <2>4. StepLoadGlobalVarAddress(d, a, b) BY <1>2, <1>3, <2>3 DEF StepLoadGlobalVarAddress
  <2>5. Step(d, a, b) BY <1>3, <2>4, Zenon DEF Step
  <2> QED BY <1>2, <2>2, <2>5, YieldsOne, Zenon DEF b
<1> QED BY <1>4, <1>5 DEF c, d

LEMMA LocalLoads ==
  ASSUME NEW i \in DOMAIN locals, NEW a, Here(a)
  PROVE  /\ \A m \in {"any", "kept"} :
              Yields(<<LoadLocalVarValue(i, locals[i].type)>>, a, Push1(a, locals[i].type, m))
         /\ Yields(<<LoadLocalVarAddress(i)>>, a, Push1(a, locals[i].type, "address"))
<1> DEFINE t == locals[i].type
           c == LoadLocalVarValue(i, t)
           d == LoadLocalVarAddress(i)
<1>2. /\ a \in Shape /\ a.mode = "any" /\ i \in 1..Len(a.locals) /\ i <= MaxLocals
      /\ a.locals[i] = t
  <2>1. /\ a \in Shape /\ a.mode = "any" /\ DOMAIN locals = 1..Len(locals)
        /\ Len(a.locals) = Len(locals) /\ Len(locals) <= MaxLocals /\ a.locals[i] = t
    BY Zenon DEF Here
  <2>2. Len(a.locals) \in Nat BY <2>1, ShapeIs DEF ShapeFacts
  <2> QED BY <2>1, <2>2, ValuesAssumption
<1>1. t \in Type
  <2>1. a.locals \in Seq(Type) BY <1>2, ShapeIs DEF ShapeFacts
  <2> QED BY <1>2, <2>1
<1> HIDE DEF t
<1>3. /\ c.op = "LoadLocalVarValue" /\ c.index = i /\ c.type = t
      /\ d.op = "LoadLocalVarAddress" /\ d.index = i
  BY DEF LoadLocalVarValue, LoadLocalVarAddress
<1> HIDE DEF c, d
<1>4. ASSUME NEW m \in {"any", "kept"} PROVE Yields(<<c>>, a, Push1(a, t, m))
  <2> DEFINE b == Push1(a, t, m)
  <2>1. PushIs(a, t, b, m) BY <1>1, <1>2, Push1Is
  <2> HIDE DEF b
  <2>2. b \in Shape /\ b.mode = m /\ SameVars(a, b) /\ Pushes(a, b, 0, t) BY <2>1, Zenon DEF PushIs
  <2>3. LoadsValue(a, b, t) BY <1>2, <2>2 DEF LoadsValue
  <2>4. StepLoadLocalVarValue(c, a, b) BY <1>2, <1>3, <2>3 DEF StepLoadLocalVarValue
  <2>5. Step(c, a, b) BY <1>3, <2>4, Zenon DEF Step
  <2> QED BY <1>2, <2>2, <2>5, YieldsOne, Zenon DEF b
<1>5. Yields(<<d>>, a, Push1(a, t, "address"))
  <2> DEFINE b == Push1(a, t, "address")
  <2>1. PushIs(a, t, b, "address") BY <1>1, <1>2, Push1Is
  <2> HIDE DEF b
  <2>2. b \in Shape /\ b.mode = "address" /\ SameVars(a, b) /\ Pushes(a, b, 0, t)
    BY <2>1, Zenon DEF PushIs
  <2>3. LoadsAddress(a, b, t) BY <1>2, <2>2, Zenon DEF LoadsAddress, Modes
  <2>4. StepLoadLocalVarAddress(d, a, b) BY <1>2, <1>3, <2>3 DEF StepLoadLocalVarAddress
  <2>5. Step(d, a, b) BY <1>3, <2>4, Zenon DEF Step
  <2> QED BY <1>2, <2>2, <2>5, YieldsOne, Zenon DEF b
<1> QED BY <1>4, <1>5 DEF c, d, t

LEMMA VariablesAre ==
  ASSUME DOMAIN globals \subseteq Global, NEW t, NEW v \in Variables(t)
  PROVE  ExprOK(v.value, t) /\ AssignableOK(v, t)
<1>1. CASE \E x \in {y \in DOMAIN globals : TypeOf[y] = t} :
             v = [value |-> <<LoadGlobalVarValue(x)>>, address |-> <<LoadGlobalVarAddress(x)>>]
  <2>1. PICK x \in DOMAIN globals :
          /\ TypeOf[x] = t
          /\ v = [value |-> <<LoadGlobalVarValue(x)>>, address |-> <<LoadGlobalVarAddress(x)>>]
    BY <1>1, Zenon
  <2>2. v.value = <<LoadGlobalVarValue(x)>> /\ v.address = <<LoadGlobalVarAddress(x)>> BY <2>1
  <2> QED BY <2>1, <2>2, GlobalLoads DEF ExprOK, AssignableOK
<1>2. CASE \E i \in {j \in DOMAIN locals : locals[j].type = t} :
             v = [value |-> <<LoadLocalVarValue(i, t)>>, address |-> <<LoadLocalVarAddress(i)>>]
  <2>1. PICK i \in DOMAIN locals :
          /\ locals[i].type = t
          /\ v = [value |-> <<LoadLocalVarValue(i, t)>>, address |-> <<LoadLocalVarAddress(i)>>]
    BY <1>2, Zenon
  <2>2. v.value = <<LoadLocalVarValue(i, t)>> /\ v.address = <<LoadLocalVarAddress(i)>> BY <2>1
  <2> QED BY <2>1, <2>2, LocalLoads DEF ExprOK, AssignableOK
<1> QED BY <1>1, <1>2, Zenon DEF Variables

(* Two operands and a command that makes one of them. *)
OneOfTwo(b, d, u, t, w, m, k) ==
  /\ b \in Shape /\ d \in Shape /\ On(b, 1, t) /\ On(b, 2, u) /\ Pushes(b, d, 2, w)
  /\ SameVars(b, d) /\ Modes(b, d, m, k)

LEMMA BinaryCode ==
  ASSUME NEW a, Here(a), NEW t \in Type, NEW u \in Type, NEW w \in Type,
         NEW m \in {"any", "kept", "address"}, NEW k \in {"any", "kept", "address"},
         NEW l, NEW r, NEW x, ExprOK(l, u),
         \A b : Here(b) => Yields(r, b, Push1(b, t, m)),
         \A b, d : OneOfTwo(b, d, u, t, w, m, k) => Step(x, b, d)
  PROVE  Yields(l \o r \o <<x>>, a, Push1(a, w, k))
<1> DEFINE e == Push1(a, u, "any")
           b == Push1(e, t, m)
           d == Push1(a, w, k)
<1>1. a \in Shape /\ Yields(l, a, e) BY DEF Here, ExprOK
<1>2. PushIs(a, u, e, "any") /\ PushIs(a, w, d, k) BY <1>1, Push1Is
<1>3. TwoOn(a, u, t, b) BY <1>1, PushTwo
<1> HIDE DEF e, d
<1>4. e \in Shape /\ Here(e) /\ SameVars(a, e) BY <1>2, Zenon DEF PushIs
<1>5. PushIs(e, t, b, m) BY <1>4, Push1Is
<1>6. Yields(r, e, b) BY <1>4, Zenon
<1> HIDE DEF b
<1>7. OneOfTwo(b, d, u, t, w, m, k)
  <2>1. b \in Shape /\ SameVars(e, b) /\ b.mode = m BY <1>5, Zenon DEF PushIs
  <2>2. d \in Shape /\ d.operands = Append(a.operands, w) /\ SameVars(a, d) /\ d.mode = k
    BY <1>2, Zenon DEF PushIs
  <2>3. SameVars(b, d) BY <1>4, <2>1, <2>2, Zenon DEF SameVars
  <2>4. Pushes(b, d, 2, w) BY <1>3, <2>2, Zenon DEF Pushes, TwoOn
  <2> QED BY <1>3, <2>1, <2>2, <2>3, <2>4, Zenon DEF OneOfTwo, TwoOn, Modes
<1>8. Yields(<<x>>, b, d)
  <2>1. b \in Shape /\ d \in Shape BY <1>7, Zenon DEF OneOfTwo
  <2> QED BY <1>7, <2>1, YieldsOne, Zenon
<1>9. Yields(l \o r, a, b) BY <1>1, <1>6, YieldsThen, Zenon
<1> QED BY <1>8, <1>9, YieldsThen, Zenon DEF d

LEMMA ElementSteps ==
  ASSUME NEW t \in Type, t.dims < MaxDims, NEW b, NEW d
  PROVE  /\ \A m \in {"any", "kept"} : OneOfTwo(b, d, Int0, ArrayOf(t), t, m, m)
              => Step(LoadElementValue(ArrayOf(t)), b, d)
         /\ OneOfTwo(b, d, Int0, ArrayOf(t), t, "kept", "address")
              => Step(LoadElementAddress(ArrayOf(t)), b, d)
<1> DEFINE u == ArrayOf(t)
           c == LoadElementValue(u)
           e == LoadElementAddress(u)
<1>1. u \in Type /\ IsArray(u) /\ ElementOf(u) = t BY TypeFacts DEF ArrayFacts
<1> HIDE DEF u
<1>2. c.op = "LoadArrayElementValue" /\ e.op = "LoadArrayElementAddress" /\ c.type = u /\ e.type = u
  BY DEF LoadElementValue, LoadElementAddress, Cmd
<1> HIDE DEF c, e
<1>3. ASSUME NEW m \in {"any", "kept"}, OneOfTwo(b, d, Int0, u, t, m, m) PROVE Step(c, b, d)
  <2>1. LoadsElement(c, b, d) BY <1>1, <1>2, <1>3, Zenon DEF LoadsElement, OneOfTwo
  <2>2. b.mode = d.mode /\ b.mode \in {"any", "kept"} BY <1>3, Zenon DEF OneOfTwo, Modes
  <2>3. StepLoadElementValue(c, b, d) BY <2>1, <2>2, Zenon DEF StepLoadElementValue
  <2> QED BY <1>2, <2>3, Zenon DEF Step
<1>4. ASSUME OneOfTwo(b, d, Int0, u, t, "kept", "address") PROVE Step(e, b, d)
  <2>1. LoadsElement(e, b, d) BY <1>1, <1>2, <1>4, Zenon DEF LoadsElement, OneOfTwo
  <2>2. StepLoadElementAddress(e, b, d) BY <1>4, <2>1, Zenon DEF StepLoadElementAddress, OneOfTwo
  <2> QED BY <1>2, <2>2, Zenon DEF Step
<1> QED BY <1>3, <1>4, Zenon DEF c, e, u

LEMMA SubscriptExpr ==
  ASSUME NEW t \in Type, t.dims < MaxDims, NEW i, NEW e, ExprOK(i, Int0), ExprOK(e, ArrayOf(t))
  PROVE  ExprOK(VisitSubscript(i, e, ArrayOf(t)), t)
<1> SUFFICES ASSUME NEW a, Here(a)
             PROVE  Yields(i \o e \o <<LoadElementValue(ArrayOf(t))>>, a, Push1(a, t, "any"))
  BY Zenon DEF ExprOK, VisitSubscript
<1>1. ArrayOf(t) \in Type /\ Int0 \in Type BY TypeFacts DEF ArrayFacts
<1>2. \A b : Here(b) => Yields(e, b, Push1(b, ArrayOf(t), "any")) BY Zenon DEF ExprOK
<1>3. "any" \in {"any", "kept", "address"} /\ "any" \in {"any", "kept"} OBVIOUS
<1>4. \A b, d : OneOfTwo(b, d, Int0, ArrayOf(t), t, "any", "any")
                  => Step(LoadElementValue(ArrayOf(t)), b, d)
  BY <1>3, ElementSteps, Zenon
<1> QED BY <1>1, <1>2, <1>3, <1>4, BinaryCode, Zenon

LEMMA ItemAssignable ==
  ASSUME NEW t \in Type, t.dims < MaxDims, NEW i, NEW e, ExprOK(i, Int0),
         AssignableOK(e, ArrayOf(t))
  PROVE  /\ \A a : Here(a) =>
              Yields(VisitSubscript(i, e.value, ArrayOf(t)), a, Push1(a, t, "kept"))
         /\ \A a : Here(a) =>
              Yields(i \o e.value \o <<LoadElementAddress(ArrayOf(t))>>, a, Push1(a, t, "address"))
<1>1. ArrayOf(t) \in Type /\ Int0 \in Type BY TypeFacts DEF ArrayFacts
<1>2. \A b : Here(b) => Yields(e.value, b, Push1(b, ArrayOf(t), "kept"))
  BY Zenon DEF AssignableOK
<1>3. /\ "kept" \in {"any", "kept", "address"} /\ "kept" \in {"any", "kept"}
      /\ "address" \in {"any", "kept", "address"}
  OBVIOUS
<1>4. \A b, d : OneOfTwo(b, d, Int0, ArrayOf(t), t, "kept", "kept")
                  => Step(LoadElementValue(ArrayOf(t)), b, d)
  BY <1>3, ElementSteps, Zenon
<1>5. \A b, d : OneOfTwo(b, d, Int0, ArrayOf(t), t, "kept", "address")
                  => Step(LoadElementAddress(ArrayOf(t)), b, d)
  BY ElementSteps, Zenon
<1>6. ASSUME NEW a, Here(a)
      PROVE  Yields(i \o e.value \o <<LoadElementValue(ArrayOf(t))>>, a, Push1(a, t, "kept"))
  BY <1>1, <1>2, <1>3, <1>4, <1>6, BinaryCode, Zenon
<1>7. ASSUME NEW a, Here(a)
      PROVE  Yields(i \o e.value \o <<LoadElementAddress(ArrayOf(t))>>, a, Push1(a, t, "address"))
  BY <1>1, <1>2, <1>3, <1>5, <1>7, BinaryCode, Zenon
<1> QED BY <1>6, <1>7, Zenon DEF VisitSubscript

LEMMA SumExpr ==
  ASSUME NEW l, NEW r, ExprOK(l, String0), ExprOK(r, String0)
  PROVE  ExprOK(VisitSum(l, r), String0)
<1> DEFINE c == SumString
<1>1. c.op = "Sum" BY DEF SumString, Cmd
<1> HIDE DEF c
<1>2. \A b, d : OneOfTwo(b, d, String0, String0, String0, "any", "any") => Step(c, b, d)
  <2> SUFFICES ASSUME NEW b, NEW d, OneOfTwo(b, d, String0, String0, String0, "any", "any")
               PROVE  Step(c, b, d)
    BY Zenon
  <2>1. StepSum(b, d) BY Zenon DEF StepSum, OneOfTwo, Plainly
  <2> QED BY <1>1, <2>1, Zenon DEF Step
<1>3. String0 \in Type /\ "any" \in {"any", "kept", "address"} BY TypeFacts
<1> SUFFICES ASSUME NEW a, Here(a) PROVE Yields(l \o r \o <<c>>, a, Push1(a, String0, "any"))
  BY Zenon DEF ExprOK, VisitSum, c
<1>4. \A b : Here(b) => Yields(r, b, Push1(b, String0, "any")) BY Zenon DEF ExprOK
<1> QED BY <1>2, <1>3, <1>4, BinaryCode, Zenon

LEMMA EqualIs ==
  ASSUME NEW t \in Type, NEW l, NEW r, ExprOK(l, t), ExprOK(r, t)
  PROVE  ExprOK(EqualExpr(l, r, t), Int0)
<1> DEFINE c == EqualCmd(t)
<1>1. c.op = "Equal" /\ c.type = t BY DEF EqualCmd, Cmd
<1> HIDE DEF c
<1>2. \A b, d : OneOfTwo(b, d, t, t, Int0, "any", "any") => Step(c, b, d)
  <2> SUFFICES ASSUME NEW b, NEW d, OneOfTwo(b, d, t, t, Int0, "any", "any")
               PROVE  Step(c, b, d)
    BY Zenon
  <2>1. StepEqual(c, b, d) BY <1>1, Zenon DEF StepEqual, OneOfTwo, Plainly
  <2> QED BY <1>1, <2>1, Zenon DEF Step
<1>3. Int0 \in Type /\ "any" \in {"any", "kept", "address"} BY TypeFacts
<1> SUFFICES ASSUME NEW a, Here(a) PROVE Yields(l \o r \o <<c>>, a, Push1(a, Int0, "any"))
  BY Zenon DEF ExprOK, EqualExpr, c
<1>4. \A b : Here(b) => Yields(r, b, Push1(b, t, "any")) BY Zenon DEF ExprOK
<1> QED BY <1>2, <1>3, <1>4, BinaryCode, Zenon

(* An assignment leaves nothing. *)
LEMMA AssignIs ==
  ASSUME NEW t \in Type, NEW left, NEW right, ExprOK(right, t),
         \A b : Here(b) => Yields(left, b, Push1(b, t, "address")), NEW a, Here(a)
  PROVE  Yields(VisitAssign(left, right, t), a, a)
<1> DEFINE e == Push1(a, t, "any")
           b == Push1(e, t, "address")
           c == StoreCmd(t)
<1>0. c.op = "Store" /\ c.type = t BY DEF StoreCmd, Cmd
<1>1. a \in Shape /\ a.mode = "any" /\ Yields(right, a, e) BY DEF Here, ExprOK
<1>2. PushIs(a, t, e, "any") BY <1>1, Push1Is
<1>3. TwoOn(a, t, t, b) BY <1>1, PushTwo
<1> HIDE DEF e, c
<1>4. e \in Shape /\ Here(e) /\ SameVars(a, e) BY <1>1, <1>2, Zenon DEF PushIs
<1>5. PushIs(e, t, b, "address") BY <1>4, Push1Is
<1>6. Yields(left, e, b) BY <1>4, Zenon
<1> HIDE DEF b
<1>7. b \in Shape /\ SameVars(e, b) /\ b.mode = "address" BY <1>5, Zenon DEF PushIs
<1>8. SameVars(b, a) BY <1>4, <1>7, Zenon DEF SameVars
<1>9. Pops(b, a, 2) BY <1>3, Zenon DEF Pops, TwoOn
<1>10. StepStore(c, b, a) BY <1>0, <1>1, <1>3, <1>7, <1>8, <1>9, Zenon DEF StepStore, TwoOn, Modes
<1>11. Step(c, b, a) BY <1>0, <1>10, Zenon DEF Step
<1>12. Yields(<<c>>, b, a) BY <1>1, <1>7, <1>11, YieldsOne, Zenon
<1>13. Yields(right \o left, a, b) BY <1>1, <1>6, YieldsThen, Zenon
<1> QED BY <1>12, <1>13, YieldsThen, Zenon DEF VisitAssign, c

LEMMA EffectExpr ==
  ASSUME DOMAIN globals \subseteq Global, NEW x \in Effects, NEW t, NEW value, ExprOK(value, t)
  PROVE  ExprOK(VisitCallWithEffect(x, value), t)
<1> DEFINE u == TypeOf[x]
           left == <<LoadGlobalVarAddress(x)>>
           right == IF IsArray(u) THEN VisitArrayAllocWithInit(u, <<>>) ELSE <<LoadStringValue>>
<1>1. x \in DOMAIN globals /\ HasStorage(u) BY DEF Effects
<1>2. u \in Type BY <1>1, ValuesAssumption
<1>3. \A b : Here(b) => Yields(left, b, Push1(b, u, "address")) BY <1>1, GlobalLoads
<1> HIDE DEF u, left
<1>4. ExprOK(right, u)
  <2>1. CASE IsArray(u)
    <3>1. right = VisitArrayAllocWithInit(u, <<>>) BY <2>1
    <3> QED BY <1>2, <2>1, <3>1, EmptyArrayExpr, Zenon
  <2>2. CASE ~IsArray(u)
    <3>1. right = <<LoadStringValue>> BY <2>2
    <3>2. u = String0 BY <1>1, <1>2, <2>2, TypeFacts DEF ArrayFacts
    <3> QED BY <3>1, <3>2, StringExpr
  <2> QED BY <2>1, <2>2
<1> HIDE DEF right
<1>5. ASSUME NEW a, Here(a) PROVE Yields(VisitAssign(left, right, u) \o value, a, Push1(a, t, "any"))
  <2>1. Yields(VisitAssign(left, right, u), a, a) BY <1>2, <1>3, <1>4, <1>5, AssignIs, Zenon
  <2>2. Yields(value, a, Push1(a, t, "any")) BY <1>5, Zenon DEF ExprOK
  <2> QED BY <2>1, <2>2, YieldsThen, Zenon
<1> QED BY <1>5, Zenon DEF ExprOK, VisitCallWithEffect, left, right, u

LEMMA CallExpr ==
  ASSUME NEW t \in Type, NEW arg, ExprOK(arg, t)
  PROVE  ExprOK(VisitCallOfIdentity(arg, t), t)
<1> SUFFICES ASSUME NEW a, Here(a)
             PROVE  Yields(VisitCallOfIdentity(arg, t), a, Push1(a, t, "any"))
  BY Zenon DEF ExprOK
<1> DEFINE n == Len(locals) + 1
           x == CreateAndInitLocalVar(t)
           y == LoadLocalVarValue(n, t)
           z == DestroyLocalVar(t)
           lo == Append(a.locals, t)
           d == Push1(a, t, "any")
           f == [operands |-> a.operands, locals |-> lo, globals |-> a.globals, mode |-> "any"]
           g == Push1(f, t, "any")
<1>1. /\ x.op = "CreateAndInitLocalVar" /\ x.type = t
      /\ y.op = "LoadLocalVarValue" /\ y.type = t /\ y.index = n
      /\ z.op = "DestroyLocalVar" /\ z.type = t
  BY DEF CreateAndInitLocalVar, LoadLocalVarValue, DestroyLocalVar, Cmd
<1>2. a \in Shape /\ a.mode = "any" /\ Len(a.locals) = Len(locals) /\ Yields(arg, a, d)
  BY DEF Here, ExprOK
<1>3. a.operands \in Seq(Type) /\ a.locals \in Seq(Type) /\ a.globals \in SUBSET Global
  BY <1>2, ShapeIs DEF ShapeFacts
<1>4. /\ lo \in Seq(Type) /\ Len(lo) = n /\ lo[n] = t /\ n \in 1..n /\ n > 0 /\ 1 \in 0..n
      /\ Under(lo, 1) = a.locals
  <2>1. lo \in Seq(Type) /\ Len(lo) = n /\ lo[n] = t /\ n \in Nat /\ n > 0 BY <1>2, <1>3
  <2>2. Len(lo) - 1 = Len(a.locals) BY <1>2, <1>3
  <2>3. SubSeq(lo, 1, Len(a.locals)) = a.locals BY <1>3
  <2> QED BY <2>1, <2>2, <2>3 DEF Under
<1>5. PushIs(a, t, d, "any") BY <1>2, Push1Is
<1> HIDE DEF x, y, z, n, d
<1>6. f \in Shape
  <2> HIDE DEF lo
  <2> QED BY <1>3, <1>4 DEF Shape
<1>7. PushIs(f, t, g, "any") BY <1>6, Push1Is
<1>8. /\ f.operands = a.operands /\ f.locals = lo /\ f.globals = a.globals /\ f.mode = "any"
  OBVIOUS
<1> HIDE DEF f, g, lo
<1>9. /\ d \in Shape /\ d.mode = "any" /\ SameVars(a, d) /\ On(d, 1, t) /\ 1 \in 0..Len(d.operands)
      /\ d.operands = Append(a.operands, t) /\ Under(d.operands, 1) = a.operands
  BY <1>5, Zenon DEF PushIs
<1>10. /\ g \in Shape /\ g.mode = "any" /\ SameVars(f, g) /\ Pushes(f, g, 0, t)
       /\ g.operands = Append(f.operands, t)
  BY <1>7, Zenon DEF PushIs
<1>11. Step(x, d, f)
  <2>1. Pops(d, f, 1) BY <1>8, <1>9, Zenon DEF Pops
  <2>2. NewLocal(x, d, f) BY <1>1, <1>8, <1>9, Zenon DEF NewLocal, SameVars, Modes, lo
  <2>3. StepCreateAndInitLocalVar(x, d, f)
    BY <1>1, <1>9, <2>1, <2>2, Zenon DEF StepCreateAndInitLocalVar
  <2> QED BY <1>1, <2>3, Zenon DEF Step
<1>12. Step(y, f, g)
  <2>1. LoadsValue(f, g, t) BY <1>8, <1>10 DEF LoadsValue
  <2>2. StepLoadLocalVarValue(y, f, g) BY <1>1, <1>4, <1>8, <2>1, Zenon DEF StepLoadLocalVarValue
  <2> QED BY <1>1, <2>2, Zenon DEF Step
<1>13. Step(z, g, d)
  <2>1. d.operands = g.operands BY <1>8, <1>9, <1>10, Zenon
  <2>2. g.operands \in Seq(Type) BY <1>10, ShapeIs DEF ShapeFacts
  <2>3. Pops(g, d, 0)
    <3>1. Under(g.operands, 0) = g.operands /\ 0 \in 0..Len(g.operands) BY <2>2 DEF Under
    <3> QED BY <2>1, <3>1, Zenon DEF Pops
  <2>4. g.locals = lo /\ g.globals = a.globals /\ d.locals = a.locals /\ d.globals = a.globals
    BY <1>8, <1>9, <1>10, Zenon DEF SameVars
  <2>5. StepDestroyLocalVar(z, g, d)
    BY <1>1, <1>4, <1>9, <1>10, <2>3, <2>4, Zenon DEF StepDestroyLocalVar, Modes
  <2> QED BY <1>1, <2>5, Zenon DEF Step
<1>14. Yields(<<x, y, z>>, d, d)
  BY <1>6, <1>9, <1>10, <1>11, <1>12, <1>13, YieldsThree, Zenon
<1>15. Yields(arg \o <<x, y, z>>, a, d) BY <1>2, <1>14, YieldsThen, Zenon
<1> QED BY <1>15, Zenon DEF VisitCallOfIdentity, x, y, z, n, d

LEMMA LiteralsAre ==
  ASSUME NEW t \in Type, NEW e \in Literals(t)
  PROVE  ExprOK(e, t)
<1>1. CASE t = String0
  <2>1. e = <<LoadStringValue>> BY <1>1, Zenon DEF Literals
  <2> QED BY <1>1, <2>1, StringExpr, Zenon
<1>2. CASE t # String0 /\ t = Int0
  <2>1. e = <<LoadIntValue(0)>> BY <1>2, Zenon DEF Literals
  <2>2. 0 \in {0, 1} \cup Size OBVIOUS
  <2> QED BY <1>2, <2>1, <2>2, IntExpr, Zenon
<1>3. CASE t # String0 /\ t # Int0
  <2>1. e \in IF "alloc" \in Form
              THEN {VisitArrayAllocWithoutInit(t, sizes) : sizes \in [1..t.dims -> Size]} ELSE {}
    BY <1>3, Zenon DEF Literals
  <2>2. PICK sizes \in [1..t.dims -> Size] : e = VisitArrayAllocWithoutInit(t, sizes)
    BY <2>1, Zenon
  <2> QED BY <2>2, AllocExpr, Zenon
<1> QED BY <1>1, <1>2, <1>3, Zenon

LEMMA IndexesAre ==
  ASSUME DOMAIN globals \subseteq Global, NEW e \in Indexes
  PROVE  ExprOK(e, Int0)
<1>1. \A i \in 0..1 : i \in {0, 1} \cup Size OBVIOUS
<1>2. 0 \in {0, 1} \cup Size OBVIOUS
<1>3. CASE e \in {<<LoadIntValue(i)>> : i \in 0..1} BY <1>1, <1>3, IntExpr, Zenon
<1>4. CASE e \in {VisitCallWithEffect(x, <<LoadIntValue(0)>>) : x \in Effects}
  BY <1>2, <1>4, IntExpr, EffectExpr, Zenon
<1> QED BY <1>3, <1>4, Zenon DEF Indexes

AllExprsOK(inner) == \A t \in Type : \A e \in inner[t] : ExprOK(e, t)
AllAssignableOK(inner) == \A t \in Type : \A v \in inner[t] : AssignableOK(v, t)

LEMMA ComposedAre ==
  ASSUME DOMAIN globals \subseteq Global, NEW t \in Type, NEW inner, AllExprsOK(inner),
         NEW e \in ComposedExprs(t, inner)
  PROVE  ExprOK(e, t)
<1> DEFINE A == IF t.dims = MaxDims THEN {}
                ELSE {VisitSubscript(i, f, ArrayOf(t)) : i \in Indexes, f \in inner[ArrayOf(t)]}
           B == IF "init" \notin Form \/ ~IsArray(t) THEN {}
                ELSE {VisitArrayAllocWithInit(t, values) :
                        values \in UNION {[1..n -> inner[ElementOf(t)]] : n \in Length}}
           C == IF "call" \notin Form \/ ~HasStorage(t) THEN {}
                ELSE {VisitCallOfIdentity(f, t) : f \in inner[t]}
           D == IF t # String0 THEN {} ELSE {VisitSum(l, r) : l, r \in inner[t]}
           F == {VisitCallWithEffect(x, f) : x \in Effects, f \in Literals(t)}
<1>1. CASE e \in A
  <2>1. t.dims # MaxDims BY <1>1
  <2>2. t.dims < MaxDims /\ ArrayOf(t) \in Type
    <3>1. t.dims \in 0..MaxDims /\ MaxDims \in Nat /\ ArrayFacts(t)
      BY TypeFacts, ValuesAssumption DEF ArrayFacts
    <3>2. t.dims < MaxDims BY <2>1, <3>1
    <3> QED BY <3>1, <3>2 DEF ArrayFacts
  <2>3. PICK i \in Indexes, f \in inner[ArrayOf(t)] : e = VisitSubscript(i, f, ArrayOf(t))
    BY <1>1, <2>1
  <2>4. ExprOK(f, ArrayOf(t)) BY <2>2, <2>3, Zenon DEF AllExprsOK
  <2>5. ExprOK(i, Int0) BY <2>3, IndexesAre, Zenon
  <2> QED BY <2>2, <2>3, <2>4, <2>5, SubscriptExpr, Zenon
<1>2. CASE e \in B
  <2>1. IsArray(t) BY <1>2, Zenon
  <2>2. PICK values \in UNION {[1..n -> inner[ElementOf(t)]] : n \in Length} :
          e = VisitArrayAllocWithInit(t, values)
    BY <1>2, Zenon
  <2>3. PICK n \in Length : values \in [1..n -> inner[ElementOf(t)]] BY <2>2, Zenon
  <2>4. n \in Nat BY ValuesAssumption
  <2>5. ElementOf(t) \in Type BY <2>1, TypeFacts DEF ArrayFacts
  <2>6. \A i \in 1..n : ExprOK(values[i], ElementOf(t)) BY <2>3, <2>5, Zenon DEF AllExprsOK
  <2> QED BY <2>1, <2>2, <2>3, <2>4, <2>6, InitExpr, Zenon
<1>3. CASE e \in C
  <2>1. PICK f \in inner[t] : e = VisitCallOfIdentity(f, t) BY <1>3, Zenon
  <2>2. ExprOK(f, t) BY <2>1, Zenon DEF AllExprsOK
  <2> QED BY <2>1, <2>2, CallExpr, Zenon
<1>4. CASE e \in D
  <2>1. t = String0 BY <1>4
  <2>2. PICK l \in inner[t], r \in inner[t] : e = VisitSum(l, r) BY <1>4, <2>1
  <2>3. ExprOK(l, String0) /\ ExprOK(r, String0) BY <2>1, <2>2, Zenon DEF AllExprsOK
  <2> QED BY <2>1, <2>2, <2>3, SumExpr, Zenon
<1>5. CASE e \in F
  <2>1. PICK x \in Effects, f \in Literals(t) : e = VisitCallWithEffect(x, f) BY <1>5
  <2>2. ExprOK(f, t) BY <2>1, LiteralsAre, Zenon
  <2> QED BY <2>1, <2>2, EffectExpr, Zenon
<1> HIDE DEF A, B, C, D, F
<1>6. ComposedExprs(t, inner) = A \cup B \cup C \cup D \cup F
  BY DEF ComposedExprs, A, B, C, D, F
<1> QED BY <1>1, <1>2, <1>3, <1>4, <1>5, <1>6

LEMMA ExprsAreOK ==
  ASSUME DOMAIN globals \subseteq Global
  PROVE  \A d \in 0..Depth : AllExprsOK(Exprs[d])
<1> DEFINE P == {d \in Nat : d <= Depth => AllExprsOK(Exprs[d])}
<1>1. \A t \in Type : \A e \in OwnExprs(t) : ExprOK(e, t)
  BY VariablesAre, LiteralsAre, Zenon DEF OwnExprs
<1>2. Depth \in Nat BY ValuesAssumption
<1>3. 0 \in P
  <2>1. AllExprsOK(Exprs[0]) BY <1>1, ExprsFacts DEF ExprsAre, AllExprsOK
  <2> QED BY <2>1
<1>4. ASSUME NEW d \in P PROVE d + 1 \in P
  <2>1. ASSUME d + 1 <= Depth PROVE AllExprsOK(Exprs[d + 1])
    <3> DEFINE k == d + 1
    <3>1. k \in 1..Depth /\ k - 1 = d /\ d <= Depth BY <1>2, <2>1
    <3>2. AllExprsOK(Exprs[d]) BY <3>1
    <3> HIDE DEF k
    <3>3. \A t \in Type : Exprs[k][t] = OwnExprs(t) \cup ComposedExprs(t, Exprs[k - 1])
      BY <3>1, ExprsFacts, Zenon DEF ExprsAre
    <3>4. \A t \in Type : Exprs[k][t] = OwnExprs(t) \cup ComposedExprs(t, Exprs[d])
      BY <3>1, <3>3, Zenon
    <3>5. \A t \in Type : \A e \in ComposedExprs(t, Exprs[d]) : ExprOK(e, t)
      BY <3>2, ComposedAre, Zenon
    <3>6. AllExprsOK(Exprs[k]) BY <1>1, <3>4, <3>5, Zenon DEF AllExprsOK
    <3> QED BY <3>6 DEF k
  <2> QED BY <2>1
<1>5. P \in SUBSET Nat OBVIOUS
<1> HIDE DEF P
<1>6. \A d \in Nat : d \in P BY <1>3, <1>4, <1>5, SetInduction, Zenon
<1> QED BY <1>2, <1>6 DEF P

LEMMA AssignableAreOK ==
  ASSUME DOMAIN globals \subseteq Global
  PROVE  \A d \in 0..Depth : AllAssignableOK(Assignable[d])
<1> DEFINE P == {d \in Nat : d <= Depth => AllAssignableOK(Assignable[d])}
<1>1. \A t \in Type : \A v \in Variables(t) : AssignableOK(v, t) BY VariablesAre, Zenon
<1>2. Depth \in Nat BY ValuesAssumption
<1>3. 0 \in P
  <2>1. AllAssignableOK(Assignable[0]) BY <1>1, AssignableFacts DEF AssignableAre, AllAssignableOK
  <2> QED BY <2>1
<1>7. ASSUME NEW inner, AllAssignableOK(inner), NEW t \in Type, NEW v \in AssignableItems(t, inner)
      PROVE  AssignableOK(v, t)
  <2>1. t.dims # MaxDims BY <1>7 DEF AssignableItems
  <2>2. t.dims < MaxDims /\ ArrayOf(t) \in Type
    <3>1. t.dims \in 0..MaxDims /\ MaxDims \in Nat /\ ArrayFacts(t)
      BY TypeFacts, ValuesAssumption DEF ArrayFacts
    <3>2. t.dims < MaxDims BY <2>1, <3>1
    <3> QED BY <3>1, <3>2 DEF ArrayFacts
  <2> DEFINE R(i, e) == [value |-> VisitSubscript(i, e.value, ArrayOf(t)),
                         address |-> i \o e.value \o <<LoadElementAddress(ArrayOf(t))>>]
  <2>3. PICK i \in Indexes, e \in inner[ArrayOf(t)] : v = R(i, e)
    <3>1. AssignableItems(t, inner) = {R(i, e) : i \in Indexes, e \in inner[ArrayOf(t)]}
      BY <2>1 DEF AssignableItems
    <3>2. v \in AssignableItems(t, inner) BY <1>7, Zenon
    <3> HIDE DEF R
    <3> QED BY <3>1, <3>2
  <2>4. /\ v.value = VisitSubscript(i, e.value, ArrayOf(t))
        /\ v.address = i \o e.value \o <<LoadElementAddress(ArrayOf(t))>>
    BY <2>3 DEF R
  <2>5. AssignableOK(e, ArrayOf(t)) BY <1>7, <2>2, Zenon DEF AllAssignableOK
  <2>6. ExprOK(i, Int0) BY IndexesAre, Zenon
  <2>7. /\ \A a : Here(a) => Yields(v.value, a, Push1(a, t, "kept"))
        /\ \A a : Here(a) => Yields(v.address, a, Push1(a, t, "address"))
    BY <2>2, <2>4, <2>5, <2>6, ItemAssignable, Zenon
  <2> QED BY <2>7, Zenon DEF AssignableOK
<1>4. ASSUME NEW d \in P PROVE d + 1 \in P
  <2>1. ASSUME d + 1 <= Depth PROVE AllAssignableOK(Assignable[d + 1])
    <3> DEFINE k == d + 1
    <3>1. k \in 1..Depth /\ k - 1 = d /\ d <= Depth BY <1>2, <2>1
    <3>2. AllAssignableOK(Assignable[d]) BY <3>1
    <3> HIDE DEF k
    <3>3. \A t \in Type : Assignable[k][t] = Variables(t) \cup AssignableItems(t, Assignable[k - 1])
      BY <3>1, AssignableFacts, Zenon DEF AssignableAre
    <3>4. \A t \in Type : Assignable[k][t] = Variables(t) \cup AssignableItems(t, Assignable[d])
      BY <3>1, <3>3, Zenon
    <3>5. \A t \in Type : \A v \in AssignableItems(t, Assignable[d]) : AssignableOK(v, t)
      BY <3>2, <1>7, Zenon
    <3>6. AllAssignableOK(Assignable[k]) BY <1>1, <3>4, <3>5, Zenon DEF AllAssignableOK
    <3> QED BY <3>6 DEF k
  <2> QED BY <2>1
<1>5. P \in SUBSET Nat OBVIOUS
<1> HIDE DEF P
<1>6. \A d \in Nat : d \in P BY <1>3, <1>4, <1>5, SetInduction, Zenon
<1> QED BY <1>2, <1>6 DEF P

-----------------------------------------------------------------------------
(* Statements leave nothing on the operands. *)

Rest(b) == b.operands = <<>> /\ b.mode = "any" /\ Len(b.locals) <= MaxLocals

(* Variables and operands have a shape, and what is left of the code makes *)
(* it one without operands.                                                *)
CodeFits(a) == status = "running" => \E b \in Shape : Yields(code, a, b) /\ Rest(b)
IInv ==
  /\ status \in {"running", "exited", "aborted"}
  /\ \E a \in Shape : Fitting(a) /\ CodeFits(a)

Idle(a) ==
  /\ a \in Shape /\ Fitting(a) /\ Here(a) /\ a.operands = <<>> /\ Rest(a)
  /\ DOMAIN globals \subseteq Global

LEMMA IdleIs ==
  ASSUME IInv, status = "running", code = <<>>
  PROVE  \E a : Idle(a)
<1>1. PICK a \in Shape : Fitting(a) /\ CodeFits(a) BY DEF IInv
<1>2. PICK b \in Shape : Yields(<<>>, a, b) /\ Rest(b) BY <1>1 DEF CodeFits
<1>3. Rest(a)
  <2>1. a = b BY <1>2, YieldsShapes, Zenon
  <2> QED BY <1>2, <2>1, Zenon
<1>4. Slots(storages, globals, locals, a) BY <1>1, Zenon DEF Fitting, Fits
<1>5. /\ DOMAIN globals = a.globals /\ Len(locals) = Len(a.locals) /\ locals \in Seq(Local)
      /\ \A i \in DOMAIN locals : a.locals[i] = locals[i].type
  BY <1>4, Zenon DEF Slots
<1>6. DOMAIN locals = 1..Len(locals) BY <1>5
<1>7. a.globals \subseteq Global BY ShapeIs DEF ShapeFacts
<1>8. Here(a) BY <1>3, <1>5, <1>6, Zenon DEF Here, Rest
<1> QED BY <1>1, <1>3, <1>5, <1>7, <1>8, Zenon DEF Idle, Rest

LEMMA Compiled ==
  ASSUME NEW a, Idle(a), NEW b, NEW cmds, Yields(cmds, a, b), Rest(b), status = "running",
         Compile(cmds)
  PROVE  IInv'
<1>1. /\ code' = cmds /\ storages' = storages /\ globals' = globals /\ locals' = locals
      /\ operands' = operands /\ status' = "running"
  BY DEF Compile
<1>2. a \in Shape /\ Fits(storages, globals, locals, operands, a) BY DEF Idle, Fitting
<1>3. b \in Shape BY YieldsShapes
<1>4. Fits(storages', globals', locals', operands', a) BY <1>1, <1>2, Zenon
<1>5. \E d \in Shape : Yields(code', a, d) /\ Rest(d) BY <1>1, <1>3, Zenon
<1>6. status' \in {"running", "exited", "aborted"} BY <1>1
<1>7. \E d \in Shape : /\ Fits(storages', globals', locals', operands', d)
                       /\ \E e \in Shape : Yields(code', d, e) /\ Rest(e)
  BY <1>2, <1>4, <1>5, Zenon
<1> QED BY <1>6, <1>7, Zenon DEF IInv, Fitting, CodeFits

(* What is left of a value is dropped. *)
LEMMA DropCode ==
  ASSUME NEW a, Idle(a), NEW t \in Type, NEW e, ExprOK(e, t), NEW c,
         \A b : PushIs(a, t, b, "any") => Step(c, b, a)
  PROVE  Yields(Append(e, c), a, a)
<1> DEFINE b == Push1(a, t, "any")
<1>1. a \in Shape /\ Here(a) BY DEF Idle
<1>2. PushIs(a, t, b, "any") BY <1>1, Push1Is
<1>3. Yields(e, a, b) BY <1>1, Zenon DEF ExprOK
<1>4. Step(c, b, a) BY <1>2, Zenon
<1> QED BY <1>1, <1>3, <1>4, YieldsStep, Zenon

DropsTop(a, b, t, m) ==
  On(b, 1, t) /\ Pops(b, a, 1) /\ SameVars(b, a) /\ Modes(b, a, m, "any")

LEMMA DropIs ==
  ASSUME NEW a, Idle(a), NEW t, NEW b, NEW m, PushIs(a, t, b, m)
  PROVE  DropsTop(a, b, t, m)
<1>1. a.mode = "any" BY DEF Idle, Rest
<1>2. /\ On(b, 1, t) /\ 1 \in 0..Len(b.operands) /\ Under(b.operands, 1) = a.operands
      /\ SameVars(a, b) /\ b.mode = m
  BY DEF PushIs
<1>3. SameVars(b, a) BY <1>2, Zenon DEF SameVars
<1> QED BY <1>1, <1>2, <1>3, Zenon DEF DropsTop, Pops, Modes

LEMMA ExprStmtOK ==
  ASSUME IInv, ExprStmt
  PROVE  IInv'
<1>1. status = "running" /\ code = <<>> BY DEF ExprStmt, CanStart
<1>2. PICK a : Idle(a) BY <1>1, IdleIs
<1>3. a \in Shape /\ DOMAIN globals \subseteq Global /\ Rest(a) BY <1>2 DEF Idle
<1>4. Depth \in 0..Depth /\ Depth - 1 \in 0..Depth BY ValuesAssumption
<1>5. AllExprsOK(Exprs[Depth]) /\ AllExprsOK(Exprs[Depth - 1]) BY <1>3, <1>4, ExprsAreOK
<1>6. ASSUME NEW t \in Type PROVE \A b : PushIs(a, t, b, "any") => Step(Unload(t), b, a)
  <2> SUFFICES ASSUME NEW b, PushIs(a, t, b, "any") PROVE Step(Unload(t), b, a) BY Zenon
  <2> DEFINE c == Unload(t)
  <2>1. c.op = "Unload" /\ c.type = t BY DEF Unload, Cmd
  <2> HIDE DEF c
  <2>2. StepUnload(c, b, a) BY <1>2, <2>1, DropIs, Zenon DEF StepUnload, DropsTop, Plainly
  <2>3. Step(c, b, a) BY <2>1, <2>2, Zenon DEF Step
  <2> QED BY <2>3 DEF c
<1>7. \A b : PushIs(a, String0, b, "any") => Step(CallNativePrint, b, a)
  <2> SUFFICES ASSUME NEW b, PushIs(a, String0, b, "any") PROVE Step(CallNativePrint, b, a) BY Zenon
  <2>1. CallNativePrint.op = "CallNative" BY DEF CallNativePrint
  <2>2. StepCallNative(b, a) BY <1>2, DropIs, Zenon DEF StepCallNative, DropsTop, Plainly
  <2> QED BY <2>1, <2>2, Zenon DEF Step
<1>8. PICK t \in StmtType :
        \/ \E e \in Exprs[Depth][t] :
             Compile(Append(e, IF t = String0 THEN CallNativePrint ELSE Unload(t)))
        \/ \E l, r \in Exprs[Depth - 1][t] : Compile(Append(EqualExpr(l, r, t), Unload(Int0)))
  BY Zenon DEF ExprStmt
<1>9. t \in Type BY ValuesAssumption DEF StmtType
<1>10. ASSUME NEW e \in Exprs[Depth][t],
              Compile(Append(e, IF t = String0 THEN CallNativePrint ELSE Unload(t)))
       PROVE  IInv'
  <2> DEFINE c == IF t = String0 THEN CallNativePrint ELSE Unload(t)
  <2>1. \A b : PushIs(a, t, b, "any") => Step(c, b, a) BY <1>6, <1>7, <1>9, Zenon
  <2>2. ExprOK(e, t) BY <1>5, <1>9, Zenon DEF AllExprsOK
  <2> HIDE DEF c
  <2>3. Yields(Append(e, c), a, a) BY <1>2, <1>9, <2>1, <2>2, DropCode, Zenon
  <2>4. Compile(Append(e, c)) BY <1>10, Zenon DEF c
  <2> QED BY <1>1, <1>2, <1>3, <2>3, <2>4, Compiled, Zenon
<1>11. ASSUME NEW l \in Exprs[Depth - 1][t], NEW r \in Exprs[Depth - 1][t],
              Compile(Append(EqualExpr(l, r, t), Unload(Int0)))
       PROVE  IInv'
  <2>1. ExprOK(l, t) /\ ExprOK(r, t) BY <1>5, <1>9, Zenon DEF AllExprsOK
  <2>2. ExprOK(EqualExpr(l, r, t), Int0) /\ Int0 \in Type BY <1>9, <2>1, EqualIs, TypeFacts
  <2>3. Yields(Append(EqualExpr(l, r, t), Unload(Int0)), a, a)
    BY <1>2, <1>6, <2>2, DropCode, Zenon
  <2> QED BY <1>1, <1>2, <1>3, <1>11, <2>3, Compiled, Zenon
<1> QED BY <1>8, <1>10, <1>11, Zenon

LEMMA AssignStmtOK ==
  ASSUME IInv, AssignStmt
  PROVE  IInv'
<1>1. status = "running" /\ code = <<>> BY DEF AssignStmt, CanStart
<1>2. PICK a : Idle(a) BY <1>1, IdleIs
<1>3. a \in Shape /\ DOMAIN globals \subseteq Global /\ Rest(a) /\ Here(a) BY <1>2 DEF Idle
<1>4. Depth \in 0..Depth BY ValuesAssumption
<1>5. AllExprsOK(Exprs[Depth]) /\ AllAssignableOK(Assignable[Depth])
  BY <1>3, <1>4, ExprsAreOK, AssignableAreOK
<1>11. PICK t \in StmtType \cup {Int0} :
         \E left \in Assignable[Depth][t] : \E right \in Exprs[Depth][t] :
           Compile(VisitAssign(left.address, right, t))
  BY Zenon DEF AssignStmt
<1>6. PICK left \in Assignable[Depth][t], right \in Exprs[Depth][t] :
        Compile(VisitAssign(left.address, right, t))
  BY <1>11, Zenon
<1>7. t \in Type BY ValuesAssumption, TypeFacts DEF StmtType
<1>8. ExprOK(right, t) BY <1>5, <1>7, Zenon DEF AllExprsOK
<1>9. \A b : Here(b) => Yields(left.address, b, Push1(b, t, "address"))
  BY <1>5, <1>7, Zenon DEF AllAssignableOK, AssignableOK
<1>10. Yields(VisitAssign(left.address, right, t), a, a)
  BY <1>3, <1>7, <1>8, <1>9, AssignIs, Zenon
<1> QED BY <1>1, <1>2, <1>3, <1>6, <1>10, Compiled, Zenon

LEMMA PreIncStmtOK ==
  ASSUME IInv, PreIncStmt
  PROVE  IInv'
<1>1. status = "running" /\ code = <<>> BY DEF PreIncStmt, CanStart
<1>2. PICK a : Idle(a) BY <1>1, IdleIs
<1>3. a \in Shape /\ DOMAIN globals \subseteq Global /\ Rest(a) /\ Here(a) BY <1>2 DEF Idle
<1>4. Depth \in 0..Depth BY ValuesAssumption
<1>5. AllAssignableOK(Assignable[Depth]) BY <1>3, <1>4, AssignableAreOK
<1>6. PICK left \in Assignable[Depth][Int0] : Compile(Append(left.address, PreIncInt))
  BY Zenon DEF PreIncStmt
<1> DEFINE b == Push1(a, Int0, "address")
<1>7. Yields(left.address, a, b)
  BY <1>3, <1>5, TypeFacts, Zenon DEF AllAssignableOK, AssignableOK
<1>8. PushIs(a, Int0, b, "address") BY <1>3, TypeFacts, Push1Is
<1>9. DropsTop(a, b, Int0, "address") BY <1>2, <1>8, DropIs, Zenon
<1>10. StepPreInc(b, a) BY <1>9, Zenon DEF StepPreInc, DropsTop
<1>11. PreIncInt.op = "PreInc" BY DEF PreIncInt
<1> HIDE DEF b
<1>12. Step(PreIncInt, b, a) BY <1>10, <1>11, Zenon DEF Step
<1>13. Yields(Append(left.address, PreIncInt), a, a) BY <1>3, <1>7, <1>12, YieldsStep, Zenon
<1> QED BY <1>1, <1>2, <1>3, <1>6, <1>13, Compiled, Zenon

(* Variables that come and go. *)
Vars(a, lo, gl) ==
  [operands |-> a.operands, locals |-> lo, globals |-> gl, mode |-> "any"]

VarsIs(a, b, lo, gl) ==
  /\ b \in Shape /\ b.operands = <<>> /\ b.mode = "any" /\ b.locals = lo /\ b.globals = gl
  /\ Pops(a, b, 0)
  /\ \A t, c : PushIs(a, t, c, "any") =>
       On(c, 1, t) /\ Pops(c, b, 1) /\ SameVars(a, c) /\ c.mode = "any" /\ c \in Shape

LEMMA VarsFacts ==
  ASSUME NEW a, Idle(a), NEW lo \in Seq(Type), NEW gl \in SUBSET Global
  PROVE  VarsIs(a, Vars(a, lo, gl), lo, gl)
<1> DEFINE b == Vars(a, lo, gl)
<1>1. a \in Shape /\ a.operands = <<>> BY DEF Idle
<1>2. a.operands \in Seq(Type) BY <1>1, ShapeIs DEF ShapeFacts
<1>3. b \in Shape BY <1>2 DEF Vars, Shape
<1>4. b.operands = a.operands /\ b.mode = "any" /\ b.locals = lo /\ b.globals = gl BY DEF Vars
<1> HIDE DEF b
<1>5. Under(a.operands, 0) = a.operands /\ 0 \in 0..Len(a.operands) BY <1>2 DEF Under
<1>6. Pops(a, b, 0) BY <1>4, <1>5, Zenon DEF Pops
<1>7. \A t, c : PushIs(a, t, c, "any") =>
       On(c, 1, t) /\ Pops(c, b, 1) /\ SameVars(a, c) /\ c.mode = "any" /\ c \in Shape
  BY <1>4, Zenon DEF PushIs, Pops
<1> QED BY <1>1, <1>3, <1>4, <1>6, <1>7, Zenon DEF VarsIs, b

LEMMA GlobalVarDefOK ==
  ASSUME IInv, VisitGlobalVarDef
  PROVE  IInv'
<1>1. status = "running" /\ code = <<>> BY DEF VisitGlobalVarDef, CanStart
<1>2. PICK a : Idle(a) BY <1>1, IdleIs
<1>3. /\ a \in Shape /\ DOMAIN globals \subseteq Global /\ Rest(a) /\ Here(a)
      /\ a.globals = DOMAIN globals /\ a.mode = "any"
  BY <1>2 DEF Idle, Here
<1>4. Depth \in 0..Depth BY ValuesAssumption
<1>5. AllExprsOK(Exprs[Depth]) BY <1>3, <1>4, ExprsAreOK
<1>6. PICK x \in Global \ DOMAIN globals :
        \/ Compile(<<CreateGlobalVar(x)>>)
        \/ \E e \in Exprs[Depth][TypeOf[x]] : Compile(Append(e, CreateAndInitGlobalVar(x)))
  BY Zenon DEF VisitGlobalVarDef
<1> DEFINE t == TypeOf[x]
           c == CreateGlobalVar(x)
           d == CreateAndInitGlobalVar(x)
           gl == a.globals \cup {x}
           b == Vars(a, a.locals, gl)
<1>7. t \in Type BY ValuesAssumption
<1>8. /\ c.op = "CreateGlobalVar" /\ c.var = x /\ c.type = t
      /\ d.op = "CreateAndInitGlobalVar" /\ d.var = x /\ d.type = t
  BY DEF CreateGlobalVar, CreateAndInitGlobalVar
<1>9. a.locals \in Seq(Type) /\ gl \in SUBSET Global BY <1>3, ShapeIs DEF ShapeFacts
<1>10. VarsIs(a, b, a.locals, gl) BY <1>2, <1>9, VarsFacts
<1> HIDE DEF b, c, d
<1>11. b \in Shape /\ Rest(b) BY <1>3, <1>10, Zenon DEF VarsIs, Rest
<1>12. ASSUME NEW f, f \in {c, d}, NEW g, SameVars(a, g), g.mode = "any"
       PROVE  NewGlobal(f, g, b)
  <2>1. g.locals = a.locals /\ g.globals = a.globals BY <1>12, Zenon DEF SameVars
  <2>2. f.var = x /\ f.type = TypeOf[f.var] /\ f.var \in Global \ g.globals
        /\ b.globals = g.globals \cup {f.var} /\ b.locals = g.locals /\ b.mode = "any"
    BY <1>3, <1>8, <1>10, <1>12, <2>1 DEF VarsIs
  <2> QED BY <1>12, <2>2, Zenon DEF NewGlobal, Modes
<1>13. ASSUME Compile(<<c>>) PROVE IInv'
  <2>1. NewGlobal(c, a, b) BY <1>3, <1>12, Zenon DEF SameVars
  <2>2. StepCreateGlobalVar(c, a, b) BY <1>10, <2>1, Zenon DEF StepCreateGlobalVar, VarsIs
  <2>3. Step(c, a, b) BY <1>8, <2>2, Zenon DEF Step
  <2>4. Yields(<<c>>, a, b) BY <1>3, <1>11, <2>3, YieldsOne, Zenon
  <2> QED BY <1>1, <1>2, <1>11, <1>13, <2>4, Compiled, Zenon
<1>14. ASSUME NEW e \in Exprs[Depth][t], Compile(Append(e, d)) PROVE IInv'
  <2> DEFINE g == Push1(a, t, "any")
  <2>1. Yields(e, a, g) BY <1>3, <1>5, <1>7, Zenon DEF AllExprsOK, ExprOK
  <2>2. PushIs(a, t, g, "any") BY <1>3, <1>7, Push1Is
  <2> HIDE DEF g
  <2>3. On(g, 1, t) /\ Pops(g, b, 1) /\ SameVars(a, g) /\ g.mode = "any"
    BY <1>10, <2>2, Zenon DEF VarsIs
  <2>4. NewGlobal(d, g, b) BY <1>12, <2>3, Zenon
  <2>5. StepCreateAndInitGlobalVar(d, g, b)
    BY <1>8, <2>3, <2>4, Zenon DEF StepCreateAndInitGlobalVar
  <2>6. Step(d, g, b) BY <1>8, <2>5, Zenon DEF Step
  <2>7. Yields(Append(e, d), a, b) BY <1>11, <2>1, <2>6, YieldsStep, Zenon
  <2> QED BY <1>1, <1>2, <1>11, <1>14, <2>7, Compiled, Zenon
<1> QED BY <1>6, <1>13, <1>14, Zenon DEF c, d, t

LEMMA LocalVarDefOK ==
  ASSUME IInv, VisitLocalVarDef
  PROVE  IInv'
<1>1. status = "running" /\ code = <<>> /\ Len(locals) < MaxLocals
  BY DEF VisitLocalVarDef, CanStart
<1>2. PICK a : Idle(a) BY <1>1, IdleIs
<1>3. /\ a \in Shape /\ DOMAIN globals \subseteq Global /\ Rest(a) /\ Here(a)
      /\ a.mode = "any" /\ Len(a.locals) < MaxLocals
  BY <1>1, <1>2 DEF Idle, Here
<1>4. Depth \in 0..Depth BY ValuesAssumption
<1>5. AllExprsOK(Exprs[Depth]) BY <1>3, <1>4, ExprsAreOK
<1>6. PICK t \in LocalType :
        \/ Compile(<<CreateLocalVar(t)>>)
        \/ \E e \in Exprs[Depth][t] : Compile(Append(e, CreateAndInitLocalVar(t)))
  BY Zenon DEF VisitLocalVarDef
<1> DEFINE c == CreateLocalVar(t)
           d == CreateAndInitLocalVar(t)
           lo == Append(a.locals, t)
           b == Vars(a, lo, a.globals)
<1>7. t \in Type BY ValuesAssumption
<1>8. /\ c.op = "CreateLocalVar" /\ c.type = t /\ d.op = "CreateAndInitLocalVar" /\ d.type = t
  BY DEF CreateLocalVar, CreateAndInitLocalVar, Cmd
<1>9. lo \in Seq(Type) /\ Len(lo) <= MaxLocals /\ a.globals \in SUBSET Global
  <2>1. a.locals \in Seq(Type) /\ a.globals \in SUBSET Global BY <1>3, ShapeIs DEF ShapeFacts
  <2>2. lo \in Seq(Type) /\ Len(lo) = Len(a.locals) + 1 /\ Len(a.locals) \in Nat BY <1>7, <2>1
  <2> QED BY <1>3, <2>1, <2>2, ValuesAssumption
<1>10. VarsIs(a, b, lo, a.globals) BY <1>2, <1>9, VarsFacts
<1> HIDE DEF b, c, d
<1>11. b \in Shape /\ Rest(b) BY <1>9, <1>10, Zenon DEF VarsIs, Rest
<1>12. ASSUME NEW f, f \in {c, d}, NEW g, SameVars(a, g), g.mode = "any"
       PROVE  NewLocal(f, g, b)
  <2>1. g.locals = a.locals /\ g.globals = a.globals BY <1>12, Zenon DEF SameVars
  <2>2. f.type = t BY <1>8, <1>12
  <2>3. b.locals = Append(g.locals, f.type) /\ b.globals = g.globals /\ b.mode = "any"
    BY <1>10, <2>1, <2>2, Zenon DEF VarsIs
  <2> QED BY <1>7, <1>12, <2>2, <2>3, Zenon DEF NewLocal, Modes
<1>13. ASSUME Compile(<<c>>) PROVE IInv'
  <2>1. NewLocal(c, a, b) BY <1>3, <1>12, Zenon DEF SameVars
  <2>2. StepCreateLocalVar(c, a, b) BY <1>10, <2>1, Zenon DEF StepCreateLocalVar, VarsIs
  <2>3. Step(c, a, b) BY <1>8, <2>2, Zenon DEF Step
  <2>4. Yields(<<c>>, a, b) BY <1>3, <1>11, <2>3, YieldsOne, Zenon
  <2> QED BY <1>1, <1>2, <1>11, <1>13, <2>4, Compiled, Zenon
<1>14. ASSUME NEW e \in Exprs[Depth][t], Compile(Append(e, d)) PROVE IInv'
  <2> DEFINE g == Push1(a, t, "any")
  <2>1. Yields(e, a, g) BY <1>3, <1>5, <1>7, Zenon DEF AllExprsOK, ExprOK
  <2>2. PushIs(a, t, g, "any") BY <1>3, <1>7, Push1Is
  <2> HIDE DEF g
  <2>3. On(g, 1, t) /\ Pops(g, b, 1) /\ SameVars(a, g) /\ g.mode = "any"
    BY <1>10, <2>2, Zenon DEF VarsIs
  <2>4. NewLocal(d, g, b) BY <1>12, <2>3, Zenon
  <2>5. StepCreateAndInitLocalVar(d, g, b)
    BY <1>8, <2>3, <2>4, Zenon DEF StepCreateAndInitLocalVar
  <2>6. Step(d, g, b) BY <1>8, <2>5, Zenon DEF Step
  <2>7. Yields(Append(e, d), a, b) BY <1>11, <2>1, <2>6, YieldsStep, Zenon
  <2> QED BY <1>1, <1>2, <1>11, <1>14, <2>7, Compiled, Zenon
<1> QED BY <1>6, <1>13, <1>14, Zenon DEF c, d

LEMMA EndScopeOK ==
  ASSUME IInv, EndScope
  PROVE  IInv'
<1>1. status = "running" /\ code = <<>> /\ locals # <<>> /\ Compile(<<DestroyLocalVar(LastLocal.type)>>)
  BY DEF EndScope
<1>2. PICK a : Idle(a) BY <1>1, IdleIs
<1>3. /\ a \in Shape /\ Rest(a) /\ a.mode = "any" /\ Len(a.locals) = Len(locals)
      /\ DOMAIN locals = 1..Len(locals) /\ \A i \in DOMAIN locals : a.locals[i] = locals[i].type
      /\ Len(a.locals) <= MaxLocals
  BY <1>2, Zenon DEF Idle, Here, Rest
<1>4. locals \in Seq(Local) BY <1>2, Zenon DEF Idle, Fitting, Fits, Slots
<1> DEFINE n == Len(a.locals)
           c == DestroyLocalVar(LastLocal.type)
           lo == Under(a.locals, 1)
           b == Vars(a, lo, a.globals)
<1>5. n \in Nat /\ n > 0 /\ n \in DOMAIN locals BY <1>1, <1>3, <1>4
<1>6. c.op = "DestroyLocalVar" /\ c.type = a.locals[n]
  BY <1>3, <1>5 DEF DestroyLocalVar, Cmd, LastLocal
<1>7. lo \in Seq(Type) /\ Len(lo) <= MaxLocals /\ a.globals \in SUBSET Global
  <2>1. a.locals \in Seq(Type) /\ a.globals \in SUBSET Global BY <1>3, ShapeIs DEF ShapeFacts
  <2>2. 1 \in 0..n BY <1>5
  <2>3. lo \in Seq(Type) /\ Len(lo) = n - 1 BY <2>1, <2>2, UnderFacts DEF UnderIs
  <2> QED BY <1>3, <1>5, <2>1, <2>3, ValuesAssumption
<1>8. VarsIs(a, b, lo, a.globals) BY <1>2, <1>7, VarsFacts
<1> HIDE DEF b, c
<1>9. b \in Shape /\ Rest(b) BY <1>7, <1>8, Zenon DEF VarsIs, Rest
<1>10. StepDestroyLocalVar(c, a, b)
  BY <1>3, <1>5, <1>6, <1>8, Zenon DEF StepDestroyLocalVar, VarsIs, Modes
<1>11. Step(c, a, b) BY <1>6, <1>10, Zenon DEF Step
<1>12. Yields(<<c>>, a, b) BY <1>3, <1>9, <1>11, YieldsOne, Zenon
<1>13. Compile(<<c>>) BY <1>1, Zenon DEF c
<1> QED BY <1>1, <1>2, <1>9, <1>12, <1>13, Compiled, Zenon

-----------------------------------------------------------------------------
(* The invariant *)

LEMMA InitOK ==
  ASSUME Init
  PROVE  IInv
<1> DEFINE a == [operands |-> <<>>, locals |-> <<>>, globals |-> {}, mode |-> "any"]
           A == Outer(globals, locals, operands)
<1>1. /\ DOMAIN storages = {} /\ storages = [s \in {} |-> storages[s]]
      /\ DOMAIN globals = {} /\ locals = <<>> /\ operands = <<>> /\ code = <<>>
      /\ status = "running"
  BY DEF Init
<1>2. DOMAIN locals = {} /\ Len(locals) = 0 /\ DOMAIN operands = {} /\ Len(operands) = 0 BY <1>1
<1>3. A = {}
  <2>1. DOMAIN Locs(locals) = {} BY <1>2 DEF Locs
  <2>2. \A h, vs : DOMAIN vs = {} => RefsAmong(h, vs) = {} BY DEF RefsAmong
  <2>3. RefsAmong("global", globals) = {} /\ RefsAmong("local", Locs(locals)) = {}
        /\ RefsAmong("operand", operands) = {}
    BY <1>1, <1>2, <2>1, <2>2, Zenon
  <2> QED BY <2>3 DEF Outer
<1>4. Items(storages, {}) = {} BY <1>1 DEF Items
<1>5. Typed(storages, {})
  <2>1. storages \in [DOMAIN storages -> Storage] BY <1>1
  <2> QED BY <1>1, <2>1, FS_EmptySet DEF Typed
<1> HIDE DEF A
<1>6. Good(storages, A, {}) BY <1>1, <1>3, <1>4, <1>5 DEF Good, Counted
<1>7. a \in Shape /\ a.globals = {} /\ a.locals = <<>> /\ a.operands = <<>> /\ a.mode = "any"
  BY DEF Shape
<1> HIDE DEF a
<1>8. Slots(storages, globals, locals, a)
  <2>1. locals \in Seq(Local) /\ Len(locals) = Len(a.locals) BY <1>1, <1>7
  <2> QED BY <1>1, <1>2, <1>7, <2>1 DEF Slots
<1>9. Stack(storages, globals, locals, operands, a)
  <2>1. operands \in Seq(Operand) /\ Len(operands) = Len(a.operands) BY <1>1, <1>7
  <2>2. OpsOK(storages, operands, a.operands, Len(operands)) BY <1>2 DEF OpsOK
  <2> QED BY <1>7, <2>1, <2>2 DEF Stack
<1>10. Fitting(a) BY <1>6, <1>8, <1>9 DEF Fitting, Fits, A
<1>11. Yields(code, a, a) BY <1>1, <1>7, YieldsNone
<1>12. Rest(a) BY <1>7, ValuesAssumption DEF Rest
<1> QED BY <1>1, <1>7, <1>10, <1>11, <1>12, Zenon DEF IInv, CodeFits

LEMMA CommandOK ==
  ASSUME ~IsFiniteSet(StorageId), IInv, ExecutesCmd
  PROVE  IInv'
<1>1. status = "running" /\ code # <<>> /\ code' = Tail(code) BY CommandIs
<1>2. PICK a \in Shape : Fitting(a) /\ CodeFits(a) BY DEF IInv
<1>3. PICK b \in Shape : Yields(code, a, b) /\ Rest(b) BY <1>1, <1>2 DEF CodeFits
<1>4. PICK d \in Shape : Step(Head(code), a, d) /\ Yields(Tail(code), d, b)
  BY <1>1, <1>3, YieldsHead, Zenon
<1>5. Ran(d) BY <1>2, <1>4, CommandRuns, Zenon
<1>6. CASE status' = "running" /\ Fits(storages', globals', locals', operands', d)
  <2>1. \E e \in Shape : Yields(code', d, e) /\ Rest(e) BY <1>1, <1>3, <1>4, Zenon
  <2>2. \E f \in Shape : /\ Fits(storages', globals', locals', operands', f)
                         /\ status' = "running" => \E e \in Shape : Yields(code', f, e) /\ Rest(e)
    BY <1>6, <2>1, Zenon
  <2>3. status' \in {"running", "exited", "aborted"} BY <1>6
  <2> QED BY <2>2, <2>3, Zenon DEF IInv, Fitting, CodeFits
<1>7. CASE status' = "aborted" /\ UNCHANGED <<storages, globals, locals, operands>>
  <2>1. storages' = storages /\ globals' = globals /\ locals' = locals /\ operands' = operands
    BY <1>7
  <2>2. Fits(storages', globals', locals', operands', a) BY <1>2, <2>1, Zenon DEF Fitting
  <2>3. status' # "running" /\ status' \in {"running", "exited", "aborted"} BY <1>7
  <2>4. \E f \in Shape : /\ Fits(storages', globals', locals', operands', f)
                         /\ status' = "running" => \E e \in Shape : Yields(code', f, e) /\ Rest(e)
    BY <2>2, <2>3, Zenon
  <2> QED BY <2>3, <2>4, Zenon DEF IInv, Fitting, CodeFits
<1> QED BY <1>5, <1>6, <1>7, Zenon DEF Ran

LEMMA ExitOK ==
  ASSUME IInv, Exit
  PROVE  IInv'
<1>1. /\ storages' = storages /\ globals' = globals /\ locals' = locals /\ operands' = operands
      /\ status' # "running" /\ status' \in {"running", "exited", "aborted"}
  BY DEF Exit
<1>2. PICK a \in Shape : Fitting(a) BY DEF IInv
<1>3. Fits(storages', globals', locals', operands', a) BY <1>1, <1>2, Zenon DEF Fitting
<1>4. \E f \in Shape : /\ Fits(storages', globals', locals', operands', f)
                       /\ status' = "running" => \E e \in Shape : Yields(code', f, e) /\ Rest(e)
  BY <1>1, <1>3, Zenon
<1> QED BY <1>1, <1>4, Zenon DEF IInv, Fitting, CodeFits

LEMMA StepOK ==
  ASSUME ~IsFiniteSet(StorageId), IInv, [Next]_vars
  PROVE  IInv'
<1>1. CASE Compiles
  BY <1>1, GlobalVarDefOK, LocalVarDefOK, EndScopeOK, AssignStmtOK, PreIncStmtOK, ExprStmtOK, Zenon
     DEF Compiles
<1>2. CASE ExecutesCmd BY <1>2, CommandOK, Zenon
<1>3. CASE Exit BY <1>3, ExitOK, Zenon
<1>4. CASE UNCHANGED vars
  <2>1. /\ storages' = storages /\ globals' = globals /\ locals' = locals /\ operands' = operands
        /\ status' = status /\ code' = code
    BY <1>4 DEF vars
  <2>2. PICK a \in Shape : Fitting(a) /\ CodeFits(a) BY DEF IInv
  <2>3. Fits(storages', globals', locals', operands', a) BY <2>1, <2>2, Zenon DEF Fitting
  <2>4. status' = "running" => \E e \in Shape : Yields(code', a, e) /\ Rest(e)
    BY <2>1, <2>2, Zenon DEF CodeFits
  <2>5. \E f \in Shape : /\ Fits(storages', globals', locals', operands', f)
                         /\ status' = "running" => \E e \in Shape : Yields(code', f, e) /\ Rest(e)
    BY <2>3, <2>4, Zenon
  <2>6. status' \in {"running", "exited", "aborted"} BY <2>1 DEF IInv
  <2> QED BY <2>5, <2>6, Zenon DEF IInv, Fitting, CodeFits
<1> QED BY <1>1, <1>2, <1>3, <1>4, Zenon DEF Next

(* Of every reachable state: variables and operands have the types that    *)
(* the compiled commands want, all references are counted, and the         *)
(* commands left make of them what the statement may leave.                *)
THEOREM ValuesInductive ==
  ASSUME ~IsFiniteSet(StorageId)
  PROVE  Spec => []IInv
<1>1. Init => IInv BY InitOK
<1>2. IInv /\ [Next]_vars => IInv' BY StepOK
<1> QED BY <1>1, <1>2, PTL DEF Spec

-----------------------------------------------------------------------------
(* What the invariant says of the properties. *)

LEMMA InvCorrupt ==
  ASSUME IInv
  PROVE  NeverCorrupt
BY DEF IInv, NeverCorrupt

LEMMA InvTypes ==
  ASSUME IInv
  PROVE  ValuesTypeOK
<1>1. PICK a \in Shape : Fitting(a) BY DEF IInv
<1>2. /\ Typed(storages, {}) /\ Slots(storages, globals, locals, a) /\ operands \in Seq(Operand)
  BY <1>1, Zenon DEF Fitting, Fits, Good, Stack
<1>3. DOMAIN storages \subseteq StorageId /\ storages \in [DOMAIN storages -> Storage]
  BY <1>2 DEF Typed
<1>4. \A s \in DOMAIN storages :
        /\ storages[s].refs \in Nat \ {0} /\ storages[s].lost \in Nat
        /\ storages[s].type \in Type \ {Int0} /\ storages[s].items \in Seq(Value)
  BY <1>3 DEF Storage
<1>5. DOMAIN globals \subseteq Global
  <2>1. DOMAIN globals = a.globals BY <1>2, Zenon DEF Slots
  <2>2. a.globals \in SUBSET Global BY ShapeIs DEF ShapeFacts
  <2> QED BY <2>1, <2>2
<1>6. \A x \in DOMAIN globals : globals[x] \in Value /\ HasStorage(TypeOf[x]) = (globals[x].kind = "ref")
  <2> SUFFICES ASSUME NEW x \in DOMAIN globals
               PROVE  /\ globals[x] \in Value
                      /\ HasStorage(TypeOf[x]) = (globals[x].kind = "ref")
    BY Zenon
  <2>1. IsOf(storages, globals[x], TypeOf[x]) BY <1>2, Zenon DEF Slots
  <2>2. globals[x] \in Value /\ (globals[x].kind = "ref" <=> HasStorage(TypeOf[x]))
    BY <1>3, <2>1, IsOfFacts
  <2> QED BY <2>2 DEF HasStorage
<1>7. \A i \in DOMAIN locals : locals[i].type \in Type /\ locals[i].value \in Value
  <2>1. locals \in Seq(Local) BY <1>2, Zenon DEF Slots
  <2>2. \A i \in DOMAIN locals : locals[i] \in Local BY <2>1
  <2> QED BY <2>2 DEF Local
<1>8. \A i \in DOMAIN operands : operands[i] \in Value \cup Address BY <1>2 DEF Operand
<1>9. status \in {"running", "exited", "aborted", "corrupt"} BY DEF IInv
<1> QED BY <1>3, <1>4, <1>5, <1>6, <1>7, <1>8, <1>9, Zenon DEF ValuesTypeOK

ReferencesAre == References = Outer(globals, locals, operands) \cup Items(storages, {})

LEMMA ReferencesIs == ReferencesAre
<1> DEFINE I == UNION {ItemsOf(storages, s) : s \in DOMAIN storages}
<1>1. Items(storages, {}) = I BY DEF Items
<1> HIDE DEF I
<1> QED BY <1>1 DEF ReferencesAre, References, OfVariables, Outer, Locs, I

LEMMA InvCounts ==
  ASSUME IInv
  PROVE  CountsHolders
<1>1. PICK a \in Shape : Fitting(a) BY DEF IInv
<1>2. Good(storages, Outer(globals, locals, operands), {}) BY <1>1, Zenon DEF Fitting, Fits
<1> DEFINE A == Outer(globals, locals, operands) \cup Items(storages, {})
<1>3. Counted(storages, A) /\ Typed(storages, {}) BY <1>2, Zenon DEF Good
<1>4. \A s : Holders(s) = Into(A, s) BY ReferencesIs DEF Holders, Into, ReferencesAre
<1> HIDE DEF A
<1>5. ASSUME NEW s \in DOMAIN storages
      PROVE  /\ storages[s].refs = Cardinality(Holders(s)) + storages[s].lost
             /\ storages[s].lost > 0 => storages[s].type = String0
  <2>1. storages[s].refs = Cardinality(Into(A, s)) + storages[s].lost BY <1>3, Zenon DEF Counted
  <2>2. storages[s].lost > 0 => storages[s].type = String0 BY <1>3, Zenon DEF Typed, ItemsOK
  <2> QED BY <1>4, <2>1, <2>2
<1> QED BY <1>5, Zenon DEF CountsHolders

(* What variables lead to. *)
ReachedFacts ==
  /\ \A r \in OfVariables : r[3] \in DOMAIN storages => r[3] \in Reached
  /\ \A s \in Reached : \A r \in ItemsOf(storages, s) :
       r[3] \in DOMAIN storages => r[3] \in Reached

LEMMA ReachedIs == ReachedFacts
<1> DEFINE Holding(ids) == (\A r \in OfVariables : r[3] \in ids) /\ IsClosed(ids)
<1>1. \A s : s \in Reached <=> /\ s \in DOMAIN storages
                               /\ \A ids \in SUBSET DOMAIN storages : Holding(ids) => s \in ids
  BY Zenon DEF Reached
<1>2. ASSUME NEW r \in OfVariables, r[3] \in DOMAIN storages PROVE r[3] \in Reached
  BY <1>1, <1>2, Zenon
<1>3. ASSUME NEW s \in Reached, NEW r \in ItemsOf(storages, s), r[3] \in DOMAIN storages
      PROVE  r[3] \in Reached
  <2>1. ASSUME NEW ids \in SUBSET DOMAIN storages, Holding(ids) PROVE r[3] \in ids
    <3>1. s \in ids BY <1>1, <2>1, Zenon
    <3> QED BY <2>1, <3>1, Zenon DEF IsClosed
  <2> QED BY <1>1, <1>3, <2>1, Zenon
<1> QED BY <1>2, <1>3, Zenon DEF ReachedFacts

Left(s) == s \in DOMAIN storages /\ s \notin Reached /\ storages[s].lost = 0

(* What is left without a variable is held by an item of what is left. *)
LEMMA LeftIsHeld ==
  ASSUME Good(storages, Outer(globals, locals, <<>>), {}), NEW s, Left(s)
  PROVE  \E r : Left(r) /\ storages[r].type.dims = storages[s].type.dims + 1
<1> DEFINE E == Outer(globals, locals, <<>>)
           I == Items(storages, {})
           A == E \cup I
<1>1. Counted(storages, A) /\ Typed(storages, {}) BY Zenon DEF Good
<1>2. s \in DOMAIN storages /\ s \notin Reached /\ storages[s].lost = 0 BY DEF Left
<1>3. E = OfVariables
  <2>1. RefsAmong("operand", <<>>) = {} BY DEF RefsAmong
  <2> QED BY <2>1 DEF Outer, OfVariables, Locs
<1> HIDE DEF E, I
<1>4. PICK e \in A : e[3] = s
  <2>1. storages[s].refs = Cardinality(Into(A, s)) + storages[s].lost BY <1>1, <1>2, Zenon DEF Counted
  <2>2. storages[s].refs \in Nat \ {0} BY <1>1, <1>2 DEF Typed, Storage
  <2>3. Into(A, s) # {}
    <3> HIDE DEF A
    <3>1. Cardinality({}) = 0 BY FS_EmptySet
    <3> SUFFICES ASSUME Into(A, s) = {} PROVE FALSE BY Zenon
    <3>2. storages[s].refs = 0 + 0 BY <1>2, <2>1, <3>1, Zenon
    <3> QED BY <2>2, <3>2
  <2> HIDE DEF A
  <2> QED BY <2>3 DEF Into
<1>5. e \notin E BY <1>2, <1>3, <1>4, ReachedIs, Zenon DEF ReachedFacts
<1>6. e \in I BY <1>4, <1>5
<1>7. PICK r \in DOMAIN storages : \E i \in DOMAIN storages[r].items : IsItem(storages, e, r, i)
  BY <1>6, ItemsIs, Zenon DEF I
<1>8. PICK i \in DOMAIN storages[r].items : IsItem(storages, e, r, i) BY <1>7, Zenon
<1>9. r \notin Reached
  <2>1. e \in ItemsOf(storages, r) BY <1>8, ItemsOfIs, Zenon
  <2> QED BY <1>2, <1>4, <2>1, ReachedIs, Zenon DEF ReachedFacts
<1>10. ItemsOK(storages, r, {}) /\ storages[r] \in Storage BY <1>1, Zenon DEF Typed
<1>11. storages[r].lost \in Nat /\ storages[r].type \in Type BY <1>10 DEF Storage
<1>12. IsArray(storages[r].type)
  <2>1. DOMAIN storages[r].items # {} BY <1>8
  <2>2. DOMAIN <<>> = {} OBVIOUS
  <2> QED BY <1>10, <2>1, <2>2, Zenon DEF ItemsOK
<1>13. storages[r].lost = 0
  <2>1. ~(storages[r].lost > 0) BY <1>10, <1>12, TypeFacts, Zenon DEF ItemsOK
  <2> QED BY <1>11, <2>1
<1>14. Left(r) BY <1>9, <1>13, Zenon DEF Left
<1>15. storages[s].type = ElementOf(storages[r].type)
  <2>1. IsOf(storages, storages[r].items[i], ElementOf(storages[r].type))
    BY <1>8, <1>10 DEF ItemsOK
  <2>2. storages[r].items[i].kind = "ref" /\ storages[r].items[i].id = s
    <3>1. storages[r].items[i].kind = "ref" /\ e = <<"item", <<r, i>>, storages[r].items[i].id>>
      BY <1>8, Zenon DEF IsItem
    <3>2. e[3] = storages[r].items[i].id BY <3>1
    <3> QED BY <1>4, <3>1, <3>2, Zenon
  <2>3. DOMAIN storages \subseteq StorageId BY <1>1, Zenon DEF Typed
  <2> QED BY <2>1, <2>2, <2>3, IsOfFacts
<1>16. storages[r].type.dims = storages[s].type.dims + 1
  <2>1. ElementOf(storages[r].type).dims = storages[r].type.dims - 1 /\ storages[r].type.dims \in Int
    BY <1>11, <1>12, TypeFacts DEF ArrayFacts
  <2> QED BY <1>15, <2>1
<1> QED BY <1>14, <1>16, Zenon

LEMMA NothingLeft ==
  ASSUME Good(storages, Outer(globals, locals, <<>>), {})
  PROVE  \A s : ~Left(s)
<1> DEFINE P == {k \in Nat : \A s : Left(s) => storages[s].type.dims + k # MaxDims}
<1>1. ASSUME NEW s, Left(s) PROVE storages[s].type.dims \in 0..MaxDims
  <2>1. Typed(storages, {}) /\ s \in DOMAIN storages BY <1>1, Zenon DEF Good, Left
  <2>2. storages[s].type \in Type BY <2>1 DEF Typed, Storage
  <2> QED BY <2>2, TypeFacts DEF ArrayFacts
<1>2. MaxDims \in Nat BY ValuesAssumption
<1>3. ASSUME NEW s, Left(s)
      PROVE  \E r : Left(r) /\ storages[r].type.dims = storages[s].type.dims + 1
  BY <1>3, LeftIsHeld, Zenon
<1>4. 0 \in P
  <2>1. ASSUME NEW s, Left(s) PROVE storages[s].type.dims + 0 # MaxDims
    <3>1. PICK r : Left(r) /\ storages[r].type.dims = storages[s].type.dims + 1 BY <1>3, <2>1, Zenon
    <3>2. storages[r].type.dims \in 0..MaxDims /\ storages[s].type.dims \in 0..MaxDims
      BY <1>1, <2>1, <3>1
    <3> QED BY <1>2, <3>1, <3>2
  <2> QED BY <2>1
<1>5. ASSUME NEW k \in P PROVE k + 1 \in P
  <2>1. k \in Nat /\ \A s : Left(s) => storages[s].type.dims + k # MaxDims OBVIOUS
  <2>2. ASSUME NEW s, Left(s) PROVE storages[s].type.dims + (k + 1) # MaxDims
    <3>1. PICK r : Left(r) /\ storages[r].type.dims = storages[s].type.dims + 1 BY <1>3, <2>2, Zenon
    <3>2. storages[r].type.dims \in 0..MaxDims /\ storages[s].type.dims \in 0..MaxDims
      BY <1>1, <2>2, <3>1
    <3>3. storages[r].type.dims + k # MaxDims BY <2>1, <3>1, Zenon
    <3> QED BY <1>2, <2>1, <3>1, <3>2, <3>3
  <2> QED BY <2>1, <2>2
<1>6. P \in SUBSET Nat OBVIOUS
<1>7. ASSUME NEW k \in P, NEW s, Left(s) PROVE storages[s].type.dims + k # MaxDims BY <1>7
<1> HIDE DEF P
<1>8. \A k \in Nat : k \in P BY <1>4, <1>5, <1>6, SetInduction, Zenon
<1>9. ASSUME NEW s, Left(s) PROVE FALSE
  <2> DEFINE k == MaxDims - storages[s].type.dims
  <2>1. storages[s].type.dims \in 0..MaxDims BY <1>1, <1>9
  <2>2. k \in Nat /\ storages[s].type.dims + k = MaxDims BY <1>2, <2>1
  <2> HIDE DEF k
  <2> QED BY <1>7, <1>8, <1>9, <2>2, Zenon
<1> QED BY <1>9, Zenon

LEMMA InvLeaves ==
  ASSUME IInv
  PROVE  StatementsLeaveNothing
<1> SUFFICES ASSUME status = "running", code = <<>>
             PROVE  operands = <<>> /\ \A s \in DOMAIN storages \ Reached : storages[s].lost > 0
  BY Zenon DEF StatementsLeaveNothing
<1>1. PICK a : Idle(a) BY IdleIs
<1>2. a.operands = <<>> /\ Fits(storages, globals, locals, operands, a) BY <1>1 DEF Idle, Fitting
<1>3. operands = <<>>
  <2>1. operands \in Seq(Operand) /\ Len(operands) = Len(<<>>) BY <1>2 DEF Fits, Stack
  <2> QED BY <2>1
<1>4. Good(storages, Outer(globals, locals, <<>>), {}) BY <1>2, <1>3, Zenon DEF Fits
<1>5. ASSUME NEW s \in DOMAIN storages \ Reached PROVE storages[s].lost > 0
  <2>1. ~Left(s) BY <1>4, NothingLeft
  <2>2. storages[s].lost # 0 BY <2>1, Zenon DEF Left
  <2>3. Typed(storages, {}) BY <1>4, Zenon DEF Good
  <2>4. storages[s].lost \in Nat BY <2>3 DEF Typed, Storage
  <2> QED BY <2>2, <2>4
<1> QED BY <1>3, <1>5, Zenon

(* Every storage counts the variables, operands and items that refer to    *)
(* it, after each single command of every program (Clone, DecRefsCount,    *)
(* Set, and the moves that change no count); only strings that were        *)
(* overwritten count more (StringValue's move assignment).                 *)
THEOREM SpecCountsHolders ==
  ASSUME ~IsFiniteSet(StorageId)
  PROVE  Spec => []CountsHolders
<1>1. Spec => []IInv BY ValuesInductive
<1>2. IInv => CountsHolders BY InvCounts
<1> QED BY <1>1, <1>2, PTL

(* No command of a compiled statement meets a storage that is gone or of   *)
(* another kind, nor an address that leads nowhere.                        *)
THEOREM SpecNeverCorrupt ==
  ASSUME ~IsFiniteSet(StorageId)
  PROVE  Spec => []NeverCorrupt
<1>1. Spec => []IInv BY ValuesInductive
<1>2. IInv => NeverCorrupt BY InvCorrupt
<1> QED BY <1>1, <1>2, PTL

(* Variables, operands and items are of their types. *)
THEOREM SpecValuesTypeOK ==
  ASSUME ~IsFiniteSet(StorageId)
  PROVE  Spec => []ValuesTypeOK
<1>1. Spec => []IInv BY ValuesInductive
<1>2. IInv => ValuesTypeOK BY InvTypes
<1> QED BY <1>1, <1>2, PTL

(* After a statement no operand is left, and no storage without a variable *)
(* that leads to it, but for strings that lost a reference.                *)
THEOREM SpecStatementsLeaveNothing ==
  ASSUME ~IsFiniteSet(StorageId)
  PROVE  Spec => []StatementsLeaveNothing
<1>1. Spec => []IInv BY ValuesInductive
<1>2. IInv => StatementsLeaveNothing BY InvLeaves
<1> QED BY <1>1, <1>2, PTL
=============================================================================
