------------------------------ MODULE Scalars -------------------------------
(***************************************************************************)
(* Data types, and values as the machine computes with them.  A value is a *)
(* type with a sequence of integers: an integer, a numerator and a         *)
(* denominator, the characters of a string, the storage of an array, 0 or  *)
(* 1 for a bool.  Storages of arrays are numbered in a heap, which keeps   *)
(* them all (Values is about when they go).  A computation that C++ leaves *)
(* undefined (overflow of an int or a long, division of integers by 0), or *)
(* that yields a double that is not a number or infinite, has the result   *)
(* Undefined.                                                              *)
(***************************************************************************)
EXTENDS Integers, Sequences
LOCAL INSTANCE SequencesExt

CONSTANTS
  CharMax,  \* numeric_limits<char>::max(), and so on; the least value of a
  IntMax,   \* type is -max - 1
  LongMax

ASSUME ScalarsAssumption ==
  CharMax \in Nat /\ IntMax \in Nat /\ LongMax \in Nat /\ CharMax <= IntMax /\ IntMax <= LongMax

(* DataType and its subclasses. *)
Prim(base) == [base |-> base, dims |-> 0]
BoolDataType == Prim("bool")
IntDataType == Prim("int")
LongDataType == Prim("long")
DoubleDataType == Prim("double")
CharDataType == Prim("char")
StringDataType == Prim("string")
VoidDataType == Prim("void")
ArrayDataType(element) == [element EXCEPT !.dims = @ + 1]
FuncDataType(name) == [base |-> "func", dims |-> 0, func |-> name]
VarAddress(type) == [base |-> "address", dims |-> 0, of |-> type]

IsArray(type) == type.dims > 0
ElementOf(type) == [type EXCEPT !.dims = @ - 1]
IsFunc(type) == type.base = "func"
Integral == {CharDataType, IntDataType, LongDataType}
Numeric == Integral \cup {DoubleDataType}

Value(type, v) == [type |-> type, v |-> v]
Bool(b) == Value(BoolDataType, <<IF b THEN 1 ELSE 0>>)
IsTrue(x) == x.v = <<1>>
Undefined == [type |-> Prim("undefined"), v |-> <<>>]
Default(type) ==
  Value(type, CASE type = DoubleDataType -> <<0, 1>>
                [] type = StringDataType -> <<>>
                [] OTHER -> <<0>>)

-----------------------------------------------------------------------------
MaxOf(type) ==
  CASE type = CharDataType -> CharMax [] type = IntDataType -> IntMax [] OTHER -> LongMax
Fits(type, n) == n \in -MaxOf(type) - 1 .. MaxOf(type)

(* Integers of a type that n becomes: a char is computed as an int and     *)
(* converted back, which wraps.                                            *)
Wrapped(n) == ((n + CharMax + 1) % (2 * (CharMax + 1))) - CharMax - 1
IntegerMutant(type, n) ==
  IF type = CharDataType \/ Fits(type, n) THEN Value(type, <<n>>) ELSE Undefined
Integer(type, n) ==
  IF type = CharDataType THEN Value(type, <<Wrapped(n)>>)
  ELSE IF Fits(type, n) THEN Value(type, <<n>>)
  ELSE Undefined

Num(x) == x.v[1]
Den(x) == IF x.type = DoubleDataType THEN x.v[2] ELSE 1
AbsOf(n) == IF n < 0 THEN -n ELSE n
SignOf(n) == IF n < 0 THEN -1 ELSE 1
Quotient(m, n) == SignOf(m) * SignOf(n) * (AbsOf(m) \div AbsOf(n))
Fraction(n, d) == Value(DoubleDataType, <<n, d>>)

Mul(l, r) ==
  IF l.type = DoubleDataType THEN Fraction(Num(l) * Num(r), Den(l) * Den(r))
  ELSE Integer(l.type, Num(l) * Num(r))

Div(l, r) ==
  IF Num(r) = 0 THEN Undefined
  ELSE IF l.type = DoubleDataType
       THEN Fraction(Num(l) * Den(r) * SignOf(Num(r)), Den(l) * AbsOf(Num(r)))
  ELSE Integer(l.type, Quotient(Num(l), Num(r)))

Sum(l, r) ==
  CASE l.type = DoubleDataType ->
         Fraction(Num(l) * Den(r) + Num(r) * Den(l), Den(l) * Den(r))
    [] l.type = StringDataType -> Value(StringDataType, l.v \o r.v)
    [] OTHER -> Integer(l.type, Num(l) + Num(r))

Sub(l, r) ==
  IF l.type = DoubleDataType
  THEN Fraction(Num(l) * Den(r) - Num(r) * Den(l), Den(l) * Den(r))
  ELSE Integer(l.type, Num(l) - Num(r))

(* Arrays are equal if they are the same storage. *)
Equal(l, r) ==
  IF l.type = DoubleDataType THEN Bool(Num(l) * Den(r) = Num(r) * Den(l))
  ELSE Bool(l.v = r.v)
Greater(l, r) == Bool(Num(l) * Den(r) > Num(r) * Den(l))
LogicalNegate(x) == Bool(~IsTrue(x))
ArithmeticNegate(x) ==
  IF x.type = DoubleDataType THEN Fraction(-Num(x), Den(x)) ELSE Integer(x.type, -Num(x))

(* ++ and --: by n, 1 or -1. *)
Moved(x, n) ==
  IF x.type = DoubleDataType THEN Fraction(Num(x) + n * Den(x), Den(x))
  ELSE Integer(x.type, Num(x) + n)

Cast(x, type) ==
  IF type = DoubleDataType THEN Fraction(Num(x), 1) ELSE Value(type, x.v)

-----------------------------------------------------------------------------
(* Arrays.  A heap is the sequence of the items of all storages.           *)

Array(type, storage) == Value(type, <<storage>>)
Storage(x) == x.v[1]

(* An array of these sizes, the outermost first; an array of unknown size  *)
(* is empty.                                                               *)
RECURSIVE NewArray(_, _, _)
NewArray(heap, type, sizes) ==
  LET storage == Len(heap) + 1
      Next(acc, i) ==
        IF IsArray(ElementOf(type))
        THEN LET item == NewArray(acc.heap, ElementOf(type), Tail(sizes))
             IN  [heap |-> item.heap, items |-> Append(acc.items, item.array)]
        ELSE [acc EXCEPT !.items = Append(@, Default(ElementOf(type)))]
      start == [heap |-> Append(heap, <<>>), items |-> <<>>]
      all == IF sizes = <<>> THEN start
             ELSE FoldLeft(Next, start, [i \in 1..Head(sizes) |-> i])
  IN  [heap |-> [all.heap EXCEPT ![storage] = all.items], array |-> Array(type, storage)]

NewArrayOf(heap, type, items) ==
  [heap |-> Append(heap, items), array |-> Array(type, Len(heap) + 1)]
HasItem(heap, array, index) == Num(index) >= 0 /\ Num(index) < Len(heap[Storage(array)])
GetItem(heap, array, index) == heap[Storage(array)][Num(index) + 1]
=============================================================================
