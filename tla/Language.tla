------------------------------ MODULE Language ------------------------------
(***************************************************************************)
(* What an expression of the language means, told by recursion over its    *)
(* tree: its data type, and what evaluating it does.  There are no casts,  *)
(* commands, operands or addresses of code here; a value is converted      *)
(* where another type is wanted.  ExprMachine is compared with this.       *)
(*                                                                         *)
(* Operands are evaluated from left to right, but an assignment's right    *)
(* operand first, a subscript's index before its array, and arguments,     *)
(* sizes and values of an array from the last to the first.                *)
(***************************************************************************)
EXTENDS Trees, Scalars
LOCAL INSTANCE SequencesExt

CONSTANTS MaxDims, GlobalType, Func, Body

-----------------------------------------------------------------------------
(* Data types.  char is an integer and a character: it widens along the    *)
(* integers, never at once to double, and to string.                       *)
Wrong == Prim("wrong")

Rank == [char |-> 1, int |-> 2, long |-> 3, double |-> 4]
Widens(from, to) ==
  \/ /\ {from, to} \subseteq Numeric
     /\ Rank[from.base] < Rank[to.base] /\ <<from, to>> # <<CharDataType, DoubleDataType>>
  \/ from = CharDataType /\ to = StringDataType
Becomes(from, to) == from = to \/ Widens(from, to)
Common(s, t) == IF Becomes(s, t) THEN t ELSE IF Widens(t, s) THEN s ELSE Wrong

Storable(type) == type.base \in {"bool", "int", "long", "double", "char", "string"}

RECURSIVE Written(_)
Written(node) ==
  IF node.node = "ArrayDataType"
  THEN LET element == Written(node.kids[1])
       IN  IF Storable(element) /\ element.dims < MaxDims THEN ArrayDataType(element) ELSE Wrong
  ELSE CHOOSE t \in {BoolDataType, IntDataType, LongDataType, DoubleDataType, CharDataType,
                     StringDataType, VoidDataType} :
         node.node = [bool |-> "BoolDataType", int |-> "IntDataType", long |-> "LongDataType",
                      double |-> "DoubleDataType", char |-> "CharDataType",
                      string |-> "StringDataType", void |-> "VoidDataType"][t.base]

LitOf(node) ==
  [Bool |-> BoolDataType, Int |-> IntDataType, Long |-> LongDataType, Double |-> DoubleDataType,
   Char |-> CharDataType, String |-> StringDataType][node]

(* Of a binary operator, by the common type of its operands. *)
Joined(op, type) ==
  CASE op \in {"And", "Or"} -> IF type = BoolDataType THEN type ELSE Wrong
    [] op \in {"Equal", "NotEqual"} -> IF Storable(type) THEN BoolDataType ELSE Wrong
    [] op \in {"Greater", "GreaterOrEqual", "Less", "LessOrEqual"} ->
         IF type \in Numeric THEN BoolDataType ELSE Wrong
    [] op = "Sum" -> IF type \in Numeric \cup {StringDataType} THEN type ELSE Wrong
    [] op \in {"Sub", "Mul", "Div"} -> IF type \in Numeric THEN type ELSE Wrong

RECURSIVE IsPlace(_, _)
IsPlace(expr, locals) ==
  \/ expr.node = "Id" /\ expr.name \in DOMAIN GlobalType \cup DOMAIN locals
  \/ expr.node = "Subscript" /\ IsPlace(expr.kids[1], locals)

Sizes(expr) == [i \in 1..Len(expr.kids) - 1 |-> expr.kids[i + 1].kids[1]]

RECURSIVE TypeOf(_, _)
TypeOf(expr, locals) ==
  LET Kid(i) == TypeOf(expr.kids[i], locals)
      All(exprs, types) == \A i \in DOMAIN exprs : Becomes(TypeOf(exprs[i], locals), types[i])
      Made(dims) == [Written(expr.kids[1]) EXCEPT !.dims = dims]
      Makes(dims) == dims <= MaxDims /\ Storable(Made(dims))
  IN  CASE expr.node \in {"Int", "Long"} ->
             IF expr.lit[1] > MaxOf(LitOf(expr.node)) THEN Wrong ELSE LitOf(expr.node)
        [] expr.node \in {"Bool", "Double", "Char", "String"} -> LitOf(expr.node)
        [] expr.node = "Id" ->
             IF expr.name \in DOMAIN locals THEN locals[expr.name]
             ELSE IF expr.name \in DOMAIN GlobalType THEN GlobalType[expr.name]
             ELSE IF expr.name \in DOMAIN Func THEN FuncDataType(expr.name) ELSE Wrong
        [] expr.node \in BinaryExpr -> Joined(expr.node, Common(Kid(1), Kid(2)))
        [] expr.node = "Not" -> IF Kid(1) = BoolDataType THEN BoolDataType ELSE Wrong
        [] expr.node = "Negative" ->
             IF Kid(1) \in Numeric \ {CharDataType} THEN Kid(1) ELSE Wrong
        [] expr.node \in {"PreInc", "PreDec"} ->
             IF IsPlace(expr.kids[1], locals) /\ Kid(1) \in Numeric THEN VoidDataType ELSE Wrong
        [] expr.node = "Assign" ->
             IF IsPlace(expr.kids[1], locals) /\ Storable(Kid(1)) /\ Becomes(Kid(2), Kid(1))
             THEN VoidDataType ELSE Wrong
        [] expr.node = "Subscript" ->
             IF IsArray(Kid(1)) /\ Becomes(Kid(2), IntDataType) THEN ElementOf(Kid(1)) ELSE Wrong
        [] expr.node = "ArrayAllocWithoutInit" ->
             LET sizes == Sizes(expr)
             IN  IF Makes(Len(sizes)) /\ All(sizes, [i \in DOMAIN sizes |-> IntDataType])
                 THEN Made(Len(sizes)) ELSE Wrong
        [] expr.node = "ArrayAllocWithInit" ->
             LET dims == Len(expr.kids[2].kids)
                 values == expr.kids[3].kids
             IN  IF Makes(dims) /\ All(values, [i \in DOMAIN values |-> ElementOf(Made(dims))])
                 THEN Made(dims) ELSE Wrong
        [] expr.node = "Call" ->
             LET args == Tail(expr.kids)
                 func == Func[Kid(1).func]
             IN  IF IsFunc(Kid(1)) /\ Len(args) = Len(func.args) /\ All(args, func.args)
                 THEN func.returns ELSE Wrong

IsWellTyped(stmt) ==
  LET Kid(i) == TypeOf(stmt.kids[i], <<>>)
      type == Written(stmt.kids[1])
  IN  CASE stmt.node = "ExprStmt" -> Kid(1) # Wrong
        [] stmt.node = "VarDefWithoutInit" -> Storable(type)
        [] stmt.node = "VarDefWithInit" -> Storable(type) /\ Becomes(Kid(2), type)
        [] stmt.node = "If" ->
             Kid(1) = BoolDataType /\ TypeOf(stmt.kids[2].kids[1].kids[1], <<>>) # Wrong

-----------------------------------------------------------------------------
(* Evaluation.  A state has the global variables, the storages of arrays,  *)
(* the calls of native functions, the local variables of the running       *)
(* function, how evaluation goes ("ok", "undefined", "aborted") and the    *)
(* last value.                                                             *)

Fail(st, how) == [st EXCEPT !.goes = how]
Gives(st, value) ==
  IF value = Undefined THEN Fail(st, "undefined") ELSE [st EXCEPT !.value = value]
Converted(value, type) == IF value.type = type THEN value ELSE Cast(value, type)

Applied(op, l, r) ==
  LET type == Common(l.type, r.type)
      x == Converted(l, type)
      y == Converted(r, type)
  IN  CASE op = "Sum" -> Sum(x, y) [] op = "Sub" -> Sub(x, y)
        [] op = "Mul" -> Mul(x, y) [] op = "Div" -> Div(x, y)
        [] op = "Equal" -> Equal(x, y) [] op = "NotEqual" -> LogicalNegate(Equal(x, y))
        [] op = "Greater" -> Greater(x, y) [] op = "Less" -> Greater(y, x)
        [] op = "GreaterOrEqual" -> LogicalNegate(Greater(y, x))
        [] op = "LessOrEqual" -> LogicalNegate(Greater(x, y))

(* What an expression evaluates first, in order; And, Or and Assign are    *)
(* apart.                                                                  *)
Order(expr) ==
  CASE expr.node = "Subscript" -> <<expr.kids[2], expr.kids[1]>>
    [] expr.node = "ArrayAllocWithoutInit" -> Reverse(Sizes(expr))
    [] expr.node = "ArrayAllocWithInit" -> Reverse(expr.kids[3].kids)
    [] expr.node = "Call" -> Reverse(Tail(expr.kids))
    [] OTHER -> expr.kids

(* A variable or an item of an array, what it holds and what it becomes.   *)
(* values are those of its Order.                                          *)
Place(st, expr, values) ==
  IF expr.node = "Id"
  THEN [in |-> IF expr.name \in DOMAIN st.locals THEN "local" ELSE "global", name |-> expr.name]
  ELSE [in |-> "item", array |-> values[2], index |-> values[1]]
Exists(st, place) == place.in = "item" => HasItem(st.heap, place.array, place.index)
Read(st, place) ==
  CASE place.in = "local" -> st.locals[place.name]
    [] place.in = "global" -> st.globals[place.name]
    [] place.in = "item" -> GetItem(st.heap, place.array, place.index)
Assigned(st, place, value) ==
  CASE place.in = "local" -> [st EXCEPT !.locals[place.name] = value]
    [] place.in = "global" -> [st EXCEPT !.globals[place.name] = value]
    [] place.in = "item" -> [st EXCEPT !.heap[Storage(place.array)][Num(place.index) + 1] = value]

Stored(st, place, value) ==
  IF ~Exists(st, place) THEN Fail(st, "aborted")
  ELSE Assigned(st, place, Converted(value, Read(st, place).type))
Moves(st, place, n) ==
  IF ~Exists(st, place) THEN Fail(st, "aborted")
  ELSE IF Moved(Read(st, place), n) = Undefined THEN Fail(st, "undefined")
  ELSE Assigned(st, place, Moved(Read(st, place), n))

MakesArray(st, new) == Gives([st EXCEPT !.heap = new.heap], new.array)

RECURSIVE Eval(_, _)

EvalAll(st, exprs) ==
  LET Next(acc, after) == [st |-> after, values |-> Append(acc.values, after.value)]
  IN  FoldLeft(LAMBDA acc, expr : Next(acc, Eval(acc.st, expr)), [st |-> st, values |-> <<>>], exprs)

DefinesLocal(st, name, value) ==
  IF st.goes # "ok" THEN st
  ELSE [st EXCEPT !.locals = [x \in DOMAIN @ \cup {name} |-> IF x = name THEN value ELSE @[x]]]
DefinesGlobal(st, name, value) ==
  IF st.goes # "ok" THEN st
  ELSE [st EXCEPT !.globals = [x \in DOMAIN @ \cup {name} |-> IF x = name THEN value ELSE @[x]]]

(* A statement of a function; after is the state after its expression. *)
EvalStmt(st, stmt, after, returns) ==
  CASE stmt.node = "ExprStmt" -> after
    [] stmt.node = "VarDefWithoutInit" ->
         DefinesLocal(st, stmt.name, Default(Written(stmt.kids[1])))
    [] stmt.node = "VarDefWithInit" ->
         DefinesLocal(after, stmt.name, Converted(after.value, Written(stmt.kids[1])))
    [] stmt.node = "ReturnValue" -> [after EXCEPT !.value = Converted(@, returns)]

Called(st, name, args) ==
  LET named == [x \in {Body[name].args[i].name : i \in DOMAIN args} |->
                  args[CHOOSE i \in DOMAIN args : Body[name].args[i].name = x]]
      Next(acc, stmt) ==
        EvalStmt(acc, stmt, Eval(acc, Last(stmt.kids)), Func[name].returns)
  IN  IF Func[name].native
      THEN [st EXCEPT !.calls = Append(@, [func |-> name, args |-> args]), !.value = args[1]]
      ELSE [FoldLeft(Next, [st EXCEPT !.locals = named], Body[name].stmts)
              EXCEPT !.locals = st.locals]

(* The value of an expression from the values of its Order. *)
Computed(st, values, expr) ==
  LET class == expr.node
      sizes == [i \in DOMAIN values |-> Num(Reverse(values)[i])]
      ArrayOf(dims) == [Written(expr.kids[1]) EXCEPT !.dims = dims]
      As(types) == [i \in DOMAIN values |-> Converted(Reverse(values)[i], types[i])]
  IN  CASE class \in {"Bool", "Int", "Long", "Double", "Char", "String"} ->
             Gives(st, Value(LitOf(class), expr.lit))
        [] class = "Id" ->
             IF expr.name \in DOMAIN Func \ DOMAIN st.locals
             THEN Gives(st, Value(FuncDataType(expr.name), <<>>))
             ELSE Gives(st, Read(st, Place(st, expr, values)))
        [] class \in BinaryExpr -> Gives(st, Applied(class, values[1], values[2]))
        [] class = "Not" -> Gives(st, LogicalNegate(values[1]))
        [] class = "Negative" -> Gives(st, ArithmeticNegate(values[1]))
        [] class = "Subscript" ->
             IF Exists(st, Place(st, expr, values)) THEN Gives(st, Read(st, Place(st, expr, values)))
             ELSE Fail(st, "aborted")
        [] class = "ArrayAllocWithoutInit" ->
             IF \E i \in DOMAIN sizes : sizes[i] < 0 THEN Fail(st, "aborted")
             ELSE MakesArray(st, NewArray(st.heap, ArrayOf(Len(sizes)), sizes))
        [] class = "ArrayAllocWithInit" ->
             LET type == ArrayOf(Len(expr.kids[2].kids))
             IN  MakesArray(st, NewArrayOf(st.heap, type, As([i \in DOMAIN values |-> ElementOf(type)])))
        [] class = "Call" -> Called(st, expr.kids[1].name, As(Func[expr.kids[1].name].args))

ComputedIfOk(all, expr) == IF all.st.goes # "ok" THEN all.st ELSE Computed(all.st, all.values, expr)
StoredIfOk(all, expr, value) ==
  IF all.st.goes # "ok" THEN all.st ELSE Stored(all.st, Place(all.st, expr, all.values), value)
MovesIfOk(all, expr, n) ==
  IF all.st.goes # "ok" THEN all.st ELSE Moves(all.st, Place(all.st, expr, all.values), n)
AssignedTo(after, expr) == StoredIfOk(EvalAll(after, Order(expr)), expr, after.value)
Decided(left, decides, right) ==
  IF left.goes # "ok" \/ IsTrue(left.value) = decides THEN left ELSE Eval(left, right)

Eval(st, expr) ==
  LET class == expr.node
  IN  IF st.goes # "ok" THEN st
      ELSE IF class \in {"And", "Or"} THEN Decided(Eval(st, expr.kids[1]), class = "Or", expr.kids[2])
      ELSE IF class = "Assign" THEN AssignedTo(Eval(st, expr.kids[2]), expr.kids[1])
      ELSE IF class \in {"PreInc", "PreDec"}
           THEN MovesIfOk(EvalAll(st, Order(expr.kids[1])), expr.kids[1],
                          IF class = "PreInc" THEN 1 ELSE -1)
      ELSE ComputedIfOk(EvalAll(st, Order(expr)), expr)

(* A statement of the main code, run with these variables and storages. *)
Ran(start, stmt, after) ==
  LET type == Written(stmt.kids[1])
      new == NewArray(start.heap, type, <<>>)
  IN  CASE stmt.node = "ExprStmt" -> after
        [] stmt.node = "VarDefWithoutInit" ->
             IF IsArray(type) THEN DefinesGlobal([start EXCEPT !.heap = new.heap], stmt.name, new.array)
             ELSE DefinesGlobal(start, stmt.name, Default(type))
        [] stmt.node = "VarDefWithInit" ->
             DefinesGlobal(after, stmt.name, Converted(after.value, type))
        [] stmt.node = "If" ->
             Decided(after, FALSE, stmt.kids[2].kids[1].kids[1])

Run(stmt, globals, heap) ==
  LET start == [globals |-> globals, heap |-> heap, calls |-> <<>>, locals |-> <<>>,
                goes |-> "ok", value |-> Bool(FALSE)]
  IN  Ran(start, stmt, Eval(start, stmt.kids[IF stmt.node = "VarDefWithInit" THEN 2 ELSE 1]))
=============================================================================
