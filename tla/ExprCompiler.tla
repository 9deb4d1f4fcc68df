---------------------------- MODULE ExprCompiler ----------------------------
(***************************************************************************)
(* The generator's visits to expressions, and the format of commands as it *)
(* writes them and as CmdReader reads them.                                *)
(*                                                                         *)
(* A visit yields the fields that it writes; code is a function from       *)
(* addresses, in bytes, to the fields that start there.  The id of a       *)
(* command names its kind and the type it is for.  Addresses of global     *)
(* variables and functions are their names, as if the code was linked (see *)
(* Linker).                                                                *)
(***************************************************************************)
EXTENDS Typing
LOCAL INSTANCE SequencesExt
LOCAL INSTANCE FiniteSetsExt
LOCAL INSTANCE TLC

CONSTANTS
  FuncNames,  \* the functions with a body, in the order of their code
  Body  \* functions with a body: [name -> [args, stmts]]

(* Fields. *)
Id(op, type) == [is |-> "id", op |-> op, base |-> type.base, array |-> IsArray(type)]
Var(name) == [is |-> "u32", var |-> name]
Index(n) == [is |-> "u32", index |-> n]
I32(n) == [is |-> "i32", int |-> n]
Dims(type) == [is |-> "u8", int |-> type.dims]
LitField(expr) == [is |-> LitType(expr).base, value |-> Value(LitType(expr), expr.lit)]
AssertFalse == [is |-> "assert"]  \* an assertion that fails while code is written

Width(field) ==
  CASE field.is \in {"id", "u8", "bool", "char"} -> 1
    [] field.is \in {"u32", "i32", "int"} -> 4
    [] field.is \in {"long", "double"} -> 8
    [] field.is = "string" -> 4 + Len(field.value.v)
    [] field.is = "assert" -> 0
Size(fields) == FoldLeft(LAMBDA n, field : n + Width(field), 0, fields)

(* What is at which address. *)
Written(fields) ==
  FoldLeft(LAMBDA code, field : [at |-> code.at @@ (code.end :> field), end |-> code.end + Width(field)],
           [at |-> [a \in {} |-> AssertFalse], end |-> 0], fields).at

-----------------------------------------------------------------------------
(* Generators of commands: a visitor of the data type each, which asserts  *)
(* that there is a command for it.  Those of arrays write the number of    *)
(* dimensions after the id.                                                *)

Generate(op, type, support) == IF type \notin support THEN <<AssertFalse>> ELSE <<Id(op, type)>>
DimsField(type) == IF IsArray(type) THEN <<Dims(type)>> ELSE <<>>
GenerateWithDims(op, type, support) == Generate(op, type, support) \o DimsField(type)
Stored == Element \cup ArrayType

CreateAndInitGlobalVarCmd(type, name) ==
  Generate("CreateAndInitGlobalVar", type, Stored) \o <<Var(name)>> \o DimsField(type)
CreateGlobalVarCmd(type, name) == Generate("CreateGlobalVar", type, Stored) \o <<Var(name)>>
CreateAndInitLocalVarCmd(type) == GenerateWithDims("CreateAndInitLocalVar", type, Stored)
CreateLocalVarCmd(type) == Generate("CreateLocalVar", type, Stored)
DestroyLocalVarCmd(type) == GenerateWithDims("DestroyLocalVar", type, Stored)
LoadGlobalVarValueCmd(type, name) == Generate("LoadGlobalVarValue", type, Stored) \o <<Var(name)>>
LoadLocalVarValueCmd(type, index) == Generate("LoadLocalVarValue", type, Stored) \o <<Index(index)>>

(* The dimensions of what is created are those that have a size. *)
CreateArrayCmd(type) == GenerateWithDims("CreateArray", type, ArrayType)
CreateAndInitArrayCmd(type, count) ==
  GenerateWithDims("CreateAndInitArray", type, ArrayType) \o <<I32(count)>>
LoadElementValueCmd(type) == GenerateWithDims("LoadArrayElementValue", type, ArrayType)
LoadElementAddressCmd(type) == GenerateWithDims("LoadArrayElementAddress", type, ArrayType)

UnloadCmd(type) == IF type = VoidDataType THEN <<>> ELSE GenerateWithDims("Unload", type, Stored)
StoreCmd(type) == GenerateWithDims("Store", type, Stored)
CallCmd(type) ==
  IF ~IsFunc(type) THEN <<AssertFalse>>
  ELSE <<Id(IF Func[type.func].native THEN "CallNative" ELSE "Call", VoidDataType)>>

AndCmd(type) == Generate("And", type, {BoolDataType})
OrCmd(type) == Generate("Or", type, {BoolDataType})
MulCmd(type) == Generate("Mul", type, Numeric)
DivCmd(type) == Generate("Div", type, Numeric)
SumCmd(type) == Generate("Sum", type, Numeric \cup {StringDataType})
SubCmd(type) == Generate("Sub", type, Numeric)
EqualCmd(type) == GenerateWithDims("Equal", type, Stored)
NotEqualCmd(type) == GenerateWithDims("NotEqual", type, Stored)
GreaterCmd(type) == Generate("Greater", type, Numeric)
GreaterOrEqualCmd(type) == Generate("GreaterOrEqual", type, Numeric)
LessCmd(type) == Generate("Less", type, Numeric)
LessOrEqualCmd(type) == Generate("LessOrEqual", type, Numeric)
LogicalNegateCmd(type) == Generate("LogicalNegate", type, {BoolDataType})
ArithmeticNegateCmd(type) == Generate("ArithmeticNegate", type, Numeric \ {CharDataType})
PreDecCmd(type) == Generate("PreDec", type, Numeric)
PreIncCmd(type) == Generate("PreInc", type, Numeric)

(* SimpleCastCmdGenerator, a handler of the same table of casts; the id    *)
(* says from which type to which.                                          *)
CastCmd(dest, src) ==
  IF <<dest, src>> \notin RightToLeft THEN <<AssertFalse>>
  ELSE <<[is |-> "id", op |-> "Cast", base |-> dest.base, array |-> FALSE, from |-> src.base]>>

GenerateCastCmdIfNeeded(analysis) ==
  IF analysis.cast = NoType THEN <<>> ELSE CastCmd(analysis.cast, analysis.type)

(* The slots of a variable. *)
SizeOf(type) == IF type \in {LongDataType, DoubleDataType} THEN 2 ELSE 1

-----------------------------------------------------------------------------
(* Visits.  locals are the local variables: [name -> [type, index]]; a     *)
(* visit yields the commands of the expression.                            *)

OperatorCmd(class, type) ==
  CASE class = "And" -> AndCmd(type) [] class = "Or" -> OrCmd(type)
    [] class = "Mul" -> MulCmd(type) [] class = "Div" -> DivCmd(type)
    [] class = "Sum" -> SumCmd(type) [] class = "Sub" -> SubCmd(type)
    [] class = "Equal" -> EqualCmd(type) [] class = "NotEqual" -> NotEqualCmd(type)
    [] class = "Greater" -> GreaterCmd(type) [] class = "GreaterOrEqual" -> GreaterOrEqualCmd(type)
    [] class = "Less" -> LessCmd(type) [] class = "LessOrEqual" -> LessOrEqualCmd(type)
    [] class = "Not" -> LogicalNegateCmd(type) [] class = "Negative" -> ArithmeticNegateCmd(type)
    [] class = "PreDec" -> PreDecCmd(type) [] class = "PreInc" -> PreIncCmd(type)

GenerateLit(expr) == <<Id("LoadValue", LitType(expr)), LitField(expr)>>

GenerateId(id, locals) ==
  LET name == id.expr.name
  IN  CASE name \in DOMAIN locals ->
             IF id.assignee
             THEN <<Id("LoadLocalVarAddress", VoidDataType), Index(locals[name].index)>>
             ELSE LoadLocalVarValueCmd(id.type, locals[name].index)
        [] name \in DOMAIN GlobalType \ DOMAIN locals ->
             IF id.assignee THEN <<Id("LoadGlobalVarAddress", VoidDataType), Var(name)>>
             ELSE LoadGlobalVarValueCmd(id.type, name)
        [] OTHER ->
             <<Id(IF Func[name].native THEN "LoadNativeFuncValue" ELSE "LoadFuncValue",
                  VoidDataType), Var(name)>>

(* Offsets count from the end of the field that holds them: over what is   *)
(* jumped.                                                                 *)
WriteCurrentCmdOffsetMutant(jumped) == I32(4 + Size(jumped))
WriteCurrentCmdOffset(jumped) == I32(Size(jumped))

(* The fields of kids are those of the operands, with their casts. *)

(* A right operand is jumped over if the left one decides. *)
GenerateLogical(expr, kids, jump) ==
  LET jumped == kids[2] \o OperatorCmd(expr.expr.node, GetExprDataType(expr.kids[1]))
                  \o GenerateCastCmdIfNeeded(expr)
  IN  kids[1] \o <<Id(jump, VoidDataType), WriteCurrentCmdOffset(jumped)>> \o jumped

GenerateBinaryExpr(expr, kids) ==
  kids[1] \o kids[2] \o OperatorCmd(expr.expr.node, GetExprDataType(expr.kids[1]))

GenerateUnaryExpr(expr, kids) ==
  kids[1] \o OperatorCmd(expr.expr.node, GetExprDataType(expr.kids[1]))

GenerateAssign(expr, kids) == kids[2] \o kids[1] \o StoreCmd(expr.kids[1].type)

GenerateSubscript(expr, kids) ==
  LET array == GetExprDataType(expr.kids[1])
  IN  kids[2] \o kids[1]
        \o IF expr.assignee THEN LoadElementAddressCmd(array) ELSE LoadElementValueCmd(array)

GenerateCall(expr, kids) ==
  FlattenSeq(Reverse(Tail(kids))) \o kids[1] \o CallCmd(GetExprDataType(expr.kids[1]))

GenerateArrayAllocWithoutInit(expr, kids) == FlattenSeq(Reverse(kids)) \o CreateArrayCmd(expr.type)
GenerateArrayAllocWithInit(expr, kids) ==
  FlattenSeq(Reverse(kids)) \o CreateAndInitArrayCmd(expr.type, Len(kids))

(* And and Or cast before the jump leads there, the others at their end.   *)
RECURSIVE GenerateExpr(_, _)
GenerateExpr(expr, locals) ==
  LET class == expr.expr.node
      kids == [i \in DOMAIN expr.kids |-> GenerateExpr(expr.kids[i], locals)]
  IN  IF class = "And" THEN GenerateLogical(expr, kids, "ImplicitJumpIfNot")
      ELSE IF class = "Or" THEN GenerateLogical(expr, kids, "ImplicitJumpIf")
      ELSE (CASE class \in BinaryExpr \ {"And", "Or"} -> GenerateBinaryExpr(expr, kids)
              [] class \in UnaryExpr -> GenerateUnaryExpr(expr, kids)
              [] class = "Id" -> GenerateId(expr, locals)
              [] class = "Assign" -> GenerateAssign(expr, kids)
              [] class = "Subscript" -> GenerateSubscript(expr, kids)
              [] class = "Call" -> GenerateCall(expr, kids)
              [] class = "ArrayAllocWithoutInit" -> GenerateArrayAllocWithoutInit(expr, kids)
              [] class = "ArrayAllocWithInit" -> GenerateArrayAllocWithInit(expr, kids)
              [] OTHER -> GenerateLit(expr.expr))
           \o GenerateCastCmdIfNeeded(expr)

-----------------------------------------------------------------------------
(* Statements and functions.  The flow is the sequence of local variables. *)

IndexOf(flow, i) == FoldLeft(LAMBDA n, var : n + SizeOf(var.type), 0, SubSeq(flow, 1, i - 1))
LocalsOf(flow) ==
  [name \in {flow[i].name : i \in DOMAIN flow} |->
     LET i == Max({j \in DOMAIN flow : flow[j].name = name})
     IN  [type |-> flow[i].type, index |-> IndexOf(flow, i)]]

GenerateReturnCmd(flow) ==
  FlattenSeq([i \in DOMAIN flow |-> DestroyLocalVarCmd(flow[Len(flow) - i + 1].type)])
    \o <<Id("Return", VoidDataType)>>

(* A statement of a function's body, analyzed, with the fields of its     *)
(* expression, in this flow.                                              *)
GenerateStmt(stmt, fields, flow) ==
  CASE stmt.expr.node = "VarDefWithoutInit" -> CreateLocalVarCmd(stmt.type)
    [] stmt.expr.node = "VarDefWithInit" -> fields \o CreateAndInitLocalVarCmd(stmt.type)
    [] stmt.expr.node = "ExprStmt" -> fields \o UnloadCmd(GetExprDataType(stmt.kids[1]))
    [] stmt.expr.node = "ReturnValue" -> fields \o GenerateReturnCmd(flow)

Defined(stmt) ==
  IF stmt.node \in {"VarDefWithInit", "VarDefWithoutInit"}
  THEN <<[name |-> stmt.name, type |-> CreateDataType(stmt.kids[1])]>> ELSE <<>>

(* Arguments are variables that take their values from the operands. *)
GenerateFunc(args, stmts, returns) ==
  LET FlowAt(i) == args \o FlattenSeq([j \in 1..i - 1 |-> Defined(stmts[j])])
      Fields(stmt, locals) == FlattenSeq([i \in DOMAIN stmt.kids |-> GenerateExpr(stmt.kids[i], locals)])
      Visited(stmt, flow, locals) == GenerateStmt(stmt, Fields(stmt, locals), flow)
      StmtAt(i, flow, locals) == Visited(VisitStmt(stmts[i], locals, returns), flow, locals)
  IN  FlattenSeq([i \in DOMAIN args |-> CreateAndInitLocalVarCmd(args[i].type)])
        \o FlattenSeq([i \in DOMAIN stmts |-> StmtAt(i, FlowAt(i), LocalsOf(FlowAt(i)))])

(* A statement of the main code, whose expressions have these fields; the  *)
(* last of them is unloaded if it is a statement of its own.               *)
GenerateMainStmt(stmt, kids, unload) ==
  CASE stmt.expr.node = "VarDefWithInit" ->
         kids[1] \o CreateAndInitGlobalVarCmd(stmt.type, stmt.expr.name)
    [] stmt.expr.node = "VarDefWithoutInit" -> CreateGlobalVarCmd(stmt.type, stmt.expr.name)
    [] stmt.expr.node = "ExprStmt" -> kids[1] \o unload
    [] stmt.expr.node = "If" ->
         kids[1] \o <<Id("JumpIfNot", VoidDataType), WriteCurrentCmdOffset(kids[2] \o unload)>>
           \o kids[2] \o unload
GenerateMain(stmt) ==
  GenerateMainStmt(stmt, [i \in DOMAIN stmt.kids |-> GenerateExpr(stmt.kids[i], <<>>)],
                   UnloadCmd(GetExprDataType(Last(stmt.kids))))

(* Main code, then the functions: the code and where each function starts. *)
Funcs ==
  [i \in DOMAIN FuncNames |->
     LET name == FuncNames[i] IN GenerateFunc(Body[name].args, Body[name].stmts, Func[name].returns)]
Joined(main, fields) ==
  [at |-> Written(fields), mainEnd |-> Size(main),
   asserted |-> \E i \in DOMAIN fields : fields[i] = AssertFalse,
   entry |-> [name \in {FuncNames[i] : i \in DOMAIN FuncNames} |->
                LET i == CHOOSE j \in DOMAIN FuncNames : FuncNames[j] = name
                IN  Size(main \o FlattenSeq(SubSeq(Funcs, 1, i - 1)))]]
GenerateCodeOf(main) == Joined(main, main \o FlattenSeq(Funcs))
GenerateProgram(stmt) == GenerateCodeOf(GenerateMain(stmt))

-----------------------------------------------------------------------------
(* CmdReader: the operands that follow an id, by their kinds.              *)

DimsIfArray(id) == IF id.array THEN <<"u8">> ELSE <<>>
ReadCreateGlobalVarCmd == <<"u32">>
ReadCreateLocalVarCmd == <<>>
ReadDestroyLocalVarCmd(id) == DimsIfArray(id)
ReadUnloadCmd(id) == DimsIfArray(id)
ReadLoadValueCmd(id) == <<id.base>>
ReadCreateAndInitGlobalVarCmd(id) == <<"u32">> \o DimsIfArray(id)
ReadCreateAndInitLocalVarCmd(id) == DimsIfArray(id)
ReadCreateArrayCmd == <<"u8">>
ReadCreateAndInitArrayCmd == <<"u8", "i32">>
ReadJumpCmd == <<"i32">>
ReadLoadGlobalVarValueCmd == <<"u32">>
ReadLoadVarAddressCmd == <<"u32">>
ReadLoadFuncValueCmd == <<"u32">>
ReadLoadLocalVarValueCmd == <<"u32">>
ReadStoreCmd(id) == DimsIfArray(id)
ReadArrayElementCmd == <<"u8">>
ReadEqualCmd(id) == DimsIfArray(id)
ReadNotEqualCmd(id) == DimsIfArray(id)
ReadPlainCmd == <<>>  \* calls, casts, returns and the other operators

GetOperands(id) ==
  CASE id.op = "CreateGlobalVar" -> ReadCreateGlobalVarCmd
    [] id.op = "CreateLocalVar" -> ReadCreateLocalVarCmd
    [] id.op = "DestroyLocalVar" -> ReadDestroyLocalVarCmd(id)
    [] id.op = "Unload" -> ReadUnloadCmd(id)
    [] id.op = "LoadValue" -> ReadLoadValueCmd(id)
    [] id.op = "CreateAndInitGlobalVar" -> ReadCreateAndInitGlobalVarCmd(id)
    [] id.op = "CreateAndInitLocalVar" -> ReadCreateAndInitLocalVarCmd(id)
    [] id.op = "CreateArray" -> ReadCreateArrayCmd
    [] id.op = "CreateAndInitArray" -> ReadCreateAndInitArrayCmd
    [] id.op \in {"JumpIfNot", "ImplicitJumpIfNot", "ImplicitJumpIf"} -> ReadJumpCmd
    [] id.op = "LoadGlobalVarValue" -> ReadLoadGlobalVarValueCmd
    [] id.op \in {"LoadGlobalVarAddress", "LoadLocalVarAddress"} -> ReadLoadVarAddressCmd
    [] id.op \in {"LoadFuncValue", "LoadNativeFuncValue"} -> ReadLoadFuncValueCmd
    [] id.op = "LoadLocalVarValue" -> ReadLoadLocalVarValueCmd
    [] id.op = "Store" -> ReadStoreCmd(id)
    [] id.op \in {"LoadArrayElementValue", "LoadArrayElementAddress"} -> ReadArrayElementCmd
    [] id.op = "Equal" -> ReadEqualCmd(id)
    [] id.op = "NotEqual" -> ReadNotEqualCmd(id)
    [] OTHER -> ReadPlainCmd

(* The command at an address can be read if there is an id, and after it   *)
(* one field of each kind.                                                 *)
OperandAt(at, a, i) == a + 1 + FoldLeft(LAMBDA n, j : n + Width(at[a + 1 + n]), 0, [j \in 1..i - 1 |-> j])
RECURSIVE AreAt(_, _, _)
AreAt(at, a, kinds) ==
  kinds # <<>> =>
    a \in DOMAIN at /\ at[a].is = Head(kinds) /\ AreAt(at, a + Width(at[a]), Tail(kinds))
IsReadable(at, a) ==
  a \in DOMAIN at /\ at[a].is = "id" /\ AreAt(at, a + 1, GetOperands(at[a]))

GetNextCmd(at, a) ==
  LET count == Len(GetOperands(at[a]))
  IN  [id |-> at[a], next |-> OperandAt(at, a, count + 1),
       operand |-> [i \in 1..count |-> at[OperandAt(at, a, i)]]]
=============================================================================
