------------------------------- MODULE Typing -------------------------------
(***************************************************************************)
(* The semantic analyzer's visits to expressions: data types, casts and    *)
(* left values (simple_semantic_analyzer.cpp, cast_handler.cpp,            *)
(* cast_resolver.cpp).                                                     *)
(*                                                                         *)
(* The analyzer keeps an analysis per node.  Here the analysis of a node   *)
(* holds those of its operands: its data type, the type it is cast to (or  *)
(* NoType), whether it is a left value and whether it is assigned to.  An  *)
(* error is thrown to the statement; here its name is passed up.           *)
(***************************************************************************)
EXTENDS Trees, Scalars
LOCAL INSTANCE SequencesExt
LOCAL INSTANCE FiniteSetsExt

CONSTANTS
  MaxDims,     \* numeric_limits<uint8_t>::max(), the most dimensions of a type
  GlobalType,  \* the global variables: [name -> data type]
  Func         \* the functions: [name -> [native, args, returns]]

ASSUME TypingAssumption ==
  MaxDims \in Nat \ {0} /\ DOMAIN GlobalType \cap DOMAIN Func = {}

NoType == Prim("none")

Analysis(expr, kids, type, leftValue, assignee) ==
  [expr |-> expr, kids |-> kids, type |-> type, cast |-> NoType,
   leftValue |-> leftValue, assignee |-> assignee, problem |-> "none"]
AddExprAnalysis(expr, kids, type) == Analysis(expr, kids, type, FALSE, FALSE)
ThrowError(expr, problem) ==
  [AddExprAnalysis(expr, <<>>, NoType) EXCEPT !.problem = problem]
Succeeds(analysis) == analysis.problem = "none"
SetCastedDataType(analysis, type) == [analysis EXCEPT !.cast = type]
GetExprDataType(analysis) == IF analysis.cast = NoType THEN analysis.type ELSE analysis.cast

-----------------------------------------------------------------------------
(* What the queries accept.  Arrays of void are rejected where a type is   *)
(* written, so that no expression has one.                                 *)
Element == {BoolDataType, IntDataType, LongDataType, DoubleDataType, CharDataType,
            StringDataType}
ArrayType == {[t EXCEPT !.dims = n] : t \in Element, n \in 1..MaxDims}

SupportedByAssign == Element \cup ArrayType
SupportedByLogicalExpr == {BoolDataType}
SupportedByGreater == Numeric
SupportedByEqual == Element \cup ArrayType
SupportedByArithmeticExpr == Numeric
SupportedBySum == Numeric \cup {StringDataType}
SupportedByNegative == {IntDataType, LongDataType, DoubleDataType}
SupportedByFuncDef == Element \cup ArrayType \cup {VoidDataType}
SupportedByVarDef == Element \cup ArrayType
SupportedByArrayAllocElement == Element

(* kHandlers: the casts, by the type on the left, the type on the right    *)
(* and the direction.                                                      *)
LeftToRight ==
  {<<CharDataType, IntDataType>>, <<CharDataType, LongDataType>>,
   <<CharDataType, StringDataType>>, <<IntDataType, LongDataType>>,
   <<IntDataType, DoubleDataType>>, <<LongDataType, DoubleDataType>>}
RightToLeft ==
  {<<IntDataType, CharDataType>>, <<LongDataType, CharDataType>>,
   <<StringDataType, CharDataType>>, <<LongDataType, IntDataType>>,
   <<DoubleDataType, IntDataType>>, <<DoubleDataType, LongDataType>>}

ResolvedCast(isSuccess, left, right) == [isSuccess |-> isSuccess, left |-> left, right |-> right]

Resolve(left, right) ==
  IF <<left, right>> \in LeftToRight THEN ResolvedCast(TRUE, right, NoType)
  ELSE IF <<left, right>> \in RightToLeft THEN ResolvedCast(TRUE, NoType, left)
  ELSE ResolvedCast(FALSE, NoType, NoType)

FinalDataType(cast) == IF cast.left # NoType THEN cast.left ELSE cast.right

(* Whether a value of one type can be used where another is expected. *)
CanCastToMutant(dest, src) == Resolve(dest, src).isSuccess
CanCastTo(dest, src) ==
  LET cast == Resolve(dest, src) IN cast.isSuccess /\ FinalDataType(cast) = dest

(* The value, cast to the expected type; NoType fields stand for failure.  *)
IsAssignable(expected, value) ==
  expected \in SupportedByAssign /\ (value.type = expected \/ CanCastTo(expected, value.type))
IsConvertible(expected, value) == value.type = expected \/ CanCastTo(expected, value.type)
ConvertedMutant(value, expected) == value
Converted(value, expected) ==
  IF value.type = expected THEN value ELSE SetCastedDataType(value, expected)

-----------------------------------------------------------------------------
(* Data types that are written down. *)

RECURSIVE CreateDataType(_)
CreateDataType(node) ==
  CASE node.node = "BoolDataType" -> BoolDataType
    [] node.node = "IntDataType" -> IntDataType
    [] node.node = "LongDataType" -> LongDataType
    [] node.node = "DoubleDataType" -> DoubleDataType
    [] node.node = "CharDataType" -> CharDataType
    [] node.node = "StringDataType" -> StringDataType
    [] node.node = "VoidDataType" -> VoidDataType
    [] node.node = "ArrayDataType" ->
         LET element == CreateDataType(node.kids[1])
         IN  IF element = NoType \/ element.dims = MaxDims THEN NoType
             ELSE ArrayDataType(element)

-----------------------------------------------------------------------------
(* Literals.  Those of int and long can be out of range; the least value   *)
(* of a type cannot be written, as its sign is an operator.                *)
LitType(expr) ==
  CASE expr.node = "Bool" -> BoolDataType [] expr.node = "Int" -> IntDataType
    [] expr.node = "Long" -> LongDataType [] expr.node = "Double" -> DoubleDataType
    [] expr.node = "Char" -> CharDataType [] expr.node = "String" -> StringDataType

VisitInt(expr) ==
  IF expr.lit[1] > IntMax THEN ThrowError(expr, "IntWithOutOfRangeValue")
  ELSE AddExprAnalysis(expr, <<>>, IntDataType)
VisitLong(expr) ==
  IF expr.lit[1] > LongMax THEN ThrowError(expr, "LongWithOutOfRangeValue")
  ELSE AddExprAnalysis(expr, <<>>, LongDataType)
AddLitAnalysis(expr) == AddExprAnalysis(expr, <<>>, LitType(expr))

(* The nearest definition; only those of variables are left values. *)
VisitId(expr, locals, assignee) ==
  CASE expr.name \in DOMAIN locals ->
         Analysis(expr, <<>>, locals[expr.name].type, TRUE, assignee)
    [] expr.name \in DOMAIN GlobalType \ DOMAIN locals ->
         Analysis(expr, <<>>, GlobalType[expr.name], TRUE, assignee)
    [] expr.name \in DOMAIN Func \ DOMAIN locals ->
         Analysis(expr, <<>>, FuncDataType(expr.name), FALSE, assignee)
    [] OTHER -> ThrowError(expr, "IdWithoutDef")

-----------------------------------------------------------------------------
(* Operators.  result is the type of the expression, or NoType if it is    *)
(* that of the operands.                                                   *)

(* The type that both operands get, or NoType. *)
FinalOf(l, r, cast) ==
  IF l.type = r.type THEN l.type ELSE IF cast.isSuccess THEN FinalDataType(cast) ELSE NoType
LeftCasted(l, r, cast) ==
  IF l.type # r.type /\ cast.left # NoType THEN SetCastedDataType(l, cast.left) ELSE l
RightCasted(l, r, cast) ==
  IF l.type # r.type /\ cast.left = NoType THEN SetCastedDataType(r, cast.right) ELSE r

VisitCastedExpr(expr, l, r, cast, final, support, result) ==
  IF ~Succeeds(l) THEN l
  ELSE IF ~Succeeds(r) THEN r
  ELSE IF final \notin support THEN ThrowError(expr, "BinaryExprWithUnsupportedTypes")
  ELSE AddExprAnalysis(expr, <<LeftCasted(l, r, cast), RightCasted(l, r, cast)>>,
                       IF result = NoType THEN final ELSE result)
VisitResolvedExpr(expr, l, r, cast, support, result) ==
  VisitCastedExpr(expr, l, r, cast, FinalOf(l, r, cast), support, result)
VisitBinaryExpr(expr, l, r, operator) ==
  VisitResolvedExpr(expr, l, r, Resolve(l.type, r.type), operator.support, operator.result)

(* VisitAnd to VisitSum. *)
Operator(support, result) == [support |-> support, result |-> result]
BinaryOperator ==
  [And |-> Operator(SupportedByLogicalExpr, BoolDataType),
   Or |-> Operator(SupportedByLogicalExpr, BoolDataType),
   Greater |-> Operator(SupportedByGreater, BoolDataType),
   GreaterOrEqual |-> Operator(SupportedByGreater, BoolDataType),
   Equal |-> Operator(SupportedByEqual, BoolDataType),
   NotEqual |-> Operator(SupportedByEqual, BoolDataType),
   Less |-> Operator(SupportedByGreater, BoolDataType),
   LessOrEqual |-> Operator(SupportedByGreater, BoolDataType),
   Div |-> Operator(SupportedByArithmeticExpr, NoType),
   Mul |-> Operator(SupportedByArithmeticExpr, NoType),
   Sub |-> Operator(SupportedByArithmeticExpr, NoType),
   Sum |-> Operator(SupportedBySum, NoType)]

VisitUnaryExpr(expr, operand, support, result) ==
  IF ~Succeeds(operand) THEN operand
  ELSE IF operand.type \notin support THEN ThrowError(expr, "UnaryExprWithUnsupportedType")
  ELSE AddExprAnalysis(expr, <<operand>>, IF result = NoType THEN operand.type ELSE result)

VisitNot(expr, operand) == VisitUnaryExpr(expr, operand, SupportedByLogicalExpr, BoolDataType)
VisitNegative(expr, operand) == VisitUnaryExpr(expr, operand, SupportedByNegative, NoType)

(* ++ and --, whose operand was visited as an assignee. *)
VisitPreExpr(expr, operand) ==
  IF ~Succeeds(operand) THEN operand
  ELSE IF ~operand.leftValue THEN ThrowError(expr, "UnaryExprWithRightValueOperand")
  ELSE IF operand.type \notin SupportedByArithmeticExpr
       THEN ThrowError(expr, "UnaryExprWithUnsupportedType")
  ELSE AddExprAnalysis(expr, <<operand>>, VoidDataType)

VisitAssign(expr, l, r) ==
  IF ~Succeeds(l) THEN l
  ELSE IF ~l.leftValue THEN ThrowError(expr, "AssignWithRightValueAssignee")
  ELSE IF ~Succeeds(r) THEN r
  ELSE IF ~IsAssignable(l.type, r) THEN ThrowError(expr, "BinaryExprWithUnsupportedTypes")
  ELSE AddExprAnalysis(expr, <<l, Converted(r, l.type)>>, VoidDataType)

-----------------------------------------------------------------------------
(* Arrays and calls.  A loop over values stops at the first that fails.    *)

(* The first value that is wrong or that cannot become what is expected.   *)
FailedAt(values, expected) ==
  LET failed == {i \in DOMAIN values : ~Succeeds(values[i]) \/ ~IsConvertible(expected[i], values[i])}
  IN  IF failed = {} THEN 0 ELSE Min(failed)
AllConverted(values, expected) == [i \in DOMAIN values |-> Converted(values[i], expected[i])]
Problem(expr, value, problem) == IF Succeeds(value) THEN ThrowError(expr, problem) ELSE value

VisitArrayAlloc(dims, node) ==
  IF dims > MaxDims THEN "ArrayAllocWithTooManyDimensions"
  ELSE IF CreateDataType(node) \notin SupportedByArrayAllocElement
       THEN "ArrayAllocWithUnsupportedElementType"
  ELSE "none"

VisitSizes(expr, sizes, problem, failed) ==
  IF problem # "none" THEN ThrowError(expr, problem)
  ELSE IF failed # 0 THEN Problem(expr, sizes[failed], "ArrayAllocWithUnsupportedSizeType")
  ELSE AddExprAnalysis(expr, AllConverted(sizes, [i \in DOMAIN sizes |-> IntDataType]),
                       [CreateDataType(expr.kids[1]) EXCEPT !.dims = Len(sizes)])
VisitArrayAllocWithoutInit(expr, sizes) ==
  VisitSizes(expr, sizes, VisitArrayAlloc(Len(sizes), expr.kids[1]),
             FailedAt(sizes, [i \in DOMAIN sizes |-> IntDataType]))

VisitValues(expr, values, type, problem, failed) ==
  IF problem # "none" THEN ThrowError(expr, problem)
  ELSE IF failed # 0 THEN Problem(expr, values[failed], "ArrayAllocWithIncompatibleValueType")
  ELSE AddExprAnalysis(expr, AllConverted(values, [i \in DOMAIN values |-> ElementOf(type)]), type)
VisitArrayAllocWithInit(expr, values) ==
  LET dims == Len(expr.kids[2].kids)
      type == [CreateDataType(expr.kids[1]) EXCEPT !.dims = dims]
  IN  VisitValues(expr, values, type, VisitArrayAlloc(dims, expr.kids[1]),
                  FailedAt(values, [i \in DOMAIN values |-> ElementOf(type)]))

(* Neither operand is visited as an assignee; the item of a left value is  *)
(* one.                                                                    *)
VisitSubscript(expr, operand, index, assignee) ==
  IF ~Succeeds(operand) THEN operand
  ELSE IF ~IsArray(operand.type) THEN ThrowError(expr, "SubscriptWithUnsupportedOperandType")
  ELSE IF ~Succeeds(index) THEN index
  ELSE IF ~IsConvertible(IntDataType, index) THEN ThrowError(expr, "SubscriptWithUnsupportedIndexType")
  ELSE Analysis(expr, <<operand, Converted(index, IntDataType)>>, ElementOf(operand.type),
                operand.leftValue, assignee)

VisitArgs(expr, operand, args, func, failed) ==
  IF failed # 0 THEN Problem(expr, args[failed], "CallWithIncompatibleArgType")
  ELSE AddExprAnalysis(expr, <<operand>> \o AllConverted(args, func.args), func.returns)
VisitCall(expr, operand, args) ==
  IF ~Succeeds(operand) THEN operand
  ELSE IF ~IsFunc(operand.type) THEN ThrowError(expr, "CallWithUnsupportedType")
  ELSE IF Len(args) # Len(Func[operand.type.func].args) THEN ThrowError(expr, "CallWithInvalidArgsCount")
  ELSE VisitArgs(expr, operand, args, Func[operand.type.func],
                 FailedAt(args, Func[operand.type.func].args))

-----------------------------------------------------------------------------
(* The visits, from the root down.  assignee is the top of                 *)
(* assignee_contexts_stack_.                                               *)

RECURSIVE VisitExpr(_, _, _)
VisitExpr(expr, locals, assignee) ==
  LET Kid(i) == VisitExpr(expr.kids[i], locals, assignee)
      Assignee(i) == VisitExpr(expr.kids[i], locals, TRUE)
      NoAssignee(i) == VisitExpr(expr.kids[i], locals, FALSE)
      Each(nodes) == [i \in DOMAIN nodes |-> VisitExpr(nodes[i], locals, assignee)]
  IN  CASE expr.node = "Int" -> VisitInt(expr)
        [] expr.node = "Long" -> VisitLong(expr)
        [] expr.node \in {"Bool", "Double", "Char", "String"} -> AddLitAnalysis(expr)
        [] expr.node = "Id" -> VisitId(expr, locals, assignee)
        [] expr.node \in BinaryExpr ->
             VisitBinaryExpr(expr, Kid(1), Kid(2), BinaryOperator[expr.node])
        [] expr.node = "Not" -> VisitNot(expr, Kid(1))
        [] expr.node = "Negative" -> VisitNegative(expr, Kid(1))
        [] expr.node \in {"PreInc", "PreDec"} -> VisitPreExpr(expr, Assignee(1))
        [] expr.node = "Assign" -> VisitAssign(expr, Assignee(1), Kid(2))
        [] expr.node = "ArrayAllocWithoutInit" ->
             VisitArrayAllocWithoutInit(expr, Each([i \in 1..Len(expr.kids) - 1 |->
                                                      expr.kids[i + 1].kids[1]]))
        [] expr.node = "ArrayAllocWithInit" ->
             VisitArrayAllocWithInit(expr, Each(expr.kids[3].kids))
        [] expr.node = "Subscript" ->
             VisitSubscript(expr, NoAssignee(1), NoAssignee(2), assignee)
        [] expr.node = "Call" -> VisitCall(expr, Kid(1), Each(Tail(expr.kids)))

-----------------------------------------------------------------------------
(* Statements that hold an expression.  Control flow is FlowCompiler's.    *)

VisitExprStmt(stmt, expr) ==
  IF ~Succeeds(expr) THEN expr ELSE AddExprAnalysis(stmt, <<expr>>, VoidDataType)

VisitTypedVarDef(stmt, type) ==
  IF type = NoType THEN ThrowError(stmt, "ArrayTypeWithTooManyDimensions")
  ELSE IF type \notin SupportedByVarDef THEN ThrowError(stmt, "DefWithUnsupportedType")
  ELSE AddExprAnalysis(stmt, <<>>, type)
VisitVarDef(stmt) == VisitTypedVarDef(stmt, CreateDataType(stmt.kids[1]))

VisitInitOf(stmt, def, value) ==
  IF ~Succeeds(def) THEN def
  ELSE IF ~Succeeds(value) THEN value
  ELSE IF ~IsAssignable(def.type, value) THEN ThrowError(stmt, "VarDefWithIncompatibleValueType")
  ELSE AddExprAnalysis(stmt, <<Converted(value, def.type)>>, def.type)
VisitVarDefWithInit(stmt, value) == VisitInitOf(stmt, VisitVarDef(stmt), value)

VisitReturnValue(stmt, value, returns) ==
  IF ~Succeeds(value) THEN value
  ELSE IF ~IsAssignable(returns, value) THEN ThrowError(stmt, "ReturnWithIncompatibleType")
  ELSE AddExprAnalysis(stmt, <<Converted(value, returns)>>, VoidDataType)

(* The condition of a branch, whose body is here the statement of an       *)
(* expression; that of a loop is checked alike.                            *)
VisitBranch(stmt, cond, body) ==
  IF ~Succeeds(cond) THEN cond
  ELSE IF ~IsConvertible(BoolDataType, cond) THEN ThrowError(stmt, "IfWithIncompatibleType")
  ELSE IF ~Succeeds(body) THEN body
  ELSE AddExprAnalysis(stmt, <<Converted(cond, BoolDataType), body>>, VoidDataType)

VisitStmt(stmt, locals, returns) ==
  LET Visited(expr) == VisitExpr(expr, locals, FALSE)
      Body0 == stmt.kids[2].kids[1].kids[1]
  IN  CASE stmt.node = "VarDefWithoutInit" -> VisitVarDef(stmt)
        [] stmt.node = "VarDefWithInit" -> VisitVarDefWithInit(stmt, Visited(stmt.kids[2]))
        [] stmt.node = "ExprStmt" -> VisitExprStmt(stmt, Visited(stmt.kids[1]))
        [] stmt.node = "ReturnValue" -> VisitReturnValue(stmt, Visited(stmt.kids[1]), returns)
        [] stmt.node = "If" -> VisitBranch(stmt, Visited(stmt.kids[1]), Visited(Body0))
=============================================================================
