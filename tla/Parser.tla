------------------------------- MODULE Parser -------------------------------
(***************************************************************************)
(* SimpleParser (parser/simple_parser.cpp): tokens become the tree of a    *)
(* program, by recursive descent for statements and by a stack of          *)
(* operators for expressions.                                              *)
(*                                                                         *)
(* A parse is a record: the tokens, the one that is next (next_token_),    *)
(* the nodes built and not yet owned, and how it goes: "ok", "unexpected"  *)
(* (UnexpectedTokenError) or "assertion".  Each method takes a parse and   *)
(* gives the parse after it, with the node that it returns on top; after   *)
(* an error a parse stays as it is.                                        *)
(***************************************************************************)
EXTENDS Trees
LOCAL INSTANCE SequencesExt

StartOf(tokens) == [tokens |-> tokens, next |-> 1, nodes |-> <<>>, goes |-> "ok"]

(* The lexer returns the end of the file again and again. *)
NextToken(ps) ==
  ps.tokens[IF ps.next < Len(ps.tokens) THEN ps.next ELSE Len(ps.tokens)]
NextId(ps) == NextToken(ps).id
IsOk(ps) == ps.goes = "ok"

UnexpectedToken(ps) == [ps EXCEPT !.goes = "unexpected"]
ConsumeNextToken(ps) == IF IsOk(ps) THEN [ps EXCEPT !.next = @ + 1] ELSE ps
AssertNextToken(ps, id) ==
  IF IsOk(ps) /\ NextId(ps) # id THEN UnexpectedToken(ps) ELSE ps
(* An assertion and the consumption of the token. *)
Take(ps, id) == ConsumeNextToken(AssertNextToken(ps, id))

(* Nodes are pushed, and the n on top become the children of a new one.    *)
Push(ps, node) == IF IsOk(ps) THEN [ps EXCEPT !.nodes = Append(@, node)] ELSE ps
PushNext(ps, node) == ConsumeNextToken(Push(ps, node))
Top(ps, n) == ps.nodes[Len(ps.nodes) - n]
Tops(ps, n) == SubSeq(ps.nodes, Len(ps.nodes) - n + 1, Len(ps.nodes))
Pop(ps, n) == [ps EXCEPT !.nodes = SubSeq(@, 1, Len(@) - n)]
Build(ps, n, class) == IF IsOk(ps) THEN Push(Pop(ps, n), Node(class, Tops(ps, n))) ELSE ps

(* A list is a parse with the number of nodes on top that belong to it. *)
ListOf(ps, n) == [ps |-> ps, n |-> n]
BuildList(list, class) == Build(list.ps, list.n, class)
CloseList(list, id) == [list EXCEPT !.ps = Take(@, id)]

-----------------------------------------------------------------------------
(* Data types and names. *)
PrimitiveDataTypeNode ==
  [IntType |-> IntDataTypeNode, CharType |-> CharDataTypeNode, LongType |-> LongDataTypeNode,
   BoolType |-> BoolDataTypeNode, DoubleType |-> DoubleDataTypeNode,
   StringType |-> StringDataTypeNode, VoidType |-> VoidDataTypeNode]
ParsePrimitiveDataType(ps) ==
  IF NextId(ps) \in DOMAIN PrimitiveDataTypeNode
  THEN PushNext(ps, PrimitiveDataTypeNode[NextId(ps)])
  ELSE IF IsOk(ps) THEN UnexpectedToken(ps) ELSE ps

RECURSIVE ParseDataType(_)
ParseDataType(ps) ==
  IF ~IsOk(ps) \/ NextId(ps) # "SubscriptStart" THEN ps
  ELSE ParseDataType(Build(Take(ConsumeNextToken(ps), "SubscriptEnd"), 1, "ArrayDataType"))
ParseFullDataType(ps) == ParseDataType(ParsePrimitiveDataType(ps))

(* The name goes on top of the nodes as an id. *)
PushName(ps) == PushNext(ps, IdNode(NextToken(ps).value))
ParseName(ps) == PushName(AssertNextToken(ps, "Name"))

-----------------------------------------------------------------------------
(* Operators. *)
kOpPriosMutant ==
  [RightToLeft |-> [NotOp |-> 8, PreIncOp |-> 8, PreDecOp |-> 8, SubOp |-> 8, AssignOp |-> 2],
   LeftToRight |-> [GroupStart |-> 9, SubscriptStart |-> 9, MulOp |-> 7, DivOp |-> 7, SumOp |-> 6,
                    SubOp |-> 6, GreaterOrEqualOp |-> 5, LessOrEqualOp |-> 5, LessOp |-> 5,
                    GreaterOp |-> 5, EqualOp |-> 4, NotEqualOp |-> 4, AndOp |-> 3, OrOp |-> 2]]
kOpPrios ==
  [RightToLeft |-> [NotOp |-> 8, PreIncOp |-> 8, PreDecOp |-> 8, SubOp |-> 8, AssignOp |-> 1],
   LeftToRight |-> [GroupStart |-> 9, SubscriptStart |-> 9, MulOp |-> 7, DivOp |-> 7, SumOp |-> 6,
                    SubOp |-> 6, GreaterOrEqualOp |-> 5, LessOrEqualOp |-> 5, LessOp |-> 5,
                    GreaterOp |-> 5, EqualOp |-> 4, NotEqualOp |-> 4, AndOp |-> 3, OrOp |-> 2]]
UnaryClass ==
  [SubOp |-> "Negative", NotOp |-> "Not", PreIncOp |-> "PreInc", PreDecOp |-> "PreDec"]
BinaryClass ==
  [AssignOp |-> "Assign", GreaterOrEqualOp |-> "GreaterOrEqual", LessOrEqualOp |-> "LessOrEqual",
   LessOp |-> "Less", GreaterOp |-> "Greater", EqualOp |-> "Equal", NotEqualOp |-> "NotEqual",
   SumOp |-> "Sum", SubOp |-> "Sub", MulOp |-> "Mul", DivOp |-> "Div", AndOp |-> "And", OrOp |-> "Or"]

GetOpPrio(token, assoc) == kOpPrios[assoc][token]
Op(token, args, assoc) ==
  [token |-> token, args |-> args, prio |-> GetOpPrio(token, assoc), assoc |-> assoc]

CreateBinaryExpr(ps, op) ==
  Push(Pop(ps, 2), BinaryExprNode(BinaryClass[op.token], Top(ps, 1), Top(ps, 0)))
CreateUnaryExpr(ps, op) == Push(Pop(ps, 1), UnaryExprNode(UnaryClass[op.token], Top(ps, 0)))
CreateSubscriptExpr(ps, op) == Push(Pop(ps, 1), SubscriptNode(Top(ps, 0), op.args[1]))
CreateCallExpr(ps, op) == Push(Pop(ps, 1), CallNode(Top(ps, 0), op.args))
CreateExpr(ps, op) ==
  CASE op.token = "SubscriptStart" -> CreateSubscriptExpr(ps, op)
    [] op.token = "GroupStart" -> CreateCallExpr(ps, op)
    [] op.assoc = "RightToLeft" /\ op.token # "AssignOp" -> CreateUnaryExpr(ps, op)
    [] OTHER -> CreateBinaryExpr(ps, op)

(* The operators that bind tighter than the next one take their operands.  *)
RECURSIVE ReduceExpr(_, _, _)
ReduceExprMutant(ex, prio, assoc) ==
  LET op == Last(ex.operators)
  IN  IF ~IsOk(ex.ps) \/ ex.operators = <<>> \/ prio >= op.prio THEN ex
      ELSE ReduceExpr([ps |-> CreateExpr(ex.ps, op), operators |-> Front(ex.operators)], prio, assoc)
ReduceExpr(ex, prio, assoc) ==
  LET op == Last(ex.operators)
  IN  IF ~IsOk(ex.ps) \/ ex.operators = <<>> \/ prio > op.prio THEN ex
      ELSE IF prio = op.prio /\ assoc # op.assoc
           THEN [ex EXCEPT !.ps.goes = "assertion"]
      ELSE IF prio = op.prio /\ assoc = "RightToLeft" THEN ex
      ELSE ReduceExpr([ps |-> CreateExpr(ex.ps, op), operators |-> Front(ex.operators)], prio, assoc)

-----------------------------------------------------------------------------
(* Expressions.  ex is a parse and the operators that wait for operands;   *)
(* the operands are the nodes on top.                                      *)
RECURSIVE ParseExpr(_), BeforeExprState(_), AfterExprState(_), ParseExprs(_, _), ParseArraySizes(_, _, _)

ParseExpr(ps) == BeforeExprState([ps |-> ps, operators |-> <<>>])

(* Expressions between commas, at least one; n came before. *)
MoreExprs(ps, n) ==
  IF IsOk(ps) /\ NextId(ps) = "Separator" THEN ParseExprs(ConsumeNextToken(ps), n)
  ELSE ListOf(ps, n)
ParseExprs(ps, n) == MoreExprs(ParseExpr(ps), n + 1)
ParseOptionalExprs(ps, end) ==
  IF IsOk(ps) /\ NextId(ps) = end THEN ListOf(ps, 0) ELSE ParseExprs(ps, 0)

(* A call or a subscript waits as an operator, with its arguments. *)
WaitWith(operators, args, token) ==
  IF ~IsOk(args.ps) THEN [ps |-> args.ps, operators |-> operators]
  ELSE [ps |-> Pop(args.ps, args.n),
        operators |-> Append(operators, Op(token, Tops(args.ps, args.n), "LeftToRight"))]
ParseCall(ex) ==
  WaitWith(ex.operators,
           CloseList(ParseOptionalExprs(ConsumeNextToken(ex.ps), "GroupEnd"), "GroupEnd"), "GroupStart")
ParseSubscript(ex) ==
  WaitWith(ex.operators,
           CloseList(ListOf(ParseExpr(ConsumeNextToken(ex.ps)), 1), "SubscriptEnd"), "SubscriptStart")

(* The sizes of an array, after the first bracket. *)
MoreArraySizes(ps, n, bounded) ==
  IF IsOk(ps) /\ NextId(ps) = "SubscriptStart"
  THEN ParseArraySizes(ConsumeNextToken(ps), n, bounded)
  ELSE ListOf(ps, n)
ParseArraySize(ps, bounded) ==
  IF bounded THEN Build(Take(ParseExpr(ps), "SubscriptEnd"), 1, "BoundedArraySize")
  ELSE Push(Take(ps, "SubscriptEnd"), UnboundedArraySizeNode)
ParseArraySizes(ps, n, bounded) == MoreArraySizes(ParseArraySize(ps, bounded), n + 1, bounded)

ParseArrayValues(ps) ==
  Take(BuildList(ParseOptionalExprs(Take(ps, "ScopeStart"), "ScopeEnd"), "Values"), "ScopeEnd")
ParseArrayAllocWithInit(ps) ==
  Build(ParseArrayValues(BuildList(ParseArraySizes(ps, 0, FALSE), "Sizes")), 3, "ArrayAllocWithInit")
(* The type and the sizes. *)
BuildArrayAllocWithoutInit(sizes) == Build(sizes.ps, sizes.n + 1, "ArrayAllocWithoutInit")
ParseSizedArray(ps) ==
  IF IsOk(ps) /\ NextId(ps) = "SubscriptEnd" THEN ParseArrayAllocWithInit(ps)
  ELSE BuildArrayAllocWithoutInit(ParseArraySizes(ps, 0, TRUE))
ParseArrayAlloc(ps) ==
  ParseSizedArray(Take(ParsePrimitiveDataType(ConsumeNextToken(ps)), "SubscriptStart"))

LitToken ==
  {"Name", "StringLit", "CharLit", "IntLit", "LongLit", "DoubleLit", "BoolTrueLit", "BoolFalseLit"}
LitNode(token) ==
  CASE token.id = "Name" -> IdNode(token.value)
    [] token.id = "StringLit" -> StringNode(token.value)
    [] token.id = "CharLit" -> CharNode(token.value)
    [] token.id = "IntLit" -> IntNode(token.value)
    [] token.id = "LongLit" -> LongNode(token.value)
    [] token.id = "DoubleLit" -> DoubleNode(token.value)
    [] token.id \in {"BoolTrueLit", "BoolFalseLit"} -> BoolNode(token.value)
ParseGroup(ps) == Take(ParseExpr(ConsumeNextToken(ps)), "GroupEnd")
ParseOperand(ps) ==
  CASE NextId(ps) \in LitToken -> PushNext(ps, LitNode(NextToken(ps)))
    [] NextId(ps) = "New" -> ParseArrayAlloc(ps)
    [] NextId(ps) = "GroupStart" -> ParseGroup(ps)
    [] OTHER -> UnexpectedToken(ps)

(* An operator waits for its right operand. *)
WaitFor(ex, token, assoc) ==
  BeforeExprState([ps |-> ConsumeNextToken(ex.ps),
                   operators |-> Append(ex.operators, Op(token, <<>>, assoc))])
ReduceBefore(ex, token, assoc) == ReduceExpr(ex, GetOpPrio(token, assoc), assoc)

BeforeExprState(ex) ==
  LET id == NextId(ex.ps)
  IN  IF ~IsOk(ex.ps) THEN ex.ps
      ELSE IF id \in DOMAIN UnaryClass
           THEN WaitFor(ReduceBefore(ex, id, "RightToLeft"), id, "RightToLeft")
      ELSE AfterExprState([ex EXCEPT !.ps = ParseOperand(@)])

AfterExprState(ex) ==
  LET id == NextId(ex.ps)
      assoc == IF id = "AssignOp" THEN "RightToLeft" ELSE "LeftToRight"
  IN  CASE ~IsOk(ex.ps) -> ex.ps
        [] IsOk(ex.ps) /\ id = "GroupStart" -> AfterExprState(ParseCall(ReduceBefore(ex, id, assoc)))
        [] IsOk(ex.ps) /\ id = "SubscriptStart" -> AfterExprState(ParseSubscript(ReduceBefore(ex, id, assoc)))
        [] IsOk(ex.ps) /\ id \in DOMAIN BinaryClass -> WaitFor(ReduceBefore(ex, id, assoc), id, assoc)
        [] OTHER -> ReduceExpr(ex, 0, assoc).ps

-----------------------------------------------------------------------------
(* Statements. *)
RECURSIVE ParseStmt(_), ParseStmts(_, _), ParseElseIfs(_, _), ParseArgDefs(_, _)

(* Statements up to the end of a scope or of the file; n came before. *)
ParseStmts(list, until) ==
  IF ~IsOk(list.ps) \/ NextId(list.ps) = until THEN list
  ELSE ParseStmts(ListOf(ParseStmt(list.ps), list.n + 1), until)
ParseScope(ps) ==
  ConsumeNextToken(BuildList(ParseStmts(ListOf(Take(ps, "ScopeStart"), 0), "ScopeEnd"), "Scope"))

TakeStmtEnd(ps) == Take(ps, "StmtEnd")
ParseExprStmt(ps) == Build(TakeStmtEnd(ParseExpr(ps)), 1, "ExprStmt")
ParseReturned(ps) ==
  IF NextId(ps) = "StmtEnd" THEN PushNext(ps, ReturnWithoutValueNode)
  ELSE Build(TakeStmtEnd(ParseExpr(ps)), 1, "ReturnValue")
ParseReturn(ps) == ParseReturned(ConsumeNextToken(ps))
ParseBreak(ps) == Push(TakeStmtEnd(ConsumeNextToken(ps)), BreakNode)
ParseContinue(ps) == Push(TakeStmtEnd(ConsumeNextToken(ps)), ContinueNode)

ParsePath(ps) == PushNext(ps, StringNode(NextToken(ps).value))
ParseImport(ps) ==
  Build(TakeStmtEnd(ParsePath(AssertNextToken(ConsumeNextToken(ps), "StringLit"))), 1, "Import")

(* A condition in parentheses and a body. *)
ParseCondAndBody(ps) ==
  ParseScope(Take(ParseExpr(Take(ConsumeNextToken(ps), "GroupStart")), "GroupEnd"))
ParsePreTestLoop(ps) == Build(ParseCondAndBody(ps), 2, "PreTestLoop")
DoParseIf(ps) == Build(ParseCondAndBody(ps), 2, "If")

(* After an if, n else-ifs came before. *)
ParseElseMutant(ps, n) ==
  IF NextId(ps) = "If" THEN ParseElseIfs(Build(DoParseIf(ps), 1, "ElseIf"), n)
  ELSE Build(ParseScope(Build(ps, n, "ElseIfs")), 3, "IfElseIfElse")
ParseElse(ps, n) ==
  IF NextId(ps) = "If" THEN ParseElseIfs(Build(DoParseIf(ps), 1, "ElseIf"), n + 1)
  ELSE Build(ParseScope(Build(ps, n, "ElseIfs")), 3, "IfElseIfElse")
ParseElseIfs(ps, n) ==
  IF IsOk(ps) /\ NextId(ps) = "Else" THEN ParseElse(ConsumeNextToken(ps), n)
  ELSE Build(Build(ps, n, "ElseIfs"), 2, "IfElseIf")
ParseIf(ps) == ParseElseIfs(DoParseIf(ps), 0)

(* A type and a name become one node. *)
BuildArgDef(ps) ==
  IF IsOk(ps) THEN Push(Pop(ps, 2), ArgDefNode(Top(ps, 1), Top(ps, 0).name)) ELSE ps
ParseArgDef(ps) == BuildArgDef(ParseName(ParseFullDataType(ps)))
MoreArgDefs(ps, n) ==
  IF IsOk(ps) /\ NextId(ps) = "Separator" THEN ParseArgDefs(ConsumeNextToken(ps), n)
  ELSE ListOf(ps, n)
ParseArgDefs(ps, n) == MoreArgDefs(ParseArgDef(ps), n + 1)
ParseOptionalArgDefs(ps) ==
  IF IsOk(ps) /\ NextId(ps) = "GroupEnd" THEN ListOf(ps, 0) ELSE ParseArgDefs(ps, 0)

(* The type, the name and the arguments are on top, and perhaps a body. *)
BuildFuncDefWithoutBody(ps, native) ==
  PushNext(Pop(ps, 3), FuncDefWithoutBodyNode(native, Top(ps, 2), Top(ps, 1).name, Top(ps, 0).kids))
BuildFuncDefWithBody(ps, native) ==
  IF IsOk(ps)
  THEN Push(Pop(ps, 4), FuncDefWithBodyNode(native, Top(ps, 3), Top(ps, 2).name, Top(ps, 1).kids, Top(ps, 0)))
  ELSE ps
ParseBody(ps, native) ==
  IF IsOk(ps) /\ NextId(ps) = "StmtEnd" THEN BuildFuncDefWithoutBody(ps, native)
  ELSE BuildFuncDefWithBody(ParseScope(ps), native)
(* The next token is taken for the opening parenthesis, whatever it is. *)
ParseFuncDef(ps, native) ==
  ParseBody(Take(BuildList(ParseOptionalArgDefs(ConsumeNextToken(ps)), "Args"), "GroupEnd"), native)

BuildVarDefWithInit(ps) ==
  IF IsOk(ps) THEN Push(Pop(ps, 3), VarDefWithInitNode(Top(ps, 2), Top(ps, 1).name, Top(ps, 0))) ELSE ps
(* The type and the name are on top. *)
ParseRestOfDef(ps, native) ==
  LET id == NextId(ps)
  IN  IF ~IsOk(ps) THEN ps
      ELSE IF native \/ id = "GroupStart" THEN ParseFuncDef(ps, native)
      ELSE IF id = "StmtEnd" THEN PushNext(Pop(ps, 2), VarDefWithoutInitNode(Top(ps, 1), Top(ps, 0).name))
      ELSE IF id = "AssignOp" THEN BuildVarDefWithInit(TakeStmtEnd(ParseExpr(ConsumeNextToken(ps))))
      ELSE UnexpectedToken(ps)
ParseDef(ps, native) == ParseRestOfDef(ParseName(ParseFullDataType(ps)), native)

ParseStmt(ps) ==
  LET id == NextId(ps)
  IN  CASE id \in DOMAIN PrimitiveDataTypeNode -> ParseDef(ps, FALSE)
        [] id = "Native" -> ParseDef(ConsumeNextToken(ps), TRUE)
        [] id = "While" -> ParsePreTestLoop(ps)
        [] id = "If" -> ParseIf(ps)
        [] id = "Import" -> ParseImport(ps)
        [] id = "Break" -> ParseBreak(ps)
        [] id = "Continue" -> ParseContinue(ps)
        [] id = "Return" -> ParseReturn(ps)
        [] OTHER -> ParseExprStmt(ps)

(* A source that is parsed leaves its program on top. *)
Parse(tokens) == BuildList(ParseStmts(ListOf(StartOf(tokens), 0), "FileEnd"), "Program")
=============================================================================
