------------------------------- MODULE Trees --------------------------------
(***************************************************************************)
(* The trees that the parser builds and the analyzer and the generator     *)
(* visit: one operator per class of node (include/real_talk/parser).       *)
(*                                                                         *)
(* A node has its class, what its tokens say (the name of an id or of a    *)
(* definition, the value or the text of a literal, whether a function is   *)
(* native) and the nodes it owns, in the order in which the class declares *)
(* them.  Brackets, commas, semicolons and keywords, which the classes     *)
(* keep for messages only, are left out.                                   *)
(***************************************************************************)
EXTENDS Integers, Sequences

Node(class, kids) == [node |-> class, kids |-> kids]
Named(class, name, kids) == [node |-> class, name |-> name, kids |-> kids]
Lit(class, value) == [node |-> class, lit |-> value, kids |-> <<>>]

BoolNode(value) == Lit("Bool", value)
IntNode(value) == Lit("Int", value)
LongNode(value) == Lit("Long", value)
DoubleNode(value) == Lit("Double", value)
CharNode(value) == Lit("Char", value)
StringNode(value) == Lit("String", value)
IdNode(name) == Named("Id", name, <<>>)

AndNode(left, right) == Node("And", <<left, right>>)
OrNode(left, right) == Node("Or", <<left, right>>)
EqualNode(left, right) == Node("Equal", <<left, right>>)
NotEqualNode(left, right) == Node("NotEqual", <<left, right>>)
GreaterNode(left, right) == Node("Greater", <<left, right>>)
GreaterOrEqualNode(left, right) == Node("GreaterOrEqual", <<left, right>>)
LessNode(left, right) == Node("Less", <<left, right>>)
LessOrEqualNode(left, right) == Node("LessOrEqual", <<left, right>>)
SumNode(left, right) == Node("Sum", <<left, right>>)
SubNode(left, right) == Node("Sub", <<left, right>>)
MulNode(left, right) == Node("Mul", <<left, right>>)
DivNode(left, right) == Node("Div", <<left, right>>)
AssignNode(left, right) == Node("Assign", <<left, right>>)

NotNode(operand) == Node("Not", <<operand>>)
NegativeNode(operand) == Node("Negative", <<operand>>)
PreIncNode(operand) == Node("PreInc", <<operand>>)
PreDecNode(operand) == Node("PreDec", <<operand>>)

CallNode(operand, args) == Node("Call", <<operand>> \o args)
SubscriptNode(operand, index) == Node("Subscript", <<operand, index>>)
ArrayAllocWithoutInitNode(type, sizes) ==
  Node("ArrayAllocWithoutInit", <<type>> \o sizes)
ArrayAllocWithInitNode(type, sizes, values) ==
  Node("ArrayAllocWithInit", <<type, Node("Sizes", sizes), Node("Values", values)>>)
BoundedArraySizeNode(value) == Node("BoundedArraySize", <<value>>)
UnboundedArraySizeNode == Node("UnboundedArraySize", <<>>)

BoolDataTypeNode == Node("BoolDataType", <<>>)
IntDataTypeNode == Node("IntDataType", <<>>)
LongDataTypeNode == Node("LongDataType", <<>>)
DoubleDataTypeNode == Node("DoubleDataType", <<>>)
CharDataTypeNode == Node("CharDataType", <<>>)
StringDataTypeNode == Node("StringDataType", <<>>)
VoidDataTypeNode == Node("VoidDataType", <<>>)
ArrayDataTypeNode(element) == Node("ArrayDataType", <<element>>)

VarDefWithoutInitNode(type, name) == Named("VarDefWithoutInit", name, <<type>>)
VarDefWithInitNode(type, name, value) == Named("VarDefWithInit", name, <<type, value>>)
ArgDefNode(type, name) == Named("ArgDef", name, <<type>>)
FuncDefWithBodyNode(native, type, name, args, body) ==
  [node |-> "FuncDefWithBody", name |-> name, native |-> native,
   kids |-> <<type, Node("Args", args), body>>]
FuncDefWithoutBodyNode(native, type, name, args) ==
  [node |-> "FuncDefWithoutBody", name |-> name, native |-> native,
   kids |-> <<type, Node("Args", args)>>]

ExprStmtNode(expr) == Node("ExprStmt", <<expr>>)
ReturnValueNode(value) == Node("ReturnValue", <<value>>)
ReturnWithoutValueNode == Node("ReturnWithoutValue", <<>>)
BreakNode == Node("Break", <<>>)
ContinueNode == Node("Continue", <<>>)
PreTestLoopNode(cond, body) == Node("PreTestLoop", <<cond, body>>)
IfNode(cond, body) == Node("If", <<cond, body>>)
ElseIfNode(if) == Node("ElseIf", <<if>>)
IfElseIfNode(if, elseIfs) == Node("IfElseIf", <<if, Node("ElseIfs", elseIfs)>>)
IfElseIfElseNode(if, elseIfs, body) ==
  Node("IfElseIfElse", <<if, Node("ElseIfs", elseIfs), body>>)
ScopeNode(stmts) == Node("Scope", stmts)
ImportNode(path) == Node("Import", <<path>>)
ProgramNode(stmts) == Node("Program", stmts)

(* The shape of an operator's node is its class and its operands. *)
BinaryExpr ==
  {"And", "Or", "Equal", "NotEqual", "Greater", "GreaterOrEqual", "Less",
   "LessOrEqual", "Sum", "Sub", "Mul", "Div"}
BinaryExprNode(class, left, right) == Node(class, <<left, right>>)
UnaryExpr == {"Not", "Negative", "PreInc", "PreDec"}
UnaryExprNode(class, operand) == Node(class, <<operand>>)
=============================================================================
