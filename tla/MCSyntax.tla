------------------------------ MODULE MCSyntax ------------------------------
(***************************************************************************)
(* Sources for TLC: all short texts over characters that matter, literals  *)
(* in every way of writing them, programs written from their trees, all    *)
(* short rows of words, and programs with one word lost, doubled, replaced *)
(* or put in.                                                              *)
(***************************************************************************)
EXTENDS Syntax
LOCAL INSTANCE SequencesExt
LOCAL INSTANCE FiniteSetsExt

Raw(txt) == Source(txt, NoTree, "none", <<>>)
RECURSIVE Joined(_, _), Texts(_, _)
Joined(parts, i) == IF i > Len(parts) THEN "" ELSE parts[i] \o Joined(parts, i + 1)
SpaceAfter(word) == IF word \in {";", "{", "}"} THEN "\n" ELSE " "
TextOf(words) == Joined([i \in DOMAIN words |-> words[i] \o SpaceAfter(words[i])], 1)
Texts(parts, n) ==
  IF n = 0 THEN {""}
  ELSE LET shorter == Texts(parts, n - 1)
       IN  shorter \cup {txt \o part : txt \in shorter, part \in parts}
Spaced(words) == {w \o " " : w \in words}

-----------------------------------------------------------------------------
(* Characters and words. *)
AnyChar ==
  {"1", "L", ".", "a", "_", "+", "-", "=", "!", "<", "&", "|", "(", "\"", "'", "\\", "\n", " ", "@"}
TokenChar == {"1", ".", "L", "\"", "\\", "\n", "="}
Glued == {"if", "elz", "\n", " ", "+", ";"}
ExprWord == {"a", "1", "+", "*", "-", "=", "!", "(", ")", "[", "]", ","}
StmtWord == {"int", "a", "=", ";", "(", ")", "{", "}", "if", "elz", "bringitback", "real"}

-----------------------------------------------------------------------------
(* Literals: the ways to write a code. *)
Written ==
  0 :> {"\\x0", "\\x00"} @@ 7 :> {"\\a"} @@ 9 :> {"\t", "\\t"} @@ 10 :> {"\n", "\\n", "\\\n", "\\xa"}
    @@ 34 :> {"\\\"", "\\x22"} @@ 39 :> {"\\'", "\\x27"} @@ 49 :> {"1", "\\1"}
    @@ 92 :> {"\\\\", "\\x5C"} @@ 97 :> {"a", "\\x61"} @@ 120 :> {"x", "\\x78"}
    @@ 127 :> {"\\x7f"} @@ 128 :> {"\\x80"}
Codes == DOMAIN Written
IsHex(w) == Len(w) > 2 /\ SubSeq(w, 1, 2) = "\\x"
(* A digit after a hexadecimal escape would be read as part of it. *)
Separate(ws) ==
  \A i \in 1..Len(ws) - 1 : IsHex(ws[i]) => SubSeq(ws[i + 1], 1, 1) \notin DOMAIN HexDigit
Rows(codes) ==
  {ws \in [DOMAIN codes -> UNION {Written[codes[i]] : i \in DOMAIN codes}] :
     Separate(ws) /\ \A i \in DOMAIN codes : ws[i] \in Written[codes[i]]}
Enclosing == [StringLit |-> "\"", CharLit |-> "'"]
CharLiteral(ws, codes, kind) ==
  Source(Enclosing[kind] \o Joined(ws, 1) \o Enclosing[kind], NoTree, kind, codes)
CharLiterals ==
  UNION {UNION {{CharLiteral(ws, codes, kind) : ws \in Rows(codes)} :
                  codes \in UNION {[1..k -> Codes] : k \in 1..2}} : kind \in DOMAIN Enclosing}
Numbers == 0..3 \cup {9, 10, 19, 20, 21, 99, 100, 101}
DoubleLiteral(n, m) ==
  Source(ToString(n) \o "." \o ToString(m), NoTree, "DoubleLit",
         IF m < 10 THEN <<n * 10 + m, 1>> ELSE <<n * 100 + m, 2>>)
NumberLiterals ==
  {Source(ToString(n), NoTree, "IntLit", <<n>>) : n \in Numbers}
    \cup {Source("0" \o ToString(n) \o "L", NoTree, "LongLit", <<n>>) : n \in Numbers}
    \cup {DoubleLiteral(n, m) : n \in Numbers, m \in 0..20}
    \cup {Source("yeah", NoTree, "BoolTrueLit", <<1>>), Source("nah", NoTree, "BoolFalseLit", <<0>>)}

-----------------------------------------------------------------------------
(* Expressions. *)
A == IdNode("a")
One == IntNode("1")
Leaves ==
  {A, IdNode("b_1"), One, LongNode("2L"), DoubleNode("1."), CharNode("'\\''"), StringNode("\"s\nt\""),
   BoolNode("yeah"), BoolNode("nah")}
Binary == BinaryExpr \cup {"Assign"}
Sized(sizes) ==
  ArrayAllocWithoutInitNode(IntDataTypeNode, [i \in DOMAIN sizes |-> BoundedArraySizeNode(sizes[i])])
Valued(n, values) ==
  ArrayAllocWithInitNode(StringDataTypeNode, [i \in 1..n |-> UnboundedArraySizeNode], values)
(* One operator around an operand, the others being plain. *)
Around(x) ==
  {BinaryExprNode(op, x, A) : op \in Binary} \cup {BinaryExprNode(op, One, x) : op \in Binary}
    \cup {UnaryExprNode(op, x) : op \in UnaryExpr}
    \cup {SubscriptNode(x, A), SubscriptNode(A, x), CallNode(x, <<>>), CallNode(x, <<A>>),
          CallNode(A, <<x>>), CallNode(A, <<One, x>>), Sized(<<x>>), Sized(<<A, x>>),
          Valued(1, <<x>>), Valued(2, <<A, x>>)}
(* One operator of each priority. *)
OnePerPrio == {"Assign", "Or", "And", "Equal", "Less", "Sub", "Div"}
Some(x) ==
  {BinaryExprNode(op, x, A) : op \in OnePerPrio} \cup {BinaryExprNode(op, A, x) : op \in OnePerPrio}
    \cup {NegativeNode(x), SubscriptNode(x, A), SubscriptNode(A, x), CallNode(x, <<>>),
          CallNode(A, <<x>>), Sized(<<x>>)}
ExprTrees ==
  Leaves \cup UNION {Around(x) : x \in Leaves} \cup {Valued(1, <<>>)}
    \cup UNION {Around(x) : x \in Around(A) \cup {Valued(2, <<>>)}}
    \cup UNION {UNION {Some(x) : x \in Some(y)} : y \in Some(A)}
    \cup {BinaryExprNode(op, x, y) : op \in {"Assign", "Sub", "Or"}, x \in Some(A), y \in Some(One)}

-----------------------------------------------------------------------------
(* Statements. *)
Empty == ScopeNode(<<>>)
WhenA(body) == IfNode(A, body)
Simple ==
  {BreakNode, ContinueNode, ReturnWithoutValueNode, ReturnValueNode(One), ExprStmtNode(A),
   ImportNode(StringNode("\"f\"")), VarDefWithoutInitNode(IntDataTypeNode, "a"),
   VarDefWithInitNode(ArrayDataTypeNode(BoolDataTypeNode), "a", One)}
DataTypes ==
  {IntDataTypeNode, LongDataTypeNode, CharDataTypeNode, DoubleDataTypeNode, BoolDataTypeNode,
   StringDataTypeNode, VoidDataTypeNode, ArrayDataTypeNode(IntDataTypeNode),
   ArrayDataTypeNode(ArrayDataTypeNode(VoidDataTypeNode))}
TwoArgs == <<ArgDefNode(ArrayDataTypeNode(CharDataTypeNode), "a"), ArgDefNode(LongDataTypeNode, "b")>>
ArgRows == {<<>>, <<ArgDefNode(IntDataTypeNode, "a")>>, TwoArgs}
Defs ==
  {VarDefWithoutInitNode(t, "v") : t \in DataTypes}
    \cup {VarDefWithInitNode(t, "v", BinaryExprNode("Sum", A, One)) : t \in DataTypes}
    \cup {FuncDefWithoutBodyNode(n, t, "f", args) : n \in BOOLEAN, t \in DataTypes, args \in ArgRows}
    \cup {FuncDefWithBodyNode(n, IntDataTypeNode, "f", args, Empty) : n \in BOOLEAN, args \in ArgRows}
(* One statement around a body. *)
Holding(body) ==
  {PreTestLoopNode(A, body), IfElseIfNode(WhenA(body), <<>>),
   IfElseIfElseNode(WhenA(Empty), <<>>, body),
   IfElseIfNode(WhenA(Empty), <<ElseIfNode(WhenA(body)), ElseIfNode(WhenA(Empty))>>),
   IfElseIfElseNode(WhenA(Empty), <<ElseIfNode(WhenA(body))>>, Empty),
   FuncDefWithBodyNode(FALSE, VoidDataTypeNode, "f", <<>>, body)}
Bodies == {ScopeNode(<<s>>) : s \in Simple} \cup {Empty, ScopeNode(<<BreakNode, ContinueNode>>)}
Nested == UNION {Holding(b) : b \in Bodies}
Second == Simple \cup Holding(Empty)
StmtLists ==
  {<<s>> : s \in Simple \cup Defs \cup Nested \cup UNION {Holding(ScopeNode(<<s>>)) : s \in Nested}}
    \cup {<<ExprStmtNode(e)>> : e \in ExprTrees}
    \cup {<<s, t>> : s \in Second, t \in Second} \cup {<<>>}
FromTree(tree) == Source(TextOf(Words(tree)), tree, "none", <<>>)

(* Programs to be damaged. *)
Seeds ==
  {Words(ProgramNode(<<s>>)) :
     s \in {IfElseIfElseNode(WhenA(Empty), <<ElseIfNode(WhenA(ScopeNode(<<BreakNode>>)))>>, Empty),
            PreTestLoopNode(A, ScopeNode(<<ContinueNode, ReturnValueNode(A)>>)),
            FuncDefWithBodyNode(FALSE, IntDataTypeNode, "f", TwoArgs, Empty),
            FuncDefWithoutBodyNode(TRUE, VoidDataTypeNode, "f", <<ArgDefNode(IntDataTypeNode, "a")>>),
            VarDefWithInitNode(ArrayDataTypeNode(IntDataTypeNode), "v", Valued(2, <<A, One>>)),
            ImportNode(StringNode("\"f\"")),
            ExprStmtNode(CallNode(SubscriptNode(A, Sized(<<One, A>>)), <<A, One>>))}}
AnyWord ==
  {"a", "1", "\"s\"", "(", ")", "[", "]", "{", "}", ",", ";", "=", "-", "!", "int", "real", "if", "elz",
   "roll", "homie", "holdon", "bringitback", "fresh"}
Damaged(ws) ==
  {RemoveAt(ws, i) : i \in DOMAIN ws} \cup {InsertAt(ws, i, ws[i]) : i \in DOMAIN ws}
    \cup {[ws EXCEPT ![i] = w] : i \in DOMAIN ws, w \in AnyWord}
    \cup {InsertAt(ws, i, w) : i \in DOMAIN ws, w \in AnyWord}

MCSources ==
  << {Raw(txt) : txt \in Texts(AnyChar, 3)}, {Raw(txt) : txt \in Texts(TokenChar, 5)},
     {Raw(txt) : txt \in Texts(Glued, 4)}, CharLiterals, NumberLiterals,
     {FromTree(ProgramNode(stmts)) : stmts \in StmtLists},
     {Raw(txt \o ";") : txt \in Texts(Spaced(ExprWord), 3)},
     {Raw(txt) : txt \in Texts(Spaced(StmtWord), 4)},
     {Raw(TextOf(ws)) : ws \in UNION {Damaged(seed) : seed \in Seeds}} >>
=============================================================================
