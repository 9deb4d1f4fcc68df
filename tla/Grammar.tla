------------------------------ MODULE Grammar -------------------------------
(***************************************************************************)
(* The grammar of the language, as the parser's specification: the trees   *)
(* that a sequence of tokens stands for, told by how the sequence can be   *)
(* split.  No token is read from left to right, and there is no stack.     *)
(* A second description goes the other way: the words a tree is written    *)
(* as, with the parentheses it needs and no others.                        *)
(***************************************************************************)
EXTENDS Trees, FiniteSets
LOCAL INSTANCE SequencesExt
LOCAL INSTANCE Functions

(* Operators by how tightly they bind: 1 is assignment, which groups to    *)
(* the right; 2 to 7 group to the left; 8 stands before its operand and 9  *)
(* after it.                                                               *)
Level ==
  << <<"AssignOp">>, <<"OrOp">>, <<"AndOp">>, <<"EqualOp", "NotEqualOp">>,
     <<"GreaterOrEqualOp", "GreaterOp", "LessOrEqualOp", "LessOp">>, <<"SumOp", "SubOp">>,
     <<"MulOp", "DivOp">> >>
OpsOf == [l \in DOMAIN Level |-> Range(Level[l])]
OpClass ==
  [AssignOp |-> "Assign", OrOp |-> "Or", AndOp |-> "And", EqualOp |-> "Equal",
   NotEqualOp |-> "NotEqual", GreaterOrEqualOp |-> "GreaterOrEqual", GreaterOp |-> "Greater",
   LessOrEqualOp |-> "LessOrEqual", LessOp |-> "Less", SumOp |-> "Sum", SubOp |-> "Sub",
   MulOp |-> "Mul", DivOp |-> "Div"]
PrefixClass ==
  [NotOp |-> "Not", SubOp |-> "Negative", PreIncOp |-> "PreInc", PreDecOp |-> "PreDec"]
LitClass ==
  [Name |-> "Id", IntLit |-> "Int", LongLit |-> "Long", DoubleLit |-> "Double", CharLit |-> "Char",
   StringLit |-> "String", BoolTrueLit |-> "Bool", BoolFalseLit |-> "Bool"]
TypeClass ==
  [IntType |-> "IntDataType", LongType |-> "LongDataType", CharType |-> "CharDataType",
   DoubleType |-> "DoubleDataType", BoolType |-> "BoolDataType", StringType |-> "StringDataType",
   VoidType |-> "VoidDataType"]

(* Parts of a sequence of tokens. *)
Part(s, i, j) == SubSeq(s, i, j)
Before(s, i) == SubSeq(s, 1, i - 1)
After(s, i) == SubSeq(s, i + 1, Len(s))
Inside(s) == SubSeq(s, 2, Len(s) - 1)
Starts(s, id) == s # <<>> /\ Head(s).id = id
Ends(s, id) == s # <<>> /\ Last(s).id = id
Encloses(s, start, end) == Len(s) >= 2 /\ Starts(s, start) /\ Ends(s, end)
At(s, ids) == {i \in DOMAIN s : s[i].id \in ids}

RECURSIVE Exprs(_, _), Lists(_), Sizes(_)

(* Lists of expressions between commas. *)
OneOrMore(s) ==
  {<<e>> : e \in Exprs(s, 1)}
    \cup UNION {{<<e>> \o rest : e \in Exprs(Before(s, i), 1), rest \in Lists(After(s, i)) \ {<<>>}} :
                  i \in At(s, {"Separator"})}
Lists(s) == IF s = <<>> THEN {<<>>} ELSE OneOrMore(s)

(* Sizes of an array, each in brackets. *)
Sizes(s) ==
  IF s = <<>> THEN {<<>>}
  ELSE IF ~Starts(s, "SubscriptStart") THEN {}
  ELSE UNION {{<<BoundedArraySizeNode(e)>> \o rest :
                 e \in Exprs(Inside(Part(s, 1, i)), 1), rest \in Sizes(After(s, i))} :
                i \in At(s, {"SubscriptEnd"})}
IsUnsized(s) ==
  Len(s) % 2 = 0 /\ \A i \in DOMAIN s : s[i].id = IF i % 2 = 1 THEN "SubscriptStart" ELSE "SubscriptEnd"

Allocs(s) ==
  IF ~(Len(s) >= 2 /\ Starts(s, "New") /\ s[2].id \in DOMAIN TypeClass) THEN {}
  ELSE LET type == Node(TypeClass[s[2].id], <<>>)
           Sized(sizes) == ArrayAllocWithoutInitNode(type, sizes)
           With(n, values) == ArrayAllocWithInitNode(type, [k \in 1..n |-> UnboundedArraySizeNode], values)
       IN  {Sized(sizes) : sizes \in Sizes(After(s, 2)) \ {<<>>}}
             \cup UNION {{With((i - 3) \div 2, values) : values \in Lists(Inside(After(s, i - 1)))} :
                    i \in {i \in At(s, {"ScopeStart"}) :
                             /\ i > 4 /\ IsUnsized(Part(s, 3, i - 1))
                             /\ Encloses(After(s, i - 1), "ScopeStart", "ScopeEnd")}}

Primaries(s) ==
  (IF Len(s) = 1 /\ s[1].id \in DOMAIN LitClass
   THEN {IF s[1].id = "Name" THEN IdNode(s[1].value) ELSE Lit(LitClass[s[1].id], s[1].value)}
   ELSE {})
    \cup (IF Encloses(s, "GroupStart", "GroupEnd") THEN Exprs(Inside(s), 1) ELSE {})
    \cup Allocs(s)

(* A bracket after an array's sizes is one more size. *)
Operands(s) ==
  {e \in Exprs(s, 9) : ~(Starts(s, "New") /\ e.node = "ArrayAllocWithoutInit")}
Suffixed(s, i) ==
  IF Encloses(After(s, i - 1), "GroupStart", "GroupEnd")
  THEN {CallNode(f, args) : f \in Exprs(Before(s, i), 9), args \in Lists(Inside(After(s, i - 1)))}
  ELSE IF Encloses(After(s, i - 1), "SubscriptStart", "SubscriptEnd")
  THEN {SubscriptNode(a, e) : a \in Operands(Before(s, i)), e \in Exprs(Inside(After(s, i - 1)), 1)}
  ELSE {}

Joins(s, i, left, right) ==
  {Node(OpClass[s[i].id], <<l, r>>) : l \in Exprs(Before(s, i), left), r \in Exprs(After(s, i), right)}

Exprs(s, level) ==
  IF s = <<>> THEN {}
  ELSE IF level = 9
  THEN Primaries(s)
         \cup UNION {Suffixed(s, i) : i \in At(s, {"GroupStart", "SubscriptStart"}) \ {1}}
  ELSE IF level = 8
  THEN Exprs(s, 9)
         \cup (IF s[1].id \in DOMAIN PrefixClass
               THEN {Node(PrefixClass[s[1].id], <<e>>) : e \in Exprs(Tail(s), 8)} ELSE {})
  ELSE IF level = 1
  THEN Exprs(s, 2) \cup UNION {Joins(s, i, 2, 1) : i \in At(s, OpsOf[1])}
  ELSE Exprs(s, level + 1)
         \cup UNION {Joins(s, i, level, level + 1) : i \in At(s, OpsOf[level])}

-----------------------------------------------------------------------------
RECURSIVE Types(_), Stmts(_), ElseIfs(_)
Types(s) ==
  IF Len(s) = 1 /\ s[1].id \in DOMAIN TypeClass THEN {Node(TypeClass[s[1].id], <<>>)}
  ELSE IF Len(s) > 2 /\ s[Len(s) - 1].id = "SubscriptStart" /\ Ends(s, "SubscriptEnd")
  THEN {ArrayDataTypeNode(t) : t \in Types(Part(s, 1, Len(s) - 2))}
  ELSE {}

Args(s) ==
  IF Ends(s, "Name") THEN {ArgDefNode(t, Last(s).value) : t \in Types(Front(s))} ELSE {}
RECURSIVE ArgLists(_)
ArgLists(s) ==
  {<<a>> : a \in Args(s)}
    \cup UNION {{<<a>> \o rest : a \in Args(Before(s, i)), rest \in ArgLists(After(s, i)) \ {<<>>}} :
                  i \in At(s, {"Separator"})}
    \cup (IF s = <<>> THEN {<<>>} ELSE {})

Scopes(s) ==
  IF Encloses(s, "ScopeStart", "ScopeEnd") THEN {ScopeNode(x) : x \in Stmts(Inside(s))} ELSE {}

(* A condition in parentheses and a body, after one word. *)
Conds(s, class) ==
  IF Len(s) < 2 \/ s[2].id # "GroupStart" THEN {}
  ELSE UNION {{Node(class, <<e, b>>) : e \in Exprs(Part(s, 3, i - 1), 1), b \in Scopes(After(s, i))} :
                i \in At(s, {"GroupEnd"})}

ElseIfs(s) ==
  IF s = <<>> THEN {<<>>}
  ELSE IF ~(Len(s) >= 2 /\ Starts(s, "Else") /\ s[2].id = "If") THEN {}
  ELSE UNION {{<<ElseIfNode(f)>> \o rest : f \in Conds(Part(s, 2, i), "If"), rest \in ElseIfs(After(s, i))} :
                i \in At(s, {"ScopeEnd"})}
Ifs(s) ==
  LET First(i) == Conds(Part(s, 1, i), "If")
      Whole(i) == {IfElseIfNode(f, rest) : f \in First(i), rest \in ElseIfs(After(s, i))}
      WithElse(i, j) ==
        {IfElseIfElseNode(f, rest, b) :
           f \in First(i), rest \in ElseIfs(Part(s, i + 1, j - 1)), b \in Scopes(After(s, j))}
  IN  UNION {Whole(i) : i \in At(s, {"ScopeEnd"})}
        \cup UNION {UNION {WithElse(i, j) : j \in At(s, {"Else"})} : i \in At(s, {"ScopeEnd"})}

(* Definitions; n words come before the type. *)
VarDefs(s) ==
  UNION {(IF s[i].id = "AssignOp"
          THEN {VarDefWithInitNode(t, s[i - 1].value, e) :
                  t \in Types(Part(s, 1, i - 2)), e \in Exprs(Inside(After(s, i - 1)), 1)}
          ELSE IF i = Len(s)
          THEN {VarDefWithoutInitNode(t, s[i - 1].value) : t \in Types(Part(s, 1, i - 2))}
          ELSE {}) : i \in {i \in At(s, {"AssignOp", "StmtEnd"}) : i > 2 /\ s[i - 1].id = "Name" /\ Ends(s, "StmtEnd")}}
FuncDefs(s, native) ==
  UNION {UNION {
    {FuncDefWithoutBodyNode(native, t, s[i - 1].value, args) :
       t \in Types(Part(s, 1, i - 2)), args \in ArgLists(Part(s, i + 1, j - 1)),
       end \in {e \in {j + 1} : e = Len(s) /\ s[e].id = "StmtEnd"}}
      \cup {FuncDefWithBodyNode(native, t, s[i - 1].value, args, b) :
              t \in Types(Part(s, 1, i - 2)), args \in ArgLists(Part(s, i + 1, j - 1)), b \in Scopes(After(s, j))} :
    j \in {j \in At(s, {"GroupEnd"}) : j > i}} :
    i \in {i \in At(s, {"GroupStart"}) : i > 2 /\ s[i - 1].id = "Name"}}

Stmt(s) ==
  LET first == Head(s).id
      Ended == Ends(s, "StmtEnd")
  IN  CASE first \in DOMAIN TypeClass -> VarDefs(s) \cup FuncDefs(s, FALSE)
        [] first = "Native" -> FuncDefs(Tail(s), TRUE)
        [] first = "While" -> Conds(s, "PreTestLoop")
        [] first = "If" -> Ifs(s)
        [] first = "Import" ->
             IF Len(s) = 3 /\ Ended /\ s[2].id = "StringLit" THEN {ImportNode(StringNode(s[2].value))} ELSE {}
        [] first = "Break" -> IF Len(s) = 2 /\ Ended THEN {BreakNode} ELSE {}
        [] first = "Continue" -> IF Len(s) = 2 /\ Ended THEN {ContinueNode} ELSE {}
        [] first = "Return" ->
             IF ~Ended THEN {} ELSE IF Len(s) = 2 THEN {ReturnWithoutValueNode}
             ELSE {ReturnValueNode(e) : e \in Exprs(Inside(s), 1)}
        [] OTHER -> IF Ended THEN {ExprStmtNode(e) : e \in Exprs(Front(s), 1)} ELSE {}

Stmts(s) ==
  IF s = <<>> THEN {<<>>}
  ELSE UNION {{<<x>> \o rest : x \in Stmt(Part(s, 1, i)), rest \in Stmts(After(s, i))} :
                i \in At(s, {"StmtEnd", "ScopeEnd"})}

(* The programs that a whole source stands for: one or none. *)
Programs(s) == {ProgramNode(x) : x \in Stmts(s)}

-----------------------------------------------------------------------------
(* Words of a tree. *)
OpWord ==
  [Assign |-> "=", Or |-> "||", And |-> "&&", Equal |-> "==", NotEqual |-> "!=",
   GreaterOrEqual |-> ">=", Greater |-> ">", LessOrEqual |-> "<=", Less |-> "<", Sum |-> "+",
   Sub |-> "-", Mul |-> "*", Div |-> "/", Not |-> "!", Negative |-> "-", PreInc |-> "++",
   PreDec |-> "--"]
TypeWord ==
  [IntDataType |-> "int", LongDataType |-> "long", CharDataType |-> "char",
   DoubleDataType |-> "double", BoolDataType |-> "bool", StringDataType |-> "string",
   VoidDataType |-> "void"]

Literals == Range(LitClass) \ {"Id"}
Unaries == Range(PrefixClass)
Binaries == Range(OpClass)
LevelOfClass ==
  [class \in Binaries \cup Unaries |->
     IF class \in Unaries THEN 8
     ELSE CHOOSE l \in 1..7 : \E i \in DOMAIN Level[l] : OpClass[Level[l][i]] = class]
LevelOf(node) == IF node.node \in DOMAIN LevelOfClass THEN LevelOfClass[node.node] ELSE 9

RECURSIVE Words(_), WordsAt(_, _), InOrder(_), Commas(_), Bracketed(_)
InOrder(nodes) == IF nodes = <<>> THEN <<>> ELSE Words(Head(nodes)) \o InOrder(Tail(nodes))
Commas(nodes) ==
  IF Len(nodes) < 2 THEN InOrder(nodes)
  ELSE Words(Head(nodes)) \o <<",">> \o Commas(Tail(nodes))
Bracketed(sizes) ==
  IF sizes = <<>> THEN <<>> ELSE <<"[">> \o InOrder(Head(sizes).kids) \o <<"]">> \o Bracketed(Tail(sizes))

WordsAt(node, level) ==
  IF LevelOf(node) < level THEN <<"(">> \o Words(node) \o <<")">> ELSE Words(node)
ArrayWords(node) ==
  IF node.node = "ArrayAllocWithoutInit" THEN <<"(">> \o Words(node) \o <<")">> ELSE WordsAt(node, 9)
FuncWords(node) ==
  (IF node.native THEN <<"real">> ELSE <<>>) \o Words(node.kids[1])
    \o <<node.name, "(">> \o Commas(node.kids[2].kids) \o <<")">>

Words(node) ==
  LET class == node.node
      kids == node.kids
      level == LevelOf(node)
  IN  CASE class = "Id" -> <<node.name>>
        [] class \in Literals -> <<node.lit>>
        [] class = "Assign" -> WordsAt(kids[1], 2) \o <<"=">> \o WordsAt(kids[2], 1)
        [] class \in Binaries \ {"Assign"} ->
             WordsAt(kids[1], level) \o <<OpWord[class]>> \o WordsAt(kids[2], level + 1)
        [] class \in Unaries -> <<OpWord[class]>> \o WordsAt(kids[1], 8)
        [] class = "Call" -> WordsAt(kids[1], 9) \o <<"(">> \o Commas(Tail(kids)) \o <<")">>
        [] class = "Subscript" -> ArrayWords(kids[1]) \o <<"[">> \o Words(kids[2]) \o <<"]">>
        [] class = "ArrayAllocWithoutInit" -> <<"fresh">> \o Words(kids[1]) \o Bracketed(Tail(kids))
        [] class = "ArrayAllocWithInit" ->
             <<"fresh">> \o Words(kids[1]) \o Bracketed(kids[2].kids)
               \o <<"{">> \o Commas(kids[3].kids) \o <<"}">>
        [] class \in DOMAIN TypeWord -> <<TypeWord[class]>>
        [] class = "ArrayDataType" -> Words(kids[1]) \o <<"[", "]">>
        [] class = "VarDefWithoutInit" -> Words(kids[1]) \o <<node.name, ";">>
        [] class = "VarDefWithInit" -> Words(kids[1]) \o <<node.name, "=">> \o Words(kids[2]) \o <<";">>
        [] class = "ArgDef" -> Words(kids[1]) \o <<node.name>>
        [] class = "FuncDefWithoutBody" -> FuncWords(node) \o <<";">>
        [] class = "FuncDefWithBody" -> FuncWords(node) \o Words(kids[3])
        [] class = "ExprStmt" -> Words(kids[1]) \o <<";">>
        [] class = "ReturnValue" -> <<"bringitback">> \o Words(kids[1]) \o <<";">>
        [] class = "ReturnWithoutValue" -> <<"bringitback", ";">>
        [] class = "Break" -> <<"holdon", ";">>
        [] class = "Continue" -> <<"keeprollin", ";">>
        [] class = "PreTestLoop" -> <<"roll", "(">> \o Words(kids[1]) \o <<")">> \o Words(kids[2])
        [] class = "If" -> <<"if", "(">> \o Words(kids[1]) \o <<")">> \o Words(kids[2])
        [] class = "ElseIf" -> <<"elz">> \o Words(kids[1])
        [] class = "IfElseIf" -> Words(kids[1]) \o InOrder(kids[2].kids)
        [] class = "IfElseIfElse" ->
             Words(kids[1]) \o InOrder(kids[2].kids) \o <<"elz">> \o Words(kids[3])
        [] class = "Scope" -> <<"{">> \o InOrder(kids) \o <<"}">>
        [] class = "Import" -> <<"homie">> \o Words(kids[1]) \o <<";">>
        [] class = "Program" -> InOrder(kids)
=============================================================================
