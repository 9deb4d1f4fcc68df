------------------------------- MODULE Syntax -------------------------------
(***************************************************************************)
(* From the characters of a source to the tree of its program and the      *)
(* values of its literals: the lexer, the parser and the parser of         *)
(* literals together.                                                      *)
(*                                                                         *)
(* The parser asks the lexer for one token at a time.  It never looks past *)
(* the next token and asks for no other, so that reading all of them first *)
(* makes no difference but for a character that is refused: it then stands *)
(* at the end of the tokens, and the parser throws when it comes to it.    *)
(***************************************************************************)
EXTENDS Lexer, Parser, LitParser, Grammar
LOCAL INSTANCE FiniteSetsExt

CONSTANTS
  Sources     \* families of texts to read, each with what it was written from
(* A source is written from a program, or from the value of a literal, or  *)
(* from neither.                                                           *)
NoTree == Node("None", <<>>)
Source(txt, tree, kind, value) == [text |-> txt, tree |-> tree, kind |-> kind, value |-> value]
ASSUME SourcesAssumption ==
  \A i \in DOMAIN Sources : \A source \in Sources[i] : source.tree = NoTree \/ source.kind = "none"

VARIABLES
  meant,      \* the source that text is of
  parsed      \* what the parser did, or NotParsed

vars == <<text, place, tokens, refused, meant, parsed>>

NotParsed == [outcome |-> "none", next |-> 0, tree |-> NoTree]

Init ==
  /\ \E i \in DOMAIN Sources : meant \in Sources[i]
  /\ text = meant.text /\ place = Start /\ tokens = <<>> /\ refused = NoPlace
  /\ parsed = NotParsed

Lex == GetNextToken /\ UNCHANGED <<meant, parsed>>

(* The tokens that the parser gets, and how its run ends. *)
Given ==
  IF refused = NoPlace THEN tokens ELSE Append(tokens, TokenInfo("Refused", "", refused))
Outcome(ps) ==
  CASE ps.goes = "unexpected" /\ NextId(ps) = "Refused" -> "UnexpectedCharError"
    [] ps.goes = "unexpected" /\ NextId(ps) # "Refused" -> "UnexpectedTokenError"
    [] OTHER -> ps.goes
Result(ps) ==
  [outcome |-> Outcome(ps), next |-> ps.next, tree |-> IF IsOk(ps) THEN Top(ps, 0) ELSE NoTree]
ParseProgram ==
  /\ ~Running /\ parsed = NotParsed
  /\ parsed' = Result(Parse(Given))
  /\ UNCHANGED <<text, place, tokens, refused, meant>>

Next == Lex \/ ParseProgram
Spec == Init /\ [][Next]_vars

-----------------------------------------------------------------------------
(* The variables have their types, and no assertion of the parser fails:   *)
(* operators of one priority group the same way.                           *)
SyntaxTypeOK ==
  /\ text = meant.text
  /\ place.at \in 0..Len(text) /\ place.line \in 0..place.at /\ place.column \in 0..place.at
  /\ \A i \in DOMAIN tokens : tokens[i].id \in Token
  /\ refused \in {NoPlace, place}
  /\ parsed.outcome \in {"none", "ok", "UnexpectedTokenError", "UnexpectedCharError"}
  /\ parsed.outcome = "ok" <=> parsed.tree # NoTree

(* The characters before a place that end a line, and those since. *)
LinesBefore(at) == {k \in 0..at - 1 : CharAt(k) = LineEnd}
LineAt(at) == Cardinality(LinesBefore(at))
ColumnAt(at) == IF LinesBefore(at) = {} THEN at ELSE at - 1 - Max(LinesBefore(at))

(* The offset of a line and a column. *)
OffsetOf(line, column) ==
  column + (IF line = 0 THEN 0 ELSE 1 + CHOOSE k \in LinesBefore(Len(text)) : LineAt(k) = line - 1)

(* The line and the column of the lexer, of each token and of a refused    *)
(* character are those at which they stand in the source, and between      *)
(* tokens there are only blanks: nothing is lost and nothing read twice.   *)
(* A line that ends right after a backslash in a literal is not counted    *)
(* by the code, and all positions after it are wrong; it is left out.      *)
EscapesLineEnd == \E k \in 1..place.at - 1 : SubSeq(text, k, k + 1) = "\\\n"
PositionsAreTrue ==
  LET Begin(i) == OffsetOf(tokens[i].line, tokens[i].column)
      End(i) == IF i = 0 THEN 0 ELSE Begin(i) + Len(tokens[i].value)
      OnlyBlanks(from, to) == \A at \in from..to - 1 : CharAt(at) \in Blank \cup {LineEnd}
  IN  ~EscapesLineEnd =>
        /\ place.line = LineAt(place.at) /\ place.column = ColumnAt(place.at)
        /\ \A i \in DOMAIN tokens :
             /\ SubSeq(text, Begin(i) + 1, End(i)) = tokens[i].value
             /\ End(i - 1) <= Begin(i) /\ OnlyBlanks(End(i - 1), Begin(i))
        /\ refused = NoPlace => OnlyBlanks(End(Len(tokens)), place.at)

(* A token is the longest text that is one, of the kind that the lexer     *)
(* says; a character is refused only where no token starts.                *)
FixedText ==
  [AssignOp |-> "=", GreaterOrEqualOp |-> ">=", GreaterOp |-> ">", LessOrEqualOp |-> "<=",
   LessOp |-> "<", EqualOp |-> "==", NotEqualOp |-> "!=", PreIncOp |-> "++", PreDecOp |-> "--",
   NotOp |-> "!", AndOp |-> "&&", OrOp |-> "||", SumOp |-> "+", SubOp |-> "-", MulOp |-> "*",
   DivOp |-> "/", SubscriptStart |-> "[", SubscriptEnd |-> "]", GroupStart |-> "(",
   GroupEnd |-> ")", ScopeStart |-> "{", ScopeEnd |-> "}", Separator |-> ",", StmtEnd |-> ";",
   IntType |-> "int", LongType |-> "long", CharType |-> "char", DoubleType |-> "double",
   StringType |-> "string", VoidType |-> "void", BoolType |-> "bool", BoolTrueLit |-> "yeah",
   BoolFalseLit |-> "nah", New |-> "fresh", Import |-> "homie", Break |-> "holdon",
   Return |-> "bringitback", Continue |-> "keeprollin", While |-> "roll", If |-> "if",
   Else |-> "elz", Native |-> "real"]
IsRun(str, from, to, chars) == \A i \in from..to : Char(str, i) \in chars
IsLiteral(str, enclosing) ==
  LET n == Len(str)
      IsEscaped(i) ==
        \E k \in 1..i - 2 : /\ k % 2 = 1 /\ IsRun(str, i - k, i - 1, {"\\"})
                            /\ i - k - 1 = 1 \/ Char(str, i - k - 1) # "\\"
  IN  /\ n > 1 /\ Char(str, 1) = enclosing /\ Char(str, n) = enclosing /\ ~IsEscaped(n)
      /\ \A i \in 2..n - 1 : Char(str, i) = enclosing => IsEscaped(i)
KindsOf(str) ==
  LET n == Len(str)
      IsNumber(to) == to > 0 /\ IsRun(str, 1, to, Digit)
  IN  {id \in DOMAIN FixedText : FixedText[id] = str}
        \cup (IF IsNumber(n) THEN {"IntLit"} ELSE {})
        \cup (IF Char(str, n) = "L" /\ IsNumber(n - 1) THEN {"LongLit"} ELSE {})
        \cup (IF \E dot \in 2..n : /\ Char(str, dot) = "." /\ IsNumber(dot - 1)
                                   /\ IsRun(str, dot + 1, n, Digit) THEN {"DoubleLit"} ELSE {})
        \cup (IF IsLiteral(str, "'") THEN {"CharLit"} ELSE {})
        \cup (IF IsLiteral(str, "\"") THEN {"StringLit"} ELSE {})
        \cup (IF /\ Char(str, 1) \in Letter /\ IsRun(str, 2, n, Letter \cup Digit \cup {"_"})
                 /\ \A id \in DOMAIN FixedText : FixedText[id] # str
              THEN {"Name"} ELSE {})
LexesLongest ==
  [][LET Ahead(n) == SubSeq(text, place.at + 1, place.at + n)
         Rest == Len(text) - place.at
         token == tokens'[Len(tokens')]
     IN  /\ tokens' # tokens /\ token.id # "FileEnd" =>
              /\ token.value = Ahead(place'.at - place.at) /\ KindsOf(token.value) = {token.id}
              /\ \A n \in Len(token.value) + 1..Rest : KindsOf(Ahead(n)) = {}
         /\ refused' # refused => \A n \in 1..Rest : KindsOf(Ahead(n)) = {}
    ]_vars

(* What is parsed is what the grammar says: a source that stands for no    *)
(* program is refused, and one that does gives that tree, by a stack of    *)
(* operators and one token of lookahead.  After "real" the code takes any  *)
(* token for the parenthesis of the arguments; that is left out.           *)
SkipsToken ==
  \E i \in DOMAIN tokens : \E j \in i + 1..Len(tokens) - 1 :
    /\ tokens[i].id = "Native" /\ tokens[j].id = "Name" /\ tokens[j + 1].id # "GroupStart"
    /\ \A k \in i + 1..j - 1 : tokens[k].id \in DOMAIN TypeClass \cup {"SubscriptStart", "SubscriptEnd"}
ParsesGrammar ==
  parsed # NotParsed /\ refused = NoPlace /\ ~SkipsToken =>
    Programs(SubSeq(tokens, 1, Len(tokens) - 1))
      = IF parsed.outcome = "ok" THEN {parsed.tree} ELSE {}

(* A program written with the parentheses it needs, and no others, is read *)
(* as that program.                                                        *)
ParsesWhatIsPrinted ==
  parsed # NotParsed /\ meant.tree # NoTree => parsed.outcome = "ok" /\ parsed.tree = meant.tree

(* A literal is one token however its value is written, and stands for     *)
(* that value; a value out of range is refused, and what the lexer lets    *)
(* pass for a literal never fails an assertion.                            *)
ValueOf(token) ==
  CASE token.id = "StringLit" -> ParseString(token.value)
    [] token.id = "CharLit" -> ParseChar(token.value)
    [] token.id = "IntLit" -> ParseInt(token.value)
    [] token.id = "LongLit" -> ParseLong(token.value)
    [] token.id = "DoubleLit" -> ParseDouble(token.value)
    [] token.id \in {"BoolTrueLit", "BoolFalseLit"} -> ParseBool(token.value)
    [] OTHER -> Is(<<>>)
Expected(kind, value) ==
  CASE kind \in {"StringLit", "CharLit"} /\ \E i \in DOMAIN value : value[i] > 127 ->
         Throws("OutOfRangeError")
    [] kind = "CharLit" /\ Len(value) > 1 -> Throws("MultipleCharsError")
    [] kind = "IntLit" /\ value[1] > IntMax -> Throws("OutOfRangeError")
    [] kind = "LongLit" /\ value[1] > LongMax -> Throws("OutOfRangeError")
    [] OTHER -> Is(value)
=============================================================================
