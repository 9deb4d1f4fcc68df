------------------------------- MODULE Lexer --------------------------------
(***************************************************************************)
(* SimpleLexer (lexer/simple_lexer.cpp): a source becomes tokens, each     *)
(* with the line and the column at which it starts.                        *)
(*                                                                         *)
(* A source is a string, and a string is a sequence of characters.  One    *)
(* action is one turn of the loop of GetNextToken: a blank is passed, or a *)
(* token is returned, or a character is refused; tokens are read until the *)
(* file ends.                                                              *)
(***************************************************************************)
EXTENDS Integers, Sequences, TLC

VARIABLES
  text,     \* the source
  place,    \* where the stream is: characters consumed, line_number_, column_number_
  tokens,   \* the tokens returned
  refused   \* the place of an UnexpectedCharError, or NoPlace

-----------------------------------------------------------------------------
(* Characters. *)
Digit == {"0", "1", "2", "3", "4", "5", "6", "7", "8", "9"}
Letter ==
  {"a", "b", "c", "d", "e", "f", "g", "h", "i", "j", "k", "l", "m", "n", "o", "p", "q", "r", "s",
   "t", "u", "v", "w", "x", "y", "z", "A", "B", "C", "D", "E", "F", "G", "H", "I", "J", "K", "L",
   "M", "N", "O", "P", "Q", "R", "S", "T", "U", "V", "W", "X", "Y", "Z"}
kEscapeChar == "\\"
LineEnd == "\n"
Blank == {" ", "\r", "\t"}

CharAt(at) == SubSeq(text, at + 1, at + 1)

(* Tokens by what they are written as. *)
kKeywordTokens ==
  [int |-> "IntType", long |-> "LongType", char |-> "CharType", double |-> "DoubleType",
   string |-> "StringType", void |-> "VoidType", bool |-> "BoolType", yeah |-> "BoolTrueLit",
   nah |-> "BoolFalseLit", fresh |-> "New", homie |-> "Import", holdon |-> "Break",
   bringitback |-> "Return", keeprollin |-> "Continue", roll |-> "While", if |-> "If",
   elz |-> "Else", real |-> "Native"]
OneChar ==
  "*" :> "MulOp" @@ "/" :> "DivOp" @@ "[" :> "SubscriptStart" @@ "]" :> "SubscriptEnd"
    @@ "(" :> "GroupStart" @@ ")" :> "GroupEnd" @@ "{" :> "ScopeStart" @@ "}" :> "ScopeEnd"
    @@ "," :> "Separator" @@ ";" :> "StmtEnd"
TwoChar == "&" :> "AndOp" @@ "|" :> "OrOp"
OneOrTwoChar ==
  ">" :> <<"GreaterOp", "GreaterOrEqualOp">> @@ "<" :> <<"LessOp", "LessOrEqualOp">>
    @@ "=" :> <<"AssignOp", "EqualOp">> @@ "!" :> <<"NotOp", "NotEqualOp">>
PlusOrMinus == "+" :> <<"SumOp", "PreIncOp">> @@ "-" :> <<"SubOp", "PreDecOp">>
Quoted == "'" :> "CharLit" @@ "\"" :> "StringLit"

Token ==
  {kKeywordTokens[k] : k \in DOMAIN kKeywordTokens} \cup {OneChar[c] : c \in DOMAIN OneChar}
    \cup {TwoChar[c] : c \in DOMAIN TwoChar} \cup {Quoted[c] : c \in DOMAIN Quoted}
    \cup UNION {{OneOrTwoChar[c][1], OneOrTwoChar[c][2]} : c \in DOMAIN OneOrTwoChar}
    \cup UNION {{PlusOrMinus[c][1], PlusOrMinus[c][2]} : c \in DOMAIN PlusOrMinus}
    \cup {"IntLit", "LongLit", "DoubleLit", "Name", "FileEnd"}

-----------------------------------------------------------------------------
(* The stream. *)
NoPlace == [at |-> -1, line |-> -1, column |-> -1]
Start == [at |-> 0, line |-> 0, column |-> 0]

IsNextCharExists(p) == p.at < Len(text)
ConsumeChars(p, n) == [p EXCEPT !.at = @ + n, !.column = @ + n]
ConsumeNextChar(p) == ConsumeChars(p, 1)
ConsumeLineEndCharMutant(p) == [p EXCEPT !.at = @ + 1, !.line = @ + 1]
ConsumeLineEndChar(p) == [at |-> p.at + 1, line |-> p.line + 1, column |-> 0]

(* The characters of a set that follow a place. *)
RunOf(chars, at) ==
  CHOOSE n \in 0..Len(text) - at :
    /\ \A k \in 0..n - 1 : CharAt(at + k) \in chars
    /\ at + n < Len(text) => CharAt(at + n) \notin chars

TokenInfo(id, value, p) == [id |-> id, value |-> value, line |-> p.line, column |-> p.column]

(* A token of the next n characters, or of all up to a place. *)
ReturnUpTo(id, end) ==
  /\ place' = end
  /\ tokens' = Append(tokens, TokenInfo(id, SubSeq(text, place.at + 1, end.at), place))
  /\ UNCHANGED <<text, refused>>
Return(id, n) == ReturnUpTo(id, ConsumeChars(place, n))
UnexpectedChar(p) == place' = p /\ refused' = p /\ UNCHANGED <<text, tokens>>

Running ==
  /\ refused = NoPlace
  /\ tokens # <<>> => tokens[Len(tokens)].id # "FileEnd"
NextIs(chars) == Running /\ IsNextCharExists(place) /\ CharAt(place.at) \in chars
(* Is the character after the next one this one? *)
Follows(c) == place.at + 1 < Len(text) /\ CharAt(place.at + 1) = c

-----------------------------------------------------------------------------
(* GetNextToken, by the character that is next. *)
PassLineEnd ==
  /\ NextIs({LineEnd})
  /\ place' = ConsumeLineEndChar(place) /\ UNCHANGED <<text, tokens, refused>>
PassBlank ==
  /\ NextIs(Blank)
  /\ place' = ConsumeNextChar(place) /\ UNCHANGED <<text, tokens, refused>>

ParseOneCharToken ==
  /\ NextIs(DOMAIN OneChar)
  /\ Return(OneChar[CharAt(place.at)], 1)

ParseTwoCharToken ==
  /\ NextIs(DOMAIN TwoChar)
  /\ LET c == CharAt(place.at)
     IN  IF Follows(c) THEN Return(TwoChar[c], 2)
         ELSE UnexpectedChar(ConsumeNextChar(place))

ParseOneOrTwoCharTokenWithSharedPrefix ==
  /\ NextIs(DOMAIN OneOrTwoChar)
  /\ LET ids == OneOrTwoChar[CharAt(place.at)]
     IN  IF Follows("=") THEN Return(ids[2], 2) ELSE Return(ids[1], 1)

ParsePlusOrMinusToken ==
  /\ NextIs(DOMAIN PlusOrMinus)
  /\ LET c == CharAt(place.at)
     IN  IF Follows(c) THEN Return(PlusOrMinus[c][2], 2) ELSE Return(PlusOrMinus[c][1], 1)

(* The place after the rest of a literal, or that of the end of the file.  *)
RECURSIVE RestOfLiteral(_, _)
RestOfLiteral(p, enclosing) ==
  LET Refused(q) == [place |-> q, closed |-> FALSE]
  IN  IF ~IsNextCharExists(p) THEN Refused(p)
      ELSE IF CharAt(p.at) = kEscapeChar
           THEN IF ~IsNextCharExists(ConsumeNextChar(p)) THEN Refused(ConsumeNextChar(p))
                ELSE RestOfLiteral(ConsumeChars(p, 2), enclosing)
      ELSE IF CharAt(p.at) = LineEnd THEN RestOfLiteral(ConsumeLineEndChar(p), enclosing)
      ELSE IF CharAt(p.at) = enclosing THEN [place |-> ConsumeNextChar(p), closed |-> TRUE]
      ELSE RestOfLiteral(ConsumeNextChar(p), enclosing)

ParseStringToken ==
  /\ NextIs(DOMAIN Quoted)
  /\ LET c == CharAt(place.at)
         rest == RestOfLiteral(ConsumeNextChar(place), c)
     IN  IF rest.closed THEN ReturnUpTo(Quoted[c], rest.place) ELSE UnexpectedChar(rest.place)

ParseNumberTokenMutant ==
  /\ NextIs(Digit)
  /\ LET n == RunOf(Digit, place.at)
         end == place.at + n
     IN  IF end < Len(text) /\ CharAt(end) = "L" THEN Return("LongLit", n + 1)
         ELSE IF end < Len(text) /\ CharAt(end) = "." THEN Return("DoubleLit", n + 1)
         ELSE Return("IntLit", n)
ParseNumberToken ==
  /\ NextIs(Digit)
  /\ LET n == RunOf(Digit, place.at)
         end == place.at + n
     IN  IF end < Len(text) /\ CharAt(end) = "L" THEN Return("LongLit", n + 1)
         ELSE IF end < Len(text) /\ CharAt(end) = "."
              THEN Return("DoubleLit", n + 1 + RunOf(Digit, end + 1))
         ELSE Return("IntLit", n)

ParseAlphaNumToken ==
  /\ NextIs(Letter)
  /\ LET n == RunOf(Letter \cup Digit \cup {"_"}, place.at)
         word == SubSeq(text, place.at + 1, place.at + n)
     IN  Return(IF word \in DOMAIN kKeywordTokens THEN kKeywordTokens[word] ELSE "Name", n)

Known ==
  Blank \cup {LineEnd} \cup DOMAIN OneChar \cup DOMAIN TwoChar \cup DOMAIN OneOrTwoChar
    \cup DOMAIN PlusOrMinus \cup DOMAIN Quoted \cup Digit \cup Letter
UnexpectedNextChar ==
  /\ Running /\ IsNextCharExists(place) /\ CharAt(place.at) \notin Known
  /\ UnexpectedChar(place)

ReturnFileEnd ==
  /\ Running /\ ~IsNextCharExists(place)
  /\ tokens' = Append(tokens, TokenInfo("FileEnd", "", place))
  /\ UNCHANGED <<text, place, refused>>

GetNextToken ==
  \/ PassLineEnd \/ PassBlank \/ ParseOneCharToken \/ ParseTwoCharToken
  \/ ParseOneOrTwoCharTokenWithSharedPrefix \/ ParsePlusOrMinusToken \/ ParseStringToken
  \/ ParseNumberToken \/ ParseAlphaNumToken \/ UnexpectedNextChar \/ ReturnFileEnd
=============================================================================
