----------------------------- MODULE LitParser ------------------------------
(***************************************************************************)
(* SimpleLitParser (semantic/simple_lit_parser.cpp): what the text of a    *)
(* literal's token stands for.  A char is its code, a number a number; a   *)
(* result that is no value is the name of the error thrown, or of the      *)
(* assertion that fails.  IntMax and LongMax stand for the largest values. *)
(***************************************************************************)
EXTENDS Integers, Sequences, TLC

CONSTANTS IntMax, LongMax
ASSUME LimitsAssumption == IntMax \in Nat /\ LongMax \in Nat /\ IntMax <= LongMax

(* The characters from the blank, 32, on; a form feed stands for the one  *)
(* before "a", which no string of TLA+ can hold.                           *)
Printable ==
  " !\"#$%&'()*+,-./0123456789:;<=>?@ABCDEFGHIJKLMNOPQRSTUVWXYZ[\\]^_"
    \o "\fabcdefghijklmnopqrstuvwxyz{|}~"
Char(str, i) == SubSeq(str, i, i)
CodeOf(c) ==
  CASE c = "\n" -> 10 [] c = "\t" -> 9 [] c = "\r" -> 13
    [] OTHER -> 31 + CHOOSE i \in 1..Len(Printable) : Char(Printable, i) = c

DecimalDigit ==
  "0" :> 0 @@ "1" :> 1 @@ "2" :> 2 @@ "3" :> 3 @@ "4" :> 4 @@ "5" :> 5 @@ "6" :> 6 @@ "7" :> 7
    @@ "8" :> 8 @@ "9" :> 9
HexDigit ==
  DecimalDigit @@ "a" :> 10 @@ "b" :> 11 @@ "c" :> 12 @@ "d" :> 13 @@ "e" :> 14 @@ "f" :> 15
    @@ "A" :> 10 @@ "B" :> 11 @@ "C" :> 12 @@ "D" :> 13 @@ "E" :> 14 @@ "F" :> 15

(* The number of which these are the digits. *)
RECURSIVE NumberOf(_, _)
NumberOf(str, base) ==
  IF str = "" THEN 0
  ELSE NumberOf(SubSeq(str, 1, Len(str) - 1), base) * base + HexDigit[Char(str, Len(str))]

Is(value) == [error |-> "none", value |-> value]
Throws(error) == [error |-> error, value |-> <<>>]
UpTo(n, max) == IF n > max THEN Throws("OutOfRangeError") ELSE Is(<<n>>)

ParseInt(str) == UpTo(NumberOf(str, 10), IntMax)
ParseLong(str) == UpTo(NumberOf(SubSeq(str, 1, Len(str) - 1), 10), LongMax)
(* A numerator, and the power of ten below it. *)
ParseDouble(str) ==
  LET dot == CHOOSE i \in 1..Len(str) : Char(str, i) = "."
  IN  Is(<<NumberOf(SubSeq(str, 1, dot - 1) \o SubSeq(str, dot + 1, Len(str)), 10), Len(str) - dot>>)
ParseBool(str) ==
  CASE str = "yeah" -> Is(<<1>>) [] str = "nah" -> Is(<<0>>) [] OTHER -> Throws("assertion")

-----------------------------------------------------------------------------
(* Escapes. *)
Escaped ==
  "a" :> 7 @@ "b" :> 8 @@ "f" :> 12 @@ "n" :> 10 @@ "r" :> 13 @@ "t" :> 9 @@ "v" :> 11
kCharMax == 127

(* The hexadecimal digits from i on, to before the enclosing character. *)
HexDigits(str, i) ==
  CHOOSE n \in 0..Len(str) - i :
    /\ \A k \in i..i + n - 1 : Char(str, k) \in DOMAIN HexDigit
    /\ i + n < Len(str) => Char(str, i + n) \notin DOMAIN HexDigit
ParseHexValue(str, i) ==
  LET n == HexDigits(str, i)
  IN  IF n = 0 THEN Throws("EmptyHexValueError")
      ELSE UpTo(NumberOf(SubSeq(str, i, i + n - 1), 16), kCharMax)

(* What the characters of str from i on, to the enclosing one, stand for,  *)
(* after the codes found before them.                                      *)
RECURSIVE RestOfString(_, _, _)
RestOfString(str, i, value) ==
  LET escape == Char(str, i + 1)
      hex == ParseHexValue(str, i + 2)
  IN  IF i = Len(str) THEN Is(value)
      ELSE IF Char(str, i) # "\\" THEN RestOfString(str, i + 1, Append(value, CodeOf(Char(str, i))))
      ELSE IF i + 1 = Len(str) THEN Throws("assertion")
      ELSE IF escape = "x"
           THEN IF hex.error # "none" THEN hex
                ELSE RestOfString(str, i + 2 + HexDigits(str, i + 2), value \o hex.value)
      ELSE RestOfString(str, i + 2,
             Append(value, IF escape \in DOMAIN Escaped THEN Escaped[escape] ELSE CodeOf(escape)))

DoParseString(str) == IF Len(str) > 1 THEN RestOfString(str, 2, <<>>) ELSE Throws("assertion")

ParseString(str) == DoParseString(str)
ParseChar(str) ==
  LET chars == DoParseString(str)
  IN  IF chars.error = "none" /\ Len(chars.value) > 1 THEN Throws("MultipleCharsError")
      ELSE IF chars.error = "none" /\ chars.value = <<>> THEN Is(<<0>>)
      ELSE chars
=============================================================================
