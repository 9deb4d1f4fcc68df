----------------------------- MODULE ByteString -----------------------------
(***************************************************************************)
(* What a code buffer promises: a string of bytes with a position, written *)
(* over and extended at the position.  An operation that cannot extend it  *)
(* is refused and changes nothing; one that stays within the string never  *)
(* is, nor is one that keeps the size below Limit.                         *)
(***************************************************************************)
EXTENDS Naturals, Sequences

CONSTANTS
  Byte,     \* the values that are written
  Garbage,  \* a byte of the string that was skipped, not written
  Limit     \* up to this size nothing is refused

VARIABLES
  content,    \* the string
  position,   \* where the next operation takes place
  refused     \* whether the last operation was refused

vars == <<content, position, refused>>

StringInit ==
  /\ content \in Seq({Garbage})
  /\ position = 0 /\ refused = FALSE

(* Bytes of the string are replaced from the position on, and what does    *)
(* not fit is appended.                                                    *)
Overwritten(bytes) ==
  [i \in 1..(IF position + Len(bytes) > Len(content)
             THEN position + Len(bytes) ELSE Len(content)) |->
     IF i \in position + 1 .. position + Len(bytes)
     THEN bytes[i - position] ELSE content[i]]

Put(bytes) ==
  /\ content' = Overwritten(bytes)
  /\ position' = position + Len(bytes)
  /\ refused' = FALSE

(* A skip keeps what it passes over and appends garbage.                   *)
Pass(n) ==
  /\ content' = [i \in 1..(IF position + n > Len(content)
                           THEN position + n ELSE Len(content)) |->
                   IF i \in DOMAIN content THEN content[i] ELSE Garbage]
  /\ position' = position + n
  /\ refused' = FALSE

Refuse(n) ==
  /\ position + n > Len(content) /\ Len(content) + n >= Limit
  /\ refused' = TRUE
  /\ UNCHANGED <<content, position>>

Move ==
  /\ position' \in 0..Len(content)
  /\ refused' = FALSE
  /\ UNCHANGED content

StringNext(counts) ==
  \/ \E n \in counts : Pass(n) \/ Refuse(n)
  \/ \E n \in counts : \E b \in Byte : Put([i \in 1..n |-> b])
  \/ Move
=============================================================================
