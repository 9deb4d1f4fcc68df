----------------------------- MODULE CodeBuffer -----------------------------
(***************************************************************************)
(* The buffer of bytes (class Code) that the generator and the linkers     *)
(* write code to and the machine reads it from.  Sizes and addresses are   *)
(* words, and the arithmetic on them wraps; Word, 2^32 in the code, is a   *)
(* parameter so that its limits come into reach.                           *)
(*                                                                         *)
(* A write of a number, an id or a string is a sequence of the writes      *)
(* modelled here.  What is read is left out, the position is not.          *)
(***************************************************************************)
EXTENDS Integers, Sequences

CONSTANTS
  Word,     \* the number of values of a word (2^32)
  Byte,     \* the bytes that are written
  Garbage,  \* a byte that was allocated and not written
  Counts,   \* the sizes of writes and skips
  Sizes,    \* the sizes buffers are created with
  MaxSize   \* bound: nothing more is written to a larger buffer

ASSUME WordAssumption == Word \in Nat /\ Word > 0 /\ Word % 2 = 0
ASSUME MaxSizeAssumption == MaxSize \in Nat /\ MaxSize < Word
(* What starts within the bound ends within a word. *)
ASSUME CountsAssumption == Counts \subseteq 1..Word - 1 - MaxSize
ASSUME SizesAssumption == Sizes \subseteq 0..MaxSize
ASSUME GarbageAssumption == Garbage \notin Byte

VARIABLES
  size,      \* size_
  capacity,  \* capacity_
  bytes,     \* bytes_
  position,  \* current_byte_, from the start of bytes_
  result     \* how the last operation ended

vars == <<size, capacity, bytes, position, result>>

-----------------------------------------------------------------------------

HasEnoughCapacityMutant(n) == capacity - position + 1 >= n
HasEnoughCapacity(n) == capacity - position >= n

(* The sum and its double are words. *)
NewCapacity(n) == (((size + n) % Word) * 2) % Word

Done(count) ==
  /\ position' = position + count
  /\ result' = "done"

(* What is written beyond the size adds to it.                             *)
AfterWriteMutant(n) ==
  /\ size' = position + n
  /\ Done(n)
AfterWrite(n) ==
  /\ size' = IF n > size - position THEN size + (n - (size - position)) ELSE size
  /\ Done(n)

(* After growing, the assertion that there is room now.                    *)
CoversWrite(n) == NewCapacity(n) >= (size + n) % Word

Fail(outcome) ==
  /\ result' = outcome
  /\ UNCHANGED <<size, capacity, bytes, position>>

(* The bytes once there is room for n at the position.                     *)
Room(n) ==
  IF HasEnoughCapacity(n) THEN bytes
  ELSE [i \in 1..NewCapacity(n) |-> IF i <= capacity THEN bytes[i] ELSE Garbage]

(* Make room for n bytes at the position, and pass over them, leaving      *)
(* there what the caller made of that room.                                *)
EnsureCapacity(n, contents) ==
  \/ /\ HasEnoughCapacity(n)
     /\ bytes' = contents
     /\ UNCHANGED capacity
     /\ AfterWrite(n)
  \/ /\ ~HasEnoughCapacity(n) /\ NewCapacity(n) > capacity /\ CoversWrite(n)
     /\ capacity' = NewCapacity(n)
     /\ bytes' = contents
     /\ AfterWrite(n)
  \/ /\ ~HasEnoughCapacity(n) /\ NewCapacity(n) > capacity /\ ~CoversWrite(n)
     /\ Fail("aborted")
  \/ /\ ~HasEnoughCapacity(n) /\ NewCapacity(n) <= capacity
     /\ Fail("overflow")

CanMove == result # "aborted"
CanWrite == CanMove /\ size <= MaxSize

Overwritten(n, b) ==
  [i \in DOMAIN Room(n) |->
     IF i \in position + 1 .. position + n THEN b ELSE Room(n)[i]]

Write ==
  /\ CanWrite
  /\ \E n \in Counts : \E b \in Byte : EnsureCapacity(n, Overwritten(n, b))

Skip ==
  /\ CanWrite
  /\ \E n \in Counts : EnsureCapacity(n, Room(n))

SetPosition ==
  /\ CanMove
  /\ position' \in 0..size
  /\ result' = "done"
  /\ UNCHANGED <<size, capacity, bytes>>

(* A jump, from the position after its offset.                             *)
MovePosition ==
  /\ CanMove
  /\ \E offset \in -size..size :
       /\ \/ offset >= 0 /\ offset <= size - position
          \/ offset < 0 /\ position >= -offset
       /\ Done(offset)
  /\ UNCHANGED <<size, capacity, bytes>>

HasEnoughSize(n) == size - position >= n

Read ==
  /\ CanMove
  /\ \E n \in Counts : HasEnoughSize(n) /\ Done(n)
  /\ UNCHANGED <<size, capacity, bytes>>

(* Code() and Code(size).                                                  *)
Init ==
  /\ size \in Sizes /\ capacity = size
  /\ bytes = [i \in 1..size |-> Garbage]
  /\ position = 0 /\ result = "done"

Next == Write \/ Skip \/ SetPosition \/ MovePosition \/ Read

Spec == Init /\ [][Next]_vars

-----------------------------------------------------------------------------
(* Properties                                                              *)

TypeInv ==
  /\ size \in 0..capacity /\ capacity \in 0..Word - 1
  /\ bytes \in [1..capacity -> Byte \cup {Garbage}]
  /\ position \in 0..size
  /\ result \in {"done", "overflow", "aborted"}

(* The bytes below the size behave as one string: growing the buffer,      *)
(* writing in the middle of it or across its end, and going back to fill   *)
(* in an address lose nothing that was written, and a refused operation    *)
(* changes nothing.                                                        *)
String == INSTANCE ByteString WITH
            content <- SubSeq(bytes, 1, size),
            refused <- result = "overflow",
            Limit <- Word \div 2
ImplementsString ==
  String!StringInit /\ [][String!StringNext(Counts)]_(String!vars)

(* The assertion at the end of EnsureCapacity never fails.                 *)
CapacityCoversWrite == result # "aborted"
=============================================================================
