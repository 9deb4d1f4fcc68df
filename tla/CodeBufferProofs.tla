-------------------------- MODULE CodeBufferProofs --------------------------
(* Theorems about CodeBuffer: its state is well-formed, and it implements   *)
(* ByteString.                                                              *)
EXTENDS CodeBuffer, SequenceTheorems, TLAPS

(* Words are what the operator says, and small numbers are their own.      *)
LEMMA Words ==
  ASSUME NEW a \in Nat
  PROVE  /\ a % Word \in 0..Word - 1
         /\ a < Word => a % Word = a
         /\ Word <= a /\ a < 2 * Word => a % Word = a - Word
BY WordAssumption, Z3

(* The capacity to grow to is a word; below half a word it is the double   *)
(* of what is needed.                                                      *)
LEMMA Growth ==
  ASSUME TypeInv, NEW n \in Counts, size <= MaxSize
  PROVE  /\ n \in 1..Word - 1 /\ size + n < Word
         /\ NewCapacity(n) \in 0..Word - 1
         /\ 2 * (size + n) < Word => NewCapacity(n) = 2 * (size + n)
         /\ CoversWrite(n) <=> NewCapacity(n) >= size + n
<1>1. n \in 1..Word - 1 /\ size + n < Word /\ size + n \in Nat
  BY CountsAssumption, MaxSizeAssumption, WordAssumption DEF TypeInv
<1>2. (size + n) % Word = size + n BY <1>1, Words
<1>3. NewCapacity(n) = ((size + n) * 2) % Word BY <1>2 DEF NewCapacity
<1>4. (size + n) * 2 \in Nat BY <1>1
<1>5. NewCapacity(n) \in 0..Word - 1 BY <1>3, <1>4, Words
<1>6. 2 * (size + n) < Word => NewCapacity(n) = 2 * (size + n)
  BY <1>1, <1>3, <1>4, Words
<1> QED BY <1>1, <1>2, <1>5, <1>6 DEF CoversWrite

(* The room made for a write is a buffer of the new capacity.              *)
LEMMA RoomType ==
  ASSUME TypeInv, NEW n \in Counts, size <= MaxSize,
         NEW c, c = IF HasEnoughCapacity(n) THEN capacity ELSE NewCapacity(n),
         c >= capacity
  PROVE  /\ Room(n) \in [1..c -> Byte \cup {Garbage}]
         /\ \A i \in 1..capacity : Room(n)[i] = bytes[i]
         /\ \A b \in Byte : Overwritten(n, b) \in [1..c -> Byte \cup {Garbage}]
<1>1. c \in Nat BY Growth DEF TypeInv
<1>2. Room(n) \in [1..c -> Byte \cup {Garbage}]
  BY <1>1 DEF Room, TypeInv
<1>3. \A i \in 1..capacity : Room(n)[i] = bytes[i]
  BY <1>1 DEF Room, TypeInv
<1> QED BY <1>2, <1>3 DEF Overwritten

(* What every way of making room leaves, of any contents.                  *)
LEMMA EnsureCapacityType ==
  ASSUME TypeInv, NEW n \in Counts, size <= MaxSize, NEW contents,
         \A c \in Nat :
           /\ c = IF HasEnoughCapacity(n) THEN capacity ELSE NewCapacity(n)
           /\ c >= capacity
           => contents \in [1..c -> Byte \cup {Garbage}],
         EnsureCapacity(n, contents)
  PROVE  TypeInv'
<1> USE DEF TypeInv
<1>1. CASE HasEnoughCapacity(n) /\ bytes' = contents /\ UNCHANGED capacity /\ AfterWrite(n)
  <2>1. bytes' \in [1..capacity' -> Byte \cup {Garbage}] BY <1>1
  <2>2. /\ size' \in 0..capacity' /\ capacity' \in 0..Word - 1
        /\ position' \in 0..size' /\ result' = "done"
    BY <1>1, Growth DEF HasEnoughCapacity, AfterWrite, Done
  <2> QED BY <2>1, <2>2
<1>2. CASE /\ ~HasEnoughCapacity(n) /\ NewCapacity(n) > capacity /\ CoversWrite(n)
           /\ capacity' = NewCapacity(n) /\ bytes' = contents /\ AfterWrite(n)
  <2>1. NewCapacity(n) \in 0..Word - 1 /\ NewCapacity(n) >= size + n BY <1>2, Growth
  <2>2. bytes' \in [1..capacity' -> Byte \cup {Garbage}] BY <1>2, <2>1
  <2>3. /\ size' \in 0..capacity' /\ capacity' \in 0..Word - 1
        /\ position' \in 0..size' /\ result' = "done"
    BY <1>2, <2>1, Growth DEF AfterWrite, Done
  <2> QED BY <2>2, <2>3
<1>3. CASE Fail("aborted") \/ Fail("overflow") BY <1>3 DEF Fail
<1> QED BY <1>1, <1>2, <1>3 DEF EnsureCapacity

(* Whatever the bounds, the sizes are in order: the position within the    *)
(* size, the size within the capacity, and the capacity the bytes there    *)
(* are.  A write never leaves what was allocated.                          *)
THEOREM BufferTypeCorrect == Spec => []TypeInv
<1>1. Init => TypeInv
  BY SizesAssumption, MaxSizeAssumption, WordAssumption DEF Init, TypeInv
<1>2. TypeInv /\ [Next]_vars => TypeInv'
  <2> SUFFICES ASSUME TypeInv, [Next]_vars PROVE TypeInv'
    OBVIOUS
  <2>1. CASE Write
    <3> PICK n \in Counts, b \in Byte : EnsureCapacity(n, Overwritten(n, b))
      BY <2>1 DEF Write
    <3>1. size <= MaxSize BY <2>1 DEF Write, CanWrite
    <3> HIDE DEF Overwritten, EnsureCapacity
    <3> QED BY <3>1, RoomType, EnsureCapacityType
  <2>2. CASE Skip
    <3> PICK n \in Counts : EnsureCapacity(n, Room(n))
      BY <2>2 DEF Skip
    <3>1. size <= MaxSize BY <2>2 DEF Skip, CanWrite
    <3> QED BY <3>1, RoomType, EnsureCapacityType
  <2>3. CASE SetPosition BY <2>3 DEF SetPosition, TypeInv
  <2>4. CASE MovePosition BY <2>4 DEF MovePosition, Done, TypeInv
  <2>5. CASE Read
    BY <2>5, CountsAssumption, MaxSizeAssumption, WordAssumption
       DEF Read, HasEnoughSize, Done, TypeInv
  <2>6. CASE UNCHANGED vars BY <2>6 DEF vars, TypeInv
  <2> QED BY <2>1, <2>2, <2>3, <2>4, <2>5, <2>6 DEF Next
<1> QED BY <1>1, <1>2, PTL DEF Spec

-----------------------------------------------------------------------------
(* The refinement.                                                         *)

(* Nothing is written beyond the size: a skip finds garbage there.         *)
Fresh == \A i \in size + 1 .. capacity : bytes[i] = Garbage

(* The beginning of a buffer, as a function. *)
LEMMA Beginning ==
  ASSUME NEW S, NEW c \in Nat, NEW s \in [1..c -> S], NEW n \in 0..c
  PROVE  /\ SubSeq(s, 1, n) = [i \in 1..n |-> s[i]]
         /\ Len(SubSeq(s, 1, n)) = n
<1> DEFINE t == SubSeq(s, 1, n)
<1>1. t \in Seq(S) /\ Len(t) = n /\ \A i \in 1..n : t[i] = s[i]
  BY SubSeqProperties
<1>2. DOMAIN t = 1..n /\ t = [i \in DOMAIN t |-> t[i]] BY <1>1
<1> QED BY <1>1, <1>2

(* An attempt to make room succeeds, trips the assertion, or is refused;   *)
(* it is refused only beyond the size, and from half a word on.            *)
LEMMA Attempts ==
  ASSUME TypeInv, NEW n \in Counts, size <= MaxSize, NEW contents,
         EnsureCapacity(n, contents)
  PROVE  \/ /\ capacity' = IF HasEnoughCapacity(n) THEN capacity ELSE NewCapacity(n)
            /\ capacity' \in Nat /\ capacity' >= capacity
            /\ capacity' >= position + n
            /\ bytes' = contents
            /\ size' = IF position + n > size THEN position + n ELSE size
            /\ position' = position + n
            /\ result' = "done"
         \/ Fail("aborted")
         \/ Fail("overflow") /\ position + n > size /\ size + n >= Word \div 2
<1>1. n \in Nat /\ size + n < Word /\ Word \div 2 \in Nat /\ 2 * (Word \div 2) = Word
  BY Growth, WordAssumption, Z3
<1>2. size \in Nat /\ capacity \in Nat /\ position \in Nat /\ size <= capacity
      /\ position <= size
  BY DEF TypeInv
<1>3. CASE HasEnoughCapacity(n) /\ bytes' = contents /\ UNCHANGED capacity /\ AfterWrite(n)
  BY <1>1, <1>2, <1>3 DEF HasEnoughCapacity, AfterWrite, Done
<1>4. CASE /\ ~HasEnoughCapacity(n) /\ NewCapacity(n) > capacity /\ CoversWrite(n)
           /\ capacity' = NewCapacity(n) /\ bytes' = contents /\ AfterWrite(n)
  <2>1. NewCapacity(n) \in Nat /\ NewCapacity(n) >= size + n BY <1>4, Growth
  <2> QED BY <1>1, <1>2, <1>4, <2>1 DEF AfterWrite, Done
<1>5. CASE ~HasEnoughCapacity(n) /\ NewCapacity(n) <= capacity /\ Fail("overflow")
  <2>1. position + n > capacity BY <1>1, <1>2, <1>5 DEF HasEnoughCapacity
  <2>2. ~(2 * (size + n) < Word)
    BY <1>1, <1>2, <1>5, <2>1, Growth
  <2> QED BY <1>1, <1>2, <1>5, <2>1, <2>2
<1> QED BY <1>3, <1>4, <1>5 DEF EnsureCapacity

(* The room beyond the size holds garbage only. *)
LEMMA RoomFresh ==
  ASSUME TypeInv, Fresh, NEW n \in Counts, size <= MaxSize,
         NEW c, c = IF HasEnoughCapacity(n) THEN capacity ELSE NewCapacity(n),
         c >= capacity
  PROVE  \A i \in size + 1 .. c : Room(n)[i] = Garbage
<1>1. c \in Nat /\ size \in Nat /\ capacity \in Nat BY Growth DEF TypeInv
<1>2. ASSUME NEW i \in size + 1 .. c, i <= capacity
      PROVE  Room(n)[i] = Garbage
  BY <1>1, <1>2, RoomType DEF Fresh
<1>3. ASSUME NEW i \in size + 1 .. c, i > capacity
      PROVE  Room(n)[i] = Garbage
  BY <1>1, <1>3 DEF Room
<1> QED BY <1>1, <1>2, <1>3

(* No operation writes beyond the size that it leaves. *)
LEMMA FreshStep ==
  ASSUME TypeInv, Fresh, [Next]_vars
  PROVE  Fresh'
<1> USE DEF Fresh
<1>1. ASSUME UNCHANGED <<size, capacity, bytes>> PROVE Fresh'
  BY <1>1
<1>2. CASE Write
  <2> PICK n \in Counts, b \in Byte : EnsureCapacity(n, Overwritten(n, b))
    BY <1>2 DEF Write
  <2>1. size <= MaxSize BY <1>2 DEF Write, CanWrite
  <2>2. CASE result' = "done" /\ capacity' >= capacity
             /\ capacity' = (IF HasEnoughCapacity(n) THEN capacity ELSE NewCapacity(n))
             /\ capacity' \in Nat /\ bytes' = Overwritten(n, b)
             /\ size' = IF position + n > size THEN position + n ELSE size
    <3>1. n \in Nat /\ size \in Nat /\ position \in Nat
      BY <2>1, Growth DEF TypeInv
    <3>2. DOMAIN Room(n) = 1..capacity' BY <2>1, <2>2, RoomType
    <3>3. ASSUME NEW i \in size' + 1 .. capacity' PROVE bytes'[i] = Garbage
      <4>1. i \in size + 1 .. capacity' /\ i > position + n /\ i \in DOMAIN Room(n)
        BY <2>2, <3>1, <3>2
      <4>2. bytes'[i] = Room(n)[i] BY <2>2, <3>1, <4>1 DEF Overwritten
      <4> QED BY <2>1, <2>2, <4>1, <4>2, RoomFresh
    <3> QED BY <3>3
  <2>3. CASE Fail("aborted") \/ Fail("overflow") BY <1>1, <2>3 DEF Fail
  <2> HIDE DEF Fresh
  <2> QED BY <2>1, <2>2, <2>3, Attempts
<1>3. CASE Skip
  <2> PICK n \in Counts : EnsureCapacity(n, Room(n))
    BY <1>3 DEF Skip
  <2>1. size <= MaxSize BY <1>3 DEF Skip, CanWrite
  <2>2. CASE result' = "done" /\ capacity' >= capacity
             /\ capacity' = (IF HasEnoughCapacity(n) THEN capacity ELSE NewCapacity(n))
             /\ bytes' = Room(n)
             /\ size' = IF position + n > size THEN position + n ELSE size
    <3>1. n \in Nat /\ size \in Nat /\ position \in Nat
      BY <2>1, Growth DEF TypeInv
    <3>2. \A i \in size + 1 .. capacity' : bytes'[i] = Garbage
      BY <2>1, <2>2, RoomFresh
    <3> QED BY <2>2, <3>1, <3>2
  <2>3. CASE Fail("aborted") \/ Fail("overflow") BY <1>1, <2>3 DEF Fail
  <2> HIDE DEF Fresh
  <2> QED BY <2>1, <2>2, <2>3, Attempts
<1>4. CASE SetPosition \/ MovePosition \/ Read
  BY <1>1, <1>4 DEF SetPosition, MovePosition, Read
<1>5. CASE UNCHANGED vars BY <1>1, <1>5 DEF vars
<1> QED BY <1>2, <1>3, <1>4, <1>5 DEF Next

(* A successful write puts its bytes at the position of the string. *)
LEMMA WritePuts ==
  ASSUME TypeInv, TypeInv', NEW n \in Counts, NEW b \in Byte, size <= MaxSize,
         capacity' = IF HasEnoughCapacity(n) THEN capacity ELSE NewCapacity(n),
         capacity' >= capacity,
         bytes' = Overwritten(n, b),
         size' = IF position + n > size THEN position + n ELSE size,
         position' = position + n, result' = "done"
  PROVE  String!Put([i \in 1..n |-> b])
<1> DEFINE content == SubSeq(bytes, 1, size)
           bs == [i \in 1..n |-> b]
<1>1. n \in Nat /\ size \in Nat /\ position \in Nat /\ position <= size
      /\ capacity \in Nat /\ size <= capacity /\ size' \in Nat /\ capacity' \in Nat
      /\ size' <= capacity'
  BY Growth DEF TypeInv
<1>2. content = [i \in 1..size |-> bytes[i]] /\ Len(content) = size
  BY <1>1, Beginning DEF TypeInv
<1>3. content' = [i \in 1..size' |-> bytes'[i]]
  <2>1. bytes' \in [1..capacity' -> Byte \cup {Garbage}] BY DEF TypeInv
  <2> QED BY <1>1, <2>1, Beginning
<1>4. Len(bs) = n BY <1>1
<1>5. DOMAIN Room(n) = 1..capacity' /\ \A i \in 1..capacity : Room(n)[i] = bytes[i]
  BY RoomType
<1>6. String!Overwritten(bs) =
        [i \in 1..size' |-> IF i \in position + 1 .. position + n THEN bs[i - position]
                            ELSE content[i]]
  BY <1>1, <1>2, <1>4 DEF String!Overwritten
<1>7. ASSUME NEW i \in 1..size'
      PROVE  bytes'[i] = IF i \in position + 1 .. position + n THEN bs[i - position]
                         ELSE content[i]
  <2>1. bytes'[i] = IF i \in position + 1 .. position + n THEN b ELSE Room(n)[i]
    BY <1>1, <1>5 DEF Overwritten
  <2>2. CASE i \in position + 1 .. position + n
    BY <1>1, <2>1, <2>2
  <2>3. CASE i \notin position + 1 .. position + n
    <3>1. i \in 1..size BY <1>1, <2>3
    <3> QED BY <1>1, <1>2, <1>5, <2>1, <2>3, <3>1
  <2> QED BY <2>2, <2>3
<1>8. content' = String!Overwritten(bs)
  <2> DEFINE written(i) == IF i \in position + 1 .. position + n THEN bs[i - position]
                           ELSE content[i]
  <2>1. \A i \in 1..size' : bytes'[i] = written(i) BY <1>7
  <2>2. String!Overwritten(bs) = [i \in 1..size' |-> written(i)] BY <1>6
  <2> HIDE DEF written, content, bs
  <2>3. [i \in 1..size' |-> bytes'[i]] = [i \in 1..size' |-> written(i)] BY <2>1
  <2> QED BY <1>3, <2>2, <2>3
<1> HIDE DEF content, bs
<1> QED BY <1>4, <1>8 DEF String!Put, content, bs

(* A successful skip passes over the string and appends garbage. *)
LEMMA SkipPasses ==
  ASSUME TypeInv, Fresh, TypeInv', NEW n \in Counts, size <= MaxSize,
         capacity' = IF HasEnoughCapacity(n) THEN capacity ELSE NewCapacity(n),
         capacity' >= capacity,
         bytes' = Room(n),
         size' = IF position + n > size THEN position + n ELSE size,
         position' = position + n, result' = "done"
  PROVE  String!Pass(n)
<1> DEFINE content == SubSeq(bytes, 1, size)
<1>1. n \in Nat /\ size \in Nat /\ position \in Nat /\ position <= size
      /\ capacity \in Nat /\ size <= capacity /\ size' \in Nat /\ capacity' \in Nat
      /\ size' <= capacity'
  BY Growth DEF TypeInv
<1>2. content = [i \in 1..size |-> bytes[i]] /\ Len(content) = size
  BY <1>1, Beginning DEF TypeInv
<1>3. content' = [i \in 1..size' |-> bytes'[i]]
  <2>1. bytes' \in [1..capacity' -> Byte \cup {Garbage}] BY DEF TypeInv
  <2> QED BY <1>1, <2>1, Beginning
<1>4. ASSUME NEW i \in 1..size'
      PROVE  bytes'[i] = IF i \in DOMAIN content THEN content[i] ELSE Garbage
  <2>1. CASE i \in 1..size BY <1>1, <1>2, <2>1, RoomType
  <2>2. CASE i \notin 1..size
    <3>1. i \in size + 1 .. capacity' BY <1>1, <2>2
    <3> QED BY <1>2, <2>2, <3>1, RoomFresh
  <2> QED BY <2>1, <2>2
<1>5. content' = [i \in 1..(IF position + n > Len(content)
                            THEN position + n ELSE Len(content)) |->
                    IF i \in DOMAIN content THEN content[i] ELSE Garbage]
  BY <1>2, <1>3, <1>4
<1> HIDE DEF content
<1> QED BY <1>5 DEF String!Pass, content

(* Every step of the buffer is a step of the string. *)
LEMMA StringStep ==
  ASSUME TypeInv, Fresh, TypeInv', [Next]_vars
  PROVE  [String!StringNext(Counts)]_(String!vars)
<1> DEFINE content == SubSeq(bytes, 1, size)
<1>1. Len(content) = size /\ position \in Nat /\ position <= size /\ size \in Nat
  BY Beginning DEF TypeInv
<1>2. ASSUME UNCHANGED <<size, bytes>>, result' # "overflow" PROVE String!Move
  <2>1. UNCHANGED content BY <1>2
  <2>2. position' \in 0..Len(content) BY <1>1, <1>2 DEF TypeInv
  <2> QED BY <1>2, <2>1, <2>2 DEF String!Move
<1>3. ASSUME NEW n \in Counts, Fail("overflow"), position + n > size,
             size + n >= Word \div 2
      PROVE  String!Refuse(n)
  BY <1>1, <1>3 DEF String!Refuse, Fail
<1>4. CASE Write
  <2> PICK n \in Counts, b \in Byte : EnsureCapacity(n, Overwritten(n, b))
    BY <1>4 DEF Write
  <2>1. size <= MaxSize BY <1>4 DEF Write, CanWrite
  <2>2. \/ String!Put([i \in 1..n |-> b])
        \/ Fail("aborted")
        \/ Fail("overflow") /\ position + n > size /\ size + n >= Word \div 2
    BY <2>1, Attempts, WritePuts
  <2>3. String!Put([i \in 1..n |-> b]) \/ String!Move \/ String!Refuse(n)
    BY <1>2, <1>3, <2>2 DEF Fail
  <2> QED BY <2>3 DEF String!StringNext
<1>5. CASE Skip
  <2> PICK n \in Counts : EnsureCapacity(n, Room(n)) BY <1>5 DEF Skip
  <2>1. size <= MaxSize BY <1>5 DEF Skip, CanWrite
  <2>2. \/ String!Pass(n)
        \/ Fail("aborted")
        \/ Fail("overflow") /\ position + n > size /\ size + n >= Word \div 2
    BY <2>1, Attempts, SkipPasses
  <2>3. String!Pass(n) \/ String!Move \/ String!Refuse(n)
    BY <1>2, <1>3, <2>2 DEF Fail
  <2> QED BY <2>3 DEF String!StringNext
<1>6. CASE SetPosition \/ MovePosition \/ Read
  <2>1. String!Move
    BY <1>2, <1>6 DEF SetPosition, MovePosition, Read, Done
  <2> QED BY <2>1 DEF String!StringNext
<1>7. CASE UNCHANGED vars BY <1>7 DEF vars, String!vars
<1> QED BY <1>4, <1>5, <1>6, <1>7 DEF Next

(* For every width of a word, set of writes and bounds: the buffer is a    *)
(* string of bytes with a position.  An operation is refused only if it    *)
(* goes beyond the string and makes it half a word long or longer.         *)
THEOREM BufferImplementsString == Spec => ImplementsString
<1>1. Init => Fresh BY SizesAssumption, MaxSizeAssumption DEF Init, Fresh
<1>2. Init => String!StringInit
  <2> SUFFICES ASSUME Init PROVE String!StringInit
    OBVIOUS
  <2>1. size \in Nat /\ bytes = [i \in 1..size |-> Garbage]
    BY SizesAssumption, MaxSizeAssumption DEF Init
  <2>2. SubSeq(bytes, 1, size) \in Seq({Garbage}) BY <2>1, SubSeqProperties
  <2> QED BY <2>2 DEF Init, String!StringInit
<1>3. TypeInv /\ Fresh /\ [Next]_vars => Fresh' BY FreshStep
<1>4. TypeInv /\ TypeInv' /\ Fresh /\ [Next]_vars
        => [String!StringNext(Counts)]_(String!vars)
  BY StringStep
<1> QED BY BufferTypeCorrect, <1>1, <1>2, <1>3, <1>4, PTL DEF Spec, ImplementsString
=============================================================================
