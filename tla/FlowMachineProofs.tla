-------------------------- MODULE FlowMachineProofs -------------------------
(* The machine finds in every frame what the compiler assumed, it is never *)
(* without a command or the operands it needs, and only a variable read in *)
(* its own initializer makes it abort.                                     *)
EXTENDS FlowMachine, FlowCompilerProofs

Operand == DataType \cup Func

(* Where the i-th frame goes on, where its variables and its operands end, *)
(* and what the call it waits for will push.                               *)
Addr(i) == IF i = Len(frames) THEN pc ELSE frames[i + 1].return
VarsEnd(i) == IF i = Len(frames) THEN Len(locals) ELSE frames[i + 1].start
OperandsEnd(i) == IF i = Len(frames) THEN Len(operands) ELSE frames[i + 1].base
Awaits(i) ==
  IF i = Len(frames) THEN <<>> ELSE Operands(Result[Addr(i + 1).unit])

(* The variables of a flow lie one behind the other. *)
Packed(f) ==
  /\ \A i \in DOMAIN f : f[i].index = SlotsCount(Prefix(f, i - 1))
  /\ \A i, j \in DOMAIN f : i < j => f[i].index + Size[f[i].type] <= f[j].index

(* The slots l hold the variables f between two indices, and no other. *)
Holds(l, f, from, to) ==
  /\ to = from + SlotsCount(f)
  /\ \A i \in DOMAIN f : \A k \in 1..Size[f[i].type] :
       l[from + f[i].index + k] =
         [at |-> f[i].at, type |-> f[i].type, part |-> k]

(* A frame from start and base on, whose variables and operands end at to  *)
(* and top of l and o, and which waits for some, is as the layout says.    *)
Fits(expected, l, o, start, to, base, top, awaited) ==
  /\ expected.live /\ Packed(expected.flow)
  /\ Holds(l, expected.flow, start, to) /\ to <= Len(l)
  /\ base <= top /\ top <= Len(o)
  /\ SubSeq(o, base + 1, top) \o awaited = expected.operands

FrameFits(i) ==
  /\ Addr(i).pos \in DOMAIN layout[Addr(i).unit]
  /\ Fits(layout[Addr(i).unit][Addr(i).pos], locals, operands,
          frames[i].start, VarsEnd(i), frames[i].base, OperandsEnd(i), Awaits(i))

(* Frames lie one above the other, main code's below. *)
FramesStack ==
  /\ frames # <<>> /\ frames[1] = MainFrame
  /\ \A i \in DOMAIN frames : Addr(i).unit = Main <=> i = 1
  /\ \A i, j \in DOMAIN frames :
       i <= j => frames[i].start <= frames[j].start /\ frames[i].base <= frames[j].base

FramesInv == FramesStack /\ \A i \in DOMAIN frames : FrameFits(i)

MachineInv ==
  /\ MachineTypeOK
  /\ status # "idle" => phase = "compiled"
  /\ status = "idle" =>
       pc = [unit |-> Main, pos |-> 1] /\ locals = <<>> /\ operands = <<>>
  /\ status = "running" => FramesInv
  /\ ExitsClean

-----------------------------------------------------------------------------
(* Variables in slots                                                      *)

(* Sizes and counts of slots are natural numbers. *)
LEMMA SlotsTypes ==
  /\ \A t \in DataType : Size[t] \in 1..2
  /\ SlotsCount(<<>>) = 0
  /\ \A f \in Seq(Def) : SlotsCount(f) \in Nat
<1>1. \A t \in DataType : Size[t] \in 1..2 BY DataTypesAssumption
<1>2. SlotsCount(<<>>) = 0 BY DEF SlotsCount
<1>3. ASSUME NEW f \in Seq(Def) PROVE SlotsCount(f) \in Nat
  <2>1. CASE f = <<>> BY <1>2, <2>1
  <2>2. CASE f # <<>>
    <3>1. Last(f) \in Def BY <2>2 DEF Last
    <3>2. Last(f).index \in Nat /\ Size[Last(f).type] \in 1..2
      BY <1>1, <3>1 DEF Def
    <3> QED BY <2>2, <3>2 DEF SlotsCount
  <2> QED BY <2>1, <2>2
<1> QED BY <1>1, <1>2, <1>3

(* The parts of a variable. *)
LEMMA DefParts ==
  ASSUME NEW f \in Seq(Def), NEW i \in DOMAIN f
  PROVE  /\ f[i] \in Def /\ f[i].index \in Nat /\ f[i].at \in Nat
         /\ f[i].type \in DataType /\ Size[f[i].type] \in 1..2
         /\ i \in 1..Len(f) /\ Len(f) \in Nat
<1>1. f[i] \in Def OBVIOUS
<1> QED BY <1>1, SlotsTypes DEF Def

(* No variable of a flow ends above the count of its slots. *)
LEMMA PackedEnds ==
  ASSUME NEW f \in Seq(Def), Packed(f), NEW i \in DOMAIN f
  PROVE  f[i].index + Size[f[i].type] <= SlotsCount(f)
<1>1. f # <<>> /\ Len(f) \in DOMAIN f /\ i <= Len(f) OBVIOUS
<1>2. SlotsCount(f) = f[Len(f)].index + Size[f[Len(f)].type]
  BY <1>1 DEF SlotsCount, Last
<1>3. CASE i = Len(f) BY <1>2, <1>3, DefParts
<1>4. CASE i < Len(f)
  <2>1. f[i].index + Size[f[i].type] <= f[Len(f)].index BY <1>1, <1>4 DEF Packed
  <2>2. /\ f[i].index \in Nat /\ Size[f[i].type] \in 1..2
        /\ f[Len(f)].index \in Nat /\ Size[f[Len(f)].type] \in 1..2
    BY <1>1, DefParts
  <2> QED BY <1>2, <2>1, <2>2
<1> QED BY <1>1, <1>3, <1>4, DefParts

(* A variable created behind those of a flow. *)
LEMMA PackedAppend ==
  ASSUME NEW f \in Seq(Def), Packed(f), NEW d \in Def, d.index = SlotsCount(f)
  PROVE  /\ Append(f, d) \in Seq(Def) /\ Packed(Append(f, d))
         /\ SlotsCount(Append(f, d)) = SlotsCount(f) + Size[d.type]
<1> DEFINE g == Append(f, d)
<1>1. /\ g \in Seq(Def) /\ Len(g) = Len(f) + 1 /\ DOMAIN g = 1..Len(f) + 1
      /\ \A i \in 1..Len(f) : g[i] = f[i]
      /\ g[Len(f) + 1] = d /\ Len(f) \in Nat /\ DOMAIN f = 1..Len(f)
  BY AppendParts
<1>2. \A i \in 1..Len(f) + 1 : Prefix(g, i - 1) = Prefix(f, i - 1)
  BY DEF Prefix
<1>3. Prefix(f, Len(f)) = f BY DEF Prefix
<1>4. g # <<>> BY <1>1
<1> HIDE DEF g
<1>5. ASSUME NEW i \in DOMAIN g PROVE g[i].index = SlotsCount(Prefix(g, i - 1))
  <2>1. CASE i = Len(f) + 1
    <3>1. i - 1 = Len(f) BY <1>1, <2>1
    <3> QED BY <1>1, <1>2, <1>3, <2>1, <3>1
  <2>2. CASE i # Len(f) + 1
    <3>1. i \in DOMAIN f BY <1>1, <2>2
    <3> QED BY <1>1, <1>2, <3>1 DEF Packed
  <2> QED BY <2>1, <2>2
<1>6. ASSUME NEW i \in DOMAIN g, NEW j \in DOMAIN g, i < j
      PROVE  g[i].index + Size[g[i].type] <= g[j].index
  <2>1. i \in DOMAIN f /\ g[i] = f[i] BY <1>1, <1>6
  <2>2. CASE j = Len(f) + 1 BY <1>1, <2>1, <2>2, PackedEnds
  <2>3. CASE j # Len(f) + 1
    <3>1. j \in DOMAIN f /\ g[j] = f[j] BY <1>1, <2>3
    <3> QED BY <1>6, <2>1, <3>1 DEF Packed
  <2> QED BY <2>2, <2>3
<1>7. SlotsCount(g) = SlotsCount(f) + Size[d.type]
  BY <1>1, <1>4 DEF SlotsCount, Last
<1> QED BY <1>1, <1>5, <1>6, <1>7 DEF Packed, g

(* The flow without its last variable. *)
LEMMA PackedFront ==
  ASSUME NEW f \in Seq(Def), Packed(f), f # <<>>
  PROVE  /\ Front(f) \in Seq(Def) /\ Packed(Front(f))
         /\ SlotsCount(f) = SlotsCount(Front(f)) + Size[Last(f).type]
         /\ DOMAIN Front(f) = 1..Len(f) - 1
         /\ \A i \in DOMAIN Front(f) : i \in DOMAIN f /\ Front(f)[i] = f[i]
<1> DEFINE g == Front(f)
<1>1. /\ g \in Seq(Def) /\ Len(g) = Len(f) - 1 /\ DOMAIN g = 1..Len(f) - 1
      /\ \A i \in 1..Len(f) - 1 : g[i] = f[i]
      /\ Len(f) \in Nat \ {0} /\ DOMAIN f = 1..Len(f) /\ g = Prefix(f, Len(f) - 1)
  <2>1. Len(f) \in Nat \ {0} /\ DOMAIN f = 1..Len(f) OBVIOUS
  <2>2. g = Prefix(f, Len(f) - 1) BY DEF Front, Prefix
  <2>3. Len(f) - 1 \in 0..Len(f) BY <2>1
  <2>4. g \in Seq(Def) /\ Len(g) = Len(f) - 1 BY <2>2, <2>3, PrefixType
  <2>5. \A i \in 1..Len(f) - 1 : g[i] = f[i] BY <2>1 DEF Front
  <2>6. DOMAIN g = 1..Len(f) - 1 BY <2>4
  <2> QED BY Zenon, <2>1, <2>2, <2>4, <2>5, <2>6
<1>2. \A i \in 1..Len(f) - 1 : Prefix(g, i - 1) = Prefix(f, i - 1)
  BY DEF Prefix, Front
<1> HIDE DEF g
<1>3. \A i \in DOMAIN g : i \in DOMAIN f /\ g[i] = f[i] BY <1>1
<1>4. Packed(g) BY <1>1, <1>2, <1>3 DEF Packed
<1>5. Len(f) \in DOMAIN f BY <1>1
<1>6. SlotsCount(g) = f[Len(f)].index BY <1>1, <1>5 DEF Packed
<1>7. SlotsCount(f) = f[Len(f)].index + Size[f[Len(f)].type]
  BY DEF SlotsCount, Last
<1> QED BY <1>1, <1>3, <1>4, <1>6, <1>7 DEF g, Last

-----------------------------------------------------------------------------
(* Slots that stay, come and go                                            *)

(* The slots that one variable takes. *)
LEMMA SlotsParts ==
  ASSUME NEW at \in Nat, NEW t \in DataType
  PROVE  /\ Slots(at, t) \in Seq(Slot) /\ Len(Slots(at, t)) = Size[t]
         /\ DOMAIN Slots(at, t) = 1..Size[t]
         /\ \A k \in 1..Size[t] :
              Slots(at, t)[k] = [at |-> at, type |-> t, part |-> k]
<1>1. Size[t] \in 1..2 BY SlotsTypes
<1>2. \A k \in 1..Size[t] : [at |-> at, type |-> t, part |-> k] \in Slot
  BY <1>1 DEF Slot
<1>3. Slots(at, t) \in [1..Size[t] -> Slot] BY <1>2 DEF Slots
<1>4. Slots(at, t) \in Seq(Slot) /\ Len(Slots(at, t)) = Size[t] BY <1>1, <1>3
<1>5. \A k \in 1..Size[t] : Slots(at, t)[k] = [at |-> at, type |-> t, part |-> k]
  BY DEF Slots
<1> QED BY <1>1, <1>3, <1>4, <1>5

(* Variables whose slots stay are held on. *)
LEMMA HoldsKept ==
  ASSUME NEW l, NEW m, NEW f \in Seq(Def), NEW from \in Nat, NEW to,
         Packed(f), Holds(l, f, from, to), \A k \in 1..to : m[k] = l[k]
  PROVE  Holds(m, f, from, to)
<1>1. SlotsCount(f) \in Nat /\ to = from + SlotsCount(f) BY SlotsTypes DEF Holds
<1>2. ASSUME NEW i \in DOMAIN f, NEW k \in 1..Size[f[i].type]
      PROVE  from + f[i].index + k \in 1..to
  <2>1. f[i].index + Size[f[i].type] <= SlotsCount(f) BY PackedEnds
  <2>2. f[i].index \in Nat /\ Size[f[i].type] \in 1..2 BY DefParts
  <2>3. PICK x, y, z : x = f[i].index /\ y = Size[f[i].type] /\ z = SlotsCount(f) OBVIOUS
  <2>4. x \in Nat /\ y \in 1..2 /\ z \in Nat /\ x + y <= z /\ to = from + z
    BY Zenon, <1>1, <2>1, <2>2, <2>3
  <2>5. k \in 1..y BY Zenon, <2>3
  <2>6. from + x + k \in 1..to BY ONLY from \in Nat, <2>4, <2>5
  <2> QED BY Zenon, <2>3, <2>6
<1> QED BY <1>1, <1>2 DEF Holds

(* No variables are held in no slots. *)
LEMMA HoldsNone ==
  ASSUME NEW l, NEW from \in Nat, NEW to
  PROVE  Packed(<<>>) /\ (Holds(l, <<>>, from, to) <=> to = from)
<1>1. DOMAIN <<>> = {} OBVIOUS
<1> QED BY <1>1, SlotsTypes DEF Holds, Packed

(* A variable is created behind those of its frame. *)
LEMMA HoldsCreate ==
  ASSUME NEW l \in Seq(Slot), NEW f \in Seq(Def), NEW from \in Nat,
         Packed(f), Holds(l, f, from, Len(l)), NEW at \in Nat, NEW t \in DataType,
         NEW d, d = [at |-> at, type |-> t, index |-> SlotsCount(f)]
  PROVE  LET m == l \o Slots(at, t) IN
         /\ m \in Seq(Slot) /\ Len(l) <= Len(m) /\ \A k \in 1..Len(l) : m[k] = l[k]
         /\ Packed(Append(f, d)) /\ Holds(m, Append(f, d), from, Len(m))
<1> DEFINE m == l \o Slots(at, t)
           g == Append(f, d)
<1>1. d \in Def /\ d.index = SlotsCount(f) /\ d.at = at /\ d.type = t /\ SlotsCount(f) \in Nat
  BY SlotsTypes DEF Def
<1>2. /\ m \in Seq(Slot) /\ Len(m) = Len(l) + Size[t]
      /\ \A k \in 1..Len(l) : m[k] = l[k]
      /\ \A k \in 1..Size[t] : m[Len(l) + k] = [at |-> at, type |-> t, part |-> k]
      /\ Size[t] \in 1..2 /\ Len(l) \in Nat
  <2>1. /\ Slots(at, t) \in Seq(Slot) /\ Len(Slots(at, t)) = Size[t]
        /\ DOMAIN Slots(at, t) = 1..Size[t] /\ DOMAIN l = 1..Len(l)
    BY SlotsParts
  <2>2. /\ m \in Seq(Slot) /\ Len(m) = Len(l) + Len(Slots(at, t))
        /\ \A k \in DOMAIN l : m[k] = l[k]
        /\ \A k \in DOMAIN Slots(at, t) : m[Len(l) + k] = Slots(at, t)[k]
    <3>1. \A z \in Seq(Slot) : /\ l \o z \in Seq(Slot) /\ Len(l \o z) = Len(l) + Len(z)
                               /\ \A k \in DOMAIN l : (l \o z)[k] = l[k]
                               /\ \A k \in DOMAIN z : (l \o z)[Len(l) + k] = z[k]
      BY Concat
    <3>2. PICK z : z = Slots(at, t) OBVIOUS
    <3> QED BY ONLY <2>1, <3>1, <3>2
  <2>3. Size[t] \in 1..2 /\ Len(l) \in Nat BY SlotsTypes
  <2> HIDE DEF m
  <2> QED BY <2>1, <2>2, <2>3, SlotsParts
<1>3. /\ g \in Seq(Def) /\ Packed(g) /\ SlotsCount(g) = SlotsCount(f) + Size[t]
      /\ DOMAIN g = 1..Len(f) + 1 /\ g[Len(f) + 1] = d
      /\ \A i \in 1..Len(f) : g[i] = f[i]
      /\ DOMAIN f = 1..Len(f) /\ Len(f) \in Nat
  <2>1. g \in Seq(Def) /\ Packed(g) /\ SlotsCount(g) = SlotsCount(f) + Size[t]
    BY <1>1, PackedAppend
  <2> QED BY <1>1, <2>1, AppendParts
<1> HIDE DEF m, g
<1>4. Len(l) = from + SlotsCount(f) BY DEF Holds
<1>5. Holds(m, f, from, Len(l)) BY <1>2, HoldsKept
<1>6. ASSUME NEW i \in DOMAIN g, NEW k \in 1..Size[g[i].type]
      PROVE  m[from + g[i].index + k] = [at |-> g[i].at, type |-> g[i].type, part |-> k]
  <2>1. CASE i = Len(f) + 1
    <3>1. g[i] = d BY <1>3, <2>1
    <3>2. from + g[i].index + k = Len(l) + k /\ k \in 1..Size[t] BY <1>1, <1>4, <3>1
    <3> QED BY <1>1, <1>2, <3>1, <3>2
  <2>2. CASE i # Len(f) + 1
    <3>1. i \in DOMAIN f /\ g[i] = f[i] BY <1>3, <2>2
    <3> QED BY <1>5, <3>1 DEF Holds
  <2> QED BY <2>1, <2>2
<1>7. Len(m) = from + SlotsCount(g) BY <1>1, <1>2, <1>3, <1>4
<1>8. Holds(m, g, from, Len(m)) BY <1>6, <1>7 DEF Holds
<1> QED BY <1>2, <1>3, <1>8 DEF m, g

(* The last variable of a frame is destroyed. *)
LEMMA HoldsDestroy ==
  ASSUME NEW l \in Seq(Slot), NEW f \in Seq(Def), NEW from \in Nat,
         Packed(f), Holds(l, f, from, Len(l)), f # <<>>
  PROVE  LET n == Len(l) - Size[Last(f).type]
             m == Prefix(l, n) IN
         /\ n \in from..Len(l) /\ m \in Seq(Slot) /\ Len(m) = n
         /\ \A k \in 1..n : m[k] = l[k]
         /\ Packed(Front(f)) /\ Holds(m, Front(f), from, Len(m))
<1> DEFINE n == Len(l) - Size[Last(f).type]
           m == Prefix(l, n)
<1>1. /\ Front(f) \in Seq(Def) /\ Packed(Front(f)) /\ SlotsCount(Front(f)) \in Nat
      /\ SlotsCount(f) = SlotsCount(Front(f)) + Size[Last(f).type]
      /\ \A i \in DOMAIN Front(f) : i \in DOMAIN f /\ Front(f)[i] = f[i]
  BY PackedFront, SlotsTypes
<1>2. Size[Last(f).type] \in 1..2
  <2>1. Len(f) \in DOMAIN f OBVIOUS
  <2> QED BY <2>1, DefParts DEF Last
<1>3. Len(l) = from + SlotsCount(f) /\ Len(l) \in Nat BY DEF Holds
<1>4. n = from + SlotsCount(Front(f)) /\ n \in from..Len(l) /\ n \in 0..Len(l)
  BY <1>1, <1>2, <1>3
<1> HIDE DEF n
<1>5. /\ m \in Seq(Slot) /\ Len(m) = n BY <1>4, PrefixType
<1>6. \A k \in 1..n : m[k] = l[k] BY <1>3, <1>4 DEF Prefix
<1> HIDE DEF m
<1>7. ASSUME NEW i \in DOMAIN Front(f), NEW k \in 1..Size[Front(f)[i].type]
      PROVE  l[from + Front(f)[i].index + k] =
               [at |-> Front(f)[i].at, type |-> Front(f)[i].type, part |-> k]
  <2>1. i \in DOMAIN f /\ Front(f)[i] = f[i] BY <1>1
  <2> QED BY <2>1 DEF Holds
<1>8. Holds(l, Front(f), from, n) BY <1>4, <1>7 DEF Holds
<1>9. Holds(m, Front(f), from, n) BY <1>1, <1>6, <1>8, HoldsKept
<1> QED BY <1>1, <1>4, <1>5, <1>6, <1>9 DEF n, m

-----------------------------------------------------------------------------
(* Operands of a frame                                                     *)

(* The operands above a frame's base, element by element. *)
LEMMA SegParts ==
  ASSUME NEW S, NEW s \in Seq(S), NEW b \in Nat, NEW n \in Nat, b <= n, n <= Len(s)
  PROVE  /\ SubSeq(s, b + 1, n) \in Seq(S) /\ Len(SubSeq(s, b + 1, n)) = n - b
         /\ \A i \in 1..n - b : b + i \in DOMAIN s /\ SubSeq(s, b + 1, n)[i] = s[b + i]
OBVIOUS

(* Two sequences with the same elements are the same. *)
LEMMA SeqEqual ==
  ASSUME NEW S, NEW s \in Seq(S), NEW q \in Seq(S), Len(s) = Len(q),
         \A i \in 1..Len(s) : s[i] = q[i]
  PROVE  s = q
OBVIOUS

(* Operands that stay. *)
LEMMA SegKept ==
  ASSUME NEW s \in Seq(Operand), NEW q \in Seq(Operand), NEW b \in Nat, NEW n \in Nat,
         b <= n, n <= Len(s), n <= Len(q), \A k \in 1..n : q[k] = s[k]
  PROVE  SubSeq(q, b + 1, n) = SubSeq(s, b + 1, n)
<1>1. /\ SubSeq(s, b + 1, n) \in Seq(Operand) /\ Len(SubSeq(s, b + 1, n)) = n - b
      /\ \A i \in 1..n - b : SubSeq(s, b + 1, n)[i] = s[b + i]
  BY SegParts
<1>2. /\ SubSeq(q, b + 1, n) \in Seq(Operand) /\ Len(SubSeq(q, b + 1, n)) = n - b
      /\ \A i \in 1..n - b : SubSeq(q, b + 1, n)[i] = q[b + i]
  BY SegParts
<1>3. \A i \in 1..n - b : b + i \in 1..n OBVIOUS
<1> QED BY <1>1, <1>2, <1>3, SeqEqual

(* An operand is pushed. *)
LEMMA SegPush ==
  ASSUME NEW s \in Seq(Operand), NEW t \in Operand, NEW b \in Nat, b <= Len(s)
  PROVE  LET q == Append(s, t) IN
         /\ q \in Seq(Operand) /\ Len(q) = Len(s) + 1 /\ \A k \in 1..Len(s) : q[k] = s[k]
         /\ SubSeq(q, b + 1, Len(q)) = Append(SubSeq(s, b + 1, Len(s)), t)
<1> DEFINE q == Append(s, t)
           low == SubSeq(s, b + 1, Len(s))
<1>1. /\ q \in Seq(Operand) /\ Len(q) = Len(s) + 1 /\ \A k \in 1..Len(s) : q[k] = s[k]
      /\ q[Len(s) + 1] = t /\ Len(s) \in Nat
  BY AppendParts
<1>2. /\ low \in Seq(Operand) /\ Len(low) = Len(s) - b
      /\ \A i \in 1..Len(s) - b : low[i] = s[b + i]
  BY <1>1, SegParts
<1> HIDE DEF q, low
<1>3. /\ SubSeq(q, b + 1, Len(q)) \in Seq(Operand) /\ Len(SubSeq(q, b + 1, Len(q))) = Len(q) - b
      /\ \A i \in 1..Len(q) - b : SubSeq(q, b + 1, Len(q))[i] = q[b + i]
  BY <1>1, SegParts
<1>4. /\ Append(low, t) \in Seq(Operand) /\ Len(Append(low, t)) = Len(low) + 1
      /\ \A i \in 1..Len(low) : Append(low, t)[i] = low[i]
      /\ Append(low, t)[Len(low) + 1] = t
  BY <1>2, AppendParts
<1>5. ASSUME NEW i \in 1..Len(q) - b
      PROVE  SubSeq(q, b + 1, Len(q))[i] = Append(low, t)[i]
  <2>1. CASE i = Len(s) - b + 1
    <3>1. b + i = Len(s) + 1 /\ i = Len(low) + 1 BY <1>1, <1>2, <2>1
    <3> QED BY <1>1, <1>3, <1>4, <3>1
  <2>2. CASE i # Len(s) - b + 1
    <3>1. i \in 1..Len(s) - b /\ b + i \in 1..Len(s) BY <1>1, <2>2
    <3> QED BY <1>1, <1>2, <1>3, <1>4, <3>1
  <2> QED BY <2>1, <2>2
<1>6. Len(q) - b = Len(low) + 1 BY <1>1, <1>2
<1>7. SubSeq(q, b + 1, Len(q)) = Append(low, t)
  BY <1>3, <1>4, <1>5, <1>6, SeqEqual
<1> QED BY <1>1, <1>7 DEF q, low

(* The parts of a front. *)
LEMMA FrontParts ==
  ASSUME NEW S, NEW s \in Seq(S), s # <<>>
  PROVE  /\ Front(s) \in Seq(S) /\ Len(Front(s)) = Len(s) - 1
         /\ \A k \in 1..Len(s) - 1 : Front(s)[k] = s[k]
         /\ Last(s) = s[Len(s)] /\ Last(s) \in S
         /\ Len(s) \in Nat \ {0}
<1>1. Len(s) \in Nat \ {0} OBVIOUS
<1>2. Len(s) - 1 \in 0..Len(s) /\ Front(s) = Prefix(s, Len(s) - 1)
  BY <1>1 DEF Front, Prefix
<1>3. Front(s) \in Seq(S) /\ Len(Front(s)) = Len(s) - 1 BY <1>2, PrefixType
<1>4. \A k \in 1..Len(s) - 1 : Front(s)[k] = s[k] BY <1>1 DEF Front
<1>5. Last(s) = s[Len(s)] /\ Last(s) \in S BY <1>1 DEF Last
<1> QED BY <1>1, <1>3, <1>4, <1>5

(* The operands s end, above b, with those of f.                            *)
Segment(s, b, f) == b \in Nat /\ b <= Len(s) /\ f = SubSeq(s, b + 1, Len(s))

(* The operands q are s without its last, which is the last of f.          *)
PoppedFrom(s, b, f, q) ==
  /\ q \in Seq(Operand) /\ Len(q) = Len(s) - 1 /\ b <= Len(q)
  /\ \A k \in 1..Len(q) : q[k] = s[k]
  /\ SubSeq(q, b + 1, Len(q)) = Front(f)
  /\ s # <<>> /\ Last(s) = Last(f)

(* The topmost operand of a frame that has one is popped. *)
LEMMA SegPop ==
  ASSUME NEW s \in Seq(Operand), NEW b, NEW f, Segment(s, b, f), f # <<>>
  PROVE  PoppedFrom(s, b, f, Front(s))
<1> DEFINE q == Front(s)
<1>0. b \in Nat /\ b <= Len(s) /\ f = SubSeq(s, b + 1, Len(s)) BY DEF Segment
<1>1. /\ f \in Seq(Operand) /\ Len(f) = Len(s) - b
      /\ \A i \in 1..Len(s) - b : f[i] = s[b + i]
  <2>1. Len(s) \in Nat OBVIOUS
  <2> QED BY <1>0, <2>1, SegParts
<1>2. Len(f) \in Nat \ {0} /\ s # <<>> /\ Len(s) \in Nat \ {0} /\ b < Len(s)
  <2>1. Len(f) \in Nat \ {0} BY <1>1
  <2>2. Len(s) \in Nat /\ Len(s) # 0 BY <1>0, <1>1, <2>1
  <2> QED BY <1>0, <1>1, <2>1, <2>2
<1>3. /\ q \in Seq(Operand) /\ Len(q) = Len(s) - 1 /\ \A k \in 1..Len(s) - 1 : q[k] = s[k]
      /\ Last(s) = s[Len(s)]
  BY <1>2, FrontParts
<1>4. /\ Front(f) \in Seq(Operand) /\ Len(Front(f)) = Len(f) - 1
      /\ \A k \in 1..Len(f) - 1 : Front(f)[k] = f[k]
      /\ Last(f) = f[Len(f)]
  BY <1>1, <1>2, FrontParts
<1> HIDE DEF q
<1>5. b <= Len(q) /\ Len(q) \in Nat BY <1>0, <1>2, <1>3
<1>6. /\ SubSeq(q, b + 1, Len(q)) \in Seq(Operand) /\ Len(SubSeq(q, b + 1, Len(q))) = Len(q) - b
      /\ \A i \in 1..Len(q) - b : SubSeq(q, b + 1, Len(q))[i] = q[b + i]
  BY <1>0, <1>3, <1>5, SegParts
<1>7. Len(q) - b = Len(f) - 1 BY <1>0, <1>1, <1>2, <1>3
<1>8. ASSUME NEW i \in 1..Len(q) - b PROVE SubSeq(q, b + 1, Len(q))[i] = Front(f)[i]
  <2>1. i \in 1..Len(f) - 1 /\ i \in 1..Len(s) - b /\ b + i \in 1..Len(s) - 1
    BY <1>0, <1>1, <1>2, <1>7
  <2> QED BY <1>1, <1>3, <1>4, <1>6, <2>1
<1>9. SubSeq(q, b + 1, Len(q)) = Front(f) BY <1>4, <1>6, <1>7, <1>8, SeqEqual
<1>10. Last(s) = Last(f)
  <2>1. Len(f) \in 1..Len(s) - b /\ b + Len(f) = Len(s) BY <1>0, <1>1, <1>2
  <2> QED BY <1>1, <1>3, <1>4, <2>1
<1>11. PoppedFrom(s, b, f, q) BY <1>2, <1>3, <1>5, <1>9, <1>10 DEF PoppedFrom
<1> QED BY <1>11 DEF q

(* The operands of a frame are those of two neighbours. *)
LEMMA SegJoin ==
  ASSUME NEW s \in Seq(Operand), NEW b \in Nat, NEW n \in Nat, b <= n, n <= Len(s)
  PROVE  SubSeq(s, b + 1, Len(s)) = SubSeq(s, b + 1, n) \o SubSeq(s, n + 1, Len(s))
<1> DEFINE x == SubSeq(s, b + 1, n)
           y == SubSeq(s, n + 1, Len(s))
           z == SubSeq(s, b + 1, Len(s))
<1>1. Len(s) \in Nat OBVIOUS
<1>2. /\ x \in Seq(Operand) /\ Len(x) = n - b /\ \A i \in 1..n - b : x[i] = s[b + i]
      /\ y \in Seq(Operand) /\ Len(y) = Len(s) - n /\ \A i \in 1..Len(s) - n : y[i] = s[n + i]
      /\ z \in Seq(Operand) /\ Len(z) = Len(s) - b /\ \A i \in 1..Len(s) - b : z[i] = s[b + i]
  BY <1>1, SegParts
<1>3. /\ x \o y \in Seq(Operand) /\ Len(x \o y) = Len(x) + Len(y)
      /\ \A p \in 1..Len(x) : (x \o y)[p] = x[p]
      /\ \A i \in 1..Len(y) : (x \o y)[Len(x) + i] = y[i]
  <2>1. x \in Seq(Operand) /\ y \in Seq(Operand) BY <1>2
  <2> HIDE DEF x, y
  <2>2. DOMAIN x = 1..Len(x) /\ DOMAIN y = 1..Len(y) BY <2>1
  <2> QED BY <2>1, <2>2, Concat
<1> HIDE DEF x, y, z
<1>4. Len(z) = Len(x \o y) BY <1>1, <1>2, <1>3
<1>5. ASSUME NEW i \in 1..Len(z) PROVE z[i] = (x \o y)[i]
  <2>1. CASE i <= n - b BY <1>1, <1>2, <1>3, <2>1
  <2>2. CASE ~(i <= n - b)
    <3>1. /\ i - (n - b) \in 1..Len(s) - n /\ Len(x) + (i - (n - b)) = i
          /\ n + (i - (n - b)) = b + i
      BY <1>1, <1>2, <2>2
    <3>2. PICK j \in 1..Len(s) - n : Len(x) + j = i /\ n + j = b + i BY <3>1
    <3>3. (x \o y)[i] = y[j] BY <1>2, <1>3, <3>2
    <3> QED BY <1>2, <3>2, <3>3
  <2> QED BY <2>1, <2>2
<1>6. z = x \o y BY <1>2, <1>3, <1>4, <1>5, SeqEqual
<1> QED BY <1>6 DEF x, y, z

(* Above b the operands s end with the arguments args and the function f.  *)
Stacked(s, b, below, args, f) == SubSeq(s, b + 1, Len(s)) = Append(below \o args, f)

(* A call that pops f opens its frame between below and the arguments. *)
Parted(s, b, below, args, f) ==
  LET q == Front(s)
      base == Len(s) - 1 - Len(args)
  IN  /\ q \in Seq(Operand) /\ base \in Nat /\ b <= base /\ base <= Len(q)
      /\ \A k \in 1..Len(q) : q[k] = s[k]
      /\ SubSeq(q, b + 1, base) = below
      /\ SubSeq(q, base + 1, Len(q)) = args
      /\ Last(s) = f

(* A call takes the function and the arguments from its caller's operands. *)
LEMMA SegCall ==
  ASSUME NEW s \in Seq(Operand), NEW b \in Nat, b <= Len(s),
         NEW below \in Seq(Operand), NEW args \in Seq(Operand), NEW f \in Operand,
         Stacked(s, b, below, args, f)
  PROVE  Parted(s, b, below, args, f)
<1> DEFINE q == Front(s)
           base == Len(s) - 1 - Len(args)
           g == Append(below \o args, f)
<1>1. below \o args \in Seq(Operand) /\ Len(below \o args) = Len(below) + Len(args) BY Concat
<1>2. /\ g \in Seq(Operand) /\ Len(g) = Len(below \o args) + 1
      /\ \A i \in 1..Len(below \o args) : g[i] = (below \o args)[i]
      /\ g[Len(below \o args) + 1] = f
  BY <1>1, AppendParts
<1>3. g = SubSeq(s, b + 1, Len(s)) BY DEF Stacked
<1> HIDE DEF g
<1>4. g # <<>> BY <1>1, <1>2
<1>5. /\ q \in Seq(Operand) /\ Len(q) = Len(s) - 1 /\ b <= Len(q)
      /\ \A k \in 1..Len(q) : q[k] = s[k]
      /\ SubSeq(q, b + 1, Len(q)) = Front(g)
      /\ Last(s) = Last(g)
  <2> HIDE DEF q
  <2>1. Segment(s, b, g) BY <1>3 DEF Segment
  <2>2. PoppedFrom(s, b, g, Front(s)) BY <1>4, <2>1, SegPop
  <2> QED BY ONLY <2>2 DEF q, PoppedFrom
<1>6. Front(g) = below \o args
  <2>1. /\ Front(g) \in Seq(Operand) /\ Len(Front(g)) = Len(g) - 1
        /\ \A k \in 1..Len(g) - 1 : Front(g)[k] = g[k]
    BY <1>2, <1>4, FrontParts
  <2>2. Len(g) - 1 = Len(below \o args) BY <1>1, <1>2
  <2> QED BY <1>1, <1>2, <2>1, <2>2, SeqEqual
<1>7. Last(g) = f BY <1>2 DEF Last
<1> HIDE DEF q
<1>8. base = b + Len(below)
  <2>1. SubSeq(s, b + 1, Len(s)) = g BY <1>3
  <2>2. Len(s) \in Nat /\ Len(below) \in Nat /\ Len(args) \in Nat OBVIOUS
  <2>3. Len(SubSeq(s, b + 1, Len(s))) = Len(s) - b BY <2>2, SegParts
  <2>4. Len(g) = Len(s) - b BY <2>1, <2>3
  <2>5. Len(g) = Len(below) + Len(args) + 1 BY ONLY <1>1, <1>2
  <2> QED BY ONLY <2>2, <2>4, <2>5, b \in Nat DEF base
<1> HIDE DEF base
<1>9. /\ Len(s) \in Nat /\ Len(below) \in Nat /\ Len(args) \in Nat /\ Len(q) \in Nat
      /\ \A i \in 1..Len(below) : (below \o args)[i] = below[i]
      /\ \A i \in 1..Len(args) : (below \o args)[Len(below) + i] = args[i]
  <2>1. /\ Len(s) \in Nat /\ Len(below) \in Nat /\ Len(args) \in Nat /\ Len(q) \in Nat
        /\ DOMAIN below = 1..Len(below) /\ DOMAIN args = 1..Len(args)
    BY <1>5
  <2> QED BY <2>1, Concat
<1>10. base \in Nat /\ b <= base /\ base <= Len(q) /\ Len(q) - base = Len(args)
  <2>1. Len(q) - b = Len(below) + Len(args)
    <3>1. Len(SubSeq(q, b + 1, Len(q))) = Len(q) - b BY <1>5, <1>9, SegParts
    <3>2. SubSeq(q, b + 1, Len(q)) = below \o args BY <1>5, <1>6
    <3> QED BY <1>1, <3>1, <3>2
  <2> QED BY <1>8, <1>9, <2>1
<1>11. \A i \in 1..Len(q) - b : (below \o args)[i] = q[b + i]
  <2>1. \A i \in 1..Len(q) - b : SubSeq(q, b + 1, Len(q))[i] = q[b + i]
    BY <1>5, <1>9, SegParts
  <2> QED BY <1>5, <1>6, <2>1
<1>12. SubSeq(q, b + 1, base) = below
  <2>1. /\ SubSeq(q, b + 1, base) \in Seq(Operand) /\ Len(SubSeq(q, b + 1, base)) = base - b
        /\ \A i \in 1..base - b : SubSeq(q, b + 1, base)[i] = q[b + i]
    BY <1>5, <1>10, SegParts
  <2>2. base - b = Len(below) BY <1>8, <1>9, <1>10
  <2>3. \A i \in 1..Len(below) : i \in 1..Len(q) - b BY <1>8, <1>9, <1>10
  <2>4. \A i \in 1..Len(below) : SubSeq(q, b + 1, base)[i] = below[i]
    BY <1>9, <1>11, <2>1, <2>2, <2>3
  <2> QED BY <2>1, <2>2, <2>4, SeqEqual
<1>13. SubSeq(q, base + 1, Len(q)) = args
  <2>1. /\ SubSeq(q, base + 1, Len(q)) \in Seq(Operand)
        /\ Len(SubSeq(q, base + 1, Len(q))) = Len(q) - base
        /\ \A i \in 1..Len(q) - base : SubSeq(q, base + 1, Len(q))[i] = q[base + i]
    <3>1. PICK n \in Nat : n = Len(q) BY <1>9
    <3>2. q \in Seq(Operand) /\ base \in Nat /\ base <= n /\ n <= Len(q)
      BY <1>5, <1>10, <3>1
    <3>3. /\ SubSeq(q, base + 1, n) \in Seq(Operand) /\ Len(SubSeq(q, base + 1, n)) = n - base
          /\ \A i \in 1..n - base : SubSeq(q, base + 1, n)[i] = q[base + i]
      BY ONLY <3>2, n \in Nat, SegParts
    <3> QED BY <3>1, <3>3
  <2>2. \A i \in 1..Len(args) : Len(below) + i \in 1..Len(q) - b
                                 /\ base + i = b + (Len(below) + i)
    BY <1>8, <1>9, <1>10
  <2>3. \A i \in 1..Len(args) : q[base + i] = args[i] BY <1>9, <1>11, <2>2
  <2> QED BY <1>10, <2>1, <2>3, SeqEqual
<1> QED BY <1>5, <1>7, <1>10, <1>12, <1>13 DEF q, base, Parted

(* The frame is as the layout says as long as the slots and the operands   *)
(* up to its ends stay.                                                    *)
LEMMA FitsKept ==
  ASSUME NEW expected \in Layout, NEW l \in Seq(Slot), NEW m \in Seq(Slot),
         NEW o \in Seq(Operand), NEW q \in Seq(Operand),
         NEW start \in Nat, NEW to \in Nat, NEW base \in Nat, NEW top \in Nat,
         NEW awaited, Fits(expected, l, o, start, to, base, top, awaited),
         to <= Len(m), \A k \in 1..to : m[k] = l[k],
         top <= Len(q), \A k \in 1..top : q[k] = o[k]
  PROVE  Fits(expected, m, q, start, to, base, top, awaited)
<1>1. expected.flow \in Seq(Def) BY DEF Layout
<1>2. Holds(m, expected.flow, start, to) BY <1>1, HoldsKept DEF Fits
<1>3. SubSeq(q, base + 1, top) = SubSeq(o, base + 1, top) BY SegKept DEF Fits
<1> QED BY <1>2, <1>3 DEF Fits

-----------------------------------------------------------------------------
(* Compiled code                                                           *)

(* What the machine can rely on. *)
LEMMA Compiled ==
  ASSUME TypeInv, JumpsInv, LayoutInv, phase = "compiled"
  PROVE  /\ \A u \in Unit :
              /\ DOMAIN code[u] = 1..Len(code[u]) /\ Len(code[u]) \in Nat
              /\ DOMAIN layout[u] = 1..Len(code[u]) + 1
              /\ \A p \in DOMAIN layout[u] : layout[u][p] \in Layout
              /\ layout[u][1] = Entry(u)[1]
         /\ \A u \in Unit : \A p \in DOMAIN code[u] :
              /\ code[u][p] \in Cmd
              /\ p \in DOMAIN layout[u] /\ p + 1 \in DOMAIN layout[u]
              /\ layout[u][p].live =>
                   /\ Executes(u, p, code[u][p], layout[u][p], layout[u][p + 1])
                   /\ code[u][p].op \in JumpOp =>
                        /\ Target(p, code[u][p]) \in DOMAIN layout[u]
                        /\ layout[u][Target(p, code[u][p])] = Left(u, p)
         /\ End(Main) = [live |-> TRUE, flow |-> <<>>, operands |-> <<>>]
<1>1. CurrentScope.type = "global" BY DEF JumpsInv, EndsOutside
<1>2. ASSUME NEW u \in Unit
      PROVE  /\ DOMAIN code[u] = 1..Len(code[u]) /\ Len(code[u]) \in Nat
             /\ DOMAIN layout[u] = 1..Len(code[u]) + 1
             /\ \A p \in DOMAIN layout[u] : layout[u][p] \in Layout
             /\ layout[u][1] = Entry(u)[1]
             /\ \A p \in DOMAIN code[u] : code[u][p] \in Cmd
  <2>1. code[u] \in Seq(Cmd) /\ layout[u] \in Seq(Layout) BY DEF TypeInv, TypeOK
  <2>2. Len(layout[u]) = Len(code[u]) + 1 BY DEF TypeInv, LayoutCoversCode
  <2>3. DOMAIN layout[u] = 1..Len(layout[u]) /\ DOMAIN code[u] = 1..Len(code[u])
        /\ Len(code[u]) \in Nat
    BY <2>1
  <2>4. layout[u][1] = Entry(u)[1] BY DEF LayoutInv, EntriesFit
  <2> QED BY <2>1, <2>2, <2>3, <2>4
<1>3. ASSUME NEW u \in Unit, NEW p \in DOMAIN code[u]
      PROVE  /\ p \in DOMAIN layout[u] /\ p + 1 \in DOMAIN layout[u]
             /\ layout[u][p].live =>
                   /\ Executes(u, p, code[u][p], layout[u][p], layout[u][p + 1])
                   /\ code[u][p].op \in JumpOp =>
                        /\ Target(p, code[u][p]) \in DOMAIN layout[u]
                        /\ layout[u][Target(p, code[u][p])] = Left(u, p)
  <2>1. p \in DOMAIN layout[u] /\ p + 1 \in DOMAIN layout[u] BY <1>2
  <2>2. code[u][p].op \in JumpOp => code[u][p].offset # Unwritten
    BY <1>1, OutsideJumps DEF IsJump, Aimed
  <2>3. layout[u][p].live => CmdKeepsLayout(u, p) BY DEF LayoutInv, CodeKeepsLayout
  <2> QED BY <2>1, <2>2, <2>3 DEF CmdKeepsLayout, Arrives
<1> QED BY <1>1, <1>2, <1>3, OutsideLayout

-----------------------------------------------------------------------------
(* Frames                                                                  *)

(* What holds while the machine runs. *)
Running ==
  /\ TypeInv /\ JumpsInv /\ LayoutInv /\ phase = "compiled"
  /\ MachineTypeOK /\ FramesInv

(* Where frames end, and where they go on, is well-formed. *)
LEMMA FrameParts ==
  ASSUME MachineTypeOK, NEW i \in DOMAIN frames
  PROVE  /\ frames[i] \in Frame /\ Addr(i) \in Address
         /\ frames[i].start \in Nat /\ frames[i].base \in Nat
         /\ VarsEnd(i) \in Nat /\ OperandsEnd(i) \in Nat
         /\ Addr(i).unit \in Unit /\ Addr(i).pos \in Nat
         /\ Len(frames) \in DOMAIN frames /\ DOMAIN frames = 1..Len(frames)
         /\ Len(frames) \in Nat
<1>1. frames \in Seq(Frame) /\ pc \in Address /\ locals \in Seq(Slot)
      /\ operands \in Seq(Operand)
  BY DEF MachineTypeOK, Operand
<1>2. /\ Len(frames) \in DOMAIN frames /\ DOMAIN frames = 1..Len(frames)
      /\ Len(frames) \in Nat /\ Len(locals) \in Nat /\ Len(operands) \in Nat
  BY <1>1
<1>3. \A j \in DOMAIN frames : frames[j] \in Frame BY <1>1
<1>4. \A j \in DOMAIN frames : frames[j].start \in Nat /\ frames[j].base \in Nat
                               /\ frames[j].return \in Address
  BY <1>3 DEF Frame
<1>5. i # Len(frames) => i + 1 \in DOMAIN frames BY <1>2
<1>6. Addr(i) \in Address /\ VarsEnd(i) \in Nat /\ OperandsEnd(i) \in Nat
  BY <1>1, <1>2, <1>4, <1>5 DEF Addr, VarsEnd, OperandsEnd
<1>7. Addr(i).unit \in Unit /\ Addr(i).pos \in Nat BY <1>6 DEF Address
<1> QED BY <1>2, <1>3, <1>4, <1>6, <1>7

(* A frame below that nothing happens to still fits. *)
LEMMA FrameKept ==
  ASSUME TypeInv, MachineTypeOK, UNCHANGED vars,
         locals' \in Seq(Slot), operands' \in Seq(Operand),
         NEW i \in DOMAIN frames, FrameFits(i),
         frames'[i] = frames[i], Addr(i)' = Addr(i), VarsEnd(i)' = VarsEnd(i),
         OperandsEnd(i)' = OperandsEnd(i), Awaits(i)' = Awaits(i),
         VarsEnd(i) <= Len(locals'), \A k \in 1..VarsEnd(i) : locals'[k] = locals[k],
         OperandsEnd(i) <= Len(operands'),
         \A k \in 1..OperandsEnd(i) : operands'[k] = operands[k]
  PROVE  FrameFits(i)'
<1>1. PICK u, p, start, base, to, top, awaited :
        /\ u = Addr(i).unit /\ p = Addr(i).pos
        /\ start = frames[i].start /\ base = frames[i].base
        /\ to = VarsEnd(i) /\ top = OperandsEnd(i) /\ awaited = Awaits(i)
  OBVIOUS
<1>2. /\ u = Addr(i)'.unit /\ p = Addr(i)'.pos
      /\ start = frames'[i].start /\ base = frames'[i].base
      /\ to = VarsEnd(i)' /\ top = OperandsEnd(i)' /\ awaited = Awaits(i)'
  BY <1>1
<1>3. layout' = layout BY DEF vars
<1>4. PICK expected : expected = layout[u][p] OBVIOUS
<1>5. p \in DOMAIN layout[u] /\ Fits(expected, locals, operands, start, to, base, top, awaited)
  BY <1>1, <1>4 DEF FrameFits
<1>6. u \in Unit /\ start \in Nat /\ base \in Nat /\ to \in Nat /\ top \in Nat
  BY <1>1, FrameParts
<1>7. expected \in Layout
  <2>1. layout[u] \in Seq(Layout) BY <1>6 DEF TypeInv, TypeOK
  <2> QED BY <1>4, <1>5, <2>1
<1>8. locals \in Seq(Slot) /\ operands \in Seq(Operand)
  BY DEF MachineTypeOK, Operand
<1>9. Fits(expected, locals', operands', start, to, base, top, awaited)
  BY <1>1, <1>5, <1>6, <1>7, <1>8, FitsKept
<1> QED BY <1>2, <1>3, <1>4, <1>5, <1>9 DEF FrameFits

(* The current frame. *)
LEMMA Current ==
  ASSUME Running
  PROVE  /\ Len(frames) \in DOMAIN frames /\ Last(frames) = frames[Len(frames)]
         /\ Len(frames) \in Nat /\ DOMAIN frames = 1..Len(frames)
         /\ Last(frames).start \in Nat /\ Last(frames).base \in Nat
         /\ Last(frames).start <= Len(locals) /\ Last(frames).base <= Len(operands)
         /\ pc.unit \in Unit /\ pc.pos \in Nat /\ pc.pos \in DOMAIN layout[pc.unit]
         /\ layout[pc.unit][pc.pos] \in Layout
         /\ layout[pc.unit][pc.pos].live
         /\ Packed(layout[pc.unit][pc.pos].flow)
         /\ Holds(locals, layout[pc.unit][pc.pos].flow, Last(frames).start, Len(locals))
         /\ SubSeq(operands, Last(frames).base + 1, Len(operands)) =
              layout[pc.unit][pc.pos].operands
         /\ pc.unit = Main <=> Len(frames) = 1
<1>1. frames # <<>> /\ frames \in Seq(Frame)
  BY DEF Running, FramesInv, FramesStack, MachineTypeOK
<1>2. Len(frames) \in DOMAIN frames BY <1>1
<1>3. PICK n \in DOMAIN frames : n = Len(frames) BY <1>2
<1>4. /\ frames[n].start \in Nat /\ frames[n].base \in Nat
      /\ Addr(n).unit \in Unit /\ Addr(n).pos \in Nat
      /\ DOMAIN frames = 1..Len(frames) /\ Len(frames) \in Nat
  BY FrameParts DEF Running
<1>5. Addr(n) = pc /\ VarsEnd(n) = Len(locals) /\ OperandsEnd(n) = Len(operands)
      /\ Awaits(n) = <<>>
  BY <1>3 DEF Addr, VarsEnd, OperandsEnd, Awaits
<1>6. FrameFits(n) BY DEF Running, FramesInv
<1>7. PICK expected : expected = layout[pc.unit][pc.pos] OBVIOUS
<1>8. /\ pc.pos \in DOMAIN layout[pc.unit]
      /\ Fits(expected, locals, operands, frames[n].start, Len(locals),
              frames[n].base, Len(operands), <<>>)
  BY <1>5, <1>6, <1>7 DEF FrameFits
<1>9. expected \in Layout
  <2>1. layout[pc.unit] \in Seq(Layout) BY <1>4, <1>5 DEF Running, TypeInv, TypeOK
  <2> QED BY <1>7, <1>8, <2>1
<1>10. operands \in Seq(Operand) /\ Len(operands) \in Nat /\ Len(locals) \in Nat
  BY DEF Running, MachineTypeOK, Operand
<1>11. SubSeq(operands, frames[n].base + 1, Len(operands)) = expected.operands
  <2>1. SubSeq(operands, frames[n].base + 1, Len(operands)) \in Seq(Operand)
    BY <1>4, <1>8, <1>10, SegParts DEF Fits
  <2>2. \A q \in Seq(Operand) : q \o <<>> = q OBVIOUS
  <2> QED BY <1>8, <2>1, <2>2 DEF Fits
<1>12. frames[n].start <= Len(locals)
  <2>1. expected.flow \in Seq(Def) BY <1>9 DEF Layout
  <2>2. SlotsCount(expected.flow) \in Nat BY <2>1, SlotsTypes
  <2> QED BY <1>4, <1>8, <2>2 DEF Fits, Holds
<1>13. pc.unit = Main <=> Len(frames) = 1 BY <1>3, <1>5 DEF Running, FramesInv, FramesStack
<1> QED BY <1>2, <1>3, <1>4, <1>5, <1>7, <1>8, <1>9, <1>11, <1>12, <1>13 DEF Fits, Last

(* The variables m keep those of the other frames, and hold the flow f.     *)
KeepsLocals(m, f) ==
  /\ m \in Seq(Slot) /\ Last(frames).start <= Len(m)
  /\ \A k \in 1..Last(frames).start : m[k] = locals[k]
  /\ Packed(f) /\ Holds(m, f, Last(frames).start, Len(m))

(* The operands o keep those of the other frames, with x above them.        *)
KeepsOperands(o, x) ==
  /\ o \in Seq(Operand) /\ Last(frames).base <= Len(o)
  /\ \A k \in 1..Last(frames).base : o[k] = operands[k]
  /\ SubSeq(o, Last(frames).base + 1, Len(o)) = x

(* A command of the current frame leaves what is expected where it goes on. *)
LEMMA Moves ==
  ASSUME Running, UNCHANGED vars, UNCHANGED frames,
         NEW q, pc' = [pc EXCEPT !.pos = q], q \in DOMAIN layout[pc.unit],
         NEW after, after = layout[pc.unit][q], after.live,
         NEW m, locals' = m, KeepsLocals(m, after.flow),
         NEW o, operands' = o, KeepsOperands(o, after.operands),
         status' \in Status
  PROVE  MachineTypeOK' /\ FramesInv'
<1>1. PICK u, n, s, b : u = pc.unit /\ n = Len(frames) /\ s = Last(frames).start
                        /\ b = Last(frames).base
  OBVIOUS
<1>11. /\ m \in Seq(Slot) /\ s <= Len(m) /\ \A k \in 1..s : m[k] = locals[k]
       /\ Packed(after.flow) /\ Holds(m, after.flow, s, Len(m))
  BY ONLY <1>1, KeepsLocals(m, after.flow) DEF KeepsLocals
<1>12. /\ o \in Seq(Operand) /\ b <= Len(o) /\ \A k \in 1..b : o[k] = operands[k]
       /\ SubSeq(o, b + 1, Len(o)) = after.operands
  BY ONLY <1>1, KeepsOperands(o, after.operands) DEF KeepsOperands
<1>2. /\ n \in DOMAIN frames /\ DOMAIN frames = 1..n /\ n \in Nat
      /\ s = frames[n].start /\ b = frames[n].base /\ s \in Nat /\ b \in Nat
      /\ u \in Unit
  BY <1>1, Current
<1>3. /\ TypeInv /\ MachineTypeOK /\ FramesInv /\ frames' = frames /\ layout' = layout
      /\ frames \in Seq(Frame) /\ pc \in Address
      /\ locals \in Seq(Slot) /\ operands \in Seq(Operand)
  BY DEF Running, vars, MachineTypeOK, Operand
<1>4. q \in Nat
  <2>1. layout[u] \in Seq(Layout) BY <1>2, <1>3 DEF TypeInv, TypeOK
  <2> QED BY <1>1, <2>1
<1>5. pc' = [unit |-> u, pos |-> q] /\ pc' \in Address
  BY <1>1, <1>2, <1>3, <1>4 DEF Address
<1>6. MachineTypeOK' BY <1>3, <1>5, <1>11, <1>12 DEF MachineTypeOK, Operand
<1>7. ASSUME NEW i \in DOMAIN frames PROVE Addr(i)'.unit = Addr(i).unit
  BY <1>1, <1>3, <1>5 DEF Addr
<1>8. FramesStack'
  <2>1. FramesStack BY <1>3 DEF FramesInv
  <2>2. frames' # <<>> /\ frames'[1] = MainFrame' BY <1>3, <2>1 DEF FramesStack, MainFrame
  <2>3. \A i \in DOMAIN frames' : Addr(i)'.unit = Main <=> i = 1
    BY <1>3, <1>7, <2>1 DEF FramesStack
  <2>4. \A i, j \in DOMAIN frames' :
          i <= j => frames'[i].start <= frames'[j].start /\ frames'[i].base <= frames'[j].base
    BY <1>3, <2>1 DEF FramesStack
  <2> QED BY <2>2, <2>3, <2>4 DEF FramesStack
<1>9. ASSUME NEW i \in DOMAIN frames PROVE FrameFits(i)'
  <2>1. CASE i = n
    <3>1. /\ Addr(i)' = pc' /\ VarsEnd(i)' = Len(m) /\ OperandsEnd(i)' = Len(o)
          /\ Awaits(i)' = <<>> /\ frames'[i].start = s /\ frames'[i].base = b
      BY <1>1, <1>2, <1>3, <2>1 DEF Addr, VarsEnd, OperandsEnd, Awaits
    <3>2. SubSeq(o, b + 1, Len(o)) \o <<>> = after.operands
      <4>1. Len(o) \in Nat BY <1>12
      <4>2. SubSeq(o, b + 1, Len(o)) \in Seq(Operand) BY <1>2, <1>12, <4>1, SegParts
      <4>3. \A c \in Seq(Operand) : c \o <<>> = c OBVIOUS
      <4> QED BY <1>12, <4>2, <4>3
    <3>3. Len(m) \in Nat /\ Len(o) \in Nat BY <1>11, <1>12
    <3>4. Fits(after, m, o, s, Len(m), b, Len(o), <<>>)
      BY <1>11, <1>12, <3>2, <3>3 DEF Fits
    <3>5. Addr(i)'.unit = u /\ Addr(i)'.pos = q BY <1>5, <3>1
    <3> QED BY <1>1, <1>3, <3>1, <3>4, <3>5 DEF FrameFits
  <2>2. CASE i # n
    <3>1. i + 1 \in DOMAIN frames /\ i <= n /\ i + 1 <= n BY <1>2, <2>2
    <3>2. Addr(i)' = Addr(i) /\ VarsEnd(i)' = VarsEnd(i) /\ OperandsEnd(i)' = OperandsEnd(i)
      BY <1>1, <1>3, <2>2 DEF Addr, VarsEnd, OperandsEnd
    <3>3. Awaits(i)' = Awaits(i)
      <4>1. PICK j \in DOMAIN frames : j = i + 1 BY <3>1
      <4>2. Addr(j)'.unit = Addr(j).unit BY <1>7
      <4>3. Addr(i + 1)'.unit = Addr(i + 1).unit BY <4>1, <4>2
      <4> QED BY <1>1, <1>3, <2>2, <4>3 DEF Awaits, Operands
    <3>4. VarsEnd(i) <= s /\ OperandsEnd(i) <= b
      BY <1>1, <1>2, <1>3, <2>2, <3>1 DEF FramesInv, FramesStack, VarsEnd, OperandsEnd
    <3>5. VarsEnd(i) \in Nat /\ OperandsEnd(i) \in Nat BY <1>3, FrameParts
    <3>6. /\ VarsEnd(i) <= Len(m) /\ \A k \in 1..VarsEnd(i) : m[k] = locals[k]
          /\ OperandsEnd(i) <= Len(o) /\ \A k \in 1..OperandsEnd(i) : o[k] = operands[k]
      <4>1. Len(m) \in Nat /\ Len(o) \in Nat BY <1>11, <1>12
      <4> QED BY <1>2, <1>11, <1>12, <3>4, <3>5, <4>1
    <3>7. FrameFits(i) /\ frames'[i] = frames[i] BY <1>3 DEF FramesInv
    <3>8. locals' \in Seq(Slot) /\ operands' \in Seq(Operand) BY <1>11, <1>12
    <3> QED BY <1>3, <3>2, <3>3, <3>6, <3>7, <3>8, FrameKept
  <2> QED BY <2>1, <2>2
<1>10. DOMAIN frames' = DOMAIN frames BY <1>3
<1> QED BY <1>6, <1>8, <1>9, <1>10 DEF FramesInv

-----------------------------------------------------------------------------
(* Commands                                                                *)

(* What every command but a call, a return and an end of the program does. *)
Goes ==
  /\ MachineTypeOK'
  /\ status' \in {"running", "overflow", "aborted"}
  /\ status' = "running" => FramesInv'

(* A fetched command leaves what the next one, or that where it jumps,     *)
(* expects.                                                                *)
LEMMA Fetched ==
  ASSUME Running, HasCmd
  PROVE  /\ CurrentCmd \in Cmd /\ pc.pos \in DOMAIN code[pc.unit] /\ status = "running"
         /\ pc.pos + 1 \in DOMAIN layout[pc.unit]
         /\ layout[pc.unit][pc.pos + 1] \in Layout
         /\ Executes(pc.unit, pc.pos, CurrentCmd, layout[pc.unit][pc.pos],
                     layout[pc.unit][pc.pos + 1])
         /\ Skip = [pc EXCEPT !.pos = pc.pos + 1]
         /\ CurrentCmd.op \in JumpOp =>
              /\ Target(pc.pos, CurrentCmd) \in DOMAIN layout[pc.unit]
              /\ layout[pc.unit][Target(pc.pos, CurrentCmd)] = Left(pc.unit, pc.pos)
              /\ Jump = [pc EXCEPT !.pos = Target(pc.pos, CurrentCmd)]
<1>1. PICK u, p : u = pc.unit /\ p = pc.pos OBVIOUS
<1>2. u \in Unit /\ p \in DOMAIN code[u] /\ layout[u][p].live /\ p \in Nat
  BY <1>1, Current DEF HasCmd
<1>3. /\ code[u][p] \in Cmd /\ p + 1 \in DOMAIN layout[u]
      /\ layout[u][p + 1] \in Layout
      /\ Executes(u, p, code[u][p], layout[u][p], layout[u][p + 1])
      /\ code[u][p].op \in JumpOp =>
           /\ Target(p, code[u][p]) \in DOMAIN layout[u]
           /\ layout[u][Target(p, code[u][p])] = Left(u, p)
  BY <1>2, Compiled DEF Running
<1>4. pc \in Address BY DEF Running, MachineTypeOK
<1>5. Skip = [pc EXCEPT !.pos = pc.pos + 1]
      /\ Jump = [pc EXCEPT !.pos = Target(pc.pos, CurrentCmd)]
  BY <1>4 DEF Skip, Jump, Target, Address
<1> QED BY <1>1, <1>2, <1>3, <1>5 DEF CurrentCmd, HasCmd

(* The machine gives up. *)
LEMMA GivesUp ==
  ASSUME Running, UNCHANGED <<pc, frames>>, locals' \in Seq(Slot),
         operands' \in Seq(Operand), status' \in {"overflow", "aborted"}
  PROVE  Goes
<1>1. pc \in Address /\ frames \in Seq(Frame) BY DEF Running, MachineTypeOK
<1>2. MachineTypeOK' BY <1>1 DEF MachineTypeOK, Operand, Status
<1> QED BY <1>2 DEF Goes

(* Variables and operands that stay are those the current command expects. *)
LEMMA Kept ==
  ASSUME Running, NEW x, x = layout[pc.unit][pc.pos]
  PROVE  KeepsLocals(locals, x.flow) /\ KeepsOperands(operands, x.operands)
<1>1. locals \in Seq(Slot) /\ operands \in Seq(Operand)
  BY DEF Running, MachineTypeOK, Operand
<1>2. KeepsLocals(locals, x.flow) BY Zenon, <1>1, Current DEF KeepsLocals
<1>3. KeepsOperands(operands, x.operands) BY Zenon, <1>1, Current DEF KeepsOperands
<1> QED BY ONLY Zenon, <1>2, <1>3

(* The operands of the current frame, above those of the others. *)
LEMMA CurrentOperands ==
  ASSUME Running
  PROVE  \E o, b : /\ o = operands /\ o \in Seq(Operand) /\ Len(o) \in Nat
                   /\ b = Last(frames).base /\ b \in Nat /\ b <= Len(o)
                   /\ SubSeq(o, b + 1, Len(o)) = layout[pc.unit][pc.pos].operands
<1>1. operands \in Seq(Operand) BY DEF Running, MachineTypeOK, Operand
<1>2. Len(operands) \in Nat BY ONLY <1>1
<1> QED BY Zenon, <1>1, <1>2, Current

(* An operand is pushed. *)
LEMMA Pushed ==
  ASSUME Running, NEW t \in Operand
  PROVE  KeepsOperands(Append(operands, t), Append(layout[pc.unit][pc.pos].operands, t))
<1>1. PICK o, b : /\ o = operands /\ o \in Seq(Operand) /\ Len(o) \in Nat
                  /\ b = Last(frames).base /\ b \in Nat /\ b <= Len(o)
                  /\ SubSeq(o, b + 1, Len(o)) = layout[pc.unit][pc.pos].operands
  BY CurrentOperands
<1>2. PICK r : r = Append(o, t) OBVIOUS
<1>3. /\ r \in Seq(Operand) /\ Len(r) = Len(o) + 1 /\ \A k \in 1..Len(o) : r[k] = o[k]
      /\ SubSeq(r, b + 1, Len(r)) = Append(SubSeq(o, b + 1, Len(o)), t)
  BY ONLY <1>1, <1>2, t \in Operand, SegPush
<1>4. b <= Len(r) /\ \A k \in 1..b : k \in 1..Len(o)
  <2>1. b \in Nat /\ b <= Len(o) /\ Len(o) \in Nat /\ Len(r) = Len(o) + 1
    BY ONLY Zenon, <1>1, <1>3
  <2> QED BY ONLY <2>1
<1>5. \A k \in 1..b : r[k] = o[k] BY ONLY Zenon, <1>3, <1>4
<1> QED BY ONLY Zenon, <1>1, <1>2, <1>3, <1>4, <1>5 DEF KeepsOperands

(* The operand on top is popped. *)
LEMMA Popped ==
  ASSUME Running, NEW t, NEW after, Pops(layout[pc.unit][pc.pos].operands, t, after)
  PROVE  /\ KeepsOperands(Front(operands), after)
         /\ operands # <<>> /\ Last(operands) = t
<1>1. PICK o, b : /\ o = operands /\ o \in Seq(Operand) /\ Len(o) \in Nat
                  /\ b = Last(frames).base /\ b \in Nat /\ b <= Len(o)
                  /\ SubSeq(o, b + 1, Len(o)) = layout[pc.unit][pc.pos].operands
  BY CurrentOperands
<1>2. PICK f : f = layout[pc.unit][pc.pos].operands OBVIOUS
<1>3. f # <<>> /\ Last(f) = t /\ after = Front(f) BY <1>2 DEF Pops
<1>4. Segment(o, b, f) BY ONLY <1>1, <1>2 DEF Segment
<1>5. PoppedFrom(o, b, f, Front(o)) BY ONLY Zenon, <1>1, <1>3, <1>4, SegPop
<1>6. PICK q : q = Front(o) OBVIOUS
<1>7. /\ q \in Seq(Operand) /\ Len(q) = Len(o) - 1 /\ o # <<>>
      /\ \A k \in 1..Len(q) : q[k] = o[k]
      /\ b <= Len(q) /\ SubSeq(q, b + 1, Len(q)) = Front(f)
      /\ Last(o) = Last(f)
  BY ONLY Zenon, <1>5, <1>6 DEF PoppedFrom
<1>8. \A k \in 1..b : q[k] = o[k]
  <2>1. Len(q) \in Nat BY ONLY <1>7
  <2> QED BY ONLY <1>1, <1>7, <2>1
<1> QED BY ONLY Zenon, <1>1, <1>3, <1>6, <1>7, <1>8 DEF KeepsOperands

(* The variables of the current frame, above those of the others. *)
LEMMA CurrentLocals ==
  ASSUME Running
  PROVE  \E l, s, f : /\ l = locals /\ l \in Seq(Slot) /\ Len(l) \in Nat
                      /\ s = Last(frames).start /\ s \in Nat /\ s <= Len(l)
                      /\ f = layout[pc.unit][pc.pos].flow /\ f \in Seq(Def)
                      /\ Packed(f) /\ Holds(l, f, s, Len(l))
<1>1. locals \in Seq(Slot) BY DEF Running, MachineTypeOK
<1>2. Len(locals) \in Nat BY ONLY <1>1
<1>3. layout[pc.unit][pc.pos].flow \in Seq(Def)
  <2>1. layout[pc.unit][pc.pos] \in Layout BY Current
  <2> QED BY ONLY <2>1 DEF Layout
<1> QED BY Zenon, <1>1, <1>2, <1>3, Current

(* The flow f with a variable of type t behind it, created at p.           *)
WithVar(f, p, t) == Append(f, [at |-> p, type |-> t, index |-> SlotsCount(f)])

(* A variable is created by the current command. *)
LEMMA Created ==
  ASSUME Running, NEW t \in DataType, NEW f, f = layout[pc.unit][pc.pos].flow
  PROVE  KeepsLocals(locals \o Slots(pc.pos, t), WithVar(f, pc.pos, t))
<1>1. PICK l, s : /\ l = locals /\ l \in Seq(Slot) /\ Len(l) \in Nat
                  /\ s = Last(frames).start /\ s \in Nat /\ s <= Len(l)
                  /\ f \in Seq(Def) /\ Packed(f) /\ Holds(l, f, s, Len(l))
  BY Zenon, CurrentLocals
<1>2. PICK p, d : p = pc.pos /\ d = [at |-> p, type |-> t, index |-> SlotsCount(f)]
  OBVIOUS
<1>3. p \in Nat BY <1>2, Current
<1>4. PICK m : m = l \o Slots(p, t) OBVIOUS
<1>5. /\ m \in Seq(Slot) /\ Len(l) <= Len(m) /\ \A k \in 1..Len(l) : m[k] = l[k]
      /\ Packed(Append(f, d)) /\ Holds(m, Append(f, d), s, Len(m))
  <2>1. l \in Seq(Slot) /\ f \in Seq(Def) /\ s \in Nat BY ONLY Zenon, <1>1
  <2>2. Packed(f) /\ Holds(l, f, s, Len(l)) BY ONLY Zenon, <1>1
  <2>3. d = [at |-> p, type |-> t, index |-> SlotsCount(f)] BY ONLY Zenon, <1>2
  <2> QED BY ONLY <1>3, <1>4, <2>1, <2>2, <2>3, t \in DataType, HoldsCreate
<1>6. s <= Len(m) /\ \A k \in 1..s : k \in 1..Len(l)
  <2>1. s \in Nat /\ s <= Len(l) /\ Len(l) \in Nat BY ONLY Zenon, <1>1
  <2>2. Len(l) <= Len(m) /\ Len(m) \in Nat BY ONLY <1>5
  <2> QED BY ONLY <2>1, <2>2
<1>7. \A k \in 1..s : m[k] = l[k] BY ONLY Zenon, <1>5, <1>6
<1>8. KeepsLocals(m, Append(f, d))
  BY ONLY Zenon, <1>1, <1>5, <1>6, <1>7 DEF KeepsLocals
<1> QED BY ONLY Zenon, <1>1, <1>2, <1>4, <1>8 DEF WithVar

(* There is a variable to destroy. *)
LEMMA Destroyed ==
  ASSUME Running, NEW f, f = layout[pc.unit][pc.pos].flow, f # <<>>
  PROVE  /\ Len(locals) >= Size[Last(f).type]
         /\ KeepsLocals(Prefix(locals, Len(locals) - Size[Last(f).type]), Front(f))
<1>1. PICK l, s : /\ l = locals /\ l \in Seq(Slot) /\ Len(l) \in Nat
                  /\ s = Last(frames).start /\ s \in Nat /\ s <= Len(l)
                  /\ f \in Seq(Def) /\ Packed(f) /\ Holds(l, f, s, Len(l))
  BY Zenon, CurrentLocals
<1>2. PICK n, m : n = Len(l) - Size[Last(f).type] /\ m = Prefix(l, n) OBVIOUS
<1>3. /\ n \in s..Len(l) /\ m \in Seq(Slot) /\ Len(m) = n
      /\ \A k \in 1..n : m[k] = l[k]
      /\ Packed(Front(f)) /\ Holds(m, Front(f), s, Len(m))
  BY ONLY <1>1, <1>2, f # <<>>, HoldsDestroy
<1>4. n \in Nat /\ s <= n /\ \A k \in 1..s : k \in 1..n
  <2>1. s \in Nat BY ONLY Zenon, <1>1
  <2>2. Len(l) \in Nat BY ONLY Zenon, <1>1
  <2>3. n \in s..Len(l) BY ONLY Zenon, <1>3
  <2> QED BY ONLY <2>1, <2>2, <2>3
<1>5. Size[Last(f).type] \in 1..2
  <2>1. f \in Seq(Def) /\ f # <<>> BY ONLY Zenon, <1>1, f # <<>>
  <2>2. Len(f) \in DOMAIN f BY ONLY <2>1
  <2> QED BY ONLY <2>1, <2>2, DefParts DEF Last
<1>6. Len(l) >= Size[Last(f).type]
  <2>1. Len(l) \in Nat BY ONLY Zenon, <1>1
  <2>2. n = Len(l) - Size[Last(f).type] /\ n \in Nat BY ONLY Zenon, <1>2, <1>4
  <2> QED BY ONLY <1>5, <2>1, <2>2
<1>7. \A k \in 1..s : m[k] = l[k] BY ONLY Zenon, <1>3, <1>4
<1>8. s <= Len(m) BY ONLY Zenon, <1>3, <1>4
<1>9. KeepsLocals(m, Front(f))
  BY ONLY Zenon, <1>1, <1>3, <1>7, <1>8 DEF KeepsLocals
<1> QED BY ONLY Zenon, <1>1, <1>2, <1>6, <1>9

(* The next command, where the variables m and the operands o are found. *)
LEMMA GoesOn ==
  ASSUME Running, HasCmd, UNCHANGED vars, UNCHANGED frames, pc' = Skip,
         NEW after, after = layout[pc.unit][pc.pos + 1], after.live,
         NEW m, locals' = m, KeepsLocals(m, after.flow),
         NEW o, operands' = o, KeepsOperands(o, after.operands), status' = "running"
  PROVE  Goes
<1>1. PICK q : q = pc.pos + 1 OBVIOUS
<1>2. /\ q \in DOMAIN layout[pc.unit] /\ pc' = [pc EXCEPT !.pos = q]
      /\ after = layout[pc.unit][q]
  BY <1>1, Fetched
<1>3. status' \in Status BY DEF Status
<1>4. MachineTypeOK' /\ FramesInv' BY Zenon, <1>2, <1>3, Moves
<1> QED BY <1>4 DEF Goes

(* An operand is pushed, or there is no room for it. *)
LEMMA Pushes ==
  ASSUME Running, HasCmd, UNCHANGED vars, UNCHANGED <<locals, frames>>,
         NEW t \in Operand, Push(t), NEW before, before = layout[pc.unit][pc.pos],
         NEW after, after = layout[pc.unit][pc.pos + 1], after.live,
         after.flow = before.flow, after.operands = Append(before.operands, t)
  PROVE  Goes
<1>1. locals \in Seq(Slot) /\ operands \in Seq(Operand) /\ status = "running"
  BY DEF Running, MachineTypeOK, HasCmd, Operand
<1>2. CASE HasEnoughCapacity(t)
  <2>1. operands' = Append(operands, t) /\ pc' = Skip /\ status' = "running"
    BY <1>1, <1>2 DEF Push
  <2>2. PICK m, o : m = locals /\ o = Append(operands, t) OBVIOUS
  <2>3. KeepsLocals(m, after.flow) BY Zenon, <2>2, Kept
  <2>4. KeepsOperands(o, after.operands) BY Zenon, <2>2, Pushed
  <2>5. locals' = m /\ operands' = o BY <2>1, <2>2
  <2> QED BY Zenon, <2>1, <2>3, <2>4, <2>5, GoesOn
<1>3. CASE ~HasEnoughCapacity(t)
  <2>1. status' = "overflow" /\ UNCHANGED <<operands, pc>> BY <1>3 DEF Push
  <2> QED BY Zenon, <1>1, <2>1, GivesUp
<1> QED BY <1>2, <1>3

(* Values, functions and variables are loaded. *)
LEMMA LoadsGo ==
  ASSUME Running, UNCHANGED vars,
         VisitLoadValueCmd \/ VisitLoadFuncValueCmd \/ VisitLoadLocalVarValueCmd
  PROVE  Goes
<1>1. UNCHANGED <<locals, frames>>
  BY DEF VisitLoadValueCmd, VisitLoadFuncValueCmd, VisitLoadLocalVarValueCmd
<1>2. HasCmd
  BY DEF VisitLoadValueCmd, VisitLoadFuncValueCmd, VisitLoadLocalVarValueCmd, IsAt
<1>3. PICK before, after, cmd : /\ before = layout[pc.unit][pc.pos]
                                /\ after = layout[pc.unit][pc.pos + 1] /\ cmd = CurrentCmd
  OBVIOUS
<1>4. cmd \in Cmd /\ Executes(pc.unit, pc.pos, cmd, before, after)
  BY <1>2, <1>3, Fetched
<1>5. locals \in Seq(Slot) /\ operands \in Seq(Operand)
  BY DEF Running, MachineTypeOK, Operand
<1>6. CASE VisitLoadValueCmd
  <2>1. cmd.op = "LoadValue" /\ Push(cmd.type) BY <1>3, <1>6 DEF VisitLoadValueCmd, IsAt
  <2>2. cmd.type \in Operand BY <1>4, <2>1 DEF Cmd, TypedOp, JumpOp, Operand
  <2>3. after.live /\ after.flow = before.flow
        /\ after.operands = Append(before.operands, cmd.type)
    BY <1>4, <2>1 DEF Executes
  <2> QED BY Zenon, <1>1, <1>2, <1>3, <2>1, <2>2, <2>3, Pushes
<1>7. CASE VisitLoadFuncValueCmd
  <2>1. cmd.op = "LoadFuncValue" /\ Push(cmd.func)
    BY <1>3, <1>7 DEF VisitLoadFuncValueCmd, IsAt
  <2>2. cmd.func \in Operand BY <1>4, <2>1 DEF Cmd, TypedOp, JumpOp, Operand
  <2>3. after.live /\ after.flow = before.flow
        /\ after.operands = Append(before.operands, cmd.func)
    BY <1>4, <2>1 DEF Executes
  <2> QED BY Zenon, <1>1, <1>2, <1>3, <2>1, <2>2, <2>3, Pushes
<1>8. CASE VisitLoadLocalVarValueCmd
  <2>1. cmd.op = "LoadLocalVarValue"
        /\ \/ Push(cmd.type)
           \/ status' = "aborted" /\ UNCHANGED <<operands, pc>>
    BY <1>3, <1>8 DEF VisitLoadLocalVarValueCmd, IsAt
  <2>2. cmd.type \in Operand BY <1>4, <2>1 DEF Cmd, TypedOp, JumpOp, Operand
  <2>3. after.live /\ after.flow = before.flow
        /\ after.operands = Append(before.operands, cmd.type)
    BY <1>4, <2>1 DEF Executes
  <2>4. CASE Push(cmd.type) BY Zenon, <1>1, <1>2, <1>3, <2>2, <2>3, <2>4, Pushes
  <2>5. CASE status' = "aborted" /\ UNCHANGED <<operands, pc>>
    BY <1>1, <1>5, <2>5, GivesUp
  <2> QED BY <2>1, <2>4, <2>5
<1> QED BY <1>6, <1>7, <1>8

(* A value is dropped, added to another, or decides whether to jump. *)
LEMMA PopsGo ==
  ASSUME Running, UNCHANGED vars, VisitUnloadCmd \/ VisitSumCmd \/ VisitJumpIfNotCmd
  PROVE  Goes
<1>1. /\ HasCmd /\ operands' = Front(operands) /\ UNCHANGED <<status, locals, frames>>
      /\ CurrentCmd.op \in {"Unload", "Sum", "JumpIfNot"}
      /\ pc' = Skip \/ (CurrentCmd.op = "JumpIfNot" /\ pc' = Jump)
  BY DEF VisitUnloadCmd, VisitSumCmd, VisitJumpIfNotCmd, IsAt
<1>2. PICK before, after, cmd, m, o :
        /\ before = layout[pc.unit][pc.pos] /\ m = locals /\ o = Front(operands)
        /\ after = layout[pc.unit][pc.pos + 1] /\ cmd = CurrentCmd
  OBVIOUS
<1>3. Executes(pc.unit, pc.pos, cmd, before, after) /\ status = "running"
  BY <1>1, <1>2, Fetched
<1>4. after.live /\ after.flow = before.flow
      /\ \E t \in {cmd.type, Bool} : Pops(before.operands, t, after.operands)
  BY Zenon, <1>1, <1>2, <1>3 DEF Executes
<1>5. KeepsLocals(m, after.flow) BY Zenon, <1>2, <1>4, Kept
<1>6. KeepsOperands(o, after.operands) BY Zenon, <1>2, <1>4, Popped
<1>7. PICK q : /\ pc' = [pc EXCEPT !.pos = q] /\ q \in DOMAIN layout[pc.unit]
               /\ after = layout[pc.unit][q]
  <2>1. CASE pc' = Skip BY <1>1, <1>2, <2>1, Fetched
  <2>2. CASE cmd.op = "JumpIfNot" /\ pc' = Jump
    <3>1. /\ Target(pc.pos, cmd) \in DOMAIN layout[pc.unit]
          /\ layout[pc.unit][Target(pc.pos, cmd)] = Left(pc.unit, pc.pos)
          /\ Jump = [pc EXCEPT !.pos = Target(pc.pos, cmd)]
      BY <1>1, <1>2, <2>2, Fetched DEF JumpOp
    <3>2. Left(pc.unit, pc.pos) = after BY <1>2, <2>2 DEF Left, CurrentCmd
    <3> QED BY <2>2, <3>1, <3>2
  <2> QED BY <1>1, <1>2, <2>1, <2>2
<1>8. locals' = m /\ operands' = o /\ UNCHANGED frames /\ status' = "running"
  BY <1>1, <1>2, <1>3
<1>9. status' \in Status BY <1>8 DEF Status
<1>10. MachineTypeOK' /\ FramesInv'
  BY Zenon, <1>4, <1>5, <1>6, <1>7, <1>8, <1>9, Moves
<1> QED BY <1>8, <1>10 DEF Goes

(* A jump. *)
LEMMA JumpGoes ==
  ASSUME Running, UNCHANGED vars, VisitDirectJumpCmd
  PROVE  Goes
<1>1. /\ HasCmd /\ UNCHANGED <<status, locals, operands, frames>>
      /\ CurrentCmd.op = "DirectJump" /\ pc' = Jump /\ status = "running"
  BY DEF VisitDirectJumpCmd, IsAt, HasCmd
<1>2. PICK after, q, o, m :
        /\ q = Target(pc.pos, CurrentCmd) /\ o = operands
        /\ after = layout[pc.unit][q] /\ m = locals
  OBVIOUS
<1>3. /\ q \in DOMAIN layout[pc.unit] /\ after = Left(pc.unit, pc.pos)
      /\ pc' = [pc EXCEPT !.pos = q]
  BY <1>1, <1>2, Fetched DEF JumpOp
<1>4. after = layout[pc.unit][pc.pos] BY <1>1, <1>3 DEF Left, CurrentCmd
<1>5. after.live BY <1>4, Current
<1>6. KeepsLocals(m, after.flow) /\ KeepsOperands(o, after.operands)
  BY Zenon, <1>2, <1>4, Kept
<1>7. locals' = m /\ operands' = o /\ UNCHANGED frames /\ status' \in Status
  BY <1>1, <1>2 DEF Status
<1>8. MachineTypeOK' /\ FramesInv' BY Zenon, <1>2, <1>3, <1>5, <1>6, <1>7, Moves
<1> QED BY <1>1, <1>8 DEF Goes

(* A variable is created, or there is no room for it. *)
LEMMA Creates ==
  ASSUME Running, HasCmd, UNCHANGED vars, UNCHANGED frames,
         NEW t \in DataType, PushLocal(t),
         NEW before, before = layout[pc.unit][pc.pos],
         NEW after, after = layout[pc.unit][pc.pos + 1], after.live,
         after.flow = WithVar(before.flow, pc.pos, t),
         NEW o, operands' = o, KeepsOperands(o, after.operands)
  PROVE  Goes
<1>1. PICK m : m = locals \o Slots(pc.pos, t) OBVIOUS
<1>2. PICK f : f = before.flow OBVIOUS
<1>3. KeepsLocals(locals \o Slots(pc.pos, t), WithVar(f, pc.pos, t))
  BY Zenon, <1>2, Created
<1>4. KeepsLocals(m, after.flow) BY Zenon, <1>1, <1>2, <1>3
<1>5. status = "running" BY DEF HasCmd
<1>6. CASE LocalsCapacity - Len(locals) >= Size[t]
  <2>1. locals' = m /\ pc' = Skip /\ status' = "running"
    BY Zenon, <1>1, <1>5, <1>6 DEF PushLocal
  <2> QED BY Zenon, <1>4, <2>1, GoesOn
<1>7. CASE ~(LocalsCapacity - Len(locals) >= Size[t])
  <2>1. status' = "overflow" /\ UNCHANGED <<locals, pc>> BY Zenon, <1>7 DEF PushLocal
  <2>2. locals \in Seq(Slot) BY DEF Running, MachineTypeOK
  <2>3. operands' \in Seq(Operand) BY Zenon DEF KeepsOperands
  <2> QED BY Zenon, <2>1, <2>2, <2>3, GivesUp
<1> QED BY Zenon, <1>6, <1>7

LEMMA MakesVar ==
  ASSUME NEW u, NEW p, NEW cmd, NEW before, NEW after,
         Executes(u, p, cmd, before, after), cmd.op = "CreateLocalVar"
  PROVE  /\ after.live /\ after.operands = before.operands
         /\ after.flow = WithVar(before.flow, p, cmd.type)
<1>1. after = [live |-> TRUE, flow |-> WithVar(before.flow, p, cmd.type),
               operands |-> before.operands]
  BY Zenon DEF Executes, WithVar
<1> QED BY <1>1

(* Variables are created, with a value or without. *)
LEMMA CreatesGo ==
  ASSUME Running, UNCHANGED vars,
         VisitCreateLocalVarCmd \/ VisitCreateAndInitLocalVarCmd
  PROVE  Goes
<1>1. /\ HasCmd /\ PushLocal(CurrentCmd.type) /\ UNCHANGED frames
      /\ \/ CurrentCmd.op = "CreateLocalVar" /\ operands' = operands
         \/ CurrentCmd.op = "CreateAndInitLocalVar" /\ operands' = Front(operands)
  BY DEF VisitCreateLocalVarCmd, VisitCreateAndInitLocalVarCmd, IsAt
<1>2. PICK before, after, cmd, t :
        /\ before = layout[pc.unit][pc.pos] /\ t = CurrentCmd.type
        /\ after = layout[pc.unit][pc.pos + 1] /\ cmd = CurrentCmd
  OBVIOUS
<1>3. Executes(pc.unit, pc.pos, cmd, before, after) /\ cmd \in Cmd
  BY <1>1, <1>2, Fetched
<1>4. t \in DataType BY <1>1, <1>2, <1>3 DEF Cmd, TypedOp, JumpOp
<1>5. CASE cmd.op = "CreateLocalVar" /\ operands' = operands
  <2>1. /\ after.live /\ after.operands = before.operands
        /\ after.flow = WithVar(before.flow, pc.pos, t)
    BY <1>2, <1>3, <1>5, MakesVar
  <2>2. PICK o : o = operands OBVIOUS
  <2>3. KeepsOperands(o, after.operands) BY Zenon, <1>2, <2>1, <2>2, Kept
  <2> QED BY Zenon, <1>1, <1>2, <1>4, <1>5, <2>1, <2>2, <2>3, Creates
<1>6. CASE cmd.op = "CreateAndInitLocalVar" /\ operands' = Front(operands)
  <2>1. /\ after.live /\ Pops(before.operands, t, after.operands)
        /\ after.flow = WithVar(before.flow, pc.pos, t)
    BY Zenon, <1>2, <1>3, <1>6 DEF Executes, WithVar
  <2>2. PICK o : o = Front(operands) OBVIOUS
  <2>3. KeepsOperands(o, after.operands) BY Zenon, <1>2, <2>1, <2>2, Popped
  <2> QED BY Zenon, <1>1, <1>2, <1>4, <1>6, <2>1, <2>2, <2>3, Creates
<1> QED BY <1>1, <1>2, <1>5, <1>6

(* A variable is destroyed, and there is one to destroy. *)
LEMMA DestroyGoes ==
  ASSUME Running, UNCHANGED vars, VisitDestroyLocalVarCmd
  PROVE  Goes
<1>1. /\ HasCmd /\ CurrentCmd.op = "DestroyLocalVar" /\ UNCHANGED <<operands, frames>>
      /\ status = "running"
  BY DEF VisitDestroyLocalVarCmd, IsAt, HasCmd
<1>2. PICK before, after, cmd, f, o :
        /\ before = layout[pc.unit][pc.pos] /\ f = before.flow /\ o = operands
        /\ after = layout[pc.unit][pc.pos + 1] /\ cmd = CurrentCmd
  OBVIOUS
<1>3. Executes(pc.unit, pc.pos, cmd, before, after) BY <1>1, <1>2, Fetched
<1>4. /\ f # <<>> /\ Last(f).type = cmd.type
      /\ after.live /\ after.flow = Front(f) /\ after.operands = before.operands
  <2>1. cmd.op = "DestroyLocalVar" BY <1>1, <1>2
  <2>2. /\ before.flow # <<>> /\ Last(before.flow).type = cmd.type
        /\ after = [live |-> TRUE, flow |-> Front(before.flow), operands |-> before.operands]
    BY ONLY <1>3, <2>1 DEF Executes
  <2>3. f = before.flow BY Zenon, <1>2
  <2> QED BY ONLY <2>2, <2>3
<1>5. /\ Len(locals) >= Size[Last(f).type]
      /\ KeepsLocals(Prefix(locals, Len(locals) - Size[Last(f).type]), Front(f))
  BY Zenon, <1>2, <1>4, Destroyed
<1>6. PICK m : m = Prefix(locals, Len(locals) - Size[CurrentCmd.type]) OBVIOUS
<1>7. KeepsLocals(m, after.flow) BY Zenon, <1>2, <1>4, <1>5, <1>6
<1>8. locals' = m /\ pc' = Skip /\ status' = "running"
  BY Zenon, <1>1, <1>2, <1>4, <1>5, <1>6 DEF VisitDestroyLocalVarCmd
<1>9. KeepsOperands(o, after.operands) BY Zenon, <1>2, <1>4, Kept
<1>10. operands' = o BY Zenon, <1>1, <1>2
<1> QED BY Zenon, <1>1, <1>2, <1>4, <1>7, <1>8, <1>9, <1>10, GoesOn

(* What a call finds on top of its caller's operands. *)
LEMMA CallFinds ==
  ASSUME Running, VisitCallCmd
  PROVE  \E g \in Func : \E below \in Seq(Operand) :
           LET before == layout[pc.unit][pc.pos]
               after == layout[pc.unit][pc.pos + 1] IN
           /\ before.operands = Append(below \o Reverse(Args[g]), g)
           /\ after.live /\ after.flow = before.flow
           /\ after.operands = below \o Operands(Result[g])
<1>1. HasCmd /\ CurrentCmd.op = "Call" BY DEF VisitCallCmd, IsAt
<1>2. PICK before, after, cmd :
        /\ before = layout[pc.unit][pc.pos]
        /\ after = layout[pc.unit][pc.pos + 1] /\ cmd = CurrentCmd
  OBVIOUS
<1>3. Executes(pc.unit, pc.pos, cmd, before, after) /\ before \in Layout
  BY <1>1, <1>2, Fetched, Current
<1>4. PICK g : g = Last(before.operands) OBVIOUS
<1>5. /\ g \in Func
      /\ \E below \in {Prefix(before.operands, k) : k \in 0..Len(before.operands)} :
           /\ before.operands = Append(below \o Reverse(Args[g]), g)
           /\ after = [live |-> TRUE, flow |-> before.flow,
                       operands |-> below \o Operands(Result[g])]
  <2>1. cmd.op = "Call" BY <1>1, <1>2
  <2> QED BY ONLY <1>3, <1>4, <2>1 DEF Executes
<1>6. PICK k \in 0..Len(before.operands) :
        /\ before.operands = Append(Prefix(before.operands, k) \o Reverse(Args[g]), g)
        /\ after = [live |-> TRUE, flow |-> before.flow,
                    operands |-> Prefix(before.operands, k) \o Operands(Result[g])]
  BY ONLY <1>5
<1>7. Prefix(before.operands, k) \in Seq(Operand)
  <2>1. before.operands \in Seq(Operand) BY <1>3 DEF Layout, Operand
  <2> QED BY <2>1, PrefixType
<1>8. PICK below \in Seq(Operand) : below = Prefix(before.operands, k) BY <1>7
<1>9. /\ before.operands = Append(below \o Reverse(Args[g]), g)
      /\ after.live /\ after.flow = before.flow
      /\ after.operands = below \o Operands(Result[g])
  BY ONLY <1>6, <1>8
<1> QED BY <1>2, <1>5, <1>9

(* A call opens a frame on top of its caller's. *)
LEMMA CallGoes ==
  ASSUME Running, UNCHANGED vars, VisitCallCmd
  PROVE  Goes
<1>1. /\ HasCmd /\ CurrentCmd.op = "Call" /\ UNCHANGED <<status, locals>>
      /\ status = "running" /\ operands' = Front(operands)
      /\ pc' = [unit |-> Last(operands), pos |-> 1]
      /\ frames' = Append(frames,
           [start |-> Len(locals), return |-> Skip,
            base |-> Len(operands) - 1 - Len(Args[Last(operands)])])
  BY DEF VisitCallCmd, IsAt, HasCmd
<1>2. PICK before, after, l, o, s, b, u, p :
        /\ before = layout[u][p] /\ after = layout[u][p + 1]
        /\ l = locals /\ o = operands /\ s = Last(frames).start /\ b = Last(frames).base
        /\ u = pc.unit /\ p = pc.pos
  <2>1. PICK u, p : u = pc.unit /\ p = pc.pos OBVIOUS
  <2> QED BY <2>1
<1>3. PICK n \in DOMAIN frames : n = Len(frames) BY Current
<1>4. /\ l \in Seq(Slot) /\ o \in Seq(Operand) /\ s \in Nat /\ b \in Nat /\ n \in Nat
      /\ s <= Len(l) /\ b <= Len(o) /\ u \in Unit /\ p \in Nat
      /\ frames[n].start = s /\ frames[n].base = b /\ DOMAIN frames = 1..n
      /\ Packed(before.flow) /\ Holds(l, before.flow, s, Len(l))
      /\ SubSeq(o, b + 1, Len(o)) = before.operands
  BY <1>2, <1>3, Current DEF Running, MachineTypeOK, Operand
<1>5. PICK g \in Func : \E below \in Seq(Operand) :
        /\ before.operands = Append(below \o Reverse(Args[g]), g)
        /\ after.live /\ after.flow = before.flow
        /\ after.operands = below \o Operands(Result[g])
  BY <1>2, CallFinds
<1>6. PICK below \in Seq(Operand) :
        /\ before.operands = Append(below \o Reverse(Args[g]), g)
        /\ after.live /\ after.flow = before.flow
        /\ after.operands = below \o Operands(Result[g])
  BY <1>5
<1>7. PICK args, q, base : /\ args = Reverse(Args[g]) /\ q = Front(o)
                           /\ base = Len(o) - 1 - Len(args)
  OBVIOUS
<1>8. args \in Seq(Operand) /\ Len(args) = Len(Args[g]) /\ g \in Operand /\ g \in Unit
      /\ args \in Seq(DataType)
  <2>1. Args[g] \in Seq(DataType) BY FuncsAssumption
  <2>2. args \in Seq(DataType) /\ Len(args) = Len(Args[g]) BY <1>7, <2>1, ReverseType
  <2>3. DataType \subseteq Operand /\ Func \subseteq Operand /\ Func \subseteq Unit
    BY DEF Operand, Unit
  <2>4. args \in Seq(Operand) BY <2>2, <2>3
  <2> QED BY <2>2, <2>3, <2>4
<1>9. SubSeq(o, b + 1, Len(o)) = Append(below \o args, g) BY <1>4, <1>6, <1>7
<1>10. /\ q \in Seq(Operand) /\ base \in Nat /\ b <= base /\ base <= Len(q)
       /\ \A k \in 1..Len(q) : q[k] = o[k]
       /\ SubSeq(q, b + 1, base) = below
       /\ SubSeq(q, base + 1, Len(q)) = args
       /\ Last(o) = g
  <2>1. /\ o \in Seq(Operand) /\ b \in Nat /\ b <= Len(o) /\ below \in Seq(Operand)
        /\ args \in Seq(Operand) /\ g \in Operand /\ q = Front(o)
    BY <1>4, <1>7, <1>8
  <2>2. Stacked(o, b, below, args, g) BY <1>9 DEF Stacked
  <2>3. Parted(o, b, below, args, g) BY ONLY <2>1, <2>2, SegCall
  <2> QED BY ONLY <1>7, <2>3 DEF Parted
<1>11. PICK frame : frame = [start |-> Len(l), return |-> [unit |-> u, pos |-> p + 1],
                             base |-> base]
  OBVIOUS
<1>12. Skip = [unit |-> u, pos |-> p + 1]
  <2>1. pc \in Address BY DEF Running, MachineTypeOK
  <2> QED BY <1>2, <2>1 DEF Skip, Address
<1>13. /\ frames' = Append(frames, frame) /\ pc' = [unit |-> g, pos |-> 1]
       /\ locals' = l /\ operands' = q /\ status' = "running" /\ layout' = layout
  <2>1. Last(operands) = g /\ Len(operands) - 1 - Len(Args[g]) = base
    BY <1>2, <1>7, <1>8, <1>10
  <2> QED BY <1>1, <1>2, <1>7, <1>11, <1>12, <2>1 DEF vars
<1>14. Len(l) \in Nat /\ Len(q) \in Nat /\ p + 1 \in Nat BY <1>4, <1>10
<1>15. frame \in Frame /\ frames \in Seq(Frame)
  BY <1>4, <1>10, <1>11, <1>14 DEF Frame, Address, Running, MachineTypeOK
<1>16. /\ frames' \in Seq(Frame) /\ Len(frames') = n + 1 /\ DOMAIN frames' = 1..n + 1
       /\ \A i \in 1..n : frames'[i] = frames[i]
       /\ frames'[n + 1] = frame
  BY <1>3, <1>13, <1>15, AppendParts
<1>17. MachineTypeOK'
  <2>1. pc' \in Address BY <1>8, <1>13 DEF Address
  <2> QED BY <1>4, <1>10, <1>13, <1>16, <2>1 DEF MachineTypeOK, Operand, Status
<1>18. /\ Addr(n + 1)' = [unit |-> g, pos |-> 1]
       /\ VarsEnd(n + 1)' = Len(l) /\ OperandsEnd(n + 1)' = Len(q) /\ Awaits(n + 1)' = <<>>
  BY <1>13, <1>16 DEF Addr, VarsEnd, OperandsEnd, Awaits
<1>19. /\ Addr(n)' = [unit |-> u, pos |-> p + 1] /\ Addr(n) = pc
       /\ VarsEnd(n)' = Len(l) /\ OperandsEnd(n)' = base
       /\ Awaits(n)' = Operands(Result[g])
  <2>1. n # Len(frames') /\ n = Len(frames) BY <1>3, <1>4, <1>16
  <2>2. Addr(n)' = frame.return /\ VarsEnd(n)' = frame.start /\ OperandsEnd(n)' = frame.base
    BY <1>16, <2>1 DEF Addr, VarsEnd, OperandsEnd
  <2>3. Awaits(n)' = Operands(Result[g]) BY <1>18, <2>1 DEF Awaits, Operands
  <2>4. Addr(n) = pc BY <2>1 DEF Addr
  <2> QED BY <1>11, <2>2, <2>3, <2>4
<1>20. ASSUME NEW i \in 1..n - 1
       PROVE  /\ i \in DOMAIN frames /\ i + 1 \in DOMAIN frames /\ i <= n /\ i + 1 <= n
              /\ Addr(i)' = Addr(i) /\ VarsEnd(i)' = VarsEnd(i)
              /\ OperandsEnd(i)' = OperandsEnd(i)
              /\ VarsEnd(i) = frames[i + 1].start /\ OperandsEnd(i) = frames[i + 1].base
  <2>1. i \in 1..n /\ i + 1 \in 1..n /\ i # n /\ i # n + 1 BY <1>4
  <2>2. frames'[i + 1] = frames[i + 1] BY <1>16, <2>1
  <2> QED BY <1>3, <1>4, <1>16, <2>1, <2>2 DEF Addr, VarsEnd, OperandsEnd
<1>21. \A i \in 1..n : Addr(i)'.unit = Addr(i).unit
  <2>1. Addr(n)'.unit = Addr(n).unit BY <1>2, <1>19
  <2>2. \A i \in 1..n : i = n \/ i \in 1..n - 1 BY <1>4
  <2> QED BY <1>20, <2>1, <2>2
<1>22. FramesInv BY DEF Running
<1>23. FramesStack'
  <2>1. FramesStack BY <1>22 DEF FramesInv
  <2>2. 1 \in 1..n BY <1>3, <1>4
  <2>3. frames' # <<>> /\ frames'[1] = MainFrame'
    <3>1. frames' # <<>> BY <1>4, <1>16
    <3>2. frames'[1] = MainFrame BY <1>16, <2>1, <2>2 DEF FramesStack
    <3> QED BY <3>1, <3>2 DEF MainFrame
  <2>4. ASSUME NEW i \in DOMAIN frames' PROVE Addr(i)'.unit = Main <=> i = 1
    <3>1. CASE i = n + 1
      <4>1. i # 1 /\ g # Main BY <1>4, <2>2, <3>1, FuncsAssumption
      <4>2. Addr(i)'.unit = g BY <1>18, <3>1
      <4> QED BY <4>1, <4>2
    <3>2. CASE i # n + 1
      <4>1. i \in DOMAIN frames /\ Addr(i)'.unit = Addr(i).unit BY <1>4, <1>16, <1>21, <3>2
      <4> QED BY <2>1, <4>1 DEF FramesStack
    <3> QED BY <3>1, <3>2
  <2>5. ASSUME NEW i \in DOMAIN frames', NEW j \in DOMAIN frames', i <= j
        PROVE  frames'[i].start <= frames'[j].start /\ frames'[i].base <= frames'[j].base
    <3>1. CASE j # n + 1
      <4>1. i \in DOMAIN frames /\ j \in DOMAIN frames BY <1>4, <1>16, <2>5, <3>1
      <4> QED BY <1>4, <1>16, <2>1, <2>5, <4>1 DEF FramesStack
    <3>2. CASE j = n + 1 /\ i = n + 1
      BY <1>10, <1>11, <1>14, <1>16, <3>2
    <3>3. CASE j = n + 1 /\ i # n + 1
      <4>1. i \in DOMAIN frames /\ i <= n BY <1>4, <1>16, <3>3
      <4>2. frames[i].start <= s /\ frames[i].base <= b
        BY <1>3, <1>4, <2>1, <4>1 DEF FramesStack
      <4>3. frames[i].start \in Nat /\ frames[i].base \in Nat
        BY <4>1, FrameParts DEF Running
      <4>4. /\ frames'[i] = frames[i] /\ frames'[j].start = Len(l)
            /\ frames'[j].base = base
        BY <1>4, <1>11, <1>16, <3>3, <4>1
      <4>5. s <= Len(l) /\ b <= base /\ Len(l) \in Nat /\ base \in Nat /\ s \in Nat /\ b \in Nat
        BY <1>4, <1>10, <1>14
      <4> QED BY ONLY <4>2, <4>3, <4>4, <4>5
    <3> QED BY <3>1, <3>2, <3>3
  <2> QED BY <2>3, <2>4, <2>5 DEF FramesStack
<1>24. FrameFits(n + 1)'
  <2>1. 1 \in DOMAIN layout[g] /\ layout[g][1] = Entry(g)[1]
    <3>1. DOMAIN layout[g] = 1..Len(code[g]) + 1 /\ Len(code[g]) \in Nat
          /\ layout[g][1] = Entry(g)[1]
      BY <1>8, Compiled DEF Running
    <3> QED BY <3>1
  <2>2. PICK entry : entry = layout[g][1] OBVIOUS
  <2>3. entry.live /\ entry.flow = <<>> /\ entry.operands = args
    <3>1. g # Main BY FuncsAssumption
    <3> QED BY <1>7, <2>1, <2>2, <3>1 DEF Entry
  <2>4. Packed(entry.flow) /\ Holds(l, entry.flow, Len(l), Len(l))
    BY <1>14, <2>3, HoldsNone
  <2>5. SubSeq(q, base + 1, Len(q)) \o <<>> = entry.operands
    <3>1. \A c \in Seq(Operand) : c \o <<>> = c OBVIOUS
    <3> QED BY <1>8, <1>10, <2>3, <3>1
  <2>6. Fits(entry, l, q, Len(l), Len(l), base, Len(q), <<>>)
    BY <1>10, <1>14, <2>3, <2>4, <2>5 DEF Fits
  <2>7. Addr(n + 1)'.unit = g /\ Addr(n + 1)'.pos = 1
        /\ frames'[n + 1].start = Len(l) /\ frames'[n + 1].base = base
    BY <1>11, <1>16, <1>18
  <2> QED BY <1>13, <1>18, <2>1, <2>2, <2>6, <2>7 DEF FrameFits
<1>25. FrameFits(n)'
  <2>1. p + 1 \in DOMAIN layout[u] BY <1>1, <1>2, Fetched
  <2>2. SubSeq(q, b + 1, base) \o Operands(Result[g]) = after.operands
    BY <1>6, <1>10
  <2>3. Fits(after, l, q, s, Len(l), b, base, Operands(Result[g]))
    <3>1. after.live /\ Packed(after.flow) /\ Holds(l, after.flow, s, Len(l))
      BY <1>4, <1>6
    <3>2. Len(l) <= Len(l) /\ b <= base /\ base <= Len(q) BY <1>10, <1>14
    <3> QED BY ONLY <2>2, <3>1, <3>2 DEF Fits
  <2>4. Addr(n)'.unit = u /\ Addr(n)'.pos = p + 1
        /\ frames'[n].start = s /\ frames'[n].base = b
    BY <1>3, <1>4, <1>16, <1>19
  <2> QED BY <1>2, <1>13, <1>19, <2>1, <2>3, <2>4 DEF FrameFits
<1>26. ASSUME NEW i \in 1..n - 1 PROVE FrameFits(i)'
  <2>1. Awaits(i)' = Awaits(i)
    <3>1. PICK j \in 1..n : j = i + 1 BY <1>4, <1>20
    <3>2. Addr(j)'.unit = Addr(j).unit BY <1>21
    <3>3. Addr(i + 1)'.unit = Addr(i + 1).unit BY <3>1, <3>2
    <3>4. i # Len(frames) /\ i # Len(frames') BY <1>3, <1>4, <1>16
    <3> QED BY <3>3, <3>4 DEF Awaits, Operands
  <2>2. VarsEnd(i) <= s /\ OperandsEnd(i) <= b
    BY <1>3, <1>4, <1>20, <1>22 DEF FramesInv, FramesStack
  <2>3. i \in DOMAIN frames BY <1>20
  <2>4. VarsEnd(i) \in Nat /\ OperandsEnd(i) \in Nat BY <2>3, FrameParts DEF Running
  <2>5. /\ VarsEnd(i) <= Len(l) /\ OperandsEnd(i) <= Len(q)
        /\ \A k \in 1..OperandsEnd(i) : q[k] = o[k]
    BY <1>4, <1>10, <1>14, <2>2, <2>4
  <2>6. FrameFits(i) /\ frames'[i] = frames[i] /\ TypeInv /\ MachineTypeOK
    BY <1>4, <1>16, <1>22, <2>3 DEF FramesInv, Running
  <2> QED BY <1>2, <1>4, <1>10, <1>13, <1>20, <2>1, <2>3, <2>5, <2>6, FrameKept
<1>27. \A i \in DOMAIN frames' : i = n + 1 \/ i = n \/ i \in 1..n - 1
  BY <1>4, <1>16
<1>28. \A i \in DOMAIN frames' : FrameFits(i)' BY <1>24, <1>25, <1>26, <1>27
<1> QED BY <1>13, <1>17, <1>23, <1>28 DEF Goes, FramesInv

(* A function that returns has left none of its variables, and its result. *)
LEMMA ReturnFinds ==
  ASSUME Running, VisitReturnCmd
  PROVE  /\ Len(frames) > 1 /\ Len(locals) = Last(frames).start
         /\ SubSeq(operands, Last(frames).base + 1, Len(operands)) =
              Operands(Result[pc.unit])
<1>1. HasCmd /\ CurrentCmd.op = "Return" BY DEF VisitReturnCmd, IsAt
<1>2. PICK before, after, cmd, l, s :
        /\ before = layout[pc.unit][pc.pos] /\ after = layout[pc.unit][pc.pos + 1]
        /\ cmd = CurrentCmd /\ l = locals /\ s = Last(frames).start
  OBVIOUS
<1>3. Executes(pc.unit, pc.pos, cmd, before, after) BY <1>1, <1>2, Fetched
<1>4. pc.unit # Main /\ before.flow = <<>>
      /\ before.operands = Operands(Result[pc.unit])
  <2>1. cmd.op = "Return" BY <1>1, <1>2
  <2> QED BY ONLY <1>3, <2>1 DEF Executes
<1>5. /\ Holds(l, before.flow, s, Len(l)) /\ s \in Nat
      /\ Len(frames) \in Nat /\ Len(frames) \in DOMAIN frames
      /\ DOMAIN frames = 1..Len(frames) /\ Len(frames) # 1
  BY <1>2, <1>4, Current
<1>6. Len(l) = s BY <1>4, <1>5, HoldsNone
<1>7. Len(frames) > 1 BY <1>5
<1>8. SubSeq(operands, Last(frames).base + 1, Len(operands)) = before.operands
  BY <1>2, Current
<1> QED BY <1>2, <1>4, <1>6, <1>7, <1>8

(* A return goes on in the frame below. *)
LEMMA ReturnGoes ==
  ASSUME Running, UNCHANGED vars, VisitReturnCmd
  PROVE  Goes
<1>1. /\ UNCHANGED <<status, locals, operands>> /\ status = "running"
      /\ pc' = Last(frames).return /\ frames' = Front(frames)
  BY DEF VisitReturnCmd, IsAt, HasCmd
<1>2. PICK l, o, s, b : /\ l = locals /\ o = operands /\ s = Last(frames).start
                        /\ b = Last(frames).base
  OBVIOUS
<1>3. PICK n \in DOMAIN frames : n = Len(frames) BY Current
<1>4. /\ l \in Seq(Slot) /\ o \in Seq(Operand) /\ b \in Nat /\ n \in Nat /\ s \in Nat
      /\ b <= Len(o) /\ frames[n].base = b /\ frames[n].start = s /\ DOMAIN frames = 1..n
      /\ frames \in Seq(Frame) /\ Last(frames) = frames[n]
  BY <1>2, <1>3, Current DEF Running, MachineTypeOK, Operand
<1>5. /\ n > 1 /\ Len(l) = s
      /\ SubSeq(o, b + 1, Len(o)) = Operands(Result[pc.unit])
  BY <1>2, <1>3, ReturnFinds
<1>6. PICK m : m = n - 1 OBVIOUS
<1>7. m \in DOMAIN frames /\ m \in Nat /\ n = m + 1 /\ n # m /\ m # 0 BY <1>4, <1>5, <1>6
<1>8. /\ frames' \in Seq(Frame) /\ Len(frames') = m /\ DOMAIN frames' = 1..m
      /\ \A i \in 1..m : frames'[i] = frames[i]
  <2>1. frames # <<>> BY <1>3, <1>4
  <2>2. /\ Front(frames) \in Seq(Frame) /\ Len(Front(frames)) = n - 1
        /\ \A k \in 1..n - 1 : Front(frames)[k] = frames[k]
    BY <1>3, <1>4, <2>1, FrontParts
  <2> QED BY <1>1, <1>6, <2>2
<1>9. /\ locals' = l /\ operands' = o /\ status' = "running" /\ layout' = layout
      /\ pc' = frames[n].return
  BY <1>1, <1>2, <1>4 DEF vars
<1>10. Addr(m) = frames[n].return /\ VarsEnd(m) = s /\ OperandsEnd(m) = b
       /\ Awaits(m) = Operands(Result[pc.unit])
  <2>1. m # Len(frames) BY <1>3, <1>7
  <2>2. Addr(n) = pc BY <1>3 DEF Addr
  <2>3. Addr(m) = frames[m + 1].return /\ VarsEnd(m) = frames[m + 1].start
        /\ OperandsEnd(m) = frames[m + 1].base
        /\ Awaits(m) = Operands(Result[Addr(m + 1).unit])
    BY <2>1 DEF Addr, VarsEnd, OperandsEnd, Awaits
  <2> QED BY <1>4, <1>7, <2>2, <2>3
<1>11. /\ Addr(m)' = Addr(m) /\ VarsEnd(m)' = s /\ OperandsEnd(m)' = Len(o)
       /\ Awaits(m)' = <<>>
  <2>1. m = Len(frames') BY <1>8
  <2>2. Addr(m)' = pc' /\ VarsEnd(m)' = Len(locals') /\ OperandsEnd(m)' = Len(operands')
        /\ Awaits(m)' = <<>>
    BY <2>1 DEF Addr, VarsEnd, OperandsEnd, Awaits
  <2> QED BY <1>5, <1>9, <1>10, <2>2
<1>12. ASSUME NEW i \in 1..m - 1
       PROVE  /\ i \in DOMAIN frames /\ i + 1 \in DOMAIN frames /\ i <= n /\ i + 1 <= n
              /\ Addr(i)' = Addr(i) /\ VarsEnd(i)' = VarsEnd(i)
              /\ OperandsEnd(i)' = OperandsEnd(i)
              /\ VarsEnd(i) = frames[i + 1].start /\ OperandsEnd(i) = frames[i + 1].base
  <2>1. i \in 1..m /\ i + 1 \in 1..m /\ i # n /\ i # m /\ i \in 1..n /\ i + 1 \in 1..n
    BY <1>7
  <2>2. frames'[i + 1] = frames[i + 1] BY <1>8, <2>1
  <2> QED BY <1>3, <1>4, <1>8, <2>1, <2>2 DEF Addr, VarsEnd, OperandsEnd
<1>13. \A i \in 1..m : Addr(i)'.unit = Addr(i).unit
  <2>1. \A i \in 1..m : i = m \/ i \in 1..m - 1 BY <1>7
  <2> QED BY <1>11, <1>12, <2>1
<1>14. FramesInv BY DEF Running
<1>15. MachineTypeOK'
  <2>1. Addr(m) \in Address BY <1>7, FrameParts DEF Running
  <2> QED BY <1>4, <1>8, <1>9, <1>10, <2>1 DEF MachineTypeOK, Operand, Status
<1>16. FramesStack'
  <2>1. FramesStack BY <1>14 DEF FramesInv
  <2>2. \A i \in 1..m : i \in DOMAIN frames BY <1>4, <1>7
  <2>3. frames' # <<>> /\ frames'[1] = MainFrame'
    <3>1. 1 \in 1..m BY <1>7
    <3>2. frames' # <<>> BY <1>7, <1>8
    <3>3. frames'[1] = MainFrame BY <1>8, <2>1, <3>1 DEF FramesStack
    <3> QED BY <3>2, <3>3 DEF MainFrame
  <2>4. \A i \in DOMAIN frames' : Addr(i)'.unit = Main <=> i = 1
    BY <1>8, <1>13, <2>1, <2>2 DEF FramesStack
  <2>5. \A i, j \in DOMAIN frames' :
          i <= j => frames'[i].start <= frames'[j].start /\ frames'[i].base <= frames'[j].base
    BY <1>8, <2>1, <2>2 DEF FramesStack
  <2> QED BY <2>3, <2>4, <2>5 DEF FramesStack
<1>17. FrameFits(m)'
  <2>1. PICK u, p, start, base, awaited :
          /\ u = Addr(m).unit /\ p = Addr(m).pos /\ awaited = Awaits(m)
          /\ start = frames[m].start /\ base = frames[m].base
    OBVIOUS
  <2>2. PICK expected : expected = layout[u][p] OBVIOUS
  <2>3. /\ p \in DOMAIN layout[u]
        /\ Fits(expected, l, o, start, s, base, b, awaited)
    <3>1. FrameFits(m) BY <1>7, <1>14 DEF FramesInv
    <3> QED BY <1>2, <1>10, <2>1, <2>2, <3>1 DEF FrameFits
  <2>4. SubSeq(o, base + 1, Len(o)) \o <<>> = expected.operands
    <3>1. base \in Nat /\ Len(o) \in Nat BY <1>4, <1>7, <2>1, FrameParts DEF Running
    <3>2. base <= b /\ SubSeq(o, base + 1, b) \o awaited = expected.operands
      BY <2>3 DEF Fits
    <3>3. SubSeq(o, base + 1, Len(o)) = SubSeq(o, base + 1, b) \o SubSeq(o, b + 1, Len(o))
      BY ONLY <1>4, <3>1, <3>2, SegJoin
    <3>4. awaited = SubSeq(o, b + 1, Len(o)) BY <1>5, <1>10, <2>1
    <3>5. SubSeq(o, base + 1, Len(o)) = expected.operands
      BY ONLY <3>2, <3>3, <3>4
    <3>6. SubSeq(o, base + 1, Len(o)) \in Seq(Operand)
      <4>1. base <= Len(o) BY <1>4, <3>1, <3>2
      <4> QED BY ONLY <1>4, <3>1, <4>1, SegParts
    <3>7. \A c \in Seq(Operand) : c \o <<>> = c OBVIOUS
    <3> QED BY ONLY <3>5, <3>6, <3>7
  <2>5. base <= Len(o) /\ Len(o) <= Len(o)
    <3>1. base \in Nat /\ Len(o) \in Nat BY <1>4, <1>7, <2>1, FrameParts DEF Running
    <3>2. base <= b BY <2>3 DEF Fits
    <3> QED BY <1>4, <3>1, <3>2
  <2>6. Fits(expected, l, o, start, s, base, Len(o), <<>>)
    BY ONLY <2>3, <2>4, <2>5 DEF Fits
  <2>7. Addr(m)'.unit = u /\ Addr(m)'.pos = p /\ frames'[m].start = start
        /\ frames'[m].base = base
    <3>1. m \in 1..m BY <1>7
    <3> QED BY <1>8, <1>11, <2>1, <3>1
  <2> QED BY <1>9, <1>11, <2>2, <2>3, <2>6, <2>7 DEF FrameFits
<1>18. ASSUME NEW i \in 1..m - 1 PROVE FrameFits(i)'
  <2>1. Awaits(i)' = Awaits(i)
    <3>1. PICK j \in 1..m : j = i + 1 BY <1>7
    <3>2. Addr(j)'.unit = Addr(j).unit BY <1>13
    <3>3. Addr(i + 1)'.unit = Addr(i + 1).unit BY <3>1, <3>2
    <3>4. i # Len(frames) /\ i # Len(frames') BY <1>3, <1>7, <1>8
    <3> QED BY <3>3, <3>4 DEF Awaits, Operands
  <2>2. VarsEnd(i) <= s /\ OperandsEnd(i) <= b
    BY <1>3, <1>4, <1>12, <1>14 DEF FramesInv, FramesStack
  <2>3. i \in DOMAIN frames BY <1>12
  <2>4. VarsEnd(i) \in Nat /\ OperandsEnd(i) \in Nat BY <2>3, FrameParts DEF Running
  <2>5. VarsEnd(i) <= Len(l) /\ OperandsEnd(i) <= Len(o)
    <3>1. Len(o) \in Nat BY <1>4
    <3> QED BY <1>4, <1>5, <2>2, <2>4, <3>1
  <2>6. FrameFits(i) /\ frames'[i] = frames[i] /\ TypeInv /\ MachineTypeOK
    <3>1. i \in 1..m BY <1>7
    <3> QED BY <1>8, <1>14, <2>3, <3>1 DEF FramesInv, Running
  <2> QED BY <1>1, <1>2, <1>4, <1>9, <1>12, <2>1, <2>3, <2>5, <2>6, FrameKept
<1>19. \A i \in DOMAIN frames' : i = m \/ i \in 1..m - 1 BY <1>7, <1>8
<1>20. \A i \in DOMAIN frames' : FrameFits(i)' BY <1>17, <1>18, <1>19
<1> QED BY <1>9, <1>15, <1>16, <1>20 DEF Goes, FramesInv

-----------------------------------------------------------------------------
(* From the first command to the last                                      *)

(* Main code starts with nothing. *)
LEMMA ExecuteGoes ==
  ASSUME TypeInv, JumpsInv, LayoutInv, MachineInv, UNCHANGED vars, Execute
  PROVE  MachineTypeOK' /\ FramesInv' /\ status' = "running" /\ phase = "compiled"
<1>1. /\ phase = "compiled" /\ status' = "running" /\ frames' = <<MainFrame>>
      /\ pc' = [unit |-> Main, pos |-> 1] /\ locals' = <<>> /\ operands' = <<>>
      /\ layout' = layout
  BY DEF Execute, MachineInv, vars
<1>2. /\ Len(frames') = 1 /\ DOMAIN frames' = 1..1 /\ frames'[1] = MainFrame
      /\ frames' # <<>> /\ Main \in Unit
  BY <1>1 DEF Unit
<1>3. MainFrame \in Frame /\ pc' \in Address /\ MainFrame.start = 0 /\ MainFrame.base = 0
  BY <1>1, <1>2 DEF MainFrame, Frame, Address
<1>4. MachineTypeOK'
  <2>1. frames' \in Seq(Frame) BY <1>1, <1>3
  <2> QED BY <1>1, <1>3, <2>1 DEF MachineTypeOK, Status
<1>5. \A i \in DOMAIN frames' : i = 1 BY <1>2
<1>6. /\ Addr(1)' = pc' /\ VarsEnd(1)' = 0 /\ OperandsEnd(1)' = 0 /\ Awaits(1)' = <<>>
  BY <1>1, <1>2 DEF Addr, VarsEnd, OperandsEnd, Awaits
<1>7. FramesStack'
  <2>1. frames'[1] = MainFrame' BY <1>2 DEF MainFrame
  <2>2. \A i \in DOMAIN frames' : Addr(i)'.unit = Main <=> i = 1 BY <1>1, <1>5, <1>6
  <2>3. \A i, j \in DOMAIN frames' :
          frames'[i].start <= frames'[j].start /\ frames'[i].base <= frames'[j].base
    BY <1>2, <1>3, <1>5
  <2> QED BY <1>2, <2>1, <2>2, <2>3 DEF FramesStack
<1>8. FrameFits(1)'
  <2>1. PICK entry : entry = layout[Main][1] OBVIOUS
  <2>2. /\ DOMAIN layout[Main] = 1..Len(code[Main]) + 1 /\ Len(code[Main]) \in Nat
        /\ entry = Entry(Main)[1]
    BY <1>1, <1>2, <2>1, Compiled
  <2>3. entry.live /\ entry.flow = <<>> /\ entry.operands = <<>> BY <2>2 DEF Entry
  <2>4. Packed(entry.flow) /\ Holds(<<>>, entry.flow, 0, 0) BY <2>3, HoldsNone
  <2>5. SubSeq(<<>>, 0 + 1, 0) \o <<>> = entry.operands BY <2>3
  <2>6. Len(<<>>) = 0 OBVIOUS
  <2>7. Fits(entry, <<>>, <<>>, 0, 0, 0, 0, <<>>) BY <2>3, <2>4, <2>5, <2>6 DEF Fits
  <2>8. Addr(1)'.unit = Main /\ Addr(1)'.pos = 1 /\ 1 \in DOMAIN layout[Main]
    BY <1>1, <1>6, <2>2
  <2> QED BY <1>1, <1>2, <1>3, <1>6, <2>1, <2>7, <2>8 DEF FrameFits
<1> QED BY <1>1, <1>4, <1>5, <1>7, <1>8 DEF FramesInv

(* Main code ends with nothing. *)
LEMMA ExitFinds ==
  ASSUME Running, AtExit
  PROVE  locals = <<>> /\ operands = <<>> /\ Len(frames) = 1
<1>1. /\ pc.unit = Main /\ pc.pos = Len(code[Main]) + 1 /\ Len(frames) = 1
  BY DEF AtExit
<1>2. PICK l, o, e : l = locals /\ o = operands /\ e = layout[pc.unit][pc.pos] OBVIOUS
<1>3. e = End(Main) BY <1>1, <1>2 DEF End
<1>4. e.flow = <<>> /\ e.operands = <<>> BY <1>3, Compiled DEF Running
<1>5. Last(frames) = MainFrame BY <1>1 DEF Last, Running, FramesInv, FramesStack
<1>6. Last(frames).start = 0 /\ Last(frames).base = 0 BY <1>5 DEF MainFrame
<1>7. /\ Holds(l, e.flow, 0, Len(l)) /\ SubSeq(o, 0 + 1, Len(o)) = e.operands
  BY <1>2, <1>6, Current
<1>8. l \in Seq(Slot) /\ o \in Seq(Operand)
  BY <1>2 DEF Running, MachineTypeOK, Operand
<1>9. Len(l) = 0 BY <1>4, <1>7, HoldsNone
<1>10. Len(o) = 0
  <2>1. 0 <= Len(o) /\ Len(o) \in Nat BY <1>8
  <2>2. Len(SubSeq(o, 0 + 1, Len(o))) = Len(o) - 0 BY <1>8, <2>1, SegParts
  <2>3. Len(<<>>) = 0 OBVIOUS
  <2> QED BY ONLY <1>4, <1>7, <2>1, <2>2, <2>3
<1> QED BY <1>1, <1>2, <1>8, <1>9, <1>10

(* The compiler is at work only while it compiles. *)
LEMMA NextCompiles == Next => phase = "compiling"
BY DEF Next, VisitVarDefWithoutInit, VisitVarDefWithInit, VisitVarDefWithSelfInit,
       VisitExprStmt, VisitPreTestLoop, EndPreTestLoop, VisitBreak, VisitContinue,
       VisitIf, EndIfBody, VisitElse, EndBranches, VisitFuncDef, VisitArgDef,
       EndFuncDef, VisitReturnValue, VisitReturnWithoutValue, EndProgram,
       CanVisit, CanNest, CanEnd

(* Every command keeps what is true while the machine runs. *)
LEMMA CommandGoes ==
  ASSUME TypeInv, JumpsInv, LayoutInv, MachineInv, UNCHANGED vars,
         MachineNext, ~Execute, ~Exit
  PROVE  Running /\ Goes
<1>1. status = "running"
  BY DEF MachineNext, VisitLoadValueCmd, VisitLoadFuncValueCmd,
         VisitLoadLocalVarValueCmd, VisitCreateLocalVarCmd,
         VisitCreateAndInitLocalVarCmd, VisitDestroyLocalVarCmd, VisitUnloadCmd,
         VisitSumCmd, VisitDirectJumpCmd, VisitJumpIfNotCmd, VisitCallCmd,
         VisitReturnCmd, IsAt, HasCmd
<1>2. Running BY <1>1 DEF Running, MachineInv
<1>3. Goes
  BY <1>2, LoadsGo, CreatesGo, DestroyGoes, PopsGo, JumpGoes, CallGoes, ReturnGoes
     DEF MachineNext
<1> QED BY <1>2, <1>3

(* Every step keeps the invariant. *)
LEMMA RunKeepsMachine ==
  ASSUME TypeInv, JumpsInv, LayoutInv, MachineInv, RunNext \/ UNCHANGED all_vars
  PROVE  MachineInv'
<1>1. CASE Next /\ UNCHANGED machine_vars
  <2>1. status = "idle" BY <1>1, NextCompiles DEF MachineInv
  <2> QED BY <1>1, <2>1 DEF MachineInv, MachineTypeOK, ExitsClean, machine_vars
<1>2. CASE Halted \/ UNCHANGED all_vars
  <2>1. UNCHANGED vars /\ UNCHANGED machine_vars BY <1>2 DEF Halted, all_vars
  <2>2. status' = status /\ phase' = phase /\ pc' = pc /\ locals' = locals
        /\ operands' = operands /\ frames' = frames /\ layout' = layout
    BY <2>1 DEF vars, machine_vars
  <2>3. FramesInv' <=> FramesInv
    BY <2>2 DEF FramesInv, FramesStack, FrameFits, Addr, VarsEnd, OperandsEnd, Awaits,
                MainFrame, Fits, Operands, Packed, Holds
  <2>4. MachineTypeOK' BY <2>2 DEF MachineInv, MachineTypeOK
  <2> QED BY <2>2, <2>3, <2>4 DEF MachineInv, ExitsClean
<1>3. CASE MachineNext /\ UNCHANGED vars
  <2>1. phase' = phase BY <1>3 DEF vars
  <2>2. CASE Execute
    <3>1. MachineTypeOK' /\ FramesInv' /\ status' = "running" /\ phase = "compiled"
      BY <1>3, <2>2, ExecuteGoes
    <3> QED BY <2>1, <3>1 DEF MachineInv, ExitsClean
  <2>3. CASE Exit
    <3>1. status' = "exited" /\ UNCHANGED <<pc, locals, operands, frames>>
          /\ status = "running" /\ AtExit
      BY <2>3 DEF Exit, AtExit
    <3>2. Running BY <3>1 DEF MachineInv, Running
    <3>3. locals = <<>> /\ operands = <<>> /\ Len(frames) = 1
      BY <3>1, <3>2, ExitFinds
    <3>4. MachineTypeOK' BY <3>1, <3>2 DEF Running, MachineTypeOK, Status
    <3> QED BY <2>1, <3>1, <3>2, <3>3, <3>4 DEF MachineInv, ExitsClean, Running
  <2>4. CASE ~Execute /\ ~Exit
    <3>1. Running /\ Goes BY <1>3, <2>4, CommandGoes
    <3> QED BY <2>1, <3>1 DEF Goes, Running, MachineInv, ExitsClean
  <2> QED BY <2>2, <2>3, <2>4
<1> QED BY <1>1, <1>2, <1>3 DEF RunNext

(* The machine begins. *)
LEMMA InitMachine == MachineInit => MachineInv
<1> SUFFICES ASSUME MachineInit PROVE MachineInv OBVIOUS
<1>1. Main \in Unit BY DEF Unit
<1>2. MachineTypeOK
  BY <1>1 DEF MachineInit, MachineTypeOK, Status, Address
<1> QED BY <1>2 DEF MachineInit, MachineInv, ExitsClean

(* The invariant of compiler and machine together. *)
RunInv == TypeInv /\ JumpsInv /\ LayoutInv /\ MachineInv

LEMMA RunKeeps ==
  /\ RunInit => RunInv
  /\ RunInv /\ [RunNext]_all_vars => RunInv'
<1>1. RunInit => RunInv
  BY InitTypes, InitJumps, InitLayout, InitMachine DEF RunInit, RunInv
<1>2. ASSUME RunInv, [RunNext]_all_vars PROVE RunInv'
  <2>1. Next \/ UNCHANGED vars BY <1>2 DEF RunNext, Halted, all_vars
  <2>2. TypeInv' /\ JumpsInv' /\ LayoutInv'
    BY <1>2, <2>1, NextKeepsTypes, NextKeepsJumps, NextKeepsLayout DEF RunInv
  <2>3. MachineInv' BY <1>2, RunKeepsMachine DEF RunInv
  <2> QED BY <2>2, <2>3 DEF RunInv
<1> QED BY <1>1, <1>2

-----------------------------------------------------------------------------
(* Theorems                                                                *)

(* Whatever the capacities of its storage: the machine's registers, slots, *)
(* operands and frames stay well-formed, and an address is always one of a *)
(* unit.                                                                   *)
THEOREM MachineTypeCorrect == RunSpec => []MachineTypeOK
<1>1. RunInv => MachineTypeOK BY DEF RunInv, MachineInv
<1> QED BY <1>1, RunKeeps, PTL DEF RunSpec

(* Whatever program was compiled: when main code has run, every variable   *)
(* was destroyed, every operand unloaded, and every function returned.     *)
THEOREM ExitsCorrect == RunSpec => []ExitsClean
<1>1. RunInv => ExitsClean BY DEF RunInv, MachineInv
<1> QED BY <1>1, RunKeeps, PTL DEF RunSpec

(* A machine that runs has frames as the layout says. *)
LEMMA RunInvRuns ==
  /\ RunInv /\ status = "running" => Running
  /\ RunInv /\ HasCmd => Running
BY DEF RunInv, MachineInv, Running, HasCmd

(* Every frame of a running machine is as the compiler noted. *)
LEMMA RunningMatches ==
  ASSUME Running
  PROVE  /\ CurrentFrameMatchesLayout
         /\ \A i \in 1..Len(frames) - 1 : CallerFrameMatchesLayout(i)
<1>1. CurrentFrameMatchesLayout
  <2>1. frames # <<>> BY DEF Running, FramesInv, FramesStack
  <2> QED BY Zenon, <2>1, Current DEF CurrentFrameMatchesLayout, HoldsVars, Holds
<1>2. ASSUME NEW i \in 1..Len(frames) - 1 PROVE CallerFrameMatchesLayout(i)
  <2>1. i \in DOMAIN frames /\ i # Len(frames)
    <3>1. PICK n : n = Len(frames) OBVIOUS
    <3>2. n \in Nat /\ DOMAIN frames = 1..n BY <3>1, Current
    <3>3. i \in 1..n - 1 BY <3>1
    <3>4. i \in 1..n /\ i # n BY ONLY <3>2, <3>3
    <3> QED BY ONLY <3>1, <3>2, <3>4
  <2>2. FrameFits(i) BY <2>1 DEF Running, FramesInv
  <2>3. /\ Addr(i) = frames[i + 1].return /\ VarsEnd(i) = frames[i + 1].start
        /\ OperandsEnd(i) = frames[i + 1].base
        /\ Awaits(i) = Operands(Result[UnitOf(i + 1)])
    BY <2>1 DEF Addr, VarsEnd, OperandsEnd, Awaits, UnitOf
  <2> DEFINE return == frames[i + 1].return
             expected == layout[return.unit][return.pos]
             awaited == Operands(Result[UnitOf(i + 1)])
  <2>4. /\ return.pos \in DOMAIN layout[return.unit]
        /\ Fits(expected, locals, operands, frames[i].start, frames[i + 1].start,
                frames[i].base, frames[i + 1].base, awaited)
    BY ONLY <2>2, <2>3 DEF FrameFits
  <2>5. /\ expected.live
        /\ Holds(locals, expected.flow, frames[i].start, frames[i + 1].start)
        /\ SubSeq(operands, frames[i].base + 1, frames[i + 1].base) \o awaited =
             expected.operands
    BY ONLY Zenon, <2>4 DEF Fits
  <2>6. HoldsVars(expected.flow, frames[i].start, frames[i + 1].start)
    BY ONLY Zenon, <2>5 DEF Holds, HoldsVars
  <2> QED BY ONLY Zenon, <2>4, <2>5, <2>6 DEF CallerFrameMatchesLayout
<1> QED BY <1>1, <1>2

(* Whatever program was compiled and however deep it calls: the storage of *)
(* the machine, which knows nothing of variables, holds in every frame and *)
(* at every command exactly the variables and operands that the compiler   *)
(* assumed where it generated that command.                                *)
THEOREM FramesCorrect == RunSpec => []FramesMatchLayout
<1>1. RunInv => FramesMatchLayout
  BY RunInvRuns, RunningMatches DEF FramesMatchLayout
<1> QED BY <1>1, RunKeeps, PTL DEF RunSpec

(* A running machine reads the variable that the command was compiled for. *)
LEMMA RunningReads == ASSUME Running PROVE ReadsTheVariable
<1> SUFFICES ASSUME IsAt("LoadLocalVarValue"), CurrentCmd.def <= pc.pos
             PROVE  LET from == LocalVarIndex(CurrentCmd) IN
                    /\ from + Size[CurrentCmd.type] <= Len(locals)
                    /\ \A k \in 1..Size[CurrentCmd.type] :
                         locals[from + k] =
                           [at |-> CurrentCmd.def, type |-> CurrentCmd.type, part |-> k]
  BY DEF ReadsTheVariable
<1> DEFINE f == layout[pc.unit][pc.pos].flow
           start == Last(frames).start
<1>1. HasCmd /\ CurrentCmd.op = "LoadLocalVarValue" BY DEF IsAt
<1>2. Executes(pc.unit, pc.pos, CurrentCmd, layout[pc.unit][pc.pos],
               layout[pc.unit][pc.pos + 1])
      /\ CurrentCmd \in Cmd /\ pc.pos \in Nat
  BY <1>1, Fetched, Current
<1>3. CurrentCmd.def > pc.pos
      \/ [at |-> CurrentCmd.def, type |-> CurrentCmd.type, index |-> CurrentCmd.index]
           \in ToSet(f)
  BY <1>1, <1>2 DEF Executes
<1>4. CurrentCmd.def \in Nat
  <2>1. PICK cmd : cmd = CurrentCmd OBVIOUS
  <2>2. cmd \in Cmd /\ cmd.op = "LoadLocalVarValue" BY <1>1, <1>2, <2>1
  <2>3. cmd.def \in Nat BY ONLY <2>2 DEF Cmd, TypedOp, JumpOp
  <2> QED BY <2>1, <2>3
<1>5. [at |-> CurrentCmd.def, type |-> CurrentCmd.type, index |-> CurrentCmd.index]
        \in ToSet(f)
  BY <1>2, <1>3, <1>4
<1>6. PICK i \in DOMAIN f :
        f[i] = [at |-> CurrentCmd.def, type |-> CurrentCmd.type, index |-> CurrentCmd.index]
  BY <1>5 DEF ToSet
<1>7. f[i].at = CurrentCmd.def /\ f[i].type = CurrentCmd.type
      /\ f[i].index = CurrentCmd.index
  BY <1>6
<1>8. /\ f \in Seq(Def) /\ Packed(f) /\ Holds(locals, f, start, Len(locals))
      /\ start \in Nat
  BY Current DEF Layout
<1> HIDE DEF f
<1>9. f[i].index + Size[f[i].type] <= SlotsCount(f) BY <1>8, PackedEnds
<1>10. Len(locals) = start + SlotsCount(f) BY <1>8 DEF Holds
<1>11. /\ f[i].index \in Nat /\ Size[f[i].type] \in 1..2 /\ SlotsCount(f) \in Nat
  BY <1>8, DefParts, SlotsTypes
<1>12. \A k \in 1..Size[f[i].type] :
         locals[start + f[i].index + k] = [at |-> f[i].at, type |-> f[i].type, part |-> k]
  BY <1>8 DEF Holds
<1> HIDE DEF start
<1>13. LocalVarIndex(CurrentCmd) = start + f[i].index
  BY <1>7 DEF LocalVarIndex, start
<1>14. start + f[i].index + Size[f[i].type] <= Len(locals)
  <2>1. PICK b, x, y, z : b = start /\ x = f[i].index /\ y = Size[f[i].type] /\ z = SlotsCount(f)
    OBVIOUS
  <2>2. /\ b \in Nat /\ x \in Nat /\ y \in 1..2 /\ z \in Nat
        /\ x + y <= z /\ Len(locals) = b + z
    BY Zenon, <1>8, <1>9, <1>10, <1>11, <2>1
  <2>3. b + x + y <= Len(locals) BY ONLY <2>2
  <2> QED BY Zenon, <2>1, <2>3
<1> QED BY <1>7, <1>12, <1>13, <1>14

(* Whatever program was compiled and however deep it calls: a variable of  *)
(* a frame that is read by its index is the one the source names, with all *)
(* its slots, unless it is read in its own initializer.                    *)
THEOREM ReadsCorrect == RunSpec => []ReadsTheVariable
<1>1. RunInv => ReadsTheVariable
  BY RunInvRuns, RunningReads DEF ReadsTheVariable, IsAt
<1> QED BY <1>1, RunKeeps, PTL DEF RunSpec

(* What a return does. *)
Restores ==
  LET callee == Last(frames) IN
  /\ Len(locals) = callee.start
  /\ operands' = Prefix(operands, callee.base) \o Operands(Result[pc.unit])

(* A running function returns to its caller as it was. *)
LEMMA RunningReturns == ASSUME Running, VisitReturnCmd PROVE Restores
<1>1. PICK o, b, n : o = operands /\ b = Last(frames).base /\ n = Len(operands) OBVIOUS
<1>2. o \in Seq(Operand) /\ b \in Nat /\ b <= n /\ n = Len(o) /\ n \in Nat
  BY <1>1, Current DEF Running, MachineTypeOK, Operand
<1>3. SubSeq(o, b + 1, n) = Operands(Result[pc.unit]) /\ Len(locals) = Last(frames).start
  BY <1>1, ReturnFinds
<1>4. o = SubSeq(o, 1, b) \o SubSeq(o, b + 1, n)
  <2>1. SubSeq(o, 0 + 1, n) = SubSeq(o, 0 + 1, b) \o SubSeq(o, b + 1, n)
    <3>1. 0 <= b /\ b <= Len(o) /\ 0 \in Nat BY <1>2
    <3> QED BY <1>2, <3>1, SegJoin
  <2>2. SubSeq(o, 0 + 1, n) = o BY <1>2
  <2>3. 0 + 1 = 1 OBVIOUS
  <2> QED BY ONLY <2>1, <2>2, <2>3
<1>5. operands' = o BY <1>1 DEF VisitReturnCmd
<1>6. Prefix(operands, Last(frames).base) = SubSeq(o, 1, b) BY <1>1 DEF Prefix
<1>7. operands' = Prefix(operands, Last(frames).base) \o Operands(Result[pc.unit])
  BY ONLY <1>3, <1>4, <1>5, <1>6
<1> QED BY <1>3, <1>7 DEF Restores

(* Whatever function is called, from wherever and through however many     *)
(* nested bodies it returns: its caller's variables are all that is left   *)
(* of the storage, and the caller's operands have just the result on top.  *)
THEOREM ReturnsCorrect == RunSpec => ReturnRestoresCaller
<1>1. RunInv /\ [RunNext]_all_vars => [VisitReturnCmd => Restores]_all_vars
  <2>1. VisitReturnCmd => HasCmd BY DEF VisitReturnCmd, IsAt
  <2> QED BY <2>1, RunInvRuns, RunningReturns
<1>2. RunSpec => [][VisitReturnCmd => Restores]_all_vars
  BY <1>1, RunKeeps, PTL DEF RunSpec
<1> QED BY <1>2 DEF ReturnRestoresCaller, Restores

-----------------------------------------------------------------------------
(* The machine is never without a command or the operands it needs, and    *)
(* only a variable read in its own initializer makes it abort.             *)

(* A function whose value is loaded may be called already. *)
KnownCmd(cmd) == cmd.op = "LoadFuncValue" => cmd.func \in Callable

(* No function is called before its definition. *)
CallsKnown == \A u \in Unit : \A p \in DOMAIN code[u] : KnownCmd(code[u][p])

KnownSet == {step \in StepSet : KnownCmd(step.cmd)}

(* What the statements generate calls known functions only. *)
GeneratesKnown ==
  \/ code' = code
  \/ \E steps \in Seq(KnownSet) : \E placeholders, next :
       Generate(steps, placeholders, next)

(* Functions that run, wait for others, or are about to be called, are     *)
(* compiled.                                                               *)
CallsCompiled ==
  /\ pc.unit \in defined \cup {Main}
  /\ \A i \in DOMAIN operands : operands[i] \in Func => operands[i] \in defined
  /\ \A i \in DOMAIN frames : frames[i].return.unit \in defined \cup {Main}

AbortsInSelfRead ==
  CurrentCmd.op = "LoadLocalVarValue" /\ CurrentCmd.def > pc.pos

FaultInv ==
  /\ CallsKnown
  /\ status = "running" => CallsCompiled
  /\ status = "aborted" => AbortsInSelfRead

-----------------------------------------------------------------------------
(* Steps of known calls                                                    *)

(* A step whose command calls none but known functions. *)
LEMMA KnownStep ==
  ASSUME NEW cmd \in Cmd, KnownCmd(cmd), NEW f \in Seq(Def), NEW o \in OperandSeq
  PROVE  Step(cmd, f, o) \in KnownSet
<1>1. Step(cmd, f, o) \in StepSet BY StepType
<1>2. Step(cmd, f, o).cmd = cmd BY DEF Step
<1> QED BY <1>1, <1>2 DEF KnownSet

(* The commands that load no function. *)
LEMMA KnownCmds ==
  /\ \A t \in DataType :
       /\ KnownCmd(LoadValue(t)) /\ KnownCmd(CreateLocalVar(t))
       /\ KnownCmd(CreateAndInitLocalVar(t)) /\ KnownCmd(DestroyLocalVar(t))
       /\ KnownCmd(Unload(t)) /\ KnownCmd(Sum(t))
  /\ \A f \in Callable : KnownCmd(LoadFuncValue(f))
  /\ \A d \in Def : KnownCmd(LoadLocalVarValue(d))
  /\ \A offset : KnownCmd(JumpIfNot(offset)) /\ KnownCmd(DirectJump(offset))
  /\ KnownCmd(Call) /\ KnownCmd(Return)
BY DEF KnownCmd, LoadValue, CreateLocalVar, CreateAndInitLocalVar, DestroyLocalVar,
       Unload, Sum, LoadFuncValue, LoadLocalVarValue, JumpIfNot, DirectJump, Call, Return

(* One step behind others. *)
LEMMA KnownAppend ==
  ASSUME TypeOK, NEW steps \in Seq(KnownSet), NEW cmd \in Cmd, KnownCmd(cmd),
         NEW f \in Seq(Def), NEW o \in OperandSeq
  PROVE  Append(steps, Step(cmd, f, o)) \in Seq(KnownSet)
<1>1. PICK step \in KnownSet : step = Step(cmd, f, o) BY KnownStep
<1>2. Append(steps, step) \in Seq(KnownSet) OBVIOUS
<1> QED BY <1>1, <1>2

(* Variables are destroyed. *)
LEMMA DestroyKnown ==
  ASSUME TypeInv, NEW i \in DOMAIN scopes, NEW o \in OperandSeq
  PROVE  LET defs == GetLocalVarDefsUpToScope(i) IN
         /\ GenerateDestroyLocalVarCmds(defs, o) \in Seq(KnownSet)
         /\ Prefix(flow, Len(flow) - Len(defs)) \in Seq(Def)
         /\ Len(defs) \in Nat
<1> DEFINE defs == GetLocalVarDefsUpToScope(i)
           steps == GenerateDestroyLocalVarCmds(defs, o)
<1>1. flow \in Seq(Def) /\ Len(flow) \in Nat BY DEF TypeInv, TypeOK
<1>2. defs \in Seq(Def) /\ Len(defs) <= Len(flow) /\ Len(defs) \in Nat
  <2>1. defs \in Seq(Def) /\ Len(defs) <= Len(flow) BY DefsTypes
  <2> HIDE DEF defs
  <2> QED BY <2>1
<1> HIDE DEF defs
<1>3. ASSUME NEW j \in 1..Len(defs) PROVE steps[j] \in KnownSet
  <2>1. defs[Len(defs) - j + 1].type \in DataType
    <3>1. defs[Len(defs) - j + 1] \in Def BY <1>2, Len(defs) - j + 1 \in 1..Len(defs)
    <3> QED BY <3>1 DEF Def
  <2>2. Prefix(flow, Len(flow) - j + 1) \in Seq(Def)
    BY <1>1, <1>2, PrefixType, Len(flow) - j + 1 \in 0..Len(flow)
  <2>3. steps[j] = Step(DestroyLocalVar(defs[Len(defs) - j + 1].type),
                        Prefix(flow, Len(flow) - j + 1), o)
    BY DEF GenerateDestroyLocalVarCmds
  <2> QED BY <2>1, <2>2, <2>3, CmdTypes, KnownCmds, KnownStep
<1>4. steps \in Seq(KnownSet) BY <1>2, <1>3 DEF GenerateDestroyLocalVarCmds
<1>5. Prefix(flow, Len(flow) - Len(defs)) \in Seq(Def)
  BY <1>1, <1>2, PrefixType, Len(flow) - Len(defs) \in 0..Len(flow)
<1> QED BY <1>2, <1>4, <1>5 DEF defs

(* Scopes are left by a jump, functions by a return. *)
LEMMA LeavingKnown ==
  ASSUME TypeInv, NEW i \in DOMAIN scopes
  PROVE  LET defs == GetLocalVarDefsUpToScope(i) IN
         /\ \A offset \in Int \cup {Unwritten} :
              GenerateJumpCmdStart(defs, offset) \in Seq(KnownSet)
         /\ \A o \in OperandSeq : GenerateReturnCmd(defs, o) \in Seq(KnownSet)
         /\ OffsetTo(scopes[i].start_address, Here + Len(defs)) \in Int
<1> DEFINE defs == GetLocalVarDefsUpToScope(i)
           f == Prefix(flow, Len(flow) - Len(defs))
<1>1. /\ f \in Seq(Def) /\ Len(defs) \in Nat
      /\ \A o \in OperandSeq : GenerateDestroyLocalVarCmds(defs, o) \in Seq(KnownSet)
  BY DestroyKnown, OperandTypes
<1>2. TypeOK BY DEF TypeInv
<1>3. OffsetTo(scopes[i].start_address, Here + Len(defs)) \in Int
  <2>1. scopes[i].start_address \in Nat
    <3>1. scopes[i] \in Scope BY <1>2 DEF TypeOK
    <3> QED BY <3>1 DEF Scope
  <2>2. Here + Len(defs) \in Nat BY <1>1, JumpAddress
  <2> QED BY <2>1, <2>2 DEF OffsetTo
<1> HIDE DEF defs, f
<1>4. ASSUME NEW offset \in Int \cup {Unwritten}
      PROVE  GenerateJumpCmdStart(defs, offset) \in Seq(KnownSet)
  <2>1. GenerateDestroyLocalVarCmds(defs, <<>>) \in Seq(KnownSet) BY <1>1, OperandTypes
  <2>2. Append(GenerateDestroyLocalVarCmds(defs, <<>>), Step(DirectJump(offset), f, <<>>))
          \in Seq(KnownSet)
    BY <1>1, <1>2, <2>1, OperandTypes, CmdTypes, KnownCmds, KnownAppend
  <2> QED BY <2>2 DEF GenerateJumpCmdStart, f
<1>5. ASSUME NEW o \in OperandSeq PROVE GenerateReturnCmd(defs, o) \in Seq(KnownSet)
  <2>1. Append(GenerateDestroyLocalVarCmds(defs, o), Step(Return, f, o))
          \in Seq(KnownSet)
    BY <1>1, <1>2, CmdTypes, KnownCmds, KnownAppend
  <2> QED BY <2>1 DEF GenerateReturnCmd, f
<1> QED BY <1>3, <1>4, <1>5 DEF defs

(* A call of a known function. *)
LEMMA CallKnown ==
  ASSUME TypeInv, NEW f \in Callable, NEW below \in OperandSeq
  PROVE  VisitCall(f, below) \in Seq(KnownSet)
<1> DEFINE args == Reverse(Args[f])
           loads == [i \in 1..Len(args) |->
                       Step(LoadValue(args[i]), flow, below \o Prefix(args, i - 1))]
           load == Step(LoadFuncValue(f), flow, below \o args)
           call == Step(Call, flow, Append(below \o args, f))
<1>1. flow \in Seq(Def) /\ f \in Func BY DEF TypeInv, TypeOK, Callable, Unit
<1>2. args \in Seq(DataType) BY <1>1, ReverseType, FuncsAssumption
<1>3. \A s \in Seq(DataType) : below \o s \in OperandSeq BY DEF OperandSeq
<1> HIDE DEF args
<1>4. ASSUME NEW i \in 1..Len(args) PROVE loads[i] \in KnownSet
  <2>1. Prefix(args, i - 1) \in Seq(DataType) /\ args[i] \in DataType
    BY <1>2, PrefixType
  <2> QED BY <1>1, <1>3, <2>1, CmdTypes, KnownCmds, KnownStep
<1>5. loads \in Seq(KnownSet) BY <1>2, <1>4
<1>6. Append(below \o args, f) \in OperandSeq BY <1>1, <1>2, <1>3 DEF OperandSeq
<1>7. load \in KnownSet /\ call \in KnownSet
  BY <1>1, <1>2, <1>3, <1>6, CmdTypes, KnownCmds, KnownStep
<1>8. VisitCall(f, below) = loads \o <<load, call>>
  BY DEF VisitCall, args, loads, load, call
<1> HIDE DEF loads, load, call
<1>9. <<load, call>> \in Seq(KnownSet) BY <1>7, TupleType
<1> QED BY <1>5, <1>8, <1>9

(* An expression calls what is Callable. *)
LEMMA ExprKnown ==
  ASSUME TypeInv, NEW t \in DataType \cup {Void}, NEW e \in Exprs(t)
  PROVE  e \in Seq(KnownSet)
<1>1. flow \in Seq(Def) BY DEF TypeInv, TypeOK
<1>2. ASSUME t # Void PROVE Literal(t) \in Seq(KnownSet)
  <2>1. Step(LoadValue(t), flow, <<>>) \in KnownSet
    BY <1>1, <1>2, CmdTypes, KnownCmds, KnownStep, OperandTypes
  <2> QED BY <2>1, TupleType DEF Literal
<1>3. ASSUME NEW d \in Def PROVE VisitId(d) \in Seq(KnownSet)
  <2>1. Step(LoadLocalVarValue(d), flow, <<>>) \in KnownSet
    BY <1>1, CmdTypes, KnownCmds, KnownStep, OperandTypes
  <2> QED BY <2>1, TupleType DEF VisitId
<1>4. \A d \in ToSet(flow) : d \in Def BY <1>1 DEF ToSet
<1>5. ASSUME NEW f \in Callable, t # Void PROVE VisitSum(t, f) \in Seq(KnownSet)
  <2>1. VisitCall(f, <<t>>) \in Seq(KnownSet) BY <1>5, CallKnown, OperandTypes
  <2>2. <<t, t>> \in OperandSeq BY <1>5 DEF OperandSeq
  <2>3. Step(Sum(t), flow, <<t, t>>) \in KnownSet
    BY <1>1, <1>5, <2>2, CmdTypes, KnownCmds, KnownStep
  <2>4. PICK a, b, c \in Seq(KnownSet) :
          /\ a = Literal(t) /\ b = VisitCall(f, <<t>>)
          /\ c = <<Step(Sum(t), flow, <<t, t>>)>>
    BY <1>2, <1>5, <2>1, <2>3, TupleType
  <2>5. a \o b \o c \in Seq(KnownSet) OBVIOUS
  <2> QED BY <2>4, <2>5 DEF VisitSum
<1>6. \A f \in Callable : VisitCall(f, <<>>) \in Seq(KnownSet)
  BY CallKnown, OperandTypes
<1>7. \/ t # Void /\ e = Literal(t)
      \/ \E d \in ToSet(flow) : e = VisitId(d)
      \/ \E f \in Callable : e = VisitCall(f, <<>>)
      \/ t # Void /\ \E f \in Callable : e = VisitSum(t, f)
  BY DEF Exprs
<1> QED BY <1>2, <1>3, <1>4, <1>5, <1>6, <1>7

(* A command behind an expression. *)
LEMMA ThenKnown ==
  ASSUME TypeInv, NEW t \in DataType \cup {Void}, NEW e \in Exprs(t),
         NEW cmd \in Cmd, KnownCmd(cmd), NEW o \in OperandSeq
  PROVE  Append(e, Step(cmd, flow, o)) \in Seq(KnownSet)
<1>1. e \in Seq(KnownSet) /\ flow \in Seq(Def) /\ TypeOK
  BY ExprKnown DEF TypeInv, TypeOK
<1> QED BY <1>1, KnownAppend

-----------------------------------------------------------------------------
(* Statements                                                              *)

(* Definitions, expressions and arguments. *)
LEMMA PlainStmtsKnown ==
  ASSUME TypeInv,
         \/ VisitVarDefWithoutInit \/ VisitVarDefWithInit \/ VisitVarDefWithSelfInit
         \/ VisitExprStmt \/ VisitArgDef
  PROVE  GeneratesKnown
<1>1. flow \in Seq(Def) /\ Here \in Nat /\ TypeOK BY DEF TypeInv, TypeOK, Here
<1>2. ASSUME NEW d, NEW steps \in Seq(KnownSet), VisitVarDef(d, steps)
      PROVE  GeneratesKnown
  BY <1>2 DEF VisitVarDef, Stop, GeneratesKnown
<1>3. CASE VisitVarDefWithoutInit
  <2>1. PICK t \in VarType :
          VisitVarDef(NewDef(Here, t), <<Step(CreateLocalVar(t), flow, <<>>)>>)
    BY <1>3 DEF VisitVarDefWithoutInit
  <2>2. Step(CreateLocalVar(t), flow, <<>>) \in KnownSet
    BY <1>1, SomeTypes, CmdTypes, KnownCmds, KnownStep, OperandTypes
  <2>3. <<Step(CreateLocalVar(t), flow, <<>>)>> \in Seq(KnownSet) BY <2>2, TupleType
  <2> QED BY <1>2, <2>1, <2>3
<1>4. CASE VisitVarDefWithInit
  <2>1. PICK t \in VarType : \E value \in Exprs(t) :
          VisitVarDef(NewDef(Here + Len(value), t),
                      Append(value, Step(CreateAndInitLocalVar(t), flow, <<t>>)))
    BY <1>4 DEF VisitVarDefWithInit
  <2>2. PICK value \in Exprs(t) :
          VisitVarDef(NewDef(Here + Len(value), t),
                      Append(value, Step(CreateAndInitLocalVar(t), flow, <<t>>)))
    BY <2>1
  <2>3. Append(value, Step(CreateAndInitLocalVar(t), flow, <<t>>)) \in Seq(KnownSet)
    BY SomeTypes, CmdTypes, KnownCmds, ThenKnown, OperandTypes
  <2> QED BY <1>2, <2>2, <2>3
<1>5. CASE VisitVarDefWithSelfInit
  <2>1. PICK t \in VarType :
          VisitVarDef(NewDef(Here + 1, t),
                      Append(VisitId(NewDef(Here + 1, t)),
                             Step(CreateAndInitLocalVar(t), flow, <<t>>)))
    BY <1>5 DEF VisitVarDefWithSelfInit
  <2>2. PICK d : d = NewDef(Here + 1, t) OBVIOUS
  <2>3. t \in DataType /\ d \in Def BY <1>1, <2>2, SomeTypes, NewDefTypes
  <2>4. VisitId(d) \in Seq(KnownSet)
    <3>1. Step(LoadLocalVarValue(d), flow, <<>>) \in KnownSet
      BY <1>1, <2>3, CmdTypes, KnownCmds, KnownStep, OperandTypes
    <3> QED BY <3>1, TupleType DEF VisitId
  <2>5. Append(VisitId(d), Step(CreateAndInitLocalVar(t), flow, <<t>>)) \in Seq(KnownSet)
    BY <1>1, <2>3, <2>4, CmdTypes, KnownCmds, KnownAppend, OperandTypes
  <2> QED BY <1>2, <2>1, <2>2, <2>5
<1>6. CASE VisitExprStmt
  <2>1. PICK t \in VarType \cup {Void} : \E expr \in Exprs(t) :
          Generate(IF t = Void THEN expr
                   ELSE Append(expr, Step(Unload(t), flow, <<t>>)),
                   {}, Expects(flow, <<>>))
    BY <1>6 DEF VisitExprStmt
  <2>2. PICK expr \in Exprs(t) :
          Generate(IF t = Void THEN expr
                   ELSE Append(expr, Step(Unload(t), flow, <<t>>)),
                   {}, Expects(flow, <<>>))
    BY <2>1
  <2>3. t \in DataType \cup {Void} BY SomeTypes
  <2>4. expr \in Seq(KnownSet) BY <2>3, ExprKnown
  <2>5. t # Void => Append(expr, Step(Unload(t), flow, <<t>>)) \in Seq(KnownSet)
    BY <2>3, CmdTypes, KnownCmds, ThenKnown, OperandTypes
  <2>6. (IF t = Void THEN expr ELSE Append(expr, Step(Unload(t), flow, <<t>>)))
          \in Seq(KnownSet)
    BY <2>4, <2>5
  <2> QED BY <2>2, <2>6 DEF GeneratesKnown
<1>7. CASE VisitArgDef
  <2>1. PICK args, i, t : args = Args[unit] /\ i = Here /\ t = Args[unit][i] OBVIOUS
  <2>2. unit \in Func /\ ~(Len(code[unit]) >= Len(args))
    BY <1>7, <2>1, <1>1 DEF VisitArgDef, ArgsVisited, TypeOK, Unit
  <2>3. args \in Seq(DataType) /\ i \in 1..Len(args) /\ t \in DataType
    <3>1. args \in Seq(DataType) BY <2>1, <2>2, FuncsAssumption
    <3>2. Len(code[unit]) \in Nat BY <1>1 DEF TypeOK
    <3>3. i \in 1..Len(args) BY <2>1, <2>2, <3>1, <3>2 DEF Here
    <3> QED BY <2>1, <3>1, <3>3
  <2>4. PICK left : left = Prefix(Reverse(args), Len(args) - (i - 1)) OBVIOUS
  <2>5. left \in OperandSeq
    <3>1. Reverse(args) \in Seq(DataType) /\ Len(Reverse(args)) = Len(args)
      BY <2>3, ReverseType
    <3>2. Len(args) - (i - 1) \in 0..Len(Reverse(args)) BY <2>3, <3>1
    <3>3. left \in Seq(DataType) BY <2>4, <3>1, <3>2, PrefixType
    <3> QED BY <3>3 DEF OperandSeq
  <2>6. <<Step(CreateAndInitLocalVar(t), flow, left)>> \in Seq(KnownSet)
    <3>1. Step(CreateAndInitLocalVar(t), flow, left) \in KnownSet
      BY <1>1, <2>3, <2>5, CmdTypes, KnownCmds, KnownStep
    <3> QED BY <3>1, TupleType
  <2>7. \E next : Generate(<<Step(CreateAndInitLocalVar(t), flow, left)>>, {}, next)
    BY Zenon, <1>7, <2>1, <2>4 DEF VisitArgDef
  <2> QED BY <2>6, <2>7 DEF GeneratesKnown
<1> QED BY <1>3, <1>4, <1>5, <1>6, <1>7

(* Loops and the statements that leave them. *)
LEMMA LoopStmtsKnown ==
  ASSUME TypeInv, VisitPreTestLoop \/ EndPreTestLoop \/ VisitBreak \/ VisitContinue
  PROVE  GeneratesKnown
<1>1. \A cond \in Exprs(Bool) :
        Append(cond, Step(JumpIfNot(Unwritten), flow, <<Bool>>)) \in Seq(KnownSet)
  BY SomeTypes, CmdTypes, KnownCmds, ThenKnown, OperandTypes
<1>2. CASE VisitPreTestLoop BY <1>1, <1>2 DEF VisitPreTestLoop, GeneratesKnown
<1>3. CASE EndPreTestLoop
  <2>1. PICK offset : offset = OffsetTo(scopes[Len(scopes)].start_address,
                          Here + Len(GetLocalVarDefsUpToScope(Len(scopes))))
    OBVIOUS
  <2>2. GenerateJumpCmdStart(GetLocalVarDefsUpToScope(Len(scopes)), offset)
          \in Seq(KnownSet)
    BY <2>1, LeavingKnown, ScopeFacts
  <2>3. CurrentScope = scopes[Len(scopes)] BY ScopeFacts
  <2>4. \E placeholders, next :
          Generate(GenerateJumpCmdStart(GetLocalVarDefsUpToScope(Len(scopes)), offset),
                   placeholders, next)
    BY Zenon, <1>3, <2>1, <2>3 DEF EndPreTestLoop
  <2> QED BY <2>2, <2>4 DEF GeneratesKnown
<1>4. CASE VisitBreak
  <2>1. PICK i \in DOMAIN scopes :
          \/ Stop("crashed") \/ Stop("rejected")
          \/ Generate(GenerateJumpCmdStart(GetLocalVarDefsUpToScope(i), Unwritten),
                      {}, Expects(flow, <<>>))
    BY Zenon, <1>4 DEF VisitBreak
  <2>2. GenerateJumpCmdStart(GetLocalVarDefsUpToScope(i), Unwritten) \in Seq(KnownSet)
    BY LeavingKnown
  <2> QED BY <2>1, <2>2 DEF GeneratesKnown, Stop
<1>5. CASE VisitContinue
  <2>1. PICK i \in DOMAIN scopes : \E offset :
          /\ offset = OffsetTo(scopes[i].start_address,
                               Here + Len(GetLocalVarDefsUpToScope(i)))
          /\ \/ Stop("crashed") \/ Stop("rejected")
             \/ Generate(GenerateJumpCmdStart(GetLocalVarDefsUpToScope(i), offset),
                         {}, Expects(flow, <<>>))
    BY Zenon, <1>5 DEF VisitContinue
  <2>2. PICK offset :
          /\ offset = OffsetTo(scopes[i].start_address,
                               Here + Len(GetLocalVarDefsUpToScope(i)))
          /\ \/ Stop("crashed") \/ Stop("rejected")
             \/ Generate(GenerateJumpCmdStart(GetLocalVarDefsUpToScope(i), offset),
                         {}, Expects(flow, <<>>))
    BY <2>1
  <2>3. GenerateJumpCmdStart(GetLocalVarDefsUpToScope(i), offset) \in Seq(KnownSet)
    BY <2>2, LeavingKnown
  <2> QED BY <2>2, <2>3 DEF GeneratesKnown, Stop
<1> QED BY <1>2, <1>3, <1>4, <1>5

(* Branches. *)
LEMMA BranchStmtsKnown ==
  ASSUME TypeInv, VisitIf \/ EndIfBody \/ VisitElse \/ EndBranches
  PROVE  GeneratesKnown
<1>1. \A cond \in Exprs(Bool) :
        Append(cond, Step(JumpIfNot(Unwritten), flow, <<Bool>>)) \in Seq(KnownSet)
  BY SomeTypes, CmdTypes, KnownCmds, ThenKnown, OperandTypes
<1>2. /\ GenerateJumpCmdStart(GetLocalVarDefsUpToScope(Len(scopes)), Unwritten)
           \in Seq(KnownSet)
      /\ GenerateDestroyLocalVarCmds(GetLocalVarDefsUpToScope(Len(scopes)), <<>>)
           \in Seq(KnownSet)
  BY LeavingKnown, DestroyKnown, OperandTypes, ScopeFacts
<1>3. CASE VisitIf BY <1>1, <1>3 DEF VisitIf, GeneratesKnown
<1>4. CASE EndIfBody BY <1>2, <1>4 DEF EndIfBody, GeneratesKnown
<1>5. CASE VisitElse BY <1>5 DEF VisitElse, GeneratesKnown
<1>6. CASE EndBranches BY <1>2, <1>6 DEF EndBranches, GeneratesKnown
<1> QED BY <1>3, <1>4, <1>5, <1>6

(* Functions and returns. *)
LEMMA FuncStmtsKnown ==
  ASSUME TypeInv,
         VisitFuncDef \/ EndFuncDef \/ VisitReturnValue \/ VisitReturnWithoutValue
  PROVE  GeneratesKnown
<1>1. CASE VisitFuncDef BY <1>1 DEF VisitFuncDef, GeneratesKnown
<1>2. CASE EndFuncDef
  <2>1. \/ code' = code
        \/ \E next : Generate(GenerateReturnCmd(GetLocalVarDefsUpToScope(2), <<>>), {}, next)
    BY Zenon, <1>2 DEF EndFuncDef, Stop
  <2>2. 2 \in DOMAIN scopes
    <3>1. CurrentScope.type = "func" BY <1>2 DEF EndFuncDef
    <3> QED BY <3>1, ScopeFacts DEF TypeInv, ScopesNest
  <2>3. GenerateReturnCmd(GetLocalVarDefsUpToScope(2), <<>>) \in Seq(KnownSet)
    BY <2>2, LeavingKnown, OperandTypes
  <2> QED BY <2>1, <2>3 DEF GeneratesKnown
<1>3. ASSUME NEW t \in DataType \cup {Void}, NEW value \in Seq(KnownSet),
             VisitReturn(t, value)
      PROVE  GeneratesKnown
  <2>1. PICK exit :
          exit = GenerateReturnCmd(GetLocalVarDefsUpToScope(FlowScope), Operands(t))
    OBVIOUS
  <2>2. code' = code \/ \E next : Generate(value \o exit, {}, next)
    BY Zenon, <1>3, <2>1 DEF VisitReturn, Stop
  <2>3. exit \in Seq(KnownSet)
    <3>1. Operands(t) \in OperandSeq BY OperandTypes DEF Operands
    <3> QED BY <2>1, <3>1, LeavingKnown, ScopeFacts
  <2>4. value \o exit \in Seq(KnownSet) BY <2>3
  <2> QED BY <2>2, <2>4 DEF GeneratesKnown
<1>4. CASE VisitReturnValue
  <2>1. PICK t \in VarType : \E value \in Exprs(t) : VisitReturn(t, value)
    BY <1>4 DEF VisitReturnValue
  <2>2. PICK value \in Exprs(t) : VisitReturn(t, value) BY <2>1
  <2>3. t \in DataType \cup {Void} BY SomeTypes
  <2> QED BY <1>3, <2>2, <2>3, ExprKnown
<1>5. CASE VisitReturnWithoutValue
  <2>1. VisitReturn(Void, <<>>) BY <1>5 DEF VisitReturnWithoutValue
  <2>2. <<>> \in Seq(KnownSet) OBVIOUS
  <2> QED BY <1>3, <2>1, <2>2
<1> QED BY <1>1, <1>2, <1>4, <1>5

(* What could be called once can be called from then on. *)
LEMMA CallableGrows ==
  ASSUME TypeInv, JumpsInv, Next \/ Ended \/ UNCHANGED vars
  PROVE  Callable \subseteq Callable'
<1>1. CASE VisitFuncDef
  <2>1. CurrentScope.type = "global" /\ UNCHANGED defined BY <1>1 DEF VisitFuncDef
  <2>2. unit = Main BY <2>1, OutsideJumps
  <2> QED BY <2>1, <2>2 DEF Callable
<1>2. CASE EndFuncDef
  BY <1>2 DEF EndFuncDef, Stop, Callable
<1>3. CASE VisitReturnValue \/ VisitReturnWithoutValue
  BY <1>3 DEF VisitReturnValue, VisitReturnWithoutValue, VisitReturn, Stop, Callable
<1>4. CASE VisitBreak \/ VisitContinue
  BY <1>4 DEF VisitBreak, VisitContinue, Stop, Callable
<1>5. CASE VisitVarDefWithoutInit \/ VisitVarDefWithInit \/ VisitVarDefWithSelfInit
  BY <1>5 DEF VisitVarDefWithoutInit, VisitVarDefWithInit, VisitVarDefWithSelfInit,
              VisitVarDef, Stop, Callable
<1>6. CASE VisitExprStmt \/ VisitPreTestLoop \/ EndPreTestLoop \/ VisitArgDef
  BY <1>6 DEF VisitExprStmt, VisitPreTestLoop, EndPreTestLoop, VisitArgDef, Callable
<1>7. CASE VisitIf \/ EndIfBody \/ VisitElse \/ EndBranches
  BY <1>7 DEF VisitIf, EndIfBody, VisitElse, EndBranches, Callable
<1>8. CASE EndProgram BY <1>8 DEF EndProgram, Stop, Callable
<1>9. CASE Ended \/ UNCHANGED vars BY <1>9 DEF Ended, vars, Callable
<1> QED BY <1>1, <1>2, <1>3, <1>4, <1>5, <1>6, <1>7, <1>8, <1>9 DEF Next

(* Every statement keeps functions from being called too early. *)
LEMMA NextKeepsKnown ==
  ASSUME TypeInv, JumpsInv, CallsKnown, Next \/ Ended \/ UNCHANGED vars
  PROVE  CallsKnown'
<1>1. Callable \subseteq Callable' BY CallableGrows
<1>2. \A cmd : KnownCmd(cmd) => KnownCmd(cmd)' BY <1>1 DEF KnownCmd
<1>3. GeneratesKnown
  <2>1. CASE EndProgram \/ Ended \/ UNCHANGED vars
    BY <2>1 DEF EndProgram, Stop, Ended, vars, GeneratesKnown
  <2> QED BY <2>1, PlainStmtsKnown, LoopStmtsKnown, BranchStmtsKnown, FuncStmtsKnown
          DEF Next
<1>4. CASE code' = code BY <1>2, <1>4 DEF CallsKnown
<1>5. CASE \E steps \in Seq(KnownSet) : \E placeholders, next :
             Generate(steps, placeholders, next)
  <2>1. PICK steps \in Seq(KnownSet) : \E placeholders, next :
               Generate(steps, placeholders, next)
    BY <1>5
  <2>2. PICK ph, next : Generate(steps, ph, next) BY <2>1
  <2>3. unit \in Unit /\ code \in [Unit -> Seq(Cmd)] BY DEF TypeInv, TypeOK
  <2>4. PICK old, cmds, c : old = code[unit] /\ cmds = Cmds(steps) /\ c = old \o cmds
    OBVIOUS
  <2>5. code' = [code EXCEPT ![unit] = WriteCurrentCmdOffset(c, ph)]
    BY <2>2, <2>4 DEF Generate
  <2>6. /\ old \in Seq(Cmd) /\ cmds \in Seq(Cmd)
        /\ \A p \in DOMAIN old : KnownCmd(old[p])
        /\ \A p \in DOMAIN cmds : KnownCmd(cmds[p])
    <3>1. \A k \in DOMAIN steps : steps[k] \in KnownSet OBVIOUS
    <3>2. steps \in Seq(StepSet) BY <3>1 DEF KnownSet
    <3>3. /\ cmds \in Seq(Cmd) /\ DOMAIN cmds = DOMAIN steps
          /\ \A k \in DOMAIN steps : cmds[k] = steps[k].cmd
      BY <2>4, <3>2, StepParts DEF Cmds
    <3>4. \A p \in DOMAIN old : KnownCmd(old[p]) BY <2>3, <2>4 DEF CallsKnown
    <3> QED BY <2>3, <2>4, <3>1, <3>3, <3>4 DEF KnownSet
  <2>7. c \in Seq(Cmd) /\ \A p \in DOMAIN c : KnownCmd(c[p])
    <3>1. /\ c \in Seq(Cmd) /\ Len(c) = Len(old) + Len(cmds)
          /\ \A p \in DOMAIN old : c[p] = old[p]
          /\ \A p \in DOMAIN cmds : c[Len(old) + p] = cmds[p]
      BY <2>4, <2>6, Concat
    <3>2. ASSUME NEW p \in DOMAIN c
          PROVE  p \in DOMAIN old \/ \E k \in DOMAIN cmds : p = Len(old) + k
      <4>1. p \in 1..Len(old) \/ p - Len(old) \in 1..Len(cmds) BY <2>6, <3>1
      <4>2. p = Len(old) + (p - Len(old)) BY <2>6, <3>1
      <4> QED BY <2>6, <4>1, <4>2
    <3> QED BY <2>6, <3>1, <3>2
  <2>8. ASSUME NEW p \in DOMAIN WriteCurrentCmdOffset(c, ph)
        PROVE  KnownCmd(WriteCurrentCmdOffset(c, ph)[p])
    <3>1. p \in DOMAIN c /\ WriteCurrentCmdOffset(c, ph)[p] =
            IF p \in ph THEN [c[p] EXCEPT !.offset = Len(c) - p] ELSE c[p]
      BY DEF WriteCurrentCmdOffset
    <3>2. c[p] \in Cmd /\ KnownCmd(c[p]) BY <2>7, <3>1
    <3>3. ASSUME NEW cmd \in Cmd, NEW x, KnownCmd(cmd)
          PROVE  KnownCmd([cmd EXCEPT !.offset = x])
      BY <3>3 DEF KnownCmd, Cmd, TypedOp, JumpOp
    <3> QED BY <3>1, <3>2, <3>3
  <2>9. /\ code'[unit] = WriteCurrentCmdOffset(c, ph)
        /\ \A u \in Unit : u # unit => code'[u] = code[u]
    BY <2>3, <2>5
  <2>10. \A u \in Unit : \A p \in DOMAIN code'[u] : KnownCmd(code'[u][p])
    BY <2>8, <2>9 DEF CallsKnown
  <2> QED BY <1>2, <2>10 DEF CallsKnown
<1> QED BY <1>3, <1>4, <1>5 DEF GeneratesKnown

-----------------------------------------------------------------------------
(* The machine's steps                                                     *)

(* Compiled code calls compiled functions, which do not end but by return. *)
LEMMA CompiledCalls ==
  ASSUME Running, CallsKnown
  PROVE  /\ \A u \in Unit : \A p \in DOMAIN code[u] :
              code[u][p].op = "LoadFuncValue" => code[u][p].func \in defined
         /\ \A f \in defined : ~End(f).live
<1>1. CurrentScope.type = "global" BY DEF Running, JumpsInv, EndsOutside
<1>2. unit = Main BY <1>1, OutsideJumps DEF Running
<1>3. Callable = defined BY <1>2 DEF Callable
<1> QED BY <1>3 DEF CallsKnown, KnownCmd, Running, LayoutInv, LayoutEnds

(* The operands end as a frame's expected ones. *)
LEMMA KeptLast ==
  ASSUME Running, NEW o, NEW x, KeepsOperands(o, x), x # <<>>
  PROVE  o # <<>> /\ Last(o) = Last(x)
<1>1. PICK b : b = Last(frames).base OBVIOUS
<1>2. b \in Nat BY <1>1, Current
<1>3. o \in Seq(Operand) /\ b <= Len(o) /\ x = SubSeq(o, b + 1, Len(o))
  BY <1>1 DEF KeepsOperands
<1>4. Len(o) \in Nat /\ Len(o) <= Len(o) BY <1>3
<1>5. /\ x \in Seq(Operand) /\ Len(x) = Len(o) - b
      /\ \A i \in 1..Len(o) - b : x[i] = o[b + i]
  BY ONLY <1>2, <1>3, <1>4, SegParts
<1>6. Len(x) \in Nat /\ Len(x) # 0
  <2>1. \A s \in Seq(Operand) : s # <<>> => Len(s) \in Nat /\ Len(s) # 0 OBVIOUS
  <2> QED BY <1>5, <2>1
<1>7. Len(x) \in 1..Len(o) - b /\ b + Len(x) = Len(o) BY ONLY <1>2, <1>4, <1>5, <1>6
<1>8. Len(o) # 0 BY ONLY <1>2, <1>6, <1>7
<1>9. Last(o) = Last(x) BY ONLY <1>5, <1>7 DEF Last
<1>10. o # <<>>
  <2>1. Len(<<>>) = 0 OBVIOUS
  <2> QED BY ONLY <1>8, <2>1
<1> QED BY <1>9, <1>10

(* A command finds the operands it takes. *)
LEMMA FindsThem ==
  ASSUME Running, HasCmd
  PROVE  FindsOperands
<1>1. PICK before, after, cmd, o :
        /\ before = layout[pc.unit][pc.pos] /\ o = operands
        /\ after = layout[pc.unit][pc.pos + 1] /\ cmd = CurrentCmd
  OBVIOUS
<1>2. Executes(pc.unit, pc.pos, cmd, before, after) BY <1>1, Fetched
<1>3. o \in Seq(Operand) BY <1>1 DEF Running, MachineTypeOK, Operand
<1>4. ASSUME NEW t, NEW left, Pops(before.operands, t, left)
      PROVE  /\ o # <<>> /\ Last(o) = t /\ Ends(<<t>>)
             /\ left # <<>> /\ Last(left) = t => Ends(<<t, t>>)
  <2>1. KeepsOperands(Front(o), left) /\ o # <<>> /\ Last(o) = t
    BY Zenon, <1>1, <1>4, Popped
  <2>2. PICK n : n = Len(o) OBVIOUS
  <2>3. n \in Nat /\ n >= 1 /\ o[n] = t
    <3>1. \A s \in Seq(Operand) : s # <<>> => Len(s) \in Nat /\ Len(s) >= 1 OBVIOUS
    <3> QED BY <1>3, <2>1, <2>2, <3>1 DEF Last
  <2>4. Ends(<<t>>)
    <3>1. Len(<<t>>) = 1 /\ DOMAIN <<t>> = 1..1 /\ <<t>>[1] = t OBVIOUS
    <3>2. n - 1 + 1 = n /\ 1 <= n BY <2>3
    <3>3. \A i \in 1..1 : i = 1 OBVIOUS
    <3> QED BY <1>1, <2>2, <2>3, <3>1, <3>2, <3>3 DEF Ends
  <2>5. ASSUME left # <<>>, Last(left) = t PROVE Ends(<<t, t>>)
    <3>1. Front(o) # <<>> /\ Last(Front(o)) = t BY <2>1, <2>5, KeptLast
    <3>2. Len(Front(o)) = n - 1 /\ \A k \in 1..n - 1 : Front(o)[k] = o[k]
      BY <1>3, <2>1, <2>2, FrontParts
    <3>3. n - 1 # 0
      <4>1. \A s \in Seq(Operand) : s # <<>> => Len(s) # 0 OBVIOUS
      <4>2. Front(o) \in Seq(Operand) BY <1>3, <2>1, FrontParts
      <4> QED BY <3>1, <3>2, <4>1, <4>2
    <3>4. n - 1 \in 1..n - 1 /\ n - 2 + 1 = n - 1 /\ n - 2 + 2 = n /\ 2 <= n
      BY ONLY <2>3, <3>3
    <3>5. o[n - 1] = t BY <3>1, <3>2, <3>4 DEF Last
    <3>6. Len(<<t, t>>) = 2 /\ DOMAIN <<t, t>> = 1..2
          /\ <<t, t>>[1] = t /\ <<t, t>>[2] = t
      OBVIOUS
    <3>7. \A i \in 1..2 : i = 1 \/ i = 2 OBVIOUS
    <3> QED BY <1>1, <2>2, <2>3, <3>4, <3>5, <3>6, <3>7 DEF Ends
  <2> QED BY <2>1, <2>4, <2>5
<1>5. CASE cmd.op \in {"CreateAndInitLocalVar", "Unload"}
  <2>1. Pops(before.operands, cmd.type, after.operands)
    BY ONLY <1>2, <1>5 DEF Executes
  <2>2. Ends(<<cmd.type>>) BY <1>4, <2>1
  <2> QED BY <1>1, <1>5, <2>2 DEF FindsOperands
<1>6. CASE cmd.op = "Sum"
  <2>1. /\ Pops(before.operands, cmd.type, after.operands)
        /\ after.operands # <<>> /\ Last(after.operands) = cmd.type
    BY ONLY <1>2, <1>6 DEF Executes
  <2>2. Ends(<<cmd.type, cmd.type>>) BY <1>4, <2>1
  <2> QED BY <1>1, <1>6, <2>2 DEF FindsOperands
<1>7. CASE cmd.op = "JumpIfNot"
  <2>1. Pops(before.operands, Bool, after.operands) BY ONLY <1>2, <1>7 DEF Executes
  <2>2. Ends(<<Bool>>) BY <1>4, <2>1
  <2> QED BY <1>1, <1>7, <2>2 DEF FindsOperands
<1>8. CASE cmd.op = "Call"
  <2>1. before.operands # <<>> /\ Last(before.operands) \in Func
    BY ONLY <1>2, <1>8 DEF Executes
  <2>2. Pops(before.operands, Last(before.operands), Front(before.operands))
    BY <2>1 DEF Pops
  <2>3. HasCallee BY <1>1, <1>4, <2>1, <2>2 DEF HasCallee
  <2> QED BY <1>1, <1>8, <2>3 DEF FindsOperands
<1>9. CASE cmd.op \notin {"CreateAndInitLocalVar", "Unload", "Sum", "JumpIfNot", "Call"}
  BY <1>1, <1>9 DEF FindsOperands
<1> QED BY <1>5, <1>6, <1>7, <1>8, <1>9

(* Past the last command there is nothing but the end of main code. *)
LEMMA NeverPastFunctions ==
  ASSUME Running, CallsKnown, CallsCompiled, status = "running"
  PROVE  AtExit \/ HasCmd
<1>1. PICK u, p : u = pc.unit /\ p = pc.pos OBVIOUS
<1>2. u \in Unit /\ p \in DOMAIN layout[u] /\ layout[u][p].live
  BY <1>1, Current
<1>3. /\ DOMAIN code[u] = 1..Len(code[u]) /\ Len(code[u]) \in Nat
      /\ DOMAIN layout[u] = 1..Len(code[u]) + 1
  BY <1>2, Compiled DEF Running
<1>4. p \in DOMAIN code[u] \/ p = Len(code[u]) + 1 BY <1>2, <1>3
<1>5. CASE p \in DOMAIN code[u] BY <1>1, <1>5 DEF HasCmd
<1>6. CASE p = Len(code[u]) + 1
  <2>1. End(u).live BY <1>2, <1>6 DEF End
  <2>2. u \notin defined BY <2>1, CompiledCalls
  <2>3. u = Main BY <1>1, <2>2 DEF CallsCompiled
  <2>4. Len(frames) = 1 BY <1>1, <2>3, Current
  <2>5. pc = [unit |-> u, pos |-> p]
    BY <1>1 DEF Running, MachineTypeOK, Address
  <2> QED BY <1>6, <2>3, <2>4, <2>5 DEF AtExit
<1> QED BY <1>4, <1>5, <1>6

(* No command but a read in a variable's own initializer trips an          *)
(* assertion.                                                              *)
LEMMA AbortsTruly ==
  ASSUME Running, UNCHANGED vars, MachineNext, status' = "aborted"
  PROVE  AbortsInSelfRead'
<1>1. CASE VisitDestroyLocalVarCmd
  <2>1. HasCmd /\ CurrentCmd.op = "DestroyLocalVar" /\ status = "running"
    BY <1>1 DEF VisitDestroyLocalVarCmd, IsAt, HasCmd
  <2>2. PICK before, after, cmd, f :
          /\ before = layout[pc.unit][pc.pos] /\ f = before.flow
          /\ after = layout[pc.unit][pc.pos + 1] /\ cmd = CurrentCmd
    OBVIOUS
  <2>3. Executes(pc.unit, pc.pos, cmd, before, after) BY <2>1, <2>2, Fetched
  <2>4. cmd.op = "DestroyLocalVar" BY <2>1, <2>2
  <2>5. before.flow # <<>> /\ Last(before.flow).type = cmd.type
    BY ONLY <2>3, <2>4 DEF Executes
  <2>6. Len(locals) >= Size[Last(f).type] BY Zenon, <2>2, <2>5, Destroyed
  <2>7. Len(locals) >= Size[CurrentCmd.type] BY Zenon, <2>2, <2>5, <2>6
  <2> QED BY <1>1, <2>1, <2>7 DEF VisitDestroyLocalVarCmd
<1>2. CASE VisitLoadLocalVarValueCmd
  <2>1. /\ IsAt("LoadLocalVarValue") /\ HasCmd /\ status = "running"
        /\ CurrentCmd.op = "LoadLocalVarValue"
    BY <1>2 DEF VisitLoadLocalVarValueCmd, IsAt, HasCmd
  <2>2. /\ ~(LocalVarIndex(CurrentCmd) < Len(locals))
        /\ pc' = pc
    BY <1>2, <2>1 DEF VisitLoadLocalVarValueCmd, Push
  <2>3. PICK cmd, from, n : cmd = CurrentCmd /\ from = LocalVarIndex(CurrentCmd)
                            /\ n = Len(locals)
    OBVIOUS
  <2>4. cmd \in Cmd /\ cmd.op = "LoadLocalVarValue" BY <2>1, <2>3, Fetched
  <2>5. cmd.index \in Nat /\ cmd.def \in Nat /\ cmd.type \in DataType
    BY ONLY <2>4 DEF Cmd, TypedOp, JumpOp
  <2>6. from \in Nat /\ n \in Nat /\ pc.pos \in Nat /\ Size[cmd.type] \in 1..2
    <3>1. Last(frames).start \in Nat /\ pc.pos \in Nat BY Current
    <3>2. from = Last(frames).start + cmd.index BY <2>3 DEF LocalVarIndex
    <3>3. n \in Nat BY <2>3 DEF Running, MachineTypeOK
    <3> QED BY <2>5, <3>1, <3>2, <3>3, SlotsTypes
  <2>7. cmd.def <= pc.pos => from + Size[cmd.type] <= n
    BY <2>1, <2>3, RunningReads DEF ReadsTheVariable
  <2>8. ~(cmd.def <= pc.pos) BY <2>2, <2>3, <2>6, <2>7
  <2>9. cmd.def > pc.pos BY <2>5, <2>6, <2>8
  <2>10. CurrentCmd' = CurrentCmd BY <2>2 DEF CurrentCmd, vars
  <2> QED BY <2>2, <2>3, <2>4, <2>9, <2>10 DEF AbortsInSelfRead
<1>3. CASE ~VisitDestroyLocalVarCmd /\ ~VisitLoadLocalVarValueCmd
  <2>1. status \in {"idle", "running"}
    BY DEF MachineNext, Execute, Exit, AtExit, VisitLoadValueCmd, VisitLoadFuncValueCmd,
         VisitLoadLocalVarValueCmd, VisitCreateLocalVarCmd,
         VisitCreateAndInitLocalVarCmd, VisitDestroyLocalVarCmd, VisitUnloadCmd,
         VisitSumCmd, VisitDirectJumpCmd, VisitJumpIfNotCmd, VisitCallCmd,
         VisitReturnCmd, IsAt, HasCmd
  <2> QED BY <1>3, <2>1
    DEF MachineNext, Execute, Exit, VisitLoadValueCmd, VisitLoadFuncValueCmd,
        VisitCreateLocalVarCmd, VisitCreateAndInitLocalVarCmd, VisitUnloadCmd,
        VisitSumCmd, VisitDirectJumpCmd, VisitJumpIfNotCmd, VisitCallCmd,
        VisitReturnCmd, Push, PushLocal
<1> QED BY <1>1, <1>2, <1>3

(* The functions among the operands are compiled. *)
KnownOperands(o) == \A i \in DOMAIN o : o[i] \in Func => o[i] \in defined

(* Operands pushed and popped. *)
LEMMA KnownPushPop ==
  ASSUME NEW o \in Seq(Operand), KnownOperands(o)
  PROVE  /\ \A t \in Operand : (t \in Func => t \in defined) => KnownOperands(Append(o, t))
         /\ o # <<>> => KnownOperands(Front(o))
<1>1. ASSUME NEW t \in Operand, t \in Func => t \in defined
      PROVE  KnownOperands(Append(o, t))
  <2>1. /\ DOMAIN Append(o, t) = 1..Len(o) + 1 /\ Append(o, t)[Len(o) + 1] = t
        /\ \A i \in 1..Len(o) : Append(o, t)[i] = o[i]
        /\ DOMAIN o = 1..Len(o) /\ Len(o) \in Nat
    BY AppendParts
  <2>2. \A i \in 1..Len(o) + 1 : i \in 1..Len(o) \/ i = Len(o) + 1 BY <2>1
  <2> QED BY <1>1, <2>1, <2>2 DEF KnownOperands
<1>2. ASSUME o # <<>> PROVE KnownOperands(Front(o))
  <2>1. /\ Front(o) \in Seq(Operand) /\ Len(Front(o)) = Len(o) - 1
        /\ \A k \in 1..Len(o) - 1 : Front(o)[k] = o[k] /\ k \in DOMAIN o
    <3>1. \A k \in 1..Len(o) - 1 : k \in DOMAIN o OBVIOUS
    <3> QED BY <1>2, <3>1, FrontParts
  <2>2. DOMAIN Front(o) = 1..Len(o) - 1 BY <2>1
  <2> QED BY <2>1, <2>2 DEF KnownOperands
<1> QED BY <1>1, <1>2

(* A command that stays in its function, and what it may do to operands.   *)
LEMMA StaysCompiled ==
  ASSUME Running, CallsCompiled, UNCHANGED vars, UNCHANGED frames,
         pc' \in {pc, Skip, Jump},
         \/ operands' = operands
         \/ operands' = Front(operands) /\ operands # <<>>
         \/ \E t \in Operand : /\ operands' = Append(operands, t)
                               /\ t \in Func => t \in defined
  PROVE  CallsCompiled'
<1>1. pc'.unit = pc.unit
  <2>1. pc \in Address BY DEF Running, MachineTypeOK
  <2> QED BY <2>1 DEF Skip, Jump, Address
<1>2. KnownOperands(operands) /\ operands \in Seq(Operand)
  BY DEF CallsCompiled, KnownOperands, Running, MachineTypeOK, Operand
<1>3. KnownOperands(operands') BY <1>2, KnownPushPop
<1>4. defined' = defined /\ frames' = frames BY DEF vars
<1> QED BY <1>1, <1>3, <1>4 DEF CallsCompiled, KnownOperands

(* A call enters a compiled function. *)
LEMMA CallStaysCompiled ==
  ASSUME Running, CallsCompiled, UNCHANGED vars, VisitCallCmd
  PROVE  CallsCompiled'
<1>1. HasCallee /\ IsAt("Call") BY DEF VisitCallCmd, FindsOperands, IsAt
<1>2. PICK o, g, n, address : /\ o = operands /\ g = Last(operands) /\ n = Len(frames)
                              /\ address = Skip
  OBVIOUS
<1>3. /\ o # <<>> /\ g \in Func /\ o \in Seq(Operand) /\ frames \in Seq(Frame)
      /\ n \in Nat /\ pc \in Address
  BY <1>1, <1>2 DEF HasCallee, Running, MachineTypeOK, Operand
<1>4. g \in defined
  <2>1. Len(o) \in DOMAIN o BY <1>3
  <2> QED BY <1>2, <1>3, <2>1 DEF CallsCompiled, Last
<1>5. PICK frame :
        /\ frames' = Append(frames, frame) /\ frame.return = address
        /\ pc' = [unit |-> g, pos |-> 1] /\ operands' = Front(o)
  BY Zenon, <1>2 DEF VisitCallCmd
<1>6. address.unit = pc.unit BY <1>2, <1>3 DEF Skip, Address
<1>7. /\ DOMAIN frames' = 1..n + 1 /\ frames'[n + 1] = frame
      /\ \A i \in 1..n : frames'[i] = frames[i] /\ i \in DOMAIN frames
  BY <1>2, <1>3, <1>5
<1>8. \A i \in 1..n + 1 : i \in 1..n \/ i = n + 1 BY <1>3
<1>9. \A i \in DOMAIN frames' : frames'[i].return.unit \in defined \cup {Main}
  BY <1>5, <1>6, <1>7, <1>8 DEF CallsCompiled
<1>10. KnownOperands(operands')
  BY <1>2, <1>3, <1>5, KnownPushPop DEF CallsCompiled, KnownOperands
<1>11. defined' = defined BY DEF vars
<1> QED BY <1>4, <1>5, <1>9, <1>10, <1>11 DEF CallsCompiled, KnownOperands

(* A return goes back to one. *)
LEMMA ReturnStaysCompiled ==
  ASSUME Running, CallsCompiled, UNCHANGED vars, VisitReturnCmd
  PROVE  CallsCompiled'
<1>1. /\ pc' = Last(frames).return /\ frames' = Front(frames)
      /\ operands' = operands /\ defined' = defined
  BY DEF VisitReturnCmd, vars
<1>2. frames \in Seq(Frame) /\ Len(frames) \in DOMAIN frames /\ frames # <<>>
  BY Current DEF Running, MachineTypeOK, FramesInv, FramesStack
<1>3. pc'.unit \in defined \cup {Main} BY <1>1, <1>2 DEF Last, CallsCompiled
<1>4. \A i \in DOMAIN frames' : i \in DOMAIN frames /\ frames'[i] = frames[i]
  BY <1>1, <1>2 DEF Front
<1> QED BY <1>1, <1>3, <1>4 DEF CallsCompiled

(* Every command keeps to compiled functions. *)
LEMMA CommandStaysCompiled ==
  ASSUME Running, CallsKnown, CallsCompiled, UNCHANGED vars, MachineNext,
         ~Execute, ~Exit
  PROVE  CallsCompiled'
<1>1. \A t \in DataType : t \in Operand /\ t \notin Func
  BY FuncsAssumption DEF Operand
<1>2. ASSUME HasCmd, CurrentCmd.op \in TypedOp \cup {"LoadLocalVarValue"}
      PROVE  CurrentCmd.type \in DataType
  <2>1. PICK cmd : cmd = CurrentCmd OBVIOUS
  <2>2. cmd \in Cmd /\ cmd.op \in TypedOp \cup {"LoadLocalVarValue"} BY <1>2, <2>1, Fetched
  <2>3. cmd.type \in DataType BY ONLY <2>2 DEF Cmd, TypedOp, JumpOp
  <2> QED BY <2>1, <2>3
<1>3. CASE VisitLoadValueCmd
  <2>1. HasCmd /\ CurrentCmd.op = "LoadValue" /\ Push(CurrentCmd.type)
        /\ UNCHANGED frames
    BY <1>3 DEF VisitLoadValueCmd, IsAt
  <2>2. CurrentCmd.type \in DataType BY <1>2, <2>1 DEF TypedOp
  <2>3. \/ operands' = operands /\ pc' = pc
        \/ operands' = Append(operands, CurrentCmd.type) /\ pc' = Skip
    BY <2>1 DEF Push
  <2> QED BY <1>1, <2>1, <2>2, <2>3, StaysCompiled
<1>4. CASE VisitLoadFuncValueCmd
  <2>1. HasCmd /\ CurrentCmd.op = "LoadFuncValue" /\ Push(CurrentCmd.func)
        /\ UNCHANGED frames
    BY <1>4 DEF VisitLoadFuncValueCmd, IsAt
  <2>2. CurrentCmd.func \in defined
    BY <2>1, CompiledCalls, Current DEF HasCmd, CurrentCmd
  <2>3. CurrentCmd.func \in Operand
    BY <2>2 DEF Operand, Running, TypeInv, TypeOK
  <2>4. \/ operands' = operands /\ pc' = pc
        \/ operands' = Append(operands, CurrentCmd.func) /\ pc' = Skip
    BY <2>1 DEF Push
  <2> QED BY <2>1, <2>2, <2>3, <2>4, StaysCompiled
<1>5. CASE VisitLoadLocalVarValueCmd
  <2>1. HasCmd /\ CurrentCmd.op = "LoadLocalVarValue" /\ UNCHANGED frames
    BY <1>5 DEF VisitLoadLocalVarValueCmd, IsAt
  <2>2. CurrentCmd.type \in DataType BY <1>2, <2>1
  <2>3. \/ operands' = operands /\ pc' = pc
        \/ operands' = Append(operands, CurrentCmd.type) /\ pc' = Skip
    BY <1>5 DEF VisitLoadLocalVarValueCmd, Push
  <2> QED BY <1>1, <2>1, <2>2, <2>3, StaysCompiled
<1>6. CASE VisitCreateLocalVarCmd \/ VisitDestroyLocalVarCmd \/ VisitDirectJumpCmd
  BY <1>6, StaysCompiled
     DEF VisitCreateLocalVarCmd, VisitDestroyLocalVarCmd, VisitDirectJumpCmd, PushLocal
<1>7. CASE VisitCreateAndInitLocalVarCmd \/ VisitUnloadCmd \/ VisitSumCmd
           \/ VisitJumpIfNotCmd
  <2>1. /\ HasCmd /\ FindsOperands /\ UNCHANGED frames /\ operands' = Front(operands)
        /\ CurrentCmd.op \in {"CreateAndInitLocalVar", "Unload", "Sum", "JumpIfNot"}
        /\ pc' \in {pc, Skip, Jump}
    BY <1>7 DEF VisitCreateAndInitLocalVarCmd, VisitUnloadCmd, VisitSumCmd,
                VisitJumpIfNotCmd, IsAt, PushLocal
  <2>2. operands # <<>>
    <3>1. \E types : types \in {<<CurrentCmd.type>>, <<CurrentCmd.type, CurrentCmd.type>>,
                               <<Bool>>} /\ Ends(types)
      BY <2>1 DEF FindsOperands
    <3>2. 1 <= Len(operands) BY <3>1 DEF Ends
    <3>3. Len(<<>>) = 0 OBVIOUS
    <3> QED BY <3>2, <3>3
  <2> QED BY <2>1, <2>2, StaysCompiled
<1>8. CASE VisitCallCmd BY <1>8, CallStaysCompiled
<1>9. CASE VisitReturnCmd BY <1>9, ReturnStaysCompiled
<1> QED BY <1>3, <1>4, <1>5, <1>6, <1>7, <1>8, <1>9 DEF MachineNext

(* Every step keeps the invariant. *)
LEMMA RunKeepsFaults ==
  ASSUME RunInv, FaultInv, RunNext \/ UNCHANGED all_vars
  PROVE  FaultInv'
<1>1. Next \/ Ended \/ UNCHANGED vars BY DEF RunNext, Halted, all_vars
<1>2. CallsKnown' BY <1>1, NextKeepsKnown DEF RunInv, FaultInv
<1>3. CASE Next /\ UNCHANGED machine_vars
  <2>1. status = "idle" /\ status' = "idle"
    BY <1>3, NextCompiles DEF RunInv, MachineInv, machine_vars
  <2> QED BY <1>2, <2>1 DEF FaultInv
<1>4. CASE Halted \/ UNCHANGED all_vars
  <2>1. UNCHANGED vars /\ UNCHANGED machine_vars BY <1>4 DEF Halted, all_vars
  <2>2. /\ status' = status /\ pc' = pc /\ operands' = operands /\ frames' = frames
        /\ code' = code /\ defined' = defined
    BY <2>1 DEF vars, machine_vars
  <2>3. (CallsCompiled' <=> CallsCompiled) /\ (AbortsInSelfRead' <=> AbortsInSelfRead)
    BY <2>2 DEF CallsCompiled, AbortsInSelfRead, CurrentCmd
  <2> QED BY <1>2, <2>2, <2>3 DEF FaultInv
<1>5. CASE MachineNext /\ UNCHANGED vars
  <2>1. CASE Execute
    <3>1. /\ status = "idle" /\ status' = "running" /\ frames' = <<MainFrame>>
          /\ UNCHANGED <<pc, operands>>
      BY <2>1 DEF Execute
    <3>2. pc = [unit |-> Main, pos |-> 1] /\ operands = <<>>
      BY <3>1 DEF RunInv, MachineInv
    <3>3. DOMAIN frames' = 1..1 /\ frames'[1] = MainFrame BY <3>1
    <3>4. \A i \in DOMAIN frames' : frames'[i].return.unit = Main
      <4>1. \A i \in 1..1 : i = 1 OBVIOUS
      <4> QED BY <3>3, <4>1 DEF MainFrame
    <3>5. CallsCompiled' BY <3>1, <3>2, <3>4 DEF CallsCompiled
    <3> QED BY <1>2, <3>1, <3>5 DEF FaultInv
  <2>2. CASE Exit BY <1>2, <2>2 DEF Exit, FaultInv
  <2>3. CASE ~Execute /\ ~Exit
    <3>1. Running BY <1>5, <2>3, CommandGoes DEF RunInv
    <3>2. status = "running"
      BY <1>5, <2>3
      DEF MachineNext, VisitLoadValueCmd, VisitLoadFuncValueCmd,
          VisitLoadLocalVarValueCmd, VisitCreateLocalVarCmd,
          VisitCreateAndInitLocalVarCmd, VisitDestroyLocalVarCmd, VisitUnloadCmd,
          VisitSumCmd, VisitDirectJumpCmd, VisitJumpIfNotCmd, VisitCallCmd,
          VisitReturnCmd, IsAt, HasCmd
    <3>3. CallsCompiled'
      BY <1>5, <2>3, <3>1, <3>2, CommandStaysCompiled DEF FaultInv
    <3>4. status' = "aborted" => AbortsInSelfRead' BY <1>5, <3>1, AbortsTruly
    <3> QED BY <1>2, <3>3, <3>4 DEF FaultInv
  <2> QED BY <2>1, <2>2, <2>3
<1> QED BY <1>3, <1>4, <1>5 DEF RunNext

(* Nothing is called before anything is compiled. *)
LEMMA InitFaults == RunInit => FaultInv
<1> SUFFICES ASSUME RunInit PROVE FaultInv OBVIOUS
<1>1. \A u \in Unit : DOMAIN code[u] = {} BY DEF RunInit, Init
<1>2. status = "idle" BY DEF RunInit, MachineInit
<1> QED BY <1>1, <1>2 DEF FaultInv, CallsKnown

(* The invariant is enough. *)
LEMMA FaultInvImplies == RunInv /\ FaultInv => OnlySelfReadsAbort
<1> SUFFICES ASSUME RunInv, FaultInv PROVE OnlySelfReadsAbort OBVIOUS
<1>1. ASSUME status = "running" PROVE AtExit \/ (HasCmd /\ FindsOperands)
  <2>1. Running BY <1>1, RunInvRuns
  <2> QED BY <1>1, <2>1, NeverPastFunctions, FindsThem DEF FaultInv
<1> QED BY <1>1 DEF FaultInv, AbortsInSelfRead, OnlySelfReadsAbort

(* Whatever program was compiled and however it runs: there is a next      *)
(* command until main code ends, so that no function is run past its code  *)
(* or before it is compiled; every command finds operands of the types it  *)
(* takes; and of the assertions of the storage only that of reading a slot *)
(* can fail, in the initializer of the variable that is read.              *)
THEOREM FaultsCorrect == RunSpec => []OnlySelfReadsAbort
<1>1. RunInit => RunInv /\ FaultInv BY RunKeeps, InitFaults
<1>2. RunInv /\ FaultInv /\ [RunNext]_all_vars => RunInv' /\ FaultInv'
  BY RunKeeps, RunKeepsFaults
<1> QED BY <1>1, <1>2, FaultInvImplies, PTL DEF RunSpec
=============================================================================
