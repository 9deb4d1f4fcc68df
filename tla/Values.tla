------------------------------- MODULE Values -------------------------------
(***************************************************************************)
(* Arrays and strings at run time: storages that count their references.   *)
(*                                                                         *)
(* A string or an array is a reference to a storage (ArrayValue,           *)
(* StringValue).  Nothing ties the counts to the references: an array is   *)
(* cloned and destroyed by hand, each time with the number of dimensions   *)
(* that the command carries, and addresses of items are raw pointers.  So  *)
(* the counts are right only if the generator emits, for every value of    *)
(* every statement, commands that give up each reference exactly once.     *)
(*                                                                         *)
(* A behaviour is a run of some program.  The next statement is chosen     *)
(* freely, compiled to the commands the generator emits for it, and these  *)
(* are executed one by one.  Calls are expanded: what is left of one is    *)
(* the commands for its arguments and its body (FlowMachine shows that     *)
(* frames do not disturb each other).  Characters are left out, integers   *)
(* are kept as far as they are indexes.                                    *)
(***************************************************************************)
EXTENDS Integers, Sequences, FiniteSets
LOCAL INSTANCE FiniteSetsExt

CONSTANTS
  Global,     \* the global variables
  TypeOf,     \* [Global -> Type]
  LocalType,  \* the types of local variables
  MaxDims,    \* arrays have at most so many dimensions
  Size,       \* the sizes of the arrays that are created
  Length,     \* the lengths of the arrays that are created with values
  StorageId,  \* addresses of storages, natural numbers
  Reserve,    \* a statement starts only if so many of them are free
  MaxLost,    \* a statement starts only if fewer references were lost
  MaxLocals,  \* bound on the local variables
  Depth,      \* bound on the nesting of expressions
  Form        \* the forms of expressions

Type == [base: {"int", "string"}, dims: 0..MaxDims]
Int0 == [base |-> "int", dims |-> 0]
String0 == [base |-> "string", dims |-> 0]
ArrayOf(t) == [t EXCEPT !.dims = @ + 1]
ElementOf(t) == [t EXCEPT !.dims = @ - 1]
IsArray(t) == t.dims > 0
HasStorage(t) == t # Int0

ASSUME ValuesAssumption ==
  /\ TypeOf \in [Global -> Type] /\ LocalType \subseteq Type
  /\ MaxDims \in Nat \ {0} /\ Depth \in Nat \ {0}
  /\ MaxLocals \in Nat /\ MaxLost \in Nat /\ Reserve \in Nat
  /\ Size \subseteq Nat /\ Length \subseteq Nat
  /\ StorageId \subseteq Nat \ {0}

VARIABLES
  storages,  \* [allocated addresses -> Storage]
  globals,   \* [created global variables -> Value]
  locals,    \* local_vars_: variables with their types
  operands,  \* operands_
  code,      \* the commands of the current statement that are still to run
  status     \* "running", "exited", or how the run failed

vars == <<storages, globals, locals, operands, code, status>>

(* Values: an integer, a reference, or the address of a slot or an item.   *)
IntValue(i) == [kind |-> "int", int |-> i]
Ref(s) == [kind |-> "ref", id |-> s]
GlobalAddress(x) == [kind |-> "global", var |-> x]
LocalAddress(i) == [kind |-> "local", index |-> i]
ItemAddress(s, i) == [kind |-> "item", id |-> s, index |-> i]
AnInt == IntValue(0)

(* ArrayValue<T>::Storage, StringValue::Storage.  lost is history: the     *)
(* references that were overwritten without being given up.                *)
NewStorage(t, items) == [refs |-> 1, type |-> t, items |-> items, lost |-> 0]

-----------------------------------------------------------------------------
(* Storages.  A memory is the function of the allocated ones with a flag   *)
(* that tells whether all accesses so far were to allocated storages of    *)
(* the right kind.                                                         *)

Memory == [at |-> storages, sound |-> TRUE]
Unsound(m) == [m EXCEPT !.sound = FALSE]

FreeId(m) == CHOOSE s \in StorageId \ DOMAIN m.at :
               \A r \in StorageId \ DOMAIN m.at : s <= r

(* Storages without items look alike, whatever the type of their items.    *)
Holds(m, s, t) ==
  /\ s \in DOMAIN m.at
  /\ \/ m.at[s].type = t
     \/ IsArray(m.at[s].type) /\ IsArray(t) /\ m.at[s].items = <<>>

Allocate(m, s, t, items) ==
  [m EXCEPT !.at = [r \in DOMAIN @ \cup {s} |->
                      IF r = s THEN NewStorage(t, items) ELSE @[r]]]

Free(m, s) == [m EXCEPT !.at = [r \in DOMAIN @ \ {s} |-> @[r]]]

(* Clone, and the copy constructor of a string. *)
CloneMutant(m, s, t) == IF Holds(m, s, t) THEN m ELSE Unsound(m)
Clone(m, s, t) ==
  IF Holds(m, s, t) THEN [m EXCEPT !.at[s].refs = @ + 1] ELSE Unsound(m)

(* The references among values, and among the items of a storage, each     *)
(* with its place: what holds it, where, and the storage.                  *)
RefsAmong(holder, values) ==
  {<<holder, i, values[i].id>> : i \in {j \in DOMAIN values : values[j].kind = "ref"}}
ItemsOf(at, s) ==
  {<<"item", <<s, r[2]>>, r[3]>> : r \in RefsAmong("item", at[s].items)}

(* References of one type are given up. *)
Losses(given, s) == Cardinality({g \in given : g[3] = s})
GiveUpAll(m, given, t) ==
  IF \A g \in given : Holds(m, g[3], t) /\ Losses(given, g[3]) <= m.at[g[3]].refs
  THEN [m EXCEPT !.at = [s \in {r \in DOMAIN m.at : m.at[r].refs > Losses(given, r)} |->
                           [m.at[s] EXCEPT !.refs = @ - Losses(given, s)]]]
  ELSE Unsound(m)
Freed(m, after) == DOMAIN m.at \ DOMAIN after.at

(* Give up one reference; the last one takes the items along, and theirs.  *)
(* The items of all storages that go at once are given up together, while  *)
(* the code goes down into one after the other: the counts say the same.   *)
DecRefsCountMutant(m, s, t) ==
  IF ~Holds(m, s, t) THEN Unsound(m)
  ELSE IF m.at[s].refs > 1 THEN [m EXCEPT !.at[s].refs = @ - 1]
  ELSE Free(m, s)
DecRefsCount(m, s, t) ==
  LET level[d \in 0..t.dims + 1] ==
        IF d = 0 THEN [memory |-> m, given |-> {<<"given", 0, s>>}]
        ELSE LET before == level[d - 1]
                 after == GiveUpAll(before.memory, before.given, [t EXCEPT !.dims = @ - (d - 1)])
             IN  [memory |-> after,
                  given |-> UNION {ItemsOf(before.memory.at, r) : r \in Freed(before.memory, after)}]
  IN  level[t.dims + 1].memory

Copy(m, value, t) == IF HasStorage(t) THEN Clone(m, value.id, t) ELSE m
Destroy(m, value, t) == IF HasStorage(t) THEN DecRefsCount(m, value.id, t) ELSE m

(* Items are added to an array: T(), which is an empty string, an empty    *)
(* array or 0.  new are the storages of those added.                       *)
AddItem(built, s, t) ==
  LET r == FreeId(built.memory)
      Added(m, value) == [m EXCEPT !.at[s].items = Append(@, value)]
  IN  IF HasStorage(t)
      THEN [memory |-> Added(Allocate(built.memory, r, t, <<>>), Ref(r)),
            new |-> Append(built.new, r)]
      ELSE [memory |-> Added(built.memory, AnInt), new |-> built.new]

AddItems(built, s, t, size) ==
  LET adding[i \in 0..size] == IF i = 0 THEN built ELSE AddItem(adding[i - 1], s, t)
  IN  adding[size]

(* Arrays get items of a type. *)
FillArrays(m, arrays, t, size) ==
  LET filling[i \in 0..Len(arrays)] ==
        IF i = 0 THEN [memory |-> m, new |-> <<>>]
        ELSE AddItems(filling[i - 1], arrays[i], t, size)
  IN  filling[Len(arrays)]

(* An array of arrays, dimension by dimension. *)
Multidimensional(m, t, dimensions) ==
  LET s == FreeId(m)
      level[d \in 0..Len(dimensions)] ==
        IF d = 0 THEN [memory |-> Allocate(m, s, t, <<>>), new |-> <<s>>]
        ELSE FillArrays(level[d - 1].memory, level[d - 1].new,
                        [t EXCEPT !.dims = @ - d], dimensions[d])
  IN  IF HasStorage(t) THEN [memory |-> level[Len(dimensions)].memory, value |-> Ref(s)]
      ELSE [memory |-> m, value |-> AnInt]

DefaultMutant(m, t) == [memory |-> m, value |-> AnInt]
Default(m, t) == Multidimensional(m, t, <<>>)

-----------------------------------------------------------------------------
(* Commands; type is what the name of the command and its number of        *)
(* dimensions say.                                                         *)

Cmd(op, t) == [op |-> op, type |-> t]
LoadIntValue(i) == [op |-> "LoadIntValue", int |-> i]
LoadStringValue == [op |-> "LoadStringValue"]
CreateGlobalVar(x) == [op |-> "CreateGlobalVar", var |-> x, type |-> TypeOf[x]]
CreateAndInitGlobalVar(x) ==
  [op |-> "CreateAndInitGlobalVar", var |-> x, type |-> TypeOf[x]]
LoadGlobalVarValue(x) == [op |-> "LoadGlobalVarValue", var |-> x, type |-> TypeOf[x]]
LoadGlobalVarAddress(x) == [op |-> "LoadGlobalVarAddress", var |-> x]
LoadLocalVarValue(i, t) == [op |-> "LoadLocalVarValue", index |-> i, type |-> t]
LoadLocalVarAddress(i) == [op |-> "LoadLocalVarAddress", index |-> i]
CreateLocalVar(t) == Cmd("CreateLocalVar", t)
CreateAndInitLocalVar(t) == Cmd("CreateAndInitLocalVar", t)
DestroyLocalVar(t) == Cmd("DestroyLocalVar", t)
Unload(t) == Cmd("Unload", t)
CreateArray(t, dims) == [op |-> "CreateArray", type |-> t, dims |-> dims]
CreateAndInitArray(t, count) ==
  [op |-> "CreateAndInitArray", type |-> t, count |-> count]
LoadElementValue(t) == Cmd("LoadArrayElementValue", t)
LoadElementAddress(t) == Cmd("LoadArrayElementAddress", t)
StoreCmd(t) == Cmd("Store", t)
EqualCmd(t) == Cmd("Equal", t)
SumString == Cmd("Sum", String0)
PreIncInt == [op |-> "PreInc"]
CallNativePrint == [op |-> "CallNative"]

(* The code of an expression, by the visits of the generator. *)
FromLast(codes) ==
  LET after[n \in 0..Len(codes)] == IF n = 0 THEN <<>> ELSE codes[n] \o after[n - 1]
  IN  after[Len(codes)]
VisitArrayAllocWithoutInit(t, sizes) ==
  Append(FromLast([i \in DOMAIN sizes |-> <<LoadIntValue(sizes[i])>>]),
         CreateArray(t, Len(sizes)))
VisitArrayAllocWithInit(t, values) ==
  Append(FromLast(values), CreateAndInitArray(t, Len(values)))
VisitSubscript(index, operand, t) == index \o operand \o <<LoadElementValue(t)>>
VisitSum(left, right) == left \o right \o <<SumString>>
EqualExpr(left, right, t) == left \o right \o <<EqualCmd(t)>>
VisitAssign(left, right, t) == right \o left \o <<StoreCmd(t)>>

(* The variables of a type: the code for their values and addresses.       *)
Variables(t) ==
  {[value |-> <<LoadGlobalVarValue(x)>>, address |-> <<LoadGlobalVarAddress(x)>>] :
     x \in {y \in DOMAIN globals : TypeOf[y] = t}}
  \cup {[value |-> <<LoadLocalVarValue(i, t)>>, address |-> <<LoadLocalVarAddress(i)>>] :
     i \in {j \in DOMAIN locals : locals[j].type = t}}

(* return x; in a function whose argument x is.                            *)
VisitCallOfIdentity(arg, t) ==
  arg \o <<CreateAndInitLocalVar(t), LoadLocalVarValue(Len(locals) + 1, t),
           DestroyLocalVar(t)>>

(* A function that changes a global variable before it returns a value.    *)
VisitCallWithEffect(x, value) ==
  VisitAssign(<<LoadGlobalVarAddress(x)>>,
              IF IsArray(TypeOf[x])
              THEN VisitArrayAllocWithInit(TypeOf[x], <<>>)
              ELSE <<LoadStringValue>>, TypeOf[x]) \o value

Literals(t) ==
  IF t = String0 THEN {<<LoadStringValue>>}
  ELSE IF t = Int0 THEN {<<LoadIntValue(0)>>}
  ELSE IF "alloc" \in Form
       THEN {VisitArrayAllocWithoutInit(t, sizes) : sizes \in [1..t.dims -> Size]}
       ELSE {}

Effects == IF "effect" \in Form
           THEN {x \in DOMAIN globals : HasStorage(TypeOf[x])} ELSE {}

Indexes == {<<LoadIntValue(i)>> : i \in 0..1}
             \cup {VisitCallWithEffect(x, <<LoadIntValue(0)>>) : x \in Effects}

(* The expressions of a type; inner are those that they are made of.       *)
ComposedExprs(t, inner) ==
  (IF t.dims = MaxDims THEN {}
   ELSE {VisitSubscript(i, e, ArrayOf(t)) : i \in Indexes, e \in inner[ArrayOf(t)]})
  \cup (IF "init" \notin Form \/ ~IsArray(t) THEN {}
        ELSE {VisitArrayAllocWithInit(t, values) :
                values \in UNION {[1..n -> inner[ElementOf(t)]] : n \in Length}})
  \cup (IF "call" \notin Form \/ ~HasStorage(t) THEN {}
        ELSE {VisitCallOfIdentity(e, t) : e \in inner[t]})
  \cup (IF t # String0 THEN {} ELSE {VisitSum(l, r) : l, r \in inner[t]})
  \cup {VisitCallWithEffect(x, e) : x \in Effects, e \in Literals(t)}

Exprs[depth \in 0..Depth] ==
  [t \in Type |-> {v.value : v \in Variables(t)} \cup Literals(t)
                 \cup IF depth = 0 THEN {} ELSE ComposedExprs(t, Exprs[depth - 1])]

(* What may be assigned to: a variable, or an item of what may be.         *)
AssignableItems(t, inner) ==
  IF t.dims = MaxDims THEN {}
  ELSE {[value |-> VisitSubscript(i, e.value, ArrayOf(t)),
         address |-> i \o e.value \o <<LoadElementAddress(ArrayOf(t))>>] :
          i \in Indexes, e \in inner[ArrayOf(t)]}

Assignable[depth \in 0..Depth] ==
  [t \in Type |->
     Variables(t)
     \cup IF depth = 0 THEN {} ELSE AssignableItems(t, Assignable[depth - 1])]

-----------------------------------------------------------------------------
(* Statements *)

CanStart ==
  /\ status = "running" /\ code = <<>>
  /\ IsFiniteSet(StorageId) => Cardinality(StorageId \ DOMAIN storages) >= Reserve
  /\ MapThenSumSet(LAMBDA s : storages[s].lost, DOMAIN storages) < MaxLost

Compile(cmds) ==
  /\ code' = cmds
  /\ UNCHANGED <<storages, globals, locals, operands, status>>

VisitGlobalVarDef ==
  /\ CanStart
  /\ \E x \in Global \ DOMAIN globals :
       \/ Compile(<<CreateGlobalVar(x)>>)
       \/ \E e \in Exprs[Depth][TypeOf[x]] : Compile(Append(e, CreateAndInitGlobalVar(x)))

VisitLocalVarDef ==
  /\ CanStart /\ Len(locals) < MaxLocals
  /\ \E t \in LocalType :
       \/ Compile(<<CreateLocalVar(t)>>)
       \/ \E e \in Exprs[Depth][t] : Compile(Append(e, CreateAndInitLocalVar(t)))

LastLocal == locals[Len(locals)]

EndScope ==
  /\ status = "running" /\ code = <<>> /\ locals # <<>>
  /\ Compile(<<DestroyLocalVar(LastLocal.type)>>)

StmtType == {TypeOf[x] : x \in Global} \cup LocalType

AssignStmt ==
  /\ CanStart
  /\ \E t \in StmtType \cup {Int0} :
       \E left \in Assignable[Depth][t] : \E right \in Exprs[Depth][t] :
         Compile(VisitAssign(left.address, right, t))

PreIncStmt ==
  /\ CanStart
  /\ \E left \in Assignable[Depth][Int0] : Compile(Append(left.address, PreIncInt))

ExprStmt ==
  /\ CanStart
  /\ \E t \in StmtType :
       \/ \E e \in Exprs[Depth][t] :
            Compile(Append(e, IF t = String0 THEN CallNativePrint ELSE Unload(t)))
       \/ \E l, r \in Exprs[Depth - 1][t] : Compile(Append(EqualExpr(l, r, t), Unload(Int0)))

Exit ==
  /\ status = "running" /\ code = <<>> /\ locals = <<>>
  /\ status' = "exited"
  /\ UNCHANGED <<storages, globals, locals, operands, code>>

-----------------------------------------------------------------------------
(* The machine *)

Executes(op) ==
  /\ status = "running" /\ code # <<>> /\ Head(code).op = op
  /\ code' = Tail(code)

Arg == Head(code)
Top(n) == operands[Len(operands) - n + 1]
Popped(n) == SubSeq(operands, 1, Len(operands) - n)
Push(n, value) == operands' = Append(Popped(n), value)

(* The step ends with this memory, if all it did was sound. *)
Ends(m) ==
  /\ storages' = m.at
  /\ status' = IF m.sound THEN "running" ELSE "corrupt"

Abort ==
  /\ status' = "aborted"
  /\ UNCHANGED <<storages, globals, locals, operands>>

VisitLoadIntValue ==
  /\ Executes("LoadIntValue")
  /\ Push(0, IntValue(Arg.int)) /\ Ends(Memory) /\ UNCHANGED <<globals, locals>>

VisitLoadStringValue ==
  /\ Executes("LoadStringValue")
  /\ LET new == Default(Memory, String0) IN Push(0, new.value) /\ Ends(new.memory)
  /\ UNCHANGED <<globals, locals>>

SetGlobal(x, value) ==
  globals' = [y \in DOMAIN globals \cup {x} |-> IF y = x THEN value ELSE globals[y]]

VisitCreateGlobalVar ==
  /\ Executes("CreateGlobalVar")
  /\ LET new == Default(Memory, Arg.type) IN
       SetGlobal(Arg.var, new.value) /\ Ends(new.memory)
  /\ UNCHANGED <<locals, operands>>

VisitCreateAndInitGlobalVar ==
  /\ Executes("CreateAndInitGlobalVar")
  /\ SetGlobal(Arg.var, Top(1)) /\ operands' = Popped(1) /\ Ends(Memory)
  /\ UNCHANGED locals

PushLocal(t, value) == locals' = Append(locals, [type |-> t, value |-> value])

VisitCreateLocalVar ==
  /\ Executes("CreateLocalVar")
  /\ LET new == Default(Memory, Arg.type) IN
       PushLocal(Arg.type, new.value) /\ Ends(new.memory)
  /\ UNCHANGED <<globals, operands>>

VisitCreateAndInitLocalVar ==
  /\ Executes("CreateAndInitLocalVar")
  /\ PushLocal(Arg.type, Top(1)) /\ operands' = Popped(1) /\ Ends(Memory)
  /\ UNCHANGED globals

VisitDestroyLocalVar ==
  /\ Executes("DestroyLocalVar")
  /\ Ends(Destroy(Memory, LastLocal.value, Arg.type))
  /\ locals' = SubSeq(locals, 1, Len(locals) - 1)
  /\ UNCHANGED <<globals, operands>>

VisitUnload ==
  /\ Executes("Unload")
  /\ Ends(Destroy(Memory, Top(1), Arg.type))
  /\ operands' = Popped(1)
  /\ UNCHANGED <<globals, locals>>

(* print() takes its argument from the operands. *)
VisitCallNative ==
  /\ Executes("CallNative")
  /\ Ends(Destroy(Memory, Top(1), String0))
  /\ operands' = Popped(1)
  /\ UNCHANGED <<globals, locals>>

VisitLoadGlobalVarValue ==
  /\ Executes("LoadGlobalVarValue")
  /\ Push(0, globals[Arg.var])
  /\ Ends(Copy(Memory, globals[Arg.var], Arg.type))
  /\ UNCHANGED <<globals, locals>>

VisitLoadLocalVarValue ==
  /\ Executes("LoadLocalVarValue")
  /\ Push(0, locals[Arg.index].value)
  /\ Ends(Copy(Memory, locals[Arg.index].value, Arg.type))
  /\ UNCHANGED <<globals, locals>>

VisitLoadGlobalVarAddress ==
  /\ Executes("LoadGlobalVarAddress")
  /\ Push(0, GlobalAddress(Arg.var)) /\ Ends(Memory) /\ UNCHANGED <<globals, locals>>

VisitLoadLocalVarAddress ==
  /\ Executes("LoadLocalVarAddress")
  /\ Push(0, LocalAddress(Arg.index)) /\ Ends(Memory) /\ UNCHANGED <<globals, locals>>

(* Size by size, the outermost first. *)
VisitCreateArray ==
  /\ Executes("CreateArray")
  /\ LET sizes == [i \in 1..Arg.dims |-> Top(i).int]
         new == Multidimensional(Memory, Arg.type, sizes)
     IN  Push(Arg.dims, new.value) /\ Ends(new.memory)
  /\ UNCHANGED <<globals, locals>>

VisitCreateAndInitArray ==
  /\ Executes("CreateAndInitArray")
  /\ LET s == FreeId(Memory)
         items == [i \in 1..Arg.count |-> Top(i)]
     IN  Push(Arg.count, Ref(s)) /\ Ends(Allocate(Memory, s, Arg.type, items))
  /\ UNCHANGED <<globals, locals>>

(* The operand is an array over its index.  It is destroyed after what is  *)
(* wanted of it was pushed.                                                *)
HasItem(m, array, i) == array \in DOMAIN m.at => i < Len(m.at[array].items)

LoadArrayElementValueMutant(array, i) ==
  LET item == storages[array].items[i + 1]
      element == ElementOf(Arg.type)
  IN  /\ Push(2, item)
      /\ Ends(Copy(Destroy(Memory, Ref(array), Arg.type), item, element))
      /\ UNCHANGED <<globals, locals>>

LoadArrayElementValue(array, i) ==
  LET item == storages[array].items[i + 1]
      element == ElementOf(Arg.type)
  IN  /\ Push(2, item)
      /\ Ends(Destroy(Copy(Memory, item, element), Ref(array), Arg.type))
      /\ UNCHANGED <<globals, locals>>

VisitLoadArrayElementValue ==
  /\ Executes("LoadArrayElementValue")
  /\ LET array == Top(1).id
         i == Top(2).int
     IN  IF ~Holds(Memory, array, Arg.type)
         THEN Ends(Unsound(Memory)) /\ UNCHANGED <<globals, locals, operands>>
         ELSE IF HasItem(Memory, array, i) THEN LoadArrayElementValue(array, i)
         ELSE Abort

VisitLoadArrayElementAddress ==
  /\ Executes("LoadArrayElementAddress")
  /\ LET array == Top(1).id
         i == Top(2).int
     IN  IF HasItem(Memory, array, i)
         THEN /\ Push(2, ItemAddress(array, i))
              /\ Ends(Destroy(Memory, Ref(array), Arg.type))
              /\ UNCHANGED <<globals, locals>>
         ELSE Abort

(* What an address leads to, and the effect of writing there.              *)
Points(address) ==
  \/ address.kind \in {"global", "local"}
  \/ /\ address.kind = "item"
     /\ address.id \in DOMAIN storages
     /\ address.index < Len(storages[address.id].items)

At(address) ==
  CASE address.kind = "global" -> globals[address.var]
    [] address.kind = "local" -> locals[address.index].value
    [] OTHER -> storages[address.id].items[address.index + 1]

SetItem(m, s, i, value) == [m EXCEPT !.at[s].items[i] = value]

Put(m, address, value) ==
  /\ globals' = IF address.kind = "global"
                THEN [globals EXCEPT ![address.var] = value] ELSE globals
  /\ locals' = IF address.kind = "local"
               THEN [locals EXCEPT ![address.index].value = value] ELSE locals
  /\ Ends(IF address.kind = "item"
          THEN SetItem(m, address.id, address.index + 1, value) ELSE m)

(* Set gives up the array that was there; the move assignment of a string  *)
(* forgets the one it overwrites.                                          *)
Lose(m, s) == [m EXCEPT !.at[s].lost = @ + 1]
GiveUp(m, old, t) ==
  IF IsArray(t) THEN Destroy(m, old, t)
  ELSE IF t = String0 THEN Lose(m, old.id)
  ELSE m

Writes(n, value, t) ==
  IF Points(Top(1))
  THEN Put(GiveUp(Memory, At(Top(1)), t), Top(1), value) /\ operands' = Popped(n)
  ELSE Ends(Unsound(Memory)) /\ UNCHANGED <<globals, locals, operands>>

VisitStore ==
  /\ Executes("Store")
  /\ Writes(2, Top(2), Arg.type)

(* What is stored is not an index: integers all count as 0. *)
VisitPreInc ==
  /\ Executes("PreInc")
  /\ Writes(1, AnInt, Int0)

VisitEqual ==
  /\ Executes("Equal")
  /\ Push(2, AnInt)
  /\ Ends(Destroy(Destroy(Memory, Top(2), Arg.type), Top(1), Arg.type))
  /\ UNCHANGED <<globals, locals>>

(* The operands live until the sum is pushed. *)
VisitSumString ==
  /\ Executes("Sum")
  /\ LET new == Default(Memory, String0) IN
       /\ Push(2, new.value)
       /\ Ends(Destroy(Destroy(new.memory, Top(2), String0), Top(1), String0))
  /\ UNCHANGED <<globals, locals>>

Init ==
  /\ storages = [s \in {} |-> NewStorage(String0, <<>>)]
  /\ globals = [x \in {} |-> AnInt]
  /\ locals = <<>> /\ operands = <<>> /\ code = <<>> /\ status = "running"

Compiles == VisitGlobalVarDef \/ VisitLocalVarDef \/ EndScope \/ AssignStmt
              \/ PreIncStmt \/ ExprStmt

ExecutesCmd ==
  \/ VisitLoadIntValue \/ VisitLoadStringValue
  \/ VisitCreateGlobalVar \/ VisitCreateAndInitGlobalVar
  \/ VisitCreateLocalVar \/ VisitCreateAndInitLocalVar \/ VisitDestroyLocalVar
  \/ VisitUnload \/ VisitCallNative
  \/ VisitLoadGlobalVarValue \/ VisitLoadLocalVarValue
  \/ VisitLoadGlobalVarAddress \/ VisitLoadLocalVarAddress
  \/ VisitCreateArray \/ VisitCreateAndInitArray
  \/ VisitLoadArrayElementValue \/ VisitLoadArrayElementAddress
  \/ VisitStore \/ VisitPreInc \/ VisitEqual \/ VisitSumString

Next == Compiles \/ ExecutesCmd \/ Exit

Spec == Init /\ [][Next]_vars
-----------------------------------------------------------------------------
(* Properties *)

Value == {IntValue(i) : i \in {0, 1} \cup Size} \cup {Ref(s) : s \in StorageId}
Address == {GlobalAddress(x) : x \in Global} \cup {LocalAddress(i) : i \in 1..MaxLocals}
             \cup {ItemAddress(s, i) : s \in StorageId, i \in {0, 1} \cup Size}

(* The values of all variables are of their types: slots hold values that  *)
(* their types have, and addresses are met on operands only.               *)
ValuesTypeOK ==
  /\ DOMAIN storages \subseteq StorageId
  /\ \A s \in DOMAIN storages :
       /\ storages[s].refs \in Nat \ {0} /\ storages[s].lost \in Nat
       /\ storages[s].type \in Type \ {Int0} /\ storages[s].items \in Seq(Value)
  /\ DOMAIN globals \subseteq Global
  /\ \A x \in DOMAIN globals : globals[x] \in Value /\ HasStorage(TypeOf[x]) = (globals[x].kind = "ref")
  /\ \A i \in DOMAIN locals : locals[i].type \in Type /\ locals[i].value \in Value
  /\ \A i \in DOMAIN operands : operands[i] \in Value \cup Address
  /\ status \in {"running", "exited", "aborted", "corrupt"}

(* All references, and those to a storage. *)
OfVariables ==
  RefsAmong("global", globals)
  \cup RefsAmong("local", [i \in DOMAIN locals |-> locals[i].value])
References ==
  OfVariables \cup RefsAmong("operand", operands)
  \cup UNION {ItemsOf(storages, s) : s \in DOMAIN storages}
Holders(s) == {r \in References : r[3] = s}

(* A storage counts the variables, operands and items that refer to it,    *)
(* after every single command (Clone, DecRefsCount, Set and the moves that *)
(* change no count).  Only the move assignment of a string loses some.     *)
CountsHolders ==
  status = "running" =>
    \A s \in DOMAIN storages :
      /\ storages[s].refs = Cardinality(Holders(s)) + storages[s].lost
      /\ storages[s].lost > 0 => storages[s].type = String0

(* No command meets a storage that was freed or is of another kind, and no *)
(* store goes through the address of an item that is gone: the operand     *)
(* that held the array is given up before the store, so some variable must *)
(* hold it (the right side is evaluated before the left, VisitAssign, and  *)
(* what a subscript calls is not assignable).                              *)
NeverCorrupt == status # "corrupt"

(* What the variables lead to: the least set that has the storages of      *)
(* variables and those of its items.                                       *)
IsClosed(ids) ==
  \A s \in ids : \A r \in ItemsOf(storages, s) : r[3] \in ids
Reached ==
  {s \in DOMAIN storages :
     \A ids \in SUBSET DOMAIN storages :
       (\A r \in OfVariables : r[3] \in ids) /\ IsClosed(ids) => s \in ids}

(* Between statements nothing is left of the last one: no operand, and no  *)
(* storage that no variable leads to, but for strings that lost a          *)
(* reference.  The generator decides it: each operand a statement leaves   *)
(* must meet an Unload, a Store or a command that consumes it.             *)
StatementsLeaveNothing ==
  (status = "running" /\ code = <<>>) =>
    /\ operands = <<>>
    /\ \A s \in DOMAIN storages \ Reached : storages[s].lost > 0
=============================================================================
