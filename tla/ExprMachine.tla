---------------------------- MODULE ExprMachine -----------------------------
(***************************************************************************)
(* From a statement to what it does: the analyzer accepts it or not, the   *)
(* generator writes its commands and those of the functions, the machine   *)
(* reads them byte by byte and runs them.                                  *)
(*                                                                         *)
(* Each visit of a command in simple_vm.cpp is an action.  Values carry    *)
(* their types here; the machine's do not, it takes from a storage what    *)
(* the command says (Pop<T>).  Arrays are never destroyed (see Values) and *)
(* storages do not overflow (see FlowMachine).                             *)
(***************************************************************************)
EXTENDS ExprCompiler
LOCAL INSTANCE SequencesExt

CONSTANTS
  Stmt,         \* the statements that may be run, as trees
  GlobalValue,  \* [name -> the value that a global variable starts with]
  InitialHeap   \* the storages of these values

VARIABLES
  stmt,      \* the statement
  phase,     \* "parsed", "analyzed", "rejected", "running", "exited",
             \* "undefined" behaviour or "aborted" by an assertion
  analysis,  \* of the statement
  code,      \* the code of the statement and of the functions
  position,  \* GetPosition()
  operands,  \* operands_
  locals,    \* the slots of local_vars_
  frames,    \* func_frames_ but for main's
  globals,   \* [created variables -> values]
  heap,      \* the storages of arrays
  calls      \* history: the calls of native functions, with their arguments

vars == <<stmt, phase, analysis, code, position, operands, locals, frames, globals, heap, calls>>
program == <<stmt, analysis, code>>

NoCode == [at |-> Written(<<>>), asserted |-> FALSE, mainEnd |-> 0, entry |-> <<>>]
NoAnalysis == ThrowError(BreakNode, "unknown")

Init ==
  /\ stmt \in Stmt /\ phase = "parsed" /\ analysis = NoAnalysis /\ code = NoCode
  /\ position = 0 /\ operands = <<>> /\ locals = <<>> /\ frames = <<>>
  /\ globals = GlobalValue /\ heap = InitialHeap /\ calls = <<>>

Analyze ==
  /\ phase = "parsed"
  /\ analysis' = VisitStmt(stmt, <<>>, VoidDataType)
  /\ phase' = IF Succeeds(analysis') THEN "analyzed" ELSE "rejected"
  /\ UNCHANGED <<stmt, code, position, operands, locals, frames, globals, heap, calls>>

GenerateCode ==
  /\ phase = "analyzed"
  /\ code' = GenerateProgram(analysis)
  /\ phase' = IF code'.asserted THEN "aborted" ELSE "running"
  /\ UNCHANGED <<stmt, analysis, position, operands, locals, frames, globals, heap, calls>>

-----------------------------------------------------------------------------
(* What commands find.  Slots of a value of two slots: the value, the rest. *)

SecondSlot == Value(Prim("second slot"), <<>>)
Slots(value) == IF SizeOf(value.type) = 2 THEN <<value, SecondSlot>> ELSE <<value>>
FirstSlot == IF frames = <<>> THEN 0 ELSE Last(frames).firstSlot
LocalAddress(index) == [in |-> "local", slot |-> FirstSlot + index + 1]
GlobalAddress(name) == [in |-> "global", name |-> name]
ItemAddress(array, index) == [in |-> "item", storage |-> Storage(array), index |-> Num(index) + 1]
Address(type, place) == [type |-> VarAddress(type), v |-> <<>>, place |-> place]

Cmd == GetNextCmd(code.at, position)
CmdDims == SelectSeq(Cmd.operand, LAMBDA field : field.is = "u8")
CmdType == [base |-> Cmd.id.base, dims |-> IF CmdDims = <<>> THEN 0 ELSE CmdDims[1].int]
Top(n) == operands[Len(operands) - n + 1]
Popped(n) == SubSeq(operands, 1, Len(operands) - n)

HasCmd == phase = "running" /\ (position # code.mainEnd \/ frames # <<>>)

(* The value at an address. *)
At(place) ==
  CASE place.in = "local" -> locals[place.slot]
    [] place.in = "global" -> globals[place.name]
    [] place.in = "item" -> heap[place.storage][place.index]

Push(n, value) ==
  /\ operands' = Append(Popped(n), value)
  /\ UNCHANGED <<locals, frames, globals, heap, calls>>

Executes(op) ==
  /\ HasCmd /\ IsReadable(code.at, position) /\ Cmd.id.op = op
  /\ UNCHANGED program

Goes(next) == position' = next /\ phase' = "running"
Advances == Goes(Cmd.next)

(* A run that ends here: undefined behaviour, or a failed assertion. *)
Ends(how) ==
  /\ phase' = how
  /\ UNCHANGED <<position, operands, locals, frames, globals, heap, calls>>

(* Replaces n operands by a result, which may be Undefined. *)
Yields(n, value) ==
  IF value = Undefined THEN Ends("undefined") ELSE Push(n, value) /\ Advances

-----------------------------------------------------------------------------
(* Loads *)

VisitLoadValueCmd ==
  /\ Executes("LoadValue")
  /\ Yields(0, Cmd.operand[1].value)

VisitLoadFuncValueCmd ==
  /\ Executes("LoadFuncValue")
  /\ Yields(0, Value(FuncDataType(Cmd.operand[1].var), <<>>))

VisitLoadNativeFuncValueCmd ==
  /\ Executes("LoadNativeFuncValue")
  /\ Yields(0, Value(FuncDataType(Cmd.operand[1].var), <<>>))

VisitLoadGlobalVarValueCmd ==
  /\ Executes("LoadGlobalVarValue") /\ ~Cmd.id.array
  /\ Yields(0, globals[Cmd.operand[1].var])

VisitLoadGlobalArrayVarValueCmd ==
  /\ Executes("LoadGlobalVarValue") /\ Cmd.id.array
  /\ Yields(0, globals[Cmd.operand[1].var])

VisitLoadLocalVarValueCmd ==
  /\ Executes("LoadLocalVarValue") /\ ~Cmd.id.array
  /\ Yields(0, At(LocalAddress(Cmd.operand[1].index)))

VisitLoadLocalArrayVarValueCmd ==
  /\ Executes("LoadLocalVarValue") /\ Cmd.id.array
  /\ Yields(0, At(LocalAddress(Cmd.operand[1].index)))

VisitLoadGlobalVarAddressCmd ==
  /\ Executes("LoadGlobalVarAddress")
  /\ LET place == GlobalAddress(Cmd.operand[1].var) IN Yields(0, Address(At(place).type, place))

VisitLoadLocalVarAddressCmd ==
  /\ Executes("LoadLocalVarAddress")
  /\ LET place == LocalAddress(Cmd.operand[1].index) IN Yields(0, Address(At(place).type, place))

(* The array is over its index. *)
VisitLoadArrayElementValueCmd ==
  /\ Executes("LoadArrayElementValue")
  /\ IF HasItem(heap, Top(1), Top(2)) THEN Yields(2, GetItem(heap, Top(1), Top(2)))
     ELSE Ends("aborted")

VisitLoadArrayElementAddressCmd ==
  /\ Executes("LoadArrayElementAddress")
  /\ IF HasItem(heap, Top(1), Top(2))
     THEN Yields(2, Address(ElementOf(CmdType), ItemAddress(Top(1), Top(2))))
     ELSE Ends("aborted")

-----------------------------------------------------------------------------
(* Variables, stores and arrays *)

CreatesGlobal(n, value) ==
  /\ globals' = [x \in DOMAIN globals \cup {Cmd.operand[1].var} |->
                   IF x = Cmd.operand[1].var THEN value ELSE globals[x]]
  /\ operands' = Popped(n)
  /\ Advances /\ UNCHANGED <<locals, frames, calls>>

VisitCreateGlobalVarCmd ==
  /\ Executes("CreateGlobalVar") /\ ~Cmd.id.array
  /\ CreatesGlobal(0, Default(CmdType)) /\ UNCHANGED heap

VisitCreateGlobalArrayVarCmd ==
  /\ Executes("CreateGlobalVar") /\ Cmd.id.array
  /\ LET new == NewArray(heap, analysis.type, <<>>)
     IN  CreatesGlobal(0, new.array) /\ heap' = new.heap

VisitCreateAndInitGlobalVarCmd ==
  /\ Executes("CreateAndInitGlobalVar") /\ ~Cmd.id.array
  /\ CreatesGlobal(1, Top(1)) /\ UNCHANGED heap

VisitCreateAndInitGlobalArrayVarCmd ==
  /\ Executes("CreateAndInitGlobalVar") /\ Cmd.id.array
  /\ CreatesGlobal(1, Top(1)) /\ UNCHANGED heap

CreatesLocal(n, value) ==
  /\ locals' = locals \o Slots(value) /\ operands' = Popped(n)
  /\ Advances /\ UNCHANGED <<frames, globals, heap, calls>>

VisitCreateLocalVarCmd ==
  /\ Executes("CreateLocalVar")
  /\ CreatesLocal(0, Default(CmdType))

VisitCreateAndInitLocalVarCmd ==
  /\ Executes("CreateAndInitLocalVar") /\ ~Cmd.id.array
  /\ CreatesLocal(1, Top(1))

VisitCreateAndInitLocalArrayVarCmd ==
  /\ Executes("CreateAndInitLocalVar") /\ Cmd.id.array
  /\ CreatesLocal(1, Top(1))

DropsLocal ==
  /\ locals' = SubSeq(locals, 1, Len(locals) - SizeOf(CmdType))
  /\ Advances /\ UNCHANGED <<operands, frames, globals, heap, calls>>

VisitDestroyLocalVarCmd == Executes("DestroyLocalVar") /\ ~Cmd.id.array /\ DropsLocal
VisitDestroyLocalArrayVarCmd == Executes("DestroyLocalVar") /\ Cmd.id.array /\ DropsLocal

Drops == operands' = Popped(1) /\ Advances /\ UNCHANGED <<locals, frames, globals, heap, calls>>
VisitUnloadCmd == Executes("Unload") /\ ~Cmd.id.array /\ Drops
VisitUnloadArrayCmd == Executes("Unload") /\ Cmd.id.array /\ Drops

(* Writes to where an address leads, after n operands. *)
Writes(n, place, value) ==
  IF value = Undefined THEN Ends("undefined")
  ELSE /\ locals' = IF place.in = "local" THEN [locals EXCEPT ![place.slot] = value] ELSE locals
       /\ globals' = IF place.in = "global" THEN [globals EXCEPT ![place.name] = value] ELSE globals
       /\ heap' = IF place.in = "item"
                  THEN [heap EXCEPT ![place.storage][place.index] = value] ELSE heap
       /\ operands' = Popped(n) /\ Advances /\ UNCHANGED <<frames, calls>>

VisitStoreCmd == Executes("Store") /\ ~Cmd.id.array /\ Writes(2, Top(1).place, Top(2))
VisitStoreArrayCmd == Executes("Store") /\ Cmd.id.array /\ Writes(2, Top(1).place, Top(2))
VisitPreIncCmd == Executes("PreInc") /\ Writes(1, Top(1).place, Moved(At(Top(1).place), 1))
VisitPreDecCmd == Executes("PreDec") /\ Writes(1, Top(1).place, Moved(At(Top(1).place), -1))

MakesArray(n, new) ==
  /\ heap' = new.heap /\ operands' = Append(Popped(n), new.array)
  /\ Advances /\ UNCHANGED <<locals, frames, globals, calls>>

(* GetArrayDimensions pops the sizes, the first dimension's first.         *)
VisitCreateArrayCmd ==
  /\ Executes("CreateArray")
  /\ LET sizes == [i \in 1..CmdType.dims |-> Num(Top(i))]
     IN  IF \E i \in DOMAIN sizes : sizes[i] < 0 THEN Ends("aborted")
         ELSE MakesArray(CmdType.dims, NewArray(heap, CmdType, sizes))

VisitCreateAndInitArrayCmd ==
  /\ Executes("CreateAndInitArray")
  /\ LET count == Cmd.operand[2].int
     IN  MakesArray(count, NewArrayOf(heap, CmdType, [i \in 1..count |-> Top(i)]))

-----------------------------------------------------------------------------
(* Operators.  The right operand is on top. *)

VisitMulCmd == Executes("Mul") /\ Yields(2, Mul(Top(2), Top(1)))
VisitDivCmd == Executes("Div") /\ Yields(2, Div(Top(2), Top(1)))
VisitSumCmd == Executes("Sum") /\ Yields(2, Sum(Top(2), Top(1)))
VisitSubCmdMutant == Executes("Sub") /\ Yields(2, Sub(Top(1), Top(2)))
VisitSubCmd == Executes("Sub") /\ Yields(2, Sub(Top(2), Top(1)))
VisitEqualCmd == Executes("Equal") /\ ~Cmd.id.array /\ Yields(2, Equal(Top(2), Top(1)))
VisitEqualArrayCmd == Executes("Equal") /\ Cmd.id.array /\ Yields(2, Equal(Top(2), Top(1)))
VisitNotEqualCmd ==
  Executes("NotEqual") /\ ~Cmd.id.array /\ Yields(2, LogicalNegate(Equal(Top(2), Top(1))))
VisitNotEqualArrayCmd ==
  Executes("NotEqual") /\ Cmd.id.array /\ Yields(2, LogicalNegate(Equal(Top(2), Top(1))))
VisitGreaterCmd == Executes("Greater") /\ Yields(2, Greater(Top(2), Top(1)))
VisitGreaterOrEqualCmd ==
  Executes("GreaterOrEqual") /\ Yields(2, LogicalNegate(Greater(Top(1), Top(2))))
VisitLessCmd == Executes("Less") /\ Yields(2, Greater(Top(1), Top(2)))
VisitLessOrEqualCmd == Executes("LessOrEqual") /\ Yields(2, LogicalNegate(Greater(Top(2), Top(1))))
VisitLogicalNegateCmd == Executes("LogicalNegate") /\ Yields(1, LogicalNegate(Top(1)))
VisitArithmeticNegateCmd == Executes("ArithmeticNegate") /\ Yields(1, ArithmeticNegate(Top(1)))
VisitAndCmd == Executes("And") /\ Yields(2, Bool(IsTrue(Top(2)) /\ IsTrue(Top(1))))
VisitOrCmd == Executes("Or") /\ Yields(2, Bool(IsTrue(Top(2)) \/ IsTrue(Top(1))))
VisitCastCmd == Executes("Cast") /\ Yields(1, Cast(Top(1), CmdType))

-----------------------------------------------------------------------------
(* Jumps and calls *)

JumpsIf(jumps) == Goes(IF jumps THEN Cmd.next + Cmd.operand[1].int ELSE Cmd.next)

VisitJumpIfNotCmd ==
  /\ Executes("JumpIfNot") /\ JumpsIf(~IsTrue(Top(1)))
  /\ operands' = Popped(1) /\ UNCHANGED <<locals, frames, globals, heap, calls>>

(* These leave the operand there. *)
VisitImplicitJumpIfNotCmd ==
  /\ Executes("ImplicitJumpIfNot") /\ JumpsIf(~IsTrue(Top(1)))
  /\ UNCHANGED <<operands, locals, frames, globals, heap, calls>>

VisitImplicitJumpIfCmd ==
  /\ Executes("ImplicitJumpIf") /\ JumpsIf(IsTrue(Top(1)))
  /\ UNCHANGED <<operands, locals, frames, globals, heap, calls>>

VisitCallCmd ==
  /\ Executes("Call")
  /\ frames' = Append(frames, [firstSlot |-> Len(locals), returnAddress |-> Cmd.next])
  /\ Goes(code.entry[Top(1).type.func])
  /\ operands' = Popped(1) /\ UNCHANGED <<locals, globals, heap, calls>>

VisitReturnCmd ==
  /\ Executes("Return")
  /\ Goes(Last(frames).returnAddress) /\ frames' = Front(frames)
  /\ UNCHANGED <<operands, locals, globals, heap, calls>>

(* A native function pops its arguments, the first of them first, and      *)
(* pushes its result; here it returns its first argument if it returns.    *)
VisitCallNativeCmd ==
  /\ Executes("CallNative")
  /\ LET func == Top(1).type.func
         count == Len(Func[func].args)
         args == [i \in 1..count |-> Top(i + 1)]
     IN  /\ calls' = Append(calls, [func |-> func, args |-> args])
         /\ operands' = Popped(count + 1)
                          \o IF Func[func].returns = VoidDataType THEN <<>> ELSE <<args[1]>>
  /\ Advances /\ UNCHANGED <<locals, frames, globals, heap>>

Exit ==
  /\ phase = "running" /\ ~HasCmd
  /\ phase' = "exited"
  /\ UNCHANGED <<program, position, operands, locals, frames, globals, heap, calls>>

ExecutesCmd ==
  \/ VisitLoadValueCmd \/ VisitLoadFuncValueCmd \/ VisitLoadNativeFuncValueCmd
  \/ VisitLoadGlobalVarValueCmd \/ VisitLoadGlobalArrayVarValueCmd
  \/ VisitLoadLocalVarValueCmd \/ VisitLoadLocalArrayVarValueCmd
  \/ VisitLoadGlobalVarAddressCmd \/ VisitLoadLocalVarAddressCmd
  \/ VisitLoadArrayElementValueCmd \/ VisitLoadArrayElementAddressCmd
  \/ VisitCreateGlobalVarCmd \/ VisitCreateGlobalArrayVarCmd
  \/ VisitCreateAndInitGlobalVarCmd \/ VisitCreateAndInitGlobalArrayVarCmd
  \/ VisitCreateLocalVarCmd \/ VisitCreateAndInitLocalVarCmd \/ VisitCreateAndInitLocalArrayVarCmd
  \/ VisitDestroyLocalVarCmd \/ VisitDestroyLocalArrayVarCmd \/ VisitUnloadCmd \/ VisitUnloadArrayCmd
  \/ VisitStoreCmd \/ VisitStoreArrayCmd \/ VisitPreIncCmd \/ VisitPreDecCmd
  \/ VisitCreateArrayCmd \/ VisitCreateAndInitArrayCmd
  \/ VisitMulCmd \/ VisitDivCmd \/ VisitSumCmd \/ VisitSubCmd
  \/ VisitEqualCmd \/ VisitEqualArrayCmd \/ VisitNotEqualCmd \/ VisitNotEqualArrayCmd
  \/ VisitGreaterCmd \/ VisitGreaterOrEqualCmd \/ VisitLessCmd \/ VisitLessOrEqualCmd
  \/ VisitLogicalNegateCmd \/ VisitArithmeticNegateCmd \/ VisitAndCmd \/ VisitOrCmd \/ VisitCastCmd
  \/ VisitJumpIfNotCmd \/ VisitImplicitJumpIfNotCmd \/ VisitImplicitJumpIfCmd
  \/ VisitCallCmd \/ VisitReturnCmd \/ VisitCallNativeCmd

Next == Analyze \/ GenerateCode \/ ExecutesCmd \/ Exit

Spec == Init /\ [][Next]_vars

-----------------------------------------------------------------------------
(* What commands take and find: the types of the operands they pop, from   *)
(* the top (Pop<T> of simple_vm.cpp, ValueGetter and Storage of the        *)
(* arrays), and that of the variable they load.                            *)

Comparison == {"Equal", "NotEqual", "Greater", "GreaterOrEqual", "Less", "LessOrEqual"}

PoppedTypes ==
  LET op == Cmd.id.op
      func == Top(1).type.func
  IN  CASE op \in {"Unload", "CreateAndInitGlobalVar", "CreateAndInitLocalVar",
                   "LogicalNegate", "ArithmeticNegate"} -> <<CmdType>>
        [] op \in {"Mul", "Div", "Sum", "Sub", "And", "Or"} \cup Comparison -> <<CmdType, CmdType>>
        [] op \in {"PreInc", "PreDec"} -> <<VarAddress(CmdType)>>
        [] op = "Store" -> <<VarAddress(CmdType), CmdType>>
        [] op = "Cast" -> <<Prim(Cmd.id.from)>>
        [] op \in {"JumpIfNot", "ImplicitJumpIfNot", "ImplicitJumpIf"} -> <<BoolDataType>>
        [] op = "CreateArray" -> [i \in 1..CmdType.dims |-> IntDataType]
        [] op = "CreateAndInitArray" -> [i \in 1..Cmd.operand[2].int |-> ElementOf(CmdType)]
        [] op \in {"LoadArrayElementValue", "LoadArrayElementAddress"} -> <<CmdType, IntDataType>>
        [] op \in {"Call", "CallNative"} ->
             IF IsFunc(Top(1).type) /\ Func[func].native = (op = "CallNative")
             THEN <<Top(1).type>> \o Func[func].args ELSE <<Prim("func")>>
        [] OTHER -> <<>>

FindsItsVariable ==
  LET op == Cmd.id.op
      place == IF op \in {"LoadGlobalVarValue", "LoadGlobalVarAddress"}
               THEN GlobalAddress(Cmd.operand[1].var) ELSE LocalAddress(Cmd.operand[1].index)
  IN  /\ op \in {"LoadGlobalVarValue", "LoadLocalVarValue", "LoadGlobalVarAddress", "LoadLocalVarAddress"} =>
           \/ place.in = "global" /\ place.name \in DOMAIN globals
           \/ place.in = "local" /\ place.slot \in FirstSlot + 1..Len(locals)
      /\ op \in {"LoadGlobalVarValue", "LoadLocalVarValue"} =>
           At(place).type.base = Cmd.id.base /\ IsArray(At(place).type) = Cmd.id.array

-----------------------------------------------------------------------------
(* Properties *)

Meaning == INSTANCE Language

IsValue(x) ==
  /\ x.type.dims \in 0..MaxDims
  /\ IsArray(x.type) => Storage(x) \in DOMAIN heap
  /\ x.type \in Integral => Len(x.v) = 1 /\ Fits(x.type, Num(x))
  /\ x.type = DoubleDataType => Den(x) > 0

(* The machine's storages hold values: integers within the limits of their *)
(* types, arrays whose storage exists; and addresses lead to variables and *)
(* items of arrays that exist.                                             *)
ExprTypeOK ==
  /\ phase \in {"parsed", "analyzed", "rejected", "running", "exited", "undefined", "aborted"}
  /\ \A x \in DOMAIN globals : IsValue(globals[x])
  /\ \A i \in DOMAIN locals : IsValue(locals[i])
  /\ \A i \in DOMAIN heap : \A j \in DOMAIN heap[i] : IsValue(heap[i][j])
  /\ \A i \in DOMAIN operands :
       \/ operands[i].type.base # "address" /\ IsValue(operands[i])
       \/ operands[i].type.base = "address" /\ At(operands[i].place).type = operands[i].type.of


(* No generator of a command is asked for a type that it has no command    *)
(* for: its visitors for these types are assert(false).                    *)
AcceptedIsGenerated == ~code.asserted

(* The machine is always at the start of a command, where the id and all   *)
(* the operands that the reader expects after it were written.             *)
NeverMisreads == HasCmd => IsReadable(code.at, position)

(* Operands carry no types in the machine: what a command pops, and the    *)
(* variable that it loads, always are of the types it takes them for.      *)
OperandsAreTyped ==
  HasCmd =>
    /\ Len(operands) >= Len(PoppedTypes)
    /\ \A i \in DOMAIN PoppedTypes : Top(i).type = PoppedTypes[i]
    /\ FindsItsVariable

(* What the run did is what the statement means: the same variables,       *)
(* arrays and calls of native functions, in the same order; nothing is     *)
(* left behind; and it ends in undefined behaviour or an assertion exactly *)
(* when the statement means that.                                          *)
ResultIsMeaning ==
  phase \in {"exited", "undefined", "aborted"} /\ ~code.asserted =>
    LET meant == Meaning!Run(stmt, GlobalValue, InitialHeap)
    IN  /\ meant.goes = IF phase = "exited" THEN "ok" ELSE phase
        /\ phase = "exited" =>
             /\ operands = <<>> /\ locals = <<>>
             /\ globals = meant.globals /\ heap = meant.heap /\ calls = meant.calls
=============================================================================
