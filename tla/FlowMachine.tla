---------------------------- MODULE FlowMachine -----------------------------
(***************************************************************************)
(* The virtual machine running the code that FlowCompiler generated.       *)
(*                                                                         *)
(* Local variables of all frames share one storage of slots; a frame is    *)
(* the index where its variables start and the address to return to, and   *)
(* nothing but the Destroy commands of the code ends it.  The storage does *)
(* not know what lies in it: each slot here carries, as history, the       *)
(* command that created its variable, so that properties can tell a slot   *)
(* of the right variable from one that only has the right size.            *)
(*                                                                         *)
(* Values are abstracted away: conditions come out either way.  Operands   *)
(* are kept as the types of the values on the stack.                       *)
(***************************************************************************)
EXTENDS FlowCompiler

CONSTANTS
  LocalsCapacity,    \* slots of the storage of local variables
  OperandsCapacity,  \* slots of the operand stack
  MaxFrames          \* bound on the depth of calls

ASSUME CapacityAssumption ==
  LocalsCapacity \in Nat /\ OperandsCapacity \in Nat /\ MaxFrames \in Nat \ {0}

VARIABLES
  status,    \* what the machine is doing, or how it ended
  pc,        \* the address of the next command
  locals,    \* local_vars_: the slots of all frames
  operands,  \* operands_: the types of the values on the operand stack
  frames     \* func_frames_

machine_vars == <<status, pc, locals, operands, frames>>
all_vars == <<vars, machine_vars>>

Address == [unit: Unit, pos: Nat]
Slot == [at: Nat, type: DataType, part: 1..2]

(* start is the frame's first slot; base, the number of operands below the *)
(* frame, is history.                                                      *)
Frame == [start: Nat, return: Address, base: Nat]

Status == {"idle", "running", "exited", "overflow", "aborted"}

-----------------------------------------------------------------------------
(* DataStorage *)

Slots(at, t) == [k \in 1..Size[t] |-> [at |-> at, type |-> t, part |-> k]]

SlotsOf(t) == IF t \in Func THEN 1 ELSE Size[t]

OperandSlots ==
  LET before[n \in 0..Len(operands)] ==
        IF n = 0 THEN 0 ELSE before[n - 1] + SlotsOf(operands[n])
  IN  before[Len(operands)]

HasEnoughCapacity(t) == OperandsCapacity - OperandSlots >= SlotsOf(t)

-----------------------------------------------------------------------------
(* Fetching a command                                                      *)

HasCmd == status = "running" /\ pc.pos \in DOMAIN code[pc.unit]
CurrentCmd == code[pc.unit][pc.pos]
IsAt(op) == HasCmd /\ CurrentCmd.op = op

Skip == [pc EXCEPT !.pos = @ + 1]
JumpMutant == [pc EXCEPT !.pos = @ + CurrentCmd.offset]
Jump == [pc EXCEPT !.pos = @ + 1 + CurrentCmd.offset]

MainFrame == [start |-> 0, return |-> [unit |-> Main, pos |-> 1], base |-> 0]

(* The operand stack ends with values of these types. *)
Ends(types) ==
  /\ Len(types) <= Len(operands)
  /\ \A i \in DOMAIN types :
       operands[Len(operands) - Len(types) + i] = types[i]

HasCallee == operands # <<>> /\ Last(operands) \in Func

(* The value on top is of the type the command takes it for.  What the     *)
(* machine does with a value of another type, and past the end of a        *)
(* function, is not defined: OnlySelfReadsAbort says that it never gets    *)
(* there, and the model has no step for it.                                *)
FindsOperands ==
  CASE CurrentCmd.op \in {"CreateAndInitLocalVar", "Unload"} ->
         Ends(<<CurrentCmd.type>>)
    [] CurrentCmd.op = "Sum" -> Ends(<<CurrentCmd.type, CurrentCmd.type>>)
    [] CurrentCmd.op = "JumpIfNot" -> Ends(<<Bool>>)
    [] CurrentCmd.op = "Call" -> HasCallee
    [] OTHER -> TRUE

Push(t) ==
  IF HasEnoughCapacity(t)
  THEN operands' = Append(operands, t) /\ pc' = Skip /\ UNCHANGED status
  ELSE status' = "overflow" /\ UNCHANGED <<operands, pc>>

-----------------------------------------------------------------------------
(* Commands                                                                *)

VisitLoadValueCmd ==
  /\ IsAt("LoadValue") /\ Push(CurrentCmd.type)
  /\ UNCHANGED <<locals, frames>>

VisitLoadFuncValueCmd ==
  /\ IsAt("LoadFuncValue") /\ Push(CurrentCmd.func)
  /\ UNCHANGED <<locals, frames>>

LocalVarIndex(cmd) == Last(frames).start + cmd.index

(* A slot at or above the top is not read: the assertion of GetSlot fails. *)
VisitLoadLocalVarValueCmd ==
  /\ IsAt("LoadLocalVarValue")
  /\ IF LocalVarIndex(CurrentCmd) < Len(locals) THEN Push(CurrentCmd.type)
     ELSE status' = "aborted" /\ UNCHANGED <<operands, pc>>
  /\ UNCHANGED <<locals, frames>>

PushLocal(t) ==
  IF LocalsCapacity - Len(locals) >= Size[t]
  THEN locals' = locals \o Slots(pc.pos, t) /\ pc' = Skip /\ UNCHANGED status
  ELSE status' = "overflow" /\ UNCHANGED <<locals, pc>>

VisitCreateLocalVarCmd ==
  /\ IsAt("CreateLocalVar") /\ PushLocal(CurrentCmd.type)
  /\ UNCHANGED <<operands, frames>>

VisitCreateAndInitLocalVarCmd ==
  /\ IsAt("CreateAndInitLocalVar") /\ FindsOperands
  /\ operands' = Front(operands)
  /\ PushLocal(CurrentCmd.type)
  /\ UNCHANGED frames

VisitDestroyLocalVarCmd ==
  /\ IsAt("DestroyLocalVar")
  /\ IF Len(locals) >= Size[CurrentCmd.type]
     THEN /\ locals' = Prefix(locals, Len(locals) - Size[CurrentCmd.type])
          /\ pc' = Skip /\ UNCHANGED status
     ELSE status' = "aborted" /\ UNCHANGED <<locals, pc>>
  /\ UNCHANGED <<operands, frames>>

VisitUnloadCmd ==
  /\ IsAt("Unload") /\ FindsOperands
  /\ operands' = Front(operands)
  /\ pc' = Skip
  /\ UNCHANGED <<status, locals, frames>>

VisitSumCmd ==
  /\ IsAt("Sum") /\ FindsOperands
  /\ operands' = Front(operands)
  /\ pc' = Skip
  /\ UNCHANGED <<status, locals, frames>>

VisitDirectJumpCmd ==
  /\ IsAt("DirectJump")
  /\ pc' = Jump
  /\ UNCHANGED <<status, locals, operands, frames>>

VisitJumpIfNotCmd ==
  /\ IsAt("JumpIfNot") /\ FindsOperands
  /\ operands' = Front(operands)
  /\ pc' \in {Skip, Jump}
  /\ UNCHANGED <<status, locals, frames>>

VisitCallCmd ==
  /\ IsAt("Call") /\ FindsOperands /\ Len(frames) < MaxFrames
  /\ LET f == Last(operands) IN
     /\ frames' = Append(frames, [start |-> Len(locals), return |-> Skip,
                                  base |-> Len(operands) - 1 - Len(Args[f])])
     /\ pc' = [unit |-> f, pos |-> 1]
  /\ operands' = Front(operands)
  /\ UNCHANGED <<status, locals>>

VisitReturnCmd ==
  /\ IsAt("Return")
  /\ pc' = Last(frames).return
  /\ frames' = Front(frames)
  /\ UNCHANGED <<status, locals, operands>>

-----------------------------------------------------------------------------

Execute ==
  /\ phase = "compiled" /\ status = "idle"
  /\ status' = "running"
  /\ frames' = <<MainFrame>>
  /\ UNCHANGED <<pc, locals, operands>>

AtExit ==
  /\ status = "running"
  /\ pc = [unit |-> Main, pos |-> Len(code[Main]) + 1] /\ Len(frames) = 1

Exit ==
  /\ AtExit
  /\ status' = "exited"
  /\ UNCHANGED <<pc, locals, operands, frames>>

(* The bound on calls, which the machine itself does not have. *)
AtMaxFrames == IsAt("Call") /\ Len(frames) = MaxFrames

MachineInit ==
  /\ status = "idle"
  /\ pc = [unit |-> Main, pos |-> 1]
  /\ locals = <<>> /\ operands = <<>> /\ frames = <<>>

MachineNext ==
  \/ Execute \/ Exit
  \/ VisitLoadValueCmd \/ VisitLoadFuncValueCmd \/ VisitLoadLocalVarValueCmd
  \/ VisitCreateLocalVarCmd \/ VisitCreateAndInitLocalVarCmd
  \/ VisitDestroyLocalVarCmd \/ VisitUnloadCmd \/ VisitSumCmd
  \/ VisitDirectJumpCmd \/ VisitJumpIfNotCmd \/ VisitCallCmd \/ VisitReturnCmd

Halted ==
  /\ \/ phase \in {"rejected", "crashed"}
     \/ status \in {"exited", "overflow", "aborted"}
     \/ AtMaxFrames
  /\ UNCHANGED all_vars

RunInit == Init /\ MachineInit
RunNext ==
  \/ Next /\ UNCHANGED machine_vars
  \/ MachineNext /\ UNCHANGED vars
  \/ Halted

RunSpec == RunInit /\ [][RunNext]_all_vars

(* The machine's loop goes on as long as there is a command. *)
FairRunSpec == RunSpec /\ WF_all_vars(MachineNext /\ UNCHANGED vars)

-----------------------------------------------------------------------------
(* Properties                                                              *)

MachineTypeOK ==
  /\ status \in Status
  /\ pc \in Address
  /\ locals \in Seq(Slot)
  /\ operands \in Seq(DataType \cup Func)
  /\ frames \in Seq(Frame)

(* The slots between two indices are exactly those of the variables f.     *)
HoldsVars(f, from, to) ==
  /\ to = from + SlotsCount(f)
  /\ \A i \in DOMAIN f : \A k \in 1..Size[f[i].type] :
       locals[from + f[i].index + k] =
         [at |-> f[i].at, type |-> f[i].type, part |-> k]

UnitOf(i) == IF i = Len(frames) THEN pc.unit ELSE frames[i + 1].return.unit

(* The current frame holds what the compiler noted for the command about   *)
(* to run.                                                                 *)
CurrentFrameMatchesLayout ==
  /\ frames # <<>>
  /\ pc.pos \in DOMAIN layout[pc.unit]
  /\ LET expected == layout[pc.unit][pc.pos] IN
     /\ expected.live
     /\ HoldsVars(expected.flow, Last(frames).start, Len(locals))
     /\ SubSeq(operands, Last(frames).base + 1, Len(operands)) =
          expected.operands

(* The i-th frame will hold, once the call it waits for has pushed its     *)
(* result, what the compiler noted for the command after the call.         *)
CallerFrameMatchesLayout(i) ==
  LET return == frames[i + 1].return
      expected == layout[return.unit][return.pos]
  IN  /\ return.pos \in DOMAIN layout[return.unit]
      /\ expected.live
      /\ HoldsVars(expected.flow, frames[i].start, frames[i + 1].start)
      /\ SubSeq(operands, frames[i].base + 1, frames[i + 1].base)
           \o Operands(Result[UnitOf(i + 1)]) = expected.operands

(* Through calls, recursion, loops and every early exit, the storage of    *)
(* the machine always holds exactly the variables and operands that the    *)
(* compiler assumed at the command it compiled, in every frame.            *)
FramesMatchLayout ==
  status = "running" =>
    /\ CurrentFrameMatchesLayout
    /\ \A i \in 1..Len(frames) - 1 : CallerFrameMatchesLayout(i)

(* The machine never takes a value for one of another type and never runs  *)
(* past the code of a function; the only assertion a program can trip is   *)
(* that of reading a variable in its own initializer.                      *)
OnlySelfReadsAbort ==
  /\ status = "running" => AtExit \/ (HasCmd /\ FindsOperands)
  /\ status = "aborted" =>
       CurrentCmd.op = "LoadLocalVarValue" /\ CurrentCmd.def > pc.pos

(* A read finds the slots of the variable that the source names.           *)
ReadsTheVariable ==
  IsAt("LoadLocalVarValue") /\ CurrentCmd.def <= pc.pos =>
    LET from == LocalVarIndex(CurrentCmd) IN
    /\ from + Size[CurrentCmd.type] <= Len(locals)
    /\ \A k \in 1..Size[CurrentCmd.type] :
         locals[from + k] =
           [at |-> CurrentCmd.def, type |-> CurrentCmd.type, part |-> k]

(* When main code has run nothing is left in the storage. *)
ExitsClean ==
  status = "exited" => locals = <<>> /\ operands = <<>> /\ Len(frames) = 1

(* A function that returns leaves its caller's variables as they were when *)
(* it was called, none of its own, and exactly its result on the stack.    *)
ReturnRestoresCaller ==
  [][VisitReturnCmd =>
       LET callee == Last(frames) IN
       /\ Len(locals) = callee.start
       /\ operands' = Prefix(operands, callee.base) \o Operands(Result[pc.unit])
     ]_all_vars

(* Without loops and calls every program comes to its end. *)
JumpsForward ==
  \A u \in Unit : \A p \in DOMAIN code[u] :
    /\ code[u][p].op \in JumpOp => code[u][p].offset >= 0
    /\ code[u][p].op # "Call"
StraightCodeExits ==
  phase = "compiled" /\ JumpsForward
    ~> status \in {"exited", "overflow", "aborted"}
=============================================================================
