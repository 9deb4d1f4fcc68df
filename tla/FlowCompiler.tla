---------------------------- MODULE FlowCompiler ----------------------------
(***************************************************************************)
(* How RealTalk compiles scopes, local variables and control flow.         *)
(*                                                                         *)
(* The semantic analyzer keeps a stack of scopes and notes, for every      *)
(* definition, break, continue and return, which local variables lie       *)
(* between it and an enclosing scope.  The code generator walks the same   *)
(* tree afterwards and turns the notes into slot indices, Destroy commands *)
(* and relative jumps.  The two walks visit the statements of a unit in    *)
(* the same order (the generator takes up the functions after main code),  *)
(* and the second reads only what the first noted about the statement at   *)
(* hand, so one action here stands for both visits of a statement.  Which  *)
(* statement comes next is chosen freely: a behaviour is the compilation   *)
(* of some program.                                                        *)
(*                                                                         *)
(* Addresses count commands, from 1 in each unit, where the code counts    *)
(* bytes; jumps are relative to the command that follows them, as there.   *)
(***************************************************************************)
EXTENDS Integers, Sequences, FiniteSets

CONSTANTS
  DataType,         \* the data types of values
  Bool,             \* the type of conditions
  Void,             \* the result type of a function that returns no value
  Size,             \* [DataType -> {1, 2}]: slots a value takes (DataTypeSize)
  VarType,          \* the types that programs define variables of
  Func, Main,       \* the functions of the program, and its main code
  Args,             \* [Func -> Seq(DataType)]: argument types of a function
  Result,           \* [Func -> DataType \cup {Void}]: its result type
  ExprForm,         \* the forms of expressions programs are built from
  UndefinedInsert,  \* what inserting at an invalidated iterator may do
  Unwritten,        \* an offset placeholder that was skipped, not written
  MaxCode,          \* [Unit -> Nat]: no new statement starts beyond this size
  MaxDepth          \* bound on the nesting of scopes

Unit == Func \cup {Main}

ASSUME DataTypesAssumption ==
  /\ Bool \in DataType /\ Void \notin DataType
  /\ Size \in [DataType -> {1, 2}]
  /\ VarType \subseteq DataType
ASSUME FuncsAssumption ==
  /\ Main \notin Func /\ DataType \cap Func = {}
  /\ Args \in [Func -> Seq(DataType)]
  /\ Result \in [Func -> DataType \cup {Void}]
ASSUME BoundsAssumption ==
  /\ UndefinedInsert \subseteq {"prepend", "crash"}
  /\ Unwritten \notin Int
  /\ MaxCode \in [Unit -> Nat] /\ MaxDepth \in Nat

VARIABLES
  unit,    \* the function being compiled, or Main
  code,    \* [Unit -> Seq(Cmd)]: the code generated so far
  flow,    \* the local variables on the flow from the unit's entry to here
  scopes,  \* the open scopes, with what the generator keeps for each
  defined, \* the functions that are compiled
  phase,   \* "compiling", or how the compilation ended
  layout   \* history: what each command expects to find when it is executed

vars == <<unit, code, flow, scopes, defined, phase, layout>>

-----------------------------------------------------------------------------
(* Commands.  def is history: it names the variable the source refers to.  *)

LoadValue(t) == [op |-> "LoadValue", type |-> t]
LoadFuncValue(f) == [op |-> "LoadFuncValue", func |-> f]
LoadLocalVarValue(d) ==
  [op |-> "LoadLocalVarValue", type |-> d.type, index |-> d.index, def |-> d.at]
CreateLocalVar(t) == [op |-> "CreateLocalVar", type |-> t]
CreateAndInitLocalVar(t) == [op |-> "CreateAndInitLocalVar", type |-> t]
DestroyLocalVar(t) == [op |-> "DestroyLocalVar", type |-> t]
Unload(t) == [op |-> "Unload", type |-> t]
Sum(t) == [op |-> "Sum", type |-> t]
JumpIfNot(offset) == [op |-> "JumpIfNot", offset |-> offset]
DirectJump(offset) == [op |-> "DirectJump", offset |-> offset]
Call == [op |-> "Call"]
Return == [op |-> "Return"]

TypedOp == {"LoadValue", "CreateLocalVar", "CreateAndInitLocalVar",
            "DestroyLocalVar", "Unload", "Sum"}
JumpOp == {"JumpIfNot", "DirectJump"}

Cmd ==
  [op: TypedOp, type: DataType]
    \cup [op: {"LoadFuncValue"}, func: Func]
    \cup [op: {"LoadLocalVarValue"}, type: DataType, index: Nat, def: Nat]
    \cup [op: JumpOp, offset: Int \cup {Unwritten}]
    \cup [op: {"Call", "Return"}]

(* A local variable: the address of the command that creates it, its type  *)
(* and its index among the slots of its frame.                             *)
Def == [at: Nat, type: DataType, index: Nat]

(* What a command finds: whether execution can get here, the variables in  *)
(* the frame and the types of the operands this frame has pushed.          *)
Layout == [live: BOOLEAN, flow: Seq(Def), operands: Seq(DataType \cup Func)]

ScopeType == {"global", "func", "loop", "branches", "common"}

(* A scope.  start counts the variables of the enclosing scopes, so that   *)
(* the variables of a scope are a segment of flow; a "branches" scope is   *)
(* the generator's list of branch ends of one if statement and never holds *)
(* a variable; placeholders are the addresses of the jumps to its end.     *)
Scope == [type: ScopeType, start: Nat, has_return: BOOLEAN,
          start_address: Nat, placeholders: SUBSET Nat]

NewScope(type, start, start_address, placeholders) ==
  [type |-> type, start |-> start, has_return |-> FALSE,
   start_address |-> start_address, placeholders |-> placeholders]

-----------------------------------------------------------------------------
(* Sequences *)

Last(s) == s[Len(s)]
Front(s) == SubSeq(s, 1, Len(s) - 1)
Prefix(s, n) == SubSeq(s, 1, n)
Reverse(s) == [i \in 1..Len(s) |-> s[Len(s) - i + 1]]
ToSet(s) == {s[i] : i \in DOMAIN s}

-----------------------------------------------------------------------------
(* The analyzer's view of the scopes                                       *)

CurrentScope == Last(scopes)

(* The innermost scope of a type is the i-th one. *)
IsNearest(type, i) ==
  /\ i \in DOMAIN scopes
  /\ scopes[i].type = type
  /\ \A j \in DOMAIN scopes : scopes[j].type = type => j <= i

IsWithin(type) == \E i \in DOMAIN scopes : scopes[i].type = type

(* The local variables of the scopes from the i-th to the current one.     *)
GetLocalVarDefsUpToScopeMutant(i) ==
  SubSeq(flow, CurrentScope.start + 1, Len(flow))
GetLocalVarDefsUpToScope(i) ==
  SubSeq(flow, scopes[i].start + 1, Len(flow))

ScopeEnd(j) == IF j = Len(scopes) THEN Len(flow) ELSE scopes[j + 1].start
NonEmptyScopes(i) == {j \in i..Len(scopes) : scopes[j].start < ScopeEnd(j)}

(* The variables of each scope are inserted at the end iterator that the   *)
(* empty output vector had: the first insertion invalidates it, and what   *)
(* a second one does is undefined.  With the null iterator of an empty     *)
(* libc++ vector, which the build uses, it crashes; to prepend is what the *)
(* code means to do, and is kept so that all that follows is checked too.  *)
InsertOutcomes(i) ==
  IF Cardinality(NonEmptyScopes(i)) < 2 THEN {"prepend"} ELSE UndefinedInsert

(* The scope at which the search for the enclosing function ends: there is *)
(* none around a variable of main code, and every scope is visited.        *)
FlowScope == IF unit = Main THEN 1 ELSE 2

(* The top level of the function has already returned.                     *)
Live == ~ \E i \in DOMAIN scopes : scopes[i].type = "func" /\ scopes[i].has_return

(* IdNodeProcessor adds up the sizes of the variables before one.          *)
SlotsCountMutant(f) == Len(f)
SlotsCount(f) ==
  IF f = <<>> THEN 0 ELSE Last(f).index + Size[Last(f).type]

NewDef(at, t) == [at |-> at, type |-> t, index |-> SlotsCount(flow)]

Callable == defined \cup (IF unit = Main THEN {} ELSE {unit})

-----------------------------------------------------------------------------
(* The generator's helpers.  A step is a command with the layout it finds. *)

Here == Len(code[unit]) + 1

Expects(f, operands) == [live |-> Live, flow |-> f, operands |-> operands]
Step(cmd, f, operands) == [cmd |-> cmd, layout |-> Expects(f, operands)]

Cmds(steps) == [i \in DOMAIN steps |-> steps[i].cmd]
Layouts(steps) == [i \in DOMAIN steps |-> steps[i].layout]

(* The jumps at the placeholders are made to lead to the end of the code.  *)
WriteCurrentCmdOffsetMutant(c, placeholders) ==
  [p \in DOMAIN c |-> IF p \in placeholders
                      THEN [c[p] EXCEPT !.offset = Len(c) - p + 1] ELSE c[p]]
WriteCurrentCmdOffset(c, placeholders) ==
  [p \in DOMAIN c |-> IF p \in placeholders
                      THEN [c[p] EXCEPT !.offset = Len(c) - p] ELSE c[p]]

(* Append the steps, then aim the placeholders at the command that follows *)
(* them, where the next layout holds.                                      *)
Generate(steps, placeholders, next) ==
  /\ code' = [code EXCEPT ![unit] =
                WriteCurrentCmdOffset(@ \o Cmds(steps), placeholders)]
  /\ layout' = [layout EXCEPT ![unit] =
                  Prefix(@, Len(code[unit])) \o Layouts(steps) \o <<next>>]

(* Destroy the last n variables of the flow, the innermost first.          *)
GenerateDestroyLocalVarCmdsMutant(defs, operands) ==
  [i \in 1..Len(defs) |->
     Step(DestroyLocalVar(defs[i].type),
          Prefix(flow, Len(flow) - i + 1), operands)]
GenerateDestroyLocalVarCmds(defs, operands) ==
  [i \in 1..Len(defs) |->
     Step(DestroyLocalVar(defs[Len(defs) - i + 1].type),
          Prefix(flow, Len(flow) - i + 1), operands)]

(* Destroy them and jump; the jump is the last command generated.          *)
GenerateJumpCmdStartMutant(defs, offset) ==
  <<Step(DirectJump(offset), flow, <<>>)>>
    \o GenerateDestroyLocalVarCmds(defs, <<>>)
GenerateJumpCmdStart(defs, offset) ==
  Append(GenerateDestroyLocalVarCmds(defs, <<>>),
         Step(DirectJump(offset), Prefix(flow, Len(flow) - Len(defs)), <<>>))

GenerateReturnCmdMutant(defs, operands) ==
  <<Step(Return, Prefix(flow, Len(flow) - Len(defs)), operands)>>
GenerateReturnCmd(defs, operands) ==
  Append(GenerateDestroyLocalVarCmds(defs, operands),
         Step(Return, Prefix(flow, Len(flow) - Len(defs)), operands))

(* The offset of a jump that is about to be written at address a.          *)
OffsetTo(target, a) == target - (a + 1)

-----------------------------------------------------------------------------
(* Expressions: steps that leave one value of a type, or none for Void.    *)

Literal(t) == <<Step(LoadValue(t), flow, <<>>)>>

VisitId(d) == <<Step(LoadLocalVarValue(d), flow, <<>>)>>

(* Arguments from the last to the first, the function, and the call; below *)
(* are the operands that wait for its result.                              *)
VisitCallMutant(f, below) ==
  <<Step(LoadFuncValue(f), flow, below), Step(Call, flow, Append(below, f))>>
VisitCall(f, below) ==
  LET args == Reverse(Args[f]) IN
  [i \in 1..Len(args) |->
     Step(LoadValue(args[i]), flow, below \o Prefix(args, i - 1))]
  \o <<Step(LoadFuncValue(f), flow, below \o args),
       Step(Call, flow, Append(below \o args, f))>>

(* A literal plus a call: the left operand waits on the operand stack.     *)
VisitSum(t, f) ==
  Literal(t) \o VisitCall(f, <<t>>) \o <<Step(Sum(t), flow, <<t, t>>)>>

Exprs(t) ==
  (IF "literal" \in ExprForm /\ t # Void THEN {Literal(t)} ELSE {})
  \cup (IF "variable" \in ExprForm
        THEN {VisitId(d) : d \in {e \in ToSet(flow) : e.type = t}} ELSE {})
  \cup (IF "call" \in ExprForm
        THEN {VisitCall(f, <<>>) : f \in {g \in Callable : Result[g] = t}}
        ELSE {})
  \cup (IF "sum" \in ExprForm /\ t # Void
        THEN {VisitSum(t, f) : f \in {g \in Callable : Result[g] = t}}
        ELSE {})

Operands(t) == IF t = Void THEN <<>> ELSE <<t>>

-----------------------------------------------------------------------------
(* Statements                                                              *)

ArgsVisited == IF unit = Main THEN TRUE ELSE Len(code[unit]) >= Len(Args[unit])

(* The parser may hand over another statement of the current body.         *)
CanVisit ==
  /\ phase = "compiling" /\ ArgsVisited
  /\ CurrentScope.type # "branches"
  /\ Len(code[unit]) < MaxCode[unit]

CanNest == CanVisit /\ Len(scopes) < MaxDepth

(* The end of the current body.                                            *)
CanEnd == phase = "compiling" /\ ArgsVisited

Stop(outcome) ==
  /\ phase' = outcome
  /\ UNCHANGED <<unit, code, flow, scopes, defined, layout>>

(* The definition of a variable is analyzed before its value, which may    *)
(* therefore name the variable itself.                                     *)
VisitVarDef(d, steps) ==
  \E insert \in InsertOutcomes(FlowScope) :
    IF insert = "crash" THEN Stop("crashed")
    ELSE /\ flow' = Append(flow, d)
         /\ Generate(steps, {}, Expects(Append(flow, d), <<>>))
         /\ UNCHANGED <<unit, scopes, defined, phase>>

VisitVarDefWithoutInit ==
  /\ CanVisit /\ CurrentScope.type # "global"
  /\ \E t \in VarType :
       VisitVarDef(NewDef(Here, t), <<Step(CreateLocalVar(t), flow, <<>>)>>)

VisitVarDefWithInit ==
  /\ CanVisit /\ CurrentScope.type # "global"
  /\ \E t \in VarType : \E value \in Exprs(t) :
       VisitVarDef(NewDef(Here + Len(value), t),
                   Append(value, Step(CreateAndInitLocalVar(t), flow, <<t>>)))

(* t x = x; *)
VisitVarDefWithSelfInit ==
  /\ CanVisit /\ CurrentScope.type # "global"
  /\ "self" \in ExprForm
  /\ \E t \in VarType :
       LET d == NewDef(Here + 1, t) IN
       VisitVarDef(d, Append(VisitId(d),
                             Step(CreateAndInitLocalVar(t), flow, <<t>>)))

VisitExprStmt ==
  /\ CanVisit
  /\ \E t \in VarType \cup {Void} : \E expr \in Exprs(t) :
       Generate(IF t = Void THEN expr
                ELSE Append(expr, Step(Unload(t), flow, <<t>>)),
                {}, Expects(flow, <<>>))
  /\ UNCHANGED <<unit, flow, scopes, defined, phase>>

(* The condition and the jump out; the body follows.                       *)
VisitPreTestLoop ==
  /\ CanNest
  /\ \E cond \in Exprs(Bool) :
       /\ Generate(Append(cond, Step(JumpIfNot(Unwritten), flow, <<Bool>>)),
                   {}, Expects(flow, <<>>))
       /\ scopes' = Append(scopes, NewScope("loop", Len(flow), Here,
                                            {Here + Len(cond)}))
  /\ UNCHANGED <<unit, flow, defined, phase>>

(* The end of the body jumps to the condition, and every break leads here. *)
EndPreTestLoop ==
  /\ CanEnd /\ CurrentScope.type = "loop"
  /\ LET body_defs == GetLocalVarDefsUpToScope(Len(scopes))
         outer == Prefix(flow, CurrentScope.start)
     IN  /\ Generate(
              GenerateJumpCmdStart(
                body_defs,
                OffsetTo(CurrentScope.start_address, Here + Len(body_defs))),
              CurrentScope.placeholders, Expects(outer, <<>>))
         /\ flow' = outer
  /\ scopes' = Front(scopes)
  /\ UNCHANGED <<unit, defined, phase>>

(* A statement that leaves scopes looks for the innermost scope of a type, *)
(* collecting the variables it passes; without one it passes every scope.  *)
LeavesScopes(type, i) ==
  \/ IsNearest(type, i)
  \/ ~IsWithin(type) /\ i = 1

VisitBreak ==
  /\ CanVisit
  /\ \E i \in DOMAIN scopes : \E insert \in InsertOutcomes(i) :
       /\ LeavesScopes("loop", i)
       /\ \/ insert = "crash" /\ Stop("crashed")
          \/ insert # "crash" /\ ~IsWithin("loop") /\ Stop("rejected")
          \/ /\ insert # "crash" /\ IsWithin("loop")
             /\ LET defs == GetLocalVarDefsUpToScope(i)
                IN  /\ Generate(GenerateJumpCmdStart(defs, Unwritten),
                                {}, Expects(flow, <<>>))
                    /\ scopes' = [scopes EXCEPT ![i].placeholders =
                                    @ \cup {Here + Len(defs)}]
             /\ UNCHANGED <<unit, flow, defined, phase>>

VisitContinue ==
  /\ CanVisit
  /\ \E i \in DOMAIN scopes : \E insert \in InsertOutcomes(i) :
       /\ LeavesScopes("loop", i)
       /\ \/ insert = "crash" /\ Stop("crashed")
          \/ insert # "crash" /\ ~IsWithin("loop") /\ Stop("rejected")
          \/ /\ insert # "crash" /\ IsWithin("loop")
             /\ LET defs == GetLocalVarDefsUpToScope(i)
                    offset == OffsetTo(scopes[i].start_address,
                                       Here + Len(defs))
                IN  Generate(GenerateJumpCmdStart(defs, offset),
                             {}, Expects(flow, <<>>))
             /\ UNCHANGED <<unit, flow, scopes, defined, phase>>

-----------------------------------------------------------------------------
(* Branches.  A "branches" scope stands for one if statement and a         *)
(* "common" scope above it for the body being visited.                     *)

(* The condition of an if or else-if, and the jump over its body.          *)
VisitIf ==
  /\ \/ CanNest
     \/ /\ phase = "compiling"
        /\ CurrentScope.type = "branches"
        /\ Len(code[unit]) < MaxCode[unit]
  /\ \E cond \in Exprs(Bool) :
       /\ Generate(Append(cond, Step(JumpIfNot(Unwritten), flow, <<Bool>>)),
                   {}, Expects(flow, <<>>))
       /\ scopes' =
            (IF CurrentScope.type = "branches" THEN scopes
             ELSE Append(scopes, NewScope("branches", Len(flow), 0, {})))
            \o <<NewScope("common", Len(flow), 0, {Here + Len(cond)})>>
  /\ UNCHANGED <<unit, flow, defined, phase>>

(* The end of a body that another branch follows: jump to the end of the   *)
(* whole statement, and aim the condition's jump at the next branch.       *)
EndIfBody ==
  /\ CanEnd /\ CurrentScope.type = "common" /\ CurrentScope.placeholders # {}
  /\ LET body_defs == GetLocalVarDefsUpToScope(Len(scopes))
         outer == Prefix(flow, CurrentScope.start)
         branches == Len(scopes) - 1
     IN  /\ Generate(GenerateJumpCmdStart(body_defs, Unwritten),
                     CurrentScope.placeholders, Expects(outer, <<>>))
         /\ flow' = outer
         /\ scopes' = [Front(scopes) EXCEPT ![branches].placeholders =
                         @ \cup {Here + Len(body_defs)}]
  /\ UNCHANGED <<unit, defined, phase>>

VisitElse ==
  /\ phase = "compiling" /\ CurrentScope.type = "branches"
  /\ scopes' = Append(scopes, NewScope("common", Len(flow), 0, {}))
  /\ UNCHANGED <<unit, code, flow, defined, phase, layout>>

(* The end of the last body, of an if, an else-if or an else: the jumps    *)
(* over the body and from the ends of the other branches lead here.        *)
EndBranches ==
  /\ CanEnd /\ CurrentScope.type = "common"
  /\ LET outer == Prefix(flow, CurrentScope.start)
         branches == scopes[Len(scopes) - 1]
     IN  /\ Generate(
              GenerateDestroyLocalVarCmds(
                GetLocalVarDefsUpToScope(Len(scopes)), <<>>),
              CurrentScope.placeholders \cup branches.placeholders,
              Expects(outer, <<>>))
         /\ flow' = outer
  /\ scopes' = Prefix(scopes, Len(scopes) - 2)
  /\ UNCHANGED <<unit, defined, phase>>

-----------------------------------------------------------------------------
(* Functions                                                               *)

VisitFuncDef ==
  /\ CanVisit /\ CurrentScope.type = "global"
  /\ \E f \in Func \ defined :
       /\ unit' = f
       /\ layout' = [layout EXCEPT ![f] =
            <<[live |-> TRUE, flow |-> <<>>, operands |-> Reverse(Args[f])]>>]
  /\ scopes' = Append(scopes, NewScope("func", 0, 0, {}))
  /\ UNCHANGED <<code, flow, defined, phase>>

(* The caller left the arguments on the operand stack, the first on top.   *)
VisitArgDef ==
  /\ phase = "compiling" /\ ~ ArgsVisited
  /\ LET i == Here
         t == Args[unit][i]
         left(k) == Prefix(Reverse(Args[unit]), Len(Args[unit]) - k)
     IN  /\ Generate(<<Step(CreateAndInitLocalVar(t), flow, left(i - 1))>>, {},
                     Expects(Append(flow, NewDef(i, t)), left(i)))
         /\ flow' = Append(flow, NewDef(i, t))
  /\ UNCHANGED <<unit, scopes, defined, phase>>

(* A return of a value of type t, or of Void; it is noted in the scope it  *)
(* stands in, and only there.                                              *)
VisitReturn(t, value) ==
  \E insert \in InsertOutcomes(FlowScope) :
    \/ insert = "crash" /\ Stop("crashed")
    \/ insert # "crash" /\ unit = Main /\ Stop("rejected")
    \/ insert # "crash" /\ unit # Main /\ Result[unit] # t /\ Stop("rejected")
    \/ /\ insert # "crash" /\ unit # Main /\ Result[unit] = t
       /\ scopes' = [scopes EXCEPT ![Len(scopes)].has_return = TRUE]
       /\ Generate(value \o GenerateReturnCmd(GetLocalVarDefsUpToScope(FlowScope),
                                              Operands(t)),
                   {}, [live |-> Live /\ CurrentScope.type # "func",
                        flow |-> flow, operands |-> <<>>])
       /\ UNCHANGED <<unit, flow, defined, phase>>

VisitReturnValue ==
  /\ CanVisit
  /\ \E t \in VarType : \E value \in Exprs(t) : VisitReturn(t, value)

VisitReturnWithoutValue == CanVisit /\ VisitReturn(Void, <<>>)

(* The end of a function's body.  Only a return at the top level of the    *)
(* body counts: without one a void function gets a return, and any other   *)
(* is an error.                                                            *)
EndFuncDefMutant ==
  /\ CanEnd /\ CurrentScope.type = "func"
  /\ Generate(<<>>, {}, Expects(<<>>, <<>>))
  /\ flow' = <<>>
  /\ scopes' = Front(scopes)
  /\ unit' = Main
  /\ defined' = defined \cup {unit}
  /\ UNCHANGED phase
EndFuncDef ==
  /\ CanEnd /\ CurrentScope.type = "func"
  /\ IF Result[unit] # Void /\ ~CurrentScope.has_return THEN Stop("rejected")
     ELSE /\ IF CurrentScope.has_return THEN UNCHANGED <<code, layout>>
             ELSE Generate(GenerateReturnCmd(GetLocalVarDefsUpToScope(2), <<>>),
                           {}, [Expects(flow, <<>>) EXCEPT !.live = FALSE])
          /\ flow' = <<>>
          /\ scopes' = Front(scopes)
          /\ unit' = Main
          /\ defined' = defined \cup {unit}
          /\ UNCHANGED phase

-----------------------------------------------------------------------------

EndProgram ==
  /\ phase = "compiling" /\ CurrentScope.type = "global"
  /\ Stop("compiled")

Entry(f) ==
  <<[live |-> TRUE, flow |-> <<>>,
     operands |-> IF f = Main THEN <<>> ELSE Reverse(Args[f])]>>

Init ==
  /\ unit = Main
  /\ code = [u \in Unit |-> <<>>]
  /\ flow = <<>>
  /\ scopes = <<NewScope("global", 0, 0, {})>>
  /\ defined = {}
  /\ phase = "compiling"
  /\ layout = [u \in Unit |-> Entry(u)]

Next ==
  \/ VisitVarDefWithoutInit \/ VisitVarDefWithInit \/ VisitVarDefWithSelfInit
  \/ VisitExprStmt
  \/ VisitPreTestLoop \/ EndPreTestLoop \/ VisitBreak \/ VisitContinue
  \/ VisitIf \/ EndIfBody \/ VisitElse \/ EndBranches
  \/ VisitFuncDef \/ VisitArgDef \/ EndFuncDef
  \/ VisitReturnValue \/ VisitReturnWithoutValue
  \/ EndProgram

Ended == phase # "compiling" /\ UNCHANGED vars

Spec == Init /\ [][Next \/ Ended]_vars

-----------------------------------------------------------------------------
(* Properties                                                              *)

(* The state is well-formed. *)
TypeOK ==
  /\ unit \in Unit
  /\ code \in [Unit -> Seq(Cmd)]
  /\ flow \in Seq(Def)
  /\ scopes \in Seq(Scope)
  /\ defined \subseteq Func
  /\ phase \in {"compiling", "compiled", "rejected", "crashed"}
  /\ layout \in [Unit -> Seq(Layout)]

(* The scopes nest: the global one below, a function's next to it, each    *)
(* body above the if statement it belongs to, and the variables of each    *)
(* scope above those of the scopes around it.                              *)
ScopesNest ==
  /\ scopes # <<>> /\ scopes[1].type = "global"
  /\ scopes[1].start = 0 /\ scopes[1].placeholders = {}
  /\ \A i \in DOMAIN scopes :
       /\ scopes[i].type = "global" => i = 1
       /\ scopes[i].type = "func" <=> i = 2 /\ unit # Main
       /\ scopes[i].type = "common" => i > 1 /\ scopes[i - 1].type = "branches"
       /\ scopes[i].start <= Len(flow)
       /\ \A j \in 1..i : scopes[j].start <= scopes[i].start
  /\ unit # Main => Len(scopes) > 1 /\ unit \notin defined

(* Every open placeholder is the offset of a jump in the current unit. *)
PlaceholdersAreJumps ==
  \A i \in DOMAIN scopes : \A p \in scopes[i].placeholders :
    p \in DOMAIN code[unit] /\ code[unit][p].op \in JumpOp

(* There is a layout before each command and one after the last. *)
LayoutCoversCode == \A u \in Unit : Len(layout[u]) = Len(code[u]) + 1

(* A function that is neither compiled nor being compiled has no code. *)
OthersHaveNoCode ==
  \A f \in Func : f \in defined \/ f = unit \/ code[f] = <<>>

(* TypeOK is not inductive alone: the scopes are popped, and the offsets   *)
(* written, where the stack of scopes says.                                *)
TypeInv ==
  /\ TypeOK /\ ScopesNest /\ PlaceholdersAreJumps
  /\ LayoutCoversCode /\ OthersHaveNoCode

(* The operands operands with one of type t on top are those of before. *)
Pops(before, t, operands) ==
  before # <<>> /\ Last(before) = t /\ operands = Front(before)

(* The address a written jump leads to. *)
Target(p, cmd) == p + 1 + cmd.offset

(* The command cmd at p of unit u, executed where it finds what is before, *)
(* leaves what is after, jumps apart.                                      *)
Executes(u, p, cmd, before, after) ==
  LET With(f, operands) == [live |-> TRUE, flow |-> f, operands |-> operands] IN
  /\ cmd.op = "LoadValue" =>
       after = With(before.flow, Append(before.operands, cmd.type))
  /\ cmd.op = "LoadFuncValue" =>
       after = With(before.flow, Append(before.operands, cmd.func))
  /\ cmd.op = "LoadLocalVarValue" =>
       /\ after = With(before.flow, Append(before.operands, cmd.type))
       /\ cmd.def > p \/ [at |-> cmd.def, type |-> cmd.type, index |-> cmd.index]
                           \in ToSet(before.flow)
  /\ cmd.op = "CreateLocalVar" =>
       after = With(Append(before.flow, [at |-> p, type |-> cmd.type,
                                         index |-> SlotsCount(before.flow)]),
                    before.operands)
  /\ cmd.op = "CreateAndInitLocalVar" =>
       /\ Pops(before.operands, cmd.type, after.operands)
       /\ after.live
       /\ after.flow = Append(before.flow, [at |-> p, type |-> cmd.type,
                                           index |-> SlotsCount(before.flow)])
  /\ cmd.op = "DestroyLocalVar" =>
       /\ before.flow # <<>> /\ Last(before.flow).type = cmd.type
       /\ after = With(Front(before.flow), before.operands)
  /\ cmd.op = "Unload" =>
       /\ Pops(before.operands, cmd.type, after.operands)
       /\ after.live /\ after.flow = before.flow
  /\ cmd.op = "Sum" =>
       /\ Pops(before.operands, cmd.type, after.operands)
       /\ after.operands # <<>> /\ Last(after.operands) = cmd.type
       /\ after.live /\ after.flow = before.flow
  /\ cmd.op = "JumpIfNot" =>
       /\ Pops(before.operands, Bool, after.operands)
       /\ after.live /\ after.flow = before.flow
  /\ cmd.op = "Call" =>
       /\ before.operands # <<>> /\ Last(before.operands) \in Func
       /\ LET f == Last(before.operands) IN
            \E below \in {Prefix(before.operands, k) : k \in 0..Len(before.operands)} :
              /\ before.operands = Append(below \o Reverse(Args[f]), f)
              /\ after = With(before.flow, below \o Operands(Result[f]))
  /\ cmd.op = "Return" =>
       /\ u # Main /\ before.flow = <<>>
       /\ before.operands = Operands(Result[u])

(* What the jump at p of unit u leaves where it leads: a condition is gone. *)
Left(u, p) ==
  IF code[u][p].op = "JumpIfNot" THEN layout[u][p + 1] ELSE layout[u][p]

(* It arrives at a command that expects that; a placeholder is not a jump  *)
(* yet.                                                                    *)
Arrives(u, p) ==
  code[u][p].offset # Unwritten =>
    /\ Target(p, code[u][p]) \in DOMAIN layout[u]
    /\ layout[u][Target(p, code[u][p])] = Left(u, p)

(* The command at p of unit u, executed with what the layout before it     *)
(* promises, leaves what the layouts of its successors expect.             *)
CmdKeepsLayout(u, p) ==
  /\ Executes(u, p, code[u][p], layout[u][p], layout[u][p + 1])
  /\ code[u][p].op \in JumpOp => Arrives(u, p)

(* Every command that execution can reach keeps the promise: along any     *)
(* path of fall-throughs, jumps, breaks, continues and returns, the slots  *)
(* created and destroyed and the operands pushed and popped agree with     *)
(* what the analyzer noted, whichever way a command is reached.  A read    *)
(* names a variable that lies in the frame by then, or, in its own         *)
(* initializer, one that is about to.                                      *)
CodeKeepsLayout ==
  \A u \in Unit : \A p \in DOMAIN code[u] :
    layout[u][p].live => CmdKeepsLayout(u, p)

(* Execution never runs past the end of a function's code: HasReturn, kept *)
(* per scope, is enough to leave out the final return.  Main code ends     *)
(* with nothing left behind.                                               *)
CodeEnds ==
  /\ \A f \in defined : ~Last(layout[f]).live
  /\ phase = "compiled" =>
       Last(layout[Main]) = [live |-> TRUE, flow |-> <<>>, operands |-> <<>>]

(* In compiled code no placeholder is left, and no jump leaves its unit.   *)
JumpsAreWritten ==
  phase = "compiled" =>
    \A u \in defined \cup {Main} : \A p \in DOMAIN code[u] :
      code[u][p].op \in JumpOp =>
        /\ code[u][p].offset # Unwritten
        /\ Target(p, code[u][p]) \in 1..Len(code[u]) + 1

(* The analyzer gets through every program: no statement makes it insert   *)
(* through an iterator that an earlier insertion has invalidated.          *)
EveryFlowIsAnalyzed == phase # "crashed"
=============================================================================
