------------------------- MODULE FlowCompilerProofs -------------------------
(* Theorems about FlowCompiler: its types, that no placeholder is left in  *)
(* compiled code and no jump leaves its unit, that every command finds     *)
(* what it was compiled for, and that functions end.                       *)
EXTENDS FlowCompiler, TLAPS

StepSet == [cmd: Cmd, layout: Layout]

(* Every constructor builds a command of the virtual machine. *)
LEMMA CmdTypes ==
  /\ \A t \in DataType :
       /\ LoadValue(t) \in Cmd /\ CreateLocalVar(t) \in Cmd
       /\ CreateAndInitLocalVar(t) \in Cmd /\ DestroyLocalVar(t) \in Cmd
       /\ Unload(t) \in Cmd /\ Sum(t) \in Cmd
  /\ \A f \in Func : LoadFuncValue(f) \in Cmd
  /\ \A d \in Def : LoadLocalVarValue(d) \in Cmd
  /\ \A offset \in Int \cup {Unwritten} :
       JumpIfNot(offset) \in Cmd /\ DirectJump(offset) \in Cmd
  /\ Call \in Cmd /\ Return \in Cmd
BY DEF Cmd, TypedOp, JumpOp, LoadValue, CreateLocalVar, CreateAndInitLocalVar,
       DestroyLocalVar, Unload, Sum, LoadFuncValue, LoadLocalVarValue, Def,
       JumpIfNot, DirectJump, Call, Return

(* Writing offsets into jumps leaves commands, and the same operations. *)
LEMMA WriteOffsets ==
  ASSUME NEW c \in Seq(Cmd), NEW ph,
         \A p \in ph : p \in DOMAIN c => c[p].op \in JumpOp
  PROVE  LET w == WriteCurrentCmdOffset(c, ph) IN
         /\ w \in Seq(Cmd) /\ Len(w) = Len(c)
         /\ \A p \in DOMAIN c : w[p].op = c[p].op
<1> DEFINE w == WriteCurrentCmdOffset(c, ph)
<1>1. ASSUME NEW p \in DOMAIN c, p \in ph
      PROVE  w[p] \in Cmd /\ w[p].op = c[p].op
  <2>1. c[p] \in Cmd /\ c[p].op \in JumpOp BY <1>1
  <2>2. c[p] \in [op: JumpOp, offset: Int \cup {Unwritten}]
    BY <2>1 DEF Cmd, TypedOp, JumpOp
  <2>3. w[p] = [c[p] EXCEPT !.offset = Len(c) - p] BY <1>1 DEF WriteCurrentCmdOffset
  <2>4. Len(c) - p \in Int BY <1>1
  <2> QED BY <2>2, <2>3, <2>4 DEF Cmd
<1>2. ASSUME NEW p \in DOMAIN c, p \notin ph
      PROVE  w[p] \in Cmd /\ w[p].op = c[p].op
  BY <1>2 DEF WriteCurrentCmdOffset
<1>3. DOMAIN w = 1..Len(c) BY DEF WriteCurrentCmdOffset
<1> QED BY <1>1, <1>2, <1>3 DEF WriteCurrentCmdOffset

(* Reversing keeps the elements and their number. *)
LEMMA ReverseType ==
  ASSUME NEW S, NEW s \in Seq(S)
  PROVE  Reverse(s) \in Seq(S) /\ Len(Reverse(s)) = Len(s)
BY DEF Reverse

(* A prefix has elements of the same set and the length asked for. *)
LEMMA PrefixType ==
  ASSUME NEW S, NEW s \in Seq(S), NEW n \in 0..Len(s)
  PROVE  Prefix(s, n) \in Seq(S) /\ Len(Prefix(s, n)) = n
BY DEF Prefix

(* One and two elements are a sequence. *)
LEMMA TupleType ==
  ASSUME NEW S, NEW a \in S, NEW b \in S
  PROVE  <<a>> \in Seq(S) /\ <<a, b>> \in Seq(S)
OBVIOUS

(* What a concatenation is made of. *)
LEMMA Concat ==
  ASSUME NEW S, NEW a \in Seq(S), NEW b \in Seq(S)
  PROVE  /\ a \o b \in Seq(S) /\ Len(a \o b) = Len(a) + Len(b)
         /\ \A p \in DOMAIN a : (a \o b)[p] = a[p]
         /\ \A i \in DOMAIN b : (a \o b)[Len(a) + i] = b[i]
OBVIOUS

(* Appending one element. *)
LEMMA AppendParts ==
  ASSUME NEW S, NEW s \in Seq(S), NEW a \in S
  PROVE  /\ Append(s, a) \in Seq(S) /\ Len(Append(s, a)) = Len(s) + 1
         /\ DOMAIN Append(s, a) = 1..Len(s) + 1
         /\ \A i \in 1..Len(s) : Append(s, a)[i] = s[i]
         /\ Append(s, a)[Len(s) + 1] = a /\ Len(s) \in Nat
OBVIOUS

(* The commands and the layouts of steps match one to one. *)
LEMMA StepParts ==
  ASSUME NEW steps \in Seq(StepSet)
  PROVE  /\ Cmds(steps) \in Seq(Cmd) /\ Len(Cmds(steps)) = Len(steps)
         /\ Layouts(steps) \in Seq(Layout) /\ Len(Layouts(steps)) = Len(steps)
         /\ \A i \in DOMAIN steps : /\ Cmds(steps)[i] = steps[i].cmd
                                  /\ Layouts(steps)[i] = steps[i].layout
<1>1. DOMAIN steps = 1..Len(steps) OBVIOUS
<1>2. \A i \in DOMAIN steps : steps[i] \in StepSet OBVIOUS
<1>3. \A i \in DOMAIN steps : steps[i].cmd \in Cmd /\ steps[i].layout \in Layout
  BY <1>2 DEF StepSet
<1>4. Cmds(steps) \in Seq(Cmd) /\ Len(Cmds(steps)) = Len(steps)
  BY <1>1, <1>3 DEF Cmds
<1>5. Layouts(steps) \in Seq(Layout) /\ Len(Layouts(steps)) = Len(steps)
  BY <1>1, <1>3 DEF Layouts
<1> QED BY <1>4, <1>5 DEF Cmds, Layouts

OperandSeq == Seq(DataType \cup Func)

(* No operand and one operand are operand stacks. *)
LEMMA OperandTypes ==
  /\ <<>> \in OperandSeq
  /\ \A t \in DataType : <<t>> \in OperandSeq
BY DEF OperandSeq

(* A command with what it finds is a step. *)
LEMMA StepType ==
  ASSUME NEW cmd \in Cmd, NEW f \in Seq(Def), NEW operands \in OperandSeq
  PROVE  Expects(f, operands) \in Layout /\ Step(cmd, f, operands) \in StepSet
BY DEF Step, Expects, StepSet, Layout, Live, OperandSeq

(* GenerateDestroyLocalVarCmds generates one command per variable. *)
LEMMA DestroyTypes ==
  ASSUME flow \in Seq(Def), NEW defs \in Seq(Def), Len(defs) <= Len(flow),
         NEW operands \in OperandSeq
  PROVE  LET steps == GenerateDestroyLocalVarCmds(defs, operands) IN
         steps \in Seq(StepSet) /\ Len(steps) = Len(defs)
<1> DEFINE steps == GenerateDestroyLocalVarCmds(defs, operands)
<1>1. ASSUME NEW i \in 1..Len(defs) PROVE steps[i] \in StepSet
  <2>1. defs[Len(defs) - i + 1].type \in DataType
    <3>1. Len(defs) - i + 1 \in 1..Len(defs) OBVIOUS
    <3>2. defs[Len(defs) - i + 1] \in Def BY <3>1
    <3> QED BY <3>2 DEF Def
  <2>2. Prefix(flow, Len(flow) - i + 1) \in Seq(Def)
    BY PrefixType, Len(flow) - i + 1 \in 0..Len(flow)
  <2> QED BY <2>1, <2>2, CmdTypes, StepType DEF GenerateDestroyLocalVarCmds
<1> QED BY <1>1 DEF GenerateDestroyLocalVarCmds

(* GenerateJumpCmdStart generates the destroys and, last, the jump. *)
LEMMA JumpStartTypes ==
  ASSUME flow \in Seq(Def), NEW defs \in Seq(Def), Len(defs) <= Len(flow),
         NEW offset \in Int \cup {Unwritten}
  PROVE  LET steps == GenerateJumpCmdStart(defs, offset) IN
         /\ steps \in Seq(StepSet) /\ Len(steps) = Len(defs) + 1
         /\ steps[Len(defs) + 1].cmd = DirectJump(offset)
<1> DEFINE destroys == GenerateDestroyLocalVarCmds(defs, <<>>)
           jump == Step(DirectJump(offset), Prefix(flow, Len(flow) - Len(defs)), <<>>)
<1>1. destroys \in Seq(StepSet) /\ Len(destroys) = Len(defs)
  BY DestroyTypes, OperandTypes
<1>2. Prefix(flow, Len(flow) - Len(defs)) \in Seq(Def) BY PrefixType
<1>3. jump \in StepSet /\ jump.cmd = DirectJump(offset)
  <2>1. jump \in StepSet BY <1>2, CmdTypes, StepType, OperandTypes
  <2> QED BY <2>1 DEF Step
<1> HIDE DEF destroys, jump
<1>4. GenerateJumpCmdStart(defs, offset) = Append(destroys, jump)
  BY DEF GenerateJumpCmdStart, destroys, jump
<1>5. Append(destroys, jump) \in Seq(StepSet) BY <1>1, <1>3
<1>6. Append(destroys, jump)[Len(defs) + 1] = jump BY <1>1, <1>3
<1> QED BY <1>1, <1>3, <1>4, <1>5, <1>6

(* GenerateReturnCmd generates the destroys and the return. *)
LEMMA ReturnTypes ==
  ASSUME flow \in Seq(Def), NEW defs \in Seq(Def), Len(defs) <= Len(flow),
         NEW operands \in OperandSeq
  PROVE  LET steps == GenerateReturnCmd(defs, operands) IN
         steps \in Seq(StepSet) /\ Len(steps) = Len(defs) + 1
<1> DEFINE destroys == GenerateDestroyLocalVarCmds(defs, operands)
           return == Step(Return, Prefix(flow, Len(flow) - Len(defs)), operands)
<1>1. destroys \in Seq(StepSet) /\ Len(destroys) = Len(defs) BY DestroyTypes
<1>2. return \in StepSet BY PrefixType, CmdTypes, StepType
<1> HIDE DEF destroys, return
<1>3. GenerateReturnCmd(defs, operands) = Append(destroys, return)
  BY DEF GenerateReturnCmd, destroys, return
<1> QED BY <1>1, <1>2, <1>3

(* A call generates well-formed steps. *)
LEMMA CallTypes ==
  ASSUME flow \in Seq(Def), NEW f \in Func, NEW below \in OperandSeq
  PROVE  VisitCall(f, below) \in Seq(StepSet)
<1> DEFINE args == Reverse(Args[f])
           loads == [i \in 1..Len(args) |->
                       Step(LoadValue(args[i]), flow, below \o Prefix(args, i - 1))]
           last == <<Step(LoadFuncValue(f), flow, below \o args),
                     Step(Call, flow, Append(below \o args, f))>>
<1>1. args \in Seq(DataType) BY ReverseType, FuncsAssumption
<1>2. \A s \in Seq(DataType) : below \o s \in OperandSeq BY DEF OperandSeq
<1> HIDE DEF args
<1>3. ASSUME NEW i \in 1..Len(args) PROVE loads[i] \in StepSet
  <2>1. Prefix(args, i - 1) \in Seq(DataType) BY <1>1, PrefixType
  <2>2. args[i] \in DataType BY <1>1
  <2> QED BY <1>2, <2>1, <2>2, CmdTypes, StepType
<1>4. loads \in Seq(StepSet) BY <1>1, <1>3
<1>5. Append(below \o args, f) \in OperandSeq BY <1>1, <1>2 DEF OperandSeq
<1>6. last[1] \in StepSet /\ last[2] \in StepSet
  BY <1>1, <1>2, <1>5, CmdTypes, StepType
<1> HIDE DEF loads, last
<1>7. last \in Seq(StepSet)
  <2>1. last = <<last[1], last[2]>> BY DEF last
  <2> QED BY <1>6, <2>1, TupleType
<1>8. VisitCall(f, below) = loads \o last BY DEF VisitCall, args, loads, last
<1> QED BY <1>4, <1>7, <1>8

(* So does a literal. *)
LEMMA LiteralTypes ==
  ASSUME flow \in Seq(Def), NEW t \in DataType
  PROVE  Literal(t) \in Seq(StepSet)
<1>1. Step(LoadValue(t), flow, <<>>) \in StepSet
  BY CmdTypes, StepType, OperandTypes
<1> QED BY <1>1, TupleType DEF Literal

(* So does the use of a local variable. *)
LEMMA IdTypes ==
  ASSUME flow \in Seq(Def), NEW d \in Def
  PROVE  VisitId(d) \in Seq(StepSet) /\ Len(VisitId(d)) = 1
<1>1. Step(LoadLocalVarValue(d), flow, <<>>) \in StepSet
  BY CmdTypes, StepType, OperandTypes
<1> QED BY <1>1, TupleType DEF VisitId

(* So does the sum of a literal and a call. *)
LEMMA SumTypes ==
  ASSUME flow \in Seq(Def), NEW t \in DataType, NEW f \in Func
  PROVE  VisitSum(t, f) \in Seq(StepSet)
<1>1. VisitCall(f, <<t>>) \in Seq(StepSet) BY CallTypes, OperandTypes
<1>2. Step(Sum(t), flow, <<t, t>>) \in StepSet
  <2>1. <<t, t>> \in OperandSeq BY DEF OperandSeq
  <2> QED BY <2>1, CmdTypes, StepType
<1>3. <<Step(Sum(t), flow, <<t, t>>)>> \in Seq(StepSet) BY <1>2, TupleType
<1> QED BY <1>1, <1>3, LiteralTypes DEF VisitSum

(* An expression is a sequence of commands with their layouts. *)
LEMMA ExprTypes ==
  ASSUME TypeOK, NEW t \in DataType \cup {Void}, NEW e \in Exprs(t)
  PROVE  e \in Seq(StepSet)
<1> USE DEF TypeOK
<1>1. CASE t # Void /\ e = Literal(t) BY <1>1, LiteralTypes
<1>2. CASE \E d \in ToSet(flow) : e = VisitId(d)
  <2>1. PICK d \in ToSet(flow) : e = VisitId(d) BY <1>2
  <2>2. d \in Def BY DEF ToSet
  <2> QED BY <2>1, <2>2, IdTypes
<1>3. CASE \E f \in Callable : e = VisitCall(f, <<>>)
  <2>1. PICK f \in Callable : e = VisitCall(f, <<>>) BY <1>3
  <2>2. f \in Func BY DEF Callable, Unit
  <2> QED BY <2>1, <2>2, CallTypes, OperandTypes
<1>4. CASE t # Void /\ \E f \in Callable : e = VisitSum(t, f)
  <2>1. PICK f \in Callable : e = VisitSum(t, f) BY <1>4
  <2>2. f \in Func BY DEF Callable, Unit
  <2> QED BY <1>4, <2>1, <2>2, SumTypes
<1> QED BY <1>1, <1>2, <1>3, <1>4 DEF Exprs

(* What generating steps does to the code and the layouts.                 *)
LEMMA GenerateTypes ==
  ASSUME TypeInv, NEW steps \in Seq(StepSet), NEW next \in Layout,
         NEW placeholders \in SUBSET (UNION {scopes[i].placeholders : i \in DOMAIN scopes}),
         Generate(steps, placeholders, next)
  PROVE  /\ code' \in [Unit -> Seq(Cmd)]
         /\ layout' \in [Unit -> Seq(Layout)]
         /\ \A u \in Unit : Len(layout'[u]) = Len(code'[u]) + 1
         /\ \A u \in Unit : u # unit => code'[u] = code[u]
         /\ DOMAIN code'[unit] = 1..Len(code[unit]) + Len(steps)
         /\ \A p \in DOMAIN code[unit] : code'[unit][p].op = code[unit][p].op
         /\ \A i \in DOMAIN steps :
              code'[unit][Len(code[unit]) + i].op = steps[i].cmd.op
<1> DEFINE c == code[unit] \o Cmds(steps)
           w == WriteCurrentCmdOffset(c, placeholders)
<1> unit \in Unit /\ code \in [Unit -> Seq(Cmd)] /\ layout \in [Unit -> Seq(Layout)]
  BY DEF TypeInv, TypeOK
<1>1. Cmds(steps) \in Seq(Cmd) /\ Len(Cmds(steps)) = Len(steps)
  BY StepParts
<1>2. Layouts(steps) \in Seq(Layout) /\ Len(Layouts(steps)) = Len(steps)
  BY StepParts
<1>3. /\ c \in Seq(Cmd) /\ Len(c) = Len(code[unit]) + Len(steps)
      /\ \A p \in DOMAIN code[unit] : c[p] = code[unit][p]
      /\ \A i \in DOMAIN steps : c[Len(code[unit]) + i] = steps[i].cmd
  <2>1. code[unit] \in Seq(Cmd) OBVIOUS
  <2>2. DOMAIN Cmds(steps) = DOMAIN steps BY <1>1
  <2> DEFINE old == code[unit]
             new == Cmds(steps)
  <2>3. old \in Seq(Cmd) /\ new \in Seq(Cmd) BY <1>1, <2>1
  <2> HIDE DEF old, new
  <2>4. /\ old \o new \in Seq(Cmd) /\ Len(old \o new) = Len(old) + Len(new)
        /\ \A p \in DOMAIN old : (old \o new)[p] = old[p]
        /\ \A i \in DOMAIN new : (old \o new)[Len(old) + i] = new[i]
    BY <2>3, Concat
  <2> QED BY <1>1, <2>2, <2>4, StepParts DEF old, new
<1>4. \A p \in placeholders : p \in DOMAIN c /\ c[p].op \in JumpOp
  <2>1. \A p \in placeholders : p \in DOMAIN code[unit] /\ code[unit][p].op \in JumpOp
    BY DEF TypeInv, PlaceholdersAreJumps
  <2>2. code[unit] \in Seq(Cmd) OBVIOUS
  <2> QED BY <1>3, <2>1, <2>2
<1> HIDE DEF c
<1>5. w \in Seq(Cmd) /\ Len(w) = Len(c) /\ \A p \in DOMAIN c : w[p].op = c[p].op
  BY <1>3, <1>4, WriteOffsets
<1>6. code' = [code EXCEPT ![unit] = w] BY DEF Generate, c
<1> HIDE DEF w
<1>7. code' \in [Unit -> Seq(Cmd)] /\ code'[unit] = w BY <1>5, <1>6
<1> DEFINE l == Prefix(layout[unit], Len(code[unit])) \o Layouts(steps) \o <<next>>
<1>8. Len(layout[unit]) = Len(code[unit]) + 1 BY DEF TypeInv, LayoutCoversCode
<1>9. l \in Seq(Layout) /\ Len(l) = Len(w) + 1
  <2>1. /\ Prefix(layout[unit], Len(code[unit])) \in Seq(Layout)
        /\ Len(Prefix(layout[unit], Len(code[unit]))) = Len(code[unit])
    <3>1. layout[unit] \in Seq(Layout) /\ code[unit] \in Seq(Cmd) OBVIOUS
    <3>2. Len(code[unit]) \in 0..Len(layout[unit]) BY <1>8, <3>1
    <3> QED BY <3>1, <3>2, PrefixType
  <2>2. <<next>> \in Seq(Layout) BY TupleType
  <2> DEFINE old == Prefix(layout[unit], Len(code[unit]))
             new == Layouts(steps)
             front == old \o new
  <2>5. old \in Seq(Layout) /\ new \in Seq(Layout) BY <1>2, <2>1
  <2>6. Len(old) = Len(code[unit]) /\ Len(new) = Len(steps) BY <1>2, <2>1
  <2> HIDE DEF old, new
  <2>3. /\ front \in Seq(Layout)
        /\ Len(front) = Len(code[unit]) + Len(steps)
    <3>1. front \in Seq(Layout) /\ Len(front) = Len(old) + Len(new)
      BY <2>5, Concat
    <3> QED BY <2>6, <3>1
  <2> HIDE DEF front
  <2>4. /\ front \o <<next>> \in Seq(Layout)
        /\ Len(front \o <<next>>) = Len(front) + 1
    BY <2>2, <2>3, Concat
  <2> QED BY <1>3, <1>5, <2>3, <2>4 DEF front, old, new
<1>10. layout' = [layout EXCEPT ![unit] = l] BY DEF Generate
<1> HIDE DEF l
<1>11. layout' \in [Unit -> Seq(Layout)] BY <1>9, <1>10
<1>12. \A u \in Unit : Len(layout'[u]) = Len(code'[u]) + 1
  BY <1>6, <1>7, <1>9, <1>10 DEF TypeInv, LayoutCoversCode
<1>13. \A p \in DOMAIN code[unit] : p \in DOMAIN c
  <2>1. code[unit] \in Seq(Cmd) OBVIOUS
  <2> QED BY <1>3, <2>1
<1>14. \A i \in DOMAIN steps : Len(code[unit]) + i \in DOMAIN c
  <2>1. code[unit] \in Seq(Cmd) OBVIOUS
  <2> QED BY <1>3, <2>1
<1>15. \A u \in Unit : u # unit => code'[u] = code[u] BY <1>6
<1> QED BY <1>3, <1>5, <1>7, <1>11, <1>12, <1>13, <1>14, <1>15

-----------------------------------------------------------------------------
(* Type correctness                                                        *)

(* The current scope, and the scope where a search for the function ends. *)
LEMMA ScopeFacts ==
  ASSUME TypeInv
  PROVE  /\ Len(scopes) \in DOMAIN scopes /\ FlowScope \in DOMAIN scopes
         /\ DOMAIN scopes = 1..Len(scopes)
         /\ Len(scopes) \in Nat \ {0} /\ Len(flow) \in Nat
         /\ CurrentScope \in Scope /\ CurrentScope.start \in 0..Len(flow)
         /\ CurrentScope = scopes[Len(scopes)]
<1>1. scopes \in Seq(Scope) /\ scopes # <<>> /\ flow \in Seq(Def)
  BY DEF TypeInv, TypeOK, ScopesNest
<1>2. Len(scopes) \in Nat \ {0} /\ DOMAIN scopes = 1..Len(scopes)
  BY <1>1
<1>3. FlowScope \in DOMAIN scopes
  BY <1>2 DEF FlowScope, TypeInv, ScopesNest
<1>4. CurrentScope \in Scope /\ CurrentScope = scopes[Len(scopes)]
  BY <1>1, <1>2 DEF CurrentScope, Last
<1>5. CurrentScope.start \in Nat /\ CurrentScope.start <= Len(flow)
  BY <1>2, <1>4 DEF Scope, TypeInv, ScopesNest
<1> QED BY <1>1, <1>2, <1>3, <1>4, <1>5

(* The variables up to a scope are a segment at the end of the flow. *)
LEMMA DefsTypes ==
  ASSUME TypeInv, NEW i \in DOMAIN scopes
  PROVE  /\ GetLocalVarDefsUpToScope(i) \in Seq(Def)
         /\ Len(GetLocalVarDefsUpToScope(i)) <= Len(flow)
         /\ Prefix(flow, scopes[i].start) \in Seq(Def)
         /\ Len(Prefix(flow, scopes[i].start)) = scopes[i].start
<1>1. flow \in Seq(Def) /\ scopes \in Seq(Scope) BY DEF TypeInv, TypeOK
<1>2. scopes[i].start \in Nat /\ scopes[i].start <= Len(flow)
  <2>1. scopes[i] \in Scope BY <1>1
  <2> QED BY <2>1 DEF Scope, TypeInv, ScopesNest
<1>3. scopes[i].start \in 0..Len(flow) BY <1>1, <1>2
<1>4. /\ Prefix(flow, scopes[i].start) \in Seq(Def)
      /\ Len(Prefix(flow, scopes[i].start)) = scopes[i].start
  BY <1>1, <1>3, PrefixType
<1>5. /\ GetLocalVarDefsUpToScope(i) \in Seq(Def)
      /\ Len(GetLocalVarDefsUpToScope(i)) <= Len(flow)
  BY <1>1, <1>2 DEF GetLocalVarDefsUpToScope
<1> QED BY <1>4, <1>5

(* Stopping changes nothing else. *)
LEMMA StopKeeps ==
  ASSUME TypeInv, NEW outcome \in {"compiled", "rejected", "crashed"}, Stop(outcome)
  PROVE  TypeInv'
BY DEF TypeInv, TypeOK, ScopesNest, PlaceholdersAreJumps, LayoutCoversCode,
       OthersHaveNoCode, Stop

(* The placeholders of all the open scopes. *)
Placeholders == UNION {scopes[i].placeholders : i \in DOMAIN scopes}

(* A statement that generates steps keeps the invariant when the scopes it *)
(* leaves nest and hold placeholders of before or jumps among the steps.   *)
LEMMA GenerateKeeps ==
  ASSUME TypeInv, NEW steps \in Seq(StepSet), NEW next \in Layout,
         NEW placeholders \in SUBSET Placeholders,
         Generate(steps, placeholders, next),
         UNCHANGED <<unit, defined, phase>>,
         flow' \in Seq(Def), scopes' \in Seq(Scope), ScopesNest',
         \A i \in DOMAIN scopes' : \A p \in scopes'[i].placeholders :
           \/ p \in Placeholders
           \/ \E k \in DOMAIN steps :
                p = Len(code[unit]) + k /\ steps[k].cmd.op \in JumpOp
  PROVE  TypeInv'
<1>1. /\ code' \in [Unit -> Seq(Cmd)]
      /\ layout' \in [Unit -> Seq(Layout)]
      /\ \A u \in Unit : Len(layout'[u]) = Len(code'[u]) + 1
      /\ \A u \in Unit : u # unit => code'[u] = code[u]
      /\ DOMAIN code'[unit] = 1..Len(code[unit]) + Len(steps)
      /\ \A p \in DOMAIN code[unit] : code'[unit][p].op = code[unit][p].op
      /\ \A i \in DOMAIN steps :
           code'[unit][Len(code[unit]) + i].op = steps[i].cmd.op
  BY GenerateTypes DEF Placeholders
<1>2. TypeOK' BY <1>1 DEF TypeInv, TypeOK
<1>3. LayoutCoversCode' BY <1>1 DEF LayoutCoversCode
<1>4. code[unit] \in Seq(Cmd) BY DEF TypeInv, TypeOK
<1>5. ASSUME NEW i \in DOMAIN scopes', NEW p \in scopes'[i].placeholders
      PROVE  p \in DOMAIN code'[unit] /\ code'[unit][p].op \in JumpOp
  <2>1. CASE p \in Placeholders
    <3>1. p \in DOMAIN code[unit] /\ code[unit][p].op \in JumpOp
      BY <2>1 DEF Placeholders, TypeInv, PlaceholdersAreJumps
    <3>2. p \in 1..Len(code[unit]) + Len(steps) BY <1>4, <3>1
    <3> QED BY <1>1, <3>1, <3>2
  <2>2. CASE \E k \in DOMAIN steps :
               p = Len(code[unit]) + k /\ steps[k].cmd.op \in JumpOp
    <3>1. PICK k \in DOMAIN steps :
                 p = Len(code[unit]) + k /\ steps[k].cmd.op \in JumpOp
      BY <2>2
    <3>2. p \in 1..Len(code[unit]) + Len(steps) BY <1>4, <3>1
    <3> QED BY <1>1, <3>1, <3>2
  <2> QED BY <2>1, <2>2
<1>6. PlaceholdersAreJumps' BY <1>5 DEF PlaceholdersAreJumps
<1>7. OthersHaveNoCode' BY <1>1 DEF TypeInv, OthersHaveNoCode, Unit
<1> QED BY <1>2, <1>3, <1>6, <1>7 DEF TypeInv

(* A statement that leaves the scopes alone and drops no variable.         *)
LEMMA SameScopesKeep ==
  ASSUME TypeInv, NEW steps \in Seq(StepSet), NEW next \in Layout,
         Generate(steps, {}, next), UNCHANGED <<unit, scopes, defined, phase>>,
         flow' \in Seq(Def), Len(flow) <= Len(flow')
  PROVE  TypeInv'
<1>1. scopes' \in Seq(Scope) /\ flow \in Seq(Def) BY DEF TypeInv, TypeOK
<1>2. \A i \in DOMAIN scopes : scopes[i].start \in Nat
  <2>1. \A i \in DOMAIN scopes : scopes[i] \in Scope BY <1>1
  <2> QED BY <2>1 DEF Scope
<1>3. \A i \in DOMAIN scopes : scopes[i].start <= Len(flow')
  BY <1>1, <1>2 DEF TypeInv, ScopesNest
<1>4. ScopesNest' BY <1>3 DEF TypeInv, ScopesNest
<1>5. \A i \in DOMAIN scopes' : \A p \in scopes'[i].placeholders :
        p \in Placeholders
  BY DEF Placeholders
<1> QED BY <1>1, <1>4, <1>5, GenerateKeeps

(* Defining a variable. *)
LEMMA VarDefKeeps ==
  ASSUME TypeInv, NEW d \in Def, NEW steps \in Seq(StepSet), VisitVarDef(d, steps)
  PROVE  TypeInv'
<1>1. PICK insert \in InsertOutcomes(FlowScope) :
        IF insert = "crash" THEN Stop("crashed")
        ELSE /\ flow' = Append(flow, d)
             /\ Generate(steps, {}, Expects(Append(flow, d), <<>>))
             /\ UNCHANGED <<unit, scopes, defined, phase>>
  BY DEF VisitVarDef
<1>2. CASE insert = "crash" BY <1>1, <1>2, StopKeeps
<1>3. CASE insert # "crash"
  <2>1. flow \in Seq(Def) BY DEF TypeInv, TypeOK
  <2>2. Append(flow, d) \in Seq(Def) /\ Len(flow) <= Len(Append(flow, d))
    BY <2>1
  <2>3. Expects(Append(flow, d), <<>>) \in Layout
    BY <2>2, CmdTypes, StepType, OperandTypes
  <2> QED BY <1>1, <1>3, <2>2, <2>3, SameScopesKeep
<1> QED BY <1>2, <1>3

(* The address, type and index of a new variable. *)
LEMMA NewDefTypes ==
  ASSUME TypeInv, NEW at \in Nat, NEW t \in DataType
  PROVE  NewDef(at, t) \in Def
<1>1. flow \in Seq(Def) BY DEF TypeInv, TypeOK
<1>2. SlotsCount(flow) \in Nat
  <2>1. CASE flow = <<>> BY <2>1 DEF SlotsCount
  <2>2. CASE flow # <<>>
    <3>1. Last(flow) \in Def BY <1>1, <2>2 DEF Last
    <3>2. Last(flow).index \in Nat /\ Size[Last(flow).type] \in {1, 2}
      BY <3>1, DataTypesAssumption DEF Def
    <3> QED BY <2>2, <3>2 DEF SlotsCount
  <2> QED BY <2>1, <2>2
<1> QED BY <1>2 DEF NewDef, Def

(* A command that follows an expression. *)
LEMMA AppendTypes ==
  ASSUME TypeInv, NEW e \in Seq(StepSet), NEW cmd \in Cmd, NEW t \in DataType
  PROVE  /\ Append(e, Step(cmd, flow, <<t>>)) \in Seq(StepSet)
         /\ Len(e) \in Nat /\ Len(e) + 1 \in DOMAIN Append(e, Step(cmd, flow, <<t>>))
         /\ Append(e, Step(cmd, flow, <<t>>))[Len(e) + 1].cmd = cmd
<1> DEFINE step == Step(cmd, flow, <<t>>)
<1>1. step \in StepSet BY StepType, OperandTypes DEF TypeInv, TypeOK
<1>2. step.cmd = cmd BY DEF Step
<1> HIDE DEF step
<1>3. /\ Append(e, step) \in Seq(StepSet) /\ Len(e) \in Nat
      /\ Len(e) + 1 \in DOMAIN Append(e, step)
      /\ Append(e, step)[Len(e) + 1] = step
  BY <1>1
<1> QED BY <1>2, <1>3 DEF step

(* The layout where no operand waits. *)
LEMMA NextTypes ==
  ASSUME NEW f \in Seq(Def)
  PROVE  Expects(f, <<>>) \in Layout
BY CmdTypes, StepType, OperandTypes

(* Conditions and variables have data types. *)
LEMMA SomeTypes ==
  /\ Bool \in DataType /\ Bool \in DataType \cup {Void}
  /\ VarType \subseteq DataType
BY DataTypesAssumption

(* The three forms of variable definitions keep the invariant. *)
LEMMA VarDefStmtsKeep ==
  ASSUME TypeInv,
         VisitVarDefWithoutInit \/ VisitVarDefWithInit \/ VisitVarDefWithSelfInit
  PROVE  TypeInv'
<1>1. Here \in Nat /\ flow \in Seq(Def)
  BY DEF Here, TypeInv, TypeOK
<1>2. CASE VisitVarDefWithoutInit
  <2>1. PICK t \in VarType :
          VisitVarDef(NewDef(Here, t), <<Step(CreateLocalVar(t), flow, <<>>)>>)
    BY <1>2 DEF VisitVarDefWithoutInit
  <2>2. t \in DataType BY SomeTypes
  <2>3. Step(CreateLocalVar(t), flow, <<>>) \in StepSet
    BY <1>1, <2>2, CmdTypes, StepType, OperandTypes
  <2> QED BY <1>1, <2>1, <2>2, <2>3, TupleType, NewDefTypes, VarDefKeeps
<1>3. CASE VisitVarDefWithInit
  <2>1. PICK t \in VarType : \E value \in Exprs(t) :
          VisitVarDef(NewDef(Here + Len(value), t),
                      Append(value, Step(CreateAndInitLocalVar(t), flow, <<t>>)))
    BY <1>3 DEF VisitVarDefWithInit
  <2>2. PICK value \in Exprs(t) :
          VisitVarDef(NewDef(Here + Len(value), t),
                      Append(value, Step(CreateAndInitLocalVar(t), flow, <<t>>)))
    BY <2>1
  <2>3. t \in DataType BY SomeTypes
  <2>4. value \in Seq(StepSet) BY <2>3, ExprTypes DEF TypeInv
  <2>5. Append(value, Step(CreateAndInitLocalVar(t), flow, <<t>>)) \in Seq(StepSet)
    BY <2>3, <2>4, CmdTypes, AppendTypes
  <2>6. Here + Len(value) \in Nat BY <1>1, <2>4
  <2> QED BY <2>2, <2>3, <2>5, <2>6, NewDefTypes, VarDefKeeps
<1>4. CASE VisitVarDefWithSelfInit
  <2>1. PICK t \in VarType :
          VisitVarDef(NewDef(Here + 1, t),
                      Append(VisitId(NewDef(Here + 1, t)),
                             Step(CreateAndInitLocalVar(t), flow, <<t>>)))
    BY <1>4 DEF VisitVarDefWithSelfInit
  <2>2. t \in DataType BY SomeTypes
  <2>3. NewDef(Here + 1, t) \in Def BY <1>1, <2>2, NewDefTypes
  <2>4. VisitId(NewDef(Here + 1, t)) \in Seq(StepSet) BY <1>1, <2>3, IdTypes
  <2>5. Append(VisitId(NewDef(Here + 1, t)),
               Step(CreateAndInitLocalVar(t), flow, <<t>>)) \in Seq(StepSet)
    BY <2>2, <2>4, CmdTypes, AppendTypes
  <2> QED BY <2>1, <2>3, <2>5, VarDefKeeps
<1> QED BY <1>2, <1>3, <1>4

(* An expression statement keeps the invariant. *)
LEMMA ExprStmtKeeps ==
  ASSUME TypeInv, VisitExprStmt
  PROVE  TypeInv'
<1>1. PICK t \in VarType \cup {Void} : \E expr \in Exprs(t) :
        Generate(IF t = Void THEN expr
                 ELSE Append(expr, Step(Unload(t), flow, <<t>>)),
                 {}, Expects(flow, <<>>))
  BY DEF VisitExprStmt
<1>2. PICK expr \in Exprs(t) :
        Generate(IF t = Void THEN expr
                 ELSE Append(expr, Step(Unload(t), flow, <<t>>)),
                 {}, Expects(flow, <<>>))
  BY <1>1
<1>3. t \in DataType \cup {Void} BY SomeTypes
<1>4. expr \in Seq(StepSet) BY <1>3, ExprTypes DEF TypeInv
<1>5. t # Void => Append(expr, Step(Unload(t), flow, <<t>>)) \in Seq(StepSet)
  BY <1>3, <1>4, CmdTypes, AppendTypes
<1>6. /\ UNCHANGED <<unit, scopes, defined, phase>>
      /\ flow' = flow /\ flow \in Seq(Def) /\ Len(flow) <= Len(flow')
  BY DEF VisitExprStmt, TypeInv, TypeOK
<1>7. Expects(flow, <<>>) \in Layout BY <1>6, NextTypes
<1> QED BY <1>2, <1>4, <1>5, <1>6, <1>7, SameScopesKeep

(* The nesting of scopes sc above n variables, in main code or not. *)
Nests(sc, n, main) ==
  /\ sc # <<>> /\ sc[1].type = "global"
  /\ sc[1].start = 0 /\ sc[1].placeholders = {}
  /\ \A i \in DOMAIN sc :
       /\ sc[i].type = "global" => i = 1
       /\ sc[i].type = "func" <=> i = 2 /\ ~main
       /\ sc[i].type = "common" => i > 1 /\ sc[i - 1].type = "branches"
       /\ sc[i].start <= n
       /\ \A j \in 1..i : sc[j].start <= sc[i].start
  /\ ~main => Len(sc) > 1

(* Opening a scope for a body or an if statement. *)
LEMMA OpenNests ==
  ASSUME NEW sc \in Seq(Scope), NEW n \in Nat, NEW main \in BOOLEAN,
         Nests(sc, n, main), NEW s \in Scope, s.start = n,
         s.type \in {"loop", "branches", "common"},
         s.type = "common" => Last(sc).type = "branches"
  PROVE  /\ Append(sc, s) \in Seq(Scope) /\ Nests(Append(sc, s), n, main)
         /\ Last(Append(sc, s)) = s
         /\ \A i \in DOMAIN Append(sc, s) :
              Append(sc, s)[i] = s \/ (i \in DOMAIN sc /\ Append(sc, s)[i] = sc[i])
<1> DEFINE new == Append(sc, s)
<1>1. Len(sc) \in Nat \ {0} /\ DOMAIN sc = 1..Len(sc) BY DEF Nests
<1>2. /\ new \in Seq(Scope)
      /\ Len(new) = Len(sc) + 1
      /\ \A i \in 1..Len(sc) : new[i] = sc[i]
      /\ new[Len(sc) + 1] = s
      /\ DOMAIN new = 1..Len(sc) + 1
  BY <1>1
<1> HIDE DEF new
<1>3. ASSUME NEW i \in 1..Len(sc) + 1
      PROVE  /\ new[i].type = "global" => i = 1
             /\ new[i].type = "func" <=> i = 2 /\ ~main
             /\ new[i].type = "common" => i > 1 /\ new[i - 1].type = "branches"
             /\ new[i].start <= n
             /\ \A j \in 1..i : new[j].start <= new[i].start
  <2>1. CASE i \in 1..Len(sc)
    <3>1. new[i] = sc[i] /\ \A j \in 1..i : new[j] = sc[j]
      BY <1>1, <1>2, <2>1
    <3>2. i > 1 => new[i - 1] = sc[i - 1] BY <2>1, <3>1
    <3> QED BY <1>1, <2>1, <3>1, <3>2 DEF Nests
  <2>2. CASE i = Len(sc) + 1
    <3>1. new[i] = s BY <1>2, <2>2
    <3>2. s.type = "common" => i > 1 /\ new[i - 1] = Last(sc)
      BY <1>1, <1>2, <2>2 DEF Last
    <3>3. i = 2 => main BY <1>1, <2>2 DEF Nests
    <3>4. ASSUME NEW j \in 1..i PROVE new[j].start <= new[i].start
      <4>1. CASE j = i
        <5>1. s.start \in Nat BY DEF Scope
        <5> QED BY <3>1, <4>1, <5>1
      <4>2. CASE j \in 1..Len(sc)
        <5>1. new[j] = sc[j] BY <1>2, <4>2
        <5> QED BY <1>1, <3>1, <4>2, <5>1 DEF Nests
      <4> QED BY <1>1, <2>2, <4>1, <4>2
    <3> QED BY <3>1, <3>2, <3>3, <3>4
  <2> QED BY <1>1, <2>1, <2>2
<1>4. new # <<>> /\ new[1] = sc[1] /\ Len(new) > 1 BY <1>1, <1>2
<1>5. Nests(new, n, main) BY <1>2, <1>3, <1>4 DEF Nests
<1>6. Last(new) = s BY <1>1, <1>2 DEF Last
<1> QED BY <1>1, <1>2, <1>5, <1>6 DEF new

(* Closing the scopes above the k-th, with the variables they hold. *)
LEMMA CloseNests ==
  ASSUME NEW sc \in Seq(Scope), NEW n \in Nat, NEW main \in BOOLEAN,
         Nests(sc, n, main), NEW k \in 1..Len(sc) - 1, ~main => k > 1,
         NEW m \in Nat, sc[k + 1].start <= m
  PROVE  /\ Prefix(sc, k) \in Seq(Scope)
         /\ Nests(Prefix(sc, k), m, main)
         /\ DOMAIN Prefix(sc, k) = 1..k
         /\ \A i \in 1..k : i \in DOMAIN sc /\ Prefix(sc, k)[i] = sc[i]
<1> DEFINE new == Prefix(sc, k)
<1>1. Len(sc) \in Nat \ {0} /\ DOMAIN sc = 1..Len(sc) BY DEF Nests
<1>2. /\ new \in Seq(Scope) /\ Len(new) = k /\ DOMAIN new = 1..k
      /\ \A i \in 1..k : new[i] = sc[i]
  BY <1>1 DEF Prefix
<1> HIDE DEF new
<1>3. ASSUME NEW i \in 1..k
      PROVE  /\ sc[i].start <= m
             /\ i \in DOMAIN sc /\ (i > 1 => i - 1 \in 1..k)
  <2>1. sc[i].start <= sc[k + 1].start BY <1>1 DEF Nests
  <2>2. sc[i].start \in Nat /\ sc[k + 1].start \in Nat
    <3>1. sc[i] \in Scope /\ sc[k + 1] \in Scope BY <1>1
    <3> QED BY <3>1 DEF Scope
  <2> QED BY <1>1, <2>1, <2>2
<1>4. \A i \in 1..k : \A j \in 1..i : j \in 1..k OBVIOUS
<1>5. ASSUME NEW i \in 1..k
      PROVE  /\ new[i].type = "global" => i = 1
             /\ new[i].type = "func" <=> i = 2 /\ ~main
             /\ new[i].type = "common" => i > 1 /\ new[i - 1].type = "branches"
             /\ new[i].start <= m
             /\ \A j \in 1..i : new[j].start <= new[i].start
  <2>1. new[i] = sc[i] /\ i \in DOMAIN sc BY <1>2, <1>3
  <2>2. i > 1 => new[i - 1] = sc[i - 1] BY <1>2, <1>3
  <2>3. \A j \in 1..i : new[j] = sc[j] BY <1>2, <1>4
  <2> QED BY <1>3, <2>1, <2>2, <2>3 DEF Nests
<1>6. new # <<>> /\ new[1] = sc[1] BY <1>2
<1>7. Nests(new, m, main) BY <1>2, <1>5, <1>6 DEF Nests
<1> QED BY <1>2, <1>3, <1>7 DEF new

Addresses == SUBSET Nat
WithPlaceholders(sc, i, ps) == [sc EXCEPT ![i].placeholders = @ \cup ps]
WithReturn(sc, i) == [sc EXCEPT ![i].has_return = TRUE]

(* Noting placeholders or a return in a scope that is not the global one. *)
LEMMA NoteNests ==
  ASSUME NEW sc \in Seq(Scope), NEW n, NEW main \in BOOLEAN, Nests(sc, n, main),
         NEW i \in DOMAIN sc, sc[i].type # "global", NEW ps \in Addresses,
         NEW new, new = WithPlaceholders(sc, i, ps) \/ new = WithReturn(sc, i)
  PROVE  /\ new \in Seq(Scope) /\ Nests(new, n, main) /\ DOMAIN new = DOMAIN sc
         /\ \A j \in DOMAIN sc :
              new[j].placeholders \subseteq sc[j].placeholders \cup ps
<1> USE DEF WithPlaceholders, WithReturn, Addresses
<1>1. Len(sc) \in Nat \ {0} /\ DOMAIN sc = 1..Len(sc) BY DEF Nests
<1>2. ASSUME NEW j \in DOMAIN sc
      PROVE  /\ new[j] \in Scope
             /\ new[j].type = sc[j].type /\ new[j].start = sc[j].start
             /\ new[j].placeholders \subseteq sc[j].placeholders \cup ps
             /\ j # i => new[j] = sc[j]
  <2>1. sc[j] \in Scope /\ sc[i] \in Scope BY <1>1
  <2>2. CASE j # i BY <1>1, <2>1, <2>2
  <2>3. CASE j = i
    <3>1. \/ new[j] = [sc[i] EXCEPT !.placeholders = @ \cup ps]
          \/ new[j] = [sc[i] EXCEPT !.has_return = TRUE]
      BY <1>1, <2>3
    <3> QED BY <2>1, <2>3, <3>1 DEF Scope
  <2> QED BY <2>2, <2>3
<1>3. new \in Seq(Scope) /\ DOMAIN new = DOMAIN sc /\ Len(new) = Len(sc)
  <2>1. DOMAIN new = 1..Len(sc) BY <1>1
  <2>2. new = [j \in 1..Len(sc) |-> new[j]] BY <1>1
  <2> QED BY <1>1, <1>2, <2>1, <2>2
<1>4. new[1] = sc[1] /\ new # <<>> BY <1>1, <1>2, <1>3 DEF Nests
<1>5. ASSUME NEW j \in DOMAIN sc
      PROVE  (j > 1 => j - 1 \in DOMAIN sc) /\ \A k \in 1..j : k \in DOMAIN sc
  BY <1>1
<1>6. Nests(new, n, main) BY <1>2, <1>3, <1>4, <1>5 DEF Nests
<1> QED BY <1>2, <1>3, <1>6

(* The open scopes nest, before and after a step. *)
LEMMA NestsNow ==
  /\ TypeInv => Nests(scopes, Len(flow), unit = Main)
  /\ TypeInv /\ UNCHANGED <<unit, defined>>
       /\ Nests(scopes', Len(flow'), unit = Main) => ScopesNest'
BY DEF TypeInv, ScopesNest, Nests

(* Closing scopes together with the variables of the current one. *)
LEMMA CloseKeeps ==
  ASSUME TypeInv, NEW k \in 1..Len(scopes) - 1, unit # Main => k > 1,
         NEW outer, outer = Prefix(flow, CurrentScope.start)
  PROVE  /\ Prefix(scopes, k) \in Seq(Scope) /\ outer \in Seq(Def)
         /\ Nests(Prefix(scopes, k), Len(outer), unit = Main)
         /\ DOMAIN Prefix(scopes, k) = 1..k
         /\ \A i \in 1..k : i \in DOMAIN scopes /\ Prefix(scopes, k)[i] = scopes[i]
<1>1. /\ k + 1 \in 1..Len(scopes) /\ Len(scopes) \in DOMAIN scopes
      /\ CurrentScope = scopes[Len(scopes)] /\ Len(flow) \in Nat
  BY ScopeFacts
<1>2. outer \in Seq(Def) /\ Len(outer) = CurrentScope.start
  BY <1>1, DefsTypes
<1>3. scopes \in Seq(Scope) /\ Nests(scopes, Len(flow), unit = Main)
  BY NestsNow DEF TypeInv, TypeOK
<1>4. scopes[k + 1].start <= Len(outer)
  BY <1>1, <1>2 DEF TypeInv, ScopesNest
<1>5. Len(outer) \in Nat BY <1>2
<1> DEFINE main == unit = Main
           m == Len(outer)
<1>6. /\ main \in BOOLEAN /\ Nests(scopes, Len(flow), main) /\ (~main => k > 1)
      /\ m \in Nat /\ scopes[k + 1].start <= m
  BY <1>3, <1>4, <1>5
<1> HIDE DEF main, m
<1>7. /\ Prefix(scopes, k) \in Seq(Scope)
      /\ Nests(Prefix(scopes, k), m, main)
      /\ DOMAIN Prefix(scopes, k) = 1..k
      /\ \A i \in 1..k : i \in DOMAIN scopes /\ Prefix(scopes, k)[i] = scopes[i]
  BY <1>1, <1>3, <1>6, CloseNests
<1> QED BY <1>2, <1>7 DEF main, m

(* A loop, its condition and its end. *)
LEMMA LoopKeeps ==
  ASSUME TypeInv, VisitPreTestLoop \/ EndPreTestLoop
  PROVE  TypeInv'
<1>1. Here = Len(code[unit]) + 1 /\ Len(code[unit]) \in Nat /\ flow \in Seq(Def)
  BY DEF Here, TypeInv, TypeOK
<1>2. CASE VisitPreTestLoop
  <2>1. PICK cond \in Exprs(Bool) :
          /\ Generate(Append(cond, Step(JumpIfNot(Unwritten), flow, <<Bool>>)),
                      {}, Expects(flow, <<>>))
          /\ scopes' = Append(scopes, NewScope("loop", Len(flow), Here,
                                               {Here + Len(cond)}))
    BY <1>2 DEF VisitPreTestLoop
  <2>2. cond \in Seq(StepSet) BY SomeTypes, ExprTypes DEF TypeInv
  <2>3. JumpIfNot(Unwritten) \in Cmd /\ JumpIfNot(Unwritten).op \in JumpOp
    BY CmdTypes DEF JumpIfNot, JumpOp
  <2> DEFINE steps == Append(cond, Step(JumpIfNot(Unwritten), flow, <<Bool>>))
             s == NewScope("loop", Len(flow), Here, {Here + Len(cond)})
  <2>4. /\ steps \in Seq(StepSet) /\ Len(cond) \in Nat
        /\ Len(cond) + 1 \in DOMAIN steps
        /\ steps[Len(cond) + 1].cmd = JumpIfNot(Unwritten)
    BY <2>2, <2>3, SomeTypes, AppendTypes
  <2>5. s \in Scope /\ s.type = "loop" /\ s.start = Len(flow)
        /\ s.placeholders = {Here + Len(cond)}
    BY <1>1, <2>4 DEF NewScope, Scope, ScopeType
  <2> HIDE DEF s, steps
  <2>6. UNCHANGED <<unit, flow, defined, phase>> BY <1>2 DEF VisitPreTestLoop
  <2>7. scopes' = Append(scopes, s) BY <2>1 DEF s
  <2>8. /\ scopes' \in Seq(Scope) /\ ScopesNest'
        /\ \A i \in DOMAIN scopes' :
             scopes'[i] = s \/ (i \in DOMAIN scopes /\ scopes'[i] = scopes[i])
    <3>1. scopes \in Seq(Scope) /\ Len(flow) \in Nat BY DEF TypeInv, TypeOK
    <3>2. /\ Append(scopes, s) \in Seq(Scope)
          /\ Nests(Append(scopes, s), Len(flow), unit = Main)
          /\ \A i \in DOMAIN Append(scopes, s) :
               \/ Append(scopes, s)[i] = s
               \/ i \in DOMAIN scopes /\ Append(scopes, s)[i] = scopes[i]
      BY <2>5, <3>1, NestsNow, OpenNests
    <3> QED BY <2>6, <2>7, <3>2, NestsNow
  <2>9. ASSUME NEW i \in DOMAIN scopes', NEW p \in scopes'[i].placeholders
        PROVE  \/ p \in Placeholders
               \/ \E k \in DOMAIN steps :
                    p = Len(code[unit]) + k /\ steps[k].cmd.op \in JumpOp
    <3>1. (i \in DOMAIN scopes /\ scopes'[i] = scopes[i]) \/ scopes'[i] = s
      BY <2>8
    <3>2. CASE i \in DOMAIN scopes /\ scopes'[i] = scopes[i]
      BY <3>2 DEF Placeholders
    <3>3. CASE scopes'[i] = s
      <4>1. p = Here + Len(cond) BY <2>5, <3>3
      <4>2. Here + Len(cond) = Len(code[unit]) + (Len(cond) + 1)
        <5>1. Len(cond) \in Nat BY <2>4
        <5>2. \A a, b \in Nat : (a + 1) + b = a + (b + 1) OBVIOUS
        <5>3. Len(code[unit]) \in Nat /\ Here = Len(code[unit]) + 1 BY <1>1
        <5> QED BY <5>1, <5>2, <5>3
      <4> QED BY <2>3, <2>4, <4>1, <4>2
    <3> QED BY <3>1, <3>2, <3>3
  <2>10. Generate(steps, {}, Expects(flow, <<>>)) BY <2>1 DEF steps
  <2>11. flow' \in Seq(Def) /\ Expects(flow, <<>>) \in Layout
    BY <1>1, <2>6, NextTypes
  <2> QED BY <2>4, <2>6, <2>8, <2>9, <2>10, <2>11, GenerateKeeps
<1>3. CASE EndPreTestLoop
  <2> DEFINE body_defs == GetLocalVarDefsUpToScope(Len(scopes))
             outer == Prefix(flow, CurrentScope.start)
             offset == OffsetTo(CurrentScope.start_address, Here + Len(body_defs))
             steps == GenerateJumpCmdStart(body_defs, offset)
  <2>1. /\ Generate(steps, CurrentScope.placeholders, Expects(outer, <<>>))
        /\ flow' = outer /\ scopes' = Front(scopes)
        /\ UNCHANGED <<unit, defined, phase>>
        /\ CurrentScope.type = "loop"
    BY <1>3 DEF EndPreTestLoop
  <2>2. body_defs \in Seq(Def) /\ Len(body_defs) <= Len(flow)
    BY ScopeFacts, DefsTypes
  <2>3. offset \in Int
    <3>1. CurrentScope.start_address \in Nat BY ScopeFacts DEF Scope
    <3> QED BY <1>1, <2>2, <3>1 DEF OffsetTo
  <2> HIDE DEF offset, body_defs
  <2>4. steps \in Seq(StepSet) BY <1>1, <2>2, <2>3, JumpStartTypes
  <2> HIDE DEF steps
  <2>5. Len(scopes) - 1 \in 1..Len(scopes) - 1 /\ (unit # Main => Len(scopes) - 1 > 1)
    BY <2>1, ScopeFacts DEF TypeInv, ScopesNest
  <2>6. scopes' = Prefix(scopes, Len(scopes) - 1)
    BY <2>1, ScopeFacts DEF Front, Prefix
  <2> DEFINE k == Len(scopes) - 1
  <2>7. /\ scopes' \in Seq(Scope) /\ outer \in Seq(Def)
        /\ Nests(scopes', Len(outer), unit = Main)
        /\ \A i \in DOMAIN scopes' : i \in DOMAIN scopes /\ scopes'[i] = scopes[i]
    <3>1. k \in 1..Len(scopes) - 1 /\ (unit # Main => k > 1) BY <2>5
    <3>2. scopes' = Prefix(scopes, k) /\ outer = Prefix(flow, CurrentScope.start)
      BY <2>6
    <3> HIDE DEF k, outer
    <3> QED BY <3>1, <3>2, CloseKeeps
  <2>8. /\ \A i \in DOMAIN scopes' : \A p \in scopes'[i].placeholders : p \in Placeholders
        /\ ScopesNest'
    BY <2>1, <2>7, NestsNow DEF Placeholders
  <2>9. CurrentScope.placeholders \subseteq Placeholders
    BY ScopeFacts DEF Placeholders
  <2>10. Expects(outer, <<>>) \in Layout BY <2>1, <2>7, NextTypes
  <2> HIDE DEF outer
  <2> QED BY <2>1, <2>4, <2>7, <2>8, <2>9, <2>10, GenerateKeeps
<1> QED BY <1>2, <1>3

(* The address where a jump is put after some steps. *)
LEMMA JumpAddress ==
  ASSUME TypeInv, NEW n \in Nat
  PROVE  /\ Here + n = Len(code[unit]) + (n + 1) /\ Here + n \in Nat
         /\ Len(code[unit]) \in Nat
<1>1. Len(code[unit]) \in Nat /\ Here = Len(code[unit]) + 1
  BY DEF Here, TypeInv, TypeOK
<1>2. \A a \in Nat : (a + 1) + n = a + (n + 1) /\ (a + 1) + n \in Nat OBVIOUS
<1> QED BY <1>1, <1>2

(* Leaving the scopes up to the i-th one by a jump to some address. *)
LEMMA LeavingSteps ==
  ASSUME TypeInv, NEW i \in DOMAIN scopes, NEW offset \in Int \cup {Unwritten}
  PROVE  LET defs == GetLocalVarDefsUpToScope(i)
             steps == GenerateJumpCmdStart(defs, offset)
         IN  /\ steps \in Seq(StepSet) /\ Len(defs) \in Nat
             /\ Len(defs) + 1 \in DOMAIN steps
             /\ steps[Len(defs) + 1].cmd.op \in JumpOp
<1> DEFINE defs == GetLocalVarDefsUpToScope(i)
           steps == GenerateJumpCmdStart(defs, offset)
<1>1. defs \in Seq(Def) /\ Len(defs) <= Len(flow) BY DefsTypes
<1>2. Len(defs) \in Nat BY <1>1
<1> HIDE DEF defs
<1>3. /\ steps \in Seq(StepSet) /\ Len(steps) = Len(defs) + 1
      /\ steps[Len(defs) + 1].cmd = DirectJump(offset)
  BY <1>1, JumpStartTypes DEF TypeInv, TypeOK
<1> HIDE DEF steps
<1>4. Len(defs) + 1 \in DOMAIN steps BY <1>2, <1>3
<1>5. DirectJump(offset).op \in JumpOp BY DEF DirectJump, JumpOp
<1> QED BY <1>2, <1>3, <1>4, <1>5 DEF defs, steps

(* Break and continue. *)
LEMMA BreakKeeps ==
  ASSUME TypeInv, VisitBreak
  PROVE  TypeInv'
<1>1. PICK i \in DOMAIN scopes : \E insert \in InsertOutcomes(i) :
       /\ LeavesScopes("loop", i)
       /\ \/ insert = "crash" /\ Stop("crashed")
          \/ insert # "crash" /\ ~IsWithin("loop") /\ Stop("rejected")
          \/ /\ insert # "crash" /\ IsWithin("loop")
             /\ LET defs == GetLocalVarDefsUpToScope(i)
                IN  /\ Generate(GenerateJumpCmdStart(defs, Unwritten),
                                {}, Expects(flow, <<>>))
                    /\ scopes' = [scopes EXCEPT ![i].placeholders =
                                    @ \cup {Here + Len(defs)}]
             /\ UNCHANGED <<unit, flow, defined, phase>>
  BY DEF VisitBreak
<1> DEFINE defs == GetLocalVarDefsUpToScope(i)
           steps == GenerateJumpCmdStart(defs, Unwritten)
<1>2. CASE Stop("crashed") \/ Stop("rejected") BY <1>2, StopKeeps
<1>3. CASE /\ LeavesScopes("loop", i) /\ IsWithin("loop")
           /\ Generate(steps, {}, Expects(flow, <<>>))
           /\ scopes' = [scopes EXCEPT ![i].placeholders = @ \cup {Here + Len(defs)}]
           /\ UNCHANGED <<unit, flow, defined, phase>>
  <2>1. /\ steps \in Seq(StepSet) /\ Len(defs) \in Nat
        /\ Len(defs) + 1 \in DOMAIN steps
        /\ steps[Len(defs) + 1].cmd.op \in JumpOp
    BY LeavingSteps
  <2> HIDE DEF defs, steps
  <2>2. scopes[i].type # "global" BY <1>3 DEF LeavesScopes, IsNearest
  <2>3. /\ Here + Len(defs) = Len(code[unit]) + (Len(defs) + 1)
        /\ Here + Len(defs) \in Nat
    BY <2>1, JumpAddress
  <2> DEFINE ps == {Here + Len(defs)}
  <2>4. /\ scopes' \in Seq(Scope) /\ ScopesNest' /\ DOMAIN scopes' = DOMAIN scopes
        /\ \A j \in DOMAIN scopes :
             scopes'[j].placeholders \subseteq scopes[j].placeholders \cup ps
    <3>1. ps \in Addresses BY <2>3 DEF Addresses
    <3>2. scopes' = WithPlaceholders(scopes, i, ps)
      BY <1>3 DEF WithPlaceholders
    <3>3. UNCHANGED <<unit, flow, defined>> BY <1>3
    <3>4. Nests(scopes, Len(flow), unit = Main) /\ scopes \in Seq(Scope)
      BY NestsNow DEF TypeInv, TypeOK
    <3> DEFINE main == unit = Main
               n == Len(flow)
    <3>6. main \in BOOLEAN /\ Nests(scopes, n, main) /\ scopes \in Seq(Scope)
      BY <3>4
    <3> HIDE DEF ps, main, n
    <3>5. /\ scopes' \in Seq(Scope) /\ Nests(scopes', n, main)
          /\ DOMAIN scopes' = DOMAIN scopes
          /\ \A j \in DOMAIN scopes :
               scopes'[j].placeholders \subseteq scopes[j].placeholders \cup ps
      BY <2>2, <3>1, <3>2, <3>6, NoteNests
    <3> QED BY <3>3, <3>5, NestsNow DEF main, n
  <2>5. ASSUME NEW j \in DOMAIN scopes', NEW p \in scopes'[j].placeholders
        PROVE  \/ p \in Placeholders
               \/ \E k \in DOMAIN steps :
                    p = Len(code[unit]) + k /\ steps[k].cmd.op \in JumpOp
    <3>1. p \in Placeholders \/ p = Len(code[unit]) + (Len(defs) + 1)
      BY <2>3, <2>4 DEF Placeholders
    <3> QED BY <2>1, <3>1
  <2>6. flow' \in Seq(Def) /\ Expects(flow, <<>>) \in Layout
    BY <1>3, NextTypes DEF TypeInv, TypeOK
  <2>7. Generate(steps, {}, Expects(flow, <<>>)) /\ UNCHANGED <<unit, defined, phase>>
    BY <1>3
  <2>8. scopes' \in Seq(Scope) /\ ScopesNest' BY <2>4
  <2> QED BY <2>1, <2>5, <2>6, <2>7, <2>8, GenerateKeeps
<1> HIDE DEF steps
<1> QED BY <1>1, <1>2, <1>3 DEF steps

(* A continue keeps the invariant, whatever its outcome. *)
LEMMA ContinueKeeps ==
  ASSUME TypeInv, VisitContinue
  PROVE  TypeInv'
<1>1. PICK i \in DOMAIN scopes :
        \/ Stop("crashed") \/ Stop("rejected")
        \/ /\ LET defs == GetLocalVarDefsUpToScope(i)
                  offset == OffsetTo(scopes[i].start_address, Here + Len(defs))
              IN  Generate(GenerateJumpCmdStart(defs, offset),
                           {}, Expects(flow, <<>>))
           /\ UNCHANGED <<unit, flow, scopes, defined, phase>>
  BY DEF VisitContinue
<1> DEFINE defs == GetLocalVarDefsUpToScope(i)
           offset == OffsetTo(scopes[i].start_address, Here + Len(defs))
           steps == GenerateJumpCmdStart(defs, offset)
<1>2. CASE Stop("crashed") \/ Stop("rejected") BY <1>2, StopKeeps
<1>3. CASE /\ Generate(steps, {}, Expects(flow, <<>>))
           /\ UNCHANGED <<unit, flow, scopes, defined, phase>>
  <2>1. Len(defs) \in Nat BY LeavingSteps
  <2>2. Here + Len(defs) \in Nat BY <2>1, JumpAddress
  <2>3. scopes[i].start_address \in Nat
    <3>1. scopes[i] \in Scope BY DEF TypeInv, TypeOK
    <3> QED BY <3>1 DEF Scope
  <2>4. offset \in Int BY <2>2, <2>3 DEF OffsetTo
  <2> HIDE DEF offset
  <2>5. steps \in Seq(StepSet) BY <2>4, LeavingSteps
  <2> HIDE DEF steps
  <2>6. /\ Expects(flow, <<>>) \in Layout
        /\ flow' \in Seq(Def) /\ Len(flow) <= Len(flow')
    <3>1. flow \in Seq(Def) /\ flow' = flow BY <1>3 DEF TypeInv, TypeOK
    <3> QED BY <3>1, NextTypes
  <2> QED BY <1>3, <2>5, <2>6, SameScopesKeep
<1> HIDE DEF steps
<1> QED BY <1>1, <1>2, <1>3 DEF steps

(* A condition and the jump that leaves out what it guards. *)
LEMMA CondSteps ==
  ASSUME TypeInv, NEW cond \in Exprs(Bool)
  PROVE  LET steps == Append(cond, Step(JumpIfNot(Unwritten), flow, <<Bool>>)) IN
         /\ steps \in Seq(StepSet) /\ Len(cond) \in Nat
         /\ Len(cond) + 1 \in DOMAIN steps
         /\ steps[Len(cond) + 1].cmd.op \in JumpOp
         /\ Here + Len(cond) = Len(code[unit]) + (Len(cond) + 1)
         /\ Here + Len(cond) \in Nat
<1> DEFINE steps == Append(cond, Step(JumpIfNot(Unwritten), flow, <<Bool>>))
<1>1. cond \in Seq(StepSet) BY SomeTypes, ExprTypes DEF TypeInv
<1>2. JumpIfNot(Unwritten) \in Cmd /\ JumpIfNot(Unwritten).op \in JumpOp
  BY CmdTypes DEF JumpIfNot, JumpOp
<1>3. /\ steps \in Seq(StepSet) /\ Len(cond) \in Nat
      /\ Len(cond) + 1 \in DOMAIN steps
      /\ steps[Len(cond) + 1].cmd = JumpIfNot(Unwritten)
  BY <1>1, <1>2, SomeTypes, AppendTypes
<1> HIDE DEF steps
<1>4. /\ Here + Len(cond) = Len(code[unit]) + (Len(cond) + 1)
      /\ Here + Len(cond) \in Nat
  BY <1>3, JumpAddress
<1> QED BY <1>2, <1>3, <1>4 DEF steps

(* The list of the ends of branches is opened by the first branch. *)
LEMMA BranchesNest ==
  ASSUME TypeInv, NEW base,
         base = IF CurrentScope.type = "branches" THEN scopes
                ELSE Append(scopes, NewScope("branches", Len(flow), 0, {}))
  PROVE  /\ base \in Seq(Scope) /\ Nests(base, Len(flow), unit = Main)
         /\ Last(base).type = "branches"
         /\ \A i \in DOMAIN base : \/ i \in DOMAIN scopes /\ base[i] = scopes[i]
                                   \/ base[i].placeholders = {}
<1>1. /\ scopes \in Seq(Scope) /\ Nests(scopes, Len(flow), unit = Main)
      /\ Len(flow) \in Nat
  BY NestsNow DEF TypeInv, TypeOK
<1>2. CASE CurrentScope.type = "branches"
  BY <1>1, <1>2 DEF CurrentScope
<1>3. CASE CurrentScope.type # "branches"
  <2> DEFINE s == NewScope("branches", Len(flow), 0, {})
  <2>1. s \in Scope /\ s.type = "branches" /\ s.start = Len(flow) /\ s.placeholders = {}
    BY <1>1 DEF NewScope, Scope, ScopeType
  <2>2. base = Append(scopes, s) BY <1>3
  <2> HIDE DEF s
  <2>3. /\ Append(scopes, s) \in Seq(Scope)
        /\ Nests(Append(scopes, s), Len(flow), unit = Main)
        /\ Last(Append(scopes, s)) = s
        /\ \A i \in DOMAIN Append(scopes, s) :
             \/ Append(scopes, s)[i] = s
             \/ i \in DOMAIN scopes /\ Append(scopes, s)[i] = scopes[i]
    BY <1>1, <2>1, OpenNests
  <2> QED BY <2>1, <2>2, <2>3
<1> QED BY <1>2, <1>3

(* The condition of an if or else-if keeps the invariant. *)
LEMMA IfKeeps ==
  ASSUME TypeInv, VisitIf
  PROVE  TypeInv'
<1> DEFINE base == IF CurrentScope.type = "branches" THEN scopes
                   ELSE Append(scopes, NewScope("branches", Len(flow), 0, {}))
<1>1. PICK cond \in Exprs(Bool) :
        /\ Generate(Append(cond, Step(JumpIfNot(Unwritten), flow, <<Bool>>)),
                    {}, Expects(flow, <<>>))
        /\ scopes' = base \o <<NewScope("common", Len(flow), 0, {Here + Len(cond)})>>
  BY DEF VisitIf
<1>2. UNCHANGED <<unit, flow, defined, phase>> BY DEF VisitIf
<1> DEFINE steps == Append(cond, Step(JumpIfNot(Unwritten), flow, <<Bool>>))
           s == NewScope("common", Len(flow), 0, {Here + Len(cond)})
<1>3. /\ steps \in Seq(StepSet) /\ Len(cond) \in Nat
      /\ Len(cond) + 1 \in DOMAIN steps
      /\ steps[Len(cond) + 1].cmd.op \in JumpOp
      /\ Here + Len(cond) = Len(code[unit]) + (Len(cond) + 1)
      /\ Here + Len(cond) \in Nat
  BY CondSteps
<1>4. Generate(steps, {}, Expects(flow, <<>>)) BY <1>1
<1>5. Len(flow) \in Nat /\ flow \in Seq(Def) BY DEF TypeInv, TypeOK
<1>6. s \in Scope /\ s.type = "common" /\ s.start = Len(flow)
      /\ s.placeholders = {Here + Len(cond)}
  BY <1>3, <1>5 DEF NewScope, Scope, ScopeType
<1>7. /\ base \in Seq(Scope) /\ Nests(base, Len(flow), unit = Main)
      /\ Last(base).type = "branches"
      /\ \A i \in DOMAIN base : \/ i \in DOMAIN scopes /\ base[i] = scopes[i]
                                \/ base[i].placeholders = {}
  BY BranchesNest
<1>8. scopes' = base \o <<s>> BY <1>1
<1> HIDE DEF base, s, steps
<1>9. scopes' = Append(base, s) BY <1>7, <1>8, <1>6
<1>10. /\ Append(base, s) \in Seq(Scope)
       /\ Nests(Append(base, s), Len(flow), unit = Main)
       /\ \A i \in DOMAIN Append(base, s) :
            \/ Append(base, s)[i] = s
            \/ i \in DOMAIN base /\ Append(base, s)[i] = base[i]
  BY <1>5, <1>6, <1>7, OpenNests
<1>11. scopes' \in Seq(Scope) /\ ScopesNest' BY <1>2, <1>9, <1>10, NestsNow
<1>12. ASSUME NEW i \in DOMAIN scopes', NEW p \in scopes'[i].placeholders
       PROVE  \/ p \in Placeholders
              \/ \E k \in DOMAIN steps :
                   p = Len(code[unit]) + k /\ steps[k].cmd.op \in JumpOp
  <2>1. \/ scopes'[i] = s
        \/ i \in DOMAIN scopes /\ scopes'[i] = scopes[i]
    BY <1>7, <1>9, <1>10
  <2>2. CASE scopes'[i] = s BY <1>3, <1>6, <2>2
  <2>3. CASE i \in DOMAIN scopes /\ scopes'[i] = scopes[i]
    BY <2>3 DEF Placeholders
  <2> QED BY <2>1, <2>2, <2>3
<1>13. flow' \in Seq(Def) /\ Expects(flow, <<>>) \in Layout BY <1>2, <1>5, NextTypes
<1> QED BY <1>2, <1>3, <1>4, <1>11, <1>12, <1>13, GenerateKeeps

(* The start of an else keeps the invariant. *)
LEMMA ElseKeeps ==
  ASSUME TypeInv, VisitElse
  PROVE  TypeInv'
<1> DEFINE s == NewScope("common", Len(flow), 0, {})
<1>1. /\ scopes' = Append(scopes, s) /\ CurrentScope.type = "branches"
      /\ UNCHANGED <<unit, code, flow, defined, phase, layout>>
  BY DEF VisitElse
<1>2. /\ scopes \in Seq(Scope) /\ Nests(scopes, Len(flow), unit = Main)
      /\ Len(flow) \in Nat
  BY NestsNow DEF TypeInv, TypeOK
<1>3. s \in Scope /\ s.type = "common" /\ s.start = Len(flow) /\ s.placeholders = {}
  BY <1>2 DEF NewScope, Scope, ScopeType
<1> HIDE DEF s
<1>4. /\ Append(scopes, s) \in Seq(Scope)
      /\ Nests(Append(scopes, s), Len(flow), unit = Main)
      /\ \A i \in DOMAIN Append(scopes, s) :
           \/ Append(scopes, s)[i] = s
           \/ i \in DOMAIN scopes /\ Append(scopes, s)[i] = scopes[i]
  BY <1>1, <1>2, <1>3, OpenNests DEF CurrentScope
<1>5. scopes' \in Seq(Scope) /\ ScopesNest' BY <1>1, <1>4, NestsNow
<1>6. PlaceholdersAreJumps'
  BY <1>1, <1>3, <1>4 DEF TypeInv, PlaceholdersAreJumps
<1> QED BY <1>1, <1>5, <1>6 DEF TypeInv, TypeOK, LayoutCoversCode, OthersHaveNoCode

(* Where the bodies of an if statement end. *)
LEMMA BodyFacts ==
  ASSUME TypeInv, CurrentScope.type = "common"
  PROVE  /\ Len(scopes) - 1 \in 1..Len(scopes) - 1 /\ (unit # Main => Len(scopes) - 1 > 1)
         /\ Len(scopes) - 2 \in 1..Len(scopes) - 1 /\ (unit # Main => Len(scopes) - 2 > 1)
         /\ Len(scopes) - 1 \in DOMAIN scopes
         /\ scopes[Len(scopes) - 1].type = "branches"
         /\ scopes[Len(scopes) - 1 + 1] = CurrentScope
         /\ scopes[Len(scopes) - 2 + 1] = scopes[Len(scopes) - 1]
<1>1. /\ Len(scopes) \in DOMAIN scopes /\ DOMAIN scopes = 1..Len(scopes)
      /\ Len(scopes) \in Nat \ {0} /\ CurrentScope = scopes[Len(scopes)]
  BY ScopeFacts
<1>2. Len(scopes) > 1 /\ scopes[Len(scopes) - 1].type = "branches"
  BY <1>1 DEF TypeInv, ScopesNest
<1>3. Len(scopes) - 1 # 1 BY <1>2 DEF TypeInv, ScopesNest
<1>4. unit # Main => Len(scopes) - 1 # 2
  BY <1>1, <1>2 DEF TypeInv, ScopesNest
<1> QED BY <1>1, <1>2, <1>3, <1>4

(* The end of a body that another branch follows keeps the invariant. *)
LEMMA EndIfBodyKeeps ==
  ASSUME TypeInv, EndIfBody
  PROVE  TypeInv'
<1> DEFINE body_defs == GetLocalVarDefsUpToScope(Len(scopes))
           outer == Prefix(flow, CurrentScope.start)
           k == Len(scopes) - 1
           steps == GenerateJumpCmdStart(body_defs, Unwritten)
           ps == {Here + Len(body_defs)}
           main == unit = Main
<1>1. /\ Generate(steps, CurrentScope.placeholders, Expects(outer, <<>>))
      /\ flow' = outer
      /\ scopes' = [Front(scopes) EXCEPT ![k].placeholders = @ \cup ps]
      /\ UNCHANGED <<unit, defined, phase>> /\ CurrentScope.type = "common"
  BY DEF EndIfBody
<1>2. /\ steps \in Seq(StepSet) /\ Len(body_defs) \in Nat
      /\ Len(body_defs) + 1 \in DOMAIN steps
      /\ steps[Len(body_defs) + 1].cmd.op \in JumpOp
  BY ScopeFacts, LeavingSteps
<1> HIDE DEF body_defs, steps
<1>3. /\ Here + Len(body_defs) = Len(code[unit]) + (Len(body_defs) + 1)
      /\ ps \in Addresses
  BY <1>2, JumpAddress DEF Addresses
<1>4. /\ k \in 1..Len(scopes) - 1 /\ (unit # Main => k > 1)
      /\ scopes[k].type = "branches" /\ scopes[k + 1] = CurrentScope
  BY <1>1, BodyFacts
<1>5. outer = Prefix(flow, CurrentScope.start) OBVIOUS
<1> DEFINE front == Prefix(scopes, k)
<1>6. scopes' = WithPlaceholders(front, k, ps)
  BY <1>1 DEF WithPlaceholders, Front, Prefix
<1> HIDE DEF k, outer, front, ps, main
<1>7. /\ front \in Seq(Scope) /\ outer \in Seq(Def)
      /\ Nests(front, Len(outer), main) /\ main \in BOOLEAN
      /\ DOMAIN front = 1..k
      /\ \A i \in 1..k : i \in DOMAIN scopes /\ front[i] = scopes[i]
  BY <1>4, <1>5, CloseKeeps DEF front, main
<1>8. k \in DOMAIN front /\ front[k].type # "global" BY <1>4, <1>7
<1>9. /\ scopes' \in Seq(Scope) /\ Nests(scopes', Len(outer), main)
      /\ DOMAIN scopes' = DOMAIN front
      /\ \A j \in DOMAIN front :
           scopes'[j].placeholders \subseteq front[j].placeholders \cup ps
  BY <1>3, <1>6, <1>7, <1>8, NoteNests
<1>10. ScopesNest' BY <1>1, <1>9, NestsNow DEF main
<1>11. ASSUME NEW i \in DOMAIN scopes', NEW p \in scopes'[i].placeholders
       PROVE  \/ p \in Placeholders
              \/ \E n \in DOMAIN steps :
                   p = Len(code[unit]) + n /\ steps[n].cmd.op \in JumpOp
  <2>1. p \in front[i].placeholders \/ p \in ps BY <1>9
  <2>2. CASE p \in front[i].placeholders
    BY <1>7, <1>9, <2>2 DEF Placeholders
  <2>3. CASE p \in ps BY <1>2, <1>3, <2>3 DEF ps
  <2> QED BY <2>1, <2>2, <2>3
<1>12. CurrentScope.placeholders \subseteq Placeholders
  BY ScopeFacts DEF Placeholders
<1>13. flow' \in Seq(Def) /\ Expects(outer, <<>>) \in Layout BY <1>1, <1>7, NextTypes
<1>14. scopes' \in Seq(Scope) /\ UNCHANGED <<unit, defined, phase>> BY <1>1, <1>9
<1>15. Generate(steps, CurrentScope.placeholders, Expects(outer, <<>>)) BY <1>1
<1> QED BY <1>2, <1>10, <1>11, <1>12, <1>13, <1>14, <1>15, GenerateKeeps

(* The end of an if statement keeps the invariant. *)
LEMMA EndBranchesKeeps ==
  ASSUME TypeInv, EndBranches
  PROVE  TypeInv'
<1> DEFINE body_defs == GetLocalVarDefsUpToScope(Len(scopes))
           outer == Prefix(flow, CurrentScope.start)
           branches == scopes[Len(scopes) - 1]
           k == Len(scopes) - 2
           steps == GenerateDestroyLocalVarCmds(body_defs, <<>>)
<1>1. /\ Generate(steps, CurrentScope.placeholders \cup branches.placeholders,
                  Expects(outer, <<>>))
      /\ flow' = outer /\ scopes' = Prefix(scopes, k)
      /\ UNCHANGED <<unit, defined, phase>> /\ CurrentScope.type = "common"
  BY DEF EndBranches
<1>2. steps \in Seq(StepSet)
  <2>1. body_defs \in Seq(Def) /\ Len(body_defs) <= Len(flow) BY ScopeFacts, DefsTypes
  <2> QED BY <2>1, DestroyTypes, OperandTypes DEF TypeInv, TypeOK
<1> HIDE DEF body_defs, steps
<1>3. /\ k \in 1..Len(scopes) - 1 /\ (unit # Main => k > 1)
      /\ Len(scopes) - 1 \in DOMAIN scopes
  BY <1>1, BodyFacts
<1>4. outer = Prefix(flow, CurrentScope.start) OBVIOUS
<1> HIDE DEF k, outer
<1>5. /\ scopes' \in Seq(Scope) /\ outer \in Seq(Def)
      /\ Nests(scopes', Len(outer), unit = Main)
      /\ \A i \in DOMAIN scopes' : i \in DOMAIN scopes /\ scopes'[i] = scopes[i]
  BY <1>1, <1>3, <1>4, CloseKeeps
<1>6. ScopesNest' BY <1>1, <1>5, NestsNow
<1>7. \A i \in DOMAIN scopes' : \A p \in scopes'[i].placeholders : p \in Placeholders
  BY <1>5 DEF Placeholders
<1>8. CurrentScope.placeholders \cup branches.placeholders \in SUBSET Placeholders
  BY <1>3, ScopeFacts DEF Placeholders
<1>9. flow' \in Seq(Def) /\ Expects(outer, <<>>) \in Layout BY <1>1, <1>5, NextTypes
<1>10. /\ Generate(steps, CurrentScope.placeholders \cup branches.placeholders,
                   Expects(outer, <<>>))
       /\ UNCHANGED <<unit, defined, phase>>
  BY <1>1
<1>11. scopes' \in Seq(Scope) BY <1>5
<1> DEFINE ps == CurrentScope.placeholders \cup branches.placeholders
<1> HIDE DEF ps
<1> QED BY <1>2, <1>6, <1>7, <1>8, <1>9, <1>10, <1>11, GenerateKeeps DEF ps

(* The beginning of a function: it has no code yet. *)
LEMMA FuncDefKeeps ==
  ASSUME TypeInv, VisitFuncDef
  PROVE  TypeInv'
<1> DEFINE entry(f) ==
             [live |-> TRUE, flow |-> <<>>, operands |-> Reverse(Args[f])]
           s == NewScope("func", 0, 0, {})
<1>1. PICK f \in Func \ defined :
        unit' = f /\ layout' = [layout EXCEPT ![f] = <<entry(f)>>]
  BY DEF VisitFuncDef
<1>2. /\ scopes' = Append(scopes, s) /\ CurrentScope.type = "global"
      /\ UNCHANGED <<code, flow, defined, phase>>
  BY DEF VisitFuncDef
<1>3. Len(scopes) = 1 /\ scopes \in Seq(Scope)
  <2>1. Len(scopes) \in DOMAIN scopes /\ scopes[Len(scopes)].type = "global"
    BY <1>2, ScopeFacts
  <2>2. Len(scopes) = 1 BY <2>1 DEF TypeInv, ScopesNest
  <2> QED BY <2>2 DEF TypeInv, TypeOK
<1>4. unit = Main BY <1>3 DEF TypeInv, ScopesNest
<1>5. s \in Scope /\ s.type = "func" /\ s.start = 0 /\ s.placeholders = {}
  BY DEF NewScope, Scope, ScopeType
<1> HIDE DEF s
<1>6. /\ scopes' \in Seq(Scope) /\ Len(scopes') = 2 /\ DOMAIN scopes' = 1..2
      /\ scopes'[1] = scopes[1] /\ scopes'[2] = s /\ scopes' # <<>>
  <2>1. /\ Append(scopes, s) \in Seq(Scope)
        /\ Len(Append(scopes, s)) = Len(scopes) + 1
        /\ DOMAIN Append(scopes, s) = 1..Len(scopes) + 1
        /\ \A i \in 1..Len(scopes) : Append(scopes, s)[i] = scopes[i]
        /\ Append(scopes, s)[Len(scopes) + 1] = s
    <3>1. scopes \in Seq(Scope) /\ s \in Scope BY <1>3, <1>5
    <3> HIDE DEF entry
    <3> QED BY <3>1, AppendParts
  <2>2. 1 \in 1..Len(scopes) /\ Len(scopes) + 1 = 2 BY <1>3
  <2>3. scopes' # <<>> BY <1>2, <2>1, <2>2
  <2> QED BY <1>2, <2>1, <2>2, <2>3
<1>7. entry(f) \in Layout
  <2>1. Args[f] \in Seq(DataType) BY FuncsAssumption
  <2>2. Reverse(Args[f]) \in Seq(DataType) BY <2>1, ReverseType
  <2> QED BY <2>2 DEF Layout
<1>8. TypeOK'
  <2>1. <<entry(f)>> \in Seq(Layout) BY <1>7, TupleType
  <2> HIDE DEF entry
  <2> QED BY <1>1, <1>2, <1>6, <2>1 DEF TypeInv, TypeOK, Unit
<1>9. code[f] = <<>>
  BY <1>1, <1>4, FuncsAssumption DEF TypeInv, OthersHaveNoCode
<1>10. LayoutCoversCode'
  <2>1. layout \in [Unit -> Seq(Layout)] BY DEF TypeInv, TypeOK
  <2>2. Len(code[f]) = 0 /\ Len(<<entry(f)>>) = 1 BY <1>9
  <2> HIDE DEF entry
  <2> QED BY <1>1, <1>2, <2>1, <2>2 DEF TypeInv, LayoutCoversCode
<1>11. ScopesNest'
  <2>1. f # Main /\ f \notin defined BY FuncsAssumption
  <2>2. /\ scopes[1].type = "global" /\ scopes[1].start = 0
        /\ scopes[1].placeholders = {}
    BY DEF TypeInv, ScopesNest
  <2>3. Len(flow') \in Nat BY <1>2 DEF TypeInv, TypeOK
  <2>4. scopes' # <<>> BY <1>6
  <2>5. ASSUME NEW i \in 1..2
        PROVE  /\ scopes'[i].type = "global" => i = 1
               /\ scopes'[i].type = "func" <=> i = 2
               /\ scopes'[i].type # "common"
               /\ scopes'[i].start = 0 /\ \A j \in 1..i : scopes'[j].start = 0
    <3>1. i = 1 \/ i = 2 OBVIOUS
    <3> QED BY <1>5, <1>6, <2>2, <3>1
  <2> QED BY <1>1, <1>2, <1>6, <2>1, <2>2, <2>3, <2>4, <2>5 DEF ScopesNest
<1>12. PlaceholdersAreJumps'
  <2>1. \A i \in 1..2 : scopes'[i].placeholders = {}
    BY <1>5, <1>6 DEF TypeInv, ScopesNest
  <2> QED BY <1>6, <2>1 DEF PlaceholdersAreJumps
<1>13. OthersHaveNoCode'
  BY <1>1, <1>2, <1>4, FuncsAssumption DEF TypeInv, OthersHaveNoCode
<1> QED BY <1>8, <1>10, <1>11, <1>12, <1>13 DEF TypeInv

(* An argument takes its value from the operand stack. *)
LEMMA ArgDefKeeps ==
  ASSUME TypeInv, VisitArgDef
  PROVE  TypeInv'
<1> DEFINE i == Here
           t == Args[unit][i]
           left(k) == Prefix(Reverse(Args[unit]), Len(Args[unit]) - k)
           steps == <<Step(CreateAndInitLocalVar(t), flow, left(i - 1))>>
           next == Expects(Append(flow, NewDef(i, t)), left(i))
<1>1. /\ Generate(steps, {}, next) /\ flow' = Append(flow, NewDef(i, t))
      /\ UNCHANGED <<unit, scopes, defined, phase>>
  BY DEF VisitArgDef
<1>2. unit \in Func /\ ~(Len(code[unit]) >= Len(Args[unit]))
  BY DEF VisitArgDef, ArgsVisited, TypeInv, TypeOK, Unit
<1>3. Args[unit] \in Seq(DataType) BY <1>2, FuncsAssumption
<1>4. Len(code[unit]) \in Nat /\ flow \in Seq(Def) BY DEF TypeInv, TypeOK
<1>5. i \in 1..Len(Args[unit]) BY <1>2, <1>3, <1>4 DEF Here
<1>6. i \in Nat /\ t \in DataType BY <1>3, <1>5
<1>7. NewDef(i, t) \in Def BY <1>6, NewDefTypes
<1>8. Append(flow, NewDef(i, t)) \in Seq(Def)
      /\ Len(flow) <= Len(Append(flow, NewDef(i, t)))
  BY <1>4, <1>7
<1>9. ASSUME NEW k \in 0..Len(Args[unit]) PROVE left(k) \in OperandSeq
  <2>1. /\ Reverse(Args[unit]) \in Seq(DataType)
        /\ Len(Reverse(Args[unit])) = Len(Args[unit])
    BY <1>3, ReverseType
  <2>2. Len(Args[unit]) - k \in 0..Len(Reverse(Args[unit])) BY <1>3, <2>1
  <2>3. left(k) \in Seq(DataType) BY <2>1, <2>2, PrefixType
  <2> QED BY <2>3 DEF OperandSeq
<1>10. left(i - 1) \in OperandSeq /\ left(i) \in OperandSeq
  <2>1. i - 1 \in 0..Len(Args[unit]) /\ i \in 0..Len(Args[unit]) BY <1>3, <1>5
  <2> HIDE DEF left, i
  <2> QED BY <1>9, <2>1
<1> HIDE DEF left, t, i
<1>11. steps \in Seq(StepSet)
  <2>1. Step(CreateAndInitLocalVar(t), flow, left(i - 1)) \in StepSet
    BY <1>4, <1>6, <1>10, CmdTypes, StepType
  <2> QED BY <2>1, TupleType
<1>12. next \in Layout BY <1>8, <1>10, CmdTypes, StepType
<1> HIDE DEF steps, next
<1> QED BY <1>1, <1>8, <1>11, <1>12, SameScopesKeep

(* The end of a function's body. *)
LEMMA EndFuncDefKeeps ==
  ASSUME TypeInv, EndFuncDef
  PROVE  TypeInv'
<1> DEFINE defs == GetLocalVarDefsUpToScope(2)
           steps == GenerateReturnCmd(defs, <<>>)
           next == [Expects(flow, <<>>) EXCEPT !.live = FALSE]
<1>1. \/ Stop("rejected")
      \/ /\ UNCHANGED <<code, layout>> \/ Generate(steps, {}, next)
         /\ flow' = <<>> /\ scopes' = Front(scopes) /\ unit' = Main
         /\ defined' = defined \cup {unit} /\ phase' = phase
  BY DEF EndFuncDef
<1>2. CASE Stop("rejected") BY <1>2, StopKeeps
<1>3. CASE /\ UNCHANGED <<code, layout>> \/ Generate(steps, {}, next)
           /\ flow' = <<>> /\ scopes' = Front(scopes) /\ unit' = Main
           /\ defined' = defined \cup {unit} /\ phase' = phase
  <2>1. CurrentScope.type = "func" BY DEF EndFuncDef
  <2>2. Len(scopes) = 2 /\ unit # Main /\ scopes \in Seq(Scope)
    BY <2>1, ScopeFacts DEF TypeInv, TypeOK, ScopesNest
  <2>3. unit \in Func BY <2>2 DEF TypeInv, TypeOK, Unit
  <2>4. 2 \in DOMAIN scopes BY <2>2
  <2>5. defs \in Seq(Def) /\ Len(defs) <= Len(flow) BY <2>4, DefsTypes
  <2> HIDE DEF defs
  <2>6. steps \in Seq(StepSet) BY <2>5, ReturnTypes, OperandTypes DEF TypeInv, TypeOK
  <2>7. next \in Layout
    <3>1. flow \in Seq(Def) BY DEF TypeInv, TypeOK
    <3>2. Expects(flow, <<>>) \in Layout BY <3>1, NextTypes
    <3> QED BY <3>2 DEF Layout
  <2> HIDE DEF steps, next
  <2>8. /\ code' \in [Unit -> Seq(Cmd)]
        /\ layout' \in [Unit -> Seq(Layout)]
        /\ \A u \in Unit : Len(layout'[u]) = Len(code'[u]) + 1
        /\ \A u \in Unit : u # unit => code'[u] = code[u]
    <3>1. CASE UNCHANGED <<code, layout>>
      BY <3>1 DEF TypeInv, TypeOK, LayoutCoversCode
    <3>2. CASE Generate(steps, {}, next) BY <2>6, <2>7, <3>2, GenerateTypes
    <3> QED BY <1>3, <3>1, <3>2
  <2>9. /\ scopes' \in Seq(Scope) /\ Len(scopes') = 1 /\ DOMAIN scopes' = 1..1
        /\ scopes'[1] = scopes[1] /\ scopes' # <<>>
    BY <1>3, <2>2 DEF Front
  <2>10. TypeOK'
    BY <1>3, <2>3, <2>8, <2>9 DEF TypeInv, TypeOK, Unit
  <2>11. /\ scopes[1].type = "global" /\ scopes[1].start = 0
         /\ scopes[1].placeholders = {}
    BY DEF TypeInv, ScopesNest
  <2>12. ScopesNest'
    <3>1. Len(flow') = 0 BY <1>3
    <3>2. \A i \in 1..1 : i = 1 /\ \A j \in 1..i : j = 1 OBVIOUS
    <3> QED BY <1>3, <2>9, <2>11, <3>1, <3>2 DEF ScopesNest
  <2>13. PlaceholdersAreJumps' BY <2>9, <2>11 DEF PlaceholdersAreJumps
  <2>14. OthersHaveNoCode'
    BY <1>3, <2>8 DEF TypeInv, OthersHaveNoCode, Unit
  <2> QED BY <2>8, <2>10, <2>12, <2>13, <2>14 DEF TypeInv, LayoutCoversCode
<1> HIDE DEF steps, next
<1> QED BY <1>1, <1>2, <1>3

(* A return inside a function is noted in the current scope. *)
LEMMA ReturnKeeps ==
  ASSUME TypeInv, NEW t \in DataType \cup {Void}, NEW value \in Seq(StepSet),
         VisitReturn(t, value)
  PROVE  TypeInv'
<1> DEFINE defs == GetLocalVarDefsUpToScope(FlowScope)
           exit == GenerateReturnCmd(defs, Operands(t))
           steps == value \o exit
           next == [live |-> Live /\ CurrentScope.type # "func",
                    flow |-> flow, operands |-> <<>>]
<1>1. \/ Stop("crashed") \/ Stop("rejected")
      \/ /\ unit # Main
         /\ scopes' = [scopes EXCEPT ![Len(scopes)].has_return = TRUE]
         /\ Generate(steps, {}, next)
         /\ UNCHANGED <<unit, flow, defined, phase>>
  BY DEF VisitReturn
<1>2. CASE Stop("crashed") \/ Stop("rejected") BY <1>2, StopKeeps
<1>3. CASE /\ unit # Main
           /\ scopes' = [scopes EXCEPT ![Len(scopes)].has_return = TRUE]
           /\ Generate(steps, {}, next)
           /\ UNCHANGED <<unit, flow, defined, phase>>
  <2>1. defs \in Seq(Def) /\ Len(defs) <= Len(flow) BY ScopeFacts, DefsTypes
  <2> HIDE DEF defs
  <2>2. Operands(t) \in OperandSeq BY OperandTypes DEF Operands
  <2>3. flow \in Seq(Def) /\ scopes \in Seq(Scope) BY DEF TypeInv, TypeOK
  <2>4. exit \in Seq(StepSet) BY <2>1, <2>2, <2>3, ReturnTypes
  <2> HIDE DEF exit
  <2>5. steps \in Seq(StepSet) BY <2>4, Concat
  <2>6. next \in Layout
    BY <2>3 DEF Layout, Live
  <2>7. Len(scopes) \in DOMAIN scopes /\ scopes[Len(scopes)].type # "global"
    BY <1>3, ScopeFacts DEF TypeInv, ScopesNest
  <2> DEFINE i == Len(scopes)
             main == unit = Main
             n == Len(flow)
             none == {}
  <2>8. scopes' = WithReturn(scopes, i) BY <1>3 DEF WithReturn
  <2>9. /\ i \in DOMAIN scopes /\ scopes[i].type # "global" /\ none \in Addresses
        /\ main \in BOOLEAN /\ Nests(scopes, n, main)
    BY <2>7, NestsNow DEF Addresses
  <2> HIDE DEF i, main, n, none
  <2>10. /\ scopes' \in Seq(Scope) /\ Nests(scopes', n, main)
         /\ DOMAIN scopes' = DOMAIN scopes
         /\ \A j \in DOMAIN scopes :
              scopes'[j].placeholders \subseteq scopes[j].placeholders \cup none
    <3>1. scopes \in Seq(Scope) BY <2>3
    <3>2. \/ scopes' = WithPlaceholders(scopes, i, none)
          \/ scopes' = WithReturn(scopes, i)
      BY <2>8
    <3> HIDE DEF steps, next
    <3> QED BY <2>9, <3>1, <3>2, NoteNests
  <2>11. ScopesNest' BY <1>3, <2>10, NestsNow DEF main, n
  <2>12. \A j \in DOMAIN scopes' : \A p \in scopes'[j].placeholders : p \in Placeholders
    BY <2>10 DEF none, Placeholders
  <2>13. flow' \in Seq(Def) /\ UNCHANGED <<unit, defined, phase>> BY <1>3, <2>3
  <2>14. Generate(steps, {}, next) /\ scopes' \in Seq(Scope) BY <1>3, <2>10
  <2> HIDE DEF steps, next
  <2> QED BY <2>5, <2>6, <2>11, <2>12, <2>13, <2>14, GenerateKeeps
<1> HIDE DEF steps, next
<1> QED BY <1>1, <1>2, <1>3

(* The compilation begins with the global scope and no code. *)
LEMMA InitTypes == Init => TypeInv
<1> SUFFICES ASSUME Init PROVE TypeInv OBVIOUS
<1> DEFINE s == NewScope("global", 0, 0, {})
<1>1. s \in Scope /\ s.type = "global" /\ s.start = 0 /\ s.placeholders = {}
  BY DEF NewScope, Scope, ScopeType
<1> HIDE DEF s
<1>2. scopes = <<s>> BY DEF Init, s
<1>3. scopes \in Seq(Scope) BY <1>1, <1>2, TupleType
<1>4. ASSUME NEW u \in Unit
      PROVE  Entry(u) \in Seq(Layout) /\ Len(Entry(u)) = 1
  <2> DEFINE operands == IF u = Main THEN <<>> ELSE Reverse(Args[u])
             entry == [live |-> TRUE, flow |-> <<>>, operands |-> operands]
  <2>1. operands \in Seq(DataType \cup Func)
    <3>1. CASE u = Main BY <3>1
    <3>2. CASE u # Main
      <4>1. Args[u] \in Seq(DataType) BY <3>2, FuncsAssumption DEF Unit
      <4>2. Reverse(Args[u]) \in Seq(DataType) BY <4>1, ReverseType
      <4> QED BY <3>2, <4>2
    <3> QED BY <3>1, <3>2
  <2> HIDE DEF operands
  <2>2. entry \in Layout BY <2>1 DEF Layout
  <2>3. Entry(u) = <<entry>> BY DEF Entry, operands
  <2> HIDE DEF entry
  <2> QED BY <2>2, <2>3, TupleType
<1>5. layout \in [Unit -> Seq(Layout)] BY <1>4 DEF Init
<1>6. TypeOK
  <2>1. code \in [Unit -> Seq(Cmd)] BY DEF Init
  <2>2. unit \in Unit BY DEF Init, Unit
  <2>3. flow \in Seq(Def) /\ defined \subseteq Func /\ phase = "compiling"
    BY DEF Init
  <2> QED BY <1>3, <1>5, <2>1, <2>2, <2>3 DEF TypeOK
<1>7. ScopesNest
  <2>1. DOMAIN scopes = 1..1 /\ scopes[1] = s /\ scopes # <<>> BY <1>2
  <2>2. unit = Main /\ Len(flow) = 0 BY DEF Init
  <2> QED BY <1>1, <2>1, <2>2 DEF ScopesNest
<1>8. PlaceholdersAreJumps BY <1>1, <1>2 DEF PlaceholdersAreJumps
<1>9. LayoutCoversCode BY <1>4 DEF Init, LayoutCoversCode
<1>10. OthersHaveNoCode BY DEF Init, OthersHaveNoCode, Unit
<1> QED BY <1>6, <1>7, <1>8, <1>9, <1>10 DEF TypeInv

(* Every statement keeps the invariant. *)
LEMMA NextKeepsTypes ==
  ASSUME TypeInv, Next \/ Ended \/ UNCHANGED vars
  PROVE  TypeInv'
<1>1. CASE VisitVarDefWithoutInit \/ VisitVarDefWithInit \/ VisitVarDefWithSelfInit
  BY <1>1, VarDefStmtsKeep
<1>2. CASE VisitExprStmt BY <1>2, ExprStmtKeeps
<1>3. CASE VisitPreTestLoop \/ EndPreTestLoop BY <1>3, LoopKeeps
<1>4. CASE VisitBreak BY <1>4, BreakKeeps
<1>5. CASE VisitContinue BY <1>5, ContinueKeeps
<1>6. CASE VisitIf BY <1>6, IfKeeps
<1>7. CASE EndIfBody BY <1>7, EndIfBodyKeeps
<1>8. CASE VisitElse BY <1>8, ElseKeeps
<1>9. CASE EndBranches BY <1>9, EndBranchesKeeps
<1>10. CASE VisitFuncDef BY <1>10, FuncDefKeeps
<1>11. CASE VisitArgDef BY <1>11, ArgDefKeeps
<1>12. CASE EndFuncDef BY <1>12, EndFuncDefKeeps
<1>13. CASE VisitReturnValue
  <2>1. PICK t \in VarType : \E value \in Exprs(t) : VisitReturn(t, value)
    BY <1>13 DEF VisitReturnValue
  <2>2. PICK value \in Exprs(t) : VisitReturn(t, value) BY <2>1
  <2>3. t \in DataType \cup {Void} BY SomeTypes
  <2>4. value \in Seq(StepSet) BY <2>3, ExprTypes DEF TypeInv
  <2> QED BY <2>2, <2>3, <2>4, ReturnKeeps
<1>14. CASE VisitReturnWithoutValue
  <2>1. VisitReturn(Void, <<>>) BY <1>14 DEF VisitReturnWithoutValue
  <2>2. <<>> \in Seq(StepSet) OBVIOUS
  <2> QED BY <2>1, <2>2, ReturnKeeps
<1>15. CASE EndProgram BY <1>15, StopKeeps DEF EndProgram
<1>16. CASE Ended \/ UNCHANGED vars
  <2>1. UNCHANGED <<unit, code, flow, scopes, defined, phase, layout>>
    BY <1>16 DEF Ended, vars
  <2>2. TypeOK' BY <2>1 DEF TypeInv, TypeOK
  <2>3. ScopesNest' BY <2>1 DEF TypeInv, ScopesNest
  <2> QED
    BY <2>1, <2>2, <2>3 DEF TypeInv, PlaceholdersAreJumps, LayoutCoversCode,
                            OthersHaveNoCode
<1> QED BY <1>1, <1>2, <1>3, <1>4, <1>5, <1>6, <1>7, <1>8, <1>9, <1>10, <1>11,
           <1>12, <1>13, <1>14, <1>15, <1>16 DEF Next

(* Whatever program is compiled, with any functions and types and any       *)
(* nesting of its statements: the commands generated are well-formed, every *)
(* scope that the generator closes was opened, and every offset it writes   *)
(* is written into a jump of the function it is compiling.                  *)
THEOREM TypeCorrect == Spec => []TypeInv
<1>1. TypeInv /\ [Next \/ Ended]_vars => TypeInv'
  BY NextKeepsTypes
<1> QED BY <1>1, InitTypes, PTL DEF Spec

-----------------------------------------------------------------------------
(* No placeholder is left in compiled code, and no jump leaves its unit.   *)

(* The jump at p of the code c leads to a command of c, or to its end.     *)
IsJump(c, p) == c[p].op \in JumpOp
Aimed(c, p) ==
  /\ c[p].offset # Unwritten
  /\ Target(p, c[p]) \in 1..Len(c) + 1

(* A jump is aimed, or some open scope of its unit knows its placeholder.  *)
JumpsWait ==
  \A u \in Unit : \A p \in DOMAIN code[u] :
    IsJump(code[u], p) =>
      Aimed(code[u], p) \/ (u = unit /\ p \in Placeholders)

(* The condition of an open loop is a command of the unit, or the next.    *)
LoopsStart ==
  \A i \in DOMAIN scopes :
    scopes[i].type = "loop" => scopes[i].start_address \in 1..Len(code[unit]) + 1

(* No jump leads to the end of a function's body. *)
FuncsWait ==
  \A i \in DOMAIN scopes : scopes[i].type = "func" => scopes[i].placeholders = {}

EndsOutside == phase = "compiled" => CurrentScope.type = "global"

JumpsInv == JumpsWait /\ LoopsStart /\ FuncsWait /\ EndsOutside

-----------------------------------------------------------------------------
(* Steps without a jump                                                    *)

PlainSet == {step \in StepSet : step.cmd.op \notin JumpOp}

(* A command that does not jump is a plain step. *)
LEMMA PlainStep ==
  ASSUME NEW cmd \in Cmd, cmd.op \notin JumpOp, NEW f \in Seq(Def),
         NEW operands \in OperandSeq
  PROVE  Step(cmd, f, operands) \in PlainSet
<1>1. Step(cmd, f, operands) \in StepSet BY StepType
<1>2. Step(cmd, f, operands).cmd = cmd BY DEF Step
<1> QED BY <1>1, <1>2 DEF PlainSet

(* The commands that do not jump. *)
LEMMA PlainCmds ==
  /\ \A t \in DataType :
       /\ LoadValue(t).op \notin JumpOp /\ CreateLocalVar(t).op \notin JumpOp
       /\ CreateAndInitLocalVar(t).op \notin JumpOp
       /\ DestroyLocalVar(t).op \notin JumpOp
       /\ Unload(t).op \notin JumpOp /\ Sum(t).op \notin JumpOp
  /\ \A f \in Func : LoadFuncValue(f).op \notin JumpOp
  /\ \A d \in Def : LoadLocalVarValue(d).op \notin JumpOp
  /\ Call.op \notin JumpOp /\ Return.op \notin JumpOp
BY DEF JumpOp, LoadValue, CreateLocalVar, CreateAndInitLocalVar, DestroyLocalVar,
       Unload, Sum, LoadFuncValue, LoadLocalVarValue, Call, Return

(* Plain steps are steps. *)
LEMMA PlainSteps ==
  ASSUME NEW steps \in Seq(PlainSet)
  PROVE  /\ steps \in Seq(StepSet)
         /\ \A k \in DOMAIN steps : steps[k].cmd.op \notin JumpOp
<1>1. \A k \in DOMAIN steps : steps[k] \in PlainSet OBVIOUS
<1>2. steps \in Seq(StepSet) BY <1>1 DEF PlainSet
<1> QED BY <1>1, <1>2 DEF PlainSet

(* Variables are destroyed without a jump. *)
LEMMA DestroyPlain ==
  ASSUME flow \in Seq(Def), NEW defs \in Seq(Def), Len(defs) <= Len(flow),
         NEW operands \in OperandSeq
  PROVE  LET steps == GenerateDestroyLocalVarCmds(defs, operands) IN
         steps \in Seq(PlainSet) /\ Len(steps) = Len(defs)
<1> DEFINE steps == GenerateDestroyLocalVarCmds(defs, operands)
<1>1. ASSUME NEW i \in 1..Len(defs) PROVE steps[i] \in PlainSet
  <2>1. defs[Len(defs) - i + 1].type \in DataType
    <3>1. defs[Len(defs) - i + 1] \in Def BY Len(defs) - i + 1 \in 1..Len(defs)
    <3> QED BY <3>1 DEF Def
  <2>2. Prefix(flow, Len(flow) - i + 1) \in Seq(Def)
    BY PrefixType, Len(flow) - i + 1 \in 0..Len(flow)
  <2> QED BY <2>1, <2>2, CmdTypes, PlainCmds, PlainStep DEF GenerateDestroyLocalVarCmds
<1> QED BY <1>1 DEF GenerateDestroyLocalVarCmds

(* So is a function returned from. *)
LEMMA ReturnPlain ==
  ASSUME flow \in Seq(Def), NEW defs \in Seq(Def), Len(defs) <= Len(flow),
         NEW operands \in OperandSeq
  PROVE  GenerateReturnCmd(defs, operands) \in Seq(PlainSet)
<1> DEFINE destroys == GenerateDestroyLocalVarCmds(defs, operands)
           return == Step(Return, Prefix(flow, Len(flow) - Len(defs)), operands)
<1>1. destroys \in Seq(PlainSet) BY DestroyPlain
<1>2. return \in PlainSet BY PrefixType, CmdTypes, PlainCmds, PlainStep
<1> HIDE DEF destroys, return
<1>3. GenerateReturnCmd(defs, operands) = Append(destroys, return)
  BY DEF GenerateReturnCmd, destroys, return
<1> QED BY <1>1, <1>2, <1>3

(* A call does not jump within its unit. *)
LEMMA CallPlain ==
  ASSUME flow \in Seq(Def), NEW f \in Func, NEW below \in OperandSeq
  PROVE  VisitCall(f, below) \in Seq(PlainSet)
<1> DEFINE args == Reverse(Args[f])
           loads == [i \in 1..Len(args) |->
                       Step(LoadValue(args[i]), flow, below \o Prefix(args, i - 1))]
           last == <<Step(LoadFuncValue(f), flow, below \o args),
                     Step(Call, flow, Append(below \o args, f))>>
<1>1. args \in Seq(DataType) BY ReverseType, FuncsAssumption
<1>2. \A s \in Seq(DataType) : below \o s \in OperandSeq BY DEF OperandSeq
<1> HIDE DEF args
<1>3. ASSUME NEW i \in 1..Len(args) PROVE loads[i] \in PlainSet
  <2>1. Prefix(args, i - 1) \in Seq(DataType) BY <1>1, PrefixType
  <2>2. args[i] \in DataType BY <1>1
  <2> QED BY <1>2, <2>1, <2>2, CmdTypes, PlainCmds, PlainStep
<1>4. loads \in Seq(PlainSet) BY <1>1, <1>3
<1>5. Append(below \o args, f) \in OperandSeq BY <1>1, <1>2 DEF OperandSeq
<1>6. last[1] \in PlainSet /\ last[2] \in PlainSet
  BY <1>1, <1>2, <1>5, CmdTypes, PlainCmds, PlainStep
<1> HIDE DEF loads, last
<1>7. last \in Seq(PlainSet)
  <2>1. last = <<last[1], last[2]>> BY DEF last
  <2> QED BY <1>6, <2>1, TupleType
<1>8. VisitCall(f, below) = loads \o last BY DEF VisitCall, args, loads, last
<1> QED BY <1>4, <1>7, <1>8

(* Nor does any expression. *)
LEMMA ExprPlain ==
  ASSUME TypeOK, NEW t \in DataType \cup {Void}, NEW e \in Exprs(t)
  PROVE  e \in Seq(PlainSet)
<1>1. flow \in Seq(Def) BY DEF TypeOK
<1>2. ASSUME t # Void PROVE Literal(t) \in Seq(PlainSet)
  <2>1. Step(LoadValue(t), flow, <<>>) \in PlainSet
    BY <1>1, <1>2, CmdTypes, PlainCmds, PlainStep, OperandTypes
  <2> QED BY <2>1, TupleType DEF Literal
<1>3. ASSUME NEW d \in Def PROVE VisitId(d) \in Seq(PlainSet)
  <2>1. Step(LoadLocalVarValue(d), flow, <<>>) \in PlainSet
    BY <1>1, CmdTypes, PlainCmds, PlainStep, OperandTypes
  <2> QED BY <2>1, TupleType DEF VisitId
<1>4. \A d \in ToSet(flow) : d \in Def BY <1>1 DEF ToSet
<1>5. \A f \in Callable : f \in Func BY DEF Callable, Unit, TypeOK
<1>6. ASSUME NEW f \in Func, t # Void PROVE VisitSum(t, f) \in Seq(PlainSet)
  <2>1. VisitCall(f, <<t>>) \in Seq(PlainSet) BY <1>1, <1>6, CallPlain, OperandTypes
  <2>2. <<t, t>> \in OperandSeq BY <1>6 DEF OperandSeq
  <2>3. Step(Sum(t), flow, <<t, t>>) \in PlainSet
    BY <1>1, <1>6, <2>2, CmdTypes, PlainCmds, PlainStep
  <2>4. <<Step(Sum(t), flow, <<t, t>>)>> \in Seq(PlainSet) BY <2>3, TupleType
  <2> QED BY <1>2, <1>6, <2>1, <2>4 DEF VisitSum
<1>7. \A f \in Func : VisitCall(f, <<>>) \in Seq(PlainSet)
  BY <1>1, CallPlain, OperandTypes
<1>8. \/ t # Void /\ e = Literal(t)
      \/ \E d \in ToSet(flow) : e = VisitId(d)
      \/ \E f \in Callable : e = VisitCall(f, <<>>)
      \/ t # Void /\ \E f \in Callable : e = VisitSum(t, f)
  BY DEF Exprs
<1> QED BY <1>2, <1>3, <1>4, <1>5, <1>6, <1>7, <1>8

(* Steps with one jump, the last. *)
LEMMA LastJumps ==
  ASSUME NEW plain \in Seq(PlainSet), NEW jump \in StepSet
  PROVE  /\ Append(plain, jump) \in Seq(StepSet)
         /\ Len(Append(plain, jump)) = Len(plain) + 1
         /\ \A k \in DOMAIN Append(plain, jump) :
              Append(plain, jump)[k].cmd.op \in JumpOp =>
                k = Len(plain) + 1 /\ Append(plain, jump)[k] = jump
<1>1. /\ plain \in Seq(StepSet)
      /\ \A k \in DOMAIN plain : plain[k].cmd.op \notin JumpOp
  BY PlainSteps
<1>2. /\ Append(plain, jump) \in Seq(StepSet)
      /\ Len(Append(plain, jump)) = Len(plain) + 1
      /\ DOMAIN Append(plain, jump) = 1..Len(plain) + 1
      /\ \A i \in 1..Len(plain) : Append(plain, jump)[i] = plain[i]
      /\ Append(plain, jump)[Len(plain) + 1] = jump /\ Len(plain) \in Nat
  BY <1>1, AppendParts
<1>3. DOMAIN plain = 1..Len(plain) BY <1>1
<1> QED BY <1>1, <1>2, <1>3

-----------------------------------------------------------------------------
(* Generating steps                                                        *)

(* The code after steps are generated: its jumps of before are as they     *)
(* were, but for those now made to lead to its end.                        *)
LEMMA Generated ==
  ASSUME TypeInv, JumpsWait, NEW steps \in Seq(StepSet),
         NEW placeholders \in SUBSET Placeholders, NEW next \in Layout,
         Generate(steps, placeholders, next)
  PROVE  LET new == code'[unit] IN
         /\ Len(new) = Len(code[unit]) + Len(steps) /\ Len(code[unit]) \in Nat
         /\ DOMAIN new = 1..Len(code[unit]) + Len(steps)
         /\ \A u \in Unit : u # unit => code'[u] = code[u]
         /\ \A p \in DOMAIN new : IsJump(new, p) =>
              \/ Aimed(new, p)
              \/ p \in Placeholders \ placeholders
              \/ \E k \in DOMAIN steps :
                   p = Len(code[unit]) + k /\ new[p] = steps[k].cmd
<1> DEFINE old == code[unit]
           cmds == Cmds(steps)
           c == old \o cmds
           new == code'[unit]
<1>1. unit \in Unit /\ code \in [Unit -> Seq(Cmd)] BY DEF TypeInv, TypeOK
<1>2. code' = [code EXCEPT ![unit] = WriteCurrentCmdOffset(c, placeholders)]
  BY DEF Generate
<1>3. \A u \in Unit : u # unit => code'[u] = code[u] BY <1>1, <1>2
<1>4. new = WriteCurrentCmdOffset(c, placeholders) BY <1>1, <1>2
<1>5. /\ old \in Seq(Cmd) /\ Len(old) \in Nat /\ DOMAIN old = 1..Len(old)
      /\ cmds \in Seq(Cmd) /\ Len(cmds) = Len(steps)
      /\ DOMAIN steps = 1..Len(steps) /\ Len(steps) \in Nat
      /\ \A k \in DOMAIN steps : cmds[k] = steps[k].cmd
  BY <1>1, StepParts
<1> HIDE DEF old, cmds, new
<1>6. /\ c \in Seq(Cmd) /\ Len(c) = Len(old) + Len(steps)
      /\ DOMAIN c = 1..Len(old) + Len(steps)
      /\ \A p \in DOMAIN old : c[p] = old[p]
      /\ \A k \in DOMAIN steps : c[Len(old) + k] = steps[k].cmd
  <2>1. /\ c \in Seq(Cmd) /\ Len(c) = Len(old) + Len(cmds)
        /\ \A p \in DOMAIN old : c[p] = old[p]
        /\ \A k \in DOMAIN cmds : c[Len(old) + k] = cmds[k]
    <3>1. old \in Seq(Cmd) /\ cmds \in Seq(Cmd) BY <1>5
    <3> QED BY <3>1, Concat
  <2> HIDE DEF c
  <2>2. DOMAIN c = 1..Len(old) + Len(steps) BY <1>5, <2>1
  <2>3. DOMAIN cmds = DOMAIN steps BY <1>5
  <2> QED BY <1>5, <2>1, <2>2, <2>3
<1> HIDE DEF c
<1>7. /\ DOMAIN new = DOMAIN c /\ Len(new) = Len(c)
      /\ \A p \in DOMAIN c : p \notin placeholders => new[p] = c[p]
      /\ \A p \in DOMAIN c \cap placeholders :
           new[p] = [c[p] EXCEPT !.offset = Len(c) - p]
  <2>1. new = [p \in DOMAIN c |-> IF p \in placeholders
                                 THEN [c[p] EXCEPT !.offset = Len(c) - p]
                                 ELSE c[p]]
    BY <1>4 DEF WriteCurrentCmdOffset
  <2>2. DOMAIN new = 1..Len(c) /\ Len(c) \in Nat BY <1>6, <2>1
  <2> QED BY <1>6, <2>1, <2>2
<1>8. ASSUME NEW p \in DOMAIN new, IsJump(new, p)
      PROVE  \/ Aimed(new, p)
             \/ p \in Placeholders \ placeholders
             \/ \E k \in DOMAIN steps : p = Len(old) + k /\ new[p] = steps[k].cmd
  <2>1. CASE p \in placeholders
    <3>1. p \in DOMAIN old /\ old[p].op \in JumpOp
      BY <2>1 DEF Placeholders, TypeInv, PlaceholdersAreJumps, old
    <3>2. c[p] = old[p] /\ c[p] \in Cmd /\ p \in DOMAIN c BY <1>5, <1>6, <3>1
    <3>3. c[p] \in [op: JumpOp, offset: Int \cup {Unwritten}]
      BY <3>1, <3>2 DEF Cmd, TypedOp, JumpOp
    <3>4. new[p].offset = Len(c) - p BY <1>7, <2>1, <3>2, <3>3
    <3>5. p \in 1..Len(c) /\ Len(c) \in Nat BY <1>5, <1>6, <3>2
    <3>6. p + 1 + (Len(c) - p) = Len(c) + 1 /\ Len(c) - p \in Int BY <3>5
    <3> QED BY <1>7, <3>4, <3>5, <3>6, BoundsAssumption DEF Aimed, Target
  <2>2. CASE p \notin placeholders /\ p \in DOMAIN old
    <3>1. new[p] = old[p] BY <1>6, <1>7, <2>2
    <3>2. Aimed(old, p) \/ p \in Placeholders
      <4>1. IsJump(old, p) BY <1>8, <3>1 DEF IsJump
      <4> QED BY <1>1, <2>2, <4>1 DEF JumpsWait, old
    <3>3. ASSUME Aimed(old, p) PROVE Aimed(new, p)
      <4>1. Len(old) <= Len(new) BY <1>5, <1>6, <1>7
      <4>2. Len(old) \in Nat /\ Len(new) \in Nat BY <1>5, <1>6, <1>7
      <4>3. 1..Len(old) + 1 \subseteq 1..Len(new) + 1 BY <4>1, <4>2
      <4> QED BY <3>1, <3>3, <4>3 DEF Aimed
    <3> QED BY <2>2, <3>2, <3>3
  <2>3. CASE p \notin placeholders /\ p \notin DOMAIN old
    <3>1. p \in 1..Len(old) + Len(steps) /\ ~(p \in 1..Len(old))
      BY <1>5, <1>6, <1>7, <2>3
    <3>2. p - Len(old) \in 1..Len(steps) /\ p = Len(old) + (p - Len(old))
      BY <1>5, <3>1
    <3>3. c[Len(old) + (p - Len(old))] = steps[p - Len(old)].cmd BY <1>5, <1>6, <3>2
    <3> QED BY <1>5, <1>7, <2>3, <3>2, <3>3
  <2> QED BY <2>1, <2>2, <2>3
<1>9. Len(new) = Len(old) + Len(steps) /\ Len(old) \in Nat BY <1>5, <1>6, <1>7
<1> QED BY <1>3, <1>6, <1>7, <1>8, <1>9 DEF old, new

(* What a scope notes that is not closed. *)
ScopesKeepJumps ==
  \A i \in DOMAIN scopes' :
    /\ scopes'[i].type = "loop" =>
         scopes'[i].start_address \in 1..Len(code[unit]) + 1
    /\ scopes'[i].type = "func" => scopes'[i].placeholders = {}

(* A statement keeps the invariant if each jump it generates is aimed, or  *)
(* its placeholder is noted, and no other placeholder is forgotten.        *)
LEMMA GenerateJumps ==
  ASSUME TypeInv, JumpsInv, phase = "compiling", NEW steps \in Seq(StepSet),
         NEW placeholders \in SUBSET Placeholders, NEW next \in Layout,
         Generate(steps, placeholders, next), UNCHANGED <<unit, phase>>,
         Placeholders \ placeholders \subseteq Placeholders', ScopesKeepJumps,
         \A k \in DOMAIN steps : steps[k].cmd.op \in JumpOp =>
           \/ Len(code[unit]) + k \in Placeholders'
           \/ /\ steps[k].cmd.offset # Unwritten
              /\ Target(Len(code[unit]) + k, steps[k].cmd) \in 1..Len(code[unit]) + 1
  PROVE  JumpsInv'
<1> DEFINE new == code'[unit]
           n == Len(code[unit])
<1>1. /\ Len(new) = n + Len(steps) /\ n \in Nat
      /\ \A u \in Unit : u # unit => code'[u] = code[u]
      /\ \A p \in DOMAIN new : IsJump(new, p) =>
           \/ Aimed(new, p)
           \/ p \in Placeholders \ placeholders
           \/ \E k \in DOMAIN steps : p = n + k /\ new[p] = steps[k].cmd
  BY Generated DEF JumpsInv
<1>2. Len(steps) \in Nat OBVIOUS
<1>3. 1..n + 1 \subseteq 1..Len(new) + 1 BY <1>1, <1>2
<1>4. ASSUME NEW p \in DOMAIN new, IsJump(new, p)
      PROVE  Aimed(new, p) \/ p \in Placeholders'
  <2>1. ASSUME NEW k \in DOMAIN steps, p = n + k, new[p] = steps[k].cmd
        PROVE  Aimed(new, p) \/ p \in Placeholders'
    <3>1. steps[k].cmd.op \in JumpOp BY <1>4, <2>1 DEF IsJump
    <3> QED BY <1>3, <2>1, <3>1 DEF Aimed
  <2> HIDE DEF new, n
  <2> QED BY <1>1, <1>4, <2>1
<1>5. ASSUME NEW u \in Unit, NEW p \in DOMAIN code'[u], IsJump(code'[u], p)
      PROVE  Aimed(code'[u], p) \/ (u = unit' /\ p \in Placeholders')
  <2>1. CASE u = unit BY <1>4, <1>5, <2>1
  <2>2. CASE u # unit
    <3>1. code'[u] = code[u] BY <1>1, <2>2
    <3> QED BY <1>5, <2>2, <3>1 DEF JumpsInv, JumpsWait
  <2> QED BY <2>1, <2>2
<1>6. JumpsWait' BY <1>5 DEF JumpsWait, IsJump, Aimed, Target
<1>7. LoopsStart' BY <1>3 DEF LoopsStart, ScopesKeepJumps
<1>8. FuncsWait' BY DEF FuncsWait, ScopesKeepJumps
<1>9. EndsOutside' BY DEF EndsOutside
<1> QED BY <1>6, <1>7, <1>8, <1>9 DEF JumpsInv

-----------------------------------------------------------------------------
(* Statements without jumps                                                *)

(* Stopping changes no code; only a program that is whole is compiled. *)
LEMMA StopJumps ==
  ASSUME JumpsInv, NEW outcome, Stop(outcome),
         outcome = "compiled" => CurrentScope.type = "global"
  PROVE  JumpsInv'
BY DEF Stop, JumpsInv, JumpsWait, LoopsStart, FuncsWait, EndsOutside, IsJump,
       Aimed, Target, Placeholders, CurrentScope

(* Generating plain steps, with what the scopes note of jumps unchanged. *)
LEMMA PlainJumps ==
  ASSUME TypeInv, JumpsInv, phase = "compiling", NEW steps \in Seq(PlainSet),
         NEW next \in Layout, Generate(steps, {}, next), UNCHANGED <<unit, phase>>,
         DOMAIN scopes' = DOMAIN scopes,
         \A i \in DOMAIN scopes :
           /\ scopes'[i].type = scopes[i].type
           /\ scopes'[i].start_address = scopes[i].start_address
           /\ scopes'[i].placeholders = scopes[i].placeholders
  PROVE  JumpsInv'
<1>1. steps \in Seq(StepSet) /\ \A k \in DOMAIN steps : steps[k].cmd.op \notin JumpOp
  BY PlainSteps
<1>2. Placeholders' = Placeholders BY DEF Placeholders
<1>3. ScopesKeepJumps BY DEF ScopesKeepJumps, JumpsInv, LoopsStart, FuncsWait
<1> QED BY <1>1, <1>2, <1>3, GenerateJumps

(* A command without a jump behind an expression. *)
LEMMA AppendPlain ==
  ASSUME TypeInv, NEW e \in Seq(PlainSet), NEW cmd \in Cmd, cmd.op \notin JumpOp,
         NEW t \in DataType
  PROVE  Append(e, Step(cmd, flow, <<t>>)) \in Seq(PlainSet)
<1> DEFINE step == Step(cmd, flow, <<t>>)
<1>1. step \in PlainSet BY PlainStep, OperandTypes DEF TypeInv, TypeOK
<1> HIDE DEF step
<1>2. Append(e, step) \in Seq(PlainSet) BY <1>1
<1> QED BY <1>2 DEF step

(* The definition of a variable. *)
LEMMA VarDefJumps ==
  ASSUME TypeInv, JumpsInv, phase = "compiling", NEW d \in Def,
         NEW steps \in Seq(PlainSet), VisitVarDef(d, steps)
  PROVE  JumpsInv'
<1>1. PICK insert \in InsertOutcomes(FlowScope) :
        IF insert = "crash" THEN Stop("crashed")
        ELSE /\ flow' = Append(flow, d)
             /\ Generate(steps, {}, Expects(Append(flow, d), <<>>))
             /\ UNCHANGED <<unit, scopes, defined, phase>>
  BY DEF VisitVarDef
<1>2. CASE insert = "crash" BY <1>1, <1>2, StopJumps
<1>3. CASE insert # "crash"
  <2>1. Append(flow, d) \in Seq(Def) BY DEF TypeInv, TypeOK
  <2>2. Expects(Append(flow, d), <<>>) \in Layout BY <2>1, NextTypes
  <2> QED BY <1>1, <1>3, <2>2, PlainJumps
<1> QED BY <1>2, <1>3

(* The three forms of variable definitions. *)
LEMMA VarDefStmtsJumps ==
  ASSUME TypeInv, JumpsInv,
         VisitVarDefWithoutInit \/ VisitVarDefWithInit \/ VisitVarDefWithSelfInit
  PROVE  JumpsInv'
<1>1. Here \in Nat /\ flow \in Seq(Def) BY DEF Here, TypeInv, TypeOK
<1>2. phase = "compiling"
  BY DEF VisitVarDefWithoutInit, VisitVarDefWithInit, VisitVarDefWithSelfInit, CanVisit
<1>3. CASE VisitVarDefWithoutInit
  <2>1. PICK t \in VarType :
          VisitVarDef(NewDef(Here, t), <<Step(CreateLocalVar(t), flow, <<>>)>>)
    BY <1>3 DEF VisitVarDefWithoutInit
  <2>2. t \in DataType BY SomeTypes
  <2>3. Step(CreateLocalVar(t), flow, <<>>) \in PlainSet
    BY <1>1, <2>2, CmdTypes, PlainCmds, PlainStep, OperandTypes
  <2>4. <<Step(CreateLocalVar(t), flow, <<>>)>> \in Seq(PlainSet)
    BY <2>3, TupleType
  <2>5. NewDef(Here, t) \in Def BY <1>1, <2>2, NewDefTypes
  <2> QED BY <1>2, <2>1, <2>4, <2>5, VarDefJumps
<1>4. CASE VisitVarDefWithInit
  <2>1. PICK t \in VarType : \E value \in Exprs(t) :
          VisitVarDef(NewDef(Here + Len(value), t),
                      Append(value, Step(CreateAndInitLocalVar(t), flow, <<t>>)))
    BY <1>4 DEF VisitVarDefWithInit
  <2>2. PICK value \in Exprs(t) :
          VisitVarDef(NewDef(Here + Len(value), t),
                      Append(value, Step(CreateAndInitLocalVar(t), flow, <<t>>)))
    BY <2>1
  <2>3. t \in DataType BY SomeTypes
  <2>4. value \in Seq(PlainSet) BY <2>3, ExprPlain DEF TypeInv
  <2>5. Append(value, Step(CreateAndInitLocalVar(t), flow, <<t>>)) \in Seq(PlainSet)
    BY <2>3, <2>4, CmdTypes, PlainCmds, AppendPlain
  <2>6. Here + Len(value) \in Nat BY <1>1, <2>4
  <2>7. NewDef(Here + Len(value), t) \in Def BY <2>3, <2>6, NewDefTypes
  <2> QED BY <1>2, <2>2, <2>5, <2>7, VarDefJumps
<1>5. CASE VisitVarDefWithSelfInit
  <2>1. PICK t \in VarType :
          VisitVarDef(NewDef(Here + 1, t),
                      Append(VisitId(NewDef(Here + 1, t)),
                             Step(CreateAndInitLocalVar(t), flow, <<t>>)))
    BY <1>5 DEF VisitVarDefWithSelfInit
  <2>2. t \in DataType BY SomeTypes
  <2>3. NewDef(Here + 1, t) \in Def BY <1>1, <2>2, NewDefTypes
  <2>4. VisitId(NewDef(Here + 1, t)) \in Seq(PlainSet)
    <3>1. Step(LoadLocalVarValue(NewDef(Here + 1, t)), flow, <<>>) \in PlainSet
      BY <1>1, <2>3, CmdTypes, PlainCmds, PlainStep, OperandTypes
    <3> QED BY <3>1, TupleType DEF VisitId
  <2>5. Append(VisitId(NewDef(Here + 1, t)),
               Step(CreateAndInitLocalVar(t), flow, <<t>>)) \in Seq(PlainSet)
    BY <2>2, <2>4, CmdTypes, PlainCmds, AppendPlain
  <2> QED BY <1>2, <2>1, <2>3, <2>5, VarDefJumps
<1> QED BY <1>3, <1>4, <1>5

(* An expression statement. *)
LEMMA ExprStmtJumps ==
  ASSUME TypeInv, JumpsInv, VisitExprStmt
  PROVE  JumpsInv'
<1>1. PICK t \in VarType \cup {Void} : \E expr \in Exprs(t) :
        Generate(IF t = Void THEN expr
                 ELSE Append(expr, Step(Unload(t), flow, <<t>>)),
                 {}, Expects(flow, <<>>))
  BY DEF VisitExprStmt
<1>2. PICK expr \in Exprs(t) :
        Generate(IF t = Void THEN expr
                 ELSE Append(expr, Step(Unload(t), flow, <<t>>)),
                 {}, Expects(flow, <<>>))
  BY <1>1
<1>3. t \in DataType \cup {Void} BY SomeTypes
<1>4. expr \in Seq(PlainSet) BY <1>3, ExprPlain DEF TypeInv
<1>5. t # Void => Append(expr, Step(Unload(t), flow, <<t>>)) \in Seq(PlainSet)
  BY <1>3, <1>4, CmdTypes, PlainCmds, AppendPlain
<1>6. UNCHANGED <<unit, scopes, phase>> /\ phase = "compiling"
  BY DEF VisitExprStmt, CanVisit
<1>7. Expects(flow, <<>>) \in Layout BY NextTypes DEF TypeInv, TypeOK
<1> QED BY <1>2, <1>4, <1>5, <1>6, <1>7, PlainJumps

(* An argument. *)
LEMMA ArgDefJumps ==
  ASSUME TypeInv, JumpsInv, VisitArgDef
  PROVE  JumpsInv'
<1> DEFINE i == Here
           t == Args[unit][i]
           left(k) == Prefix(Reverse(Args[unit]), Len(Args[unit]) - k)
           steps == <<Step(CreateAndInitLocalVar(t), flow, left(i - 1))>>
           next == Expects(Append(flow, NewDef(i, t)), left(i))
<1>1. /\ Generate(steps, {}, next) /\ UNCHANGED <<unit, scopes, phase>>
      /\ phase = "compiling"
  BY DEF VisitArgDef
<1>2. unit \in Func /\ ~(Len(code[unit]) >= Len(Args[unit]))
  BY DEF VisitArgDef, ArgsVisited, TypeInv, TypeOK, Unit
<1>3. Args[unit] \in Seq(DataType) BY <1>2, FuncsAssumption
<1>4. Len(code[unit]) \in Nat /\ flow \in Seq(Def) BY DEF TypeInv, TypeOK
<1>5. i \in 1..Len(Args[unit]) BY <1>2, <1>3, <1>4 DEF Here
<1>6. i \in Nat /\ t \in DataType BY <1>3, <1>5
<1>7. NewDef(i, t) \in Def BY <1>6, NewDefTypes
<1>8. Append(flow, NewDef(i, t)) \in Seq(Def) BY <1>4, <1>7
<1>9. ASSUME NEW k \in 0..Len(Args[unit]) PROVE left(k) \in OperandSeq
  <2>1. /\ Reverse(Args[unit]) \in Seq(DataType)
        /\ Len(Reverse(Args[unit])) = Len(Args[unit])
    BY <1>3, ReverseType
  <2>2. Len(Args[unit]) - k \in 0..Len(Reverse(Args[unit])) BY <1>3, <2>1
  <2>3. left(k) \in Seq(DataType) BY <2>1, <2>2, PrefixType
  <2> QED BY <2>3 DEF OperandSeq
<1>10. left(i - 1) \in OperandSeq /\ left(i) \in OperandSeq
  <2>1. i - 1 \in 0..Len(Args[unit]) /\ i \in 0..Len(Args[unit]) BY <1>3, <1>5
  <2> HIDE DEF left, i
  <2> QED BY <1>9, <2>1
<1> HIDE DEF left, t, i
<1>11. steps \in Seq(PlainSet)
  <2>1. Step(CreateAndInitLocalVar(t), flow, left(i - 1)) \in PlainSet
    BY <1>4, <1>6, <1>10, CmdTypes, PlainCmds, PlainStep
  <2> QED BY <2>1, TupleType
<1>12. next \in Layout BY <1>8, <1>10, CmdTypes, StepType
<1> HIDE DEF steps, next
<1> QED BY <1>1, <1>11, <1>12, PlainJumps

(* A return. *)
LEMMA ReturnJumps ==
  ASSUME TypeInv, JumpsInv, phase = "compiling", NEW t \in DataType \cup {Void},
         NEW value \in Seq(PlainSet), VisitReturn(t, value)
  PROVE  JumpsInv'
<1> DEFINE defs == GetLocalVarDefsUpToScope(FlowScope)
           exit == GenerateReturnCmd(defs, Operands(t))
           steps == value \o exit
           next == [live |-> Live /\ CurrentScope.type # "func",
                    flow |-> flow, operands |-> <<>>]
<1>1. \/ Stop("crashed") \/ Stop("rejected")
      \/ /\ scopes' = [scopes EXCEPT ![Len(scopes)].has_return = TRUE]
         /\ Generate(steps, {}, next)
         /\ UNCHANGED <<unit, phase>>
  BY DEF VisitReturn
<1>2. CASE Stop("crashed") \/ Stop("rejected") BY <1>2, StopJumps
<1>3. CASE /\ scopes' = [scopes EXCEPT ![Len(scopes)].has_return = TRUE]
           /\ Generate(steps, {}, next)
           /\ UNCHANGED <<unit, phase>>
  <2>1. defs \in Seq(Def) /\ Len(defs) <= Len(flow) BY ScopeFacts, DefsTypes
  <2> HIDE DEF defs
  <2>2. Operands(t) \in OperandSeq BY OperandTypes DEF Operands
  <2>3. flow \in Seq(Def) /\ scopes \in Seq(Scope) BY DEF TypeInv, TypeOK
  <2>4. exit \in Seq(PlainSet) BY <2>1, <2>2, <2>3, ReturnPlain
  <2> HIDE DEF exit
  <2>5. steps \in Seq(PlainSet) BY <2>4, Concat
  <2>6. next \in Layout BY <2>3 DEF Layout, Live
  <2> HIDE DEF steps, next
  <2>7. /\ DOMAIN scopes' = DOMAIN scopes
        /\ \A i \in DOMAIN scopes :
             /\ scopes'[i].type = scopes[i].type
             /\ scopes'[i].start_address = scopes[i].start_address
             /\ scopes'[i].placeholders = scopes[i].placeholders
    <3>1. \A i \in DOMAIN scopes : scopes[i] \in Scope BY <2>3
    <3> QED BY <1>3, <3>1 DEF Scope
  <2> QED BY <1>3, <2>5, <2>6, <2>7, PlainJumps
<1> HIDE DEF steps, next
<1> QED BY <1>1, <1>2, <1>3

-----------------------------------------------------------------------------
(* Statements with jumps                                                   *)

(* A condition has one jump, at the placeholder that is noted for it. *)
LEMMA CondJumps ==
  ASSUME TypeInv, NEW cond \in Exprs(Bool)
  PROVE  LET steps == Append(cond, Step(JumpIfNot(Unwritten), flow, <<Bool>>)) IN
         \A k \in DOMAIN steps :
           steps[k].cmd.op \in JumpOp => Len(code[unit]) + k = Here + Len(cond)
<1> DEFINE jump == Step(JumpIfNot(Unwritten), flow, <<Bool>>)
<1>1. cond \in Seq(PlainSet) BY SomeTypes, ExprPlain DEF TypeInv
<1>2. jump \in StepSet
  <2>1. flow \in Seq(Def) BY DEF TypeInv, TypeOK
  <2> QED BY <2>1, SomeTypes, CmdTypes, StepType, OperandTypes
<1> HIDE DEF jump
<1>3. \A k \in DOMAIN Append(cond, jump) :
        Append(cond, jump)[k].cmd.op \in JumpOp => k = Len(cond) + 1
  BY <1>1, <1>2, LastJumps
<1>4. Len(cond) \in Nat BY <1>1
<1>5. Here + Len(cond) = Len(code[unit]) + (Len(cond) + 1) BY <1>4, JumpAddress
<1> QED BY <1>3, <1>5 DEF jump

(* Leaving scopes takes one jump, behind the variables destroyed. *)
LEMMA LeavingJumps ==
  ASSUME TypeInv, NEW i \in DOMAIN scopes, NEW offset \in Int \cup {Unwritten}
  PROVE  LET defs == GetLocalVarDefsUpToScope(i)
             steps == GenerateJumpCmdStart(defs, offset)
         IN  /\ steps \in Seq(StepSet) /\ Len(defs) \in Nat
             /\ Here + Len(defs) \in Nat
             /\ \A k \in DOMAIN steps : steps[k].cmd.op \in JumpOp =>
                  /\ Len(code[unit]) + k = Here + Len(defs)
                  /\ steps[k].cmd.offset = offset
<1> DEFINE defs == GetLocalVarDefsUpToScope(i)
           destroys == GenerateDestroyLocalVarCmds(defs, <<>>)
           jump == Step(DirectJump(offset), Prefix(flow, Len(flow) - Len(defs)), <<>>)
<1>1. flow \in Seq(Def) BY DEF TypeInv, TypeOK
<1>2. defs \in Seq(Def) /\ Len(defs) <= Len(flow) /\ Len(defs) \in Nat
  <2>1. defs \in Seq(Def) /\ Len(defs) <= Len(flow) BY DefsTypes
  <2> HIDE DEF defs
  <2> QED BY <2>1
<1> HIDE DEF defs
<1>3. destroys \in Seq(PlainSet) /\ Len(destroys) = Len(defs)
  BY <1>1, <1>2, DestroyPlain, OperandTypes
<1>4. jump \in StepSet /\ jump.cmd = DirectJump(offset)
  <2>1. Prefix(flow, Len(flow) - Len(defs)) \in Seq(Def) BY <1>1, <1>2, PrefixType
  <2>2. jump \in StepSet BY <2>1, CmdTypes, StepType, OperandTypes
  <2> QED BY <2>2 DEF Step
<1>5. GenerateJumpCmdStart(defs, offset) = Append(destroys, jump)
  BY DEF GenerateJumpCmdStart
<1> HIDE DEF destroys, jump
<1>6. /\ Append(destroys, jump) \in Seq(StepSet)
      /\ \A k \in DOMAIN Append(destroys, jump) :
           Append(destroys, jump)[k].cmd.op \in JumpOp =>
             k = Len(destroys) + 1 /\ Append(destroys, jump)[k] = jump
  BY <1>3, <1>4, LastJumps
<1>7. /\ Here + Len(defs) = Len(code[unit]) + (Len(defs) + 1)
      /\ Here + Len(defs) \in Nat
  BY <1>2, JumpAddress
<1>8. DirectJump(offset).offset = offset BY DEF DirectJump
<1> QED BY <1>2, <1>3, <1>4, <1>5, <1>6, <1>7, <1>8 DEF defs

(* A jump at an address, given an offset to a target, leads there. *)
LEMMA OffsetLeads ==
  ASSUME NEW target \in Nat, NEW a \in Nat, NEW cmd, cmd.offset = OffsetTo(target, a)
  PROVE  Target(a, cmd) = target /\ cmd.offset # Unwritten /\ cmd.offset \in Int
<1>1. target - (a + 1) \in Int /\ a + 1 + (target - (a + 1)) = target OBVIOUS
<1> QED BY <1>1, BoundsAssumption DEF OffsetTo, Target

(* The start of a loop notes its condition and the jump out of it. *)
LEMMA LoopJumps ==
  ASSUME TypeInv, JumpsInv, VisitPreTestLoop
  PROVE  JumpsInv'
<1>1. PICK cond \in Exprs(Bool) :
        /\ Generate(Append(cond, Step(JumpIfNot(Unwritten), flow, <<Bool>>)),
                    {}, Expects(flow, <<>>))
        /\ scopes' = Append(scopes, NewScope("loop", Len(flow), Here,
                                             {Here + Len(cond)}))
  BY DEF VisitPreTestLoop
<1>2. UNCHANGED <<unit, phase>> /\ phase = "compiling"
  BY DEF VisitPreTestLoop, CanNest, CanVisit
<1> DEFINE steps == Append(cond, Step(JumpIfNot(Unwritten), flow, <<Bool>>))
           s == NewScope("loop", Len(flow), Here, {Here + Len(cond)})
<1>3. /\ steps \in Seq(StepSet) /\ Len(cond) \in Nat /\ Here + Len(cond) \in Nat
      /\ \A k \in DOMAIN steps :
           steps[k].cmd.op \in JumpOp => Len(code[unit]) + k = Here + Len(cond)
  BY CondSteps, CondJumps
<1>4. /\ s \in Scope /\ s.type = "loop" /\ s.placeholders = {Here + Len(cond)}
      /\ s.start_address \in 1..Len(code[unit]) + 1
  <2>1. Here = Len(code[unit]) + 1 /\ Len(code[unit]) \in Nat /\ Len(flow) \in Nat
    BY DEF Here, TypeInv, TypeOK
  <2> QED BY <1>3, <2>1 DEF NewScope, Scope, ScopeType
<1>5. Generate(steps, {}, Expects(flow, <<>>)) /\ scopes' = Append(scopes, s)
  BY <1>1
<1> HIDE DEF steps, s
<1>6. /\ DOMAIN scopes' = 1..Len(scopes) + 1 /\ DOMAIN scopes = 1..Len(scopes)
      /\ \A i \in DOMAIN scopes : scopes'[i] = scopes[i]
      /\ scopes'[Len(scopes) + 1] = s /\ Len(scopes) \in Nat
  <2>1. scopes \in Seq(Scope) /\ DOMAIN scopes = 1..Len(scopes)
    BY ScopeFacts DEF TypeInv, TypeOK
  <2> QED BY <1>4, <1>5, <2>1, AppendParts
<1>7. \A i \in DOMAIN scopes' : i \in DOMAIN scopes \/ i = Len(scopes) + 1
  BY <1>6
<1>8. /\ Placeholders \subseteq Placeholders'
      /\ Here + Len(cond) \in Placeholders'
  <2>1. \A i \in DOMAIN scopes : i \in DOMAIN scopes' BY <1>6
  <2>2. Len(scopes) + 1 \in DOMAIN scopes' BY <1>6
  <2> QED BY <1>4, <1>6, <2>1, <2>2 DEF Placeholders
<1>9. ScopesKeepJumps
  BY <1>4, <1>6, <1>7 DEF ScopesKeepJumps, JumpsInv, LoopsStart, FuncsWait
<1>10. Expects(flow, <<>>) \in Layout BY NextTypes DEF TypeInv, TypeOK
<1> QED BY <1>2, <1>3, <1>5, <1>8, <1>9, <1>10, GenerateJumps

(* Closing the scopes above the k-th drops no placeholders but theirs.     *)
LEMMA CloseJumps ==
  ASSUME TypeInv, JumpsInv, NEW k \in 0..Len(scopes), scopes' = Prefix(scopes, k),
         NEW placeholders,
         \A i \in k + 1..Len(scopes) : scopes[i].placeholders \subseteq placeholders
  PROVE  Placeholders \ placeholders \subseteq Placeholders' /\ ScopesKeepJumps
<1>1. /\ DOMAIN scopes = 1..Len(scopes) /\ Len(scopes) \in Nat
      /\ DOMAIN scopes' = 1..k /\ \A i \in 1..k : scopes'[i] = scopes[i]
  BY ScopeFacts DEF Prefix
<1>2. \A i \in DOMAIN scopes : i \in 1..k \/ i \in k + 1..Len(scopes) BY <1>1
<1>3. \A i \in 1..k : i \in DOMAIN scopes BY <1>1
<1>4. Placeholders \ placeholders \subseteq Placeholders'
  BY <1>1, <1>2 DEF Placeholders
<1>5. ScopesKeepJumps
  BY <1>1, <1>3 DEF ScopesKeepJumps, JumpsInv, LoopsStart, FuncsWait
<1> QED BY <1>4, <1>5

(* The end of a loop: its last jump leads back to the condition, and those *)
(* that were waiting lead behind it.                                       *)
LEMMA EndLoopJumps ==
  ASSUME TypeInv, JumpsInv, EndPreTestLoop
  PROVE  JumpsInv'
<1> DEFINE n == Len(scopes)
           defs == GetLocalVarDefsUpToScope(n)
           outer == Prefix(flow, CurrentScope.start)
           start == CurrentScope.start_address
           offset == OffsetTo(start, Here + Len(defs))
           steps == GenerateJumpCmdStart(defs, offset)
<1>1. /\ Generate(steps, CurrentScope.placeholders, Expects(outer, <<>>))
      /\ scopes' = Front(scopes) /\ UNCHANGED <<unit, phase>>
      /\ phase = "compiling" /\ CurrentScope.type = "loop"
  BY DEF EndPreTestLoop, CanEnd
<1>2. /\ n \in DOMAIN scopes /\ CurrentScope = scopes[n] /\ n \in Nat \ {0}
      /\ CurrentScope \in Scope
  BY ScopeFacts
<1>3. start \in 1..Len(code[unit]) + 1 /\ start \in Nat
  BY <1>1, <1>2 DEF JumpsInv, LoopsStart, Scope
<1>4. Here + Len(defs) \in Nat BY <1>2, LeavingJumps
<1>5. offset \in Int BY <1>3, <1>4 DEF OffsetTo
<1>6. /\ steps \in Seq(StepSet)
      /\ \A k \in DOMAIN steps : steps[k].cmd.op \in JumpOp =>
           /\ Len(code[unit]) + k = Here + Len(defs)
           /\ steps[k].cmd.offset = offset
  <2> HIDE DEF offset, n
  <2> QED BY <1>2, <1>5, LeavingJumps
<1>7. scopes' = Prefix(scopes, n - 1) BY <1>1 DEF Front, Prefix
<1>8. Expects(outer, <<>>) \in Layout
  <2>1. outer \in Seq(Def) BY <1>2, DefsTypes
  <2> QED BY <2>1, NextTypes
<1> HIDE DEF steps, outer, defs, start
<1>9. ASSUME NEW k \in DOMAIN steps, steps[k].cmd.op \in JumpOp
      PROVE  /\ steps[k].cmd.offset # Unwritten
             /\ Target(Len(code[unit]) + k, steps[k].cmd) \in 1..Len(code[unit]) + 1
  BY <1>3, <1>4, <1>6, <1>9, OffsetLeads
<1>10. CurrentScope.placeholders \subseteq Placeholders BY <1>2 DEF Placeholders
<1>11. /\ Placeholders \ CurrentScope.placeholders \subseteq Placeholders'
       /\ ScopesKeepJumps
  <2>1. n - 1 \in 0..Len(scopes) BY <1>2
  <2>2. \A i \in n - 1 + 1..Len(scopes) : i = n BY <1>2
  <2>3. \A i \in n - 1 + 1..Len(scopes) :
          scopes[i].placeholders \subseteq CurrentScope.placeholders
    BY <1>2, <2>2
  <2> QED BY <1>7, <2>1, <2>3, CloseJumps
<1> QED BY <1>1, <1>6, <1>8, <1>9, <1>10, <1>11, GenerateJumps

(* Noting a placeholder in a scope that is not a function's. *)
LEMMA NoteJumps ==
  ASSUME JumpsInv, NEW sc \in Seq(Scope), NEW i \in DOMAIN sc, sc[i].type # "func",
         \A j \in DOMAIN sc : j \in DOMAIN scopes /\ sc[j] = scopes[j],
         NEW a, scopes' = [sc EXCEPT ![i].placeholders = @ \cup {a}]
  PROVE  /\ ScopesKeepJumps /\ a \in Placeholders'
         /\ \A j \in DOMAIN sc : sc[j].placeholders \subseteq Placeholders'
<1>1. \A j \in DOMAIN sc : sc[j] \in Scope OBVIOUS
<1>2. /\ DOMAIN scopes' = DOMAIN sc
      /\ \A j \in DOMAIN sc :
           /\ scopes'[j].type = sc[j].type
           /\ scopes'[j].start_address = sc[j].start_address
           /\ sc[j].placeholders \subseteq scopes'[j].placeholders
           /\ j # i => scopes'[j] = sc[j]
      /\ a \in scopes'[i].placeholders
  BY <1>1 DEF Scope
<1>3. ScopesKeepJumps
  BY <1>2 DEF ScopesKeepJumps, JumpsInv, LoopsStart, FuncsWait
<1> QED BY <1>2, <1>3 DEF Placeholders

(* A break leads behind the innermost loop, which notes it. *)
LEMMA BreakJumps ==
  ASSUME TypeInv, JumpsInv, VisitBreak
  PROVE  JumpsInv'
<1>1. PICK i \in DOMAIN scopes : \E insert \in InsertOutcomes(i) :
       /\ LeavesScopes("loop", i)
       /\ \/ insert = "crash" /\ Stop("crashed")
          \/ insert # "crash" /\ ~IsWithin("loop") /\ Stop("rejected")
          \/ /\ insert # "crash" /\ IsWithin("loop")
             /\ LET defs == GetLocalVarDefsUpToScope(i)
                IN  /\ Generate(GenerateJumpCmdStart(defs, Unwritten),
                                {}, Expects(flow, <<>>))
                    /\ scopes' = [scopes EXCEPT ![i].placeholders =
                                    @ \cup {Here + Len(defs)}]
             /\ UNCHANGED <<unit, flow, defined, phase>>
  BY DEF VisitBreak
<1> DEFINE defs == GetLocalVarDefsUpToScope(i)
           steps == GenerateJumpCmdStart(defs, Unwritten)
<1>2. CASE Stop("crashed") \/ Stop("rejected") BY <1>2, StopJumps
<1>3. CASE /\ LeavesScopes("loop", i) /\ IsWithin("loop")
           /\ Generate(steps, {}, Expects(flow, <<>>))
           /\ scopes' = [scopes EXCEPT ![i].placeholders = @ \cup {Here + Len(defs)}]
           /\ UNCHANGED <<unit, flow, defined, phase>>
  <2>1. /\ steps \in Seq(StepSet)
        /\ \A k \in DOMAIN steps : steps[k].cmd.op \in JumpOp =>
             Len(code[unit]) + k = Here + Len(defs)
    BY LeavingJumps
  <2> HIDE DEF steps, defs
  <2>2. scopes[i].type = "loop" BY <1>3 DEF LeavesScopes, IsNearest
  <2>3. /\ ScopesKeepJumps /\ Here + Len(defs) \in Placeholders'
        /\ \A j \in DOMAIN scopes : scopes[j].placeholders \subseteq Placeholders'
    <3>1. scopes \in Seq(Scope) BY DEF TypeInv, TypeOK
    <3> QED BY <1>3, <2>2, <3>1, NoteJumps
  <2>4. Placeholders \ {} \subseteq Placeholders'
    <3>1. Placeholders = UNION {scopes[j].placeholders : j \in DOMAIN scopes}
      BY DEF Placeholders
    <3> QED BY <2>3, <3>1
  <2>5. phase = "compiling" /\ UNCHANGED <<unit, phase>>
    BY <1>3 DEF VisitBreak, CanVisit
  <2>6. Expects(flow, <<>>) \in Layout BY NextTypes DEF TypeInv, TypeOK
  <2> QED BY <1>3, <2>1, <2>3, <2>4, <2>5, <2>6, GenerateJumps
<1> HIDE DEF steps
<1> QED BY <1>1, <1>2, <1>3 DEF steps

(* A continue leads to the condition of the innermost loop. *)
LEMMA ContinueJumps ==
  ASSUME TypeInv, JumpsInv, VisitContinue
  PROVE  JumpsInv'
<1>1. PICK i \in DOMAIN scopes :
        \/ Stop("crashed") \/ Stop("rejected")
        \/ /\ IsNearest("loop", i)
           /\ LET defs == GetLocalVarDefsUpToScope(i)
                  offset == OffsetTo(scopes[i].start_address, Here + Len(defs))
              IN  Generate(GenerateJumpCmdStart(defs, offset),
                           {}, Expects(flow, <<>>))
           /\ UNCHANGED <<unit, flow, scopes, defined, phase>>
  BY DEF VisitContinue, LeavesScopes
<1> DEFINE defs == GetLocalVarDefsUpToScope(i)
           start == scopes[i].start_address
           offset == OffsetTo(start, Here + Len(defs))
           steps == GenerateJumpCmdStart(defs, offset)
<1>2. CASE Stop("crashed") \/ Stop("rejected") BY <1>2, StopJumps
<1>3. CASE /\ IsNearest("loop", i)
           /\ Generate(steps, {}, Expects(flow, <<>>))
           /\ UNCHANGED <<unit, flow, scopes, defined, phase>>
  <2>1. start \in 1..Len(code[unit]) + 1 /\ start \in Nat
    <3>1. scopes[i] \in Scope BY DEF TypeInv, TypeOK
    <3> QED BY <1>3, <3>1 DEF JumpsInv, LoopsStart, IsNearest, Scope
  <2>2. Here + Len(defs) \in Nat BY LeavingJumps
  <2>3. offset \in Int BY <2>1, <2>2 DEF OffsetTo
  <2>4. /\ steps \in Seq(StepSet)
        /\ \A k \in DOMAIN steps : steps[k].cmd.op \in JumpOp =>
             /\ Len(code[unit]) + k = Here + Len(defs)
             /\ steps[k].cmd.offset = offset
    <3> HIDE DEF offset
    <3> QED BY <2>3, LeavingJumps
  <2> HIDE DEF steps, start, defs
  <2>5. ASSUME NEW k \in DOMAIN steps, steps[k].cmd.op \in JumpOp
        PROVE  /\ steps[k].cmd.offset # Unwritten
               /\ Target(Len(code[unit]) + k, steps[k].cmd) \in 1..Len(code[unit]) + 1
    BY <2>1, <2>2, <2>4, <2>5, OffsetLeads
  <2>6. Placeholders' = Placeholders BY <1>3 DEF Placeholders
  <2>7. ScopesKeepJumps
    BY <1>3 DEF ScopesKeepJumps, JumpsInv, LoopsStart, FuncsWait
  <2>8. phase = "compiling" /\ UNCHANGED <<unit, phase>>
    BY <1>3 DEF VisitContinue, CanVisit
  <2>9. Expects(flow, <<>>) \in Layout BY NextTypes DEF TypeInv, TypeOK
  <2> QED BY <1>3, <2>4, <2>5, <2>6, <2>7, <2>8, <2>9, GenerateJumps
<1> HIDE DEF steps
<1> QED BY <1>1, <1>2, <1>3 DEF steps

(* The condition of an if or else-if: the body notes the jump over it. *)
LEMMA IfJumps ==
  ASSUME TypeInv, JumpsInv, VisitIf
  PROVE  JumpsInv'
<1> DEFINE base == IF CurrentScope.type = "branches" THEN scopes
                   ELSE Append(scopes, NewScope("branches", Len(flow), 0, {}))
<1>1. PICK cond \in Exprs(Bool) :
        /\ Generate(Append(cond, Step(JumpIfNot(Unwritten), flow, <<Bool>>)),
                    {}, Expects(flow, <<>>))
        /\ scopes' = base \o <<NewScope("common", Len(flow), 0, {Here + Len(cond)})>>
  BY DEF VisitIf
<1>2. UNCHANGED <<unit, phase>> /\ phase = "compiling"
  BY DEF VisitIf, CanNest, CanVisit
<1> DEFINE steps == Append(cond, Step(JumpIfNot(Unwritten), flow, <<Bool>>))
           s == NewScope("common", Len(flow), 0, {Here + Len(cond)})
           b == NewScope("branches", Len(flow), 0, {})
<1>3. /\ steps \in Seq(StepSet) /\ Here + Len(cond) \in Nat
      /\ \A k \in DOMAIN steps :
           steps[k].cmd.op \in JumpOp => Len(code[unit]) + k = Here + Len(cond)
  BY CondSteps, CondJumps
<1>4. /\ scopes \in Seq(Scope) /\ Len(flow) \in Nat /\ DOMAIN scopes = 1..Len(scopes)
      /\ Len(scopes) \in Nat
  BY ScopeFacts DEF TypeInv, TypeOK
<1>5. /\ s \in Scope /\ s.type = "common" /\ s.placeholders = {Here + Len(cond)}
      /\ b \in Scope /\ b.type = "branches"
  BY <1>3, <1>4 DEF NewScope, Scope, ScopeType
<1>6. Generate(steps, {}, Expects(flow, <<>>)) /\ scopes' = base \o <<s>>
  BY <1>1
<1>7. base = scopes \/ base = Append(scopes, b) OBVIOUS
<1> HIDE DEF steps, s, b, base
<1>8. /\ base \in Seq(Scope) /\ Len(base) \in Nat /\ DOMAIN base = 1..Len(base)
      /\ \A i \in DOMAIN scopes : i \in DOMAIN base /\ base[i] = scopes[i]
      /\ \A i \in DOMAIN base : i \in DOMAIN scopes \/ base[i] = b
  <2>1. CASE base = scopes BY <1>4, <2>1
  <2>2. CASE base = Append(scopes, b)
    <3>1. /\ Append(scopes, b) \in Seq(Scope)
          /\ Len(Append(scopes, b)) = Len(scopes) + 1
          /\ DOMAIN Append(scopes, b) = 1..Len(scopes) + 1
          /\ \A i \in 1..Len(scopes) : Append(scopes, b)[i] = scopes[i]
          /\ Append(scopes, b)[Len(scopes) + 1] = b
      BY <1>4, <1>5, AppendParts
    <3>2. \A i \in 1..Len(scopes) + 1 : i \in 1..Len(scopes) \/ i = Len(scopes) + 1
      BY <1>4
    <3> QED BY <1>4, <2>2, <3>1, <3>2
  <2> QED BY <1>7, <2>1, <2>2
<1>9. /\ DOMAIN scopes' = 1..Len(base) + 1 /\ scopes'[Len(base) + 1] = s
      /\ \A i \in DOMAIN base : scopes'[i] = base[i]
  <2>1. scopes' = Append(base, s) BY <1>5, <1>6, <1>8
  <2>2. base \in Seq(Scope) BY <1>8
  <2> QED BY <1>5, <1>8, <2>1, <2>2, AppendParts
<1>10. \A i \in DOMAIN scopes' :
         \/ i \in DOMAIN scopes /\ scopes'[i] = scopes[i]
         \/ scopes'[i] = b \/ scopes'[i] = s
  <2>1. \A i \in 1..Len(base) + 1 : i \in 1..Len(base) \/ i = Len(base) + 1
    BY <1>8
  <2> QED BY <1>8, <1>9, <2>1
<1>11. ScopesKeepJumps
  BY <1>5, <1>10 DEF ScopesKeepJumps, JumpsInv, LoopsStart, FuncsWait
<1>12. Placeholders \subseteq Placeholders' /\ Here + Len(cond) \in Placeholders'
  <2>1. Len(base) + 1 \in DOMAIN scopes' BY <1>8, <1>9
  <2>2. \A i \in DOMAIN scopes : i \in DOMAIN scopes' /\ scopes'[i] = scopes[i]
    BY <1>8, <1>9
  <2> QED BY <1>5, <1>9, <2>1, <2>2 DEF Placeholders
<1>13. Expects(flow, <<>>) \in Layout BY <1>4, NextTypes DEF TypeInv, TypeOK
<1> QED BY <1>2, <1>3, <1>6, <1>11, <1>12, <1>13, GenerateJumps

(* The beginning of an else notes nothing. *)
LEMMA ElseJumps ==
  ASSUME TypeInv, JumpsInv, VisitElse
  PROVE  JumpsInv'
<1> DEFINE s == NewScope("common", Len(flow), 0, {})
<1>1. scopes' = Append(scopes, s) /\ UNCHANGED <<unit, code, flow, defined, phase, layout>>
  BY DEF VisitElse
<1>2. s.type = "common" /\ s.placeholders = {} /\ s \in Scope
  <2>1. Len(flow) \in Nat BY ScopeFacts
  <2> QED BY <2>1 DEF NewScope, Scope, ScopeType
<1> HIDE DEF s
<1>3. /\ DOMAIN scopes' = 1..Len(scopes) + 1 /\ DOMAIN scopes = 1..Len(scopes)
      /\ \A i \in DOMAIN scopes : scopes'[i] = scopes[i]
      /\ scopes'[Len(scopes) + 1] = s /\ Len(scopes) \in Nat
  <2>1. scopes \in Seq(Scope) /\ DOMAIN scopes = 1..Len(scopes)
    BY ScopeFacts DEF TypeInv, TypeOK
  <2> QED BY <1>1, <1>2, <2>1, AppendParts
<1>4. \A i \in DOMAIN scopes' : i \in DOMAIN scopes \/ i = Len(scopes) + 1
  BY <1>3
<1>5. \A i \in DOMAIN scopes : i \in DOMAIN scopes' BY <1>3
<1>6. Placeholders \subseteq Placeholders' BY <1>3, <1>5 DEF Placeholders
<1>7. JumpsWait' BY <1>1, <1>6 DEF JumpsInv, JumpsWait, IsJump, Aimed, Target
<1>8. LoopsStart' BY <1>1, <1>2, <1>3, <1>4 DEF JumpsInv, LoopsStart
<1>9. FuncsWait' BY <1>2, <1>3, <1>4 DEF JumpsInv, FuncsWait
<1>10. EndsOutside' BY <1>1 DEF VisitElse, EndsOutside
<1> QED BY <1>7, <1>8, <1>9, <1>10 DEF JumpsInv

(* The end of a body that another branch follows: the statement notes the  *)
(* jump to its end, and the condition's leads to the next branch.          *)
LEMMA EndIfBodyJumps ==
  ASSUME TypeInv, JumpsInv, EndIfBody
  PROVE  JumpsInv'
<1> DEFINE k == Len(scopes) - 1
           defs == GetLocalVarDefsUpToScope(Len(scopes))
           outer == Prefix(flow, CurrentScope.start)
           steps == GenerateJumpCmdStart(defs, Unwritten)
           sc == Prefix(scopes, k)
           ph == CurrentScope.placeholders
<1>1. /\ Generate(steps, ph, Expects(outer, <<>>))
      /\ scopes' = [sc EXCEPT ![k].placeholders = @ \cup {Here + Len(defs)}]
      /\ UNCHANGED <<unit, phase>> /\ phase = "compiling"
      /\ CurrentScope.type = "common"
  BY DEF EndIfBody, CanEnd, Front, Prefix
<1>2. /\ Len(scopes) \in DOMAIN scopes /\ CurrentScope = scopes[Len(scopes)]
      /\ DOMAIN scopes = 1..Len(scopes) /\ scopes \in Seq(Scope)
      /\ Len(scopes) \in Nat
  BY ScopeFacts DEF TypeInv, TypeOK
<1>3. /\ steps \in Seq(StepSet)
      /\ \A j \in DOMAIN steps : steps[j].cmd.op \in JumpOp =>
           Len(code[unit]) + j = Here + Len(defs)
  BY <1>2, LeavingJumps
<1>4. Expects(outer, <<>>) \in Layout
  <2>1. outer \in Seq(Def) BY <1>2, DefsTypes
  <2> QED BY <2>1, NextTypes
<1>5. k \in 1..Len(scopes) - 1 /\ scopes[k].type = "branches"
  BY <1>1, BodyFacts
<1>6. /\ sc \in Seq(Scope) /\ DOMAIN sc = 1..k
      /\ \A j \in DOMAIN sc : j \in DOMAIN scopes /\ sc[j] = scopes[j]
  <2>1. k \in 0..Len(scopes) BY <1>2, <1>5
  <2> HIDE DEF k
  <2>2. sc \in Seq(Scope) BY <1>2, <2>1, PrefixType
  <2>3. DOMAIN sc = 1..k /\ \A j \in 1..k : sc[j] = scopes[j]
    BY <1>2, <2>1 DEF Prefix
  <2> QED BY <1>2, <2>1, <2>2, <2>3
<1>7. k \in DOMAIN sc /\ sc[k].type # "func" BY <1>5, <1>6
<1> HIDE DEF steps, defs, outer, sc
<1>8. /\ ScopesKeepJumps /\ Here + Len(defs) \in Placeholders'
      /\ \A j \in DOMAIN sc : sc[j].placeholders \subseteq Placeholders'
  <2> HIDE DEF k
  <2> QED BY <1>1, <1>6, <1>7, NoteJumps
<1>9. Placeholders \ ph \subseteq Placeholders'
  <2>1. \A j \in DOMAIN scopes : j \in DOMAIN sc \/ j = Len(scopes)
    BY <1>2, <1>5, <1>6
  <2>2. \A j \in DOMAIN scopes :
          scopes[j].placeholders \subseteq Placeholders' \cup ph
    BY <1>2, <1>6, <1>8, <2>1
  <2>3. Placeholders = UNION {scopes[j].placeholders : j \in DOMAIN scopes}
    BY DEF Placeholders
  <2> QED BY <2>2, <2>3
<1>10. ph \in SUBSET Placeholders BY <1>2 DEF Placeholders
<1>11. UNCHANGED <<unit, phase>> /\ Generate(steps, ph, Expects(outer, <<>>))
  BY <1>1
<1> QED BY <1>1, <1>3, <1>4, <1>8, <1>9, <1>10, <1>11, GenerateJumps

(* The end of an if statement, where the jumps over its last body and from *)
(* the ends of the others lead.                                            *)
LEMMA EndBranchesJumps ==
  ASSUME TypeInv, JumpsInv, EndBranches
  PROVE  JumpsInv'
<1> DEFINE k == Len(scopes) - 2
           defs == GetLocalVarDefsUpToScope(Len(scopes))
           outer == Prefix(flow, CurrentScope.start)
           branches == scopes[Len(scopes) - 1]
           steps == GenerateDestroyLocalVarCmds(defs, <<>>)
           ph == CurrentScope.placeholders \cup branches.placeholders
<1>1. /\ Generate(steps, ph, Expects(outer, <<>>))
      /\ scopes' = Prefix(scopes, k)
      /\ UNCHANGED <<unit, phase>> /\ phase = "compiling"
      /\ CurrentScope.type = "common"
  BY DEF EndBranches, CanEnd
<1>2. /\ Len(scopes) \in DOMAIN scopes /\ CurrentScope = scopes[Len(scopes)]
      /\ Len(scopes) \in Nat /\ flow \in Seq(Def)
  BY ScopeFacts DEF TypeInv, TypeOK
<1>3. steps \in Seq(StepSet) /\ \A j \in DOMAIN steps : steps[j].cmd.op \notin JumpOp
  <2>1. defs \in Seq(Def) /\ Len(defs) <= Len(flow) BY <1>2, DefsTypes
  <2> HIDE DEF defs
  <2>2. steps \in Seq(PlainSet) BY <1>2, <2>1, DestroyPlain, OperandTypes
  <2> HIDE DEF steps
  <2> QED BY <2>2, PlainSteps
<1>4. Expects(outer, <<>>) \in Layout
  <2>1. outer \in Seq(Def) BY <1>2, DefsTypes
  <2> QED BY <2>1, NextTypes
<1> HIDE DEF steps, defs, outer
<1>5. k \in 1..Len(scopes) - 1 /\ Len(scopes) - 1 \in DOMAIN scopes
  BY <1>1, BodyFacts
<1>6. Placeholders \ ph \subseteq Placeholders' /\ ScopesKeepJumps
  <2>1. k \in 0..Len(scopes) BY <1>2, <1>5
  <2>2. \A i \in k + 1..Len(scopes) : i = Len(scopes) - 1 \/ i = Len(scopes)
    BY <1>2
  <2>3. \A i \in k + 1..Len(scopes) : scopes[i].placeholders \subseteq ph
    BY <1>2, <2>2
  <2> HIDE DEF ph, k
  <2> QED BY <1>1, <2>1, <2>3, CloseJumps
<1>7. ph \in SUBSET Placeholders BY <1>2, <1>5 DEF Placeholders
<1> HIDE DEF ph
<1> QED BY <1>1, <1>3, <1>4, <1>6, <1>7, GenerateJumps

-----------------------------------------------------------------------------
(* Functions, and the end                                                  *)

(* Outside of everything no jump waits. *)
LEMMA OutsideJumps ==
  ASSUME TypeInv, JumpsInv, CurrentScope.type = "global"
  PROVE  /\ Len(scopes) = 1 /\ unit = Main
         /\ \A u \in Unit : \A p \in DOMAIN code[u] :
              IsJump(code[u], p) => Aimed(code[u], p)
<1>1. Len(scopes) = 1
  <2>1. Len(scopes) \in DOMAIN scopes /\ scopes[Len(scopes)].type = "global"
    BY ScopeFacts
  <2> QED BY <2>1 DEF TypeInv, ScopesNest
<1>2. unit = Main BY <1>1 DEF TypeInv, ScopesNest
<1>3. Placeholders = {}
  <2>1. DOMAIN scopes = 1..1 /\ scopes[1].placeholders = {}
    BY <1>1, ScopeFacts DEF TypeInv, ScopesNest
  <2>2. \A i \in 1..1 : i = 1 OBVIOUS
  <2>3. \A i \in DOMAIN scopes : scopes[i].placeholders = {} BY <2>1, <2>2
  <2> QED BY <2>3 DEF Placeholders
<1> QED BY <1>1, <1>2, <1>3 DEF JumpsInv, JumpsWait

(* The beginning of a function. *)
LEMMA FuncDefJumps ==
  ASSUME TypeInv, JumpsInv, VisitFuncDef
  PROVE  JumpsInv'
<1> DEFINE s == NewScope("func", 0, 0, {})
<1>1. /\ scopes' = Append(scopes, s) /\ CurrentScope.type = "global"
      /\ code' = code /\ phase' = phase /\ phase = "compiling"
  BY DEF VisitFuncDef, CanVisit
<1>2. s.type = "func" /\ s.placeholders = {} /\ s \in Scope
  BY DEF NewScope, Scope, ScopeType
<1> HIDE DEF s
<1>3. /\ Len(scopes) = 1
      /\ \A u \in Unit : \A p \in DOMAIN code[u] :
           IsJump(code[u], p) => Aimed(code[u], p)
  BY <1>1, OutsideJumps
<1>4. DOMAIN scopes' = 1..2 /\ scopes'[1] = scopes[1] /\ scopes'[2] = s
  <2>1. scopes \in Seq(Scope) BY DEF TypeInv, TypeOK
  <2>2. /\ DOMAIN scopes' = 1..Len(scopes) + 1
        /\ \A i \in 1..Len(scopes) : scopes'[i] = scopes[i]
        /\ scopes'[Len(scopes) + 1] = s
    BY <1>1, <1>2, <2>1, AppendParts
  <2>3. 1 \in 1..Len(scopes) /\ Len(scopes) + 1 = 2 BY <1>3
  <2> QED BY <2>2, <2>3
<1>5. scopes[1].type = "global" BY DEF TypeInv, ScopesNest
<1>6. \A i \in DOMAIN scopes' : i = 1 \/ i = 2 BY <1>4
<1>7. JumpsWait' BY <1>1, <1>3 DEF JumpsWait, IsJump, Aimed, Target
<1>8. LoopsStart' BY <1>2, <1>4, <1>5, <1>6 DEF LoopsStart
<1>9. FuncsWait' BY <1>2, <1>4, <1>5, <1>6 DEF FuncsWait
<1>10. EndsOutside' BY <1>1 DEF EndsOutside
<1> QED BY <1>7, <1>8, <1>9, <1>10 DEF JumpsInv

(* The end of a function's body, with or without a return generated. *)
LEMMA EndFuncDefJumps ==
  ASSUME TypeInv, JumpsInv, EndFuncDef
  PROVE  JumpsInv'
<1> DEFINE defs == GetLocalVarDefsUpToScope(2)
           steps == GenerateReturnCmd(defs, <<>>)
           next == [Expects(flow, <<>>) EXCEPT !.live = FALSE]
<1>1. \/ Stop("rejected")
      \/ /\ UNCHANGED <<code, layout>> \/ Generate(steps, {}, next)
         /\ scopes' = Front(scopes) /\ unit' = Main /\ phase' = phase
  BY DEF EndFuncDef
<1>2. CASE Stop("rejected") BY <1>2, StopJumps
<1>3. CASE /\ UNCHANGED <<code, layout>> \/ Generate(steps, {}, next)
           /\ scopes' = Front(scopes) /\ unit' = Main /\ phase' = phase
  <2>1. CurrentScope.type = "func" /\ phase = "compiling" BY DEF EndFuncDef, CanEnd
  <2>2. Len(scopes) = 2 /\ unit # Main /\ scopes \in Seq(Scope)
    BY <2>1, ScopeFacts DEF TypeInv, TypeOK, ScopesNest
  <2>3. 2 \in DOMAIN scopes /\ CurrentScope = scopes[2] /\ DOMAIN scopes = 1..2
    BY <2>2, ScopeFacts
  <2>4. /\ scopes[1].type = "global" /\ scopes[1].placeholders = {}
        /\ scopes[2].placeholders = {}
    BY <2>1, <2>3 DEF TypeInv, ScopesNest, JumpsInv, FuncsWait
  <2>5. \A i \in DOMAIN scopes : scopes[i].placeholders = {}
    <3>1. \A i \in 1..2 : i = 1 \/ i = 2 OBVIOUS
    <3> QED BY <2>3, <2>4, <3>1
  <2>6. Placeholders = {} BY <2>5 DEF Placeholders
  <2>7. \A u \in Unit : \A p \in DOMAIN code[u] :
          IsJump(code[u], p) => Aimed(code[u], p)
    BY <2>6 DEF JumpsInv, JumpsWait
  <2>8. steps \in Seq(PlainSet)
    <3>1. defs \in Seq(Def) /\ Len(defs) <= Len(flow) BY <2>3, DefsTypes
    <3> HIDE DEF defs
    <3> QED BY <3>1, ReturnPlain, OperandTypes DEF TypeInv, TypeOK
  <2>9. next \in Layout
    <3>1. flow \in Seq(Def) BY DEF TypeInv, TypeOK
    <3>2. Expects(flow, <<>>) \in Layout BY <3>1, NextTypes
    <3> QED BY <3>2 DEF Layout
  <2> HIDE DEF steps, next
  <2>10. \A u \in Unit : \A p \in DOMAIN code'[u] :
           IsJump(code'[u], p) => Aimed(code'[u], p)
    <3>1. CASE UNCHANGED <<code, layout>> BY <2>7, <3>1
    <3>2. CASE Generate(steps, {}, next)
      <4>1. steps \in Seq(StepSet) /\ \A j \in DOMAIN steps : steps[j].cmd.op \notin JumpOp
        BY <2>8, PlainSteps
      <4>2. /\ \A u \in Unit : u # unit => code'[u] = code[u]
            /\ \A p \in DOMAIN code'[unit] : IsJump(code'[unit], p) =>
                 \/ Aimed(code'[unit], p)
                 \/ p \in Placeholders \ {}
                 \/ \E j \in DOMAIN steps :
                      p = Len(code[unit]) + j /\ code'[unit][p] = steps[j].cmd
        BY <2>9, <3>2, <4>1, Generated DEF JumpsInv
      <4>3. \A p \in DOMAIN code'[unit] :
              IsJump(code'[unit], p) => Aimed(code'[unit], p)
        BY <2>6, <4>1, <4>2 DEF IsJump
      <4>4. ASSUME NEW u \in Unit, u # unit
            PROVE  \A p \in DOMAIN code'[u] : IsJump(code'[u], p) => Aimed(code'[u], p)
        <5>1. code'[u] = code[u] BY <4>2, <4>4
        <5> QED BY <2>7, <5>1
      <4> QED BY <4>3, <4>4
    <3> QED BY <1>3, <3>1, <3>2
  <2>11. DOMAIN scopes' = 1..1 /\ scopes'[1] = scopes[1]
    BY <1>3, <2>2 DEF Front
  <2>12. \A i \in DOMAIN scopes' : i = 1 BY <2>11
  <2>13. JumpsWait' BY <2>10 DEF JumpsWait, IsJump, Aimed, Target
  <2>14. LoopsStart' BY <2>4, <2>11, <2>12 DEF LoopsStart
  <2>15. FuncsWait' BY <2>4, <2>11, <2>12 DEF FuncsWait
  <2>16. EndsOutside' BY <1>3, <2>1 DEF EndsOutside
  <2> QED BY <2>13, <2>14, <2>15, <2>16 DEF JumpsInv
<1> HIDE DEF steps, next
<1> QED BY <1>1, <1>2, <1>3

(* No code, no jumps. *)
LEMMA InitJumps == Init => JumpsInv
<1> SUFFICES ASSUME Init PROVE JumpsInv OBVIOUS
<1>1. \A u \in Unit : DOMAIN code[u] = {} BY DEF Init
<1>2. DOMAIN scopes = 1..1 /\ scopes[1].type = "global" BY DEF Init, NewScope
<1>3. \A i \in DOMAIN scopes : scopes[i].type = "global"
  <2>1. \A i \in 1..1 : i = 1 OBVIOUS
  <2> QED BY <1>2, <2>1
<1>4. phase = "compiling" BY DEF Init
<1> QED BY <1>1, <1>3, <1>4 DEF JumpsInv, JumpsWait, LoopsStart, FuncsWait, EndsOutside

(* Every statement keeps the invariant. *)
LEMMA NextKeepsJumps ==
  ASSUME TypeInv, JumpsInv, Next \/ Ended \/ UNCHANGED vars
  PROVE  JumpsInv'
<1>1. CASE VisitVarDefWithoutInit \/ VisitVarDefWithInit \/ VisitVarDefWithSelfInit
  BY <1>1, VarDefStmtsJumps
<1>2. CASE VisitExprStmt BY <1>2, ExprStmtJumps
<1>3. CASE VisitPreTestLoop BY <1>3, LoopJumps
<1>4. CASE EndPreTestLoop BY <1>4, EndLoopJumps
<1>5. CASE VisitBreak BY <1>5, BreakJumps
<1>6. CASE VisitContinue BY <1>6, ContinueJumps
<1>7. CASE VisitIf BY <1>7, IfJumps
<1>8. CASE EndIfBody BY <1>8, EndIfBodyJumps
<1>9. CASE VisitElse BY <1>9, ElseJumps
<1>10. CASE EndBranches BY <1>10, EndBranchesJumps
<1>11. CASE VisitFuncDef BY <1>11, FuncDefJumps
<1>12. CASE VisitArgDef BY <1>12, ArgDefJumps
<1>13. CASE EndFuncDef BY <1>13, EndFuncDefJumps
<1>14. CASE VisitReturnValue
  <2>1. PICK t \in VarType : \E value \in Exprs(t) : VisitReturn(t, value)
    BY <1>14 DEF VisitReturnValue
  <2>2. PICK value \in Exprs(t) : VisitReturn(t, value) BY <2>1
  <2>3. t \in DataType \cup {Void} BY SomeTypes
  <2>4. value \in Seq(PlainSet) BY <2>3, ExprPlain DEF TypeInv
  <2>5. phase = "compiling" BY <1>14 DEF VisitReturnValue, CanVisit
  <2> QED BY <2>2, <2>3, <2>4, <2>5, ReturnJumps
<1>15. CASE VisitReturnWithoutValue
  <2>1. VisitReturn(Void, <<>>) /\ phase = "compiling"
    BY <1>15 DEF VisitReturnWithoutValue, CanVisit
  <2>2. <<>> \in Seq(PlainSet) OBVIOUS
  <2> QED BY <2>1, <2>2, ReturnJumps
<1>16. CASE EndProgram
  <2>1. Stop("compiled") /\ CurrentScope.type = "global" BY <1>16 DEF EndProgram
  <2> QED BY <2>1, StopJumps
<1>17. CASE Ended \/ UNCHANGED vars
  BY <1>17 DEF Ended, vars, JumpsInv, JumpsWait, LoopsStart, FuncsWait, EndsOutside,
               IsJump, Aimed, Target, Placeholders, CurrentScope
<1> QED BY <1>1, <1>2, <1>3, <1>4, <1>5, <1>6, <1>7, <1>8, <1>9, <1>10, <1>11,
           <1>12, <1>13, <1>14, <1>15, <1>16, <1>17 DEF Next

(* The invariant is enough: a program ends outside of everything. *)
LEMMA JumpsInvImplies == TypeInv /\ JumpsInv => JumpsAreWritten
<1> SUFFICES ASSUME TypeInv, JumpsInv, phase = "compiled" PROVE JumpsAreWritten
  BY DEF JumpsAreWritten
<1>1. CurrentScope.type = "global" BY DEF JumpsInv, EndsOutside
<1>2. \A u \in Unit : \A p \in DOMAIN code[u] :
        IsJump(code[u], p) => Aimed(code[u], p)
  BY <1>1, OutsideJumps
<1>3. defined \cup {Main} \subseteq Unit BY DEF TypeInv, TypeOK, Unit
<1> QED BY <1>2, <1>3 DEF JumpsAreWritten, IsJump, Aimed

(* Whatever program is compiled: when the compiler is done, every break,   *)
(* continue, condition and end of a branch or a loop in the code it leaves *)
(* has been given an offset, and that offset leads to a command of the     *)
(* same function, or to its end.                                           *)
THEOREM JumpsCorrect == Spec => []JumpsAreWritten
<1>1. Init => TypeInv /\ JumpsInv BY InitTypes, InitJumps
<1>2. TypeInv /\ JumpsInv /\ [Next \/ Ended]_vars => TypeInv' /\ JumpsInv'
  BY NextKeepsTypes, NextKeepsJumps
<1> QED BY <1>1, <1>2, JumpsInvImplies, PTL DEF Spec

-----------------------------------------------------------------------------
(* Every command finds what it was compiled for, and functions end.        *)

(* The layout behind the last command of a unit. *)
End(u) == layout[u][Len(code[u]) + 1]

(* What the caller left and arguments were not yet initialized with. *)
ArgsLeft ==
  IF ArgsVisited THEN <<>>
  ELSE Prefix(Reverse(Args[unit]), Len(Args[unit]) - Len(code[unit]))

(* The code ends where the analyzer is, and no function is left open. *)
LayoutEnds ==
  /\ End(unit) = Expects(flow, ArgsLeft)
  /\ unit # Main => End(Main) = [live |-> TRUE, flow |-> <<>>, operands |-> <<>>]
  /\ \A f \in defined : ~End(f).live

(* Arguments come before all else in a function. *)
ArgsFirst == ArgsVisited \/ Len(scopes) = 2

(* Neither main code outside of all bodies nor the list of the branches of *)
(* an if has variables.                                                    *)
FlowFits ==
  \A i \in DOMAIN scopes :
    scopes[i].type \in {"global", "branches"} => ScopeEnd(i) = scopes[i].start

(* What is left behind the end of a scope. *)
Behind(i) == Expects(Prefix(flow, scopes[i].start), <<>>)

(* A jump that waits in a scope brings what is left behind the scope. *)
PlaceholdersFit ==
  \A i \in DOMAIN scopes : \A p \in scopes[i].placeholders :
    layout[unit][p].live => Left(unit, p) = Behind(i)

(* The condition of a loop expects what is left behind the loop. *)
LoopsFit ==
  \A i \in DOMAIN scopes :
    scopes[i].type = "loop" => layout[unit][scopes[i].start_address] = Behind(i)

(* Each unit begins with what its callers leave. *)
EntriesFit == \A u \in Unit : layout[u][1] = Entry(u)[1]

LayoutInv ==
  /\ LayoutEnds /\ ArgsFirst /\ FlowFits /\ PlaceholdersFit /\ LoopsFit
  /\ EntriesFit /\ CodeKeepsLayout

-----------------------------------------------------------------------------
(* Steps that run                                                          *)

(* What the k-th step leaves, when the last of them leaves what is next. *)
After(steps, k, next) == IF k = Len(steps) THEN next ELSE steps[k + 1].layout

(* What is found where the steps begin. *)
First(steps, next) == IF steps = <<>> THEN next ELSE steps[1].layout

(* From address base on, each step leaves what the one after it finds. *)
Runs(u, base, steps, next) ==
  \A k \in DOMAIN steps :
    steps[k].layout.live =>
      Executes(u, base + k, steps[k].cmd, steps[k].layout, After(steps, k, next))

(* Steps run one after another. *)
LEMMA RunsConcat ==
  ASSUME NEW u, NEW base \in Nat, NEW a \in Seq(StepSet), NEW b \in Seq(StepSet),
         NEW next, Runs(u, base, a, First(b, next)), Runs(u, base + Len(a), b, next)
  PROVE  Runs(u, base, a \o b, next) /\ First(a \o b, next) = First(a, First(b, next))
<1> DEFINE c == a \o b
<1>1. /\ c \in Seq(StepSet) /\ Len(c) = Len(a) + Len(b)
      /\ \A k \in DOMAIN a : c[k] = a[k]
      /\ \A k \in DOMAIN b : c[Len(a) + k] = b[k]
  BY Concat
<1>2. /\ DOMAIN c = 1..Len(c) /\ DOMAIN a = 1..Len(a) /\ DOMAIN b = 1..Len(b)
      /\ Len(a) \in Nat /\ Len(b) \in Nat
  BY <1>1
<1>3. (a = <<>> <=> Len(a) = 0) /\ (b = <<>> <=> Len(b) = 0) /\ (c = <<>> <=> Len(c) = 0)
  BY <1>1
<1> HIDE DEF c
<1>4. ASSUME NEW k \in DOMAIN c, c[k].layout.live
      PROVE  Executes(u, base + k, c[k].cmd, c[k].layout, After(c, k, next))
  <2>1. CASE k \in 1..Len(a)
    <3>1. After(c, k, next) = After(a, k, First(b, next))
      <4>1. CASE k < Len(a)
        <5>1. k + 1 \in DOMAIN a /\ k # Len(c) /\ k # Len(a)
          BY <1>1, <1>2, <2>1, <4>1
        <5> QED BY <1>1, <5>1 DEF After
      <4>2. CASE k = Len(a) /\ Len(b) = 0
        BY <1>1, <1>2, <1>3, <4>2 DEF After, First
      <4>3. CASE k = Len(a) /\ Len(b) > 0
        <5>1. 1 \in DOMAIN b /\ k # Len(c) /\ k + 1 = Len(a) + 1
          <6>1. 1 \in DOMAIN b BY <1>2, <4>3
          <6>2. k # Len(c)
            <7>1. Len(c) = Len(a) + Len(b) BY <1>1
            <7>2. Len(a) \in Nat /\ Len(b) \in Nat BY <1>2
            <7> HIDE DEF c
            <7> QED BY <4>3, <7>1, <7>2
          <6> QED BY <4>3, <6>1, <6>2
        <5>3. b # <<>> BY <1>2, <1>3, <4>3
        <5>2. c[k + 1] = b[1] BY <1>1, <5>1
        <5> QED BY <4>3, <5>1, <5>2, <5>3 DEF After, First
      <4> QED BY <1>2, <2>1, <4>1, <4>2, <4>3
    <3> QED BY <1>1, <1>2, <1>4, <2>1, <3>1 DEF Runs
  <2>2. CASE k \notin 1..Len(a)
    <3>1. k - Len(a) \in DOMAIN b /\ k = Len(a) + (k - Len(a))
      BY <1>1, <1>2, <2>2
    <3>2. PICK j \in DOMAIN b : k = Len(a) + j BY <3>1
    <3>3. c[k] = b[j] BY <1>1, <3>2
    <3>4. After(c, k, next) = After(b, j, next)
      <4>1. CASE j = Len(b) BY <1>1, <3>2, <4>1 DEF After
      <4>2. CASE j # Len(b)
        <5>1. j + 1 \in DOMAIN b /\ k # Len(c) /\ k + 1 = Len(a) + (j + 1)
          BY <1>1, <1>2, <3>2, <4>2
        <5>2. c[k + 1] = b[j + 1] BY <1>1, <5>1
        <5> QED BY <4>2, <5>1, <5>2 DEF After
      <4> QED BY <4>1, <4>2
    <3>5. base + k = (base + Len(a)) + j BY <1>2, <3>2
    <3> QED BY <1>4, <3>3, <3>4, <3>5 DEF Runs
  <2> QED BY <2>1, <2>2
<1>5. First(c, next) = First(a, First(b, next))
  <2>1. CASE Len(a) = 0
    <3>1. Len(b) > 0 => 1 \in DOMAIN b /\ c[1] = b[1]
      <4>1. Len(b) > 0 => 1 \in DOMAIN b BY <1>2
      <4> QED BY <1>1, <2>1, <4>1
    <3> QED BY <1>1, <1>2, <1>3, <2>1, <3>1 DEF First
  <2>2. CASE Len(a) # 0
    <3>1. 1 \in DOMAIN a /\ Len(c) # 0 BY <1>1, <1>2, <2>2
    <3> QED BY <1>1, <1>3, <2>2, <3>1 DEF First
  <2> QED BY <2>1, <2>2
<1> QED BY <1>4, <1>5 DEF Runs, c

(* One step runs. *)
LEMMA RunsOne ==
  ASSUME NEW u, NEW base \in Nat, NEW step, NEW next,
         step.layout.live => Executes(u, base + 1, step.cmd, step.layout, next)
  PROVE  Runs(u, base, <<step>>, next) /\ First(<<step>>, next) = step.layout
<1>1. /\ DOMAIN <<step>> = 1..1 /\ Len(<<step>>) = 1 /\ <<step>>[1] = step
      /\ <<step>> # <<>>
  OBVIOUS
<1>2. \A k \in 1..1 : k = 1 OBVIOUS
<1> QED BY <1>1, <1>2 DEF Runs, First, After

(* Steps that were generated, and a last one. *)
LEMMA RunsAppend ==
  ASSUME NEW u, NEW base \in Nat, NEW a \in Seq(StepSet), NEW step \in StepSet, NEW next,
         Runs(u, base, a, step.layout),
         step.layout.live =>
           Executes(u, base + Len(a) + 1, step.cmd, step.layout, next)
  PROVE  /\ Runs(u, base, Append(a, step), next)
         /\ First(Append(a, step), next) = First(a, step.layout)
<1> DEFINE b == <<step>>
<1>1. Len(a) \in Nat OBVIOUS
<1>2. base + Len(a) \in Nat BY <1>1
<1>3. Runs(u, base + Len(a), b, next) /\ First(b, next) = step.layout
  BY <1>2, RunsOne
<1>4. b \in Seq(StepSet) BY TupleType
<1>5. Append(a, step) = a \o b OBVIOUS
<1> HIDE DEF b
<1> QED BY <1>3, <1>4, <1>5, RunsConcat

-----------------------------------------------------------------------------
(* What the commands do                                                    *)

(* The parts of what a command finds. *)
LEMMA ExpectsParts ==
  /\ \A f, operands : /\ Expects(f, operands).live = Live
                      /\ Expects(f, operands).flow = f
                      /\ Expects(f, operands).operands = operands
  /\ Live => \A f, operands :
       Expects(f, operands) = [live |-> TRUE, flow |-> f, operands |-> operands]
BY DEF Expects

(* Where execution gets to, a value is loaded onto the operands. *)
LEMMA LoadExecutes ==
  ASSUME Live, NEW u, NEW p, NEW f, NEW operands
  PROVE  /\ \A t : Executes(u, p, LoadValue(t), Expects(f, operands),
                             Expects(f, Append(operands, t)))
         /\ \A g : Executes(u, p, LoadFuncValue(g), Expects(f, operands),
                             Expects(f, Append(operands, g)))
<1>1. /\ \A o : /\ Expects(f, o).flow = f /\ Expects(f, o).operands = o
                /\ Expects(f, o) = [live |-> TRUE, flow |-> f, operands |-> o]
  BY ExpectsParts
<1> QED BY <1>1 DEF Executes, LoadValue, LoadFuncValue

(* A variable is loaded that lies in the frame, or that is being defined. *)
LEMMA LoadVarExecutes ==
  ASSUME Live, NEW u, NEW p \in Nat, NEW f, NEW operands, NEW d \in Def,
         d.at > p \/ d \in ToSet(f)
  PROVE  Executes(u, p, LoadLocalVarValue(d), Expects(f, operands),
                  Expects(f, Append(operands, d.type)))
<1>1. \A o : /\ Expects(f, o).flow = f /\ Expects(f, o).operands = o
             /\ Expects(f, o) = [live |-> TRUE, flow |-> f, operands |-> o]
  BY ExpectsParts
<1>2. [at |-> d.at, type |-> d.type, index |-> d.index] = d BY DEF Def
<1>3. /\ LoadLocalVarValue(d).op = "LoadLocalVarValue"
      /\ LoadLocalVarValue(d).def = d.at /\ LoadLocalVarValue(d).type = d.type
      /\ LoadLocalVarValue(d).index = d.index
  BY DEF LoadLocalVarValue
<1> QED BY <1>1, <1>2, <1>3 DEF Executes

(* A variable is created behind those of the frame. *)
LEMMA CreateExecutes ==
  ASSUME Live, NEW u, NEW p, NEW f, NEW t
  PROVE  LET d == [at |-> p, type |-> t, index |-> SlotsCount(f)] IN
         /\ \A o : Executes(u, p, CreateLocalVar(t), Expects(f, o),
                            Expects(Append(f, d), o))
         /\ \A o, left : Pops(o, t, left) =>
              Executes(u, p, CreateAndInitLocalVar(t), Expects(f, o),
                       Expects(Append(f, d), left))
<1>1. \A g, o : /\ Expects(g, o).flow = g /\ Expects(g, o).operands = o
                /\ Expects(g, o).live
                /\ Expects(g, o) = [live |-> TRUE, flow |-> g, operands |-> o]
  BY ExpectsParts
<1>2. /\ CreateLocalVar(t).op = "CreateLocalVar" /\ CreateLocalVar(t).type = t
      /\ CreateAndInitLocalVar(t).op = "CreateAndInitLocalVar"
      /\ CreateAndInitLocalVar(t).type = t
  BY DEF CreateLocalVar, CreateAndInitLocalVar
<1> DEFINE d == [at |-> p, type |-> t, index |-> SlotsCount(f)]
<1>3. ASSUME NEW o
      PROVE  Executes(u, p, CreateLocalVar(t), Expects(f, o), Expects(Append(f, d), o))
  BY <1>1, <1>2 DEF Executes
<1>4. ASSUME NEW o, NEW left, Pops(o, t, left)
      PROVE  Executes(u, p, CreateAndInitLocalVar(t), Expects(f, o),
                      Expects(Append(f, d), left))
  BY <1>1, <1>2, <1>4 DEF Executes
<1> QED BY <1>3, <1>4

(* The last variable of the frame is destroyed. *)
LEMMA DestroyExecutes ==
  ASSUME Live, NEW u, NEW p, NEW f, NEW o, NEW t, f # <<>>, Last(f).type = t
  PROVE  Executes(u, p, DestroyLocalVar(t), Expects(f, o), Expects(Front(f), o))
<1>1. \A g : /\ Expects(g, o).flow = g /\ Expects(g, o).operands = o
             /\ Expects(g, o) = [live |-> TRUE, flow |-> g, operands |-> o]
  BY ExpectsParts
<1>2. /\ DestroyLocalVar(t).op = "DestroyLocalVar" /\ DestroyLocalVar(t).type = t
  BY DEF DestroyLocalVar
<1> QED BY <1>1, <1>2 DEF Executes

(* An operand is unloaded, added to the one below, or decides a jump. *)
LEMMA PopExecutes ==
  ASSUME Live, NEW u, NEW p, NEW f, NEW o, NEW left, NEW t, Pops(o, t, left)
  PROVE  /\ Executes(u, p, Unload(t), Expects(f, o), Expects(f, left))
         /\ left # <<>> /\ Last(left) = t =>
              Executes(u, p, Sum(t), Expects(f, o), Expects(f, left))
         /\ t = Bool => \A offset :
              Executes(u, p, JumpIfNot(offset), Expects(f, o), Expects(f, left))
<1>1. \A g : /\ Expects(f, g).flow = f /\ Expects(f, g).operands = g
             /\ Expects(f, g).live
  BY ExpectsParts
<1>2. /\ Unload(t).op = "Unload" /\ Unload(t).type = t
      /\ Sum(t).op = "Sum" /\ Sum(t).type = t
      /\ \A offset : JumpIfNot(offset).op = "JumpIfNot"
  BY DEF Unload, Sum, JumpIfNot
<1> QED BY <1>1, <1>2 DEF Executes

(* A call takes the arguments and leaves the result. *)
LEMMA CallExecutes ==
  ASSUME Live, NEW u, NEW p, NEW f, NEW g \in Func, NEW below \in OperandSeq
  PROVE  Executes(u, p, Call, Expects(f, Append(below \o Reverse(Args[g]), g)),
                  Expects(f, below \o Operands(Result[g])))
<1> DEFINE args == Reverse(Args[g])
           o == Append(below \o args, g)
<1>1. args \in Seq(DataType) /\ args \in OperandSeq
  <2>1. args \in Seq(DataType) BY ReverseType, FuncsAssumption
  <2> QED BY <2>1 DEF OperandSeq
<1> HIDE DEF args
<1>2. o # <<>> /\ Last(o) = g
  <2>1. below \o args \in OperandSeq BY <1>1 DEF OperandSeq
  <2> DEFINE s == below \o args
  <2>2. s \in OperandSeq /\ g \in DataType \cup Func BY <2>1
  <2> HIDE DEF s
  <2>3. /\ Len(Append(s, g)) = Len(s) + 1 /\ Append(s, g)[Len(s) + 1] = g
        /\ Len(s) \in Nat
    BY <2>2, AppendParts DEF OperandSeq
  <2>4. o = Append(s, g) BY DEF s
  <2>5. Append(s, g) # <<>> BY <2>3
  <2> QED BY <2>3, <2>4, <2>5 DEF Last
<1>3. Len(below) \in 0..Len(o) /\ Prefix(o, Len(below)) = below
  <2>1. below \in OperandSeq /\ g \in DataType \cup Func OBVIOUS
  <2> QED BY <1>1, <2>1 DEF Prefix, OperandSeq
<1>4. below \in {Prefix(o, k) : k \in 0..Len(o)} BY <1>3
<1> HIDE DEF o
<1>5. \A h : /\ Expects(f, h).flow = f /\ Expects(f, h).operands = h
             /\ Expects(f, h) = [live |-> TRUE, flow |-> f, operands |-> h]
  BY ExpectsParts
<1>6. o = Append(below \o args, g) BY DEF o
<1>7. Executes(u, p, Call, Expects(f, o), Expects(f, below \o Operands(Result[g])))
  BY <1>2, <1>4, <1>5, <1>6 DEF Executes, Call, args
<1> QED BY <1>7 DEF o, args

(* A return finds the result and no variable. *)
LEMMA ReturnExecutes ==
  ASSUME NEW u, u # Main, NEW p, NEW next
  PROVE  Executes(u, p, Return, Expects(<<>>, Operands(Result[u])), next)
BY ExpectsParts DEF Executes, Return

(* A direct jump changes nothing, and no jump looks at its offset here. *)
LEMMA JumpExecutes ==
  ASSUME NEW u, NEW p, NEW before, NEW after
  PROVE  /\ \A offset : Executes(u, p, DirectJump(offset), before, after)
         /\ \A cmd, new : /\ cmd.op \in JumpOp /\ new.op = cmd.op
                          /\ Executes(u, p, cmd, before, after)
                         => Executes(u, p, new, before, after)
BY DEF Executes, DirectJump, JumpOp

-----------------------------------------------------------------------------
(* Expressions run                                                         *)

(* A prefix grows by one element; none and all of them. *)
LEMMA PrefixGrows ==
  ASSUME NEW S, NEW s \in Seq(S)
  PROVE  /\ Prefix(s, 0) = <<>> /\ Prefix(s, Len(s)) = s
         /\ \A i \in 1..Len(s) : Append(Prefix(s, i - 1), s[i]) = Prefix(s, i)
<1>1. Prefix(s, 0) = <<>> BY DEF Prefix
<1>2. Prefix(s, Len(s)) = s BY DEF Prefix
<1>3. ASSUME NEW i \in 1..Len(s) PROVE Append(Prefix(s, i - 1), s[i]) = Prefix(s, i)
  BY DEF Prefix
<1> QED BY <1>1, <1>2, <1>3

(* Operands above others. *)
LEMMA Above ==
  ASSUME NEW S, NEW below \in Seq(S), NEW s \in Seq(S), NEW t \in S
  PROVE  below \o Append(s, t) = Append(below \o s, t) /\ below \o <<>> = below
OBVIOUS

(* Sequences with the same elements are the same. *)
LEMMA SameElements ==
  ASSUME NEW S, NEW a \in Seq(S), NEW b \in Seq(S), Len(a) = Len(b),
         \A i \in 1..Len(a) : a[i] = b[i]
  PROVE  a = b
OBVIOUS

(* Two operands of the same type. *)
LEMMA TwoAlike ==
  ASSUME NEW S, NEW t \in S
  PROVE  <<t>> \o <<t>> = <<t, t>>
<1> DEFINE a == <<t>> \o <<t>>
           b == <<t, t>>
<1>1. /\ a \in Seq(S) /\ Len(a) = 2 /\ a[1] = t /\ a[2] = t
      /\ b \in Seq(S) /\ Len(b) = 2 /\ b[1] = t /\ b[2] = t
  OBVIOUS
<1> HIDE DEF a, b
<1>2. \A i \in 1..2 : i = 1 \/ i = 2 OBVIOUS
<1>3. a = b BY <1>1, <1>2, SameElements
<1> QED BY <1>3 DEF a, b

(* The arguments of a call are loaded one by one. *)
LEMMA ArgsRun ==
  ASSUME NEW u, NEW base \in Nat, NEW below \in OperandSeq, NEW args \in Seq(DataType)
  PROVE  LET loads == [i \in 1..Len(args) |->
                         Step(LoadValue(args[i]), flow, below \o Prefix(args, i - 1))]
             next == Expects(flow, below \o args)
         IN  Runs(u, base, loads, next) /\ First(loads, next) = Expects(flow, below)
<1> DEFINE loads == [i \in 1..Len(args) |->
                       Step(LoadValue(args[i]), flow, below \o Prefix(args, i - 1))]
           next == Expects(flow, below \o args)
           above(n) == Expects(flow, below \o Prefix(args, n))
<1>1. /\ Len(args) \in Nat /\ Len(loads) = Len(args) /\ DOMAIN loads = 1..Len(args)
      /\ loads = <<>> <=> Len(args) = 0
  OBVIOUS
<1>11. \A i \in 1..Len(args) : /\ loads[i].cmd = LoadValue(args[i])
                               /\ loads[i].layout = above(i - 1)
  BY DEF Step
<1>2. /\ Prefix(args, 0) = <<>> /\ Prefix(args, Len(args)) = args
      /\ \A i \in 1..Len(args) : Append(Prefix(args, i - 1), args[i]) = Prefix(args, i)
  BY PrefixGrows
<1>3. next = above(Len(args)) BY <1>2
<1>4. above(0) = Expects(flow, below)
  <2>1. below \o <<>> = below BY DEF OperandSeq
  <2> QED BY <1>2, <2>1
<1>5. \A i \in 1..Len(args) :
        Expects(flow, Append(below \o Prefix(args, i - 1), args[i])) = above(i)
  <2> TAKE i \in 1..Len(args)
  <2> DEFINE s == Prefix(args, i - 1)
             S == DataType \cup Func
  <2>1. s \in Seq(S) /\ args[i] \in S /\ below \in Seq(S)
    <3>1. i - 1 \in 0..Len(args) BY <1>1
    <3>2. s \in Seq(DataType) BY <3>1, PrefixType
    <3> QED BY <3>2 DEF OperandSeq
  <2>2. Append(s, args[i]) = Prefix(args, i) BY <1>2
  <2> HIDE DEF s, S
  <2>3. below \o Append(s, args[i]) = Append(below \o s, args[i]) BY <2>1, Above
  <2> QED BY <2>2, <2>3 DEF s
<1>6. \A i \in 1..Len(args) : loads[i].layout.live => Live BY <1>11, ExpectsParts
<1>7. ASSUME NEW i \in 1..Len(args), loads[i].layout.live
      PROVE  Executes(u, base + i, loads[i].cmd, loads[i].layout, above(i))
  <2>1. Executes(u, base + i, LoadValue(args[i]), above(i - 1),
                 Expects(flow, Append(below \o Prefix(args, i - 1), args[i])))
    <3> DEFINE o == below \o Prefix(args, i - 1)
    <3>1. Live BY <1>6, <1>7
    <3> HIDE DEF o
    <3>2. Executes(u, base + i, LoadValue(args[i]), Expects(flow, o),
                   Expects(flow, Append(o, args[i])))
      BY <3>1, LoadExecutes
    <3> QED BY <3>2 DEF o
  <2> QED BY <1>11, <1>5, <2>1
<1> HIDE DEF loads, next, above
<1>8. ASSUME NEW i \in 1..Len(args) PROVE After(loads, i, next) = above(i)
  <2>1. CASE i = Len(args) BY <1>1, <1>3, <2>1 DEF After
  <2>2. CASE i # Len(args)
    <3>1. i + 1 \in 1..Len(args)
      <4>1. Len(args) \in Nat BY <1>1
      <4> QED BY <2>2, <4>1
    <3>2. i # Len(loads) BY ONLY Zenon, <1>1, <2>2
    <3>3. i + 1 - 1 = i OBVIOUS
    <3>4. loads[i + 1].layout = above(i) BY <1>11, <3>1, <3>3
    <3> QED BY <3>2, <3>4 DEF After
  <2> QED BY <2>1, <2>2
<1>9. Runs(u, base, loads, next) BY <1>1, <1>7, <1>8 DEF Runs
<1>10. First(loads, next) = above(0)
  <2>1. CASE Len(args) = 0 BY <1>1, <1>3, <2>1 DEF First
  <2>2. CASE Len(args) # 0
    <3>1. 1 \in 1..Len(args) /\ 1 - 1 = 0 BY <1>1, <2>2
    <3>2. loads[1].layout = above(0) BY <1>11, <3>1
    <3> QED BY <1>1, <2>2, <3>2 DEF First
  <2> QED BY <2>1, <2>2
<1> QED BY <1>4, <1>9, <1>10 DEF loads, next

(* A call puts its result above the operands that wait. *)
LEMMA CallRuns ==
  ASSUME flow \in Seq(Def), NEW u, NEW base \in Nat, NEW f \in Func,
         NEW below \in OperandSeq
  PROVE  LET next == Expects(flow, below \o Operands(Result[f])) IN
         /\ Runs(u, base, VisitCall(f, below), next)
         /\ First(VisitCall(f, below), next) = Expects(flow, below)
<1> DEFINE args == Reverse(Args[f])
           loads == [i \in 1..Len(args) |->
                       Step(LoadValue(args[i]), flow, below \o Prefix(args, i - 1))]
           full == below \o args
           func == Step(LoadFuncValue(f), flow, full)
           call == Step(Call, flow, Append(full, f))
           next == Expects(flow, below \o Operands(Result[f]))
<1>1. args \in Seq(DataType) BY ReverseType, FuncsAssumption
<1>2. full \in OperandSeq BY <1>1 DEF OperandSeq
<1>3. Append(full, f) \in OperandSeq BY <1>2 DEF OperandSeq
<1>4. func \in StepSet /\ call \in StepSet BY <1>2, <1>3, CmdTypes, StepType
<1>5. loads \in Seq(StepSet)
  <2>1. ASSUME NEW i \in 1..Len(args) PROVE loads[i] \in StepSet
    <3>1. Prefix(args, i - 1) \in Seq(DataType) BY <1>1, PrefixType
    <3>2. below \o Prefix(args, i - 1) \in OperandSeq BY <3>1 DEF OperandSeq
    <3>3. args[i] \in DataType BY <1>1
    <3> QED BY <3>2, <3>3, CmdTypes, StepType
  <2> QED BY <1>1, <2>1
<1>6. /\ func.cmd = LoadFuncValue(f) /\ func.layout = Expects(flow, full)
      /\ call.cmd = Call /\ call.layout = Expects(flow, Append(full, f))
      /\ (func.layout.live => Live) /\ (call.layout.live => Live)
  BY ExpectsParts DEF Step
<1>7. /\ \A p : func.layout.live =>
              Executes(u, p, func.cmd, func.layout, call.layout)
      /\ \A p : call.layout.live => Executes(u, p, call.cmd, call.layout, next)
  BY <1>6, LoadExecutes, CallExecutes
<1>8. /\ Runs(u, base, loads, Expects(flow, full))
      /\ First(loads, Expects(flow, full)) = Expects(flow, below)
  BY <1>1, ArgsRun
<1>9. VisitCall(f, below) = loads \o <<func, call>> BY DEF VisitCall
<1> HIDE DEF args, loads, full, func, call, next
<1>10. loads \o <<func, call>> = Append(Append(loads, func), call)
  BY <1>4, <1>5
<1>11. /\ Append(loads, func) \in Seq(StepSet)
       /\ Runs(u, base, Append(loads, func), call.layout)
       /\ First(Append(loads, func), call.layout) = Expects(flow, below)
  BY <1>4, <1>5, <1>6, <1>7, <1>8, RunsAppend, AppendParts
<1>12. /\ Runs(u, base, Append(Append(loads, func), call), next)
       /\ First(Append(Append(loads, func), call), next) = Expects(flow, below)
  <2> DEFINE c == Append(loads, func)
  <2>1. /\ c \in Seq(StepSet) /\ Runs(u, base, c, call.layout)
        /\ First(c, call.layout) = Expects(flow, below)
    BY <1>11
  <2> HIDE DEF c
  <2>2. /\ Runs(u, base, Append(c, call), next)
        /\ First(Append(c, call), next) = Expects(flow, below)
    <3>1. call.layout.live =>
            Executes(u, base + Len(c) + 1, call.cmd, call.layout, next)
      BY <1>7
    <3>2. call \in StepSet BY <1>4
    <3>3. c \in Seq(StepSet) /\ Runs(u, base, c, call.layout) BY <2>1
    <3>4. /\ Runs(u, base, Append(c, call), next)
          /\ First(Append(c, call), next) = First(c, call.layout)
      BY <3>1, <3>2, <3>3, RunsAppend
    <3> QED BY <2>1, <3>4
  <2> QED BY <2>2 DEF c
<1> QED BY <1>9, <1>10, <1>12 DEF next

(* Any expression leaves its value, and nothing else. *)
LEMMA ExprRuns ==
  ASSUME TypeOK, NEW u, NEW base \in Nat, NEW t \in DataType \cup {Void},
         NEW e \in Exprs(t)
  PROVE  /\ Runs(u, base, e, Expects(flow, Operands(t)))
         /\ First(e, Expects(flow, Operands(t))) = Expects(flow, <<>>)
<1> DEFINE fine(s, next) == /\ Runs(u, base, s, next)
                            /\ First(s, next) = Expects(flow, <<>>)
<1>1. flow \in Seq(Def) /\ base + 1 \in Nat BY DEF TypeOK
<1>2. ASSUME t # Void PROVE fine(Literal(t), Expects(flow, <<t>>))
  <2> DEFINE s == Step(LoadValue(t), flow, <<>>)
  <2>1. s.cmd = LoadValue(t) /\ s.layout = Expects(flow, <<>>) BY DEF Step
  <2>2. s.layout.live => Live BY <2>1, ExpectsParts
  <2>3. Append(<<>>, t) = <<t>> OBVIOUS
  <2>4. Live => Executes(u, base + 1, LoadValue(t), Expects(flow, <<>>),
                         Expects(flow, <<t>>))
    <3>1. Live => Executes(u, base + 1, LoadValue(t), Expects(flow, <<>>),
                           Expects(flow, Append(<<>>, t)))
      BY LoadExecutes
    <3> QED BY <2>3, <3>1
  <2> HIDE DEF s
  <2>5. fine(<<s>>, Expects(flow, <<t>>)) BY <2>1, <2>2, <2>4, RunsOne
  <2> QED BY <2>5 DEF Literal, s
<1>3. ASSUME NEW d \in ToSet(flow), d.type = t PROVE fine(VisitId(d), Expects(flow, <<t>>))
  <2> DEFINE s == Step(LoadLocalVarValue(d), flow, <<>>)
  <2>1. s.cmd = LoadLocalVarValue(d) /\ s.layout = Expects(flow, <<>>) BY DEF Step
  <2>2. s.layout.live => Live BY <2>1, ExpectsParts
  <2>3. Append(<<>>, t) = <<t>> OBVIOUS
  <2>4. d \in Def BY <1>1 DEF ToSet
  <2>5. Live => Executes(u, base + 1, LoadLocalVarValue(d), Expects(flow, <<>>),
                         Expects(flow, <<t>>))
    <3>1. Live => Executes(u, base + 1, LoadLocalVarValue(d), Expects(flow, <<>>),
                           Expects(flow, Append(<<>>, d.type)))
      BY <1>1, <2>4, LoadVarExecutes
    <3> QED BY <1>3, <2>3, <3>1
  <2> HIDE DEF s
  <2>6. fine(<<s>>, Expects(flow, <<t>>)) BY <2>1, <2>2, <2>5, RunsOne
  <2> QED BY <2>6 DEF VisitId, s
<1>4. ASSUME NEW f \in Func, Result[f] = t
      PROVE  fine(VisitCall(f, <<>>), Expects(flow, Operands(t)))
  <2>1. <<>> \o Operands(t) = Operands(t) BY DEF Operands
  <2> HIDE DEF fine
  <2>2. <<>> \in OperandSeq BY OperandTypes
  <2>3. fine(VisitCall(f, <<>>), Expects(flow, <<>> \o Operands(Result[f])))
    BY <1>1, <2>2, CallRuns DEF fine
  <2> QED BY <1>4, <2>1, <2>3
<1>5. ASSUME NEW f \in Func, Result[f] = t, t # Void
      PROVE  fine(VisitSum(t, f), Expects(flow, <<t>>))
  <2> DEFINE a == Literal(t)
             b == VisitCall(f, <<t>>)
             s == Step(Sum(t), flow, <<t, t>>)
             next == Expects(flow, <<t>>)
  <2>1. t \in DataType /\ Operands(t) = <<t>> /\ <<t>> \o <<t>> = <<t, t>>
    <3>1. t \in DataType BY <1>5
    <3>2. Operands(t) = <<t>> BY <1>5 DEF Operands
    <3>3. <<t>> \o <<t>> = <<t, t>> BY TwoAlike
    <3> QED BY <3>1, <3>2, <3>3
  <2>2. a \in Seq(StepSet) /\ b \in Seq(StepSet) /\ s \in StepSet /\ Len(a) = 1
    <3>1. <<t, t>> \in OperandSeq BY <2>1 DEF OperandSeq
    <3>2. Len(Literal(t)) = 1 BY DEF Literal
    <3> QED BY <1>1, <2>1, <3>1, <3>2, LiteralTypes, CallTypes, OperandTypes,
               CmdTypes, StepType
  <2>3. s.cmd = Sum(t) /\ s.layout = Expects(flow, <<t, t>>) /\ (s.layout.live => Live)
    BY ExpectsParts DEF Step
  <2>4. Runs(u, base + 1, b, s.layout) /\ First(b, s.layout) = Expects(flow, <<t>>)
    <3>1. <<t>> \in OperandSeq BY <2>1, OperandTypes
    <3>2. Operands(Result[f]) = <<t>> BY <1>5, <2>1
    <3>3. <<t>> \o Operands(Result[f]) = <<t, t>> BY <2>1, <3>2
    <3>4. LET last == Expects(flow, <<t>> \o Operands(Result[f])) IN
          Runs(u, base + 1, b, last) /\ First(b, last) = Expects(flow, <<t>>)
      BY <1>1, <3>1, CallRuns
    <3> QED BY <2>3, <3>3, <3>4
  <2>5. fine(a, Expects(flow, <<t>>)) BY <1>2, <1>5
  <2>6. Pops(<<t, t>>, t, <<t>>) /\ <<t>> # <<>> /\ Last(<<t>>) = t
    BY DEF Pops, Last, Front
  <2>7. \A p : s.layout.live => Executes(u, p, s.cmd, s.layout, next)
    BY <2>3, <2>6, PopExecutes
  <2> HIDE DEF a, b, s, next
  <2>8. fine(a \o b, s.layout) /\ a \o b \in Seq(StepSet)
    <3>1. Runs(u, base, a, First(b, s.layout)) /\ Runs(u, base + Len(a), b, s.layout)
      BY <2>2, <2>4, <2>5
    <3>2. First(a, First(b, s.layout)) = Expects(flow, <<>>) BY <2>4, <2>5
    <3>3. /\ Runs(u, base, a \o b, s.layout)
          /\ First(a \o b, s.layout) = First(a, First(b, s.layout))
      <4>1. a \in Seq(StepSet) /\ b \in Seq(StepSet) BY <2>2
      <4> HIDE DEF fine
      <4> QED BY <3>1, <4>1, RunsConcat
    <3>4. a \o b \in Seq(StepSet) BY <2>2, Concat
    <3> QED BY <3>2, <3>3, <3>4
  <2>9. fine(Append(a \o b, s), next)
    <3> DEFINE c == a \o b
    <3>1. c \in Seq(StepSet) /\ Runs(u, base, c, s.layout)
          /\ First(c, s.layout) = Expects(flow, <<>>)
      BY <2>8
    <3> HIDE DEF c
    <3>2. fine(Append(c, s), next) BY <2>2, <2>7, <3>1, RunsAppend
    <3> QED BY <3>2 DEF c
  <2>10. VisitSum(t, f) = Append(a \o b, s)
    <3>1. VisitSum(t, f) = a \o b \o <<s>> BY DEF VisitSum, a, b, s
    <3> DEFINE c == a \o b
    <3>2. c \in Seq(StepSet) BY <2>8
    <3> HIDE DEF c
    <3>3. c \o <<s>> = Append(c, s) BY <2>2, <3>2
    <3> QED BY <3>1, <3>3 DEF c
  <2> QED BY <2>9, <2>10 DEF next
<1>6. \A f \in Callable : f \in Func BY DEF Callable, Unit, TypeOK
<1>7. \/ t # Void /\ e = Literal(t)
      \/ \E d \in ToSet(flow) : d.type = t /\ e = VisitId(d)
      \/ \E f \in Callable : Result[f] = t /\ e = VisitCall(f, <<>>)
      \/ t # Void /\ \E f \in Callable : Result[f] = t /\ e = VisitSum(t, f)
  BY DEF Exprs
<1>8. t # Void => Operands(t) = <<t>> BY DEF Operands
<1>9. \A d \in ToSet(flow) : d.type # Void
  <2>1. \A d \in ToSet(flow) : d \in Def BY <1>1 DEF ToSet
  <2> QED BY <2>1, DataTypesAssumption DEF Def
<1> HIDE DEF fine
<1>10. fine(e, Expects(flow, Operands(t)))
  BY <1>2, <1>3, <1>4, <1>5, <1>6, <1>7, <1>8, <1>9
<1> QED BY <1>10 DEF fine

-----------------------------------------------------------------------------
(* Scopes are left                                                         *)

(* The variables up to a scope are destroyed, the last first. *)
LEMMA DestroysRun ==
  ASSUME TypeInv, NEW i \in DOMAIN scopes, NEW u, NEW base \in Nat, NEW operands
  PROVE  LET defs == GetLocalVarDefsUpToScope(i)
             steps == GenerateDestroyLocalVarCmds(defs, operands)
             next == Expects(Prefix(flow, scopes[i].start), operands)
         IN  /\ Runs(u, base, steps, next)
             /\ First(steps, next) = Expects(flow, operands)
             /\ Len(flow) - Len(defs) = scopes[i].start
<1> DEFINE defs == GetLocalVarDefsUpToScope(i)
           steps == GenerateDestroyLocalVarCmds(defs, operands)
           start == scopes[i].start
           n == Len(flow)
           next == Expects(Prefix(flow, start), operands)
           left(k) == Expects(Prefix(flow, n - k), operands)
<1>1. flow \in Seq(Def) /\ n \in Nat /\ start \in Nat /\ start <= n
  <2>1. flow \in Seq(Def) /\ scopes[i] \in Scope BY DEF TypeInv, TypeOK
  <2> QED BY <2>1 DEF Scope, TypeInv, ScopesNest
<1>2. /\ Len(defs) \in Nat /\ n - Len(defs) = start
      /\ \A k \in 1..Len(defs) : defs[k] = flow[start + k]
  BY <1>1 DEF GetLocalVarDefsUpToScope
<1> HIDE DEF start, n, defs
<1>3. /\ Len(steps) = Len(defs) /\ DOMAIN steps = 1..Len(defs)
      /\ steps = <<>> <=> Len(defs) = 0
  BY <1>2 DEF GenerateDestroyLocalVarCmds
<1>4. ASSUME NEW k \in 1..Len(defs)
      PROVE  /\ steps[k].cmd = DestroyLocalVar(flow[n - (k - 1)].type)
             /\ steps[k].layout = left(k - 1)
  <2>1. n - k + 1 = n - (k - 1) /\ start + (Len(defs) - k + 1) = n - (k - 1)
    BY <1>1, <1>2
  <2>2. Len(defs) - k + 1 \in 1..Len(defs) BY <1>2
  <2>3. defs[Len(defs) - k + 1] = flow[n - (k - 1)] BY <1>2, <2>1, <2>2
  <2>4. steps[k] = Step(DestroyLocalVar(defs[Len(defs) - k + 1].type),
                        Prefix(flow, n - k + 1), operands)
    BY DEF GenerateDestroyLocalVarCmds, n
  <2> QED BY <2>1, <2>3, <2>4 DEF Step
<1>5. next = left(Len(defs)) BY <1>2
<1>6. left(0) = Expects(flow, operands)
  <2>1. n - 0 = n /\ Prefix(flow, n) = flow BY <1>1, PrefixGrows DEF n
  <2> QED BY <2>1
<1>7. ASSUME NEW k \in 1..Len(defs), steps[k].layout.live
      PROVE  Executes(u, base + k, steps[k].cmd, steps[k].layout, left(k))
  <2> DEFINE m == n - (k - 1)
             f == Prefix(flow, m)
  <2>1. m \in 1..n /\ m - 1 = n - k BY <1>1, <1>2
  <2>2. /\ f \in Seq(Def) /\ Len(f) = m /\ f[m] = flow[m]
        /\ SubSeq(f, 1, m - 1) = Prefix(flow, m - 1)
    <3> HIDE DEF m
    <3> QED BY <1>1, <2>1 DEF Prefix, n
  <2>3. f # <<>> BY <2>1, <2>2
  <2>4. Last(f) = flow[m] /\ Front(f) = Prefix(flow, n - k)
    BY <2>1, <2>2 DEF Last, Front
  <2>5. Live BY <1>4, <1>7, ExpectsParts
  <2>6. steps[k].cmd = DestroyLocalVar(flow[m].type) /\ steps[k].layout = Expects(f, operands)
    BY <1>4
  <2> HIDE DEF m, f, steps
  <2> QED BY <2>3, <2>4, <2>5, <2>6, DestroyExecutes
<1> HIDE DEF steps, next, left
<1>8. ASSUME NEW k \in 1..Len(defs) PROVE After(steps, k, next) = left(k)
  <2>1. CASE k = Len(defs) BY <1>3, <1>5, <2>1 DEF After
  <2>2. CASE k # Len(defs)
    <3>1. k + 1 \in 1..Len(defs)
      <4>1. Len(defs) \in Nat BY ONLY Zenon, <1>2
      <4> QED BY <2>2, <4>1
    <3>2. k # Len(steps) BY ONLY Zenon, <1>3, <2>2
    <3>3. k + 1 - 1 = k OBVIOUS
    <3>4. steps[k + 1].layout = left(k) BY <1>4, <3>1, <3>3
    <3> QED BY <3>2, <3>4 DEF After
  <2> QED BY <2>1, <2>2
<1>9. Runs(u, base, steps, next) BY <1>3, <1>7, <1>8 DEF Runs
<1>10. First(steps, next) = left(0)
  <2>1. CASE Len(defs) = 0 BY <1>3, <1>5, <2>1 DEF First
  <2>2. CASE Len(defs) # 0
    <3>1. 1 \in 1..Len(defs) /\ 1 - 1 = 0 BY <1>2, <2>2
    <3>2. steps[1].layout = left(0) BY <1>4, <3>1
    <3> QED BY <1>3, <2>2, <3>2 DEF First
  <2> QED BY <2>1, <2>2
<1> QED BY <1>2, <1>6, <1>9, <1>10 DEF steps, next, defs, start, n

(* A jump out of scopes runs, and jumps with what is left behind them. *)
LEMMA LeavingRuns ==
  ASSUME TypeInv, NEW i \in DOMAIN scopes, NEW u, NEW base \in Nat, NEW next,
         NEW offset \in Int \cup {Unwritten}
  PROVE  LET defs == GetLocalVarDefsUpToScope(i)
             steps == GenerateJumpCmdStart(defs, offset)
         IN  /\ Runs(u, base, steps, next)
             /\ First(steps, next) = Expects(flow, <<>>)
             /\ steps[Len(defs) + 1].layout = Behind(i)
             /\ steps[Len(defs) + 1].cmd = DirectJump(offset)
             /\ Len(steps) = Len(defs) + 1
<1> DEFINE defs == GetLocalVarDefsUpToScope(i)
           destroys == GenerateDestroyLocalVarCmds(defs, <<>>)
           jump == Step(DirectJump(offset), Prefix(flow, Len(flow) - Len(defs)), <<>>)
<1>1. defs \in Seq(Def) /\ Len(defs) <= Len(flow) BY DefsTypes
<1>2. flow \in Seq(Def) BY DEF TypeInv, TypeOK
<1>3. /\ Runs(u, base, destroys, Behind(i))
      /\ First(destroys, Behind(i)) = Expects(flow, <<>>)
      /\ Len(flow) - Len(defs) = scopes[i].start
  BY DestroysRun DEF Behind
<1>4. jump.layout = Behind(i) /\ jump.cmd = DirectJump(offset)
  BY <1>3 DEF Step, Behind
<1> HIDE DEF defs
<1>5. destroys \in Seq(StepSet) /\ Len(destroys) = Len(defs)
  BY <1>1, <1>2, DestroyTypes, OperandTypes
<1>6. jump \in StepSet
  <2>1. Prefix(flow, Len(flow) - Len(defs)) \in Seq(Def) BY <1>1, <1>2, PrefixType
  <2> QED BY <2>1, CmdTypes, StepType, OperandTypes
<1>7. GenerateJumpCmdStart(defs, offset) = Append(destroys, jump)
  BY DEF GenerateJumpCmdStart
<1> HIDE DEF destroys, jump
<1>8. /\ Append(destroys, jump)[Len(defs) + 1] = jump
      /\ Len(Append(destroys, jump)) = Len(defs) + 1
  BY <1>5, <1>6, AppendParts
<1>9. \A p : Executes(u, p, jump.cmd, jump.layout, next) BY <1>4, JumpExecutes
<1>10. /\ Runs(u, base, Append(destroys, jump), next)
       /\ First(Append(destroys, jump), next) = Expects(flow, <<>>)
  <2>1. jump.layout.live =>
          Executes(u, base + Len(destroys) + 1, jump.cmd, jump.layout, next)
    BY <1>9
  <2>2. destroys \in Seq(StepSet) /\ Runs(u, base, destroys, jump.layout)
    BY <1>3, <1>4, <1>5
  <2>3. /\ Runs(u, base, Append(destroys, jump), next)
        /\ First(Append(destroys, jump), next) = First(destroys, jump.layout)
    BY <1>6, <2>1, <2>2, RunsAppend
  <2> QED BY <1>3, <1>4, <2>3
<1> QED BY <1>4, <1>7, <1>8, <1>10 DEF defs

(* A return from a function finds its result, and no variable. *)
LEMMA ReturnRuns ==
  ASSUME TypeInv, NEW i \in DOMAIN scopes, scopes[i].start = 0,
         NEW u \in Func, NEW base \in Nat, NEW next
  PROVE  LET defs == GetLocalVarDefsUpToScope(i)
             steps == GenerateReturnCmd(defs, Operands(Result[u]))
         IN  /\ Runs(u, base, steps, next)
             /\ First(steps, next) = Expects(flow, Operands(Result[u]))
             /\ steps \in Seq(StepSet)
<1> DEFINE defs == GetLocalVarDefsUpToScope(i)
           operands == Operands(Result[u])
           destroys == GenerateDestroyLocalVarCmds(defs, operands)
           left == Prefix(flow, Len(flow) - Len(defs))
           return == Step(Return, left, operands)
           behind == Expects(<<>>, operands)
<1>1. defs \in Seq(Def) /\ Len(defs) <= Len(flow) BY DefsTypes
<1>2. flow \in Seq(Def) BY DEF TypeInv, TypeOK
<1>3. operands \in OperandSeq
  <2>1. Result[u] \in DataType \cup {Void} BY FuncsAssumption
  <2> QED BY <2>1, OperandTypes DEF Operands
<1>4. left = <<>> /\ Prefix(flow, scopes[i].start) = <<>>
  <2>1. Len(flow) - Len(defs) = 0 BY DestroysRun
  <2> QED BY <1>2, <2>1, PrefixGrows
<1>5. /\ Runs(u, base, destroys, behind)
      /\ First(destroys, behind) = Expects(flow, operands)
  BY <1>4, DestroysRun
<1>6. return.layout = behind /\ return.cmd = Return
  BY <1>4 DEF Step
<1>7. \A p : Executes(u, p, Return, behind, next)
  BY ReturnExecutes, FuncsAssumption
<1> HIDE DEF defs, operands
<1>8. destroys \in Seq(StepSet) BY <1>1, <1>2, <1>3, DestroyTypes
<1>9. return \in StepSet
  <2> HIDE DEF left, return
  <2>1. left \in Seq(Def) BY <1>4
  <2> USE DEF return
  <2> QED BY <1>3, <2>1, CmdTypes, StepType
<1>10. GenerateReturnCmd(defs, operands) = Append(destroys, return)
  BY DEF GenerateReturnCmd
<1> HIDE DEF destroys, return, behind
<1>11. /\ Runs(u, base, Append(destroys, return), next)
       /\ First(Append(destroys, return), next) = Expects(flow, operands)
       /\ Append(destroys, return) \in Seq(StepSet)
  <2>1. return.layout.live =>
          Executes(u, base + Len(destroys) + 1, return.cmd, return.layout, next)
    BY <1>6, <1>7
  <2>2. destroys \in Seq(StepSet) /\ Runs(u, base, destroys, return.layout)
    BY <1>5, <1>6, <1>8
  <2>3. /\ Runs(u, base, Append(destroys, return), next)
        /\ First(Append(destroys, return), next) = First(destroys, return.layout)
    BY <1>9, <2>1, <2>2, RunsAppend
  <2>4. Append(destroys, return) \in Seq(StepSet) BY <1>8, <1>9, AppendParts
  <2> QED BY <1>5, <1>6, <2>3, <2>4
<1> QED BY <1>10, <1>11 DEF defs, operands

-----------------------------------------------------------------------------
(* Generating steps that run                                               *)

(* The code and the layouts after steps are generated.                     *)
LEMMA LayoutAfter ==
  ASSUME TypeInv, NEW steps \in Seq(StepSet), NEW next \in Layout,
         NEW placeholders \in SUBSET Placeholders, Generate(steps, placeholders, next)
  PROVE  LET n == Len(code[unit])
             new == code'[unit]
             found == layout'[unit]
         IN  /\ n \in Nat /\ Len(new) = n + Len(steps) /\ DOMAIN new = 1..n + Len(steps)
             /\ \A u \in Unit : u # unit => code'[u] = code[u] /\ layout'[u] = layout[u]
             /\ \A p \in placeholders :
                  p \in 1..n /\ new[p] = [code[unit][p] EXCEPT !.offset = n + Len(steps) - p]
             /\ \A p \in 1..n : p \notin placeholders => new[p] = code[unit][p]
             /\ \A p \in 1..n : found[p] = layout[unit][p]
             /\ \A k \in DOMAIN steps : /\ new[n + k] = steps[k].cmd
                                        /\ found[n + k] = steps[k].layout
             /\ found[n + Len(steps) + 1] = next
             /\ Len(found) = n + Len(steps) + 1 /\ DOMAIN found = 1..n + Len(steps) + 1
<1> DEFINE old == code[unit]
           cmds == Cmds(steps)
           c == old \o cmds
           n == Len(old)
           front == Prefix(layout[unit], n)
           all == front \o Layouts(steps)
           new == code'[unit]
           found == layout'[unit]
<1>1. /\ unit \in Unit /\ code \in [Unit -> Seq(Cmd)] /\ layout \in [Unit -> Seq(Layout)]
      /\ Len(layout[unit]) = Len(code[unit]) + 1
  BY DEF TypeInv, TypeOK, LayoutCoversCode
<1>2. /\ code' = [code EXCEPT ![unit] = WriteCurrentCmdOffset(c, placeholders)]
      /\ layout' = [layout EXCEPT ![unit] = all \o <<next>>]
  BY DEF Generate
<1>3. \A u \in Unit : u # unit => code'[u] = code[u] /\ layout'[u] = layout[u]
  BY <1>1, <1>2
<1>4. new = WriteCurrentCmdOffset(c, placeholders) /\ found = all \o <<next>>
  BY <1>1, <1>2
<1>5. /\ old \in Seq(Cmd) /\ n \in Nat /\ DOMAIN old = 1..n
      /\ cmds \in Seq(Cmd) /\ Len(cmds) = Len(steps) /\ DOMAIN cmds = DOMAIN steps
      /\ Layouts(steps) \in Seq(Layout) /\ Len(Layouts(steps)) = Len(steps)
      /\ DOMAIN Layouts(steps) = DOMAIN steps
      /\ DOMAIN steps = 1..Len(steps) /\ Len(steps) \in Nat
      /\ \A k \in DOMAIN steps : /\ cmds[k] = steps[k].cmd
                                 /\ Layouts(steps)[k] = steps[k].layout
  BY <1>1, StepParts
<1>6. /\ front \in Seq(Layout) /\ Len(front) = n
      /\ \A p \in 1..n : front[p] = layout[unit][p]
  <2> DEFINE l == layout[unit]
  <2>1. l \in Seq(Layout) /\ n \in 0..Len(l) BY <1>1, <1>5
  <2> HIDE DEF l, n
  <2>2. /\ Prefix(l, n) \in Seq(Layout) /\ Len(Prefix(l, n)) = n
        /\ \A p \in 1..n : Prefix(l, n)[p] = l[p]
    BY <2>1, PrefixType DEF Prefix
  <2> QED BY <2>2 DEF l
<1>7. \A p \in placeholders : p \in 1..n
  BY <1>5 DEF Placeholders, TypeInv, PlaceholdersAreJumps
<1> HIDE DEF old, cmds, new, found, front
<1>8. /\ c \in Seq(Cmd) /\ Len(c) = n + Len(steps)
      /\ \A p \in DOMAIN old : c[p] = old[p]
      /\ \A k \in DOMAIN steps : c[n + k] = steps[k].cmd
  <2>1. old \in Seq(Cmd) /\ cmds \in Seq(Cmd) BY <1>5
  <2>2. /\ c \in Seq(Cmd) /\ Len(c) = Len(old) + Len(cmds)
        /\ \A p \in DOMAIN old : c[p] = old[p]
        /\ \A k \in DOMAIN cmds : c[Len(old) + k] = cmds[k]
    BY <2>1, Concat
  <2> HIDE DEF c
  <2> QED BY <1>5, <2>2
<1>9. /\ all \in Seq(Layout) /\ Len(all) = n + Len(steps)
      /\ \A p \in 1..n : all[p] = layout[unit][p]
      /\ \A k \in DOMAIN steps : all[n + k] = steps[k].layout
  <2> DEFINE ls == Layouts(steps)
  <2>1. front \in Seq(Layout) /\ ls \in Seq(Layout) BY <1>5, <1>6
  <2>2. /\ all \in Seq(Layout) /\ Len(all) = Len(front) + Len(ls)
        /\ \A p \in DOMAIN front : all[p] = front[p]
        /\ \A k \in DOMAIN ls : all[Len(front) + k] = ls[k]
    <3>1. all = front \o ls OBVIOUS
    <3> HIDE DEF ls, all
    <3> QED BY <2>1, <3>1, Concat
  <2>3. DOMAIN front = 1..n BY <1>6
  <2> HIDE DEF all
  <2> QED BY <1>5, <1>6, <2>2, <2>3
<1> HIDE DEF c, all
<1>10. /\ Len(new) = n + Len(steps) /\ DOMAIN new = 1..n + Len(steps)
       /\ \A p \in 1..n + Len(steps) : p \notin placeholders => new[p] = c[p]
       /\ \A p \in placeholders : p \in 1..n + Len(steps) =>
            new[p] = [c[p] EXCEPT !.offset = n + Len(steps) - p]
  <2>1. DOMAIN c = 1..n + Len(steps) BY <1>8
  <2>2. new = [p \in DOMAIN c |-> IF p \in placeholders
                                 THEN [c[p] EXCEPT !.offset = Len(c) - p]
                                 ELSE c[p]]
    BY <1>4 DEF WriteCurrentCmdOffset
  <2>3. n + Len(steps) \in Nat BY <1>5
  <2>4. Len(c) = n + Len(steps) BY <1>8
  <2>5. Len(new) = n + Len(steps) BY <2>1, <2>2, <2>3
  <2> QED BY <2>1, <2>2, <2>4, <2>5
<1>11. 1..n \subseteq 1..n + Len(steps)
  <2>1. n \in Nat /\ Len(steps) \in Nat BY <1>5
  <2> QED BY <2>1
<1>12. \A p \in placeholders :
         p \in 1..n /\ new[p] = [old[p] EXCEPT !.offset = n + Len(steps) - p]
  BY <1>5, <1>7, <1>8, <1>10, <1>11
<1>13. \A p \in 1..n : p \notin placeholders => new[p] = old[p]
  BY <1>5, <1>8, <1>10, <1>11
<1>14. \A k \in DOMAIN steps : new[n + k] = steps[k].cmd
  <2> TAKE k \in DOMAIN steps
  <2>1. n + k \in 1..n + Len(steps) /\ ~(n + k \in 1..n)
    <3>1. n \in Nat /\ Len(steps) \in Nat /\ k \in 1..Len(steps) BY <1>5
    <3> QED BY <3>1
  <2> QED BY <1>7, <1>8, <1>10, <2>1
<1>15. /\ \A p \in 1..n : found[p] = layout[unit][p]
       /\ \A k \in DOMAIN steps : found[n + k] = steps[k].layout
       /\ found[n + Len(steps) + 1] = next
       /\ Len(found) = n + Len(steps) + 1
       /\ DOMAIN found = 1..n + Len(steps) + 1
  <2> DEFINE one == <<next>>
  <2>1. one \in Seq(Layout) /\ Len(one) = 1 /\ DOMAIN one = 1..1 /\ one[1] = next
    BY TupleType
  <2>2. found = all \o one BY <1>4
  <2>3. all \in Seq(Layout) /\ Len(all) = n + Len(steps) BY <1>9
  <2> HIDE DEF one
  <2>4. /\ Len(found) = Len(all) + Len(one) /\ found \in Seq(Layout)
        /\ \A p \in DOMAIN all : found[p] = all[p]
        /\ \A k \in DOMAIN one : found[Len(all) + k] = one[k]
    <3>1. /\ Len(all \o one) = Len(all) + Len(one) /\ all \o one \in Seq(Layout)
          /\ \A p \in DOMAIN all : (all \o one)[p] = all[p]
          /\ \A k \in DOMAIN one : (all \o one)[Len(all) + k] = one[k]
      <4>1. all \in Seq(Layout) /\ one \in Seq(Layout) BY <2>1, <2>3
      <4> QED BY <4>1, Concat
    <3> QED BY <2>2, <3>1
  <2>5. n + Len(steps) \in Nat /\ DOMAIN all = 1..n + Len(steps)
    <3>1. n + Len(steps) \in Nat BY <1>5
    <3> QED BY <2>3, <3>1
  <2>6. Len(found) = n + Len(steps) + 1 BY <2>1, <2>3, <2>4
  <2>7. DOMAIN found = 1..n + Len(steps) + 1 BY <2>4, <2>6
  <2>8. found[n + Len(steps) + 1] = next BY <2>1, <2>3, <2>4
  <2>9. \A k \in DOMAIN steps : n + k \in 1..n + Len(steps)
    <3>1. n \in Nat /\ Len(steps) \in Nat /\ DOMAIN steps = 1..Len(steps) BY <1>5
    <3> QED BY <3>1
  <2> QED BY <1>9, <1>11, <2>4, <2>5, <2>6, <2>7, <2>8, <2>9
<1> QED BY <1>3, <1>5, <1>10, <1>12, <1>13, <1>14, <1>15 DEF old, new, found, n

(* What was there is found as it was.                                      *)
LEMMA OldLayout ==
  ASSUME TypeInv, NEW steps \in Seq(StepSet), NEW next \in Layout,
         NEW placeholders \in SUBSET Placeholders, Generate(steps, placeholders, next),
         First(steps, next) = End(unit), unit' = unit
  PROVE  LET n == Len(code[unit]) IN
         /\ \A p \in 1..n + 1 : layout'[unit][p] = layout[unit][p]
         /\ \A p \in 1..n : /\ code'[unit][p].op = code[unit][p].op
                            /\ Left(unit, p)' = Left(unit, p)
<1> DEFINE n == Len(code[unit])
<1>1. /\ n \in Nat
      /\ \A p \in placeholders :
           p \in 1..n /\ code'[unit][p] = [code[unit][p] EXCEPT !.offset = n + Len(steps) - p]
      /\ \A p \in 1..n : p \notin placeholders => code'[unit][p] = code[unit][p]
      /\ \A p \in 1..n : layout'[unit][p] = layout[unit][p]
      /\ \A k \in DOMAIN steps : layout'[unit][n + k] = steps[k].layout
      /\ layout'[unit][n + Len(steps) + 1] = next
  BY LayoutAfter
<1>2. layout'[unit][n + 1] = layout[unit][n + 1]
  <2>1. CASE Len(steps) = 0
    <3>1. steps = <<>> BY <2>1
    <3>2. n + Len(steps) + 1 = n + 1 BY <1>1, <2>1
    <3> QED BY <1>1, <3>1, <3>2 DEF First, End
  <2>2. CASE Len(steps) # 0
    <3>1. 1 \in DOMAIN steps /\ steps # <<>> BY <2>2
    <3> QED BY <1>1, <3>1 DEF First, End
  <2> QED BY <2>1, <2>2
<1>3. ASSUME NEW p \in 1..n PROVE code'[unit][p].op = code[unit][p].op
  <2>1. CASE p \in placeholders
    <3>1. code[unit] \in Seq(Cmd) BY DEF TypeInv, TypeOK
    <3>2. code[unit][p] \in Cmd /\ code[unit][p].op \in JumpOp
      BY <2>1, <3>1 DEF Placeholders, TypeInv, PlaceholdersAreJumps
    <3>3. code[unit][p] \in [op: JumpOp, offset: Int \cup {Unwritten}]
      BY <3>2 DEF Cmd, TypedOp, JumpOp
    <3> QED BY <1>1, <2>1, <3>3
  <2>2. CASE p \notin placeholders BY <1>1, <2>2
  <2> QED BY <2>1, <2>2
<1>4. ASSUME NEW p \in 1..n + 1 PROVE layout'[unit][p] = layout[unit][p]
  <2>1. p \in 1..n \/ p = n + 1 BY <1>1
  <2> QED BY <1>1, <1>2, <2>1
<1>5. \A p \in 1..n : p \in 1..n + 1 /\ p + 1 \in 1..n + 1 BY <1>1
<1> HIDE DEF n
<1>6. \A p \in 1..n : Left(unit, p)' = Left(unit, p) BY <1>3, <1>4, <1>5 DEF Left
<1> QED BY <1>3, <1>4, <1>6 DEF n

(* The code keeps the layouts when the steps run, each placeholder that is *)
(* written brings what comes next, and each jump that is aimed at once     *)
(* brings what is found where it leads.                                    *)
LEMMA GenerateLayout ==
  ASSUME TypeInv, CodeKeepsLayout, NEW steps \in Seq(StepSet), NEW next \in Layout,
         NEW placeholders \in SUBSET Placeholders, Generate(steps, placeholders, next),
         unit' = unit, First(steps, next) = End(unit),
         Runs(unit, Len(code[unit]), steps, next),
         \A p \in placeholders : layout[unit][p].live => Left(unit, p) = next,
         \A k \in DOMAIN steps : steps[k].cmd.op \in JumpOp =>
           \/ steps[k].cmd.offset = Unwritten
           \/ LET a == Target(Len(code[unit]) + k, steps[k].cmd) IN
              /\ steps[k].cmd.op = "DirectJump" /\ a \in 1..Len(code[unit]) + 1
              /\ steps[k].layout.live => layout[unit][a] = steps[k].layout
  PROVE  CodeKeepsLayout'
<1> DEFINE n == Len(code[unit])
<1>1. /\ n \in Nat /\ Len(code'[unit]) = n + Len(steps)
      /\ DOMAIN code'[unit] = 1..n + Len(steps)
      /\ \A u \in Unit : u # unit => code'[u] = code[u] /\ layout'[u] = layout[u]
      /\ \A p \in placeholders :
           p \in 1..n /\ code'[unit][p] = [code[unit][p] EXCEPT !.offset = n + Len(steps) - p]
      /\ \A p \in 1..n : p \notin placeholders => code'[unit][p] = code[unit][p]
      /\ \A k \in DOMAIN steps : /\ code'[unit][n + k] = steps[k].cmd
                                 /\ layout'[unit][n + k] = steps[k].layout
      /\ layout'[unit][n + Len(steps) + 1] = next
      /\ DOMAIN layout'[unit] = 1..n + Len(steps) + 1
  <2>1. /\ n \in Nat /\ Len(code'[unit]) = n + Len(steps)
        /\ DOMAIN code'[unit] = 1..n + Len(steps)
        /\ \A u \in Unit : u # unit => code'[u] = code[u] /\ layout'[u] = layout[u]
    BY LayoutAfter
  <2>2. /\ \A p \in placeholders :
             p \in 1..n /\ code'[unit][p] = [code[unit][p] EXCEPT !.offset = n + Len(steps) - p]
        /\ \A p \in 1..n : p \notin placeholders => code'[unit][p] = code[unit][p]
    BY LayoutAfter
  <2>3. /\ \A k \in DOMAIN steps : /\ code'[unit][n + k] = steps[k].cmd
                                   /\ layout'[unit][n + k] = steps[k].layout
        /\ layout'[unit][n + Len(steps) + 1] = next
        /\ DOMAIN layout'[unit] = 1..n + Len(steps) + 1
    BY LayoutAfter
  <2> QED BY <2>1, <2>2, <2>3
<1>2. /\ \A p \in 1..n + 1 : layout'[unit][p] = layout[unit][p]
      /\ \A p \in 1..n : /\ code'[unit][p].op = code[unit][p].op
                         /\ Left(unit, p)' = Left(unit, p)
  BY OldLayout
<1>3. /\ Len(steps) \in Nat /\ DOMAIN steps = 1..Len(steps) /\ unit \in Unit
      /\ DOMAIN code[unit] = 1..n /\ DOMAIN layout[unit] = 1..n + 1
      /\ n + Len(steps) + 1 \in 1..n + Len(steps) + 1
      /\ 1..n + 1 \subseteq 1..n + Len(steps) + 1
  <2>1. /\ unit \in Unit /\ code[unit] \in Seq(Cmd) /\ layout[unit] \in Seq(Layout)
        /\ Len(layout[unit]) = n + 1
    BY DEF TypeInv, TypeOK, LayoutCoversCode
  <2>2. Len(steps) \in Nat /\ DOMAIN steps = 1..Len(steps) OBVIOUS
  <2>3. DOMAIN code[unit] = 1..n /\ DOMAIN layout[unit] = 1..n + 1 BY <2>1
  <2>4. n \in Nat BY <1>1
  <2>5. /\ n + Len(steps) + 1 \in 1..n + Len(steps) + 1
        /\ 1..n + 1 \subseteq 1..n + Len(steps) + 1
    <3> HIDE DEF n
    <3> QED BY <2>2, <2>4
  <2> QED BY <2>1, <2>2, <2>3, <2>5
<1> HIDE DEF n
<1>4. ASSUME NEW u \in Unit, u # unit, NEW p \in DOMAIN code'[u], layout'[u][p].live
      PROVE  CmdKeepsLayout(u, p)'
  <2>1. code'[u] = code[u] /\ layout'[u] = layout[u] BY <1>1, <1>4
  <2>2. CmdKeepsLayout(u, p) BY <1>4, <2>1 DEF CodeKeepsLayout
  <2> QED BY <2>1, <2>2 DEF CmdKeepsLayout, Arrives, Left, Target
<1>5. ASSUME NEW p \in 1..n, layout'[unit][p].live
      PROVE  CmdKeepsLayout(unit, p)'
  <2>1. p \in 1..n + 1 /\ p + 1 \in 1..n + 1 BY <1>1
  <2>2. CmdKeepsLayout(unit, p) /\ layout[unit][p].live
    <3>1. layout[unit][p].live BY <1>2, <1>5, <2>1
    <3> QED BY <1>3, <3>1 DEF CodeKeepsLayout
  <2>3. /\ layout'[unit][p] = layout[unit][p]
        /\ layout'[unit][p + 1] = layout[unit][p + 1]
        /\ Left(unit, p)' = Left(unit, p)
    BY <1>2, <2>1
  <2>4. CASE p \notin placeholders
    <3>1. code'[unit][p] = code[unit][p] BY <1>1, <2>4
    <3>2. ASSUME code[unit][p].op \in JumpOp PROVE Arrives(unit, p)'
      <4>1. Arrives(unit, p) BY <2>2, <3>2 DEF CmdKeepsLayout
      <4>2. CASE code[unit][p].offset = Unwritten BY <3>1, <4>2 DEF Arrives
      <4>3. CASE code[unit][p].offset # Unwritten
        <5> DEFINE a == Target(p, code[unit][p])
        <5>1. a \in 1..n + 1 /\ layout[unit][a] = Left(unit, p)
          BY <1>3, <4>1, <4>3 DEF Arrives
        <5>2. a \in DOMAIN layout'[unit] /\ layout'[unit][a] = Left(unit, p)'
          BY <1>1, <1>2, <1>3, <2>3, <5>1
        <5> QED BY <3>1, <5>2 DEF Arrives, Target
      <4> QED BY <4>2, <4>3
    <3>3. CmdKeepsLayout(unit, p)' <=>
            /\ Executes(unit, p, code'[unit][p], layout'[unit][p], layout'[unit][p + 1])
            /\ code'[unit][p].op \in JumpOp => Arrives(unit, p)'
      BY DEF CmdKeepsLayout
    <3> QED BY <2>2, <2>3, <3>1, <3>2, <3>3 DEF CmdKeepsLayout
  <2>5. CASE p \in placeholders
    <3>1. code[unit][p].op \in JumpOp /\ code[unit][p] \in Cmd
      <4>1. code[unit] \in Seq(Cmd) BY DEF TypeInv, TypeOK
      <4>2. p \in DOMAIN code[unit] /\ code[unit][p].op \in JumpOp
        BY <2>5 DEF Placeholders, TypeInv, PlaceholdersAreJumps
      <4> QED BY <4>1, <4>2
    <3>2. code[unit][p] \in [op: JumpOp, offset: Int \cup {Unwritten}]
      BY <3>1 DEF Cmd, TypedOp, JumpOp
    <3>3. code'[unit][p].offset = n + Len(steps) - p BY <1>1, <2>5, <3>2
    <3>4. p + 1 + (n + Len(steps) - p) = n + Len(steps) + 1 BY <1>1, <1>3
    <3>5. Target(p, code'[unit][p]) = n + Len(steps) + 1 BY <3>3, <3>4 DEF Target
    <3>6. Left(unit, p) = next BY <2>2, <2>5
    <3>7. Arrives(unit, p)' BY <1>1, <1>3, <2>3, <3>5, <3>6 DEF Arrives, Target
    <3>8. Executes(unit, p, code'[unit][p], layout[unit][p], layout[unit][p + 1])
      BY <1>2, <2>2, <3>1, JumpExecutes DEF CmdKeepsLayout
    <3> QED BY <2>3, <3>7, <3>8 DEF CmdKeepsLayout
  <2> QED BY <2>4, <2>5
<1>6. ASSUME NEW k \in DOMAIN steps, NEW p, p = n + k, layout'[unit][p].live
      PROVE  CmdKeepsLayout(unit, p)'
  <2>1. code'[unit][p] = steps[k].cmd /\ layout'[unit][p] = steps[k].layout
    BY <1>1, <1>6
  <2>2. layout'[unit][p + 1] = After(steps, k, next)
    <3>1. CASE k = Len(steps) BY <1>1, <1>6, <3>1 DEF After
    <3>2. CASE k # Len(steps)
      <4>1. k + 1 \in DOMAIN steps /\ p + 1 = n + (k + 1)
        <5>1. k \in 1..Len(steps) /\ n \in Nat /\ Len(steps) \in Nat BY <1>1, <1>3
        <5>2. k + 1 \in 1..Len(steps) BY <3>2, <5>1
        <5> QED BY <1>3, <1>6, <5>1, <5>2
      <4>2. layout'[unit][n + (k + 1)] = steps[k + 1].layout BY <1>1, <4>1
      <4> QED BY <3>2, <4>1, <4>2 DEF After
    <3> QED BY <3>1, <3>2
  <2>3. Executes(unit, p, code'[unit][p], layout'[unit][p], layout'[unit][p + 1])
    BY <1>6, <2>1, <2>2 DEF Runs, n
  <2>4. ASSUME steps[k].cmd.op \in JumpOp PROVE Arrives(unit, p)'
    <3>1. CASE steps[k].cmd.offset = Unwritten
      <4>1. code'[unit'][p].offset = Unwritten BY <2>1, <3>1
      <4> QED BY <4>1 DEF Arrives
    <3>2. ASSUME NEW a, a = Target(p, steps[k].cmd), steps[k].cmd.op = "DirectJump",
                 a \in 1..n + 1, steps[k].layout.live => layout[unit][a] = steps[k].layout
          PROVE  Arrives(unit, p)'
      <4>1. layout'[unit][a] = steps[k].layout BY <1>2, <1>6, <2>1, <3>2
      <4>2. Left(unit, p)' = steps[k].layout
        <5>1. code'[unit'][p].op = "DirectJump" /\ layout'[unit'][p] = steps[k].layout
          BY <2>1, <3>2
        <5> QED BY <5>1 DEF Left
      <4>3. a \in DOMAIN layout'[unit] BY <1>1, <1>3, <3>2
      <4>4. a = p + 1 + code'[unit'][p].offset BY <2>1, <3>2 DEF Target
      <4> QED BY <4>1, <4>2, <4>3, <4>4 DEF Arrives, Target
    <3>3. \/ steps[k].cmd.offset = Unwritten
          \/ /\ steps[k].cmd.op = "DirectJump" /\ Target(p, steps[k].cmd) \in 1..n + 1
             /\ steps[k].layout.live =>
                  layout[unit][Target(p, steps[k].cmd)] = steps[k].layout
      BY <1>6, <2>4 DEF n
    <3> QED BY <3>1, <3>2, <3>3
  <2>5. CmdKeepsLayout(unit, p)' <=>
          /\ Executes(unit, p, code'[unit][p], layout'[unit][p], layout'[unit][p + 1])
          /\ code'[unit][p].op \in JumpOp => Arrives(unit, p)'
    BY DEF CmdKeepsLayout
  <2> QED BY <2>1, <2>3, <2>4, <2>5
<1>7. ASSUME NEW p \in DOMAIN code'[unit] PROVE p \in 1..n \/ \E k \in DOMAIN steps : p = n + k
  <2>1. p \in 1..n + Len(steps) /\ n \in Nat /\ Len(steps) \in Nat BY <1>1, <1>3
  <2>2. p \in 1..n \/ (p - n \in 1..Len(steps) /\ p = n + (p - n)) BY <2>1
  <2> QED BY <1>3, <2>2
<1>8. ASSUME NEW u \in Unit, NEW p \in DOMAIN code'[u], layout'[u][p].live
      PROVE  CmdKeepsLayout(u, p)'
  <2>1. CASE u # unit BY <1>4, <1>8, <2>1
  <2>2. CASE u = unit
    <3>1. u = unit' BY <2>2
    <3>2. CmdKeepsLayout(unit, p)' BY <1>5, <1>6, <1>7, <1>8, <2>2
    <3> QED BY <3>1, <3>2 DEF CmdKeepsLayout, Arrives, Left
  <2> QED BY <2>1, <2>2
<1> QED BY <1>8 DEF CodeKeepsLayout

-----------------------------------------------------------------------------
(* Statements keep the invariant                                           *)

(* What the k-th of the steps brings to where it jumps. *)
Brings(steps, k, next) ==
  IF steps[k].cmd.op = "JumpIfNot" THEN After(steps, k, next) ELSE steps[k].layout

(* A scope that stays open, with the variables around it as they were. *)
KeepsScope(i) ==
  /\ i \in DOMAIN scopes
  /\ scopes'[i].type = scopes[i].type
  /\ scopes'[i].start_address = scopes[i].start_address
  /\ Behind(i)' = Behind(i)

(* A loop begins at the first step, and a placeholder is noted where what  *)
(* its jump brings is left behind.                                         *)
ScopesFit(steps, next) ==
  \A i \in DOMAIN scopes' :
    /\ scopes'[i].type = "loop" =>
         \/ KeepsScope(i)
         \/ scopes'[i].start_address = Here /\ Behind(i)' = Expects(flow, <<>>)
    /\ \A p \in scopes'[i].placeholders :
         \/ KeepsScope(i) /\ p \in scopes[i].placeholders
         \/ \E k \in DOMAIN steps :
              p = Len(code[unit]) + k /\ Brings(steps, k, next) = Behind(i)'

(* What is left behind a scope, in parts. *)
LEMMA BehindParts ==
  /\ \A i : Behind(i) = [live |-> Live, flow |-> Prefix(flow, scopes[i].start),
                         operands |-> <<>>]
  /\ \A i : Behind(i)' = [live |-> Live', flow |-> Prefix(flow', scopes'[i].start),
                          operands |-> <<>>]
BY DEF Behind, Expects

(* A statement keeps the invariant if its steps run and its scopes fit. *)
LEMMA StatementLayout ==
  ASSUME TypeInv, JumpsInv, LayoutInv, ArgsVisited, NEW steps \in Seq(StepSet),
         NEW next \in Layout, NEW placeholders \in SUBSET Placeholders,
         Generate(steps, placeholders, next), UNCHANGED <<unit, defined>>,
         next = [live |-> Live', flow |-> flow', operands |-> <<>>],
         Runs(unit, Len(code[unit]), steps, next),
         First(steps, next) = Expects(flow, <<>>),
         \A p \in placeholders : layout[unit][p].live => Left(unit, p) = next,
         \A k \in DOMAIN steps : steps[k].cmd.op \in JumpOp =>
           \/ steps[k].cmd.offset = Unwritten
           \/ LET a == Target(Len(code[unit]) + k, steps[k].cmd) IN
              /\ steps[k].cmd.op = "DirectJump" /\ a \in 1..Len(code[unit]) + 1
              /\ steps[k].layout.live => layout[unit][a] = steps[k].layout,
         ScopesFit(steps, next), FlowFits'
  PROVE  LayoutInv'
<1> DEFINE n == Len(code[unit])
<1>1. End(unit) = Expects(flow, <<>>)
  BY DEF LayoutInv, LayoutEnds, ArgsLeft
<1>2. First(steps, next) = End(unit) /\ unit' = unit BY <1>1
<1>3. CodeKeepsLayout'
  BY <1>2, GenerateLayout DEF LayoutInv
<1>4. /\ n \in Nat /\ Len(code'[unit]) = n + Len(steps) /\ Len(steps) \in Nat
      /\ \A u \in Unit : u # unit => code'[u] = code[u] /\ layout'[u] = layout[u]
      /\ layout'[unit][n + Len(steps) + 1] = next
      /\ DOMAIN steps = 1..Len(steps)
  <2>1. Len(steps) \in Nat /\ DOMAIN steps = 1..Len(steps) OBVIOUS
  <2> QED BY <2>1, LayoutAfter
<1>5. \A k \in DOMAIN steps : /\ code'[unit][n + k] = steps[k].cmd
                              /\ layout'[unit][n + k] = steps[k].layout
  BY LayoutAfter
<1>6. /\ \A p \in 1..n + 1 : layout'[unit][p] = layout[unit][p]
      /\ \A p \in 1..n : Left(unit, p)' = Left(unit, p)
  BY <1>2, OldLayout
<1> HIDE DEF n
<1>7. ArgsVisited'
  <2>1. CASE unit = Main BY <2>1 DEF ArgsVisited
  <2>2. CASE unit # Main
    <3>1. n >= Len(Args[unit]) BY <2>2 DEF ArgsVisited, n
    <3>2. Len(Args[unit]) \in Nat
      BY <2>2, FuncsAssumption DEF TypeInv, TypeOK, Unit
    <3>3. n + Len(steps) >= Len(Args[unit]) BY <1>4, <3>1, <3>2
    <3> QED BY <1>4, <2>2, <3>3 DEF ArgsVisited
  <2> QED BY <2>1, <2>2
<1>8. LayoutEnds'
  <2>1. End(unit)' = next BY <1>4 DEF End
  <2>2. Expects(flow, ArgsLeft)' = next BY <1>7 DEF Expects, ArgsLeft
  <2>3. ASSUME NEW u \in Unit, u # unit PROVE End(u)' = End(u)
    BY <1>4, <2>3 DEF End
  <2>4. unit # Main => End(Main)' = [live |-> TRUE, flow |-> <<>>, operands |-> <<>>]
    BY <2>3 DEF LayoutInv, LayoutEnds, Unit
  <2>5. ASSUME NEW f \in defined PROVE ~End(f)'.live
    <3>1. f \in Unit /\ f # unit
      BY FuncsAssumption DEF TypeInv, TypeOK, ScopesNest, Unit
    <3> QED BY <2>3, <3>1 DEF LayoutInv, LayoutEnds
  <2> QED BY <2>1, <2>2, <2>4, <2>5 DEF LayoutEnds, End
<1>9. ArgsFirst' BY <1>7 DEF ArgsFirst
<1>10. ASSUME NEW i \in DOMAIN scopes', scopes'[i].type = "loop"
       PROVE  layout'[unit][scopes'[i].start_address] = Behind(i)'
  <2>1. CASE KeepsScope(i)
    <3>1. /\ i \in DOMAIN scopes /\ scopes[i].type = "loop" /\ Behind(i)' = Behind(i)
          /\ scopes'[i].start_address = scopes[i].start_address
      BY <1>10, <2>1 DEF KeepsScope
    <3>2. /\ scopes[i].start_address \in 1..n + 1
          /\ layout[unit][scopes[i].start_address] = Behind(i)
      BY <3>1 DEF JumpsInv, LoopsStart, LayoutInv, LoopsFit, n
    <3> QED BY <1>6, <3>1, <3>2
  <2>2. CASE scopes'[i].start_address = Here /\ Behind(i)' = Expects(flow, <<>>)
    <3>1. Here = n + 1 /\ n + 1 \in 1..n + 1 BY <1>4 DEF Here, n
    <3>2. layout[unit][n + 1] = Expects(flow, <<>>) BY <1>1 DEF End, n
    <3> QED BY <1>6, <2>2, <3>1, <3>2
  <2> QED BY <1>10, <2>1, <2>2 DEF ScopesFit
<1>11. ASSUME NEW i \in DOMAIN scopes', NEW p \in scopes'[i].placeholders,
              layout'[unit][p].live
       PROVE  Left(unit, p)' = Behind(i)'
  <2>1. CASE KeepsScope(i) /\ p \in scopes[i].placeholders
    <3>1. i \in DOMAIN scopes /\ Behind(i)' = Behind(i) BY <2>1 DEF KeepsScope
    <3>2. p \in 1..n /\ p \in 1..n + 1
      <4>1. p \in DOMAIN code[unit] /\ code[unit] \in Seq(Cmd)
        BY <2>1, <3>1 DEF TypeInv, TypeOK, PlaceholdersAreJumps
      <4>2. DOMAIN code[unit] = 1..n BY <4>1 DEF n
      <4> QED BY <1>4, <4>1, <4>2
    <3>3. layout[unit][p].live BY <1>6, <1>11, <3>2
    <3> QED BY <1>6, <2>1, <3>1, <3>2, <3>3 DEF LayoutInv, PlaceholdersFit
  <2>2. ASSUME NEW k \in DOMAIN steps, p = n + k, Brings(steps, k, next) = Behind(i)'
        PROVE  Left(unit, p)' = Behind(i)'
    <3>1. code'[unit'][p] = steps[k].cmd /\ layout'[unit'][p] = steps[k].layout
      BY <1>5, <2>2
    <3>2. layout'[unit'][p + 1] = After(steps, k, next)
      <4>1. CASE k = Len(steps) BY <1>4, <2>2, <4>1 DEF After
      <4>2. CASE k # Len(steps)
        <5>1. k + 1 \in DOMAIN steps /\ p + 1 = n + (k + 1)
          <6>1. k \in 1..Len(steps) /\ n \in Nat /\ Len(steps) \in Nat
            BY ONLY Zenon, <1>4, <2>2
          <6>2. k + 1 \in 1..Len(steps) BY ONLY <4>2, <6>1
          <6>3. p + 1 = n + (k + 1) BY ONLY <2>2, <6>1
          <6> QED BY ONLY <1>4, <6>2, <6>3
        <5>2. layout'[unit][n + (k + 1)] = steps[k + 1].layout BY <1>5, <5>1
        <5> QED BY <4>2, <5>1, <5>2 DEF After
      <4> QED BY <4>1, <4>2
    <3>3. Left(unit, p)' = Brings(steps, k, next) BY <3>1, <3>2 DEF Left, Brings
    <3> QED BY <2>2, <3>3
  <2> QED BY <1>11, <2>1, <2>2 DEF ScopesFit, n
<1>12. LoopsFit' BY <1>10 DEF LoopsFit
<1>13. PlaceholdersFit' BY <1>11 DEF PlaceholdersFit
<1>14. EntriesFit'
  <2>1. layout'[unit][1] = layout[unit][1]
    <3>1. 1 \in 1..n + 1 BY <1>4
    <3> QED BY <1>6, <3>1
  <2>2. \A u \in Unit : layout'[u][1] = layout[u][1] BY <1>4, <2>1
  <2> QED BY <2>2 DEF LayoutInv, EntriesFit
<1> QED BY <1>3, <1>8, <1>9, <1>12, <1>13, <1>14 DEF LayoutInv

(* Execution gets as far as it got where no function's scope changes. *)
LEMMA LiveKept ==
  ASSUME \A i \in DOMAIN scopes' : scopes'[i].type = "func" =>
           /\ i \in DOMAIN scopes /\ scopes[i].type = "func"
           /\ scopes[i].has_return = scopes'[i].has_return,
         \A i \in DOMAIN scopes : scopes[i].type = "func" =>
           /\ i \in DOMAIN scopes' /\ scopes'[i].type = "func"
           /\ scopes[i].has_return = scopes'[i].has_return
  PROVE  Live' = Live
BY DEF Live

(* Stopping, and doing nothing. *)
LEMMA StopLayout ==
  ASSUME LayoutInv, UNCHANGED <<unit, code, flow, scopes, defined, layout>>
  PROVE  LayoutInv'
<1>1. Live' = Live /\ CurrentScope' = CurrentScope BY DEF Live, CurrentScope
<1>2. ArgsVisited' = ArgsVisited /\ ArgsLeft' = ArgsLeft BY DEF ArgsVisited, ArgsLeft
<1>3. \A u : End(u)' = End(u) BY DEF End
<1>4. LayoutEnds' BY <1>1, <1>2, <1>3 DEF LayoutInv, LayoutEnds, Expects
<1>5. ArgsFirst' /\ FlowFits'
  BY <1>2 DEF LayoutInv, ArgsFirst, FlowFits, ScopeEnd
<1>6. PlaceholdersFit' /\ LoopsFit'
  BY <1>1 DEF LayoutInv, PlaceholdersFit, LoopsFit, Left, Behind, Expects
<1>7. CodeKeepsLayout'
  BY DEF LayoutInv, CodeKeepsLayout, CmdKeepsLayout, Arrives, Left, Target
<1>8. EntriesFit' BY DEF LayoutInv, EntriesFit
<1> QED BY <1>4, <1>5, <1>6, <1>7, <1>8 DEF LayoutInv

-----------------------------------------------------------------------------
(* Statements that open and close no scope                                 *)

(* What lies below an end that grows. *)
LEMMA PrefixBelow ==
  ASSUME NEW S, NEW s \in Seq(S), NEW d \in S, NEW n \in 0..Len(s)
  PROVE  Prefix(Append(s, d), n) = Prefix(s, n)
BY DEF Prefix

(* The scopes stay as they are, or hold one more variable. *)
LEMMA SameScopesLayout ==
  ASSUME TypeInv, JumpsInv, LayoutInv, ArgsVisited, NEW steps \in Seq(StepSet),
         NEW next \in Layout, Generate(steps, {}, next),
         UNCHANGED <<unit, scopes, defined>>,
         \/ flow' = flow
         \/ /\ \E d \in Def : flow' = Append(flow, d)
            /\ CurrentScope.type \notin {"global", "branches"},
         next = [live |-> Live, flow |-> flow', operands |-> <<>>],
         Runs(unit, Len(code[unit]), steps, next),
         First(steps, next) = Expects(flow, <<>>),
         \A k \in DOMAIN steps : steps[k].cmd.op \in JumpOp =>
           \/ steps[k].cmd.offset = Unwritten
           \/ LET a == Target(Len(code[unit]) + k, steps[k].cmd) IN
              /\ steps[k].cmd.op = "DirectJump" /\ a \in 1..Len(code[unit]) + 1
              /\ steps[k].layout.live => layout[unit][a] = steps[k].layout
  PROVE  LayoutInv'
<1>1. Live' = Live BY DEF Live
<1>2. ASSUME NEW i \in DOMAIN scopes PROVE Prefix(flow', scopes[i].start) = Prefix(flow, scopes[i].start)
  <2>1. CASE flow' = flow BY <2>1
  <2>2. CASE \E d \in Def : flow' = Append(flow, d)
    <3>1. flow \in Seq(Def) /\ scopes[i].start \in 0..Len(flow)
      <4>1. flow \in Seq(Def) /\ scopes[i] \in Scope BY DEF TypeInv, TypeOK
      <4>2. scopes[i].start \in Nat /\ scopes[i].start <= Len(flow)
        BY <4>1 DEF Scope, TypeInv, ScopesNest
      <4> QED BY <4>1, <4>2
    <3> QED BY <2>2, <3>1, PrefixBelow
  <2> QED BY <2>1, <2>2
<1>3. \A i \in DOMAIN scopes : KeepsScope(i)
  BY <1>1, <1>2, BehindParts DEF KeepsScope
<1>4. ScopesFit(steps, next)
  <2>1. \A i \in DOMAIN scopes' : KeepsScope(i) /\ scopes'[i] = scopes[i] BY <1>3
  <2> QED BY <2>1 DEF ScopesFit
<1>5. FlowFits'
  <2>1. CASE flow' = flow BY <2>1 DEF LayoutInv, FlowFits, ScopeEnd
  <2>2. CASE CurrentScope.type \notin {"global", "branches"}
    <3>1. CurrentScope = scopes[Len(scopes)] BY ScopeFacts
    <3>2. \A i \in DOMAIN scopes : scopes[i].type \in {"global", "branches"} =>
            i # Len(scopes)
      BY <2>2, <3>1
    <3>3. \A i \in DOMAIN scopes : i # Len(scopes) => ScopeEnd(i)' = ScopeEnd(i)
      BY DEF ScopeEnd
    <3> QED BY <3>2, <3>3 DEF LayoutInv, FlowFits
  <2> QED BY <2>1, <2>2
<1>6. {} \in SUBSET Placeholders OBVIOUS
<1>7. \A p \in {} : layout[unit][p].live => Left(unit, p) = next OBVIOUS
<1>8. next = [live |-> Live', flow |-> flow', operands |-> <<>>] BY <1>1
<1>9. UNCHANGED <<unit, defined>> OBVIOUS
<1> QED BY <1>4, <1>5, <1>6, <1>7, <1>8, <1>9, StatementLayout

(* A value is left, and a command takes it. *)
LEMMA ThenRuns ==
  ASSUME TypeInv, NEW t \in DataType, NEW e \in Seq(StepSet), NEW cmd \in Cmd,
         NEW u, NEW base \in Nat, NEW next,
         Runs(u, base, e, Expects(flow, <<t>>)),
         First(e, Expects(flow, <<t>>)) = Expects(flow, <<>>),
         Live => Executes(u, base + Len(e) + 1, cmd, Expects(flow, <<t>>), next)
  PROVE  LET steps == Append(e, Step(cmd, flow, <<t>>)) IN
         Runs(u, base, steps, next) /\ First(steps, next) = Expects(flow, <<>>)
<1> DEFINE s == Step(cmd, flow, <<t>>)
<1>1. s \in StepSet
  BY StepType, OperandTypes DEF TypeInv, TypeOK
<1>2. s.cmd = cmd /\ s.layout = Expects(flow, <<t>>) BY DEF Step
<1>3. s.layout.live => Executes(u, base + Len(e) + 1, s.cmd, s.layout, next)
  BY <1>2, ExpectsParts
<1> HIDE DEF s
<1>4. Runs(u, base, e, s.layout) /\ First(e, s.layout) = Expects(flow, <<>>)
  BY <1>2
<1>5. /\ Runs(u, base, Append(e, s), next)
      /\ First(Append(e, s), next) = First(e, s.layout)
  BY <1>1, <1>3, <1>4, RunsAppend
<1> QED BY <1>4, <1>5 DEF s

(* One operand is taken. *)
LEMMA PopsOne == \A t : Pops(<<t>>, t, <<>>)
<1> TAKE t
<1>1. <<t>> # <<>> /\ Last(<<t>>) = t /\ Front(<<t>>) = <<>> BY DEF Last, Front
<1> QED BY <1>1 DEF Pops

(* A variable is defined by steps that run up to it. *)
LEMMA VarDefLayout ==
  ASSUME TypeInv, JumpsInv, LayoutInv, CanVisit, CurrentScope.type # "global",
         NEW d \in Def, NEW steps \in Seq(PlainSet),
         Runs(unit, Len(code[unit]), steps, Expects(Append(flow, d), <<>>)),
         First(steps, Expects(Append(flow, d), <<>>)) = Expects(flow, <<>>),
         VisitVarDef(d, steps)
  PROVE  LayoutInv'
<1>1. \/ Stop("crashed")
      \/ /\ flow' = Append(flow, d)
         /\ Generate(steps, {}, Expects(Append(flow, d), <<>>))
         /\ UNCHANGED <<unit, scopes, defined, phase>>
  BY DEF VisitVarDef
<1>2. CASE Stop("crashed") BY <1>2, StopLayout DEF Stop
<1>3. CASE /\ flow' = Append(flow, d)
           /\ Generate(steps, {}, Expects(Append(flow, d), <<>>))
           /\ UNCHANGED <<unit, scopes, defined, phase>>
  <2> DEFINE next == Expects(Append(flow, d), <<>>)
  <2>1. next \in Layout
    <3>1. Append(flow, d) \in Seq(Def) BY DEF TypeInv, TypeOK
    <3> QED BY <3>1, NextTypes
  <2>2. next = [live |-> Live, flow |-> flow', operands |-> <<>>]
    BY <1>3 DEF Expects
  <2>3. steps \in Seq(StepSet) /\ \A k \in DOMAIN steps : steps[k].cmd.op \notin JumpOp
    BY PlainSteps
  <2>4. ArgsVisited /\ CurrentScope.type \notin {"global", "branches"} BY DEF CanVisit
  <2>5. Generate(steps, {}, next) /\ Runs(unit, Len(code[unit]), steps, next)
        /\ First(steps, next) = Expects(flow, <<>>)
    BY <1>3
  <2> HIDE DEF next
  <2> QED BY <1>3, <2>1, <2>2, <2>3, <2>4, <2>5, SameScopesLayout
<1> QED BY <1>1, <1>2, <1>3

(* The three forms of variable definitions. *)
LEMMA VarDefStmtsLayout ==
  ASSUME TypeInv, JumpsInv, LayoutInv,
         VisitVarDefWithoutInit \/ VisitVarDefWithInit \/ VisitVarDefWithSelfInit
  PROVE  LayoutInv'
<1> DEFINE n == Len(code[unit])
           defined_at(a, t) == [at |-> a, type |-> t, index |-> SlotsCount(flow)]
<1>1. /\ Here \in Nat /\ flow \in Seq(Def) /\ n \in Nat /\ Here = n + 1
      /\ TypeOK
  BY DEF Here, TypeInv, TypeOK
<1>2. CanVisit /\ CurrentScope.type # "global"
  BY DEF VisitVarDefWithoutInit, VisitVarDefWithInit, VisitVarDefWithSelfInit
<1>3. \A a, t : NewDef(a, t) = defined_at(a, t) BY DEF NewDef
<1>4. CASE VisitVarDefWithoutInit
  <2>1. PICK t \in VarType :
          VisitVarDef(NewDef(Here, t), <<Step(CreateLocalVar(t), flow, <<>>)>>)
    BY <1>4 DEF VisitVarDefWithoutInit
  <2>2. t \in DataType BY SomeTypes
  <2> DEFINE s == Step(CreateLocalVar(t), flow, <<>>)
             d == NewDef(Here, t)
             next == Expects(Append(flow, d), <<>>)
  <2>3. s \in PlainSet BY <1>1, <2>2, CmdTypes, PlainCmds, PlainStep, OperandTypes
  <2>4. <<s>> \in Seq(PlainSet) BY <2>3, TupleType
  <2>5. d \in Def BY <1>1, <2>2, NewDefTypes
  <2>6. s.layout = Expects(flow, <<>>) /\ s.cmd = CreateLocalVar(t) BY DEF Step
  <2>7. s.layout.live => Executes(unit, n + 1, s.cmd, s.layout, next)
    BY <1>1, <1>3, <2>6, ExpectsParts, CreateExecutes
  <2>8. VisitVarDef(d, <<s>>) BY <2>1
  <2> HIDE DEF s, d, n
  <2>9. Runs(unit, n, <<s>>, next) /\ First(<<s>>, next) = Expects(flow, <<>>)
    BY <1>1, <2>6, <2>7, RunsOne
  <2> QED BY <1>2, <2>4, <2>5, <2>8, <2>9, VarDefLayout DEF n
<1>5. CASE VisitVarDefWithInit
  <2>1. PICK t \in VarType : \E value \in Exprs(t) :
          VisitVarDef(NewDef(Here + Len(value), t),
                      Append(value, Step(CreateAndInitLocalVar(t), flow, <<t>>)))
    BY <1>5 DEF VisitVarDefWithInit
  <2>2. PICK value \in Exprs(t) :
          VisitVarDef(NewDef(Here + Len(value), t),
                      Append(value, Step(CreateAndInitLocalVar(t), flow, <<t>>)))
    BY <2>1
  <2>3. t \in DataType /\ t \in DataType \cup {Void} /\ Operands(t) = <<t>>
    BY SomeTypes, DataTypesAssumption DEF Operands
  <2>4. value \in Seq(PlainSet) /\ value \in Seq(StepSet) /\ Len(value) \in Nat
    <3>1. value \in Seq(PlainSet) BY <2>3, ExprPlain DEF TypeInv
    <3> QED BY <3>1, PlainSteps
  <2> DEFINE cmd == CreateAndInitLocalVar(t)
             steps == Append(value, Step(cmd, flow, <<t>>))
             d == NewDef(Here + Len(value), t)
             next == Expects(Append(flow, d), <<>>)
  <2>5. steps \in Seq(PlainSet) /\ cmd \in Cmd
    BY <2>3, <2>4, CmdTypes, PlainCmds, AppendPlain
  <2>6. d \in Def
    <3>1. Here + Len(value) \in Nat BY <1>1, <2>4
    <3> QED BY <2>3, <3>1, NewDefTypes
  <2>7. /\ Runs(unit, n, value, Expects(flow, <<t>>))
        /\ First(value, Expects(flow, <<t>>)) = Expects(flow, <<>>)
    <3> HIDE DEF n
    <3> QED BY <1>1, <2>3, ExprRuns
  <2>8. Live => Executes(unit, n + Len(value) + 1, cmd, Expects(flow, <<t>>), next)
    <3>1. n + Len(value) + 1 = Here + Len(value) BY <1>1, <2>4
    <3>2. d = defined_at(n + Len(value) + 1, t) BY <1>3, <3>1
    <3> HIDE DEF d, n
    <3> QED BY <3>2, PopsOne, CreateExecutes
  <2>9. VisitVarDef(d, steps) BY <2>2
  <2>10. Runs(unit, n, steps, next) /\ First(steps, next) = Expects(flow, <<>>)
    <3> HIDE DEF cmd, d, n
    <3> QED BY <1>1, <2>3, <2>4, <2>5, <2>7, <2>8, ThenRuns
  <2> HIDE DEF steps, d
  <2> QED BY <1>2, <2>5, <2>6, <2>9, <2>10, VarDefLayout
<1>6. CASE VisitVarDefWithSelfInit
  <2>1. PICK t \in VarType :
          VisitVarDef(NewDef(Here + 1, t),
                      Append(VisitId(NewDef(Here + 1, t)),
                             Step(CreateAndInitLocalVar(t), flow, <<t>>)))
    BY <1>6 DEF VisitVarDefWithSelfInit
  <2>2. t \in DataType BY SomeTypes
  <2> DEFINE d == NewDef(Here + 1, t)
             load == Step(LoadLocalVarValue(d), flow, <<>>)
             cmd == CreateAndInitLocalVar(t)
             steps == Append(<<load>>, Step(cmd, flow, <<t>>))
             next == Expects(Append(flow, d), <<>>)
  <2>3. d \in Def /\ d.at = n + 2 /\ d.type = t /\ d = defined_at(n + 1 + 1, t)
    <3>1. d \in Def BY <1>1, <2>2, NewDefTypes
    <3>2. Here + 1 = n + 2 /\ n + 1 + 1 = n + 2 BY <1>1
    <3>3. d = defined_at(Here + 1, t) BY <1>3
    <3> QED BY <3>1, <3>2, <3>3
  <2> HIDE DEF d
  <2>4. load \in PlainSet BY <1>1, <2>3, CmdTypes, PlainCmds, PlainStep, OperandTypes
  <2>5. <<load>> \in Seq(PlainSet) /\ load \in StepSet /\ Len(<<load>>) = 1
    BY <2>4, TupleType DEF PlainSet
  <2>6. <<load>> \in Seq(StepSet) BY <2>5, TupleType
  <2>7. load.layout = Expects(flow, <<>>) /\ load.cmd = LoadLocalVarValue(d) BY DEF Step
  <2>8. load.layout.live =>
          Executes(unit, n + 1, load.cmd, load.layout, Expects(flow, <<t>>))
    <3>1. ASSUME Live
          PROVE  Executes(unit, n + 1, LoadLocalVarValue(d), Expects(flow, <<>>),
                          Expects(flow, Append(<<>>, d.type)))
      <4>1. n + 1 \in Nat /\ d.at > n + 1 BY <1>1, <2>3
      <4> HIDE DEF n
      <4> QED BY <2>3, <3>1, <4>1, LoadVarExecutes
    <3>2. Append(<<>>, d.type) = <<t>> BY <2>3
    <3>3. Live <=> load.layout.live BY <2>7, ExpectsParts
    <3> QED BY ONLY Zenon, <2>7, <3>1, <3>2, <3>3
  <2>9. VisitVarDef(d, steps) BY <2>1 DEF VisitId, d
  <2> HIDE DEF load
  <2>10. steps \in Seq(PlainSet) /\ cmd \in Cmd
    BY <2>2, <2>5, CmdTypes, PlainCmds, AppendPlain
  <2>11. /\ Runs(unit, n, <<load>>, Expects(flow, <<t>>))
         /\ First(<<load>>, Expects(flow, <<t>>)) = Expects(flow, <<>>)
    <3> HIDE DEF n
    <3>1. n \in Nat BY <1>1
    <3> QED BY ONLY Zenon, <2>7, <2>8, <3>1, RunsOne
  <2>12. Live => Executes(unit, n + Len(<<load>>) + 1, cmd, Expects(flow, <<t>>), next)
    <3> HIDE DEF n
    <3> QED BY <2>3, <2>5, PopsOne, CreateExecutes
  <2>13. Runs(unit, n, steps, next) /\ First(steps, next) = Expects(flow, <<>>)
    <3> HIDE DEF cmd, n
    <3> QED BY <1>1, <2>2, <2>6, <2>10, <2>11, <2>12, ThenRuns
  <2> HIDE DEF steps
  <2> QED BY <1>2, <2>3, <2>9, <2>10, <2>13, VarDefLayout
<1> QED BY <1>4, <1>5, <1>6

(* An expression statement leaves nothing. *)
LEMMA ExprStmtLayout ==
  ASSUME TypeInv, JumpsInv, LayoutInv, VisitExprStmt
  PROVE  LayoutInv'
<1> DEFINE n == Len(code[unit])
           next == Expects(flow, <<>>)
<1>1. PICK t \in VarType \cup {Void} : \E expr \in Exprs(t) :
        Generate(IF t = Void THEN expr
                 ELSE Append(expr, Step(Unload(t), flow, <<t>>)), {}, next)
  BY DEF VisitExprStmt
<1>2. PICK expr \in Exprs(t) :
        Generate(IF t = Void THEN expr
                 ELSE Append(expr, Step(Unload(t), flow, <<t>>)), {}, next)
  BY <1>1
<1> DEFINE steps == IF t = Void THEN expr
                    ELSE Append(expr, Step(Unload(t), flow, <<t>>))
<1>3. t \in DataType \cup {Void} BY SomeTypes
<1>4. n \in Nat /\ flow \in Seq(Def) /\ TypeOK BY DEF TypeInv, TypeOK
<1>5. expr \in Seq(PlainSet) /\ expr \in Seq(StepSet)
  <2>1. expr \in Seq(PlainSet) BY <1>3, <1>4, ExprPlain
  <2> QED BY <2>1, PlainSteps
<1>6. /\ Runs(unit, n, expr, Expects(flow, Operands(t)))
      /\ First(expr, Expects(flow, Operands(t))) = next
  <2> HIDE DEF n
  <2> QED BY <1>3, <1>4, ExprRuns
<1>7. /\ steps \in Seq(PlainSet)
      /\ Runs(unit, n, steps, next) /\ First(steps, next) = next
  <2>1. CASE t = Void BY <1>5, <1>6, <2>1 DEF Operands
  <2>2. CASE t # Void
    <3> DEFINE cmd == Unload(t)
    <3>1. t \in DataType /\ Operands(t) = <<t>> BY <1>3, <2>2 DEF Operands
    <3>2. Append(expr, Step(cmd, flow, <<t>>)) \in Seq(PlainSet) /\ cmd \in Cmd
      BY <1>5, <3>1, CmdTypes, PlainCmds, AppendPlain
    <3>3. Live => Executes(unit, n + Len(expr) + 1, cmd, Expects(flow, <<t>>), next)
      <4>1. Pops(<<t>>, t, <<>>) BY PopsOne
      <4> HIDE DEF n
      <4> QED BY <4>1, PopExecutes
    <3>4. steps = Append(expr, Step(cmd, flow, <<t>>)) BY <2>2
    <3> HIDE DEF cmd, n, steps
    <3>5. /\ Runs(unit, n, Append(expr, Step(cmd, flow, <<t>>)), next)
          /\ First(Append(expr, Step(cmd, flow, <<t>>)), next) = Expects(flow, <<>>)
      BY <1>4, <1>5, <1>6, <3>1, <3>2, <3>3, ThenRuns
    <3> QED BY <3>2, <3>4, <3>5
  <2> QED BY <2>1, <2>2
<1>8. UNCHANGED <<unit, flow, scopes, defined, phase>> /\ ArgsVisited
  BY DEF VisitExprStmt, CanVisit
<1>9. next \in Layout /\ next = [live |-> Live, flow |-> flow', operands |-> <<>>]
  BY <1>4, <1>8, NextTypes DEF Expects
<1>10. Generate(steps, {}, next) BY <1>2
<1> HIDE DEF steps, next
<1>11. steps \in Seq(StepSet) /\ \A k \in DOMAIN steps : steps[k].cmd.op \notin JumpOp
  BY <1>7, PlainSteps
<1>12. First(steps, next) = Expects(flow, <<>>) BY <1>7 DEF next
<1> QED BY <1>7, <1>8, <1>9, <1>10, <1>11, <1>12, SameScopesLayout

(* A continue brings what the condition of its loop expects. *)
LEMMA ContinueLayout ==
  ASSUME TypeInv, JumpsInv, LayoutInv, VisitContinue
  PROVE  LayoutInv'
<1>1. PICK i \in DOMAIN scopes :
        \/ Stop("crashed") \/ Stop("rejected")
        \/ /\ IsNearest("loop", i)
           /\ LET defs == GetLocalVarDefsUpToScope(i)
                  offset == OffsetTo(scopes[i].start_address, Here + Len(defs))
              IN  Generate(GenerateJumpCmdStart(defs, offset),
                           {}, Expects(flow, <<>>))
           /\ UNCHANGED <<unit, flow, scopes, defined, phase>>
  BY DEF VisitContinue, LeavesScopes
<1> DEFINE n == Len(code[unit])
           defs == GetLocalVarDefsUpToScope(i)
           start == scopes[i].start_address
           offset == OffsetTo(start, Here + Len(defs))
           steps == GenerateJumpCmdStart(defs, offset)
           next == Expects(flow, <<>>)
<1>2. CASE Stop("crashed") \/ Stop("rejected") BY <1>2, StopLayout DEF Stop
<1>3. CASE /\ IsNearest("loop", i) /\ Generate(steps, {}, next)
           /\ UNCHANGED <<unit, flow, scopes, defined, phase>>
  <2>1. /\ start \in 1..n + 1 /\ start \in Nat
        /\ layout[unit][start] = Behind(i)
    <3>1. scopes[i] \in Scope BY DEF TypeInv, TypeOK
    <3> QED BY <1>3, <3>1 DEF JumpsInv, LoopsStart, LayoutInv, LoopsFit, IsNearest, Scope
  <2>2. Here + Len(defs) \in Nat BY LeavingJumps
  <2>3. offset \in Int BY <2>1, <2>2 DEF OffsetTo
  <2>4. n \in Nat /\ flow \in Seq(Def) BY DEF TypeInv, TypeOK
  <2>5. /\ steps \in Seq(StepSet) /\ Len(defs) \in Nat
        /\ \A k \in DOMAIN steps : steps[k].cmd.op \in JumpOp =>
             /\ n + k = Here + Len(defs) /\ steps[k].cmd.offset = offset
    <3> HIDE DEF offset
    <3> QED BY <2>3, LeavingJumps
  <2>6. /\ Runs(unit, n, steps, next) /\ First(steps, next) = Expects(flow, <<>>)
        /\ steps[Len(defs) + 1].layout = Behind(i)
        /\ steps[Len(defs) + 1].cmd = DirectJump(offset)
    <3> HIDE DEF offset, n, next
    <3> QED BY <2>3, <2>4, LeavingRuns
  <2> HIDE DEF steps, start, defs
  <2>7. ASSUME NEW k \in DOMAIN steps, steps[k].cmd.op \in JumpOp
        PROVE  LET a == Target(n + k, steps[k].cmd) IN
               /\ steps[k].cmd.op = "DirectJump" /\ a \in 1..n + 1
               /\ layout[unit][a] = steps[k].layout
    <3>1. n + k = Here + Len(defs) /\ steps[k].cmd.offset = offset BY <2>5, <2>7
    <3>2. Target(n + k, steps[k].cmd) = start BY <2>1, <2>2, <3>1, OffsetLeads
    <3>3. k = Len(defs) + 1
      <4>1. Here = n + 1 /\ k \in Nat BY <2>5 DEF Here
      <4> HIDE DEF n
      <4> QED BY <2>4, <2>5, <3>1, <4>1
    <3> HIDE DEF n, offset
    <3> QED BY <2>1, <2>6, <3>2, <3>3 DEF DirectJump
  <2>8. UNCHANGED <<unit, scopes, defined>> /\ flow' = flow /\ ArgsVisited
    BY <1>3 DEF VisitContinue, CanVisit
  <2>9. next \in Layout /\ next = [live |-> Live, flow |-> flow', operands |-> <<>>]
    BY <2>4, <2>8, NextTypes DEF Expects
  <2> HIDE DEF next
  <2> QED BY <1>3, <2>5, <2>6, <2>7, <2>8, <2>9, SameScopesLayout
<1> HIDE DEF steps, next
<1> QED BY <1>1, <1>2, <1>3 DEF steps, next

-----------------------------------------------------------------------------
(* Arguments and returns                                                   *)

(* Directly in a function's body there is no loop, and no jump waits. *)
LEMMA TopScopes ==
  ASSUME TypeInv, JumpsInv, unit # Main, Len(scopes) = 2
  PROVE  /\ scopes[1].type = "global" /\ scopes[2].type = "func"
         /\ DOMAIN scopes = 1..2
         /\ \A i \in DOMAIN scopes : /\ i = 1 \/ i = 2
                                     /\ scopes[i].placeholders = {}
                                     /\ scopes[i].type # "loop"
<1>1. DOMAIN scopes = 1..2 /\ 1 \in 1..2 /\ 2 \in 1..2
  BY ScopeFacts
<1>2. \A i \in 1..2 : i = 1 \/ i = 2 OBVIOUS
<1>3. /\ scopes[1].type = "global" /\ scopes[1].placeholders = {}
      /\ scopes[2].type = "func" /\ scopes[2].placeholders = {}
  BY <1>1 DEF TypeInv, ScopesNest, JumpsInv, FuncsWait
<1> QED BY <1>1, <1>2, <1>3

(* Each argument takes its value from those that the caller left. *)
LEMMA ArgDefLayout ==
  ASSUME TypeInv, JumpsInv, LayoutInv, VisitArgDef
  PROVE  LayoutInv'
<1> DEFINE n == Len(code[unit])
           i == Here
           args == Args[unit]
           t == args[i]
           all == Reverse(args)
           left(k) == Prefix(all, Len(args) - k)
           d == NewDef(i, t)
           step == Step(CreateAndInitLocalVar(t), flow, left(i - 1))
           next == Expects(Append(flow, d), left(i))
<1>1. /\ Generate(<<step>>, {}, next) /\ flow' = Append(flow, d)
      /\ UNCHANGED <<unit, scopes, defined, phase>>
  BY DEF VisitArgDef
<1>2. /\ unit \in Func /\ unit # Main /\ ~ArgsVisited /\ ~(n >= Len(args))
      /\ unit \in Unit
  BY FuncsAssumption DEF VisitArgDef, ArgsVisited, TypeInv, TypeOK, Unit
<1>3. Len(scopes) = 2 BY <1>2 DEF LayoutInv, ArgsFirst
<1>4. args \in Seq(DataType) /\ Len(args) \in Nat BY <1>2, FuncsAssumption
<1>5. n \in Nat /\ flow \in Seq(Def) BY DEF TypeInv, TypeOK
<1>6. i = n + 1 /\ i \in 1..Len(args) /\ i \in Nat /\ i - 1 = n
  <2>1. i = n + 1 BY DEF Here
  <2> HIDE DEF i, n, args
  <2> QED BY <1>2, <1>4, <1>5, <2>1
<1>7. t \in DataType /\ d \in Def
  <2>1. t \in DataType BY <1>4, <1>6
  <2> HIDE DEF t, i
  <2> QED BY <1>6, <2>1, NewDefTypes
<1>8. d = [at |-> n + 1, type |-> t, index |-> SlotsCount(flow)]
  BY <1>6 DEF NewDef
<1>9. /\ all \in Seq(DataType) /\ Len(all) = Len(args)
      /\ \A k \in 1..Len(args) : all[k] = args[Len(args) - k + 1]
  <2>1. all \in Seq(DataType) /\ Len(all) = Len(args) BY <1>4, ReverseType
  <2> QED BY <2>1 DEF Reverse
<1> HIDE DEF d, i, n, t, all, args
<1>10. Pops(left(i - 1), t, left(i))
  <2> DEFINE m == Len(args) - (i - 1)
  <2>1. /\ m \in 1..Len(args) /\ m - 1 = Len(args) - i
        /\ Len(args) - m + 1 = i /\ m \in Nat
    BY <1>4, <1>6
  <2> HIDE DEF m
  <2>2. all[m] = t BY <1>9, <2>1 DEF t
  <2>3. /\ Prefix(all, m) # <<>> /\ Last(Prefix(all, m)) = all[m]
        /\ Front(Prefix(all, m)) = Prefix(all, m - 1)
    <3>1. all \in Seq(DataType) /\ m \in 1..Len(all) BY <1>9, <2>1
    <3>2. m \in 0..Len(all) BY <3>1
    <3>3. /\ Len(Prefix(all, m)) = m /\ Prefix(all, m)[m] = all[m]
      BY <3>1 DEF Prefix
    <3>4. Prefix(all, m) # <<>> BY <2>1, <3>3
    <3>5. Front(Prefix(all, m)) = Prefix(all, m - 1)
      <4>1. Prefix(all, m) = [k \in 1..m |-> all[k]] BY <3>1 DEF Prefix
      <4>2. Prefix(all, m - 1) = [k \in 1..m - 1 |-> all[k]] BY <3>1 DEF Prefix
      <4>3. Front(Prefix(all, m)) = [k \in 1..m - 1 |-> Prefix(all, m)[k]]
        BY <3>1, <3>3 DEF Front, Prefix
      <4>4. \A k \in 1..m - 1 : k \in 1..m BY <2>1
      <4> QED BY <4>1, <4>2, <4>3, <4>4
    <3> QED BY <3>3, <3>4, <3>5 DEF Last
  <2> QED BY <2>1, <2>2, <2>3 DEF Pops, m
<1>11. left(i - 1) \in OperandSeq /\ left(i) \in OperandSeq
  <2>1. /\ Len(args) - (i - 1) \in 0..Len(all) /\ Len(args) - i \in 0..Len(all)
    BY <1>4, <1>6, <1>9
  <2>2. left(i - 1) \in Seq(DataType) /\ left(i) \in Seq(DataType)
    BY <1>9, <2>1, PrefixType
  <2> QED BY <2>2 DEF OperandSeq
<1>12. End(unit) = Expects(flow, left(i - 1))
  BY <1>2, <1>6 DEF LayoutInv, LayoutEnds, ArgsLeft, n, args, all
<1> HIDE DEF left
<1>13. step.layout = Expects(flow, left(i - 1)) /\ step.cmd = CreateAndInitLocalVar(t)
  BY DEF Step
<1>14. step \in PlainSet /\ step \in StepSet
  <2>1. step \in PlainSet
    BY <1>5, <1>7, <1>11, CmdTypes, PlainCmds, PlainStep
  <2> QED BY <2>1 DEF PlainSet
<1>15. next \in Layout
  <2>1. Append(flow, d) \in Seq(Def) BY <1>5, <1>7
  <2> QED BY <1>11, <2>1, CmdTypes, StepType
<1>16. step.layout.live => Executes(unit, n + 1, step.cmd, step.layout, next)
  BY <1>8, <1>10, <1>13, ExpectsParts, CreateExecutes
<1> HIDE DEF step, next
<1>17. /\ Runs(unit, n, <<step>>, next) /\ First(<<step>>, next) = End(unit)
  BY <1>5, <1>12, <1>13, <1>16, RunsOne
<1>18. /\ <<step>> \in Seq(StepSet)
       /\ \A k \in DOMAIN <<step>> : <<step>>[k].cmd.op \notin JumpOp
  <2>1. <<step>> \in Seq(PlainSet) BY <1>14, TupleType
  <2> QED BY <2>1, PlainSteps
<1>19. CodeKeepsLayout'
  <2>1. {} \in SUBSET Placeholders OBVIOUS
  <2>2. \A p \in {} : layout[unit][p].live => Left(unit, p) = next OBVIOUS
  <2>3. unit' = unit BY <1>1
  <2>4. Runs(unit, Len(code[unit]), <<step>>, next) BY <1>17 DEF n
  <2>5. CodeKeepsLayout BY DEF LayoutInv
  <2> QED BY <1>1, <1>15, <1>17, <1>18, <2>1, <2>2, <2>3, <2>4, <2>5, GenerateLayout
<1>20. /\ Len(code'[unit]) = n + 1 /\ layout'[unit][n + 1 + 1] = next
       /\ \A u \in Unit : u # unit => code'[u] = code[u] /\ layout'[u] = layout[u]
  <2>1. {} \in SUBSET Placeholders /\ Len(<<step>>) = 1 OBVIOUS
  <2>2. /\ Len(code'[unit]) = n + Len(<<step>>)
        /\ layout'[unit][n + Len(<<step>>) + 1] = next
        /\ \A u \in Unit : u # unit => code'[u] = code[u] /\ layout'[u] = layout[u]
    <3>1. DOMAIN code'[unit] = 1..n + Len(<<step>>) /\ Len(code'[unit]) = n + Len(<<step>>)
      BY <1>1, <1>15, <1>18, <2>1, LayoutAfter DEF n
    <3> QED BY <1>1, <1>15, <1>18, <2>1, <3>1, LayoutAfter DEF n
  <2> QED BY <2>1, <2>2
<1>21. Live' = Live BY <1>1 DEF Live
<1>22. ArgsLeft' = left(i)
  <2>1. ArgsVisited' <=> i >= Len(args)
    BY <1>1, <1>2, <1>6, <1>20 DEF ArgsVisited, args
  <2>2. CASE i >= Len(args)
    <3>1. Len(args) - i = 0 BY <1>4, <1>6, <2>2
    <3>2. Prefix(all, 0) = <<>> BY <1>9, PrefixGrows
    <3> QED BY <2>1, <2>2, <3>1, <3>2 DEF ArgsLeft, left
  <2>3. CASE ~(i >= Len(args))
    BY <1>1, <1>6, <1>20, <2>1, <2>3 DEF ArgsLeft, left, args, all
  <2> QED BY <2>2, <2>3
<1>23. LayoutEnds'
  <2>1. End(unit)' = next BY <1>1, <1>20 DEF End
  <2>2. Expects(flow, ArgsLeft)' = next BY <1>1, <1>21, <1>22 DEF Expects, next
  <2>3. ASSUME NEW u \in Unit, u # unit PROVE End(u)' = End(u)
    BY <1>20, <2>3 DEF End
  <2>4. End(Main)' = [live |-> TRUE, flow |-> <<>>, operands |-> <<>>]
    BY <1>2, <2>3 DEF LayoutInv, LayoutEnds, Unit
  <2>5. ASSUME NEW f \in defined PROVE ~End(f)'.live
    <3>1. f \in Unit /\ f # unit
      BY FuncsAssumption, <1>2 DEF TypeInv, TypeOK, ScopesNest, Unit
    <3> QED BY <2>3, <3>1 DEF LayoutInv, LayoutEnds
  <2> QED BY <1>1, <2>1, <2>2, <2>4, <2>5 DEF LayoutEnds, End
<1>24. /\ scopes[1].type = "global" /\ scopes[2].type = "func"
       /\ DOMAIN scopes = 1..2
       /\ \A k \in DOMAIN scopes : /\ k = 1 \/ k = 2
                                   /\ scopes[k].placeholders = {}
                                   /\ scopes[k].type # "loop"
  BY <1>2, <1>3, TopScopes
<1>25. FlowFits'
  <2>1. ScopeEnd(1)' = ScopeEnd(1) BY <1>1, <1>3 DEF ScopeEnd
  <2> QED BY <1>1, <1>24, <2>1 DEF LayoutInv, FlowFits
<1>26. ArgsFirst' /\ LoopsFit' /\ PlaceholdersFit'
  BY <1>1, <1>3, <1>24 DEF ArgsFirst, LoopsFit, PlaceholdersFit
<1>27. EntriesFit'
  <2>1. {} \in SUBSET Placeholders /\ unit' = unit BY <1>1
  <2>2. \A p \in 1..Len(code[unit]) + 1 : layout'[unit][p] = layout[unit][p]
    BY <1>1, <1>15, <1>17, <1>18, <2>1, OldLayout
  <2>3. 1 \in 1..Len(code[unit]) + 1 BY <1>5 DEF n
  <2>4. layout'[unit][1] = layout[unit][1] BY <2>2, <2>3
  <2>5. \A u \in Unit : layout'[u][1] = layout[u][1] BY <1>20, <2>4
  <2> QED BY <2>5 DEF LayoutInv, EntriesFit
<1> QED BY <1>19, <1>23, <1>25, <1>26, <1>27 DEF LayoutInv

(* A return destroys what the function has defined by then.                *)
LEMMA ReturnLayout ==
  ASSUME TypeInv, JumpsInv, LayoutInv, CanVisit, NEW t \in DataType \cup {Void},
         NEW value \in Seq(PlainSet),
         Runs(unit, Len(code[unit]), value, Expects(flow, Operands(t))),
         First(value, Expects(flow, Operands(t))) = Expects(flow, <<>>),
         VisitReturn(t, value)
  PROVE  LayoutInv'
<1> DEFINE n == Len(code[unit])
           defs == GetLocalVarDefsUpToScope(2)
           exit == GenerateReturnCmd(defs, Operands(Result[unit]))
           steps == value \o exit
           last == Len(scopes)
           next == [live |-> Live /\ CurrentScope.type # "func",
                    flow |-> flow, operands |-> <<>>]
<1>1. \/ Stop("crashed") \/ Stop("rejected")
      \/ /\ unit # Main /\ Result[unit] = t
         /\ scopes' = [scopes EXCEPT ![last].has_return = TRUE]
         /\ Generate(steps, {}, next)
         /\ UNCHANGED <<unit, flow, defined, phase>>
  BY DEF VisitReturn, FlowScope
<1>2. CASE Stop("crashed") \/ Stop("rejected") BY <1>2, StopLayout DEF Stop
<1>3. CASE /\ unit # Main /\ Result[unit] = t
           /\ scopes' = [scopes EXCEPT ![last].has_return = TRUE]
           /\ Generate(steps, {}, next)
           /\ UNCHANGED <<unit, flow, defined, phase>>
  <2>1. unit \in Func /\ 2 \in DOMAIN scopes /\ 1 \in DOMAIN scopes /\ last # 1
    <3>1. last \in Nat /\ last > 1 /\ DOMAIN scopes = 1..last
      BY <1>3, ScopeFacts DEF TypeInv, ScopesNest
    <3> HIDE DEF last
    <3> QED BY <1>3, <3>1 DEF TypeInv, TypeOK, Unit
  <2>2. scopes[2].start = 0
    <3>1. scopes[1].type = "global" /\ scopes[1].start = 0
      BY DEF TypeInv, ScopesNest
    <3>2. ScopeEnd(1) = 0 BY <2>1, <3>1 DEF LayoutInv, FlowFits
    <3> QED BY <2>1, <3>2 DEF ScopeEnd
  <2>3. n \in Nat /\ flow \in Seq(Def) /\ Len(value) \in Nat /\ scopes \in Seq(Scope)
    BY DEF TypeInv, TypeOK
  <2>4. value \in Seq(StepSet) BY PlainSteps
  <2>5. /\ Runs(unit, n + Len(value), exit, next)
        /\ First(exit, next) = Expects(flow, Operands(t))
        /\ exit \in Seq(StepSet)
    <3>1. n + Len(value) \in Nat BY <2>3
    <3> HIDE DEF n, next
    <3> QED BY <1>3, <2>1, <2>2, <3>1, ReturnRuns
  <2>6. exit \in Seq(PlainSet)
    <3>1. defs \in Seq(Def) /\ Len(defs) <= Len(flow) BY <2>1, DefsTypes
    <3> HIDE DEF defs
    <3>2. Operands(Result[unit]) \in OperandSeq
      BY <1>3, OperandTypes DEF Operands
    <3> QED BY <2>3, <3>1, <3>2, ReturnPlain
  <2> HIDE DEF exit, defs
  <2>7. Runs(unit, n, steps, next) /\ First(steps, next) = Expects(flow, <<>>)
    <3>1. Runs(unit, n, value, First(exit, next)) BY <2>5
    <3> HIDE DEF next, n
    <3>2. /\ Runs(unit, n, value \o exit, next)
          /\ First(value \o exit, next) = First(value, First(exit, next))
      BY <2>3, <2>4, <2>5, <3>1, RunsConcat
    <3> QED BY <2>5, <3>2
  <2>8. steps \in Seq(PlainSet) BY <2>6, Concat
  <2> HIDE DEF steps
  <2>9. steps \in Seq(StepSet) /\ \A k \in DOMAIN steps : steps[k].cmd.op \notin JumpOp
    BY <2>8, PlainSteps
  <2>10. /\ DOMAIN scopes' = DOMAIN scopes /\ Len(scopes') = Len(scopes)
         /\ \A i \in DOMAIN scopes :
              /\ scopes'[i].type = scopes[i].type
              /\ scopes'[i].start = scopes[i].start
              /\ scopes'[i].start_address = scopes[i].start_address
              /\ scopes'[i].placeholders = scopes[i].placeholders
              /\ scopes'[i].has_return = (i = last \/ scopes[i].has_return)
    <3>1. \A i \in DOMAIN scopes : scopes[i] \in Scope BY <2>3
    <3>2. DOMAIN scopes' = DOMAIN scopes BY <1>3
    <3>3. Len(scopes') = Len(scopes) BY <1>3, <2>3
    <3> HIDE DEF last
    <3>4. ASSUME NEW i \in DOMAIN scopes
          PROVE  /\ scopes'[i].type = scopes[i].type
                 /\ scopes'[i].start = scopes[i].start
                 /\ scopes'[i].start_address = scopes[i].start_address
                 /\ scopes'[i].placeholders = scopes[i].placeholders
                 /\ scopes'[i].has_return = (i = last \/ scopes[i].has_return)
      <4>1. scopes[i] \in Scope BY <3>1
      <4>2. CASE i = last BY <1>3, <4>1, <4>2 DEF Scope
      <4>3. CASE i # last BY <1>3, <4>1, <4>3 DEF Scope
      <4> QED BY <4>2, <4>3
    <3> QED BY <3>2, <3>3, <3>4
  <2>11. last \in DOMAIN scopes /\ CurrentScope = scopes[last] BY ScopeFacts
  <2>12. Live' = (Live /\ CurrentScope.type # "func")
    <3> HIDE DEF last
    <3> QED BY <2>10, <2>11 DEF Live
  <2>13. next = [live |-> Live', flow |-> flow', operands |-> <<>>]
    BY <1>3, <2>12
  <2>14. next \in Layout BY <2>3 DEF Layout, Live
  <2>15. ScopesFit(steps, next)
    <3>1. CASE CurrentScope.type = "func"
      <4>1. last = 2 BY <2>11, <3>1 DEF TypeInv, ScopesNest
      <4>2. \A i \in DOMAIN scopes : /\ scopes[i].placeholders = {}
                                     /\ scopes[i].type # "loop"
        BY <1>3, <4>1, TopScopes
      <4> HIDE DEF last, next
      <4> QED BY <2>10, <4>2 DEF ScopesFit
    <3>2. CASE CurrentScope.type # "func"
      <4>1. Live' = Live BY <2>12, <3>2 DEF Live
      <4> HIDE DEF last, next
      <4>2. \A i \in DOMAIN scopes : KeepsScope(i)
        BY <1>3, <2>10, <4>1, BehindParts DEF KeepsScope
      <4> QED BY <2>10, <4>2 DEF ScopesFit
    <3> QED BY <3>1, <3>2
  <2>16. FlowFits'
    <3>1. \A i \in DOMAIN scopes : ScopeEnd(i)' = ScopeEnd(i)
      <4> TAKE i \in DOMAIN scopes
      <4>1. CASE i = Len(scopes) BY <1>3, <2>10, <4>1 DEF ScopeEnd
      <4>2. CASE i # Len(scopes)
        <5>1. i + 1 \in DOMAIN scopes
          <6>1. DOMAIN scopes = 1..Len(scopes) /\ Len(scopes) \in Nat BY <2>3
          <6> QED BY <4>2, <6>1
        <5> QED BY <2>10, <4>2, <5>1 DEF ScopeEnd
      <4> QED BY <4>1, <4>2
    <3> QED BY <2>10, <3>1 DEF LayoutInv, FlowFits
  <2>17. UNCHANGED <<unit, defined>> /\ ArgsVisited BY <1>3 DEF CanVisit
  <2>18. Runs(unit, Len(code[unit]), steps, next) BY <2>7
  <2>19. {} \in SUBSET Placeholders
         /\ \A p \in {} : layout[unit][p].live => Left(unit, p) = next
    OBVIOUS
  <2> HIDE DEF next, n, last
  <2> QED BY <1>3, <2>7, <2>9, <2>13, <2>14, <2>15, <2>16, <2>17, <2>18, <2>19,
             StatementLayout
<1> HIDE DEF next, steps
<1> QED BY <1>1, <1>2, <1>3

-----------------------------------------------------------------------------
(* Scopes that open and close                                              *)

(* A condition is taken by the jump behind it, whichever way it goes. *)
LEMMA CondRuns ==
  ASSUME TypeInv, NEW cond \in Exprs(Bool), NEW u, NEW base \in Nat
  PROVE  LET steps == Append(cond, Step(JumpIfNot(Unwritten), flow, <<Bool>>))
             next == Expects(flow, <<>>)
         IN  /\ Runs(u, base, steps, next) /\ First(steps, next) = next
             /\ Len(cond) + 1 \in DOMAIN steps
             /\ Brings(steps, Len(cond) + 1, next) = next
             /\ \A k \in DOMAIN steps :
                  steps[k].cmd.op \in JumpOp => steps[k].cmd.offset = Unwritten
<1> DEFINE cmd == JumpIfNot(Unwritten)
           jump == Step(cmd, flow, <<Bool>>)
           steps == Append(cond, jump)
           next == Expects(flow, <<>>)
<1>1. /\ cond \in Seq(PlainSet) /\ cond \in Seq(StepSet) /\ TypeOK
      /\ flow \in Seq(Def) /\ Len(cond) \in Nat
  <2>1. cond \in Seq(PlainSet) BY SomeTypes, ExprPlain DEF TypeInv
  <2> QED BY <2>1, PlainSteps DEF TypeInv, TypeOK
<1>2. Bool \in DataType /\ Operands(Bool) = <<Bool>> /\ Bool \in DataType \cup {Void}
  BY SomeTypes, DataTypesAssumption DEF Operands
<1>3. /\ Runs(u, base, cond, Expects(flow, <<Bool>>))
      /\ First(cond, Expects(flow, <<Bool>>)) = next
  BY <1>1, <1>2, ExprRuns
<1>4. Live => Executes(u, base + Len(cond) + 1, cmd, Expects(flow, <<Bool>>), next)
  BY PopsOne, PopExecutes
<1>5. cmd \in Cmd /\ cmd.op = "JumpIfNot" /\ cmd.offset = Unwritten
  BY CmdTypes DEF JumpIfNot
<1>6. jump \in StepSet /\ jump.cmd = cmd
  <2>1. jump \in StepSet BY <1>1, <1>2, <1>5, StepType, OperandTypes
  <2> QED BY <2>1 DEF Step
<1> HIDE DEF cmd
<1>7. Runs(u, base, steps, next) /\ First(steps, next) = next
  <2>1. /\ Runs(u, base, Append(cond, Step(cmd, flow, <<Bool>>)), next)
        /\ First(Append(cond, Step(cmd, flow, <<Bool>>)), next) = Expects(flow, <<>>)
    BY <1>1, <1>2, <1>3, <1>4, <1>5, ThenRuns
  <2> QED BY <2>1
<1> HIDE DEF jump
<1>8. /\ Len(steps) = Len(cond) + 1 /\ DOMAIN steps = 1..Len(cond) + 1
      /\ steps[Len(cond) + 1] = jump
  BY <1>1, <1>6, AppendParts
<1>9. \A k \in DOMAIN steps :
        steps[k].cmd.op \in JumpOp => k = Len(cond) + 1 /\ steps[k] = jump
  BY <1>1, <1>6, LastJumps
<1> HIDE DEF steps, next
<1>10. Brings(steps, Len(cond) + 1, next) = next
  BY <1>5, <1>6, <1>8 DEF Brings, After
<1>11. Len(cond) + 1 \in DOMAIN steps BY <1>1, <1>8
<1> QED BY <1>5, <1>6, <1>7, <1>9, <1>10, <1>11 DEF steps, next, jump, cmd

(* Scopes are opened above the others, at the end of the flow. *)
LEMMA OpenLayout ==
  ASSUME TypeInv, LayoutInv, flow' = flow,
         \A i \in DOMAIN scopes : i \in DOMAIN scopes' /\ scopes'[i] = scopes[i],
         DOMAIN scopes' = 1..Len(scopes'), Len(scopes') \in Nat,
         \A i \in DOMAIN scopes' :
           \/ i \in DOMAIN scopes
           \/ scopes'[i].start = Len(flow) /\ scopes'[i].type # "func"
  PROVE  /\ Live' = Live /\ FlowFits'
         /\ \A i \in DOMAIN scopes : KeepsScope(i) /\ scopes'[i] = scopes[i]
         /\ \A i \in DOMAIN scopes' :
              i \in DOMAIN scopes \/ Behind(i)' = Expects(flow, <<>>)
<1>1. /\ DOMAIN scopes = 1..Len(scopes) /\ Len(scopes) \in Nat
      /\ flow \in Seq(Def) /\ Len(flow) \in Nat
  BY ScopeFacts DEF TypeInv, TypeOK
<1>2. Len(scopes) <= Len(scopes')
  <2>1. CASE Len(scopes) = 0 BY <2>1
  <2>2. CASE Len(scopes) # 0
    <3>1. Len(scopes) \in DOMAIN scopes BY <1>1, <2>2
    <3>2. Len(scopes) \in 1..Len(scopes') BY <3>1
    <3> QED BY <1>1, <3>2
  <2> QED BY <2>1, <2>2
<1>3. Live' = Live BY LiveKept
<1>4. \A i \in DOMAIN scopes : KeepsScope(i) /\ scopes'[i] = scopes[i]
  BY <1>3, BehindParts DEF KeepsScope
<1>5. \A i \in DOMAIN scopes' :
        i \in DOMAIN scopes \/ Behind(i)' = Expects(flow, <<>>)
  <2>1. Prefix(flow, Len(flow)) = flow BY <1>1, PrefixGrows
  <2> QED BY <1>3, <2>1, BehindParts DEF Expects
<1>6. ASSUME NEW i \in DOMAIN scopes', scopes'[i].type \in {"global", "branches"}
      PROVE  ScopeEnd(i)' = scopes'[i].start
  <2>1. ScopeEnd(i)' = IF i = Len(scopes') THEN Len(flow) ELSE scopes'[i + 1].start
    BY DEF ScopeEnd
  <2>2. i = Len(scopes') \/ i + 1 \in DOMAIN scopes'
    BY <1>6
  <2>3. CASE i \in DOMAIN scopes /\ i # Len(scopes)
    <3>1. i + 1 \in DOMAIN scopes /\ i # Len(scopes') BY <1>1, <1>2, <2>3
    <3>2. ScopeEnd(i) = scopes[i].start BY <1>6, <2>3 DEF LayoutInv, FlowFits
    <3> QED BY <2>1, <2>3, <3>1, <3>2 DEF ScopeEnd
  <2>4. CASE i = Len(scopes) \/ i \notin DOMAIN scopes
    <3>1. scopes'[i].start = Len(flow)
      <4>1. CASE i \in DOMAIN scopes
        <5>1. ScopeEnd(i) = scopes[i].start BY <1>6, <4>1 DEF LayoutInv, FlowFits
        <5> QED BY <2>4, <4>1, <5>1 DEF ScopeEnd
      <4> QED BY <4>1
    <3>2. i # Len(scopes') => scopes'[i + 1].start = Len(flow)
      <4>1. i + 1 \notin DOMAIN scopes BY <1>1, <1>6, <2>4
      <4> QED BY <2>2, <4>1
    <3> QED BY <2>1, <3>1, <3>2
  <2> QED BY <2>3, <2>4
<1>7. FlowFits' BY <1>6 DEF FlowFits
<1> QED BY <1>3, <1>4, <1>5, <1>7

(* A loop begins: what its condition expects is left behind it, too. *)
LEMMA LoopLayout ==
  ASSUME TypeInv, JumpsInv, LayoutInv, VisitPreTestLoop
  PROVE  LayoutInv'
<1> DEFINE n == Len(code[unit])
           next == Expects(flow, <<>>)
<1>1. PICK cond \in Exprs(Bool) :
        /\ Generate(Append(cond, Step(JumpIfNot(Unwritten), flow, <<Bool>>)), {}, next)
        /\ scopes' = Append(scopes, NewScope("loop", Len(flow), Here,
                                             {Here + Len(cond)}))
  BY DEF VisitPreTestLoop
<1>2. UNCHANGED <<unit, flow, defined, phase>> /\ ArgsVisited
  BY DEF VisitPreTestLoop, CanNest, CanVisit
<1> DEFINE steps == Append(cond, Step(JumpIfNot(Unwritten), flow, <<Bool>>))
           s == NewScope("loop", Len(flow), Here, {Here + Len(cond)})
<1>3. /\ steps \in Seq(StepSet) /\ Here + Len(cond) = n + (Len(cond) + 1)
      /\ Here + Len(cond) \in Nat
  BY CondSteps
<1>4. n \in Nat /\ flow \in Seq(Def) /\ Len(flow) \in Nat /\ Here \in Nat
  BY DEF TypeInv, TypeOK, Here
<1>5. /\ Runs(unit, n, steps, next) /\ First(steps, next) = next
      /\ Len(cond) + 1 \in DOMAIN steps
      /\ Brings(steps, Len(cond) + 1, next) = next
      /\ \A k \in DOMAIN steps :
           steps[k].cmd.op \in JumpOp => steps[k].cmd.offset = Unwritten
  <2> HIDE DEF n
  <2> QED BY <1>4, CondRuns
<1>6. /\ s \in Scope /\ s.type = "loop" /\ s.placeholders = {Here + Len(cond)}
      /\ s.start = Len(flow) /\ s.start_address = Here
  BY <1>3, <1>4 DEF NewScope, Scope, ScopeType
<1>7. Generate(steps, {}, next) /\ scopes' = Append(scopes, s) BY <1>1
<1> HIDE DEF steps, s, next
<1>8. /\ DOMAIN scopes' = 1..Len(scopes) + 1 /\ DOMAIN scopes = 1..Len(scopes)
      /\ \A i \in DOMAIN scopes : scopes'[i] = scopes[i]
      /\ scopes'[Len(scopes) + 1] = s /\ Len(scopes) \in Nat
      /\ Len(scopes') = Len(scopes) + 1
  <2>1. scopes \in Seq(Scope) /\ DOMAIN scopes = 1..Len(scopes)
    BY ScopeFacts DEF TypeInv, TypeOK
  <2> QED BY <1>6, <1>7, <2>1, AppendParts
<1>9. \A i \in DOMAIN scopes' : i \in DOMAIN scopes \/ i = Len(scopes) + 1
  BY <1>8
<1>10. /\ Live' = Live /\ FlowFits'
       /\ \A i \in DOMAIN scopes : KeepsScope(i) /\ scopes'[i] = scopes[i]
       /\ \A i \in DOMAIN scopes' :
            i \in DOMAIN scopes \/ Behind(i)' = Expects(flow, <<>>)
  <2>1. \A i \in DOMAIN scopes : i \in DOMAIN scopes' /\ scopes'[i] = scopes[i]
    BY <1>8
  <2>2. \A i \in DOMAIN scopes' :
          \/ i \in DOMAIN scopes
          \/ scopes'[i].start = Len(flow) /\ scopes'[i].type # "func"
    BY <1>6, <1>8, <1>9
  <2>3. DOMAIN scopes' = 1..Len(scopes') /\ Len(scopes') \in Nat BY <1>8
  <2> QED BY <1>2, <2>1, <2>2, <2>3, OpenLayout
<1>11. ScopesFit(steps, next)
  <2>1. ASSUME NEW i \in DOMAIN scopes', i \notin DOMAIN scopes
        PROVE  /\ scopes'[i].start_address = Here /\ Behind(i)' = Expects(flow, <<>>)
               /\ \A p \in scopes'[i].placeholders : p = n + (Len(cond) + 1)
    BY <1>3, <1>6, <1>8, <1>9, <1>10, <2>1
  <2> QED BY <1>5, <1>10, <2>1 DEF ScopesFit, next, n
<1>12. next \in Layout /\ next = [live |-> Live', flow |-> flow', operands |-> <<>>]
  BY <1>2, <1>4, <1>10, NextTypes DEF Expects, next
<1>13. {} \in SUBSET Placeholders
       /\ \A p \in {} : layout[unit][p].live => Left(unit, p) = next
  OBVIOUS
<1>14. First(steps, next) = Expects(flow, <<>>) BY <1>5 DEF next
<1> QED BY <1>2, <1>3, <1>5, <1>7, <1>10, <1>11, <1>12, <1>13, <1>14, StatementLayout

(* A break brings what is left behind its loop. *)
LEMMA BreakLayout ==
  ASSUME TypeInv, JumpsInv, LayoutInv, VisitBreak
  PROVE  LayoutInv'
<1>1. PICK i \in DOMAIN scopes :
        \/ Stop("crashed") \/ Stop("rejected")
        \/ LET defs == GetLocalVarDefsUpToScope(i)
           IN  /\ Generate(GenerateJumpCmdStart(defs, Unwritten),
                           {}, Expects(flow, <<>>))
               /\ scopes' = [scopes EXCEPT ![i].placeholders =
                               @ \cup {Here + Len(defs)}]
               /\ UNCHANGED <<unit, flow, defined, phase>>
  BY DEF VisitBreak
<1> DEFINE n == Len(code[unit])
           defs == GetLocalVarDefsUpToScope(i)
           steps == GenerateJumpCmdStart(defs, Unwritten)
           next == Expects(flow, <<>>)
<1>2. CASE Stop("crashed") \/ Stop("rejected") BY <1>2, StopLayout DEF Stop
<1>3. CASE /\ Generate(steps, {}, next)
           /\ scopes' = [scopes EXCEPT ![i].placeholders = @ \cup {Here + Len(defs)}]
           /\ UNCHANGED <<unit, flow, defined, phase>>
  <2>1. n \in Nat /\ flow \in Seq(Def) /\ scopes \in Seq(Scope) BY DEF TypeInv, TypeOK
  <2>2. /\ steps \in Seq(StepSet) /\ Len(defs) \in Nat
        /\ \A k \in DOMAIN steps : steps[k].cmd.op \in JumpOp =>
             steps[k].cmd.offset = Unwritten
    BY LeavingJumps
  <2>3. /\ Runs(unit, n, steps, next) /\ First(steps, next) = Expects(flow, <<>>)
        /\ steps[Len(defs) + 1].layout = Behind(i)
        /\ steps[Len(defs) + 1].cmd = DirectJump(Unwritten)
        /\ Len(steps) = Len(defs) + 1
    <3> HIDE DEF n, next
    <3> QED BY <2>1, LeavingRuns
  <2> HIDE DEF steps, defs
  <2>4. Here + Len(defs) = n + (Len(defs) + 1) BY <2>2, JumpAddress
  <2>5. Len(defs) + 1 \in DOMAIN steps BY <2>2, <2>3
  <2> HIDE DEF n, next
  <2>6. Brings(steps, Len(defs) + 1, next) = Behind(i)
    BY <2>3 DEF Brings, DirectJump
  <2>7. /\ DOMAIN scopes' = DOMAIN scopes /\ Len(scopes') = Len(scopes)
        /\ \A j \in DOMAIN scopes :
             /\ scopes'[j].type = scopes[j].type
             /\ scopes'[j].start = scopes[j].start
             /\ scopes'[j].start_address = scopes[j].start_address
             /\ scopes'[j].has_return = scopes[j].has_return
             /\ \A p \in scopes'[j].placeholders :
                  p \in scopes[j].placeholders \/ (j = i /\ p = n + (Len(defs) + 1))
    <3>1. DOMAIN scopes' = DOMAIN scopes /\ Len(scopes') = Len(scopes)
      BY <1>3, <2>1
    <3>2. ASSUME NEW j \in DOMAIN scopes
          PROVE  /\ scopes'[j].type = scopes[j].type
                 /\ scopes'[j].start = scopes[j].start
                 /\ scopes'[j].start_address = scopes[j].start_address
                 /\ scopes'[j].has_return = scopes[j].has_return
                 /\ \A p \in scopes'[j].placeholders :
                      p \in scopes[j].placeholders \/ (j = i /\ p = n + (Len(defs) + 1))
      <4>1. scopes[j] \in Scope BY <2>1
      <4>2. CASE j = i BY <1>3, <2>4, <4>1, <4>2 DEF Scope
      <4>3. CASE j # i BY <1>3, <4>1, <4>3 DEF Scope
      <4> QED BY <4>2, <4>3
    <3> QED BY <3>1, <3>2
  <2>8. Live' = Live BY <2>7, LiveKept
  <2>9. \A j \in DOMAIN scopes : KeepsScope(j)
    BY <1>3, <2>7, <2>8, BehindParts DEF KeepsScope
  <2>10. ScopesFit(steps, next)
    <3>1. Behind(i)' = Behind(i) BY <2>9 DEF KeepsScope
    <3> QED BY <2>5, <2>6, <2>7, <2>9, <3>1 DEF ScopesFit, n
  <2>11. FlowFits'
    <3>1. \A j \in DOMAIN scopes : ScopeEnd(j)' = ScopeEnd(j)
      <4> TAKE j \in DOMAIN scopes
      <4>1. CASE j = Len(scopes) BY <1>3, <2>7, <4>1 DEF ScopeEnd
      <4>2. CASE j # Len(scopes)
        <5>1. j + 1 \in DOMAIN scopes
          <6>1. DOMAIN scopes = 1..Len(scopes) /\ Len(scopes) \in Nat BY <2>1
          <6> QED BY <4>2, <6>1
        <5> QED BY <2>7, <4>2, <5>1 DEF ScopeEnd
      <4> QED BY <4>1, <4>2
    <3> QED BY <2>7, <3>1 DEF LayoutInv, FlowFits
  <2>12. next \in Layout /\ next = [live |-> Live', flow |-> flow', operands |-> <<>>]
    BY <1>3, <2>1, <2>8, NextTypes DEF Expects, next
  <2>13. UNCHANGED <<unit, defined>> /\ ArgsVisited BY <1>3 DEF VisitBreak, CanVisit
  <2>14. {} \in SUBSET Placeholders
         /\ \A p \in {} : layout[unit][p].live => Left(unit, p) = next
    OBVIOUS
  <2>15. Runs(unit, Len(code[unit]), steps, next) BY <2>3 DEF n
  <2> QED BY <1>3, <2>2, <2>3, <2>10, <2>11, <2>12, <2>13, <2>14, <2>15, StatementLayout
<1> HIDE DEF steps, next
<1> QED BY <1>1, <1>2, <1>3 DEF steps, next

(* A prefix of a prefix. *)
LEMMA PrefixTwice ==
  ASSUME NEW S, NEW s \in Seq(S), NEW m \in 0..Len(s), NEW n \in 0..m
  PROVE  Prefix(Prefix(s, m), n) = Prefix(s, n)
<1>1. Prefix(s, m) = [i \in 1..m |-> s[i]] /\ Len(Prefix(s, m)) = m BY DEF Prefix
<1>2. Prefix(s, n) = [i \in 1..n |-> s[i]] BY DEF Prefix
<1>3. Prefix(Prefix(s, m), n) = [i \in 1..n |-> Prefix(s, m)[i]]
  BY <1>1 DEF Prefix
<1>4. \A i \in 1..n : i \in 1..m OBVIOUS
<1> QED BY <1>1, <1>2, <1>3, <1>4

(* The scopes above the k-th are closed, and their variables leave the flow. *)
LEMMA CloseLayout ==
  ASSUME TypeInv, LayoutInv, NEW k \in 1..Len(scopes) - 1, unit # Main => k > 1,
         scopes[k + 1].start = CurrentScope.start,
         flow' = Prefix(flow, CurrentScope.start),
         DOMAIN scopes' = 1..k, Len(scopes') = k,
         \A i \in 1..k : /\ scopes'[i].type = scopes[i].type
                         /\ scopes'[i].start = scopes[i].start
                         /\ scopes'[i].start_address = scopes[i].start_address
                         /\ scopes'[i].has_return = scopes[i].has_return
  PROVE  /\ Live' = Live /\ FlowFits'
         /\ \A i \in 1..k : i \in DOMAIN scopes /\ KeepsScope(i)
<1>1. /\ DOMAIN scopes = 1..Len(scopes) /\ Len(scopes) \in Nat
      /\ flow \in Seq(Def) /\ CurrentScope = scopes[Len(scopes)]
      /\ CurrentScope.start \in 0..Len(flow) /\ scopes \in Seq(Scope)
  BY ScopeFacts DEF TypeInv, TypeOK
<1>2. \A i \in 1..k : i \in DOMAIN scopes /\ i + 1 \in DOMAIN scopes /\ i # Len(scopes)
  <2>1. DOMAIN scopes = 1..Len(scopes) /\ Len(scopes) \in Nat BY <1>1
  <2> TAKE i \in 1..k
  <2>2. i \in Nat /\ 1 <= i /\ i <= Len(scopes) - 1 BY <2>1
  <2>3. i \in 1..Len(scopes) /\ i + 1 \in 1..Len(scopes) /\ i # Len(scopes)
    <3>1. \A m \in Nat : i <= m - 1 => i \in 1..m /\ i + 1 \in 1..m /\ i # m
      BY <2>2
    <3> QED BY Zenon, <2>1, <2>2, <3>1
  <2> QED BY <2>1, <2>3
<1>3. Live' = Live
  <2>1. \A i \in DOMAIN scopes : scopes[i].type = "func" => i = 2 /\ unit # Main
    BY DEF TypeInv, ScopesNest
  <2>2. unit # Main => 2 \in 1..k OBVIOUS
  <2> QED BY <1>2, <2>1, <2>2, LiveKept
<1>4. \A i \in 1..k : Prefix(flow', scopes'[i].start) = Prefix(flow, scopes[i].start)
  <2> TAKE i \in 1..k
  <2>1. scopes[i].start \in Nat /\ scopes[i].start <= CurrentScope.start
    <3>1. scopes[i] \in Scope BY <1>1, <1>2
    <3>2. i \in 1..Len(scopes) /\ Len(scopes) \in DOMAIN scopes BY Zenon, <1>1, <1>2, ScopeFacts
    <3> QED BY <1>1, <3>1, <3>2 DEF TypeInv, ScopesNest, Scope
  <2>2. scopes[i].start \in 0..CurrentScope.start
    <3>1. CurrentScope.start \in Nat BY <1>1
    <3> QED BY <2>1, <3>1
  <2> QED BY <1>1, <2>2, PrefixTwice
<1>5. \A i \in 1..k : KeepsScope(i)
  BY <1>2, <1>3, <1>4, BehindParts DEF KeepsScope
<1>6. ASSUME NEW i \in DOMAIN scopes', scopes'[i].type \in {"global", "branches"}
      PROVE  ScopeEnd(i)' = scopes'[i].start
  <2>1. scopes[i + 1].start = scopes[i].start
    BY <1>2, <1>6 DEF LayoutInv, FlowFits, ScopeEnd
  <2>2. CASE i = k
    <3>1. Len(flow') = CurrentScope.start BY <1>1, PrefixType
    <3>2. ScopeEnd(i)' = Len(flow') BY <2>2 DEF ScopeEnd
    <3> QED BY <2>1, <2>2, <3>1, <3>2
  <2>3. CASE i # k
    <3>1. i + 1 \in 1..k BY <1>6, <2>3
    <3>2. ScopeEnd(i)' = scopes'[i + 1].start BY <2>3 DEF ScopeEnd
    <3> QED BY <1>6, <2>1, <3>1, <3>2
  <2> QED BY <2>2, <2>3
<1>7. FlowFits' BY <1>6 DEF FlowFits
<1> QED BY <1>2, <1>3, <1>5, <1>7

(* A loop ends, where its condition and its breaks expect to leave it. *)
LEMMA EndLoopLayout ==
  ASSUME TypeInv, JumpsInv, LayoutInv, EndPreTestLoop
  PROVE  LayoutInv'
<1> DEFINE n == Len(code[unit])
           last == Len(scopes)
           defs == GetLocalVarDefsUpToScope(last)
           outer == Prefix(flow, CurrentScope.start)
           start == CurrentScope.start_address
           offset == OffsetTo(start, Here + Len(defs))
           steps == GenerateJumpCmdStart(defs, offset)
           next == Expects(outer, <<>>)
           ph == CurrentScope.placeholders
<1>1. /\ Generate(steps, ph, next) /\ flow' = outer
      /\ scopes' = Front(scopes) /\ UNCHANGED <<unit, defined, phase>>
      /\ ArgsVisited /\ CurrentScope.type = "loop"
  BY DEF EndPreTestLoop, CanEnd
<1>2. /\ last \in DOMAIN scopes /\ CurrentScope = scopes[last] /\ last \in Nat \ {0}
      /\ CurrentScope \in Scope /\ DOMAIN scopes = 1..last
  BY ScopeFacts
<1>3. /\ start \in 1..n + 1 /\ start \in Nat /\ layout[unit][start] = Behind(last)
  BY <1>1, <1>2 DEF JumpsInv, LoopsStart, LayoutInv, LoopsFit, Scope
<1>4. Here + Len(defs) \in Nat BY <1>2, LeavingJumps
<1>5. offset \in Int BY <1>3, <1>4 DEF OffsetTo
<1>6. n \in Nat /\ flow \in Seq(Def) /\ scopes \in Seq(Scope) BY DEF TypeInv, TypeOK
<1>7. /\ steps \in Seq(StepSet) /\ Len(defs) \in Nat
      /\ \A k \in DOMAIN steps : steps[k].cmd.op \in JumpOp =>
           /\ n + k = Here + Len(defs) /\ steps[k].cmd.offset = offset
  <2> HIDE DEF offset, last
  <2> QED BY <1>2, <1>5, LeavingJumps
<1>8. /\ Runs(unit, n, steps, next) /\ First(steps, next) = Expects(flow, <<>>)
      /\ steps[Len(defs) + 1].layout = Behind(last)
      /\ steps[Len(defs) + 1].cmd = DirectJump(offset)
  <2> HIDE DEF offset, n, next, last
  <2> QED BY <1>2, <1>5, <1>6, LeavingRuns
<1> HIDE DEF steps, start, defs
<1>9. ASSUME NEW k \in DOMAIN steps, steps[k].cmd.op \in JumpOp
      PROVE  LET a == Target(n + k, steps[k].cmd) IN
             /\ steps[k].cmd.op = "DirectJump" /\ a \in 1..n + 1
             /\ layout[unit][a] = steps[k].layout
  <2>1. n + k = Here + Len(defs) /\ steps[k].cmd.offset = offset BY <1>7, <1>9
  <2>2. Target(n + k, steps[k].cmd) = start BY <1>3, <1>4, <2>1, OffsetLeads
  <2>3. k = Len(defs) + 1
    <3>1. Here = n + 1 /\ k \in Nat BY <1>7 DEF Here
    <3> HIDE DEF n
    <3> QED BY <1>6, <1>7, <2>1, <3>1
  <2> HIDE DEF n, offset
  <2> QED BY <1>3, <1>8, <2>2, <2>3 DEF DirectJump
<1>10. /\ DOMAIN scopes' = 1..last - 1 /\ Len(scopes') = last - 1
       /\ \A i \in 1..last - 1 : scopes'[i] = scopes[i]
  BY <1>1, <1>2, <1>6 DEF Front
<1>11. last - 1 \in 1..Len(scopes) - 1 /\ (unit # Main => last - 1 > 1)
  <2>1. last # 1 /\ (unit # Main => last # 2 /\ last > 1)
    BY <1>1, <1>2 DEF TypeInv, ScopesNest
  <2>2. last \in Nat BY <1>2
  <2> HIDE DEF last
  <2>3. last - 1 \in 1..last - 1 /\ (unit # Main => last - 1 > 1)
    BY <1>2, <2>1, <2>2
  <2> QED BY <2>3 DEF last
<1>12. /\ Live' = Live /\ FlowFits'
       /\ \A i \in 1..last - 1 : i \in DOMAIN scopes /\ KeepsScope(i)
  <2>1. scopes[last - 1 + 1].start = CurrentScope.start BY <1>2
  <2> QED BY <1>1, <1>10, <1>11, <2>1, CloseLayout
<1>13. outer \in Seq(Def) /\ next = Behind(last) BY <1>2, DefsTypes DEF Behind
<1>14. next \in Layout /\ next = [live |-> Live', flow |-> flow', operands |-> <<>>]
  BY <1>1, <1>12, <1>13, NextTypes DEF Expects
<1> HIDE DEF next, outer, last
<1>15. ScopesFit(steps, next)
  <2>1. \A i \in DOMAIN scopes' : KeepsScope(i) /\ scopes'[i] = scopes[i]
    BY <1>10, <1>12
  <2> QED BY <2>1 DEF ScopesFit
<1>16. /\ ph \in SUBSET Placeholders
       /\ \A p \in ph : layout[unit][p].live => Left(unit, p) = next
  BY <1>2, <1>13 DEF Placeholders, LayoutInv, PlaceholdersFit
<1>17. /\ UNCHANGED <<unit, defined>> /\ Generate(steps, ph, next)
       /\ ArgsVisited
  BY <1>1
<1>18. Runs(unit, Len(code[unit]), steps, next) BY <1>8
<1> HIDE DEF ph
<1> QED BY <1>7, <1>8, <1>9, <1>12, <1>14, <1>15, <1>16, <1>17, <1>18, StatementLayout

(* In a body that is not a function's own the arguments are behind. *)
LEMMA BodyArgs ==
  ASSUME TypeInv, LayoutInv, CurrentScope.type = "branches"
  PROVE  ArgsVisited
<1>1. CASE unit = Main BY <1>1 DEF ArgsVisited
<1>2. CASE unit # Main
  <2>1. CurrentScope = scopes[Len(scopes)] /\ Len(scopes) \in DOMAIN scopes BY ScopeFacts
  <2>2. Len(scopes) # 2 BY <1>2, <2>1 DEF TypeInv, ScopesNest
  <2> QED BY <2>2 DEF LayoutInv, ArgsFirst
<1> QED BY <1>1, <1>2

(* A body begins, and notes the jump over it. *)
LEMMA IfLayout ==
  ASSUME TypeInv, JumpsInv, LayoutInv, VisitIf
  PROVE  LayoutInv'
<1> DEFINE n == Len(code[unit])
           next == Expects(flow, <<>>)
           base == IF CurrentScope.type = "branches" THEN scopes
                   ELSE Append(scopes, NewScope("branches", Len(flow), 0, {}))
<1>1. PICK cond \in Exprs(Bool) :
        /\ Generate(Append(cond, Step(JumpIfNot(Unwritten), flow, <<Bool>>)), {}, next)
        /\ scopes' = base \o <<NewScope("common", Len(flow), 0, {Here + Len(cond)})>>
  BY DEF VisitIf
<1>2. UNCHANGED <<unit, flow, defined, phase>> /\ ArgsVisited
  BY BodyArgs DEF VisitIf, CanNest, CanVisit
<1> DEFINE steps == Append(cond, Step(JumpIfNot(Unwritten), flow, <<Bool>>))
           s == NewScope("common", Len(flow), 0, {Here + Len(cond)})
           b == NewScope("branches", Len(flow), 0, {})
<1>3. /\ steps \in Seq(StepSet) /\ Here + Len(cond) = n + (Len(cond) + 1)
      /\ Here + Len(cond) \in Nat
  BY CondSteps
<1>4. /\ n \in Nat /\ flow \in Seq(Def) /\ Len(flow) \in Nat
      /\ scopes \in Seq(Scope) /\ DOMAIN scopes = 1..Len(scopes) /\ Len(scopes) \in Nat
  BY ScopeFacts DEF TypeInv, TypeOK
<1>5. /\ Runs(unit, n, steps, next) /\ First(steps, next) = next
      /\ Len(cond) + 1 \in DOMAIN steps
      /\ Brings(steps, Len(cond) + 1, next) = next
      /\ \A k \in DOMAIN steps :
           steps[k].cmd.op \in JumpOp => steps[k].cmd.offset = Unwritten
  <2> HIDE DEF n
  <2> QED BY <1>4, CondRuns
<1>6. /\ s \in Scope /\ s.type = "common" /\ s.placeholders = {Here + Len(cond)}
      /\ s.start = Len(flow)
      /\ b \in Scope /\ b.type = "branches" /\ b.placeholders = {}
      /\ b.start = Len(flow)
  BY <1>3, <1>4 DEF NewScope, Scope, ScopeType
<1>7. Generate(steps, {}, next) /\ scopes' = base \o <<s>> BY <1>1
<1>8. base = scopes \/ base = Append(scopes, b) OBVIOUS
<1> HIDE DEF steps, s, b, base, next
<1>9. /\ base \in Seq(Scope) /\ Len(base) \in Nat /\ DOMAIN base = 1..Len(base)
      /\ \A i \in DOMAIN scopes : i \in DOMAIN base /\ base[i] = scopes[i]
      /\ \A i \in DOMAIN base : i \in DOMAIN scopes \/ base[i] = b
  <2>1. CASE base = scopes BY <1>4, <2>1
  <2>2. CASE base = Append(scopes, b)
    <3>1. /\ Append(scopes, b) \in Seq(Scope)
          /\ Len(Append(scopes, b)) = Len(scopes) + 1
          /\ DOMAIN Append(scopes, b) = 1..Len(scopes) + 1
          /\ \A i \in 1..Len(scopes) : Append(scopes, b)[i] = scopes[i]
          /\ Append(scopes, b)[Len(scopes) + 1] = b
      BY <1>4, <1>6, AppendParts
    <3>2. \A i \in 1..Len(scopes) + 1 : i \in 1..Len(scopes) \/ i = Len(scopes) + 1
      BY <1>4
    <3> QED BY <1>4, <2>2, <3>1, <3>2
  <2> QED BY <1>8, <2>1, <2>2
<1>10. /\ DOMAIN scopes' = 1..Len(base) + 1 /\ scopes'[Len(base) + 1] = s
       /\ Len(scopes') = Len(base) + 1
       /\ \A i \in DOMAIN base : scopes'[i] = base[i]
  <2>1. scopes' = Append(base, s) BY <1>6, <1>7, <1>9
  <2> QED BY <1>6, <1>9, <2>1, AppendParts
<1>11. \A i \in DOMAIN scopes' :
         \/ i \in DOMAIN scopes /\ scopes'[i] = scopes[i]
         \/ scopes'[i] = b \/ scopes'[i] = s
  <2>1. \A i \in 1..Len(base) + 1 : i \in 1..Len(base) \/ i = Len(base) + 1
    BY <1>9
  <2> QED BY <1>9, <1>10, <2>1
<1>12. /\ Live' = Live /\ FlowFits'
       /\ \A i \in DOMAIN scopes : KeepsScope(i) /\ scopes'[i] = scopes[i]
       /\ \A i \in DOMAIN scopes' :
            i \in DOMAIN scopes \/ Behind(i)' = Expects(flow, <<>>)
  <2>1. \A i \in DOMAIN scopes : i \in DOMAIN scopes' /\ scopes'[i] = scopes[i]
    BY <1>9, <1>10
  <2>2. \A i \in DOMAIN scopes' :
          \/ i \in DOMAIN scopes
          \/ scopes'[i].start = Len(flow) /\ scopes'[i].type # "func"
    BY <1>6, <1>11
  <2>3. DOMAIN scopes' = 1..Len(scopes') /\ Len(scopes') \in Nat BY <1>9, <1>10
  <2> QED BY <1>2, <2>1, <2>2, <2>3, OpenLayout
<1>13. ScopesFit(steps, next)
  <2>1. ASSUME NEW i \in DOMAIN scopes', i \notin DOMAIN scopes
        PROVE  /\ scopes'[i].type # "loop" /\ Behind(i)' = Expects(flow, <<>>)
               /\ \A p \in scopes'[i].placeholders : p = n + (Len(cond) + 1)
    BY <1>3, <1>6, <1>11, <1>12, <2>1
  <2> QED BY <1>5, <1>12, <2>1 DEF ScopesFit, next, n
<1>14. next \in Layout /\ next = [live |-> Live', flow |-> flow', operands |-> <<>>]
  BY <1>2, <1>4, <1>12, NextTypes DEF Expects, next
<1>15. {} \in SUBSET Placeholders
       /\ \A p \in {} : layout[unit][p].live => Left(unit, p) = next
  OBVIOUS
<1>16. First(steps, next) = Expects(flow, <<>>) BY <1>5 DEF next
<1> QED BY <1>2, <1>3, <1>5, <1>7, <1>12, <1>13, <1>14, <1>15, <1>16, StatementLayout

(* An else begins without code. *)
LEMMA ElseLayout ==
  ASSUME TypeInv, JumpsInv, LayoutInv, VisitElse
  PROVE  LayoutInv'
<1> DEFINE s == NewScope("common", Len(flow), 0, {})
<1>1. /\ scopes' = Append(scopes, s) /\ UNCHANGED <<unit, code, flow, defined, phase, layout>>
      /\ CurrentScope.type = "branches"
  BY DEF VisitElse
<1>2. /\ s.type = "common" /\ s.placeholders = {} /\ s \in Scope
      /\ s.start = Len(flow)
  <2>1. Len(flow) \in Nat BY ScopeFacts
  <2> QED BY <2>1 DEF NewScope, Scope, ScopeType
<1> HIDE DEF s
<1>3. /\ DOMAIN scopes' = 1..Len(scopes) + 1 /\ DOMAIN scopes = 1..Len(scopes)
      /\ \A i \in DOMAIN scopes : scopes'[i] = scopes[i]
      /\ scopes'[Len(scopes) + 1] = s /\ Len(scopes) \in Nat
      /\ Len(scopes') = Len(scopes) + 1
  <2>1. scopes \in Seq(Scope) /\ DOMAIN scopes = 1..Len(scopes)
    BY ScopeFacts DEF TypeInv, TypeOK
  <2> QED BY <1>1, <1>2, <2>1, AppendParts
<1>4. \A i \in DOMAIN scopes' : i \in DOMAIN scopes \/ i = Len(scopes) + 1
  BY <1>3
<1>5. /\ Live' = Live /\ FlowFits'
      /\ \A i \in DOMAIN scopes : KeepsScope(i) /\ scopes'[i] = scopes[i]
  <2>1. \A i \in DOMAIN scopes : i \in DOMAIN scopes' /\ scopes'[i] = scopes[i]
    BY <1>3
  <2>2. \A i \in DOMAIN scopes' :
          \/ i \in DOMAIN scopes
          \/ scopes'[i].start = Len(flow) /\ scopes'[i].type # "func"
    BY <1>2, <1>3, <1>4
  <2>3. DOMAIN scopes' = 1..Len(scopes') /\ Len(scopes') \in Nat BY <1>3
  <2> QED BY <1>1, <2>1, <2>2, <2>3, OpenLayout
<1>6. ArgsVisited /\ ArgsVisited' /\ ArgsLeft' = ArgsLeft
  BY <1>1, BodyArgs DEF ArgsVisited, ArgsLeft
<1>7. LayoutEnds' /\ ArgsFirst'
  <2>1. \A u : End(u)' = End(u) BY <1>1 DEF End
  <2> QED BY <1>1, <1>5, <1>6, <2>1 DEF LayoutInv, LayoutEnds, ArgsFirst, Expects
<1>8. \A u, p : Left(u, p)' = Left(u, p) BY <1>1 DEF Left
<1>9. LoopsFit' /\ PlaceholdersFit'
  BY <1>1, <1>2, <1>3, <1>4, <1>5, <1>8
     DEF LayoutInv, LoopsFit, PlaceholdersFit, KeepsScope
<1>10. CodeKeepsLayout'
  BY <1>1 DEF LayoutInv, CodeKeepsLayout, CmdKeepsLayout, Arrives, Left, Target
<1>11. EntriesFit' BY <1>1 DEF LayoutInv, EntriesFit
<1> QED BY <1>5, <1>7, <1>9, <1>10, <1>11 DEF LayoutInv

(* Another branch follows: the jump over the body expects to find what the *)
(* body began with, and the jump at its end to leave the if statement.     *)
LEMMA EndIfBodyLayout ==
  ASSUME TypeInv, JumpsInv, LayoutInv, EndIfBody
  PROVE  LayoutInv'
<1> DEFINE n == Len(code[unit])
           last == Len(scopes)
           k == last - 1
           defs == GetLocalVarDefsUpToScope(last)
           outer == Prefix(flow, CurrentScope.start)
           steps == GenerateJumpCmdStart(defs, Unwritten)
           next == Expects(outer, <<>>)
           sc == Prefix(scopes, k)
           ph == CurrentScope.placeholders
<1>1. /\ Generate(steps, ph, next) /\ flow' = outer
      /\ scopes' = [sc EXCEPT ![k].placeholders = @ \cup {Here + Len(defs)}]
      /\ UNCHANGED <<unit, defined, phase>>
      /\ ArgsVisited /\ CurrentScope.type = "common"
  BY DEF EndIfBody, CanEnd, Front, Prefix
<1>2. /\ last \in DOMAIN scopes /\ CurrentScope = scopes[last]
      /\ DOMAIN scopes = 1..last /\ scopes \in Seq(Scope) /\ last \in Nat
      /\ n \in Nat
  BY ScopeFacts DEF TypeInv, TypeOK
<1>3. k \in 1..last - 1 /\ k \in Nat /\ scopes[k].type = "branches" /\ (unit # Main => k > 1)
  <2>1. k \in 1..Len(scopes) - 1 /\ scopes[k].type = "branches" BY <1>1, BodyFacts
  <2>2. k \in DOMAIN scopes BY <1>2, <2>1
  <2>3. k # 1 BY <2>1 DEF TypeInv, ScopesNest
  <2> HIDE DEF k, last
  <2> QED BY <2>1, <2>3 DEF last
<1>4. /\ steps \in Seq(StepSet) /\ Len(defs) \in Nat
      /\ \A j \in DOMAIN steps : steps[j].cmd.op \in JumpOp =>
           steps[j].cmd.offset = Unwritten
  BY <1>2, LeavingJumps
<1>5. /\ Runs(unit, n, steps, next) /\ First(steps, next) = Expects(flow, <<>>)
      /\ steps[Len(defs) + 1].layout = Behind(last)
      /\ steps[Len(defs) + 1].cmd = DirectJump(Unwritten)
      /\ Len(steps) = Len(defs) + 1
  <2> HIDE DEF n, next, last
  <2> QED BY <1>2, LeavingRuns
<1>6. Len(defs) + 1 \in DOMAIN steps
  <2> HIDE DEF steps, defs
  <2> QED BY <1>4, <1>5
<1>7. Here + Len(defs) = n + (Len(defs) + 1)
  <2> HIDE DEF defs
  <2> QED BY <1>4, JumpAddress
<1> HIDE DEF steps, defs
<1>8. Brings(steps, Len(defs) + 1, next) = Behind(last)
  BY <1>5 DEF Brings, DirectJump
<1>9. scopes[k + 1].start = CurrentScope.start /\ scopes[k].start = CurrentScope.start
  <2>1. k + 1 = last /\ k # last
    <3>1. \A m \in Nat : m - 1 + 1 = m /\ m - 1 # m OBVIOUS
    <3> QED BY Zenon, <1>2, <3>1
  <2>2. k \in DOMAIN scopes
    <3> HIDE DEF k
    <3> QED BY <1>2, <1>3
  <2>3. ScopeEnd(k) = scopes[k].start
    BY <1>3, <2>2 DEF LayoutInv, FlowFits
  <2> HIDE DEF k
  <2> HIDE DEF last
  <2>4. CurrentScope = scopes[last] BY <1>2
  <2>5. ScopeEnd(k) = scopes[k + 1].start BY <2>1 DEF ScopeEnd, last
  <2> QED BY ONLY <2>1, <2>3, <2>4, <2>5
<1>10. outer \in Seq(Def) /\ next = Behind(last) /\ next = Behind(k)
  BY <1>2, <1>9, DefsTypes DEF Behind
<1>11. /\ sc \in Seq(Scope) /\ DOMAIN sc = 1..k /\ Len(sc) = k
       /\ \A j \in 1..k : j \in DOMAIN scopes /\ sc[j] = scopes[j]
  <2>1. k \in 0..Len(scopes) BY <1>2, <1>3
  <2> HIDE DEF k
  <2>2. sc \in Seq(Scope) BY <1>2, <2>1, PrefixType
  <2>3. DOMAIN sc = 1..k /\ Len(sc) = k /\ \A j \in 1..k : sc[j] = scopes[j]
    BY <1>2, <2>1 DEF Prefix
  <2> QED BY <1>2, <2>1, <2>2, <2>3
<1> HIDE DEF sc
<1>12. /\ DOMAIN scopes' = 1..k /\ Len(scopes') = k
       /\ \A j \in 1..k :
            /\ scopes'[j].type = scopes[j].type
            /\ scopes'[j].start = scopes[j].start
            /\ scopes'[j].start_address = scopes[j].start_address
            /\ scopes'[j].has_return = scopes[j].has_return
            /\ \A p \in scopes'[j].placeholders :
                 p \in scopes[j].placeholders \/ (j = k /\ p = n + (Len(defs) + 1))
  <2>1. DOMAIN scopes' = 1..k /\ Len(scopes') = k BY <1>1, <1>11
  <2> HIDE DEF k
  <2>2. ASSUME NEW j \in 1..k
        PROVE  /\ scopes'[j].type = scopes[j].type
               /\ scopes'[j].start = scopes[j].start
               /\ scopes'[j].start_address = scopes[j].start_address
               /\ scopes'[j].has_return = scopes[j].has_return
               /\ \A p \in scopes'[j].placeholders :
                    p \in scopes[j].placeholders \/ (j = k /\ p = n + (Len(defs) + 1))
    <3>1. sc[j] \in Scope /\ sc[j] = scopes[j] BY <1>11
    <3>2. CASE j = k BY <1>1, <1>7, <1>11, <3>1, <3>2 DEF Scope
    <3>3. CASE j # k BY <1>1, <1>11, <3>1, <3>3 DEF Scope
    <3> QED BY <3>2, <3>3
  <2> QED BY <2>1, <2>2
<1>13. /\ Live' = Live /\ FlowFits'
       /\ \A j \in 1..k : j \in DOMAIN scopes /\ KeepsScope(j)
  <2>1. k \in 1..Len(scopes) - 1 BY <1>3
  <2>2. flow' = Prefix(flow, CurrentScope.start) BY <1>1
  <2> HIDE DEF k, outer
  <2> QED BY <1>3, <1>9, <1>12, <2>1, <2>2, CloseLayout
<1>14. next \in Layout /\ next = [live |-> Live', flow |-> flow', operands |-> <<>>]
  BY <1>1, <1>10, <1>13, NextTypes DEF Expects
<1> HIDE DEF next, outer, last
<1>15. ScopesFit(steps, next)
  <2>1. PICK m \in Nat : m = k BY <1>3
  <2> HIDE DEF k
  <2>2. m \in 1..k BY <1>3, <2>1
  <2>3. Behind(m)' = Behind(m) BY <1>13, <2>2 DEF KeepsScope
  <2>4. Brings(steps, Len(defs) + 1, next) = Behind(m)' BY <1>8, <1>10, <2>1, <2>3
  <2>5. \A j \in DOMAIN scopes' : KeepsScope(j) BY <1>12, <1>13
  <2>6. \A j \in DOMAIN scopes' : \A p \in scopes'[j].placeholders :
          p \in scopes[j].placeholders \/ (j = m /\ p = n + (Len(defs) + 1))
    BY <1>12, <2>1
  <2> QED BY <1>6, <2>4, <2>5, <2>6 DEF ScopesFit, n
<1>16. /\ ph \in SUBSET Placeholders
       /\ \A p \in ph : layout[unit][p].live => Left(unit, p) = next
  BY <1>2, <1>10 DEF Placeholders, LayoutInv, PlaceholdersFit
<1>17. /\ UNCHANGED <<unit, defined>> /\ Generate(steps, ph, next)
       /\ ArgsVisited
  BY <1>1
<1>18. Runs(unit, Len(code[unit]), steps, next) BY <1>5
<1> HIDE DEF ph
<1> QED BY <1>4, <1>5, <1>13, <1>14, <1>15, <1>16, <1>17, <1>18, StatementLayout

(* An if statement ends, where its jumps expect to leave it. *)
LEMMA EndBranchesLayout ==
  ASSUME TypeInv, JumpsInv, LayoutInv, EndBranches
  PROVE  LayoutInv'
<1> DEFINE n == Len(code[unit])
           last == Len(scopes)
           b == last - 1
           k == last - 2
           defs == GetLocalVarDefsUpToScope(last)
           outer == Prefix(flow, CurrentScope.start)
           steps == GenerateDestroyLocalVarCmds(defs, <<>>)
           next == Expects(outer, <<>>)
           ph == CurrentScope.placeholders \cup scopes[b].placeholders
<1>1. /\ Generate(steps, ph, next) /\ flow' = outer
      /\ scopes' = Prefix(scopes, k)
      /\ UNCHANGED <<unit, defined, phase>>
      /\ ArgsVisited /\ CurrentScope.type = "common"
  BY DEF EndBranches, CanEnd
<1>2. /\ last \in DOMAIN scopes /\ CurrentScope = scopes[last]
      /\ DOMAIN scopes = 1..last /\ scopes \in Seq(Scope) /\ last \in Nat
      /\ n \in Nat /\ flow \in Seq(Def)
  BY ScopeFacts DEF TypeInv, TypeOK
<1>3. /\ k \in 1..last - 1 /\ k \in Nat /\ b \in DOMAIN scopes /\ scopes[b].type = "branches"
      /\ (unit # Main => k > 1) /\ k + 1 = b /\ b + 1 = last /\ b # last
  <2>1. /\ k \in 1..Len(scopes) - 1 /\ b \in DOMAIN scopes
        /\ scopes[b].type = "branches" /\ (unit # Main => k > 1)
    <3>1. CurrentScope.type = "common" BY <1>1
    <3> QED BY ONLY TypeInv, <3>1, BodyFacts
  <2>2. k + 1 = b /\ b + 1 = last /\ b # last
    <3>1. \A m \in Nat : m - 2 + 1 = m - 1 /\ m - 1 + 1 = m /\ m - 1 # m OBVIOUS
    <3> QED BY Zenon, <1>2, <3>1
  <2>3. unit # Main => b # 2 BY <2>1 DEF TypeInv, ScopesNest
  <2> HIDE DEF k, b, last
  <2> QED BY <2>1, <2>2, <2>3 DEF last
<1>4. /\ steps \in Seq(StepSet)
      /\ \A j \in DOMAIN steps : steps[j].cmd.op \notin JumpOp
  <2>1. defs \in Seq(Def) /\ Len(defs) <= Len(flow) BY <1>2, DefsTypes
  <2> HIDE DEF defs
  <2>2. steps \in Seq(PlainSet) BY <1>2, <2>1, DestroyPlain, OperandTypes
  <2> HIDE DEF steps
  <2> QED BY <2>2, PlainSteps
<1>5. Runs(unit, n, steps, next) /\ First(steps, next) = Expects(flow, <<>>)
  <2> HIDE DEF n, last
  <2> QED BY <1>2, DestroysRun
<1> HIDE DEF steps, defs
<1>6. scopes[b].start = CurrentScope.start
  <2>1. ScopeEnd(b) = scopes[b].start BY Zenon, <1>3 DEF LayoutInv, FlowFits
  <2> HIDE DEF b
  <2> QED BY <1>2, <1>3, <2>1 DEF ScopeEnd
<1>7. outer \in Seq(Def) /\ next = Behind(last) /\ next = Behind(b)
  BY <1>2, <1>6, DefsTypes DEF Behind
<1> HIDE DEF b
<1>8. /\ DOMAIN scopes' = 1..k /\ Len(scopes') = k
      /\ \A j \in 1..k : scopes'[j] = scopes[j]
  <2>1. k \in 0..Len(scopes) BY <1>2, <1>3
  <2> HIDE DEF k
  <2> QED BY <1>1, <1>2, <2>1 DEF Prefix
<1>9. /\ Live' = Live /\ FlowFits'
      /\ \A j \in 1..k : j \in DOMAIN scopes /\ KeepsScope(j)
  <2>1. k \in 1..Len(scopes) - 1 BY <1>3
  <2>2. flow' = Prefix(flow, CurrentScope.start) BY <1>1
  <2>3. scopes[k + 1].start = CurrentScope.start BY <1>3, <1>6
  <2> HIDE DEF k, outer
  <2> QED BY <1>3, <1>8, <2>1, <2>2, <2>3, CloseLayout
<1>10. next \in Layout /\ next = [live |-> Live', flow |-> flow', operands |-> <<>>]
  BY <1>1, <1>7, <1>9, NextTypes DEF Expects
<1> HIDE DEF next, outer, last, k
<1>11. ScopesFit(steps, next) BY <1>8, <1>9 DEF ScopesFit
<1>12. /\ ph \in SUBSET Placeholders
       /\ \A p \in ph : layout[unit][p].live => Left(unit, p) = next
  BY <1>2, <1>3, <1>7 DEF Placeholders, LayoutInv, PlaceholdersFit
<1>13. /\ UNCHANGED <<unit, defined>> /\ Generate(steps, ph, next)
       /\ ArgsVisited
  BY <1>1
<1>14. Runs(unit, Len(code[unit]), steps, next) BY <1>5
<1> HIDE DEF ph
<1> QED BY <1>4, <1>5, <1>9, <1>10, <1>11, <1>12, <1>13, <1>14, StatementLayout

-----------------------------------------------------------------------------
(* Functions, and the end                                                  *)

(* Outside of everything nothing is left behind. *)
LEMMA OutsideLayout ==
  ASSUME TypeInv, JumpsInv, LayoutInv, CurrentScope.type = "global"
  PROVE  /\ Len(scopes) = 1 /\ unit = Main /\ flow = <<>>
         /\ scopes[1].type = "global" /\ scopes[1].start = 0
         /\ End(Main) = [live |-> TRUE, flow |-> <<>>, operands |-> <<>>]
<1>1. Len(scopes) = 1 /\ unit = Main BY OutsideJumps
<1>2. DOMAIN scopes = 1..1 /\ scopes[1].type = "global" /\ scopes[1].start = 0
  BY <1>1, ScopeFacts DEF TypeInv, ScopesNest
<1>3. flow = <<>>
  <2>1. ScopeEnd(1) = 0 BY <1>2 DEF LayoutInv, FlowFits
  <2>2. Len(flow) = 0 BY <1>1, <2>1 DEF ScopeEnd
  <2> QED BY <2>2 DEF TypeInv, TypeOK
<1>4. Live
  <2>1. \A i \in DOMAIN scopes : scopes[i].type # "func"
    BY <1>1 DEF TypeInv, ScopesNest
  <2> QED BY <2>1 DEF Live
<1>5. ArgsLeft = <<>> BY <1>1 DEF ArgsLeft, ArgsVisited
<1>6. End(Main) = Expects(<<>>, <<>>)
  BY <1>1, <1>3, <1>5 DEF LayoutInv, LayoutEnds
<1> QED BY <1>1, <1>2, <1>3, <1>4, <1>6 DEF Expects

(* A function begins with the arguments that its callers leave. *)
LEMMA FuncDefLayout ==
  ASSUME TypeInv, JumpsInv, LayoutInv, VisitFuncDef
  PROVE  LayoutInv'
<1> DEFINE s == NewScope("func", 0, 0, {})
<1>1. PICK f \in Func \ defined :
        /\ unit' = f
        /\ layout' = [layout EXCEPT ![f] =
             <<[live |-> TRUE, flow |-> <<>>, operands |-> Reverse(Args[f])]>>]
  BY DEF VisitFuncDef
<1>2. /\ scopes' = Append(scopes, s) /\ CurrentScope.type = "global"
      /\ UNCHANGED <<code, flow, defined, phase>>
  BY DEF VisitFuncDef
<1> DEFINE entry == [live |-> TRUE, flow |-> <<>>, operands |-> Reverse(Args[f])]
<1>3. /\ Len(scopes) = 1 /\ unit = Main /\ flow = <<>>
      /\ scopes[1].type = "global" /\ scopes[1].start = 0
      /\ End(Main) = [live |-> TRUE, flow |-> <<>>, operands |-> <<>>]
  BY <1>2, OutsideLayout
<1>4. f \in Unit /\ f # Main /\ code[f] = <<>> /\ Main \in Unit /\ Args[f] \in Seq(DataType)
  BY <1>1, <1>3, FuncsAssumption DEF TypeInv, OthersHaveNoCode, Unit
<1>5. /\ layout'[f] = <<entry>>
      /\ \A u \in Unit : u # f => layout'[u] = layout[u]
  BY <1>1, <1>4 DEF TypeInv, TypeOK
<1>6. /\ s.type = "func" /\ s.placeholders = {} /\ s \in Scope
      /\ s.start = 0 /\ s.has_return = FALSE
  BY DEF NewScope, Scope, ScopeType
<1> HIDE DEF s, entry
<1>7. /\ DOMAIN scopes' = 1..2 /\ Len(scopes') = 2
      /\ scopes'[1] = scopes[1] /\ scopes'[2] = s
  <2>1. scopes \in Seq(Scope) BY DEF TypeInv, TypeOK
  <2>2. /\ DOMAIN scopes' = 1..Len(scopes) + 1 /\ Len(scopes') = Len(scopes) + 1
        /\ \A i \in 1..Len(scopes) : scopes'[i] = scopes[i]
        /\ scopes'[Len(scopes) + 1] = s
    BY <1>2, <1>6, <2>1, AppendParts
  <2>3. 1 \in 1..Len(scopes) /\ Len(scopes) + 1 = 2 BY <1>3
  <2> QED BY <2>2, <2>3
<1>8. \A i \in DOMAIN scopes' : i = 1 \/ i = 2 BY <1>7
<1>9. Live' BY <1>3, <1>6, <1>7, <1>8 DEF Live
<1>10. ArgsLeft' = Reverse(Args[f])
  <2>1. Len(code[f]) = 0 BY <1>4
  <2>2. ArgsVisited' <=> 0 >= Len(Args[f])
    BY <1>1, <1>2, <1>4, <2>1 DEF ArgsVisited
  <2>3. Reverse(Args[f]) \in Seq(DataType) /\ Len(Reverse(Args[f])) = Len(Args[f])
    BY <1>4, ReverseType
  <2>4. Len(Args[f]) \in Nat BY <1>4
  <2>5. CASE ArgsVisited'
    <3>1. Len(Reverse(Args[f])) = 0 BY <2>2, <2>3, <2>4, <2>5
    <3>2. Reverse(Args[f]) = <<>> BY <2>3, <3>1
    <3> QED BY <2>5, <3>2 DEF ArgsLeft
  <2>6. CASE ~ArgsVisited'
    <3>1. ArgsLeft' = Prefix(Reverse(Args[f]), Len(Args[f]) - 0)
      BY <1>1, <1>2, <2>1, <2>6 DEF ArgsLeft
    <3>2. Len(Args[f]) - 0 = Len(Reverse(Args[f])) BY <2>3, <2>4
    <3> QED BY <2>3, <3>1, <3>2, PrefixGrows
  <2> QED BY <2>5, <2>6
<1>11. LayoutEnds'
  <2>1. End(f)' = entry
    <3>1. Len(code[f]) + 1 = 1 BY <1>4
    <3> QED BY <1>2, <1>5, <3>1 DEF End
  <2>2. Expects(flow, ArgsLeft)' = entry
    BY <1>2, <1>3, <1>9, <1>10 DEF Expects, entry
  <2>3. ASSUME NEW u \in Unit, u # f PROVE End(u)' = End(u)
    BY <1>2, <1>5, <2>3 DEF End
  <2>4. End(Main)' = [live |-> TRUE, flow |-> <<>>, operands |-> <<>>]
    BY <1>3, <1>4, <2>3
  <2>5. ASSUME NEW g \in defined PROVE ~End(g)'.live
    <3>1. g \in Unit /\ g # f BY <1>1 DEF TypeInv, TypeOK, Unit
    <3> QED BY <2>3, <3>1 DEF LayoutInv, LayoutEnds
  <2>6. End(unit)' = Expects(flow, ArgsLeft)' BY <1>1, <2>1, <2>2 DEF End
  <2>7. \A g \in defined' : ~End(g)'.live BY <1>2, <2>5
  <2> QED BY <2>4, <2>6, <2>7 DEF LayoutEnds
<1>12. ArgsFirst' BY <1>7 DEF ArgsFirst
<1>13. FlowFits'
  <2>1. ScopeEnd(1)' = 0 BY <1>6, <1>7 DEF ScopeEnd
  <2> QED BY <1>3, <1>6, <1>7, <1>8, <2>1 DEF FlowFits
<1>14. PlaceholdersFit' /\ LoopsFit'
  <2>1. scopes[1].placeholders = {} BY DEF TypeInv, ScopesNest
  <2> QED BY <1>3, <1>6, <1>7, <1>8, <2>1 DEF PlaceholdersFit, LoopsFit
<1>15. CodeKeepsLayout'
  <2>1. \A u \in Unit : \A p \in DOMAIN code[u] : layout'[u] = layout[u]
    <3>1. DOMAIN code[f] = {} BY <1>4
    <3> QED BY <1>5, <3>1
  <2> QED BY <1>2, <2>1
         DEF LayoutInv, CodeKeepsLayout, CmdKeepsLayout, Arrives, Left, Target
<1>16. EntriesFit'
  <2>1. layout'[f][1] = Entry(f)[1] BY <1>4, <1>5 DEF Entry, entry
  <2> QED BY <1>5, <2>1 DEF LayoutInv, EntriesFit
<1> QED BY <1>11, <1>12, <1>13, <1>14, <1>15, <1>16 DEF LayoutInv

(* Steps without jumps are added to a unit, which may be left with them. *)
LEMMA PlainLayout ==
  ASSUME TypeInv, CodeKeepsLayout, NEW w \in Unit, w = unit,
         NEW steps \in Seq(PlainSet), NEW next \in Layout, Generate(steps, {}, next),
         First(steps, next) = End(w), Runs(w, Len(code[w]), steps, next)
  PROVE  /\ CodeKeepsLayout' /\ End(w)' = next
         /\ \A u \in Unit : u # w => End(u)' = End(u)
         /\ \A u \in Unit : layout'[u][1] = layout[u][1]
<1> DEFINE n == Len(code[w])
<1>1. /\ steps \in Seq(StepSet) /\ Len(steps) \in Nat /\ DOMAIN steps = 1..Len(steps)
      /\ \A k \in DOMAIN steps : steps[k].cmd.op \notin JumpOp
  BY PlainSteps
<1>2. /\ n \in Nat /\ Len(code'[w]) = n + Len(steps)
      /\ DOMAIN code'[w] = 1..n + Len(steps)
      /\ \A u \in Unit : u # w => code'[u] = code[u] /\ layout'[u] = layout[u]
      /\ \A p \in 1..n : code'[w][p] = code[w][p] /\ layout'[w][p] = layout[w][p]
      /\ \A k \in DOMAIN steps : /\ code'[w][n + k] = steps[k].cmd
                                 /\ layout'[w][n + k] = steps[k].layout
      /\ layout'[w][n + Len(steps) + 1] = next
      /\ DOMAIN layout'[w] = 1..n + Len(steps) + 1
  <2>1. {} \in SUBSET Placeholders /\ \A p : p \notin {} OBVIOUS
  <2>2. TypeInv /\ w = unit /\ next \in Layout /\ Generate(steps, {}, next) OBVIOUS
  <2> QED BY ONLY <1>1, <2>1, <2>2, LayoutAfter
<1>3. /\ DOMAIN code[w] = 1..n /\ DOMAIN layout[w] = 1..n + 1
      /\ 1..n + 1 \subseteq 1..n + Len(steps) + 1
  <2>1. /\ code[w] \in Seq(Cmd) /\ layout[w] \in Seq(Layout) /\ Len(layout[w]) = n + 1
    BY DEF TypeInv, TypeOK, LayoutCoversCode
  <2>2. DOMAIN code[w] = 1..n /\ DOMAIN layout[w] = 1..n + 1 BY <2>1
  <2> HIDE DEF n
  <2> QED BY <1>1, <1>2, <2>2
<1> HIDE DEF n
<1>4. layout'[w][n + 1] = layout[w][n + 1]
  <2>1. CASE Len(steps) = 0
    <3>1. steps = <<>> BY <1>1, <2>1
    <3>2. n + Len(steps) + 1 = n + 1 BY <1>2, <2>1
    <3> QED BY <1>2, <3>1, <3>2 DEF First, End, n
  <2>2. CASE Len(steps) # 0
    <3>1. 1 \in DOMAIN steps /\ steps # <<>> BY <1>1, <2>2
    <3> QED BY <1>2, <3>1 DEF First, End, n
  <2> QED BY <2>1, <2>2
<1>5. \A p \in 1..n + 1 : layout'[w][p] = layout[w][p]
  <2>1. \A p \in 1..n + 1 : p \in 1..n \/ p = n + 1 BY <1>2
  <2> QED BY <1>2, <1>4, <2>1
<1>6. ASSUME NEW p \in 1..n, layout'[w][p].live PROVE CmdKeepsLayout(w, p)'
  <2>1. p \in 1..n + 1 /\ p + 1 \in 1..n + 1 BY <1>2
  <2>2. /\ code'[w][p] = code[w][p] /\ layout'[w][p] = layout[w][p]
        /\ layout'[w][p + 1] = layout[w][p + 1]
    BY <1>2, <1>5, <2>1
  <2>3. CmdKeepsLayout(w, p) BY <1>3, <1>6, <2>2 DEF CodeKeepsLayout
  <2>4. Left(w, p)' = Left(w, p) BY <2>2 DEF Left
  <2>5. Arrives(w, p) => Arrives(w, p)'
    <3> SUFFICES ASSUME Arrives(w, p), code[w][p].offset # Unwritten
                 PROVE  /\ Target(p, code[w][p]) \in DOMAIN layout'[w]
                        /\ layout'[w][Target(p, code[w][p])] = Left(w, p)
      BY <2>2, <2>4 DEF Arrives
    <3>1. /\ Target(p, code[w][p]) \in DOMAIN layout[w]
          /\ layout[w][Target(p, code[w][p])] = Left(w, p)
      BY DEF Arrives
    <3> QED BY <1>2, <1>3, <1>5, <3>1
  <2> QED BY <2>2, <2>3, <2>5 DEF CmdKeepsLayout
<1>7. ASSUME NEW k \in DOMAIN steps, NEW p, p = n + k, layout'[w][p].live
      PROVE  CmdKeepsLayout(w, p)'
  <2>1. code'[w][p] = steps[k].cmd /\ layout'[w][p] = steps[k].layout
    BY <1>2, <1>7
  <2>2. layout'[w][p + 1] = After(steps, k, next)
    <3>1. CASE k = Len(steps) BY <1>2, <1>7, <3>1 DEF After
    <3>2. CASE k # Len(steps)
      <4>1. k + 1 \in DOMAIN steps /\ p + 1 = n + (k + 1)
        <5>1. k \in 1..Len(steps) /\ n \in Nat /\ Len(steps) \in Nat BY <1>1, <1>2
        <5>2. k + 1 \in 1..Len(steps) BY <3>2, <5>1
        <5> QED BY <1>1, <1>7, <5>1, <5>2
      <4>2. layout'[w][n + (k + 1)] = steps[k + 1].layout BY <1>2, <4>1
      <4> QED BY <3>2, <4>1, <4>2 DEF After
    <3> QED BY <3>1, <3>2
  <2>3. Executes(w, p, code'[w][p], layout'[w][p], layout'[w][p + 1])
    BY <1>7, <2>1, <2>2 DEF Runs, n
  <2>4. code'[w][p].op \notin JumpOp BY <1>1, <2>1
  <2> QED BY <2>3, <2>4 DEF CmdKeepsLayout
<1>8. ASSUME NEW p \in DOMAIN code'[w] PROVE p \in 1..n \/ \E k \in DOMAIN steps : p = n + k
  <2>1. p \in 1..n + Len(steps) /\ n \in Nat /\ Len(steps) \in Nat BY <1>1, <1>2
  <2>2. p \in 1..n \/ (p - n \in 1..Len(steps) /\ p = n + (p - n)) BY <2>1
  <2> QED BY <1>1, <2>2
<1>9. ASSUME NEW u \in Unit, NEW p \in DOMAIN code'[u], layout'[u][p].live
      PROVE  CmdKeepsLayout(u, p)'
  <2>1. CASE u # w
    <3>1. code'[u] = code[u] /\ layout'[u] = layout[u] BY <1>2, <2>1
    <3>2. CmdKeepsLayout(u, p) BY <1>9, <3>1 DEF CodeKeepsLayout
    <3> QED BY <3>1, <3>2 DEF CmdKeepsLayout, Arrives, Left, Target
  <2>2. CASE u = w BY <1>6, <1>7, <1>8, <1>9, <2>2
  <2> QED BY <2>1, <2>2
<1>10. CodeKeepsLayout' BY <1>9 DEF CodeKeepsLayout
<1>11. End(w)' = next BY <1>2 DEF End
<1>12. \A u \in Unit : u # w => End(u)' = End(u) BY <1>2 DEF End
<1>13. \A u \in Unit : layout'[u][1] = layout[u][1]
  <2>1. 1 \in 1..n + 1 BY <1>2
  <2>2. layout'[w][1] = layout[w][1] BY <1>5, <2>1
  <2>3. \A u \in Unit : u # w => layout'[u] = layout[u] BY <1>2
  <2> QED BY <2>2, <2>3
<1> QED BY <1>10, <1>11, <1>12, <1>13

(* A function ends, with a return from its top level or with the one that  *)
(* is generated then.                                                      *)
LEMMA EndFuncDefLayout ==
  ASSUME TypeInv, JumpsInv, LayoutInv, EndFuncDef
  PROVE  LayoutInv'
<1> DEFINE defs == GetLocalVarDefsUpToScope(2)
           steps == GenerateReturnCmd(defs, <<>>)
           next == [Expects(flow, <<>>) EXCEPT !.live = FALSE]
<1>1. \/ Stop("rejected")
      \/ /\ \/ CurrentScope.has_return /\ UNCHANGED <<code, layout>>
            \/ Result[unit] = Void /\ Generate(steps, {}, next)
         /\ flow' = <<>> /\ scopes' = Front(scopes) /\ unit' = Main
         /\ defined' = defined \cup {unit}
  BY DEF EndFuncDef
<1>2. CASE Stop("rejected") BY <1>2, StopLayout DEF Stop
<1>3. CASE /\ \/ CurrentScope.has_return /\ UNCHANGED <<code, layout>>
              \/ Result[unit] = Void /\ Generate(steps, {}, next)
           /\ flow' = <<>> /\ scopes' = Front(scopes) /\ unit' = Main
           /\ defined' = defined \cup {unit}
  <2>1. CurrentScope.type = "func" /\ ArgsVisited BY DEF EndFuncDef, CanEnd
  <2>2. Len(scopes) = 2 /\ unit # Main /\ scopes \in Seq(Scope) /\ flow \in Seq(Def)
    BY <2>1, ScopeFacts DEF TypeInv, TypeOK, ScopesNest
  <2>3. /\ 2 \in DOMAIN scopes /\ CurrentScope = scopes[2] /\ DOMAIN scopes = 1..2
        /\ 1 \in DOMAIN scopes
    BY <2>2, ScopeFacts
  <2>4. PICK w \in Func : w = unit BY <2>2 DEF TypeInv, TypeOK, Unit
  <2>5. w \in Unit /\ Main \in Unit /\ w # Main BY <2>2, <2>4 DEF Unit
  <2>6. /\ scopes[1].type = "global" /\ scopes[1].placeholders = {}
        /\ scopes[1].start = 0
    BY DEF TypeInv, ScopesNest
  <2>7. scopes[2].start = 0
    <3>1. ScopeEnd(1) = 0 BY <2>3, <2>6 DEF LayoutInv, FlowFits
    <3> QED BY <2>2, <3>1 DEF ScopeEnd
  <2>8. End(w) = Expects(flow, <<>>)
    BY <2>1, <2>4 DEF LayoutInv, LayoutEnds, ArgsLeft
  <2>9. /\ CodeKeepsLayout' /\ ~End(w)'.live
        /\ \A u \in Unit : u # w => End(u)' = End(u)
        /\ \A u \in Unit : layout'[u][1] = layout[u][1]
    <3>1. CASE CurrentScope.has_return /\ UNCHANGED <<code, layout>>
      <4>1. ~Live BY <2>1, <2>3, <3>1 DEF Live
      <4>2. ~End(w).live BY <2>8, <4>1 DEF Expects
      <4>3. \A u : End(u)' = End(u) BY <3>1 DEF End
      <4>4. CodeKeepsLayout'
        BY <3>1 DEF LayoutInv, CodeKeepsLayout, CmdKeepsLayout, Arrives, Left, Target
      <4> QED BY <3>1, <4>2, <4>3, <4>4
    <3>2. CASE Result[unit] = Void /\ Generate(steps, {}, next)
      <4>1. Operands(Result[w]) = <<>> BY <2>4, <3>2 DEF Operands
      <4>2. Len(code[w]) \in Nat BY <2>5 DEF TypeInv, TypeOK
      <4>3. /\ Runs(w, Len(code[w]), steps, next)
            /\ First(steps, next) = Expects(flow, <<>>)
        <5> HIDE DEF next
        <5> QED BY <2>3, <2>7, <4>1, <4>2, ReturnRuns
      <4>4. steps \in Seq(PlainSet)
        <5>1. defs \in Seq(Def) /\ Len(defs) <= Len(flow) BY <2>3, DefsTypes
        <5> HIDE DEF defs
        <5> QED BY <2>2, <5>1, ReturnPlain, OperandTypes
      <4>5. next \in Layout /\ ~next.live
        <5>1. Expects(flow, <<>>) \in Layout BY <2>2, NextTypes
        <5> QED BY <5>1 DEF Layout
      <4> HIDE DEF steps, next
      <4>6. Generate(steps, {}, next) /\ CodeKeepsLayout BY <3>2 DEF LayoutInv
      <4>7. First(steps, next) = End(w) BY <2>8, <4>3
      <4> QED BY <2>4, <2>5, <4>3, <4>4, <4>5, <4>6, <4>7, PlainLayout
    <3> QED BY <1>3, <3>1, <3>2
  <2> HIDE DEF steps, next
  <2>10. /\ DOMAIN scopes' = 1..1 /\ Len(scopes') = 1 /\ scopes'[1] = scopes[1]
    BY <1>3, <2>2 DEF Front
  <2>11. \A i \in DOMAIN scopes' : i = 1 BY <2>10
  <2>12. Live' BY <2>6, <2>10, <2>11 DEF Live
  <2>13. ArgsVisited' /\ ArgsLeft' = <<>> BY <1>3 DEF ArgsVisited, ArgsLeft
  <2>14. LayoutEnds'
    <3>1. End(Main)' = [live |-> TRUE, flow |-> <<>>, operands |-> <<>>]
      BY <2>2, <2>5, <2>9 DEF LayoutInv, LayoutEnds
    <3>2. Expects(flow, ArgsLeft)' = [live |-> TRUE, flow |-> <<>>, operands |-> <<>>]
      BY <1>3, <2>12, <2>13 DEF Expects
    <3>3. End(unit)' = Expects(flow, ArgsLeft)' BY <1>3, <3>1, <3>2 DEF End
    <3>4. ASSUME NEW g \in defined' PROVE ~End(g)'.live
      <4>1. CASE g = w BY <2>9, <4>1
      <4>2. CASE g # w
        <5>1. g \in defined BY <1>3, <2>4, <4>2
        <5>2. g \in Unit BY <5>1 DEF TypeInv, TypeOK, Unit
        <5> QED BY <2>9, <4>2, <5>1, <5>2 DEF LayoutInv, LayoutEnds
      <4> QED BY <4>1, <4>2
    <3> QED BY <1>3, <3>3, <3>4 DEF LayoutEnds
  <2>15. ArgsFirst' BY <2>13 DEF ArgsFirst
  <2>16. FlowFits'
    <3>1. Len(flow') = 0 BY <1>3
    <3>2. ScopeEnd(1)' = 0 BY <2>10, <3>1 DEF ScopeEnd
    <3> QED BY <2>6, <2>10, <2>11, <3>2 DEF FlowFits
  <2>17. PlaceholdersFit' /\ LoopsFit'
    BY <2>6, <2>10, <2>11 DEF PlaceholdersFit, LoopsFit
  <2>18. EntriesFit' BY <2>9 DEF LayoutInv, EntriesFit
  <2> QED BY <2>9, <2>14, <2>15, <2>16, <2>17, <2>18 DEF LayoutInv
<1> HIDE DEF steps, next
<1> QED BY <1>1, <1>2, <1>3

(* Nothing is compiled yet: only main code begins. *)
LEMMA InitLayout == Init => LayoutInv
<1> SUFFICES ASSUME Init PROVE LayoutInv OBVIOUS
<1>1. \A u \in Unit : DOMAIN code[u] = {} /\ Len(code[u]) = 0 /\ End(u) = Entry(u)[1]
  BY DEF Init, End
<1>2. /\ DOMAIN scopes = 1..1 /\ Len(scopes) = 1 /\ scopes[1].type = "global"
      /\ scopes[1].start = 0 /\ scopes[1].placeholders = {}
      /\ unit = Main /\ flow = <<>> /\ defined = {}
  BY DEF Init, NewScope
<1>3. \A i \in DOMAIN scopes : i = 1 BY <1>2
<1>4. Live BY <1>2, <1>3 DEF Live
<1>5. ArgsVisited /\ ArgsLeft = <<>> BY <1>2 DEF ArgsVisited, ArgsLeft
<1>6. LayoutEnds
  <2>1. Main \in Unit BY DEF Unit
  <2>2. End(Main) = [live |-> TRUE, flow |-> <<>>, operands |-> <<>>]
    BY <1>1, <2>1 DEF Entry
  <2> QED BY <1>2, <1>4, <1>5, <2>2 DEF LayoutEnds, Expects
<1>7. ArgsFirst BY <1>5 DEF ArgsFirst
<1>8. FlowFits
  <2>1. ScopeEnd(1) = 0 BY <1>2 DEF ScopeEnd
  <2> QED BY <1>2, <1>3, <2>1 DEF FlowFits
<1>9. PlaceholdersFit /\ LoopsFit BY <1>2, <1>3 DEF PlaceholdersFit, LoopsFit
<1>10. CodeKeepsLayout BY <1>1 DEF CodeKeepsLayout
<1>11. EntriesFit BY DEF Init, EntriesFit
<1> QED BY <1>6, <1>7, <1>8, <1>9, <1>10, <1>11 DEF LayoutInv

(* Every statement keeps the invariant. *)
LEMMA NextKeepsLayout ==
  ASSUME TypeInv, JumpsInv, LayoutInv, Next \/ Ended \/ UNCHANGED vars
  PROVE  LayoutInv'
<1>1. CASE VisitVarDefWithoutInit \/ VisitVarDefWithInit \/ VisitVarDefWithSelfInit
  BY <1>1, VarDefStmtsLayout
<1>2. CASE VisitExprStmt BY <1>2, ExprStmtLayout
<1>3. CASE VisitPreTestLoop BY <1>3, LoopLayout
<1>4. CASE EndPreTestLoop BY <1>4, EndLoopLayout
<1>5. CASE VisitBreak BY <1>5, BreakLayout
<1>6. CASE VisitContinue BY <1>6, ContinueLayout
<1>7. CASE VisitIf BY <1>7, IfLayout
<1>8. CASE EndIfBody BY <1>8, EndIfBodyLayout
<1>9. CASE VisitElse BY <1>9, ElseLayout
<1>10. CASE EndBranches BY <1>10, EndBranchesLayout
<1>11. CASE VisitFuncDef BY <1>11, FuncDefLayout
<1>12. CASE VisitArgDef BY <1>12, ArgDefLayout
<1>13. CASE EndFuncDef BY <1>13, EndFuncDefLayout
<1>14. CASE VisitReturnValue
  <2>1. CanVisit /\ \E t \in VarType : \E value \in Exprs(t) : VisitReturn(t, value)
    BY <1>14 DEF VisitReturnValue
  <2>2. PICK t \in VarType : \E value \in Exprs(t) : VisitReturn(t, value) BY <2>1
  <2>3. PICK value \in Exprs(t) : VisitReturn(t, value) BY <2>2
  <2>4. t \in DataType \cup {Void} BY SomeTypes
  <2>5. value \in Seq(PlainSet) BY <2>4, ExprPlain DEF TypeInv
  <2>6. Len(code[unit]) \in Nat BY DEF TypeInv, TypeOK
  <2>7. /\ Runs(unit, Len(code[unit]), value, Expects(flow, Operands(t)))
        /\ First(value, Expects(flow, Operands(t))) = Expects(flow, <<>>)
    BY <2>4, <2>6, ExprRuns DEF TypeInv
  <2> QED BY <2>1, <2>3, <2>4, <2>5, <2>7, ReturnLayout
<1>15. CASE VisitReturnWithoutValue
  <2>1. VisitReturn(Void, <<>>) /\ CanVisit BY <1>15 DEF VisitReturnWithoutValue
  <2>2. <<>> \in Seq(PlainSet) /\ Void \in DataType \cup {Void} OBVIOUS
  <2>3. /\ Runs(unit, Len(code[unit]), <<>>, Expects(flow, Operands(Void)))
        /\ First(<<>>, Expects(flow, Operands(Void))) = Expects(flow, <<>>)
    BY DEF Runs, First, Operands
  <2> QED BY <2>1, <2>2, <2>3, ReturnLayout
<1>16. CASE EndProgram BY <1>16, StopLayout DEF EndProgram, Stop
<1>17. CASE Ended \/ UNCHANGED vars BY <1>17, StopLayout DEF Ended, vars
<1> QED BY <1>1, <1>2, <1>3, <1>4, <1>5, <1>6, <1>7, <1>8, <1>9, <1>10, <1>11,
           <1>12, <1>13, <1>14, <1>15, <1>16, <1>17 DEF Next

(* The invariant is enough: the end of a unit is its last layout, and a    *)
(* program ends outside of everything.                                     *)
LEMMA LayoutInvImplies == TypeInv /\ JumpsInv /\ LayoutInv => CodeKeepsLayout /\ CodeEnds
<1> SUFFICES ASSUME TypeInv, JumpsInv, LayoutInv PROVE CodeEnds BY DEF LayoutInv
<1>1. \A u \in Unit : Last(layout[u]) = End(u)
  BY DEF TypeInv, LayoutCoversCode, Last, End
<1>2. \A f \in defined : f \in Unit /\ ~End(f).live
  BY DEF TypeInv, TypeOK, Unit, LayoutInv, LayoutEnds
<1>3. phase = "compiled" =>
        End(Main) = [live |-> TRUE, flow |-> <<>>, operands |-> <<>>]
  BY OutsideLayout DEF JumpsInv, EndsOutside
<1>4. Main \in Unit BY DEF Unit
<1> QED BY <1>1, <1>2, <1>3, <1>4 DEF CodeEnds

(* Whatever program is compiled: each command that execution can reach     *)
(* finds the variables and operands it was compiled for and leaves those   *)
(* that the next one, behind it or where it jumps, was compiled for.  So   *)
(* on every path through loops, branches, breaks, continues and returns    *)
(* the generator creates and destroys the slots the analyzer counted, and  *)
(* a read names a variable of the frame by its own slot, unless it stands  *)
(* in the initializer of that variable.                                    *)
THEOREM LayoutCorrect == Spec => []CodeKeepsLayout
<1>1. Init => TypeInv /\ JumpsInv /\ LayoutInv BY InitTypes, InitJumps, InitLayout
<1>2. TypeInv /\ JumpsInv /\ LayoutInv /\ [Next \/ Ended]_vars =>
        TypeInv' /\ JumpsInv' /\ LayoutInv'
  BY NextKeepsTypes, NextKeepsJumps, NextKeepsLayout
<1> QED BY <1>1, <1>2, LayoutInvImplies, PTL DEF Spec

(* Whatever program is compiled: no function that is compiled can run past *)
(* its last command, though only a return at the top level of its body     *)
(* makes the generator leave out the final one, and compiled main code     *)
(* ends with no variable and no operand left.                              *)
THEOREM EndsCorrect == Spec => []CodeEnds
<1>1. Init => TypeInv /\ JumpsInv /\ LayoutInv BY InitTypes, InitJumps, InitLayout
<1>2. TypeInv /\ JumpsInv /\ LayoutInv /\ [Next \/ Ended]_vars =>
        TypeInv' /\ JumpsInv' /\ LayoutInv'
  BY NextKeepsTypes, NextKeepsJumps, NextKeepsLayout
<1> QED BY <1>1, <1>2, LayoutInvImplies, PTL DEF Spec
=============================================================================
