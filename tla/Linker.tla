------------------------------- MODULE Linker -------------------------------
(***************************************************************************)
(* Modules of code and how they are linked to libraries and executables.   *)
(*                                                                         *)
(* A module is main code followed by the code of its functions, tables of  *)
(* what it defines, and for every id the addresses where it refers to it.  *)
(* Linking lays the main codes one after another, then the functions, and  *)
(* moves every address along; an executable has the addresses of functions *)
(* and the indices of global variables written at the references.          *)
(*                                                                         *)
(* Code is a sequence of cells, an opcode or an operand each, at addresses *)
(* from 0; each cell remembers, as history, what it stands for.  Tables    *)
(* whose order nothing depends on are sets: in the code the order of ids   *)
(* is that of a hash table, and addresses are sorted at the end.  An id is *)
(* a name with its kind: the tables of variables, functions and native     *)
(* functions never meet.                                                   *)
(***************************************************************************)
EXTENDS Integers, Sequences, FiniteSets

CONSTANTS
  Var, Func, Native,  \* the ids of global variables and functions
  Size,               \* [Var -> {1, 2}]: slots of a variable
  Word,               \* the number of values of an address (2^32)
  None                \* no id, or a placeholder that is not written

Id == Var \cup Func \cup Native

ASSUME IdsAssumption ==
  /\ Var \cap Func = {} /\ Func \cap Native = {} /\ Native \cap Var = {}
  /\ None \notin Id /\ None \notin Nat
  /\ Size \in [Var -> {1, 2}]
  /\ IsFiniteSet(Id)
ASSUME WordAssumption == Word \in Nat \ {0}

-----------------------------------------------------------------------------

Cell == [holds: {"cmd", "create", "entry", "ref"},
         id: Id \cup {None}, value: Nat \cup {None}]

Plain == [holds |-> "cmd", id |-> None, value |-> None]
Create(x) == [holds |-> "create", id |-> x, value |-> None]
Entry(f) == [holds |-> "entry", id |-> f, value |-> None]
Ref(id) == [holds |-> "ref", id |-> id, value |-> None]

Module == [cells: Seq(Cell), main_size: Nat,
           func_defs: SUBSET [id: Func, address: Nat],
           var_defs: Seq(Var), native_defs: SUBSET Native,
           refs: [Id -> SUBSET Nat]]

(* The first n of some numbers added up, and of some sequences in a row.   *)
SumTo(s, n) ==
  LET sum[i \in 0..Len(s)] == IF i = 0 THEN 0 ELSE sum[i - 1] + s[i] IN sum[n]
Sum(s) == SumTo(s, Len(s))

ConcatTo(ss, n) ==
  LET concat[i \in 0..Len(ss)] == IF i = 0 THEN <<>> ELSE concat[i - 1] \o ss[i]
  IN  concat[n]
Concat(ss) == ConcatTo(ss, Len(ss))

Lens(ss) == [k \in DOMAIN ss |-> Len(ss[k])]
SumBefore(sizes, k) == SumTo(sizes, k - 1)

ToSet(s) == {s[i] : i \in DOMAIN s}

(* The addresses of the cells that refer to an id. *)
RefsIn(cells, id) ==
  {p - 1 : p \in {q \in DOMAIN cells : cells[q].holds = "ref" /\ cells[q].id = id}}

(* The variables that some code creates, in its order.                     *)
CreatedIn(cells) ==
  Concat([p \in DOMAIN cells |->
            IF cells[p].holds = "create" THEN <<cells[p].id>> ELSE <<>>])

-----------------------------------------------------------------------------
(* What a module promises: its addresses are within its code, and its      *)
(* tables say what the code refers to, begins and creates.                 *)

IsModule(m) ==
  /\ m.cells \in Seq(Cell) /\ m.main_size \in 0..Len(m.cells)
  /\ m.func_defs \subseteq [id: Func, address: m.main_size..Len(m.cells) - 1]
  /\ m.var_defs \in Seq(Var) /\ m.native_defs \subseteq Native
  /\ m.refs \in [Id -> SUBSET (0..Len(m.cells) - 1)]

DescribesCode(m) ==
  /\ \A id \in Id : m.refs[id] = RefsIn(m.cells, id)
  /\ {<<def.address, def.id>> : def \in m.func_defs} =
       {<<p - 1, m.cells[p].id>> :
          p \in {q \in DOMAIN m.cells : m.cells[q].holds = "entry"}}
  /\ m.var_defs = CreatedIn(m.cells)
  /\ \A p \in DOMAIN m.cells :
       m.cells[p].holds = "create" => p <= m.main_size

-----------------------------------------------------------------------------
(* Code generation, as far as it meets the linker.  A text is a record of  *)
(* main statements, each the definition of a global variable or the use of *)
(* an id; functions, each a sequence of uses; and native functions.        *)

Stmt == {stmt \in [defines: BOOLEAN, id: Id] : stmt.defines => stmt.id \in Var}
FuncDef == [id: Func, uses: Seq(Id)]
Program == [main: Seq(Stmt), funcs: Seq(FuncDef), natives: SUBSET Native]

VisitStmt(stmt) ==
  <<IF stmt.defines THEN Create(stmt.id) ELSE Plain, Ref(stmt.id)>>
VisitFuncDefWithBody(def) ==
  <<Entry(def.id)>> \o Concat([i \in DOMAIN def.uses |-> <<Plain, Ref(def.uses[i])>>])

GenerateModule(text) ==
  LET main == Concat([i \in DOMAIN text.main |-> VisitStmt(text.main[i])])
      bodies == [i \in DOMAIN text.funcs |-> VisitFuncDefWithBody(text.funcs[i])]
      start(i) == Len(main) + SumBefore(Lens(bodies), i)
      cells == main \o Concat(bodies)
  IN  [cells |-> cells,
       main_size |-> Len(main),
       func_defs |-> {[id |-> text.funcs[i].id, address |-> start(i)] :
                        i \in DOMAIN bodies},
       var_defs |-> Concat([i \in DOMAIN text.main |->
                              IF text.main[i].defines THEN <<text.main[i].id>>
                              ELSE <<>>]),
       native_defs |-> text.natives,
       refs |-> [id \in Id |-> RefsIn(cells, id)]]

-----------------------------------------------------------------------------
(* BaseLinker *)

MainSizes(ms) == [k \in DOMAIN ms |-> ms[k].main_size]
FuncSizes(ms) == [k \in DOMAIN ms |-> Len(ms[k].cells) - ms[k].main_size]
CodeSizes(ms) == [k \in DOMAIN ms |-> Len(ms[k].cells)]

GetAbsoluteAddressMutant(address, main_size, main_start, func_start) ==
  (address + IF address < main_size THEN main_start ELSE func_start) % Word
GetAbsoluteAddress(address, main_size, main_start, func_start) ==
  (address + IF address < main_size THEN main_start
             ELSE func_start - main_size) % Word

(* The address that an address of the k-th module is moved to. *)
Moved(ms, k, address) ==
  GetAbsoluteAddress(address, ms[k].main_size, SumBefore(MainSizes(ms), k),
                     Sum(MainSizes(ms)) + SumBefore(FuncSizes(ms), k))

CheckAddressOverflowMutant(address, addition) == TRUE
CheckAddressOverflow(address, addition) == (address + addition) % Word >= address

MainCmds(ms) == [k \in DOMAIN ms |-> SubSeq(ms[k].cells, 1, ms[k].main_size)]
FuncCmds(ms) ==
  [k \in DOMAIN ms |-> SubSeq(ms[k].cells, ms[k].main_size + 1, Len(ms[k].cells))]
WriteModuleCmds(ms) == Concat(MainCmds(ms)) \o Concat(FuncCmds(ms))

CollectRefsMutant(ms) ==
  [id \in Id |->
     IF ms[Len(ms)].refs[id] = {} THEN UNION {ms[k].refs[id] : k \in DOMAIN ms}
     ELSE {Moved(ms, Len(ms), a) : a \in ms[Len(ms)].refs[id]}]
CollectRefs(ms) ==
  [id \in Id |-> UNION {{Moved(ms, k, a) : a \in ms[k].refs[id]} : k \in DOMAIN ms}]

CollectFuncDefs(ms) ==
  UNION {{[id |-> def.id, address |-> Moved(ms, k, def.address)] :
            def \in ms[k].func_defs} : k \in DOMAIN ms}

CollectNativeFuncDefs(ms) == UNION {ms[k].native_defs : k \in DOMAIN ms}

CollectGlobalVarDefs(ms) == Concat([k \in DOMAIN ms |-> ms[k].var_defs])

(* The first loop of both linkers passes the first n modules. *)
SizesFit(ms, n) ==
  \A k \in 1..n :
    /\ CheckAddressOverflow(SumBefore(MainSizes(ms), k), ms[k].main_size)
    /\ CheckAddressOverflow(SumBefore(CodeSizes(ms), k), Len(ms[k].cells))

DefinedIn(m) == ToSet(m.var_defs) \cup {def.id : def \in m.func_defs} \cup m.native_defs

NoDuplicates(ms) ==
  \A j, k \in DOMAIN ms : j # k => DefinedIn(ms[j]) \cap DefinedIn(ms[k]) = {}

-----------------------------------------------------------------------------
(* LibLinker *)

LibLinks(ms) == SizesFit(ms, Len(ms)) /\ NoDuplicates(ms)

LinkLib(ms) ==
  [cells |-> WriteModuleCmds(ms), main_size |-> Sum(MainSizes(ms)),
   func_defs |-> CollectFuncDefs(ms), var_defs |-> CollectGlobalVarDefs(ms),
   native_defs |-> CollectNativeFuncDefs(ms), refs |-> CollectRefs(ms)]

-----------------------------------------------------------------------------
(* ExeLinker *)

(* The index of the k-th of the global variables, and of the next one.     *)
VarSizes(vars) == [i \in DOMAIN vars |-> Size[vars[i]]]
VarIndexMutant(vars, k) == (k - 1) % Word
VarIndex(vars, k) == SumBefore(VarSizes(vars), k) % Word

(* A module's variables are collected after its sizes were checked.        *)
DefsCountOverflows(ms) ==
  \E n \in DOMAIN ms :
    LET vars == CollectGlobalVarDefs(SubSeq(ms, 1, n)) IN
    /\ SizesFit(ms, n)
    /\ \E k \in DOMAIN vars :
         /\ (VarIndex(vars, k) + 1) % Word < VarIndex(vars, k)
         /\ \A i, j \in 1..k - 1 : i # j => vars[i] # vars[j]

Addresses(ms) ==
  LET vars == CollectGlobalVarDefs(ms) IN
  {[id |-> vars[k], address |-> VarIndex(vars, k)] : k \in DOMAIN vars}
    \cup CollectFuncDefs(ms)

ExeLinks(ms) ==
  /\ LibLinks(ms) /\ ~DefsCountOverflows(ms)
  /\ \A k \in DOMAIN ms : \A id \in Id :
       ms[k].refs[id] # {} => \E j \in DOMAIN ms : id \in DefinedIn(ms[j])

(* Each module's references to variables and functions are overwritten     *)
(* where they have moved to.                                               *)
FillAddressPlaceholders(ms) ==
  LET cells == WriteModuleCmds(ms)
      placeholders(id) ==
        UNION {{Moved(ms, k, a) : a \in ms[k].refs[id]} : k \in DOMAIN ms}
      targets(p) == {def \in Addresses(ms) : p - 1 \in placeholders(def.id)}
  IN  [p \in DOMAIN cells |->
         IF targets(p) = {} THEN cells[p]
         ELSE [cells[p] EXCEPT !.value = (CHOOSE def \in targets(p) : TRUE).address]]

LinkExe(ms) ==
  LET vars == CollectGlobalVarDefs(ms) IN
  [cells |-> FillAddressPlaceholders(ms), main_size |-> Sum(MainSizes(ms)),
   vars_size |-> VarIndex(vars, Len(vars) + 1),
   native_defs |-> CollectNativeFuncDefs(ms),
   native_refs |-> [id \in Native |-> CollectRefs(ms)[id]]]

-----------------------------------------------------------------------------
(* SimpleNativeFuncLinker: order is the order of the references.           *)

UsedNatives(exe) == {id \in Native : exe.native_refs[id] # {}}

LinkNatives(exe, order) ==
  [p \in DOMAIN exe.cells |->
     IF \E i \in DOMAIN order : p - 1 \in exe.native_refs[order[i]]
     THEN [exe.cells[p] EXCEPT !.value =
             (CHOOSE i \in DOMAIN order : p - 1 \in exe.native_refs[order[i]]) - 1]
     ELSE exe.cells[p]]
=============================================================================
