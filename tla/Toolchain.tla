------------------------------ MODULE Toolchain ------------------------------
(***************************************************************************)
(* The compiler, the linker and the loading part of the machine, run one   *)
(* after another over the files they share.  A run reads files, does its   *)
(* work in memory and writes one file at the end; every error before that  *)
(* leaves the files alone, and an error of the write leaves a file cut     *)
(* short.  Sources change between runs, libraries and executables keep     *)
(* what they were linked from.                                             *)
(***************************************************************************)
EXTENDS CodeContainer

CONSTANTS
  Text,         \* the programs that may be in a source file
  SourceFile,   \* the module files that the compiler writes
  LibFile,      \* the module files that the linker writes
  Available,    \* the native functions of the machine
  Absent,       \* there is no such file
  CutAt,        \* how many cells a write that fails may leave of a file
  MaxFileSize,  \* the size beyond which no buffer grows
  MaxInputs,    \* bound on the files of one run of the linker
  MaxRuns       \* bound on the runs of the tools

File == SourceFile \cup LibFile

ASSUME TextAssumption == Text \subseteq Program

ASSUME FilesAssumption ==
  /\ Available \subseteq Native
  /\ CutAt \subseteq Nat /\ MaxFileSize \in Nat
  /\ MaxInputs \in Nat /\ MaxRuns \in Nat

VARIABLES
  files,   \* [File -> Seq of cells], or Absent
  exe,     \* the executable file, or Absent
  loaded,  \* the executable in the machine, and its native functions
  made,    \* history: the compiled modules each file was made of
  last,    \* the last run: its tool, the modules behind its input, its end
  runs     \* how many runs there were

vars == <<files, exe, loaded, made, last, runs>>

CanRead(file) == file # Absent /\ IsReadAsModule(file)

(* The inputs of the linker: as many files as it is given.  A run that     *)
(* finds one missing or cut short ends without a trace.                    *)
Inputs == UNION {[1..n -> {f \in File : CanRead(files[f])}] : n \in 1..MaxInputs}

Modules(inputs) == Concat([i \in DOMAIN inputs |-> <<ReadModule(files[inputs[i]])>>])
MadeOf(inputs) == Concat([i \in DOMAIN inputs |-> made[inputs[i]]])

Ends(tool, from, outcome) ==
  /\ runs < MaxRuns /\ runs' = runs + 1
  /\ last' = [tool |-> tool, from |-> from, outcome |-> outcome]

Fails(tool, from, outcome) ==
  /\ Ends(tool, from, outcome)
  /\ UNCHANGED <<files, exe, loaded, made>>

(* What a run leaves of its output, in place of the old file: nothing if   *)
(* the code is too large, all of it, or what was written before an error.  *)
(* Without a folder to write to it leaves no trace.                        *)
Leaves(old, output) ==
  IF Len(output) > MaxFileSize THEN {[outcome |-> "overflow", file |-> old]}
  ELSE {[outcome |-> "done", file |-> output]}
         \cup {[outcome |-> "failed write", file |-> SubSeq(output, 1, n)] :
                 n \in {n \in CutAt : n < Len(output)}}

WriteFile(tool, f, module, from) ==
  /\ \E end \in Leaves(files[f], WriteModule(module)) :
       /\ files' = [files EXCEPT ![f] = end.file]
       /\ made' = IF end.outcome \in {"done", "failed write"}
                  THEN [made EXCEPT ![f] = from] ELSE made
       /\ Ends(tool, from, end.outcome)
  /\ UNCHANGED <<exe, loaded>>

CompilerApp ==
  \E f \in SourceFile : \E text \in Text :
    LET module == GenerateModule(text) IN
    IF Len(module.cells) < Word
    THEN WriteFile("compiler", f, module, <<module>>)
    ELSE Fails("compiler", <<>>, "overflow")

LinkerAppLib ==
  \E inputs \in Inputs : \E f \in LibFile :
    IF LibLinks(Modules(inputs))
    THEN WriteFile("lib", f, LinkLib(Modules(inputs)), MadeOf(inputs))
    ELSE Fails("lib", MadeOf(inputs), "failed")

(* The error of too many definitions is one that the tool does not catch.  *)
LinkerAppExe ==
  \E inputs \in Inputs :
    LET modules == Modules(inputs)
        from == MadeOf(inputs)
    IN
    \/ /\ ExeLinks(modules)
       /\ \E end \in Leaves(exe, WriteExe(LinkExe(modules))) :
            exe' = end.file /\ Ends("exe", from, end.outcome)
       /\ UNCHANGED <<files, loaded, made>>
    \/ /\ ~ExeLinks(modules) /\ ~DefsCountOverflows(modules)
       /\ Fails("exe", from, "failed")
    \/ /\ DefsCountOverflows(modules)
       /\ Fails("exe", from, "terminated")

CanLoad == exe # Absent /\ IsReadAsExe(exe)

VMApp ==
  /\ CanLoad
  /\ LET read == ReadExe(exe) IN
     IF UsedNatives(read) \subseteq Available
     THEN \E order \in [1..Cardinality(UsedNatives(read)) -> UsedNatives(read)] :
            /\ ToSet(order) = UsedNatives(read)
            /\ loaded' = [cells |-> LinkNatives(read, order), natives |-> order]
            /\ Ends("vm", <<>>, "done")
            /\ UNCHANGED <<files, exe, made>>
     ELSE Fails("vm", <<>>, "failed")

Init ==
  /\ files = [f \in File |-> Absent] /\ made = [f \in File |-> <<>>]
  /\ exe = Absent /\ loaded = Absent
  /\ last = [tool |-> "none", from |-> <<>>, outcome |-> "done"]
  /\ runs = 0

Next == CompilerApp \/ LinkerAppLib \/ LinkerAppExe \/ VMApp

Done == runs = MaxRuns /\ UNCHANGED vars

Spec == Init /\ [][Next \/ Done]_vars

-----------------------------------------------------------------------------
(* Properties                                                              *)

(* However a module came about, by compilation or through any number of    *)
(* links, what a tool reads of its file describes its code: each id's      *)
(* references are all the cells that refer to it and no other, each        *)
(* function's address is where its code begins, and the variables are      *)
(* listed in the order in which main code creates them.  A reference that  *)
(* is lost or moved to a wrong place would be linked to nothing, or        *)
(* overwrite an opcode.                                                    *)
TablesMatchCode ==
  \A f \in File : CanRead(files[f]) =>
    IsModule(ReadModule(files[f])) /\ DescribesCode(ReadModule(files[f]))

(* The cells that refer to an id. *)
Referring(cells, ids) ==
  {p \in DOMAIN cells : cells[p].holds = "ref" /\ cells[p].id \in ids}

(* In an executable every call of a function leads to where the code of    *)
(* that function begins; every access to a global variable names slots of  *)
(* the storage that no other variable has; and of native functions exactly *)
(* the references are left open.                                           *)
IsResolved(e) ==
  /\ \A p \in Referring(e.cells, Func) :
       LET target == e.cells[p].value IN
       /\ target \in e.main_size..Len(e.cells) - 1
       /\ e.cells[target + 1] = Entry(e.cells[p].id)
  /\ \A p, q \in Referring(e.cells, Var) :
       LET x == e.cells[p].id
           y == e.cells[q].id
           i == e.cells[p].value
           j == e.cells[q].value
       IN  /\ i \in Nat /\ i + Size[x] <= e.vars_size
           /\ IF x = y THEN i = j ELSE i + Size[x] <= j \/ j + Size[y] <= i
  /\ \A id \in Native :
       /\ {a + 1 : a \in e.native_refs[id]} = Referring(e.cells, {id})
       /\ Referring(e.cells, {id}) # {} => id \in e.native_defs
  /\ \A p \in Referring(e.cells, Native) : e.cells[p].value = None

(* In the machine each native function that is used has one index in the   *)
(* table, and the calls of the function, and nothing else, name it.        *)
HasNativesLinked(machine) ==
  /\ \A i, j \in DOMAIN machine.natives :
       machine.natives[i] = machine.natives[j] => i = j
  /\ \A p \in Referring(machine.cells, Native) :
       /\ machine.cells[p].value + 1 \in DOMAIN machine.natives
       /\ machine.natives[machine.cells[p].value + 1] = machine.cells[p].id

(* Every reference leads to what it names: those of variables and          *)
(* functions in each executable that can be read, those of native          *)
(* functions once it is loaded (ExeLinker, SimpleNativeFuncLinker).        *)
ExeIsResolved ==
  /\ CanLoad => IsResolved(ReadExe(exe))
  /\ loaded # Absent => HasNativesLinked(loaded)

(* It does not matter how a program was put together: a library stands for *)
(* the modules it was linked from, in their order, though their sources    *)
(* may have changed since.  Linking it succeeds if and only if linking     *)
(* them would, and the result is the same.                                 *)
LibrariesAreTransparent ==
  /\ last.tool = "exe" /\ last.outcome = "done" =>
       exe = WriteExe(LinkExe(last.from))
  /\ last.tool = "exe" => (last.outcome = "failed" <=> ~ExeLinks(last.from))
  /\ last.tool = "lib" => (last.outcome = "failed" <=> ~LibLinks(last.from))
  /\ \A f \in LibFile :
       CanRead(files[f]) => files[f] = WriteModule(LinkLib(made[f]))

(* Wherever a file is cut short, no tool takes what is left for a module   *)
(* or an executable; and what is read as one is all that was written       *)
(* (SimpleFile, SimpleModuleReader, SimpleExeReader).                      *)
Cuts(file) ==
  IF file = Absent THEN {} ELSE {SubSeq(file, 1, n) : n \in 0..Len(file) - 1}

CutFilesAreNoticed ==
  /\ \A f \in File : \A text \in Cuts(files[f]) : ~IsReadAsModule(text)
  /\ \A text \in Cuts(exe) : ~IsReadAsExe(text)
  /\ \A f \in File :
       CanRead(files[f]) => files[f] = WriteModule(ReadModule(files[f]))
  /\ CanLoad => exe = WriteExe(ReadExe(exe))

(* The linker never counts too many definitions: each has code that        *)
(* creates it and is no smaller, so that the code would be too large       *)
(* before.  This is why the linker may leave the error uncaught.           *)
DefsNeverOverflow == last.outcome # "terminated"
=============================================================================
