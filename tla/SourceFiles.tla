----------------------------- MODULE SourceFiles -----------------------------
(***************************************************************************)
(* The compiler application reads the main file and all that it imports,   *)
(* directly or not (ParseFiles).  What it does with them is CompilerApp;   *)
(* here any steps may follow that leave alone what was read.               *)
(*                                                                         *)
(* A project is what a run finds: the path the main file was given by, the *)
(* folders in the order in which they are searched, the file each name     *)
(* leads to in each folder, and the text of each file.  A file that is     *)
(* found goes by its canonical path, which is the file itself here; the    *)
(* main file goes by the path it was given by.                             *)
(***************************************************************************)
EXTENDS Naturals, Sequences, FiniteSetsExt

CONSTANTS
    Projects,      \* families of projects, a sequence of sets
    Absent,        \* there is no such file in a folder
    Unsearchable,  \* a folder or file that may not be looked at
    BadPath        \* a literal that is no path: its escapes have no value

VARIABLES project, phase, stack, processed, programs

reading == <<stack, processed, programs>>

None == "none"

(* phase is what Run is about, or why it returned.                         *)
Failed(reason) == phase' = [name |-> "failed", reason |-> reason]
Enters(name) == phase' = [name |-> name, reason |-> None]
In(name) == phase.name = name

FileIn(p, path) == IF path = p.mainPath THEN p.main ELSE path
TextIn(p, path) == p.texts[FileIn(p, path)]
PathsIn(p) == DOMAIN p.texts \cup {p.mainPath}

IsImport(stmt) == stmt.kind = "import"

(* ImportsExtractor: the imports of a text outside of all bodies.          *)
Extract(stmts) ==
    LET upTo[n \in 0..Len(stmts)] ==
            IF n = 0 THEN <<>>
            ELSE IF IsImport(stmts[n]) THEN Append(upTo[n - 1], stmts[n].name)
            ELSE upTo[n - 1]
    IN  upTo[Len(stmts)]

(* SimpleFileSearcher: the first folder that has the name.                 *)
SearchIn(p, name) ==
    LET hits == {i \in DOMAIN p.folders :
                     p.places[p.folders[i]][name] # Absent}
    IN  IF hits = {} THEN Absent ELSE p.places[p.folders[Min(hits)]][name]

(* A name that is looked for and found.                                    *)
LeadsIn(p, name) ==
    name # BadPath /\ SearchIn(p, name) \notin {Absent, Unsearchable}

(* Texts are sequences of statements, and a search leads to files.         *)
IsProject(p) ==
    /\ p.main \in DOMAIN p.texts
    /\ \A file \in DOMAIN p.texts :
           LET stmts == p.texts[file].stmts IN
           /\ stmts \in Seq({stmts[i] : i \in DOMAIN stmts})
           /\ \A i \in DOMAIN stmts : IsImport(stmts[i]) =>
                  \/ stmts[i].name = BadPath
                  \/ SearchIn(p, stmts[i].name)
                         \in DOMAIN p.texts \cup {Absent, Unsearchable}

ASSUME ProjectsAssumption ==
    \A family \in DOMAIN Projects : \A p \in Projects[family] : IsProject(p)

(* The import last pushed is the next to be searched for.                  *)
(* Mutant: imports are pushed in the order in which they stand.            *)
PushedMutant(names, onto) == onto \o names

Pushed(names, onto) ==
    onto \o [i \in DOMAIN names |-> names[Len(names) + 1 - i]]

-----------------------------------------------------------------------------
ReadingInit ==
    /\ \E family \in DOMAIN Projects : project \in Projects[family]
    /\ phase = [name |-> "reading", reason |-> None]
    /\ stack = <<>>
    /\ processed = {}
    /\ programs = <<>>

TextAt(path) == TextIn(project, path)
Search(name) == SearchIn(project, name)
Leads(name) == LeadsIn(project, name)

(* ParseFile: what is read at a path, and the imports pushed.              *)
ParseFile(path, rest) ==
    \/ /\ TextAt(path).status \in {"unreadable", "unexpected token"}
       /\ Failed(TextAt(path).status)
       /\ stack' = rest
    \/ /\ TextAt(path).status = "good"
       /\ stack' = Pushed(Extract(TextAt(path).stmts), rest)
       /\ Enters("importing")

ParseMainFile ==
    /\ In("reading")
    /\ ParseFile(project.mainPath, <<>>)
    /\ processed' = {project.mainPath}
    /\ UNCHANGED <<project, programs>>

NextImport == stack[Len(stack)]
OtherImports == SubSeq(stack, 1, Len(stack) - 1)

RejectImport ==
    /\ In("importing")
    /\ stack # <<>>
    /\ stack' = OtherImports
    /\ \/ /\ NextImport = BadPath
          /\ Failed("bad path")
       \/ /\ NextImport # BadPath
          /\ Search(NextImport) = Unsearchable
          /\ Failed("unsearchable")
       \/ /\ NextImport # BadPath
          /\ Search(NextImport) = Absent
          /\ Failed("not found")
    /\ UNCHANGED <<project, processed, programs>>

(* Mutant: the loop goes on before the import is taken off the stack.      *)
SkipImportMutant ==
    /\ In("importing")
    /\ stack # <<>>
    /\ Leads(NextImport)
    /\ Search(NextImport) \in processed
    /\ UNCHANGED <<project, phase, reading>>

SkipImport ==
    /\ In("importing")
    /\ stack # <<>>
    /\ Leads(NextImport)
    /\ Search(NextImport) \in processed
    /\ stack' = OtherImports
    /\ UNCHANGED <<project, phase, processed, programs>>

ParseImport ==
    /\ In("importing")
    /\ stack # <<>>
    /\ Leads(NextImport)
    /\ Search(NextImport) \notin processed
    /\ ParseFile(Search(NextImport), OtherImports)
    /\ programs' = IF phase'.name = "failed" THEN programs
                   ELSE Append(programs, Search(NextImport))
    /\ processed' = IF phase'.name = "failed" THEN processed
                    ELSE processed \cup {Search(NextImport)}
    /\ UNCHANGED project

StartAnalysis ==
    /\ In("importing")
    /\ stack = <<>>
    /\ Enters("analyzing")
    /\ UNCHANGED <<project, reading>>

(* What follows: nothing more is read.                                     *)
Refusals == {"unreadable", "unexpected token", "bad path", "unsearchable",
             "not found"}
ReadingIsOver == phase.name \in {"analyzing", "generating", "writing", "written"}

GoesOn ==
    /\ ReadingIsOver
    /\ ReadingIsOver' \/ phase'.name = "failed"
    /\ phase'.reason \notin Refusals
    /\ UNCHANGED <<project, reading>>

Reads == ParseMainFile \/ RejectImport \/ SkipImport \/ ParseImport
             \/ StartAnalysis

ReadingSpec == ReadingInit /\ [][Reads \/ GoesOn]_<<project, phase, reading>>

-----------------------------------------------------------------------------
(* What the reader promises.                                               *)

(* The names that the file at a path imports, if it can be read.           *)
NamesIn(p, path) ==
    IF TextIn(p, path).status = "good" THEN Extract(TextIn(p, path).stmts)
    ELSE <<>>

(* The files that the main file leads to: the least set that has it and    *)
(* what its files import.                                                  *)
IsClosed(p, paths) ==
    \A path \in paths : \A i \in DOMAIN NamesIn(p, path) :
        LeadsIn(p, NamesIn(p, path)[i]) =>
            SearchIn(p, NamesIn(p, path)[i]) \in paths
Reached(p) ==
    LET closed == {paths \in SUBSET PathsIn(p) :
                       p.mainPath \in paths /\ IsClosed(p, paths)}
    IN  {path \in PathsIn(p) : \A paths \in closed : path \in paths}

(* All that is reached can be read, and each import is found.              *)
IsReadable(p) ==
    \A path \in Reached(p) :
        /\ TextIn(p, path).status = "good"
        /\ \A i \in DOMAIN NamesIn(p, path) : LeadsIn(p, NamesIn(p, path)[i])

(* Where files are read depth first: the next is the first import that was *)
(* not read, of the last file that has one.                                *)
Met(files) == {files[i] : i \in DOMAIN files}

OpenImports(p, path, met) ==
    {i \in DOMAIN NamesIn(p, path) :
         LeadsIn(p, NamesIn(p, path)[i]) =>
             SearchIn(p, NamesIn(p, path)[i]) \notin met}

IsNext(p, path, files) ==
    \E k \in DOMAIN files : \E n \in OpenImports(p, files[k], Met(files)) :
        /\ path = SearchIn(p, NamesIn(p, files[k])[n])
        /\ path \notin Met(files)
        /\ \A m \in OpenImports(p, files[k], Met(files)) : n <= m
        /\ \A l \in DOMAIN files :
               l > k => OpenImports(p, files[l], Met(files)) = {}

IsDepthFirst(p, files) ==
    \A i \in 1..(Len(files) - 1) : IsNext(p, files[i + 1], SubSeq(files, 1, i))

(* What is read is read in full: with all that it imports.                 *)
IsFull(p, met) ==
    \A path \in met :
        /\ TextIn(p, path).status = "good"
        /\ \A i \in DOMAIN NamesIn(p, path) :
               /\ LeadsIn(p, NamesIn(p, path)[i])
               /\ SearchIn(p, NamesIn(p, path)[i]) \in met

FilesRead == <<project.mainPath>> \o programs

(* The files read are those that the main file leads to, each once and     *)
(* depth first, however they share imports and lead back to each other,    *)
(* and reading ends well only if all that they import was found and read;  *)
(* it is refused only if something that the main file leads to cannot be   *)
(* read or found (ParseFiles).                                             *)
ImportsAreFollowed ==
    /\ IsDepthFirst(project, FilesRead)
    /\ ReadingIsOver => IsFull(project, Met(FilesRead))
    /\ phase.reason \in Refusals => ~IsReadable(project)
=============================================================================
