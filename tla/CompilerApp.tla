---------------------------- MODULE CompilerApp ----------------------------
(***************************************************************************)
(* The compiler application: it reads the main file and all that it        *)
(* imports (SourceFiles), analyzes the programs in one global scope and    *)
(* writes a module if there are no problems.                               *)
(***************************************************************************)
EXTENDS SourceFiles, Names

VARIABLES analyzer, cursor

vars == <<project, phase, stack, processed, programs, analyzer, cursor>>

analyzing == <<analyzer, cursor>>

Reasons == Refusals \cup {"problems", "assertion", "overflow", "unwritable"}

(* Where a compilation ends.                                               *)
Terminal == {"written", "failed"}

(* The order in which Analyze visits: the imports found last come first,   *)
(* the main program comes last.                                            *)
VisitedPaths ==
    [i \in DOMAIN programs |-> programs[Len(programs) + 1 - i]]
        \o <<project.mainPath>>

Init ==
    /\ ReadingInit
    /\ analyzer = Analyzer
    /\ cursor = [program |-> 1, stmt |-> 0]

-----------------------------------------------------------------------------
CurrentText == TextAt(VisitedPaths[cursor.program]).stmts

VisitProgram ==
    /\ In("analyzing")
    /\ cursor.program \in DOMAIN VisitedPaths
    /\ cursor.stmt = 0
    /\ analyzer' = BeginProgram(analyzer, cursor.program < Len(VisitedPaths))
    /\ cursor' = [cursor EXCEPT !.stmt = 1]
    /\ UNCHANGED phase /\ GoesOn

VisitNextStmt ==
    /\ In("analyzing")
    /\ cursor.program \in DOMAIN VisitedPaths
    /\ cursor.stmt \in DOMAIN CurrentText
    /\ \E visited \in {VisitTopStmt(analyzer, CurrentText[cursor.stmt],
                                     <<cursor.program, cursor.stmt>>)} :
           /\ analyzer' = visited
           /\ IF visited.aborted THEN Failed("assertion")
              ELSE UNCHANGED phase
    /\ cursor' = [cursor EXCEPT !.stmt = @ + 1]
    /\ GoesOn

LeaveProgram ==
    /\ In("analyzing")
    /\ cursor.program \in DOMAIN VisitedPaths
    /\ cursor.stmt > Len(CurrentText)
    /\ cursor' = [program |-> cursor.program + 1, stmt |-> 0]
    /\ UNCHANGED <<phase, analyzer>> /\ GoesOn

(* Mutant: the problems of imported programs do not count.                 *)
HasSemanticErrorsMutant ==
    \E p \in analyzer.problems : p.at[1] = Len(VisitedPaths)

HasSemanticErrors == analyzer.problems # {}

EndAnalysis ==
    /\ In("analyzing")
    /\ cursor.program = Len(VisitedPaths) + 1
    /\ IF HasSemanticErrors THEN Failed("problems")
       ELSE Enters("generating")
    /\ UNCHANGED analyzing /\ GoesOn

(* The generator has no command that loads a variable of type void.  Code  *)
(* that outgrows its addresses is reported.                                *)
DefOf(use) ==
    LET path == VisitedPaths[use.def[1]]
    IN  IF Len(use.def) = 2 THEN TextAt(path).stmts[use.def[2]]
        ELSE [kind |-> "local"]

LoadsVoidVar ==
    \E use \in analyzer.uses :
        DefOf(use).kind = "var" /\ DefOf(use).type = "void"

Generate ==
    /\ In("generating")
    /\ \/ /\ LoadsVoidVar
          /\ Failed("assertion")
       \/ /\ ~LoadsVoidVar
          /\ Failed("overflow")
       \/ /\ ~LoadsVoidVar
          /\ Enters("writing")
    /\ UNCHANGED analyzing /\ GoesOn

Write ==
    /\ In("writing")
    /\ Failed("unwritable") \/ Enters("written")
    /\ UNCHANGED analyzing /\ GoesOn

Analyzes == VisitProgram \/ VisitNextStmt \/ LeaveProgram \/ EndAnalysis

Next ==
    \/ Reads /\ UNCHANGED analyzing
    \/ Analyzes \/ Generate \/ Write

(* Run is a loop that goes on until it returns.                            *)
Spec == Init /\ [][Next]_vars /\ WF_vars(Next)

-----------------------------------------------------------------------------
(* What the compiler promises.                                             *)

Meaning == INSTANCE LexicalScope

CompilerTypeOK ==
    /\ phase.name \in {"reading", "importing", "analyzing", "generating",
                       "writing", "written", "failed"}
    /\ phase.reason \in Reasons \cup {None}
    /\ phase.name = "failed" <=> phase.reason # None
    /\ processed \subseteq PathsIn(project)
    /\ programs \in Seq(PathsIn(project))
    /\ Len(analyzer.scopes) = 1 \/ analyzer.aborted
    /\ analyzer.error = Fine \/ analyzer.aborted

TextsVisited ==
    [i \in DOMAIN VisitedPaths |-> TextAt(VisitedPaths[i]).stmts]

(* A statement has a problem exactly if its own text is wrong where it     *)
(* stands: neither what was thrown in an earlier statement nor the file in *)
(* which an imported definition stands makes a difference (VisitProgram,   *)
(* the destructor of Scope, AddDefAnalysis).                               *)
AnalysisIsOver == phase.name \in {"generating", "writing", "written"}
                  \/ phase.reason = "problems"

EveryStatementIsJudged ==
    AnalysisIsOver /\ ~Meaning!HasDeepType(TextsVisited) =>
        {p.at : p \in analyzer.problems} =
            Meaning!WrongStmts(TextsVisited, Meaning!NodesOf(TextsVisited))

(* The id of a statement without a problem stands for the definition that  *)
(* its place in the text says, in whatever scopes, functions and files     *)
(* (VisitId).                                                              *)
UsesAreLexical ==
    AnalysisIsOver /\ ~Meaning!HasDeepType(TextsVisited) =>
        LET wrong == {p.at : p \in analyzer.problems}
        IN  {u \in analyzer.uses : SubSeq(u.at, 1, 2) \notin wrong} =
                Meaning!MeantUses(Meaning!NodesOf(TextsVisited), wrong)

(* A compilation that returns says why: a module is written only of a      *)
(* project that can be read and has no problem, and such a project is      *)
(* refused for want of space or room alone.  An assertion stops it in two  *)
(* cases: behind a type of too many dimensions, and where a variable is    *)
(* loaded that another file defines with type void (Run, CreateDataType,   *)
(* IdNodeProcessor).                                                       *)
Outcome(reason) == phase.name = "failed" /\ phase.reason = reason

OutcomeIsDeserved ==
    /\ Outcome("problems") => analyzer.problems # {}
    /\ phase.name = "written" => /\ IsReadable(project)
                                 /\ analyzer.problems = {}
                                 /\ ~Meaning!LoadsVoid(
                                       Meaning!NodesOf(TextsVisited))
    /\ Outcome("assertion") =>
           \/ Meaning!HasDeepType(TextsVisited)
           \/ Meaning!LoadsVoid(Meaning!NodesOf(TextsVisited))

(* Every compilation returns, imports in a circle or not.                  *)
CompilationEnds == <>(phase.name \in Terminal)
=============================================================================
