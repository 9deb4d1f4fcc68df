------------------------------- MODULE Names -------------------------------
(***************************************************************************)
(* The ids of a program in the semantic analyzer: the stack of scopes, the *)
(* visits that enter definitions into it and look ids up in it, and what a *)
(* visit leaves behind when it throws.                                     *)
(*                                                                         *)
(* Types, values and the wording of problems are left to Typing.  What is  *)
(* kept of a type: "value" stands for all a variable may have, "void", and *)
(* "deep" for an array type of more dimensions than are supported.  What   *)
(* is kept of an expression is the id it uses: a variable as it stands, a  *)
(* function as a call, which has no value.                                 *)
(*                                                                         *)
(* A node is known by where it stands: the number of its program, that of  *)
(* its statement, and so on inwards.                                       *)
(***************************************************************************)
EXTENDS Naturals, Sequences, FiniteSetsExt, TLC

CONSTANT NoId

(* What may be thrown, and what a definition and an id found are.          *)
Fine == "fine"
NoDef == [at |-> <<>>, kind |-> "none", type |-> "void"]

NewScope(type) == [type |-> type, ids |-> <<>>]

(* The analyzer as a program finds it.  importing is is_program_import_,   *)
(* nonImports is has_non_import_stmts_, held says whether                  *)
(* current_data_type_ still holds a type, uses are the analyses of ids.    *)
Analyzer == [scopes |-> <<NewScope("global")>>, importing |-> TRUE,
             nonImports |-> FALSE, held |-> FALSE, uses |-> {},
             problems |-> {}, error |-> Fine, aborted |-> FALSE]

Runs(a) == a.error = Fine /\ ~a.aborted

ThrowError(a, error) == [a EXCEPT !.error = error]

(* What follows a visit, if the visit did not throw.  The set gives the    *)
(* analyzer it leaves a name, so that it is worked out once.               *)
Then(visited, Rest(_)) ==
    CHOOSE r \in {IF Runs(b) THEN Rest(b) ELSE b : b \in {visited}} : TRUE

PushScope(a, type) == [a EXCEPT !.scopes = Append(@, NewScope(type))]

(* A scope leaves the stack when its visit is left, by a throw too.        *)
(* Mutant: a throw leaves the scope behind.                                *)
PopScopeMutant(a, outer) ==
    IF Runs(a) THEN [a EXCEPT !.scopes = SubSeq(@, 1, Len(outer.scopes))]
    ELSE a

PopScope(a, outer) == [a EXCEPT !.scopes = SubSeq(@, 1, Len(outer.scopes))]

IsCurrentScopeGlobal(a) == a.scopes[Len(a.scopes)].type = "global"

-----------------------------------------------------------------------------
(* Types, definitions and ids.                                             *)

(* The type of too many dimensions is thrown after it was put down.        *)
VisitArrayDataType(a) ==
    ThrowError([a EXCEPT !.held = TRUE], "ArrayTypeWithTooManyDimensions")

CreateDataType(a, type) ==
    IF a.held THEN [a EXCEPT !.aborted = TRUE]
    ELSE IF type = "deep" THEN VisitArrayDataType(a)
    ELSE a

AddDefAnalysis(a, id, def) ==
    LET top == Len(a.scopes) IN
    IF id \in DOMAIN a.scopes[top].ids
    THEN ThrowError(a, "DuplicateDef")
    ELSE [a EXCEPT !.scopes[top].ids = @ @@ (id :> def)]

(* Mutant: the outermost scope is asked first.                             *)
FoundDefMutant(a, id) ==
    LET holders == {i \in DOMAIN a.scopes : id \in DOMAIN a.scopes[i].ids}
    IN  IF holders = {} THEN NoDef ELSE a.scopes[Min(holders)].ids[id]

FoundDef(a, id) ==
    LET holders == {i \in DOMAIN a.scopes : id \in DOMAIN a.scopes[i].ids}
    IN  IF holders = {} THEN NoDef ELSE a.scopes[Max(holders)].ids[id]

VisitId(a, id, at) ==
    IF FoundDef(a, id) = NoDef
    THEN ThrowError(a, "IdWithoutDef")
    ELSE [a EXCEPT !.uses = @ \cup {[at |-> at, def |-> FoundDef(a, id).at]}]

(* An id where a value is needed, which has to be cast to a known type.    *)
VisitValue(a, id, at) ==
    Then(VisitId(a, id, at),
         LAMBDA b : IF FoundDef(b, id).type = "value" THEN b
                    ELSE ThrowError(b, "IncompatibleType"))

VisitVarDef(a, node, at) ==
    LET def == [at |-> at, kind |-> "var", type |-> node.type] IN
    Then(Then(CreateDataType([a EXCEPT !.nonImports = TRUE], node.type),
              LAMBDA b : AddDefAnalysis(b, node.id, def)),
         LAMBDA b : IF ~b.importing /\ node.type = "void"
                    THEN ThrowError(b, "DefWithUnsupportedType")
                    ELSE b)

VisitVarDefWithInit(a, node, at) ==
    Then(VisitVarDef(a, node, at),
         LAMBDA b : IF b.importing \/ node.value = NoId THEN b
                    ELSE VisitValue(b, node.value, at))

-----------------------------------------------------------------------------
(* Functions.                                                              *)

RECURSIVE CreateArgTypes(_, _)
CreateArgTypes(a, args) ==
    IF args = <<>> THEN a
    ELSE Then(CreateDataType(a, Head(args).type),
              LAMBDA b : CreateArgTypes(b, Tail(args)))

VisitFuncDef(a, node, at) ==
    LET begun == [a EXCEPT !.nonImports = TRUE]
        def == [at |-> at, kind |-> "func", type |-> node.type]
    IN  IF ~IsCurrentScopeGlobal(a)
        THEN ThrowError(begun, "FuncDefWithinNonGlobalScope")
        ELSE Then(Then(CreateDataType(begun, node.type),
                       LAMBDA b : CreateArgTypes(b, node.args)),
                  LAMBDA b : AddDefAnalysis(b, node.id, def))

(* Arguments stand before the statements of the body in one scope.         *)
RECURSIVE VisitArgDefs(_, _, _, _)
VisitArgDefs(a, args, i, at) ==
    IF i > Len(args) THEN a
    ELSE Then(VisitVarDef(a, args[i], Append(at, i)),
              LAMBDA b : VisitArgDefs(b, args, i + 1, at))

VisitFuncDefWithoutBody(a, node, at) ==
    Then(VisitFuncDef(a, node, at),
         LAMBDA b : IF b.importing THEN b
                    ELSE IF ~node.native
                         THEN ThrowError(b, "FuncDefWithoutBodyNotNative")
                    ELSE PopScope(VisitArgDefs(PushScope(b, "func"),
                                               node.args, 1, at), a))

RECURSIVE VisitStmt(_, _, _), VisitScope(_, _, _, _, _)

(* The statements of a body from the i-th on, numbered from after on.      *)
VisitScope(a, body, i, at, after) ==
    IF i > Len(body) THEN a
    ELSE Then(VisitStmt(a, body[i], Append(at, after + i)),
              LAMBDA b : VisitScope(b, body, i + 1, at, after))

VisitBody(a, node, at) ==
    Then(VisitArgDefs(PushScope(a, "func"), node.args, 1, at),
         LAMBDA b : VisitScope(b, node.body, 1, at, Len(node.args)))

VisitFuncDefWithBody(a, node, at) ==
    Then(VisitFuncDef(a, node, at),
         LAMBDA b : IF b.importing THEN b
                    ELSE IF node.native
                         THEN ThrowError(b, "FuncDefWithBodyIsNative")
                    ELSE PopScope(VisitBody(b, node, at), a))

-----------------------------------------------------------------------------
(* Other statements.                                                       *)

VisitImport(a) ==
    IF ~a.importing /\ a.nonImports
    THEN ThrowError(a, "ImportIsNotFirstStmt")
    ELSE a

VisitExprStmt(a, node, at) ==
    LET begun == [a EXCEPT !.nonImports = TRUE] IN
    IF a.importing THEN begun ELSE VisitId(begun, node.id, at)

VisitPreTestLoop(a, node, at) ==
    LET begun == [a EXCEPT !.nonImports = TRUE] IN
    IF a.importing THEN begun
    ELSE Then(VisitValue(begun, node.id, at),
              LAMBDA b : PopScope(VisitScope(PushScope(b, "loop"),
                                             node.body, 1, at, 0), a))

VisitBranch(a, body, at) ==
    PopScope(VisitScope(PushScope(a, "common"), body, 1, at, 0), a)

VisitIfElseIfElse(a, node, at) ==
    LET begun == [a EXCEPT !.nonImports = TRUE] IN
    IF a.importing THEN begun
    ELSE Then(Then(VisitValue(begun, node.id, at),
                   LAMBDA b : VisitBranch(b, node.body, Append(at, 1))),
              LAMBDA b : VisitBranch(b, node.orElse, Append(at, 2)))

VisitStmt(a, node, at) ==
    CASE node.kind = "var" -> VisitVarDefWithInit(a, node, at)
      [] node.kind = "func" -> VisitFuncDefWithBody(a, node, at)
      [] node.kind = "proto" -> VisitFuncDefWithoutBody(a, node, at)
      [] node.kind = "import" -> VisitImport(a)
      [] node.kind = "use" -> VisitExprStmt(a, node, at)
      [] node.kind = "loop" -> VisitPreTestLoop(a, node, at)
      [] node.kind = "if" -> VisitIfElseIfElse(a, node, at)

(* VisitProgram: how a program begins, and one turn of its loop, which     *)
(* catches what a statement throws and goes on behind it.                  *)
(* Mutant: what an imported program began with is kept.                    *)
BeginProgramMutant(a, isImport) == [a EXCEPT !.importing = isImport]

BeginProgram(a, isImport) ==
    [a EXCEPT !.importing = isImport, !.nonImports = FALSE]

Catch(visited, at) ==
    IF visited.error = Fine THEN visited
    ELSE [visited EXCEPT
             !.error = Fine,
             !.problems = @ \cup {[at |-> at, error |-> visited.error]}]

VisitTopStmt(a, node, at) ==
    Catch(VisitStmt(a, node, at), at)
=============================================================================
