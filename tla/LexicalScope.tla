---------------------------- MODULE LexicalScope ----------------------------
(***************************************************************************)
(* What the ids of a program mean, from where they stand alone.  programs  *)
(* is a sequence of texts in the order in which they are visited: all are  *)
(* imported but the last.                                                  *)
(***************************************************************************)
EXTENDS Naturals, Sequences, SequencesExt

CONSTANT NoId

LOCAL Def(at, id, kind, type) ==
    {[what |-> "def", at |-> at, id |-> id, kind |-> kind, type |-> type]}

LOCAL Use(at, id, isValue) ==
    IF id = NoId THEN {}
    ELSE {[what |-> "use", at |-> at, id |-> id, isValue |-> isValue]}

LOCAL Flaw(at) == {[what |-> "flaw", at |-> at]}

(* The definitions, the uses and the misplaced parts of a statement.       *)
RECURSIVE Nodes(_, _)
LOCAL NodesOfBlock(stmts, at, after) ==
    UNION {Nodes(stmts[i], Append(at, after + i)) : i \in DOMAIN stmts}

LOCAL NodesOfFunc(node, at) ==
    Def(at, node.id, "func", node.type)
        \cup (IF node.native = (node.kind = "proto") THEN {} ELSE Flaw(at))
        \cup UNION {Def(Append(at, i), node.args[i].id, "var",
                        node.args[i].type) : i \in DOMAIN node.args}

Nodes(node, at) ==
    CASE node.kind = "var" -> Def(at, node.id, "var", node.type)
                                  \cup Use(at, node.value, TRUE)
      [] node.kind = "proto" -> NodesOfFunc(node, at)
      [] node.kind = "func" ->
             NodesOfFunc(node, at)
                 \cup NodesOfBlock(node.body, at, Len(node.args))
      [] node.kind = "use" -> Use(at, node.id, FALSE)
      [] node.kind = "loop" -> Use(at, node.id, TRUE)
                                   \cup NodesOfBlock(node.body, at, 0)
      [] node.kind = "if" ->
             Use(at, node.id, TRUE)
                 \cup NodesOfBlock(node.body, Append(at, 1), 0)
                 \cup NodesOfBlock(node.orElse, Append(at, 2), 0)
      [] node.kind = "import" -> IF Len(at) > 2 THEN Flaw(at) ELSE {}

IsGlobal(node) == Len(node.at) = 2

(* The nodes that matter: of an imported program its global definitions.   *)
NodesOf(programs) ==
    UNION {LET nodes == NodesOfBlock(programs[p], <<p>>, 0) IN
           IF p = Len(programs) THEN nodes
           ELSE {n \in nodes : n.what = "def" /\ IsGlobal(n)}
           : p \in DOMAIN programs}

LOCAL Defs(nodes) == {n \in nodes : n.what = "def"}

Before(at, other) ==
    \E k \in DOMAIN at \cap DOMAIN other :
        /\ at[k] < other[k]
        /\ \A j \in 1..(k - 1) : at[j] = other[j]

LOCAL BlockOf(def) == IF IsGlobal(def) THEN <<>> ELSE Front(def.at)

(* A definition is known behind it and within it, to the end of its block. *)
Knows(use, def) ==
    /\ use.id = def.id
    /\ IsPrefix(BlockOf(def), use.at)
    /\ Before(def.at, use.at) \/ IsPrefix(def.at, use.at)

(* The first definition in the innermost block that has one.               *)
Meant(nodes, use) ==
    LET known == {d \in Defs(nodes) : Knows(use, d)}
        inner == {d \in known : \A other \in known :
                      Len(BlockOf(other)) <= Len(BlockOf(d))}
    IN  {d \in inner : \A other \in inner \ {d} : Before(d.at, other.at)}

LOCAL IsDuplicate(nodes, def) ==
    \E other \in Defs(nodes) : /\ other.id = def.id
                               /\ BlockOf(other) = BlockOf(def)
                               /\ Before(other.at, def.at)

(* What is wrong by itself.  An imported program answers for the names it  *)
(* defines, not for what they are.                                         *)
LOCAL IsWrong(nodes, last, n) ==
    CASE n.what = "flaw" -> TRUE
      [] n.what = "def" ->
             \/ IsDuplicate(nodes, n)
             \/ n.at[1] = last /\ (\/ n.kind = "var" /\ n.type = "void"
                                   \/ n.kind = "func" /\ ~IsGlobal(n))
      [] n.what = "use" ->
             \/ Meant(nodes, n) = {}
             \/ n.isValue /\ \E d \in Meant(nodes, n) : d.type # "value"

LOCAL LateImports(text, p) ==
    {<<p, i>> : i \in {i \in DOMAIN text :
                           /\ text[i].kind = "import"
                           /\ \E j \in 1..(i - 1) : text[j].kind # "import"}}

(* The statements that have a problem, and where the uses of the others    *)
(* lead.                                                                   *)
WrongStmts(programs, nodes) ==
    {SubSeq(n.at, 1, 2) : n \in {n \in nodes :
                                    IsWrong(nodes, Len(programs), n)}}
        \cup LateImports(programs[Len(programs)], Len(programs))

MeantUses(nodes, wrong) ==
    {[at |-> u.at, def |-> (CHOOSE d \in Meant(nodes, u) : TRUE).at]
     : u \in {n \in nodes : n.what = "use" /\ SubSeq(n.at, 1, 2) \notin wrong}}

(* The uses of a variable without a type to load.                          *)
LoadsVoid(nodes) ==
    \E u \in nodes : /\ u.what = "use"
                     /\ \E d \in Meant(nodes, u) :
                            d.kind = "var" /\ d.type = "void"

HasDeepType(programs) ==
    \E n \in UNION {NodesOfBlock(programs[p], <<p>>, 0)
                    : p \in DOMAIN programs} :
        n.what = "def" /\ n.type = "deep"
=============================================================================
