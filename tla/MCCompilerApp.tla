--------------------------- MODULE MCCompilerApp ---------------------------
(***************************************************************************)
(* Projects of up to three files: every way they may import each other,    *)
(* every way a name may be found, and main programs whose definitions and  *)
(* uses of two ids stand in all kinds of places.                           *)
(***************************************************************************)
EXTENDS CompilerApp

(* A project has the files named m, a and b, m the main one.               *)
File == {"m", "a", "b"}
Given == "given"

(* Statements.                                                             *)
Import(name) == [kind |-> "import", name |-> name]
Var(id, type, value) ==
    [kind |-> "var", id |-> id, type |-> type, value |-> value]
FuncOf(id, type, native, args, body) ==
    [kind |-> "func", id |-> id, type |-> type, native |-> native,
     args |-> args, body |-> body]
Func(id, args, body) == FuncOf(id, "void", FALSE, args, body)
Proto(id, native, args) ==
    [kind |-> "proto", id |-> id, type |-> "void", native |-> native,
     args |-> args]
UseOf(id) == [kind |-> "use", id |-> id]
Loop(id, body) == [kind |-> "loop", id |-> id, body |-> body]
If(id, body, orElse) ==
    [kind |-> "if", id |-> id, body |-> body, orElse |-> orElse]
Arg(id, type) == [id |-> id, type |-> type]

Good(stmts) == [status |-> "good", stmts |-> stmts]
Bad(status) == [status |-> status, stmts |-> <<>>]

-----------------------------------------------------------------------------
(* Imports: one folder that has every file under its own name.             *)
AsNamed == [n \in File |-> n]

Imports(names) == [i \in DOMAIN names |-> Import(names[i])]
ImportLists == UNION {[1..n -> File] : n \in 0..2}

OwnId(file) == CASE file = "m" -> "x" [] file = "a" -> "y" [] OTHER -> "z"

GraphTexts(file) ==
    {Good(Imports(names) \o <<Var(OwnId(file), "value", NoId)>>)
     : names \in ImportLists}

BadTexts == {Bad("unreadable"), Bad("unexpected token"),
             Good(<<Import(BadPath), Import("b")>>)}

Graphs ==
    {[mainPath |-> path, main |-> "m", folders |-> <<"src">>,
      places |-> "src" :> AsNamed, texts |-> "m" :> m @@ "a" :> a @@ "b" :> b]
     : path \in {Given, "m"}, m \in GraphTexts("m"),
       a \in GraphTexts("a") \cup BadTexts, b \in GraphTexts("b")}

(* Searches: the name a in two folders of vendors, in either order, and in *)
(* that of another project.                                                *)
Place(a) == [n \in File |-> IF n = "a" THEN a ELSE Absent]
Found == {"a", "b", "m", Absent, Unsearchable}

Searches ==
    {[mainPath |-> Given, main |-> "m", folders |-> folders,
      places |-> "src" :> Place(s) @@ "one" :> Place(o) @@ "two" :> Place(t),
      texts |-> "m" :> Good(<<Import("a"), UseOf("y")>>)
                @@ "a" :> Good(<<Var("y", "value", NoId)>>)
                @@ "b" :> Good(<<Import("a"), Func("y", <<>>, <<>>)>>)]
     : folders \in {<<"src", "one", "two">>, <<"src", "two", "one">>},
       s \in Found, o \in Found, t \in Found}

-----------------------------------------------------------------------------
(* Names: what a file imports from a and b, and the statements of m.       *)
Imported ==
    {<<>>, <<Import("m")>>, <<Var("x", "value", NoId)>>, <<Var("x", "void", "y")>>,
     <<Func("y", <<Arg("y", "value")>>, <<UseOf("x")>>)>>,
     <<Var("x", "deep", NoId)>>,
     <<UseOf("x"), Loop("y", <<>>), If("y", <<>>, <<>>), Import("b"),
       Proto("x", TRUE, <<>>), Var("x", "value", NoId),
       Proto("y", FALSE, <<Arg("y", "deep")>>)>>}

Leaf == {Var("x", "value", NoId), Var("x", "value", "x"),
         Var("x", "value", "y"), UseOf("x"), UseOf("y")}

Bodies == {<<s>> : s \in Leaf} \cup {<<s, t>> : s \in Leaf, t \in Leaf}
Inner == {<<Loop("y", <<s>>), t>> : s \in Leaf, t \in {UseOf("x")}}
             \cup {<<s, If("x", <<t>>, <<UseOf("x")>>)>> : s \in Leaf, t \in Leaf}
             \cup {<<Func("x", <<>>, <<>>)>>, <<Import("b")>>,
                   <<Var("y", "void", NoId)>>}

TopStmts ==
    Leaf \cup {Var("y", "value", NoId), Var("y", "void", NoId),
               Var("x", "deep", NoId), Import("b"), Func("x", <<>>, <<>>),
               Proto("y", TRUE, <<Arg("x", "value"), Arg("x", "value")>>),
               Proto("y", FALSE, <<>>),
               FuncOf("y", "void", TRUE, <<>>, <<>>),
               FuncOf("y", "deep", FALSE, <<>>, <<>>),
               Func("y", <<Arg("x", "deep")>>, <<>>),
               Func("y", <<Arg("x", "void")>>, <<>>)}
         \cup {Loop("y", body) : body \in Bodies}
         \cup {If("y", <<Var("x", "value", NoId), s>>, <<t>>)
               : s \in Leaf, t \in Leaf}
         \cup {Func("y", args, body)
               : args \in {<<>>, <<Arg("x", "value")>>, <<Arg("y", "value")>>},
                 body \in Bodies \cup Inner}

Simple == Leaf \cup {Var("y", "value", NoId), Var("y", "void", NoId),
                     Func("y", <<>>, <<Var("x", "value", "y")>>),
                     Func("y", <<Arg("x", "value")>>, <<UseOf("x")>>),
                     Loop("y", <<Var("x", "value", NoId), UseOf("x")>>)}

NameTexts ==
    {<<s>> : s \in TopStmts} \cup {<<s, t>> : s \in Simple, t \in TopStmts}
        \cup {<<s, t>> : s \in TopStmts, t \in Simple}
        \cup {<<r, s, t>> : r \in Simple, s \in Simple, t \in Simple}

NameProjects ==
    {[mainPath |-> Given, main |-> "m", folders |-> <<"src">>,
      places |-> "src" :> AsNamed,
      texts |-> "m" :> Good(<<Import("a")>> \o stmts) @@ "a" :> Good(imported)
                @@ "b" :> Good(<<>>)]
     : stmts \in NameTexts, imported \in Imported}

MCProjects == <<Graphs, Searches, NameProjects>>
=============================================================================
