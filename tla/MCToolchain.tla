---------------------------- MODULE MCToolchain -----------------------------
(* Model values, programs and bounds for Toolchain. *)
EXTENDS Toolchain, TLC

CONSTANTS count, total, part, run, help, print, scan, beep

SizeOf == count :> 1 @@ total :> 2

Define(x) == [defines |-> TRUE, id |-> x]
Use(id) == [defines |-> FALSE, id |-> id]
Def(f, uses) == [id |-> f, uses |-> uses]

(* A program with a variable, a native function and a function that uses   *)
(* both; one with a variable of its own and a function that uses those;    *)
(* one that uses what others define and another native function; and one   *)
(* without functions that defines what another defines, too, and calls a   *)
(* native function that the machine does not have.                         *)
Programs ==
  {[main |-> <<Define(total)>>, funcs |-> <<Def(run, <<total, print>>)>>,
    natives |-> {print}],
   [main |-> <<Use(run), Define(count)>>,
    funcs |-> <<Def(help, <<count>>)>>, natives |-> {}],
   [main |-> <<Use(scan), Use(total), Use(print)>>, funcs |-> <<>>,
    natives |-> {scan}],
   [main |-> <<Define(count), Use(beep)>>, funcs |-> <<>>, natives |-> {beep}]}

(* Programs that only define a variable each, and one whose code is too    *)
(* large for an address.                                                   *)
SizeOfThree == SizeOf @@ part :> 1
Definitions ==
  {[main |-> <<Define(x)>>, funcs |-> <<>>, natives |-> {}] : x \in Var}
    \cup {[main |-> <<Define(part), Use(part)>>, funcs |-> <<>>, natives |-> {}]}
=============================================================================
