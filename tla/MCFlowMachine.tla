---------------------------- MODULE MCFlowMachine ---------------------------
(* Model values and bounds for FlowMachine. *)
EXTENDS FlowMachine, TLC

CONSTANTS bool, long, void, fun, proc, main, unwritten

(* DataTypeSize: a bool takes one slot, a long two. *)
SizeOf == bool :> 1 @@ long :> 2

(* Main code alone. *)
NoArgs == [x \in {} |-> <<>>]
NoResult == [x \in {} |-> void]
MainCode == main :> 8

(* A function of two arguments and a result, and a procedure, called by    *)
(* main code, by themselves and by each other.                             *)
ArgsOf == fun :> <<long, bool>> @@ proc :> <<bool>>
ResultOf == fun :> long @@ proc :> void
FuncCode == main :> 2 @@ fun :> 6 @@ proc :> 2
=============================================================================
