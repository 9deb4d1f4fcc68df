--------------------------- MODULE MCFlowCompiler ---------------------------
(* Model values and bounds for FlowCompiler. *)
EXTENDS FlowCompiler, TLC

CONSTANTS bool, long, void, fun, proc, main, unwritten

(* DataTypeSize: a bool takes one slot, a long two. *)
SizeOf == bool :> 1 @@ long :> 2

(* Main code alone. *)
NoArgs == [x \in {} |-> <<>>]
NoResult == [x \in {} |-> void]
MainCode == main :> 8
=============================================================================
