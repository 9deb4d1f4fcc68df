------------------------------ MODULE MCValues ------------------------------
(***************************************************************************)
(* A small instance of Values for TLC: an int[], a string[][] and local    *)
(* strings.                                                                *)
(***************************************************************************)
EXTENDS Values

MCGlobal == {"numbers", "lists"}
MCTypeOf == [x \in MCGlobal |->
               IF x = "numbers" THEN ArrayOf(Int0) ELSE ArrayOf(ArrayOf(String0))]
MCLocalType == {String0}
MCStorageId == 1..10
=============================================================================
