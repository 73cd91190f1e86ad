------------------------------ MODULE MCMemory -----------------------------
(***************************************************************************)
(* An instance of Memory that TLC can enumerate: 12 addresses, words of two *)
(* bytes, bytes of one bit which is their sign too.  The segments lie side  *)
(* by side, so that an access which straddles their border shows.           *)
(***************************************************************************)
EXTENDS Memory

MCText == [base |-> 2, len |-> 2]
MCData == [base |-> 4, len |-> 4]
MCHost == [base |-> 8, len |-> 4]
MCPowerOffs == {v \in [0 .. 1 -> {0, 1}] : v[1] = 1}
=============================================================================
