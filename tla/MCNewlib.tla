------------------------------ MODULE MCNewlib -----------------------------
(***************************************************************************)
(* An instance of Newlib that TLC can enumerate: two descriptors beside     *)
(* the streams, two names, two files, and 8 addresses with the heap from    *)
(* 4, so that brk wraps.  Files, stdin and the heap share nothing but a0:   *)
(* behaviours that use two of them are cut off after the first step.        *)
(***************************************************************************)
EXTENDS Newlib

MCInputs == {<<"nl", "c", "c", "nl">>}

Bound == Cardinality({x \in {"files", "stdin", "heap"} :
            \/ x = "files" /\ (DOMAIN host # Console \/ dir # [n \in Names |-> None])
            \/ x = "stdin" /\ input \notin Inputs
            \/ x = "heap"  /\ heap # 0}) <= 1
=============================================================================
