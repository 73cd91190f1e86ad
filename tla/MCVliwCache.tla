----------------------------- MODULE MCVliwCache ----------------------------
(***************************************************************************)
(* An instance of VliwCache that TLC can enumerate.  Halfwords: "w" begins  *)
(* a 32 bit instruction, "c" is a compressed one that expands to <<w, c>>,   *)
(* "z" is one that does not expand.  Of the three 32 bit codes, <<w, z>> is  *)
(* unknown to optable; all collide in a hash table of MCHashes entries.      *)
(***************************************************************************)
EXTENDS VliwCache

MCHalf    == {"w", "c", "z"}
MCFull    == {"w"}
MCNoCode  == <<>>
MCDecomp  == [h \in {"c", "z"} |-> IF h = "c" THEN <<"w", "c">> ELSE MCNoCode]
MCNop     == "nop"
MCUnknown == "unknown"
MCEmpty   == "none"
MCVliws   == {"nop", "op w", "op c"}
MCTable   == [code \in MCFull \X MCHalf |->
                CASE code[2] = "w" -> "op w"
                  [] code[2] = "c" -> "op c"
                  [] code[2] = "z" -> MCUnknown]
MCHashes  == {0}
MCHashIt  == [code \in MCFull \X MCHalf |-> 0]
=============================================================================
