------------------------------ MODULE MCLoader -----------------------------
(***************************************************************************)
(* Instances of Loader that TLC can enumerate, for 16 addresses.            *)
(***************************************************************************)
EXTENDS Loader

MCBuilt  == [text |-> [base |-> 0, len |-> 2], data |-> [base |-> 8, len |-> 2]]

(* The order of Demo32.elf, and one with a section that is not loaded.      *)
MCDemo   == {<<"text", "data", "array", "bss">>, <<"debug", "data", "bss", "text">>}

(* The two passes disagree about a section: one of .data that may not be    *)
(* written, one of .bss that has bits.                                      *)
MCOdd    == {<<"text", "data", "bits", "bss">>, <<"bss", "const", "text", "data">>}

(* What is placed as a linker does it.                                      *)
MCLinked == MCDemo \cup MCOdd

(* Data between two sections of text, and text behind the data.             *)
MCMixed  == {<<"text", "bss", "data", "text">>, <<"array", "data", "bss", "text">>}

(* Without .bss.                                                            *)
MCNoBss  == {<<"text", "data">>}

(* All kinds of sections, in pairs and triples.                             *)
MCAny    == {<<"text", "data", "bss">>, <<"data", "array", "text">>,
             <<"text", "const", "bss">>, <<"bss", "text">>, <<"data">>,
             <<"text", "odd">>, <<"debug", "text", "text">>,
             <<"data", "bits", "text">>}
            \cup MCLinked \cup MCMixed
=============================================================================
