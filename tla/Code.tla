-------------------------------- MODULE Code --------------------------------
(***************************************************************************)
(* The guest's instruction encoding, as far as fetching and decoding tell   *)
(* it apart: text is a sequence of halfwords; a halfword whose low bits are *)
(* 11 begins a 32 bit instruction, any other is a compressed instruction    *)
(* that decomp16_table expands to a 32 bit one or does not know.  What the  *)
(* search of optable makes of a 32 bit code is the constant Table.          *)
(***************************************************************************)
EXTENDS Integers

CONSTANTS Span,     \* pc>>1 ranges over 0 .. Span-1
          Half,     \* the values of a halfword
          Full,     \* the halfwords with low bits 11
          NoCode,   \* 0, what decomp16_table holds for an unknown encoding
          Decomp,   \* decomp16_table, on the halfwords outside Full
          Vliws,    \* decoded instructions
          Nop,      \* VLIW_NOP
          Unknown,  \* no row of optable matches
          Table     \* 32 bit code -> its decoding by optable

Codes == Full \X Half

ASSUME CodeAssumption ==
  /\ Span \in Nat \ {0}
  /\ Full \subseteq Half
  /\ NoCode \notin Codes
  /\ Decomp \in [Half \ Full -> Codes \cup {NoCode}]
  /\ Nop \in Vliws
  /\ Unknown \notin Vliws
  /\ Table \in [Codes -> Vliws \cup {Unknown}]

Pc == 0 .. Span-1

(* fetch32 reads two halfwords, so that text has one more than there are    *)
(* instruction addresses.                                                   *)
Texts == [0 .. Span -> Half]

(* The 32 bit code at p, decompressed if need be, and pc_inc.               *)
Fetch(t, p) == IF t[p] \in Full THEN <<t[p], t[p+1]>> ELSE Decomp[t[p]]

Increment(t, p) == IF t[p] \in Full THEN p + 2 ELSE p + 1

(* What executes for a code: decode2vliw leaves a NOP when it finds no row. *)
Meaning(code) == IF Table[code] = Unknown THEN Nop ELSE Table[code]

(* What an executed instruction shows: where it was, what it did, and the   *)
(* address of the instruction that follows it in memory.                    *)
Issues == [at : Pc, op : Vliws, inc : Nat]
=============================================================================
