------------------------------- MODULE Tools -------------------------------
(***************************************************************************)
(* What the program makes of one code in text, in the order of main: with   *)
(* -d disasm_all lists it, through disasm and decode2vliw, wherever it      *)
(* stands; with -c rv_compile writes a statement for it; then it is run.    *)
(* None of the readers calls another on a code of the same kind.            *)
(***************************************************************************)
EXTENDS Listing

CONSTANTS Halves,   \* codes of 16 bits: numbers
          Fulls     \* codes of 32 bits: records of Fields

(* A halfword with low bits 11 begins a code of 32 bits.  Those of which    *)
(* Decode leaves out the rows are not among the codes.                      *)
ASSUME CodeAssumption ==
  /\ \A n \in Halves : n \in 0 .. 2^16 - 1 /\ n % 4 # 3
  /\ Fulls \subseteq {k \in Fields : k.opc \notin Foreign}

A == INSTANCE Assembler

VARIABLES
  word,      \* the code
  stage,     \* where main is
  listed,    \* the Vliw in the listing, Unset before
  shown,     \* the text of disasm beside it
  fast,      \* fastTable's entry for it, None for NULL
  written,   \* what rv_insn wrote
  issued     \* the Vliw that the run executes

vars == <<word, stage, listed, shown, fast, written, issued>>

Unset == [op |-> "unset"]

Init == /\ \/ \E n \in Halves : word = [len |-> 2, code |-> n]
           \/ \E k \in Fulls : word = [len |-> 4, code |-> k]
        /\ stage = "disasm" /\ fast = None
        /\ listed = Unset /\ shown = Unset /\ written = Unset /\ issued = Unset

-----------------------------------------------------------------------------
Compressed16 == word.len = 2

(* decode2vliw and decodeCompressed begin with a NOP, and leave it when     *)
(* there is no row.                                                         *)
Filled(v) == IF v = None THEN Insn("NOP", 0, 0, 0, 0) ELSE v

(* disasm and rv_insn look at the lowest 7 bits of either kind: none of     *)
(* their cases ends in other than 11.                                       *)
Text == IF Compressed16 THEN None ELSE disasm(word.code)

(* decode2vliw as disasm_all calls it: 16 bit codes go on to                *)
(* decodeCompressed, which asks fastTable first.                            *)
Decoded == IF ~Compressed16 THEN decode2vliw(word.code)
           ELSE IF fast # None THEN fast ELSE decodeCompressed(word.code)

Disassemble ==
  /\ stage = "disasm" /\ Decoded # Fatal
  /\ shown' = Text /\ listed' = Filled(Decoded)
  /\ fast' = IF Compressed16 THEN Decoded ELSE fast
  /\ UNCHANGED <<word, stage, written, issued>>

DisassembleFatal ==
  /\ stage = "disasm" /\ Decoded = Fatal
  /\ stage' = "exit" /\ UNCHANGED <<word, listed, shown, fast, written, issued>>

NextTool ==
  /\ stage \in {"disasm", "compile"}
  /\ stage' = CASE stage = "disasm"  -> "compile"
                [] stage = "compile" -> "run"
  /\ UNCHANGED <<word, listed, shown, fast, written, issued>>

Compile ==
  /\ stage = "compile" /\ written = Unset
  /\ written' = IF Compressed16 THEN None ELSE rv_insn(word.code)
  /\ UNCHANGED <<word, stage, listed, shown, fast, issued>>

(* run: a 16 bit code is replaced by its 32 bit code, or it is the end.     *)
code32 == IF Compressed16 THEN Decomp16(word.code) ELSE word.code
Executable == code32 # None /\ decode2vliw(code32) # Fatal

Run ==
  /\ stage = "run" /\ Executable
  /\ issued' = Filled(decode2vliw(code32))
  /\ stage' = "ran" /\ UNCHANGED <<word, listed, shown, fast, written>>

RunEnds ==
  /\ stage = "run" /\ ~Executable
  /\ stage' = "exit" /\ UNCHANGED <<word, listed, shown, fast, written, issued>>

Next == Disassemble \/ DisassembleFatal \/ NextTool \/ Compile \/ Run \/ RunEnds

Spec == Init /\ [][Next]_vars

-----------------------------------------------------------------------------
(* An instruction that the program knows, as opposed to a code that runs as *)
(* a NOP for want of a row.                                                 *)
Known == stage = "ran" /\ decode2vliw(code32) # None

(* What is executed is what was assembled, bit for bit: the instruction     *)
(* that decode2vliw issues has no other code.  Of fence it drops the bits   *)
(* (optable, doJoff, doBoff, mk_simm12, doS2imm12).                         *)
DecodesExactly == Known /\ issued.op # "FENCE" => A!Encode(issued) = code32

(* The listing shows what will be executed.  The two readings of 16 bit     *)
(* codes differ for slli of registers that are not s0 .. a5, whose register *)
(* decodeCompressed maps as if it had 3 bits, and for lw and sw with an     *)
(* offset of 64 or more, which mk_sw takes for negative.                    *)
DecodersDiffer ==
  /\ Compressed16
  /\ \/ Name(word.code) = "SLLI" /\ issued.rd \notin 8 .. 15
     \/ Name(word.code) \in {"LW", "SW"} /\ issued.imm >= 64

ListingAgrees ==
  stage = "ran" /\ listed # Unset =>
    (Plain(listed) = Plain(issued) <=> ~DecodersDiffer)

(* The text of disasm is that of the instruction executed.  It has no name  *)
(* for beq, bne, bltu and bgeu of x0 with another register, nothing for     *)
(* fence, nor for 16 bit codes; of the codes that are not known only a jalr *)
(* with a funct3 has a text.                                                *)
Nameless ==
  \/ Compressed16 \/ issued.op = "FENCE"
  \/ issued.op \in {"BEQ", "BNE", "BLTU", "BGEU"} /\ issued.rs1 = 0 /\ issued.rs2 # 0
TextAgrees ==
  stage = "ran" /\ shown # Unset =>
    IF Known THEN IF Nameless THEN shown \in {None, Unreadable} ELSE Plain(shown) = Plain(issued)
    ELSE shown \in {None, Unreadable} \/ shown.op = "JALR"

(* The statement in the C program is that of the instruction executed, but  *)
(* for what rv_insn leaves out; for a code that is not known it has one in  *)
(* the shape of a shift or of a jalr, whose function bits it ignores.       *)
Untranslated ==
  Compressed16 \/ issued.op = "FENCE" \/ A!In(A!Muldiv, issued.op)
StatementAgrees ==
  stage = "ran" /\ written # Unset =>
    IF Known THEN IF Untranslated THEN written = None ELSE Plain(written) = Plain(issued)
    ELSE written = None \/ written.op \in {"JALR", "SLLI", "SRLI"}

(* Listing a code never ends the program where running it would not: every  *)
(* code that run can decompress has its case in decodeCompressed.           *)
ListingIsHarmless == stage = "exit" => ~Executable
=============================================================================
