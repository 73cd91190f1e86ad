-------------------------------- MODULE Codes ------------------------------
(***************************************************************************)
(* Instruction codes and the bit fields of them that the decoders take out. *)
(* A 32 bit code is the record of the six fields between which no decoder   *)
(* cuts, but for those of an immediate; a 16 bit code is a number.          *)
(***************************************************************************)
EXTENDS Integers

(* (n>>lo) & mask, and the sum of fields that are or'ed.                    *)
Field(n, hi, lo) == (n \div 2^lo) % 2^(hi-lo+1)

(* Sign extension from a number of bits.                                    *)
Signed(n, bits) == IF n >= 2^(bits-1) THEN n - 2^bits ELSE n

Fields == [f7 : 0..127, rs2 : 0..31, rs1 : 0..31, f3 : 0..7, rd : 0..31, opc : 0..127]

Code(f7, rs2, rs1, f3, rd, opc) ==
  [f7 |-> f7, rs2 |-> rs2, rs1 |-> rs1, f3 |-> f3, rd |-> rd, opc |-> opc]

(* code>>20, code>>12                                                       *)
Top12(k) == k.f7 * 32 + k.rs2
Top20(k) == Top12(k) * 256 + k.rs1 * 8 + k.f3

-----------------------------------------------------------------------------
(* The formats of RISC-V: the code with a given immediate.                  *)
IType(imm, rs1, f3, rd, opc) ==
  Code(Field(imm, 11, 5), Field(imm, 4, 0), rs1, f3, rd, opc)
SType(imm, rs2, rs1, f3, opc) ==
  Code(Field(imm, 11, 5), rs2, rs1, f3, Field(imm, 4, 0), opc)
BType(imm, rs2, rs1, f3, opc) ==
  Code(Field(imm, 12, 12) * 64 + Field(imm, 10, 5), rs2, rs1, f3,
       Field(imm, 4, 1) * 2 + Field(imm, 11, 11), opc)
UType(imm, rd, opc) ==
  Code(Field(imm, 19, 13), Field(imm, 12, 8), Field(imm, 7, 3), Field(imm, 2, 0), rd, opc)
JType(imm, rd, opc) ==
  UType(Field(imm, 20, 20) * 2^19 + Field(imm, 10, 1) * 2^9
        + Field(imm, 11, 11) * 2^8 + Field(imm, 19, 12), rd, opc)

-----------------------------------------------------------------------------
(* An instruction as all the tools understand it.                           *)
Insn(op, rd, rs1, rs2, imm) ==
  [op |-> op, rd |-> rd, rs1 |-> rs1, rs2 |-> rs2, imm |-> imm]

None == [op |-> "none"]

(* One instruction has several names: the forms to which they are reduced.  *)
Plain(v) ==
  CASE v.op = "NOP" -> Insn("ADDI", 0, 0, 0, 0)
    [] v.op = "J"   -> [v EXCEPT !.op = "JAL"]
    [] v.op = "JR"  -> [v EXCEPT !.op = "JALR"]
    [] v.op = "LUI" /\ v.imm \in -32 .. 31 -> Insn("ADDI", v.rd, 0, 0, v.imm * 4096)
    [] v.op = "ADD" /\ v.rs1 = 0 -> Insn("ADDI", v.rd, v.rs2, 0, 0)
    [] OTHER -> v
=============================================================================
