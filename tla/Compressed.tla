----------------------------- MODULE Compressed ----------------------------
(***************************************************************************)
(* The two readings of a 16 bit code n: decomp16_table, by which the run    *)
(* replaces it by a 32 bit code, and decodeCompressed, which makes a Vliw   *)
(* of it for disasm_all.                                                    *)
(***************************************************************************)
EXTENDS Decode

B(n, hi, lo) == Field(n, hi, lo)
Quadrant(n) == n % 4
F3(n)       == B(n, 15, 13)
R3b2(n)     == 8 + B(n, 4, 2)       \* regMap3: rd', rs2'
R3b7(n)     == 8 + B(n, 9, 7)       \* rd', rs1'
R5b2(n)     == B(n, 6, 2)
R5b7(n)     == B(n, 11, 7)

(* The row of optable for the 16 bit code, without the prefix C_; those of  *)
(* floating point and of RV64 go by "FLOAT".                                *)
ArithName(n) ==
  CASE B(n, 11, 10) = 0 -> "SRLI" [] B(n, 11, 10) = 1 -> "SRAI"
    [] B(n, 11, 10) = 2 -> "ANDI"
    [] B(n, 11, 10) = 3 ->
         IF B(n, 12, 12) = 1 THEN "FLOAT"
         ELSE <<"SUB", "XOR", "OR", "AND">>[B(n, 6, 5) + 1]

JumpName(n) ==
  CASE B(n, 12, 12) = 0 /\ R5b2(n) = 0 -> "JR"
    [] B(n, 12, 12) = 0 /\ R5b2(n) # 0 -> "MV"
    [] B(n, 12, 12) = 1 /\ R5b2(n) = 0 /\ R5b7(n) = 0 -> "EBREAK"
    [] B(n, 12, 12) = 1 /\ R5b2(n) = 0 /\ R5b7(n) # 0 -> "JALR"
    [] B(n, 12, 12) = 1 /\ R5b2(n) # 0 -> "ADD"

Name(n) ==
  CASE n = 0 -> "ILLEGAL"
    [] n # 0 /\ Quadrant(n) = 0 ->
         <<"ADDI4SPN", "FLOAT", "LW", "FLOAT", "FLOAT", "FLOAT", "SW", "FLOAT">>[F3(n) + 1]
    [] Quadrant(n) = 1 ->
         (CASE n = 1 -> "NOP"
            [] F3(n) = 3 -> IF R5b7(n) = 2 THEN "ADDI16SP" ELSE "LUI"
            [] F3(n) = 4 -> ArithName(n)
            [] OTHER -> <<"ADDI", "JAL", "LI", "-", "-", "J", "BEQZ", "BNEZ">>[F3(n) + 1])
    [] Quadrant(n) = 2 ->
         IF F3(n) = 4 THEN JumpName(n)
         ELSE <<"SLLI", "FLOAT", "LWSP", "FLOAT", "-", "FLOAT", "SWSP", "FLOAT">>[F3(n) + 1]

-----------------------------------------------------------------------------
(* decomp16_table, generated data: the code of RISC-V's compressed set that *)
(* stands at n, and 0, here None, at what is reserved or a mere hint.       *)
Gather(n, hi, to) ==        \* bits hi, hi-1, ... go to places to[1], to[2], ..., to[11]
  LET bit(b) == IF b \in DOMAIN to THEN B(n, hi-b+1, hi-b+1) * 2^to[b] ELSE 0
  IN  bit(1) + bit(2) + bit(3) + bit(4) + bit(5) + bit(6)
      + bit(7) + bit(8) + bit(9) + bit(10) + bit(11)

Imm(n)     == Signed(Gather(n, 12, <<5>>) + Gather(n, 6, <<4, 3, 2, 1, 0>>), 6)
Jump(n)    == Signed(Gather(n, 12, <<11, 4, 9, 8, 10, 6, 7, 3, 2, 1, 5>>), 12)
Branch(n)  == Signed(Gather(n, 12, <<8, 4, 3>>) + Gather(n, 6, <<7, 6, 2, 1, 5>>), 9)
Word(n)    == Gather(n, 12, <<5, 4, 3>>) + Gather(n, 6, <<2, 6>>)
Add4Spn(n) == Gather(n, 12, <<5, 4, 9, 8, 7, 6, 2, 3>>)
Add16Sp(n) == Signed(Gather(n, 12, <<9>>) + Gather(n, 6, <<4, 6, 8, 7, 5>>), 10)
LwSp(n)    == Gather(n, 12, <<5>>) + Gather(n, 6, <<4, 3, 2, 7, 6>>)
SwSp(n)    == Gather(n, 12, <<5, 4, 3, 2, 7, 6>>)

InTable(n) ==
  CASE Name(n) = "ADDI4SPN" -> Add4Spn(n) # 0
    [] Name(n) \in {"ADDI", "LI", "MV", "ADD"} -> R5b7(n) # 0
    [] Name(n) = "LUI"      -> R5b7(n) # 0 /\ Imm(n) # 0
    [] Name(n) = "ADDI16SP" -> Add16Sp(n) # 0
    [] Name(n) \in {"SRLI", "SRAI"} -> B(n, 12, 12) = 0 /\ R5b2(n) # 0
    [] Name(n) = "SLLI"     -> B(n, 12, 12) = 0
    [] Name(n) = "JR"       -> R5b7(n) # 0
    [] Name(n) \in {"FLOAT", "ILLEGAL"} -> FALSE
    [] OTHER -> TRUE

Shift(n, f7, f3) == Code(f7, R5b2(n), R3b7(n), f3, R3b7(n), 19)
Alu(n, f7, f3)   == Code(f7, R3b2(n), R3b7(n), f3, R3b7(n), 51)

Expansion(n) ==
  CASE Name(n) = "ADDI4SPN" -> IType(Add4Spn(n), 2, 0, R3b2(n), 19)
    [] Name(n) = "LW"       -> IType(Word(n), R3b7(n), 2, R3b2(n), 3)
    [] Name(n) = "SW"       -> SType(Word(n), R3b2(n), R3b7(n), 2, 35)
    [] Name(n) \in {"NOP", "ADDI"} -> IType(Imm(n), R5b7(n), 0, R5b7(n), 19)
    [] Name(n) = "JAL"      -> JType(Jump(n), 1, 111)
    [] Name(n) = "J"        -> JType(Jump(n), 0, 111)
    [] Name(n) = "LI"       -> IType(Imm(n), 0, 0, R5b7(n), 19)
    [] Name(n) = "ADDI16SP" -> IType(Add16Sp(n), 2, 0, 2, 19)
    [] Name(n) = "LUI"      -> UType(Imm(n), R5b7(n), 55)
    [] Name(n) = "SRLI"     -> Shift(n, 0, 5)
    [] Name(n) = "SRAI"     -> Shift(n, 32, 5)
    [] Name(n) = "ANDI"     -> IType(Imm(n), R3b7(n), 7, R3b7(n), 19)
    [] Name(n) = "SUB"      -> Alu(n, 32, 0)
    [] Name(n) = "XOR"      -> Alu(n, 0, 4)
    [] Name(n) = "OR"       -> Alu(n, 0, 6)
    [] Name(n) = "AND"      -> Alu(n, 0, 7)
    [] Name(n) = "BEQZ"     -> BType(Branch(n), 0, R3b7(n), 0, 99)
    [] Name(n) = "BNEZ"     -> BType(Branch(n), 0, R3b7(n), 1, 99)
    [] Name(n) = "SLLI"     -> Code(0, R5b2(n), R5b7(n), 1, R5b7(n), 19)
    [] Name(n) = "LWSP"     -> IType(LwSp(n), 2, 2, R5b7(n), 3)
    [] Name(n) = "SWSP"     -> SType(SwSp(n), R5b2(n), 2, 2, 35)
    [] Name(n) = "JR"       -> IType(0, R5b7(n), 0, 0, 103)
    [] Name(n) = "JALR"     -> IType(0, R5b7(n), 0, 1, 103)
    [] Name(n) = "MV"       -> Code(0, R5b2(n), 0, 0, R5b7(n), 51)
    [] Name(n) = "ADD"      -> Code(0, R5b2(n), R5b7(n), 0, R5b7(n), 51)
    [] Name(n) = "EBREAK"   -> IType(1, 0, 0, 0, 115)

Decomp16(n) == IF InTable(n) THEN Expansion(n) ELSE None

-----------------------------------------------------------------------------
(* decodeCompressed.  mk_sw takes its highest bit for a sign, and C_SLLI    *)
(* alone of those with a 5 bit register goes through regMap3.               *)
mk_imm6(n)  == Signed(B(n, 12, 12) * 2^5 + B(n, 6, 2), 6)
mk_shamt(n) == B(n, 12, 12) * 2^5 + B(n, 6, 2)
jal_off(n)  == Signed(B(n, 12, 12) * 2^11 + B(n, 8, 8) * 2^10 + B(n, 10, 9) * 2^8
                      + B(n, 6, 6) * 2^7 + B(n, 7, 7) * 2^6 + B(n, 2, 2) * 2^5
                      + B(n, 11, 11) * 2^4 + B(n, 5, 3) * 2, 12)
mk_beqSwapped(n) ==                                 \* mutant
  Signed(B(n, 12, 12) * 2^8 + B(n, 4, 3) * 2^6 + B(n, 2, 2) * 2^5 + B(n, 11, 10) * 2^3
         + B(n, 6, 5) * 2, 9)
mk_beq(n) ==
  Signed(B(n, 12, 12) * 2^8 + B(n, 6, 5) * 2^6 + B(n, 2, 2) * 2^5 + B(n, 11, 10) * 2^3
         + B(n, 4, 3) * 2, 9)
mk_lwsp(n)     == B(n, 3, 2) * 2^6 + B(n, 12, 12) * 2^5 + B(n, 6, 4) * 2^2
mk_swsp(n)     == B(n, 8, 7) * 2^6 + B(n, 12, 9) * 2^2
mk_sw(n)       == Signed(B(n, 5, 5) * 2^6 + B(n, 12, 10) * 2^3 + B(n, 6, 6) * 2^2, 7)
mk_addi4spn(n) == B(n, 10, 7) * 2^6 + B(n, 12, 11) * 2^4 + B(n, 5, 5) * 2^3 + B(n, 6, 6) * 2^2
mk_addi16sp(n) == Signed(B(n, 12, 12) * 2^9 + B(n, 4, 3) * 2^7 + B(n, 5, 5) * 2^6
                         + B(n, 2, 2) * 2^5 + B(n, 6, 6) * 2^4, 10)

(* The rest of the names: `Not found', and exit(-1).                        *)
UnhandledMore(name) == name \in {"FLOAT", "ILLEGAL", "EBREAK"}     \* mutant
Unhandled(name)     == name \in {"FLOAT", "ILLEGAL"}

decodeCompressed(n) ==
  LET rd == R5b7(n)  d == R3b7(n)  s == R3b2(n)  name == Name(n) IN
  CASE Unhandled(name) -> Fatal
    [] name = "LW"   -> Insn("LW", s, d, 0, mk_sw(n))
    [] name = "SW"   -> Insn("SW", 0, d, s, mk_sw(n))
    [] name = "SWSP" -> Insn("SW", 0, 2, R5b2(n), mk_swsp(n))
    [] name = "BEQZ" -> Insn("BEQ", 0, d, 0, mk_beq(n))
    [] name = "BNEZ" -> Insn("BNE", 0, d, 0, mk_beq(n))
    [] name = "MV"   -> Insn("ADDI", rd, R5b2(n), 0, 0)
    [] name = "ADD"  -> Insn("ADD", rd, rd, R5b2(n), 0)
    [] name = "ADDI" -> Insn("ADDI", rd, rd, 0, mk_imm6(n))
    [] name = "NOP"  -> Insn("ADDI", 0, 0, 0, 0)
    [] name = "ADDI16SP" -> Insn("ADDI", rd, 2, 0, mk_addi16sp(n))
    [] name = "ADDI4SPN" -> Insn("ADDI", s, 2, 0, mk_addi4spn(n))
    [] name = "LWSP" -> Insn("LW", rd, 2, 0, mk_lwsp(n))
    [] name = "LI"   -> Insn("ADDI", rd, 0, 0, mk_imm6(n))
    [] name = "LUI"  -> Insn("ADDI", rd, 0, 0, mk_imm6(n) * 2^12)
    [] name = "J"    -> Insn("JAL", 0, 0, 0, jal_off(n))
    [] name = "JAL"  -> Insn("JAL", 1, 0, 0, jal_off(n))
    [] name = "JR"   -> Insn("JALR", 0, rd, 0, 0)
    [] name = "JALR" -> Insn("JALR", 1, rd, 0, 0)
    [] name \in {"SUB", "XOR", "OR", "AND"} -> Insn(name, d, d, s, 0)
    [] name = "ANDI" -> Insn("ANDI", d, d, 0, mk_imm6(n))
    [] name \in {"SLLI", "SRLI", "SRAI"} -> Insn(name, d, d, 0, mk_shamt(n))
    [] name = "EBREAK" -> Insn("EBREAK", 0, 0, 0, 0)
=============================================================================
