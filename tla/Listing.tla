------------------------------ MODULE Listing ------------------------------
(***************************************************************************)
(* The two other readings of a 32 bit code k, each with its own tables and  *)
(* shifts: disasm, the text that a listing shows, and rv_insn, the C        *)
(* statement that rv_compile writes.  Both are given as the instruction     *)
(* they say; of a pseudo instruction (li, snez, bgtz, csrr, ...) that is    *)
(* the instruction it stands for.                                           *)
(***************************************************************************)
EXTENDS Compressed

Unreadable == [op |-> "???"]

(* (x<<by)>>by on an int32_t.                                               *)
Shifted(x, by) == Signed(x, 32 - by)

(* imm32_S, imm32_J, simm12: the same lines in both.                        *)
imm32_S(k) == Shifted(k.f7 * 32 + k.rd, 20)
imm32_J(k) ==
  Shifted(Field(Top20(k), 19, 19) * 2^20 + Field(Top20(k), 18, 9) * 2
          + Field(Top20(k), 8, 8) * 2^11 + Field(Top20(k), 7, 0) * 2^12, 11)
simm12Wide(k) ==                                    \* mutant
  Shifted(Field(k.f7, 6, 6) * 2^12 + Field(k.f7, 5, 0) * 2^5
          + Field(k.rd, 4, 1) * 2 + Field(k.rd, 0, 0) * 2^11, 18)
simm12(k) ==
  Shifted(Field(k.f7, 6, 6) * 2^12 + Field(k.f7, 5, 0) * 2^5
          + Field(k.rd, 4, 1) * 2 + Field(k.rd, 0, 0) * 2^11, 19)
imm12(k)  == Shifted(Top12(k), 20)

SystemName(k) ==
  LET is(top12) == k = IType(top12, 0, 0, 0, 115) IN
  CASE is(0) -> "ECALL" [] is(1) -> "EBREAK" [] is(258) -> "SRET"
    [] is(770) -> "MRET" [] is(261) -> "WFI" [] OTHER -> "???"

-----------------------------------------------------------------------------
(* disasm                                                                   *)
alu_name    == <<"ADD", "SLL", "SLT", "SLTU", "XOR", "SRL", "OR", "AND">>
alu2_name   == <<"SUB", "???", "???", "???", "???", "SRA", "???", "???">>
alui_name   == <<"ADDI", "SLLI", "SLTI", "SLTIU", "XORI", "SRLI", "ORI", "ANDI">>
alui2_name  == <<"???", "???", "???", "???", "???", "SRAI", "???", "???">>
store_name  == <<"SB", "SH", "SW", "???", "???", "???", "???", "???">>
load_name   == <<"LB", "LH", "LW", "???", "LBU", "LHU", "???", "???">>
bra_name    == <<"BEQ", "BNE", "???", "???", "BLT", "BGE", "BLTU", "BGEU">>
brazi_name  == <<"???", "???", "???", "???", "BLT", "BGE", "???", "???">>
csr_opname  == <<"???", "CSRRW", "CSRRS", "CSRRC", "???", "CSRRWI", "CSRRSI", "CSRRCI">>
mul_name    == <<"MUL", "MULH", "MULHSU", "MULHU", "DIV", "DIVU", "REM", "REMU">>

AluText(k) == CASE k.f7 = 0  -> alu_name[k.f3 + 1]
                [] k.f7 = 32 -> alu2_name[k.f3 + 1]
                [] k.f7 = 1  -> mul_name[k.f3 + 1]
                [] OTHER     -> "???"
ShiftText(k) == CASE k.f7 = 0  -> alui_name[k.f3 + 1]
                  [] k.f7 = 32 -> alui2_name[k.f3 + 1]
                  [] OTHER     -> "???"
(* beqz, bltz, ... have a name for each that bra_name has one for.          *)
BranchText(k) == IF k.rs2 # 0 /\ k.rs1 = 0 THEN brazi_name[k.f3 + 1] ELSE bra_name[k.f3 + 1]

Shown(name, rd, rs1, rs2, imm) ==
  IF name = "???" THEN Unreadable ELSE Insn(name, rd, rs1, rs2, imm)

disasm(k) ==
  CASE k.opc = 51 -> Shown(AluText(k), k.rd, k.rs1, k.rs2, 0)
    [] k.opc = 19 /\ k.f3 \in {1, 5} -> Shown(ShiftText(k), k.rd, k.rs1, 0, k.rs2)
    [] k.opc = 19 /\ k.f3 \notin {1, 5} -> Shown(alui_name[k.f3 + 1], k.rd, k.rs1, 0, imm12(k))
    [] k.opc = 35 -> Shown(store_name[k.f3 + 1], 0, k.rs1, k.rs2, imm32_S(k))
    [] k.opc = 3  -> Shown(load_name[k.f3 + 1], k.rd, k.rs1, 0, imm12(k))
    [] k.opc = 55 -> Insn("LUI", k.rd, 0, 0, Signed(Top20(k), 20))
    [] k.opc = 23 -> Insn("AUIPC", k.rd, 0, 0, Signed(Top20(k), 20))
    [] k.opc = 111 -> Insn("JAL", k.rd, 0, 0, imm32_J(k))
    [] k.opc = 103 -> Insn("JALR", k.rd, k.rs1, 0, imm12(k))
    [] k.opc = 99 -> Shown(BranchText(k), 0, k.rs1, k.rs2, simm12(k))
    [] k.opc = 115 /\ k.f3 \in {0, 4} -> Shown(SystemName(k), 0, 0, 0, 0)
    [] k.opc = 115 /\ k.f3 \notin {0, 4} ->
         Shown(csr_opname[k.f3 + 1], k.rd, k.rs1, 0, Top12(k))
    [] OTHER -> None

-----------------------------------------------------------------------------
(* rv_insn.  Multiplication and division are "TO DO".                       *)
Operator(k) ==
  CASE k.f7 = 0 -> <<"ADD", "SLL", "SLT", "SLTU", "XOR", "SRL", "OR", "AND">>[k.f3 + 1]
    [] k.f7 = 32 /\ k.f3 = 0 -> "SUB"
    [] k.f7 = 32 /\ k.f3 = 5 -> "SRA"
    [] OTHER -> "-"
OperatorImmNoSrai(k) ==                             \* mutant
  <<"ADDI", "SLLI", "SLTI", "SLTIU", "XORI", "SRLI", "ORI", "ANDI">>[k.f3 + 1]
OperatorImm(k) ==
  IF k.f3 = 5 /\ k.f7 = 32 THEN "SRAI"
  ELSE <<"ADDI", "SLLI", "SLTI", "SLTIU", "XORI", "SRLI", "ORI", "ANDI">>[k.f3 + 1]
Called(k) == IF SystemName(k) = "???" THEN "-" ELSE SystemName(k)

Written(name, rd, rs1, rs2, imm) ==
  IF name = "-" THEN None ELSE Insn(name, rd, rs1, rs2, imm)

rv_insn(k) ==
  CASE k.opc = 51 -> Written(Operator(k), k.rd, k.rs1, k.rs2, 0)
    [] k.opc = 19 -> Written(OperatorImm(k), k.rd, k.rs1, 0,
                             IF k.f3 \in {1, 5} THEN k.rs2 ELSE imm12(k))
    [] k.opc = 35 -> Written(<<"SB", "SH", "SW", "-", "-", "-", "-", "-">>[k.f3 + 1],
                             0, k.rs1, k.rs2, imm32_S(k))
    [] k.opc = 3  -> Written(<<"LB", "LH", "LW", "-", "LBU", "LHU", "-", "-">>[k.f3 + 1],
                             k.rd, k.rs1, 0, imm12(k))
    [] k.opc = 55 -> Written("LUI", k.rd, 0, 0, Signed(Top20(k), 20))
    [] k.opc = 23 -> Written("AUIPC", k.rd, 0, 0, Signed(Top20(k), 20))
    [] k.opc = 111 -> Written("JAL", k.rd, 0, 0, imm32_J(k))
    [] k.opc = 103 -> Written("JALR", k.rd, k.rs1, 0, imm12(k))
    [] k.opc = 99 -> Written(<<"BEQ", "BNE", "-", "-", "BLT", "BGE", "BLTU", "BGEU">>[k.f3 + 1],
                             0, k.rs1, k.rs2, simm12(k))
    [] k.opc = 115 /\ k.f3 \in {0, 4} -> Written(Called(k), 0, 0, 0, 0)
    [] k.opc = 115 /\ k.f3 \notin {0, 4} ->
         Written(<<"-", "CSRRW", "CSRRS", "CSRRC", "-", "CSRRWI", "CSRRSI", "CSRRCI">>[k.f3 + 1],
                 k.rd, k.rs1, 0, Top12(k))
    [] OTHER -> None
=============================================================================
