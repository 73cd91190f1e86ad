----------------------------- MODULE Assembler -----------------------------
(***************************************************************************)
(* The reference for every reader of codes: what an assembler of RV32IM     *)
(* writes for an instruction (the formats are those of the RISC-V manual).  *)
(* Nothing of this is in the repository.                                    *)
(***************************************************************************)
EXTENDS Codes, Sequences

Place(ops, op) == (CHOOSE p \in DOMAIN ops : ops[p] = op) - 1      \* its funct3
In(ops, op)    == \E p \in DOMAIN ops : ops[p] = op

Registers == <<"ADD", "SLL", "SLT", "SLTU", "XOR", "SRL", "OR", "AND">>
Muldiv    == <<"MUL", "MULH", "MULHSU", "MULHU", "DIV", "DIVU", "REM", "REMU">>
Constants == <<"ADDI", "-", "SLTI", "SLTIU", "XORI", "-", "ORI", "ANDI">>
Loads     == <<"LB", "LH", "LW", "-", "LBU", "LHU">>
Stores    == <<"SB", "SH", "SW">>
Branches  == <<"BEQ", "BNE", "-", "-", "BLT", "BGE", "BLTU", "BGEU">>
Csrs      == <<"-", "CSRRW", "CSRRS", "CSRRC", "-", "CSRRWI", "CSRRSI", "CSRRCI">>

Encode(v) ==
  LET Reg3(f7, f3)  == Code(f7, v.rs2, v.rs1, f3, v.rd, 51)
      Shift(f7, f3) == Code(f7, v.imm, v.rs1, f3, v.rd, 19)
  IN
  CASE In(Registers, v.op) -> Reg3(0, Place(Registers, v.op))
    [] In(Muldiv, v.op)    -> Reg3(1, Place(Muldiv, v.op))
    [] v.op = "SUB"        -> Reg3(32, 0)
    [] v.op = "SRA"        -> Reg3(32, 5)
    [] In(Constants, v.op) -> IType(v.imm, v.rs1, Place(Constants, v.op), v.rd, 19)
    [] v.op = "SLLI"       -> Shift(0, 1)
    [] v.op = "SRLI"       -> Shift(0, 5)
    [] v.op = "SRAI"       -> Shift(32, 5)
    [] In(Loads, v.op)     -> IType(v.imm, v.rs1, Place(Loads, v.op), v.rd, 3)
    [] In(Stores, v.op)    -> SType(v.imm, v.rs2, v.rs1, Place(Stores, v.op), 35)
    [] In(Branches, v.op)  -> BType(v.imm, v.rs2, v.rs1, Place(Branches, v.op), 99)
    [] v.op = "LUI"        -> UType(v.imm, v.rd, 55)
    [] v.op = "AUIPC"      -> UType(v.imm, v.rd, 23)
    [] v.op \in {"J", "JAL"}   -> JType(v.imm, v.rd, 111)
    [] v.op \in {"JR", "JALR"} -> IType(v.imm, v.rs1, 0, v.rd, 103)
    [] v.op = "NOP"        -> IType(0, 0, 0, 0, 19)
    [] In(Csrs, v.op)      -> IType(v.imm, v.rs1, Place(Csrs, v.op), v.rd, 115)
    [] v.op = "ECALL"      -> IType(0, 0, 0, 0, 115)
    [] v.op = "EBREAK"     -> IType(1, 0, 0, 0, 115)
    [] v.op = "SRET"       -> IType(258, 0, 0, 0, 115)
    [] v.op = "WFI"        -> IType(261, 0, 0, 0, 115)
    [] v.op = "MRET"       -> IType(770, 0, 0, 0, 115)
=============================================================================
