---------------------------- MODULE Instructions ---------------------------
(***************************************************************************)
(* The VLIW instructions of VliwTable_rv32.h, grouped by what they do, and  *)
(* the accesses they make.  Not here, but in Cpu: ecall, ebreak and mret.   *)
(***************************************************************************)
EXTENDS Words

CONSTANTS Last,       \* registers are 0 .. Last (31)
          Imm,        \* the values of Vliw.imm
          Upper,      \* 12: how far lui and auipc shift
          Stored,     \* CSRs that hold what is written: mscratch, mepc, ...
          Fixed,      \* CSRs that take no write: mcause, misa, mvendorid, ...
          FixedValue, \* what these read
          Loaded      \* what memory may answer

Regs == 0 .. Last

AluOps    == {"ADD", "SUB", "XOR", "OR", "AND", "SLT", "SLTU", "SLL", "SRL", "SRA"}
ImmOps    == {"ADDI", "XORI", "ORI", "ANDI", "SLTI", "SLTIU", "SLLI", "SRLI", "SRAI"}
MulOps    == {"MUL", "MULH", "MULHU", "MULHSU"}
DivOps    == {"DIV", "DIVU", "REM", "REMU"}
JumpOps   == {"J", "JAL", "JR", "JALR"}
BranchOps == {"BEQ", "BNE", "BLT", "BGE", "BLTU", "BGEU"}
LoadOps   == {"LW", "LH", "LHU", "LB", "LBU"}
StoreOps  == {"SW", "SH", "SB"}
CsrOps    == {"CSRRW", "CSRRS", "CSRRC", "CSRRWI", "CSRRSI", "CSRRCI"}
NopOps    == {"NOP", "SRET", "WFI"}
Unknown   == {"FENCE"}     \* optable has it, execute does not

(* The operation that an immediate form shares with a register form.        *)
Base == [ADDI |-> "ADD", XORI |-> "XOR", ORI |-> "OR", ANDI |-> "AND",
         SLTI |-> "SLT", SLTIU |-> "SLTU", SLLI |-> "SLL", SRLI |-> "SRL",
         SRAI |-> "SRA"]

(* An access of an instruction to memory; most make none.                   *)
Quiet    == [op |-> "NOP", addr |-> 0, value |-> 0]
Accesses == [op : LoadOps \cup StoreOps \cup {"NOP"}, addr : Word, value : Word]

Ops == AluOps \cup ImmOps \cup MulOps \cup DivOps \cup JumpOps \cup BranchOps
       \cup LoadOps \cup StoreOps \cup CsrOps \cup NopOps \cup Unknown
       \cup {"LUI", "AUIPC"}

(* struct Vliw, with the bytes of its code.  Of jumps, j and jr are those   *)
(* whose code has no register to link in, and jr no offset either.          *)
Vliws ==
  {v \in [op : Ops, rd : Regs, rs1 : Regs, rs2 : Regs, imm : Imm,
          csr : Stored \cup Fixed, len : {2, 4}] :
     /\ v.op \in {"J", "JR"} => v.rd = 0
     /\ v.op = "JR" => v.imm = 0}

ASSUME InstructionAssumption ==
  /\ Last \in Nat /\ Last < Size
  /\ Imm \subseteq Int /\ Upper \in Nat
  /\ FixedValue \in Word /\ Loaded \subseteq Word
=============================================================================
