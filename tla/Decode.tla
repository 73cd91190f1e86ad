-------------------------------- MODULE Decode -----------------------------
(***************************************************************************)
(* What the four readers of a code make of it: decode2vliw, which fills the *)
(* slots of vliw_insn, with decomp16_table before it for 16 bit codes;      *)
(* decodeCompressed, the second decoder of these, used by disasm_all;       *)
(* disasm, the text beside it; and rv_insn, the translator to C.  None of   *)
(* them calls another of them on a code of its kind, and each has its own   *)
(* tables and shifts.                                                       *)
(***************************************************************************)
EXTENDS Codes, Sequences

-----------------------------------------------------------------------------
(* optable: which fields a code must have, and which items its text names.  *)
(* The rows of A, F, D, Q and of RV64 are left out: Foreign below.          *)
Row(op, fix, items) == [op |-> op, fix |-> fix, items |-> items]

Family(opc, items, names) ==
  {Row(names[f+1], [opc |-> opc, f3 |-> f], items) : f \in {g \in 0..7 : names[g+1] # "-"}}
Family7(opc, f7, items, names) ==
  {Row(names[f+1], [opc |-> opc, f3 |-> f, f7 |-> f7], items) :
     f \in {g \in 0..7 : names[g+1] # "-"}}

System(op, top12) ==
  Row(op, IType(top12, 0, 0, 0, 115), {})

(* These three stand before the row of which they are cases.                *)
Early ==
  {Row("J", [opc |-> 111, rd |-> 0], {"joff"}),
   Row("JR", [opc |-> 103, f3 |-> 0, rd |-> 0, f7 |-> 0, rs2 |-> 0], {"rs1"}),
   Row("NOP", IType(0, 0, 0, 0, 19), {})}

(* The names of the families by funct3.                                     *)
JalrOps   == <<"JALR", "-", "-", "-", "-", "-", "-", "-">>
BraOps    == <<"BEQ", "BNE", "-", "-", "BLT", "BGE", "BLTU", "BGEU">>
LoadOps   == <<"LB", "LH", "LW", "-", "LBU", "LHU", "-", "-">>
StoreOps  == <<"SB", "SH", "SW", "-", "-", "-", "-", "-">>
ImmOps    == <<"ADDI", "-", "SLTI", "SLTIU", "XORI", "-", "ORI", "ANDI">>
ShiftOps  == <<"-", "SLLI", "-", "-", "-", "SRLI", "-", "-">>
SraiOps   == <<"-", "-", "-", "-", "-", "SRAI", "-", "-">>
RegOps    == <<"ADD", "SLL", "SLT", "SLTU", "XOR", "SRL", "OR", "AND">>
SubOps    == <<"SUB", "-", "-", "-", "-", "SRA", "-", "-">>
MulOps    == <<"MUL", "MULH", "MULHSU", "MULHU", "DIV", "DIVU", "REM", "REMU">>
FenceOps  == <<"FENCE", "-", "-", "-", "-", "-", "-", "-">>
FenceIOps == <<"-", "FENCE_I", "-", "-", "-", "-", "-", "-">>
CsrOps    == <<"-", "CSRRW", "CSRRS", "CSRRC", "-", "CSRRWI", "CSRRSI", "CSRRCI">>

SingleRows ==
  {Row("LUI", [opc |-> 55], {"rd", "imm20"}), Row("AUIPC", [opc |-> 23], {"rd", "imm20"}),
   Row("JAL", [opc |-> 111], {"rd", "joff"})}
Family3Rows ==
  Family(103, {"rd", "rs1", "simm12"}, JalrOps) \cup Family(99, {"rs1", "rs2", "boff"}, BraOps)
  \cup Family(3, {"rd", "rs1", "simm12"}, LoadOps)
  \cup Family(35, {"rs1", "rs2", "s2imm12"}, StoreOps)
  \cup Family(19, {"rd", "rs1", "simm12"}, ImmOps)
  \cup Family(15, {}, FenceOps) \cup Family(15, {"imm21"}, FenceIOps)
  \cup Family(115, {"csr", "rd", "rs1"}, CsrOps)
Family7Rows ==
  Family7(19, 0, {"rd", "rs1", "shamt"}, ShiftOps)
  \cup Family7(19, 32, {"rd", "rs1", "shamt"}, SraiOps)
  \cup Family7(51, 0, {"rd", "rs1", "rs2"}, RegOps)
  \cup Family7(51, 32, {"rd", "rs1", "rs2"}, SubOps)
  \cup Family7(51, 1, {"rd", "rs1", "rs2"}, MulOps)
SystemRows ==
  {System("ECALL", 0), System("EBREAK", 1), System("SRET", 258),
   System("MRET", 770), System("WFI", 261)}
Late == SingleRows \cup Family3Rows \cup Family7Rows \cup SystemRows

(* The opcodes of the rows left out, none of which a row above has.  Their  *)
(* codes issue a Vliw that execute ends at; Rows has nothing for them, and  *)
(* decode2vliw below is not defined by the program on them.                 *)
Foreign == {7, 39, 47, 59, 67, 71, 75, 79, 83}

Matches(row, k) == \A f \in DOMAIN row.fix : k[f] = row.fix[f]
Rows(k) == LET early == {row \in Early : Matches(row, k)}
           IN  IF early # {} THEN early ELSE {row \in Late : Matches(row, k)}

-----------------------------------------------------------------------------
(* The immediates as decode2vliw takes them out of the code.                *)
doJoff(k) ==
  LET field == Top20(k) IN
  Signed(Field(field, 19, 19) * 2^20 + Field(field, 18, 9) * 2
         + Field(field, 8, 8) * 2^11 + Field(field, 7, 0) * 2^12, 21)

doBoffShort(k) ==                                   \* mutant
  Signed(Field(k.f7, 6, 6) * 2^12 + Field(k.f7, 5, 0) * 2^5 + Field(k.rd, 4, 1) * 2, 13)
doBoff(k) ==
  Signed(Field(k.f7, 6, 6) * 2^12 + Field(k.f7, 5, 0) * 2^5
         + Field(k.rd, 4, 1) * 2 + Field(k.rd, 0, 0) * 2^11, 13)

ImmOf(items, k) ==
  CASE "joff"    \in items -> doJoff(k)
    [] "boff"    \in items -> doBoff(k)
    [] "simm12"  \in items -> Signed(Top12(k), 12)
    [] "s2imm12" \in items -> Signed(k.f7 * 32 + k.rd, 12)
    [] "imm20"   \in items -> Signed(Top20(k), 20)
    [] "shamt"   \in items -> k.rs2
    [] "csr"     \in items -> Top12(k)
    [] OTHER -> 0

If(b, n) == IF b THEN n ELSE 0

(* The Vliw, None if there is no row, or the end at an item that is not     *)
(* known.                                                                   *)
Fatal == [op |-> "fatal"]

decode2vliw(k) ==
  IF Rows(k) = {} THEN None
  ELSE LET row == CHOOSE w \in Rows(k) : TRUE IN
       IF "imm21" \in row.items THEN Fatal
       ELSE Insn(row.op, If("rd" \in row.items, k.rd), If("rs1" \in row.items, k.rs1),
                 If("rs2" \in row.items, k.rs2), ImmOf(row.items, k))
=============================================================================
