------------------------------ MODULE Execute ------------------------------
(***************************************************************************)
(* Cpu::execute and Cpu::csr_insn: what each VLIW instruction does to the   *)
(* registers, the pc and the CSRs, and which access it makes.  The text is  *)
(* any program; the pc runs over every address.  Left out, because they are *)
(* in other modules: ecall, ebreak, mret, interrupts and the counters (Cpu),*)
(* where an access goes (Memory), how a code becomes a VLIW (Decode).       *)
(***************************************************************************)
EXTENDS Instructions

CONSTANTS Lines,      \* 4 byte lines of text, one Vliw each; from there it repeats
          Programs    \* texts: line -> Vliw, with the bytes it takes

ASSUME ProgramAssumption ==
  Lines \in Nat \ {0} /\ Programs \subseteq [0 .. Lines-1 -> Vliws]
VARIABLES
  text,    \* the program
  running, \* FALSE when the process has ended
  pc,      \* Cpu.pc
  reg,     \* Cpu.reg
  csr,     \* the CSRs that are stored
  bus      \* the access of the last instruction, Quiet if it made none

vars == <<text, running, pc, reg, csr, bus>>

TypeOK ==
  /\ text \in Programs
  /\ running \in BOOLEAN
  /\ pc \in Word
  /\ reg \in [Regs -> Word]
  /\ csr \in [Stored -> Word]
  /\ bus \in Accesses

Init ==
  /\ text \in Programs
  /\ running = TRUE
  /\ pc = 0
  /\ \E f \in [1 .. Last -> Loaded] : reg = [n \in Regs |-> IF n = 0 THEN 0 ELSE f[n]]
  /\ csr = [c \in Stored |-> 0]
  /\ bus = Quiet

-----------------------------------------------------------------------------
insn    == text[(pc \div 4) % Lines]
pc_inc  == Wrap(pc + insn.len)
rs1     == reg[insn.rs1]
rs2     == reg[insn.rs2]

(* execute ends with reg[0] = 0.                                            *)
Unstomped(f) == f                                   \* mutant
Stomped(f) == [f EXCEPT ![0] = 0]
Put(v)     == reg' = Stomped([reg EXCEPT ![insn.rd] = v])
GotoWide(a) == pc' = a                              \* mutant
Goto(a)    == pc' = Wrap(a)

Is(ops) == running /\ insn.op \in ops /\ UNCHANGED <<text, running>>
Plain   == pc' = pc_inc /\ bus' = Quiet /\ UNCHANGED csr

Truth(b) == IF b THEN 1 ELSE 0

Result(op, x, y) ==
  CASE op = "ADD"  -> Wrap(x + y)
    [] op = "SUB"  -> Wrap(x - y)
    [] op = "XOR"  -> Xor(x, y)
    [] op = "OR"   -> Or(x, y)
    [] op = "AND"  -> And(x, y)
    [] op = "SLT"  -> Truth(Signed(x) < Signed(y))
    [] op = "SLTU" -> Truth(x < y)
    [] op = "SLL"  -> Sll(x, Masked(y))
    [] op = "SRL"  -> Srl(x, Masked(y))
    [] op = "SRA"  -> Sra(x, Masked(y))

Alu    == Is(AluOps) /\ Put(Result(insn.op, rs1, rs2)) /\ Plain
AluImm == Is(ImmOps) /\ Put(Result(Base[insn.op], rs1, Wrap(insn.imm))) /\ Plain

(* MULHU multiplies in int64_t.  Where the product has its top bit set that *)
(* is undefined in C++; an -O3 build multiplies 64 bits all the same, and   *)
(* only the upper word of the result is used: the wrap is what it yields.   *)
Product(op, x, y) ==
  CASE op = "MUL"    -> Wrap(x * y)
    [] op = "MULH"   -> High(Signed(x) * Signed(y))
    [] op = "MULHU"  -> High(x * y)
    [] op = "MULHSU" -> High(Signed(x) * y)

Mul == Is(MulOps) /\ Put(Product(insn.op, rs1, rs2)) /\ Plain

(* Division.  By zero, or where the quotient has no int32_t, it is undefined*)
(* in C++: an x86 ends the process, an ARM yields 0 or the dividend.        *)
Undefined(op, x, y) ==
  \/ y = 0
  \/ op \in {"DIV", "REM"} /\ x = Half /\ Signed(y) = -1

Quotient(op, x, y) ==
  CASE op = "DIV"  -> Wrap(Quo(Signed(x), Signed(y)))
    [] op = "REM"  -> Wrap(Rem(Signed(x), Signed(y)))
    [] op = "DIVU" -> Quo(x, y)
    [] op = "REMU" -> Rem(x, y)

Div == /\ Is(DivOps) /\ ~Undefined(insn.op, rs1, rs2)
       /\ Put(Quotient(insn.op, rs1, rs2)) /\ Plain

DivArm == /\ Is(DivOps) /\ Undefined(insn.op, rs1, rs2)
          /\ Put(CASE rs2 = 0 /\ insn.op \in {"DIV", "DIVU"} -> 0
                   [] rs2 = 0 /\ insn.op \in {"REM", "REMU"} -> rs1
                   [] rs2 # 0 /\ insn.op = "DIV"             -> rs1
                   [] rs2 # 0 /\ insn.op = "REM"             -> 0)
          /\ Plain

Stop   == running /\ running' = FALSE /\ UNCHANGED <<text, pc, reg, csr, bus>>
DivX86 == insn.op \in DivOps /\ Undefined(insn.op, rs1, rs2) /\ Stop

(* Whatever execute does not know is fatal.                                 *)
Fatal == insn.op \in Unknown /\ Stop

Nop   == Is(NopOps) /\ UNCHANGED reg /\ Plain
Lui   == Is({"LUI"}) /\ Put(Wrap(insn.imm * 2^Upper)) /\ Plain
Auipc == Is({"AUIPC"}) /\ Put(Wrap(pc + insn.imm * 2^Upper)) /\ Plain

-----------------------------------------------------------------------------
JumpLinksFirst ==                                   \* mutant
  /\ Is(JumpOps)
  /\ IF insn.op \in {"JAL", "JALR"} THEN Put(pc_inc) ELSE UNCHANGED reg
  /\ IF insn.op \in {"J", "JAL"} THEN Goto(pc + insn.imm)
     ELSE Goto(reg'[insn.rs1] + insn.imm)
  /\ bus' = Quiet /\ UNCHANGED csr

(* Jumps and branches set pc_next, which holds pc_inc before.  jalr reads   *)
(* rs1 before it writes rd.  No target loses its lowest bit.                *)
Jump ==
  /\ Is(JumpOps)
  /\ CASE insn.op = "J"    -> Goto(pc + insn.imm) /\ UNCHANGED reg
       [] insn.op = "JAL"  -> Goto(pc + insn.imm) /\ Put(pc_inc)
       [] insn.op = "JR"   -> Goto(rs1) /\ UNCHANGED reg
       [] insn.op = "JALR" -> Goto(rs1 + insn.imm) /\ Put(pc_inc)
  /\ bus' = Quiet /\ UNCHANGED csr

Taken(op, x, y) ==
  CASE op = "BEQ"  -> x = y
    [] op = "BNE"  -> x # y
    [] op = "BLT"  -> Signed(x) < Signed(y)
    [] op = "BGE"  -> Signed(x) >= Signed(y)
    [] op = "BLTU" -> x < y
    [] op = "BGEU" -> x >= y

Branch ==
  /\ Is(BranchOps)
  /\ IF Taken(insn.op, rs1, rs2) THEN Goto(pc + insn.imm) ELSE pc' = pc_inc
  /\ bus' = Quiet /\ UNCHANGED <<reg, csr>>

Addr32 == Wrap(rs1 + insn.imm)

Load ==
  /\ Is(LoadOps)
  /\ \E v \in Loaded : /\ bus' = [op |-> insn.op, addr |-> Addr32, value |-> v]
                       /\ Put(v)
  /\ pc' = pc_inc /\ UNCHANGED csr

Store ==
  /\ Is(StoreOps)
  /\ bus' = [op |-> insn.op, addr |-> Addr32, value |-> rs2]
  /\ pc' = pc_inc /\ UNCHANGED <<reg, csr>>

-----------------------------------------------------------------------------
(* csr_insn(type, csr, rd, rs, imm32); execute stomps reg[0] after it.      *)
Type(op) == CASE op \in {"CSRRW", "CSRRWI"} -> "W"
              [] op \in {"CSRRS", "CSRRSI"} -> "S"
              [] op \in {"CSRRC", "CSRRCI"} -> "C"

ReadCsr(f, c) == IF c \in Stored THEN f[c] ELSE FixedValue

CsrValue(f, type, c, rd) ==
  IF type \in {"S", "C"} \/ rd # 0 THEN ReadCsr(f, c) ELSE 0

CsrWritten(f, type, c, rd, rs, imm32) ==
  LET value   == CsrValue(f, type, c, rd)
      new_val == CASE type = "W" -> imm32
                   [] type = "S" -> Or(value, imm32)
                   [] type = "C" -> And(value, Not(imm32))
  IN  IF (type = "W" \/ rs # 0) /\ c \in Stored THEN [f EXCEPT ![c] = new_val] ELSE f

CsrRead(f, g, type, c, rd) ==
  IF rd # 0 THEN [g EXCEPT ![rd] = CsrValue(f, type, c, rd)] ELSE g

Csr ==
  /\ Is(CsrOps)
  /\ LET type  == Type(insn.op)
         imm32 == IF insn.op \in {"CSRRW", "CSRRS", "CSRRC"} THEN rs1 ELSE insn.rs1
     IN  /\ csr' = CsrWritten(csr, type, insn.csr, insn.rd, insn.rs1, imm32)
         /\ reg' = Stomped(CsrRead(csr, reg, type, insn.csr, insn.rd))
  /\ pc' = pc_inc /\ bus' = Quiet

-----------------------------------------------------------------------------
Next == \/ Nop \/ Lui \/ Auipc \/ Alu \/ AluImm \/ Mul \/ Div \/ DivArm \/ DivX86
        \/ Jump \/ Branch \/ Load \/ Store \/ Csr \/ Fatal

Spec == Init /\ [][Next]_vars

-----------------------------------------------------------------------------
(* Every instruction has the effect that RV32IM gives it, whatever was      *)
(* executed before: on the registers, x0 among them, the pc, the CSRs and   *)
(* the bus (execute, csr_insn).                                             *)
R == INSTANCE Rv32 WITH x <- [n \in 1 .. Last |-> reg[n]]
RunsRv32 == R!Spec
=============================================================================
