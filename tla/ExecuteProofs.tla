--------------------------- MODULE ExecuteProofs ---------------------------
(***************************************************************************)
(* What Execute and Compiled promise, for every width of the registers,     *)
(* every number of them and every program.                                  *)
(***************************************************************************)
EXTENDS Compiled, WordProofs

(* Words are numbers, a wrapped integer is one of them (uint32_t).          *)
LEMMA WordProperties ==
  /\ Size \in Nat /\ Half \in Nat /\ 2 < Size /\ Word \subseteq Nat /\ {0, 1} \subseteq Word
  /\ \A i \in Int : Wrap(i) \in Word
  /\ \A w \in Word : Signed(w) \in Int /\ Not(w) \in Word
  /\ \A s \in 0 .. Width-1 : 2^s \in Nat \ {0}
<1>1. Width \in Nat \ {0, 1} /\ Width \in 0 .. Width
  BY WidthAssumption
<1>2. Size \in Nat /\ Half \in Nat /\ 2 < Size
  <2>1. Width < Size
    BY <1>1, Powers DEF Size
  <2> QED BY <1>1, <2>1, WordValues
<1>3. \A s \in 0 .. Width-1 : 2^s \in Nat \ {0}
  BY <1>1, Powers
<1>4. Word \subseteq Nat /\ {0, 1} \subseteq Word
  BY <1>2 DEF Word
<1>5. \A i \in Int : Wrap(i) \in Word
  BY <1>2 DEF Wrap, Word
<1>6. \A w \in Word : Signed(w) \in Int /\ Not(w) \in Word
  BY <1>2 DEF Signed, Not, Word
<1> QED BY <1>2, <1>3, <1>4, <1>5, <1>6

LEMMA BitwiseType ==
  ASSUME NEW x, NEW y
  PROVE  And(x, y) \in Word /\ Or(x, y) \in Word /\ Xor(x, y) \in Word
BY BitsOfWord DEF And, Or, Xor

(* The ALU computes words of words.                                         *)
LEMMA ResultType ==
  ASSUME NEW op \in AluOps, NEW x \in Word, NEW y \in Word
  PROVE  Result(op, x, y) \in Word
<1>1. x \in Nat /\ y \in Nat /\ x < Size /\ Signed(x) \in Int
  BY WordProperties DEF Word
<1>2. Masked(y) \in 0 .. Width-1
  BY <1>1, WidthAssumption DEF Masked
<1>3. 2^Masked(y) \in Nat \ {0}
  BY <1>2, WordProperties
<1>4. CASE op \in {"ADD", "SUB"}
  <2>1. x + y \in Int /\ x - y \in Int
    BY <1>1
  <2> QED BY <1>4, <2>1, WordProperties DEF Result
<1>5. CASE op \in {"XOR", "OR", "AND"}
  BY <1>5, BitwiseType DEF Result
<1>6. CASE op \in {"SLT", "SLTU"}
  BY <1>6, WordProperties DEF Result, Truth
<1>7. CASE op = "SLL"
  <2>1. x * 2^Masked(y) \in Int
    BY <1>1, <1>3
  <2> QED BY <1>7, <2>1, WordProperties DEF Result, Sll
<1>8. CASE op = "SRL"
  <2> DEFINE p == 2^Masked(y)
  <2>1. p \in Nat \ {0}
    BY <1>3
  <2> HIDE DEF p
  <2>2. x \div p \in 0 .. x
    BY <1>1, <2>1
  <2> QED BY <1>1, <1>8, <2>2, WordProperties DEF Result, Srl, p, Word
<1>9. CASE op = "SRA"
  <2>1. Signed(x) \div 2^Masked(y) \in Int
    BY <1>1, <1>3
  <2> QED BY <1>9, <2>1, WordProperties DEF Result, Sra
<1> QED BY <1>4, <1>5, <1>6, <1>7, <1>8, <1>9 DEF AluOps

(* So do multiplication and, where C defines it, division.                  *)
LEMMA ProductType ==
  ASSUME NEW op \in MulOps, NEW x \in Word, NEW y \in Word
  PROVE  Product(op, x, y) \in Word
<1>1. /\ x \in Int /\ y \in Int /\ Signed(x) \in Int /\ Signed(y) \in Int
      /\ Size \in Nat \ {0} /\ Half \in Nat
  BY WordProperties
<1>2. ASSUME NEW p \in Int PROVE High(p) \in Word
  <2>1. Size * Size \in Nat \ {0} /\ Size * Half \in Int
    BY <1>1
  <2>2. Signed64(p) \in Int
    BY <1>1, <2>1 DEF Signed64
  <2>3. Signed64(p) \div Size \in Int
    BY <1>1, <2>2
  <2> QED BY <2>3, WordProperties DEF High
<1>3. x * y \in Int /\ Signed(x) * Signed(y) \in Int /\ Signed(x) * y \in Int
  BY <1>1
<1> QED BY <1>2, <1>3, WordProperties DEF Product, MulOps

LEMMA QuotientType ==
  ASSUME NEW op \in DivOps, NEW x \in Word, NEW y \in Word, ~Undefined(op, x, y)
  PROVE  Quotient(op, x, y) \in Word
<1>1. /\ x \in Nat /\ y \in Nat \ {0} /\ x < Size /\ y < Size /\ Size \in Nat /\ Half \in Nat
  BY WordProperties DEF Undefined, Word
<1>2. Signed(x) \in Int /\ Signed(y) \in Int /\ Signed(y) # 0
  BY <1>1 DEF Signed
<1>3. ASSUME NEW a \in Int, NEW b \in Int, b # 0
      PROVE  Quo(a, b) \in Int /\ Rem(a, b) \in Int
  <2>1. Abs(a) \in Nat /\ Abs(b) \in Nat \ {0}
    BY <1>3 DEF Abs
  <2>2. Abs(a) \div Abs(b) \in Int
    BY <2>1
  <2>3. Quo(a, b) \in Int
    BY <2>2 DEF Quo
  <2> QED BY <2>3 DEF Rem
<1>4. Quo(x, y) = x \div y
  BY <1>1 DEF Quo, Abs
<1>5. x \div y \in 0 .. x
  BY <1>1
<1>6. Rem(x, y) \in 0 .. y-1
  <2>1. x % y \in 0 .. y-1
    BY <1>1
  <2>2. x = (x \div y) * y + (x % y)
    BY <1>1
  <2>3. (x \div y) * y \in Int
    BY <1>1, <1>5
  <2> QED BY <1>1, <1>4, <2>1, <2>2, <2>3 DEF Rem
<1>7. CASE op \in {"DIV", "REM"}
  BY <1>2, <1>3, <1>7, WordProperties DEF Quotient
<1>8. CASE op \in {"DIVU", "REMU"}
  BY <1>1, <1>4, <1>5, <1>6, <1>8 DEF Quotient, Word
<1> QED BY <1>7, <1>8 DEF DivOps

-----------------------------------------------------------------------------
(* What is executed is a Vliw of the program, with the registers it names.  *)
LEMMA FetchType ==
  ASSUME TypeOK
  PROVE  /\ insn \in Vliws /\ insn.len \in {2, 4} /\ insn.imm \in Int
         /\ insn.rd \in Regs /\ insn.rs1 \in Regs /\ insn.rs2 \in Regs
         /\ rs1 \in Word /\ rs2 \in Word /\ pc_inc \in Word
         /\ pc \in Int /\ rs1 \in Int
<1>1. pc \in Nat
  BY WordProperties DEF TypeOK
<1>2. pc \div 4 \in Nat
  BY <1>1
<1>3. (pc \div 4) % Lines \in 0 .. Lines-1
  BY <1>2, ProgramAssumption
<1>4. insn \in Vliws
  <2>1. text \in [0 .. Lines-1 -> Vliws]
    BY ProgramAssumption DEF TypeOK
  <2> QED BY <1>3, <2>1 DEF insn
<1>5. /\ insn.len \in {2, 4} /\ insn.imm \in Imm
      /\ insn.rd \in Regs /\ insn.rs1 \in Regs /\ insn.rs2 \in Regs
  BY <1>4 DEF Vliws
<1>6. rs1 \in Word /\ rs2 \in Word
  BY <1>5 DEF rs1, rs2, TypeOK
<1>7. insn.imm \in Int /\ pc + insn.len \in Int
  <2>1. insn.len \in Int
    BY <1>5
  <2>2. insn.imm \in Int
    BY <1>5, InstructionAssumption
  <2> QED BY <1>1, <2>1, <2>2
<1>8. pc_inc \in Word
  BY <1>7, WordProperties DEF pc_inc
<1> QED BY <1>1, <1>4, <1>5, <1>6, <1>7, <1>8, WordProperties

(* x0 is stomped after any write (the end of execute).                      *)
LEMMA PutType ==
  ASSUME TypeOK, NEW v \in Word, Put(v)
  PROVE  reg' \in [Regs -> Word]
<1>1. 0 \in Word /\ reg \in [Regs -> Word]
  BY WordProperties DEF TypeOK
<1> QED BY <1>1 DEF Put, Stomped

(* csr_insn stores words in CSRs and in rd.                                 *)
LEMMA CsrType ==
  ASSUME NEW f \in [Stored -> Word], NEW g \in [Regs -> Word],
         NEW type \in {"W", "S", "C"}, NEW c, NEW rd, NEW rs, NEW imm32 \in Word
  PROVE  /\ CsrWritten(f, type, c, rd, rs, imm32) \in [Stored -> Word]
         /\ CsrRead(f, g, type, c, rd) \in [Regs -> Word]
<1>1. 0 \in Word /\ FixedValue \in Word
  BY WordProperties, InstructionAssumption
<1>2. CsrValue(f, type, c, rd) \in Word
  BY <1>1 DEF CsrValue, ReadCsr
<1> DEFINE new == CASE type = "W" -> imm32
                    [] type = "S" -> Or(CsrValue(f, type, c, rd), imm32)
                    [] type = "C" -> And(CsrValue(f, type, c, rd), Not(imm32))
<1>3. new \in Word
  BY BitwiseType
<1> HIDE DEF new
<1>4. CsrWritten(f, type, c, rd, rs, imm32)
        = IF (type = "W" \/ rs # 0) /\ c \in Stored THEN [f EXCEPT ![c] = new] ELSE f
  BY DEF CsrWritten, new
<1>5. CsrWritten(f, type, c, rd, rs, imm32) \in [Stored -> Word]
  BY <1>3, <1>4
<1>6. CsrRead(f, g, type, c, rd) \in [Regs -> Word]
  BY <1>2 DEF CsrRead
<1> QED BY <1>5, <1>6

(* The operand of a CSR instruction: a register, or its number.             *)
LEMMA OperandType ==
  ASSUME NEW w \in Word, NEW n \in Regs, NEW b \in BOOLEAN
  PROVE  (IF b THEN w ELSE n) \in Word
BY InstructionAssumption, WordProperties DEF Regs, Word

(* Every step of execute keeps the types of the registers.                  *)
LEMMA TypeStep ==
  ASSUME TypeOK, Next
  PROVE  TypeOK'
<1>0. /\ insn \in Vliws /\ insn.len \in {2, 4} /\ insn.imm \in Int
      /\ insn.rd \in Regs /\ insn.rs1 \in Regs /\ insn.rs2 \in Regs
      /\ rs1 \in Word /\ rs2 \in Word /\ pc_inc \in Word
      /\ pc \in Int /\ rs1 \in Int
  BY FetchType
<1>q. Quiet \in Accesses /\ Loaded \subseteq Word
  BY WordProperties, InstructionAssumption DEF Quiet, Accesses
<1>s. ASSUME pc' \in Word, reg' \in [Regs -> Word], csr' \in [Stored -> Word],
             bus' \in Accesses, text' = text, running' \in BOOLEAN
      PROVE  TypeOK'
  BY <1>s DEF TypeOK
<1>p. ASSUME Plain, reg' \in [Regs -> Word], text' = text, running' = running
      PROVE  TypeOK'
  <2>1. pc' \in Word /\ bus' \in Accesses /\ csr' \in [Stored -> Word]
    BY <1>0, <1>p, <1>q DEF Plain, TypeOK
  <2>2. running' \in BOOLEAN
    BY <1>p DEF TypeOK
  <2> QED BY <1>p, <1>s, <2>1, <2>2
<1>v. ASSUME NEW v \in Word, Put(v), Plain, text' = text, running' = running
      PROVE  TypeOK'
  <2>1. reg' \in [Regs -> Word]
    BY <1>v, PutType
  <2> QED BY <1>p, <1>v, <2>1
<1>g. ASSUME NEW a \in Int, Goto(a) PROVE pc' \in Word
  BY <1>g, WordProperties DEF Goto
<1>1. CASE Nop
  BY <1>1, <1>p DEF Nop, Is, TypeOK
<1>2. CASE Lui \/ Auipc
  <2>1. insn.imm * 2^Upper \in Int /\ pc + insn.imm * 2^Upper \in Int
    BY <1>0, InstructionAssumption
  <2>2. Wrap(insn.imm * 2^Upper) \in Word /\ Wrap(pc + insn.imm * 2^Upper) \in Word
    BY <2>1, WordProperties
  <2> QED BY <1>2, <1>v, <2>2 DEF Lui, Auipc, Is
<1>3. CASE Alu
  <2>1. Result(insn.op, rs1, rs2) \in Word
    BY <1>0, <1>3, ResultType DEF Alu, Is
  <2> QED BY <1>3, <1>v, <2>1 DEF Alu, Is
<1>4. CASE AluImm
  <2>1. Base[insn.op] \in AluOps /\ Wrap(insn.imm) \in Word
    BY <1>0, <1>4, WordProperties DEF AluImm, Is, Base, ImmOps, AluOps
  <2>2. Result(Base[insn.op], rs1, Wrap(insn.imm)) \in Word
    BY <1>0, <2>1, ResultType
  <2> QED BY <1>4, <1>v, <2>2 DEF AluImm, Is
<1>5. CASE Mul
  <2>1. Product(insn.op, rs1, rs2) \in Word
    BY <1>0, <1>5, ProductType DEF Mul, Is
  <2> QED BY <1>5, <1>v, <2>1 DEF Mul, Is
<1>6. CASE Div
  <2>1. Quotient(insn.op, rs1, rs2) \in Word
    BY <1>0, <1>6, QuotientType DEF Div, Is
  <2> QED BY <1>6, <1>v, <2>1 DEF Div, Is
<1>7. CASE DivArm
  <2>1. PICK v \in {0, rs1} : Put(v)
    BY <1>0, <1>7 DEF DivArm, Is, DivOps, Undefined
  <2>2. v \in Word
    BY <1>0, <2>1, WordProperties
  <2> QED BY <1>7, <1>v, <2>1, <2>2 DEF DivArm, Is
<1>8. CASE DivX86 \/ Fatal
  <2>1. UNCHANGED <<text, pc, reg, csr, bus>> /\ running' = FALSE
    BY <1>8 DEF DivX86, Fatal, Stop
  <2> QED BY <1>s, <2>1 DEF TypeOK
<1>9. CASE Jump
  <2>1. pc + insn.imm \in Int /\ rs1 + insn.imm \in Int
    BY <1>0
  <2>2. pc' \in Word
    BY <1>0, <1>9, <1>g, <2>1 DEF Jump, Is, JumpOps
  <2>3. reg' \in [Regs -> Word]
    <3>1. reg' = reg \/ Put(pc_inc)
      BY <1>9 DEF Jump, Is, JumpOps
    <3> QED BY <1>0, <3>1, PutType DEF TypeOK
  <2>4. bus' = Quiet /\ csr' = csr /\ text' = text /\ running' = running
    BY <1>9 DEF Jump, Is
  <2> QED BY <1>q, <1>s, <2>2, <2>3, <2>4 DEF TypeOK
<1>10. CASE Branch
  <2>1. pc + insn.imm \in Int
    BY <1>0
  <2>2. pc' \in Word
    BY <1>0, <1>10, <1>g, <2>1 DEF Branch
  <2>3. bus' = Quiet /\ UNCHANGED <<text, running, reg, csr>>
    BY <1>10 DEF Branch, Is
  <2> QED BY <1>q, <1>s, <2>2, <2>3 DEF TypeOK
<1>11. CASE Load
  <2>1. PICK v \in Loaded : /\ bus' = [op |-> insn.op, addr |-> Addr32, value |-> v]
                            /\ Put(v)
    BY <1>11 DEF Load
  <2>2. Addr32 \in Word
    BY <1>0, WordProperties DEF Addr32
  <2>3. bus' \in Accesses /\ reg' \in [Regs -> Word]
    BY <1>q, <1>11, <2>1, <2>2, PutType DEF Load, Is, Accesses
  <2> QED BY <1>0, <1>11, <1>s, <2>3 DEF Load, Is, TypeOK
<1>12. CASE Store
  <2>1. Addr32 \in Word
    BY <1>0, WordProperties DEF Addr32
  <2>2. bus' \in Accesses
    BY <1>0, <1>12, <2>1 DEF Store, Is, Accesses
  <2> QED BY <1>0, <1>12, <1>s, <2>2 DEF Store, Is, TypeOK
<1>13. CASE Csr
  <2> DEFINE b == insn.op \in {"CSRRW", "CSRRS", "CSRRC"}
             imm32 == IF b THEN rs1 ELSE insn.rs1
             type == Type(insn.op)
  <2>1. imm32 \in Word
    BY <1>0, OperandType
  <2>2. type \in {"W", "S", "C"}
    BY <1>13 DEF Csr, Is, CsrOps, Type
  <2>3. /\ csr' = CsrWritten(csr, type, insn.csr, insn.rd, insn.rs1, imm32)
        /\ reg' = Stomped(CsrRead(csr, reg, type, insn.csr, insn.rd))
        /\ pc' = pc_inc /\ bus' = Quiet /\ UNCHANGED <<text, running>>
    BY <1>13 DEF Csr, Is
  <2> HIDE DEF imm32, type
  <2>4. /\ CsrWritten(csr, type, insn.csr, insn.rd, insn.rs1, imm32) \in [Stored -> Word]
        /\ CsrRead(csr, reg, type, insn.csr, insn.rd) \in [Regs -> Word]
    BY <2>1, <2>2, CsrType DEF TypeOK
  <2>5. csr' \in [Stored -> Word] /\ reg' \in [Regs -> Word]
    BY <2>3, <2>4, WordProperties DEF Stomped
  <2> QED BY <1>0, <1>q, <1>s, <2>3, <2>5 DEF TypeOK
<1> QED BY <1>1, <1>2, <1>3, <1>4, <1>5, <1>6, <1>7, <1>8, <1>9, <1>10, <1>11, <1>12,
           <1>13 DEF Next

-----------------------------------------------------------------------------
(* The program that rv_compile writes.                                      *)

(* A register that is wrapped before it is added is the same (addi).        *)
LEMMA WrapSum ==
  ASSUME NEW a \in Int, NEW i \in Int
  PROVE  Wrap(a + Wrap(i)) = Wrap(a + i)
<1>1. Wrap(i) \in Int /\ Size \in Nat
  BY WrapOf, WordValues
<1>2. PICK k \in Int : i = k * Size + Wrap(i)
  BY WrapOf
<1> DEFINE w == Wrap(i)
<1> HIDE DEF w
<1>3. a + i = k * Size + (a + w) /\ a + w \in Int
  <2>1. k * Size \in Int
    BY <1>1
  <2> QED BY <1>1, <1>2, <2>1 DEF w
<1>4. Wrap(k * Size + (a + w)) = Wrap(a + w)
  BY <1>3, WrapShifted
<1> QED BY <1>3, <1>4 DEF w

(* Where nothing is left in r[0], execute's last assignment has no effect.  *)
LEMMA NothingToStomp ==
  ASSUME NEW g \in [Regs -> Word], g[0] = 0
  PROVE  Stomped(g) = g
BY DEF Stomped

(* The inductive invariant of the two machines.                             *)
Inv == CTypeOK /\ CompiledAgrees /\ (followed => r[0] = 0)

(* What the two have in common before a step that is followed.              *)
LEMMA SameInstruction ==
  ASSUME Inv, followed, ~Gap
  PROVE  /\ r = reg /\ at = pc /\ out = bus /\ file = csr /\ r[0] = 0
         /\ TypeOK /\ r \in [Regs -> Word] /\ 0 \in Regs
         /\ line = insn /\ Wrap(at + 4) = pc_inc
         /\ r[line.rs1] = rs1 /\ Src(line.rs1) = rs1
         /\ r[line.rs2] = rs2 /\ Src(line.rs2) = rs2
<1>1. r = reg /\ at = pc /\ out = bus /\ file = csr /\ r[0] = 0
  BY DEF Inv, CompiledAgrees
<1>2. TypeOK /\ r \in [Regs -> Word]
  BY DEF Inv, CTypeOK
<1>3. line = insn
  BY <1>1 DEF line, insn
<1>4. insn.len = 4
  BY <1>2, <1>3, FetchType DEF Gap
<1>5. 0 \in Regs
  BY InstructionAssumption DEF Regs
<1> QED BY <1>1, <1>2, <1>3, <1>4, <1>5 DEF pc_inc, rs1, rs2, Src

(* What a step that is followed does to both: the same, but for what is     *)
(* left in r[0] and for the bits of a pc that has no label.                 *)
Agree ==
  /\ r' \in [Regs -> Word] /\ reg' = Stomped(r')
  /\ at' \in Word /\ (Labelled(pc') => at' = pc')
  /\ out' = bus' /\ file' = csr'

(* An assignment that both make to rd, with what goes on after it.          *)
LEMMA AssignAgrees ==
  ASSUME Inv, followed, ~Gap, NEW v \in Word,
         Put(v), Assign(v), pc' = pc_inc, Falls, out' = bus', csr' = csr, file' = file
  PROVE  Agree
<1>1. /\ r = reg /\ file = csr /\ TypeOK /\ r \in [Regs -> Word]
      /\ line = insn /\ Wrap(at + 4) = pc_inc
  BY SameInstruction
<1>2. r' \in [Regs -> Word] /\ reg' = Stomped(r')
  BY <1>1 DEF Assign, Put
<1>3. at' = pc' /\ at' \in Word
  BY <1>1, FetchType DEF Falls
<1> QED BY <1>1, <1>2, <1>3 DEF Agree

(* Arithmetic.                                                              *)
LEMMA ComputationAgrees ==
  ASSUME Inv, followed, ~Gap, Runs,
         Nop \/ Lui \/ Auipc \/ Alu \/ AluImm
  PROVE  Agree
<1>1. /\ r = reg /\ at = pc /\ out = bus /\ file = csr /\ r[0] = 0
      /\ TypeOK /\ r \in [Regs -> Word] /\ 0 \in Regs
      /\ line = insn /\ Wrap(at + 4) = pc_inc
      /\ r[line.rs1] = rs1 /\ Src(line.rs1) = rs1
      /\ r[line.rs2] = rs2 /\ Src(line.rs2) = rs2
  BY SameInstruction
<1>2. /\ insn.imm \in Int /\ rs1 \in Word /\ rs2 \in Word /\ pc_inc \in Word
      /\ pc \in Int /\ rs1 \in Int
  BY <1>1, FetchType
<1>3. CASE Nop
  <2>1. insn.op = "NOP"
    BY <1>1, <1>3 DEF Nop, Is, NopOps, Gap
  <2>2. UNCHANGED <<r, file>> /\ Falls /\ Silent
    BY <1>1, <2>1 DEF Runs, Statement, JumpStatement, BranchStatement, CsrStatement,
                      AluOps, ImmOps, LoadOps, StoreOps, JumpOps, BranchOps, CsrOps
  <2>3. at' = pc' /\ at' \in Word
    BY <1>1, <1>2, <1>3, <2>2 DEF Nop, Plain, Falls
  <2>4. reg' = Stomped(r')
    BY <1>1, <1>3, <2>2, NothingToStomp DEF Nop
  <2> QED BY <1>1, <1>3, <2>2, <2>3, <2>4 DEF Nop, Plain, Silent, Agree
<1>4. CASE Lui \/ Auipc
  <2> DEFINE v == IF insn.op = "LUI" THEN Wrap(insn.imm * 2^Upper)
                  ELSE Wrap(pc + insn.imm * 2^Upper)
  <2>1. insn.op \in {"LUI", "AUIPC"} /\ Put(v) /\ Plain
    BY <1>4 DEF Lui, Auipc, Is
  <2>2. /\ Assign(Wrap(insn.imm * 2^Upper + IF insn.op = "LUI" THEN 0 ELSE pc))
        /\ Falls /\ Silent /\ UNCHANGED file
    BY <1>1, <2>1
    DEF Runs, Statement, JumpStatement, BranchStatement, CsrStatement,
        AluOps, ImmOps, LoadOps, StoreOps, JumpOps, BranchOps, CsrOps
  <2>3. insn.imm * 2^Upper \in Int
    BY <1>2, InstructionAssumption
  <2>4. /\ insn.imm * 2^Upper + 0 = insn.imm * 2^Upper
        /\ insn.imm * 2^Upper + pc = pc + insn.imm * 2^Upper
    BY <1>2, <2>3
  <2>5. Wrap(insn.imm * 2^Upper + IF insn.op = "LUI" THEN 0 ELSE pc) = v
    BY <2>1, <2>4
  <2>6. pc + insn.imm * 2^Upper \in Int
    BY <1>2, <2>3
  <2>7. v \in Word
    BY <2>3, <2>6, WordProperties
  <2> HIDE DEF v
  <2> QED BY <2>1, <2>2, <2>5, <2>7, AssignAgrees DEF Plain, Silent
<1>5. CASE Alu
  <2>1. insn.op \in AluOps /\ Put(Result(insn.op, rs1, rs2)) /\ Plain
    BY <1>5 DEF Alu, Is
  <2>2. Assign(Result(insn.op, rs1, rs2)) /\ Falls /\ Silent /\ UNCHANGED file
    BY <1>1, <2>1
    DEF Runs, Statement, JumpStatement, BranchStatement, CsrStatement,
        AluOps, ImmOps, LoadOps, StoreOps, JumpOps, BranchOps, CsrOps
  <2>3. Result(insn.op, rs1, rs2) \in Word
    BY <1>2, <2>1, ResultType
  <2> QED BY <2>1, <2>2, <2>3, AssignAgrees DEF Plain, Silent
<1>6. CASE AluImm
  <2> DEFINE v == Result(Base[insn.op], rs1, Wrap(insn.imm))
  <2>1. insn.op \in ImmOps /\ Put(v) /\ Plain
    BY <1>6 DEF AluImm, Is
  <2>2. /\ Assign(IF insn.op = "ADDI" THEN Wrap(rs1 + insn.imm) ELSE v)
        /\ Falls /\ Silent /\ UNCHANGED file
    BY <1>1, <2>1
    DEF Runs, Statement, JumpStatement, BranchStatement, CsrStatement,
        AluOps, ImmOps, LoadOps, StoreOps, JumpOps, BranchOps, CsrOps
  <2>3. insn.op = "ADDI" => Wrap(rs1 + insn.imm) = v
    BY <1>2, WrapSum DEF Base, Result
  <2>4. Base[insn.op] \in AluOps /\ Wrap(insn.imm) \in Word
    BY <1>2, <2>1, WordProperties DEF Base, ImmOps, AluOps
  <2>5. v \in Word
    BY <1>2, <2>4, ResultType
  <2> HIDE DEF v
  <2> QED BY <2>1, <2>2, <2>3, <2>5, AssignAgrees DEF Plain, Silent
<1> QED BY <1>3, <1>4, <1>5, <1>6

(* Loads and stores: the same access, the same value into rd.               *)
LEMMA AccessAgrees ==
  ASSUME Inv, followed, ~Gap, Runs, Load \/ Store
  PROVE  Agree
<1>1. /\ r = reg /\ at = pc /\ out = bus /\ file = csr /\ r[0] = 0
      /\ TypeOK /\ r \in [Regs -> Word]
      /\ line = insn /\ Wrap(at + 4) = pc_inc
      /\ r[line.rs1] = rs1 /\ r[line.rs2] = rs2
  BY SameInstruction
<1>2. pc_inc \in Word
  BY <1>1, FetchType
<1>3. CASE Load
  <2>1. PICK v \in Loaded : /\ bus' = [op |-> insn.op, addr |-> Addr32, value |-> v]
                            /\ Put(v)
    BY <1>3 DEF Load
  <2>2. insn.op \in LoadOps /\ pc' = pc_inc /\ csr' = csr
    BY <1>3 DEF Load, Is
  <2>3. /\ Assign(bus'.value) /\ Falls /\ UNCHANGED file
        /\ out' = [op |-> insn.op, addr |-> Wrap(rs1 + insn.imm), value |-> bus'.value]
    BY <1>1, <2>2
    DEF Runs, Statement, JumpStatement, BranchStatement, CsrStatement,
        AluOps, ImmOps, LoadOps, StoreOps, JumpOps, BranchOps, CsrOps
  <2>4. v \in Word /\ bus'.value = v /\ out' = bus'
    BY <2>1, <2>3, InstructionAssumption DEF Addr32
  <2> QED BY <2>1, <2>2, <2>3, <2>4, AssignAgrees
<1>4. CASE Store
  <2>1. /\ insn.op \in StoreOps /\ pc' = pc_inc /\ reg' = reg /\ csr' = csr
        /\ bus' = [op |-> insn.op, addr |-> Addr32, value |-> rs2]
    BY <1>4 DEF Store, Is
  <2>2. /\ Falls /\ UNCHANGED <<r, file>>
        /\ out' = [op |-> insn.op, addr |-> Wrap(rs1 + insn.imm), value |-> rs2]
    BY <1>1, <2>1
    DEF Runs, Statement, JumpStatement, BranchStatement, CsrStatement,
        AluOps, ImmOps, LoadOps, StoreOps, JumpOps, BranchOps, CsrOps
  <2>3. out' = bus' /\ at' = pc' /\ at' \in Word /\ reg' = Stomped(r')
    BY <1>1, <1>2, <2>1, <2>2, NothingToStomp DEF Addr32, Falls
  <2> QED BY <1>1, <2>1, <2>2, <2>3 DEF Agree
<1> QED BY <1>3, <1>4

(* Where switch(pc>>2) goes: to the label of the word that pc points into.  *)
LabelAt(a) == (a \div 4) * 4

LEMMA LabelProperties ==
  ASSUME NEW a \in Word
  PROVE  LabelAt(a) \in Word /\ (Labelled(a) => LabelAt(a) = a)
<1>1. a \in Nat /\ a < Size /\ Size \in Nat
  BY WordProperties DEF Word
<1>2. LabelAt(a) \in Nat /\ LabelAt(a) <= a
  BY <1>1 DEF LabelAt
<1>3. Labelled(a) => LabelAt(a) = a
  BY <1>1 DEF LabelAt, Labelled
<1> QED BY <1>1, <1>2, <1>3 DEF Word

(* Jumps: switch(pc>>2) finds the label of the target where there is one,   *)
(* and rs1 is read before rd is written, in both.                           *)
LEMMA JumpAgrees ==
  ASSUME Inv, followed, ~Gap, Runs, Jump
  PROVE  Agree
<1>1. /\ r = reg /\ at = pc /\ out = bus /\ file = csr /\ r[0] = 0
      /\ TypeOK /\ r \in [Regs -> Word] /\ 0 \in Regs
      /\ line = insn /\ Wrap(at + 4) = pc_inc
      /\ r[line.rs1] = rs1
  BY SameInstruction
<1>2. /\ insn.imm \in Int /\ rs1 \in Word /\ pc_inc \in Word /\ pc \in Int /\ rs1 \in Int
      /\ insn \in Vliws /\ insn.rd \in Regs
  BY <1>1, FetchType
<1> DEFINE a == IF insn.op \in {"J", "JAL"} THEN pc + insn.imm ELSE rs1 + insn.imm
<1>3. insn.op \in JumpOps /\ bus' = Quiet /\ csr' = csr
  BY DEF Jump, Is
<1>4. /\ insn.op \in {"J", "JR"} => insn.rd = 0
      /\ insn.op = "JR" => insn.imm = 0
  BY <1>2 DEF Vliws
<1>5. a \in Int
  BY <1>2
<1>6. pc' = Wrap(a)
  <2>1. insn.op = "JR" => rs1 + insn.imm = rs1
    BY <1>2, <1>4
  <2> QED BY <1>3, <2>1 DEF Jump, JumpOps, Goto
<1>7. Resume(a) /\ r' = Linked /\ Silent /\ UNCHANGED file
  BY <1>1, <1>3
  DEF Runs, Statement, JumpStatement, BranchStatement, CsrStatement,
      AluOps, ImmOps, LoadOps, StoreOps, JumpOps, BranchOps, CsrOps
<1> HIDE DEF a
<1>8. at' \in Word /\ (Labelled(pc') => at' = pc')
  <2>1. Wrap(a) \in Word /\ Wrap(a) \in Nat /\ Size \in Nat
    BY <1>5, WordProperties
  <2>2. at' = (pc' \div 4) * 4 /\ pc' \in Nat /\ pc' < Size
    BY <1>6, <1>7, <2>1 DEF Resume, Word
  <2>3. at' = LabelAt(Wrap(a))
    BY <1>7 DEF Resume, LabelAt
  <2> QED BY <1>6, <2>1, <2>3, LabelProperties
<1>9. r' \in [Regs -> Word] /\ reg' = Stomped(r')
  <2>1. CASE insn.op \in {"J", "JR"}
    <3>1. r' = r /\ reg' = reg
      BY <1>1, <1>4, <1>7, <2>1 DEF Linked, Jump
    <3> QED BY <1>1, <3>1, NothingToStomp
  <2>2. CASE insn.op \in {"JAL", "JALR"}
    <3>1. Put(pc_inc)
      BY <2>2 DEF Jump
    <3>2. reg' = [[reg EXCEPT ![insn.rd] = pc_inc] EXCEPT ![0] = 0]
      BY <3>1 DEF Put, Stomped
    <3>3. CASE insn.rd # 0
      <4>1. r' = [r EXCEPT ![insn.rd] = pc_inc]
        BY <1>1, <1>7, <3>3 DEF Linked
      <4> QED BY <1>1, <1>2, <3>2, <4>1 DEF Stomped
    <3>4. CASE insn.rd = 0
      <4>1. r' = r
        BY <1>1, <1>7, <3>4 DEF Linked
      <4>2. reg' = [reg EXCEPT ![0] = 0]
        BY <1>1, <3>2, <3>4
      <4> QED BY <1>1, <4>1, <4>2 DEF Stomped
    <3> QED BY <3>3, <3>4
  <2> QED BY <1>3, <2>1, <2>2 DEF JumpOps
<1> QED BY <1>1, <1>3, <1>7, <1>8, <1>9 DEF Silent, Agree

(* Branches, by the same comparison.                                        *)
LEMMA BranchAgrees ==
  ASSUME Inv, followed, ~Gap, Runs, Branch
  PROVE  Agree
<1>1. /\ r = reg /\ at = pc /\ out = bus /\ file = csr /\ r[0] = 0
      /\ TypeOK /\ r \in [Regs -> Word]
      /\ line = insn /\ Wrap(at + 4) = pc_inc
      /\ Src(line.rs1) = rs1 /\ Src(line.rs2) = rs2
  BY SameInstruction
<1>2. insn.imm \in Int /\ pc_inc \in Word /\ pc \in Int
  BY <1>1, FetchType
<1>3. /\ insn.op \in BranchOps /\ bus' = Quiet /\ UNCHANGED <<reg, csr>>
      /\ pc' = IF Taken(insn.op, rs1, rs2) THEN Wrap(pc + insn.imm) ELSE pc_inc
  BY DEF Branch, Is, Goto
<1>4. /\ Silent /\ UNCHANGED <<r, file>>
      /\ at' = IF Taken(insn.op, rs1, rs2) THEN Wrap(pc + insn.imm) ELSE pc_inc
  BY <1>1, <1>3
  DEF Runs, Statement, JumpStatement, BranchStatement, CsrStatement, Falls,
      AluOps, ImmOps, LoadOps, StoreOps, JumpOps, BranchOps, CsrOps
<1>5. at' \in Word
  <2>1. pc + insn.imm \in Int
    BY <1>2
  <2> QED BY <1>2, <1>4, <2>1, WordProperties
<1>6. reg' = Stomped(r')
  BY <1>1, <1>3, <1>4, NothingToStomp
<1> QED BY <1>1, <1>3, <1>4, <1>5, <1>6 DEF Silent, Agree

(* CSR instructions: the same function of the library.                      *)
LEMMA CsrAgrees ==
  ASSUME Inv, followed, ~Gap, Runs, Csr
  PROVE  Agree
<1>1. /\ r = reg /\ at = pc /\ out = bus /\ file = csr /\ r[0] = 0
      /\ TypeOK /\ r \in [Regs -> Word]
      /\ line = insn /\ Wrap(at + 4) = pc_inc
      /\ r[line.rs1] = rs1
  BY SameInstruction
<1>2. pc_inc \in Word /\ rs1 \in Word /\ insn.rs1 \in Regs
  BY <1>1, FetchType
<1> DEFINE b == insn.op \in {"CSRRW", "CSRRS", "CSRRC"}
           imm32 == IF b THEN rs1 ELSE insn.rs1
           type == Type(insn.op)
<1>3. /\ csr' = CsrWritten(csr, type, insn.csr, insn.rd, insn.rs1, imm32)
      /\ reg' = Stomped(CsrRead(csr, reg, type, insn.csr, insn.rd))
      /\ pc' = pc_inc /\ bus' = Quiet /\ insn.op \in CsrOps
  BY DEF Csr, Is
<1>4. /\ file' = CsrWritten(csr, type, insn.csr, insn.rd, insn.rs1, imm32)
      /\ r' = CsrRead(csr, reg, type, insn.csr, insn.rd)
      /\ Falls /\ Silent
  BY <1>1, <1>3
  DEF Runs, Statement, JumpStatement, BranchStatement, CsrStatement,
      AluOps, ImmOps, LoadOps, StoreOps, JumpOps, BranchOps, CsrOps
<1>5. type \in {"W", "S", "C"}
  BY <1>3 DEF CsrOps, Type
<1>6. imm32 \in Word
  BY <1>2, OperandType
<1> HIDE DEF imm32, type
<1>7. r' \in [Regs -> Word]
  BY <1>1, <1>4, <1>5, <1>6, CsrType DEF TypeOK
<1>8. at' = pc' /\ at' \in Word
  BY <1>1, <1>2, <1>3, <1>4 DEF Falls
<1> QED BY <1>3, <1>4, <1>7, <1>8 DEF Silent, Agree

LEMMA FollowAgrees ==
  ASSUME Inv, Follow
  PROVE  Agree
<1>1. followed /\ ~Gap /\ Next /\ Runs
  BY DEF Follow
<1>2. line = insn
  BY <1>1, SameInstruction
<1>3. CASE Nop \/ Lui \/ Auipc \/ Alu \/ AluImm
  BY <1>1, <1>3, ComputationAgrees
<1>4. CASE Load \/ Store
  BY <1>1, <1>4, AccessAgrees
<1>5. CASE Jump
  BY <1>1, <1>5, JumpAgrees
<1>6. CASE Branch
  BY <1>1, <1>6, BranchAgrees
<1>7. CASE Csr
  BY <1>1, <1>7, CsrAgrees
<1>8. ~(Mul \/ Div \/ DivArm \/ DivX86 \/ Fatal)
  BY <1>1, <1>2 DEF Gap, Mul, Div, DivArm, DivX86, Fatal, Is
<1> QED BY <1>1, <1>3, <1>4, <1>5, <1>6, <1>7, <1>8 DEF Next

LEMMA InvInit == CInit => Inv
<1> SUFFICES ASSUME CInit PROVE Inv
  OBVIOUS
<1>1. 0 \in Word /\ Loaded \subseteq Word /\ 0 \in Regs /\ Last \in Nat
  BY WordProperties, InstructionAssumption DEF Regs
<1>2. reg \in [Regs -> Word] /\ reg[0] = 0
  <2>1. PICK f \in [1 .. Last -> Loaded] : reg = [n \in Regs |-> IF n = 0 THEN 0 ELSE f[n]]
    BY DEF CInit, Init
  <2>2. \A n \in Regs : n # 0 => n \in 1 .. Last
    BY <1>1 DEF Regs
  <2> QED BY <1>1, <2>1, <2>2
<1>3. Quiet \in Accesses
  BY <1>1 DEF Quiet, Accesses
<1>4. TypeOK
  BY <1>1, <1>2, <1>3 DEF CInit, Init, TypeOK
<1> QED BY <1>1, <1>2, <1>3, <1>4 DEF CInit, Init, Inv, CTypeOK, CompiledAgrees, TypeOK

LEMMA InvStep == Inv /\ [CNext]_allvars => Inv'
<1> SUFFICES ASSUME Inv, [CNext]_allvars PROVE Inv'
  OBVIOUS
<1>0. CTypeOK /\ TypeOK
  BY DEF Inv, CTypeOK
<1>1. CASE Follow
  <2>1. TypeOK'
    BY <1>0, <1>1, TypeStep DEF Follow
  <2>2. /\ r' \in [Regs -> Word] /\ reg' = Stomped(r')
        /\ at' \in Word /\ (Labelled(pc') => at' = pc')
        /\ out' = bus' /\ file' = csr'
    BY <1>1, FollowAgrees DEF Agree
  <2>3. followed' = (Labelled(pc') /\ r'[0] = 0)
    BY <1>1 DEF Follow
  <2>4. CTypeOK'
    <3>1. followed' \in BOOLEAN
      BY <2>3
    <3> QED BY <2>1, <2>2, <3>1 DEF CTypeOK, TypeOK
  <2>5. ASSUME followed' PROVE CompiledAgrees' /\ r'[0] = 0
    <3>1. Labelled(pc') /\ r'[0] = 0
      BY <2>3, <2>5
    <3>2. reg' = r'
      BY <2>2, <3>1, NothingToStomp
    <3> QED BY <2>2, <3>1, <3>2 DEF CompiledAgrees
  <2> QED BY <2>4, <2>5 DEF Inv, CompiledAgrees
<1>2. CASE Part
  <2>1. TypeOK'
    BY <1>0, <1>2, TypeStep DEF Part
  <2>2. ~followed' /\ followed' \in BOOLEAN /\ UNCHANGED <<r, at, out, file>>
    BY <1>2 DEF Part
  <2> QED BY <1>0, <2>1, <2>2 DEF Inv, CTypeOK, CompiledAgrees
<1>3. CASE UNCHANGED allvars
  BY <1>3 DEF allvars, vars, cvars, Inv, CTypeOK, TypeOK, CompiledAgrees
<1> QED BY <1>1, <1>2, <1>3 DEF CNext

(* The two machines keep their types and agree, for every program, every    *)
(* width and number of registers.                                           *)
THEOREM Invariance == CSpec => []Inv
<1> QED BY InvInit, InvStep, PTL DEF CSpec

(* Registers, CSRs, addresses and pc stay in 32 bits, in execute and in the *)
(* compiled program: every result, target and access is wrapped.            *)
THEOREM TypeCorrect == CSpec => []CTypeOK
<1>1. Inv => CTypeOK
  BY DEF Inv
<1> QED BY <1>1, Invariance, PTL

(* As long as it meets no gap, the C program that rv_compile writes has     *)
(* done what execute has done, without ever resetting r[0].                 *)
THEOREM CompiledDoesTheSame == CSpec => []CompiledAgrees
<1>1. Inv => CompiledAgrees
  BY DEF Inv
<1> QED BY <1>1, Invariance, PTL

-----------------------------------------------------------------------------
(* The machine of Rv32: its words by mathematics are those of C.            *)
LEMMA SameNotions ==
  /\ R!Size = Size /\ R!Half = Half /\ R!Word = Word /\ R!Places = 0 .. Width-1
  /\ R!Top = Width-1 /\ R!Names = 1 .. Last /\ R!Quiet = Quiet
  /\ R!AluOps = AluOps /\ R!ImmOps = ImmOps /\ R!MulOps = MulOps /\ R!DivOps = DivOps
  /\ R!JumpOps = JumpOps /\ R!BranchOps = BranchOps /\ R!LoadOps = LoadOps
  /\ R!StoreOps = StoreOps /\ R!CsrOps = CsrOps /\ R!NopOps = NopOps
  /\ R!Unknown = Unknown /\ R!Base = Base
<1>1. R!Size = Size /\ R!Half = Half
  BY DEF R!Size, Size, R!Half, Half
<1>2. R!Word = Word
  BY <1>1 DEF R!Word, Word
<1>3. R!Places = 0 .. Width-1 /\ R!Top = Width-1 /\ R!Names = 1 .. Last /\ R!Quiet = Quiet
  BY DEF R!Places, R!Top, R!Names, R!Quiet, Quiet
<1>4. /\ R!AluOps = AluOps /\ R!ImmOps = ImmOps /\ R!MulOps = MulOps /\ R!DivOps = DivOps
      /\ R!JumpOps = JumpOps /\ R!BranchOps = BranchOps /\ R!LoadOps = LoadOps
      /\ R!StoreOps = StoreOps /\ R!CsrOps = CsrOps /\ R!NopOps = NopOps
      /\ R!Unknown = Unknown
  BY DEF R!AluOps, AluOps, R!ImmOps, ImmOps, R!MulOps, MulOps, R!DivOps, DivOps,
         R!JumpOps, JumpOps, R!BranchOps, BranchOps, R!LoadOps, LoadOps, R!StoreOps, StoreOps,
         R!CsrOps, CsrOps, R!NopOps, NopOps, R!Unknown, Unknown
<1>5. R!Base = Base
  BY DEF R!Base, Base
<1> QED BY <1>1, <1>2, <1>3, <1>4, <1>5

LEMMA OnesAre ==
  ASSUME NEW w \in Word
  PROVE  R!Ones[w] = {i \in 0 .. Width-1 : Bit(w, i) = 1}
BY SameNotions DEF R!Ones, Bit

LEMMA WordOfIs ==
  ASSUME NEW w \in Word, NEW s, s \subseteq 0 .. Width-1,
         \A i \in 0 .. Width-1 : Bit(w, i) = 1 <=> i \in s
  PROVE  R!WordOf[s] = w
<1>1. R!WordOf[s] = CHOOSE v \in Word : R!Ones[v] = s
  BY SameNotions DEF R!WordOf
<1>2. R!Ones[w] = s
  BY OnesAre
<1>3. ASSUME NEW v \in Word, R!Ones[v] = s PROVE v = w
  <2>1. \A i \in 0 .. Width-1 : Bit(v, i) = 1 <=> Bit(w, i) = 1
    BY <1>3, OnesAre
  <2>2. \A i \in 0 .. Width-1 : Bit(v, i) \in {0, 1} /\ Bit(w, i) \in {0, 1}
    BY Powers, WordValues, BitType
  <2> QED BY <2>1, <2>2, SameBits
<1> QED BY <1>1, <1>2, <1>3

LEMMA ModIs ==
  ASSUME NEW a \in Int
  PROVE  R!Mod(a) = Wrap(a)
<1>s. Size \in Nat \ {0}
  BY WordValues
<1>1. R!Mod(a) = CHOOSE w \in Word : (a - w) % Size = 0
  BY SameNotions DEF R!Mod
<1>2. Wrap(a) \in Word /\ (a - Wrap(a)) % Size = 0
  <2>1. PICK k \in Int : a = k * Size + Wrap(a)
    BY WrapOf
  <2> DEFINE w == Wrap(a)
             z == 0
  <2>2. w \in Int /\ z \in Int /\ z \in 0 .. Size-1
    <3>1. w \in Int
      BY WrapOf, WordValues
    <3> QED BY <1>s, <3>1
  <2> HIDE DEF w
  <2>3. a - w = k * Size + z
    <3>1. k * Size \in Int
      BY <1>s
    <3> QED BY <2>1, <2>2, <3>1 DEF w
  <2> HIDE DEF z
  <2>4. (a - w) % Size = z
    BY <1>s, <2>2, <2>3, DivisionIsUnique
  <2> QED BY <2>4, WrapOf DEF w, z
<1>3. ASSUME NEW w \in Word, (a - w) % Size = 0 PROVE w = Wrap(a)
  <2>1. w \in Int
    BY WordValues
  <2> DEFINE k == (a - w) \div Size
  <2>2. k \in Int /\ a - w = k * Size + 0
    BY <1>s, <1>3, <2>1, Division
  <2> HIDE DEF k
  <2>3. a = k * Size + w
    <3>1. k * Size \in Int
      BY <1>s, <2>2
    <3> QED BY <2>1, <2>2, <3>1
  <2> QED BY <2>2, <2>3, WrapIs
<1> QED BY <1>1, <1>2, <1>3

(* An instance has a Cardinality of its own.                                *)
LEMMA Counting == \A S : R!Cardinality(S) = Cardinality(S)
BY Zenon DEF R!Cardinality, Cardinality

LEMMA ValIs ==
  ASSUME NEW w \in Word
  PROVE  R!Val(w) = Signed(w) /\ (R!Negative(w) <=> w >= Half)
<1>1. Width-1 \in 0 .. Width-1
  BY Powers
<1>2. R!Negative(w) <=> w >= Half
  BY <1>1, SameNotions, OnesAre, TopBit DEF R!Negative
<1>3. R!Val(w) = w - Cardinality({Width-1} \cap R!Ones[w]) * Size
  BY Counting DEF R!Val, R!Top, R!Size, Size
<1>4. CASE w >= Half
  <2>1. {Width-1} \cap R!Ones[w] = {Width-1}
    BY <1>2, <1>4, SameNotions DEF R!Negative
  <2>2. Cardinality({Width-1}) = 1
    BY FS_Singleton
  <2> QED BY <1>2, <1>3, <1>4, <2>1, <2>2, WordValues DEF Signed
<1>5. CASE ~ (w >= Half)
  <2>1. {Width-1} \cap R!Ones[w] = {}
    BY <1>2, <1>5, SameNotions DEF R!Negative
  <2>2. Cardinality({}) = 0
    BY FS_EmptySet
  <2> QED BY <1>2, <1>3, <1>5, <2>1, <2>2, WordValues DEF Signed
<1> QED BY <1>4, <1>5

LEMMA BelowIs ==
  ASSUME NEW a \in Word, NEW b \in Word
  PROVE  R!Below(a, b) <=> Signed(a) < Signed(b)
<1>1. ASSUME NEW w \in Word PROVE R!Flip(w) = Flipped(w)
  <2> DEFINE s == R!SymDiff(R!Ones[w], {R!Top})
             f == Flipped(w)
  <2>1. R!Flip(w) = R!WordOf[s]
    BY DEF R!Flip
  <2>2. s \subseteq 0 .. Width-1
    BY SameNotions, OnesAre, Powers DEF R!SymDiff
  <2>3. \A i \in 0 .. Width-1 : Bit(w, i) \in {0, 1}
    BY Powers, WordValues, BitType
  <2>4. \A i \in 0 .. Width-1 : i \in s <=> IF i = Width-1 THEN Bit(w, i) # 1 ELSE Bit(w, i) = 1
    BY SameNotions, OnesAre DEF R!SymDiff
  <2>5. f \in Word /\ \A i \in 0 .. Width-1 :
                        Bit(f, i) = IF i = Width-1 THEN 1 - Bit(w, i) ELSE Bit(w, i)
    BY FlippedBits
  <2> HIDE DEF s, f
  <2>6. \A i \in 0 .. Width-1 : Bit(f, i) = 1 <=> i \in s
    BY <2>3, <2>4, <2>5
  <2>7. R!WordOf[s] = f
    BY <2>2, <2>5, <2>6, WordOfIs
  <2> QED BY <2>1, <2>7 DEF f
<1> QED BY <1>1, FlippedOrder DEF R!Below

LEMMA NumIs ==
  ASSUME NEW b \in BOOLEAN
  PROVE  R!Num(b) = Truth(b)
<1>1. R!Num(b) = Cardinality({0} \cap {IF b THEN 0 ELSE 1})
  BY Counting DEF R!Num
<1>2. CASE b = TRUE
  <2>1. {0} \cap {IF b THEN 0 ELSE 1} = {0}
    BY <1>2
  <2> QED BY <1>1, <1>2, <2>1, FS_Singleton DEF Truth
<1>3. CASE b = FALSE
  <2>1. {0} \cap {IF b THEN 0 ELSE 1} = {}
    BY <1>3
  <2> QED BY <1>1, <1>3, <2>1, FS_EmptySet DEF Truth
<1> QED BY <1>2, <1>3

LEMMA CountIs ==
  ASSUME NEW w \in Word
  PROVE  R!Count(w) = Masked(w) /\ Masked(w) \in 0 .. Width-1
<1>1. Width \in Nat \ {0} /\ w \in Int
  BY WidthAssumption, WordValues
<1> DEFINE q == w \div Width
           s == w % Width
<1>2. q \in Int /\ s \in 0 .. Width-1 /\ w = q * Width + s
  BY <1>1, Division
<1> HIDE DEF q, s
<1>3. q * Width \in Int
  BY <1>1, <1>2
<1>4. w - q * Width = s
  BY <1>1, <1>2, <1>3
<1> QED BY <1>2, <1>4 DEF R!Count, Masked, q, s

(* The operators & | ^, and & with ~, which clears.                         *)
LEMMA SetsOfBits ==
  ASSUME NEW a \in Word, NEW b \in Word
  PROVE  /\ R!WordOf[R!SymDiff(R!Ones[a], R!Ones[b])] = Xor(a, b)
         /\ R!WordOf[R!Ones[a] \cup R!Ones[b]] = Or(a, b)
         /\ R!WordOf[R!Ones[a] \cap R!Ones[b]] = And(a, b)
         /\ R!WordOf[R!Ones[a] \ R!Ones[b]] = And(a, Not(b))
<1>1. a \in Int /\ b \in Int /\ Not(b) \in Int
  BY WordProperties, WordValues
<1>2. \A i \in 0 .. Width-1 : Bit(a, i) \in {0, 1} /\ Bit(b, i) \in {0, 1}
  BY <1>1, Powers, BitType
<1>3. /\ R!Ones[a] = {i \in 0 .. Width-1 : Bit(a, i) = 1}
      /\ R!Ones[b] = {i \in 0 .. Width-1 : Bit(b, i) = 1}
  BY OnesAre
<1>4. Xor(a, b) \in Word /\ Or(a, b) \in Word /\ And(a, b) \in Word /\ And(a, Not(b)) \in Word
  BY BitwiseType
<1>5. R!WordOf[R!SymDiff(R!Ones[a], R!Ones[b])] = Xor(a, b)
  <2> DEFINE s == R!SymDiff(R!Ones[a], R!Ones[b])
  <2>1. s \subseteq 0 .. Width-1
    BY <1>3 DEF R!SymDiff
  <2>2. \A i \in 0 .. Width-1 : i \in s <=> Bit(a, i) # Bit(b, i)
    BY <1>2, <1>3 DEF R!SymDiff
  <2>3. \A i \in 0 .. Width-1 : Bit(Xor(a, b), i) = 1 <=> Bit(a, i) # Bit(b, i)
    BY <1>1, BitwiseBits
  <2> HIDE DEF s
  <2> QED BY <1>4, <2>1, <2>2, <2>3, WordOfIs DEF s
<1>6. R!WordOf[R!Ones[a] \cup R!Ones[b]] = Or(a, b)
  <2> DEFINE s == R!Ones[a] \cup R!Ones[b]
  <2>1. s \subseteq 0 .. Width-1
    BY <1>3
  <2>2. \A i \in 0 .. Width-1 : i \in s <=> Bit(a, i) = 1 \/ Bit(b, i) = 1
    BY <1>3
  <2>3. \A i \in 0 .. Width-1 : Bit(Or(a, b), i) = 1 <=> Bit(a, i) = 1 \/ Bit(b, i) = 1
    BY <1>1, BitwiseBits
  <2> HIDE DEF s
  <2> QED BY <1>4, <2>1, <2>2, <2>3, WordOfIs DEF s
<1>7. R!WordOf[R!Ones[a] \cap R!Ones[b]] = And(a, b)
  <2> DEFINE s == R!Ones[a] \cap R!Ones[b]
  <2>1. s \subseteq 0 .. Width-1
    BY <1>3
  <2>2. \A i \in 0 .. Width-1 : i \in s <=> Bit(a, i) = 1 /\ Bit(b, i) = 1
    BY <1>3
  <2>3. \A i \in 0 .. Width-1 : Bit(And(a, b), i) = 1 <=> Bit(a, i) = 1 /\ Bit(b, i) = 1
    BY <1>1, BitwiseBits
  <2> HIDE DEF s
  <2> QED BY <1>4, <2>1, <2>2, <2>3, WordOfIs DEF s
<1>8. R!WordOf[R!Ones[a] \ R!Ones[b]] = And(a, Not(b))
  <2> DEFINE s == R!Ones[a] \ R!Ones[b]
             c == Not(b)
  <2>1. s \subseteq 0 .. Width-1
    BY <1>3
  <2>2. \A i \in 0 .. Width-1 : i \in s <=> Bit(a, i) = 1 /\ Bit(b, i) # 1
    BY <1>3
  <2>3. \A i \in 0 .. Width-1 : Bit(c, i) = 1 - Bit(b, i)
    BY NotBits
  <2> HIDE DEF s, c
  <2>4. \A i \in 0 .. Width-1 : Bit(And(a, c), i) = 1 <=> Bit(a, i) = 1 /\ Bit(c, i) = 1
    BY <1>1, BitwiseBits DEF c
  <2>5. \A i \in 0 .. Width-1 : Bit(And(a, c), i) = 1 <=> i \in s
    BY <1>2, <2>2, <2>3, <2>4
  <2>6. And(a, c) \in Word
    BY <1>4 DEF c
  <2>7. R!WordOf[s] = And(a, c)
    BY <2>1, <2>5, <2>6, WordOfIs
  <2> QED BY <2>7 DEF s, c
<1> QED BY <1>5, <1>6, <1>7, <1>8

LEMMA ShiftsAre ==
  ASSUME NEW a \in Word, NEW n \in 0 .. Width-1
  PROVE  /\ R!WordOf[R!Moved(a, n)] = Sll(a, n)
         /\ R!WordOf[R!Moved(a, -n)] = Srl(a, n)
         /\ R!WordOf[R!Moved(a, -n) \cup {p \in R!Places : R!Negative(a) /\ p >= Width - n}]
              = Sra(a, n)
<1>1. a \in Int /\ Width \in Nat /\ 2^n \in Nat \ {0} /\ n \in 0 .. Width
  BY Powers, WordValues
<1>2. R!Ones[a] = {i \in 0 .. Width-1 : Bit(a, i) = 1} /\ R!Places = 0 .. Width-1
  BY OnesAre, SameNotions
<1>3. \A i \in 0 .. Width-1 : i \in R!Moved(a, n) <=> i >= n /\ Bit(a, i-n) = 1
  <2> TAKE i \in 0 .. Width-1
  <2>1. ASSUME i \in R!Moved(a, n) PROVE i >= n /\ Bit(a, i-n) = 1
    <3>1. PICK j \in R!Ones[a] : i = j + n
      BY <2>1 DEF R!Moved
    <3>2. j \in 0 .. Width-1 /\ Bit(a, j) = 1 /\ i-n = j
      BY <1>1, <1>2, <3>1
    <3> QED BY <1>1, <3>2
  <2>2. ASSUME i >= n, Bit(a, i-n) = 1 PROVE i \in R!Moved(a, n)
    <3>1. i-n \in 0 .. Width-1 /\ i = (i-n) + n
      BY <1>1, <2>2
    <3> QED BY <1>2, <2>2, <3>1 DEF R!Moved
  <2> QED BY <2>1, <2>2
<1>4. \A i \in 0 .. Width-1 : i \in R!Moved(a, -n) <=> i + n < Width /\ Bit(a, i+n) = 1
  <2> TAKE i \in 0 .. Width-1
  <2>1. ASSUME i \in R!Moved(a, -n) PROVE i + n < Width /\ Bit(a, i+n) = 1
    <3>1. PICK j \in R!Ones[a] : i = j + (-n)
      BY <2>1 DEF R!Moved
    <3>2. j \in 0 .. Width-1 /\ Bit(a, j) = 1 /\ i+n = j
      BY <1>1, <1>2, <3>1
    <3> QED BY <1>1, <3>2
  <2>2. ASSUME i + n < Width, Bit(a, i+n) = 1 PROVE i \in R!Moved(a, -n)
    <3>1. i+n \in 0 .. Width-1 /\ i = (i+n) + (-n)
      BY <1>1, <2>2
    <3> QED BY <1>2, <2>2, <3>1 DEF R!Moved
  <2> QED BY <2>1, <2>2
<1>5. R!Moved(a, n) \subseteq 0 .. Width-1 /\ R!Moved(a, -n) \subseteq 0 .. Width-1
  BY <1>2 DEF R!Moved
<1>6. Sll(a, n) \in Word /\ Srl(a, n) \in Word /\ Sra(a, n) \in Word
  <2>1. a * 2^n \in Int /\ Signed(a) \div 2^n \in Int
    BY <1>1, SignedValues, BitType
  <2>2. Srl(a, n) \in 0 .. a
    <3> DEFINE m == 2^n
    <3> HIDE DEF m
    <3>1. m \in Nat \ {0} /\ a \in Nat
      BY <1>1, WordValues DEF m
    <3>2. a \div m \in 0 .. a
      BY <3>1
    <3> QED BY <3>2 DEF Srl, m
  <2>3. Srl(a, n) \in Word
    BY <2>2, WordValues DEF Word
  <2>4. Sll(a, n) \in Word /\ Sra(a, n) \in Word
    BY <2>1, WrapOf DEF Sll, Sra
  <2> QED BY <2>3, <2>4
<1>7. R!WordOf[R!Moved(a, n)] = Sll(a, n)
  BY <1>3, <1>5, <1>6, SllBits, WordOfIs
<1>8. R!WordOf[R!Moved(a, -n)] = Srl(a, n)
  BY <1>4, <1>5, <1>6, SrlBits, WordOfIs
<1>9. R!WordOf[R!Moved(a, -n) \cup {p \in R!Places : R!Negative(a) /\ p >= Width - n}]
        = Sra(a, n)
  <2> DEFINE s == R!Moved(a, -n) \cup {p \in R!Places : R!Negative(a) /\ p >= Width - n}
  <2>1. s \subseteq 0 .. Width-1
    BY <1>2, <1>5
  <2>2. \A i \in 0 .. Width-1 : i >= Width - n <=> ~ (i + n < Width)
    BY <1>1
  <2>3. \A i \in 0 .. Width-1 :
           i \in s <=> IF i + n < Width THEN Bit(a, i+n) = 1 ELSE a >= Half
    BY <1>2, <1>4, <2>2, ValIs
  <2>4. \A i \in 0 .. Width-1 : Bit(Sra(a, n), i) = IF i + n < Width THEN Bit(a, i+n)
                                                     ELSE IF a >= Half THEN 1 ELSE 0
    BY SraBits
  <2> HIDE DEF s
  <2>5. \A i \in 0 .. Width-1 : Bit(Sra(a, n), i) = 1 <=> i \in s
    BY <2>3, <2>4
  <2> QED BY <1>6, <2>1, <2>5, WordOfIs DEF s
<1> QED BY <1>7, <1>8, <1>9

(* The ALU, multiplication and division do what Rv32 says.                  *)
LEMMA ArithIs ==
  ASSUME NEW op \in AluOps, NEW a \in Word, NEW b \in Word
  PROVE  R!Arith(op, a, b) = Result(op, a, b)
<1>1. a \in Int /\ b \in Int
  BY WordValues
<1>2. CASE op = "ADD"
  BY <1>1, <1>2, ModIs DEF R!Arith, Result
<1>3. CASE op = "SUB"
  <2>1. R!Arith(op, a, b) = CHOOSE w \in Word : R!Mod(w + b) = a
    BY <1>3, SameNotions DEF R!Arith
  <2>2. Wrap(a - b) \in Word /\ R!Mod(Wrap(a - b) + b) = a
    <3> DEFINE d == a - b
               w == Wrap(d)
    <3>1. d \in Int /\ b + d = a
      BY <1>1
    <3> HIDE DEF d
    <3>2. w \in Word /\ w \in Int
      BY <3>1, WrapOf, WordValues
    <3>3. Wrap(b + w) = Wrap(b + d)
      BY <1>1, <3>1, WrapSum
    <3>4. Wrap(a) = a
      <4>1. Wrap(0 * Size + a) = a
        BY WrapIs
      <4> QED BY <1>1, <4>1, WordValues
    <3> HIDE DEF w
    <3>5. w + b = b + w /\ w + b \in Int
      BY <1>1, <3>2
    <3>6. R!Mod(w + b) = a
      BY <3>1, <3>3, <3>4, <3>5, ModIs DEF w
    <3> QED BY <3>2, <3>6 DEF w, d
  <2>3. ASSUME NEW w \in Word, R!Mod(w + b) = a PROVE w = Wrap(a - b)
    <3>1. w \in Int /\ w + b \in Int
      BY <1>1, WordValues
    <3>2. Wrap(w + b) = a
      BY <2>3, <3>1, ModIs
    <3>3. PICK k \in Int : w + b = k * Size + a
      BY <3>1, <3>2, WrapOf
    <3>4. a - b = (0 - k) * Size + w /\ 0 - k \in Int
      <4>1. (0 - k) * Size = 0 - k * Size /\ k * Size \in Int
        BY WordValues
      <4> QED BY <1>1, <3>1, <3>3, <4>1
    <3> QED BY <3>4, WrapIs
  <2>4. Result(op, a, b) = Wrap(a - b)
    BY <1>3 DEF Result
  <2> QED BY <2>1, <2>2, <2>3, <2>4
<1>4. CASE op \in {"XOR", "OR", "AND"}
  BY <1>4, SetsOfBits DEF R!Arith, Result
<1>5. CASE op \in {"SLT", "SLTU"}
  <2>1. (Signed(a) < Signed(b)) \in BOOLEAN /\ (a < b) \in BOOLEAN
    BY <1>1, SignedValues
  <2>2. R!Num(Signed(a) < Signed(b)) = Truth(Signed(a) < Signed(b))
    BY <2>1, NumIs
  <2>3. R!Num(a < b) = Truth(a < b)
    BY <2>1, NumIs
  <2>4. R!Below(a, b) = (Signed(a) < Signed(b))
    BY <2>1, BelowIs DEF R!Below
  <2>5. CASE op = "SLT"
    BY <2>2, <2>4, <2>5 DEF R!Arith, Result
  <2>6. CASE op = "SLTU"
    BY <2>3, <2>6 DEF R!Arith, Result
  <2> QED BY <1>5, <2>5, <2>6
<1>6. CASE op \in {"SLL", "SRL", "SRA"}
  BY <1>6, CountIs, ShiftsAre DEF R!Arith, Result
<1> QED BY <1>2, <1>3, <1>4, <1>5, <1>6 DEF AluOps

LEMMA ProductIs ==
  ASSUME NEW op \in MulOps, NEW a \in Word, NEW b \in Word
  PROVE  R!Arith(op, a, b) = Product(op, a, b)
<1>1. a \in Int /\ b \in Int /\ Signed(a) \in Int /\ Size \in Nat \ {0}
  BY WordValues, SignedValues
<1>2. Signed(b) \in Int
  BY SignedValues
<1>3. a * b \in Int /\ Signed(a) * Signed(b) \in Int /\ Signed(a) * b \in Int
  BY <1>1, <1>2
<1>4. ASSUME NEW p \in Int PROVE R!Mod(p \div Size) = High(p)
  BY <1>1, ModIs, HighIs
<1>5. R!Val(a) = Signed(a) /\ R!Val(b) = Signed(b) /\ R!Size = Size
  BY ValIs, SameNotions
<1>6. CASE op = "MUL"
  BY <1>3, <1>6, ModIs DEF R!Arith, Product
<1>7. CASE op = "MULH"
  BY <1>3, <1>4, <1>5, <1>7 DEF R!Arith, Product
<1>8. CASE op = "MULHU"
  BY <1>3, <1>4, <1>5, <1>8 DEF R!Arith, Product
<1>9. CASE op = "MULHSU"
  BY <1>3, <1>4, <1>5, <1>9 DEF R!Arith, Product
<1> QED BY <1>6, <1>7, <1>8, <1>9 DEF MulOps

LEMMA SplitIs ==
  ASSUME NEW n \in Int, NEW d \in Int, d # 0, Abs(n) <= Size
  PROVE  R!Split(n, d) = <<Quo(n, d), Rem(n, d)>>
<1> DEFINE T == (-Size .. Size) \X (-Size .. Size)
           D(p) == R!Divides(n, d, p[1], p[2])
           it == <<Quo(n, d), Rem(n, d)>>
<1>s. Size \in Nat \ {0}
  BY WordValues
<1>1. R!Split(n, d) = CHOOSE p \in T : D(p)
  BY SameNotions DEF R!Split
<1>2. it \in T /\ D(it)
  <2> DEFINE q == Quo(n, d)
             s == Rem(n, d)
             a == Abs(s)
             b == Abs(d)
  <2>1. /\ q \in Int /\ s \in Int /\ n = q * d + s /\ IF n < 0 THEN s <= 0 ELSE s >= 0
        /\ a < b /\ Abs(q) <= Abs(n) /\ a <= Abs(n)
    BY QuotientDivides
  <2> HIDE DEF q, s
  <2>2. a \in Nat /\ b \in Nat /\ s * s = a * a /\ d * d = b * b
    BY <2>1 DEF Abs
  <2>3. s * s < d * d
    <3> HIDE DEF a, b
    <3>1. a * a <= a * b /\ a * b < b * b
      BY <2>1, <2>2
    <3>2. a * a \in Int /\ b * b \in Int /\ a * b \in Int
      BY <2>2
    <3> QED BY <2>2, <3>1, <3>2
  <2>4. q \in -Size .. Size /\ s \in -Size .. Size
    BY <1>s, <2>1 DEF Abs
  <2>5. R!Divides(n, d, q, s)
    BY <2>1, <2>3 DEF R!Divides
  <2> QED BY <2>4, <2>5 DEF q, s
<1>3. ASSUME NEW p \in T, D(p) PROVE p = it
  <2>1. p[1] \in Int /\ p[2] \in Int /\ p = <<p[1], p[2]>>
    BY <1>s, <1>3
  <2>2. /\ n = p[1] * d + p[2] /\ p[2] * p[2] < d * d
        /\ IF n < 0 THEN p[2] <= 0 ELSE p[2] >= 0
    BY <1>3 DEF R!Divides
  <2>3. p[1] = Quo(n, d) /\ p[2] = Rem(n, d)
    BY <2>1, <2>2, QuotientIsUnique
  <2> QED BY <2>1, <2>3
<1> HIDE DEF T, D, it
<1>4. R!Split(n, d) = it
  BY <1>1, <1>2, <1>3
<1> QED BY <1>4 DEF it

LEMMA DividedIs ==
  ASSUME NEW op \in DivOps, NEW a \in Word, NEW b \in Word, b # 0
  PROVE  R!Divided(op, a, b) = Quotient(op, a, b)
<1>1. /\ a \in Int /\ b \in Int /\ Signed(a) \in Int /\ Signed(b) \in Int
      /\ Abs(a) <= Size /\ Abs(Signed(a)) <= Size
  <2>1. a \in Int /\ 0 <= a /\ a < Size /\ b \in Int /\ Size = 2 * Half /\ Half \in Nat
    BY WordValues
  <2>2. Signed(a) \in Int /\ -Half <= Signed(a) /\ Signed(a) < Half /\ Signed(b) \in Int
    BY SignedValues
  <2> QED BY <2>1, <2>2 DEF Abs
<1>2. Signed(b) # 0
  BY WordValues DEF Signed
<1>3. R!Val(a) = Signed(a) /\ R!Val(b) = Signed(b)
  BY ValIs
<1>4. /\ R!Split(a, b) = <<Quo(a, b), Rem(a, b)>>
      /\ R!Split(Signed(a), Signed(b))
           = <<Quo(Signed(a), Signed(b)), Rem(Signed(a), Signed(b))>>
  BY <1>1, <1>2, SplitIs
<1>5. Quo(Signed(a), Signed(b)) \in Int /\ Rem(Signed(a), Signed(b)) \in Int
  BY <1>1, <1>2, QuotientDivides
<1>6. CASE op = "DIV"
  BY <1>3, <1>4, <1>5, <1>6, ModIs DEF R!Divided, Quotient
<1>7. CASE op = "REM"
  BY <1>3, <1>4, <1>5, <1>7, ModIs DEF R!Divided, Quotient
<1>8. CASE op \in {"DIVU", "REMU"}
  BY <1>4, <1>8 DEF R!Divided, Quotient
<1> QED BY <1>6, <1>7, <1>8 DEF DivOps

(* The registers of Rv32 are those of execute, where reg[0] remains 0.      *)
RInv == TypeOK /\ reg[0] = 0

LEMMA Mapped ==
  ASSUME RInv
  PROVE  /\ R!ins = insn /\ R!a1 = rs1 /\ R!a2 = rs2 /\ R!After = pc_inc
         /\ R!Mod(pc + insn.imm) = Wrap(pc + insn.imm)
         /\ R!Mod(rs1 + insn.imm) = Wrap(rs1 + insn.imm)
         /\ 0 \in Regs /\ reg \in [Regs -> Word] /\ 1 .. Last = Regs \ {0}
<1>1. /\ insn.imm \in Int /\ insn.rd \in Regs /\ insn.rs1 \in Regs /\ insn.rs2 \in Regs
      /\ insn.len \in {2, 4} /\ pc \in Int /\ rs1 \in Int
  BY FetchType DEF RInv
<1>2. 0 \in Regs /\ 1 .. Last = Regs \ {0} /\ reg \in [Regs -> Word]
  BY InstructionAssumption DEF Regs, RInv, TypeOK
<1>3. R!ins = insn
  BY DEF R!ins, insn
<1>4. \A n \in Regs : R!Get(n) = reg[n]
  BY <1>2 DEF R!Get, RInv
<1>5. R!a1 = rs1 /\ R!a2 = rs2
  BY <1>1, <1>3, <1>4 DEF R!a1, R!a2, rs1, rs2
<1>6. pc + insn.len \in Int /\ pc + insn.imm \in Int /\ rs1 + insn.imm \in Int
  BY <1>1
<1>7. R!After = pc_inc
  BY <1>3, <1>6, ModIs DEF R!After, pc_inc
<1> QED BY <1>2, <1>3, <1>5, <1>6, <1>7, ModIs

Sets(v) ==
  [n \in 1 .. Last |-> reg'[n]]
    = [n \in R!Names |-> IF n = R!ins.rd THEN v ELSE [m \in 1 .. Last |-> reg[m]][n]]

LEMMA PutSets ==
  ASSUME RInv, NEW v \in Word, Put(v)
  PROVE  Sets(v) /\ reg'[0] = 0
<1>1. insn.rd \in Regs
  BY FetchType DEF RInv
<1>2. R!ins = insn /\ 0 \in Regs /\ reg \in [Regs -> Word] /\ 1 .. Last = Regs \ {0}
  BY Mapped
<1>3. reg' = [[reg EXCEPT ![insn.rd] = v] EXCEPT ![0] = 0]
  BY DEF Put, Stomped
<1>4. \A n \in 1 .. Last : reg'[n] = IF n = insn.rd THEN v ELSE reg[n]
  BY <1>1, <1>2, <1>3
<1>5. [n \in 1 .. Last |-> reg'[n]]
        = [n \in 1 .. Last |-> IF n = insn.rd THEN v ELSE [m \in 1 .. Last |-> reg[m]][n]]
  BY <1>4
<1>6. R!Names = 1 .. Last /\ R!ins.rd = insn.rd
  BY <1>2, SameNotions
<1> QED BY <1>2, <1>3, <1>5, <1>6 DEF Sets

(* A step of one of the kinds that leave the process running.               *)
Kinds ==
  R!Computes \/ R!Links \/ R!Branches \/ R!Transfers \/ R!Swaps \/ R!Guesses

LEMMA ComputesStep ==
  ASSUME RInv, Nop \/ Lui \/ Auipc \/ Alu \/ AluImm \/ Mul \/ Div \/ DivArm
  PROVE  Kinds /\ reg'[0] = 0
<1>1. /\ insn.imm \in Int /\ rs1 \in Word /\ rs2 \in Word /\ pc \in Int
  BY FetchType DEF RInv
<1>2. R!ins = insn /\ R!a1 = rs1 /\ R!a2 = rs2 /\ R!After = pc_inc
  BY Mapped
<1>3. ASSUME Plain PROVE R!On /\ R!Calm /\ UNCHANGED csr
  BY <1>2, <1>3, SameNotions DEF Plain, R!On, R!Calm
<1>4. CASE Nop
  <2>1. UNCHANGED [n \in 1 .. Last |-> reg[n]]
    BY <1>4 DEF Nop
  <2> QED BY <1>2, <1>3, <1>4, <2>1, SameNotions DEF Nop, Is, R!Computes, Kinds, RInv
<1>5. CASE Lui
  <2>1. insn.imm * 2^Upper \in Int
    BY <1>1, InstructionAssumption
  <2>2. /\ R!Mod(R!ins.imm * 2^Upper) = Wrap(insn.imm * 2^Upper)
        /\ Wrap(insn.imm * 2^Upper) \in Word
    BY <1>2, <2>1, ModIs, WrapOf
  <2>3. R!Set(R!Mod(R!ins.imm * 2^Upper)) /\ reg'[0] = 0
    <3>1. Sets(Wrap(insn.imm * 2^Upper)) /\ reg'[0] = 0
      BY <1>5, <2>2, PutSets DEF Lui
    <3> QED BY <2>2, <3>1 DEF Sets, R!Set
  <2> QED BY <1>2, <1>3, <1>5, <2>3 DEF Lui, Is, R!Computes, Kinds
<1>6. CASE Auipc
  <2>1. pc + insn.imm * 2^Upper \in Int
    BY <1>1, InstructionAssumption
  <2>2. /\ R!Mod(pc + R!ins.imm * 2^Upper) = Wrap(pc + insn.imm * 2^Upper)
        /\ Wrap(pc + insn.imm * 2^Upper) \in Word
    BY <1>2, <2>1, ModIs, WrapOf
  <2>3. R!Set(R!Mod(pc + R!ins.imm * 2^Upper)) /\ reg'[0] = 0
    <3>1. Sets(Wrap(pc + insn.imm * 2^Upper)) /\ reg'[0] = 0
      BY <1>6, <2>2, PutSets DEF Auipc
    <3> QED BY <2>2, <3>1 DEF Sets, R!Set
  <2> QED BY <1>2, <1>3, <1>6, <2>3 DEF Auipc, Is, R!Computes, Kinds
<1>7. CASE Alu
  <2>1. insn.op \in AluOps
    BY <1>7 DEF Alu, Is
  <2>2. R!Arith(insn.op, rs1, rs2) = Result(insn.op, rs1, rs2)
        /\ Result(insn.op, rs1, rs2) \in Word
    BY <1>1, <2>1, ArithIs, ResultType
  <2>3. R!Set(R!Arith(R!ins.op, R!a1, R!a2)) /\ reg'[0] = 0
    <3>1. Sets(Result(insn.op, rs1, rs2)) /\ reg'[0] = 0
      BY <1>7, <2>2, PutSets DEF Alu
    <3> QED BY <1>2, <2>2, <3>1 DEF Sets, R!Set
  <2> QED BY <1>2, <1>3, <1>7, <2>1, <2>3, SameNotions DEF Alu, R!Computes, Kinds
<1>8. CASE AluImm
  <2>1. insn.op \in ImmOps /\ Base[insn.op] \in AluOps
    BY <1>8 DEF AluImm, Is, Base, ImmOps, AluOps
  <2>2. R!Mod(insn.imm) = Wrap(insn.imm) /\ Wrap(insn.imm) \in Word
    BY <1>1, ModIs, WrapOf
  <2>3. R!Arith(Base[insn.op], rs1, Wrap(insn.imm)) = Result(Base[insn.op], rs1, Wrap(insn.imm))
        /\ Result(Base[insn.op], rs1, Wrap(insn.imm)) \in Word
    BY <1>1, <2>1, <2>2, ArithIs, ResultType
  <2>4. R!Set(R!Arith(R!Base[R!ins.op], R!a1, R!Mod(R!ins.imm))) /\ reg'[0] = 0
    <3>1. Sets(Result(Base[insn.op], rs1, Wrap(insn.imm))) /\ reg'[0] = 0
      BY <1>8, <2>3, PutSets DEF AluImm
    <3> QED BY <1>2, <2>2, <2>3, <3>1, SameNotions DEF Sets, R!Set
  <2> QED BY <1>2, <1>3, <1>8, <2>1, <2>2, <2>4, SameNotions DEF AluImm, R!Computes, Kinds
<1>9. CASE Mul
  <2>1. insn.op \in MulOps
    BY <1>9 DEF Mul, Is
  <2>2. R!Arith(insn.op, rs1, rs2) = Product(insn.op, rs1, rs2)
        /\ Product(insn.op, rs1, rs2) \in Word
    BY <1>1, <2>1, ProductIs, ProductType
  <2>3. R!Set(R!Arith(R!ins.op, R!a1, R!a2)) /\ reg'[0] = 0
    <3>1. Sets(Product(insn.op, rs1, rs2)) /\ reg'[0] = 0
      BY <1>9, <2>2, PutSets DEF Mul
    <3> QED BY <1>2, <2>2, <3>1 DEF Sets, R!Set
  <2> QED BY <1>2, <1>3, <1>9, <2>1, <2>3, SameNotions DEF Mul, R!Computes, Kinds
<1>10. R!NoQuotient <=> insn.op \in DivOps /\ Undefined(insn.op, rs1, rs2)
  <2>1. Signed(rs1) = -Half <=> rs1 = Half
    BY <1>1, WordValues DEF Signed
  <2>2. R!Val(rs1) = Signed(rs1) /\ R!Val(rs2) = Signed(rs2)
    BY <1>1, ValIs
  <2> QED BY <1>2, <2>1, <2>2, SameNotions DEF R!NoQuotient, Undefined
<1>11. CASE Div
  <2>1. insn.op \in DivOps /\ ~Undefined(insn.op, rs1, rs2)
    BY <1>11 DEF Div, Is
  <2>2. R!Divided(insn.op, rs1, rs2) = Quotient(insn.op, rs1, rs2)
        /\ Quotient(insn.op, rs1, rs2) \in Word
    BY <1>1, <2>1, DividedIs, QuotientType DEF Undefined
  <2>3. R!Set(R!Divided(R!ins.op, R!a1, R!a2)) /\ reg'[0] = 0
    <3>1. Sets(Quotient(insn.op, rs1, rs2)) /\ reg'[0] = 0
      BY <1>11, <2>2, PutSets DEF Div
    <3> QED BY <1>2, <2>2, <3>1 DEF Sets, R!Set
  <2> QED BY <1>2, <1>3, <1>10, <1>11, <2>1, <2>3, SameNotions DEF Div, R!Computes, Kinds
<1>12. CASE DivArm
  <2>1. insn.op \in DivOps /\ Undefined(insn.op, rs1, rs2)
    BY <1>12 DEF DivArm, Is
  <2>2. PICK v \in {0, rs1} : Put(v)
    BY <1>12, <2>1 DEF DivArm, DivOps, Undefined
  <2>3. v \in Word
    BY <1>1, <2>2, WordProperties
  <2>4. R!Set(v) /\ reg'[0] = 0
    BY <2>2, <2>3, PutSets DEF Sets, R!Set
  <2> QED BY <1>3, <1>10, <1>12, <2>1, <2>3, <2>4, SameNotions DEF DivArm, R!Guesses, Kinds
<1> QED BY <1>4, <1>5, <1>6, <1>7, <1>8, <1>9, <1>11, <1>12

LEMMA JumpStep ==
  ASSUME RInv, Jump \/ Branch
  PROVE  Kinds /\ reg'[0] = 0
<1>1. /\ R!ins = insn /\ R!a1 = rs1 /\ R!a2 = rs2 /\ R!After = pc_inc
      /\ R!Mod(pc + insn.imm) = Wrap(pc + insn.imm)
      /\ R!Mod(rs1 + insn.imm) = Wrap(rs1 + insn.imm)
  BY Mapped
<1>2. insn \in Vliws /\ pc_inc \in Word /\ rs1 \in Word /\ rs2 \in Word /\ rs1 \in Int
  BY FetchType DEF RInv
<1>3. bus' = Quiet /\ UNCHANGED csr
  BY DEF Jump, Branch
<1>4. R!Calm
  BY <1>3, SameNotions DEF R!Calm
<1>5. reg' = reg => UNCHANGED [n \in 1 .. Last |-> reg[n]] /\ reg'[0] = 0
  BY DEF RInv
<1>6. R!Target = IF insn.op \in {"JR", "JALR"} THEN Wrap(rs1 + insn.imm) ELSE Wrap(pc + insn.imm)
  BY <1>1 DEF R!Target
<1>7. CASE Jump
  <2>1. insn.op \in JumpOps
    BY <1>7 DEF Jump, Is
  <2>2. pc' = R!Target
    <3>1. CASE insn.op = "JR"
      <4>1. insn.imm = 0 /\ rs1 + insn.imm = rs1
        BY <1>2, <3>1 DEF Vliws
      <4> QED BY <1>6, <1>7, <3>1, <4>1 DEF Jump, Goto
    <3>2. CASE insn.op # "JR"
      BY <1>6, <1>7, <2>1, <3>2 DEF Jump, JumpOps, Goto
    <3> QED BY <3>1, <3>2
  <2>3. CASE insn.op \in {"J", "JR"}
    <3>1. reg' = reg
      BY <1>7, <2>3 DEF Jump
    <3> QED BY <1>1, <1>3, <1>4, <1>5, <2>1, <2>2, <2>3, <3>1, SameNotions DEF R!Links, Kinds
  <2>4. CASE insn.op \in {"JAL", "JALR"}
    <3>1. Sets(pc_inc) /\ reg'[0] = 0
      BY <1>2, <1>7, <2>4, PutSets DEF Jump
    <3>2. R!Set(R!After)
      BY <1>1, <3>1 DEF Sets, R!Set
    <3> QED BY <1>1, <1>3, <1>4, <2>1, <2>2, <2>4, <3>1, <3>2, SameNotions DEF R!Links, Kinds
  <2> QED BY <2>1, <2>3, <2>4 DEF JumpOps
<1>8. CASE Branch
  <2>1. insn.op \in BranchOps /\ insn.op \notin {"JR", "JALR"} /\ reg' = reg
    BY <1>8 DEF Branch, Is, BranchOps
  <2>2. R!Condition <=> Taken(insn.op, rs1, rs2)
    <3>1. R!Below(rs1, rs2) <=> Signed(rs1) < Signed(rs2)
      BY <1>2, BelowIs
    <3>2. /\ Signed(rs1) >= Signed(rs2) <=> ~ (Signed(rs1) < Signed(rs2))
          /\ rs1 >= rs2 <=> ~ (rs1 < rs2)
      <4>1. Signed(rs1) \in Int /\ Signed(rs2) \in Int /\ rs2 \in Int
        BY <1>2, SignedValues, WordValues
      <4> QED BY <1>2, <4>1
    <3> QED BY <1>1, <2>1, <3>1, <3>2 DEF R!Condition, Taken, BranchOps
  <2>3. IF R!Condition THEN pc' = R!Target ELSE R!On
    BY <1>1, <1>6, <1>8, <2>1, <2>2 DEF Branch, Goto, R!On
  <2> QED BY <1>1, <1>3, <1>4, <1>5, <2>1, <2>3, SameNotions DEF R!Branches, Kinds
<1> QED BY <1>7, <1>8

LEMMA AccessStep ==
  ASSUME RInv, Load \/ Store
  PROVE  Kinds /\ reg'[0] = 0
<1>1. /\ R!ins = insn /\ R!a1 = rs1 /\ R!a2 = rs2 /\ R!After = pc_inc
      /\ R!Mod(rs1 + insn.imm) = Addr32
  BY Mapped DEF Addr32
<1>2. pc' = pc_inc /\ UNCHANGED csr
  BY DEF Load, Store
<1>3. R!On
  BY <1>1, <1>2 DEF R!On
<1>4. CASE Load
  <2>1. PICK v \in Loaded : /\ bus' = [op |-> insn.op, addr |-> Addr32, value |-> v]
                            /\ Put(v)
    BY <1>4 DEF Load
  <2>2. v \in Word /\ bus'.value = v /\ bus'.op = insn.op /\ bus'.addr = Addr32
    BY <2>1, InstructionAssumption
  <2>3. R!Set(bus'.value) /\ reg'[0] = 0
    BY <2>1, <2>2, PutSets DEF Sets, R!Set
  <2>4. insn.op \in R!LoadOps
    BY <1>4, SameNotions DEF Load, Is
  <2> QED BY <1>1, <1>2, <1>3, <2>2, <2>3, <2>4 DEF R!Transfers, Kinds
<1>5. CASE Store
  <2>1. bus'.value = rs2 /\ bus'.op = insn.op /\ bus'.addr = Addr32 /\ reg' = reg
    BY <1>5 DEF Store
  <2>2. insn.op \in R!StoreOps
    BY <1>5, SameNotions DEF Store, Is
  <2>3. UNCHANGED [n \in 1 .. Last |-> reg[n]] /\ reg'[0] = 0
    BY <2>1 DEF RInv
  <2> QED BY <1>1, <1>2, <1>3, <2>1, <2>2, <2>3 DEF R!Transfers, Kinds
<1> QED BY <1>4, <1>5

(* Setting or clearing no bits of a CSR is not writing it.                  *)
LEMMA NoBits ==
  ASSUME NEW v \in Word
  PROVE  Or(v, 0) = v /\ And(v, Not(0)) = v
<1>1. 0 \in Word
  BY WordProperties
<1>2. R!Ones[0] = {}
  <2>1. \A i \in 0 .. Width-1 : Bit(0, i) = 0
    <3> TAKE i \in 0 .. Width-1
    <3> DEFINE m == 2^i
               z == 0
    <3>1. m \in Nat \ {0} /\ z \in 0 .. m-1 /\ z \in Int /\ z * m + z = z /\ z % 2 = z
      BY Powers
    <3> HIDE DEF m, z
    <3>2. z \div m = z
      BY <3>1, DivisionIsUnique
    <3>3. Bit(z, i) = z
      BY <3>1, <3>2 DEF Bit, m
    <3> QED BY <3>3 DEF z
  <2> QED BY <1>1, <2>1, OnesAre
<1>3. R!WordOf[R!Ones[v]] = v
  BY OnesAre, WordOfIs
<1>4. R!Ones[v] \cup {} = R!Ones[v] /\ R!Ones[v] \ {} = R!Ones[v]
  OBVIOUS
<1> DEFINE z == 0
<1>5. z \in Word /\ R!Ones[z] = {}
  BY <1>1, <1>2
<1> HIDE DEF z
<1>6. /\ R!WordOf[R!Ones[v] \cup R!Ones[z]] = Or(v, z)
      /\ R!WordOf[R!Ones[v] \ R!Ones[z]] = And(v, Not(z))
  BY <1>5, SetsOfBits
<1>7. Or(v, z) = v /\ And(v, Not(z)) = v
  BY <1>3, <1>4, <1>5, <1>6
<1> QED BY <1>7 DEF z

LEMMA CsrStep ==
  ASSUME RInv, Csr
  PROVE  Kinds /\ reg'[0] = 0
<1> DEFINE b == insn.op \in {"CSRRW", "CSRRS", "CSRRC"}
           o == IF b THEN rs1 ELSE insn.rs1
           c == insn.csr
           d == insn.rd
           f == ReadCsr(csr, c)
           type == Type(insn.op)
<1>1. /\ R!ins = insn /\ R!a1 = rs1 /\ R!After = pc_inc
      /\ 0 \in Regs /\ reg \in [Regs -> Word] /\ 1 .. Last = Regs \ {0}
  BY Mapped
<1>2. insn.rd \in Regs /\ insn.rs1 \in Regs /\ rs1 \in Word /\ rs1 = reg[insn.rs1]
  BY FetchType DEF RInv, rs1
<1>3. /\ csr' = CsrWritten(csr, type, c, d, insn.rs1, o)
      /\ reg' = Stomped(CsrRead(csr, reg, type, c, d))
      /\ pc' = pc_inc /\ bus' = Quiet /\ insn.op \in CsrOps
  BY DEF Csr, Is
<1>4. o \in Word /\ (insn.rs1 = 0 => o = 0)
  BY <1>2, OperandType DEF RInv
<1>5. csr \in [Stored -> Word] /\ f \in Word
  BY InstructionAssumption DEF ReadCsr, RInv, TypeOK
<1>6. R!Operand = o /\ R!Before = f
  BY <1>1 DEF R!Operand, R!Before, ReadCsr
<1>7. type \in {"W", "S", "C"}
  BY <1>3 DEF Type, CsrOps
<1>8. R!Updated = CASE type = "W" -> o [] type = "S" -> Or(f, o) [] type = "C" -> And(f, Not(o))
  <2>1. R!WordOf[R!Ones[f] \cup R!Ones[o]] = Or(f, o) /\ R!WordOf[R!Ones[f] \ R!Ones[o]] = And(f, Not(o))
    BY <1>4, <1>5, SetsOfBits
  <2>2. CASE insn.op \in {"CSRRW", "CSRRWI"}
    BY <1>1, <1>6, <2>2 DEF R!Updated, Type
  <2>3. CASE insn.op \in {"CSRRS", "CSRRSI"}
    BY <1>1, <1>6, <2>1, <2>3 DEF R!Updated, Type
  <2>4. CASE insn.op \in {"CSRRC", "CSRRCI"}
    BY <1>1, <1>6, <2>1, <2>4 DEF R!Updated, Type
  <2> QED BY <1>3, <2>2, <2>3, <2>4 DEF CsrOps
<1>9. type # "W" /\ insn.rs1 = 0 => R!Updated = f
  <2>1. Or(f, 0) = f /\ And(f, Not(0)) = f
    BY <1>5, NoBits
  <2> QED BY <1>4, <1>7, <1>8, <2>1
<1> HIDE DEF o, f, type, c, d
<1>10. csr' = [k \in Stored |-> IF k = c THEN R!Updated ELSE csr[k]]
  <2>1. CASE c \notin Stored
    <3>1. csr' = csr
      BY <1>3, <2>1 DEF CsrWritten
    <3> QED BY <1>5, <2>1, <3>1
  <2>2. CASE c \in Stored /\ type # "W" /\ insn.rs1 = 0
    <3>1. csr' = csr /\ f = csr[c]
      BY <1>3, <2>2 DEF CsrWritten, f, ReadCsr
    <3> QED BY <1>5, <1>9, <2>2, <3>1
  <2>3. CASE c \in Stored /\ (type = "W" \/ insn.rs1 # 0)
    <3>1. type # "W" => CsrValue(csr, type, c, d) = f
      BY <1>7 DEF CsrValue, f
    <3>2. csr' = [csr EXCEPT ![c] = R!Updated]
      BY <1>3, <1>7, <1>8, <2>3, <3>1 DEF CsrWritten
    <3> QED BY <1>5, <2>3, <3>2
  <2> QED BY <2>1, <2>2, <2>3
<1>11. Sets(f) /\ reg'[0] = 0
  <2>1. R!Names = 1 .. Last /\ R!ins.rd = d
    BY <1>1, SameNotions DEF d
  <2>2. d # 0 => CsrValue(csr, type, c, d) = f
    BY DEF CsrValue, f
  <2>3. d \in Regs
    BY <1>2 DEF d
  <2>4. reg'[0] = 0
    BY <1>1, <1>3, <2>3 DEF Stomped, CsrRead
  <2>5. \A n \in 1 .. Last : reg'[n] = IF n = d THEN f ELSE reg[n]
    BY <1>1, <1>3, <2>2, <2>3 DEF Stomped, CsrRead
  <2>6. [n \in 1 .. Last |-> reg'[n]]
          = [n \in 1 .. Last |-> IF n = d THEN f ELSE [m \in 1 .. Last |-> reg[m]][n]]
    BY <2>5
  <2> QED BY <2>1, <2>4, <2>6 DEF Sets
<1>12. R!Set(R!Before)
  BY <1>6, <1>11 DEF Sets, R!Set
<1>13. R!On /\ R!Calm /\ insn.op \in R!CsrOps /\ R!ins.csr = c
  BY <1>1, <1>3, SameNotions DEF R!On, R!Calm, c
<1> QED BY <1>1, <1>10, <1>11, <1>12, <1>13 DEF R!Swaps, Kinds

LEMMA StepIs ==
  ASSUME RInv, [Next]_vars
  PROVE  RInv' /\ [R!Next]_(R!vars)
<1>1. CASE UNCHANGED vars
  BY <1>1 DEF vars, R!vars, RInv, TypeOK
<1>2. CASE Next
  <2>1. TypeOK'
    BY <1>2, TypeStep DEF RInv
  <2>2. CASE Nop \/ Lui \/ Auipc \/ Alu \/ AluImm \/ Mul \/ Div \/ DivArm \/ Jump \/ Branch
             \/ Load \/ Store \/ Csr
    <3>1. Kinds /\ reg'[0] = 0
      BY <2>2, ComputesStep, JumpStep, AccessStep, CsrStep
    <3>2. running /\ running' = running /\ UNCHANGED text
      BY <2>2 DEF Nop, Lui, Auipc, Alu, AluImm, Mul, Div, DivArm, Jump, Branch, Load, Store,
                  Csr, Is
    <3>3. running = TRUE
      BY <3>2 DEF RInv, TypeOK
    <3>4. R!Next
      BY <3>1, <3>2, <3>3 DEF R!Next, Kinds
    <3> QED BY <2>1, <3>1, <3>4 DEF RInv
  <2>3. CASE DivX86 \/ Fatal
    <3>1. running /\ running' = FALSE /\ UNCHANGED <<text, pc, reg, csr, bus>>
      BY <2>3 DEF DivX86, Fatal, Stop
    <3>2. R!NoQuotient \/ R!ins.op \in R!Unknown
      <4>1. R!ins = insn /\ R!a1 = rs1 /\ R!a2 = rs2 /\ rs1 \in Word /\ rs2 \in Word
        BY Mapped, FetchType DEF RInv
      <4>2. CASE Fatal
        BY <4>1, <4>2, SameNotions DEF Fatal
      <4>3. CASE DivX86
        <5>1. R!Val(rs1) = Signed(rs1) /\ R!Val(rs2) = Signed(rs2)
          BY <4>1, ValIs
        <5>2. rs1 = Half => Signed(rs1) = -Half
          BY WordValues DEF Signed
        <5> QED BY <4>1, <4>3, <5>1, <5>2, SameNotions DEF DivX86, Undefined, R!NoQuotient
      <4> QED BY <2>3, <4>2, <4>3
    <3>3. R!Dies
      BY <3>1, <3>2 DEF R!Dies
    <3> QED BY <2>1, <3>1, <3>3 DEF RInv, R!Next
  <2> QED BY <1>2, <2>2, <2>3 DEF Next
<1> QED BY <1>1, <1>2

LEMMA StartsAlike == Init => RInv /\ R!Init
<1> SUFFICES ASSUME Init PROVE RInv /\ R!Init
  OBVIOUS
<1>1. Word \subseteq Nat /\ 0 \in Word /\ Loaded \subseteq Word
  BY WordProperties, InstructionAssumption
<1>2. PICK f \in [1 .. Last -> Loaded] : reg = [n \in Regs |-> IF n = 0 THEN 0 ELSE f[n]]
  BY DEF Init
<1>3. 0 \in Regs /\ 1 .. Last = Regs \ {0}
  BY InstructionAssumption DEF Regs
<1>4. reg \in [Regs -> Word] /\ reg[0] = 0
  BY <1>1, <1>2, <1>3
<1>5. Quiet \in Accesses
  BY <1>1 DEF Quiet, Accesses
<1>6. RInv
  BY <1>1, <1>4, <1>5 DEF RInv, TypeOK, Init
<1>7. [n \in 1 .. Last |-> reg[n]] \in [R!Names -> R!Word]
  BY <1>3, <1>4, SameNotions
<1>8. R!Init
  BY <1>7, SameNotions DEF R!Init, Init
<1> QED BY <1>6, <1>8

(* Execute implements Rv32: each instruction has the effect that RV32IM     *)
(* gives it, at every width, on every register, with every operand          *)
(* (execute, csr_insn).                                                     *)
THEOREM Refinement == Spec => RunsRv32
<1>1. Init => RInv /\ R!Init
  BY StartsAlike
<1>2. RInv /\ [Next]_vars => RInv' /\ [R!Next]_(R!vars)
  BY StepIs
<1> QED BY <1>1, <1>2, PTL DEF Spec, RunsRv32, R!Spec

(* The same of the machine beside which the compiled program runs: it is    *)
(* Execute, whatever that program does (Cpu::execute, rv_compile).          *)
THEOREM CompiledRefinement == CSpec => RunsRv32
<1>1. CInit => Init
  BY DEF CInit
<1>2. [CNext]_allvars => [Next]_vars
  BY DEF CNext, Follow, Part, allvars
<1>3. CSpec => Spec
  BY <1>1, <1>2, PTL DEF CSpec, Spec
<1> QED BY <1>3, Refinement, PTL
=============================================================================
