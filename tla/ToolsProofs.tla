---------------------------- MODULE ToolsProofs ----------------------------
(***************************************************************************)
(* What Tools promises of every code of 32 bits, where the run has a sample *)
(* of them, and of the two readings of every code of 16 bits.               *)
(***************************************************************************)
EXTENDS Tools, TLAPS

(* A code is its six fields.                                                *)
LEMMA FieldTypes ==
  ASSUME NEW k \in Fields
  PROVE  /\ k.f7 \in 0 .. 127 /\ k.rs2 \in 0 .. 31 /\ k.rs1 \in 0 .. 31
         /\ k.f3 \in 0 .. 7 /\ k.rd \in 0 .. 31 /\ k.opc \in 0 .. 127
         /\ k = Code(k.f7, k.rs2, k.rs1, k.f3, k.rd, k.opc)
         /\ k.f3 + 1 \in 1 .. 8
BY DEF Fields, Code

-----------------------------------------------------------------------------
(* The immediates: what each reader takes out of a code, put back by the    *)
(* format of the code, gives the code again.                                *)
Is20(n) == n \in Nat /\ n < 2^20          \* a number of 20 bits

Join(f7, rs2, rs1, f3) == (f7 * 32 + rs2) * 256 + rs1 * 8 + f3

LEMMA Parts20 ==
  ASSUME NEW f7, NEW rs2, NEW rs1, NEW f3,
         f7 \in 0 .. 127, rs2 \in 0 .. 31, rs1 \in 0 .. 31, f3 \in 0 .. 7
  PROVE  /\ Is20(Join(f7, rs2, rs1, f3)) /\ Join(f7, rs2, rs1, f3) \div 8192 = f7
         /\ (Join(f7, rs2, rs1, f3) \div 256) % 32 = rs2
         /\ (Join(f7, rs2, rs1, f3) \div 8) % 32 = rs1
         /\ Join(f7, rs2, rs1, f3) % 8 = f3
<1> DEFINE n == Join(f7, rs2, rs1, f3)
<1>0. n = (f7 * 32 + rs2) * 256 + rs1 * 8 + f3
  BY DEF Join
<1> HIDE DEF n
<1>1. Is20(n) /\ n \in Nat
  BY <1>0 DEF Is20
<1>2. n \div 8192 = f7
  BY <1>0, <1>1
<1>3. n % 8 = f3
  BY <1>0
<1>4. n \div 256 = f7 * 32 + rs2
  BY <1>0
<1>5. n \div 8 = f7 * 1024 + rs2 * 32 + rs1
  BY <1>0
<1>6. (n \div 256) % 32 = rs2
  BY <1>4
<1>7. (n \div 8) % 32 = rs1
  BY <1>5
<1> QED BY <1>1, <1>2, <1>3, <1>6, <1>7 DEF n

LEMMA SignedParts20 ==
  ASSUME NEW n, Is20(n)
  PROVE  /\ Field(Signed(n, 20), 19, 13) = n \div 8192
         /\ Field(Signed(n, 20), 12, 8) = (n \div 256) % 32
         /\ Field(Signed(n, 20), 7, 3) = (n \div 8) % 32
         /\ Field(Signed(n, 20), 2, 0) = n % 8
<1>1. CASE n < 2^19
  BY <1>1 DEF Signed, Field, Is20
<1>2. CASE n >= 2^19
  <2>1. Signed(n, 20) = n - 2^20
    BY <1>2 DEF Signed, Is20
  <2>2. Field(n - 2^20, 19, 13) = n \div 8192
    BY DEF Field, Is20
  <2>3. Field(n - 2^20, 12, 8) = (n \div 256) % 32
    BY DEF Field, Is20
  <2>4. Field(n - 2^20, 7, 3) = (n \div 8) % 32
    BY DEF Field, Is20
  <2>5. Field(n - 2^20, 2, 0) = n % 8
    BY DEF Field, Is20
  <2> QED BY <2>1, <2>2, <2>3, <2>4, <2>5
<1>3. n < 2^19 \/ n >= 2^19
  BY DEF Is20
<1> QED BY <1>1, <1>2, <1>3

LEMMA UpperImmediate ==
  ASSUME NEW k \in Fields
  PROVE  /\ Is20(Top20(k)) /\ UType(Top20(k), k.rd, k.opc) = k
         /\ UType(Signed(Top20(k), 20), k.rd, k.opc) = k
<1> DEFINE n == Top20(k)
<1>1. n = Join(k.f7, k.rs2, k.rs1, k.f3)
  BY DEF Top20, Top12, Join
<1>2. /\ Is20(n) /\ n \div 8192 = k.f7 /\ (n \div 256) % 32 = k.rs2
      /\ (n \div 8) % 32 = k.rs1 /\ n % 8 = k.f3
  <2>1. k.f7 \in 0 .. 127 /\ k.rs2 \in 0 .. 31 /\ k.rs1 \in 0 .. 31 /\ k.f3 \in 0 .. 7
    BY FieldTypes
  <2> HIDE DEF n
  <2> QED BY <1>1, <2>1, Parts20
<1> HIDE DEF n
<1>3. UType(Signed(n, 20), k.rd, k.opc) = k
  BY <1>2, SignedParts20, FieldTypes DEF UType
<1>4. Field(n, 19, 13) = n \div 8192 /\ Field(n, 12, 8) = (n \div 256) % 32
      /\ Field(n, 7, 3) = (n \div 8) % 32 /\ Field(n, 2, 0) = n % 8
  BY <1>2 DEF Field, Is20
<1>5. UType(n, k.rd, k.opc) = k
  BY <1>4, <1>2, FieldTypes DEF UType
<1> QED BY <1>2, <1>3, <1>5 DEF n

JumpOf(a, b, c, d) == Signed(a * 2^20 + b * 2 + c * 2^11 + d * 2^12, 21)

LEMMA JumpBits ==
  ASSUME NEW a, NEW b, NEW c, NEW d,
         a \in 0 .. 1, b \in 0 .. 1023, c \in 0 .. 1, d \in 0 .. 255
  PROVE  /\ Field(JumpOf(a, b, c, d), 20, 20) = a /\ Field(JumpOf(a, b, c, d), 10, 1) = b
         /\ Field(JumpOf(a, b, c, d), 11, 11) = c /\ Field(JumpOf(a, b, c, d), 19, 12) = d
<1> DEFINE imm == JumpOf(a, b, c, d)
<1>1. imm = (d - 256 * a) * 4096 + c * 2048 + b * 2
  BY DEF JumpOf, Signed
<1> HIDE DEF imm
<1>2. imm \div 4096 = d - 256 * a
  BY <1>1
<1>3. imm \div 2^20 = 0 - a
  BY <1>1
<1>4. imm \div 2048 = (d - 256 * a) * 2 + c
  BY <1>1
<1>5. imm \div 2 = (d - 256 * a) * 2048 + c * 1024 + b
  BY <1>1
<1>6. Field(imm, 20, 20) = a
  BY <1>3 DEF Field
<1>7. Field(imm, 10, 1) = b
  BY <1>5 DEF Field
<1>8. Field(imm, 11, 11) = c
  BY <1>4 DEF Field
<1>9. Field(imm, 19, 12) = d
  BY <1>2 DEF Field, Is20
<1> QED BY <1>6, <1>7, <1>8, <1>9 DEF imm

LEMMA JumpImmediate ==
  ASSUME NEW k \in Fields
  PROVE  JType(doJoff(k), k.rd, k.opc) = k
<1> DEFINE n == Top20(k)
           a == Field(n, 19, 19)
           b == Field(n, 18, 9)
           c == Field(n, 8, 8)
           d == Field(n, 7, 0)
<1>1. Is20(n) /\ UType(n, k.rd, k.opc) = k
  BY UpperImmediate
<1> HIDE DEF n
<1>2. a \in 0 .. 1 /\ b \in 0 .. 1023 /\ c \in 0 .. 1 /\ d \in 0 .. 255
  BY <1>1 DEF Field, Is20
<1>3. n = a * 2^19 + b * 2^9 + c * 2^8 + d
  BY <1>1 DEF Field, Is20
<1>4. doJoff(k) = JumpOf(a, b, c, d)
  BY DEF doJoff, JumpOf, n
<1> HIDE DEF a, b, c, d
<1>5. /\ Field(doJoff(k), 20, 20) = a /\ Field(doJoff(k), 10, 1) = b
      /\ Field(doJoff(k), 11, 11) = c /\ Field(doJoff(k), 19, 12) = d
  BY <1>2, <1>4, JumpBits
<1> QED BY <1>1, <1>3, <1>5 DEF JType

LEMMA OtherImmediates ==
  ASSUME NEW k \in Fields
  PROVE  /\ IType(Signed(Top12(k), 12), k.rs1, k.f3, k.rd, k.opc) = k
         /\ IType(Top12(k), k.rs1, k.f3, k.rd, k.opc) = k
         /\ SType(Signed(k.f7 * 32 + k.rd, 12), k.rs2, k.rs1, k.f3, k.opc) = k
         /\ BType(doBoff(k), k.rs2, k.rs1, k.f3, k.opc) = k
<1>1. IType(Signed(Top12(k), 12), k.rs1, k.f3, k.rd, k.opc) = k
  BY FieldTypes DEF IType, Code, Field, Signed, Top12
<1>2. IType(Top12(k), k.rs1, k.f3, k.rd, k.opc) = k
  BY FieldTypes DEF IType, Code, Field, Top12
<1>3. SType(Signed(k.f7 * 32 + k.rd, 12), k.rs2, k.rs1, k.f3, k.opc) = k
  BY FieldTypes DEF SType, Code, Field, Signed
<1>4. BType(doBoff(k), k.rs2, k.rs1, k.f3, k.opc) = k
  BY FieldTypes DEF BType, Code, Field, Signed, doBoff
<1> QED BY <1>1, <1>2, <1>3, <1>4

(* The other readers shift otherwise, and have the same immediates.         *)
LEMMA SameImmediates ==
  ASSUME NEW k \in Fields
  PROVE  /\ imm32_J(k) = doJoff(k) /\ simm12(k) = doBoff(k)
         /\ imm12(k) = Signed(Top12(k), 12)
         /\ imm32_S(k) = Signed(k.f7 * 32 + k.rd, 12)
<1>1. imm32_J(k) = doJoff(k)
  BY DEF imm32_J, Shifted, doJoff
<1>2. simm12(k) = doBoff(k)
  BY DEF simm12, Shifted, doBoff
<1>3. imm12(k) = Signed(Top12(k), 12) /\ imm32_S(k) = Signed(k.f7 * 32 + k.rd, 12)
  BY DEF imm12, imm32_S, Shifted
<1> QED BY <1>1, <1>2, <1>3

-----------------------------------------------------------------------------
(* The rows of optable.  A row of a family of instructions is found by its  *)
(* funct3, if the table of the family has a name for that.                  *)
NameOf(names, k) == names[k.f3 + 1]
Named(names, k) == NameOf(names, k) # "-"

Found(row, k, items, names) ==
  Named(names, k) /\ row.op = NameOf(names, k) /\ row.items = items

LEMMA FamilyRow ==
  ASSUME NEW opc, NEW items, NEW names, NEW k, k \in Fields,
         NEW row, row \in Family(opc, items, names), Matches(row, k)
  PROVE  k.opc = opc /\ Found(row, k, items, names)
<1>1. PICK f \in 0 .. 7 : names[f+1] # "-" /\ row = Row(names[f+1], [opc |-> opc, f3 |-> f], items)
  BY DEF Family
<1>2. row.op = names[f+1] /\ row.items = items /\ row.fix = [opc |-> opc, f3 |-> f]
  BY <1>1 DEF Row
<1>3. k.opc = opc /\ k.f3 = f
  BY <1>2 DEF Matches
<1> QED BY <1>1, <1>2, <1>3 DEF Found, Named, NameOf

LEMMA Family7Row ==
  ASSUME NEW opc, NEW f7, NEW items, NEW names, NEW k, k \in Fields,
         NEW row, row \in Family7(opc, f7, items, names), Matches(row, k)
  PROVE  k.opc = opc /\ k.f7 = f7 /\ Found(row, k, items, names)
<1>1. PICK f \in 0 .. 7 :
        /\ names[f+1] # "-"
        /\ row = Row(names[f+1], [opc |-> opc, f3 |-> f, f7 |-> f7], items)
  BY DEF Family7
<1>2. /\ row.op = names[f+1] /\ row.items = items
      /\ row.fix = [opc |-> opc, f3 |-> f, f7 |-> f7]
  BY <1>1 DEF Row
<1>3. k.opc = opc /\ k.f3 = f /\ k.f7 = f7
  BY <1>2 DEF Matches
<1> QED BY <1>1, <1>2, <1>3 DEF Found, Named, NameOf

(* And the other way round: a name in the table makes a row that matches.   *)
LEMMA FamilyHasRow ==
  ASSUME NEW opc, NEW items, NEW names, NEW k, k \in Fields,
         k.opc = opc, Named(names, k)
  PROVE  \E row \in Family(opc, items, names) : Matches(row, k)
<1> DEFINE row == Row(NameOf(names, k), [opc |-> opc, f3 |-> k.f3], items)
<1>1. k.f3 \in 0 .. 7
  BY FieldTypes
<1>2. row \in Family(opc, items, names)
  BY <1>1 DEF Family, Named, NameOf
<1>3. row.fix = [opc |-> opc, f3 |-> k.f3]
  BY DEF Row
<1>4. Matches(row, k)
  <2> SUFFICES ASSUME NEW f \in {"opc", "f3"}
               PROVE  k[f] = [opc |-> opc, f3 |-> k.f3][f]
    BY <1>3 DEF Matches
  <2>1. CASE f = "opc"
    BY <2>1
  <2>2. CASE f = "f3"
    BY <2>2
  <2> QED BY <2>1, <2>2
<1> QED BY <1>2, <1>4

LEMMA Family7HasRow ==
  ASSUME NEW opc, NEW f7, NEW items, NEW names, NEW k, k \in Fields,
         k.opc = opc, k.f7 = f7, Named(names, k)
  PROVE  \E row \in Family7(opc, f7, items, names) : Matches(row, k)
<1> DEFINE row == Row(NameOf(names, k), [opc |-> opc, f3 |-> k.f3, f7 |-> f7], items)
<1>1. k.f3 \in 0 .. 7
  BY FieldTypes
<1>2. row \in Family7(opc, f7, items, names)
  BY <1>1 DEF Family7, Named, NameOf
<1>3. row.fix = [opc |-> opc, f3 |-> k.f3, f7 |-> f7]
  BY DEF Row
<1>4. Matches(row, k)
  <2> SUFFICES ASSUME NEW f \in {"opc", "f3", "f7"}
               PROVE  k[f] = [opc |-> opc, f3 |-> k.f3, f7 |-> f7][f]
    BY <1>3 DEF Matches
  <2>1. CASE f = "opc"
    BY <2>1
  <2>2. CASE f = "f3"
    BY <2>2
  <2>3. CASE f = "f7"
    BY <2>3
  <2> QED BY <2>1, <2>2, <2>3
<1> QED BY <1>2, <1>4

-----------------------------------------------------------------------------
(* What decode2vliw makes of a code: the instructions that have a row.      *)
Jumps(k, v) ==
  \/ k.opc = 111 /\ v = Insn("JAL", k.rd, 0, 0, doJoff(k))
  \/ k.opc = 111 /\ k.rd = 0 /\ v = Insn("J", 0, 0, 0, doJoff(k))
  \/ k.opc = 103 /\ k.f3 = 0 /\ v = Insn("JALR", k.rd, k.rs1, 0, Signed(Top12(k), 12))
  \/ k = IType(0, k.rs1, 0, 0, 103) /\ v = Insn("JR", 0, k.rs1, 0, 0)

Accesses(k, v) ==
  \/ /\ k.opc = 99 /\ Named(BraOps, k)
     /\ v = Insn(NameOf(BraOps, k), 0, k.rs1, k.rs2, doBoff(k))
  \/ /\ k.opc = 3 /\ Named(LoadOps, k)
     /\ v = Insn(NameOf(LoadOps, k), k.rd, k.rs1, 0, Signed(Top12(k), 12))
  \/ /\ k.opc = 35 /\ Named(StoreOps, k)
     /\ v = Insn(NameOf(StoreOps, k), 0, k.rs1, k.rs2, Signed(k.f7 * 32 + k.rd, 12))

Computes(k, v) ==
  \/ k.opc = 55 /\ v = Insn("LUI", k.rd, 0, 0, Signed(Top20(k), 20))
  \/ k.opc = 23 /\ v = Insn("AUIPC", k.rd, 0, 0, Signed(Top20(k), 20))
  \/ k = IType(0, 0, 0, 0, 19) /\ v = Insn("NOP", 0, 0, 0, 0)
  \/ /\ k.opc = 19 /\ Named(ImmOps, k)
     /\ v = Insn(NameOf(ImmOps, k), k.rd, k.rs1, 0, Signed(Top12(k), 12))
  \/ /\ k.opc = 19 /\ \E op \in {"SLLI", "SRLI", "SRAI"} :
          /\ k.f7 = IF op = "SRAI" THEN 32 ELSE 0
          /\ k.f3 = IF op = "SLLI" THEN 1 ELSE 5
          /\ v = Insn(op, k.rd, k.rs1, 0, k.rs2)
  \/ k.opc = 51 /\ k.f7 = 0 /\ v = Insn(NameOf(RegOps, k), k.rd, k.rs1, k.rs2, 0)
  \/ k.opc = 51 /\ k.f7 = 1 /\ v = Insn(NameOf(MulOps, k), k.rd, k.rs1, k.rs2, 0)
  \/ k.opc = 51 /\ k.f7 = 32 /\ k.f3 = 0 /\ v = Insn("SUB", k.rd, k.rs1, k.rs2, 0)
  \/ k.opc = 51 /\ k.f7 = 32 /\ k.f3 = 5 /\ v = Insn("SRA", k.rd, k.rs1, k.rs2, 0)

Controls(k, v) ==
  \/ k.opc = 15 /\ v.op = "FENCE"
  \/ /\ k.opc = 115 /\ Named(CsrOps, k)
     /\ v = Insn(NameOf(CsrOps, k), k.rd, k.rs1, 0, Top12(k))
  \/ k = IType(0, 0, 0, 0, 115) /\ v = Insn("ECALL", 0, 0, 0, 0)
  \/ k = IType(1, 0, 0, 0, 115) /\ v = Insn("EBREAK", 0, 0, 0, 0)
  \/ k = IType(258, 0, 0, 0, 115) /\ v = Insn("SRET", 0, 0, 0, 0)
  \/ k = IType(770, 0, 0, 0, 115) /\ v = Insn("MRET", 0, 0, 0, 0)
  \/ k = IType(261, 0, 0, 0, 115) /\ v = Insn("WFI", 0, 0, 0, 0)

Means(k, v) == Jumps(k, v) \/ Accesses(k, v) \/ Computes(k, v) \/ Controls(k, v)

(* The Vliw that decode2vliw fills for the row it has found.                *)
Fill(row, k) == Insn(row.op, If("rd" \in row.items, k.rd), If("rs1" \in row.items, k.rs1),
                     If("rs2" \in row.items, k.rs2), ImmOf(row.items, k))

LEMMA DecodesByRow ==
  ASSUME NEW k \in Fields, decode2vliw(k) \notin {None, Fatal}
  PROVE  \E row \in Early \cup Late :
           Matches(row, k) /\ decode2vliw(k) = Fill(row, k) /\ "imm21" \notin row.items
<1> DEFINE row == CHOOSE w \in Rows(k) : TRUE
<1>1. Rows(k) # {}
  BY DEF decode2vliw
<1>2. row \in Rows(k)
  BY <1>1
<1>3. row \in Early \cup Late /\ Matches(row, k)
  BY <1>2 DEF Rows
<1>4. decode2vliw(k) = IF "imm21" \in row.items THEN Fatal ELSE Fill(row, k)
  BY <1>1 DEF decode2vliw, Fill
<1> HIDE DEF row
<1> QED BY <1>3, <1>4

(* Items of a row, and what is filled for them.                             *)
LEMMA Filling ==
  ASSUME NEW row, NEW k
  PROVE  /\ row.items = {} => Fill(row, k) = Insn(row.op, 0, 0, 0, 0)
         /\ row.items = {"joff"} => Fill(row, k) = Insn(row.op, 0, 0, 0, doJoff(k))
         /\ row.items = {"rs1"} => Fill(row, k) = Insn(row.op, 0, k.rs1, 0, 0)
         /\ row.items = {"rd", "imm20"} => Fill(row, k) = Insn(row.op, k.rd, 0, 0, Signed(Top20(k), 20))
         /\ row.items = {"rd", "joff"} => Fill(row, k) = Insn(row.op, k.rd, 0, 0, doJoff(k))
         /\ row.items = {"rd", "rs1", "simm12"} =>
              Fill(row, k) = Insn(row.op, k.rd, k.rs1, 0, Signed(Top12(k), 12))
         /\ row.items = {"rs1", "rs2", "boff"} =>
              Fill(row, k) = Insn(row.op, 0, k.rs1, k.rs2, doBoff(k))
         /\ row.items = {"rs1", "rs2", "s2imm12"} =>
              Fill(row, k) = Insn(row.op, 0, k.rs1, k.rs2, Signed(k.f7 * 32 + k.rd, 12))
         /\ row.items = {"rd", "rs1", "shamt"} => Fill(row, k) = Insn(row.op, k.rd, k.rs1, 0, k.rs2)
         /\ row.items = {"rd", "rs1", "rs2"} => Fill(row, k) = Insn(row.op, k.rd, k.rs1, k.rs2, 0)
         /\ row.items = {"csr", "rd", "rs1"} => Fill(row, k) = Insn(row.op, k.rd, k.rs1, 0, Top12(k))
BY DEF Fill, If, ImmOf

LEMMA CodeByFields ==
  ASSUME NEW k \in Fields, NEW c \in Fields, Matches([fix |-> c], k)
  PROVE  k = c
<1>1. \A f \in {"f7", "rs2", "rs1", "f3", "rd", "opc"} : k[f] = c[f]
  BY DEF Matches, Fields
<1>2. /\ k.f7 = c.f7 /\ k.rs2 = c.rs2 /\ k.rs1 = c.rs1
      /\ k.f3 = c.f3 /\ k.rd = c.rd /\ k.opc = c.opc
  BY <1>1
<1> QED BY <1>2 DEF Fields

LEMMA SystemRow ==
  ASSUME NEW op, NEW n \in {0, 1, 258, 770, 261}, NEW k \in Fields,
         Matches(System(op, n), k)
  PROVE  /\ k = IType(n, 0, 0, 0, 115)
         /\ Fill(System(op, n), k) = Insn(op, 0, 0, 0, 0)
<1>1. IType(n, 0, 0, 0, 115) \in Fields
  BY DEF IType, Code, Field, Fields
<1>2. k = IType(n, 0, 0, 0, 115)
  BY <1>1, CodeByFields DEF System, Row, Matches
<1> QED BY <1>2, Filling DEF System, Row

LEMMA EarlyMeans ==
  ASSUME NEW k \in Fields, NEW row \in Early, Matches(row, k)
  PROVE  Means(k, Fill(row, k))
<1>1. CASE row = Row("J", [opc |-> 111, rd |-> 0], {"joff"})
  <2>1. k.opc = 111 /\ k.rd = 0
    BY <1>1 DEF Matches, Row
  <2>2. row.op = "J" /\ row.items = {"joff"}
    BY <1>1 DEF Row
  <2>3. Fill(row, k) = Insn("J", 0, 0, 0, doJoff(k))
    BY <2>2, Filling
  <2> QED BY <2>1, <2>3 DEF Means, Jumps
<1>2. CASE row = Row("JR", [opc |-> 103, f3 |-> 0, rd |-> 0, f7 |-> 0, rs2 |-> 0], {"rs1"})
  <2>1. k.opc = 103 /\ k.f3 = 0 /\ k.rd = 0 /\ k.f7 = 0 /\ k.rs2 = 0
    BY <1>2 DEF Matches, Row
  <2>2. row.op = "JR" /\ row.items = {"rs1"}
    BY <1>2 DEF Row
  <2>3. Fill(row, k) = Insn("JR", 0, k.rs1, 0, 0)
    BY <2>2, Filling
  <2>4. k = IType(0, k.rs1, 0, 0, 103)
    BY <2>1, FieldTypes DEF IType, Code, Field
  <2> QED BY <2>3, <2>4 DEF Means, Jumps
<1>3. CASE row = Row("NOP", IType(0, 0, 0, 0, 19), {})
  <2>1. IType(0, 0, 0, 0, 19) \in Fields
    BY DEF IType, Code, Field, Fields
  <2>2. k = IType(0, 0, 0, 0, 19)
    BY <1>3, <2>1, CodeByFields DEF Matches, Row
  <2>3. row.op = "NOP" /\ row.items = {}
    BY <1>3 DEF Row
  <2>4. Fill(row, k) = Insn("NOP", 0, 0, 0, 0)
    BY <2>3, Filling
  <2> QED BY <2>2, <2>4 DEF Means, Computes
<1> QED BY <1>1, <1>2, <1>3 DEF Early

(* The tables of names, entry by entry.                                     *)
ByF3(t, k, a, b, c, d, e, f, g, h) ==
  /\ k.f3 = 0 => NameOf(t, k) = a
  /\ k.f3 = 1 => NameOf(t, k) = b
  /\ k.f3 = 2 => NameOf(t, k) = c
  /\ k.f3 = 3 => NameOf(t, k) = d
  /\ k.f3 = 4 => NameOf(t, k) = e
  /\ k.f3 = 5 => NameOf(t, k) = f
  /\ k.f3 = 6 => NameOf(t, k) = g
  /\ k.f3 = 7 => NameOf(t, k) = h

LEMMA EachF3 ==
  ASSUME NEW k \in Fields
  PROVE  \/ k.f3 = 0 \/ k.f3 = 1 \/ k.f3 = 2 \/ k.f3 = 3
         \/ k.f3 = 4 \/ k.f3 = 5 \/ k.f3 = 6 \/ k.f3 = 7
BY FieldTypes

LEMMA OptableNames ==
  ASSUME NEW k \in Fields
  PROVE  /\ ByF3(JalrOps, k, "JALR", "-", "-", "-", "-", "-", "-", "-")
         /\ ByF3(BraOps, k, "BEQ", "BNE", "-", "-", "BLT", "BGE", "BLTU", "BGEU")
         /\ ByF3(LoadOps, k, "LB", "LH", "LW", "-", "LBU", "LHU", "-", "-")
         /\ ByF3(StoreOps, k, "SB", "SH", "SW", "-", "-", "-", "-", "-")
         /\ ByF3(ImmOps, k, "ADDI", "-", "SLTI", "SLTIU", "XORI", "-", "ORI", "ANDI")
         /\ ByF3(ShiftOps, k, "-", "SLLI", "-", "-", "-", "SRLI", "-", "-")
         /\ ByF3(SraiOps, k, "-", "-", "-", "-", "-", "SRAI", "-", "-")
         /\ ByF3(RegOps, k, "ADD", "SLL", "SLT", "SLTU", "XOR", "SRL", "OR", "AND")
         /\ ByF3(SubOps, k, "SUB", "-", "-", "-", "-", "SRA", "-", "-")
         /\ ByF3(MulOps, k, "MUL", "MULH", "MULHSU", "MULHU", "DIV", "DIVU", "REM", "REMU")
         /\ ByF3(FenceOps, k, "FENCE", "-", "-", "-", "-", "-", "-", "-")
         /\ ByF3(CsrOps, k, "-", "CSRRW", "CSRRS", "CSRRC", "-", "CSRRWI", "CSRRSI", "CSRRCI")
<1>1. ByF3(JalrOps, k, "JALR", "-", "-", "-", "-", "-", "-", "-")
  BY DEF ByF3, NameOf, JalrOps
<1>2. ByF3(BraOps, k, "BEQ", "BNE", "-", "-", "BLT", "BGE", "BLTU", "BGEU")
  BY DEF ByF3, NameOf, BraOps
<1>3. ByF3(LoadOps, k, "LB", "LH", "LW", "-", "LBU", "LHU", "-", "-")
  BY DEF ByF3, NameOf, LoadOps
<1>4. ByF3(StoreOps, k, "SB", "SH", "SW", "-", "-", "-", "-", "-")
  BY DEF ByF3, NameOf, StoreOps
<1>5. ByF3(ImmOps, k, "ADDI", "-", "SLTI", "SLTIU", "XORI", "-", "ORI", "ANDI")
  BY DEF ByF3, NameOf, ImmOps
<1>6. ByF3(ShiftOps, k, "-", "SLLI", "-", "-", "-", "SRLI", "-", "-")
  BY DEF ByF3, NameOf, ShiftOps
<1>7. ByF3(SraiOps, k, "-", "-", "-", "-", "-", "SRAI", "-", "-")
  BY DEF ByF3, NameOf, SraiOps
<1>8. ByF3(RegOps, k, "ADD", "SLL", "SLT", "SLTU", "XOR", "SRL", "OR", "AND")
  BY DEF ByF3, NameOf, RegOps
<1>9. ByF3(SubOps, k, "SUB", "-", "-", "-", "-", "SRA", "-", "-")
  BY DEF ByF3, NameOf, SubOps
<1>10. ByF3(MulOps, k, "MUL", "MULH", "MULHSU", "MULHU", "DIV", "DIVU", "REM", "REMU")
  BY DEF ByF3, NameOf, MulOps
<1>11. ByF3(FenceOps, k, "FENCE", "-", "-", "-", "-", "-", "-", "-")
  BY DEF ByF3, NameOf, FenceOps
<1>12. ByF3(CsrOps, k, "-", "CSRRW", "CSRRS", "CSRRC", "-", "CSRRWI", "CSRRSI", "CSRRCI")
  BY DEF ByF3, NameOf, CsrOps
<1> QED BY <1>1, <1>2, <1>3, <1>4, <1>5, <1>6, <1>7, <1>8, <1>9, <1>10, <1>11, <1>12

LEMMA DisasmNames ==
  ASSUME NEW k \in Fields
  PROVE  /\ ByF3(alu_name, k, "ADD", "SLL", "SLT", "SLTU", "XOR", "SRL", "OR", "AND")
         /\ ByF3(alu2_name, k, "SUB", "???", "???", "???", "???", "SRA", "???", "???")
         /\ ByF3(alui_name, k, "ADDI", "SLLI", "SLTI", "SLTIU", "XORI", "SRLI", "ORI", "ANDI")
         /\ ByF3(alui2_name, k, "???", "???", "???", "???", "???", "SRAI", "???", "???")
         /\ ByF3(store_name, k, "SB", "SH", "SW", "???", "???", "???", "???", "???")
         /\ ByF3(load_name, k, "LB", "LH", "LW", "???", "LBU", "LHU", "???", "???")
         /\ ByF3(bra_name, k, "BEQ", "BNE", "???", "???", "BLT", "BGE", "BLTU", "BGEU")
         /\ ByF3(brazi_name, k, "???", "???", "???", "???", "BLT", "BGE", "???", "???")
         /\ ByF3(csr_opname, k, "???", "CSRRW", "CSRRS", "CSRRC", "???", "CSRRWI", "CSRRSI", "CSRRCI")
         /\ ByF3(mul_name, k, "MUL", "MULH", "MULHSU", "MULHU", "DIV", "DIVU", "REM", "REMU")
<1>1. ByF3(alu_name, k, "ADD", "SLL", "SLT", "SLTU", "XOR", "SRL", "OR", "AND")
  BY DEF ByF3, NameOf, alu_name
<1>2. ByF3(alu2_name, k, "SUB", "???", "???", "???", "???", "SRA", "???", "???")
  BY DEF ByF3, NameOf, alu2_name
<1>3. ByF3(alui_name, k, "ADDI", "SLLI", "SLTI", "SLTIU", "XORI", "SRLI", "ORI", "ANDI")
  BY DEF ByF3, NameOf, alui_name
<1>4. ByF3(alui2_name, k, "???", "???", "???", "???", "???", "SRAI", "???", "???")
  BY DEF ByF3, NameOf, alui2_name
<1>5. ByF3(store_name, k, "SB", "SH", "SW", "???", "???", "???", "???", "???")
  BY DEF ByF3, NameOf, store_name
<1>6. ByF3(load_name, k, "LB", "LH", "LW", "???", "LBU", "LHU", "???", "???")
  BY DEF ByF3, NameOf, load_name
<1>7. ByF3(bra_name, k, "BEQ", "BNE", "???", "???", "BLT", "BGE", "BLTU", "BGEU")
  BY DEF ByF3, NameOf, bra_name
<1>8. ByF3(brazi_name, k, "???", "???", "???", "???", "BLT", "BGE", "???", "???")
  BY DEF ByF3, NameOf, brazi_name
<1>9. ByF3(csr_opname, k, "???", "CSRRW", "CSRRS", "CSRRC", "???", "CSRRWI", "CSRRSI", "CSRRCI")
  BY DEF ByF3, NameOf, csr_opname
<1>10. ByF3(mul_name, k, "MUL", "MULH", "MULHSU", "MULHU", "DIV", "DIVU", "REM", "REMU")
  BY DEF ByF3, NameOf, mul_name
<1> QED BY <1>1, <1>2, <1>3, <1>4, <1>5, <1>6, <1>7, <1>8, <1>9, <1>10

LEMMA ShortFamilies ==
  ASSUME NEW k \in Fields
  PROVE  /\ Named(JalrOps, k) => k.f3 = 0 /\ NameOf(JalrOps, k) = "JALR"
         /\ Named(FenceOps, k) => k.f3 = 0 /\ NameOf(FenceOps, k) = "FENCE"
         /\ Named(SraiOps, k) => k.f3 = 5 /\ NameOf(SraiOps, k) = "SRAI"
         /\ Named(ShiftOps, k) => \/ k.f3 = 1 /\ NameOf(ShiftOps, k) = "SLLI"
                                  \/ k.f3 = 5 /\ NameOf(ShiftOps, k) = "SRLI"
         /\ Named(SubOps, k) => \/ k.f3 = 0 /\ NameOf(SubOps, k) = "SUB"
                                \/ k.f3 = 5 /\ NameOf(SubOps, k) = "SRA"
BY OptableNames, EachF3 DEF ByF3, Named

LEMMA ShortFamiliesNamed ==
  ASSUME NEW k \in Fields
  PROVE  /\ k.f3 \in {0, 5} => Named(SubOps, k)
         /\ k.f3 \in {1, 5} => Named(ShiftOps, k)
         /\ k.f3 = 5 => Named(SraiOps, k)
         /\ k.f3 = 0 => Named(JalrOps, k) /\ Named(FenceOps, k)
BY OptableNames, EachF3 DEF ByF3, Named

LEMMA SingleMeans ==
  ASSUME NEW k \in Fields, NEW row \in SingleRows, Matches(row, k)
  PROVE  Means(k, Fill(row, k))
<1>1. CASE row = Row("LUI", [opc |-> 55], {"rd", "imm20"})
  <2>1. k.opc = 55 /\ row.op = "LUI" /\ row.items = {"rd", "imm20"}
    BY <1>1 DEF Matches, Row
  <2>2. Fill(row, k) = Insn("LUI", k.rd, 0, 0, Signed(Top20(k), 20))
    BY <2>1, Filling
  <2> QED BY <2>1, <2>2 DEF Means, Computes
<1>2. CASE row = Row("AUIPC", [opc |-> 23], {"rd", "imm20"})
  <2>1. k.opc = 23 /\ row.op = "AUIPC" /\ row.items = {"rd", "imm20"}
    BY <1>2 DEF Matches, Row
  <2>2. Fill(row, k) = Insn("AUIPC", k.rd, 0, 0, Signed(Top20(k), 20))
    BY <2>1, Filling
  <2> QED BY <2>1, <2>2 DEF Means, Computes
<1>3. CASE row = Row("JAL", [opc |-> 111], {"rd", "joff"})
  <2>1. k.opc = 111 /\ row.op = "JAL" /\ row.items = {"rd", "joff"}
    BY <1>3 DEF Matches, Row
  <2>2. Fill(row, k) = Insn("JAL", k.rd, 0, 0, doJoff(k))
    BY <2>1, Filling
  <2> QED BY <2>1, <2>2 DEF Means, Jumps
<1> QED BY <1>1, <1>2, <1>3 DEF SingleRows

LEMMA SystemMeans ==
  ASSUME NEW k \in Fields, NEW row \in SystemRows, Matches(row, k)
  PROVE  Means(k, Fill(row, k))
<1>1. CASE row = System("ECALL", 0)
  <2>1. k = IType(0, 0, 0, 0, 115) /\ Fill(row, k) = Insn("ECALL", 0, 0, 0, 0)
    BY <1>1, SystemRow
  <2> QED BY <2>1 DEF Means, Controls
<1>2. CASE row = System("EBREAK", 1)
  <2>1. k = IType(1, 0, 0, 0, 115) /\ Fill(row, k) = Insn("EBREAK", 0, 0, 0, 0)
    BY <1>2, SystemRow
  <2> QED BY <2>1 DEF Means, Controls
<1>3. CASE row = System("SRET", 258)
  <2>1. k = IType(258, 0, 0, 0, 115) /\ Fill(row, k) = Insn("SRET", 0, 0, 0, 0)
    BY <1>3, SystemRow
  <2> QED BY <2>1 DEF Means, Controls
<1>4. CASE row = System("MRET", 770)
  <2>1. k = IType(770, 0, 0, 0, 115) /\ Fill(row, k) = Insn("MRET", 0, 0, 0, 0)
    BY <1>4, SystemRow
  <2> QED BY <2>1 DEF Means, Controls
<1>5. CASE row = System("WFI", 261)
  <2>1. k = IType(261, 0, 0, 0, 115) /\ Fill(row, k) = Insn("WFI", 0, 0, 0, 0)
    BY <1>5, SystemRow
  <2> QED BY <2>1 DEF Means, Controls
<1> QED BY <1>1, <1>2, <1>3, <1>4, <1>5 DEF SystemRows

LEMMA Family3Means ==
  ASSUME NEW k \in Fields, NEW row \in Family3Rows, Matches(row, k), "imm21" \notin row.items
  PROVE  Means(k, Fill(row, k))
<1>1. CASE row \in Family(103, {"rd", "rs1", "simm12"}, JalrOps)
  <2>1. /\ k.opc = 103 /\ Named(JalrOps, k)
        /\ row.op = NameOf(JalrOps, k) /\ row.items = {"rd", "rs1", "simm12"}
    BY <1>1, FamilyRow DEF Found
  <2>2. Fill(row, k) = Insn(NameOf(JalrOps, k), k.rd, k.rs1, 0, Signed(Top12(k), 12))
    BY <2>1, Filling
  <2>3. k.f3 = 0 /\ NameOf(JalrOps, k) = "JALR"
    BY <2>1, ShortFamilies
  <2> QED BY <2>1, <2>2, <2>3 DEF Means, Jumps
<1>2. CASE row \in Family(99, {"rs1", "rs2", "boff"}, BraOps)
  <2>1. /\ k.opc = 99 /\ Named(BraOps, k)
        /\ row.op = NameOf(BraOps, k) /\ row.items = {"rs1", "rs2", "boff"}
    BY <1>2, FamilyRow DEF Found
  <2>2. Fill(row, k) = Insn(NameOf(BraOps, k), 0, k.rs1, k.rs2, doBoff(k))
    BY <2>1, Filling
  <2> QED BY <2>1, <2>2 DEF Means, Accesses
<1>3. CASE row \in Family(3, {"rd", "rs1", "simm12"}, LoadOps)
  <2>1. /\ k.opc = 3 /\ Named(LoadOps, k)
        /\ row.op = NameOf(LoadOps, k) /\ row.items = {"rd", "rs1", "simm12"}
    BY <1>3, FamilyRow DEF Found
  <2>2. Fill(row, k) = Insn(NameOf(LoadOps, k), k.rd, k.rs1, 0, Signed(Top12(k), 12))
    BY <2>1, Filling
  <2> QED BY <2>1, <2>2 DEF Means, Accesses
<1>4. CASE row \in Family(35, {"rs1", "rs2", "s2imm12"}, StoreOps)
  <2>1. /\ k.opc = 35 /\ Named(StoreOps, k)
        /\ row.op = NameOf(StoreOps, k) /\ row.items = {"rs1", "rs2", "s2imm12"}
    BY <1>4, FamilyRow DEF Found
  <2>2. Fill(row, k) = Insn(NameOf(StoreOps, k), 0, k.rs1, k.rs2, Signed(k.f7 * 32 + k.rd, 12))
    BY <2>1, Filling
  <2> QED BY <2>1, <2>2 DEF Means, Accesses
<1>5. CASE row \in Family(19, {"rd", "rs1", "simm12"}, ImmOps)
  <2>1. /\ k.opc = 19 /\ Named(ImmOps, k)
        /\ row.op = NameOf(ImmOps, k) /\ row.items = {"rd", "rs1", "simm12"}
    BY <1>5, FamilyRow DEF Found
  <2>2. Fill(row, k) = Insn(NameOf(ImmOps, k), k.rd, k.rs1, 0, Signed(Top12(k), 12))
    BY <2>1, Filling
  <2> QED BY <2>1, <2>2 DEF Means, Computes
<1>6. CASE row \in Family(15, {}, FenceOps)
  <2>1. /\ k.opc = 15 /\ Named(FenceOps, k)
        /\ row.op = NameOf(FenceOps, k) /\ row.items = {}
    BY <1>6, FamilyRow DEF Found
  <2>2. Fill(row, k) = Insn(NameOf(FenceOps, k), 0, 0, 0, 0)
    BY <2>1, Filling
  <2>3. k.f3 = 0 /\ NameOf(FenceOps, k) = "FENCE"
    BY <2>1, ShortFamilies
  <2> QED BY <2>1, <2>2, <2>3 DEF Means, Controls, Insn
<1>7. CASE row \in Family(115, {"csr", "rd", "rs1"}, CsrOps)
  <2>1. /\ k.opc = 115 /\ Named(CsrOps, k)
        /\ row.op = NameOf(CsrOps, k) /\ row.items = {"csr", "rd", "rs1"}
    BY <1>7, FamilyRow DEF Found
  <2>2. Fill(row, k) = Insn(NameOf(CsrOps, k), k.rd, k.rs1, 0, Top12(k))
    BY <2>1, Filling
  <2> QED BY <2>1, <2>2 DEF Means, Controls
<1>8. CASE row \in Family(15, {"imm21"}, FenceIOps)
  <2> DEFINE items == {"imm21"}
  <2>1. row \in Family(15, items, FenceIOps) /\ "imm21" \in items
    BY <1>8
  <2> HIDE DEF items
  <2>2. k.opc = 15 /\ Found(row, k, items, FenceIOps)
    BY <2>1, FamilyRow
  <2> QED BY <2>1, <2>2 DEF Found
<1> QED BY <1>1, <1>2, <1>3, <1>4, <1>5, <1>6, <1>7, <1>8 DEF Family3Rows

LEMMA Family7Means ==
  ASSUME NEW k \in Fields, NEW row \in Family7Rows, Matches(row, k)
  PROVE  Means(k, Fill(row, k))
<1>1. CASE row \in Family7(19, 0, {"rd", "rs1", "shamt"}, ShiftOps)
  <2>1. /\ k.opc = 19 /\ k.f7 = 0 /\ Named(ShiftOps, k)
        /\ row.op = NameOf(ShiftOps, k) /\ row.items = {"rd", "rs1", "shamt"}
    BY <1>1, Family7Row DEF Found
  <2>2. Fill(row, k) = Insn(NameOf(ShiftOps, k), k.rd, k.rs1, 0, k.rs2)
    BY <2>1, Filling
  <2>3. \/ k.f3 = 1 /\ NameOf(ShiftOps, k) = "SLLI"
        \/ k.f3 = 5 /\ NameOf(ShiftOps, k) = "SRLI"
    BY <2>1, ShortFamilies
  <2> QED BY <2>1, <2>2, <2>3 DEF Means, Computes
<1>2. CASE row \in Family7(19, 32, {"rd", "rs1", "shamt"}, SraiOps)
  <2>1. /\ k.opc = 19 /\ k.f7 = 32 /\ Named(SraiOps, k)
        /\ row.op = NameOf(SraiOps, k) /\ row.items = {"rd", "rs1", "shamt"}
    BY <1>2, Family7Row DEF Found
  <2>2. Fill(row, k) = Insn(NameOf(SraiOps, k), k.rd, k.rs1, 0, k.rs2)
    BY <2>1, Filling
  <2>3. k.f3 = 5 /\ NameOf(SraiOps, k) = "SRAI"
    BY <2>1, ShortFamilies
  <2> QED BY <2>1, <2>2, <2>3 DEF Means, Computes
<1>3. CASE row \in Family7(51, 0, {"rd", "rs1", "rs2"}, RegOps)
  <2>1. /\ k.opc = 51 /\ k.f7 = 0 /\ Named(RegOps, k)
        /\ row.op = NameOf(RegOps, k) /\ row.items = {"rd", "rs1", "rs2"}
    BY <1>3, Family7Row DEF Found
  <2>2. Fill(row, k) = Insn(NameOf(RegOps, k), k.rd, k.rs1, k.rs2, 0)
    BY <2>1, Filling
  <2> QED BY <2>1, <2>2 DEF Means, Computes
<1>4. CASE row \in Family7(51, 32, {"rd", "rs1", "rs2"}, SubOps)
  <2>1. /\ k.opc = 51 /\ k.f7 = 32 /\ Named(SubOps, k)
        /\ row.op = NameOf(SubOps, k) /\ row.items = {"rd", "rs1", "rs2"}
    BY <1>4, Family7Row DEF Found
  <2>2. Fill(row, k) = Insn(NameOf(SubOps, k), k.rd, k.rs1, k.rs2, 0)
    BY <2>1, Filling
  <2>3. \/ k.f3 = 0 /\ NameOf(SubOps, k) = "SUB"
        \/ k.f3 = 5 /\ NameOf(SubOps, k) = "SRA"
    BY <2>1, ShortFamilies
  <2> QED BY <2>1, <2>2, <2>3 DEF Means, Computes
<1>5. CASE row \in Family7(51, 1, {"rd", "rs1", "rs2"}, MulOps)
  <2>1. /\ k.opc = 51 /\ k.f7 = 1 /\ Named(MulOps, k)
        /\ row.op = NameOf(MulOps, k) /\ row.items = {"rd", "rs1", "rs2"}
    BY <1>5, Family7Row DEF Found
  <2>2. Fill(row, k) = Insn(NameOf(MulOps, k), k.rd, k.rs1, k.rs2, 0)
    BY <2>1, Filling
  <2> QED BY <2>1, <2>2 DEF Means, Computes
<1> QED BY <1>1, <1>2, <1>3, <1>4, <1>5 DEF Family7Rows

(* So a Vliw that is neither missing nor the end means what the code says.  *)
LEMMA DecodingMeans ==
  ASSUME NEW k \in Fields, decode2vliw(k) \notin {None, Fatal}
  PROVE  Means(k, decode2vliw(k))
<1>1. PICK row \in Early \cup Late :
        Matches(row, k) /\ decode2vliw(k) = Fill(row, k) /\ "imm21" \notin row.items
  BY DecodesByRow
<1>2. CASE row \in Early
  BY <1>1, <1>2, EarlyMeans
<1>3. CASE row \in SingleRows
  BY <1>1, <1>3, SingleMeans
<1>4. CASE row \in SystemRows
  BY <1>1, <1>4, SystemMeans
<1>5. CASE row \in Family3Rows
  BY <1>1, <1>5, Family3Means
<1>6. CASE row \in Family7Rows
  BY <1>1, <1>6, Family7Means
<1> QED BY <1>2, <1>3, <1>4, <1>5, <1>6 DEF Late

-----------------------------------------------------------------------------
(* The two listings by opcode.                                              *)
LEMMA DisasmByOpcode ==
  ASSUME NEW k \in Fields
  PROVE  /\ k.opc = 51 => disasm(k) = Shown(AluText(k), k.rd, k.rs1, k.rs2, 0)
         /\ k.opc = 19 /\ k.f3 \in {1, 5} => disasm(k) = Shown(ShiftText(k), k.rd, k.rs1, 0, k.rs2)
         /\ k.opc = 19 /\ k.f3 \notin {1, 5} =>
              disasm(k) = Shown(NameOf(alui_name, k), k.rd, k.rs1, 0, imm12(k))
         /\ k.opc = 35 => disasm(k) = Shown(NameOf(store_name, k), 0, k.rs1, k.rs2, imm32_S(k))
         /\ k.opc = 3 => disasm(k) = Shown(NameOf(load_name, k), k.rd, k.rs1, 0, imm12(k))
         /\ k.opc = 55 => disasm(k) = Insn("LUI", k.rd, 0, 0, Signed(Top20(k), 20))
         /\ k.opc = 23 => disasm(k) = Insn("AUIPC", k.rd, 0, 0, Signed(Top20(k), 20))
         /\ k.opc = 111 => disasm(k) = Insn("JAL", k.rd, 0, 0, imm32_J(k))
         /\ k.opc = 103 => disasm(k) = Insn("JALR", k.rd, k.rs1, 0, imm12(k))
         /\ k.opc = 99 => disasm(k) = Shown(BranchText(k), 0, k.rs1, k.rs2, simm12(k))
         /\ k.opc = 115 /\ k.f3 \in {0, 4} => disasm(k) = Shown(SystemName(k), 0, 0, 0, 0)
         /\ k.opc = 115 /\ k.f3 \notin {0, 4} =>
              disasm(k) = Shown(NameOf(csr_opname, k), k.rd, k.rs1, 0, Top12(k))
         /\ k.opc \notin {51, 19, 35, 3, 55, 23, 111, 103, 99, 115} => disasm(k) = None
BY FieldTypes DEF disasm, NameOf

LEMMA RvInsnByOpcode ==
  ASSUME NEW k \in Fields
  PROVE  /\ k.opc = 51 => rv_insn(k) = Written(Operator(k), k.rd, k.rs1, k.rs2, 0)
         /\ k.opc = 19 => rv_insn(k) = Written(OperatorImm(k), k.rd, k.rs1, 0,
                                               IF k.f3 \in {1, 5} THEN k.rs2 ELSE imm12(k))
         /\ k.opc = 35 => rv_insn(k) = Written(NameOf(StoreOps, k), 0, k.rs1, k.rs2, imm32_S(k))
         /\ k.opc = 3 => rv_insn(k) = Written(NameOf(LoadOps, k), k.rd, k.rs1, 0, imm12(k))
         /\ k.opc = 55 => rv_insn(k) = Insn("LUI", k.rd, 0, 0, Signed(Top20(k), 20))
         /\ k.opc = 23 => rv_insn(k) = Insn("AUIPC", k.rd, 0, 0, Signed(Top20(k), 20))
         /\ k.opc = 111 => rv_insn(k) = Insn("JAL", k.rd, 0, 0, imm32_J(k))
         /\ k.opc = 103 => rv_insn(k) = Insn("JALR", k.rd, k.rs1, 0, imm12(k))
         /\ k.opc = 99 => rv_insn(k) = Written(NameOf(BraOps, k), 0, k.rs1, k.rs2, simm12(k))
         /\ k.opc = 115 /\ k.f3 \in {0, 4} => rv_insn(k) = Written(Called(k), 0, 0, 0, 0)
         /\ k.opc = 115 /\ k.f3 \notin {0, 4} =>
              rv_insn(k) = Written(NameOf(CsrOps, k), k.rd, k.rs1, 0, Top12(k))
         /\ k.opc \notin {51, 19, 35, 3, 55, 23, 111, 103, 99, 115} => rv_insn(k) = None
<1>1. /\ k.opc = 55 => rv_insn(k) = Insn("LUI", k.rd, 0, 0, Signed(Top20(k), 20))
      /\ k.opc = 23 => rv_insn(k) = Insn("AUIPC", k.rd, 0, 0, Signed(Top20(k), 20))
      /\ k.opc = 111 => rv_insn(k) = Insn("JAL", k.rd, 0, 0, imm32_J(k))
      /\ k.opc = 103 => rv_insn(k) = Insn("JALR", k.rd, k.rs1, 0, imm12(k))
  BY FieldTypes DEF rv_insn, Written
<1>2. /\ k.opc = 51 => rv_insn(k) = Written(Operator(k), k.rd, k.rs1, k.rs2, 0)
      /\ k.opc = 19 => rv_insn(k) = Written(OperatorImm(k), k.rd, k.rs1, 0,
                                            IF k.f3 \in {1, 5} THEN k.rs2 ELSE imm12(k))
      /\ k.opc = 115 /\ k.f3 \in {0, 4} => rv_insn(k) = Written(Called(k), 0, 0, 0, 0)
      /\ k.opc \notin {51, 19, 35, 3, 55, 23, 111, 103, 99, 115} => rv_insn(k) = None
  BY FieldTypes DEF rv_insn
<1>3. k.opc = 35 => rv_insn(k) = Written(NameOf(StoreOps, k), 0, k.rs1, k.rs2, imm32_S(k))
  BY FieldTypes DEF rv_insn, NameOf, StoreOps
<1>4. k.opc = 3 => rv_insn(k) = Written(NameOf(LoadOps, k), k.rd, k.rs1, 0, imm12(k))
  BY FieldTypes DEF rv_insn, NameOf, LoadOps
<1>5. k.opc = 99 => rv_insn(k) = Written(NameOf(BraOps, k), 0, k.rs1, k.rs2, simm12(k))
  BY FieldTypes DEF rv_insn, NameOf, BraOps
<1>6. k.opc = 115 /\ k.f3 \notin {0, 4} =>
        rv_insn(k) = Written(NameOf(CsrOps, k), k.rd, k.rs1, 0, Top12(k))
  BY FieldTypes DEF rv_insn, NameOf, CsrOps
<1> QED BY <1>1, <1>2, <1>3, <1>4, <1>5, <1>6

(* Which codes have a name in either, as in optable.                        *)
LEMMA AlwaysNamed ==
  ASSUME NEW k \in Fields
  PROVE  /\ Named(RegOps, k) /\ Named(MulOps, k)
         /\ k.f3 \notin {1, 5} => Named(ImmOps, k)
         /\ k.f3 \notin {0, 4} => Named(CsrOps, k)
         /\ k.f3 \in {1, 5} => ~Named(ImmOps, k)
         /\ k.f3 \in {0, 4} => ~Named(CsrOps, k)
BY OptableNames, EachF3 DEF ByF3, Named

LEMMA NamesOf ==
  ASSUME NEW k \in Fields
  PROVE  /\ NameOf(RegOps, k) \in {"ADD", "SLL", "SLT", "SLTU", "XOR", "SRL", "OR", "AND"}
         /\ NameOf(MulOps, k) \in {"MUL", "MULH", "MULHSU", "MULHU", "DIV", "DIVU", "REM", "REMU"}
         /\ Named(ImmOps, k) =>
              NameOf(ImmOps, k) \in {"ADDI", "SLTI", "SLTIU", "XORI", "ORI", "ANDI"}
         /\ Named(LoadOps, k) => NameOf(LoadOps, k) \in {"LB", "LH", "LW", "LBU", "LHU"}
         /\ Named(StoreOps, k) => NameOf(StoreOps, k) \in {"SB", "SH", "SW"}
         /\ Named(BraOps, k) =>
              NameOf(BraOps, k) \in {"BEQ", "BNE", "BLT", "BGE", "BLTU", "BGEU"}
         /\ Named(CsrOps, k) =>
              NameOf(CsrOps, k) \in {"CSRRW", "CSRRS", "CSRRC", "CSRRWI", "CSRRSI", "CSRRCI"}
<1>1. /\ NameOf(RegOps, k) \in {"ADD", "SLL", "SLT", "SLTU", "XOR", "SRL", "OR", "AND"}
      /\ NameOf(MulOps, k) \in {"MUL", "MULH", "MULHSU", "MULHU", "DIV", "DIVU", "REM", "REMU"}
  BY OptableNames, EachF3 DEF ByF3
<1>2. /\ Named(ImmOps, k) =>
           NameOf(ImmOps, k) \in {"ADDI", "SLTI", "SLTIU", "XORI", "ORI", "ANDI"}
      /\ Named(LoadOps, k) => NameOf(LoadOps, k) \in {"LB", "LH", "LW", "LBU", "LHU"}
      /\ Named(StoreOps, k) => NameOf(StoreOps, k) \in {"SB", "SH", "SW"}
  BY OptableNames, EachF3 DEF ByF3, Named
<1>3. /\ Named(BraOps, k) =>
           NameOf(BraOps, k) \in {"BEQ", "BNE", "BLT", "BGE", "BLTU", "BGEU"}
      /\ Named(CsrOps, k) =>
           NameOf(CsrOps, k) \in {"CSRRW", "CSRRS", "CSRRC", "CSRRWI", "CSRRSI", "CSRRCI"}
  BY OptableNames, EachF3 DEF ByF3, Named
<1> QED BY <1>1, <1>2, <1>3

LEMMA DisasmTables ==
  ASSUME NEW k \in Fields
  PROVE  /\ NameOf(alu_name, k) = NameOf(RegOps, k) /\ NameOf(mul_name, k) = NameOf(MulOps, k)
         /\ k.f3 \notin {1, 5} => NameOf(alui_name, k) = NameOf(ImmOps, k)
         /\ NameOf(store_name, k) = IF Named(StoreOps, k) THEN NameOf(StoreOps, k) ELSE "???"
         /\ NameOf(load_name, k) = IF Named(LoadOps, k) THEN NameOf(LoadOps, k) ELSE "???"
         /\ NameOf(bra_name, k) = IF Named(BraOps, k) THEN NameOf(BraOps, k) ELSE "???"
         /\ NameOf(brazi_name, k) =
              IF NameOf(BraOps, k) \in {"BLT", "BGE"} THEN NameOf(BraOps, k) ELSE "???"
         /\ NameOf(csr_opname, k) = IF Named(CsrOps, k) THEN NameOf(CsrOps, k) ELSE "???"
<1>1. /\ NameOf(alu_name, k) = NameOf(RegOps, k) /\ NameOf(mul_name, k) = NameOf(MulOps, k)
      /\ k.f3 \notin {1, 5} => NameOf(alui_name, k) = NameOf(ImmOps, k)
  BY OptableNames, DisasmNames, EachF3 DEF ByF3
<1>2. /\ NameOf(store_name, k) = IF Named(StoreOps, k) THEN NameOf(StoreOps, k) ELSE "???"
      /\ NameOf(load_name, k) = IF Named(LoadOps, k) THEN NameOf(LoadOps, k) ELSE "???"
      /\ NameOf(csr_opname, k) = IF Named(CsrOps, k) THEN NameOf(CsrOps, k) ELSE "???"
  BY OptableNames, DisasmNames, EachF3 DEF ByF3, Named
<1>3. /\ NameOf(bra_name, k) = IF Named(BraOps, k) THEN NameOf(BraOps, k) ELSE "???"
      /\ NameOf(brazi_name, k) =
           IF NameOf(BraOps, k) \in {"BLT", "BGE"} THEN NameOf(BraOps, k) ELSE "???"
  BY OptableNames, DisasmNames, EachF3 DEF ByF3, Named
<1> QED BY <1>1, <1>2, <1>3

LEMMA DisasmShifts ==
  ASSUME NEW k \in Fields
  PROVE  /\ k.f7 = 32 => AluText(k) = IF k.f3 = 0 THEN "SUB" ELSE IF k.f3 = 5 THEN "SRA" ELSE "???"
         /\ k.f7 = 0 => AluText(k) = NameOf(RegOps, k)
         /\ k.f7 = 1 => AluText(k) = NameOf(MulOps, k)
         /\ k.f7 \notin {0, 1, 32} => AluText(k) = "???"
         /\ k.f3 = 1 => ShiftText(k) = IF k.f7 = 0 THEN "SLLI" ELSE "???"
         /\ k.f3 = 5 => ShiftText(k) = IF k.f7 = 0 THEN "SRLI" ELSE IF k.f7 = 32 THEN "SRAI" ELSE "???"
<1>1. AluText(k) = IF k.f7 = 0 THEN NameOf(alu_name, k)
                   ELSE IF k.f7 = 32 THEN NameOf(alu2_name, k)
                   ELSE IF k.f7 = 1 THEN NameOf(mul_name, k) ELSE "???"
  BY FieldTypes DEF AluText, NameOf
<1>2. ShiftText(k) = IF k.f7 = 0 THEN NameOf(alui_name, k)
                     ELSE IF k.f7 = 32 THEN NameOf(alui2_name, k) ELSE "???"
  BY FieldTypes DEF ShiftText, NameOf
<1>3. NameOf(alu2_name, k) = IF k.f3 = 0 THEN "SUB" ELSE IF k.f3 = 5 THEN "SRA" ELSE "???"
  BY DisasmNames, EachF3 DEF ByF3
<1>4. NameOf(alui2_name, k) = IF k.f3 = 5 THEN "SRAI" ELSE "???"
  BY DisasmNames, EachF3 DEF ByF3
<1>5. (k.f3 = 1 => NameOf(alui_name, k) = "SLLI") /\ (k.f3 = 5 => NameOf(alui_name, k) = "SRLI")
  BY DisasmNames DEF ByF3
<1> QED BY <1>1, <1>2, <1>3, <1>4, <1>5, DisasmTables, FieldTypes

LEMMA Operators ==
  ASSUME NEW k \in Fields
  PROVE  /\ k.f7 = 32 => Operator(k) = IF k.f3 = 0 THEN "SUB" ELSE IF k.f3 = 5 THEN "SRA" ELSE "-"
         /\ k.f7 = 0 => Operator(k) = NameOf(RegOps, k)
         /\ k.f7 \notin {0, 32} => Operator(k) = "-"
         /\ k.f3 \notin {1, 5} => OperatorImm(k) = NameOf(ImmOps, k)
         /\ k.f3 = 1 => OperatorImm(k) = "SLLI"
         /\ k.f3 = 5 => OperatorImm(k) = IF k.f7 = 32 THEN "SRAI" ELSE "SRLI"
<1>1. Operator(k) = IF k.f7 = 0 THEN NameOf(RegOps, k)
                    ELSE IF k.f7 = 32 /\ k.f3 = 0 THEN "SUB"
                    ELSE IF k.f7 = 32 /\ k.f3 = 5 THEN "SRA" ELSE "-"
  BY FieldTypes DEF Operator, NameOf, RegOps
<1>2. OperatorImm(k) = IF k.f3 = 5 /\ k.f7 = 32 THEN "SRAI" ELSE NameOf(alui_name, k)
  BY DEF OperatorImm, NameOf, alui_name
<1>3. (k.f3 = 1 => NameOf(alui_name, k) = "SLLI") /\ (k.f3 = 5 => NameOf(alui_name, k) = "SRLI")
  BY DisasmNames DEF ByF3
<1> QED BY <1>1, <1>2, <1>3, DisasmTables, FieldTypes

-----------------------------------------------------------------------------
(* Both listings of an instruction that is known.                           *)
NoText(v) ==
  \/ v.op = "FENCE"
  \/ v.op \in {"BEQ", "BNE", "BLTU", "BGEU"} /\ v.rs1 = 0 /\ v.rs2 # 0
NoStatement(v) == v.op = "FENCE" \/ A!In(A!Muldiv, v.op)

Agree(k, v) ==
  /\ IF NoText(v) THEN disasm(k) \in {None, Unreadable} ELSE Plain(disasm(k)) = Plain(v)
  /\ IF NoStatement(v) THEN rv_insn(k) = None ELSE Plain(rv_insn(k)) = Plain(v)

LEMMA MuldivNames ==
  ASSUME NEW op
  PROVE  A!In(A!Muldiv, op)
           <=> op \in {"MUL", "MULH", "MULHSU", "MULHU", "DIV", "DIVU", "REM", "REMU"}
BY DEF A!In, A!Muldiv

LEMMA PlainAgrees ==
  ASSUME NEW k \in Fields, NEW v, disasm(k) = v, rv_insn(k) = v,
         v.op \notin {"FENCE", "BEQ", "BNE", "BLTU", "BGEU"},
         v.op \notin {"MUL", "MULH", "MULHSU", "MULHU", "DIV", "DIVU", "REM", "REMU"}
  PROVE  Agree(k, v)
BY MuldivNames DEF Agree, NoText, NoStatement

LEMMA JumpsAgree ==
  ASSUME NEW k \in Fields, NEW v, Jumps(k, v)
  PROVE  Agree(k, v)
<1>1. k.opc = 111 => /\ disasm(k) = Insn("JAL", k.rd, 0, 0, doJoff(k))
                     /\ rv_insn(k) = Insn("JAL", k.rd, 0, 0, doJoff(k))
  BY DisasmByOpcode, RvInsnByOpcode, SameImmediates
<1>2. k.opc = 103 => /\ disasm(k) = Insn("JALR", k.rd, k.rs1, 0, Signed(Top12(k), 12))
                     /\ rv_insn(k) = Insn("JALR", k.rd, k.rs1, 0, Signed(Top12(k), 12))
  BY DisasmByOpcode, RvInsnByOpcode, SameImmediates
<1>3. CASE k.opc = 111 /\ v = Insn("JAL", k.rd, 0, 0, doJoff(k))
  BY <1>1, <1>3, PlainAgrees DEF Insn
<1>4. CASE k.opc = 111 /\ k.rd = 0 /\ v = Insn("J", 0, 0, 0, doJoff(k))
  <2>1. Plain(v) = Insn("JAL", 0, 0, 0, doJoff(k))
    BY <1>4 DEF Plain, Insn
  <2>2. Plain(Insn("JAL", 0, 0, 0, doJoff(k))) = Insn("JAL", 0, 0, 0, doJoff(k))
    BY DEF Plain, Insn
  <2>3. ~NoText(v) /\ ~NoStatement(v)
    BY <1>4, MuldivNames DEF NoText, NoStatement, Insn
  <2> QED BY <1>1, <1>4, <2>1, <2>2, <2>3 DEF Agree
<1>5. CASE k.opc = 103 /\ k.f3 = 0 /\ v = Insn("JALR", k.rd, k.rs1, 0, Signed(Top12(k), 12))
  BY <1>2, <1>5, PlainAgrees DEF Insn
<1>6. CASE k = IType(0, k.rs1, 0, 0, 103) /\ v = Insn("JR", 0, k.rs1, 0, 0)
  <2>1. k.opc = 103 /\ k.rd = 0 /\ k.f7 = 0 /\ k.rs2 = 0
    BY <1>6 DEF IType, Code, Field
  <2>2. Signed(Top12(k), 12) = 0
    BY <2>1 DEF Signed, Top12
  <2>3. Plain(v) = Insn("JALR", 0, k.rs1, 0, 0)
    BY <1>6 DEF Plain, Insn
  <2>4. Plain(Insn("JALR", 0, k.rs1, 0, 0)) = Insn("JALR", 0, k.rs1, 0, 0)
    BY DEF Plain, Insn
  <2>5. ~NoText(v) /\ ~NoStatement(v)
    BY <1>6, MuldivNames DEF NoText, NoStatement, Insn
  <2> QED BY <1>2, <2>1, <2>2, <2>3, <2>4, <2>5 DEF Agree
<1> QED BY <1>3, <1>4, <1>5, <1>6 DEF Jumps

LEMMA ShownOrNot ==
  ASSUME NEW name, NEW rd, NEW rs1, NEW rs2, NEW imm
  PROVE  /\ name # "???" => Shown(name, rd, rs1, rs2, imm) = Insn(name, rd, rs1, rs2, imm)
         /\ name = "???" => Shown(name, rd, rs1, rs2, imm) = Unreadable
         /\ name # "-" => Written(name, rd, rs1, rs2, imm) = Insn(name, rd, rs1, rs2, imm)
         /\ name = "-" => Written(name, rd, rs1, rs2, imm) = None
         /\ Insn(name, rd, rs1, rs2, imm).op = name
         /\ Insn(name, rd, rs1, rs2, imm).rs1 = rs1
         /\ Insn(name, rd, rs1, rs2, imm).rs2 = rs2
BY DEF Shown, Written, Insn

LEMMA AccessesAgree ==
  ASSUME NEW k \in Fields, NEW v, Accesses(k, v)
  PROVE  Agree(k, v)
<1>1. CASE /\ k.opc = 99 /\ Named(BraOps, k)
           /\ v = Insn(NameOf(BraOps, k), 0, k.rs1, k.rs2, doBoff(k))
  <2>1. NameOf(BraOps, k) \in {"BEQ", "BNE", "BLT", "BGE", "BLTU", "BGEU"}
    BY <1>1, NamesOf
  <2>2. rv_insn(k) = v
    BY <1>1, <2>1, RvInsnByOpcode, SameImmediates, ShownOrNot
  <2>3. disasm(k) = Shown(BranchText(k), 0, k.rs1, k.rs2, doBoff(k))
    BY <1>1, DisasmByOpcode, SameImmediates
  <2>4. BranchText(k) = IF NoText(v) THEN "???" ELSE NameOf(BraOps, k)
    <3>1. BranchText(k) = IF k.rs2 # 0 /\ k.rs1 = 0 THEN NameOf(brazi_name, k)
                          ELSE NameOf(bra_name, k)
      BY DEF BranchText, NameOf
    <3>2. v.op = NameOf(BraOps, k) /\ v.rs1 = k.rs1 /\ v.rs2 = k.rs2
      BY <1>1, ShownOrNot
    <3> QED BY <1>1, <2>1, <3>1, <3>2, DisasmTables DEF NoText
  <2>5. IF NoText(v) THEN disasm(k) = Unreadable ELSE disasm(k) = v
    BY <1>1, <2>1, <2>3, <2>4, ShownOrNot
  <2>6. ~NoStatement(v)
    BY <1>1, <2>1, ShownOrNot, MuldivNames DEF NoStatement
  <2> QED BY <2>2, <2>5, <2>6 DEF Agree
<1>2. CASE /\ k.opc = 3 /\ Named(LoadOps, k)
           /\ v = Insn(NameOf(LoadOps, k), k.rd, k.rs1, 0, Signed(Top12(k), 12))
  <2>1. NameOf(LoadOps, k) \in {"LB", "LH", "LW", "LBU", "LHU"}
    BY <1>2, NamesOf
  <2>2. rv_insn(k) = v
    BY <1>2, <2>1, RvInsnByOpcode, SameImmediates, ShownOrNot
  <2>3. disasm(k) = v
    BY <1>2, <2>1, DisasmByOpcode, DisasmTables, SameImmediates, ShownOrNot
  <2>4. v.op = NameOf(LoadOps, k)
    BY <1>2, ShownOrNot
  <2> QED BY <2>1, <2>2, <2>3, <2>4, PlainAgrees
<1>3. CASE /\ k.opc = 35 /\ Named(StoreOps, k)
           /\ v = Insn(NameOf(StoreOps, k), 0, k.rs1, k.rs2, Signed(k.f7 * 32 + k.rd, 12))
  <2>1. NameOf(StoreOps, k) \in {"SB", "SH", "SW"}
    BY <1>3, NamesOf
  <2>2. rv_insn(k) = v
    BY <1>3, <2>1, RvInsnByOpcode, SameImmediates, ShownOrNot
  <2>3. disasm(k) = v
    BY <1>3, <2>1, DisasmByOpcode, DisasmTables, SameImmediates, ShownOrNot
  <2>4. v.op = NameOf(StoreOps, k)
    BY <1>3, ShownOrNot
  <2> QED BY <2>1, <2>2, <2>3, <2>4, PlainAgrees
<1> QED BY <1>1, <1>2, <1>3 DEF Accesses

LEMMA ImmediatesAgree ==
  ASSUME NEW k \in Fields, NEW v, k.opc = 19,
         \/ Named(ImmOps, k) /\ v = Insn(NameOf(ImmOps, k), k.rd, k.rs1, 0, Signed(Top12(k), 12))
         \/ \E op \in {"SLLI", "SRLI", "SRAI"} :
              /\ k.f7 = IF op = "SRAI" THEN 32 ELSE 0
              /\ k.f3 = IF op = "SLLI" THEN 1 ELSE 5
              /\ v = Insn(op, k.rd, k.rs1, 0, k.rs2)
  PROVE  Agree(k, v) /\ disasm(k) = v /\ rv_insn(k) = v
<1>1. CASE Named(ImmOps, k) /\ v = Insn(NameOf(ImmOps, k), k.rd, k.rs1, 0, Signed(Top12(k), 12))
  <2>1. NameOf(ImmOps, k) \in {"ADDI", "SLTI", "SLTIU", "XORI", "ORI", "ANDI"}
    BY <1>1, NamesOf
  <2>2. k.f3 \notin {1, 5}
    BY <1>1, AlwaysNamed
  <2>3. rv_insn(k) = v
    BY <1>1, <2>1, <2>2, RvInsnByOpcode, Operators, SameImmediates, ShownOrNot
  <2>4. disasm(k) = v
    BY <1>1, <2>1, <2>2, DisasmByOpcode, DisasmTables, SameImmediates, ShownOrNot
  <2>5. v.op = NameOf(ImmOps, k)
    BY <1>1, ShownOrNot
  <2> QED BY <2>1, <2>3, <2>4, <2>5, PlainAgrees
<1>2. ASSUME NEW op \in {"SLLI", "SRLI", "SRAI"},
             k.f7 = IF op = "SRAI" THEN 32 ELSE 0,
             k.f3 = IF op = "SLLI" THEN 1 ELSE 5,
             v = Insn(op, k.rd, k.rs1, 0, k.rs2)
      PROVE  Agree(k, v) /\ disasm(k) = v /\ rv_insn(k) = v
  <2>1. k.f3 \in {1, 5} /\ ShiftText(k) = op /\ OperatorImm(k) = op
    BY <1>2, DisasmShifts, Operators
  <2>2. rv_insn(k) = v
    BY <1>2, <2>1, RvInsnByOpcode, ShownOrNot
  <2>3. disasm(k) = v
    BY <1>2, <2>1, DisasmByOpcode, ShownOrNot
  <2>4. v.op = op
    BY <1>2, ShownOrNot
  <2> QED BY <2>2, <2>3, <2>4, PlainAgrees
<1> QED BY <1>1, <1>2

LEMMA RegistersAgree ==
  ASSUME NEW k \in Fields, NEW v, k.opc = 51,
         \/ k.f7 = 0 /\ v = Insn(NameOf(RegOps, k), k.rd, k.rs1, k.rs2, 0)
         \/ k.f7 = 1 /\ v = Insn(NameOf(MulOps, k), k.rd, k.rs1, k.rs2, 0)
         \/ k.f7 = 32 /\ k.f3 = 0 /\ v = Insn("SUB", k.rd, k.rs1, k.rs2, 0)
         \/ k.f7 = 32 /\ k.f3 = 5 /\ v = Insn("SRA", k.rd, k.rs1, k.rs2, 0)
  PROVE  Agree(k, v)
<1>0. /\ disasm(k) = Shown(AluText(k), k.rd, k.rs1, k.rs2, 0)
      /\ rv_insn(k) = Written(Operator(k), k.rd, k.rs1, k.rs2, 0)
  BY DisasmByOpcode, RvInsnByOpcode
<1>1. CASE k.f7 = 0 /\ v = Insn(NameOf(RegOps, k), k.rd, k.rs1, k.rs2, 0)
  <2>1. NameOf(RegOps, k) \in {"ADD", "SLL", "SLT", "SLTU", "XOR", "SRL", "OR", "AND"}
    BY NamesOf
  <2>2. AluText(k) = NameOf(RegOps, k) /\ Operator(k) = NameOf(RegOps, k)
    BY <1>1, DisasmShifts, Operators
  <2>3. disasm(k) = v /\ rv_insn(k) = v /\ v.op = NameOf(RegOps, k)
    BY <1>0, <1>1, <2>1, <2>2, ShownOrNot
  <2> QED BY <2>1, <2>3, PlainAgrees
<1>2. CASE k.f7 = 1 /\ v = Insn(NameOf(MulOps, k), k.rd, k.rs1, k.rs2, 0)
  <2>1. NameOf(MulOps, k) \in {"MUL", "MULH", "MULHSU", "MULHU", "DIV", "DIVU", "REM", "REMU"}
    BY NamesOf
  <2>2. AluText(k) = NameOf(MulOps, k) /\ Operator(k) = "-"
    BY <1>2, DisasmShifts, Operators
  <2>3. disasm(k) = v /\ rv_insn(k) = None /\ v.op = NameOf(MulOps, k)
    BY <1>0, <1>2, <2>1, <2>2, ShownOrNot
  <2>4. NoStatement(v) /\ ~NoText(v)
    BY <2>1, <2>3, MuldivNames DEF NoStatement, NoText
  <2> QED BY <2>3, <2>4 DEF Agree
<1>3. CASE k.f7 = 32 /\ k.f3 = 0 /\ v = Insn("SUB", k.rd, k.rs1, k.rs2, 0)
  <2>1. AluText(k) = "SUB" /\ Operator(k) = "SUB"
    BY <1>3, DisasmShifts, Operators
  <2>2. disasm(k) = v /\ rv_insn(k) = v /\ v.op = "SUB"
    BY <1>0, <1>3, <2>1, ShownOrNot
  <2> QED BY <2>2, PlainAgrees
<1>4. CASE k.f7 = 32 /\ k.f3 = 5 /\ v = Insn("SRA", k.rd, k.rs1, k.rs2, 0)
  <2>1. AluText(k) = "SRA" /\ Operator(k) = "SRA"
    BY <1>4, DisasmShifts, Operators
  <2>2. disasm(k) = v /\ rv_insn(k) = v /\ v.op = "SRA"
    BY <1>0, <1>4, <2>1, ShownOrNot
  <2> QED BY <2>2, PlainAgrees
<1> QED BY <1>1, <1>2, <1>3, <1>4

LEMMA ComputesAgree ==
  ASSUME NEW k \in Fields, NEW v, Computes(k, v)
  PROVE  Agree(k, v)
<1>1. CASE k.opc = 55 /\ v = Insn("LUI", k.rd, 0, 0, Signed(Top20(k), 20))
  <2>1. disasm(k) = v /\ rv_insn(k) = v /\ v.op = "LUI"
    BY <1>1, DisasmByOpcode, RvInsnByOpcode, ShownOrNot
  <2> QED BY <2>1, PlainAgrees
<1>2. CASE k.opc = 23 /\ v = Insn("AUIPC", k.rd, 0, 0, Signed(Top20(k), 20))
  <2>1. disasm(k) = v /\ rv_insn(k) = v /\ v.op = "AUIPC"
    BY <1>2, DisasmByOpcode, RvInsnByOpcode, ShownOrNot
  <2> QED BY <2>1, PlainAgrees
<1>3. CASE k = IType(0, 0, 0, 0, 19) /\ v = Insn("NOP", 0, 0, 0, 0)
  <2>1. k.opc = 19 /\ k.rd = 0 /\ k.rs1 = 0 /\ k.f3 = 0 /\ k.f7 = 0 /\ k.rs2 = 0
    BY <1>3 DEF IType, Code, Field
  <2>2. Signed(Top12(k), 12) = 0
    BY <2>1 DEF Signed, Top12
  <2>3. Named(ImmOps, k) /\ NameOf(ImmOps, k) = "ADDI"
    BY <2>1, OptableNames DEF ByF3, Named
  <2>4. /\ disasm(k) = Insn("ADDI", 0, 0, 0, 0) /\ rv_insn(k) = Insn("ADDI", 0, 0, 0, 0)
    BY <2>1, <2>2, <2>3, ImmediatesAgree
  <2>5. Plain(v) = Insn("ADDI", 0, 0, 0, 0)
    BY <1>3 DEF Plain, Insn
  <2>6. Plain(Insn("ADDI", 0, 0, 0, 0)) = Insn("ADDI", 0, 0, 0, 0)
    BY DEF Plain, Insn
  <2>7. ~NoStatement(v) /\ ~NoText(v)
    BY <1>3, MuldivNames DEF NoStatement, NoText, Insn
  <2> QED BY <2>4, <2>5, <2>6, <2>7 DEF Agree
<1>4. CASE /\ k.opc = 19
           /\ \/ /\ Named(ImmOps, k)
                 /\ v = Insn(NameOf(ImmOps, k), k.rd, k.rs1, 0, Signed(Top12(k), 12))
              \/ \E op \in {"SLLI", "SRLI", "SRAI"} :
                   /\ k.f7 = IF op = "SRAI" THEN 32 ELSE 0
                   /\ k.f3 = IF op = "SLLI" THEN 1 ELSE 5
                   /\ v = Insn(op, k.rd, k.rs1, 0, k.rs2)
  BY <1>4, ImmediatesAgree
<1>5. CASE /\ k.opc = 51
           /\ \/ k.f7 = 0 /\ v = Insn(NameOf(RegOps, k), k.rd, k.rs1, k.rs2, 0)
              \/ k.f7 = 1 /\ v = Insn(NameOf(MulOps, k), k.rd, k.rs1, k.rs2, 0)
              \/ k.f7 = 32 /\ k.f3 = 0 /\ v = Insn("SUB", k.rd, k.rs1, k.rs2, 0)
              \/ k.f7 = 32 /\ k.f3 = 5 /\ v = Insn("SRA", k.rd, k.rs1, k.rs2, 0)
  BY <1>5, RegistersAgree
<1> QED BY <1>1, <1>2, <1>3, <1>4, <1>5 DEF Computes

LEMMA SystemNames ==
  ASSUME NEW k \in Fields
  PROVE  /\ k = IType(0, 0, 0, 0, 115) => SystemName(k) = "ECALL"
         /\ k = IType(1, 0, 0, 0, 115) => SystemName(k) = "EBREAK"
         /\ k = IType(258, 0, 0, 0, 115) => SystemName(k) = "SRET"
         /\ k = IType(770, 0, 0, 0, 115) => SystemName(k) = "MRET"
         /\ k = IType(261, 0, 0, 0, 115) => SystemName(k) = "WFI"
<1>1. /\ IType(0, 0, 0, 0, 115) = Code(0, 0, 0, 0, 0, 115)
      /\ IType(1, 0, 0, 0, 115) = Code(0, 1, 0, 0, 0, 115)
      /\ IType(258, 0, 0, 0, 115) = Code(8, 2, 0, 0, 0, 115)
      /\ IType(770, 0, 0, 0, 115) = Code(24, 2, 0, 0, 0, 115)
      /\ IType(261, 0, 0, 0, 115) = Code(8, 5, 0, 0, 0, 115)
  BY DEF IType, Field
<1> QED BY <1>1 DEF SystemName, Code

LEMMA SystemAgrees ==
  ASSUME NEW k \in Fields, NEW v, NEW n \in {0, 1, 258, 770, 261}, NEW op,
         k = IType(n, 0, 0, 0, 115), v = Insn(op, 0, 0, 0, 0), SystemName(k) = op,
         op \in {"ECALL", "EBREAK", "SRET", "MRET", "WFI"}
  PROVE  Agree(k, v)
<1>1. k.opc = 115 /\ k.f3 = 0
  BY DEF IType, Code
<1>2. disasm(k) = v
  BY <1>1, DisasmByOpcode, ShownOrNot
<1>3. rv_insn(k) = v
  BY <1>1, RvInsnByOpcode, ShownOrNot DEF Called
<1>4. v.op = op
  BY ShownOrNot
<1> QED BY <1>2, <1>3, <1>4, PlainAgrees

LEMMA ControlsAgree ==
  ASSUME NEW k \in Fields, NEW v, Controls(k, v)
  PROVE  Agree(k, v)
<1>1. CASE k.opc = 15 /\ v.op = "FENCE"
  <2>1. disasm(k) = None /\ rv_insn(k) = None
    BY <1>1, DisasmByOpcode, RvInsnByOpcode
  <2> QED BY <1>1, <2>1 DEF Agree, NoText, NoStatement
<1>2. CASE /\ k.opc = 115 /\ Named(CsrOps, k)
           /\ v = Insn(NameOf(CsrOps, k), k.rd, k.rs1, 0, Top12(k))
  <2>1. NameOf(CsrOps, k) \in {"CSRRW", "CSRRS", "CSRRC", "CSRRWI", "CSRRSI", "CSRRCI"}
    BY <1>2, NamesOf
  <2>2. k.f3 \notin {0, 4}
    BY <1>2, AlwaysNamed
  <2>3. rv_insn(k) = v
    BY <1>2, <2>1, <2>2, RvInsnByOpcode, ShownOrNot
  <2>4. disasm(k) = v
    BY <1>2, <2>1, <2>2, DisasmByOpcode, DisasmTables, ShownOrNot
  <2>5. v.op = NameOf(CsrOps, k)
    BY <1>2, ShownOrNot
  <2> QED BY <2>1, <2>3, <2>4, <2>5, PlainAgrees
<1>3. CASE k = IType(0, 0, 0, 0, 115) /\ v = Insn("ECALL", 0, 0, 0, 0)
  BY <1>3, SystemNames, SystemAgrees
<1>4. CASE k = IType(1, 0, 0, 0, 115) /\ v = Insn("EBREAK", 0, 0, 0, 0)
  BY <1>4, SystemNames, SystemAgrees
<1>5. CASE k = IType(258, 0, 0, 0, 115) /\ v = Insn("SRET", 0, 0, 0, 0)
  BY <1>5, SystemNames, SystemAgrees
<1>6. CASE k = IType(770, 0, 0, 0, 115) /\ v = Insn("MRET", 0, 0, 0, 0)
  BY <1>6, SystemNames, SystemAgrees
<1>7. CASE k = IType(261, 0, 0, 0, 115) /\ v = Insn("WFI", 0, 0, 0, 0)
  BY <1>7, SystemNames, SystemAgrees
<1> QED BY <1>1, <1>2, <1>3, <1>4, <1>5, <1>6, <1>7 DEF Controls

LEMMA MeaningAgrees ==
  ASSUME NEW k \in Fields, NEW v, Means(k, v)
  PROVE  Agree(k, v)
BY JumpsAgree, AccessesAgree, ComputesAgree, ControlsAgree DEF Means

-----------------------------------------------------------------------------
(* Codes that are not known.                                                *)
NoRow(k) == \A row \in Late : ~Matches(row, k)

LEMMA UnknownHasNoRow ==
  ASSUME NEW k \in Fields, decode2vliw(k) = None
  PROVE  NoRow(k)
<1>1. \A op, rd, rs1, rs2, imm : Insn(op, rd, rs1, rs2, imm) # None
  <2> SUFFICES ASSUME NEW op, NEW rd, NEW rs1, NEW rs2, NEW imm,
                      Insn(op, rd, rs1, rs2, imm) = None
               PROVE  FALSE
    OBVIOUS
  <2>1. DOMAIN Insn(op, rd, rs1, rs2, imm) = {"op", "rd", "rs1", "rs2", "imm"}
    BY DEF Insn
  <2>2. DOMAIN None = {"op"}
    BY DEF None
  <2> QED BY <2>1, <2>2
<1>2. Fatal # None
  BY DEF Fatal, None
<1>3. Rows(k) = {}
  BY <1>1, <1>2 DEF decode2vliw
<1>4. {row \in Late : Matches(row, k)} = {}
  BY <1>3 DEF Rows
<1> QED BY <1>4 DEF NoRow

LEMMA UnknownCodes ==
  ASSUME NEW k \in Fields, NoRow(k)
  PROVE  /\ k.opc \notin {55, 23, 111}
         /\ k.opc = 99 => ~Named(BraOps, k)
         /\ k.opc = 3 => ~Named(LoadOps, k)
         /\ k.opc = 35 => ~Named(StoreOps, k)
         /\ k.opc = 19 => ~Named(ImmOps, k)
         /\ k.opc = 115 => ~Named(CsrOps, k)
         /\ k.opc = 19 /\ k.f7 = 0 => ~Named(ShiftOps, k)
         /\ k.opc = 19 /\ k.f7 = 32 => ~Named(SraiOps, k)
         /\ k.opc = 51 => k.f7 \notin {0, 1}
         /\ k.opc = 51 /\ k.f7 = 32 => ~Named(SubOps, k)
         /\ SystemName(k) = "???"
<1>1. k.opc \notin {55, 23, 111}
  <2>1. /\ Row("LUI", [opc |-> 55], {"rd", "imm20"}) \in Late
        /\ Row("AUIPC", [opc |-> 23], {"rd", "imm20"}) \in Late
        /\ Row("JAL", [opc |-> 111], {"rd", "joff"}) \in Late
    BY DEF Late, SingleRows
  <2>2. /\ k.opc = 55 => Matches(Row("LUI", [opc |-> 55], {"rd", "imm20"}), k)
        /\ k.opc = 23 => Matches(Row("AUIPC", [opc |-> 23], {"rd", "imm20"}), k)
        /\ k.opc = 111 => Matches(Row("JAL", [opc |-> 111], {"rd", "joff"}), k)
    BY DEF Matches, Row
  <2> QED BY <2>1, <2>2 DEF NoRow
<1>2. /\ Family3Rows \subseteq Late /\ Family7Rows \subseteq Late /\ SystemRows \subseteq Late
  BY DEF Late
<1>3. /\ Family(99, {"rs1", "rs2", "boff"}, BraOps) \subseteq Late
      /\ Family(3, {"rd", "rs1", "simm12"}, LoadOps) \subseteq Late
      /\ Family(35, {"rs1", "rs2", "s2imm12"}, StoreOps) \subseteq Late
      /\ Family(19, {"rd", "rs1", "simm12"}, ImmOps) \subseteq Late
      /\ Family(115, {"csr", "rd", "rs1"}, CsrOps) \subseteq Late
  BY <1>2 DEF Family3Rows
<1>4. /\ Family7(19, 0, {"rd", "rs1", "shamt"}, ShiftOps) \subseteq Late
      /\ Family7(19, 32, {"rd", "rs1", "shamt"}, SraiOps) \subseteq Late
      /\ Family7(51, 0, {"rd", "rs1", "rs2"}, RegOps) \subseteq Late
      /\ Family7(51, 32, {"rd", "rs1", "rs2"}, SubOps) \subseteq Late
      /\ Family7(51, 1, {"rd", "rs1", "rs2"}, MulOps) \subseteq Late
  BY <1>2 DEF Family7Rows
<1>5. k.opc = 99 => ~Named(BraOps, k)
  BY <1>3, FamilyHasRow DEF NoRow
<1>6. k.opc = 3 => ~Named(LoadOps, k)
  BY <1>3, FamilyHasRow DEF NoRow
<1>7. k.opc = 35 => ~Named(StoreOps, k)
  BY <1>3, FamilyHasRow DEF NoRow
<1>8. k.opc = 19 => ~Named(ImmOps, k)
  BY <1>3, FamilyHasRow DEF NoRow
<1>9. k.opc = 115 => ~Named(CsrOps, k)
  BY <1>3, FamilyHasRow DEF NoRow
<1>10. k.opc = 19 /\ k.f7 = 0 => ~Named(ShiftOps, k)
  BY <1>4, Family7HasRow DEF NoRow
<1>11. k.opc = 19 /\ k.f7 = 32 => ~Named(SraiOps, k)
  BY <1>4, Family7HasRow DEF NoRow
<1>12. k.opc = 51 => k.f7 \notin {0, 1}
  BY <1>4, Family7HasRow, AlwaysNamed DEF NoRow
<1>13. k.opc = 51 /\ k.f7 = 32 => ~Named(SubOps, k)
  BY <1>4, Family7HasRow DEF NoRow
<1>14. SystemName(k) = "???"
  <2>1. \A op, n : k = IType(n, 0, 0, 0, 115) => Matches(System(op, n), k)
    BY DEF Matches, System, Row
  <2>2. /\ System("ECALL", 0) \in Late /\ System("EBREAK", 1) \in Late
        /\ System("SRET", 258) \in Late /\ System("MRET", 770) \in Late
        /\ System("WFI", 261) \in Late
    BY <1>2 DEF SystemRows
  <2>3. /\ k # IType(0, 0, 0, 0, 115) /\ k # IType(1, 0, 0, 0, 115)
        /\ k # IType(258, 0, 0, 0, 115) /\ k # IType(770, 0, 0, 0, 115)
        /\ k # IType(261, 0, 0, 0, 115)
    BY <2>1, <2>2 DEF NoRow
  <2> QED BY <2>3 DEF SystemName
<1> QED BY <1>1, <1>5, <1>6, <1>7, <1>8, <1>9, <1>10, <1>11, <1>12, <1>13, <1>14

LEMMA UnknownAgrees ==
  ASSUME NEW k \in Fields, NoRow(k)
  PROVE  /\ disasm(k) \in {None, Unreadable} \/ disasm(k).op = "JALR"
         /\ rv_insn(k) = None \/ rv_insn(k).op \in {"JALR", "SLLI", "SRLI"}
<1>1. k.opc \notin {55, 23, 111}
  BY UnknownCodes
<1>2. CASE k.opc = 51
  <2>1. k.f7 \notin {0, 1} /\ (k.f7 = 32 => k.f3 \notin {0, 5})
    BY <1>2, UnknownCodes, ShortFamiliesNamed
  <2>2. AluText(k) = "???" /\ Operator(k) = "-"
    BY <2>1, DisasmShifts, Operators
  <2> QED BY <1>2, <2>2, DisasmByOpcode, RvInsnByOpcode, ShownOrNot
<1>3. CASE k.opc = 19
  <2>1. k.f3 \in {1, 5} /\ (k.f7 = 0 => ~Named(ShiftOps, k)) /\ (k.f7 = 32 => ~Named(SraiOps, k))
    BY <1>3, UnknownCodes, AlwaysNamed
  <2>2. k.f7 # 0 /\ (k.f3 = 5 => k.f7 # 32)
    BY <2>1, ShortFamiliesNamed
  <2>3. ShiftText(k) = "???" /\ OperatorImm(k) \in {"SLLI", "SRLI"}
    BY <2>1, <2>2, DisasmShifts, Operators
  <2> QED BY <1>3, <2>1, <2>3, DisasmByOpcode, RvInsnByOpcode, ShownOrNot
<1>4. CASE k.opc = 35
  <2>1. ~Named(StoreOps, k)
    BY <1>4, UnknownCodes
  <2> QED BY <1>4, <2>1, DisasmByOpcode, RvInsnByOpcode, DisasmTables, ShownOrNot DEF Named
<1>5. CASE k.opc = 3
  <2>1. ~Named(LoadOps, k)
    BY <1>5, UnknownCodes
  <2> QED BY <1>5, <2>1, DisasmByOpcode, RvInsnByOpcode, DisasmTables, ShownOrNot DEF Named
<1>6. CASE k.opc = 99
  <2>1. ~Named(BraOps, k)
    BY <1>6, UnknownCodes
  <2>2. NameOf(BraOps, k) = "-"
    BY <2>1 DEF Named
  <2>3. BranchText(k) = IF k.rs2 # 0 /\ k.rs1 = 0 THEN NameOf(brazi_name, k)
                        ELSE NameOf(bra_name, k)
    BY DEF BranchText, NameOf
  <2>4. BranchText(k) = "???"
    BY <2>1, <2>2, <2>3, DisasmTables
  <2> QED BY <1>6, <2>2, <2>4, DisasmByOpcode, RvInsnByOpcode, ShownOrNot
<1>7. CASE k.opc = 103
  BY <1>7, DisasmByOpcode, RvInsnByOpcode, ShownOrNot
<1>8. CASE k.opc = 115
  <2>1. k.f3 \in {0, 4}
    BY <1>8, UnknownCodes, AlwaysNamed
  <2>2. SystemName(k) = "???" /\ Called(k) = "-"
    BY UnknownCodes DEF Called
  <2> QED BY <1>8, <2>1, <2>2, DisasmByOpcode, RvInsnByOpcode, ShownOrNot
<1>9. CASE k.opc \notin {51, 19, 35, 3, 55, 23, 111, 103, 99, 115}
  BY <1>9, DisasmByOpcode, RvInsnByOpcode
<1> QED BY <1>1, <1>2, <1>3, <1>4, <1>5, <1>6, <1>7, <1>8, <1>9

-----------------------------------------------------------------------------
(* The codes of 16 bits: each has a name, and decodeCompressed ends the     *)
(* program at none that decomp16_table has a code for.                      *)
CompressedNames ==
  {"ADDI4SPN", "LW", "SW", "NOP", "ADDI16SP", "LUI", "ADDI", "JAL", "LI", "J", "BEQZ", "BNEZ",
   "SRLI", "SRAI", "ANDI", "SUB", "XOR", "OR", "AND", "JR", "MV", "EBREAK", "JALR", "ADD",
   "SLLI", "LWSP", "SWSP", "ILLEGAL", "FLOAT"}

Half(n) == n \in 0 .. 2^16 - 1 /\ n % 4 # 3

LEMMA Parts16 ==
  ASSUME NEW n, Half(n)
  PROVE  /\ n \in Nat /\ Quadrant(n) \in {0, 1, 2} /\ F3(n) \in 0 .. 7
         /\ R3b2(n) \in 8 .. 15 /\ R3b7(n) \in 8 .. 15
         /\ R5b2(n) \in 0 .. 31 /\ R5b7(n) \in 0 .. 31
         /\ B(n, 12, 12) \in 0 .. 1 /\ B(n, 11, 10) \in 0 .. 3 /\ B(n, 6, 5) \in 0 .. 3
         /\ n = 0 \/ n = 1 => F3(n) = 0
BY DEF Half, Quadrant, F3, R3b2, R3b7, R5b2, R5b7, B, Field

LEMMA EachPart16 ==
  ASSUME NEW n, Half(n)
  PROVE  /\ \/ F3(n) = 0 \/ F3(n) = 1 \/ F3(n) = 2 \/ F3(n) = 3
            \/ F3(n) = 4 \/ F3(n) = 5 \/ F3(n) = 6 \/ F3(n) = 7
         /\ B(n, 11, 10) = 0 \/ B(n, 11, 10) = 1 \/ B(n, 11, 10) = 2 \/ B(n, 11, 10) = 3
         /\ B(n, 6, 5) = 0 \/ B(n, 6, 5) = 1 \/ B(n, 6, 5) = 2 \/ B(n, 6, 5) = 3
         /\ B(n, 12, 12) = 0 \/ B(n, 12, 12) = 1
         /\ Quadrant(n) = 0 \/ Quadrant(n) = 1 \/ Quadrant(n) = 2
BY Parts16

LEMMA EveryName ==
  ASSUME NEW n, Half(n)
  PROVE  Name(n) \in CompressedNames
<1>1. ArithName(n) \in CompressedNames
  BY EachPart16 DEF ArithName, CompressedNames
<1>2. JumpName(n) \in CompressedNames
  BY EachPart16 DEF JumpName, CompressedNames
<1>3. CASE Quadrant(n) = 0
  BY <1>3, EachPart16 DEF Name, CompressedNames
<1>4. CASE Quadrant(n) = 1
  <2>1. n # 0
    BY <1>4 DEF Quadrant
  <2>2. CASE F3(n) \in {3, 4} \/ n = 1
    BY <1>1, <1>4, <2>1, <2>2 DEF Name, CompressedNames
  <2>3. CASE F3(n) \notin {3, 4} /\ n # 1
    <3>1. Name(n) = <<"ADDI", "JAL", "LI", "-", "-", "J", "BEQZ", "BNEZ">>[F3(n) + 1]
      BY <1>4, <2>1, <2>3 DEF Name
    <3> QED BY <2>3, <3>1, EachPart16 DEF CompressedNames
  <2> QED BY <2>2, <2>3
<1>5. CASE Quadrant(n) = 2
  <2>1. n # 0
    BY <1>5 DEF Quadrant
  <2>2. CASE F3(n) = 4
    BY <1>2, <1>5, <2>1, <2>2 DEF Name
  <2>3. CASE F3(n) # 4
    <3>1. Name(n) = <<"SLLI", "FLOAT", "LWSP", "FLOAT", "-", "FLOAT", "SWSP", "FLOAT">>[F3(n) + 1]
      BY <1>5, <2>1, <2>3 DEF Name
    <3> QED BY <2>3, <3>1, EachPart16 DEF CompressedNames
  <2> QED BY <2>2, <2>3
<1> QED BY <1>3, <1>4, <1>5, EachPart16

LEMMA NotFatal ==
  ASSUME NEW op, NEW rd, NEW rs1, NEW rs2, NEW imm
  PROVE  Insn(op, rd, rs1, rs2, imm) # Fatal /\ Insn(op, rd, rs1, rs2, imm) # None
<1>1. DOMAIN Insn(op, rd, rs1, rs2, imm) = {"op", "rd", "rs1", "rs2", "imm"}
  BY DEF Insn
<1>2. DOMAIN None = {"op"} /\ DOMAIN Fatal = {"op"}
  BY DEF None, Fatal
<1> QED BY <1>1, <1>2

LEMMA DecompressedIsListed ==
  ASSUME NEW n, Half(n), decodeCompressed(n) = Fatal
  PROVE  Decomp16(n) = None
<1>1. Name(n) \in {"FLOAT", "ILLEGAL"}
  BY EveryName, NotFatal DEF decodeCompressed, Unhandled, CompressedNames
<1>2. ~InTable(n)
  BY <1>1 DEF InTable
<1> QED BY <1>2 DEF Decomp16

-----------------------------------------------------------------------------
(* The inductive invariant.  Each reader leaves what it read of the word,   *)
(* which no step changes.                                                   *)
Coded ==
  \/ word.len = 2 /\ word.code \in Halves
  \/ word.len = 4 /\ word.code \in Fulls
ReadOnly16 == fast # Fatal
ShownIsText == shown \in {Unset, Text}
WrittenIsStatement ==
  written \in {Unset, IF Compressed16 THEN None ELSE rv_insn(word.code)}
IssuedIsDecoded == stage = "ran" => Executable /\ issued = Filled(decode2vliw(code32))
ListedOrFatal == stage = "exit" => ~Executable
Listing == IF Compressed16 THEN decodeCompressed(word.code) ELSE decode2vliw(word.code)
FastIsListing == fast # None => Compressed16 /\ fast = Listing
ListedIsListing == listed # Unset => listed = Filled(Listing)
IInv == /\ Coded /\ ReadOnly16 /\ ShownIsText /\ WrittenIsStatement
        /\ IssuedIsDecoded /\ ListedOrFatal /\ FastIsListing /\ ListedIsListing

LEMMA Assumed == (\A n \in Halves : Half(n)) /\ (\A k \in Fulls : k \in Fields)
<1>1. \A n \in Halves : Half(n)
  BY CodeAssumption DEF Half
<1>2. \A k \in Fulls : k \in Fields
  BY CodeAssumption
<1> QED BY <1>1, <1>2

LEMMA InitImplies == Init => IInv
<1> SUFFICES ASSUME Init PROVE IInv
  OBVIOUS
<1>1. Coded
  BY DEF Init, Coded
<1>2. ReadOnly16 /\ ShownIsText /\ WrittenIsStatement /\ IssuedIsDecoded /\ ListedOrFatal
  BY DEF Init, ReadOnly16, ShownIsText, WrittenIsStatement, IssuedIsDecoded, ListedOrFatal,
         None, Fatal
<1>3. FastIsListing /\ ListedIsListing
  BY DEF Init, FastIsListing, ListedIsListing
<1> QED BY <1>1, <1>2, <1>3 DEF IInv

(* What is listed as fatal could not be executed either.                    *)
LEMMA FatalIsNotExecutable ==
  ASSUME IInv, Decoded = Fatal
  PROVE  ~Executable
<1>1. CASE Compressed16
  <2>1. word.code \in Halves
    BY <1>1 DEF IInv, Coded, Compressed16
  <2>2. Half(word.code)
    BY <2>1, Assumed
  <2>3. decodeCompressed(word.code) = Fatal
    BY <1>1 DEF Decoded, IInv, ReadOnly16
  <2>4. Decomp16(word.code) = None
    BY <2>2, <2>3, DecompressedIsListed
  <2> QED BY <1>1, <2>4 DEF Executable, code32
<1>2. CASE ~Compressed16
  BY <1>2 DEF Decoded, Executable, code32
<1> QED BY <1>1, <1>2

(* The second time that a 16 bit code is listed, it is taken from fastTable.*)
LEMMA DecodedIsListing ==
  ASSUME IInv
  PROVE  Decoded = Listing
BY DEF IInv, FastIsListing, Decoded, Listing

LEMMA ListingStays ==
  ASSUME IInv, [Next]_vars, word' = word
  PROVE  FastIsListing' /\ ListedIsListing'
<1>1. Listing' = Listing /\ Compressed16' = Compressed16
  BY DEF Listing, Compressed16
<1>2. CASE Disassemble
  <2>1. fast' = (IF Compressed16 THEN Listing ELSE fast) /\ listed' = Filled(Listing)
    BY <1>2, DecodedIsListing DEF Disassemble
  <2> QED BY <1>1, <2>1 DEF IInv, FastIsListing, ListedIsListing, Filled
<1>3. CASE UNCHANGED <<listed, fast>>
  BY <1>1, <1>3 DEF IInv, FastIsListing, ListedIsListing, Filled
<1> QED BY <1>2, <1>3
        DEF Next, DisassembleFatal, NextTool, Compile, Run, RunEnds, vars

LEMMA Consecution == IInv /\ [Next]_vars => IInv'
<1> SUFFICES ASSUME IInv, [Next]_vars PROVE IInv'
  OBVIOUS
<1>0. word' = word
  BY DEF Next, Disassemble, DisassembleFatal, NextTool, Compile, Run, RunEnds, vars
<1>1. /\ Coded' = Coded /\ Compressed16' = Compressed16 /\ Text' = Text
      /\ code32' = code32 /\ Executable' = Executable
      /\ FastIsListing' /\ ListedIsListing'
  BY <1>0, ListingStays DEF Coded, Compressed16, Text, code32, Executable
<1>2. CASE Disassemble
  <2>1. fast' # Fatal
    BY <1>2 DEF Disassemble, IInv, ReadOnly16
  <2> QED BY <1>0, <1>1, <1>2, <2>1
      DEF Disassemble, IInv, ReadOnly16, ShownIsText, WrittenIsStatement, IssuedIsDecoded,
          ListedOrFatal
<1>3. CASE DisassembleFatal
  BY <1>0, <1>1, <1>3, FatalIsNotExecutable
  DEF DisassembleFatal, IInv, ReadOnly16, ShownIsText, WrittenIsStatement, IssuedIsDecoded,
      ListedOrFatal
<1>4. CASE NextTool
  BY <1>0, <1>1, <1>4
  DEF NextTool, IInv, ReadOnly16, ShownIsText, WrittenIsStatement, IssuedIsDecoded,
      ListedOrFatal
<1>5. CASE Compile
  BY <1>0, <1>1, <1>5
  DEF Compile, IInv, ReadOnly16, ShownIsText, WrittenIsStatement, IssuedIsDecoded,
      ListedOrFatal
<1>6. CASE Run
  BY <1>0, <1>1, <1>6
  DEF Run, IInv, ReadOnly16, ShownIsText, WrittenIsStatement, IssuedIsDecoded, ListedOrFatal
<1>7. CASE RunEnds
  BY <1>0, <1>1, <1>7
  DEF RunEnds, IInv, ReadOnly16, ShownIsText, WrittenIsStatement, IssuedIsDecoded,
      ListedOrFatal
<1>8. CASE UNCHANGED vars
  BY <1>0, <1>1, <1>8
  DEF vars, IInv, ReadOnly16, ShownIsText, WrittenIsStatement, IssuedIsDecoded,
      ListedOrFatal
<1> QED BY <1>2, <1>3, <1>4, <1>5, <1>6, <1>7, <1>8 DEF Next

(* What each reader leaves is what it makes of the word.                    *)
THEOREM Invariance == Spec => []IInv
BY InitImplies, Consecution, PTL DEF Spec

(* A listing does not end a program that would have run (Tools,             *)
(* disasm_all): where decodeCompressed or decode2vliw gives up, run does.   *)
THEOREM ListsWhatRuns == Spec => []ListingIsHarmless
<1>1. IInv => ListingIsHarmless
  BY DEF IInv, ListedOrFatal, ListingIsHarmless
<1> QED BY Invariance, <1>1, PTL

(* What the run issues, when it is not the NOP it has for want of a row.    *)
LEMMA KnownIsIssued ==
  ASSUME IInv, Known, ~Compressed16
  PROVE  word.code \in Fields /\ issued = decode2vliw(word.code) /\ Means(word.code, issued)
<1>1. word.code \in Fields
  BY Assumed DEF IInv, Coded, Compressed16
<1>2. code32 = word.code
  BY DEF code32
<1>3. decode2vliw(word.code) \notin {None, Fatal}
  BY <1>2 DEF Known, IInv, IssuedIsDecoded, Executable
<1>4. issued = decode2vliw(word.code)
  BY <1>2, <1>3 DEF Known, IInv, IssuedIsDecoded, Filled
<1> QED BY <1>1, <1>3, <1>4, DecodingMeans

LEMMA UnknownIsFilled ==
  ASSUME IInv, stage = "ran", ~Known, ~Compressed16
  PROVE  word.code \in Fields /\ NoRow(word.code)
<1>1. word.code \in Fields
  BY Assumed DEF IInv, Coded, Compressed16
<1>2. decode2vliw(word.code) = None
  BY DEF Known, code32
<1> QED BY <1>1, <1>2, UnknownHasNoRow

(* The text that disasm shows beside an instruction is that of the          *)
(* instruction which the run executes (Tools: disasm and decode2vliw have   *)
(* tables and shifts of their own).                                         *)
THEOREM ListsTheInstruction == Spec => []TextAgrees
<1>1. ASSUME IInv, stage = "ran", shown # Unset
      PROVE  IF Known THEN IF Nameless THEN shown \in {None, Unreadable}
                           ELSE Plain(shown) = Plain(issued)
             ELSE shown \in {None, Unreadable} \/ shown.op = "JALR"
  <2>1. shown = Text
    BY <1>1 DEF IInv, ShownIsText
  <2>2. CASE Compressed16
    BY <2>1, <2>2 DEF Text, Nameless
  <2>3. CASE ~Compressed16 /\ Known
    <3>1. word.code \in Fields /\ Agree(word.code, issued)
      BY <1>1, <2>3, KnownIsIssued, MeaningAgrees
    <3>2. Nameless <=> NoText(issued)
      BY <2>3 DEF Nameless, NoText
    <3> QED BY <2>1, <2>3, <3>1, <3>2 DEF Text, Agree
  <2>4. CASE ~Compressed16 /\ ~Known
    <3>1. word.code \in Fields /\ NoRow(word.code)
      BY <1>1, <2>4, UnknownIsFilled
    <3> QED BY <2>1, <2>4, <3>1, UnknownAgrees DEF Text
  <2> QED BY <2>2, <2>3, <2>4
<1>2. IInv => TextAgrees
  BY <1>1 DEF TextAgrees
<1> QED BY Invariance, <1>2, PTL

(* The statement that rv_compile writes is that of the instruction which    *)
(* the run executes, but for what rv_insn leaves out.                       *)
THEOREM TranslatesTheInstruction == Spec => []StatementAgrees
<1>1. ASSUME IInv, stage = "ran", written # Unset
      PROVE  IF Known THEN IF Untranslated THEN written = None
                           ELSE Plain(written) = Plain(issued)
             ELSE written = None \/ written.op \in {"JALR", "SLLI", "SRLI"}
  <2>1. written = IF Compressed16 THEN None ELSE rv_insn(word.code)
    BY <1>1 DEF IInv, WrittenIsStatement
  <2>2. CASE Compressed16
    BY <2>1, <2>2 DEF Untranslated
  <2>3. CASE ~Compressed16 /\ Known
    <3>1. word.code \in Fields /\ Agree(word.code, issued)
      BY <1>1, <2>3, KnownIsIssued, MeaningAgrees
    <3>2. Untranslated <=> NoStatement(issued)
      BY <2>3 DEF Untranslated, NoStatement
    <3> QED BY <2>1, <2>3, <3>1, <3>2 DEF Agree
  <2>4. CASE ~Compressed16 /\ ~Known
    <3>1. word.code \in Fields /\ NoRow(word.code)
      BY <1>1, <2>4, UnknownIsFilled
    <3> QED BY <2>1, <2>4, <3>1, UnknownAgrees
  <2> QED BY <2>2, <2>3, <2>4
<1>2. IInv => StatementAgrees
  BY <1>1 DEF StatementAgrees
<1> QED BY Invariance, <1>2, PTL

-----------------------------------------------------------------------------
(* The assembler takes an instruction back to the code that it comes from.  *)
(* First, decomp16_table holds codes.                                       *)
Reg(r) == r \in 0 .. 31

LEMMA FormatTypes ==
  /\ \A imm, rs1, f3, rd, opc :
       imm \in Int /\ Reg(rs1) /\ f3 \in 0 .. 7 /\ Reg(rd) /\ opc \in 0 .. 127
       => IType(imm, rs1, f3, rd, opc) \in Fields
  /\ \A imm, rs2, rs1, f3, opc :
       imm \in Int /\ Reg(rs2) /\ Reg(rs1) /\ f3 \in 0 .. 7 /\ opc \in 0 .. 127
       => SType(imm, rs2, rs1, f3, opc) \in Fields /\ BType(imm, rs2, rs1, f3, opc) \in Fields
  /\ \A imm, rd, opc :
       imm \in Int /\ Reg(rd) /\ opc \in 0 .. 127
       => UType(imm, rd, opc) \in Fields /\ JType(imm, rd, opc) \in Fields
<1>1. ASSUME NEW imm, NEW rs1, NEW f3, NEW rd, NEW opc,
             imm \in Int, Reg(rs1), f3 \in 0 .. 7, Reg(rd), opc \in 0 .. 127
      PROVE  IType(imm, rs1, f3, rd, opc) \in Fields
  BY <1>1 DEF IType, Code, Field, Fields, Reg
<1>2. ASSUME NEW imm, NEW rs2, NEW rs1, NEW f3, NEW opc,
             imm \in Int, Reg(rs2), Reg(rs1), f3 \in 0 .. 7, opc \in 0 .. 127
      PROVE  SType(imm, rs2, rs1, f3, opc) \in Fields /\ BType(imm, rs2, rs1, f3, opc) \in Fields
  <2>1. SType(imm, rs2, rs1, f3, opc) \in Fields
    BY <1>2 DEF SType, Code, Field, Fields, Reg
  <2>2. BType(imm, rs2, rs1, f3, opc) \in Fields
    BY <1>2 DEF BType, Code, Field, Fields, Reg
  <2> QED BY <2>1, <2>2
<1>3. ASSUME NEW imm, NEW rd, NEW opc, imm \in Int, Reg(rd), opc \in 0 .. 127
      PROVE  UType(imm, rd, opc) \in Fields
  BY <1>3 DEF UType, Code, Field, Fields, Reg
<1>4. ASSUME NEW imm, NEW rd, NEW opc, imm \in Int, Reg(rd), opc \in 0 .. 127
      PROVE  JType(imm, rd, opc) \in Fields
  <2>1. Field(imm, 20, 20) * 2^19 + Field(imm, 10, 1) * 2^9
        + Field(imm, 11, 11) * 2^8 + Field(imm, 19, 12) \in Int
    BY <1>4 DEF Field
  <2> QED BY <1>3, <1>4, <2>1 DEF JType
<1> QED BY <1>1, <1>2, <1>3, <1>4

LEMMA ImmediateTypes ==
  ASSUME NEW n, Half(n)
  PROVE  /\ Imm(n) \in Int /\ Jump(n) \in Int /\ Branch(n) \in Int /\ Word(n) \in Int
         /\ Add4Spn(n) \in Int /\ Add16Sp(n) \in Int /\ LwSp(n) \in Int /\ SwSp(n) \in Int
<1>1. \A i, bits : i \in Int /\ bits \in {6, 9, 10, 12} => Signed(i, bits) \in Int
  BY DEF Signed
<1>2. /\ Gather(n, 12, <<5>>) \in Int /\ Gather(n, 6, <<4, 3, 2, 1, 0>>) \in Int
      /\ Gather(n, 12, <<11, 4, 9, 8, 10, 6, 7, 3, 2, 1, 5>>) \in Int
  BY DEF Half, Gather, B, Field
<1>3. /\ Gather(n, 12, <<8, 4, 3>>) \in Int /\ Gather(n, 6, <<7, 6, 2, 1, 5>>) \in Int
      /\ Gather(n, 12, <<5, 4, 3>>) \in Int /\ Gather(n, 6, <<2, 6>>) \in Int
  BY DEF Half, Gather, B, Field
<1>4. /\ Gather(n, 12, <<5, 4, 9, 8, 7, 6, 2, 3>>) \in Int
      /\ Gather(n, 12, <<9>>) \in Int /\ Gather(n, 6, <<4, 6, 8, 7, 5>>) \in Int
  BY DEF Half, Gather, B, Field
<1>5. /\ Gather(n, 6, <<4, 3, 2, 7, 6>>) \in Int
      /\ Gather(n, 12, <<5, 4, 3, 2, 7, 6>>) \in Int
  BY DEF Half, Gather, B, Field
<1>6. Imm(n) \in Int /\ Jump(n) \in Int
  BY <1>1, <1>2 DEF Imm, Jump
<1>7. Branch(n) \in Int /\ Word(n) \in Int
  BY <1>1, <1>3 DEF Branch, Word
<1>8. Add4Spn(n) \in Int /\ Add16Sp(n) \in Int
  BY <1>1, <1>4 DEF Add4Spn, Add16Sp
<1>9. LwSp(n) \in Int /\ SwSp(n) \in Int
  BY <1>2, <1>5 DEF LwSp, SwSp
<1> QED BY <1>6, <1>7, <1>8, <1>9

LEMMA TableHoldsCodes ==
  ASSUME NEW n, Half(n), Decomp16(n) # None
  PROVE  Decomp16(n) \in Fields
<1>1. InTable(n) /\ Decomp16(n) = Expansion(n)
  BY DEF Decomp16
<1>2. Name(n) \in CompressedNames \ {"FLOAT", "ILLEGAL"}
  BY <1>1, EveryName DEF InTable
<1>3. /\ Reg(R3b2(n)) /\ Reg(R3b7(n)) /\ Reg(R5b2(n)) /\ Reg(R5b7(n))
      /\ Reg(0) /\ Reg(1) /\ Reg(2)
  BY Parts16 DEF Reg
<1>4. CASE Name(n) \in {"ADDI4SPN", "LW", "NOP", "ADDI", "LI", "ADDI16SP", "ANDI", "LWSP",
                        "JR", "JALR", "EBREAK"}
  <2>1. \/ Expansion(n) = IType(Add4Spn(n), 2, 0, R3b2(n), 19)
        \/ Expansion(n) = IType(Word(n), R3b7(n), 2, R3b2(n), 3)
        \/ Expansion(n) = IType(Imm(n), R5b7(n), 0, R5b7(n), 19)
        \/ Expansion(n) = IType(Imm(n), 0, 0, R5b7(n), 19)
        \/ Expansion(n) = IType(Add16Sp(n), 2, 0, 2, 19)
        \/ Expansion(n) = IType(Imm(n), R3b7(n), 7, R3b7(n), 19)
        \/ Expansion(n) = IType(LwSp(n), 2, 2, R5b7(n), 3)
        \/ Expansion(n) = IType(0, R5b7(n), 0, 0, 103)
        \/ Expansion(n) = IType(0, R5b7(n), 0, 1, 103)
        \/ Expansion(n) = IType(1, 0, 0, 0, 115)
    BY <1>4 DEF Expansion
  <2> QED BY <1>1, <1>3, <2>1, FormatTypes, ImmediateTypes
<1>5. CASE Name(n) \in {"SW", "JAL", "J", "LUI", "BEQZ", "BNEZ", "SWSP"}
  <2>1. \/ Expansion(n) = SType(Word(n), R3b2(n), R3b7(n), 2, 35)
        \/ Expansion(n) = JType(Jump(n), 1, 111)
        \/ Expansion(n) = JType(Jump(n), 0, 111)
        \/ Expansion(n) = UType(Imm(n), R5b7(n), 55)
        \/ Expansion(n) = BType(Branch(n), 0, R3b7(n), 0, 99)
        \/ Expansion(n) = BType(Branch(n), 0, R3b7(n), 1, 99)
        \/ Expansion(n) = SType(SwSp(n), R5b2(n), 2, 2, 35)
    BY <1>5 DEF Expansion
  <2> QED BY <1>1, <1>3, <2>1, FormatTypes, ImmediateTypes
<1>6. CASE Name(n) \in {"SRLI", "SRAI", "SLLI", "SUB", "XOR", "OR", "AND", "MV", "ADD"}
  <2>1. \/ Expansion(n) = Shift(n, 0, 5) \/ Expansion(n) = Shift(n, 32, 5)
        \/ Expansion(n) = Code(0, R5b2(n), R5b7(n), 1, R5b7(n), 19)
        \/ Expansion(n) = Alu(n, 32, 0) \/ Expansion(n) = Alu(n, 0, 4)
        \/ Expansion(n) = Alu(n, 0, 6) \/ Expansion(n) = Alu(n, 0, 7)
        \/ Expansion(n) = Code(0, R5b2(n), 0, 0, R5b7(n), 51)
        \/ Expansion(n) = Code(0, R5b2(n), R5b7(n), 0, R5b7(n), 51)
    BY <1>6 DEF Expansion
  <2> QED BY <1>1, <1>3, <2>1 DEF Shift, Alu, Code, Fields, Reg
<1> QED BY <1>2, <1>4, <1>5, <1>6 DEF CompressedNames

(* The tables of the assembler are those of optable, entry by entry.        *)
LEMMA AssemblerNames ==
  ASSUME NEW op
  PROVE  /\ A!In(A!Registers, op)
              <=> op \in {"ADD", "SLL", "SLT", "SLTU", "XOR", "SRL", "OR", "AND"}
         /\ A!In(A!Constants, op)
              <=> op \in {"ADDI", "SLTI", "SLTIU", "XORI", "ORI", "ANDI", "-"}
         /\ A!In(A!Loads, op) <=> op \in {"LB", "LH", "LW", "LBU", "LHU", "-"}
         /\ A!In(A!Stores, op) <=> op \in {"SB", "SH", "SW"}
         /\ A!In(A!Branches, op) <=> op \in {"BEQ", "BNE", "BLT", "BGE", "BLTU", "BGEU", "-"}
         /\ A!In(A!Csrs, op)
              <=> op \in {"CSRRW", "CSRRS", "CSRRC", "CSRRWI", "CSRRSI", "CSRRCI", "-"}
<1>1. A!In(A!Registers, op)
        <=> op \in {"ADD", "SLL", "SLT", "SLTU", "XOR", "SRL", "OR", "AND"}
  BY DEF A!In, A!Registers
<1>2. A!In(A!Constants, op) <=> op \in {"ADDI", "SLTI", "SLTIU", "XORI", "ORI", "ANDI", "-"}
  BY DEF A!In, A!Constants
<1>3. A!In(A!Loads, op) <=> op \in {"LB", "LH", "LW", "LBU", "LHU", "-"}
  BY DEF A!In, A!Loads
<1>4. A!In(A!Stores, op) <=> op \in {"SB", "SH", "SW"}
  BY DEF A!In, A!Stores
<1>5. A!In(A!Branches, op) <=> op \in {"BEQ", "BNE", "BLT", "BGE", "BLTU", "BGEU", "-"}
  BY DEF A!In, A!Branches
<1>6. A!In(A!Csrs, op)
        <=> op \in {"CSRRW", "CSRRS", "CSRRC", "CSRRWI", "CSRRSI", "CSRRCI", "-"}
  BY DEF A!In, A!Csrs
<1> QED BY <1>1, <1>2, <1>3, <1>4, <1>5, <1>6

LEMMA PlaceOf ==
  ASSUME NEW ops, NEW op, NEW f \in 0 .. 7, f + 1 \in DOMAIN ops, ops[f + 1] = op,
         \A p \in DOMAIN ops : ops[p] = op => p = f + 1
  PROVE  A!Place(ops, op) = f
<1>1. (CHOOSE p \in DOMAIN ops : ops[p] = op) = f + 1
  OBVIOUS
<1> QED BY <1>1 DEF A!Place

LEMMA Places ==
  ASSUME NEW k \in Fields
  PROVE  /\ A!Place(A!Registers, NameOf(RegOps, k)) = k.f3
         /\ A!Place(A!Muldiv, NameOf(MulOps, k)) = k.f3
         /\ Named(ImmOps, k) => A!Place(A!Constants, NameOf(ImmOps, k)) = k.f3
         /\ Named(LoadOps, k) => A!Place(A!Loads, NameOf(LoadOps, k)) = k.f3
         /\ Named(StoreOps, k) => A!Place(A!Stores, NameOf(StoreOps, k)) = k.f3
         /\ Named(BraOps, k) => A!Place(A!Branches, NameOf(BraOps, k)) = k.f3
         /\ Named(CsrOps, k) => A!Place(A!Csrs, NameOf(CsrOps, k)) = k.f3
<1>1. /\ A!Place(A!Registers, "ADD") = 0 /\ A!Place(A!Registers, "SLL") = 1
      /\ A!Place(A!Registers, "SLT") = 2 /\ A!Place(A!Registers, "SLTU") = 3
      /\ A!Place(A!Registers, "XOR") = 4 /\ A!Place(A!Registers, "SRL") = 5
      /\ A!Place(A!Registers, "OR") = 6 /\ A!Place(A!Registers, "AND") = 7
  BY DEF A!Place, A!Registers
<1>2. /\ A!Place(A!Muldiv, "MUL") = 0 /\ A!Place(A!Muldiv, "MULH") = 1
      /\ A!Place(A!Muldiv, "MULHSU") = 2 /\ A!Place(A!Muldiv, "MULHU") = 3
      /\ A!Place(A!Muldiv, "DIV") = 4 /\ A!Place(A!Muldiv, "DIVU") = 5
      /\ A!Place(A!Muldiv, "REM") = 6 /\ A!Place(A!Muldiv, "REMU") = 7
  BY DEF A!Place, A!Muldiv
<1>3. /\ A!Place(A!Constants, "ADDI") = 0 /\ A!Place(A!Constants, "SLTI") = 2
      /\ A!Place(A!Constants, "SLTIU") = 3 /\ A!Place(A!Constants, "XORI") = 4
      /\ A!Place(A!Constants, "ORI") = 6 /\ A!Place(A!Constants, "ANDI") = 7
  BY DEF A!Place, A!Constants
<1>4. /\ A!Place(A!Loads, "LB") = 0 /\ A!Place(A!Loads, "LH") = 1
      /\ A!Place(A!Loads, "LW") = 2 /\ A!Place(A!Loads, "LBU") = 4
      /\ A!Place(A!Loads, "LHU") = 5
  BY DEF A!Place, A!Loads
<1>5. /\ A!Place(A!Stores, "SB") = 0 /\ A!Place(A!Stores, "SH") = 1
      /\ A!Place(A!Stores, "SW") = 2
  BY DEF A!Place, A!Stores
<1>6. /\ A!Place(A!Branches, "BEQ") = 0 /\ A!Place(A!Branches, "BNE") = 1
      /\ A!Place(A!Branches, "BLT") = 4 /\ A!Place(A!Branches, "BGE") = 5
      /\ A!Place(A!Branches, "BLTU") = 6 /\ A!Place(A!Branches, "BGEU") = 7
  BY DEF A!Place, A!Branches
<1>7. /\ A!Place(A!Csrs, "CSRRW") = 1 /\ A!Place(A!Csrs, "CSRRS") = 2
      /\ A!Place(A!Csrs, "CSRRC") = 3 /\ A!Place(A!Csrs, "CSRRWI") = 5
      /\ A!Place(A!Csrs, "CSRRSI") = 6 /\ A!Place(A!Csrs, "CSRRCI") = 7
  BY DEF A!Place, A!Csrs
<1>8. A!Place(A!Registers, NameOf(RegOps, k)) = k.f3
  BY <1>1, OptableNames, EachF3 DEF ByF3
<1>9. A!Place(A!Muldiv, NameOf(MulOps, k)) = k.f3
  BY <1>2, OptableNames, EachF3 DEF ByF3
<1>10. Named(ImmOps, k) => A!Place(A!Constants, NameOf(ImmOps, k)) = k.f3
  BY <1>3, OptableNames, EachF3 DEF ByF3, Named
<1>11. Named(LoadOps, k) => A!Place(A!Loads, NameOf(LoadOps, k)) = k.f3
  BY <1>4, OptableNames, EachF3 DEF ByF3, Named
<1>12. Named(StoreOps, k) => A!Place(A!Stores, NameOf(StoreOps, k)) = k.f3
  BY <1>5, OptableNames, EachF3 DEF ByF3, Named
<1>13. Named(BraOps, k) => A!Place(A!Branches, NameOf(BraOps, k)) = k.f3
  BY <1>6, OptableNames, EachF3 DEF ByF3, Named
<1>14. Named(CsrOps, k) => A!Place(A!Csrs, NameOf(CsrOps, k)) = k.f3
  BY <1>7, OptableNames, EachF3 DEF ByF3, Named
<1> QED BY <1>8, <1>9, <1>10, <1>11, <1>12, <1>13, <1>14

(* The assembler is written from the formats that the decoders use.         *)
LEMMA SameFormats ==
  ASSUME NEW imm, NEW f7, NEW rs2, NEW rs1, NEW f3, NEW rd, NEW opc
  PROVE  /\ A!Code(f7, rs2, rs1, f3, rd, opc) = Code(f7, rs2, rs1, f3, rd, opc)
         /\ A!IType(imm, rs1, f3, rd, opc) = IType(imm, rs1, f3, rd, opc)
         /\ A!SType(imm, rs2, rs1, f3, opc) = SType(imm, rs2, rs1, f3, opc)
         /\ A!BType(imm, rs2, rs1, f3, opc) = BType(imm, rs2, rs1, f3, opc)
         /\ A!UType(imm, rd, opc) = UType(imm, rd, opc)
         /\ A!JType(imm, rd, opc) = JType(imm, rd, opc)
<1>1. A!Code(f7, rs2, rs1, f3, rd, opc) = Code(f7, rs2, rs1, f3, rd, opc)
  BY DEF A!Code, Code
<1>2. A!IType(imm, rs1, f3, rd, opc) = IType(imm, rs1, f3, rd, opc)
  BY DEF A!IType, A!Code, A!Field, IType, Code, Field
<1>3. A!SType(imm, rs2, rs1, f3, opc) = SType(imm, rs2, rs1, f3, opc)
  BY DEF A!SType, A!Code, A!Field, SType, Code, Field
<1>4. A!BType(imm, rs2, rs1, f3, opc) = BType(imm, rs2, rs1, f3, opc)
  BY DEF A!BType, A!Code, A!Field, BType, Code, Field
<1>5. A!UType(imm, rd, opc) = UType(imm, rd, opc)
  BY DEF A!UType, A!Code, A!Field, UType, Code, Field
<1>6. A!JType(imm, rd, opc) = JType(imm, rd, opc)
  BY DEF A!JType, A!UType, A!Code, A!Field, JType, UType, Code, Field
<1> QED BY <1>1, <1>2, <1>3, <1>4, <1>5, <1>6

LEMMA EncodeByName ==
  ASSUME NEW v
  PROVE  /\ v.op \in {"ADD", "SLL", "SLT", "SLTU", "XOR", "SRL", "OR", "AND"} =>
              A!Encode(v) = Code(0, v.rs2, v.rs1, A!Place(A!Registers, v.op), v.rd, 51)
         /\ v.op \in {"MUL", "MULH", "MULHSU", "MULHU", "DIV", "DIVU", "REM", "REMU"} =>
              A!Encode(v) = Code(1, v.rs2, v.rs1, A!Place(A!Muldiv, v.op), v.rd, 51)
         /\ v.op = "SUB" => A!Encode(v) = Code(32, v.rs2, v.rs1, 0, v.rd, 51)
         /\ v.op = "SRA" => A!Encode(v) = Code(32, v.rs2, v.rs1, 5, v.rd, 51)
         /\ v.op \in {"ADDI", "SLTI", "SLTIU", "XORI", "ORI", "ANDI"} =>
              A!Encode(v) = IType(v.imm, v.rs1, A!Place(A!Constants, v.op), v.rd, 19)
         /\ v.op = "SLLI" => A!Encode(v) = Code(0, v.imm, v.rs1, 1, v.rd, 19)
         /\ v.op = "SRLI" => A!Encode(v) = Code(0, v.imm, v.rs1, 5, v.rd, 19)
         /\ v.op = "SRAI" => A!Encode(v) = Code(32, v.imm, v.rs1, 5, v.rd, 19)
         /\ v.op \in {"LB", "LH", "LW", "LBU", "LHU"} =>
              A!Encode(v) = IType(v.imm, v.rs1, A!Place(A!Loads, v.op), v.rd, 3)
         /\ v.op \in {"SB", "SH", "SW"} =>
              A!Encode(v) = SType(v.imm, v.rs2, v.rs1, A!Place(A!Stores, v.op), 35)
         /\ v.op \in {"BEQ", "BNE", "BLT", "BGE", "BLTU", "BGEU"} =>
              A!Encode(v) = BType(v.imm, v.rs2, v.rs1, A!Place(A!Branches, v.op), 99)
         /\ v.op = "LUI" => A!Encode(v) = UType(v.imm, v.rd, 55)
         /\ v.op = "AUIPC" => A!Encode(v) = UType(v.imm, v.rd, 23)
         /\ v.op \in {"J", "JAL"} => A!Encode(v) = JType(v.imm, v.rd, 111)
         /\ v.op \in {"JR", "JALR"} => A!Encode(v) = IType(v.imm, v.rs1, 0, v.rd, 103)
         /\ v.op = "NOP" => A!Encode(v) = IType(0, 0, 0, 0, 19)
         /\ v.op \in {"CSRRW", "CSRRS", "CSRRC", "CSRRWI", "CSRRSI", "CSRRCI"} =>
              A!Encode(v) = IType(v.imm, v.rs1, A!Place(A!Csrs, v.op), v.rd, 115)
         /\ v.op = "ECALL" => A!Encode(v) = IType(0, 0, 0, 0, 115)
         /\ v.op = "EBREAK" => A!Encode(v) = IType(1, 0, 0, 0, 115)
         /\ v.op = "SRET" => A!Encode(v) = IType(258, 0, 0, 0, 115)
         /\ v.op = "WFI" => A!Encode(v) = IType(261, 0, 0, 0, 115)
         /\ v.op = "MRET" => A!Encode(v) = IType(770, 0, 0, 0, 115)
<1>1. v.op \in {"ADD", "SLL", "SLT", "SLTU", "XOR", "SRL", "OR", "AND"} =>
        A!Encode(v) = Code(0, v.rs2, v.rs1, A!Place(A!Registers, v.op), v.rd, 51)
  BY AssemblerNames, MuldivNames, SameFormats DEF A!Encode
<1>2. v.op \in {"MUL", "MULH", "MULHSU", "MULHU", "DIV", "DIVU", "REM", "REMU"} =>
        A!Encode(v) = Code(1, v.rs2, v.rs1, A!Place(A!Muldiv, v.op), v.rd, 51)
  BY AssemblerNames, MuldivNames, SameFormats DEF A!Encode
<1>3. v.op = "SUB" => A!Encode(v) = Code(32, v.rs2, v.rs1, 0, v.rd, 51)
  BY AssemblerNames, MuldivNames, SameFormats DEF A!Encode
<1>4. v.op = "SRA" => A!Encode(v) = Code(32, v.rs2, v.rs1, 5, v.rd, 51)
  BY AssemblerNames, MuldivNames, SameFormats DEF A!Encode
<1>5. v.op \in {"ADDI", "SLTI", "SLTIU", "XORI", "ORI", "ANDI"} =>
        A!Encode(v) = IType(v.imm, v.rs1, A!Place(A!Constants, v.op), v.rd, 19)
  BY AssemblerNames, MuldivNames, SameFormats DEF A!Encode
<1>6. v.op = "SLLI" => A!Encode(v) = Code(0, v.imm, v.rs1, 1, v.rd, 19)
  BY AssemblerNames, MuldivNames, SameFormats DEF A!Encode
<1>7. v.op = "SRLI" => A!Encode(v) = Code(0, v.imm, v.rs1, 5, v.rd, 19)
  BY AssemblerNames, MuldivNames, SameFormats DEF A!Encode
<1>8. v.op = "SRAI" => A!Encode(v) = Code(32, v.imm, v.rs1, 5, v.rd, 19)
  BY AssemblerNames, MuldivNames, SameFormats DEF A!Encode
<1>9. v.op \in {"LB", "LH", "LW", "LBU", "LHU"} =>
        A!Encode(v) = IType(v.imm, v.rs1, A!Place(A!Loads, v.op), v.rd, 3)
  BY AssemblerNames, MuldivNames, SameFormats DEF A!Encode
<1>10. v.op \in {"SB", "SH", "SW"} =>
        A!Encode(v) = SType(v.imm, v.rs2, v.rs1, A!Place(A!Stores, v.op), 35)
  BY AssemblerNames, MuldivNames, SameFormats DEF A!Encode
<1>11. v.op \in {"BEQ", "BNE", "BLT", "BGE", "BLTU", "BGEU"} =>
        A!Encode(v) = BType(v.imm, v.rs2, v.rs1, A!Place(A!Branches, v.op), 99)
  BY AssemblerNames, MuldivNames, SameFormats DEF A!Encode
<1>12. v.op = "LUI" => A!Encode(v) = UType(v.imm, v.rd, 55)
  BY AssemblerNames, MuldivNames, SameFormats DEF A!Encode
<1>13. v.op = "AUIPC" => A!Encode(v) = UType(v.imm, v.rd, 23)
  BY AssemblerNames, MuldivNames, SameFormats DEF A!Encode
<1>14. v.op \in {"J", "JAL"} => A!Encode(v) = JType(v.imm, v.rd, 111)
  BY AssemblerNames, MuldivNames, SameFormats DEF A!Encode
<1>15. v.op \in {"JR", "JALR"} => A!Encode(v) = IType(v.imm, v.rs1, 0, v.rd, 103)
  BY AssemblerNames, MuldivNames, SameFormats DEF A!Encode
<1>16. v.op = "NOP" => A!Encode(v) = IType(0, 0, 0, 0, 19)
  BY AssemblerNames, MuldivNames, SameFormats DEF A!Encode
<1>17. v.op \in {"CSRRW", "CSRRS", "CSRRC", "CSRRWI", "CSRRSI", "CSRRCI"} =>
        A!Encode(v) = IType(v.imm, v.rs1, A!Place(A!Csrs, v.op), v.rd, 115)
  BY AssemblerNames, MuldivNames, SameFormats DEF A!Encode
<1>18. v.op = "ECALL" => A!Encode(v) = IType(0, 0, 0, 0, 115)
  BY AssemblerNames, MuldivNames, SameFormats DEF A!Encode
<1>19. v.op = "EBREAK" => A!Encode(v) = IType(1, 0, 0, 0, 115)
  BY AssemblerNames, MuldivNames, SameFormats DEF A!Encode
<1>20. v.op = "SRET" => A!Encode(v) = IType(258, 0, 0, 0, 115)
  BY AssemblerNames, MuldivNames, SameFormats DEF A!Encode
<1>21. v.op = "WFI" => A!Encode(v) = IType(261, 0, 0, 0, 115)
  BY AssemblerNames, MuldivNames, SameFormats DEF A!Encode
<1>22. v.op = "MRET" => A!Encode(v) = IType(770, 0, 0, 0, 115)
  BY AssemblerNames, MuldivNames, SameFormats DEF A!Encode
<1> QED BY <1>1, <1>2, <1>3, <1>4, <1>5, <1>6, <1>7, <1>8, <1>9, <1>10, <1>11, <1>12, <1>13,
           <1>14, <1>15, <1>16, <1>17, <1>18, <1>19, <1>20, <1>21, <1>22

(* What decode2vliw makes of a code is assembled to that code.              *)
LEMMA JumpsEncode ==
  ASSUME NEW k \in Fields, NEW v, Jumps(k, v)
  PROVE  A!Encode(v) = k
<1>1. CASE k.opc = 111 /\ v = Insn("JAL", k.rd, 0, 0, doJoff(k))
  <2>1. v.op = "JAL" /\ v.rd = k.rd /\ v.imm = doJoff(k)
    BY <1>1 DEF Insn
  <2>2. JType(doJoff(k), k.rd, 111) = k
    BY <1>1, JumpImmediate
  <2> QED BY <2>1, <2>2, EncodeByName
<1>2. CASE k.opc = 111 /\ k.rd = 0 /\ v = Insn("J", 0, 0, 0, doJoff(k))
  <2>1. v.op = "J" /\ v.rd = k.rd /\ v.imm = doJoff(k)
    BY <1>2 DEF Insn
  <2>2. JType(doJoff(k), k.rd, 111) = k
    BY <1>2, JumpImmediate
  <2> QED BY <2>1, <2>2, EncodeByName
<1>3. CASE k.opc = 103 /\ k.f3 = 0 /\ v = Insn("JALR", k.rd, k.rs1, 0, Signed(Top12(k), 12))
  <2>1. v.op = "JALR" /\ v.rd = k.rd /\ v.rs1 = k.rs1 /\ v.imm = Signed(Top12(k), 12)
    BY <1>3 DEF Insn
  <2>2. IType(Signed(Top12(k), 12), k.rs1, 0, k.rd, 103) = k
    BY <1>3, OtherImmediates
  <2> QED BY <2>1, <2>2, EncodeByName
<1>4. CASE k = IType(0, k.rs1, 0, 0, 103) /\ v = Insn("JR", 0, k.rs1, 0, 0)
  <2>1. v.op = "JR" /\ v.rd = 0 /\ v.rs1 = k.rs1 /\ v.imm = 0
    BY <1>4 DEF Insn
  <2> QED BY <1>4, <2>1, EncodeByName
<1> QED BY <1>1, <1>2, <1>3, <1>4 DEF Jumps

LEMMA AccessesEncode ==
  ASSUME NEW k \in Fields, NEW v, Accesses(k, v)
  PROVE  A!Encode(v) = k
<1>1. CASE /\ k.opc = 99 /\ Named(BraOps, k)
           /\ v = Insn(NameOf(BraOps, k), 0, k.rs1, k.rs2, doBoff(k))
  <2>1. /\ v.op = NameOf(BraOps, k) /\ v.rs1 = k.rs1 /\ v.rs2 = k.rs2 /\ v.imm = doBoff(k)
    BY <1>1 DEF Insn
  <2>2. A!Encode(v) = BType(doBoff(k), k.rs2, k.rs1, k.f3, 99)
    BY <1>1, <2>1, NamesOf, Places, EncodeByName
  <2> QED BY <1>1, <2>2, OtherImmediates
<1>2. CASE /\ k.opc = 3 /\ Named(LoadOps, k)
           /\ v = Insn(NameOf(LoadOps, k), k.rd, k.rs1, 0, Signed(Top12(k), 12))
  <2>1. /\ v.op = NameOf(LoadOps, k) /\ v.rd = k.rd /\ v.rs1 = k.rs1
        /\ v.imm = Signed(Top12(k), 12)
    BY <1>2 DEF Insn
  <2>2. A!Encode(v) = IType(Signed(Top12(k), 12), k.rs1, k.f3, k.rd, 3)
    BY <1>2, <2>1, NamesOf, Places, EncodeByName
  <2> QED BY <1>2, <2>2, OtherImmediates
<1>3. CASE /\ k.opc = 35 /\ Named(StoreOps, k)
           /\ v = Insn(NameOf(StoreOps, k), 0, k.rs1, k.rs2, Signed(k.f7 * 32 + k.rd, 12))
  <2>1. /\ v.op = NameOf(StoreOps, k) /\ v.rs1 = k.rs1 /\ v.rs2 = k.rs2
        /\ v.imm = Signed(k.f7 * 32 + k.rd, 12)
    BY <1>3 DEF Insn
  <2>2. A!Encode(v) = SType(Signed(k.f7 * 32 + k.rd, 12), k.rs2, k.rs1, k.f3, 35)
    BY <1>3, <2>1, NamesOf, Places, EncodeByName
  <2> QED BY <1>3, <2>2, OtherImmediates
<1> QED BY <1>1, <1>2, <1>3 DEF Accesses

LEMMA ConstantsEncode ==
  ASSUME NEW k \in Fields, NEW v, k.opc = 19,
         \/ Named(ImmOps, k) /\ v = Insn(NameOf(ImmOps, k), k.rd, k.rs1, 0, Signed(Top12(k), 12))
         \/ \E op \in {"SLLI", "SRLI", "SRAI"} :
              /\ k.f7 = IF op = "SRAI" THEN 32 ELSE 0
              /\ k.f3 = IF op = "SLLI" THEN 1 ELSE 5
              /\ v = Insn(op, k.rd, k.rs1, 0, k.rs2)
  PROVE  A!Encode(v) = k
<1>1. CASE Named(ImmOps, k) /\ v = Insn(NameOf(ImmOps, k), k.rd, k.rs1, 0, Signed(Top12(k), 12))
  <2>1. /\ v.op = NameOf(ImmOps, k) /\ v.rd = k.rd /\ v.rs1 = k.rs1
        /\ v.imm = Signed(Top12(k), 12)
    BY <1>1 DEF Insn
  <2>2. A!Encode(v) = IType(Signed(Top12(k), 12), k.rs1, k.f3, k.rd, 19)
    BY <1>1, <2>1, NamesOf, Places, EncodeByName
  <2> QED BY <2>2, OtherImmediates
<1>2. ASSUME NEW op \in {"SLLI", "SRLI", "SRAI"},
             k.f7 = IF op = "SRAI" THEN 32 ELSE 0,
             k.f3 = IF op = "SLLI" THEN 1 ELSE 5,
             v = Insn(op, k.rd, k.rs1, 0, k.rs2)
      PROVE  A!Encode(v) = k
  <2>1. v.op = op /\ v.rd = k.rd /\ v.rs1 = k.rs1 /\ v.imm = k.rs2
    BY <1>2 DEF Insn
  <2>2. A!Encode(v) = Code(k.f7, k.rs2, k.rs1, k.f3, k.rd, 19)
    BY <1>2, <2>1, EncodeByName
  <2> QED BY <2>2, FieldTypes
<1> QED BY <1>1, <1>2

LEMMA RegistersEncode ==
  ASSUME NEW k \in Fields, NEW v, k.opc = 51,
         \/ k.f7 = 0 /\ v = Insn(NameOf(RegOps, k), k.rd, k.rs1, k.rs2, 0)
         \/ k.f7 = 1 /\ v = Insn(NameOf(MulOps, k), k.rd, k.rs1, k.rs2, 0)
         \/ k.f7 = 32 /\ k.f3 = 0 /\ v = Insn("SUB", k.rd, k.rs1, k.rs2, 0)
         \/ k.f7 = 32 /\ k.f3 = 5 /\ v = Insn("SRA", k.rd, k.rs1, k.rs2, 0)
  PROVE  A!Encode(v) = k
<1>1. v.rd = k.rd /\ v.rs1 = k.rs1 /\ v.rs2 = k.rs2
  BY DEF Insn
<1>2. A!Encode(v) = Code(k.f7, k.rs2, k.rs1, k.f3, k.rd, 51)
  <2>1. CASE k.f7 = 0 /\ v = Insn(NameOf(RegOps, k), k.rd, k.rs1, k.rs2, 0)
    <3>1. v.op = NameOf(RegOps, k)
      BY <2>1 DEF Insn
    <3> QED BY <1>1, <2>1, <3>1, NamesOf, Places, EncodeByName
  <2>2. CASE k.f7 = 1 /\ v = Insn(NameOf(MulOps, k), k.rd, k.rs1, k.rs2, 0)
    <3>1. v.op = NameOf(MulOps, k)
      BY <2>2 DEF Insn
    <3> QED BY <1>1, <2>2, <3>1, NamesOf, Places, EncodeByName
  <2>3. CASE k.f7 = 32 /\ k.f3 = 0 /\ v = Insn("SUB", k.rd, k.rs1, k.rs2, 0)
    <3>1. v.op = "SUB"
      BY <2>3 DEF Insn
    <3> QED BY <1>1, <2>3, <3>1, EncodeByName
  <2>4. CASE k.f7 = 32 /\ k.f3 = 5 /\ v = Insn("SRA", k.rd, k.rs1, k.rs2, 0)
    <3>1. v.op = "SRA"
      BY <2>4 DEF Insn
    <3> QED BY <1>1, <2>4, <3>1, EncodeByName
  <2> QED BY <2>1, <2>2, <2>3, <2>4
<1> QED BY <1>2, FieldTypes

LEMMA ComputesEncode ==
  ASSUME NEW k \in Fields, NEW v, Computes(k, v)
  PROVE  A!Encode(v) = k
<1>1. CASE k.opc = 55 /\ v = Insn("LUI", k.rd, 0, 0, Signed(Top20(k), 20))
  <2>1. v.op = "LUI" /\ v.rd = k.rd /\ v.imm = Signed(Top20(k), 20)
    BY <1>1 DEF Insn
  <2> QED BY <1>1, <2>1, EncodeByName, UpperImmediate
<1>2. CASE k.opc = 23 /\ v = Insn("AUIPC", k.rd, 0, 0, Signed(Top20(k), 20))
  <2>1. v.op = "AUIPC" /\ v.rd = k.rd /\ v.imm = Signed(Top20(k), 20)
    BY <1>2 DEF Insn
  <2> QED BY <1>2, <2>1, EncodeByName, UpperImmediate
<1>3. CASE k = IType(0, 0, 0, 0, 19) /\ v = Insn("NOP", 0, 0, 0, 0)
  <2>1. v.op = "NOP"
    BY <1>3 DEF Insn
  <2> QED BY <1>3, <2>1, EncodeByName
<1>4. CASE /\ k.opc = 19
           /\ \/ /\ Named(ImmOps, k)
                 /\ v = Insn(NameOf(ImmOps, k), k.rd, k.rs1, 0, Signed(Top12(k), 12))
              \/ \E op \in {"SLLI", "SRLI", "SRAI"} :
                   /\ k.f7 = IF op = "SRAI" THEN 32 ELSE 0
                   /\ k.f3 = IF op = "SLLI" THEN 1 ELSE 5
                   /\ v = Insn(op, k.rd, k.rs1, 0, k.rs2)
  BY <1>4, ConstantsEncode
<1>5. CASE /\ k.opc = 51
           /\ \/ k.f7 = 0 /\ v = Insn(NameOf(RegOps, k), k.rd, k.rs1, k.rs2, 0)
              \/ k.f7 = 1 /\ v = Insn(NameOf(MulOps, k), k.rd, k.rs1, k.rs2, 0)
              \/ k.f7 = 32 /\ k.f3 = 0 /\ v = Insn("SUB", k.rd, k.rs1, k.rs2, 0)
              \/ k.f7 = 32 /\ k.f3 = 5 /\ v = Insn("SRA", k.rd, k.rs1, k.rs2, 0)
  BY <1>5, RegistersEncode
<1> QED BY <1>1, <1>2, <1>3, <1>4, <1>5 DEF Computes

LEMMA ControlsEncode ==
  ASSUME NEW k \in Fields, NEW v, Controls(k, v), v.op # "FENCE"
  PROVE  A!Encode(v) = k
<1>1. CASE /\ k.opc = 115 /\ Named(CsrOps, k)
           /\ v = Insn(NameOf(CsrOps, k), k.rd, k.rs1, 0, Top12(k))
  <2>1. v.op = NameOf(CsrOps, k) /\ v.rd = k.rd /\ v.rs1 = k.rs1 /\ v.imm = Top12(k)
    BY <1>1 DEF Insn
  <2>2. A!Encode(v) = IType(Top12(k), k.rs1, k.f3, k.rd, 115)
    BY <1>1, <2>1, NamesOf, Places, EncodeByName
  <2> QED BY <1>1, <2>2, OtherImmediates
<1>2. ASSUME NEW op, v = Insn(op, 0, 0, 0, 0)
      PROVE  v.op = op
  BY <1>2 DEF Insn
<1> QED BY <1>1, <1>2, EncodeByName DEF Controls

LEMMA MeaningEncodes ==
  ASSUME NEW k \in Fields, NEW v, Means(k, v), v.op # "FENCE"
  PROVE  A!Encode(v) = k
BY JumpsEncode, AccessesEncode, ComputesEncode, ControlsEncode DEF Means

(* The code that the run decodes, of either kind.                           *)
LEMMA ExecutedIsACode ==
  ASSUME IInv, Executable
  PROVE  code32 \in Fields
<1>1. CASE Compressed16
  <2>1. Half(word.code)
    BY <1>1, Assumed DEF IInv, Coded, Compressed16
  <2>2. code32 = Decomp16(word.code)
    BY <1>1 DEF code32
  <2> QED BY <2>1, <2>2, TableHoldsCodes DEF Executable
<1>2. CASE ~Compressed16
  BY <1>2, Assumed DEF IInv, Coded, Compressed16, code32
<1> QED BY <1>1, <1>2

(* What is executed is what was assembled, bit for bit (Tools: decode2vliw  *)
(* with the shifts of its immediates, and decomp16_table before it): no     *)
(* other code gives the instruction that the run issues.                    *)
THEOREM ExecutesWhatWasAssembled == Spec => []DecodesExactly
<1>1. ASSUME IInv, Known, issued.op # "FENCE"
      PROVE  A!Encode(issued) = code32
  <2>1. Executable /\ decode2vliw(code32) \notin {None, Fatal}
    BY <1>1 DEF Known, IInv, IssuedIsDecoded, Executable
  <2>2. issued = decode2vliw(code32)
    BY <1>1, <2>1 DEF Known, IInv, IssuedIsDecoded, Filled
  <2>3. code32 \in Fields
    BY <1>1, <2>1, ExecutedIsACode
  <2>4. Means(code32, issued)
    BY <2>1, <2>2, <2>3, DecodingMeans
  <2> QED BY <1>1, <2>3, <2>4, MeaningEncodes
<1>2. IInv => DecodesExactly
  BY <1>1 DEF DecodesExactly
<1> QED BY Invariance, <1>2, PTL

-----------------------------------------------------------------------------
(* The bits of a 16 bit code, and the fields that the readers cut out: each *)
(* is the sum of its bits.                                                  *)
Bit(n, i) == B(n, i, i)

LEMMA FourBits ==
  ASSUME NEW x \in Nat
  PROVE  /\ x % 16 = 8 * ((x \div 8) % 2) + 4 * ((x \div 4) % 2) + 2 * ((x \div 2) % 2) + (x % 2)
         /\ x % 32 = 16 * ((x \div 16) % 2) + (x % 16)
<1>1. x % 2 = x - 2 * (x \div 2)
  OBVIOUS
<1>2. (x \div 2) % 2 = (x \div 2) - 2 * (x \div 4)
  OBVIOUS
<1>3. (x \div 4) % 2 = (x \div 4) - 2 * (x \div 8)
  OBVIOUS
<1>4. (x \div 8) % 2 = (x \div 8) - 2 * (x \div 16)
  OBVIOUS
<1>5. x % 16 = x - 16 * (x \div 16)
  OBVIOUS
<1>6. x % 32 = 16 * ((x \div 16) % 2) + (x % 16)
  OBVIOUS
<1> QED BY <1>1, <1>2, <1>3, <1>4, <1>5, <1>6

LEMMA Bits16 ==
  ASSUME NEW n, Half(n)
  PROVE  /\ \A i \in 2 .. 12 : Bit(n, i) \in 0 .. 1
         /\ B(n, 3, 2) = 2 * Bit(n, 3) + Bit(n, 2)
         /\ B(n, 4, 3) = 2 * Bit(n, 4) + Bit(n, 3)
         /\ B(n, 6, 5) = 2 * Bit(n, 6) + Bit(n, 5)
         /\ B(n, 8, 7) = 2 * Bit(n, 8) + Bit(n, 7)
         /\ B(n, 10, 9) = 2 * Bit(n, 10) + Bit(n, 9)
         /\ B(n, 11, 10) = 2 * Bit(n, 11) + Bit(n, 10)
         /\ B(n, 12, 11) = 2 * Bit(n, 12) + Bit(n, 11)
         /\ B(n, 5, 3) = 4 * Bit(n, 5) + 2 * Bit(n, 4) + Bit(n, 3)
         /\ B(n, 6, 4) = 4 * Bit(n, 6) + 2 * Bit(n, 5) + Bit(n, 4)
         /\ B(n, 12, 10) = 4 * Bit(n, 12) + 2 * Bit(n, 11) + Bit(n, 10)
         /\ B(n, 10, 7) = 8 * Bit(n, 10) + 4 * Bit(n, 9) + 2 * Bit(n, 8) + Bit(n, 7)
         /\ B(n, 12, 9) = 8 * Bit(n, 12) + 4 * Bit(n, 11) + 2 * Bit(n, 10) + Bit(n, 9)
         /\ B(n, 6, 2) = 16 * Bit(n, 6) + 8 * Bit(n, 5) + 4 * Bit(n, 4) + 2 * Bit(n, 3) + Bit(n, 2)
<1>0. n \in Nat
  BY DEF Half
<1>1. \A i \in 2 .. 12 : Bit(n, i) \in 0 .. 1
  <2>1. /\ Bit(n, 2) \in 0 .. 1 /\ Bit(n, 3) \in 0 .. 1 /\ Bit(n, 4) \in 0 .. 1
        /\ Bit(n, 5) \in 0 .. 1 /\ Bit(n, 6) \in 0 .. 1 /\ Bit(n, 7) \in 0 .. 1
        /\ Bit(n, 8) \in 0 .. 1 /\ Bit(n, 9) \in 0 .. 1 /\ Bit(n, 10) \in 0 .. 1
        /\ Bit(n, 11) \in 0 .. 1 /\ Bit(n, 12) \in 0 .. 1
    BY <1>0 DEF Bit, B, Field
  <2>2. \A i \in 2 .. 12 : \/ i = 2 \/ i = 3 \/ i = 4 \/ i = 5 \/ i = 6 \/ i = 7
                           \/ i = 8 \/ i = 9 \/ i = 10 \/ i = 11 \/ i = 12
    OBVIOUS
  <2> QED BY <2>1, <2>2
<1>2. B(n, 3, 2) = 2 * Bit(n, 3) + Bit(n, 2)
  BY <1>0 DEF Bit, B, Field
<1>3. B(n, 4, 3) = 2 * Bit(n, 4) + Bit(n, 3)
  BY <1>0 DEF Bit, B, Field
<1>4. B(n, 6, 5) = 2 * Bit(n, 6) + Bit(n, 5)
  BY <1>0 DEF Bit, B, Field
<1>5. B(n, 8, 7) = 2 * Bit(n, 8) + Bit(n, 7)
  BY <1>0 DEF Bit, B, Field
<1>6. B(n, 10, 9) = 2 * Bit(n, 10) + Bit(n, 9)
  BY <1>0 DEF Bit, B, Field
<1>7. B(n, 11, 10) = 2 * Bit(n, 11) + Bit(n, 10)
  BY <1>0 DEF Bit, B, Field
<1>8. B(n, 12, 11) = 2 * Bit(n, 12) + Bit(n, 11)
  BY <1>0 DEF Bit, B, Field
<1>9. B(n, 5, 3) = 4 * Bit(n, 5) + 2 * Bit(n, 4) + Bit(n, 3)
  BY <1>0 DEF Bit, B, Field
<1>10. B(n, 6, 4) = 4 * Bit(n, 6) + 2 * Bit(n, 5) + Bit(n, 4)
  BY <1>0 DEF Bit, B, Field
<1>11. B(n, 12, 10) = 4 * Bit(n, 12) + 2 * Bit(n, 11) + Bit(n, 10)
  BY <1>0 DEF Bit, B, Field
<1>12. B(n, 10, 7) = 8 * Bit(n, 10) + 4 * Bit(n, 9) + 2 * Bit(n, 8) + Bit(n, 7)
  <2>1. n \div 256 = (n \div 128) \div 2 /\ n \div 512 = (n \div 128) \div 4
        /\ n \div 1024 = (n \div 128) \div 8 /\ n \div 128 \in Nat
    BY <1>0
  <2> QED BY <1>0, <2>1, FourBits DEF Bit, B, Field
<1>13. B(n, 12, 9) = 8 * Bit(n, 12) + 4 * Bit(n, 11) + 2 * Bit(n, 10) + Bit(n, 9)
  <2>1. n \div 1024 = (n \div 512) \div 2 /\ n \div 2048 = (n \div 512) \div 4
        /\ n \div 4096 = (n \div 512) \div 8 /\ n \div 512 \in Nat
    BY <1>0
  <2> QED BY <1>0, <2>1, FourBits DEF Bit, B, Field
<1>14. B(n, 6, 2) = 16 * Bit(n, 6) + 8 * Bit(n, 5) + 4 * Bit(n, 4) + 2 * Bit(n, 3) + Bit(n, 2)
  <2>1. n \div 8 = (n \div 4) \div 2 /\ n \div 16 = (n \div 4) \div 4
        /\ n \div 32 = (n \div 4) \div 8 /\ n \div 64 = (n \div 4) \div 16
        /\ n \div 4 \in Nat
    BY <1>0
  <2> QED BY <1>0, <2>1, FourBits DEF Bit, B, Field
<1> QED BY <1>1, <1>2, <1>3, <1>4, <1>5, <1>6, <1>7, <1>8, <1>9, <1>10, <1>11, <1>12, <1>13, <1>14

(* What is gathered, bit by bit.                                            *)
LEMMA Gathered ==
  ASSUME NEW n, Half(n)
  PROVE  /\ Gather(n, 12, <<5>>) = Bit(n, 12) * 32
         /\ Gather(n, 12, <<9>>) = Bit(n, 12) * 512
         /\ Gather(n, 6, <<2, 6>>) = Bit(n, 6) * 4 + Bit(n, 5) * 64
         /\ Gather(n, 12, <<5, 4, 3>>) = Bit(n, 12) * 32 + Bit(n, 11) * 16 + Bit(n, 10) * 8
         /\ Gather(n, 12, <<8, 4, 3>>) = Bit(n, 12) * 256 + Bit(n, 11) * 16 + Bit(n, 10) * 8
         /\ Gather(n, 6, <<4, 3, 2, 1, 0>>) =
              Bit(n, 6) * 16 + Bit(n, 5) * 8 + Bit(n, 4) * 4 + Bit(n, 3) * 2 + Bit(n, 2)
         /\ Gather(n, 6, <<7, 6, 2, 1, 5>>) =
              Bit(n, 6) * 128 + Bit(n, 5) * 64 + Bit(n, 4) * 4 + Bit(n, 3) * 2 + Bit(n, 2) * 32
         /\ Gather(n, 6, <<4, 6, 8, 7, 5>>) =
              Bit(n, 6) * 16 + Bit(n, 5) * 64 + Bit(n, 4) * 256 + Bit(n, 3) * 128 + Bit(n, 2) * 32
         /\ Gather(n, 6, <<4, 3, 2, 7, 6>>) =
              Bit(n, 6) * 16 + Bit(n, 5) * 8 + Bit(n, 4) * 4 + Bit(n, 3) * 128 + Bit(n, 2) * 64
         /\ Gather(n, 12, <<5, 4, 3, 2, 7, 6>>) =
              Bit(n, 12) * 32 + Bit(n, 11) * 16 + Bit(n, 10) * 8 + Bit(n, 9) * 4
              + Bit(n, 8) * 128 + Bit(n, 7) * 64
         /\ Gather(n, 12, <<5, 4, 9, 8, 7, 6, 2, 3>>) =
              Bit(n, 12) * 32 + Bit(n, 11) * 16 + Bit(n, 10) * 512 + Bit(n, 9) * 256
              + Bit(n, 8) * 128 + Bit(n, 7) * 64 + Bit(n, 6) * 4 + Bit(n, 5) * 8
         /\ Gather(n, 12, <<11, 4, 9, 8, 10, 6, 7, 3, 2, 1, 5>>) =
              Bit(n, 12) * 2048 + Bit(n, 11) * 16 + Bit(n, 10) * 512 + Bit(n, 9) * 256
              + Bit(n, 8) * 1024 + Bit(n, 7) * 64 + Bit(n, 6) * 128 + Bit(n, 5) * 8
              + Bit(n, 4) * 4 + Bit(n, 3) * 2 + Bit(n, 2) * 32
<1>0. /\ B(n, 12, 12) \in Int /\ B(n, 11, 11) \in Int /\ B(n, 10, 10) \in Int
      /\ B(n, 9, 9) \in Int /\ B(n, 8, 8) \in Int /\ B(n, 7, 7) \in Int /\ B(n, 6, 6) \in Int
      /\ B(n, 5, 5) \in Int /\ B(n, 4, 4) \in Int /\ B(n, 3, 3) \in Int /\ B(n, 2, 2) \in Int
  BY DEF Half, B, Field
<1>1. /\ Gather(n, 12, <<5>>) = Bit(n, 12) * 32
      /\ Gather(n, 12, <<9>>) = Bit(n, 12) * 512
  BY <1>0 DEF Gather, Bit
<1>2. Gather(n, 6, <<2, 6>>) = Bit(n, 6) * 4 + Bit(n, 5) * 64
  BY <1>0 DEF Gather, Bit
<1>3. Gather(n, 12, <<5, 4, 3>>) = Bit(n, 12) * 32 + Bit(n, 11) * 16 + Bit(n, 10) * 8
  BY <1>0 DEF Gather, Bit
<1>4. Gather(n, 12, <<8, 4, 3>>) = Bit(n, 12) * 256 + Bit(n, 11) * 16 + Bit(n, 10) * 8
  BY <1>0 DEF Gather, Bit
<1>5. Gather(n, 6, <<4, 3, 2, 1, 0>>) =
        Bit(n, 6) * 16 + Bit(n, 5) * 8 + Bit(n, 4) * 4 + Bit(n, 3) * 2 + Bit(n, 2)
  BY <1>0 DEF Gather, Bit
<1>6. Gather(n, 6, <<7, 6, 2, 1, 5>>) =
        Bit(n, 6) * 128 + Bit(n, 5) * 64 + Bit(n, 4) * 4 + Bit(n, 3) * 2 + Bit(n, 2) * 32
  BY <1>0 DEF Gather, Bit
<1>7. Gather(n, 6, <<4, 6, 8, 7, 5>>) =
        Bit(n, 6) * 16 + Bit(n, 5) * 64 + Bit(n, 4) * 256 + Bit(n, 3) * 128 + Bit(n, 2) * 32
  BY <1>0 DEF Gather, Bit
<1>8. Gather(n, 6, <<4, 3, 2, 7, 6>>) =
        Bit(n, 6) * 16 + Bit(n, 5) * 8 + Bit(n, 4) * 4 + Bit(n, 3) * 128 + Bit(n, 2) * 64
  BY <1>0 DEF Gather, Bit
<1>9. Gather(n, 12, <<5, 4, 3, 2, 7, 6>>) =
        Bit(n, 12) * 32 + Bit(n, 11) * 16 + Bit(n, 10) * 8 + Bit(n, 9) * 4
        + Bit(n, 8) * 128 + Bit(n, 7) * 64
  BY <1>0 DEF Gather, Bit
<1>10. Gather(n, 12, <<5, 4, 9, 8, 7, 6, 2, 3>>) =
        Bit(n, 12) * 32 + Bit(n, 11) * 16 + Bit(n, 10) * 512 + Bit(n, 9) * 256
        + Bit(n, 8) * 128 + Bit(n, 7) * 64 + Bit(n, 6) * 4 + Bit(n, 5) * 8
  BY <1>0 DEF Gather, Bit
<1>11. Gather(n, 12, <<11, 4, 9, 8, 10, 6, 7, 3, 2, 1, 5>>) =
        Bit(n, 12) * 2048 + Bit(n, 11) * 16 + Bit(n, 10) * 512 + Bit(n, 9) * 256
        + Bit(n, 8) * 1024 + Bit(n, 7) * 64 + Bit(n, 6) * 128 + Bit(n, 5) * 8
        + Bit(n, 4) * 4 + Bit(n, 3) * 2 + Bit(n, 2) * 32
  BY <1>0 DEF Gather, Bit
<1> QED BY <1>1, <1>2, <1>3, <1>4, <1>5, <1>6, <1>7, <1>8, <1>9, <1>10, <1>11

(* The two readers put the bits of an immediate in the same places, but     *)
(* that mk_sw extends its sign.                                             *)
LEMMA SameOffsets ==
  ASSUME NEW n, Half(n)
  PROVE  /\ mk_imm6(n) = Imm(n) /\ jal_off(n) = Jump(n) /\ mk_beq(n) = Branch(n)
         /\ mk_lwsp(n) = LwSp(n) /\ mk_swsp(n) = SwSp(n)
         /\ mk_addi4spn(n) = Add4Spn(n) /\ mk_addi16sp(n) = Add16Sp(n)
         /\ mk_sw(n) = Signed(Word(n), 7)
<1> DEFINE s == Bit(n, 12)  r == Bit(n, 11)  q == Bit(n, 10)  p == Bit(n, 9)
           o == Bit(n, 8)  m == Bit(n, 7)  l == Bit(n, 6)  k == Bit(n, 5)
           j == Bit(n, 4)  i == Bit(n, 3)  h == Bit(n, 2)
<1>1. /\ s \in Int /\ r \in Int /\ q \in Int /\ p \in Int /\ o \in Int /\ m \in Int
      /\ l \in Int /\ k \in Int /\ j \in Int /\ i \in Int /\ h \in Int
  BY Bits16
<1>2. /\ B(n, 12, 12) = s /\ B(n, 8, 8) = o /\ B(n, 7, 7) = m
      /\ B(n, 6, 6) = l /\ B(n, 5, 5) = k /\ B(n, 2, 2) = h /\ B(n, 11, 11) = r
  BY DEF Bit
<1>3. /\ B(n, 3, 2) = 2 * i + h /\ B(n, 4, 3) = 2 * j + i /\ B(n, 6, 5) = 2 * l + k
      /\ B(n, 8, 7) = 2 * o + m /\ B(n, 10, 9) = 2 * q + p /\ B(n, 11, 10) = 2 * r + q
      /\ B(n, 12, 11) = 2 * s + r /\ B(n, 5, 3) = 4 * k + 2 * j + i
      /\ B(n, 6, 4) = 4 * l + 2 * k + j /\ B(n, 12, 10) = 4 * s + 2 * r + q
      /\ B(n, 10, 7) = 8 * q + 4 * p + 2 * o + m /\ B(n, 12, 9) = 8 * s + 4 * r + 2 * q + p
      /\ B(n, 6, 2) = 16 * l + 8 * k + 4 * j + 2 * i + h
  BY Bits16
<1>4. /\ Gather(n, 12, <<5>>) = s * 32 /\ Gather(n, 12, <<9>>) = s * 512
      /\ Gather(n, 6, <<2, 6>>) = l * 4 + k * 64
      /\ Gather(n, 12, <<5, 4, 3>>) = s * 32 + r * 16 + q * 8
      /\ Gather(n, 12, <<8, 4, 3>>) = s * 256 + r * 16 + q * 8
      /\ Gather(n, 6, <<4, 3, 2, 1, 0>>) = l * 16 + k * 8 + j * 4 + i * 2 + h
      /\ Gather(n, 6, <<7, 6, 2, 1, 5>>) = l * 128 + k * 64 + j * 4 + i * 2 + h * 32
      /\ Gather(n, 6, <<4, 6, 8, 7, 5>>) = l * 16 + k * 64 + j * 256 + i * 128 + h * 32
      /\ Gather(n, 6, <<4, 3, 2, 7, 6>>) = l * 16 + k * 8 + j * 4 + i * 128 + h * 64
  BY Gathered
<1>5. /\ Gather(n, 12, <<5, 4, 3, 2, 7, 6>>) = s * 32 + r * 16 + q * 8 + p * 4 + o * 128 + m * 64
      /\ Gather(n, 12, <<5, 4, 9, 8, 7, 6, 2, 3>>) =
           s * 32 + r * 16 + q * 512 + p * 256 + o * 128 + m * 64 + l * 4 + k * 8
      /\ Gather(n, 12, <<11, 4, 9, 8, 10, 6, 7, 3, 2, 1, 5>>) =
           s * 2048 + r * 16 + q * 512 + p * 256 + o * 1024 + m * 64 + l * 128 + k * 8
           + j * 4 + i * 2 + h * 32
  BY Gathered
<1> HIDE DEF s, r, q, p, o, m, l, k, j, i, h
<1>6. mk_imm6(n) = Imm(n)
  BY <1>1, <1>2, <1>3, <1>4 DEF mk_imm6, Imm
<1>7. jal_off(n) = Jump(n)
  <2>1. s * 2^11 + o * 2^10 + (2 * q + p) * 2^8 + l * 2^7 + m * 2^6 + h * 2^5
        + r * 2^4 + (4 * k + 2 * j + i) * 2
        = s * 2048 + r * 16 + q * 512 + p * 256 + o * 1024 + m * 64 + l * 128 + k * 8
          + j * 4 + i * 2 + h * 32
    BY <1>1
  <2> QED BY <1>2, <1>3, <1>5, <2>1 DEF jal_off, Jump
<1>8. mk_beq(n) = Branch(n)
  BY <1>1, <1>2, <1>3, <1>4 DEF mk_beq, Branch
<1>9. mk_lwsp(n) = LwSp(n) /\ mk_swsp(n) = SwSp(n)
  BY <1>1, <1>2, <1>3, <1>4, <1>5 DEF mk_lwsp, LwSp, mk_swsp, SwSp
<1>10. mk_addi4spn(n) = Add4Spn(n)
  BY <1>1, <1>2, <1>3, <1>5 DEF mk_addi4spn, Add4Spn
<1>11. mk_addi16sp(n) = Add16Sp(n)
  BY <1>1, <1>2, <1>3, <1>4 DEF mk_addi16sp, Add16Sp
<1>12. mk_sw(n) = Signed(Word(n), 7)
  BY <1>1, <1>2, <1>3, <1>4 DEF mk_sw, Word
<1> QED BY <1>6, <1>7, <1>8, <1>9, <1>10, <1>11, <1>12

LEMMA OffsetRanges ==
  ASSUME NEW n, Half(n)
  PROVE  /\ Imm(n) \in -32 .. 31
         /\ Jump(n) \in Int /\ -2048 <= Jump(n) /\ Jump(n) < 2048 /\ Jump(n) % 2 = 0
         /\ Branch(n) \in -256 .. 255 /\ Branch(n) % 2 = 0
         /\ Word(n) \in 0 .. 127 /\ LwSp(n) \in 0 .. 255 /\ SwSp(n) \in 0 .. 255
         /\ Add4Spn(n) \in 0 .. 1023 /\ Add16Sp(n) \in -512 .. 511
         /\ mk_shamt(n) = B(n, 12, 12) * 32 + R5b2(n)
         /\ R3b7(n) = 8 + (R5b7(n) % 8)
<1> DEFINE s == Bit(n, 12)  r == Bit(n, 11)  q == Bit(n, 10)  p == Bit(n, 9)
           o == Bit(n, 8)  m == Bit(n, 7)  l == Bit(n, 6)  k == Bit(n, 5)
           j == Bit(n, 4)  i == Bit(n, 3)  h == Bit(n, 2)
<1>1. /\ s \in 0 .. 1 /\ r \in 0 .. 1 /\ q \in 0 .. 1 /\ p \in 0 .. 1 /\ o \in 0 .. 1
      /\ m \in 0 .. 1 /\ l \in 0 .. 1 /\ k \in 0 .. 1 /\ j \in 0 .. 1 /\ i \in 0 .. 1
      /\ h \in 0 .. 1
  BY Bits16
<1>2. /\ Imm(n) = Signed(s * 32 + (l * 16 + k * 8 + j * 4 + i * 2 + h), 6)
      /\ Branch(n) = Signed(s * 256 + r * 16 + q * 8
                            + (l * 128 + k * 64 + j * 4 + i * 2 + h * 32), 9)
      /\ Word(n) = s * 32 + r * 16 + q * 8 + (l * 4 + k * 64)
      /\ LwSp(n) = s * 32 + (l * 16 + k * 8 + j * 4 + i * 128 + h * 64)
      /\ Add16Sp(n) = Signed(s * 512 + (l * 16 + k * 64 + j * 256 + i * 128 + h * 32), 10)
  BY Gathered DEF Imm, Branch, Word, LwSp, Add16Sp
<1>3. /\ Jump(n) = Signed(s * 2048 + r * 16 + q * 512 + p * 256 + o * 1024 + m * 64 + l * 128
                          + k * 8 + j * 4 + i * 2 + h * 32, 12)
      /\ SwSp(n) = s * 32 + r * 16 + q * 8 + p * 4 + o * 128 + m * 64
      /\ Add4Spn(n) = s * 32 + r * 16 + q * 512 + p * 256 + o * 128 + m * 64 + l * 4 + k * 8
  BY Gathered DEF Jump, SwSp, Add4Spn
<1>4. mk_shamt(n) = B(n, 12, 12) * 32 + R5b2(n)
  BY Parts16 DEF mk_shamt, R5b2
<1>5. R3b7(n) = 8 + (R5b7(n) % 8)
  <2>1. \A x \in Nat : (x % 32) % 8 = x % 8
    OBVIOUS
  <2>2. n \div 2^7 \in Nat
    BY DEF Half
  <2> QED BY <2>1, <2>2 DEF R3b7, R5b7, B, Field
<1> HIDE DEF s, r, q, p, o, m, l, k, j, i, h
<1>6. Imm(n) \in -32 .. 31
  BY <1>1, <1>2 DEF Signed
<1>7. Branch(n) \in -256 .. 255 /\ Branch(n) % 2 = 0
  BY <1>1, <1>2 DEF Signed
<1>8. Word(n) \in 0 .. 127 /\ LwSp(n) \in 0 .. 255
  BY <1>1, <1>2
<1>9. Add16Sp(n) \in -512 .. 511
  BY <1>1, <1>2 DEF Signed
<1>10. Jump(n) \in Int /\ -2048 <= Jump(n) /\ Jump(n) < 2048 /\ Jump(n) % 2 = 0
  <2> DEFINE t == s * 1024 + r * 8 + q * 256 + p * 128 + o * 512 + m * 32 + l * 64
                  + k * 4 + j * 2 + i + h * 16
  <2>1. t \in 0 .. 2047 /\ Jump(n) = Signed(2 * t, 12)
    BY <1>1, <1>3
  <2> HIDE DEF t
  <2> QED BY <2>1 DEF Signed
<1>11. SwSp(n) \in 0 .. 255 /\ Add4Spn(n) \in 0 .. 1023
  BY <1>1, <1>3
<1> QED BY <1>4, <1>5, <1>6, <1>7, <1>8, <1>9, <1>10, <1>11

-----------------------------------------------------------------------------
(* The immediate that decode2vliw takes out of a code is the one for which  *)
(* the code was written.                                                    *)
Twelve(imm) == Field(imm, 11, 5) * 32 + Field(imm, 4, 0)

LEMMA ReadsTwelve ==
  ASSUME NEW imm \in Int, -2048 <= imm, imm < 2048, NEW rs2, NEW rs1, NEW f3, NEW rd, NEW opc
  PROVE  /\ Signed(Top12(IType(imm, rs1, f3, rd, opc)), 12) = imm
         /\ Signed(SType(imm, rs2, rs1, f3, opc).f7 * 32 + SType(imm, rs2, rs1, f3, opc).rd, 12)
              = imm
<1>1. Signed(Twelve(imm), 12) = imm
  BY DEF Twelve, Signed, Field
<1>2. Top12(IType(imm, rs1, f3, rd, opc)) = Twelve(imm)
  BY DEF IType, Code, Top12, Twelve
<1>3. SType(imm, rs2, rs1, f3, opc).f7 * 32 + SType(imm, rs2, rs1, f3, opc).rd = Twelve(imm)
  BY DEF SType, Code, Twelve
<1> QED BY <1>1, <1>2, <1>3

LEMMA ReadsBranch ==
  ASSUME NEW imm \in Int, -4096 <= imm, imm < 4096, imm % 2 = 0, NEW rs2, NEW rs1, NEW f3, NEW opc
  PROVE  doBoff(BType(imm, rs2, rs1, f3, opc)) = imm
<1> DEFINE a == Field(imm, 12, 12)  b == Field(imm, 10, 5)
           c == Field(imm, 4, 1)  d == Field(imm, 11, 11)
           k == BType(imm, rs2, rs1, f3, opc)
<1>1. a \in 0 .. 1 /\ b \in 0 .. 63 /\ c \in 0 .. 15 /\ d \in 0 .. 1
  BY DEF Field
<1>2. k.f7 = a * 64 + b /\ k.rd = c * 2 + d
  BY DEF BType, Code
<1>3. imm = Signed(a * 2^12 + b * 2^5 + c * 2 + d * 2^11, 13)
  BY DEF Field, Signed
<1> HIDE DEF a, b, c, d, k
<1>4. /\ Field(k.f7, 6, 6) = a /\ Field(k.f7, 5, 0) = b
      /\ Field(k.rd, 4, 1) = c /\ Field(k.rd, 0, 0) = d
  BY <1>1, <1>2 DEF Field
<1>5. doBoff(k) = imm
  BY <1>3, <1>4 DEF doBoff
<1> QED BY <1>5 DEF k

LEMMA ReadsTop20 ==
  ASSUME NEW imm \in Int, NEW rd, NEW opc
  PROVE  Top20(UType(imm, rd, opc)) = imm % 2^20
<1> DEFINE n == imm % 2^20
<1>1. n \in 0 .. 2^20 - 1
  OBVIOUS
<1>2. /\ Field(imm, 19, 13) = n \div 8192 /\ Field(imm, 12, 8) = (n \div 256) % 32
      /\ Field(imm, 7, 3) = (n \div 8) % 32 /\ Field(imm, 2, 0) = n % 8
  BY DEF Field
<1> HIDE DEF n
<1>3. ((n \div 8192) * 32 + ((n \div 256) % 32)) * 256 + ((n \div 8) % 32) * 8 + (n % 8) = n
  BY <1>1
<1>4. Top20(UType(imm, rd, opc)) =
        (Field(imm, 19, 13) * 32 + Field(imm, 12, 8)) * 256 + Field(imm, 7, 3) * 8 + Field(imm, 2, 0)
  BY DEF UType, Code, Top20, Top12
<1>5. Top20(UType(imm, rd, opc)) = n
  BY <1>2, <1>3, <1>4
<1> QED BY <1>5 DEF n

LEMMA ReadsUpper ==
  ASSUME NEW imm \in Int, -2^19 <= imm, imm < 2^19, NEW rd, NEW opc
  PROVE  Signed(Top20(UType(imm, rd, opc)), 20) = imm
<1>1. Signed(imm % 2^20, 20) = imm
  BY DEF Signed
<1> QED BY <1>1, ReadsTop20

LEMMA ReadsJump ==
  ASSUME NEW imm \in Int, -2^20 <= imm, imm < 2^20, imm % 2 = 0, NEW rd, NEW opc
  PROVE  doJoff(JType(imm, rd, opc)) = imm
<1> DEFINE a == Field(imm, 20, 20)  b == Field(imm, 10, 1)
           c == Field(imm, 11, 11)  d == Field(imm, 19, 12)
           n == a * 2^19 + b * 2^9 + c * 2^8 + d
           k == JType(imm, rd, opc)
<1>1. a \in 0 .. 1 /\ b \in 0 .. 1023 /\ c \in 0 .. 1 /\ d \in 0 .. 255
  BY DEF Field
<1>2. imm = JumpOf(a, b, c, d)
  BY DEF Field, Signed, JumpOf
<1>3. k = UType(n, rd, opc)
  BY DEF JType
<1> HIDE DEF a, b, c, d, k
<1>4. n \in 0 .. 2^20 - 1
  BY <1>1
<1>5. /\ Field(n, 19, 19) = a /\ Field(n, 18, 9) = b
      /\ Field(n, 8, 8) = c /\ Field(n, 7, 0) = d
  BY <1>1 DEF Field
<1> HIDE DEF n
<1>6. Top20(k) = n
  BY <1>3, <1>4, ReadsTop20
<1>7. doJoff(k) = imm
  BY <1>2, <1>5, <1>6 DEF doJoff, JumpOf
<1> QED BY <1>7 DEF k

-----------------------------------------------------------------------------
(* What decode2vliw makes of the codes that decomp16_table holds.           *)
Ordinary(c) ==
  \/ c.opc \in {55, 111}
  \/ c.opc = 103 /\ c.f3 = 0
  \/ c.opc = 99 /\ c.f3 \in {0, 1}
  \/ c.opc \in {3, 35} /\ c.f3 = 2
  \/ c.opc = 19 /\ c.f3 \in {0, 7}
  \/ c.opc = 19 /\ c.f3 \in {1, 5} /\ c.f7 = 0
  \/ c.opc = 19 /\ c.f3 = 5 /\ c.f7 = 32
  \/ c.opc = 51 /\ c.f7 = 0
  \/ c.opc = 51 /\ c.f7 = 32 /\ c.f3 = 0
  \/ c = IType(1, 0, 0, 0, 115)

LEMMA OrdinaryHasRow ==
  ASSUME NEW c \in Fields, Ordinary(c)
  PROVE  decode2vliw(c) # None
<1> SUFFICES ASSUME decode2vliw(c) = None PROVE FALSE
  OBVIOUS
<1>1. NoRow(c)
  BY UnknownHasNoRow
<1>2. CASE c.opc = 103 /\ c.f3 = 0
  <2>1. Named(JalrOps, c)
    BY <1>2, OptableNames DEF ByF3, Named
  <2>2. Family(103, {"rd", "rs1", "simm12"}, JalrOps) \subseteq Late
    BY DEF Late, Family3Rows
  <2> QED BY <1>1, <1>2, <2>1, <2>2, FamilyHasRow DEF NoRow
<1>3. CASE (c.opc = 99 /\ c.f3 \in {0, 1}) \/ (c.opc \in {3, 35} /\ c.f3 = 2)
  BY <1>1, <1>3, UnknownCodes, OptableNames DEF ByF3, Named
<1>4. CASE c.opc = 19 /\ c.f3 \in {0, 7}
  BY <1>1, <1>4, UnknownCodes, OptableNames DEF ByF3, Named
<1>5. CASE c.opc = 19 /\ ((c.f3 \in {1, 5} /\ c.f7 = 0) \/ (c.f3 = 5 /\ c.f7 = 32))
  BY <1>1, <1>5, UnknownCodes, OptableNames DEF ByF3, Named
<1>6. CASE c.opc = 51 /\ (c.f7 = 0 \/ (c.f7 = 32 /\ c.f3 = 0))
  BY <1>1, <1>6, UnknownCodes, OptableNames DEF ByF3, Named
<1>7. CASE c = IType(1, 0, 0, 0, 115)
  BY <1>1, <1>7, UnknownCodes DEF SystemName
<1>8. CASE c.opc \in {55, 111}
  BY <1>1, <1>8, UnknownCodes
<1>9. Ordinary(c)
  OBVIOUS
<1> QED BY <1>2, <1>3, <1>4, <1>5, <1>6, <1>7, <1>8, <1>9 DEF Ordinary

PlainJumps(c, v) ==
  /\ c.opc = 111 => Plain(v) = Insn("JAL", c.rd, 0, 0, doJoff(c))
  /\ c.opc = 103 => Plain(v) = Insn("JALR", c.rd, c.rs1, 0, Signed(Top12(c), 12))
PlainAccesses(c, v) ==
  /\ c.opc = 99 /\ c.f3 = 0 => v = Insn("BEQ", 0, c.rs1, c.rs2, doBoff(c))
  /\ c.opc = 99 /\ c.f3 = 1 => v = Insn("BNE", 0, c.rs1, c.rs2, doBoff(c))
  /\ c.opc = 3 /\ c.f3 = 2 => v = Insn("LW", c.rd, c.rs1, 0, Signed(Top12(c), 12))
  /\ c.opc = 35 /\ c.f3 = 2 => v = Insn("SW", 0, c.rs1, c.rs2, Signed(c.f7 * 32 + c.rd, 12))
PlainImmediates(c, v) ==
  /\ c.opc = 55 => v = Insn("LUI", c.rd, 0, 0, Signed(Top20(c), 20))
  /\ c.opc = 19 /\ c.f3 = 0 => Plain(v) = Insn("ADDI", c.rd, c.rs1, 0, Signed(Top12(c), 12))
  /\ c.opc = 19 /\ c.f3 = 7 => v = Insn("ANDI", c.rd, c.rs1, 0, Signed(Top12(c), 12))
  /\ c.opc = 19 /\ c.f3 = 1 => v = Insn("SLLI", c.rd, c.rs1, 0, c.rs2)
  /\ c.opc = 19 /\ c.f3 = 5 /\ c.f7 = 0 => v = Insn("SRLI", c.rd, c.rs1, 0, c.rs2)
  /\ c.opc = 19 /\ c.f3 = 5 /\ c.f7 = 32 => v = Insn("SRAI", c.rd, c.rs1, 0, c.rs2)
PlainRegisters(c, v) ==
  /\ c.opc = 51 /\ c.f7 = 0 => v = Insn(NameOf(RegOps, c), c.rd, c.rs1, c.rs2, 0)
  /\ c.opc = 51 /\ c.f7 = 32 /\ c.f3 = 0 => v = Insn("SUB", c.rd, c.rs1, c.rs2, 0)
  /\ c = IType(1, 0, 0, 0, 115) => v = Insn("EBREAK", 0, 0, 0, 0)

LEMMA MeaningOfJumps ==
  ASSUME NEW c \in Fields, NEW v, Means(c, v)
  PROVE  PlainJumps(c, v)
<1>0. \A imm, rs1, f3, rd, opc : IType(imm, rs1, f3, rd, opc).opc = opc
  BY DEF IType, Code
<1>1. CASE c.opc = 111
  <2>1. \/ v = Insn("JAL", c.rd, 0, 0, doJoff(c))
        \/ c.rd = 0 /\ v = Insn("J", 0, 0, 0, doJoff(c))
    BY <1>0, <1>1 DEF Means, Jumps, Accesses, Computes, Controls
  <2> QED BY <1>1, <2>1 DEF PlainJumps, Plain, Insn
<1>2. CASE c.opc = 103
  <2>1. \/ v = Insn("JALR", c.rd, c.rs1, 0, Signed(Top12(c), 12))
        \/ c = IType(0, c.rs1, 0, 0, 103) /\ v = Insn("JR", 0, c.rs1, 0, 0)
    BY <1>0, <1>2 DEF Means, Jumps, Accesses, Computes, Controls
  <2>2. CASE c = IType(0, c.rs1, 0, 0, 103)
    <3>1. c.rd = 0 /\ Signed(Top12(c), 12) = 0
      BY <2>2 DEF IType, Code, Field, Top12, Signed
    <3> QED BY <1>2, <2>1, <3>1 DEF PlainJumps, Plain, Insn
  <2> QED BY <1>2, <2>1, <2>2 DEF PlainJumps, Plain, Insn
<1> QED BY <1>1, <1>2 DEF PlainJumps

LEMMA MeaningOfAccesses ==
  ASSUME NEW c \in Fields, NEW v, Means(c, v)
  PROVE  PlainAccesses(c, v)
<1>0. \A imm, rs1, f3, rd, opc : IType(imm, rs1, f3, rd, opc).opc = opc
  BY DEF IType, Code
<1>1. c.opc = 99 => v = Insn(NameOf(BraOps, c), 0, c.rs1, c.rs2, doBoff(c))
  BY <1>0 DEF Means, Jumps, Accesses, Computes, Controls
<1>2. c.opc = 3 => v = Insn(NameOf(LoadOps, c), c.rd, c.rs1, 0, Signed(Top12(c), 12))
  BY <1>0 DEF Means, Jumps, Accesses, Computes, Controls
<1>3. c.opc = 35 =>
        v = Insn(NameOf(StoreOps, c), 0, c.rs1, c.rs2, Signed(c.f7 * 32 + c.rd, 12))
  BY <1>0 DEF Means, Jumps, Accesses, Computes, Controls
<1> QED BY <1>1, <1>2, <1>3, OptableNames DEF PlainAccesses, ByF3

LEMMA MeaningOfImmediates ==
  ASSUME NEW c \in Fields, NEW v, Means(c, v)
  PROVE  PlainImmediates(c, v)
<1>0. \A imm, rs1, f3, rd, opc : IType(imm, rs1, f3, rd, opc).opc = opc
                                 /\ IType(imm, rs1, f3, rd, opc).f3 = f3
  BY DEF IType, Code
<1>1. c.opc = 55 => v = Insn("LUI", c.rd, 0, 0, Signed(Top20(c), 20))
  BY <1>0 DEF Means, Jumps, Accesses, Computes, Controls
<1>2. ASSUME c.opc = 19
      PROVE  \/ c = IType(0, 0, 0, 0, 19) /\ v = Insn("NOP", 0, 0, 0, 0)
             \/ Named(ImmOps, c) /\ v = Insn(NameOf(ImmOps, c), c.rd, c.rs1, 0, Signed(Top12(c), 12))
             \/ c.f7 = 0 /\ c.f3 = 1 /\ v = Insn("SLLI", c.rd, c.rs1, 0, c.rs2)
             \/ c.f7 = 0 /\ c.f3 = 5 /\ v = Insn("SRLI", c.rd, c.rs1, 0, c.rs2)
             \/ c.f7 = 32 /\ c.f3 = 5 /\ v = Insn("SRAI", c.rd, c.rs1, 0, c.rs2)
  BY <1>0, <1>2 DEF Means, Jumps, Accesses, Computes, Controls
<1>3. /\ c.f3 = 0 => NameOf(ImmOps, c) = "ADDI"
      /\ c.f3 = 7 => NameOf(ImmOps, c) = "ANDI"
      /\ c.f3 \in {1, 5} => ~Named(ImmOps, c)
  BY OptableNames DEF ByF3, Named
<1>4. CASE c.opc = 19 /\ c = IType(0, 0, 0, 0, 19) /\ v = Insn("NOP", 0, 0, 0, 0)
  <2>1. c.rd = 0 /\ c.rs1 = 0 /\ c.f3 = 0 /\ Signed(Top12(c), 12) = 0
    BY <1>4 DEF IType, Code, Field, Top12, Signed
  <2>2. Plain(v) = Insn("ADDI", 0, 0, 0, 0)
    BY <1>4 DEF Plain, Insn
  <2> QED BY <1>4, <2>1, <2>2 DEF PlainImmediates
<1>5. CASE /\ c.opc = 19 /\ Named(ImmOps, c)
           /\ v = Insn(NameOf(ImmOps, c), c.rd, c.rs1, 0, Signed(Top12(c), 12))
  <2>1. c.f3 = 0 => Plain(v) = v
    BY <1>3, <1>5 DEF Plain, Insn
  <2> QED BY <1>3, <1>5, <2>1 DEF PlainImmediates
<1>6. CASE /\ c.opc = 19 /\ c.f3 \in {1, 5}
           /\ \/ c.f7 = 0 /\ c.f3 = 1 /\ v = Insn("SLLI", c.rd, c.rs1, 0, c.rs2)
              \/ c.f7 = 0 /\ c.f3 = 5 /\ v = Insn("SRLI", c.rd, c.rs1, 0, c.rs2)
              \/ c.f7 = 32 /\ c.f3 = 5 /\ v = Insn("SRAI", c.rd, c.rs1, 0, c.rs2)
  BY <1>6 DEF PlainImmediates
<1>7. CASE c.opc # 19
  BY <1>1, <1>7 DEF PlainImmediates
<1> QED BY <1>2, <1>4, <1>5, <1>6, <1>7

LEMMA MeaningOfRegisters ==
  ASSUME NEW c \in Fields, NEW v, Means(c, v)
  PROVE  PlainRegisters(c, v)
<1>0. \A imm, rs1, f3, rd, opc : IType(imm, rs1, f3, rd, opc).opc = opc
                                 /\ IType(imm, rs1, f3, rd, opc).f3 = f3
  BY DEF IType, Code
<1>1. c.opc = 51 /\ c.f7 = 0 => v = Insn(NameOf(RegOps, c), c.rd, c.rs1, c.rs2, 0)
  BY <1>0 DEF Means, Jumps, Accesses, Computes, Controls
<1>2. c.opc = 51 /\ c.f7 = 32 /\ c.f3 = 0 => v = Insn("SUB", c.rd, c.rs1, c.rs2, 0)
  BY <1>0 DEF Means, Jumps, Accesses, Computes, Controls
<1>3. CASE c = IType(1, 0, 0, 0, 115)
  <2>1. c.opc = 115 /\ c.f3 = 0 /\ c.rs2 = 1 /\ c.f7 = 0
    BY <1>3 DEF IType, Code, Field
  <2>2. ~Named(CsrOps, c)
    BY <2>1, OptableNames DEF ByF3, Named
  <2>3. /\ c # IType(0, 0, 0, 0, 115) /\ c # IType(258, 0, 0, 0, 115)
        /\ c # IType(770, 0, 0, 0, 115) /\ c # IType(261, 0, 0, 0, 115)
    BY <2>1 DEF IType, Code, Field
  <2> QED BY <1>0, <1>1, <1>2, <2>1, <2>2, <2>3
          DEF PlainRegisters, Means, Jumps, Accesses, Computes, Controls
<1> QED BY <1>1, <1>2, <1>3 DEF PlainRegisters

-----------------------------------------------------------------------------
(* The two readings of a 16 bit code, name by name: the instruction listed, *)
(* and the one issued for the code that decomp16_table has for it.          *)
Differ(n, v) ==
  \/ Name(n) = "SLLI" /\ v.rd \notin 8 .. 15
  \/ Name(n) \in {"LW", "SW"} /\ v.imm >= 64
ListedAs(n, v) == Plain(decodeCompressed(n)) = Plain(v) <=> ~Differ(n, v)

PlainAll(c, v) == /\ PlainJumps(c, v) /\ PlainAccesses(c, v)
                  /\ PlainImmediates(c, v) /\ PlainRegisters(c, v)

LEMMA PlainInsn ==
  ASSUME NEW op, NEW rd, NEW rs1, NEW rs2, NEW imm
  PROVE  /\ op \notin {"NOP", "J", "JR", "LUI", "ADD"} =>
              Plain(Insn(op, rd, rs1, rs2, imm)) = Insn(op, rd, rs1, rs2, imm)
         /\ imm \in -32 .. 31 =>
              Plain(Insn("LUI", rd, 0, 0, imm)) = Insn("ADDI", rd, 0, 0, imm * 4096)
         /\ Plain(Insn("ADD", rd, 0, rs2, 0)) = Insn("ADDI", rd, rs2, 0, 0)
<1>1. op \notin {"NOP", "J", "JR", "LUI", "ADD"} =>
        Plain(Insn(op, rd, rs1, rs2, imm)) = Insn(op, rd, rs1, rs2, imm)
  BY DEF Plain, Insn
<1>2. imm \in -32 .. 31 =>
        Plain(Insn("LUI", rd, 0, 0, imm)) = Insn("ADDI", rd, 0, 0, imm * 4096)
  BY DEF Plain, Insn
<1>3. Plain(Insn("ADD", rd, 0, rs2, 0)) = Insn("ADDI", rd, rs2, 0, 0)
  BY DEF Plain, Insn
<1> QED BY <1>1, <1>2, <1>3

LEMMA InsnParts ==
  ASSUME NEW op, NEW rd, NEW rs1, NEW rs2, NEW imm
  PROVE  /\ Insn(op, rd, rs1, rs2, imm).op = op /\ Insn(op, rd, rs1, rs2, imm).rd = rd
         /\ Insn(op, rd, rs1, rs2, imm).imm = imm
BY DEF Insn

LEMMA FormatParts ==
  ASSUME NEW imm, NEW f7, NEW rs2, NEW rs1, NEW f3, NEW rd, NEW opc
  PROVE  /\ LET c == Code(f7, rs2, rs1, f3, rd, opc)
            IN  /\ c.f7 = f7 /\ c.rs2 = rs2 /\ c.rs1 = rs1
                /\ c.f3 = f3 /\ c.rd = rd /\ c.opc = opc
         /\ LET c == IType(imm, rs1, f3, rd, opc)
            IN  c.rs1 = rs1 /\ c.f3 = f3 /\ c.rd = rd /\ c.opc = opc
         /\ LET c == SType(imm, rs2, rs1, f3, opc)
            IN  c.rs2 = rs2 /\ c.rs1 = rs1 /\ c.f3 = f3 /\ c.opc = opc
         /\ LET c == BType(imm, rs2, rs1, f3, opc)
            IN  c.rs2 = rs2 /\ c.rs1 = rs1 /\ c.f3 = f3 /\ c.opc = opc
         /\ UType(imm, rd, opc).rd = rd /\ UType(imm, rd, opc).opc = opc
         /\ JType(imm, rd, opc).rd = rd /\ JType(imm, rd, opc).opc = opc
BY DEF Code, IType, SType, BType, UType, JType

LEMMA ListedJumps ==
  ASSUME NEW n, Half(n), NEW v, PlainAll(Expansion(n), v), Name(n) \in {"J", "JAL", "JR", "JALR"}
  PROVE  ListedAs(n, v)
<1> DEFINE c == Expansion(n)
<1>1. Jump(n) \in Int /\ -2^20 <= Jump(n) /\ Jump(n) < 2^20 /\ Jump(n) % 2 = 0
  <2>1. Jump(n) \in Int /\ -2048 <= Jump(n) /\ Jump(n) < 2048 /\ Jump(n) % 2 = 0
    BY OffsetRanges
  <2> QED BY <2>1
<1>2. ~Differ(n, v)
  BY DEF Differ
<1>3. CASE Name(n) \in {"J", "JAL"}
  <2> DEFINE rd == IF Name(n) = "J" THEN 0 ELSE 1
  <2>1. decodeCompressed(n) = Insn("JAL", rd, 0, 0, Jump(n))
    BY <1>3, SameOffsets DEF decodeCompressed, Unhandled
  <2>2. c = JType(Jump(n), rd, 111)
    BY <1>3 DEF Expansion
  <2>3. c.opc = 111 /\ c.rd = rd /\ doJoff(c) = Jump(n)
    BY <1>1, <2>2, FormatParts, ReadsJump
  <2>4. Plain(v) = Insn("JAL", rd, 0, 0, Jump(n))
    BY <2>3 DEF PlainAll, PlainJumps
  <2>5. Plain(decodeCompressed(n)) = Insn("JAL", rd, 0, 0, Jump(n))
    BY <2>1, PlainInsn
  <2> QED BY <1>2, <2>4, <2>5 DEF ListedAs
<1>4. CASE Name(n) \in {"JR", "JALR"}
  <2> DEFINE rd == IF Name(n) = "JR" THEN 0 ELSE 1
  <2>1. decodeCompressed(n) = Insn("JALR", rd, R5b7(n), 0, 0)
    BY <1>4 DEF decodeCompressed, Unhandled
  <2>2. c = IType(0, R5b7(n), 0, rd, 103)
    BY <1>4 DEF Expansion
  <2>3. c.opc = 103 /\ c.rd = rd /\ c.rs1 = R5b7(n) /\ Signed(Top12(c), 12) = 0
    BY <2>2, FormatParts, ReadsTwelve
  <2>4. Plain(v) = Insn("JALR", rd, R5b7(n), 0, 0)
    BY <2>3 DEF PlainAll, PlainJumps
  <2>5. Plain(decodeCompressed(n)) = Insn("JALR", rd, R5b7(n), 0, 0)
    BY <2>1, PlainInsn
  <2> QED BY <1>2, <2>4, <2>5 DEF ListedAs
<1> QED BY <1>3, <1>4

LEMMA ListedBranches ==
  ASSUME NEW n, Half(n), NEW v, PlainAll(Expansion(n), v), Name(n) \in {"BEQZ", "BNEZ"}
  PROVE  ListedAs(n, v)
<1> DEFINE c == Expansion(n)
           op == IF Name(n) = "BEQZ" THEN "BEQ" ELSE "BNE"
           f3 == IF Name(n) = "BEQZ" THEN 0 ELSE 1
<1>1. /\ Branch(n) \in Int /\ -4096 <= Branch(n) /\ Branch(n) < 4096 /\ Branch(n) % 2 = 0
  BY OffsetRanges
<1>2. ~Differ(n, v)
  BY DEF Differ
<1>3. decodeCompressed(n) = Insn(op, 0, R3b7(n), 0, Branch(n))
  BY SameOffsets DEF decodeCompressed, Unhandled
<1>4. c = BType(Branch(n), 0, R3b7(n), f3, 99)
  BY DEF Expansion
<1>5. c.opc = 99 /\ c.f3 = f3 /\ c.rs1 = R3b7(n) /\ c.rs2 = 0 /\ doBoff(c) = Branch(n)
  BY <1>1, <1>4, FormatParts, ReadsBranch
<1>6. v = Insn(op, 0, R3b7(n), 0, Branch(n))
  BY <1>5 DEF PlainAll, PlainAccesses
<1> QED BY <1>2, <1>3, <1>6 DEF ListedAs

LEMMA ListedStack ==
  ASSUME NEW n, Half(n), NEW v, PlainAll(Expansion(n), v), Name(n) \in {"LWSP", "SWSP"}
  PROVE  ListedAs(n, v)
<1> DEFINE c == Expansion(n)
<1>1. /\ LwSp(n) \in Int /\ -2048 <= LwSp(n) /\ LwSp(n) < 2048
      /\ SwSp(n) \in Int /\ -2048 <= SwSp(n) /\ SwSp(n) < 2048
  BY OffsetRanges
<1>2. ~Differ(n, v)
  BY DEF Differ
<1>3. CASE Name(n) = "LWSP"
  <2>1. decodeCompressed(n) = Insn("LW", R5b7(n), 2, 0, LwSp(n))
    BY <1>3, SameOffsets DEF decodeCompressed, Unhandled
  <2>2. c = IType(LwSp(n), 2, 2, R5b7(n), 3)
    BY <1>3 DEF Expansion
  <2>3. c.opc = 3 /\ c.f3 = 2 /\ c.rd = R5b7(n) /\ c.rs1 = 2 /\ Signed(Top12(c), 12) = LwSp(n)
    BY <1>1, <2>2, FormatParts, ReadsTwelve
  <2>4. v = Insn("LW", R5b7(n), 2, 0, LwSp(n))
    BY <2>3 DEF PlainAll, PlainAccesses
  <2> QED BY <1>2, <2>1, <2>4 DEF ListedAs
<1>4. CASE Name(n) = "SWSP"
  <2>1. decodeCompressed(n) = Insn("SW", 0, 2, R5b2(n), SwSp(n))
    BY <1>4, SameOffsets DEF decodeCompressed, Unhandled
  <2>2. c = SType(SwSp(n), R5b2(n), 2, 2, 35)
    BY <1>4 DEF Expansion
  <2>3. /\ c.opc = 35 /\ c.f3 = 2 /\ c.rs1 = 2 /\ c.rs2 = R5b2(n)
        /\ Signed(c.f7 * 32 + c.rd, 12) = SwSp(n)
    BY <1>1, <2>2, FormatParts, ReadsTwelve
  <2>4. v = Insn("SW", 0, 2, R5b2(n), SwSp(n))
    BY <2>3 DEF PlainAll, PlainAccesses
  <2> QED BY <1>2, <2>1, <2>4 DEF ListedAs
<1> QED BY <1>3, <1>4

(* mk_sw is right as long as its highest bit is 0.                          *)
LEMMA ListedWords ==
  ASSUME NEW n, Half(n), NEW v, PlainAll(Expansion(n), v), Name(n) \in {"LW", "SW"}
  PROVE  ListedAs(n, v)
<1> DEFINE c == Expansion(n)
<1>1. Word(n) \in 0 .. 127 /\ Word(n) \in Int /\ -2048 <= Word(n) /\ Word(n) < 2048
  BY OffsetRanges
<1>2. mk_sw(n) = Word(n) <=> ~(Word(n) >= 64)
  BY <1>1, SameOffsets DEF Signed
<1>3. CASE Name(n) = "LW"
  <2>1. decodeCompressed(n) = Insn("LW", R3b2(n), R3b7(n), 0, mk_sw(n))
    BY <1>3 DEF decodeCompressed, Unhandled
  <2>2. c = IType(Word(n), R3b7(n), 2, R3b2(n), 3)
    BY <1>3 DEF Expansion
  <2>3. /\ c.opc = 3 /\ c.f3 = 2 /\ c.rd = R3b2(n) /\ c.rs1 = R3b7(n)
        /\ Signed(Top12(c), 12) = Word(n)
    BY <1>1, <2>2, FormatParts, ReadsTwelve
  <2>4. v = Insn("LW", R3b2(n), R3b7(n), 0, Word(n))
    BY <2>3 DEF PlainAll, PlainAccesses
  <2>5. v.imm = Word(n) /\ Plain(v) = v /\ Plain(decodeCompressed(n)) = decodeCompressed(n)
    BY <2>1, <2>4, PlainInsn, InsnParts
  <2>6. decodeCompressed(n) = v <=> mk_sw(n) = Word(n)
    BY <2>1, <2>4, InsnParts
  <2> QED BY <1>2, <1>3, <2>5, <2>6 DEF ListedAs, Differ
<1>4. CASE Name(n) = "SW"
  <2>1. decodeCompressed(n) = Insn("SW", 0, R3b7(n), R3b2(n), mk_sw(n))
    BY <1>4 DEF decodeCompressed, Unhandled
  <2>2. c = SType(Word(n), R3b2(n), R3b7(n), 2, 35)
    BY <1>4 DEF Expansion
  <2>3. /\ c.opc = 35 /\ c.f3 = 2 /\ c.rs1 = R3b7(n) /\ c.rs2 = R3b2(n)
        /\ Signed(c.f7 * 32 + c.rd, 12) = Word(n)
    BY <1>1, <2>2, FormatParts, ReadsTwelve
  <2>4. v = Insn("SW", 0, R3b7(n), R3b2(n), Word(n))
    BY <2>3 DEF PlainAll, PlainAccesses
  <2>5. v.imm = Word(n) /\ Plain(v) = v /\ Plain(decodeCompressed(n)) = decodeCompressed(n)
    BY <2>1, <2>4, PlainInsn, InsnParts
  <2>6. decodeCompressed(n) = v <=> mk_sw(n) = Word(n)
    BY <2>1, <2>4, InsnParts
  <2> QED BY <1>2, <1>4, <2>5, <2>6 DEF ListedAs, Differ
<1> QED BY <1>3, <1>4

(* Names that fix the register or the whole code.                           *)
LEMMA OnlyNop ==
  ASSUME NEW n, Half(n), Name(n) = "NOP"
  PROVE  n = 1
<1>1. ArithName(n) # "NOP" /\ JumpName(n) # "NOP"
  BY EachPart16 DEF ArithName, JumpName
<1>2. <<"ADDI4SPN", "FLOAT", "LW", "FLOAT", "FLOAT", "FLOAT", "SW", "FLOAT">>[F3(n) + 1] # "NOP"
  BY EachPart16
<1>3. <<"ADDI", "JAL", "LI", "-", "-", "J", "BEQZ", "BNEZ">>[F3(n) + 1] # "NOP"
  BY EachPart16
<1>4. <<"SLLI", "FLOAT", "LWSP", "FLOAT", "-", "FLOAT", "SWSP", "FLOAT">>[F3(n) + 1] # "NOP"
  BY EachPart16
<1>5. n = 0 => Quadrant(n) = 0
  BY DEF Quadrant
<1> QED BY <1>1, <1>2, <1>3, <1>4, <1>5, EachPart16 DEF Name

LEMMA StackPointer ==
  ASSUME NEW n, Half(n), Name(n) = "ADDI16SP"
  PROVE  R5b7(n) = 2
<1>1. ArithName(n) # "ADDI16SP" /\ JumpName(n) # "ADDI16SP"
  BY EachPart16 DEF ArithName, JumpName
<1>2. <<"ADDI4SPN", "FLOAT", "LW", "FLOAT", "FLOAT", "FLOAT", "SW", "FLOAT">>[F3(n) + 1] # "ADDI16SP"
  BY EachPart16
<1>3. <<"ADDI", "JAL", "LI", "-", "-", "J", "BEQZ", "BNEZ">>[F3(n) + 1] # "ADDI16SP"
  BY EachPart16
<1>4. <<"SLLI", "FLOAT", "LWSP", "FLOAT", "-", "FLOAT", "SWSP", "FLOAT">>[F3(n) + 1] # "ADDI16SP"
  BY EachPart16
<1>5. n = 0 => Quadrant(n) = 0
  BY DEF Quadrant
<1> QED BY <1>1, <1>2, <1>3, <1>4, <1>5, EachPart16 DEF Name

LEMMA ListedConstants ==
  ASSUME NEW n, Half(n), NEW v, PlainAll(Expansion(n), v),
         Name(n) \in {"ADDI", "NOP", "LI", "ADDI4SPN", "ADDI16SP", "ANDI"}
  PROVE  ListedAs(n, v)
<1> DEFINE c == Expansion(n)
<1>1. /\ Imm(n) \in Int /\ -2048 <= Imm(n) /\ Imm(n) < 2048
      /\ Add4Spn(n) \in Int /\ -2048 <= Add4Spn(n) /\ Add4Spn(n) < 2048
      /\ Add16Sp(n) \in Int /\ -2048 <= Add16Sp(n) /\ Add16Sp(n) < 2048
  <2>1. Imm(n) \in -32 .. 31 /\ Add4Spn(n) \in 0 .. 1023 /\ Add16Sp(n) \in -512 .. 511
    BY OffsetRanges
  <2> QED BY <2>1
<1>2. ~Differ(n, v)
  BY DEF Differ
<1>3. ASSUME NEW imm \in Int, -2048 <= imm, imm < 2048, NEW rd, NEW rs1,
             c = IType(imm, rs1, 0, rd, 19), decodeCompressed(n) = Insn("ADDI", rd, rs1, 0, imm)
      PROVE  ListedAs(n, v)
  <2>1. c.opc = 19 /\ c.f3 = 0 /\ c.rd = rd /\ c.rs1 = rs1 /\ Signed(Top12(c), 12) = imm
    BY <1>3, FormatParts, ReadsTwelve
  <2>2. Plain(v) = Insn("ADDI", rd, rs1, 0, imm)
    BY <2>1 DEF PlainAll, PlainImmediates
  <2>3. Plain(decodeCompressed(n)) = Insn("ADDI", rd, rs1, 0, imm)
    BY <1>3, PlainInsn
  <2> QED BY <1>2, <2>2, <2>3 DEF ListedAs
<1>4. CASE Name(n) = "ADDI"
  <2>1. c = IType(Imm(n), R5b7(n), 0, R5b7(n), 19)
    BY <1>4 DEF Expansion
  <2>2. decodeCompressed(n) = Insn("ADDI", R5b7(n), R5b7(n), 0, Imm(n))
    BY <1>4, SameOffsets DEF decodeCompressed, Unhandled
  <2> QED BY <1>1, <1>3, <2>1, <2>2
<1>5. CASE Name(n) = "NOP"
  <2>1. n = 1
    BY <1>5, OnlyNop
  <2>2. R5b7(n) = 0
    BY <2>1 DEF R5b7, B, Field
  <2>3. Imm(n) = 0
    <3>1. mk_imm6(n) = 0
      BY <2>1 DEF mk_imm6, B, Field, Signed
    <3> QED BY <3>1, SameOffsets
  <2>4. c = IType(0, 0, 0, 0, 19)
    BY <1>5, <2>2, <2>3 DEF Expansion
  <2>5. decodeCompressed(n) = Insn("ADDI", 0, 0, 0, 0)
    BY <1>5 DEF decodeCompressed, Unhandled
  <2> QED BY <1>3, <2>4, <2>5
<1>6. CASE Name(n) = "LI"
  <2>1. c = IType(Imm(n), 0, 0, R5b7(n), 19)
    BY <1>6 DEF Expansion
  <2>2. decodeCompressed(n) = Insn("ADDI", R5b7(n), 0, 0, Imm(n))
    BY <1>6, SameOffsets DEF decodeCompressed, Unhandled
  <2> QED BY <1>1, <1>3, <2>1, <2>2
<1>7. CASE Name(n) = "ADDI4SPN"
  <2>1. c = IType(Add4Spn(n), 2, 0, R3b2(n), 19)
    BY <1>7 DEF Expansion
  <2>2. decodeCompressed(n) = Insn("ADDI", R3b2(n), 2, 0, Add4Spn(n))
    BY <1>7, SameOffsets DEF decodeCompressed, Unhandled
  <2> QED BY <1>1, <1>3, <2>1, <2>2
<1>8. CASE Name(n) = "ADDI16SP"
  <2>1. R5b7(n) = 2
    BY <1>8, StackPointer
  <2>2. c = IType(Add16Sp(n), 2, 0, 2, 19)
    BY <1>8 DEF Expansion
  <2>3. decodeCompressed(n) = Insn("ADDI", 2, 2, 0, Add16Sp(n))
    BY <1>8, <2>1, SameOffsets DEF decodeCompressed, Unhandled
  <2> QED BY <1>1, <1>3, <2>2, <2>3
<1>9. CASE Name(n) = "ANDI"
  <2>1. c = IType(Imm(n), R3b7(n), 7, R3b7(n), 19)
    BY <1>9 DEF Expansion
  <2>2. decodeCompressed(n) = Insn("ANDI", R3b7(n), R3b7(n), 0, Imm(n))
    BY <1>9, SameOffsets DEF decodeCompressed, Unhandled
  <2>3. /\ c.opc = 19 /\ c.f3 = 7 /\ c.rd = R3b7(n) /\ c.rs1 = R3b7(n)
        /\ Signed(Top12(c), 12) = Imm(n)
    BY <1>1, <2>1, FormatParts, ReadsTwelve
  <2>4. v = Insn("ANDI", R3b7(n), R3b7(n), 0, Imm(n))
    BY <2>3 DEF PlainAll, PlainImmediates
  <2> QED BY <1>2, <2>2, <2>4 DEF ListedAs
<1> QED BY <1>4, <1>5, <1>6, <1>7, <1>8, <1>9

LEMMA ListedUpper ==
  ASSUME NEW n, Half(n), NEW v, PlainAll(Expansion(n), v), Name(n) = "LUI"
  PROVE  ListedAs(n, v)
<1> DEFINE c == Expansion(n)
<1>1. Imm(n) \in -32 .. 31
  BY OffsetRanges
<1>2. Imm(n) \in Int /\ -2^19 <= Imm(n) /\ Imm(n) < 2^19
  BY <1>1
<1>3. decodeCompressed(n) = Insn("ADDI", R5b7(n), 0, 0, Imm(n) * 2^12)
  BY SameOffsets DEF decodeCompressed, Unhandled
<1>4. c = UType(Imm(n), R5b7(n), 55)
  BY DEF Expansion
<1>5. c.opc = 55 /\ c.rd = R5b7(n) /\ Signed(Top20(c), 20) = Imm(n)
  BY <1>2, <1>4, FormatParts, ReadsUpper
<1>6. v = Insn("LUI", R5b7(n), 0, 0, Imm(n))
  BY <1>5 DEF PlainAll, PlainImmediates
<1>7. Plain(v) = Insn("ADDI", R5b7(n), 0, 0, Imm(n) * 4096)
  BY <1>1, <1>6, PlainInsn
<1>8. Plain(decodeCompressed(n)) = Insn("ADDI", R5b7(n), 0, 0, Imm(n) * 4096)
  BY <1>3, PlainInsn
<1> QED BY <1>7, <1>8 DEF ListedAs, Differ

(* Of the shifts only slli names its register by five bits.                 *)
LEMMA ListedShifts ==
  ASSUME NEW n, Half(n), NEW v, PlainAll(Expansion(n), v), B(n, 12, 12) = 0,
         Name(n) \in {"SLLI", "SRLI", "SRAI"}
  PROVE  ListedAs(n, v)
<1> DEFINE c == Expansion(n)
<1>1. mk_shamt(n) = R5b2(n)
  BY OffsetRanges, Parts16
<1>2. decodeCompressed(n) = Insn(Name(n), R3b7(n), R3b7(n), 0, R5b2(n))
  BY <1>1 DEF decodeCompressed, Unhandled
<1>3. CASE Name(n) \in {"SRLI", "SRAI"}
  <2> DEFINE f7 == IF Name(n) = "SRLI" THEN 0 ELSE 32
  <2>1. c = Code(f7, R5b2(n), R3b7(n), 5, R3b7(n), 19)
    BY <1>3 DEF Expansion, Shift
  <2>2. c.opc = 19 /\ c.f3 = 5 /\ c.f7 = f7 /\ c.rd = R3b7(n) /\ c.rs1 = R3b7(n) /\ c.rs2 = R5b2(n)
    BY <2>1, FormatParts
  <2>3. v = Insn(Name(n), R3b7(n), R3b7(n), 0, R5b2(n))
    BY <1>3, <2>2 DEF PlainAll, PlainImmediates
  <2> QED BY <1>2, <1>3, <2>3 DEF ListedAs, Differ
<1>4. CASE Name(n) = "SLLI"
  <2>1. c = Code(0, R5b2(n), R5b7(n), 1, R5b7(n), 19)
    BY <1>4 DEF Expansion
  <2>2. c.opc = 19 /\ c.f3 = 1 /\ c.rd = R5b7(n) /\ c.rs1 = R5b7(n) /\ c.rs2 = R5b2(n)
    BY <2>1, FormatParts
  <2>3. v = Insn("SLLI", R5b7(n), R5b7(n), 0, R5b2(n))
    BY <2>2 DEF PlainAll, PlainImmediates
  <2>4. v.rd = R5b7(n) /\ Plain(v) = v /\ Plain(decodeCompressed(n)) = decodeCompressed(n)
    BY <1>2, <1>4, <2>3, PlainInsn, InsnParts
  <2>5. decodeCompressed(n) = v <=> R3b7(n) = R5b7(n)
    BY <1>2, <1>4, <2>3, InsnParts
  <2>6. R3b7(n) = R5b7(n) <=> R5b7(n) \in 8 .. 15
    BY OffsetRanges, Parts16
  <2> QED BY <1>4, <2>4, <2>5, <2>6 DEF ListedAs, Differ
<1> QED BY <1>3, <1>4

LEMMA ListedRegisters ==
  ASSUME NEW n, Half(n), NEW v, Expansion(n) \in Fields, PlainAll(Expansion(n), v),
         Name(n) \in {"SUB", "XOR", "OR", "AND", "MV", "ADD", "EBREAK"}
  PROVE  ListedAs(n, v)
<1> DEFINE c == Expansion(n)
<1>1. ~Differ(n, v)
  BY DEF Differ
<1>2. CASE Name(n) \in {"SUB", "XOR", "OR", "AND"}
  <2>1. decodeCompressed(n) = Insn(Name(n), R3b7(n), R3b7(n), R3b2(n), 0)
    BY <1>2 DEF decodeCompressed, Unhandled
  <2> DEFINE f7 == IF Name(n) = "SUB" THEN 32 ELSE 0
             f3 == CASE Name(n) = "SUB" -> 0 [] Name(n) = "XOR" -> 4
                     [] Name(n) = "OR" -> 6 [] Name(n) = "AND" -> 7
  <2>2. c = Code(f7, R3b2(n), R3b7(n), f3, R3b7(n), 51)
    BY <1>2 DEF Expansion, Alu
  <2>3. /\ c.opc = 51 /\ c.f7 = f7 /\ c.f3 = f3 /\ c.rd = R3b7(n)
        /\ c.rs1 = R3b7(n) /\ c.rs2 = R3b2(n)
    <3> HIDE DEF c, f7, f3
    <3> QED BY <2>2, FormatParts
  <2>4. Name(n) # "SUB" => NameOf(RegOps, c) = Name(n)
    BY <1>2, <2>3, OptableNames DEF ByF3
  <2>5. v = Insn(Name(n), R3b7(n), R3b7(n), R3b2(n), 0)
    BY <1>2, <2>3, <2>4 DEF PlainAll, PlainRegisters
  <2> QED BY <1>1, <2>1, <2>5 DEF ListedAs
<1>3. CASE Name(n) \in {"MV", "ADD"}
  <2> DEFINE rs1 == IF Name(n) = "MV" THEN 0 ELSE R5b7(n)
  <2>1. c = Code(0, R5b2(n), rs1, 0, R5b7(n), 51)
    BY <1>3 DEF Expansion
  <2>2. c.opc = 51 /\ c.f7 = 0 /\ c.f3 = 0 /\ c.rd = R5b7(n) /\ c.rs1 = rs1 /\ c.rs2 = R5b2(n)
    BY <2>1, FormatParts
  <2>3. NameOf(RegOps, c) = "ADD"
    BY <2>2, OptableNames DEF ByF3
  <2>4. v = Insn("ADD", R5b7(n), rs1, R5b2(n), 0)
    BY <2>2, <2>3 DEF PlainAll, PlainRegisters
  <2>5. CASE Name(n) = "MV"
    <3>1. decodeCompressed(n) = Insn("ADDI", R5b7(n), R5b2(n), 0, 0)
      BY <2>5 DEF decodeCompressed, Unhandled
    <3>2. Plain(v) = Insn("ADDI", R5b7(n), R5b2(n), 0, 0)
      BY <2>4, <2>5, PlainInsn
    <3>3. Plain(decodeCompressed(n)) = Insn("ADDI", R5b7(n), R5b2(n), 0, 0)
      BY <3>1, PlainInsn
    <3> QED BY <1>1, <3>2, <3>3 DEF ListedAs
  <2>6. CASE Name(n) = "ADD"
    <3>1. decodeCompressed(n) = Insn("ADD", R5b7(n), R5b7(n), R5b2(n), 0)
      BY <2>6 DEF decodeCompressed, Unhandled
    <3> QED BY <1>1, <2>4, <2>6, <3>1 DEF ListedAs
  <2> QED BY <1>3, <2>5, <2>6
<1>4. CASE Name(n) = "EBREAK"
  <2>1. decodeCompressed(n) = Insn("EBREAK", 0, 0, 0, 0)
    BY <1>4 DEF decodeCompressed, Unhandled
  <2>2. c = IType(1, 0, 0, 0, 115)
    BY <1>4 DEF Expansion
  <2>3. v = Insn("EBREAK", 0, 0, 0, 0)
    BY <2>2 DEF PlainAll, PlainRegisters
  <2> QED BY <1>1, <2>1, <2>3 DEF ListedAs
<1> QED BY <1>2, <1>3, <1>4

LEMMA OrdinaryExpansion ==
  ASSUME NEW n, Half(n), InTable(n)
  PROVE  Ordinary(Expansion(n))
<1> DEFINE c == Expansion(n)
<1>1. Name(n) \in CompressedNames \ {"FLOAT", "ILLEGAL"}
  BY EveryName DEF InTable
<1>2. CASE Name(n) \in {"ADDI4SPN", "NOP", "ADDI", "LI", "ADDI16SP", "ANDI"}
  <2>1. \E imm, rs1, f3, rd : f3 \in {0, 7} /\ c = IType(imm, rs1, f3, rd, 19)
    BY <1>2 DEF Expansion
  <2> QED BY <2>1, FormatParts DEF Ordinary
<1>3. CASE Name(n) \in {"LW", "LWSP"}
  <2>1. \E imm, rs1, rd : c = IType(imm, rs1, 2, rd, 3)
    BY <1>3 DEF Expansion
  <2>2. c.opc = 3 /\ c.f3 = 2
    BY <2>1, FormatParts
  <2> QED BY <2>2 DEF Ordinary
<1>4. CASE Name(n) \in {"SW", "SWSP"}
  <2>1. \E imm, rs2, rs1 : c = SType(imm, rs2, rs1, 2, 35)
    BY <1>4 DEF Expansion
  <2> QED BY <2>1, FormatParts DEF Ordinary
<1>5. CASE Name(n) \in {"BEQZ", "BNEZ"}
  <2>1. \E imm, rs2, rs1, f3 : f3 \in {0, 1} /\ c = BType(imm, rs2, rs1, f3, 99)
    BY <1>5 DEF Expansion
  <2> QED BY <2>1, FormatParts DEF Ordinary
<1>6. CASE Name(n) \in {"J", "JAL", "LUI"}
  <2>1. c = JType(Jump(n), 1, 111) \/ c = JType(Jump(n), 0, 111) \/ c = UType(Imm(n), R5b7(n), 55)
    BY <1>6 DEF Expansion
  <2> QED BY <2>1, FormatParts DEF Ordinary
<1>7. CASE Name(n) \in {"JR", "JALR"}
  <2>1. \E rd : c = IType(0, R5b7(n), 0, rd, 103)
    BY <1>7 DEF Expansion
  <2> QED BY <2>1, FormatParts DEF Ordinary
<1>8. CASE Name(n) \in {"SRLI", "SRAI", "SLLI"}
  <2>1. \/ c = Code(0, R5b2(n), R3b7(n), 5, R3b7(n), 19)
        \/ c = Code(32, R5b2(n), R3b7(n), 5, R3b7(n), 19)
        \/ c = Code(0, R5b2(n), R5b7(n), 1, R5b7(n), 19)
    BY <1>8 DEF Expansion, Shift
  <2>2. c.opc = 19 /\ (c.f3 = 5 \/ (c.f3 = 1 /\ c.f7 = 0)) /\ c.f7 \in {0, 32}
    <3> HIDE DEF c
    <3> QED BY <2>1, FormatParts
  <2> QED BY <2>2 DEF Ordinary
<1>9. CASE Name(n) \in {"SUB", "XOR", "OR", "AND", "MV", "ADD"}
  <2>1. \E f7, rs2, rs1, f3, rd :
          /\ f7 = 0 \/ (f7 = 32 /\ f3 = 0)
          /\ c = Code(f7, rs2, rs1, f3, rd, 51)
    BY <1>9 DEF Expansion, Alu
  <2> QED BY <2>1, FormatParts DEF Ordinary
<1>10. CASE Name(n) = "EBREAK"
  BY <1>10 DEF Expansion, Ordinary
<1> QED BY <1>1, <1>2, <1>3, <1>4, <1>5, <1>6, <1>7, <1>8, <1>9, <1>10 DEF CompressedNames

LEMMA ListedByName ==
  ASSUME NEW n, Half(n), InTable(n), NEW v, Expansion(n) \in Fields, PlainAll(Expansion(n), v)
  PROVE  ListedAs(n, v)
<1>1. Name(n) \in CompressedNames \ {"FLOAT", "ILLEGAL"}
  BY EveryName DEF InTable
<1>2. Name(n) \in {"SLLI", "SRLI", "SRAI"} => B(n, 12, 12) = 0
  BY DEF InTable
<1> QED BY <1>1, <1>2, ListedJumps, ListedBranches, ListedStack, ListedWords, ListedConstants,
           ListedUpper, ListedShifts, ListedRegisters
        DEF CompressedNames

LEMMA CompressedIsListed ==
  ASSUME NEW n, Half(n), InTable(n)
  PROVE  decodeCompressed(n) # None
<1>1. Name(n) \in CompressedNames \ {"FLOAT", "ILLEGAL"}
  BY EveryName DEF InTable
<1> QED BY <1>1, NotFatal DEF decodeCompressed, Unhandled, CompressedNames

LEMMA CompressedListing ==
  ASSUME NEW n, Half(n), Decomp16(n) # None, decode2vliw(Expansion(n)) # Fatal
  PROVE  /\ decodeCompressed(n) # None
         /\ ListedAs(n, Filled(decode2vliw(Expansion(n))))
<1> DEFINE c == Expansion(n)
           v == decode2vliw(c)
<1>1. InTable(n) /\ Decomp16(n) = c
  BY DEF Decomp16
<1>2. c \in Fields
  BY <1>1, TableHoldsCodes
<1>3. v # None
  BY <1>1, <1>2, OrdinaryExpansion, OrdinaryHasRow
<1>4. Means(c, v)
  BY <1>2, <1>3, DecodingMeans
<1>5. PlainAll(c, v)
  BY <1>2, <1>4, MeaningOfJumps, MeaningOfAccesses, MeaningOfImmediates, MeaningOfRegisters
  DEF PlainAll
<1>6. Filled(v) = v
  BY <1>3 DEF Filled
<1>7. decodeCompressed(n) # None
  BY <1>1, CompressedIsListed
<1> QED BY <1>1, <1>2, <1>5, <1>6, <1>7, ListedByName

(* The listing shows the instruction that the run executes (Tools:          *)
(* decodeCompressed and decomp16_table), for every code but slli of a       *)
(* register outside s0 .. a5 and lw and sw with an offset of 64 or more;    *)
(* and for these it shows another.                                          *)
THEOREM ListsTheExpansion == Spec => []ListingAgrees
<1>1. ASSUME IInv, stage = "ran", listed # Unset
      PROVE  Plain(listed) = Plain(issued) <=> ~DecodersDiffer
  <2>1. Executable /\ issued = Filled(decode2vliw(code32)) /\ listed = Filled(Listing)
    BY <1>1 DEF IInv, IssuedIsDecoded, ListedIsListing
  <2>2. CASE ~Compressed16
    BY <2>1, <2>2 DEF Listing, code32, DecodersDiffer
  <2>3. CASE Compressed16
    <3> DEFINE n == word.code
    <3>1. Half(n)
      BY <1>1, <2>3, Assumed DEF IInv, Coded, Compressed16
    <3>2. Decomp16(n) # None /\ code32 = Expansion(n)
      BY <2>1, <2>3 DEF Executable, code32, Decomp16
    <3>3. decode2vliw(Expansion(n)) # Fatal
      BY <2>1, <3>2 DEF Executable
    <3>4. decodeCompressed(n) # None /\ ListedAs(n, issued)
      BY <2>1, <3>1, <3>2, <3>3, CompressedListing
    <3>5. listed = decodeCompressed(n)
      BY <2>1, <2>3, <3>4 DEF Listing, Filled
    <3>6. DecodersDiffer <=> Differ(n, issued)
      BY <2>3 DEF DecodersDiffer, Differ
    <3> QED BY <3>4, <3>5, <3>6 DEF ListedAs
  <2> QED BY <2>2, <2>3
<1>2. IInv => ListingAgrees
  BY <1>1 DEF ListingAgrees
<1> QED BY Invariance, <1>2, PTL
=============================================================================
