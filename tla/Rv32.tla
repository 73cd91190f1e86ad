-------------------------------- MODULE Rv32 -------------------------------
(***************************************************************************)
(* The machine that execute promises: RV32IM with its CSRs, by mathematics  *)
(* rather than by the casts and shifts of C.  Register x0 does not exist, a *)
(* word is the set of its ones or an integer, whichever the instruction is  *)
(* about, and a division is the quotient and the remainder that satisfy it. *)
(* Where C++ or execute leaves a result open, the choices are said.         *)
(***************************************************************************)
EXTENDS Instructions, FiniteSets

CONSTANT  Lines

VARIABLES text, running, pc, x, csr, bus

vars == <<text, running, pc, x, csr, bus>>

Names == 1 .. Last

Init ==
  /\ running = TRUE /\ pc = 0 /\ bus = Quiet
  /\ x \in [Names -> Word]
  /\ csr = [c \in Stored |-> 0]

-----------------------------------------------------------------------------
(* Words as sets of bits and as integers.                                   *)
Places == 0 .. Width-1
Ones   == [w \in Word |-> {i \in Places : (w \div 2^i) % 2 = 1}]
WordOf == [s \in SUBSET Places |-> CHOOSE w \in Word : Ones[w] = s]
Moved(w, k)  == {i + k : i \in Ones[w]} \cap Places
Top          == Width - 1
Negative(w)  == Top \in Ones[w]
Val(w)       == w - Cardinality({Top} \cap Ones[w]) * Size
SymDiff(s, t) == (s \cup t) \ (s \cap t)

(* The word congruent to an integer.                                        *)
Mod(i) == CHOOSE w \in Word : (i - w) % Size = 0

(* Order of signed words: that of the words with their top bit flipped.     *)
Flip(w)     == WordOf[SymDiff(Ones[w], {Top})]
Below(a, b) == Flip(a) < Flip(b)
Num(b)      == Cardinality({0} \cap {IF b THEN 0 ELSE 1})

Count(w) == w - (w \div Width) * Width

Arith(op, a, b) ==
  CASE op = "ADD"  -> Mod(a + b)
    [] op = "SUB"  -> CHOOSE w \in Word : Mod(w + b) = a
    [] op = "XOR"  -> WordOf[SymDiff(Ones[a], Ones[b])]
    [] op = "OR"   -> WordOf[Ones[a] \cup Ones[b]]
    [] op = "AND"  -> WordOf[Ones[a] \cap Ones[b]]
    [] op = "SLT"  -> Num(Below(a, b))
    [] op = "SLTU" -> Num(a < b)
    [] op = "SLL"  -> WordOf[Moved(a, Count(b))]
    [] op = "SRL"  -> WordOf[Moved(a, -Count(b))]
    [] op = "SRA"  -> WordOf[Moved(a, -Count(b)) \cup
                             {p \in Places : Negative(a) /\ p >= Width - Count(b)}]
    [] op = "MUL"    -> Mod(a * b)
    [] op = "MULH"   -> Mod((Val(a) * Val(b)) \div Size)
    [] op = "MULHU"  -> Mod((a * b) \div Size)
    [] op = "MULHSU" -> Mod((Val(a) * b) \div Size)

(* n = q*d + r, with r smaller than d and of n's sign.                      *)
Divides(n, d, q, r) ==
  /\ n = q * d + r
  /\ IF n < 0 THEN r <= 0 ELSE r >= 0
  /\ r * r < d * d

Split(n, d) ==
  CHOOSE p \in (-Size .. Size) \X (-Size .. Size) : Divides(n, d, p[1], p[2])

Divided(op, a, b) ==
  CASE op = "DIV"  -> Mod(Split(Val(a), Val(b))[1])
    [] op = "REM"  -> Mod(Split(Val(a), Val(b))[2])
    [] op = "DIVU" -> Split(a, b)[1]
    [] op = "REMU" -> Split(a, b)[2]

-----------------------------------------------------------------------------
ins     == text[(pc \div 4) % Lines]
Get(n)  == IF n = 0 THEN 0 ELSE x[n]
a1      == Get(ins.rs1)
a2      == Get(ins.rs2)
Set(v)  == x' = [n \in Names |-> IF n = ins.rd THEN v ELSE x[n]]
After   == Mod(pc + ins.len)
On      == pc' = After
Calm    == bus' = Quiet
Target  == IF ins.op \in {"JR", "JALR"} THEN Mod(a1 + ins.imm) ELSE Mod(pc + ins.imm)
Even(w) == w - (w % 2)

NoQuotient ==
  /\ ins.op \in DivOps
  /\ \/ a2 = 0
     \/ ins.op \in {"DIV", "REM"} /\ Val(a1) = -Half /\ Val(a2) = -1

Computes ==
  /\ \/ ins.op \in AluOps \cup MulOps /\ Set(Arith(ins.op, a1, a2))
     \/ ins.op \in ImmOps /\ Set(Arith(Base[ins.op], a1, Mod(ins.imm)))
     \/ ins.op \in DivOps /\ ~NoQuotient /\ Set(Divided(ins.op, a1, a2))
     \/ ins.op = "LUI"    /\ Set(Mod(ins.imm * 2^Upper))
     \/ ins.op = "AUIPC"  /\ Set(Mod(pc + ins.imm * 2^Upper))
     \/ ins.op \in NopOps /\ UNCHANGED x
  /\ On /\ Calm /\ UNCHANGED csr

(* RISC-V drops the lowest bit of the target in a register; either will do. *)
Links ==
  /\ ins.op \in JumpOps
  /\ pc' = Target \/ (ins.op \in {"JR", "JALR"} /\ pc' = Even(Target))
  /\ IF ins.op \in {"JAL", "JALR"} THEN Set(After) ELSE UNCHANGED x
  /\ Calm /\ UNCHANGED csr

Condition ==
  CASE ins.op = "BEQ"  -> a1 = a2        [] ins.op = "BNE"  -> a1 # a2
    [] ins.op = "BLT"  -> Below(a1, a2)  [] ins.op = "BGE"  -> ~Below(a1, a2)
    [] ins.op = "BLTU" -> a1 < a2        [] ins.op = "BGEU" -> ~(a1 < a2)

Branches ==
  /\ ins.op \in BranchOps
  /\ IF Condition THEN pc' = Target ELSE On
  /\ Calm /\ UNCHANGED <<x, csr>>

Transfers ==
  /\ bus'.op = ins.op /\ bus'.addr = Mod(a1 + ins.imm)
  /\ \/ ins.op \in LoadOps /\ Set(bus'.value)
     \/ ins.op \in StoreOps /\ bus'.value = a2 /\ UNCHANGED x
  /\ On /\ UNCHANGED csr

(* A CSR instruction reads and changes the CSR in one step: rd gets what    *)
(* was there before, and the bits of the operand are written, set or        *)
(* cleared.                                                                 *)
Operand == IF ins.op \in {"CSRRW", "CSRRS", "CSRRC"} THEN a1 ELSE ins.rs1
Before  == IF ins.csr \in Stored THEN csr[ins.csr] ELSE FixedValue
Updated ==
  CASE ins.op \in {"CSRRW", "CSRRWI"} -> Operand
    [] ins.op \in {"CSRRS", "CSRRSI"} -> WordOf[Ones[Before] \cup Ones[Operand]]
    [] ins.op \in {"CSRRC", "CSRRCI"} -> WordOf[Ones[Before] \ Ones[Operand]]

Swaps ==
  /\ ins.op \in CsrOps
  /\ csr' = [c \in Stored |-> IF c = ins.csr THEN Updated ELSE csr[c]]
  /\ Set(Before)
  /\ On /\ Calm

(* Where the quotient does not exist any value may come, or the process     *)
(* ends; it ends at an instruction that execute does not have.              *)
Guesses == /\ NoQuotient /\ \E v \in Word : Set(v)
           /\ On /\ Calm /\ UNCHANGED csr
Dies    == /\ NoQuotient \/ ins.op \in Unknown
           /\ running' = FALSE /\ UNCHANGED <<pc, x, csr, bus>>

Next ==
  /\ running /\ UNCHANGED text
  /\ \/ running' = TRUE /\ (Computes \/ Links \/ Branches \/ Transfers \/ Swaps \/ Guesses)
     \/ Dies

Spec == Init /\ [][Next]_vars
=============================================================================
