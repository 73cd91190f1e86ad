------------------------------ MODULE Compiled -----------------------------
(***************************************************************************)
(* The C program that rv_compile writes, in lockstep with execute.  Every   *)
(* word of text becomes a label with the statements of rv_insn; a jump sets *)
(* the C variable pc and goes to `next', where switch(pc>>2) finds a label. *)
(* r is the register array; nothing resets r[0], as execute does.  What the *)
(* program reads from memory is what execute reads.                         *)
(* The program is followed until it meets an instruction for which rv_insn  *)
(* has no statement or none that compiles, an address without a label, or   *)
(* an instruction that leaves something in r[0].                            *)
(***************************************************************************)
EXTENDS Execute

VARIABLES
  r,         \* registers of the C program
  at,        \* the label where it is
  out,       \* its last access
  file,      \* its CSRs
  followed   \* FALSE from the first gap on

cvars == <<r, at, out, file, followed>>
allvars == <<vars, cvars>>

(* Types of both machines; pc and the label stay addresses (execute, rv_insn).*)
CTypeOK == /\ TypeOK /\ followed \in BOOLEAN
           /\ r \in [Regs -> Word] /\ at \in Word
           /\ out \in Accesses /\ file \in [Stored -> Word]

CInit == /\ Init
         /\ r = reg /\ at = 0 /\ out = Quiet /\ file = csr
         /\ followed = TRUE

-----------------------------------------------------------------------------
line == text[(at \div 4) % Lines]

(* The strings ss1, ss2 and sd of rv_insn: a literal 0 for x0.  Only add,   *)
(* addi and the branches use them; the others name r[0].                    *)
Src(n) == IF n = 0 THEN 0 ELSE r[n]

(* add and addi to x0 are written "0 = ...", which is not C.                *)
AssignsToZero == line.op \in {"ADD", "ADDI"} /\ line.rd = 0

Labelled(a) == a % 4 = 0

(* Multiplications are "TO DO", the statement of sret and wfi calls what    *)
(* does not exist, fence has no case, 16 bit instructions are unknown.      *)
Gap == \/ line.len = 2
       \/ AssignsToZero
       \/ line.op \in BranchOps /\ ~Labelled(at + line.imm)
       \/ line.op \in MulOps \cup DivOps \cup Unknown \cup {"SRET", "WFI"}

-----------------------------------------------------------------------------
Falls     == at' = Wrap(at + 4)
Resume(a) == at' = (Wrap(a) \div 4) * 4          \* goto next; switch(pc>>2)
Assign(v) == r' = [r EXCEPT ![line.rd] = v]
Silent    == out' = Quiet

Statement ==
  \/ line.op = "NOP" /\ UNCHANGED <<r, file>> /\ Falls /\ Silent
  \/ /\ line.op \in AluOps
     /\ Assign(IF line.op = "ADD" THEN Result("ADD", Src(line.rs1), Src(line.rs2))
               ELSE Result(line.op, r[line.rs1], r[line.rs2]))
     /\ Falls /\ Silent /\ UNCHANGED file
  \/ /\ line.op \in ImmOps
     /\ Assign(IF line.op = "ADDI" THEN Wrap(Src(line.rs1) + line.imm)
               ELSE Result(Base[line.op], r[line.rs1], Wrap(line.imm)))
     /\ Falls /\ Silent /\ UNCHANGED file
  \/ /\ line.op \in {"LUI", "AUIPC"}
     /\ Assign(Wrap(line.imm * 2^Upper + IF line.op = "LUI" THEN 0 ELSE at))
     /\ Falls /\ Silent /\ UNCHANGED file
  \/ /\ line.op \in LoadOps
     /\ Assign(bus'.value)
     /\ out' = [op |-> line.op, addr |-> Wrap(r[line.rs1] + line.imm), value |-> bus'.value]
     /\ Falls /\ UNCHANGED file
  \/ /\ line.op \in StoreOps
     /\ out' = [op |-> line.op, addr |-> Wrap(r[line.rs1] + line.imm), value |-> r[line.rs2]]
     /\ Falls /\ UNCHANGED <<r, file>>

(* The C variable pc is set from rs1 before r[rd] is; rd = 0 is left out.   *)
Linked == IF line.rd # 0 THEN [r EXCEPT ![line.rd] = Wrap(at + 4)] ELSE r

JumpLinksBefore ==                                  \* mutant
  /\ line.op \in JumpOps
  /\ Resume(IF line.op \in {"J", "JAL"} THEN at + line.imm
           ELSE Linked[line.rs1] + line.imm)
  /\ r' = Linked
  /\ Silent /\ UNCHANGED file

JumpStatement ==
  /\ line.op \in JumpOps
  /\ Resume(IF line.op \in {"J", "JAL"} THEN at + line.imm ELSE r[line.rs1] + line.imm)
  /\ r' = Linked
  /\ Silent /\ UNCHANGED file

BranchStatement ==
  /\ line.op \in BranchOps
  /\ IF Taken(line.op, Src(line.rs1), Src(line.rs2)) THEN at' = Wrap(at + line.imm) ELSE Falls
  /\ Silent /\ UNCHANGED <<r, file>>

CsrStatement ==
  /\ line.op \in CsrOps
  /\ LET imm32 == IF line.op \in {"CSRRW", "CSRRS", "CSRRC"} THEN r[line.rs1] ELSE line.rs1
     IN  file' = CsrWritten(file, Type(line.op), line.csr, line.rd, line.rs1, imm32)
  /\ r' = CsrRead(file, r, Type(line.op), line.csr, line.rd)
  /\ Falls /\ Silent

Runs == Statement \/ JumpStatement \/ BranchStatement \/ CsrStatement

-----------------------------------------------------------------------------
Follow == /\ followed /\ ~Gap /\ Next /\ Runs
          /\ followed' = (Labelled(pc') /\ r'[0] = 0)

Part == /\ Next
        /\ followed => Gap
        /\ followed' = FALSE /\ UNCHANGED <<r, at, out, file>>

CNext == Follow \/ Part
CSpec == CInit /\ [][CNext]_allvars

(* As long as it is followed, the compiled program has done what execute    *)
(* has done (rv_insn, Cpu::execute).                                        *)
CompiledAgrees ==
  followed => reg = r /\ pc = at /\ bus = out /\ csr = file
=============================================================================
