----------------------------- MODULE MCExecute -----------------------------
(* Every instruction, after and before a few others, on words of 4 bits:    *)
(* the text holds one at addresses 0-3 and 8-11, the other at 4-7 and 12-15.*)
EXTENDS Compiled

Imms == {-8, -4, 0, 1, 4, 7}

I(op, rd, r1, r2, imm, c, len) ==
  [op |-> op, rd |-> rd, rs1 |-> r1, rs2 |-> r2, imm |-> imm, csr |-> c, len |-> len]

One == CHOOSE c \in Stored : TRUE

(* Each operation with the fields that it has; those it lacks are 0.        *)
Firsts ==
  {I(op, d, a, b, 0, One, 4) :
     op \in AluOps \cup MulOps \cup DivOps, d \in Regs, a \in Regs, b \in Regs}
  \cup {I(op, d, a, 0, m, One, 4) :
     op \in ImmOps \cup LoadOps \cup {"JALR"}, d \in Regs, a \in {0, 1}, m \in Imms}
  \cup {I(op, 0, a, b, m, One, 4) :
     op \in BranchOps \cup StoreOps, a \in Regs, b \in {0, 1}, m \in {-4, 1, 4}}
  \cup {I(op, d, 0, 0, m, One, 4) :
     op \in {"LUI", "AUIPC", "JAL"}, d \in {0, 1}, m \in Imms}
  \cup {I("J", 0, 0, 0, m, One, 2) : m \in {-8, 1}}
  \cup {I("JR", 0, a, 0, 0, One, 4) : a \in Regs}
  \cup {I(op, d, a, 0, 0, c, 4) :
     op \in CsrOps, d \in Regs, a \in Regs, c \in Stored \cup Fixed}
  \cup {I(op, 0, 0, 0, 0, One, n) : op \in NopOps \cup Unknown, n \in {2, 4}}

Seconds == {I("JALR", 1, 1, 0, -4, One, 4), I("CSRRS", 1, 2, 0, 0, One, 4)}

Texts == {[l \in 0 .. 1 |-> IF l = 0 THEN f ELSE s] : f \in Firsts, s \in Seconds}
=============================================================================
