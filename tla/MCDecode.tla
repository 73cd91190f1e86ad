------------------------------ MODULE MCDecode -----------------------------
(***************************************************************************)
(* Tools for all codes of 16 bits, and for codes of 32 bits with each       *)
(* opcode and funct3 of RV32IM and one that is nobody's, and with values of *)
(* the other fields that set each bit of an immediate and its neighbours    *)
(* apart: the field that is all ones, one bit alone, zero.                  *)
(***************************************************************************)
EXTENDS Tools

MCHalves == {n \in 0 .. 65535 : n % 4 # 3}

MCFulls ==
  {Code(f7, rs2, rs1, f3, rd, opc) :
     f7 \in {0, 1, 32, 64, 85, 127}, rs2 \in {0, 1, 10, 31}, rs1 \in {0, 5, 31},
     f3 \in 0 .. 7, rd \in {0, 1, 18, 31},
     opc \in {3, 11, 15, 19, 23, 35, 51, 55, 99, 103, 111, 115}}
  \cup {IType(top12, rs1, f3, rd, 115) :
          top12 \in {0, 1, 258, 261, 770}, rs1 \in {0, 1}, rd \in {0, 1}, f3 \in {0, 4}}
=============================================================================
