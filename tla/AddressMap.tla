----------------------------- MODULE AddressMap ----------------------------
(***************************************************************************)
(* 32 bit address arithmetic and the three tests of the simulator for       *)
(* where an address belongs.  A segment is a record of a base and a length. *)
(***************************************************************************)
EXTENDS Integers

CONSTANTS AddrLen,    \* 2^32
          DebugPort,  \* 0xffffff00
          UartPort    \* 0xfffffffc

ASSUME AddressAssumption ==
  /\ AddrLen \in Nat \ {0}
  /\ DebugPort \in 0 .. AddrLen-1
  /\ UartPort \in 0 .. AddrLen-1

Addr     == 0 .. AddrLen-1
Segments == [base : Addr, len : Addr]

(* Mutant of Plus: wider than 32 bits.                                      *)
PlusWide(a, b) == a + b

(* Sum and difference of two uint32_t.                                      *)
Plus(a, b)  == IF a + b < AddrLen THEN a + b ELSE a + b - AddrLen
Minus(a, b) == IF a >= b THEN a - b ELSE a - b + AddrLen

(* Mutant of In: one address too many.                                      *)
InClosed(seg, a) == Minus(a, seg.base) <= seg.len

(* isdata, istext: the offset is below the length.                          *)
In(seg, a) == Minus(a, seg.base) < seg.len

(* Mutant of Between: the first address is left out.                        *)
BetweenOpen(seg, a) == a > seg.base /\ a < Plus(seg.base, seg.len)

(* checkAddr's test of the same segment: between two ends.                  *)
Between(seg, a) == a >= seg.base /\ a < Plus(seg.base, seg.len)

(* ishost: the last address is included.                                    *)
ishost(seg, a) == a >= seg.base /\ a <= Plus(seg.base, Minus(seg.len, 1))

(* What checkAddr lets a load instruction address.                          *)
checkAddr(data, text, a) ==
  Between(data, a) \/ Between(text, a) \/ a \in DebugPort .. UartPort
=============================================================================
