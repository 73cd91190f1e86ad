-------------------------------- MODULE Words ------------------------------
(***************************************************************************)
(* The arithmetic of C on the 32 bit registers, at any width: casts, wraps, *)
(* shifts, bitwise operators, and products in a type of twice the width.    *)
(***************************************************************************)
EXTENDS Integers, FiniteSets

CONSTANT Width        \* 32; a power of two, as the mask 0x1f needs

(* The second half is arithmetic: powers, which the provers do not compute. *)
ASSUME WidthAssumption ==
  /\ Width \in Nat \ {0, 1}
  /\ \A i \in 0 .. Width-1 : 2^(i+1) = 2 * 2^i

Size == 2^Width
Half == 2^(Width-1)
Word == 0 .. Size-1

Wrap(i)   == i % Size                             \* (uint32_t)i
Signed(w) == IF w >= Half THEN w - Size ELSE w    \* (int32_t)w
Bit(w, i) == (w \div 2^i) % 2

(* The word whose bits are given.  Bit i is worth 2^i, and as many numbers  *)
(* have their highest one at i: those bits are counted with their numbers.  *)
OfBits(b) == Cardinality({n \in 1 .. Size-1 :
               \E i \in 0 .. Width-1 : n \div 2^i = 1 /\ b[i] = 1})

And(x, y) == OfBits([i \in 0 .. Width-1 |-> Bit(x, i) * Bit(y, i)])
Or(x, y)  == OfBits([i \in 0 .. Width-1 |-> 1 - (1 - Bit(x, i)) * (1 - Bit(y, i))])
Xor(x, y) == OfBits([i \in 0 .. Width-1 |-> (Bit(x, i) + Bit(y, i)) % 2])
Not(x)    == Size-1 - x

Masked(w) == w % Width                            \* w & 0x1f
Sll(x, s) == Wrap(x * 2^s)
Srl(x, s) == x \div 2^s
Sra(x, s) == Wrap(Signed(x) \div 2^s)             \* (int32_t)x >> s

(* int64_t: a product, and its upper half as uint32_t.                      *)
Signed64(i) == ((i + Size * Half) % (Size * Size)) - Size * Half
High(p)     == Wrap(Signed64(p) \div Size)

(* Integer division of C rounds towards zero.                               *)
Abs(a)      == IF a < 0 THEN -a ELSE a
Quo(a, b)   == LET q == Abs(a) \div Abs(b) IN IF (a < 0) = (b < 0) THEN q ELSE -q
Rem(a, b)   == a - Quo(a, b) * b
=============================================================================
