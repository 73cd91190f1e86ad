----------------------------- MODULE FlatMemory ----------------------------
(***************************************************************************)
(* What loads and stores mean to the guest: one array of bytes, of which    *)
(* stores can write some and system calls all, and a device that takes      *)
(* bytes.  An access of other addresses ends the process or, where the host *)
(* has no such check, the meaning of the program: anything may follow.      *)
(***************************************************************************)
EXTENDS Integers

CONSTANTS WordLen,   \* 4: the bytes of a register
          Widths,    \* 1, 2, 4: the bytes of an access
          Buffers,   \* the lengths of what a system call writes
          Byte, Zero, Ones, Negative,  \* bytes; 0; 0xff; those with bit 7 set
          Mapped,    \* the addresses that hold a byte
          Writable,  \* those that the guest may write
          Device     \* the addresses of the device

VARIABLES mem, reg, sent, defined

vars == <<mem, reg, sent, defined>>

Span(a, k) == a .. a+k-1
Values(k)  == [0 .. k-1 -> Byte]
Words      == Values(WordLen)

(* A register after loading k bytes: the rest is zero, or copies the sign.  *)
Extended(v, k, signed) ==
  [i \in 0 .. WordLen-1 |->
     IF i < k THEN v[i]
     ELSE IF signed /\ v[k-1] \in Negative THEN Ones ELSE Zero]

Init ==
  /\ mem \in [Mapped -> Byte]
  /\ reg \in Words
  /\ sent \in {Zero}
  /\ defined = TRUE

Load(k, signed, a) ==
  /\ defined /\ Span(a, k) \subseteq Mapped
  /\ reg' = Extended([i \in 0 .. k-1 |-> mem[a+i]], k, signed)
  /\ UNCHANGED <<mem, sent, defined>>

Write(k, a, v) ==
  /\ mem' = [b \in Mapped |-> IF b \in Span(a, k) THEN v[b-a] ELSE mem[b]]
  /\ UNCHANGED <<reg, sent, defined>>

(* A store instruction.                                                     *)
Store(k, a, v) == defined /\ Span(a, k) \subseteq Writable /\ Write(k, a, v)

(* A system call that fills a buffer.                                       *)
Fill(k, a, v) == defined /\ Span(a, k) \subseteq Mapped /\ Write(k, a, v)

(* A load from the device reads zero; it may transmit a zero as well.       *)
LoadDevice(a) ==
  /\ defined /\ a \in Device
  /\ reg' = [i \in 0 .. WordLen-1 |-> Zero]
  /\ sent' \in {sent, Zero}
  /\ UNCHANGED <<mem, defined>>

StoreDevice(a, v) ==
  /\ defined /\ a \in Device
  /\ sent' \in {sent, v[0]}
  /\ UNCHANGED <<mem, reg, defined>>

Halt == defined' = FALSE

Next ==
  \/ \E k \in Widths, signed \in BOOLEAN, a \in Mapped : Load(k, signed, a)
  \/ \E k \in Widths, a \in Mapped : \E v \in Values(k) : Store(k, a, v)
  \/ \E k \in Buffers, a \in Mapped : \E v \in Values(k) : Fill(k, a, v)
  \/ \E a \in Device : LoadDevice(a) \/ \E v \in Words : StoreDevice(a, v)
  \/ Halt

Spec == Init /\ [][Next]_vars
=============================================================================
