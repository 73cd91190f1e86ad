------------------------------- MODULE Memory ------------------------------
(***************************************************************************)
(* The address space of the guest: two segments of host memory and the      *)
(* host port, found by comparing addresses (Memory::read32 and the others), *)
(* the check that only loads have (Cpu::checkAddr), and the system calls    *)
(* that copy into a buffer of the guest (Memory::getPtr).                   *)
(*                                                                          *)
(* A segment is tested for the first byte of an access only.  What is read  *)
(* beyond its end is arbitrary, and what is written there does not reach    *)
(* the guest's memory but somebody else's: wild records that.               *)
(***************************************************************************)
EXTENDS AddressMap

CONSTANTS Data, Text, Host,  \* dataMem, insnMem; hostAddr and hostSize
          WordLen, Widths,   \* bytes of a register; of an access
          Buffers,           \* the lengths of what a system call writes
          Byte, Zero, Ones, Negative,
          PowerOffs,         \* the words with CMD_POWER_OFF in the upper half
          DoCore,            \* do_core: stores may write text
          DoNewlib           \* do_newlib: there are system calls

ASSUME MapAssumption ==
  Data \in Segments /\ Text \in Segments /\ Host \in Segments
ASSUME WordAssumption ==
  /\ WordLen \in Nat \ {0} /\ WordLen \in Widths
  /\ Widths \subseteq 1 .. WordLen
  /\ Buffers \subseteq Nat
  /\ Zero \in Byte /\ Ones \in Byte /\ Negative \subseteq Byte
ASSUME OptionAssumption == DoCore \in BOOLEAN /\ DoNewlib \in BOOLEAN

VARIABLES
  data, text,  \* the bytes of the two segments
  reg,         \* the register loaded last
  sent,        \* the byte transmitted last
  stop,        \* Cpu.stop
  alive,       \* the process has not ended
  wild         \* history: an access left its segment

vars == <<data, text, reg, sent, stop, alive, wild>>

Cells(seg)  == 0 .. seg.len-1
Values(k)   == [0 .. k-1 -> Byte]
Words       == Values(WordLen)
Offset(seg, a) == Minus(a, seg.base)

TypeOK ==
  /\ data \in [Cells(Data) -> Byte]
  /\ text \in [Cells(Text) -> Byte]
  /\ reg \in Words
  /\ sent \in Byte
  /\ stop \in BOOLEAN /\ alive \in BOOLEAN /\ wild \in BOOLEAN

ZeroWord == [i \in 0 .. WordLen-1 |-> Zero]

(* Whatever the loader left in the segments.                                *)
Init ==
  /\ data \in [Cells(Data) -> Byte]
  /\ text \in [Cells(Text) -> Byte]
  /\ reg = ZeroWord
  /\ sent = Zero
  /\ stop = FALSE /\ alive = TRUE /\ wild = FALSE

-----------------------------------------------------------------------------
Executing == alive /\ ~stop

(* Some of the bytes at offsets o .. o+k-1 are beyond the end.              *)
Spills(seg, o, k) == o + k > seg.len

(* The bytes that a read of k bytes may find.                               *)
Found(seg, bytes, o, k) ==
  {v \in Values(k) : \A i \in 0 .. k-1 : o+i < seg.len => v[i] = bytes[o+i]}

(* Mutant of Overwritten: the bytes beyond the end appear in the segment.   *)
OverwrittenPast(bytes, o, k, v) ==
  [c \in DOMAIN bytes \cup (o .. o+k-1) |->
     IF c \in o .. o+k-1 THEN v[c-o] ELSE bytes[c]]

Overwritten(bytes, o, k, v) ==
  [c \in DOMAIN bytes |-> IF c \in o .. o+k-1 THEN v[c-o] ELSE bytes[c]]

(* Mutant of Extended: every load is unsigned.                              *)
ExtendedZero(v, k, signed) ==
  [i \in 0 .. WordLen-1 |-> IF i < k THEN v[i] ELSE Zero]

(* read8 and read16 go through int8_t and int16_t, read8u and read16u not.  *)
Extended(v, k, signed) ==
  [i \in 0 .. WordLen-1 |->
     IF i < k THEN v[i]
     ELSE IF signed /\ v[k-1] \in Negative THEN Ones ELSE Zero]

-----------------------------------------------------------------------------
(* Data is asked first, then text, then the host, which has words only.     *)
ToData(a)    == In(Data, a)
ToText(a)    == ~In(Data, a) /\ In(Text, a)
ToHost(k, a) == ~In(Data, a) /\ ~In(Text, a) /\ k = WordLen /\ ishost(Host, a)

LoadFrom(seg, bytes, k, signed, a) ==
  /\ \E v \in Found(seg, bytes, Offset(seg, a), k) : reg' = Extended(v, k, signed)
  /\ wild' = (wild \/ Spills(seg, Offset(seg, a), k))
  /\ UNCHANGED <<data, text, sent, stop, alive>>

(* LW, LH, LHU, LB, LBU                                                     *)
Load(k, signed, a) ==
  /\ Executing /\ checkAddr(Data, Text, a)
  /\ \/ ToData(a) /\ LoadFrom(Data, data, k, signed, a)
     \/ ToText(a) /\ LoadFrom(Text, text, k, signed, a)

(* A read of the port goes through host() with the value 0.                 *)
LoadHost(k, a) ==
  /\ Executing /\ checkAddr(Data, Text, a) /\ ToHost(k, a)
  /\ reg' = ZeroWord
  /\ sent' = IF a = UartPort THEN Zero ELSE sent
  /\ UNCHANGED <<data, text, stop, alive, wild>>

(* Writes of k bytes at a, into data or, where that is allowed, into text.  *)
WriteData(k, a, v) ==
  /\ ToData(a)
  /\ data' = Overwritten(data, Offset(Data, a), k, v)
  /\ wild' = (wild \/ Spills(Data, Offset(Data, a), k))
  /\ UNCHANGED <<text, reg, sent, stop, alive>>

WriteText(k, a, v) ==
  /\ ToText(a)
  /\ text' = Overwritten(text, Offset(Text, a), k, v)
  /\ wild' = (wild \/ Spills(Text, Offset(Text, a), k))
  /\ UNCHANGED <<data, reg, sent, stop, alive>>

(* SW, SH, SB                                                               *)
Store(k, a, v) ==
  /\ Executing
  /\ WriteData(k, a, v) \/ (DoCore /\ WriteText(k, a, v))

(* Not reached for a text address with do_core; without, text may lie in    *)
(* the host's window.                                                       *)
StoreToHost(k, a) ==
  /\ ~In(Data, a) /\ ~(DoCore /\ In(Text, a))
  /\ k = WordLen /\ ishost(Host, a)

StoreHost(k, a, v) ==
  /\ Executing /\ StoreToHost(k, a)
  /\ stop' = (a = UartPort /\ v \in PowerOffs)
  /\ sent' = IF a = UartPort /\ v \notin PowerOffs THEN v[0] ELSE sent
  /\ UNCHANGED <<data, text, reg, alive, wild>>

(* "Bad Address", "Bad memory access": the process ends.                    *)
Refused == alive' = FALSE /\ UNCHANGED <<data, text, reg, sent, stop, wild>>

RefuseLoad(k, a) ==
  /\ Executing
  /\ ~checkAddr(Data, Text, a) \/ ~(ToData(a) \/ ToText(a) \/ ToHost(k, a))
  /\ Refused

RefuseStore(k, a) ==
  /\ Executing
  /\ ~ToData(a) /\ ~(DoCore /\ In(Text, a)) /\ ~StoreToHost(k, a)
  /\ Refused

(* SYS_read, SYS_gettimeofday: getPtr gives a pointer into data or text.    *)
Receive(k, a, v) ==
  /\ Executing /\ DoNewlib
  /\ WriteData(k, a, v) \/ WriteText(k, a, v)

(* SYS_write: the host reads k bytes through such a pointer.                *)
Send(k, a) ==
  /\ Executing /\ DoNewlib
  /\ \/ ToData(a) /\ wild' = (wild \/ Spills(Data, Offset(Data, a), k))
     \/ ToText(a) /\ wild' = (wild \/ Spills(Text, Offset(Text, a), k))
  /\ UNCHANGED <<data, text, reg, sent, stop, alive>>

(* The pointer that a system call asks for is refused: the process ends.    *)
RefuseBuffer(a) ==
  /\ Executing /\ DoNewlib
  /\ ~ToData(a) /\ ~ToText(a)
  /\ Refused

(* run() ends and resets stop; the debugger may run again.                  *)
Resume ==
  /\ alive /\ stop
  /\ stop' = FALSE
  /\ UNCHANGED <<data, text, reg, sent, alive, wild>>

-----------------------------------------------------------------------------
Access(k, a) ==
  \/ \E signed \in BOOLEAN : Load(k, signed, a)
  \/ LoadHost(k, a)
  \/ \E v \in Values(k) : Store(k, a, v)
  \/ \E v \in Values(k) : StoreHost(k, a, v)
  \/ RefuseLoad(k, a)
  \/ RefuseStore(k, a)

Transfer(k, a) ==
  \/ \E v \in Values(k) : Receive(k, a, v)
  \/ Send(k, a)
  \/ RefuseBuffer(a)

Next ==
  \/ \E k \in Widths, a \in Addr : Access(k, a)
  \/ \E k \in Buffers, a \in Addr : Transfer(k, a)
  \/ Resume

Spec == Init /\ [][Next]_vars
-----------------------------------------------------------------------------
(* The segments share no address, and they consist of whole words.          *)
Disjoint == \A a \in Addr : ~(In(Data, a) /\ In(Text, a))
Whole    == \A n \in {AddrLen, Data.base, Data.len, Text.base, Text.len} :
              \A k \in Widths : n % k = 0

(* An aligned access never makes the simulator touch host memory outside of *)
(* its segment, although isdata and istext look at the first byte only      *)
(* (Memory::read32, write32 and the others).                                *)
StaysInside ==
  [][\A k \in Widths, a \in Addr : a % k = 0 /\ Access(k, a) => wild' = wild]_vars

(* No access to memory that is there ends the process: checkAddr, which     *)
(* compares with the ends of the segments, and isdata and istext, which     *)
(* compare offsets, agree on the segments.                                  *)
MappedIsServed ==
  [][\A k \in Widths, a \in Addr :
       /\ RefuseLoad(k, a) => ~In(Data, a) /\ ~In(Text, a)
       /\ RefuseStore(k, a) => ~In(Data, a) /\ (DoCore => ~In(Text, a))]_vars

Mapped   == {a \in Addr : In(Data, a) \/ In(Text, a)}
Writable == {a \in Addr : In(Data, a) \/ (DoCore /\ In(Text, a))}
Device   == {a \in Addr : ishost(Host, a)}
Bytes    == [a \in Mapped |-> IF In(Data, a) THEN data[Offset(Data, a)]
                              ELSE text[Offset(Text, a)]]
Flat == INSTANCE FlatMemory WITH mem <- Bytes, defined <- alive /\ ~wild

(* The accesses of the flat memory are the very ones that are asked for:    *)
(* the same address, width, value and extension.                            *)
AccessesFlat ==
  [][~wild' =>
     /\ \A k \in Widths, a \in Addr :
          /\ \A signed \in BOOLEAN :
               Load(k, signed, a) => Flat!Load(k, signed, a)
          /\ \A v \in Values(k) : Store(k, a, v) => Flat!Store(k, a, v)
     /\ \A k \in Buffers, a \in Addr : \A v \in Values(k) :
          Receive(k, a, v) => Flat!Fill(k, a, v)]_vars

(* The guest sees one flat memory with a device, as long as it stays in its *)
(* segments: whatever the segment, the width and the extension, an access   *)
(* reads or writes its own bytes and nothing else (read8 to write32 of      *)
(* class Memory, getPtr, host).                                             *)
RunsFlat == Flat!Spec /\ AccessesFlat
=============================================================================
