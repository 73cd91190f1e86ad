---------------------------- MODULE MemoryProofs ---------------------------
(***************************************************************************)
(* Theorems of Memory, for segments, words and buffers of every size.       *)
(***************************************************************************)
EXTENDS Memory, TLAPS

(* Segments of whole words, and the widths that there are.                  *)
Layout == Whole /\ Widths \subseteq {1, 2, 4}

(* Neither segment reaches the end of the address space.                    *)
NoWrap == Data.base + Data.len < AddrLen /\ Text.base + Text.len < AddrLen

-----------------------------------------------------------------------------
(* The offset of an address that isdata or istext accepts names a byte of   *)
(* the segment.                                                             *)
LEMMA OffsetInCells ==
  ASSUME NEW seg \in Segments, NEW a \in Addr
  PROVE  /\ Offset(seg, a) \in Nat
         /\ In(seg, a) => Offset(seg, a) \in Cells(seg)
  BY AddressAssumption DEF Offset, Minus, In, Cells, Segments, Addr

(* What read8, read16 and read32 return is a register.                      *)
LEMMA ExtendedType ==
  ASSUME NEW k \in Widths, NEW v \in Values(k), NEW signed \in BOOLEAN
  PROVE  Extended(v, k, signed) \in Words
  BY WordAssumption DEF Extended, Values, Words

(* Writing some bytes leaves a segment a segment.                           *)
LEMMA OverwrittenType ==
  ASSUME NEW seg \in Segments, NEW bytes \in [Cells(seg) -> Byte],
         NEW o \in Nat, NEW k \in Nat, NEW v \in Values(k)
  PROVE  Overwritten(bytes, o, k, v) \in [Cells(seg) -> Byte]
  BY DEF Overwritten, Values, Cells, Segments, Addr

(* An aligned access that begins in a segment of whole words ends in it:    *)
(* this is why the first byte is all that Memory::read32 has to test.       *)
LEMMA AlignedFits ==
  ASSUME NEW seg \in {Data, Text}, NEW k \in Widths, NEW a \in Addr,
         Layout, a % k = 0, In(seg, a)
  PROVE  ~Spills(seg, Offset(seg, a), k)
  <1>1. seg \in Segments
    BY MapAssumption
  <1>2. seg.base % k = 0 /\ seg.len % k = 0 /\ AddrLen % k = 0
    BY DEF Layout, Whole
  <1>3. k \in {1, 2, 4}
    BY DEF Layout
  <1>4. AddrLen \in Nat /\ seg.base \in Nat /\ seg.len \in Nat /\ a \in Nat
    BY <1>1, AddressAssumption DEF Segments, Addr
  <1>5. CASE k = 1
    BY <1>4, <1>5 DEF In, Minus, Spills, Offset
  <1>6. CASE k = 2
    BY <1>2, <1>4, <1>6 DEF In, Minus, Spills, Offset
  <1>7. CASE k = 4
    BY <1>2, <1>4, <1>7 DEF In, Minus, Spills, Offset
  <1> QED BY <1>3, <1>5, <1>6, <1>7

-----------------------------------------------------------------------------
(* The type invariant.                                                      *)
LEMMA WritesType ==
  ASSUME TypeOK, NEW k \in Nat, NEW a \in Addr, NEW v \in Values(k),
         WriteData(k, a, v) \/ WriteText(k, a, v)
  PROVE  TypeOK'
  <1>1. CASE WriteData(k, a, v)
    <2>1. data' \in [Cells(Data) -> Byte]
      BY <1>1, OffsetInCells, OverwrittenType, MapAssumption
      DEF WriteData, TypeOK
    <2> QED BY <1>1, <2>1 DEF WriteData, TypeOK
  <1>2. CASE WriteText(k, a, v)
    <2>1. text' \in [Cells(Text) -> Byte]
      BY <1>2, OffsetInCells, OverwrittenType, MapAssumption
      DEF WriteText, TypeOK
    <2> QED BY <1>2, <2>1 DEF WriteText, TypeOK
  <1> QED BY <1>1, <1>2

(* An instruction that accesses memory preserves it.                        *)
LEMMA AccessType ==
  ASSUME TypeOK, NEW k \in Widths, NEW a \in Addr, Access(k, a)
  PROVE  TypeOK'
  <1>0. k \in Nat /\ 0 \in 0 .. k-1
    BY WordAssumption
  <1>1. CASE \E signed \in BOOLEAN : Load(k, signed, a)
    <2>1. PICK signed \in BOOLEAN : Load(k, signed, a)
      BY <1>1
    <2>2. reg' \in Words
      BY <2>1, ExtendedType DEF Load, LoadFrom, Found
    <2>3. wild' \in BOOLEAN
      BY <2>1 DEF Load, LoadFrom, TypeOK
    <2> QED BY <2>1, <2>2, <2>3 DEF Load, LoadFrom, TypeOK
  <1>2. CASE LoadHost(k, a)
    BY <1>2, WordAssumption DEF LoadHost, TypeOK, ZeroWord, Words, Values
  <1>3. CASE \E v \in Values(k) : Store(k, a, v)
    BY <1>0, <1>3, WritesType DEF Store
  <1>4. CASE \E v \in Values(k) : StoreHost(k, a, v)
    BY <1>0, <1>4 DEF StoreHost, TypeOK, Values
  <1>5. CASE RefuseLoad(k, a) \/ RefuseStore(k, a)
    BY <1>5 DEF RefuseLoad, RefuseStore, Refused, TypeOK
  <1> QED BY <1>1, <1>2, <1>3, <1>4, <1>5 DEF Access

(* A system call preserves it.                                              *)
LEMMA TransferType ==
  ASSUME TypeOK, NEW k \in Buffers, NEW a \in Addr, Transfer(k, a)
  PROVE  TypeOK'
  <1>1. CASE \E v \in Values(k) : Receive(k, a, v)
    BY <1>1, WritesType, WordAssumption DEF Receive
  <1>2. CASE Send(k, a)
    BY <1>2 DEF Send, TypeOK
  <1>3. CASE RefuseBuffer(a)
    BY <1>3 DEF RefuseBuffer, Refused, TypeOK
  <1> QED BY <1>1, <1>2, <1>3 DEF Transfer

(* The registers and the segments keep their size and hold bytes, however   *)
(* the guest addresses them.                                                *)
THEOREM TypeCorrect == Spec => []TypeOK
  <1>1. Init => TypeOK
    BY WordAssumption DEF Init, TypeOK, ZeroWord, Words, Values
  <1>2. TypeOK /\ [Next]_vars => TypeOK'
    <2> SUFFICES ASSUME TypeOK, [Next]_vars PROVE TypeOK'
      OBVIOUS
    <2>1. CASE \E k \in Widths, a \in Addr : Access(k, a)
      BY <2>1, AccessType
    <2>2. CASE \E k \in Buffers, a \in Addr : Transfer(k, a)
      BY <2>2, TransferType
    <2>3. CASE Resume
      BY <2>3 DEF Resume, TypeOK
    <2>4. CASE UNCHANGED vars
      BY <2>4 DEF vars, TypeOK
    <2> QED BY <2>1, <2>2, <2>3, <2>4 DEF Next
  <1> QED BY <1>1, <1>2, PTL DEF Spec

-----------------------------------------------------------------------------
(* The simulator touches no host memory but the segments, for any segments  *)
(* of whole words, when the guest aligns its accesses (read32, write32 and  *)
(* the others in class Memory).                                             *)
THEOREM Inside == Layout => (Spec => StaysInside)
  <1> SUFFICES ASSUME Layout PROVE Spec => StaysInside
    OBVIOUS
  <1>1. ASSUME TypeOK, NEW k \in Widths, NEW a \in Addr,
               a % k = 0, Access(k, a)
        PROVE  wild' = wild
    <2>0. /\ In(Data, a) => ~Spills(Data, Offset(Data, a), k)
          /\ In(Text, a) => ~Spills(Text, Offset(Text, a), k)
      BY <1>1, AlignedFits
    <2>1. CASE \E signed \in BOOLEAN : Load(k, signed, a)
      BY <1>1, <2>0, <2>1 DEF Load, LoadFrom, ToData, ToText, TypeOK
    <2>2. CASE \E v \in Values(k) : Store(k, a, v)
      BY <1>1, <2>0, <2>2
      DEF Store, WriteData, WriteText, ToData, ToText, TypeOK
    <2>3. CASE LoadHost(k, a) \/ \E v \in Values(k) : StoreHost(k, a, v)
      BY <2>3 DEF LoadHost, StoreHost
    <2>4. CASE RefuseLoad(k, a) \/ RefuseStore(k, a)
      BY <2>4 DEF RefuseLoad, RefuseStore, Refused
    <2> QED BY <1>1, <2>1, <2>2, <2>3, <2>4 DEF Access
  <1>2. TypeOK => \A k \in Widths, a \in Addr :
                    a % k = 0 /\ Access(k, a) => wild' = wild
    BY <1>1
  <1> QED BY <1>2, TypeCorrect, PTL DEF Spec, StaysInside

-----------------------------------------------------------------------------
(* checkAddr accepts the address of every byte of a segment that does not   *)
(* reach the end of the address space.                                      *)
LEMMA EndsAgree ==
  ASSUME NEW seg \in Segments, NEW a \in Addr,
         seg.base + seg.len < AddrLen, In(seg, a)
  PROVE  Between(seg, a)
  BY AddressAssumption DEF In, Minus, Between, Plus, Segments, Addr

(* No access to a byte that is there ends the process (checkAddr, read32,   *)
(* write32 and the others).                                                 *)
THEOREM Served == NoWrap => (Spec => MappedIsServed)
  <1> SUFFICES ASSUME NoWrap PROVE Spec => MappedIsServed
    OBVIOUS
  <1>1. ASSUME NEW k \in Widths, NEW a \in Addr, RefuseLoad(k, a)
        PROVE  ~In(Data, a) /\ ~In(Text, a)
    BY <1>1, EndsAgree, MapAssumption
    DEF NoWrap, RefuseLoad, checkAddr, ToData, ToText
  <1>2. ASSUME NEW k \in Widths, NEW a \in Addr, RefuseStore(k, a)
        PROVE  ~In(Data, a) /\ (DoCore => ~In(Text, a))
    BY <1>2 DEF RefuseStore, ToData
  <1>3. \A k \in Widths, a \in Addr :
          /\ RefuseLoad(k, a) => ~In(Data, a) /\ ~In(Text, a)
          /\ RefuseStore(k, a) => ~In(Data, a) /\ (DoCore => ~In(Text, a))
    BY <1>1, <1>2
  <1> QED BY <1>3, PTL DEF MappedIsServed

-----------------------------------------------------------------------------
(* The bytes of an access that stays in its segment: they are addresses of  *)
(* the same segment, at consecutive offsets.                                *)
LEMMA Contiguous ==
  ASSUME NEW seg \in Segments, NEW k \in Nat, NEW a \in Addr,
         seg.base + seg.len < AddrLen,
         In(seg, a), ~Spills(seg, Offset(seg, a), k)
  PROVE  /\ \A b \in a .. a+k-1 : b \in Addr /\ In(seg, b)
         /\ \A b \in Addr : In(seg, b) =>
              /\ Offset(seg, b) \in Cells(seg)
              /\ Offset(seg, b) - Offset(seg, a) = b - a
              /\ b \in a .. a+k-1
                    <=> Offset(seg, b) \in Offset(seg, a) .. Offset(seg, a)+k-1
  BY AddressAssumption
  DEF In, Minus, Spills, Offset, Cells, Segments, Addr

(* One meaning for every address.                                           *)
Flattens == NoWrap /\ Disjoint

(* The bytes that a load finds are those of the flat memory.                *)
LEMMA FoundFlat ==
  ASSUME Flattens, TypeOK, NEW k \in Nat, NEW a \in Addr,
         NEW seg, NEW bytes, NEW v \in Found(seg, bytes, Offset(seg, a), k),
         \/ seg = Data /\ bytes = data
         \/ seg = Text /\ bytes = text,
         In(seg, a), ~Spills(seg, Offset(seg, a), k)
  PROVE  /\ a .. a+k-1 \subseteq Mapped
         /\ v = [i \in 0 .. k-1 |-> Bytes[a+i]]
  <1>1. seg \in Segments /\ seg.base + seg.len < AddrLen
    BY MapAssumption DEF Flattens, NoWrap
  <1>2. \A b \in a .. a+k-1 : b \in Addr /\ In(seg, b)
    BY <1>1, Contiguous
  <1>3. a .. a+k-1 \subseteq Mapped
    BY <1>2 DEF Mapped
  <1>4. v \in [0 .. k-1 -> Byte]
    BY DEF Found, Values
  <1>5. ASSUME NEW i \in 0 .. k-1
        PROVE  v[i] = Bytes[a+i]
    <2>1. a+i \in a .. a+k-1
      BY DEF Addr
    <2>2. a+i \in Addr /\ In(seg, a+i)
      BY <1>2, <2>1
    <2>3. Offset(seg, a+i) = Offset(seg, a) + i
      <3>1. \A b \in Addr : In(seg, b) => Offset(seg, b) - Offset(seg, a) = b - a
        BY <1>1, Contiguous
      <3> QED BY <1>1, <2>2, <3>1, OffsetInCells DEF Addr
    <2>4. v[i] = bytes[Offset(seg, a) + i]
      BY <1>1, OffsetInCells DEF Found, Spills, Segments, Addr
    <2>5. Bytes[a+i] = bytes[Offset(seg, a+i)]
      BY <2>2 DEF Flattens, Disjoint, Bytes, Mapped
    <2> QED BY <2>3, <2>4, <2>5
  <1> QED BY <1>3, <1>4, <1>5

(* A load is a load of the flat memory.                                     *)
LEMMA LoadFlat ==
  ASSUME Flattens, TypeOK, NEW k \in Widths, NEW a \in Addr,
         NEW signed \in BOOLEAN, Load(k, signed, a), ~wild'
  PROVE  a \in Mapped /\ Flat!Load(k, signed, a)
  <1>0. k \in Nat
    BY WordAssumption
  <1>1. ASSUME NEW seg, NEW bytes,
               \/ seg = Data /\ bytes = data
               \/ seg = Text /\ bytes = text,
               In(seg, a), LoadFrom(seg, bytes, k, signed, a)
        PROVE  a \in Mapped /\ Flat!Load(k, signed, a)
    <2>1. PICK v \in Found(seg, bytes, Offset(seg, a), k) :
            reg' = Extended(v, k, signed)
      BY <1>1 DEF LoadFrom
    <2>2. ~Spills(seg, Offset(seg, a), k) /\ ~wild
      BY <1>1 DEF LoadFrom
    <2>3. a .. a+k-1 \subseteq Mapped /\ v = [i \in 0 .. k-1 |-> Bytes[a+i]]
      BY <1>0, <1>1, <2>2, FoundFlat
    <2>4. reg' = Flat!Extended(v, k, signed)
      BY <2>1 DEF Extended, Flat!Extended
    <2>5. Bytes' = Bytes
      BY <1>1 DEF LoadFrom, Bytes, Mapped
    <2>6. a \in Mapped
      BY <1>1 DEF Mapped
    <2> QED BY <1>1, <2>3, <2>4, <2>5, <2>6
            DEF Load, LoadFrom, Executing, Flat!Load, Flat!Span
  <1> QED BY <1>1 DEF Load, ToData, ToText

(* What is written through a segment is written to the flat memory.         *)
LEMMA WriteFlat ==
  ASSUME Flattens, TypeOK, Executing, NEW k \in Nat, NEW a \in Addr,
         NEW v \in Values(k),
         WriteData(k, a, v) \/ WriteText(k, a, v), ~wild'
  PROVE  /\ a \in Mapped
         /\ Flat!Fill(k, a, v)
         /\ DoCore \/ ToData(a) => Flat!Store(k, a, v)
  <1>1. CASE WriteData(k, a, v)
    <2>1. In(Data, a) /\ ~Spills(Data, Offset(Data, a), k) /\ ~wild
      BY <1>1 DEF WriteData, ToData
    <2>2. a .. a+k-1 \subseteq Writable
      BY <2>1, Contiguous, MapAssumption DEF Flattens, NoWrap, Writable
    <2>3. ASSUME NEW b \in Mapped
          PROVE  Bytes'[b] = IF b \in a .. a+k-1 THEN v[b-a] ELSE Bytes[b]
      <3>1. CASE In(Data, b)
        <4>1. /\ Offset(Data, b) \in Cells(Data)
              /\ Offset(Data, b) - Offset(Data, a) = b - a
              /\ b \in a .. a+k-1 <=>
                   Offset(Data, b) \in Offset(Data, a) .. Offset(Data, a)+k-1
          BY <2>1, <3>1, Contiguous, MapAssumption
          DEF Flattens, NoWrap, Mapped
        <4>2. Bytes'[b] = data'[Offset(Data, b)] /\ Bytes[b] = data[Offset(Data, b)]
          BY <3>1 DEF Bytes, Mapped
        <4>3. data' = Overwritten(data, Offset(Data, a), k, v)
          BY <1>1 DEF WriteData
        <4> QED BY <4>1, <4>2, <4>3 DEF Overwritten, TypeOK
      <3>2. CASE ~In(Data, b)
        <4>1. b \notin a .. a+k-1
          BY <2>1, <3>2, Contiguous, MapAssumption DEF Flattens, NoWrap
        <4> QED BY <1>1, <3>2, <4>1 DEF WriteData, Bytes, Mapped
      <3> QED BY <3>1, <3>2
    <2>4. Bytes' = [b \in Mapped |->
                      IF b \in a .. a+k-1 THEN v[b-a] ELSE Bytes[b]]
      BY <2>3 DEF Bytes, Mapped
    <2>5. a \in Mapped
      BY <2>1 DEF Mapped
    <2> QED BY <1>1, <2>1, <2>2, <2>4, <2>5
            DEF WriteData, Executing, Writable, Mapped,
                Flat!Fill, Flat!Store, Flat!Write, Flat!Span
  <1>2. CASE WriteText(k, a, v)
    <2>1. /\ In(Text, a) /\ ~ToData(a)
          /\ ~Spills(Text, Offset(Text, a), k) /\ ~wild
      BY <1>2 DEF WriteText, ToText, ToData
    <2>2. /\ a .. a+k-1 \subseteq Mapped
          /\ DoCore => a .. a+k-1 \subseteq Writable
      BY <2>1, Contiguous, MapAssumption
      DEF Flattens, NoWrap, Mapped, Writable
    <2>3. ASSUME NEW b \in Mapped
          PROVE  Bytes'[b] = IF b \in a .. a+k-1 THEN v[b-a] ELSE Bytes[b]
      <3>1. CASE In(Text, b)
        <4>1. /\ Offset(Text, b) \in Cells(Text)
              /\ Offset(Text, b) - Offset(Text, a) = b - a
              /\ b \in a .. a+k-1 <=>
                   Offset(Text, b) \in Offset(Text, a) .. Offset(Text, a)+k-1
          BY <2>1, <3>1, Contiguous, MapAssumption
          DEF Flattens, NoWrap, Mapped
        <4>2. Bytes'[b] = text'[Offset(Text, b)] /\ Bytes[b] = text[Offset(Text, b)]
          BY <3>1 DEF Bytes, Mapped, Flattens, Disjoint
        <4>3. text' = Overwritten(text, Offset(Text, a), k, v)
          BY <1>2 DEF WriteText
        <4> QED BY <4>1, <4>2, <4>3 DEF Overwritten, TypeOK
      <3>2. CASE ~In(Text, b)
        <4>1. b \notin a .. a+k-1
          BY <2>1, <3>2, Contiguous, MapAssumption DEF Flattens, NoWrap
        <4> QED BY <1>2, <3>2, <4>1 DEF WriteText, Bytes, Mapped
      <3> QED BY <3>1, <3>2
    <2>4. Bytes' = [b \in Mapped |->
                      IF b \in a .. a+k-1 THEN v[b-a] ELSE Bytes[b]]
      BY <2>3 DEF Bytes, Mapped
    <2>5. a \in Mapped
      BY <2>1 DEF Mapped
    <2> QED BY <1>2, <2>1, <2>2, <2>4, <2>5
            DEF WriteText, Executing,
                Flat!Fill, Flat!Store, Flat!Write, Flat!Span
  <1> QED BY <1>1, <1>2

(* Every step is one of the flat memory, or changes nothing there; one that *)
(* leaves its segment ends what the flat memory says.                       *)
LEMMA StepFlat ==
  ASSUME Flattens, TypeOK, Next
  PROVE  [Flat!Next]_(Flat!vars)
  <1>0. WordLen \in Nat /\ Widths \subseteq Nat /\ Buffers \subseteq Nat
    BY WordAssumption
  <1>1. CASE wild' \/ ~alive'
    BY <1>1 DEF Flat!Next, Flat!Halt
  <1>2. ASSUME NEW k \in Widths, NEW a \in Addr, Access(k, a), ~wild'
        PROVE  [Flat!Next]_(Flat!vars)
    <2>1. CASE \E signed \in BOOLEAN : Load(k, signed, a)
      BY <1>2, <2>1, LoadFlat DEF Flat!Next
    <2>2. CASE LoadHost(k, a)
      <3>1. a \in Device /\ Bytes' = Bytes
        BY <2>2 DEF LoadHost, ToHost, Device, Bytes, Mapped
      <3>2. Flat!LoadDevice(a)
        BY <1>2, <2>2, <3>1 DEF LoadHost, ZeroWord, Executing, Flat!LoadDevice
      <3> QED BY <3>1, <3>2 DEF Flat!Next
    <2>3. CASE \E v \in Values(k) : Store(k, a, v)
      <3>1. PICK v \in Values(k) : Store(k, a, v)
        BY <2>3
      <3>2. a \in Mapped /\ Flat!Store(k, a, v)
        BY <1>0, <1>2, <3>1, WriteFlat DEF Store, WriteData
      <3> QED BY <3>2 DEF Flat!Next, Flat!Values, Values
    <2>4. CASE \E v \in Values(k) : StoreHost(k, a, v)
      <3>1. PICK v \in Values(k) : StoreHost(k, a, v)
        BY <2>4
      <3>2. a \in Device /\ v \in Words /\ Bytes' = Bytes
        BY <3>1 DEF StoreHost, StoreToHost, Device, Words, Bytes, Mapped
      <3>3. Flat!StoreDevice(a, v)
        BY <1>2, <3>1, <3>2 DEF StoreHost, Executing, Flat!StoreDevice
      <3> QED BY <3>2, <3>3
              DEF Flat!Next, Flat!Words, Flat!Values, Words, Values
    <2>5. CASE RefuseLoad(k, a) \/ RefuseStore(k, a)
      BY <1>1, <2>5 DEF RefuseLoad, RefuseStore, Refused
    <2> QED BY <1>2, <2>1, <2>2, <2>3, <2>4, <2>5 DEF Access
  <1>3. ASSUME NEW k \in Buffers, NEW a \in Addr, Transfer(k, a), ~wild'
        PROVE  [Flat!Next]_(Flat!vars)
    <2>1. CASE \E v \in Values(k) : Receive(k, a, v)
      <3>1. PICK v \in Values(k) : Receive(k, a, v)
        BY <2>1
      <3>2. a \in Mapped /\ Flat!Fill(k, a, v)
        BY <1>0, <1>3, <3>1, WriteFlat DEF Receive
      <3> QED BY <3>2 DEF Flat!Next, Flat!Values, Values
    <2>2. CASE Send(k, a)
      <3>1. UNCHANGED <<data, text, reg, sent, alive>> /\ ~wild
        BY <1>3, <2>2 DEF Send
      <3> QED BY <1>3, <3>1 DEF Bytes, Mapped, Flat!vars
    <2>3. CASE RefuseBuffer(a)
      BY <1>1, <2>3 DEF RefuseBuffer, Refused
    <2> QED BY <1>3, <2>1, <2>2, <2>3 DEF Transfer
  <1>4. CASE Resume
    BY <1>4 DEF Resume, Bytes, Mapped, Flat!vars
  <1> QED BY <1>1, <1>2, <1>3, <1>4 DEF Next

(* Each access is the one that the instruction or the system call asks for  *)
(* (read8 to write32, getPtr).                                              *)
LEMMA AccessesRefine == Flattens => (Spec => AccessesFlat)
  <1> SUFFICES ASSUME Flattens PROVE Spec => AccessesFlat
    OBVIOUS
  <1>0. Widths \subseteq Nat /\ Buffers \subseteq Nat
    BY WordAssumption
  <1>1. ASSUME TypeOK, ~wild', NEW k \in Widths, NEW a \in Addr,
               NEW v \in Values(k), Store(k, a, v)
        PROVE  Flat!Store(k, a, v)
    BY <1>0, <1>1, WriteFlat DEF Store, WriteData
  <1>2. ASSUME TypeOK, ~wild', NEW k \in Buffers, NEW a \in Addr,
               NEW v \in Values(k), Receive(k, a, v)
        PROVE  Flat!Fill(k, a, v)
    BY <1>0, <1>2, WriteFlat DEF Receive
  <1>3. TypeOK => (~wild' =>
     /\ \A k \in Widths, a \in Addr :
          /\ \A signed \in BOOLEAN :
               Load(k, signed, a) => Flat!Load(k, signed, a)
          /\ \A v \in Values(k) : Store(k, a, v) => Flat!Store(k, a, v)
     /\ \A k \in Buffers, a \in Addr : \A v \in Values(k) :
          Receive(k, a, v) => Flat!Fill(k, a, v))
    BY <1>1, <1>2, LoadFlat
  <1> QED BY <1>3, TypeCorrect, PTL DEF Spec, AccessesFlat

(* As long as accesses stay in the segments, the two segments, the three    *)
(* ways of finding them and the accesses of all widths amount to one flat   *)
(* memory with a device, for segments and words of every size (class        *)
(* Memory, class Segment, host).                                            *)
THEOREM Refines == Flattens => (Spec => RunsFlat)
  <1> SUFFICES ASSUME Flattens PROVE Spec => RunsFlat
    OBVIOUS
  <1>1. Init => Flat!Init
    <2> SUFFICES ASSUME Init PROVE Flat!Init
      OBVIOUS
    <2>1. ASSUME NEW b \in Mapped
          PROVE  Bytes[b] \in Byte
      BY OffsetInCells, MapAssumption DEF Init, Bytes, Mapped
    <2>2. Bytes \in [Mapped -> Byte]
      BY <2>1 DEF Bytes
    <2> QED BY <2>2, WordAssumption
            DEF Init, ZeroWord, Flat!Init, Flat!Words, Flat!Values
  <1>2. TypeOK /\ [Next]_vars => [Flat!Next]_(Flat!vars)
    <2>1. UNCHANGED vars => UNCHANGED Flat!vars
      BY DEF vars, Flat!vars, Bytes, Mapped
    <2> QED BY <2>1, StepFlat
  <1> QED BY <1>1, <1>2, TypeCorrect, AccessesRefine, PTL
          DEF Spec, RunsFlat, Flat!Spec
=============================================================================
