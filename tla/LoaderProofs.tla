---------------------------- MODULE LoaderProofs ---------------------------
(***************************************************************************)
(* What Loader promises, for every file, every size of the address space,   *)
(* of the heap and of its alignment.                                        *)
(***************************************************************************)
EXTENDS Loader, NaturalsInduction, WellFoundedInduction, SequenceTheorems, TLAPS

(* Sums and differences of addresses are addresses; without a carry they    *)
(* are those of the numbers (uint32_t).                                     *)
LEMMA AddressArithmetic ==
  ASSUME NEW a \in Addr, NEW b \in Addr
  PROVE  /\ Plus(a, b) \in Addr /\ Minus(a, b) \in Addr
         /\ a + b < AddrLen => Plus(a, b) = a + b
         /\ b <= a => Minus(a, b) = a - b
         /\ b > a => Minus(a, b) = a - b + AddrLen
BY AddressAssumption DEF Plus, Minus, Addr

(* The heap begins on a boundary at or above the end of .bss, less than one *)
(* boundary further (readElf, sys_brk).                                     *)
LEMMA RoundUpProperties ==
  ASSUME NEW a \in Addr
  PROVE  /\ RoundUp(a) \in Addr
         /\ a + Align < AddrLen => a <= RoundUp(a) /\ RoundUp(a) < a + Align
<1>1. Align-1 \in Addr /\ Align \in Nat \ {0}
  BY AddressAssumption, LoaderAssumption DEF Addr
<1> DEFINE b == Plus(a, Align-1)
<1>2. b \in Addr
  BY <1>1, AddressArithmetic
<1>3. b % Align \in 0 .. Align-1
  BY <1>1, <1>2, AddressAssumption DEF Addr
<1>4. b % Align <= b
  BY <1>1, <1>2, AddressAssumption DEF Addr
<1>5. RoundUp(a) \in Addr
  BY <1>2, <1>3, <1>4, <1>1, AddressAssumption DEF RoundUp, Addr
<1>6. ASSUME a + Align < AddrLen PROVE a <= RoundUp(a) /\ RoundUp(a) < a + Align
  <2>1. b = a + Align - 1
    BY <1>1, <1>6, AddressAssumption, AddressArithmetic DEF Addr
  <2> QED BY <1>1, <2>1, <1>3, <1>4, AddressAssumption DEF RoundUp, Addr
<1> QED BY <1>5, <1>6

(* Every set of addresses that is not empty has a highest one.              *)
LEMMA HighestExists ==
  ASSUME NEW S \in SUBSET Addr, S # {}
  PROVE  \E e \in S : \A a \in S : a <= e
<1> DEFINE T == {AddrLen-1 - a : a \in S}
<1>1. T \subseteq Nat /\ T # {}
  BY AddressAssumption DEF Addr
<1> DEFINE R == {ss \in Nat \X Nat : ss[1] < ss[2]}
<1>r. IsWellFoundedOn(R, Nat)
  <2>1. OpToRel(<, Nat) = R
    BY DEF OpToRel
  <2> QED BY <2>1, NatLessThanWellFounded
<1>2. PICK t \in T : \A u \in T : ~ (<<u, t>> \in R)
  BY <1>1, <1>r, WFMin
<1>3. ASSUME NEW u \in T PROVE t <= u
  <2>1. t \in Nat /\ u \in Nat /\ ~ (<<u, t>> \in R)
    BY <1>1, <1>2
  <2>2. ~ (u < t)
    BY <2>1
  <2> QED BY <2>1, <2>2
<1>4. PICK e \in S : t = AddrLen-1 - e
  OBVIOUS
<1>5. ASSUME NEW a \in S PROVE a <= e
  <2>1. AddrLen-1 - a \in T
    OBVIOUS
  <2> QED BY <1>3, <1>4, <2>1, AddressAssumption DEF Addr
<1> QED BY <1>5

-----------------------------------------------------------------------------
(* A section of the file has a kind, an address and a size, and belongs to  *)
(* one part of the program.                                                 *)
LEMMA SectionType ==
  ASSUME TypeOK, NEW j \in DOMAIN elf
  PROVE  /\ j \in 1 .. Len(elf) /\ Len(elf) \in Nat
         /\ elf[j].kind \in Kinds /\ elf[j].addr \in Addr /\ elf[j].size \in Addr
         /\ End(elf[j]) \in Addr
         /\ Part(elf[j]) \in {"text", "data", "bss", "skipped", "unknown"}
<1> DEFINE Sections == [kind : Kinds, addr : Addr, size : Addr]
<1>0. elf \in Seq(Sections)
  BY DEF TypeOK
<1>1. Len(elf) \in Nat /\ DOMAIN elf = 1 .. Len(elf) /\ elf[j] \in Sections
  BY <1>0, LenProperties, ElementOfSeq
<1>2. End(elf[j]) \in Addr
  BY <1>1, AddressArithmetic DEF End
<1> QED BY <1>1, <1>2 DEF Part, PartOf, Kinds

(* The highest end of a list of sections is the end of one, or 0, and       *)
(* bounds all (endOfData in main).                                          *)
LEMMA HighestEndProperties ==
  ASSUME TypeOK, NEW js \in SUBSET DOMAIN elf
  PROVE  /\ HighestEnd(js) \in Addr
         /\ HighestEnd(js) = 0 \/ \E j \in js : HighestEnd(js) = End(elf[j])
         /\ \A j \in js : End(elf[j]) <= HighestEnd(js)
<1> DEFINE S == {0} \cup {End(elf[j]) : j \in js}
<1>1. S \in SUBSET Addr /\ S # {}
  BY SectionType, AddressAssumption DEF Addr
<1>2. \E e \in S : \A j \in js : End(elf[j]) <= e
  <2>1. PICK e \in S : \A a \in S : a <= e
    BY <1>1, HighestExists
  <2> QED BY <2>1
<1>3. HighestEnd(js) \in S /\ \A j \in js : End(elf[j]) <= HighestEnd(js)
  BY <1>2 DEF HighestEnd
<1> QED BY <1>1, <1>3

(* A range that takes a section in remains a pair of addresses.             *)
LEMMA WidenedType ==
  ASSUME TypeOK, NEW j \in DOMAIN elf, NEW r \in [base : Addr, end : Addr]
  PROVE  Widened(r, elf[j]) \in [base : Addr, end : Addr]
BY SectionType DEF Widened

(* What is copied for a section is bytes of the file, zeros, or neither.    *)
LEMMA PutType ==
  ASSUME TypeOK, NEW p \in {"text", "data"}, NEW j \in DOMAIN elf,
         NEW bytes, \A d \in 0 .. elf[j].size-1 : bytes[d] \in Contents,
         Put(p, j, bytes), UNCHANGED <<elf, seg>>
  PROVE  /\ DOMAIN cells' = {"text", "data"}
         /\ \A q \in {"text", "data"} : cells'[q] \in [0 .. seg[q].len-1 -> Contents]
         /\ listed' \in [{"text", "data"} -> SUBSET DOMAIN elf]
         /\ wild' \in BOOLEAN
<1>0. elf[j].size \in Nat /\ Minus(elf[j].addr, seg[p].base) \in Nat
  <2>1. elf[j].addr \in Addr /\ elf[j].size \in Addr /\ seg[p].base \in Addr
    BY SectionType DEF TypeOK, Segments
  <2>2. Minus(elf[j].addr, seg[p].base) \in Addr
    BY <2>1, AddressArithmetic
  <2> QED BY <2>1, <2>2, AddressAssumption DEF Addr
<1>1. ASSUME NEW q \in {"text", "data"}
      PROVE  cells'[q] \in [0 .. seg[q].len-1 -> Contents]
  <2>0. cells[q] \in [0 .. seg[q].len-1 -> Contents] /\ DOMAIN cells = {"text", "data"}
    BY DEF TypeOK
  <2>1. CASE q = p
    <3> DEFINE o == Minus(elf[j].addr, seg[p].base)
    <3>1. cells'[q] = [c \in 0 .. seg[q].len-1 |->
                 IF c \in o .. o + elf[j].size - 1 THEN bytes[c-o] ELSE cells[q][c]]
      BY <2>0, <2>1 DEF Put
    <3>2. \A c \in 0 .. seg[q].len-1 : c \in o .. o + elf[j].size - 1 =>
             c-o \in 0 .. elf[j].size-1
      BY <1>0
    <3> QED BY <2>0, <3>1, <3>2
  <2>2. CASE q # p
    BY <2>2 DEF Put, TypeOK
  <2> QED BY <2>1, <2>2
<1>2. listed' \in [{"text", "data"} -> SUBSET DOMAIN elf]
  BY DEF Put, TypeOK
<1>3. wild' \in BOOLEAN
  BY DEF Put, TypeOK
<1>4. DOMAIN cells' = {"text", "data"}
  BY DEF Put, TypeOK
<1> QED BY <1>1, <1>2, <1>3, <1>4

-----------------------------------------------------------------------------
(* The segments that readElf asks for are segments of the address space.    *)
LEMMA AllocateType ==
  ASSUME TypeOK, Allocate
  PROVE  TypeOK'
<1>1. \A p \in {"text", "data", "bss"} : range[p].base \in Addr /\ range[p].end \in Addr
  BY DEF TypeOK
<1>2. HeapBase \in Addr /\ HeapLen \in Addr
  <2>1. RoundUp(range.bss.end) \in Addr
    BY <1>1, RoundUpProperties
  <2> QED BY <2>1, LoaderAssumption, AddressAssumption DEF HeapBase, Addr
<1>3. /\ Minus(range.text.end, range.text.base) \in Addr
      /\ Minus(Plus(HeapBase, HeapLen), range.data.base) \in Addr
  BY <1>1, <1>2, AddressArithmetic
<1>4. seg' \in [{"text", "data"} -> Segments]
  BY <1>1, <1>3 DEF Allocate, Segments
<1>5. /\ DOMAIN cells' = {"text", "data"}
      /\ \A p \in {"text", "data"} : cells'[p] \in [0 .. seg'[p].len-1 -> Contents]
  BY DEF Allocate, Contents
<1>6. Contents' = Contents
  BY DEF Allocate, Contents, Byte
<1>7. 1 \in 1 .. Len(elf)+1
  BY LenProperties DEF TypeOK
<1> QED BY <1>4, <1>5, <1>6, <1>7 DEF Allocate, TypeOK

(* Copying a section changes what the segments hold, not their size.        *)
LEMMA CopyType ==
  ASSUME TypeOK, Copy
  PROVE  TypeOK'
<1>1. i \in DOMAIN elf /\ i+1 \in 1 .. Len(elf)+1
  BY LenProperties DEF TypeOK, Copy
<1>2. \A d \in 0 .. elf[i].size-1 :
        Copied(i)[d] \in Contents /\ Filled(i)[d] \in Contents
  BY <1>1, SectionType, AddressAssumption DEF Copied, Filled, Contents, Addr
<1>3. /\ DOMAIN cells' = {"text", "data"}
      /\ \A p \in {"text", "data"} : cells'[p] \in [0 .. seg[p].len-1 -> Contents]
      /\ listed' \in [{"text", "data"} -> SUBSET DOMAIN elf]
      /\ wild' \in BOOLEAN
  <2>0. UNCHANGED <<elf, seg>>
    BY DEF Copy
  <2>1. CASE Put("text", i, Copied(i))
    BY <1>1, <1>2, <2>0, <2>1, PutType
  <2>2. CASE Put("data", i, Filled(i))
    BY <1>1, <1>2, <2>0, <2>2, PutType
  <2>3. CASE UNCHANGED <<cells, listed, wild>>
    BY <2>3 DEF TypeOK
  <2> QED BY <2>1, <2>2, <2>3 DEF Copy
<1>4. Contents' = Contents
  BY DEF Copy, Contents, Byte
<1> QED BY <1>1, <1>3, <1>4 DEF Copy, TypeOK

(* Every step of readElf and main keeps the types.                          *)
LEMMA TypeStep == TypeOK /\ [Next]_vars => TypeOK'
<1> SUFFICES ASSUME TypeOK, [Next]_vars PROVE TypeOK'
  OBVIOUS
<1>1. CASE Open \/ Fail \/ Unknown \/ Loaded
  BY <1>1 DEF Open, Fail, Unknown, Loaded, TypeOK, Contents, Byte
<1>2. CASE Measure
  <2>1. i \in DOMAIN elf /\ i+1 \in 1 .. Len(elf)+1
    BY <1>2, LenProperties DEF TypeOK, Measure
  <2>2. range' \in [{"text", "data", "bss"} -> [base : Addr, end : Addr]]
    BY <1>2, <2>1, SectionType, WidenedType DEF Measure, TypeOK
  <2> QED BY <1>2, <2>1, <2>2 DEF Measure, TypeOK, Contents, Byte
<1>3. CASE Allocate
  BY <1>3, AllocateType
<1>4. CASE Copy
  BY <1>4, CopyType
<1>5. CASE Start
  <2>1. listed' \in [{"text", "data"} -> SUBSET DOMAIN elf]
    BY <1>5 DEF Start, TypeOK
  <2>2. edata' \in Addr
    BY <1>5, <2>1, HighestEndProperties DEF Start
  <2>3. sp' \in Addr
    <3>1. seg["data"] \in Segments
      BY DEF TypeOK
    <3>2. seg.data.base \in Addr /\ seg.data.len \in Addr
      BY <3>1 DEF Segments
    <3>3. Align \in Addr
      BY AddressAssumption, LoaderAssumption DEF Addr
    <3>4. Plus(seg.data.base, seg.data.len) \in Addr
      BY <3>2, AddressArithmetic
    <3>5. Minus(Plus(seg.data.base, seg.data.len), Align) \in Addr
      BY <3>3, <3>4, AddressArithmetic
    <3> QED BY <1>5, <3>5 DEF Start
  <2> QED BY <1>5, <2>1, <2>2, <2>3 DEF Start, TypeOK, Contents, Byte
<1>6. CASE UNCHANGED vars
  BY <1>6 DEF vars, TypeOK, Contents, Byte
<1> QED BY <1>1, <1>2, <1>3, <1>4, <1>5, <1>6 DEF Next

(* The program starts with the two segments of class Memory.                *)
LEMMA TypeInit == Init => TypeOK
<1> SUFFICES ASSUME Init PROVE TypeOK
  OBVIOUS
<1>0. PICK shape \in Shapes : \E place \in [1 .. Len(shape) -> Places] :
        elf = [n \in 1 .. Len(shape) |-> [kind |-> shape[n],
                 addr |-> place[n].addr, size |-> place[n].size]]
  BY DEF Init
<1>1. PICK place \in [1 .. Len(shape) -> Places] :
        elf = [n \in 1 .. Len(shape) |-> [kind |-> shape[n],
                 addr |-> place[n].addr, size |-> place[n].size]]
  BY <1>0
<1> DEFINE Sections == [kind : Kinds, addr : Addr, size : Addr]
<1>2. shape \in Seq(Kinds)
  BY LoaderAssumption
<1>3. Len(shape) \in Nat /\ \A n \in 1 .. Len(shape) : shape[n] \in Kinds
  BY <1>2, LenProperties, ElementOfSeq
<1>4. \A n \in 1 .. Len(shape) : elf[n] \in Sections
  BY <1>1, <1>3, LoaderAssumption DEF Places
<1>5. elf \in Seq(Sections) /\ Len(elf) = Len(shape)
  BY <1>1, <1>3, <1>4
<1>6. 0 \in Addr /\ AddrLen-1 \in Addr
  BY AddressAssumption DEF Addr
<1>7. /\ seg \in [{"text", "data"} -> Segments] /\ seg = Built
      /\ DOMAIN cells = {"text", "data"}
      /\ \A p \in {"text", "data"} : cells[p] \in [0 .. seg[p].len-1 -> Contents]
  BY LoaderAssumption DEF Init, Contents
<1>8. i \in 1 .. Len(elf)+1 /\ uflag \in BOOLEAN
  BY <1>3, <1>5 DEF Init
<1>9. /\ range \in [{"text", "data", "bss"} -> [base : Addr, end : Addr]]
      /\ listed \in [{"text", "data"} -> SUBSET DOMAIN elf]
  BY <1>6 DEF Init
<1>10. /\ phase \in {"open", "measure", "copy", "start", "running", "exited"}
       /\ edata \in Addr /\ sp \in Addr /\ wild \in BOOLEAN
  BY <1>6 DEF Init
<1> QED BY <1>5, <1>7, <1>8, <1>9, <1>10 DEF TypeOK

(* The sections, the segments and what they hold keep their types for every *)
(* file, also one whose ranges wrap around the address space.               *)
THEOREM TypeCorrect == Spec => []TypeOK
BY TypeInit, TypeStep, PTL DEF Spec

-----------------------------------------------------------------------------
(* The inductive invariant.  The sections that the ranges take account of:   *)
(* those measured so far, and all of them after that.                       *)
Counted == {j \in DOMAIN elf : \/ phase = "measure" /\ j < i
                               \/ phase = "copy"
                               \/ phase \in {"start", "running"} /\ Opened}
Allocated == phase = "copy" \/ (phase \in {"start", "running"} /\ Opened)

(* Each range is the hull of the sections of its part, or as in the         *)
(* beginning if there is none.                                              *)
Hull ==
  phase # "exited" =>
    \A p \in {"text", "data", "bss"} :
      /\ \A j \in Counted : Part(elf[j]) = p =>
           range[p].base <= elf[j].addr /\ End(elf[j]) <= range[p].end
      /\ \/ range[p].end = 0
         \/ \E j \in Counted : Part(elf[j]) = p /\ range[p].end = End(elf[j])
      /\ \/ range[p].base = AddrLen-1
         \/ \E j \in Counted : Part(elf[j]) = p /\ range[p].base = elf[j].addr

Settled ==
  /\ phase = "open" => i = 1
  /\ phase \in {"start", "running"} /\ Opened => i = Len(elf) + 1

(* The segments have the size that the ranges and the heap ask for.         *)
SegmentsFit ==
  Allocated =>
    /\ seg.text.base = range.text.base
    /\ seg.text.len = Minus(range.text.end, range.text.base)
    /\ seg.data.base = range.data.base
    /\ seg.data.len = Minus(Plus(HeapBase, HeapLen), range.data.base)

(* dataMem lists what was copied to it, and main takes the end from there.  *)
Lists ==
  /\ phase \in {"open", "measure"} => listed.data = {}
  /\ phase \in {"copy", "start"} /\ Allocated =>
       listed.data = {j \in DOMAIN elf : j < i /\ ToData(elf[j])}
  /\ phase = "running" /\ Opened /\ ~uflag =>
       /\ edata = HighestEnd({j \in DOMAIN elf : ToData(elf[j])})
       /\ sp = Minus(Plus(seg.data.base, seg.data.len), Align)

(* What has been copied is still there.                                     *)
TextCopied ==
  Allocated /\ Apart =>
    \A j \in DOMAIN elf : j < i /\ Part(elf[j]) = "text" =>
      \A d \in 0 .. elf[j].size-1 :
        cells.text[elf[j].addr + d - seg.text.base] = Byte(j, d)

DataCopied ==
  Allocated /\ Complete /\ WellPlaced(elf) =>
    \A j \in DOMAIN elf : j < i /\ Part(elf[j]) \in {"data", "bss"}
                          /\ ~Unfilled(elf[j]) =>
      \A d \in 0 .. elf[j].size-1 :
        cells.data[elf[j].addr + d - seg.data.base] =
          IF NoBits(elf[j]) THEN Zeroed ELSE Byte(j, d)

(* And nothing else is in the data segment.                                 *)
Untouched ==
  Allocated =>
    \A o \in DOMAIN cells.data :
      \/ cells.data[o] = Junk
      \/ \E j \in DOMAIN elf :
           LET first == Minus(elf[j].addr, seg.data.base) IN
           ToData(elf[j]) /\ o \in first .. first + elf[j].size - 1

Inv ==
  /\ TypeOK /\ Hull /\ Settled /\ SegmentsFit /\ Lists
  /\ TextCopied /\ DataCopied /\ Untouched /\ StaysInside

(* Measuring a section extends the hull of its part; nothing else changes   *)
(* a range.                                                                 *)
LEMMA HullStep == TypeOK /\ Hull /\ Settled /\ [Next]_vars => Hull'
<1> SUFFICES ASSUME TypeOK, Hull, Settled, [Next]_vars, phase' # "exited"
             PROVE  Hull'
  BY DEF Hull
<1>0. i \in 1 .. Len(elf)+1 /\ Len(elf) \in Nat /\ DOMAIN elf = 1 .. Len(elf)
  BY LenProperties DEF TypeOK
<1>1. CASE Measure
  <2>1. Counted' = Counted \cup {i} /\ i \in DOMAIN elf /\ elf' = elf
    BY <1>0, <1>1 DEF Measure, Counted, Opened
  <2> SUFFICES ASSUME NEW p \in {"text", "data", "bss"}
      PROVE  /\ \A j \in Counted' : Part(elf[j]) = p =>
                  range'[p].base <= elf[j].addr /\ End(elf[j]) <= range'[p].end
             /\ \/ range'[p].end = 0
                \/ \E j \in Counted' : Part(elf[j]) = p /\ range'[p].end = End(elf[j])
             /\ \/ range'[p].base = AddrLen-1
                \/ \E j \in Counted' : Part(elf[j]) = p /\ range'[p].base = elf[j].addr
    BY <2>1 DEF Hull
  <2>2. /\ \A j \in Counted : Part(elf[j]) = p =>
             range[p].base <= elf[j].addr /\ End(elf[j]) <= range[p].end
        /\ \/ range[p].end = 0
           \/ \E j \in Counted : Part(elf[j]) = p /\ range[p].end = End(elf[j])
        /\ \/ range[p].base = AddrLen-1
           \/ \E j \in Counted : Part(elf[j]) = p /\ range[p].base = elf[j].addr
    BY <1>1 DEF Hull, Measure
  <2>3. /\ range[p].base \in Int /\ range[p].end \in Int
        /\ \A j \in Counted \cup {i} : elf[j].addr \in Int /\ End(elf[j]) \in Int
    <3>1. range[p].base \in Addr /\ range[p].end \in Addr
      BY DEF TypeOK
    <3>2. \A j \in DOMAIN elf : elf[j].addr \in Addr /\ End(elf[j]) \in Addr
      BY SectionType
    <3>3. Addr \subseteq Int /\ Counted \cup {i} \subseteq DOMAIN elf
      BY <2>1, AddressAssumption DEF Addr, Counted
    <3> QED BY <3>1, <3>2, <3>3
  <2>4. CASE Part(elf[i]) = p
    <3>1. range'[p] = Widened(range[p], elf[i])
      BY <1>1, <2>4 DEF Measure, TypeOK
    <3>2. /\ range'[p].base = IF elf[i].addr < range[p].base
                              THEN elf[i].addr ELSE range[p].base
          /\ range'[p].end = IF End(elf[i]) > range[p].end
                             THEN End(elf[i]) ELSE range[p].end
      BY <3>1 DEF Widened
    <3> QED BY <2>1, <2>2, <2>3, <2>4, <3>2
  <2>5. CASE Part(elf[i]) # p
    <3>1. range'[p] = range[p]
      BY <1>1, <2>5, SectionType, <2>1 DEF Measure, TypeOK
    <3> QED BY <2>1, <2>2, <2>5, <3>1
  <2> QED BY <2>4, <2>5
<1>2. CASE Open \/ Fail \/ Allocate \/ Copy \/ Loaded \/ Start
  <2>1. Counted' = Counted /\ UNCHANGED <<elf, range>> /\ phase # "exited"
    <3>1. CASE Open \/ Fail
      BY <1>0, <3>1 DEF Open, Fail, Counted, Opened, Settled
    <3>2. CASE Allocate
      BY <1>0, <3>2 DEF Allocate, Counted, Opened
    <3>3. CASE Copy \/ Start
      BY <1>0, <3>3 DEF Copy, Start, Counted, Opened
    <3>4. CASE Loaded
      BY <1>0, <3>4 DEF Loaded, Counted, Opened
    <3> QED BY <1>2, <3>1, <3>2, <3>3, <3>4
  <2> QED BY <2>1 DEF Hull
<1>3. CASE UNCHANGED vars
  BY <1>3 DEF vars, Hull, Counted, Opened
<1> QED BY <1>1, <1>2, <1>3 DEF Next, Unknown

(* readElf and main pass through every section, and only then leave it.     *)
LEMMA SettledStep == TypeOK /\ Settled /\ [Next]_vars => Settled'
<1> SUFFICES ASSUME TypeOK, Settled, [Next]_vars PROVE Settled'
  OBVIOUS
<1>0. i \in 1 .. Len(elf)+1 /\ Len(elf) \in Nat
  BY LenProperties DEF TypeOK
<1>1. CASE Open \/ Fail \/ Measure \/ Unknown
  BY <1>0, <1>1 DEF Open, Fail, Measure, Unknown, Settled, Opened
<1>2. CASE Allocate \/ Copy \/ Loaded \/ Start
  BY <1>0, <1>2 DEF Allocate, Copy, Loaded, Start, Settled, Opened
<1>3. CASE UNCHANGED vars
  BY <1>3 DEF vars, Settled, Opened
<1> QED BY <1>1, <1>2, <1>3 DEF Next

(* The segments keep the size that they are allocated with.                 *)
LEMMA SegmentsStep == TypeOK /\ Settled /\ SegmentsFit /\ [Next]_vars => SegmentsFit'
<1> SUFFICES ASSUME TypeOK, Settled, SegmentsFit, [Next]_vars PROVE SegmentsFit'
  OBVIOUS
<1>1. CASE Open \/ Fail \/ Measure \/ Unknown
  BY <1>1 DEF Open, Fail, Measure, Unknown, SegmentsFit, Allocated, Opened, Settled
<1>2. CASE Allocate
  BY <1>2 DEF Allocate, SegmentsFit, HeapBase
<1>3. CASE Copy \/ Loaded \/ Start
  BY <1>3 DEF Copy, Loaded, Start, SegmentsFit, Allocated, Opened, HeapBase
<1>4. CASE UNCHANGED vars
  BY <1>4 DEF vars, SegmentsFit, Allocated, Opened, HeapBase
<1> QED BY <1>1, <1>2, <1>3, <1>4 DEF Next

(* The list of dataMem grows by the sections that are copied there.         *)
LEMMA ListsStep == TypeOK /\ Settled /\ Lists /\ [Next]_vars => Lists'
<1> SUFFICES ASSUME TypeOK, Settled, Lists, [Next]_vars PROVE Lists'
  OBVIOUS
<1>0. i \in 1 .. Len(elf)+1 /\ Len(elf) \in Nat /\ DOMAIN elf = 1 .. Len(elf)
  BY LenProperties DEF TypeOK
<1>1. CASE Open \/ Fail \/ Measure \/ Unknown
  BY <1>1 DEF Open, Fail, Measure, Unknown, Lists, Allocated, Opened, Settled
<1>2. CASE Allocate
  BY <1>0, <1>2 DEF Allocate, Lists
<1>3. CASE Copy
  <2>1. listed.data = {j \in DOMAIN elf : j < i /\ ToData(elf[j])}
    BY <1>3 DEF Copy, Lists, Allocated
  <2>2. listed'.data = IF ToData(elf[i]) THEN listed.data \cup {i} ELSE listed.data
    <3>1. ~(ToText(elf[i]) /\ ToData(elf[i]))
      BY DEF ToText, ToData
    <3>2. listed \in [{"text", "data"} -> SUBSET DOMAIN elf]
      BY DEF TypeOK
    <3> QED BY <1>3, <3>1, <3>2 DEF Copy, Put
  <2>3. listed'.data = {j \in DOMAIN elf : j < i+1 /\ ToData(elf[j])}
    BY <1>0, <1>3, <2>1, <2>2 DEF Copy
  <2> QED BY <1>3, <2>3 DEF Copy, Lists, ToData, Inside
<1>4. CASE Loaded
  BY <1>0, <1>4 DEF Loaded, Lists, Allocated, Opened, ToData, Inside
<1>5. CASE Start
  <2> SUFFICES ASSUME Opened, ~uflag
               PROVE  /\ edata' = HighestEnd({j \in DOMAIN elf : ToData(elf[j])})
                      /\ sp' = Minus(Plus(seg.data.base, seg.data.len), Align)
    BY <1>5 DEF Start, Lists, Opened, HighestEnd, ToData, Inside
  <2>1. listed.data = {j \in DOMAIN elf : j < i /\ ToData(elf[j])} /\ i = Len(elf)+1
    BY <1>5 DEF Start, Lists, Allocated, Settled
  <2>2. listed.data = {j \in DOMAIN elf : ToData(elf[j])}
    BY <1>0, <2>1
  <2> QED BY <1>5, <2>2 DEF Start
<1>6. CASE UNCHANGED vars
  BY <1>6 DEF vars, Lists, Allocated, Opened, HighestEnd, ToData, Inside
<1> QED BY <1>1, <1>2, <1>3, <1>4, <1>5, <1>6 DEF Next

-----------------------------------------------------------------------------
(* A section of text lies inside the text segment, and nowhere does its     *)
(* copy pass an end, as long as no section wraps around the address space.  *)
LEMMA TextPlace ==
  ASSUME TypeOK, Hull, SegmentsFit, Allocated, Apart,
         NEW j \in DOMAIN elf, Part(elf[j]) = "text"
  PROVE  /\ j \in Loads(elf) /\ ~NoBits(elf[j])
         /\ elf[j].addr + elf[j].size < AddrLen
         /\ range.text.base <= elf[j].addr
         /\ elf[j].addr + elf[j].size <= range.text.end
         /\ seg.text.base = range.text.base
         /\ elf[j].size > 0 => /\ ToText(elf[j])
                               /\ seg.text.len = range.text.end - range.text.base
<1>1. /\ elf[j].kind \in {"text", "array"} /\ j \in Loads(elf) /\ ~NoBits(elf[j])
      /\ Alloc(elf[j])
  BY SectionType DEF Part, PartOf, Kinds, Loads, Alloc, NoBits
<1>2. /\ elf[j].addr \in Addr /\ elf[j].size \in Addr
      /\ range.text.base \in Addr /\ range.text.end \in Addr
  BY SectionType DEF TypeOK
<1>3. elf[j].addr + elf[j].size < AddrLen
  BY <1>1 DEF Apart
<1>4. End(elf[j]) = elf[j].addr + elf[j].size
  BY <1>2, <1>3, AddressArithmetic DEF End
<1>5. range.text.base <= elf[j].addr /\ End(elf[j]) <= range.text.end
  BY DEF Hull, Counted, Allocated
<1>6. seg.text.base = range.text.base
      /\ seg.text.len = Minus(range.text.end, range.text.base)
  BY DEF SegmentsFit
<1>7. ASSUME elf[j].size > 0
      PROVE  ToText(elf[j]) /\ seg.text.len = range.text.end - range.text.base
  <2>1. elf[j].addr < range.text.end /\ range.text.base <= range.text.end
    BY <1>2, <1>4, <1>5, <1>7, AddressAssumption DEF Addr
  <2>2. ToText(elf[j])
    BY <1>1, <1>2, <1>5, <2>1, AddressAssumption DEF ToText, Inside, Addr
  <2> QED BY <1>2, <1>6, <2>1, <2>2, AddressArithmetic
<1> QED BY <1>1, <1>3, <1>4, <1>5, <1>6, <1>7

(* What a copy to the text segment leaves there.                            *)
LEMMA CopiedText ==
  ASSUME TypeOK, Hull, SegmentsFit, Allocated, Copy, ToText(elf[i]),
         NEW o \in 0 .. seg.text.len-1
  PROVE  cells'.text[o] =
           IF o \in elf[i].addr - seg.text.base ..
                    elf[i].addr - seg.text.base + elf[i].size - 1
           THEN Copied(i)[o - (elf[i].addr - seg.text.base)]
           ELSE cells.text[o]
<1>1. Put("text", i, Copied(i))
  BY DEF Copy, ToText, ToData
<1>2. i \in DOMAIN elf
  BY LenProperties DEF Copy, TypeOK
<1>3. elf[i].addr \in Addr /\ range.text.base \in Addr /\ range.text.base <= elf[i].addr
  BY <1>2, SectionType DEF ToText, Inside, TypeOK
<1>4. Minus(elf[i].addr, seg.text.base) = elf[i].addr - seg.text.base
  BY <1>3, AddressArithmetic DEF SegmentsFit
<1>5. cells.text \in [0 .. seg.text.len-1 -> Contents] /\ DOMAIN cells = {"text", "data"}
  BY DEF TypeOK
<1> QED BY <1>1, <1>4, <1>5 DEF Put

(* A copy to the data segment leaves the text segment alone, and the other  *)
(* way round.                                                               *)
LEMMA CopyElsewhere ==
  ASSUME TypeOK, Copy
  PROVE  /\ ~ToText(elf[i]) => cells'.text = cells.text
         /\ ~ToData(elf[i]) => cells'.data = cells.data
         /\ ~ToText(elf[i]) /\ ~ToData(elf[i]) => wild' = wild
<1>1. DOMAIN cells = {"text", "data"}
  BY DEF TypeOK
<1> QED BY <1>1 DEF Copy, Put

(* Text that has been copied is not written over by a later section.        *)
LEMMA TextStep ==
  ASSUME TypeOK, Hull, Settled, SegmentsFit, TextCopied, Copy
  PROVE  TextCopied'
<1>0. /\ Allocated /\ Allocated' /\ i \in DOMAIN elf /\ i \in Nat
      /\ UNCHANGED <<elf, range, seg>> /\ i' = i+1
  BY LenProperties DEF Copy, Allocated, TypeOK
<1>1. SUFFICES ASSUME Apart, NEW j \in DOMAIN elf, j < i+1, Part(elf[j]) = "text",
                      NEW d \in 0 .. elf[j].size-1
      PROVE  cells'.text[elf[j].addr + d - seg.text.base] = Byte(j, d)
  <2>1. Apart' = Apart
    BY <1>0 DEF Apart, Loads
  <2> QED BY <1>0, <2>1 DEF TextCopied
<1>2. /\ j \in Loads(elf) /\ ~NoBits(elf[j])
      /\ elf[j].addr + elf[j].size < AddrLen
      /\ range.text.base <= elf[j].addr
      /\ elf[j].addr + elf[j].size <= range.text.end
      /\ seg.text.base = range.text.base
      /\ elf[j].size > 0 => /\ ToText(elf[j])
                            /\ seg.text.len = range.text.end - range.text.base
  BY <1>0, <1>1, TextPlace
<1>3. /\ elf[j].addr \in Addr /\ elf[j].size \in Addr /\ j \in Nat
      /\ elf[i].addr \in Addr /\ elf[i].size \in Addr
      /\ range.text.base \in Addr /\ range.text.end \in Addr
  BY <1>0, SectionType DEF TypeOK
<1> DEFINE o == elf[j].addr + d - seg.text.base
<1>4. o \in 0 .. seg.text.len-1 /\ elf[j].size > 0
  BY <1>2, <1>3, AddressAssumption DEF Addr
<1>5. CASE j = i
  <2>1. o \in elf[i].addr - seg.text.base .. elf[i].addr - seg.text.base + elf[i].size - 1
        /\ o - (elf[i].addr - seg.text.base) = d
    BY <1>2, <1>3, <1>5, AddressAssumption DEF Addr
  <2>2. cells'.text[o] = Copied(i)[d]
    BY <1>0, <1>2, <1>4, <1>5, <2>1, CopiedText
  <2> QED BY <1>2, <1>5, <2>2 DEF Copied
<1>6. CASE j # i
  <2>1. cells.text[o] = Byte(j, d)
    BY <1>0, <1>1, <1>3, <1>6 DEF TextCopied
  <2>2. CASE ~ToText(elf[i])
    BY <2>1, <2>2, CopyElsewhere
  <2>3. CASE ToText(elf[i])
    <3>1. i \in Loads(elf)
      BY <1>0, <2>3 DEF ToText, Loads
    <3> DEFINE a == elf[j].addr + d
    <3>2. a \in Addr /\ Holds(elf[j], a)
      BY <1>2, <1>3, AddressAssumption DEF Holds, Addr
    <3>3. ~Holds(elf[i], a)
      BY <1>1, <1>2, <1>6, <3>1, <3>2 DEF Apart
    <3>4. ~(o \in elf[i].addr - seg.text.base ..
                 elf[i].addr - seg.text.base + elf[i].size - 1)
      BY <1>2, <1>3, <3>3, AddressAssumption DEF Holds, Addr
    <3> QED BY <1>0, <1>4, <2>1, <2>3, <3>4, CopiedText
  <2> QED BY <2>2, <2>3
<1> QED BY <1>5, <1>6

-----------------------------------------------------------------------------
(* What sections that do not overlap promise, one by one.                   *)
LEMMA Ordered ==
  ASSUME TypeOK, Disjoint(elf), BssLast(elf)
  PROVE  /\ \A j \in Loads(elf) :
              /\ j \in DOMAIN elf
              /\ elf[j].addr + elf[j].size < AddrLen
              /\ End(elf[j]) = elf[j].addr + elf[j].size
         /\ \A j, k \in Loads(elf) : j # k =>
              \/ elf[j].addr + elf[j].size <= elf[k].addr
              \/ elf[k].addr + elf[k].size <= elf[j].addr
         /\ \A j \in DOMAIN elf :
              /\ Part(elf[j]) \in {"text", "data", "bss"} => j \in Loads(elf)
              /\ Part(elf[j]) = "bss" =>
                   elf[j].addr + elf[j].size + Align + HeapLen < AddrLen
         /\ \A j, k \in DOMAIN elf :
              Part(elf[j]) = "data" /\ Part(elf[k]) = "bss" =>
                elf[j].addr < elf[k].addr
<1>1. ASSUME NEW j \in Loads(elf)
      PROVE  /\ j \in DOMAIN elf
             /\ elf[j].addr + elf[j].size < AddrLen
             /\ End(elf[j]) = elf[j].addr + elf[j].size
  <2>1. j \in DOMAIN elf /\ elf[j].addr + elf[j].size < AddrLen
    BY DEF Loads, Disjoint
  <2>2. elf[j].addr \in Addr /\ elf[j].size \in Addr
    BY <2>1, SectionType
  <2> QED BY <2>1, <2>2, AddressArithmetic DEF End
<1>2. \A j, k \in Loads(elf) : j # k =>
        \/ elf[j].addr + elf[j].size <= elf[k].addr
        \/ elf[k].addr + elf[k].size <= elf[j].addr
  BY DEF Disjoint
<1>3. ASSUME NEW j \in DOMAIN elf, Part(elf[j]) \in {"text", "data", "bss"}
      PROVE  j \in Loads(elf)
  BY <1>3, SectionType DEF Loads, Alloc, Part, PartOf
<1>4. \A j \in DOMAIN elf : Part(elf[j]) = "bss" =>
        elf[j].addr + elf[j].size + Align + HeapLen < AddrLen
  BY DEF BssLast, Of
<1>5. \A j, k \in DOMAIN elf :
        Part(elf[j]) = "data" /\ Part(elf[k]) = "bss" => elf[j].addr < elf[k].addr
  BY DEF BssLast, Of
<1> QED BY <1>1, <1>2, <1>3, <1>4, <1>5

(* What a linker promises, section by section.                              *)
LEMMA Placed ==
  ASSUME TypeOK, WellPlaced(elf)
  PROVE  /\ Disjoint(elf) /\ BssLast(elf)
         /\ \A j \in DOMAIN elf :
              /\ Part(elf[j]) # "unknown"
              /\ Part(elf[j]) \in {"text", "data", "bss"} =>
                   /\ elf[j].size > 0
                   /\ elf[j].addr + elf[j].size < AddrLen
                   /\ End(elf[j]) = elf[j].addr + elf[j].size
                   /\ j \in Loads(elf)
              /\ Part(elf[j]) = "bss" =>
                   elf[j].addr + elf[j].size + Align + HeapLen < AddrLen
         /\ \A j, k \in DOMAIN elf :
              Part(elf[j]) = "data" /\ Part(elf[k]) = "bss" =>
                elf[j].addr < elf[k].addr
         /\ \/ \A j, k \in DOMAIN elf :
                 Part(elf[j]) = "text" /\ Part(elf[k]) = "data" =>
                   elf[j].addr + elf[j].size <= elf[k].addr
            \/ \A j, k \in DOMAIN elf :
                 Part(elf[j]) = "text" /\ Part(elf[k]) = "bss" =>
                   RoundUp(End(elf[k])) + HeapLen <= elf[j].addr
         /\ \A j, k \in Loads(elf) : j # k =>
              \/ elf[j].addr + elf[j].size <= elf[k].addr
              \/ elf[k].addr + elf[k].size <= elf[j].addr
<1>1. Disjoint(elf) /\ BssLast(elf)
  BY DEF WellPlaced
<1>2. \A j \in DOMAIN elf :
        /\ Part(elf[j]) # "unknown"
        /\ Part(elf[j]) \in {"text", "data", "bss"} => elf[j].size > 0
  BY DEF WellPlaced, Of
<1>3. \/ \A j, k \in DOMAIN elf :
           Part(elf[j]) = "text" /\ Part(elf[k]) = "data" =>
             elf[j].addr + elf[j].size <= elf[k].addr
      \/ \A j, k \in DOMAIN elf :
           Part(elf[j]) = "text" /\ Part(elf[k]) = "bss" =>
             RoundUp(End(elf[k])) + HeapLen <= elf[j].addr
  BY DEF WellPlaced, Of
<1> QED BY <1>1, <1>2, <1>3, Ordered

(* Sections that do not overlap are apart.                                  *)
LEMMA DisjointApart == ASSUME TypeOK, Disjoint(elf), BssLast(elf) PROVE Apart
<1>1. ASSUME NEW j \in Loads(elf)
      PROVE  /\ elf[j].addr \in Addr /\ elf[j].size \in Addr
             /\ elf[j].addr + elf[j].size < AddrLen
  BY Ordered, SectionType
<1>2. ASSUME NEW j \in Loads(elf), NEW k \in Loads(elf), j # k, NEW a \in Addr
      PROVE  ~(Holds(elf[j], a) /\ Holds(elf[k], a))
  <2>1. \/ elf[j].addr + elf[j].size <= elf[k].addr
        \/ elf[k].addr + elf[k].size <= elf[j].addr
    BY <1>2, Ordered
  <2> QED BY <1>1, <2>1, AddressAssumption DEF Holds, Addr
<1> QED BY <1>1, <1>2 DEF Apart

(* Those that a linker places are.                                          *)
LEMMA PlacedApart == ASSUME TypeOK, WellPlaced(elf) PROVE Apart
BY Placed, DisjointApart

(* The heap begins behind .bss and ends before the address space does.      *)
LEMMA HeapPlace ==
  ASSUME TypeOK, Hull, Allocated, Complete, Disjoint(elf), BssLast(elf)
  PROVE  /\ HeapBase \in Nat /\ range.bss.end <= HeapBase
         /\ HeapBase + HeapLen < AddrLen
         /\ \E k \in DOMAIN elf : /\ Part(elf[k]) = "bss"
                                  /\ End(elf[k]) = range.bss.end
<1>0. Counted = DOMAIN elf /\ phase # "exited"
  BY DEF Counted, Allocated
<1>1. PICK b \in DOMAIN elf : Part(elf[b]) = "bss"
  BY DEF Complete, Of
<1>a. PICK d \in DOMAIN elf : Part(elf[d]) = "data"
  BY DEF Complete, Of
<1>2. End(elf[b]) = elf[b].addr + elf[b].size /\ elf[d].addr < elf[b].addr
      /\ elf[d].addr \in Nat
      /\ elf[b].addr \in Nat /\ elf[b].size \in Nat /\ range.bss.end \in Addr
  <2>1. elf[b].addr \in Addr /\ elf[b].size \in Addr /\ range.bss.end \in Addr
        /\ elf[d].addr \in Addr
    BY SectionType DEF TypeOK
  <2>2. Addr \subseteq Nat
    BY AddressAssumption DEF Addr
  <2> QED BY <1>1, <1>a, <2>1, <2>2, Ordered
<1>3. End(elf[b]) <= range.bss.end
  BY <1>0, <1>1 DEF Hull
<1>4. range.bss.end # 0
  BY <1>2, <1>3, AddressAssumption DEF Addr
<1>5. PICK k \in DOMAIN elf : Part(elf[k]) = "bss" /\ range.bss.end = End(elf[k])
  BY <1>0, <1>4 DEF Hull
<1>6. range.bss.end + Align + HeapLen < AddrLen
  BY <1>5, Ordered
<1>7. RoundUp(range.bss.end) \in Addr
      /\ range.bss.end <= RoundUp(range.bss.end)
      /\ RoundUp(range.bss.end) < range.bss.end + Align
  <2>1. Align \in Nat /\ HeapLen \in Nat /\ AddrLen \in Nat /\ range.bss.end \in Nat
    BY <1>2, AddressAssumption, LoaderAssumption DEF Addr
  <2>2. range.bss.end + Align < AddrLen
    BY <1>6, <2>1
  <2> QED BY <1>2, <2>2, RoundUpProperties
<1> QED BY <1>2, <1>5, <1>6, <1>7, AddressAssumption, LoaderAssumption DEF HeapBase, Addr

(* The data segment begins with the lowest section of data and ends with    *)
(* the heap.                                                                *)
LEMMA DataSegment ==
  ASSUME TypeOK, Hull, SegmentsFit, Allocated, Complete, Disjoint(elf), BssLast(elf)
  PROVE  /\ seg.data.base \in Nat /\ seg.data.base < HeapBase
         /\ seg.data.len = HeapBase + HeapLen - seg.data.base
         /\ \E j \in DOMAIN elf : /\ Part(elf[j]) = "data"
                                  /\ elf[j].addr = seg.data.base
<1>0. Counted = DOMAIN elf /\ phase # "exited"
  BY DEF Counted, Allocated
<1>1. PICK j \in DOMAIN elf : Part(elf[j]) = "data"
  BY DEF Complete, Of
<1>2. PICK k \in DOMAIN elf : Part(elf[k]) = "bss" /\ End(elf[k]) = range.bss.end
  BY Placed, HeapPlace
<1>3. /\ elf[j].addr \in Addr /\ elf[j].size \in Addr /\ range.data.base \in Addr
      /\ elf[k].addr \in Addr /\ elf[k].size \in Addr
  BY SectionType DEF TypeOK
<1>4. /\ elf[j].addr < elf[k].addr
      /\ End(elf[k]) = elf[k].addr + elf[k].size
  BY <1>1, <1>2, Ordered
<1>5. range.data.base <= elf[j].addr
  BY <1>0, <1>1 DEF Hull
<1>6. range.data.base # AddrLen-1
  BY <1>3, <1>4, <1>5, AddressAssumption DEF Addr
<1>7. \E m \in DOMAIN elf : Part(elf[m]) = "data" /\ range.data.base = elf[m].addr
  BY <1>0, <1>6 DEF Hull
<1>8. HeapBase \in Nat /\ range.bss.end <= HeapBase /\ HeapBase + HeapLen < AddrLen
      /\ HeapLen \in Nat
  BY Placed, HeapPlace, LoaderAssumption, AddressAssumption
<1>9. range.data.base < HeapBase /\ range.data.base \in Nat
  BY <1>2, <1>3, <1>4, <1>5, <1>8, AddressAssumption DEF Addr
<1>10. /\ HeapBase \in Addr /\ HeapLen \in Addr /\ HeapBase + HeapLen \in Addr
       /\ range.data.base <= HeapBase + HeapLen
  BY <1>8, <1>9, AddressAssumption DEF Addr
<1>11. Plus(HeapBase, HeapLen) = HeapBase + HeapLen
  BY <1>8, <1>10, AddressArithmetic
<1>12. seg.data.len = HeapBase + HeapLen - range.data.base
  <2>1. seg.data.len = Minus(HeapBase + HeapLen, range.data.base)
    BY <1>11 DEF SegmentsFit
  <2>2. HeapBase + HeapLen >= range.data.base
    BY <1>3, <1>10, AddressAssumption DEF Addr
  <2> QED BY <1>8, <1>9, <2>1, <2>2 DEF Minus
<1>13. seg.data.base = range.data.base
  BY DEF SegmentsFit
<1> QED BY <1>7, <1>9, <1>12, <1>13

(* Text lies below the data or above the heap, never among them.            *)
LEMMA TextAside ==
  ASSUME TypeOK, Hull, SegmentsFit, Allocated, Complete, WellPlaced(elf)
  PROVE  \/ \A j \in DOMAIN elf : Part(elf[j]) = "text" =>
              elf[j].addr + elf[j].size <= seg.data.base
         \/ \A j \in DOMAIN elf : Part(elf[j]) = "text" =>
              HeapBase + HeapLen <= elf[j].addr
<1>1. PICK d \in DOMAIN elf : Part(elf[d]) = "data" /\ elf[d].addr = seg.data.base
  BY Placed, DataSegment
<1>2. PICK b \in DOMAIN elf : Part(elf[b]) = "bss" /\ End(elf[b]) = range.bss.end
  BY Placed, HeapPlace
<1>3. RoundUp(End(elf[b])) = HeapBase
  BY <1>2 DEF HeapBase
<1>4. CASE \A j, k \in DOMAIN elf : Part(elf[j]) = "text" /\ Part(elf[k]) = "data" =>
             elf[j].addr + elf[j].size <= elf[k].addr
  <2>1. \A j \in DOMAIN elf : Part(elf[j]) = "text" =>
          elf[j].addr + elf[j].size <= seg.data.base
    BY <1>1, <1>4
  <2> QED BY <2>1
<1>5. CASE \A j, k \in DOMAIN elf : Part(elf[j]) = "text" /\ Part(elf[k]) = "bss" =>
             RoundUp(End(elf[k])) + HeapLen <= elf[j].addr
  <2>1. \A j \in DOMAIN elf : Part(elf[j]) = "text" =>
          HeapBase + HeapLen <= elf[j].addr
    BY <1>2, <1>3, <1>5
  <2> QED BY <2>1
<1> QED BY <1>4, <1>5, Placed

(* Data and .bss go to the data segment, each inside it and below the heap. *)
LEMMA DataPlace ==
  ASSUME TypeOK, Hull, SegmentsFit, Allocated, Complete, WellPlaced(elf),
         NEW j \in DOMAIN elf, Part(elf[j]) \in {"data", "bss"}
  PROVE  /\ seg.data.base <= elf[j].addr
         /\ elf[j].addr + elf[j].size <= HeapBase
         /\ ~ToText(elf[j]) /\ (ToData(elf[j]) <=> ~Unfilled(elf[j]))
<1>0. Counted = DOMAIN elf /\ phase # "exited"
  BY DEF Counted, Allocated
<1>1. PICK d \in DOMAIN elf : Part(elf[d]) = "data" /\ elf[d].addr = seg.data.base
  BY Placed, DataSegment
<1>2. PICK b \in DOMAIN elf : Part(elf[b]) = "bss" /\ End(elf[b]) = range.bss.end
  BY Placed, HeapPlace
<1>3. /\ elf[j].addr \in Addr /\ elf[j].size \in Addr
      /\ elf[b].addr \in Addr /\ elf[b].size \in Addr /\ elf[d].addr \in Addr
      /\ range.text.base \in Addr /\ range.text.end \in Addr
  BY SectionType DEF TypeOK
<1>4. /\ elf[j].size > 0 /\ elf[j].addr + elf[j].size < AddrLen
      /\ End(elf[j]) = elf[j].addr + elf[j].size
      /\ elf[b].size > 0 /\ End(elf[b]) = elf[b].addr + elf[b].size
      /\ elf[d].addr < elf[b].addr
      /\ j \in Loads(elf) /\ b \in Loads(elf)
  BY <1>1, <1>2, Placed
<1>5. /\ HeapBase \in Nat /\ range.bss.end <= HeapBase
      /\ HeapBase + HeapLen < AddrLen /\ HeapLen \in Nat
  BY Placed, HeapPlace, LoaderAssumption, AddressAssumption
<1>6. seg.data.base <= elf[j].addr /\ elf[j].addr + elf[j].size <= HeapBase
  <2>1. CASE Part(elf[j]) = "data"
    <3>1. range.data.base <= elf[j].addr
      BY <1>0, <2>1 DEF Hull
    <3>2. elf[j].addr < elf[b].addr /\ j # b
      BY <1>2, <2>1, Placed
    <3>3. elf[j].addr + elf[j].size <= elf[b].addr
      <4>1. \/ elf[j].addr + elf[j].size <= elf[b].addr
            \/ elf[b].addr + elf[b].size <= elf[j].addr
        BY <1>4, <3>2, Placed
      <4> QED BY <1>3, <1>4, <3>2, <4>1, AddressAssumption DEF Addr
    <3> QED BY <1>2, <1>3, <1>4, <1>5, <3>1, <3>3, AddressAssumption DEF SegmentsFit, Addr
  <2>2. CASE Part(elf[j]) = "bss"
    <3>1. elf[d].addr < elf[j].addr
      BY <1>1, <2>2, Placed
    <3>2. End(elf[j]) <= range.bss.end
      BY <1>0, <2>2 DEF Hull
    <3>3. range.bss.end \in Addr
      BY DEF TypeOK
    <3> QED BY <1>1, <1>3, <1>4, <1>5, <3>1, <3>2, <3>3, AddressAssumption DEF Addr
  <2> QED BY <2>1, <2>2
<1>7. ~Inside("text", elf[j])
  <2> SUFFICES ASSUME range.text.base <= elf[j].addr, elf[j].addr < range.text.end
               PROVE  FALSE
    BY <1>3, AddressAssumption DEF Inside, Addr
  <2>1. PICK t \in DOMAIN elf : Part(elf[t]) = "text" /\ range.text.end = End(elf[t])
    BY <1>0, <1>3, AddressAssumption DEF Hull, Addr
  <2>2. range.text.base # AddrLen-1
    BY <1>3, <1>4, AddressAssumption DEF Addr
  <2>3. PICK u \in DOMAIN elf : Part(elf[u]) = "text" /\ range.text.base = elf[u].addr
    BY <1>0, <2>2 DEF Hull
  <2>4. End(elf[t]) = elf[t].addr + elf[t].size
    BY <2>1, Placed
  <2>5. CASE elf[t].addr + elf[t].size <= seg.data.base
    BY <1>1, <1>3, <1>6, <2>1, <2>4, <2>5, AddressAssumption DEF Addr
  <2>6. CASE HeapBase + HeapLen <= elf[u].addr
    BY <1>3, <1>4, <1>5, <1>6, <2>3, <2>6, AddressAssumption DEF Addr
  <2> QED BY <2>1, <2>3, <2>5, <2>6, TextAside
<1>8. elf[j].kind \in Kinds
  BY SectionType
<1>9. CASE ~Unfilled(elf[j])
  <2>1. /\ Alloc(elf[j]) /\ Writable(elf[j])
        /\ Part(elf[j]) = IF NoBits(elf[j]) THEN "bss" ELSE "data"
    BY <1>8, <1>9 DEF Part, PartOf, Kinds, Alloc, Writable, NoBits, Unfilled
  <2>2. /\ range[Part(elf[j])].base <= elf[j].addr
        /\ End(elf[j]) <= range[Part(elf[j])].end
    BY <1>0 DEF Hull
  <2>3. range[Part(elf[j])].base \in Addr /\ range[Part(elf[j])].end \in Addr
    BY DEF TypeOK
  <2>4. Inside(Part(elf[j]), elf[j])
    BY <1>3, <1>4, <2>2, <2>3, AddressAssumption DEF Inside, Addr
  <2> QED BY <1>6, <1>7, <1>9, <2>1, <2>4 DEF ToText, ToData
<1>10. CASE elf[j].kind = "const"
  BY <1>6, <1>7, <1>10 DEF ToText, ToData, Writable, Unfilled
<1>11. CASE elf[j].kind = "bits"
  <2>1. Part(elf[j]) = "bss" /\ ~NoBits(elf[j]) /\ Unfilled(elf[j])
    BY <1>11 DEF Part, PartOf, NoBits, Unfilled
  <2>2. ~Inside("data", elf[j])
    <3> SUFFICES ASSUME elf[j].addr < range.data.end PROVE FALSE
      BY <1>3, AddressAssumption DEF Inside, Addr
    <3>1. range.data.end \in Addr
      BY DEF TypeOK
    <3>2. PICK t \in DOMAIN elf : Part(elf[t]) = "data" /\ range.data.end = End(elf[t])
      BY <1>0, <1>3, <3>1, AddressAssumption DEF Hull, Addr
    <3>3. /\ elf[t].addr < elf[j].addr /\ t # j /\ t \in Loads(elf)
          /\ End(elf[t]) = elf[t].addr + elf[t].size
          /\ elf[t].addr \in Addr /\ elf[t].size \in Addr
      BY <2>1, <3>2, Placed, SectionType
    <3>4. \/ elf[t].addr + elf[t].size <= elf[j].addr
          \/ elf[j].addr + elf[j].size <= elf[t].addr
      BY <1>4, <3>3, Placed
    <3> QED BY <1>3, <1>4, <3>2, <3>3, <3>4, AddressAssumption DEF Addr
  <2> QED BY <1>6, <1>7, <2>1, <2>2 DEF ToText, ToData
<1> QED BY <1>9, <1>10, <1>11 DEF Unfilled

(* What a copy to the data segment leaves there.                            *)
LEMMA CopiedData ==
  ASSUME TypeOK, Copy, ToData(elf[i]), seg.data.base <= elf[i].addr,
         NEW o \in 0 .. seg.data.len-1
  PROVE  /\ cells'.data[o] =
              IF o \in elf[i].addr - seg.data.base ..
                       elf[i].addr - seg.data.base + elf[i].size - 1
              THEN Filled(i)[o - (elf[i].addr - seg.data.base)]
              ELSE cells.data[o]
         /\ wild' = (wild \/ (/\ elf[i].size > 0
                              /\ elf[i].addr - seg.data.base + elf[i].size > seg.data.len))
<1>1. Put("data", i, Filled(i))
  BY DEF Copy, ToText, ToData
<1>2. i \in DOMAIN elf
  BY LenProperties DEF Copy, TypeOK
<1>3. elf[i].addr \in Addr /\ seg.data.base \in Addr
  BY <1>2, SectionType DEF TypeOK, Segments
<1>4. Minus(elf[i].addr, seg.data.base) = elf[i].addr - seg.data.base
  BY <1>3, AddressArithmetic
<1>5. cells.data \in [0 .. seg.data.len-1 -> Contents] /\ DOMAIN cells = {"text", "data"}
  BY DEF TypeOK
<1> QED BY <1>1, <1>4, <1>5 DEF Put

(* Data that has been copied, and .bss that has been cleared, are not       *)
(* written over by a later section.                                         *)
LEMMA DataStep ==
  ASSUME TypeOK, Hull, SegmentsFit, DataCopied, Copy
  PROVE  DataCopied'
<1>0. /\ Allocated /\ i \in DOMAIN elf /\ i \in Nat
      /\ UNCHANGED <<elf, range, seg>> /\ i' = i+1
  BY LenProperties DEF Copy, Allocated, TypeOK
<1>1. SUFFICES ASSUME Complete, WellPlaced(elf), NEW j \in DOMAIN elf, j < i+1,
                      Part(elf[j]) \in {"data", "bss"}, ~Unfilled(elf[j]),
                      NEW d \in 0 .. elf[j].size-1
      PROVE  cells'.data[elf[j].addr + d - seg.data.base] =
               IF NoBits(elf[j]) THEN Zeroed ELSE Byte(j, d)
  BY <1>0 DEF DataCopied, Complete
<1>2. /\ seg.data.base <= elf[j].addr /\ elf[j].addr + elf[j].size <= HeapBase
      /\ ToData(elf[j])
      /\ seg.data.base \in Nat /\ seg.data.len = HeapBase + HeapLen - seg.data.base
      /\ HeapBase \in Nat /\ HeapLen \in Nat
  BY <1>0, <1>1, DataPlace, Placed, DataSegment, HeapPlace, LoaderAssumption, AddressAssumption
<1>3. /\ elf[j].addr \in Nat /\ elf[j].size \in Nat /\ j \in Nat
      /\ elf[i].addr \in Nat /\ elf[i].size \in Nat
  BY <1>0, SectionType, AddressAssumption DEF Addr
<1> DEFINE o == elf[j].addr + d - seg.data.base
<1>4. o \in 0 .. seg.data.len-1
  BY <1>2, <1>3
<1>5. CASE j = i
  <2>1. o \in elf[i].addr - seg.data.base .. elf[i].addr - seg.data.base + elf[i].size - 1
        /\ o - (elf[i].addr - seg.data.base) = d
    BY <1>2, <1>3, <1>5
  <2>2. cells'.data[o] = Filled(i)[d]
    BY <1>2, <1>4, <1>5, <2>1, CopiedData
  <2> QED BY <1>5, <2>2 DEF Filled
<1>6. CASE j # i
  <2>1. cells.data[o] = IF NoBits(elf[j]) THEN Zeroed ELSE Byte(j, d)
    BY <1>0, <1>1, <1>3, <1>6 DEF DataCopied
  <2>2. CASE ~ToData(elf[i])
    BY <2>1, <2>2, CopyElsewhere
  <2>3. CASE ToData(elf[i])
    <3>1. i \in Loads(elf) /\ j \in Loads(elf)
      BY <1>0, <1>1, <2>3, Placed DEF ToData, Loads
    <3>2. \/ elf[i].addr + elf[i].size <= elf[j].addr
          \/ elf[j].addr + elf[j].size <= elf[i].addr
      BY <1>1, <1>6, <3>1, Placed
    <3>3. seg.data.base <= elf[i].addr
      <4>1. Part(elf[i]) \in {"data", "bss"} \/ Part(elf[i]) = "text"
        BY <1>0, <1>1, <3>1, Placed, SectionType
        DEF Loads, Alloc, Part, PartOf, Kinds
      <4>2. CASE Part(elf[i]) = "text"
        BY <1>0, <1>1, <2>3, <4>2, TextPlace, PlacedApart, Placed DEF ToData, ToText
      <4> QED BY <1>0, <1>1, <4>1, <4>2, DataPlace
    <3>4. ~(o \in elf[i].addr - seg.data.base ..
                 elf[i].addr - seg.data.base + elf[i].size - 1)
      BY <1>2, <1>3, <3>2
    <3> QED BY <1>4, <2>1, <2>3, <3>3, <3>4, CopiedData
  <2> QED BY <2>2, <2>3
<1> QED BY <1>5, <1>6

(* A section that begins inside text ends inside it, whatever its name, if  *)
(* no two sections overlap.                                                 *)
LEMMA TextEnds ==
  ASSUME TypeOK, Hull, SegmentsFit, Allocated, Disjoint(elf), BssLast(elf),
         NEW j \in DOMAIN elf, ToText(elf[j])
  PROVE  LET o == Minus(elf[j].addr, seg.text.base) IN
         elf[j].size > 0 => o + elf[j].size <= seg.text.len
<1>0. Counted = DOMAIN elf /\ phase # "exited"
  BY DEF Counted, Allocated
<1>1. /\ elf[j].addr \in Addr /\ elf[j].size \in Addr /\ j \in Loads(elf)
      /\ range.text.base \in Addr /\ range.text.end \in Addr
      /\ range.text.base <= elf[j].addr /\ elf[j].addr < range.text.end
  <2>1. /\ elf[j].addr \in Addr /\ elf[j].size \in Addr
        /\ range.text.base \in Addr /\ range.text.end \in Addr
    BY SectionType DEF TypeOK
  <2> QED BY <2>1, AddressAssumption DEF ToText, Inside, Loads, Addr
<1>2. PICK t \in DOMAIN elf : Part(elf[t]) = "text" /\ range.text.end = End(elf[t])
  BY <1>0, <1>1, AddressAssumption DEF Hull, Addr
<1>3. /\ elf[t].addr \in Addr /\ elf[t].size \in Addr /\ t \in Loads(elf)
      /\ range.text.end = elf[t].addr + elf[t].size
  BY <1>2, SectionType, Ordered
<1>4. elf[j].addr + elf[j].size <= range.text.end
  <2>1. CASE j = t
    BY <1>3, <2>1, AddressAssumption DEF Addr
  <2>2. CASE j # t
    <3>1. \/ elf[j].addr + elf[j].size <= elf[t].addr
          \/ elf[t].addr + elf[t].size <= elf[j].addr
      BY <1>1, <1>3, <2>2, Ordered
    <3> QED BY <1>1, <1>3, <3>1, AddressAssumption DEF Addr
  <2> QED BY <2>1, <2>2
<1>5. /\ Minus(elf[j].addr, seg.text.base) = elf[j].addr - range.text.base
      /\ seg.text.len = range.text.end - range.text.base
  <2>1. range.text.base <= range.text.end
    BY <1>1, AddressAssumption DEF Addr
  <2>2. /\ Minus(elf[j].addr, range.text.base) = elf[j].addr - range.text.base
        /\ Minus(range.text.end, range.text.base) = range.text.end - range.text.base
    BY <1>1, <2>1, AddressArithmetic
  <2> QED BY <2>2 DEF SegmentsFit
<1>6. /\ elf[j].addr \in Nat /\ elf[j].size \in Nat
      /\ range.text.base \in Nat /\ range.text.end \in Nat
  BY <1>1, AddressAssumption DEF Addr
<1> QED BY <1>4, <1>5, <1>6

(* What is copied to the data segment begins behind its base and ends below *)
(* the heap, wherever text is.                                              *)
LEMMA DataEnds ==
  ASSUME TypeOK, Hull, SegmentsFit, Allocated, Complete, Disjoint(elf), BssLast(elf),
         NEW j \in DOMAIN elf, ToData(elf[j])
  PROVE  /\ seg.data.base <= elf[j].addr
         /\ elf[j].addr + elf[j].size <= HeapBase
<1>0. Counted = DOMAIN elf /\ phase # "exited"
  BY DEF Counted, Allocated
<1>1. /\ elf[j].addr \in Addr /\ elf[j].size \in Addr /\ j \in Loads(elf)
      /\ \A p \in {"data", "bss"} : range[p].base \in Addr /\ range[p].end \in Addr
  BY SectionType DEF TypeOK, ToData, Loads
<1>2. PICK d \in DOMAIN elf : Part(elf[d]) = "data" /\ elf[d].addr = seg.data.base
  BY DataSegment
<1>3. PICK b \in DOMAIN elf : Part(elf[b]) = "bss" /\ End(elf[b]) = range.bss.end
  BY HeapPlace
<1>4. /\ elf[d].addr \in Addr /\ elf[b].addr \in Addr /\ elf[b].size \in Addr
      /\ b \in Loads(elf) /\ range.bss.end = elf[b].addr + elf[b].size
      /\ HeapBase \in Nat /\ range.bss.end <= HeapBase
  BY <1>2, <1>3, SectionType, Ordered, HeapPlace
<1>5. PICK p \in {"data", "bss"} : Inside(p, elf[j])
  BY DEF ToData
<1>6. /\ range[p].base <= elf[j].addr /\ elf[j].addr < range[p].end
      /\ range[p].base # AddrLen-1 /\ range[p].end # 0
  <2>1. /\ range[p].base \in Nat /\ range[p].end \in Nat /\ elf[j].addr \in Nat
        /\ range[p].end <= AddrLen-1 /\ AddrLen \in Nat
    BY <1>1, AddressAssumption DEF Addr
  <2>2. range[p].base <= elf[j].addr /\ elf[j].addr < range[p].end
    BY <1>5, <2>1 DEF Inside
  <2> QED BY <2>1, <2>2
<1>7. PICK t \in DOMAIN elf : Part(elf[t]) = p /\ range[p].end = End(elf[t])
  BY <1>0, <1>6 DEF Hull
<1>8. PICK u \in DOMAIN elf : Part(elf[u]) = p /\ range[p].base = elf[u].addr
  BY <1>0, <1>6 DEF Hull
<1>9. /\ elf[t].addr \in Addr /\ elf[t].size \in Addr /\ t \in Loads(elf)
      /\ range[p].end = elf[t].addr + elf[t].size
  BY <1>7, SectionType, Ordered
<1>10. elf[j].addr + elf[j].size <= range[p].end
  <2>1. CASE j = t
    BY <1>9, <2>1, AddressAssumption DEF Addr
  <2>2. CASE j # t
    <3>1. \/ elf[j].addr + elf[j].size <= elf[t].addr
          \/ elf[t].addr + elf[t].size <= elf[j].addr
      BY <1>1, <1>9, <2>2, Ordered
    <3> QED BY <1>1, <1>6, <1>9, <3>1, AddressAssumption DEF Addr
  <2> QED BY <2>1, <2>2
<1>11. range[p].end <= range.bss.end
  <2>1. CASE p = "bss"
    BY <1>1, <2>1, AddressAssumption DEF Addr
  <2>2. CASE p = "data"
    <3>1. elf[t].addr < elf[b].addr /\ t # b
      BY <1>3, <1>7, <2>2, Ordered
    <3>2. \/ elf[t].addr + elf[t].size <= elf[b].addr
          \/ elf[b].addr + elf[b].size <= elf[t].addr
      BY <1>4, <1>9, <3>1, Ordered
    <3> QED BY <1>4, <1>9, <3>1, <3>2, AddressAssumption DEF Addr
  <2> QED BY <2>1, <2>2
<1>12. seg.data.base <= range[p].base
  <2>1. CASE p = "data"
    BY <1>1, <2>1, AddressAssumption DEF SegmentsFit, Addr
  <2>2. CASE p = "bss"
    <3>1. elf[d].addr < elf[u].addr
      BY <1>2, <1>8, <2>2, Ordered
    <3>2. elf[u].addr \in Addr
      BY SectionType
    <3> QED BY <1>2, <1>4, <1>8, <3>1, <3>2, AddressAssumption DEF Addr
  <2> QED BY <2>1, <2>2
<1>13. range[p].base \in Nat /\ range[p].end \in Nat /\ range.bss.end \in Nat
       /\ seg.data.base \in Nat /\ elf[j].addr \in Nat /\ elf[j].size \in Nat
  BY <1>1, <1>2, <1>4, AddressAssumption DEF Addr
<1> QED BY <1>4, <1>6, <1>10, <1>11, <1>12, <1>13

(* No copy leaves its segment.                                              *)
LEMMA InsideStep ==
  ASSUME TypeOK, Hull, SegmentsFit, StaysInside, Copy
  PROVE  StaysInside'
<1>0. /\ Allocated /\ i \in DOMAIN elf /\ UNCHANGED elf
  BY LenProperties DEF Copy, Allocated, TypeOK
<1>1. SUFFICES ASSUME Complete, Disjoint(elf), BssLast(elf), ~wild PROVE ~wild'
  BY <1>0 DEF StaysInside, Complete
<1>2. elf[i].addr \in Nat /\ elf[i].size \in Nat
  BY <1>0, SectionType, AddressAssumption DEF Addr
<1>3. CASE ToText(elf[i])
  <2>1. Put("text", i, Copied(i))
    BY <1>3 DEF Copy, ToText, ToData
  <2> DEFINE o == Minus(elf[i].addr, seg.text.base)
  <2>2. elf[i].size > 0 => o + elf[i].size <= seg.text.len
    BY <1>0, <1>1, <1>3, TextEnds
  <2>3. o \in Nat /\ seg.text.len \in Nat
    <3>1. seg["text"] \in Segments /\ elf[i].addr \in Addr
      BY <1>0, SectionType DEF TypeOK
    <3>2. seg.text.base \in Addr /\ seg.text.len \in Addr
      BY <3>1 DEF Segments
    <3>3. o \in Addr
      BY <3>1, <3>2, AddressArithmetic
    <3> QED BY <3>2, <3>3, AddressAssumption DEF Addr
  <2>4. wild' = (wild \/ (elf[i].size > 0 /\ o + elf[i].size > seg.text.len))
    BY <2>1 DEF Put
  <2> HIDE DEF o
  <2>5. ~(elf[i].size > 0 /\ o + elf[i].size > seg.text.len)
    BY <1>2, <2>2, <2>3
  <2> QED BY <1>1, <2>4, <2>5
<1>4. CASE ToData(elf[i])
  <2>1. /\ seg.data.base <= elf[i].addr /\ elf[i].addr + elf[i].size <= HeapBase
        /\ seg.data.base \in Nat /\ seg.data.base < HeapBase
        /\ seg.data.len = HeapBase + HeapLen - seg.data.base
        /\ HeapBase \in Nat /\ HeapLen \in Nat /\ HeapLen > 0
    BY <1>0, <1>1, <1>4, DataEnds, DataSegment, HeapPlace, LoaderAssumption,
       AddressAssumption
  <2>2. 0 \in 0 .. seg.data.len-1
    BY <2>1
  <2>3. ~(elf[i].addr - seg.data.base + elf[i].size > seg.data.len)
    BY <1>2, <2>1
  <2> QED BY <1>1, <1>4, <2>1, <2>2, <2>3, CopiedData
<1>5. CASE ~ToText(elf[i]) /\ ~ToData(elf[i])
  BY <1>1, <1>5, CopyElsewhere
<1> QED BY <1>3, <1>4, <1>5

(* What is in the data segment has been copied there.                       *)
LEMMA UntouchedStep ==
  ASSUME TypeOK, Settled, Untouched, [Next]_vars
  PROVE  Untouched'
<1>1. CASE Open \/ Fail \/ Measure \/ Unknown
  BY <1>1 DEF Open, Fail, Measure, Unknown, Untouched, Allocated, Opened, Settled
<1>2. CASE Allocate
  <2>1. cells'.data = [o \in 0 .. seg'.data.len-1 |-> Junk]
    BY <1>2 DEF Allocate
  <2> QED BY <2>1 DEF Untouched, Junk
<1>3. CASE Copy
  <2>0. /\ Allocated /\ i \in DOMAIN elf /\ UNCHANGED <<elf, range, seg>>
        /\ DOMAIN cells = {"text", "data"}
    BY <1>3, LenProperties DEF Copy, Allocated, TypeOK
  <2>1. \A j \in DOMAIN elf : ToData(elf[j])' <=> ToData(elf[j])
    BY <2>0 DEF ToData, Inside
  <2>2. CASE ~ToData(elf[i])
    <3>1. cells'.data = cells.data
      BY <1>3, <2>2, CopyElsewhere
    <3> QED BY <2>0, <2>1, <3>1 DEF Untouched
  <2>3. CASE ToData(elf[i])
    <3> DEFINE first == Minus(elf[i].addr, seg.data.base)
    <3>1. Put("data", i, Filled(i))
      BY <1>3, <2>3 DEF Copy, ToText, ToData
    <3>2. /\ DOMAIN cells'.data = DOMAIN cells.data
          /\ \A o \in DOMAIN cells.data :
               o \notin first .. first + elf[i].size - 1 => cells'.data[o] = cells.data[o]
      BY <2>0, <3>1 DEF Put
    <3> HIDE DEF first
    <3> SUFFICES ASSUME NEW o \in DOMAIN cells.data, cells'.data[o] # Junk
        PROVE \E j \in DOMAIN elf :
                LET f == Minus(elf[j].addr, seg.data.base) IN
                ToData(elf[j]) /\ o \in f .. f + elf[j].size - 1
      BY <2>0, <2>1, <3>2 DEF Untouched, Junk
    <3>3. CASE o \in first .. first + elf[i].size - 1
      BY <2>0, <2>3, <3>3 DEF first
    <3>4. CASE o \notin first .. first + elf[i].size - 1
      BY <2>0, <3>2, <3>4 DEF Untouched
    <3> QED BY <3>3, <3>4
  <2> QED BY <2>2, <2>3
<1>4. CASE Loaded \/ Start
  BY <1>4 DEF Loaded, Start, Untouched, Allocated, Opened, ToData, Inside, Junk
<1>5. CASE UNCHANGED vars
  BY <1>5 DEF vars, Untouched, Allocated, Opened, ToData, Inside, Junk
<1> QED BY <1>1, <1>2, <1>3, <1>4, <1>5 DEF Next

(* The other steps copy nothing.                                            *)
LEMMA CopiedStep ==
  ASSUME TypeOK, Hull, Settled, SegmentsFit, TextCopied, DataCopied, StaysInside,
         [Next]_vars
  PROVE  TextCopied' /\ DataCopied' /\ StaysInside'
<1>1. CASE Open \/ Fail \/ Measure \/ Unknown
  <2>1. ~Allocated' /\ UNCHANGED <<elf, wild>>
    BY <1>1 DEF Open, Fail, Measure, Unknown, Allocated, Opened, Settled
  <2> QED BY <2>1 DEF TextCopied, DataCopied, StaysInside, Complete
<1>2. CASE Allocate
  <2>1. i' = 1 /\ UNCHANGED <<elf, wild>> /\ \A j \in DOMAIN elf : ~(j < 1)
    BY <1>2, LenProperties DEF Allocate, TypeOK
  <2> QED BY <2>1 DEF TextCopied, DataCopied, StaysInside, Complete
<1>3. CASE Copy
  BY <1>3, TextStep, DataStep, InsideStep
<1>4. CASE Loaded \/ Start
  <2>1. /\ UNCHANGED <<elf, wild, i, cells, seg>> /\ (Allocated' => Allocated)
    BY <1>4 DEF Loaded, Start, Allocated, Opened
  <2>2. TextCopied'
    <3>1. Apart' = Apart
      BY <2>1 DEF Apart, Loads
    <3> QED BY <2>1, <3>1 DEF TextCopied
  <2>3. DataCopied'
    BY <2>1 DEF DataCopied, Complete
  <2>4. StaysInside'
    BY <2>1 DEF StaysInside, Complete
  <2> QED BY <2>2, <2>3, <2>4
<1>5. CASE UNCHANGED vars
  <2>1. /\ UNCHANGED <<elf, wild, i, cells, seg>> /\ (Allocated' => Allocated)
    BY <1>5 DEF vars, Allocated, Opened
  <2>2. TextCopied'
    <3>1. Apart' = Apart
      BY <2>1 DEF Apart, Loads
    <3> QED BY <2>1, <3>1 DEF TextCopied
  <2>3. DataCopied'
    BY <2>1 DEF DataCopied, Complete
  <2>4. StaysInside'
    BY <2>1 DEF StaysInside, Complete
  <2> QED BY <2>2, <2>3, <2>4
<1> QED BY <1>1, <1>2, <1>3, <1>4, <1>5 DEF Next

(* The invariant of loading: hulls, segments, lists and contents together.  *)
THEOREM Invariance == Spec => []Inv
<1>1. Init => Inv
  <2> SUFFICES ASSUME Init PROVE Inv
    OBVIOUS
  <2>1. Hull
    BY DEF Init, Hull, Counted
  <2>2. /\ Settled /\ SegmentsFit /\ Lists
        /\ TextCopied /\ DataCopied /\ Untouched /\ StaysInside
    BY DEF Init, Settled, SegmentsFit, Lists, TextCopied, DataCopied, Untouched,
           StaysInside, Allocated
  <2> QED BY <2>1, <2>2, TypeInit DEF Inv
<1>2. Inv /\ [Next]_vars => Inv'
  BY TypeStep, HullStep, SettledStep, SegmentsStep, ListsStep, CopiedStep, UntouchedStep DEF Inv
<1> QED BY <1>1, <1>2, PTL DEF Spec

-----------------------------------------------------------------------------
(* No memcpy or memset of readElf leaves the segment that was allocated for *)
(* it, for any file with .data and, behind it, .bss, of which no two        *)
(* sections overlap, wherever its text is.                                  *)
THEOREM CopiesStayInside == Spec => []StaysInside
BY Invariance, PTL DEF Inv

(* A program that is running finds its code in the text segment, byte for   *)
(* byte as it is in the file, whatever the layout of its other sections.    *)
THEOREM CodeIsFetched == Spec => []FetchesFile
<1>1. Inv => FetchesFile
  <2> SUFFICES ASSUME Inv, phase = "running", Opened, Apart,
                      NEW j \in Loads(elf), Part(elf[j]) = "text",
                      NEW d \in 0 .. elf[j].size-1
      PROVE  LET a == elf[j].addr + d IN
             In(seg.text, a) /\ cells.text[Minus(a, seg.text.base)] = Byte(j, d)
    BY DEF FetchesFile
  <2>1. /\ TypeOK /\ Hull /\ Settled /\ SegmentsFit /\ TextCopied /\ Allocated
        /\ j \in DOMAIN elf
    BY DEF Inv, Allocated, Loads
  <2>2. /\ elf[j].addr \in Addr /\ elf[j].size \in Addr /\ elf[j].size > 0
        /\ range.text.base \in Addr /\ range.text.end \in Addr
    <3>1. elf[j].addr \in Addr /\ elf[j].size \in Addr
      BY <2>1, SectionType
    <3>2. elf[j].size > 0
      BY <3>1, AddressAssumption DEF Addr
    <3> QED BY <2>1, <3>1, <3>2 DEF TypeOK
  <2>3. /\ elf[j].addr + elf[j].size < AddrLen
        /\ range.text.base <= elf[j].addr
        /\ elf[j].addr + elf[j].size <= range.text.end
        /\ seg.text.base = range.text.base
        /\ seg.text.len = range.text.end - range.text.base
    BY <2>1, <2>2, TextPlace
  <2> DEFINE a == elf[j].addr + d
  <2>4. a \in Addr /\ a - seg.text.base < seg.text.len /\ seg.text.base <= a
    BY <2>2, <2>3, AddressAssumption DEF Addr
  <2>5. Minus(a, seg.text.base) = a - seg.text.base
    BY <2>2, <2>3, <2>4, AddressArithmetic
  <2>6. j < i
    <3>1. j \in 1 .. Len(elf) /\ Len(elf) \in Nat
      BY <2>1, SectionType
    <3> QED BY <2>1, <3>1 DEF Settled
  <2>7. cells.text[a - seg.text.base] = Byte(j, d)
    <3>1. \A e \in 0 .. elf[j].size-1 :
            cells.text[elf[j].addr + e - seg.text.base] = Byte(j, e)
      BY <2>1, <2>6 DEF TextCopied
    <3>2. cells.text[elf[j].addr + d - seg.text.base] = Byte(j, d)
      BY <3>1
    <3>3. a - seg.text.base = elf[j].addr + d - seg.text.base
      BY <2>2, <2>3, AddressAssumption DEF Addr
    <3> QED BY <3>2, <3>3
  <2> QED BY <2>4, <2>5, <2>7 DEF In
<1> QED BY <1>1, Invariance, PTL

(* A load finds what lies in the data segment, the segment being the first  *)
(* that is tried (checkAddr, Memory::read8u).                               *)
LEMMA SeenInData ==
  ASSUME TypeOK, Hull, SegmentsFit, Allocated, Complete, WellPlaced(elf),
         NEW a \in Addr, seg.data.base <= a, a < HeapBase + HeapLen
  PROVE  In(seg.data, a) /\ Seen(a) = cells.data[a - seg.data.base]
<1>1. /\ seg.data.base \in Addr /\ seg.data.len \in Addr
      /\ seg.data.len = HeapBase + HeapLen - seg.data.base
      /\ HeapBase \in Nat /\ HeapLen \in Nat /\ HeapBase + HeapLen < AddrLen
  BY Placed, DataSegment, HeapPlace, LoaderAssumption, AddressAssumption DEF TypeOK, Segments
<1>2. seg.data.base + seg.data.len = HeapBase + HeapLen
  BY <1>1, AddressAssumption DEF Addr
<1>3. Plus(seg.data.base, seg.data.len) = HeapBase + HeapLen
  BY <1>1, <1>2, AddressArithmetic
<1>4. checkAddr(seg.data, seg.text, a)
  BY <1>1, <1>3, AddressAssumption DEF checkAddr, Between, Addr
<1>5. Minus(a, seg.data.base) = a - seg.data.base
  BY <1>1, AddressArithmetic
<1>6. In(seg.data, a)
  BY <1>1, <1>5, AddressAssumption DEF In, Addr
<1> QED BY <1>4, <1>5, <1>6 DEF Seen

(* An address of the text segment is not taken for one of the data segment. *)
LEMMA SeenInText ==
  ASSUME TypeOK, Hull, SegmentsFit, Allocated, Complete, WellPlaced(elf),
         NEW j \in DOMAIN elf, Part(elf[j]) = "text",
         NEW d \in 0 .. elf[j].size-1
  PROVE  Seen(elf[j].addr + d) = cells.text[elf[j].addr + d - seg.text.base]
<1> DEFINE a == elf[j].addr + d
<1>1. /\ elf[j].addr \in Addr /\ elf[j].size \in Addr /\ elf[j].size > 0
      /\ elf[j].addr + elf[j].size < AddrLen
      /\ range.text.base <= elf[j].addr
      /\ elf[j].addr + elf[j].size <= range.text.end
      /\ seg.text.base = range.text.base
      /\ seg.text.len = range.text.end - range.text.base
  BY SectionType, Placed, PlacedApart, TextPlace
<1>2. range.text.base \in Addr /\ range.text.end \in Addr
  BY DEF TypeOK
<1>3. a \in Addr /\ range.text.base <= a /\ a < range.text.end
  BY <1>1, <1>2, AddressAssumption DEF Addr
<1>4. /\ seg.data.base \in Addr /\ seg.data.base < HeapBase
      /\ seg.data.len = HeapBase + HeapLen - seg.data.base
      /\ HeapBase \in Nat /\ HeapLen \in Nat /\ HeapBase + HeapLen < AddrLen
  BY Placed, DataSegment, HeapPlace, LoaderAssumption, AddressAssumption DEF TypeOK, Segments
<1>5. ~In(seg.data, a)
  <2>1. CASE elf[j].addr + elf[j].size <= seg.data.base
    <3>1. a < seg.data.base
      BY <1>1, <1>4, <2>1, AddressAssumption DEF Addr
    <3>2. Minus(a, seg.data.base) = a - seg.data.base + AddrLen
      BY <1>3, <1>4, <3>1, AddressArithmetic
    <3> QED BY <1>3, <1>4, <3>2, AddressAssumption DEF In, Addr
  <2>2. CASE HeapBase + HeapLen <= elf[j].addr
    <3>1. HeapBase + HeapLen <= a /\ seg.data.base <= a
      BY <1>1, <1>4, <2>2, AddressAssumption DEF Addr
    <3>2. Minus(a, seg.data.base) = a - seg.data.base
      BY <1>3, <1>4, <3>1, AddressArithmetic
    <3> QED BY <1>3, <1>4, <3>1, <3>2, AddressAssumption DEF In, Addr
  <2> QED BY <2>1, <2>2, TextAside
<1>6. Minus(a, seg.text.base) = a - seg.text.base
  BY <1>1, <1>2, <1>3, AddressArithmetic
<1>7. In(seg.text, a)
  BY <1>1, <1>2, <1>3, <1>6, AddressAssumption DEF In, Addr
<1>8. checkAddr(seg.data, seg.text, a)
  <2>1. seg.text.base + seg.text.len = range.text.end /\ seg.text.len \in Addr
    BY <1>1, <1>2, <1>3, AddressAssumption DEF Addr
  <2>2. Plus(seg.text.base, seg.text.len) = range.text.end
    <3>1. seg.text.base \in Addr /\ seg.text.base + seg.text.len < AddrLen
      BY <1>1, <1>2, <2>1, AddressAssumption DEF Addr
    <3> QED BY <2>1, <3>1, AddressArithmetic
  <2> QED BY <1>1, <1>2, <1>3, <2>2, AddressAssumption DEF checkAddr, Between, Addr
<1>9. Seen(a) = cells.text[a - seg.text.base]
  BY <1>5, <1>6, <1>7, <1>8 DEF Seen
<1>10. a - seg.text.base = elf[j].addr + d - seg.text.base
  BY <1>1, <1>2, AddressAssumption DEF Addr
<1> QED BY <1>9, <1>10

(* A section that the second pass passes over is not written to by another. *)
LEMMA PassedOver ==
  ASSUME Inv, Allocated, Complete, WellPlaced(elf), NEW j \in DOMAIN elf,
         Part(elf[j]) \in {"data", "bss"}, Unfilled(elf[j]),
         NEW d \in 0 .. elf[j].size-1
  PROVE  cells.data[elf[j].addr + d - seg.data.base] = Junk
<1>0. TypeOK /\ Hull /\ SegmentsFit /\ Untouched /\ Apart
  BY PlacedApart DEF Inv
<1>1. /\ seg.data.base <= elf[j].addr /\ elf[j].addr + elf[j].size <= HeapBase
      /\ ~ToData(elf[j]) /\ j \in Loads(elf)
      /\ seg.data.base \in Nat /\ seg.data.len = HeapBase + HeapLen - seg.data.base
      /\ HeapBase \in Nat /\ HeapLen \in Nat /\ HeapLen > 0
  BY <1>0, DataPlace, DataSegment, HeapPlace, Placed, LoaderAssumption, AddressAssumption
<1>2. elf[j].addr \in Nat /\ elf[j].size \in Nat /\ d \in Nat
  BY <1>0, SectionType, AddressAssumption DEF Addr
<1> DEFINE o == elf[j].addr + d - seg.data.base
<1>3. o \in 0 .. seg.data.len-1
  BY <1>1, <1>2
<1>4. DOMAIN cells.data = 0 .. seg.data.len-1
  <2>1. cells["data"] \in [0 .. seg["data"].len-1 -> Contents]
    BY <1>0 DEF TypeOK
  <2> QED BY <2>1
<1>5. ASSUME NEW k \in DOMAIN elf, ToData(elf[k])
      PROVE  LET first == Minus(elf[k].addr, seg.data.base) IN
             o \notin first .. first + elf[k].size - 1
  <2>1. k \in Loads(elf) /\ k # j
    BY <1>1, <1>5 DEF ToData, Loads
  <2>2. \/ elf[k].addr + elf[k].size <= elf[j].addr
        \/ elf[j].addr + elf[j].size <= elf[k].addr
    BY <1>0, <1>1, <2>1, Placed
  <2>3. elf[k].addr \in Addr /\ elf[k].size \in Addr /\ seg.data.base \in Addr
    BY <1>0, SectionType DEF TypeOK, Segments
  <2>4. seg.data.base <= elf[k].addr
    <3>1. Part(elf[k]) \in {"data", "bss"} \/ Part(elf[k]) = "text"
      BY <1>0, <2>1, Placed, SectionType DEF Loads, Alloc, Part, PartOf, Kinds
    <3>2. CASE Part(elf[k]) = "text"
      BY <1>0, <1>5, <3>2, TextPlace, Placed DEF ToData, ToText
    <3> QED BY <1>0, <3>1, <3>2, DataPlace
  <2>5. Minus(elf[k].addr, seg.data.base) = elf[k].addr - seg.data.base
    BY <2>3, <2>4, AddressArithmetic
  <2>6. elf[k].addr \in Nat /\ elf[k].size \in Nat
    BY <2>3, AddressAssumption DEF Addr
  <2>7. o \notin elf[k].addr - seg.data.base .. elf[k].addr - seg.data.base + elf[k].size - 1
    BY <1>1, <1>2, <2>2, <2>6
  <2> QED BY <2>5, <2>7
<1> QED BY <1>0, <1>3, <1>4, <1>5 DEF Untouched

(* A well placed program with .data and .bss that runs finds each byte of   *)
(* its sections at its address, and zeros in .bss, through the dispatch of  *)
(* its own loads; sections about which the two passes disagree stay as      *)
(* malloc returned them.                                                    *)
THEOREM ProgramIsSeen == Spec => []CompleteSeen
<1>1. Inv => CompleteSeen
  <2> SUFFICES ASSUME Inv, Opened, Complete, phase = "running", WellPlaced(elf),
                      NEW j \in Loads(elf), NEW d \in 0 .. elf[j].size-1
      PROVE  Seen(Plus(elf[j].addr, d)) = InImage(j, d)
    BY DEF CompleteSeen, GuestSeesFile
  <2>1. /\ TypeOK /\ Hull /\ Settled /\ SegmentsFit /\ TextCopied /\ DataCopied
        /\ Allocated /\ Apart /\ j \in DOMAIN elf
    BY PlacedApart DEF Inv, Allocated, Loads
  <2>2. /\ elf[j].addr \in Addr /\ elf[j].size \in Addr /\ j < i
    <3>1. j \in 1 .. Len(elf) /\ Len(elf) \in Nat
      BY <2>1, SectionType
    <3> QED BY <2>1, <3>1, SectionType DEF Settled
  <2>3. Part(elf[j]) \in {"text", "data", "bss"}
    BY <2>1, Placed, SectionType DEF Loads, Alloc, Part, PartOf, Kinds
  <2>4. elf[j].addr + elf[j].size < AddrLen
    BY <2>1, <2>3, Placed
  <2>5. /\ d \in Addr /\ elf[j].addr + d \in Addr
        /\ Plus(elf[j].addr, d) = elf[j].addr + d
    <3>1. d \in Addr /\ elf[j].addr + d < AddrLen /\ elf[j].addr + d \in Addr
      BY <2>2, <2>4, AddressAssumption DEF Addr
    <3> QED BY <2>2, <3>1, AddressArithmetic
  <2>6. CASE Part(elf[j]) = "text"
    <3>0. ~NoBits(elf[j]) /\ ~Unfilled(elf[j])
      BY <2>6, SectionType DEF Part, PartOf, NoBits, Unfilled
    <3>1. cells.text[elf[j].addr + d - seg.text.base] = InImage(j, d)
      BY <2>1, <2>2, <2>6, <3>0 DEF TextCopied, InImage
    <3> QED BY <2>1, <2>5, <2>6, <3>1, SeenInText
  <2>7. CASE Part(elf[j]) \in {"data", "bss"}
    <3> DEFINE a == elf[j].addr + d
    <3>1. cells.data[elf[j].addr + d - seg.data.base] = InImage(j, d)
      <4>1. CASE Unfilled(elf[j])
        BY <2>1, <2>7, <4>1, PassedOver DEF InImage
      <4>2. CASE ~Unfilled(elf[j])
        BY <2>1, <2>2, <2>7, <4>2 DEF DataCopied, InImage
      <4> QED BY <4>1, <4>2
    <3>2. seg.data.base \in Nat /\ HeapBase \in Nat /\ HeapLen \in Nat
      BY <2>1, Placed, DataSegment, HeapPlace, LoaderAssumption, AddressAssumption
    <3>3. seg.data.base <= a /\ a < HeapBase + HeapLen
      BY <2>1, <2>2, <2>7, <3>2, DataPlace, AddressAssumption DEF Addr
    <3>4. Seen(a) = cells.data[a - seg.data.base]
      BY <2>1, <2>5, <3>3, SeenInData
    <3>5. a - seg.data.base = elf[j].addr + d - seg.data.base
      BY <2>2, <3>2, AddressAssumption DEF Addr
    <3> QED BY <2>5, <3>1, <3>4, <3>5
  <2> QED BY <2>3, <2>6, <2>7
<1> QED BY <1>1, Invariance, PTL

(* Without -u, and without bits in .bss, the heap begins and the stack      *)
(* starts in the data segment, with room between them and no section in it. *)
THEOREM HeapStartsFree == Spec => []HeapFree
<1>1. Inv => HeapFree
  <2> SUFFICES ASSUME Inv, phase = "running", Opened, Complete, WellPlaced(elf), ~uflag,
                      \A b \in Of(elf, {"bss"}) : NoBits(b)
      PROVE  /\ RoundUp(edata) <= sp
             /\ \A a \in RoundUp(edata) .. sp :
                  In(seg.data, a) /\ \A j \in Loads(elf) : ~Holds(elf[j], a)
    BY DEF HeapFree
  <2>1. TypeOK /\ Hull /\ Settled /\ SegmentsFit /\ Lists /\ Allocated
    BY DEF Inv, Allocated
  <2>2. /\ seg.data.base \in Nat /\ seg.data.base < HeapBase
        /\ seg.data.len = HeapBase + HeapLen - seg.data.base
        /\ HeapBase \in Nat /\ HeapBase + HeapLen < AddrLen
        /\ HeapLen \in Nat /\ Align \in Nat /\ 0 < Align /\ Align <= HeapLen
    BY <2>1, Placed, DataSegment, HeapPlace, LoaderAssumption, AddressAssumption
  <2>3. RoundUp(edata) = HeapBase
    <3> DEFINE js == {j \in DOMAIN elf : ToData(elf[j])}
    <3>1. edata = HighestEnd(js)
      BY <2>1 DEF Lists
    <3>2. PICK k \in DOMAIN elf : Part(elf[k]) = "bss" /\ End(elf[k]) = range.bss.end
      BY <2>1, Placed, HeapPlace
    <3>3. k \in js
      <4>1. NoBits(elf[k])
        BY <3>2 DEF Of
      <4>2. ~Unfilled(elf[k])
        BY <4>1 DEF NoBits, Unfilled
      <4> QED BY <2>1, <3>2, <4>2, DataPlace
    <3>4. /\ range.bss.end <= edata /\ edata \in Addr /\ range.bss.end \in Addr
          /\ edata = 0 \/ \E j \in js : edata = End(elf[j])
      <4>1. /\ HighestEnd(js) \in Addr
            /\ HighestEnd(js) = 0 \/ \E j \in js : HighestEnd(js) = End(elf[j])
            /\ \A j \in js : End(elf[j]) <= HighestEnd(js)
        BY <2>1, HighestEndProperties
      <4>2. range.bss.end \in Addr
        BY <2>1 DEF TypeOK
      <4> QED BY <3>1, <3>2, <3>3, <4>1, <4>2
    <3>5. ASSUME NEW j \in js PROVE End(elf[j]) <= range.bss.end
      <4>1. j \in Loads(elf) /\ k \in Loads(elf) /\ ~ToText(elf[j])
        BY <2>1, <3>2, Placed DEF ToData, ToText, Loads
      <4>2. Part(elf[j]) \in {"text", "data", "bss"}
        BY <2>1, <4>1, Placed, SectionType DEF Loads, Alloc, Part, PartOf, Kinds
      <4>3. Part(elf[j]) # "text"
        BY <2>1, <4>1, TextPlace, PlacedApart, Placed
      <4>4. CASE Part(elf[j]) = "bss"
        BY <2>1, <4>4 DEF Hull, Counted, Allocated
      <4>5. CASE Part(elf[j]) = "data"
        <5>1. /\ elf[j].addr < elf[k].addr /\ j # k
              /\ elf[k].size > 0
              /\ End(elf[j]) = elf[j].addr + elf[j].size
              /\ End(elf[k]) = elf[k].addr + elf[k].size
          BY <2>1, <3>2, <4>5, Placed
        <5>2. \/ elf[j].addr + elf[j].size <= elf[k].addr
              \/ elf[k].addr + elf[k].size <= elf[j].addr
          BY <4>1, <5>1, <2>1, Placed
        <5>3. /\ elf[j].addr \in Addr /\ elf[j].size \in Addr
              /\ elf[k].addr \in Addr /\ elf[k].size \in Addr
          BY <2>1, SectionType
        <5> QED BY <3>2, <5>1, <5>2, <5>3, AddressAssumption DEF Addr
      <4> QED BY <4>2, <4>3, <4>4, <4>5
    <3>6. edata <= range.bss.end
      BY <3>4, <3>5, AddressAssumption DEF Addr
    <3>7. edata = range.bss.end
      BY <3>4, <3>6, AddressAssumption DEF Addr
    <3> QED BY <3>7 DEF HeapBase
  <2>4. sp = HeapBase + HeapLen - Align
    <3>1. sp = Minus(Plus(seg.data.base, seg.data.len), Align)
      BY <2>1 DEF Lists
    <3>2. seg.data.base + seg.data.len = HeapBase + HeapLen
      BY <2>2
    <3>3. Plus(seg.data.base, seg.data.len) = HeapBase + HeapLen
      BY <2>2, <3>2 DEF Plus
    <3> QED BY <2>2, <3>1, <3>3 DEF Minus
  <2>5. ASSUME NEW a \in HeapBase .. sp
        PROVE  In(seg.data, a) /\ \A j \in Loads(elf) : ~Holds(elf[j], a)
    <3>1. a \in Addr /\ seg.data.base <= a /\ HeapBase <= a /\ a < HeapBase + HeapLen
      BY <2>2, <2>4, <2>5, AddressAssumption DEF Addr
    <3>2. ASSUME NEW j \in Loads(elf) PROVE ~Holds(elf[j], a)
      <4>1. j \in DOMAIN elf
        BY DEF Loads
      <4>2. Part(elf[j]) \in {"text", "data", "bss"}
        BY <2>1, <4>1, Placed, SectionType DEF Loads, Alloc, Part, PartOf, Kinds
      <4>3. /\ elf[j].addr \in Nat /\ elf[j].size \in Nat /\ a \in Nat
        BY <2>1, <3>1, <4>1, SectionType, AddressAssumption DEF Addr
      <4>4. CASE Part(elf[j]) \in {"data", "bss"}
        <5>1. elf[j].addr + elf[j].size <= HeapBase
          BY <2>1, <4>1, <4>4, DataPlace
        <5> QED BY <2>2, <3>1, <4>3, <5>1 DEF Holds
      <4>5. CASE Part(elf[j]) = "text"
        <5>1. \/ elf[j].addr + elf[j].size <= seg.data.base
              \/ HeapBase + HeapLen <= elf[j].addr
          BY <2>1, <4>1, <4>5, TextAside
        <5> QED BY <2>2, <3>1, <4>3, <5>1 DEF Holds
      <4> QED BY <4>2, <4>4, <4>5
    <3> QED BY <2>1, <3>1, <3>2, SeenInData
  <2> QED BY <2>2, <2>3, <2>4, <2>5
<1> QED BY <1>1, Invariance, PTL
=============================================================================
