------------------------------- MODULE Loader ------------------------------
(***************************************************************************)
(* From the sections of an ELF file to a guest that is ready to run:        *)
(* readElf measures the three parts of the program, allocates two segments  *)
(* and copies the sections; main derives the heap and the stack.            *)
(*                                                                          *)
(* A byte of the file is named by its section and its offset there.         *)
(***************************************************************************)
EXTENDS AddressMap, Sequences, FiniteSets

CONSTANTS Align,       \* 16: of the heap, and the room above the stack
          HeapLen,     \* heap_len
          Built,       \* text and data as class Memory was constructed
          Shapes,      \* the kinds of the sections of a file, in its order
          Addrs, Sizes,\* where sections may lie, and how long they may be
          Linked,      \* the shapes of which all files are well placed
          Mixed,       \* and those of which they only do not overlap
          MayFail      \* readElf may give up before the sections

Kinds == {"text", "array", "data", "const", "bss", "bits", "debug", "odd"}
Places == [addr : Addrs, size : Sizes]

ASSUME LoaderAssumption ==
  /\ Align \in 1 .. AddrLen-1 /\ HeapLen \in Align .. AddrLen-1
  /\ Built \in [{"text", "data"} -> Segments]
  /\ Addrs \subseteq Addr /\ Sizes \subseteq Addr
  /\ Shapes \subseteq Seq(Kinds)
  /\ Linked \subseteq Shapes /\ Mixed \subseteq Shapes
  /\ MayFail \in BOOLEAN

VARIABLES
  elf,      \* the sections, a sequence
  uflag,    \* -u
  phase,    \* where readElf and main are
  i,        \* the section that comes next
  range,    \* text_base, text_end, data_base, ...: of three parts
  seg,      \* insnMem and dataMem
  cells,    \* what their memory holds
  listed,   \* elf32: the sections that each has been given
  edata,    \* endOfData
  sp,       \* the stack pointer that the guest starts with
  wild      \* history: a copy went beyond the segment

vars == <<elf, uflag, phase, i, range, seg, cells, listed, edata, sp, wild>>

Junk       == <<"junk">>
Zeroed     == <<"zero">>
Byte(j, d) == <<"elf", j, d>>

(* What readElf makes of the names and flags of the sections: .text,        *)
(* .rodata; .eh_frame, .init_array, .fini_array; .data, .sdata; those       *)
(* without SHF_WRITE; .bss, .sbss; those that are not SHT_NOBITS; flags 0   *)
(* or 0x30; all others.                                                     *)
PartOf == [text |-> "text", array |-> "text", data |-> "data",
           const |-> "data", bss |-> "bss", bits |-> "bss",
           debug |-> "skipped", odd |-> "unknown"]
Alloc(s)    == s.kind # "debug"
Writable(s) == s.kind \in {"array", "data", "bss", "bits"}
NoBits(s)   == s.kind = "bss"
Part(s)     == PartOf[s.kind]
End(s)      == Plus(s.addr, s.size)

(* Mutant of RoundUp: aligned downwards.                                    *)
RoundDown(a) == a - (a % Align)

RoundUp(a) == LET b == Plus(a, Align-1) IN b - (b % Align)

-----------------------------------------------------------------------------
Holds(s, a)  == a \in s.addr .. s.addr + s.size - 1
Of(e, parts) == {e[n] : n \in {m \in DOMAIN e : Part(e[m]) \in parts}}
Loads(e)     == {n \in DOMAIN e : Alloc(e[n])}

(* A linker gives each section its own addresses,                           *)
Disjoint(e) ==
  \A j \in Loads(e) :
    /\ e[j].addr + e[j].size < AddrLen
    /\ \A k \in Loads(e) : j # k =>
         e[j].addr + e[j].size <= e[k].addr \/ e[k].addr + e[k].size <= e[j].addr

(* .bss comes after .data and leaves room for the heap,                     *)
BssLast(e) ==
  /\ \A s \in Of(e, {"data"}), b \in Of(e, {"bss"}) : s.addr < b.addr
  /\ \A b \in Of(e, {"bss"}) : b.addr + b.size + Align + HeapLen < AddrLen

(* and .text with its companions is on one side of data, heap and stack.    *)
WellPlaced(e) ==
  /\ Disjoint(e) /\ BssLast(e)
  /\ Of(e, {"unknown"}) = {}
  /\ \A s \in Of(e, {"text", "data", "bss"}) : s.size > 0
  /\ \/ \A s \in Of(e, {"text"}), t \in Of(e, {"data"}) : s.addr + s.size <= t.addr
     \/ \A s \in Of(e, {"text"}), b \in Of(e, {"bss"}) :
          RoundUp(End(b)) + HeapLen <= s.addr

Init ==
  /\ \E shape \in Shapes : \E place \in [1 .. Len(shape) -> Places] :
       /\ elf = [n \in 1 .. Len(shape) |-> [kind |-> shape[n],
                    addr |-> place[n].addr, size |-> place[n].size]]
       /\ shape \in Linked => WellPlaced(elf)
       /\ shape \in Mixed => Disjoint(elf) /\ BssLast(elf)
  /\ uflag \in BOOLEAN
  /\ phase = "open" /\ i = 1
  /\ range = [p \in {"text", "data", "bss"} |-> [base |-> AddrLen-1, end |-> 0]]
  /\ seg = Built
  /\ cells = [p \in {"text", "data"} |-> [o \in 0 .. Built[p].len-1 |-> Junk]]
  /\ listed = [p \in {"text", "data"} |-> {}]
  /\ edata = 0 /\ sp = 0 /\ wild = FALSE

-----------------------------------------------------------------------------
(* The file is there, and it is a 32 bit ELF file for this machine.         *)
Open ==
  /\ phase = "open" /\ phase' = "measure"
  /\ UNCHANGED <<elf, uflag, i, range, seg, cells, listed, edata, sp, wild>>

(* Or it is not: one of another word size ends the process, and otherwise   *)
(* readElf returns -1, which main does not look at.                         *)
Fail ==
  /\ phase = "open" /\ MayFail /\ phase' \in {"start", "exited"}
  /\ UNCHANGED <<elf, uflag, i, range, seg, cells, listed, edata, sp, wild>>

(* Mutant of Widened: the last section counts, not the highest end.         *)
WidenedLast(r, s) == [base |-> IF s.addr < r.base THEN s.addr ELSE r.base,
                      end  |-> End(s)]

Widened(r, s) == [base |-> IF s.addr < r.base THEN s.addr ELSE r.base,
                  end  |-> IF End(s) > r.end THEN End(s) ELSE r.end]

Measure ==
  /\ phase = "measure" /\ i <= Len(elf) /\ Part(elf[i]) # "unknown"
  /\ range' = IF Part(elf[i]) = "skipped" THEN range
              ELSE [range EXCEPT ![Part(elf[i])] = Widened(@, elf[i])]
  /\ i' = i + 1
  /\ UNCHANGED <<elf, uflag, phase, seg, cells, listed, edata, sp, wild>>

(* "Unknow program section": exit(1)                                        *)
Unknown ==
  /\ phase = "measure" /\ i <= Len(elf) /\ Part(elf[i]) = "unknown"
  /\ phase' = "exited"
  /\ UNCHANGED <<elf, uflag, i, range, seg, cells, listed, edata, sp, wild>>

HeapBase == RoundUp(range.bss.end)

Allocate ==
  /\ phase = "measure" /\ i > Len(elf)
  /\ seg' = [text |-> [base |-> range.text.base,
                       len  |-> Minus(range.text.end, range.text.base)],
             data |-> [base |-> range.data.base,
                       len  |-> Minus(Plus(HeapBase, HeapLen), range.data.base)]]
  /\ cells' = [p \in {"text", "data"} |-> [o \in 0 .. seg'[p].len-1 |-> Junk]]
  /\ phase' = "copy" /\ i' = 1
  /\ UNCHANGED <<elf, uflag, range, listed, edata, sp, wild>>

(* Mutant of Inside: the first address behind belongs to it.                *)
InsideClosed(p, s) == s.addr >= range[p].base /\ s.addr <= range[p].end

(* Where a section goes is decided by its address, not by its name.         *)
Inside(p, s) == s.addr >= range[p].base /\ s.addr < range[p].end

Filled(j) == [d \in 0 .. elf[j].size-1 |->
                IF NoBits(elf[j]) THEN Zeroed ELSE Byte(j, d)]

(* The file has no bytes for .bss: what is copied is something else.        *)
Copied(j) == [d \in 0 .. elf[j].size-1 |->
                IF NoBits(elf[j]) THEN Junk ELSE Byte(j, d)]

(* memcpy and memset of the bytes of section j to its place in a segment.   *)
Put(p, j, bytes) ==
  LET o == Minus(elf[j].addr, seg[p].base) IN
  /\ cells' = [cells EXCEPT ![p] = [c \in DOMAIN @ |->
                 IF c \in o .. o + elf[j].size - 1 THEN bytes[c-o] ELSE @[c]]]
  /\ wild' = (wild \/ (elf[j].size > 0 /\ o + elf[j].size > seg[p].len))
  /\ listed' = [listed EXCEPT ![p] = @ \cup {j}]

ToText(s) == Alloc(s) /\ Inside("text", s)

(* Mutant of ToData: whether a section has bits does not matter.            *)
ToDataAnyType(s) == Alloc(s) /\ ~Inside("text", s) /\ Writable(s)
                    /\ (Inside("data", s) \/ Inside("bss", s))

ToData(s) == Alloc(s) /\ ~Inside("text", s) /\ Writable(s)
             /\ Inside(IF NoBits(s) THEN "bss" ELSE "data", s)

Copy ==
  /\ phase = "copy" /\ i <= Len(elf)
  /\ \/ ToText(elf[i]) /\ Put("text", i, Copied(i))
     \/ ToData(elf[i]) /\ Put("data", i, Filled(i))
     \/ ~ToText(elf[i]) /\ ~ToData(elf[i]) /\ UNCHANGED <<cells, listed, wild>>
  /\ i' = i + 1
  /\ UNCHANGED <<elf, uflag, phase, range, seg, edata, sp>>

Loaded ==
  /\ phase = "copy" /\ i > Len(elf) /\ phase' = "start"
  /\ UNCHANGED <<elf, uflag, i, range, seg, cells, listed, edata, sp, wild>>

(* The highest end of the sections in a list, 0 if there is none.           *)
HighestEnd(js) ==
  CHOOSE e \in {0} \cup {End(elf[j]) : j \in js} : \A j \in js : End(elf[j]) <= e

(* main: -u makes the list of text the list of data as well.                *)
Start ==
  /\ phase = "start" /\ phase' = "running"
  /\ listed' = IF uflag THEN [listed EXCEPT !.data = listed.text] ELSE listed
  /\ edata' = HighestEnd(listed'.data)
  /\ sp' = Minus(Plus(seg.data.base, seg.data.len), Align)
  /\ UNCHANGED <<elf, uflag, i, range, seg, cells, wild>>

Next == Open \/ Fail \/ Measure \/ Unknown \/ Allocate \/ Copy \/ Loaded \/ Start

Spec == Init /\ [][Next]_vars
-----------------------------------------------------------------------------
Contents == {Junk, Zeroed} \cup {Byte(j, d) : j \in DOMAIN elf, d \in Addr}

TypeOK ==
  /\ elf \in Seq([kind : Kinds, addr : Addr, size : Addr]) /\ i \in 1 .. Len(elf)+1
  /\ uflag \in BOOLEAN
  /\ phase \in {"open", "measure", "copy", "start", "running", "exited"}
  /\ range \in [{"text", "data", "bss"} -> [base : Addr, end : Addr]]
  /\ seg \in [{"text", "data"} -> Segments]
  /\ DOMAIN cells = {"text", "data"}
  /\ \A p \in {"text", "data"} : cells[p] \in [0 .. seg[p].len-1 -> Contents]
  /\ listed \in [{"text", "data"} -> SUBSET DOMAIN elf]
  /\ edata \in Addr /\ sp \in Addr /\ wild \in BOOLEAN

(* What a load of one byte finds: checkAddr, then isdata, then istext.      *)
Seen(a) ==
  IF ~checkAddr(seg.data, seg.text, a) THEN <<"refused">>
  ELSE IF In(seg.data, a) THEN cells.data[Minus(a, seg.data.base)]
  ELSE IF In(seg.text, a) THEN cells.text[Minus(a, seg.text.base)]
  ELSE <<"refused">>

(* By name these are .data and .bss, which the first pass counts; by flags  *)
(* and type they are neither, and the second pass fills them with nothing.  *)
Unfilled(s) == s.kind \in {"const", "bits"}

InImage(j, d) == IF Unfilled(elf[j]) THEN Junk
                 ELSE IF NoBits(elf[j]) THEN Zeroed
                 ELSE Byte(j, d)

(* README.md:30 "Direct loading of *.elf files": a program that runs finds  *)
(* each byte of its sections at its address, and zeros in .bss, through the *)
(* dispatch of its own loads (readElf, checkAddr, Memory::read8u); where    *)
(* the two passes disagree about a section, nothing of another one either.  *)
GuestSeesFile ==
  phase = "running" /\ WellPlaced(elf) =>
    \A j \in Loads(elf) : \A d \in 0 .. elf[j].size-1 :
      Seen(Plus(elf[j].addr, d)) = InImage(j, d)

(* It does if the file is one that readElf accepts and has .data and .bss.  *)
Opened   == i > 1
Complete == Of(elf, {"data"}) # {} /\ Of(elf, {"bss"}) # {}
CompleteSeen == Opened /\ Complete => GuestSeesFile

(* No copy leaves the segment that was allocated for it (memcpy, memset),   *)
(* wherever text is: also sections of data between two of text, which the   *)
(* second pass copies to text, end inside it if no two sections overlap.    *)
StaysInside == Complete /\ Disjoint(elf) /\ BssLast(elf) => ~wild

(* The heap that sys_brk starts and the stack that grows towards it begin   *)
(* in the data segment with no section between them: Cpu.cpp:1099 "0 =      *)
(* reset to end of data" (main, sys_brk).  With -u it is not so, nor if a   *)
(* .bss has bits: it is on no list, and the heap may begin in it.           *)
HeapFree ==
  phase = "running" /\ Opened /\ Complete /\ WellPlaced(elf) /\ ~uflag
  /\ (\A b \in Of(elf, {"bss"}) : NoBits(b)) =>
    /\ RoundUp(edata) <= sp
    /\ \A a \in RoundUp(edata) .. sp :
         In(seg.data, a) /\ \A j \in Loads(elf) : ~Holds(elf[j], a)

(* Whatever the layout, as long as no two sections overlap or pass the end  *)
(* of the address space: code is fetched as it is in the file (readElf,     *)
(* Segment::fetch32).                                                       *)
Apart ==
  \A j, k \in Loads(elf) :
    /\ elf[j].addr + elf[j].size < AddrLen
    /\ j # k => \A a \in Addr : ~(Holds(elf[j], a) /\ Holds(elf[k], a))
FetchesFile ==
  phase = "running" /\ Opened /\ Apart =>
    \A j \in Loads(elf) : Part(elf[j]) = "text" =>
      \A d \in 0 .. elf[j].size-1 :
        LET a == elf[j].addr + d IN
        In(seg.text, a) /\ cells.text[Minus(a, seg.text.base)] = Byte(j, d)
=============================================================================
