------------------------------ MODULE VliwCache -----------------------------
(***************************************************************************)
(* Fetch and decode as Cpu::run does them: the decoded instruction is kept  *)
(* in a slot of vliw_insn chosen by the low bits of pc>>1, with no tag, and *)
(* decode2vliw keeps what it decoded in vliw_hash_table, direct mapped by   *)
(* hash_it and tagged by the code.  Slots are never emptied; text can       *)
(* change under them when do_core lets stores reach it.                     *)
(*                                                                          *)
(* An odd pc (a jalr whose target has bit 0 set) is not modelled.           *)
(***************************************************************************)
EXTENDS Code

CONSTANTS Slots,   \* 0x200000: the length of vliw_insn
          Hashes,  \* the indices of vliw_hash_table
          HashIt,  \* hash_it: code -> index
          Empty,   \* VLIW_NONE: the slot holds nothing
          DoCore   \* do_core: stores may write instruction memory

ASSUME CacheAssumption ==
  /\ Slots \in Nat \ {0}
  /\ HashIt \in [Codes -> Hashes]
  /\ Empty \notin Vliws
  /\ DoCore \in BOOLEAN

VARIABLES
  text,     \* insnMem
  pc,       \* Cpu.pc>>1
  alive,    \* the process has not ended
  slots,    \* vliw_insn
  hash,     \* vliw_hash_table
  issued,   \* history: the last instruction executed
  fetched   \* history: the addresses looked up so far

vars == <<text, pc, alive, slots, hash, issued, fetched>>

Entries == [code : Codes \cup {NoCode}, vliw : Vliws \cup {Empty}]

TypeOK ==
  /\ text \in Texts
  /\ pc \in Pc
  /\ alive \in BOOLEAN
  /\ slots \in [0 .. Slots-1 -> Vliws \cup {Empty}]
  /\ hash \in [Hashes -> Entries]
  /\ issued \in SUBSET Issues
  /\ fetched \in SUBSET Pc

Init ==
  /\ text \in Texts
  /\ pc \in Pc
  /\ alive = TRUE
  /\ slots = [i \in 0 .. Slots-1 |-> Empty]
  /\ hash = [i \in Hashes |-> [code |-> NoCode, vliw |-> Empty]]
  /\ issued = {}
  /\ fetched = {}

-----------------------------------------------------------------------------
(* Mutant of SlotOf: a slot per 32 bit word.                                *)
SlotOfWord(p) == (p \div 2) % Slots

(* vliw_index&vliw_mask; vliw_mask is a power of 2 less one.                *)
SlotOf(p) == p % Slots

(* Mutant of Hit: the tag is not compared.                                  *)
HitBucket(code) == hash[HashIt[code]].code # NoCode

(* hash_lookup: the entry at the code's index, if it is the code's.         *)
Hit(code) == hash[HashIt[code]].code = code

(* Mutant of Decoded: the slot is not preset to a NOP.                      *)
DecodedRaw(code) == IF Hit(code) THEN hash[HashIt[code]].vliw ELSE Table[code]

(* decode2vliw: a copy of the hash entry, or a search of optable.           *)
Decoded(code) ==
  IF Hit(code) THEN hash[HashIt[code]].vliw ELSE Meaning(code)

(* Mutant of Hashed: a collision replaces the tag only.                     *)
HashedStale(code) ==
  IF Hit(code) \/ Table[code] = Unknown THEN hash
  ELSE [hash EXCEPT ![HashIt[code]].code = code]

(* Only a search that succeeded replaces the entry.                         *)
Hashed(code) ==
  IF Hit(code) \/ Table[code] = Unknown THEN hash
  ELSE [hash EXCEPT ![HashIt[code]] = [code |-> code, vliw |-> Table[code]]]

(* The slot of pc is filled the first time it is found empty; vlp is what   *)
(* it then holds.                                                           *)
Lookup(code) ==
  IF slots[SlotOf(pc)] = Empty
  THEN /\ slots' = [slots EXCEPT ![SlotOf(pc)] = Decoded(code)]
       /\ hash' = Hashed(code)
  ELSE UNCHANGED <<slots, hash>>

FetchOk == alive /\ Fetch(text, pc) # NoCode

(* What a store can do to text: nothing, or up to two halfwords change.     *)
Stored == {text} \cup
  (IF DoCore
   THEN {[text EXCEPT ![a] = v, ![a+1] = w] : a \in 0 .. Span-1, v, w \in Half}
   ELSE {})

(* The looked up instruction executes, and the next pc is its pc_inc, which *)
(* the fetched code decides, or its target.                                 *)
Execute(next, t) ==
  /\ FetchOk
  /\ Lookup(Fetch(text, pc))
  /\ fetched' = fetched \cup {pc}
  /\ issued' = {[at |-> pc, op |-> slots'[SlotOf(pc)],
                 inc |-> Increment(text, pc)]}
  /\ pc' = next
  /\ text' = t
  /\ UNCHANGED alive

(* An interrupt replaces the looked up instruction by a NOP.                *)
Preempt(next) ==
  /\ FetchOk
  /\ Lookup(Fetch(text, pc))
  /\ fetched' = fetched \cup {pc}
  /\ pc' = next
  /\ UNCHANGED <<text, alive, issued>>

(* "Unable to decompress": exit(1).                                         *)
Undecompressable ==
  /\ alive /\ Fetch(text, pc) = NoCode
  /\ alive' = FALSE
  /\ UNCHANGED <<text, pc, slots, hash, issued, fetched>>

(* The program stops, or the instruction is fatal.                          *)
Halt ==
  /\ FetchOk
  /\ Lookup(Fetch(text, pc))
  /\ fetched' = fetched \cup {pc}
  /\ alive' = FALSE
  /\ UNCHANGED <<text, pc, issued>>

(* debug_mode, "mem addr value", between two runs.                          *)
Write(t) ==
  /\ alive
  /\ text' = t
  /\ UNCHANGED <<pc, alive, slots, hash, issued, fetched>>

(* disasm_all decodes the text before it runs: into the hash table only.    *)
Disassemble(p) ==
  /\ alive /\ fetched = {}
  /\ text[p] \in Full
  /\ hash' = Hashed(Fetch(text, p))
  /\ UNCHANGED <<text, pc, alive, slots, issued, fetched>>

Next ==
  \/ \E next \in Pc : Preempt(next) \/ \E t \in Stored : Execute(next, t)
  \/ \E t \in Stored : Write(t)
  \/ \E p \in Pc : Disassemble(p)
  \/ Undecompressable
  \/ Halt

Spec == Init /\ [][Next]_vars

-----------------------------------------------------------------------------
(* A collision in the hash table replaces code and decoding together: an    *)
(* entry that answers for a code holds that code's decoding (hash_lookup,   *)
(* decode2vliw 371-374).                                                    *)
HashCoherent ==
  \A i \in Hashes :
    hash[i].code # NoCode => /\ hash[i].vliw = Table[hash[i].code]
                             /\ Table[hash[i].code] # Unknown

(* A slot holds the decoding of what text holds at every address that uses  *)
(* the slot: true while text is not written and fits into the cache.        *)
SlotCoherent ==
  \A p \in Pc :
    slots[SlotOf(p)] # Empty => /\ Fetch(text, p) # NoCode
                               /\ slots[SlotOf(p)] = Meaning(Fetch(text, p))

(* Only addresses that were looked up have a filled slot, as long as no two *)
(* addresses share one.                                                     *)
FilledWhenFetched == \A p \in Pc : slots[SlotOf(p)] # Empty => p \in fetched

(* What remains true when do_core lets a program (a loader, say) write its  *)
(* own text: code at an address that was never looked up before executes as *)
(* it is in memory now.                                                     *)
NewCodeSeen ==
  [][(issued' # issued /\ pc \notin fetched) =>
       issued' = {[at |-> pc, op |-> Meaning(Fetch(text, pc)),
                   inc |-> Increment(text, pc)]}]_vars

(* The caches are invisible: fetching through them is decoding every        *)
(* instruction anew.                                                        *)
Uncached == INSTANCE Isa
RunsText == Uncached!Spec

(* README.md:35, "All subsequent accesses to the instruction result in the  *)
(* direct execution of the VLIW instruction": the instruction's own, not    *)
(* that of an address 4MB below it (run, 125-131).                          *)
ExecutesItsOwn ==
  [][\A next \in Pc : Execute(next, text) =>
       \A i \in issued' : i.op = Meaning(Fetch(text, pc))]_vars

(* Cpu.cpp:239, the fatal "Illegal instruction": a code that optable does   *)
(* not know never executes (run, 129, drops the result of decode2vliw).     *)
UnknownNeverExecutes ==
  [][\A next \in Pc : Execute(next, text) => Table[Fetch(text, pc)] # Unknown]_vars
=============================================================================
