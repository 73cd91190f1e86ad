--------------------------- MODULE VliwCacheProofs --------------------------
(***************************************************************************)
(* Proofs about the two caches of the decoder, for every encoding, every    *)
(* hash function and every size of text and caches.                         *)
(***************************************************************************)
EXTENDS VliwCache, TLAPS

(* The addresses of a program that fits have slots of their own.            *)
Fits == Span <= Slots

-----------------------------------------------------------------------------
(* fetch and decompression yield a 32 bit code or the table's 0.            *)
LEMMA FetchType ==
  ASSUME NEW t \in Texts, NEW p \in Pc
  PROVE  Fetch(t, p) \in Codes \cup {NoCode} /\ Increment(t, p) \in Nat
<1>1. p \in 0 .. Span /\ p+1 \in 0 .. Span /\ Span \in Nat
  BY CodeAssumption DEF Pc
<1>2. t[p] \in Half /\ t[p+1] \in Half
  BY <1>1 DEF Texts
<1>3. Increment(t, p) \in Nat
  BY <1>1 DEF Increment
<1>4. CASE t[p] \in Full
  BY <1>2, <1>3, <1>4 DEF Fetch, Codes
<1>5. CASE t[p] \notin Full
  BY <1>2, <1>3, <1>5, CodeAssumption DEF Fetch
<1> QED BY <1>4, <1>5

(* What executes for a code is always a decoded instruction.                *)
LEMMA MeaningType ==
  ASSUME NEW code \in Codes
  PROVE  Meaning(code) \in Vliws
BY CodeAssumption DEF Meaning

(* The masked index is inside vliw_insn.                                    *)
LEMMA SlotType == \A p \in Pc : SlotOf(p) \in 0 .. Slots-1
BY CodeAssumption, CacheAssumption DEF SlotOf, Pc

(* A program that fits has no two addresses in one slot.                    *)
LEMMA OwnSlot == Fits => \A p \in Pc : SlotOf(p) = p
BY CodeAssumption, CacheAssumption DEF Fits, SlotOf, Pc

-----------------------------------------------------------------------------
(* A hit answers what the search of optable would have.                     *)
LEMMA DecodedIsMeaning ==
  ASSUME TypeOK, HashCoherent, NEW code \in Codes
  PROVE  Decoded(code) = Meaning(code)
<1>1. HashIt[code] \in Hashes /\ code # NoCode
  BY CodeAssumption, CacheAssumption
<1>2. CASE Hit(code)
  BY <1>1, <1>2 DEF Hit, HashCoherent, Decoded, Meaning
<1>3. CASE ~Hit(code)
  BY <1>3 DEF Decoded
<1> QED BY <1>2, <1>3

(* Entering a decoding keeps every entry's code and decoding together.      *)
LEMMA HashedCoherent ==
  ASSUME TypeOK, HashCoherent, NEW code \in Codes, hash' = Hashed(code)
  PROVE  hash' \in [Hashes -> Entries] /\ HashCoherent'
<1>1. HashIt[code] \in Hashes /\ hash \in [Hashes -> Entries]
  BY CacheAssumption DEF TypeOK
<1>2. CASE Hit(code) \/ Table[code] = Unknown
  BY <1>1, <1>2 DEF Hashed, HashCoherent
<1>3. CASE ~(Hit(code) \/ Table[code] = Unknown)
  <2>1. hash' = [hash EXCEPT ![HashIt[code]] = [code |-> code, vliw |-> Table[code]]]
    BY <1>3 DEF Hashed
  <2>2. Table[code] \in Vliws /\ Table[code] # Unknown
    BY <1>3, CodeAssumption
  <2>3. [code |-> code, vliw |-> Table[code]] \in Entries
    BY <2>2 DEF Entries
  <2>4. hash' \in [Hashes -> Entries]
    BY <1>1, <2>1, <2>3
  <2>5. ASSUME NEW i \in Hashes, hash'[i].code # NoCode
        PROVE  hash'[i].vliw = Table[hash'[i].code] /\ Table[hash'[i].code] # Unknown
    <3>1. CASE i = HashIt[code]
      BY <1>1, <2>1, <2>2, <3>1
    <3>2. CASE i # HashIt[code]
      BY <1>1, <2>1, <2>5, <3>2 DEF HashCoherent
    <3> QED BY <3>1, <3>2
  <2> QED BY <2>4, <2>5 DEF HashCoherent
<1> QED BY <1>2, <1>3

(* What a look-up does to the caches.                                       *)
LEMMA LookupProperties ==
  ASSUME TypeOK, HashCoherent, FetchOk, Lookup(Fetch(text, pc))
  PROVE  /\ slots' \in [0 .. Slots-1 -> Vliws \cup {Empty}]
         /\ hash' \in [Hashes -> Entries] /\ HashCoherent'
         /\ slots'[SlotOf(pc)] \in Vliws
         /\ slots[SlotOf(pc)] = Empty => slots'[SlotOf(pc)] = Meaning(Fetch(text, pc))
         /\ slots[SlotOf(pc)] # Empty => slots'[SlotOf(pc)] = slots[SlotOf(pc)]
         /\ \A i \in 0 .. Slots-1 : i # SlotOf(pc) => slots'[i] = slots[i]
<1> DEFINE code == Fetch(text, pc)
<1>1. code \in Codes /\ SlotOf(pc) \in 0 .. Slots-1
  BY FetchType, SlotType DEF TypeOK, FetchOk
<1>2. Meaning(code) \in Vliws
  BY <1>1, MeaningType
<1>3. slots \in [0 .. Slots-1 -> Vliws \cup {Empty}] /\ hash \in [Hashes -> Entries]
  BY DEF TypeOK
<1>4. CASE slots[SlotOf(pc)] = Empty
  <2>1. slots' = [slots EXCEPT ![SlotOf(pc)] = Meaning(code)]
    BY <1>1, <1>4, DecodedIsMeaning DEF Lookup
  <2>2. hash' = Hashed(code)
    BY <1>4 DEF Lookup
  <2>3. hash' \in [Hashes -> Entries] /\ HashCoherent'
    BY <1>1, <2>2, HashedCoherent
  <2>4. Meaning(code) # Empty
    BY <1>2, CacheAssumption
  <2> QED BY <1>1, <1>2, <1>3, <1>4, <2>1, <2>3, <2>4
<1>5. CASE slots[SlotOf(pc)] # Empty
  <2>1. slots' = slots /\ hash' = hash
    BY <1>5 DEF Lookup
  <2>2. HashCoherent'
    BY <2>1 DEF HashCoherent
  <2> QED BY <1>1, <1>3, <1>5, <2>1, <2>2
<1> QED BY <1>4, <1>5

-----------------------------------------------------------------------------
(* Typing, and no hash collision ever answers with the decoding of another  *)
(* code, whatever is written to text.                                       *)
HashInv == TypeOK /\ HashCoherent

(* A store leaves halfwords in text.                                        *)
LEMMA StoredType == ASSUME TypeOK, NEW t \in Stored PROVE t \in Texts
BY DEF TypeOK, Stored, Texts

(* The inductive step, action by action.                                    *)
LEMMA HashInvStep == HashInv /\ [Next]_vars => HashInv'
<1> SUFFICES ASSUME HashInv, [Next]_vars PROVE HashInv'
  OBVIOUS
<1>0. TypeOK /\ HashCoherent
  BY DEF HashInv
<1>1. ASSUME NEW next \in Pc, NEW t \in Stored, Execute(next, t) PROVE HashInv'
  <2>1. FetchOk /\ Lookup(Fetch(text, pc))
    BY <1>1 DEF Execute
  <2>2. [at |-> pc, op |-> slots'[SlotOf(pc)], inc |-> Increment(text, pc)] \in Issues
    BY <1>0, <2>1, LookupProperties, FetchType DEF Issues, TypeOK
  <2>3. text' \in Texts
    BY <1>0, <1>1, StoredType DEF Execute
  <2> QED
    BY <1>0, <1>1, <2>1, <2>2, <2>3, LookupProperties DEF Execute, HashInv, TypeOK
<1>2. ASSUME NEW next \in Pc, Preempt(next) PROVE HashInv'
  BY <1>0, <1>2, LookupProperties DEF Preempt, HashInv, TypeOK
<1>3. CASE Halt
  BY <1>0, <1>3, LookupProperties DEF Halt, HashInv, TypeOK
<1>4. CASE Undecompressable
  BY <1>0, <1>4 DEF Undecompressable, HashInv, TypeOK, HashCoherent
<1>5. ASSUME NEW t \in Stored, Write(t) PROVE HashInv'
  BY <1>0, <1>5, StoredType DEF Write, HashInv, TypeOK, HashCoherent
<1>6. ASSUME NEW p \in Pc, Disassemble(p) PROVE HashInv'
  <2>1. Fetch(text, p) \in Codes
    <3>1. Fetch(text, p) \in Codes \cup {NoCode} /\ text \in Texts
      BY <1>0, FetchType DEF TypeOK
    <3>2. p \in 0 .. Span /\ p+1 \in 0 .. Span
      BY CodeAssumption DEF Pc
    <3> QED BY <1>6, <3>1, <3>2 DEF Disassemble, Fetch, Codes, Texts
  <2> QED BY <1>0, <1>6, <2>1, HashedCoherent DEF Disassemble, HashInv, TypeOK
<1>7. CASE UNCHANGED vars
  BY <1>0, <1>7 DEF vars, HashInv, TypeOK, HashCoherent
<1> QED BY <1>1, <1>2, <1>3, <1>4, <1>5, <1>6, <1>7 DEF Next

(* Typing and hash coherence together are invariant: for every encoding,    *)
(* every hash function and every sequence of fetches, stores and disassembly.*)
THEOREM HashInvariance == Spec => []HashInv
<1>1. Init => HashInv
  BY CacheAssumption DEF Init, HashInv, TypeOK, HashCoherent, Entries
<1> QED BY <1>1, HashInvStep, PTL DEF Spec

(* Every slot holds a decoded instruction or nothing, every hash entry a    *)
(* code of its encoding, whatever is fetched and stored.                    *)
THEOREM TypeCorrect == Spec => []TypeOK
BY HashInvariance, PTL DEF HashInv

(* The hash table stays coherent under every collision and every store.     *)
THEOREM HashStaysCoherent == Spec => []HashCoherent
BY HashInvariance, PTL DEF HashInv

-----------------------------------------------------------------------------
(* In a cache that no two addresses share, an address that was never looked *)
(* up has an empty slot, and so executes what text holds now.               *)
LEMMA FilledStep ==
  ASSUME Fits, HashInv, FilledWhenFetched, [Next]_vars
  PROVE  FilledWhenFetched'
<1>0. TypeOK /\ HashCoherent /\ pc \in Pc
  BY DEF HashInv, TypeOK
<1>1. \A p \in Pc : SlotOf(p) = p /\ p \in 0 .. Slots-1
  BY OwnSlot, SlotType
<1>2. ASSUME FetchOk, Lookup(Fetch(text, pc)), fetched' = fetched \cup {pc}
      PROVE  FilledWhenFetched'
  BY <1>0, <1>1, <1>2, LookupProperties DEF FilledWhenFetched, SlotOf
<1>3. ASSUME UNCHANGED <<slots, fetched>> PROVE FilledWhenFetched'
  BY <1>3 DEF FilledWhenFetched, SlotOf
<1> QED
  BY <1>2, <1>3
  DEF Next, vars, Execute, Preempt, Halt, Undecompressable, Write, Disassemble

(* Decoding ahead of execution does not happen: whatever a program stores   *)
(* into its text, only the instructions that were looked up fill a slot.    *)
THEOREM SlotsAreFetched == ASSUME Fits PROVE Spec => []FilledWhenFetched
<1>1. Init => FilledWhenFetched
  BY SlotType DEF Init, FilledWhenFetched
<1>2. HashInv /\ FilledWhenFetched /\ [Next]_vars => FilledWhenFetched'
  BY FilledStep
<1> QED BY <1>1, <1>2, HashInvariance, PTL DEF Spec

(* Code that a program writes before it first runs there is executed as     *)
(* written, with do_core as without it.                                     *)
THEOREM NewCodeIsSeen == ASSUME Fits PROVE Spec => NewCodeSeen
<1> DEFINE Seen == (issued' # issued /\ pc \notin fetched) =>
       issued' = {[at |-> pc, op |-> Meaning(Fetch(text, pc)),
                   inc |-> Increment(text, pc)]}
<1>3. HashInv /\ FilledWhenFetched /\ [Next]_vars => [Seen]_vars
  <2> SUFFICES ASSUME HashInv, FilledWhenFetched, Next, issued' # issued,
                      pc \notin fetched
               PROVE  issued' = {[at |-> pc, op |-> Meaning(Fetch(text, pc)),
                                  inc |-> Increment(text, pc)]}
    OBVIOUS
  <2>1. PICK next \in Pc, t \in Stored : Execute(next, t)
    BY DEF Next, Preempt, Halt, Undecompressable, Write, Disassemble
  <2>2. TypeOK /\ HashCoherent /\ slots[SlotOf(pc)] = Empty
    BY DEF HashInv, TypeOK, FilledWhenFetched
  <2>3. slots'[SlotOf(pc)] = Meaning(Fetch(text, pc))
    BY <2>1, <2>2, LookupProperties DEF Execute
  <2> QED BY <2>1, <2>3 DEF Execute
<1> QED BY <1>3, HashInvariance, SlotsAreFetched, PTL DEF Spec, NewCodeSeen

-----------------------------------------------------------------------------
(* With text that is never written, every slot agrees with text.            *)
LEMMA CoherentStep ==
  ASSUME Fits, ~DoCore, HashInv, SlotCoherent, [Next]_vars
  PROVE  SlotCoherent'
<1>0. TypeOK /\ HashCoherent /\ pc \in Pc
  BY DEF HashInv, TypeOK
<1>1. \A p \in Pc : SlotOf(p) = p /\ p \in 0 .. Slots-1
  BY OwnSlot, SlotType
<1>2. Stored = {text}
  BY DEF Stored
<1>3. ASSUME FetchOk, Lookup(Fetch(text, pc)), text' = text
      PROVE  SlotCoherent'
  BY <1>0, <1>1, <1>3, LookupProperties DEF SlotCoherent, SlotOf, FetchOk
<1>4. ASSUME UNCHANGED <<slots, text>> PROVE SlotCoherent'
  BY <1>4 DEF SlotCoherent, SlotOf
<1> QED
  BY <1>2, <1>3, <1>4
  DEF Next, vars, Execute, Preempt, Halt, Undecompressable, Write, Disassemble

(* In such a program every filled slot is the decoding of its instruction.  *)
THEOREM SlotsStayCoherent == ASSUME Fits, ~DoCore PROVE Spec => []SlotCoherent
<1>1. Init => SlotCoherent
  BY SlotType DEF Init, SlotCoherent
<1>2. HashInv /\ SlotCoherent /\ [Next]_vars => SlotCoherent'
  BY CoherentStep
<1> QED BY <1>1, <1>2, HashInvariance, PTL DEF Spec

(* Isa has the encoding of Code, as this module does.                       *)
LEMMA SameCode ==
  /\ Uncached!Pc = Pc /\ Uncached!Texts = Texts /\ Uncached!Stored = Stored
  /\ Uncached!Fetch(text, pc) = Fetch(text, pc)
  /\ Uncached!Increment(text, pc) = Increment(text, pc)
  /\ Uncached!Meaning(Fetch(text, pc)) = Meaning(Fetch(text, pc))
BY DEF Pc, Texts, Stored, Fetch, Increment, Meaning, Uncached!Pc,
       Uncached!Texts, Uncached!Stored, Uncached!Fetch, Uncached!Increment,
       Uncached!Meaning

(* The decoder's caches are invisible to a program that fits them and       *)
(* cannot write its text.                                                   *)
THEOREM Refinement == ASSUME Fits, ~DoCore PROVE Spec => RunsText
<1>1. Init => Uncached!Init
  BY SameCode DEF Init, Uncached!Init
<1>2. ASSUME HashInv, SlotCoherent, [Next]_vars
      PROVE  [Uncached!Next]_(Uncached!vars)
  <2>0. TypeOK /\ HashCoherent /\ pc \in Pc
    BY <1>2 DEF HashInv, TypeOK
  <2>1. ASSUME NEW next \in Pc, NEW t \in Stored, Execute(next, t)
        PROVE  Uncached!Next
    <3>1. slots'[SlotOf(pc)] = Meaning(Fetch(text, pc))
      BY <1>2, <2>0, <2>1, LookupProperties DEF Execute, SlotCoherent
    <3>2. Uncached!Execute(next, t)
      BY <2>1, <3>1, SameCode DEF Execute, FetchOk, Uncached!Execute
    <3> QED BY <2>1, <3>2, SameCode DEF Uncached!Next
  <2>2. ASSUME NEW next \in Pc, Preempt(next) PROVE Uncached!Next
    BY <2>2, SameCode DEF Preempt, FetchOk, Uncached!Next, Uncached!Preempt
  <2>3. CASE Halt \/ Undecompressable
    BY <2>3 DEF Halt, Undecompressable, Uncached!Next, Uncached!Halt
  <2>4. ASSUME NEW t \in Stored, Write(t) PROVE Uncached!Next
    BY <2>4, SameCode DEF Write, Uncached!Next, Uncached!Write
  <2>5. ASSUME NEW p \in Pc, Disassemble(p) PROVE UNCHANGED Uncached!vars
    BY <2>5 DEF Disassemble, Uncached!vars
  <2>6. CASE UNCHANGED vars
    BY <2>6 DEF vars, Uncached!vars
  <2> QED BY <1>2, <2>1, <2>2, <2>3, <2>4, <2>5, <2>6 DEF Next
<1> QED
  BY <1>1, <1>2, HashInvariance, SlotsStayCoherent, PTL
  DEF Spec, RunsText, Uncached!Spec
=============================================================================
