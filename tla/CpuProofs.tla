----------------------------- MODULE CpuProofs ------------------------------
(***************************************************************************)
(* Proofs about the execution loop, for every text, every length of the     *)
(* counter's digits and both settings of the options.                       *)
(***************************************************************************)
EXTENDS Cpu, TLAPS

-----------------------------------------------------------------------------
(* The counter: ++cycle stays in range, and the polled bits count up to the *)
(* poll and start again.                                                    *)
LEMMA IncrProperties ==
  ASSUME NEW c \in Cycles
  PROVE  /\ Incr(c) \in Cycles
         /\ c.phase = PhaseLen - 1 => Incr(c).phase = 0
         /\ c.phase # PhaseLen - 1 => Incr(c).phase = c.phase + 1
  BY CycleAssumption DEF Incr, Bump, Cycles

(* The timer changes mip only, and only by setting a bit.                   *)
LEMMA TickedProperties ==
  ASSUME NEW h \in Harts
  PROVE  /\ Ticked(h) \in Harts
         /\ h.mip \subseteq Ticked(h).mip
         /\ Ticked(h).mstatus = h.mstatus /\ Ticked(h).mie = h.mie
         /\ Ticked(h).mtvec = h.mtvec /\ Ticked(h).mepc = h.mepc
         /\ Ticked(h).mcause = h.mcause
  BY DEF Ticked, Harts, Irqs

(* The CSRs after interrupt i has been taken before the instruction at `at'.  *)
Taken(h, i, at) == [h EXCEPT !.mstatus = {"MPIE"}, !.mepc = at, !.mcause = i]

(* An interrupt that is taken turns interrupts off and saves where it came   *)
(* from (do_external_irq, do_time_irq); what is pending stays pending.       *)
LEMMA TakenProperties ==
  ASSUME NEW h \in Harts, NEW at \in Pc, NEW i \in Irqs
  PROVE  /\ Taken(h, i, at) \in Harts
         /\ Taken(h, i, at).mstatus = {"MPIE"}
         /\ Taken(h, i, at).mepc = at
         /\ Taken(h, i, at).mcause = i
         /\ Taken(h, i, at).mip = h.mip
<1>1. {"MPIE"} \in SUBSET Status /\ i \in Causes
  BY DEF Status, Causes
<1>2. Taken(h, i, at) \in Harts
  BY <1>1 DEF Harts, Taken
<1>3. /\ Taken(h, i, at).mstatus = {"MPIE"} /\ Taken(h, i, at).mepc = at
      /\ Taken(h, i, at).mcause = i /\ Taken(h, i, at).mip = h.mip
  BY DEF Harts, Taken
<1> QED BY <1>2, <1>3

(* A poll that finds something deliverable takes exactly one interrupt.     *)
LEMMA PollProperties ==
  ASSUME NEW h \in Harts, NEW at \in Pc, Deliverable(h) # {}
  PROVE  /\ Poll(h, at) \in Harts
         /\ Poll(h, at).mstatus = {"MPIE"}
         /\ Poll(h, at).mepc = at
         /\ Poll(h, at).mcause = IF "MEI" \in Deliverable(h) THEN "MEI" ELSE "MTI"
         /\ Poll(h, at).mcause \in Irqs
         /\ Poll(h, at).mip = h.mip
<1>1. Deliverable(h) \subseteq Irqs /\ Deliverable(h) = h.mie \cap h.mip
      /\ "MIE" \in h.mstatus
  BY DEF Deliverable, Harts
<1>2. (h.mstatus \cup {"MPIE"}) \ {"MIE"} = {"MPIE"}
  BY DEF Harts, Status
<1>3. ASSUME NEW i \in Deliverable(h)
      PROVE  do_irq(h, i, at) = Taken(h, i, at)
  BY <1>2 DEF do_irq, Taken
<1>4. CASE "MEI" \in Deliverable(h)
  <2>1. "MEI" \in Irqs
    BY DEF Irqs
  <2>2. Deliverable(Taken(h, "MEI", at)) = {}
    BY TakenProperties, <2>1 DEF Deliverable
  <2>3. Poll(h, at) = Taken(h, "MEI", at)
    BY <1>3, <1>4, <2>2 DEF Poll, do_irq
  <2> QED BY TakenProperties, <1>4, <2>1, <2>3
<1>5. CASE "MEI" \notin Deliverable(h)
  <2>1. "MTI" \in Deliverable(h) /\ "MTI" \in Irqs
    BY <1>1, <1>5 DEF Irqs
  <2>2. Poll(h, at) = Taken(h, "MTI", at)
    BY <1>3, <1>5, <2>1 DEF Poll, do_irq
  <2> QED BY TakenProperties, <1>5, <2>1, <2>2
<1> QED BY <1>4, <1>5

(* A CSR write of a bit set leaves a subset of the bits that are modelled.  *)
LEMMA ModifiedProperties ==
  ASSUME NEW S, NEW type \in CsrTypes, NEW old \in SUBSET S, NEW imm \in SUBSET S
  PROVE  Modified(type, old, imm) \in SUBSET S
  BY DEF Modified, CsrTypes

-----------------------------------------------------------------------------
(* The part of a loop iteration that all of its actions share.              *)
LEMMA AdvanceProperties ==
  ASSUME TypeOK, Looping, NEW next \in Pc, NEW c \in Cycles, Advance(next, c)
  PROVE  pc' \in Pc /\ cycle' \in Cycles /\ n' \in {Forever} \cup 0 .. MaxRun
<1>1. pc' \in Pc /\ cycle' \in Cycles
  BY IncrProperties DEF Advance
<1>2. n' \in {Forever} \cup 0 .. MaxRun
  BY OptionAssumption DEF Advance, TypeOK, Looping, Forever
<1> QED BY <1>1, <1>2

(* The bound on the wait survives an iteration that takes no interrupt.     *)
LEMMA WaitStep ==
  ASSUME TypeOK, WaitBounded, Executing, cycle' = Incr(cycle), 
         NEW s, Observe(s, TRUE)
  PROVE  waited' \in 0 .. PhaseLen /\ WaitBounded'
<1>1. cycle \in Cycles /\ waited \in 0 .. PhaseLen
  BY DEF TypeOK
<1>2. cycle.phase \in 0 .. PhaseLen-1 /\ cycle'.phase \in 0 .. PhaseLen-1
  BY <1>1, IncrProperties DEF Cycles
<1>3. CASE Deliverable(hart) = {}
  BY <1>2, <1>3, CycleAssumption DEF Observe, WaitBounded
<1>4. CASE Deliverable(hart) # {}
  <2>1. cycle.phase # PhaseLen - 1
    BY <1>4 DEF Executing, PollDue
  <2>2. cycle'.phase = cycle.phase + 1
    BY <1>1, <2>1, IncrProperties
  <2> QED BY <1>1, <1>2, <2>2, CycleAssumption DEF Observe, WaitBounded
<1> QED BY <1>3, <1>4

(* An iteration that executes an instruction keeps the invariant if it      *)
(* leaves the CSRs well typed, and the saved state alone as long as the     *)
(* handler goes on owning it.                                               *)
LEMMA ExecutingStep ==
  ASSUME Inv, Executing, NEW next \in Pc, NEW c \in Cycles, Advance(next, c),
         mode' \in {"host", "run", "exit"}, running' \in BOOLEAN,
         NEW owner \in SUBSET service, NEW counting \in BOOLEAN,
         Observe(owner, counting), counting => c = cycle,
         hart' \in Harts,
         owner # {} => /\ hart'.mepc = hart.mepc /\ hart'.mcause = hart.mcause
                       /\ hart'.mstatus = {"MPIE"}
  PROVE  Inv'
<1>1. TypeOK /\ ServiceIntact /\ WaitBounded /\ Looping
  BY DEF Inv, Executing
<1>2. pc' \in Pc /\ cycle' \in Cycles /\ n' \in {Forever} \cup 0 .. MaxRun
  BY <1>1, AdvanceProperties
<1>3. service' = owner /\ service' \in SUBSET Frames
  BY <1>1 DEF Observe, TypeOK
<1>4. ServiceIntact'
  BY <1>1, <1>3 DEF ServiceIntact
<1>5. waited' \in 0 .. PhaseLen /\ WaitBounded'
  <2>1. CASE counting
    BY <1>1, <2>1, WaitStep DEF Advance
  <2>2. CASE ~counting
    <3>1. waited' = 0
      BY <2>2 DEF Observe
    <3> QED BY <1>2, <3>1, CycleAssumption DEF WaitBounded, Cycles
  <2> QED BY <2>1, <2>2
<1> QED BY <1>2, <1>3, <1>4, <1>5 DEF Inv, TypeOK

(* The iteration in which the poll takes an interrupt.                      *)
LEMMA InterruptStep ==
  ASSUME Inv, Interrupt
  PROVE  Inv'
<1>1. TypeOK /\ Looping /\ Deliverable(hart) # {} /\ hart \in Harts /\ pc \in Pc
      /\ hart.mtvec \in Pc /\ cycle \in Cycles
  BY DEF Inv, Interrupt, TypeOK, Harts
<1> DEFINE h == Poll(hart, pc)
<1>2. /\ h \in Harts /\ h.mstatus = {"MPIE"} /\ h.mepc = pc /\ h.mcause \in Irqs
  BY <1>1, PollProperties
<1>3. hart' = Ticked(h) /\ service' = {[resume |-> pc, cause |-> h.mcause]}
      /\ waited' = 0 /\ Advance(hart.mtvec, cycle) /\ Continue
  BY DEF Interrupt
<1>4. /\ hart' \in Harts /\ hart'.mstatus = {"MPIE"} /\ hart'.mepc = pc
      /\ hart'.mcause = h.mcause
  BY <1>2, <1>3, TickedProperties
<1>5. pc' \in Pc /\ cycle' \in Cycles /\ n' \in {Forever} \cup 0 .. MaxRun
  BY <1>1, <1>3, AdvanceProperties
<1>6. TypeOK'
  BY <1>1, <1>2, <1>3, <1>4, <1>5, CycleAssumption DEF TypeOK, Frames, Continue
<1>7. ServiceIntact'
  BY <1>3, <1>4 DEF ServiceIntact
<1>8. WaitBounded'
  BY <1>3, <1>5, CycleAssumption DEF WaitBounded, Cycles
<1> QED BY <1>6, <1>7, <1>8 DEF Inv

-----------------------------------------------------------------------------
(* The invariant of the loop, action by action.                             *)
LEMMA InvStep == Inv /\ [Next]_vars => Inv'
<1> SUFFICES ASSUME Inv, [Next]_vars PROVE Inv'
  OBVIOUS
<1>0. TypeOK /\ ServiceIntact /\ WaitBounded
  BY DEF Inv
<1> DEFINE h == Ticked(hart)
<1>1. /\ hart \in Harts /\ h \in Harts /\ cycle \in Cycles /\ pc \in Pc
      /\ h.mepc = hart.mepc /\ h.mcause = hart.mcause /\ h.mstatus = hart.mstatus
      /\ hart.mtvec \in Pc /\ hart.mepc \in Pc
  BY <1>0, TickedProperties DEF TypeOK, Harts
<1>2. service # {} => hart.mstatus = {"MPIE"}
  BY <1>0 DEF ServiceIntact
<1>3. Continue => mode' \in {"host", "run", "exit"} /\ running' \in BOOLEAN
  BY <1>0 DEF TypeOK, Continue
<1>4. Stop => mode' \in {"host", "run", "exit"}
  BY DEF Stop, AfterRun
<1>5. CASE Interrupt
  BY <1>5, InterruptStep
<1>6. CASE Ecall
  <2>1. hart' = Exception(h, pc, "ecall") /\ hart' \in Harts
    BY <1>1, <1>6 DEF Ecall, Exception, Harts, Status, Causes
  <2> QED BY <1>1, <1>3, <1>6, <2>1, ExecutingStep DEF Ecall
<1>7. CASE Ebreak
  <2>1. hart' = Exception(h, pc, "break") /\ hart' \in Harts
    BY <1>1, <1>7 DEF Ebreak, Exception, Harts, Status, Causes
  <2> QED BY <1>1, <1>3, <1>7, <2>1, ExecutingStep DEF Ebreak
<1>8. CASE Mret
  <2>1. hart' = Restored(h) /\ hart' \in Harts
    BY <1>1, <1>8 DEF Mret, Restored, Harts, Status
  <2> QED BY <1>1, <1>3, <1>8, <2>1, ExecutingStep DEF Mret
<1>9. ASSUME NEW p \in Pc, Plain(p) PROVE Inv'
  BY <1>1, <1>2, <1>3, <1>9, ExecutingStep DEF Plain
<1>10. ASSUME NEW p \in Pc, NEW type \in CsrTypes, NEW imm \in SUBSET Status,
              WriteMstatus(p, type, imm)
       PROVE  Inv'
  <2>1. Modified(type, h.mstatus, imm) \in SUBSET Status
    BY <1>1, ModifiedProperties DEF Harts
  <2>2. hart' = [h EXCEPT !.mstatus = Modified(type, h.mstatus, imm)]
    BY <1>10 DEF WriteMstatus
  <2>3. hart' \in Harts /\ hart'.mepc = h.mepc /\ hart'.mcause = h.mcause
    BY <1>1, <2>1, <2>2 DEF Harts
  <2> QED BY <1>1, <1>3, <1>10, <2>3, ExecutingStep DEF WriteMstatus
<1>11. ASSUME NEW p \in Pc, NEW type \in CsrTypes, NEW imm \in SUBSET Irqs,
              WriteMie(p, type, imm)
       PROVE  Inv'
  <2>1. Modified(type, h.mie, imm) \in SUBSET Irqs
    BY <1>1, ModifiedProperties DEF Harts
  <2>2. hart' = [h EXCEPT !.mie = Modified(type, h.mie, imm)]
    BY <1>11 DEF WriteMie
  <2>3. hart' \in Harts /\ hart'.mepc = h.mepc /\ hart'.mcause = h.mcause
        /\ hart'.mstatus = h.mstatus
    BY <1>1, <2>1, <2>2 DEF Harts
  <2> QED BY <1>1, <1>2, <1>3, <1>11, <2>3, ExecutingStep DEF WriteMie
<1>12. ASSUME NEW p \in Pc, NEW type \in CsrTypes, NEW imm \in SUBSET Irqs,
              WriteMip(p, type, imm)
       PROVE  Inv'
  <2>1. Modified(type, h.mip, imm) \in SUBSET Irqs
    BY <1>1, ModifiedProperties DEF Harts
  <2>2. hart' = [h EXCEPT !.mip = Modified(type, h.mip, imm)]
    BY <1>12 DEF WriteMip
  <2>3. hart' \in Harts /\ hart'.mepc = h.mepc /\ hart'.mcause = h.mcause
        /\ hart'.mstatus = h.mstatus
    BY <1>1, <2>1, <2>2 DEF Harts
  <2> QED BY <1>1, <1>2, <1>3, <1>12, <2>3, ExecutingStep DEF WriteMip
<1>13. ASSUME NEW p \in Pc, NEW v \in Pc, WriteMtvec(p, v) PROVE Inv'
  <2>1. hart' \in Harts /\ hart'.mepc = h.mepc /\ hart'.mcause = h.mcause
        /\ hart'.mstatus = h.mstatus
    BY <1>1, <1>13 DEF WriteMtvec, Harts
  <2> QED BY <1>1, <1>2, <1>3, <1>13, <2>1, ExecutingStep DEF WriteMtvec
<1>14. ASSUME NEW p \in Pc, NEW v \in Pc, WriteMepc(p, v) PROVE Inv'
  <2>1. hart' \in Harts
    BY <1>1, <1>14 DEF WriteMepc, Harts
  <2> QED BY <1>1, <1>3, <1>14, <2>1, ExecutingStep DEF WriteMepc
<1>15. ASSUME NEW p \in Pc, NEW w \in Words, WriteMcycle(p, w) PROVE Inv'
  <2>1. SetLower(cycle, w) \in Cycles
    BY <1>1, CycleAssumption DEF SetLower, Words, Cycles
  <2> QED BY <1>1, <1>2, <1>3, <1>15, <2>1, ExecutingStep DEF WriteMcycle
<1>16. ASSUME NEW p \in Pc, NEW v \in 0 .. HighLen-1, WriteMcycleh(p, v) PROVE Inv'
  <2>1. [CycleZero EXCEPT !.high = v] \in Cycles
    BY CycleAssumption DEF CycleZero, Cycles
  <2> QED BY <1>1, <1>2, <1>3, <1>16, <2>1, ExecutingStep DEF WriteMcycleh
<1>17. ASSUME NEW p \in Pc, PowerOff(p) PROVE Inv'
  BY <1>0, <1>1, <1>2, <1>4, <1>17, ExecutingStep DEF PowerOff, TypeOK
<1>18. ASSUME NEW p \in Pc, SysExit(p) PROVE Inv'
  BY <1>1, <1>2, <1>4, <1>18, ExecutingStep DEF SysExit
<1>19. CASE Fatal
  BY <1>0, <1>19 DEF Fatal, Inv, TypeOK, ServiceIntact, WaitBounded
<1>20. ASSUME NEW k \in {Forever} \cup 0 .. MaxRun, BeginRun(k) PROVE Inv'
  <2>1. CycleZero \in Cycles /\ CycleZero.phase = 0
    BY CycleAssumption DEF CycleZero, Cycles
  <2> QED BY <1>0, <1>20, <2>1, CycleAssumption DEF BeginRun, Inv, TypeOK, ServiceIntact, WaitBounded
<1>21. ASSUME NEW p \in Pc, SetPc(p) PROVE Inv'
  BY <1>0, <1>21 DEF SetPc, Inv, TypeOK, ServiceIntact, WaitBounded
<1>22. CASE EndRun
  BY <1>0, <1>22 DEF EndRun, AfterRun, Inv, TypeOK, ServiceIntact, WaitBounded
<1>23. CASE Quit
  BY <1>0, <1>23 DEF Quit, Inv, TypeOK, ServiceIntact, WaitBounded
<1>24. CASE UNCHANGED vars
  BY <1>0, <1>24 DEF vars, Inv, TypeOK, ServiceIntact, WaitBounded
<1> QED
  BY <1>5, <1>6, <1>7, <1>8, <1>9, <1>10, <1>11, <1>12, <1>13, <1>14, <1>15,
     <1>16, <1>17, <1>18, <1>19, <1>20, <1>21, <1>22, <1>23, <1>24
  DEF Next, Iteration, Host, Trap, CsrWrite, CounterWrite

(* Typing, the intact saved state of an interrupt handler, and the bound on *)
(* the latency of an interrupt, for every program and every counter size.   *)
THEOREM Invariance == Spec => []Inv
<1>1. Init => Inv
  <2> SUFFICES ASSUME Init PROVE Inv
    OBVIOUS
  <2>1. Reset \in Harts
    BY PcAssumption DEF Reset, Harts, Causes
  <2>2. CycleZero \in Cycles /\ CycleZero.phase = 0
    BY CycleAssumption DEF CycleZero, Cycles
  <2>3. n \in {Forever} \cup 0 .. MaxRun
    BY OptionAssumption DEF Init
  <2>4. service \in SUBSET Frames /\ waited \in 0 .. PhaseLen
    BY CycleAssumption DEF Init
  <2>5. TypeOK
    BY <2>1, <2>2, <2>3, <2>4 DEF Init, TypeOK
  <2>6. ServiceIntact /\ WaitBounded
    BY <2>2 DEF Init, ServiceIntact, WaitBounded
  <2> QED BY <2>5, <2>6 DEF Inv
<1> QED BY <1>1, InvStep, PTL DEF Spec

(* The state of the loop and of the trap unit keeps its type under every    *)
(* instruction and every debugger command; in particular no carry of the    *)
(* counter leaves its digit's range.                                        *)
THEOREM TypeCorrect == Spec => []TypeOK
BY Invariance, PTL DEF Inv

(* An interrupt handler that leaves the saved state alone finds it as the   *)
(* interrupt left it, whatever the loop, the timer and the debugger do.     *)
THEOREM ServiceStaysIntact == Spec => []ServiceIntact
BY Invariance, PTL DEF Inv

(* No interrupt is kept waiting past the next poll.                         *)
THEOREM WaitStaysBounded == Spec => []WaitBounded
BY Invariance, PTL DEF Inv

-----------------------------------------------------------------------------
(* mret in a handler that kept the saved state resumes the suspended        *)
(* instruction with interrupts on.                                          *)
THEOREM ReturnIsPrecise == Spec => MretResumes
<1>1. ASSUME Inv, Mret, NEW f \in service
      PROVE  pc' = f.resume /\ "MIE" \in hart'.mstatus
  <2>1. hart \in Harts /\ hart.mepc = f.resume /\ hart.mstatus = {"MPIE"}
    BY <1>1 DEF Inv, TypeOK, ServiceIntact
  <2>2. Ticked(hart) \in Harts /\ Ticked(hart).mstatus = {"MPIE"}
    BY <2>1, TickedProperties
  <2>3. hart'.mstatus = {"MIE"}
    BY <1>1, <2>2 DEF Mret, Restored, Harts
  <2> QED BY <1>1, <2>1, <2>3 DEF Mret, Advance
<1>2. Inv => [Mret => \A f \in service :
                pc' = f.resume /\ "MIE" \in hart'.mstatus]_vars
  BY <1>1
<1> QED BY <1>2, Invariance, PTL DEF MretResumes

(* The poll takes the external interrupt before the timer's, one of them,   *)
(* and leaves the other pending.                                            *)
THEOREM PollTakesOne == Spec => ExternalFirst
<1> DEFINE OneTaken ==
      /\ hart'.mcause = IF "MEI" \in Deliverable(hart) THEN "MEI" ELSE "MTI"
      /\ Deliverable(hart) \subseteq hart'.mip
      /\ Deliverable(hart') = {}
<1>1. ASSUME Inv, Interrupt PROVE OneTaken
  <2>1. hart \in Harts /\ pc \in Pc /\ Deliverable(hart) # {}
    BY <1>1 DEF Inv, TypeOK, Interrupt
  <2> DEFINE h == Poll(hart, pc)
  <2>2. /\ h \in Harts /\ h.mstatus = {"MPIE"} /\ h.mip = hart.mip
        /\ h.mcause = IF "MEI" \in Deliverable(hart) THEN "MEI" ELSE "MTI"
    BY <2>1, PollProperties
  <2>3. hart' = Ticked(h)
    BY <1>1 DEF Interrupt
  <2>4. /\ hart'.mstatus = {"MPIE"} /\ hart'.mcause = h.mcause
        /\ hart.mip \subseteq hart'.mip
    BY <2>2, <2>3, TickedProperties
  <2>5. Deliverable(hart) \subseteq hart.mip
    BY DEF Deliverable
  <2>6. Deliverable(hart') = {}
    BY <2>4 DEF Deliverable
  <2> QED BY <2>2, <2>4, <2>5, <2>6
<1>2. Inv => [Interrupt => OneTaken]_vars
  BY <1>1
<1> QED BY <1>2, Invariance, PTL DEF ExternalFirst

(* Only a write to mip clears a pending bit, and every tick sets MTIP.      *)
THEOREM PendingStays == Spec => PendingSticky
<1> DEFINE Kept == /\ hart.mip \subseteq hart'.mip
                   /\ Looping /\ TickDue /\ ~Fatal => "MTI" \in hart'.mip
           Written == \E p \in Pc, type \in CsrTypes, imm \in SUBSET Irqs :
                        WriteMip(p, type, imm)
<1>1. ASSUME Inv, [Next]_vars PROVE [Kept \/ Written]_vars
  <2>0. hart \in Harts /\ pc \in Pc /\ Ticked(hart) \in Harts
    BY <1>1, TickedProperties DEF Inv, TypeOK
  <2>1. \A h \in Harts : /\ h.mip \subseteq Ticked(h).mip
                         /\ TickDue => "MTI" \in Ticked(h).mip
    BY DEF Ticked, Harts
  <2>2. ASSUME NEW h \in Harts, h.mip = hart.mip, hart'.mip = Ticked(h).mip PROVE Kept
    BY <2>1, <2>2
  <2>3. CASE Interrupt
    BY <2>0, <2>2, <2>3, PollProperties DEF Interrupt
  <2>4. CASE Ecall \/ Ebreak \/ Mret
    BY <2>0, <2>2, <2>4 DEF Ecall, Ebreak, Mret, Exception, Restored, Harts
  <2>5. ASSUME NEW p \in Pc, Plain(p) \/ PowerOff(p) \/ SysExit(p) \/ CounterWrite(p)
        PROVE  Kept
    BY <2>0, <2>2, <2>5
    DEF Plain, PowerOff, SysExit, CounterWrite, WriteMcycle, WriteMcycleh
  <2>6. ASSUME NEW p \in Pc, CsrWrite(p) PROVE Kept \/ Written
    <3>1. CASE Written
      BY <3>1
    <3>2. CASE ~Written
      BY <2>0, <2>2, <2>6, <3>2
      DEF CsrWrite, WriteMstatus, WriteMie, WriteMtvec, WriteMepc, Harts
    <3> QED BY <3>1, <3>2
  <2>7. CASE Fatal
    BY <2>7 DEF Fatal
  <2>8. ASSUME Host PROVE Kept
    BY <2>8 DEF Host, BeginRun, SetPc, EndRun, Quit, Looping
  <2> QED
    BY <1>1, <2>3, <2>4, <2>5, <2>6, <2>7, <2>8 DEF Next, Iteration, Trap
<1> QED BY <1>1, Invariance, PTL DEF Spec, PendingSticky

-----------------------------------------------------------------------------
(* The loop keeps the promise of InterruptService: one interrupt in service *)
(* at a time, entered at the suspended instruction and left to it.          *)
THEOREM Refinement == Spec => KeepsPromise
<1>1. Init => Service!Init
  BY DEF Init, Service!Init
<1>2. ASSUME Inv, [Next]_vars PROVE [Service!Next]_(Service!vars)
  <2>0. TypeOK /\ ServiceIntact /\ hart \in Harts /\ hart.mtvec \in Pc
        /\ hart.mepc \in Pc
    BY <1>2 DEF Inv, TypeOK, Harts
  <2>1. CASE Interrupt
    <3>1. "MIE" \in hart.mstatus /\ service = {}
      BY <2>0, <2>1 DEF Interrupt, Deliverable, ServiceIntact
    <3>2. Poll(hart, pc).mcause \in Irqs
      BY <2>0, <2>1, PollProperties DEF Interrupt, TypeOK
    <3>3. Service!Enter(Poll(hart, pc).mcause, hart.mtvec)
      BY <2>1, <3>1 DEF Interrupt, Advance, Service!Enter
    <3> QED BY <2>0, <3>2, <3>3 DEF Service!Next
  <2>2. CASE Mret
    <3>1. pc' = hart.mepc /\ service' = {}
      BY <2>2 DEF Mret, Advance, Observe
    <3>2. CASE service = {}
      BY <2>0, <3>1, <3>2 DEF Service!Next, Service!Go
    <3>3. CASE service # {}
      BY <2>0, <3>1, <3>3 DEF Service!Next, Service!Return, ServiceIntact
    <3> QED BY <3>2, <3>3
  <2>3. ASSUME NEW p \in Pc, pc' = p, service' \in {service, {}}
        PROVE  Service!Next
    BY <2>3 DEF Service!Next, Service!Go, Service!GiveUp
  <2>4. CASE Ecall \/ Ebreak
    BY <2>0, <2>3, <2>4 DEF Ecall, Ebreak, Advance, Observe
  <2>5. ASSUME NEW p \in Pc, Plain(p) \/ PowerOff(p) \/ SysExit(p)
        PROVE  Service!Next
    BY <2>3, <2>5 DEF Plain, PowerOff, SysExit, Advance, Observe
  <2>6. ASSUME NEW p \in Pc, CsrWrite(p) PROVE Service!Next
    BY <2>3, <2>6 DEF CsrWrite, WriteMstatus, WriteMie, WriteMip, WriteMtvec,
                      WriteMepc, Advance, Observe
  <2>7. ASSUME NEW p \in Pc, CounterWrite(p) PROVE Service!Next
    BY <2>3, <2>7 DEF CounterWrite, WriteMcycle, WriteMcycleh, Advance, Observe
  <2>8. ASSUME NEW p \in Pc, SetPc(p) PROVE Service!Next
    BY <2>3, <2>8 DEF SetPc
  <2>9. ASSUME Fatal \/ EndRun \/ Quit \/ (\E k \in {Forever} \cup 0 .. MaxRun : BeginRun(k))
        PROVE  UNCHANGED Service!vars
    BY <2>9 DEF Fatal, EndRun, Quit, BeginRun, Service!vars
  <2>10. CASE UNCHANGED vars
    BY <2>10 DEF vars, Service!vars
  <2> QED
    BY <1>2, <2>1, <2>2, <2>4, <2>5, <2>6, <2>7, <2>8, <2>9, <2>10
    DEF Next, Iteration, Host, Trap
<1> QED BY <1>1, <1>2, Invariance, PTL DEF Spec, KeepsPromise, Service!Spec
=============================================================================
