-------------------------------- MODULE Cpu ---------------------------------
(***************************************************************************)
(* The execution loop Cpu::run and the trap unit behind it: the cycle      *)
(* counter, the interrupt poll every 16 cycles, the fake timer, ecall,      *)
(* ebreak, mret, and the CSR writes that steer them; around it main, which  *)
(* runs a program once, and debug_mode, which runs it in pieces.            *)
(*                                                                          *)
(* One iteration of the loop is one action.  The guest program is           *)
(* arbitrary: at every iteration it may execute any instruction, and a      *)
(* register operand may hold any value.  General registers, memory and the  *)
(* CSRs that nothing reads back into control (mscratch, mtval, misa) are    *)
(* left out.  Guest jumps stay in Pc: fetch() checks no bound, and what an   *)
(* out-of-range pc reads is not modelled.                                   *)
(***************************************************************************)
EXTENDS Integers

CONSTANTS Pc,        \* the addresses of the guest's text the program reaches
          Zero,      \* address 0, the value of mtvec and mepc after reset()
          PhaseLen,  \* 16: interrupts are polled when cycle&0xf == 0xf
          TickLen,   \* 2^16: the timer fires when cycle&0xfffff == 0xfffff
          LowLen,    \* 2^12: bits 31..20, the rest of the lower half
          HighLen,   \* 2^32: the upper half of the 64 bit counter
          MaxRun,    \* bound: the largest count typed after "run"
          Debug,     \* main's debug_flag
          DoNewlib   \* do_newlib: ecall is a system call of the simulator

ASSUME PcAssumption == Zero \in Pc
ASSUME CycleAssumption ==
  /\ PhaseLen \in Nat \ {0}
  /\ TickLen  \in Nat \ {0}
  /\ LowLen   \in Nat \ {0}
  /\ HighLen  \in Nat \ {0}
ASSUME OptionAssumption ==
  MaxRun \in Nat /\ Debug \in BOOLEAN /\ DoNewlib \in BOOLEAN

VARIABLES
  mode,     \* "host": main or debug_mode has control; "run": in Cpu::run;
            \* "exit": the process has ended
  running,  \* Cpu.running
  n,        \* what is left of run(n)
  pc,       \* Cpu.pc
  cycle,    \* Cpu.cycle, split at the bits that the loop tests
  hart,     \* the CSRs of the trap unit
  service,  \* history: the interrupt whose handler still owns the saved state
  waited    \* history: iterations an interrupt has been deliverable in vain

vars == <<mode, running, n, pc, cycle, hart, service, waited>>

-----------------------------------------------------------------------------
Irqs    == {"MEI", "MTI"}            \* bits MEIE/MEIP and MTIE/MTIP
Status  == {"MIE", "MPIE"}           \* the bits of mstatus that are used
Causes  == {"reset", "ecall", "break"} \cup Irqs
Forever == -1                        \* run(-1): 2^64-1 iterations

Harts == [mstatus : SUBSET Status, mie : SUBSET Irqs, mip : SUBSET Irqs,
          mtvec : Pc, mepc : Pc, mcause : Causes]

(* The lower half of the counter (and of a value written to mcycle), digit  *)
(* by digit, and the whole counter.                                         *)
Words  == [low : 0 .. LowLen-1, tick : 0 .. TickLen-1, phase : 0 .. PhaseLen-1]
Cycles == [high : 0 .. HighLen-1, low : 0 .. LowLen-1,
           tick : 0 .. TickLen-1, phase : 0 .. PhaseLen-1]

Frames == [resume : Pc, cause : Irqs]

TypeOK ==
  /\ mode \in {"host", "run", "exit"}
  /\ running \in BOOLEAN
  /\ n \in {Forever} \cup 0 .. MaxRun
  /\ pc \in Pc
  /\ cycle \in Cycles
  /\ hart \in Harts
  /\ service \in SUBSET Frames
  /\ waited \in 0 .. PhaseLen

Reset == [mstatus |-> {}, mie |-> {}, mip |-> {},
          mtvec |-> Zero, mepc |-> Zero, mcause |-> "reset"]

CycleZero == [high |-> 0, low |-> 0, tick |-> 0, phase |-> 0]

(* reset() and start(entry) *)
Init ==
  /\ mode = "host"
  /\ running = FALSE
  /\ n = 0
  /\ pc \in Pc
  /\ cycle = CycleZero
  /\ hart = Reset
  /\ service = {}
  /\ waited = 0

-----------------------------------------------------------------------------
(* Mutant of Bump: a digit that runs out of range.                          *)
BumpNoWrap(digit, len, carry) == IF carry THEN digit + 1 ELSE digit

(* ++cycle: a 64 bit increment, carried from digit to digit.                *)
Bump(digit, len, carry) ==
  IF ~carry THEN digit ELSE IF digit = len - 1 THEN 0 ELSE digit + 1


Incr(c) ==
  LET carryTick == c.phase = PhaseLen - 1
      carryLow  == carryTick /\ c.tick = TickLen - 1
      carryHigh == carryLow /\ c.low = LowLen - 1
  IN  [high  |-> Bump(c.high, HighLen, carryHigh),
       low   |-> Bump(c.low, LowLen, carryLow),
       tick  |-> Bump(c.tick, TickLen, carryTick),
       phase |-> Bump(c.phase, PhaseLen, TRUE)]

(* Mutant of PollDue: a mask one bit too wide is never met by this digit.   *)
PollDueLate == cycle.phase = PhaseLen

(* (cycle&0xf) == 0xf and (cycle&0xfffff) == 0xfffff                        *)
PollDue == cycle.phase = PhaseLen - 1
TickDue == PollDue /\ cycle.tick = TickLen - 1

(* Interrupts that are pending and enabled, in mie and in mstatus.MIE.      *)
Deliverable(h) == IF "MIE" \in h.mstatus THEN h.mie \cap h.mip ELSE {}

(* Mutants of do_irq: MIE stays set; mepc is the vector, not the pc.        *)
do_irqKeepsMIE(h, i, at) ==
  IF i \in Deliverable(h)
  THEN [h EXCEPT !.mstatus = @ \cup {"MPIE"}, !.mepc = at, !.mcause = i] ELSE h

do_irqSavesVector(h, i, at) ==
  IF i \in Deliverable(h)
  THEN [h EXCEPT !.mstatus = {"MPIE"}, !.mepc = h.mtvec, !.mcause = i] ELSE h

(* do_external_irq and do_time_irq: take interrupt i, or change nothing.    *)
do_irq(h, i, at) ==
  IF i \in Deliverable(h)
  THEN [h EXCEPT !.mstatus = (@ \cup {"MPIE"}) \ {"MIE"},
                 !.mepc = at, !.mcause = i]
  ELSE h

(* Mutant of Poll: the timer is asked first.                                *)
PollTimerFirst(h, at) == do_irq(do_irq(h, "MTI", at), "MEI", at)

(* The poll, in the order of the code.                                      *)
Poll(h, at) == do_irq(do_irq(h, "MEI", at), "MTI", at)

(* Mutant of Ticked: mip = MTIP in place of mip |= MTIP.                    *)
TickedAssigns(h) == IF TickDue THEN [h EXCEPT !.mip = {"MTI"}] ELSE h

(* The fake timer sets MTIP after the poll and before the instruction.      *)
Ticked(h) == IF TickDue THEN [h EXCEPT !.mip = @ \cup {"MTI"}] ELSE h

(* ecall and ebreak: MPIE := MIE, and MIE stays as it is.                   *)
Exception(h, at, cause) ==
  [h EXCEPT !.mepc = at, !.mcause = cause,
            !.mstatus = IF "MIE" \in @ THEN @ \cup {"MPIE"} ELSE @ \ {"MPIE"}]

(* mret: MIE := MPIE, MPIE := 0.                                            *)
Restored(h) ==
  [h EXCEPT !.mstatus = IF "MPIE" \in @ THEN {"MIE"} ELSE {}]

(* The new value of a CSR after csrrw, csrrs or csrrc.                      *)
CsrTypes == {"W", "S", "C"}
Modified(type, old, imm) ==
  CASE type = "W" -> imm
    [] type = "S" -> old \cup imm
    [] type = "C" -> old \ imm

-----------------------------------------------------------------------------
Looping == mode = "run" /\ running /\ n # 0

AfterRun == IF Debug THEN "host" ELSE "exit"

(* The end of the loop body: pc = pc_next, ++cycle, and the test of stop,   *)
(* which only the iteration that ends can have set.                         *)
Advance(next, c) ==
  /\ pc' = next
  /\ cycle' = Incr(c)
  /\ n' = IF n = Forever THEN n ELSE n - 1

Continue == UNCHANGED <<mode, running>>
Stop     == mode' = AfterRun

(* History: the handler keeps or loses its saved state; how long something  *)
(* deliverable has been waiting in one run since the counter was last set   *)
(* (PhaseLen stands for any longer wait).                                   *)
Observe(owner, counting) ==
  /\ service' = owner
  /\ waited' = IF counting /\ Deliverable(hart) # {} /\ Deliverable(hart') # {}
               THEN IF waited < PhaseLen THEN waited + 1 ELSE waited
               ELSE 0

(* The poll takes an interrupt: the fetched instruction becomes a NOP.      *)
Interrupt ==
  /\ Looping /\ PollDue /\ Deliverable(hart) # {}
  /\ hart' = Ticked(Poll(hart, pc))
  /\ Advance(hart.mtvec, cycle) /\ Continue
  /\ service' = {[resume |-> pc, cause |-> Poll(hart, pc).mcause]}
  /\ waited' = 0

(* Otherwise the fetched instruction executes.                              *)
Executing == Looping /\ ~(PollDue /\ Deliverable(hart) # {})

(* Every instruction that leaves the trap unit alone: ALU, loads, stores,   *)
(* branches, sret, wfi, CSR accesses that write nothing (mcause, minstret,  *)
(* misa, ...), and system calls other than exit.                            *)
Plain(next) ==
  /\ Executing
  /\ hart' = Ticked(hart)
  /\ Advance(next, cycle) /\ Continue
  /\ Observe(service, TRUE)

Ecall ==
  /\ Executing /\ ~DoNewlib
  /\ hart' = Exception(Ticked(hart), pc, "ecall")
  /\ Advance(hart.mtvec, cycle) /\ Continue
  /\ Observe({}, TRUE)

Ebreak ==
  /\ Executing
  /\ hart' = Exception(Ticked(hart), pc, "break")
  /\ Advance(hart.mtvec, cycle) /\ Continue
  /\ Observe({}, TRUE)

Mret ==
  /\ Executing
  /\ hart' = Restored(Ticked(hart))
  /\ Advance(hart.mepc, cycle) /\ Continue
  /\ Observe({}, TRUE)

WriteMstatus(next, type, imm) ==
  /\ Executing
  /\ hart' = [Ticked(hart) EXCEPT !.mstatus = Modified(type, @, imm)]
  /\ Advance(next, cycle) /\ Continue
  /\ Observe(IF hart'.mstatus = {"MPIE"} THEN service ELSE {}, TRUE)

WriteMie(next, type, imm) ==
  /\ Executing
  /\ hart' = [Ticked(hart) EXCEPT !.mie = Modified(type, @, imm)]
  /\ Advance(next, cycle) /\ Continue
  /\ Observe(service, TRUE)

WriteMip(next, type, imm) ==
  /\ Executing
  /\ hart' = [Ticked(hart) EXCEPT !.mip = Modified(type, @, imm)]
  /\ Advance(next, cycle) /\ Continue
  /\ Observe(service, TRUE)

WriteMtvec(next, v) ==
  /\ Executing
  /\ hart' = [Ticked(hart) EXCEPT !.mtvec = v]
  /\ Advance(next, cycle) /\ Continue
  /\ Observe(service, TRUE)

WriteMepc(next, v) ==
  /\ Executing
  /\ hart' = [Ticked(hart) EXCEPT !.mepc = v]
  /\ Advance(next, cycle) /\ Continue
  /\ Observe({}, TRUE)

(* cycle = new_val: the upper half becomes zero.                            *)
SetLower(c, w) == [high |-> 0, low |-> w.low, tick |-> w.tick, phase |-> w.phase]

WriteMcycle(next, w) ==
  /\ Executing
  /\ hart' = Ticked(hart)
  /\ Advance(next, SetLower(cycle, w)) /\ Continue
  /\ Observe(service, FALSE)

(* cycle = new_val << 32: the lower half becomes zero.                      *)
WriteMcycleh(next, v) ==
  /\ Executing
  /\ hart' = Ticked(hart)
  /\ Advance(next, [CycleZero EXCEPT !.high = v]) /\ Continue
  /\ Observe(service, FALSE)

(* A store of CMD_POWER_OFF to the host port sets stop.                     *)
PowerOff(next) ==
  /\ Executing
  /\ hart' = Ticked(hart)
  /\ Advance(next, cycle) /\ Stop /\ UNCHANGED running
  /\ Observe(service, TRUE)

(* SYS_exit clears running and sets stop.                                   *)
SysExit(next) ==
  /\ Executing /\ DoNewlib
  /\ hart' = Ticked(hart)
  /\ Advance(next, cycle) /\ Stop /\ running' = FALSE
  /\ Observe(service, TRUE)

(* fatal() or exit(): an unknown operation, a bad address, a code that does *)
(* not decompress, a system call that is not handled.                       *)
Fatal ==
  /\ Looping
  /\ mode' = "exit"
  /\ UNCHANGED <<running, n, pc, cycle, hart, service, waited>>

-----------------------------------------------------------------------------
(* main or debug_mode calls run(k): the counter restarts at zero.           *)
BeginRun(k) ==
  /\ mode = "host"
  /\ k = Forever \/ Debug
  /\ mode' = "run" /\ running' = TRUE /\ n' = k
  /\ cycle' = CycleZero
  /\ waited' = 0
  /\ UNCHANGED <<pc, hart, service>>

(* The count is used up.                                                    *)
EndRun ==
  /\ mode = "run" /\ ~Looping
  /\ mode' = AfterRun
  /\ UNCHANGED <<running, n, pc, cycle, hart, service, waited>>

(* debug_mode: pc [addr]                                                    *)
SetPc(p) ==
  /\ mode = "host" /\ Debug
  /\ pc' = p
  /\ UNCHANGED <<mode, running, n, cycle, hart, service, waited>>

(* debug_mode: quit                                                         *)
Quit ==
  /\ mode = "host" /\ Debug
  /\ mode' = "exit"
  /\ UNCHANGED <<running, n, pc, cycle, hart, service, waited>>

-----------------------------------------------------------------------------
Trap == Interrupt \/ Ecall \/ Ebreak \/ Mret

CsrWrite(next) ==
  \/ \E type \in CsrTypes :
        \/ \E imm \in SUBSET Status : WriteMstatus(next, type, imm)
        \/ \E imm \in SUBSET Irqs : WriteMie(next, type, imm)
        \/ \E imm \in SUBSET Irqs : WriteMip(next, type, imm)
  \/ \E v \in Pc : WriteMtvec(next, v) \/ WriteMepc(next, v)

CounterWrite(next) ==
  \/ \E w \in Words : WriteMcycle(next, w)
  \/ \E v \in 0 .. HighLen-1 : WriteMcycleh(next, v)

Iteration ==
  \/ Trap
  \/ \E next \in Pc : \/ Plain(next)
                      \/ CsrWrite(next)
                      \/ CounterWrite(next)
                      \/ PowerOff(next)
                      \/ SysExit(next)
  \/ Fatal

Host ==
  \/ \E k \in {Forever} \cup 0 .. MaxRun : BeginRun(k)
  \/ \E p \in Pc : SetPc(p)
  \/ EndRun
  \/ Quit

Next == Iteration \/ Host

Spec == Init /\ [][Next]_vars

(* The loop never blocks: once in run() the host thread keeps iterating.    *)
FairSpec == Spec /\ WF_vars(Iteration \/ EndRun)
-----------------------------------------------------------------------------
(* While a handler still owns the saved state (it has not trapped, nor      *)
(* written mepc or mstatus), mepc and mcause are those of its interrupt and *)
(* interrupts are off with MPIE set: neither the poll nor the timer of a    *)
(* later iteration gets at them (do_external_irq, do_time_irq, mret).       *)
ServiceIntact ==
  \A f \in service : /\ hart.mepc = f.resume
                     /\ hart.mcause = f.cause
                     /\ hart.mstatus = {"MPIE"}

(* Polling every 16 cycles delays an interrupt by less than 16 iterations:  *)
(* in one run, with the counter left alone, a deliverable interrupt has     *)
(* waited no longer than the distance from the last poll (run, 145-165).    *)
WaitBounded == waited <= cycle.phase

(* The strengthening that makes the two above inductive.                    *)
Inv == TypeOK /\ ServiceIntact /\ WaitBounded

(* A handler that kept the saved state returns exactly to the instruction   *)
(* the interrupt suspended, with interrupts on again (mret), whatever       *)
(* happened between: mip, mie and mtvec writes, ticks, breaks in the run.   *)
MretResumes ==
  [][Mret => \A f \in service : pc' = f.resume /\ "MIE" \in hart'.mstatus]_vars

(* One poll takes one interrupt: the external one if both are deliverable,  *)
(* as the first do_irq turns MIE off before the second looks at it; the     *)
(* other stays pending for a later poll.                                    *)
ExternalFirst ==
  [][Interrupt => /\ hart'.mcause = IF "MEI" \in Deliverable(hart)
                                    THEN "MEI" ELSE "MTI"
                  /\ Deliverable(hart) \subseteq hart'.mip
                  /\ Deliverable(hart') = {}]_vars

(* Nothing but the guest acknowledges an interrupt, and no tick is lost: a  *)
(* bit of mip that is set or that the timer sets in this iteration is still *)
(* set after it unless the instruction itself wrote mip.                    *)
PendingSticky ==
  [][\/ /\ hart.mip \subseteq hart'.mip
        /\ Looping /\ TickDue /\ ~Fatal => "MTI" \in hart'.mip
     \/ \E p \in Pc, type \in CsrTypes, imm \in SUBSET Irqs :
           WriteMip(p, type, imm)]_vars

(* The interrupt unit keeps the promise of InterruptService.                *)
Service == INSTANCE InterruptService WITH Causes <- Irqs
KeepsPromise == Service!Spec

Waiting == mode = "run" /\ Deliverable(hart) # {}

CounterReset == (\E p \in Pc : CounterWrite(p))
                \/ \E k \in {Forever} \cup 0 .. MaxRun : BeginRun(k)

(* Unless the guest (or the debugger, by restarting the run) keeps setting  *)
(* the counter, an interrupt that stays deliverable is taken.               *)
InterruptServed == <>[][~CounterReset]_vars => (Waiting ~> ~Waiting)

=============================================================================
