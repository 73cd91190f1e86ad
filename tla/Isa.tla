--------------------------------- MODULE Isa --------------------------------
(***************************************************************************)
(* The machine the simulator stands for: every instruction is fetched from  *)
(* text and decoded when it executes.  There is no cache.  Branch targets   *)
(* and stores are arbitrary; a store reaches text only with DoCore.         *)
(***************************************************************************)
EXTENDS Code

CONSTANT DoCore   \* do_core: stores may write instruction memory

VARIABLES text, pc, alive,
          issued  \* the last instruction executed: {} or {an Issue}

vars == <<text, pc, alive, issued>>

Init ==
  /\ text \in Texts
  /\ pc \in Pc
  /\ alive = TRUE
  /\ issued = {}

(* An instruction executes; it may store up to two halfwords, anywhere.    *)
Execute(next, t) ==
  /\ alive
  /\ Fetch(text, pc) # NoCode
  /\ issued' = {[at |-> pc, op |-> Meaning(Fetch(text, pc)),
                 inc |-> Increment(text, pc)]}
  /\ pc' = next
  /\ text' = t
  /\ UNCHANGED alive

(* An interrupt takes the place of the instruction, which has no effect.    *)
Preempt(next) ==
  /\ alive
  /\ pc' = next
  /\ UNCHANGED <<text, alive, issued>>

(* The debugger writes memory between two runs.                             *)
Write(t) == text' = t /\ UNCHANGED <<pc, alive, issued>>

Halt == alive' = FALSE /\ UNCHANGED <<text, pc, issued>>

Stored == {text} \cup
  (IF DoCore
   THEN {[text EXCEPT ![a] = v, ![a+1] = w] : a \in 0 .. Span-1, v, w \in Half}
   ELSE {})

Next ==
  \/ \E next \in Pc : Preempt(next) \/ \E t \in Stored : Execute(next, t)
  \/ \E t \in Stored : Write(t)
  \/ Halt

Spec == Init /\ [][Next]_vars
=============================================================================
