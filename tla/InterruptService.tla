-------------------------- MODULE InterruptService --------------------------
(***************************************************************************)
(* What the interrupt unit of the simulator promises the guest program,    *)
(* with no cycle counter, no polling and no CSRs: a guest is suspended by   *)
(* one interrupt at a time, and returning from the handler resumes exactly  *)
(* the suspended instruction.  A guest that touches the saved state while   *)
(* it is in the handler (or traps again there) gives up that promise.       *)
(***************************************************************************)
CONSTANTS Pc, Causes

VARIABLES pc,       \* the guest's next instruction
          service   \* the interrupt in service: {} or {[resume, cause]}

vars == <<pc, service>>

Frames == [resume : Pc, cause : Causes]

Init == pc \in Pc /\ service = {}

(* The guest executes anything that neither traps nor returns. *)
Go(next) == pc' = next /\ UNCHANGED service

(* An interrupt suspends the guest: only when none is in service. *)
Enter(c, handler) ==
  /\ service = {}
  /\ service' = {[resume |-> pc, cause |-> c]}
  /\ pc' = handler

(* The handler returns to the instruction that was suspended. *)
Return ==
  \E f \in service : pc' = f.resume /\ service' = {}

(* The guest overwrites the saved state or traps inside the handler, or
   the user starts the guest somewhere else. *)
GiveUp(next) == pc' = next /\ service' = {}

Next == \E p \in Pc :
          \/ Go(p)
          \/ \E c \in Causes : Enter(c, p)
          \/ Return
          \/ service # {} /\ GiveUp(p)

Spec == Init /\ [][Next]_vars
=============================================================================
