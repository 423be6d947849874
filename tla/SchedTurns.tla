----------------------------- MODULE SchedTurns -----------------------------
(***************************************************************************)
(* Sched with a history variable that records, for each READY thread,      *)
(* which threads have been switched to since it became READY: what         *)
(* schedule()'s walk of the ring promises about the order of turns.        *)
(***************************************************************************)
EXTENDS Sched

VARIABLE turns   \* turns[t]: the threads switched to while t has been READY

TurnsInit == Init /\ turns = [t \in Thread |-> {}]

TurnsNext ==
  /\ Next
  /\ turns' = [t \in Thread |->
       IF status[t] = "READY" /\ status'[t] = "READY"
         THEN IF cur' # cur THEN turns[t] \cup {cur'} ELSE turns[t]
         ELSE {}]

TurnsVars == <<vars, turns>>

TurnsSpec == TurnsInit /\ [][TurnsNext]_TurnsVars

(* Round robin: while a thread is READY no other thread is given the       *)
(* processor twice, although threads may be forked, woken and put to sleep *)
(* in the meantime.  So a READY thread waits for one turn of each other    *)
(* thread at most.                                                         *)
NoOvertaking ==
  [][\A t \in Thread :
       cur' # cur /\ status[t] = "READY" /\ status'[t] = "READY"
         => cur' \notin turns[t]]_TurnsVars
=============================================================================
