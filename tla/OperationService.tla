-------------------------- MODULE OperationService --------------------------
(***************************************************************************)
(* What the control plane promises about long operations on camera nodes:  *)
(* while its journal is intact, at most one operation works on a node at a *)
(* time, an operation that works is on record as running, and what is on   *)
(* record as ended stays so until it is forgotten.                         *)
(***************************************************************************)
CONSTANTS Nodes, Ops

VARIABLES
    status,   \* per operation: none, running, succeeded, failed, ...
    busy,     \* per node: the operations that work on it
    intact    \* the journal was never damaged

Outcomes == {"succeeded", "failed", "interrupted"}

ServiceInit ==
    /\ status = [o \in Ops |-> "none"] /\ busy = [n \in Nodes |-> {}] /\ intact = TRUE

(* Old outcomes may be forgotten when a new operation is recorded.         *)
Starts(n, o) ==
    /\ status[o] = "none" /\ (intact => busy[n] = {})
    /\ busy' = [busy EXCEPT ![n] = @ \cup {o}]
    /\ \E F \in SUBSET {p \in Ops : status[p] \in Outcomes} :
         status' = [p \in Ops |-> IF p = o THEN "running"
                                  ELSE IF p \in F THEN "forgotten" ELSE status[p]]
    /\ UNCHANGED intact

Ends(n, o) ==
    /\ o \in busy[n] /\ busy' = [busy EXCEPT ![n] = @ \ {o}]
    /\ \/ /\ status[o] = "running"
          /\ \E s \in {"succeeded", "failed"} : status' = [status EXCEPT ![o] = s]
       \/ ~intact /\ UNCHANGED status
    /\ UNCHANGED intact

(* The process dies: nothing works any more, nothing is recorded.          *)
Dies == busy' = [n \in Nodes |-> {}] /\ UNCHANGED <<status, intact>>

Interrupts(o) ==
    /\ status[o] = "running" /\ \A n \in Nodes : o \notin busy[n]
    /\ status' = [status EXCEPT ![o] = "interrupted"] /\ UNCHANGED <<busy, intact>>

Damaged ==
    /\ intact' = FALSE /\ UNCHANGED busy
    /\ status' = [o \in Ops |-> IF status[o] = "none" THEN "none" ELSE "forgotten"]

ServiceNext ==
    \/ \E n \in Nodes, o \in Ops : Starts(n, o) \/ Ends(n, o)
    \/ \E o \in Ops : Interrupts(o)
    \/ Dies \/ Damaged

ServiceSpec == ServiceInit /\ [][ServiceNext]_<<status, busy, intact>>
=============================================================================
