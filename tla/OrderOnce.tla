----------------------------- MODULE OrderOnce -----------------------------
(***************************************************************************)
(* What an order_requests row promises to the owner of an idempotency id   *)
(* (client_order_id): under one id the exchange takes at most one market    *)
(* order; "done" with an executed quantity ("bought") is recorded only of   *)
(* an executed order, "done" without one ("accepted") only of an order the  *)
(* exchange has taken, which may execute later or never; once "failed" is   *)
(* recorded no order of the id ever executes.  An id may stay "in_progress" *)
(* or "unknown" for ever; its order may still be taken and execute then.    *)
(* A verdict is final.                                                      *)
(***************************************************************************)
CONSTANT Ids   (* client order ids of one user *)

VARIABLES
  status,      (* what the row of an id says, "none" while there is no row  *)
  taken,       (* ids of which the exchange has taken an order              *)
  executed,    (* those whose order has executed                            *)
  void         (* those whose order was closed without being executed       *)

Verdicts == {"bought", "accepted", "failed", "unknown"}
Statuses == {"none", "in_progress"} \cup Verdicts

OnceTypeOK ==
  /\ status \in [Ids -> Statuses]
  /\ taken \subseteq Ids /\ executed \subseteq taken /\ void \subseteq taken

Init ==
  /\ status = [c \in Ids |-> "none"]
  /\ taken = {} /\ executed = {} /\ void = {}

Claim(c) ==
  /\ status[c] = "none"
  /\ status' = [status EXCEPT ![c] = "in_progress"]
  /\ UNCHANGED <<taken, executed, void>>

(* The exchange takes an order, executes it, or closes it unexecuted.        *)
Take(c) ==
  /\ status[c] \in {"in_progress", "unknown"} /\ c \notin taken
  /\ taken' = taken \cup {c}
  /\ UNCHANGED <<status, executed, void>>

Execute(c) ==
  /\ status[c] \in {"in_progress", "unknown", "accepted"}
  /\ c \in taken \ (executed \cup void)
  /\ executed' = executed \cup {c}
  /\ UNCHANGED <<status, taken, void>>

Close(c) ==
  /\ c \in taken \ (executed \cup void)
  /\ void' = void \cup {c}
  /\ UNCHANGED <<status, taken, executed>>

Settle(c, v) ==
  /\ status[c] = "in_progress"
  /\ v = "bought"   => c \in executed
  /\ v = "accepted" => c \in taken
  /\ v = "failed"   => c \notin taken \/ c \in void
  /\ status' = [status EXCEPT ![c] = v]
  /\ UNCHANGED <<taken, executed, void>>

Next ==
  \E c \in Ids :
    \/ Claim(c) \/ Take(c) \/ Execute(c) \/ Close(c)
    \/ \E v \in Verdicts : Settle(c, v)

Spec == Init /\ [][Next]_<<status, taken, executed, void>>
=============================================================================
