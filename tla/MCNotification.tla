--------------------------- MODULE MCNotification ---------------------------
(* What a notification sets off: a push, and an autonomous paper trade.  The *)
(* two share no state, so each is explored with the other at rest.          *)
EXTENDS PushDelivery, AutoPaper

VARIABLE effect         (* which of the two moves; never changes            *)

BothVars == <<vars, autoVars, effect>>

NotificationInit == Init /\ AutoInit /\ effect \in {"push", "trade"}

NotificationNext ==
  \/ effect = "push" /\ Next /\ UNCHANGED <<autoVars, effect>>
  \/ effect = "trade" /\ AutoNext /\ UNCHANGED <<vars, effect>>

NotificationSpec ==
  NotificationInit /\ [][NotificationNext]_BothVars /\ Fairness /\ AutoFairness

(* Below the stop, at the entry, at the trigger, at a target, and so far     *)
(* above it that the trailing stop passes the target.                       *)
MCPrices == {-2, 0, 2, 3, 5}
MCUnset == -10
MCStopLoss == -1
MCSettings ==
  {[primary |-> "primary" \in on, lock |-> "lock" \in on, trailing |-> "trailing" \in on,
    cancel |-> "cancel" \in on, gap |-> 1] :
     on \in {{"primary"}, {"lock", "trailing"}, {"trailing", "cancel"}, {"primary", "trailing"}}}
=============================================================================
