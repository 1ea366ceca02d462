----------------------------- MODULE AutoPaper -----------------------------
(***************************************************************************)
(* The exits of the autonomous paper portfolio.  One loop manages the open   *)
(* trades (_manage_single_trade): it works on the rows as it listed them and *)
(* writes stops and targets one by one, while notifications raise targets    *)
(* and trades are closed by hand or by a reset.  How a trade is opened, and  *)
(* what its close does to the cash, is in PaperLedger.                       *)
(*                                                                          *)
(* Prices are levels relative to the entry of the trade (0).  Left out: exit *)
(* profiles other than the plan, the cooldowns that follow a close, and the   *)
(* row whose open straddles a reset, which no round lists (the violation of  *)
(* EveryOpenRowManaged in PaperLedger): opens are single steps here.         *)
(***************************************************************************)
EXTENDS Integers

CONSTANTS
  AutoIds,       (* bound: rows of auto_paper_trades                        *)
  Notifiers,     (* coroutines that handle a notification                   *)
  NoId,
  Prices,        (* price levels                                            *)
  Unset,         (* a stop or target that is NULL or 0: below every price    *)
  Asked,         (* targets notifications ask for                           *)
  Settings,      (* what an administrator may have set when a trade is managed *)
  StopLoss,      (* stop_loss                                               *)
  Even,                       (* where both commissions are earned          *)
  LockTrigger, LockFloor,     (* breakeven_trigger_pct; Even and a margin   *)
  TrailTrigger,               (* trailing_trigger_pct                       *)
  TimeStopAge, TimeStopGain,  (* AUTO_PAPER_TIME_STOP_MIN (0 = off), ..._PROFIT_PCT *)
  PlanAge,                    (* exit_at of a plan                          *)
  HoldAge,                    (* max_hold_minutes                           *)
  ForceAge                    (* max_hold_minutes * STALE_FORCE_CLOSE_FACTOR *)

(* primary: tp_primary_exit_enabled, lock: breakeven_enabled, trailing:      *)
(* trailing_enabled, cancel: tp_cancel_on_trail; gap: how far a stop follows *)
(* the peak, which also depends on the trade and on how close its target is. *)
Features == [primary : BOOLEAN, lock : BOOLEAN, trailing : BOOLEAN, cancel : BOOLEAN, gap : Nat]

ASSUME AutoLevels ==
  /\ Prices \subseteq Int /\ Asked \subseteq Int /\ 0 \in Prices
  /\ {Unset, StopLoss, Even, LockTrigger, LockFloor, TrailTrigger, TimeStopGain} \subseteq Int
  /\ \A p \in Prices : Unset < p
  /\ Settings \subseteq Features
ASSUME AutoAges == {TimeStopAge, PlanAge, HoldAge, ForceAge} \subseteq Nat /\ HoldAge \in 1..ForceAge
ASSUME AutoNames == NoId \notin AutoIds

VARIABLES
  held,          (* auto_paper_trades                                       *)
  manager,       (* auto_paper_management_loop                              *)
  notifier       (* where each notification is                              *)

autoVars == <<held, manager, notifier>>

(* off is tp_cancelled; lock and trail are breakeven_stop and trailing_stop, *)
(* which are Unset until their activated flag is written with them.          *)
Held == [status : {"none", "open", "closed"}, plan : BOOLEAN, tp : Int, off : BOOLEAN,
         peak : Prices, lock : Int, trail : Int, age : 0..ForceAge]

Blank == [status |-> "none", plan |-> FALSE, tp |-> Unset, off |-> FALSE,
          peak |-> 0, lock |-> Unset, trail |-> Unset, age |-> 0]

(* Of a closed trade nothing is read again here.                            *)
Closed == [Blank EXCEPT !.status = "closed"]

ExitReasons == {"none", "stale_force_close", "take_profit", "breakeven_stop", "stop_loss",
                "plan_exit", "time_stop", "max_duration", "trailing_stop"}

AllOff == [primary |-> FALSE, lock |-> FALSE, trailing |-> FALSE, cancel |-> FALSE, gap |-> 0]

(* todo: the rows as listed and not managed yet, Blank for the others; id,    *)
(* t, price and set: the trade being managed, as the coroutine knows it.     *)
Manager == [at : {"asleep", "round", "peak", "lock", "trail", "cancel", "target", "closing"},
            todo : [AutoIds -> Held], id : AutoIds \cup {NoId}, t : Held,
            price : Prices, set : Settings \cup {AllOff}, reason : ExitReasons]

NoTodo == [i \in AutoIds |-> Blank]

(* After a trade: the next of the round, or sleep.                          *)
NextTrade(todo) ==
  [at |-> IF todo = NoTodo THEN "asleep" ELSE "round", todo |-> todo, id |-> NoId, t |-> Blank,
   price |-> 0, set |-> AllOff, reason |-> "none"]

AutoTypeOK ==
  /\ held \in [AutoIds -> Held]
  /\ manager \in Manager
  /\ notifier \in [Notifiers -> [id : AutoIds \cup {NoId}, tp : Int]]
  /\ manager.at \in {"asleep", "round"} <=> manager.id = NoId

OpenTrades == {i \in AutoIds : held[i].status = "open"}

Higher(a, b) == IF a > b THEN a ELSE b

---------------------------------------------------------------------------
(* _manage_single_trade.  m is the manager inside it; each operator is the   *)
(* stretch of code up to the next write to the database.                     *)

Done(m) == NextTrade(m.todo)
Sell(m, reason) == [m EXCEPT !.at = "closing", !.reason = reason]

(* effective_stop_loss                                                      *)
Floored(t) == Higher(StopLoss, t.lock)
StopReason(t) == IF t.lock > StopLoss THEN "breakeven_stop" ELSE "stop_loss"

HasTarget(t) == ~t.off /\ t.tp # Unset

AfterTarget(m) == IF m.price <= m.t.trail THEN Sell(m, "trailing_stop") ELSE Done(m)

(* The target follows a trailing stop that has passed it.                   *)
AfterCancel(m) ==
  IF HasTarget(m.t) /\ m.t.trail > m.t.tp THEN [m EXCEPT !.at = "target"] ELSE AfterTarget(m)

AfterTrail(m) ==
  IF m.set.cancel /\ ~m.t.off THEN [m EXCEPT !.at = "cancel"] ELSE AfterCancel(m)

(* The stop of the first activation stays below the price.                  *)
TrailOf(m) ==
  LET wanted == m.t.peak - m.set.gap
  IN  Higher(m.t.trail,
        IF m.t.trail = Unset /\ wanted >= m.price THEN m.price - m.set.gap ELSE wanted)

AfterLock(m) ==
  IF ~m.set.trailing \/ m.t.plan \/ (m.t.trail = Unset /\ m.price < TrailTrigger) THEN Done(m)
  ELSE IF TrailOf(m) > m.t.trail THEN [m EXCEPT !.at = "trail", !.t.trail = TrailOf(m)]
  ELSE AfterTrail(m)

LockOf(m) == Higher(m.t.lock, Higher(LockFloor, m.t.peak - m.set.gap))

(* The breakeven stop; its own close is never reached, the stop was looked   *)
(* at with the same price just before.                                      *)
AfterPeak(m) ==
  IF m.price <= Floored(m.t) THEN Sell(m, StopReason(m.t))
  ELSE IF /\ m.set.lock /\ ~m.t.plan /\ m.price >= LockTrigger
          /\ m.t.lock < LockOf(m) /\ LockOf(m) < m.price
         THEN [m EXCEPT !.at = "lock", !.t.lock = LockOf(m)]
  ELSE AfterLock(m)

(* exit_advice "cik": the time of the plan is over and nothing is lost, or    *)
(* its grace is over as well.                                               *)
PlanOver(t, p) == t.plan /\ t.age >= PlanAge /\ (p >= Even \/ t.age >= HoldAge)

TimeStopped(t, p) == TimeStopAge > 0 /\ t.age >= TimeStopAge /\ p < TimeStopGain

(* What is decided before anything is written.                              *)
Decide(m) ==
  IF PlanOver(m.t, m.price)
    THEN Sell(m, IF HasTarget(m.t) /\ m.price >= m.t.tp THEN "take_profit"
                 ELSE IF m.price <= Floored(m.t) THEN StopReason(m.t) ELSE "plan_exit")
  ELSE IF TimeStopped(m.t, m.price) THEN Sell(m, "time_stop")
  ELSE IF m.t.age >= HoldAge THEN Sell(m, "max_duration")
  ELSE IF (m.set.primary \/ m.t.plan) /\ HasTarget(m.t) /\ m.price >= m.t.tp
    THEN Sell(m, "take_profit")
  ELSE IF m.price > m.t.peak THEN [m EXCEPT !.at = "peak", !.t.peak = m.price]
  ELSE AfterPeak(m)

Begun(i) == [NextTrade([manager.todo EXCEPT ![i] = Blank]) EXCEPT !.id = i, !.t = manager.todo[i]]

BeginAutoRound ==
  /\ manager.at = "asleep"
  /\ manager' = NextTrade([i \in AutoIds |-> IF i \in OpenTrades THEN held[i] ELSE Blank])
  /\ UNCHANGED <<held, notifier>>

(* A fresh price, of the stream or of REST.                                 *)
ManageTrade(i, p, s) ==
  /\ manager.at = "round" /\ manager.todo[i] # Blank
  /\ manager' = Decide([Begun(i) EXCEPT !.price = p, !.set = s])
  /\ UNCHANGED <<held, notifier>>

(* Mutant: a trade without a fresh price is left as it is.                  *)
AlwaysPostponed(m) == Done(m)

(* No fresh price: nothing is decided, but a trade that is long overdue is    *)
(* sold at the last price known.                                            *)
Postponed(m) == IF m.t.age >= ForceAge THEN Sell(m, "stale_force_close") ELSE Done(m)

ManageUnpriced(i) ==
  /\ manager.at = "round" /\ manager.todo[i] # Blank
  /\ manager' = Postponed(Begun(i))
  /\ UNCHANGED <<held, notifier>>

---------------------------------------------------------------------------
(* The writes.  Each is one UPDATE with a guard of its own; what the guard   *)
(* refused, the coroutine does not learn.                                   *)

Id == manager.id
IsOpen(i) == held[i].status = "open"

(* Mutant: the stop is stored in the place of the peak.                     *)
WriteStopAsPeak ==
  /\ manager.at = "peak"
  /\ held' = IF IsOpen(Id) /\ held[Id].peak < manager.t.peak
               THEN [held EXCEPT ![Id].peak = manager.t.peak - manager.set.gap] ELSE held
  /\ manager' = AfterPeak(manager)
  /\ UNCHANGED notifier

WritePeak ==
  /\ manager.at = "peak"
  /\ held' = IF IsOpen(Id) /\ held[Id].peak < manager.t.peak
               THEN [held EXCEPT ![Id].peak = manager.t.peak] ELSE held
  /\ manager' = AfterPeak(manager)
  /\ UNCHANGED notifier

WriteLock ==
  /\ manager.at = "lock"
  /\ held' = IF IsOpen(Id) /\ held[Id].lock <= manager.t.lock
               THEN [held EXCEPT ![Id].lock = manager.t.lock] ELSE held
  /\ manager' = AfterLock(manager)
  /\ UNCHANGED notifier

WriteTrail ==
  /\ manager.at = "trail"
  /\ held' = IF IsOpen(Id) /\ held[Id].trail <= manager.t.trail
               THEN [held EXCEPT ![Id].trail = manager.t.trail] ELSE held
  /\ manager' = AfterTrail(manager)
  /\ UNCHANGED notifier

(* An error of these three leaves the trade for this round.                 *)
WriteFails ==
  /\ manager.at \in {"peak", "lock", "trail"}
  /\ manager' = Done(manager)
  /\ UNCHANGED <<held, notifier>>

(* cancel_auto_paper_trade_tp; its error is caught, the round goes on as if. *)
WithoutTarget == [manager EXCEPT !.t.off = TRUE, !.t.tp = Unset]

CancelTarget ==
  /\ manager.at = "cancel"
  /\ held' = IF IsOpen(Id) THEN [held EXCEPT ![Id].tp = Unset, ![Id].off = TRUE] ELSE held
  /\ manager' = AfterCancel(WithoutTarget)
  /\ UNCHANGED notifier

CancelFails ==
  /\ manager.at = "cancel"
  /\ manager' = AfterCancel(WithoutTarget)
  /\ UNCHANGED <<held, notifier>>

(* Mutant: a target is written whether or not it was cancelled.              *)
SetTargetAnyway(i, tp) == IF IsOpen(i) THEN [held EXCEPT ![i].tp = tp] ELSE held

(* update_auto_paper_trade_tp                                               *)
SetTarget(i, tp) ==
  IF IsOpen(i) /\ ~held[i].off THEN [held EXCEPT ![i].tp = tp] ELSE held

FollowTrail ==
  /\ manager.at = "target"
  /\ held' = SetTarget(Id, manager.t.trail)
  /\ manager' = AfterTarget(manager)
  /\ UNCHANGED notifier

FollowFails ==
  /\ manager.at = "target"
  /\ manager' = AfterTarget(manager)
  /\ UNCHANGED <<held, notifier>>

---------------------------------------------------------------------------
(* _close_trade: a row that is no longer open is left as it is, and every     *)
(* error is caught: the next round will find the trade again.               *)

SellTrade ==
  /\ manager.at = "closing"
  /\ held' = IF IsOpen(Id) THEN [held EXCEPT ![Id] = Closed] ELSE held
  /\ manager' = Done(manager)
  /\ UNCHANGED notifier

SellFails ==
  /\ manager.at = "closing"
  /\ manager' = Done(manager)
  /\ UNCHANGED <<held, notifier>>

(* The endpoint of an administrator.                                        *)
ManualClose(i) ==
  /\ i \in OpenTrades
  /\ held' = [held EXCEPT ![i] = Closed]
  /\ UNCHANGED <<manager, notifier>>

ResetAll ==
  /\ OpenTrades # {}
  /\ held' = [i \in AutoIds |-> IF IsOpen(i) THEN Closed ELSE held[i]]
  /\ UNCHANGED <<manager, notifier>>

---------------------------------------------------------------------------
(* Notifications: one opens a trade, later ones may raise its target.        *)

OpenTrade(i, tp, plan) ==
  /\ held[i].status = "none"
  /\ held' = [held EXCEPT ![i] = [Blank EXCEPT !.status = "open", !.tp = tp, !.plan = plan]]
  /\ UNCHANGED <<manager, notifier>>

Unbusy == [id |-> NoId, tp |-> Unset]

(* _update_existing_trade, with the row as it was looked up much earlier.    *)
Notified(n, i, tp) ==
  /\ notifier[n].id = NoId /\ IsOpen(i)
  /\ ~held[i].plan /\ ~held[i].off /\ held[i].tp < tp
  /\ notifier' = [notifier EXCEPT ![n] = [id |-> i, tp |-> tp]]
  /\ UNCHANGED <<held, manager>>

RaiseTarget(n) ==
  /\ notifier[n].id # NoId
  /\ held' = SetTarget(notifier[n].id, notifier[n].tp)
  /\ notifier' = [notifier EXCEPT ![n] = Unbusy]
  /\ UNCHANGED manager

RaiseFails(n) ==
  /\ notifier[n].id # NoId
  /\ notifier' = [notifier EXCEPT ![n] = Unbusy]
  /\ UNCHANGED <<held, manager>>

---------------------------------------------------------------------------
AutoTimePasses ==
  /\ \E i \in OpenTrades : held[i].age < ForceAge
  /\ held' = [i \in AutoIds |-> IF IsOpen(i) /\ held[i].age < ForceAge
                                  THEN [held[i] EXCEPT !.age = @ + 1] ELSE held[i]]
  /\ UNCHANGED <<manager, notifier>>

AutoRestart ==
  /\ manager' = NextTrade(NoTodo)
  /\ notifier' = [n \in Notifiers |-> Unbusy]
  /\ UNCHANGED held

AutoInit ==
  /\ held = [i \in AutoIds |-> Blank]
  /\ manager = NextTrade(NoTodo)
  /\ notifier = [n \in Notifiers |-> Unbusy]

Managed(i) == ManageUnpriced(i) \/ \E p \in Prices, s \in Settings : ManageTrade(i, p, s)
EndWrite == WritePeak \/ WriteLock \/ WriteTrail \/ WriteFails \/ CancelTarget \/ CancelFails
            \/ FollowTrail \/ FollowFails
EndSale == SellTrade \/ SellFails

WithoutRestart ==
  \/ BeginAutoRound
  \/ \E i \in AutoIds : Managed(i) \/ ManualClose(i)
                         \/ \E tp \in Asked, plan \in BOOLEAN : OpenTrade(i, tp, plan)
  \/ EndWrite \/ EndSale \/ ResetAll
  \/ \E n \in Notifiers : RaiseTarget(n) \/ RaiseFails(n)
                           \/ \E i \in AutoIds, tp \in Asked : Notified(n, i, tp)
  \/ AutoTimePasses

AutoNext == WithoutRestart \/ AutoRestart

(* The loop keeps its rounds and its calls come back, time passes, and a     *)
(* sale that is tried again and again succeeds.  Nothing is assumed of       *)
(* prices, nor of any other write.                                          *)
AutoFairness ==
  /\ WF_autoVars(AutoTimePasses) /\ WF_autoVars(BeginAutoRound)
  /\ WF_autoVars(EndWrite) /\ WF_autoVars(EndSale)
  /\ \A i \in AutoIds : WF_autoVars(Managed(i)) /\ SF_autoVars(SellTrade /\ manager.id = i)

AutoSpec == AutoInit /\ [][AutoNext]_autoVars /\ AutoFairness

---------------------------------------------------------------------------
(* "DIRILMEME GARANTISI": once the trailing stop has taken over and the       *)
(* target was cancelled, no notification that looked at the trade before,    *)
(* no target that follows the stop and no restart brings a target back, and  *)
(* the trade is not sold at one.                                            *)
TargetStaysCancelled ==
  /\ \A i \in OpenTrades : held[i].off => held[i].tp = Unset
  /\ manager.at = "closing" /\ manager.reason = "take_profit" => ~held[manager.id].off

(* "pozisyon sonsuza dek acik kalamaz": every trade is closed in the end,     *)
(* also one whose price never comes back and whose other writes all fail,    *)
(* once the process is no longer restarted again and again.                 *)
EveryAutoTradeEnds ==
  <>[][WithoutRestart]_autoVars => \A i \in AutoIds : IsOpen(i) ~> ~IsOpen(i)
=============================================================================
