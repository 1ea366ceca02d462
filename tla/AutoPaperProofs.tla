-------------------------- MODULE AutoPaperProofs --------------------------
(***************************************************************************)
(* Proofs about AutoPaper for any trades, notifications, settings and price  *)
(* levels.  A target is cancelled only by the loop, and only for the trade   *)
(* it is managing: so nothing the loop still has to do, and nothing it       *)
(* knows of a trade, can say that a cancelled target is there.              *)
(***************************************************************************)
EXTENDS AutoPaper, TLAPS

(* The cancelled flag of a row is known to whoever manages the trade next.   *)
TodoKnows == \A i \in AutoIds : held[i].off => manager.todo[i] = Blank \/ manager.todo[i].off

ManagerKnows ==
  manager.id # NoId =>
    /\ manager.todo[manager.id] = Blank
    /\ held[manager.id].off => manager.t.off
    /\ manager.at = "closing" /\ manager.reason = "take_profit" => ~manager.t.off

OffHasNone == \A i \in AutoIds : held[i].off => held[i].tp = Unset

AutoInv == AutoTypeOK /\ TodoKnows /\ ManagerKnows /\ OffHasNone

Busy == {m \in Manager : m.id \in AutoIds}

(* What a stretch of _manage_single_trade may do to the manager m.          *)
Advances(m, n) ==
  /\ n \in Manager /\ n.todo = m.todo
  /\ \/ n.at \in {"asleep", "round"} /\ n.id = NoId
     \/ /\ n.at \notin {"asleep", "round"} /\ n.id = m.id /\ n.t.off = m.t.off
        /\ n.at = "closing" /\ n.reason = "take_profit" => ~m.t.off
---------------------------------------------------------------------------
(* Records.                                                                  *)

LEMMA Values ==
  /\ Prices \subseteq Int /\ 0 \in Prices /\ Asked \subseteq Int /\ NoId \notin AutoIds
  /\ Unset \in Int /\ StopLoss \in Int /\ LockFloor \in Int /\ ForceAge \in Nat
  /\ Blank \in Held /\ Closed \in Held /\ ~Blank.off /\ ~Closed.off
  /\ Blank.status = "none"
<1>1. Unset \in Int /\ StopLoss \in Int /\ LockFloor \in Int
  BY AutoLevels
<1>2. ForceAge \in Nat /\ 0 \in 0..ForceAge
  BY AutoAges
<1>3. Blank \in Held /\ Closed \in Held
  BY <1>1, <1>2, AutoLevels DEF Held, Blank, Closed
<1>4. ~Blank.off /\ ~Closed.off /\ Blank.status = "none"
  BY DEF Blank, Closed
<1>5. QED
  BY <1>1, <1>2, <1>3, <1>4, AutoLevels, AutoNames

LEMMA NextTradeIs ==
  ASSUME NEW todo \in [AutoIds -> Held]
  PROVE  /\ NextTrade(todo) \in Manager /\ NextTrade(todo).id = NoId
         /\ NextTrade(todo).todo = todo /\ NextTrade(todo).at \in {"asleep", "round"}
BY Values DEF NextTrade, Manager, ExitReasons

LEMMA Gap ==
  ASSUME NEW m \in Manager PROVE m.set.gap \in Nat
<1>1. m.set \in Settings \cup {AllOff}
  BY DEF Manager
<1>2. \A s \in Settings : s.gap \in Nat
  BY AutoLevels DEF Features
<1>3. QED
  BY <1>1, <1>2 DEF AllOff

LEMMA HeldFields ==
  ASSUME NEW t \in Held
  PROVE  /\ t.lock \in Int /\ t.trail \in Int /\ t.tp \in Int /\ t.peak \in Prices
         /\ \A p \in Prices : [t EXCEPT !.peak = p] \in Held /\ [t EXCEPT !.peak = p].off = t.off
         /\ \A n \in Int : [t EXCEPT !.lock = n] \in Held /\ [t EXCEPT !.lock = n].off = t.off
         /\ \A n \in Int : [t EXCEPT !.trail = n] \in Held /\ [t EXCEPT !.trail = n].off = t.off
         /\ \A n \in Int : [t EXCEPT !.tp = n] \in Held /\ [t EXCEPT !.tp = n].off = t.off
BY DEF Held

---------------------------------------------------------------------------
(* The stretches of code between two writes.                                 *)

LEMMA DoneAdvances == ASSUME NEW m \in Busy PROVE Advances(m, Done(m))
<1>1. m.todo \in [AutoIds -> Held]
  BY DEF Busy, Manager
<1>2. QED
  BY <1>1, NextTradeIs DEF Done, Advances

LEMMA SellAdvances ==
  ASSUME NEW m \in Busy, NEW r \in ExitReasons, r = "take_profit" => ~m.t.off
  PROVE  Advances(m, Sell(m, r))
BY DEF Busy, Manager, Sell, Advances

LEMMA GoesTo ==
  ASSUME NEW m \in Busy, NEW a \in {"cancel", "target"}
  PROVE  Advances(m, [m EXCEPT !.at = a])
BY DEF Busy, Manager, Advances

(* With a new peak, lock or trail in hand.                                   *)
LEMMA Writes ==
  ASSUME NEW m \in Busy, NEW t \in Held, t.off = m.t.off, NEW a \in {"peak", "lock", "trail"},
         NEW n, n = [m EXCEPT !.at = a, !.t = t]
  PROVE  Advances(m, n)
BY DEF Busy, Manager, Advances

LEMMA AfterTargetAdvances == ASSUME NEW m \in Busy PROVE Advances(m, AfterTarget(m))
BY DoneAdvances, SellAdvances DEF AfterTarget, ExitReasons

LEMMA AfterCancelAdvances == ASSUME NEW m \in Busy PROVE Advances(m, AfterCancel(m))
BY GoesTo, AfterTargetAdvances DEF AfterCancel

LEMMA AfterTrailAdvances == ASSUME NEW m \in Busy PROVE Advances(m, AfterTrail(m))
BY GoesTo, AfterCancelAdvances DEF AfterTrail

LEMMA BusyFields ==
  ASSUME NEW m \in Busy
  PROVE  m \in Manager /\ m.t \in Held /\ m.price \in Int /\ m.price \in Prices /\ m.set.gap \in Int
<1>1. m \in Manager
  BY DEF Busy
<1>2. m.t \in Held /\ m.price \in Prices
  BY <1>1 DEF Manager
<1>3. m.set.gap \in Int
  BY <1>1, Gap
<1>4. QED
  BY <1>1, <1>2, <1>3, AutoLevels

LEMMA AfterLockAdvances == ASSUME NEW m \in Busy PROVE Advances(m, AfterLock(m))
<1>1. TrailOf(m) \in Int
  BY BusyFields, HeldFields, Values DEF TrailOf, Higher
<1>2. Advances(m, [m EXCEPT !.at = "trail", !.t.trail = TrailOf(m)])
  <2>1. [m EXCEPT !.at = "trail", !.t.trail = TrailOf(m)]
          = [m EXCEPT !.at = "trail", !.t = [m.t EXCEPT !.trail = TrailOf(m)]]
    BY DEF Busy, Manager
  <2>2. QED
    BY <1>1, <2>1, Writes, BusyFields, HeldFields
<1>3. QED
  BY <1>2, DoneAdvances, AfterTrailAdvances DEF AfterLock

LEMMA AfterPeakAdvances == ASSUME NEW m \in Busy PROVE Advances(m, AfterPeak(m))
<1>1. LockOf(m) \in Int
  BY BusyFields, HeldFields, Values DEF LockOf, Higher
<1>2. Advances(m, [m EXCEPT !.at = "lock", !.t.lock = LockOf(m)])
  <2>1. [m EXCEPT !.at = "lock", !.t.lock = LockOf(m)]
          = [m EXCEPT !.at = "lock", !.t = [m.t EXCEPT !.lock = LockOf(m)]]
    BY DEF Busy, Manager
  <2>2. QED
    BY <1>1, <2>1, Writes, BusyFields, HeldFields
<1>3. Advances(m, Sell(m, StopReason(m.t)))
  BY SellAdvances DEF StopReason, ExitReasons
<1>4. QED
  BY <1>2, <1>3, AfterLockAdvances DEF AfterPeak

LEMMA DecideAdvances == ASSUME NEW m \in Busy PROVE Advances(m, Decide(m))
<1>1. Advances(m, [m EXCEPT !.at = "peak", !.t.peak = m.price])
  <2>1. [m EXCEPT !.at = "peak", !.t.peak = m.price]
          = [m EXCEPT !.at = "peak", !.t = [m.t EXCEPT !.peak = m.price]]
    BY DEF Busy, Manager
  <2>2. QED
    BY <2>1, Writes, BusyFields, HeldFields
<1>2. \A r \in {"plan_exit", "time_stop", "max_duration"} : Advances(m, Sell(m, r))
  BY SellAdvances DEF ExitReasons
<1>3. Advances(m, Sell(m, StopReason(m.t)))
  BY SellAdvances DEF StopReason, ExitReasons
<1>4. HasTarget(m.t) => Advances(m, Sell(m, "take_profit"))
  BY SellAdvances DEF HasTarget, ExitReasons
<1>5. QED
  BY <1>1, <1>2, <1>3, <1>4, AfterPeakAdvances DEF Decide

LEMMA PostponedAdvances == ASSUME NEW m \in Busy PROVE Advances(m, Postponed(m))
BY DoneAdvances, SellAdvances DEF Postponed, ExitReasons
---------------------------------------------------------------------------
(* Steps of the loop.  m is what the manager was before the stretch; of the   *)
(* rows only that of m may have lost its target, and m then knows.           *)

LEMMA LoopStep ==
  ASSUME AutoInv, NEW m \in Busy, Advances(m, manager'),
         m.todo[m.id] = Blank, held'[m.id].off => m.t.off,
         \A i \in AutoIds \ {m.id} :
           /\ m.todo[i] = manager.todo[i]
           /\ held'[i].off => held[i].off
  PROVE  TodoKnows' /\ ManagerKnows'
<1>1. TodoKnows'
  BY DEF AutoInv, TodoKnows, Advances
<1>2. ManagerKnows'
  BY Values DEF Advances, ManagerKnows, Busy
<1>3. QED
  BY <1>1, <1>2

LEMMA LoopTypes ==
  ASSUME AutoInv, NEW m \in Busy, Advances(m, manager'), held' \in [AutoIds -> Held],
         UNCHANGED notifier
  PROVE  AutoTypeOK'
<1>1. manager' \in Manager /\ (manager'.at \in {"asleep", "round"} <=> manager'.id = NoId)
  BY Values DEF Advances, Busy
<1>2. QED
  BY <1>1 DEF AutoInv, AutoTypeOK

LEMMA BegunBusy ==
  ASSUME AutoInv, NEW i \in AutoIds
  PROVE  /\ Begun(i) \in Busy /\ Begun(i).id = i /\ Begun(i).t = manager.todo[i]
         /\ Begun(i).todo = [manager.todo EXCEPT ![i] = Blank]
<1>1. manager.todo \in [AutoIds -> Held] /\ [manager.todo EXCEPT ![i] = Blank] \in [AutoIds -> Held]
  BY Values DEF AutoInv, AutoTypeOK, Manager
<1> DEFINE n == NextTrade([manager.todo EXCEPT ![i] = Blank])
<1>2. n \in Manager /\ n.todo = [manager.todo EXCEPT ![i] = Blank]
  BY <1>1, NextTradeIs
<1> HIDE DEF n
<1>3. Begun(i) = [n EXCEPT !.id = i, !.t = manager.todo[i]]
  BY DEF Begun, n
<1>4. QED
  BY <1>1, <1>2, <1>3 DEF Manager, Busy

(* A trade is taken from the list.                                           *)
LEMMA ManagedStep ==
  ASSUME AutoInv, NEW i \in AutoIds, NEW m \in Busy, manager.todo[i] # Blank,
         m.id = i, m.t = manager.todo[i], m.todo = [manager.todo EXCEPT ![i] = Blank],
         Advances(m, manager'), UNCHANGED <<held, notifier>>
  PROVE  AutoInv'
<1>1. manager.todo \in [AutoIds -> Held]
  BY DEF AutoInv, AutoTypeOK, Manager
<1>2. held[i].off => m.t.off
  BY DEF AutoInv, TodoKnows
<1>3. TodoKnows' /\ ManagerKnows'
  BY <1>1, <1>2, LoopStep
<1>4. AutoTypeOK'
  BY LoopTypes DEF AutoInv, AutoTypeOK
<1>5. QED
  BY <1>3, <1>4 DEF AutoInv, OffHasNone

(* The manager, once it has a trade.                                         *)
LEMMA InHandIs ==
  ASSUME AutoInv, manager.at \notin {"asleep", "round"}
  PROVE  /\ manager \in Busy /\ Id \in AutoIds /\ Id = manager.id /\ manager.todo[Id] = Blank
         /\ held[Id].off => manager.t.off
         /\ manager.t \in Held /\ held[Id] \in Held
BY DEF AutoInv, AutoTypeOK, ManagerKnows, Manager, Busy, Id

(* A write of the loop that cancels nothing.                                 *)
LEMMA WriteStep ==
  ASSUME AutoInv, manager.at \notin {"asleep", "round"}, Advances(manager, manager'),
         held' \in [AutoIds -> Held], UNCHANGED notifier,
         \A i \in AutoIds :
           /\ held'[i].off => held[i].off
           /\ held'[i].off => held'[i].tp = Unset
  PROVE  AutoInv'
<1>1. TodoKnows' /\ ManagerKnows'
  BY InHandIs, LoopStep
<1>2. AutoTypeOK'
  BY InHandIs, LoopTypes
<1>3. QED
  BY <1>1, <1>2 DEF AutoInv, OffHasNone

LEMMA CancelStep ==
  ASSUME AutoInv, manager.at = "cancel", manager' = AfterCancel(WithoutTarget),
         held' \in [AutoIds -> Held], UNCHANGED notifier,
         \A i \in AutoIds \ {Id} : held'[i] = held[i],
         held'[Id].off => held'[Id].tp = Unset
  PROVE  AutoInv'
<1>1. WithoutTarget \in Busy /\ WithoutTarget.t.off
        /\ WithoutTarget.todo = manager.todo /\ WithoutTarget.id = Id
  BY InHandIs, Values DEF WithoutTarget, Busy, Manager, Held
<1>2. Advances(WithoutTarget, manager')
  BY <1>1, AfterCancelAdvances
<1>3. TodoKnows' /\ ManagerKnows'
  BY <1>1, <1>2, InHandIs, LoopStep
<1>4. AutoTypeOK'
  BY <1>1, <1>2, LoopTypes
<1>5. OffHasNone'
  BY DEF AutoInv, OffHasNone
<1>6. QED
  BY <1>3, <1>4, <1>5 DEF AutoInv

(* Steps of the others: they cancel nothing either.                          *)
LEMMA OtherStep ==
  ASSUME AutoInv, UNCHANGED manager, held' \in [AutoIds -> Held],
         notifier' \in [Notifiers -> [id : AutoIds \cup {NoId}, tp : Int]],
         \A i \in AutoIds :
           /\ held'[i].off => held[i].off
           /\ held'[i].off => held'[i].tp = Unset
  PROVE  AutoInv'
<1>1. manager \in Manager
  BY DEF AutoInv, AutoTypeOK
<1>2. TodoKnows' /\ ManagerKnows' /\ OffHasNone'
  BY <1>1 DEF AutoInv, TodoKnows, ManagerKnows, OffHasNone, Manager
<1>3. QED
  BY <1>2 DEF AutoInv, AutoTypeOK

(* update_auto_paper_trade_tp leaves the flag, and a row that has it, alone.  *)
LEMMA SetTargetIs ==
  ASSUME AutoInv, NEW j \in AutoIds, NEW tp \in Int, held' = SetTarget(j, tp)
  PROVE  /\ held' \in [AutoIds -> Held]
         /\ \A i \in AutoIds : (held'[i].off => held[i].off) /\ (held'[i].off => held'[i].tp = Unset)
<1>1. held \in [AutoIds -> Held] /\ held[j] \in Held
  BY DEF AutoInv, AutoTypeOK
<1>2. [held[j] EXCEPT !.tp = tp] \in Held /\ [held[j] EXCEPT !.tp = tp].off = held[j].off
  BY <1>1, HeldFields
<1>3. [held EXCEPT ![j].tp = tp] = [held EXCEPT ![j] = [held[j] EXCEPT !.tp = tp]]
  BY <1>1
<1>4. QED
  BY <1>1, <1>2, <1>3 DEF SetTarget, AutoInv, OffHasNone

(* Any row replaced by one whose flag is no stronger.                        *)
LEMMA RowReplaced ==
  ASSUME AutoInv, NEW j \in AutoIds, NEW r \in Held, r.off => held[j].off /\ r.tp = Unset,
         held' = held \/ held' = [held EXCEPT ![j] = r]
  PROVE  /\ held' \in [AutoIds -> Held]
         /\ \A i \in AutoIds : (held'[i].off => held[i].off) /\ (held'[i].off => held'[i].tp = Unset)
BY DEF AutoInv, AutoTypeOK, OffHasNone
---------------------------------------------------------------------------
LEMMA InitInv == AutoInit => AutoInv
<1> SUFFICES ASSUME AutoInit PROVE AutoInv
  OBVIOUS
<1>1. NoTodo \in [AutoIds -> Held]
  BY Values DEF NoTodo
<1>2. manager \in Manager /\ manager.id = NoId /\ manager.at \in {"asleep", "round"}
  BY <1>1, NextTradeIs DEF AutoInit
<1>3. held \in [AutoIds -> Held] /\ \A i \in AutoIds : ~held[i].off
  BY Values DEF AutoInit
<1>4. notifier \in [Notifiers -> [id : AutoIds \cup {NoId}, tp : Int]]
  BY Values DEF AutoInit, Unbusy
<1>5. QED
  BY <1>2, <1>3, <1>4 DEF AutoInv, AutoTypeOK, TodoKnows, ManagerKnows, OffHasNone

LEMMA NextInv == AutoInv /\ [AutoNext]_autoVars => AutoInv'
<1> SUFFICES ASSUME AutoInv, [AutoNext]_autoVars PROVE AutoInv'
  OBVIOUS
<1>0. /\ held \in [AutoIds -> Held] /\ manager \in Manager
      /\ notifier \in [Notifiers -> [id : AutoIds \cup {NoId}, tp : Int]]
      /\ \A i \in AutoIds : held[i].off => held[i].tp = Unset
  BY DEF AutoInv, AutoTypeOK, OffHasNone
<1>1. CASE BeginAutoRound
  <2> DEFINE todo == [i \in AutoIds |-> IF i \in OpenTrades THEN held[i] ELSE Blank]
  <2>1. todo \in [AutoIds -> Held]
    BY <1>0, Values
  <2>2. manager' \in Manager /\ manager'.id = NoId /\ manager'.todo = todo
          /\ manager'.at \in {"asleep", "round"}
    BY <1>1, <2>1, NextTradeIs DEF BeginAutoRound
  <2>3. TodoKnows'
    BY <1>1, <2>2 DEF BeginAutoRound, TodoKnows
  <2>4. QED
    BY <1>1, <2>2, <2>3 DEF BeginAutoRound, AutoInv, AutoTypeOK, ManagerKnows, OffHasNone
<1>2. ASSUME NEW i \in AutoIds, NEW p \in Prices, NEW s \in Settings, ManageTrade(i, p, s)
      PROVE  AutoInv'
  <2>1. PICK b : b = Begun(i)
    OBVIOUS
  <2>2. b \in Busy /\ b.id = i /\ b.t = manager.todo[i] /\ b.todo = [manager.todo EXCEPT ![i] = Blank]
    BY <2>1, BegunBusy
  <2>3. PICK m : m = [b EXCEPT !.price = p, !.set = s]
    OBVIOUS
  <2>4. m \in Busy /\ m.id = b.id /\ m.t = b.t /\ m.todo = b.todo
    BY <2>2, <2>3 DEF Manager, Busy
  <2>5. manager' = Decide(m) /\ manager.todo[i] # Blank /\ UNCHANGED <<held, notifier>>
    BY <1>2, <2>1, <2>3 DEF ManageTrade
  <2>6. QED
    BY <2>2, <2>4, <2>5, DecideAdvances, ManagedStep
<1>3. ASSUME NEW i \in AutoIds, ManageUnpriced(i) PROVE AutoInv'
  <2>1. Begun(i) \in Busy /\ Begun(i).id = i /\ Begun(i).t = manager.todo[i]
          /\ Begun(i).todo = [manager.todo EXCEPT ![i] = Blank]
    BY BegunBusy
  <2>2. manager' = Postponed(Begun(i)) /\ manager.todo[i] # Blank /\ UNCHANGED <<held, notifier>>
    BY <1>3 DEF ManageUnpriced
  <2>3. QED
    BY <2>1, <2>2, PostponedAdvances, ManagedStep
<1>4. CASE WritePeak
  <2>1. [held[Id] EXCEPT !.peak = manager.t.peak] \in Held
        /\ [held[Id] EXCEPT !.peak = manager.t.peak].off = held[Id].off
        /\ [held[Id] EXCEPT !.peak = manager.t.peak].tp = held[Id].tp
    BY <1>4, InHandIs, HeldFields DEF WritePeak, Held
  <2>2. held' = held \/ held' = [held EXCEPT ![Id] = [held[Id] EXCEPT !.peak = manager.t.peak]]
    BY <1>0, <1>4, InHandIs DEF WritePeak
  <2>3. /\ held' \in [AutoIds -> Held]
        /\ \A i \in AutoIds : (held'[i].off => held[i].off) /\ (held'[i].off => held'[i].tp = Unset)
    BY <1>0, <1>4, <2>1, <2>2, InHandIs, RowReplaced DEF WritePeak
  <2>4. Advances(manager, manager')
    BY <1>4, InHandIs, AfterPeakAdvances DEF WritePeak
  <2>5. QED
    BY <1>4, <2>3, <2>4, WriteStep DEF WritePeak
<1>5. CASE WriteLock
  <2>1. [held[Id] EXCEPT !.lock = manager.t.lock] \in Held
        /\ [held[Id] EXCEPT !.lock = manager.t.lock].off = held[Id].off
        /\ [held[Id] EXCEPT !.lock = manager.t.lock].tp = held[Id].tp
    BY <1>5, InHandIs, HeldFields DEF WriteLock, Held
  <2>2. held' = held \/ held' = [held EXCEPT ![Id] = [held[Id] EXCEPT !.lock = manager.t.lock]]
    BY <1>0, <1>5, InHandIs DEF WriteLock
  <2>3. /\ held' \in [AutoIds -> Held]
        /\ \A i \in AutoIds : (held'[i].off => held[i].off) /\ (held'[i].off => held'[i].tp = Unset)
    BY <1>0, <1>5, <2>1, <2>2, InHandIs, RowReplaced DEF WriteLock
  <2>4. Advances(manager, manager')
    BY <1>5, InHandIs, AfterLockAdvances DEF WriteLock
  <2>5. QED
    BY <1>5, <2>3, <2>4, WriteStep DEF WriteLock
<1>6. CASE WriteTrail
  <2>1. [held[Id] EXCEPT !.trail = manager.t.trail] \in Held
        /\ [held[Id] EXCEPT !.trail = manager.t.trail].off = held[Id].off
        /\ [held[Id] EXCEPT !.trail = manager.t.trail].tp = held[Id].tp
    BY <1>6, InHandIs, HeldFields DEF WriteTrail, Held
  <2>2. held' = held \/ held' = [held EXCEPT ![Id] = [held[Id] EXCEPT !.trail = manager.t.trail]]
    BY <1>0, <1>6, InHandIs DEF WriteTrail
  <2>3. /\ held' \in [AutoIds -> Held]
        /\ \A i \in AutoIds : (held'[i].off => held[i].off) /\ (held'[i].off => held'[i].tp = Unset)
    BY <1>0, <1>6, <2>1, <2>2, InHandIs, RowReplaced DEF WriteTrail
  <2>4. Advances(manager, manager')
    BY <1>6, InHandIs, AfterTrailAdvances DEF WriteTrail
  <2>5. QED
    BY <1>6, <2>3, <2>4, WriteStep DEF WriteTrail
<1>7. CASE WriteFails
  BY <1>0, <1>7, InHandIs, DoneAdvances, WriteStep DEF WriteFails
<1>8. CASE CancelTarget
  <2>1. held' = held \/ held' = [held EXCEPT ![Id] = [held[Id] EXCEPT !.tp = Unset, !.off = TRUE]]
    BY <1>0, <1>8, InHandIs DEF CancelTarget
  <2>2. [held[Id] EXCEPT !.tp = Unset, !.off = TRUE] \in Held
        /\ [held[Id] EXCEPT !.tp = Unset, !.off = TRUE].tp = Unset
    BY <1>8, InHandIs, Values DEF CancelTarget, Held
  <2>3. /\ held' \in [AutoIds -> Held] /\ \A i \in AutoIds \ {Id} : held'[i] = held[i]
        /\ held'[Id].off => held'[Id].tp = Unset
    BY <1>0, <1>8, <2>1, <2>2, InHandIs DEF CancelTarget
  <2>4. QED
    BY <1>8, <2>3, CancelStep DEF CancelTarget
<1>9. CASE CancelFails
  BY <1>0, <1>9, InHandIs, CancelStep DEF CancelFails
<1>10. CASE FollowTrail
  <2>1. /\ held' \in [AutoIds -> Held]
        /\ \A i \in AutoIds : (held'[i].off => held[i].off) /\ (held'[i].off => held'[i].tp = Unset)
    BY <1>10, InHandIs, HeldFields, SetTargetIs DEF FollowTrail
  <2>2. Advances(manager, manager')
    BY <1>10, InHandIs, AfterTargetAdvances DEF FollowTrail
  <2>3. QED
    BY <1>10, <2>1, <2>2, WriteStep DEF FollowTrail
<1>11. CASE FollowFails
  BY <1>0, <1>11, InHandIs, AfterTargetAdvances, WriteStep DEF FollowFails
<1>12. CASE SellTrade
  <2>1. /\ held' \in [AutoIds -> Held]
        /\ \A i \in AutoIds : (held'[i].off => held[i].off) /\ (held'[i].off => held'[i].tp = Unset)
    BY <1>12, InHandIs, Values, RowReplaced DEF SellTrade
  <2>2. QED
    BY <1>12, <2>1, InHandIs, DoneAdvances, WriteStep DEF SellTrade
<1>13. CASE SellFails
  BY <1>0, <1>13, InHandIs, DoneAdvances, WriteStep DEF SellFails
<1>14. ASSUME NEW i \in AutoIds, ManualClose(i) PROVE AutoInv'
  BY <1>0, <1>14, Values, RowReplaced, OtherStep DEF ManualClose
<1>15. CASE ResetAll
  BY <1>0, <1>15, Values, OtherStep DEF ResetAll
<1>16. ASSUME NEW i \in AutoIds, NEW tp \in Asked, NEW plan \in BOOLEAN, OpenTrade(i, tp, plan)
       PROVE  AutoInv'
  <2>1. [Blank EXCEPT !.status = "open", !.tp = tp, !.plan = plan] \in Held
        /\ ~[Blank EXCEPT !.status = "open", !.tp = tp, !.plan = plan].off
    BY Values DEF Held, Blank
  <2>2. QED
    BY <1>0, <1>16, <2>1, RowReplaced, OtherStep DEF OpenTrade
<1>17. ASSUME NEW n \in Notifiers, NEW i \in AutoIds, NEW tp \in Asked, Notified(n, i, tp)
       PROVE  AutoInv'
  BY <1>0, <1>17, Values, OtherStep DEF Notified
<1>18. ASSUME NEW n \in Notifiers, RaiseTarget(n) PROVE AutoInv'
  <2>1. notifier[n].id \in AutoIds /\ notifier[n].tp \in Int
    BY <1>0, <1>18 DEF RaiseTarget
  <2>2. notifier' \in [Notifiers -> [id : AutoIds \cup {NoId}, tp : Int]]
    BY <1>0, <1>18, Values DEF RaiseTarget, Unbusy
  <2>3. QED
    BY <1>18, <2>1, <2>2, SetTargetIs, OtherStep DEF RaiseTarget
<1>19. ASSUME NEW n \in Notifiers, RaiseFails(n) PROVE AutoInv'
  BY <1>0, <1>19, Values, OtherStep DEF RaiseFails, Unbusy
<1>20. CASE AutoTimePasses
  <2>1. \A i \in AutoIds : held[i].age < ForceAge =>
          /\ [held[i] EXCEPT !.age = @ + 1] \in Held
          /\ [held[i] EXCEPT !.age = @ + 1].off = held[i].off
          /\ [held[i] EXCEPT !.age = @ + 1].tp = held[i].tp
    BY <1>0, Values DEF Held
  <2>2. QED
    BY <1>0, <1>20, <2>1, OtherStep DEF AutoTimePasses
<1>21. CASE AutoRestart
  <2>1. NoTodo \in [AutoIds -> Held] /\ \A i \in AutoIds : NoTodo[i] = Blank
    BY Values DEF NoTodo
  <2>2. manager' \in Manager /\ manager'.id = NoId /\ manager'.todo = NoTodo
          /\ manager'.at \in {"asleep", "round"}
    BY <1>21, <2>1, NextTradeIs DEF AutoRestart
  <2>3. notifier' \in [Notifiers -> [id : AutoIds \cup {NoId}, tp : Int]]
    BY <1>21, Values DEF AutoRestart, Unbusy
  <2>4. QED
    BY <1>0, <1>21, <2>1, <2>2, <2>3
    DEF AutoRestart, AutoInv, AutoTypeOK, TodoKnows, ManagerKnows, OffHasNone
<1>22. CASE UNCHANGED autoVars
  BY <1>0, <1>22, OtherStep DEF autoVars
<1>23. CASE EndWrite \/ EndSale
  BY <1>4, <1>5, <1>6, <1>7, <1>8, <1>9, <1>10, <1>11, <1>12, <1>13, <1>23 DEF EndWrite, EndSale
<1>24. CASE WithoutRestart
  BY <1>1, <1>2, <1>3, <1>14, <1>15, <1>16, <1>17, <1>18, <1>19, <1>20, <1>23, <1>24
  DEF WithoutRestart, Managed
<1>25. QED
  BY <1>21, <1>22, <1>24 DEF AutoNext

THEOREM AutoInvariant == AutoSpec => []AutoInv
<1>1. QED
  BY InitInv, NextInv, PTL DEF AutoSpec

(* Every reachable state of the rows, the loop and the notifications is well  *)
(* typed; while the loop sleeps or lists, it has no trade in hand.           *)
THEOREM AutoTypes == AutoSpec => []AutoTypeOK
<1>1. AutoInv => AutoTypeOK
  BY DEF AutoInv
<1>2. QED
  BY <1>1, AutoInvariant, PTL

(* No notification, no target that follows the stop and no restart brings a   *)
(* cancelled target back, and no trade is sold at one (_manage_single_trade, *)
(* update_auto_paper_trade_tp), for any number of trades and notifications.  *)
THEOREM NeverRevived == AutoSpec => []TargetStaysCancelled
<1>1. AutoInv => TargetStaysCancelled
  <2> SUFFICES ASSUME AutoInv PROVE TargetStaysCancelled
    OBVIOUS
  <2>1. \A i \in OpenTrades : held[i].off => held[i].tp = Unset
    BY DEF AutoInv, OffHasNone, OpenTrades
  <2>2. ASSUME manager.at = "closing", manager.reason = "take_profit"
        PROVE  ~held[manager.id].off
    BY <2>2 DEF AutoInv, AutoTypeOK, ManagerKnows
  <2>3. QED
    BY <2>1, <2>2 DEF TargetStaysCancelled
<1>2. QED
  BY <1>1, AutoInvariant, PTL
---------------------------------------------------------------------------
(* The stops.  The loop writes a peak, then a stop that follows it, then the *)
(* next one, and any of these writes may fail or meet a row that was closed   *)
(* or reset meanwhile: that the rows it does not lose agree with each other   *)
(* and with the reason a trade is sold for needs what the loop knows of them. *)

(* A stop that is set lies below the peak it follows, a breakeven stop not    *)
(* below its floor, and a plan has none.                                    *)
StopsFollow(t) ==
  /\ t.lock # Unset => LockFloor <= t.lock /\ t.lock < t.peak
  /\ t.trail <= t.peak
  /\ t.plan => t.lock = Unset /\ t.trail = Unset

(* What a trade is sold for, by its stops.                                  *)
SoldBy(reason, t, price) ==
  /\ reason = "stop_loss" => t.lock <= StopLoss /\ price <= StopLoss
  /\ reason = "breakeven_stop" => StopLoss < t.lock /\ price <= t.lock
  /\ reason = "trailing_stop" => price <= t.trail

StopsFollowPeak == \A i \in OpenTrades : StopsFollow(held[i])

ExitsAsStored ==
  manager.at = "closing" /\ manager.id \in OpenTrades =>
    SoldBy(manager.reason, held[manager.id], manager.price)

SameStops(t, r) == t.plan = r.plan /\ t.peak = r.peak /\ t.lock = r.lock /\ t.trail = r.trail

(* At a, t is the row r but for the one stop that is about to be written.    *)
AheadOf(a, t, r) ==
  /\ t.plan = r.plan
  /\ IF a = "peak" THEN r.peak < t.peak ELSE t.peak = r.peak
  /\ IF a = "lock" THEN r.lock <= t.lock ELSE t.lock = r.lock
  /\ IF a = "trail" THEN r.trail <= t.trail ELSE t.trail = r.trail

(* The trade in hand of the manager m.                                      *)
HandFollows(m) ==
  /\ StopsFollow(m.t)
  /\ m.at = "peak" => m.price <= m.t.peak
  /\ m.at = "closing" => SoldBy(m.reason, m.t, m.price)

StopInv ==
  /\ \A i \in AutoIds : held[i].status = "none" => manager.todo[i] = Blank /\ manager.id # i
  /\ \A i \in AutoIds : StopsFollow(manager.todo[i])
  /\ \A i \in OpenTrades :
       /\ StopsFollow(held[i])
       /\ manager.todo[i] # Blank => SameStops(manager.todo[i], held[i])
       /\ manager.id = i => AheadOf(manager.at, manager.t, held[i])
  /\ manager.id # NoId => HandFollows(manager)

(* A stretch of _manage_single_trade from m to n, by the stops.              *)
Follows(m, n) ==
  \/ n.at \in {"asleep", "round"}
  \/ AheadOf(n.at, n.t, m.t) /\ HandFollows(n) /\ n.price = m.price

Sound == {m \in Busy : StopsFollow(m.t)}

LEMMA Stops ==
  ASSUME NEW m \in Sound
  PROVE  /\ m \in Busy /\ m.t.lock \in Int /\ m.t.trail \in Int /\ m.t.peak \in Int /\ m.price \in Int
         /\ m.set.gap \in Nat /\ StopsFollow(m.t) /\ AheadOf("closing", m.t, m.t)
         /\ Unset \in Int /\ StopLoss \in Int /\ LockFloor \in Int
BY BusyFields, HeldFields, Values, Gap DEF Sound, AheadOf

LEMMA InPlace ==
  ASSUME NEW m \in Busy, NEW x
  PROVE  /\ [m EXCEPT !.at = "peak", !.t.peak = x] = [m EXCEPT !.at = "peak", !.t = [m.t EXCEPT !.peak = x]]
         /\ [m EXCEPT !.at = "lock", !.t.lock = x] = [m EXCEPT !.at = "lock", !.t = [m.t EXCEPT !.lock = x]]
         /\ [m EXCEPT !.at = "trail", !.t.trail = x] = [m EXCEPT !.at = "trail", !.t = [m.t EXCEPT !.trail = x]]
BY DEF Busy, Manager

LEMMA DoneFollows == ASSUME NEW m \in Sound PROVE Follows(m, Done(m))
<1>1. m.todo \in [AutoIds -> Held]
  BY DEF Sound, Busy, Manager
<1>2. QED
  BY <1>1, NextTradeIs DEF Done, Follows

LEMMA SellFollows ==
  ASSUME NEW m \in Sound, NEW r \in ExitReasons, SoldBy(r, m.t, m.price)
  PROVE  Follows(m, Sell(m, r))
<1>1. PICK n : n = Sell(m, r)
  OBVIOUS
<1>2. n.at = "closing" /\ n.reason = r /\ n.t = m.t /\ n.price = m.price
  BY <1>1 DEF Sound, Busy, Manager, Sell
<1>3. AheadOf(n.at, n.t, m.t)
  BY <1>2, Stops
<1>4. StopsFollow(n.t) /\ SoldBy(n.reason, n.t, n.price)
  BY <1>2, Stops
<1>5. QED
  BY <1>1, <1>2, <1>3, <1>4 DEF Follows, HandFollows

LEMMA GoesOn ==
  ASSUME NEW m \in Sound, NEW a \in {"cancel", "target"}
  PROVE  Follows(m, [m EXCEPT !.at = a])
<1>1. PICK n : n = [m EXCEPT !.at = a]
  OBVIOUS
<1>2. n.at = a /\ n.t = m.t /\ n.price = m.price
  BY <1>1 DEF Sound, Busy, Manager
<1>3. QED
  BY <1>1, <1>2, Stops DEF Follows, AheadOf, HandFollows

(* With a new stop in hand.                                                  *)
LEMMA Ahead ==
  ASSUME NEW m \in Sound, NEW t \in Held, NEW a \in {"peak", "lock", "trail"},
         AheadOf(a, t, m.t), StopsFollow(t), a = "peak" => m.price <= t.peak,
         NEW n, n.at = a, n.t = t, n.price = m.price
  PROVE  Follows(m, n)
BY DEF Follows, HandFollows

LEMMA NotByStop ==
  ASSUME NEW t, NEW p, NEW r, r \notin {"stop_loss", "breakeven_stop", "trailing_stop"}
  PROVE  SoldBy(r, t, p)
BY DEF SoldBy

LEMMA ByStop ==
  ASSUME NEW m \in Sound, m.price <= Floored(m.t)
  PROVE  SoldBy(StopReason(m.t), m.t, m.price) /\ StopReason(m.t) \in ExitReasons
BY Stops DEF Floored, StopReason, Higher, SoldBy, ExitReasons

LEMMA AfterTargetFollows == ASSUME NEW m \in Sound PROVE Follows(m, AfterTarget(m))
<1>1. m.price <= m.t.trail => SoldBy("trailing_stop", m.t, m.price)
  BY DEF SoldBy
<1>2. QED
  BY <1>1, DoneFollows, SellFollows DEF AfterTarget, ExitReasons

LEMMA AfterCancelFollows == ASSUME NEW m \in Sound PROVE Follows(m, AfterCancel(m))
BY GoesOn, AfterTargetFollows DEF AfterCancel

LEMMA AfterTrailFollows == ASSUME NEW m \in Sound PROVE Follows(m, AfterTrail(m))
BY GoesOn, AfterCancelFollows DEF AfterTrail

(* A stop is placed a gap below the peak, or below the price when the price   *)
(* is not above that, and is never lowered.                                 *)
LEMMA TrailFollows ==
  ASSUME NEW m \in Sound
  PROVE  TrailOf(m) \in Int /\ m.t.trail <= TrailOf(m) /\ TrailOf(m) <= m.t.peak
BY Stops DEF TrailOf, Higher, StopsFollow

LEMMA AfterLockFollows == ASSUME NEW m \in Sound PROVE Follows(m, AfterLock(m))
<1>1. ASSUME ~m.t.plan
      PROVE  Follows(m, [m EXCEPT !.at = "trail", !.t.trail = TrailOf(m)])
  <2>1. PICK t : t = [m.t EXCEPT !.trail = TrailOf(m)]
    OBVIOUS
  <2>2. t \in Held
    BY <2>1, Stops, TrailFollows, BusyFields, HeldFields
  <2>3. t.trail = TrailOf(m) /\ t.plan = m.t.plan /\ t.peak = m.t.peak /\ t.lock = m.t.lock
    BY <2>1, Stops, BusyFields DEF Held
  <2>4. AheadOf("trail", t, m.t) /\ StopsFollow(t)
    BY <1>1, <2>3, Stops, TrailFollows DEF AheadOf, StopsFollow
  <2>5. PICK n : n = [m EXCEPT !.at = "trail", !.t.trail = TrailOf(m)]
    OBVIOUS
  <2>6. n = [m EXCEPT !.at = "trail", !.t = t]
    BY <2>1, <2>5, Stops, InPlace
  <2>7. n.at = "trail" /\ n.t = t /\ n.price = m.price
    BY <2>6, Stops DEF Busy, Manager
  <2>8. Follows(m, n)
    BY <2>2, <2>4, <2>7, Ahead
  <2>9. QED
    BY <2>5, <2>8
<1>2. QED
  BY <1>1, DoneFollows, AfterTrailFollows DEF AfterLock

(* Only a stop below the price is stored, and the price is not above the      *)
(* peak.                                                                    *)
LEMMA LockFollows ==
  ASSUME NEW m \in Sound
  PROVE  LockOf(m) \in Int /\ m.t.lock <= LockOf(m) /\ LockFloor <= LockOf(m)
BY Stops DEF LockOf, Higher

LEMMA AfterPeakFollows ==
  ASSUME NEW m \in Sound, m.price <= m.t.peak PROVE Follows(m, AfterPeak(m))
<1>1. ASSUME ~m.t.plan, LockOf(m) < m.price
      PROVE  Follows(m, [m EXCEPT !.at = "lock", !.t.lock = LockOf(m)])
  <2>1. PICK t : t = [m.t EXCEPT !.lock = LockOf(m)]
    OBVIOUS
  <2>2. t \in Held
    BY <2>1, Stops, LockFollows, BusyFields, HeldFields
  <2>3. t.lock = LockOf(m) /\ t.plan = m.t.plan /\ t.peak = m.t.peak /\ t.trail = m.t.trail
    BY <2>1, Stops, BusyFields DEF Held
  <2>4. t.lock < t.peak
    BY <1>1, <2>3, Stops, LockFollows
  <2>5. AheadOf("lock", t, m.t) /\ StopsFollow(t)
    BY <1>1, <2>3, <2>4, Stops, LockFollows DEF AheadOf, StopsFollow
  <2>6. PICK n : n = [m EXCEPT !.at = "lock", !.t.lock = LockOf(m)]
    OBVIOUS
  <2>7. n = [m EXCEPT !.at = "lock", !.t = t]
    BY <2>1, <2>6, Stops, InPlace
  <2>8. n.at = "lock" /\ n.t = t /\ n.price = m.price
    BY <2>7, Stops DEF Busy, Manager
  <2>9. Follows(m, n)
    BY <2>2, <2>5, <2>8, Ahead
  <2>10. QED
    BY <2>6, <2>9
<1>2. QED
  BY <1>1, ByStop, SellFollows, AfterLockFollows DEF AfterPeak

LEMMA DecideFollows == ASSUME NEW m \in Sound PROVE Follows(m, Decide(m))
<1>1. ASSUME m.price > m.t.peak
      PROVE  Follows(m, [m EXCEPT !.at = "peak", !.t.peak = m.price])
  <2>1. PICK t : t = [m.t EXCEPT !.peak = m.price]
    OBVIOUS
  <2>2. t \in Held
    BY <2>1, Stops, BusyFields, HeldFields
  <2>3. t.peak = m.price /\ t.plan = m.t.plan /\ t.lock = m.t.lock /\ t.trail = m.t.trail
    BY <2>1, Stops, BusyFields DEF Held
  <2>4. AheadOf("peak", t, m.t) /\ StopsFollow(t)
    BY <1>1, <2>3, Stops DEF AheadOf, StopsFollow
  <2>5. PICK n : n = [m EXCEPT !.at = "peak", !.t.peak = m.price]
    OBVIOUS
  <2>6. n = [m EXCEPT !.at = "peak", !.t = t]
    BY <2>1, <2>5, Stops, InPlace
  <2>7. n.at = "peak" /\ n.t = t /\ n.price = m.price
    BY <2>6, Stops DEF Busy, Manager
  <2>8. Follows(m, n)
    BY <2>2, <2>3, <2>4, <2>7, Stops, Ahead
  <2>9. QED
    BY <2>5, <2>8
<1>2. ASSUME ~(m.price > m.t.peak) PROVE Follows(m, AfterPeak(m))
  BY <1>2, Stops, AfterPeakFollows
<1>3. \A r \in {"plan_exit", "time_stop", "max_duration", "take_profit"} : Follows(m, Sell(m, r))
  BY SellFollows, NotByStop DEF ExitReasons
<1>4. m.price <= Floored(m.t) => Follows(m, Sell(m, StopReason(m.t)))
  BY ByStop, SellFollows
<1>5. QED
  BY <1>1, <1>2, <1>3, <1>4 DEF Decide

LEMMA PostponedFollows == ASSUME NEW m \in Sound PROVE Follows(m, Postponed(m))
<1>1. Follows(m, Sell(m, "stale_force_close"))
  BY SellFollows, NotByStop DEF ExitReasons
<1>2. QED
  BY <1>1, DoneFollows DEF Postponed

(* Nobody but the loop changes a stop: the trade in hand is left, or stays    *)
(* where it is, and the rows that stay open keep their stops.                *)
LEMMA RowsStay ==
  ASSUME AutoInv, StopInv,
         manager' = manager \/ (manager'.id = NoId /\ manager'.todo = manager.todo),
         \A i \in AutoIds :
           /\ held'[i].status = "none" => held[i].status = "none"
           /\ held'[i].status = "open" => held[i].status = "open" /\ SameStops(held[i], held'[i])
  PROVE  StopInv'
<1>1. \A i \in AutoIds : held'[i].status = "none" => manager'.todo[i] = Blank /\ manager'.id # i
  BY Values DEF StopInv
<1>2. \A i \in AutoIds : StopsFollow(manager'.todo[i])
  BY DEF StopInv
<1>3. ASSUME NEW i \in AutoIds, held'[i].status = "open"
      PROVE  /\ StopsFollow(held'[i])
             /\ manager'.todo[i] # Blank => SameStops(manager'.todo[i], held'[i])
             /\ manager'.id = i => AheadOf(manager'.at, manager'.t, held'[i])
  <2>1. /\ StopsFollow(held[i]) /\ SameStops(held[i], held'[i])
        /\ manager.todo[i] # Blank => SameStops(manager.todo[i], held[i])
        /\ manager.id = i => AheadOf(manager.at, manager.t, held[i])
    BY <1>3 DEF StopInv, OpenTrades
  <2>2. StopsFollow(held'[i])
    BY <2>1 DEF StopsFollow, SameStops
  <2>3. manager'.todo[i] # Blank => SameStops(manager'.todo[i], held'[i])
    BY <2>1 DEF SameStops
  <2>4. ASSUME manager'.id = i PROVE AheadOf(manager'.at, manager'.t, held'[i])
    <3>1. manager' = manager
      BY <2>4, Values
    <3>2. QED
      BY <2>1, <2>4, <3>1 DEF AheadOf, SameStops
  <2>5. QED
    BY <2>2, <2>3, <2>4
<1>4. manager'.id # NoId => HandFollows(manager')
  BY DEF StopInv
<1>5. QED
  BY <1>1, <1>2, <1>3, <1>4 DEF StopInv, OpenTrades

(* A stretch of code starts at m with the stops as the row has them.         *)
LEMMA LoopStops ==
  ASSUME AutoInv, NEW m \in Sound, Advances(m, manager'), Follows(m, manager'),
         \A i \in AutoIds :
           /\ StopsFollow(m.todo[i])
           /\ held'[i].status = "none" => m.todo[i] = Blank /\ m.id # i
           /\ held'[i].status = "open" =>
                /\ StopsFollow(held'[i])
                /\ m.todo[i] # Blank => SameStops(m.todo[i], held'[i])
                /\ m.id = i => SameStops(m.t, held'[i])
  PROVE  StopInv'
<1>1. /\ manager'.todo = m.todo
      /\ \/ manager'.id = NoId
         \/ /\ manager'.id = m.id /\ AheadOf(manager'.at, manager'.t, m.t)
            /\ HandFollows(manager')
  BY DEF Advances, Follows
<1>2. \A i \in AutoIds : held'[i].status = "none" => manager'.todo[i] = Blank /\ manager'.id # i
  BY <1>1, Values
<1>3. ASSUME NEW i \in AutoIds, held'[i].status = "open", manager'.id = i
      PROVE  AheadOf(manager'.at, manager'.t, held'[i])
  <2>1. m.id = i /\ AheadOf(manager'.at, manager'.t, m.t) /\ SameStops(m.t, held'[i])
    BY <1>1, <1>3, Values
  <2>2. QED
    BY <2>1 DEF AheadOf, SameStops
<1>4. QED
  BY <1>1, <1>2, <1>3 DEF StopInv, OpenTrades

(* A trade is taken from the list: the row has not changed since.            *)
LEMMA ManagedStops ==
  ASSUME AutoInv, StopInv, NEW i \in AutoIds, NEW m \in Busy, manager.todo[i] # Blank,
         m.id = i, m.t = manager.todo[i], m.todo = [manager.todo EXCEPT ![i] = Blank],
         Advances(m, manager'), Follows(m, manager'), UNCHANGED held
  PROVE  StopInv'
<1>1. m \in Sound
  BY DEF StopInv, Sound
<1>2. manager.todo \in [AutoIds -> Held] /\ StopsFollow(Blank)
  BY Values, AutoLevels DEF AutoInv, AutoTypeOK, Manager, StopsFollow, Blank
<1>3. \A j \in AutoIds : m.todo[j] = IF j = i THEN Blank ELSE manager.todo[j]
  BY <1>2
<1>4. ASSUME NEW j \in AutoIds
      PROVE  /\ StopsFollow(m.todo[j])
             /\ held'[j].status = "none" => m.todo[j] = Blank /\ m.id # j
             /\ held'[j].status = "open" =>
                  /\ StopsFollow(held'[j])
                  /\ m.todo[j] # Blank => SameStops(m.todo[j], held'[j])
                  /\ m.id = j => SameStops(m.t, held'[j])
  BY <1>2, <1>3 DEF StopInv, OpenTrades
<1>5. QED
  BY <1>1, <1>4, LoopStops

(* The stop in hand is written, or there was none to write.                  *)
LEMMA WriteStops ==
  ASSUME AutoInv, StopInv, manager.at \notin {"asleep", "round"}, NEW m \in Busy,
         m.todo = manager.todo, m.id = Id, SameStops(m.t, manager.t),
         Advances(m, manager'), Follows(m, manager'),
         \A j \in AutoIds \ {Id} : held'[j] = held[j],
         held'[Id].status = held[Id].status,
         held'[Id].status = "open" => SameStops(manager.t, held'[Id])
  PROVE  StopInv'
<1>1. Id \in AutoIds /\ Id = manager.id /\ manager.todo[Id] = Blank /\ StopsFollow(manager.t)
  BY InHandIs, Values DEF StopInv, HandFollows
<1>2. StopsFollow(m.t) /\ m \in Sound
  BY <1>1 DEF StopsFollow, SameStops, Sound
<1>3. held'[Id].status = "open" => StopsFollow(held'[Id]) /\ SameStops(m.t, held'[Id])
  BY <1>1 DEF StopsFollow, SameStops
<1>4. ASSUME NEW j \in AutoIds
      PROVE  /\ StopsFollow(m.todo[j])
             /\ held'[j].status = "none" => m.todo[j] = Blank /\ m.id # j
             /\ held'[j].status = "open" =>
                  /\ StopsFollow(held'[j])
                  /\ m.todo[j] # Blank => SameStops(m.todo[j], held'[j])
                  /\ m.id = j => SameStops(m.t, held'[j])
  <2>1. CASE j = Id
    BY <1>1, <1>3, <2>1 DEF StopInv
  <2>2. CASE j # Id
    BY <2>2 DEF StopInv, OpenTrades
  <2>3. QED
    BY <2>1, <2>2
<1>5. QED
  BY <1>2, <1>4, LoopStops

(* What the loop has in hand of a trade that is open still.                  *)
LEMMA InHandStops ==
  ASSUME AutoInv, StopInv, manager.at \notin {"asleep", "round"}
  PROVE  /\ manager \in Sound /\ HandFollows(manager)
         /\ IsOpen(Id) => AheadOf(manager.at, manager.t, held[Id])
BY InHandIs, Values DEF StopInv, HandFollows, Sound, IsOpen, OpenTrades

LEMMA InitStops == AutoInit => StopInv
<1> SUFFICES ASSUME AutoInit PROVE StopInv
  OBVIOUS
<1>1. NoTodo \in [AutoIds -> Held] /\ \A i \in AutoIds : NoTodo[i] = Blank
  BY Values DEF NoTodo
<1>2. manager.id = NoId /\ manager.todo = NoTodo
  BY <1>1, NextTradeIs DEF AutoInit
<1>3. StopsFollow(Blank)
  BY AutoLevels DEF StopsFollow, Blank
<1>4. ASSUME NEW i \in AutoIds PROVE held[i].status = "none"
  <2>1. held[i] = Blank
    BY DEF AutoInit
  <2>2. QED
    BY <2>1 DEF Blank
<1>5. QED
  BY <1>1, <1>2, <1>3, <1>4, Values DEF StopInv, OpenTrades

LEMMA NextStops == AutoInv /\ StopInv /\ [AutoNext]_autoVars => StopInv'
<1> SUFFICES ASSUME AutoInv, StopInv, [AutoNext]_autoVars PROVE StopInv'
  OBVIOUS
<1>0. held \in [AutoIds -> Held] /\ manager \in Manager /\ StopsFollow(Blank)
  BY AutoLevels DEF AutoInv, AutoTypeOK, StopsFollow, Blank
<1>1. CASE BeginAutoRound
  <2> DEFINE todo == [i \in AutoIds |-> IF i \in OpenTrades THEN held[i] ELSE Blank]
  <2>1. todo \in [AutoIds -> Held]
    BY <1>0, Values
  <2>2. manager'.id = NoId /\ manager'.todo = todo /\ held' = held
    BY <1>1, <2>1, NextTradeIs DEF BeginAutoRound
  <2>3. ASSUME NEW i \in AutoIds
        PROVE  /\ held[i].status = "none" => todo[i] = Blank
               /\ StopsFollow(todo[i])
               /\ i \in OpenTrades => SameStops(todo[i], held[i])
    BY <1>0 DEF StopInv, OpenTrades, SameStops
  <2> HIDE DEF todo
  <2>4. QED
    BY <2>2, <2>3, Values DEF StopInv, OpenTrades
<1>2. ASSUME NEW i \in AutoIds, NEW p \in Prices, NEW s \in Settings, ManageTrade(i, p, s)
      PROVE  StopInv'
  <2>1. PICK b : b = Begun(i)
    OBVIOUS
  <2>2. b \in Busy /\ b.id = i /\ b.t = manager.todo[i] /\ b.todo = [manager.todo EXCEPT ![i] = Blank]
    BY <2>1, BegunBusy
  <2>3. PICK m : m = [b EXCEPT !.price = p, !.set = s]
    OBVIOUS
  <2>4. m \in Busy /\ m.id = b.id /\ m.t = b.t /\ m.todo = b.todo
    BY <2>2, <2>3 DEF Manager, Busy
  <2>5. manager' = Decide(m) /\ manager.todo[i] # Blank /\ UNCHANGED held
    BY <1>2, <2>1, <2>3 DEF ManageTrade
  <2>6. m \in Sound
    BY <2>2, <2>4 DEF StopInv, Sound
  <2>7. QED
    BY <2>2, <2>4, <2>5, <2>6, DecideAdvances, DecideFollows, ManagedStops
<1>3. ASSUME NEW i \in AutoIds, ManageUnpriced(i) PROVE StopInv'
  <2>1. PICK m : m = Begun(i)
    OBVIOUS
  <2>2. m \in Busy /\ m.id = i /\ m.t = manager.todo[i] /\ m.todo = [manager.todo EXCEPT ![i] = Blank]
    BY <2>1, BegunBusy
  <2>3. manager' = Postponed(m) /\ manager.todo[i] # Blank /\ UNCHANGED held
    BY <1>3, <2>1 DEF ManageUnpriced
  <2>4. m \in Sound
    BY <2>2 DEF StopInv, Sound
  <2>5. QED
    BY <2>2, <2>3, <2>4, PostponedAdvances, PostponedFollows, ManagedStops
<1>4. ASSUME WritePeak PROVE StopInv'
  <2>1. manager \in Sound /\ manager.price <= manager.t.peak /\ Id \in AutoIds /\ held[Id] \in Held
        /\ (IsOpen(Id) => AheadOf("peak", manager.t, held[Id]))
    BY <1>4, InHandIs, InHandStops DEF WritePeak, HandFollows
  <2>2. PICK r : r = [held[Id] EXCEPT !.peak = manager.t.peak]
    OBVIOUS
  <2>3. r.status = held[Id].status /\ r.peak = manager.t.peak /\ r.plan = held[Id].plan
          /\ r.lock = held[Id].lock /\ r.trail = held[Id].trail
    BY <2>1, <2>2 DEF Held
  <2>4. IsOpen(Id) => held' = [held EXCEPT ![Id] = r] /\ SameStops(manager.t, r)
    BY <1>0, <1>4, <2>1, <2>2, <2>3 DEF WritePeak, AheadOf, SameStops
  <2>5. ~IsOpen(Id) => held' = held
    BY <1>4 DEF WritePeak
  <2>6. /\ \A j \in AutoIds \ {Id} : held'[j] = held[j]
        /\ held'[Id].status = held[Id].status
        /\ held'[Id].status = "open" => SameStops(manager.t, held'[Id])
    BY <1>0, <2>1, <2>3, <2>4, <2>5 DEF IsOpen
  <2>7. Advances(manager, manager') /\ Follows(manager, manager')
    BY <1>4, <2>1, Stops, AfterPeakAdvances, AfterPeakFollows DEF WritePeak
  <2>8. QED
    BY <1>4, <2>1, <2>6, <2>7, Stops, WriteStops DEF WritePeak, SameStops, Id
<1>5. ASSUME WriteLock PROVE StopInv'
  <2>1. manager \in Sound /\ Id \in AutoIds /\ held[Id] \in Held
        /\ (IsOpen(Id) => AheadOf("lock", manager.t, held[Id]))
    BY <1>5, InHandIs, InHandStops DEF WriteLock
  <2>2. PICK r : r = [held[Id] EXCEPT !.lock = manager.t.lock]
    OBVIOUS
  <2>3. r.status = held[Id].status /\ r.peak = held[Id].peak /\ r.plan = held[Id].plan
          /\ r.lock = manager.t.lock /\ r.trail = held[Id].trail
    BY <2>1, <2>2 DEF Held
  <2>4. IsOpen(Id) => held' = [held EXCEPT ![Id] = r] /\ SameStops(manager.t, r)
    BY <1>0, <1>5, <2>1, <2>2, <2>3 DEF WriteLock, AheadOf, SameStops
  <2>5. ~IsOpen(Id) => held' = held
    BY <1>5 DEF WriteLock
  <2>6. /\ \A j \in AutoIds \ {Id} : held'[j] = held[j]
        /\ held'[Id].status = held[Id].status
        /\ held'[Id].status = "open" => SameStops(manager.t, held'[Id])
    BY <1>0, <2>1, <2>3, <2>4, <2>5 DEF IsOpen
  <2>7. Advances(manager, manager') /\ Follows(manager, manager')
    BY <1>5, <2>1, Stops, AfterLockAdvances, AfterLockFollows DEF WriteLock
  <2>8. QED
    BY <1>5, <2>1, <2>6, <2>7, Stops, WriteStops DEF WriteLock, SameStops, Id
<1>6. ASSUME WriteTrail PROVE StopInv'
  <2>1. manager \in Sound /\ Id \in AutoIds /\ held[Id] \in Held
        /\ (IsOpen(Id) => AheadOf("trail", manager.t, held[Id]))
    BY <1>6, InHandIs, InHandStops DEF WriteTrail
  <2>2. PICK r : r = [held[Id] EXCEPT !.trail = manager.t.trail]
    OBVIOUS
  <2>3. r.status = held[Id].status /\ r.peak = held[Id].peak /\ r.plan = held[Id].plan
          /\ r.lock = held[Id].lock /\ r.trail = manager.t.trail
    BY <2>1, <2>2 DEF Held
  <2>4. IsOpen(Id) => held' = [held EXCEPT ![Id] = r] /\ SameStops(manager.t, r)
    BY <1>0, <1>6, <2>1, <2>2, <2>3 DEF WriteTrail, AheadOf, SameStops
  <2>5. ~IsOpen(Id) => held' = held
    BY <1>6 DEF WriteTrail
  <2>6. /\ \A j \in AutoIds \ {Id} : held'[j] = held[j]
        /\ held'[Id].status = held[Id].status
        /\ held'[Id].status = "open" => SameStops(manager.t, held'[Id])
    BY <1>0, <2>1, <2>3, <2>4, <2>5 DEF IsOpen
  <2>7. Advances(manager, manager') /\ Follows(manager, manager')
    BY <1>6, <2>1, Stops, AfterTrailAdvances, AfterTrailFollows DEF WriteTrail
  <2>8. QED
    BY <1>6, <2>1, <2>6, <2>7, Stops, WriteStops DEF WriteTrail, SameStops, Id
<1>7. ASSUME WriteFails \/ EndSale PROVE StopInv'
  <2>1. manager \in Busy /\ manager' = Done(manager)
    BY <1>7, InHandIs DEF WriteFails, EndSale, SellTrade, SellFails
  <2>2. manager'.id = NoId /\ manager'.todo = manager.todo
    BY <1>0, <2>1, NextTradeIs DEF Done, Manager
  <2>3. held' = held \/ held' = [held EXCEPT ![Id] = Closed]
    BY <1>7 DEF WriteFails, EndSale, SellTrade, SellFails
  <2>4. Closed.status = "closed"
    BY DEF Closed, Blank
  <2>5. QED
    BY <1>0, <2>2, <2>3, <2>4, RowsStay DEF SameStops
<1>8. ASSUME CancelTarget \/ CancelFails PROVE StopInv'
  <2>1. manager \in Sound /\ Id \in AutoIds /\ held[Id] \in Held /\ manager.at = "cancel"
        /\ (IsOpen(Id) => SameStops(manager.t, held[Id]))
    BY <1>8, InHandIs, InHandStops DEF CancelTarget, CancelFails, AheadOf, SameStops
  <2>2. PICK m : m = WithoutTarget
    OBVIOUS
  <2>3. m \in Busy /\ m.todo = manager.todo /\ m.id = Id /\ SameStops(m.t, manager.t)
    BY <2>1, <2>2, Stops, Values DEF WithoutTarget, Busy, Manager, Held, SameStops, Id
  <2>4. m \in Sound
    BY <2>1, <2>3, Stops DEF Sound, StopsFollow, SameStops
  <2>5. Advances(m, manager') /\ Follows(m, manager')
    BY <1>8, <2>2, <2>3, <2>4, AfterCancelAdvances, AfterCancelFollows DEF CancelTarget, CancelFails
  <2>6. PICK r : r = [held[Id] EXCEPT !.tp = Unset, !.off = TRUE]
    OBVIOUS
  <2>7. r.status = held[Id].status /\ SameStops(held[Id], r)
    BY <2>1, <2>6 DEF Held, SameStops
  <2>8. held' = held \/ held' = [held EXCEPT ![Id] = r]
    BY <1>0, <1>8, <2>1, <2>6 DEF CancelTarget, CancelFails
  <2>9. /\ \A j \in AutoIds \ {Id} : held'[j] = held[j]
        /\ held'[Id].status = held[Id].status
        /\ held'[Id].status = "open" => SameStops(manager.t, held'[Id])
    BY <1>0, <2>1, <2>7, <2>8 DEF IsOpen, SameStops
  <2>10. QED
    BY <2>1, <2>3, <2>5, <2>9, WriteStops
<1>9. ASSUME FollowTrail \/ FollowFails PROVE StopInv'
  <2>1. manager \in Sound /\ Id \in AutoIds /\ held[Id] \in Held /\ manager.at = "target"
        /\ (IsOpen(Id) => SameStops(manager.t, held[Id]))
    BY <1>9, InHandIs, InHandStops DEF FollowTrail, FollowFails, AheadOf, SameStops
  <2>2. Advances(manager, manager') /\ Follows(manager, manager')
    BY <1>9, <2>1, Stops, AfterTargetAdvances, AfterTargetFollows DEF FollowTrail, FollowFails
  <2>3. PICK r : r = [held[Id] EXCEPT !.tp = manager.t.trail]
    OBVIOUS
  <2>4. r.status = held[Id].status /\ SameStops(held[Id], r)
    BY <2>1, <2>3 DEF Held, SameStops
  <2>5. held' = held \/ held' = [held EXCEPT ![Id] = r]
    BY <1>0, <1>9, <2>1, <2>3 DEF FollowTrail, FollowFails, SetTarget
  <2>6. /\ \A j \in AutoIds \ {Id} : held'[j] = held[j]
        /\ held'[Id].status = held[Id].status
        /\ held'[Id].status = "open" => SameStops(manager.t, held'[Id])
    BY <1>0, <2>1, <2>4, <2>5 DEF IsOpen, SameStops
  <2>7. QED
    BY <2>1, <2>2, <2>6, Stops, WriteStops DEF SameStops, Id
<1>10. ASSUME NEW i \in AutoIds, ManualClose(i) PROVE StopInv'
  <2>1. Closed.status = "closed"
    BY DEF Closed, Blank
  <2>2. QED
    BY <1>0, <1>10, <2>1, RowsStay DEF ManualClose, SameStops
<1>11. ASSUME ResetAll PROVE StopInv'
  <2>1. Closed.status = "closed"
    BY DEF Closed, Blank
  <2>2. QED
    BY <1>0, <1>11, <2>1, RowsStay DEF ResetAll, SameStops
<1>12. ASSUME NEW i \in AutoIds, NEW tp \in Asked, NEW plan \in BOOLEAN, OpenTrade(i, tp, plan)
       PROVE  StopInv'
  <2>1. PICK r : r = [Blank EXCEPT !.status = "open", !.tp = tp, !.plan = plan]
    OBVIOUS
  <2>2. r.status = "open" /\ r.lock = Unset /\ r.trail = Unset /\ r.peak = 0
    BY <2>1 DEF Blank
  <2>3. StopsFollow(r)
    BY <2>2, AutoLevels DEF StopsFollow
  <2>4. held' = [held EXCEPT ![i] = r] /\ manager' = manager
          /\ manager.todo[i] = Blank /\ manager.id # i
    BY <1>12, <2>1 DEF OpenTrade, StopInv
  <2>5. QED
    BY <1>0, <2>2, <2>3, <2>4 DEF StopInv, OpenTrades
<1>13. ASSUME UNCHANGED <<held, manager>> PROVE StopInv'
  BY <1>13, RowsStay DEF SameStops
<1>14. ASSUME NEW n \in Notifiers, RaiseTarget(n) PROVE StopInv'
  <2>1. PICK j \in AutoIds : j = notifier[n].id
    BY <1>14 DEF RaiseTarget, AutoInv, AutoTypeOK
  <2>2. PICK r : r = [held[j] EXCEPT !.tp = notifier[n].tp]
    OBVIOUS
  <2>3. r.status = held[j].status /\ SameStops(held[j], r)
    BY <1>0, <2>2 DEF Held, SameStops
  <2>4. held' = held \/ held' = [held EXCEPT ![j] = r]
    BY <1>0, <1>14, <2>1, <2>2 DEF RaiseTarget, SetTarget
  <2>5. QED
    BY <1>0, <1>14, <2>3, <2>4, RowsStay DEF RaiseTarget, SameStops
<1>15. ASSUME AutoTimePasses PROVE StopInv'
  <2>1. \A i \in AutoIds : /\ [held[i] EXCEPT !.age = @ + 1].status = held[i].status
                           /\ SameStops(held[i], [held[i] EXCEPT !.age = @ + 1])
                           /\ SameStops(held[i], held[i])
    BY <1>0 DEF Held, SameStops
  <2>2. QED
    BY <1>0, <1>15, <2>1, RowsStay DEF AutoTimePasses
<1>16. ASSUME AutoRestart PROVE StopInv'
  <2>1. NoTodo \in [AutoIds -> Held] /\ \A i \in AutoIds : NoTodo[i] = Blank
    BY Values DEF NoTodo
  <2>2. manager'.id = NoId /\ manager'.todo = NoTodo /\ held' = held
    BY <1>16, <2>1, NextTradeIs DEF AutoRestart
  <2>3. QED
    BY <1>0, <2>1, <2>2, Values DEF StopInv, OpenTrades
<1>17. ASSUME EndWrite \/ EndSale PROVE StopInv'
  BY <1>4, <1>5, <1>6, <1>7, <1>8, <1>9, <1>17 DEF EndWrite
<1>18. ASSUME \E n \in Notifiers : RaiseTarget(n) \/ RaiseFails(n)
                \/ \E i \in AutoIds, tp \in Asked : Notified(n, i, tp)
       PROVE  StopInv'
  BY <1>13, <1>14, <1>18 DEF RaiseFails, Notified
<1>19. ASSUME WithoutRestart PROVE StopInv'
  BY <1>1, <1>2, <1>3, <1>10, <1>11, <1>12, <1>15, <1>17, <1>18, <1>19 DEF WithoutRestart, Managed
<1>20. CASE UNCHANGED autoVars
  BY <1>13, <1>20 DEF autoVars
<1>21. QED
  BY <1>16, <1>19, <1>20 DEF AutoNext

THEOREM StopsHold == AutoSpec => []StopInv
<1>1. QED
  BY AutoInvariant, InitStops, NextStops, PTL DEF AutoSpec

(* Whatever writes fail, and whoever closes or resets meanwhile: every stop   *)
(* stored with an open trade lies below the peak stored with it, the         *)
(* breakeven stop not below the price that earns the commissions and the     *)
(* margin, and a trade with a plan has no stop but the stop loss             *)
(* (_apply_breakeven_stop, the trailing part of _manage_single_trade).       *)
THEOREM StopsStayBelowPeak == AutoSpec => []StopsFollowPeak
<1>1. ASSUME StopInv PROVE StopsFollowPeak
  <2>1. ASSUME NEW i \in OpenTrades PROVE StopsFollow(held[i])
    BY <1>1, <2>1 DEF StopInv
  <2>2. QED
    BY <2>1 DEF StopsFollowPeak
<1>2. QED
  BY <1>1, StopsHold, PTL

(* A trade is sold by a stop only at or below that stop as it is stored: the  *)
(* loop acts on what it listed and wrote, and no other actor or failed write *)
(* makes that differ; of the two stops the higher one counts and gives its    *)
(* name (effective_stop_loss).                                              *)
THEOREM SoldAsStored == AutoSpec => []ExitsAsStored
<1>1. AutoInv /\ StopInv => ExitsAsStored
  <2> SUFFICES ASSUME AutoInv, StopInv, manager.at = "closing", manager.id \in OpenTrades
               PROVE  SoldBy(manager.reason, held[manager.id], manager.price)
    BY DEF ExitsAsStored
  <2>1. manager.id # NoId /\ AheadOf("closing", manager.t, held[manager.id])
    BY Values DEF StopInv, OpenTrades
  <2>2. SoldBy(manager.reason, manager.t, manager.price)
    BY <2>1 DEF StopInv, HandFollows
  <2>3. QED
    BY <2>1, <2>2 DEF SoldBy, AheadOf
<1>2. QED
  BY <1>1, AutoInvariant, StopsHold, PTL
=============================================================================
