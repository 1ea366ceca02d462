---------------------------- MODULE CombinedPaper ----------------------------
(***************************************************************************)
(* The combined paper portfolio: trades opened from the list that was sent  *)
(* to the group, managed by one loop, closed by it or by hand, in a wallet  *)
(* of its own.  Opens and closes hold the advisory lock                     *)
(* combined_paper_open for their transaction; a reset takes no lock.        *)
(*                                                                          *)
(* A trade buys one lot for Stake.  Prices are levels relative to its       *)
(* entry: gain 0 is the entry price, -Stake the price zero.                 *)
(***************************************************************************)
EXTENDS Integers, FiniteSets

CONSTANTS
  Symbols,
  Ids,           (* bound: rows of combined_paper_trades at one time        *)
  Openers,       (* coroutines that open from a list: scheduled, by hand    *)
  Nil,
  Gains,         (* price levels, relative to the entry                     *)
  Stake, Fee,    (* what a lot costs; commission (and slippage) of one leg  *)
  Balances,      (* balances a reset may set                                *)
  MaxOpen,       (* COMBINED_PAPER_MAX_OPEN, 0 = unlimited                  *)
  Target, Loss,  (* take profit and stop loss, as distances from the entry  *)
  Trigger, Gap,  (* COMBINED_PAPER_TRAIL_TRIGGER_PCT, ..._GAP_PCT           *)
  FirstGap,      (* min(gap, 1 %)                                           *)
  Floor,         (* both commissions and a margin: the net positive base    *)
  NoProfitAge,   (* COMBINED_PAPER_NO_PROFIT_MIN                            *)
  MaxAge,        (* COMBINED_PAPER_MAX_HOLD_MIN                             *)
  MaxCash,       (* bound: opens start with at most this much cash          *)
  Total(_)       (* the sum of a function from Ids to Effects               *)

ASSUME LevelAssumption ==
  /\ Gains \subseteq Int /\ {0, Target, -Loss} \subseteq Gains
  /\ {Stake, Fee, MaxOpen, MaxCash, FirstGap, NoProfitAge, MaxAge} \subseteq Nat
  /\ {Target, Loss, Trigger, Gap, Floor} \subseteq Nat
  /\ \A g \in Gains : Fee <= Stake + g
  /\ Balances \subseteq Nat
ASSUME NameAssumption == IsFiniteSet(Ids) /\ Nil \notin Symbols \cup Ids \cup Openers
(* "aktivasyonda stop girisin altinda" is what a test forbids: the trigger   *)
(* is further away than the gap, and covers the costs.                      *)
ASSUME GapAssumption == Gap < Trigger /\ Floor < Trigger /\ FirstGap <= Gap

Reasons == {"none", "take_profit", "trailing_stop", "stop_loss", "no_profit_timeout",
            "max_duration", "manual_close"}

(* settle_close: a take profit is a resting order without commission here.  *)
ExitFee(reason) == IF reason = "take_profit" THEN 0 ELSE Fee
Pnl(reason, gain) == gain - Fee - ExitFee(reason)
Proceed(reason, gain) == Stake + gain - ExitFee(reason)
Debit == Stake + Fee

Effects == {0, -Debit} \cup {Pnl(reason, g) : reason \in Reasons, g \in Gains}

(* Total adds: it is 0 on the zero function and follows a change of one value. *)
ASSUME TotalAssumption ==
  /\ Total([i \in Ids |-> 0]) = 0
  /\ \A f \in [Ids -> Effects] : Total(f) \in Int
  /\ \A f \in [Ids -> Effects], i \in Ids, v \in Effects :
       Total([f EXCEPT ![i] = v]) = Total(f) - f[i] + v

VARIABLES
  cash,          (* combined_paper_wallet.amount                            *)
  trade,         (* combined_paper_trades                                   *)
  opener,        (* where each opener is                                    *)
  loop,          (* combined_paper_management_loop                          *)
  reset,         (* the transaction of a reset                              *)
  base,          (* history: balance set by the last reset                  *)
  crossed        (* history: the last reset overlapped an open              *)

vars == <<cash, trade, opener, loop, reset, base, crossed>>

Row == [status : {"none", "open", "closed"}, sym : Symbols \cup {Nil},
        peak : Gains, active : BOOLEAN, trail : Int,
        age : 0..MaxAge, pnl : Effects]

NoRow == [status |-> "none", sym |-> Nil, peak |-> 0, active |-> FALSE, trail |-> -Stake,
          age |-> 0, pnl |-> 0]

(* todo: the rows the round has listed and not managed yet, NoRow for the    *)
(* others; id, reason, gain and tries: the close under way; id, peak, trail  *)
(* and active: the tracking fields to be stored.                            *)
Loop == [at : {"asleep", "round", "closing", "updating"},
         todo : [Ids -> Row],
         id : Ids \cup {Nil}, reason : Reasons, gain : Gains, tries : 0..2,
         peak : Gains, active : BOOLEAN, trail : Int]

Nothing == [i \in Ids |-> NoRow]
Between(todo) ==
  [at |-> IF todo = Nothing THEN "asleep" ELSE "round", todo |-> todo, id |-> Nil,
   reason |-> "none", gain |-> 0, tries |-> 0, peak |-> 0, active |-> FALSE, trail |-> -Stake]

CombinedTypeOK ==
  /\ cash \in Int /\ base \in Nat
  /\ trade \in [Ids -> Row]
  /\ opener \in [Openers -> [at : {"idle", "writing"}, sym : Symbols \cup {Nil}, seen : Int]]
  /\ loop \in Loop
  /\ reset \in [on : BOOLEAN, doomed : SUBSET Ids, to : Nat]
  /\ crossed \in BOOLEAN

Rows == {i \in Ids : trade[i].status # "none"}
Open == {i \in Ids : trade[i].status = "open"}
Writing == {o \in Openers : opener[o].at = "writing"}

(* The rows a reset has deleted stay locked until it commits.               *)
Locked(i) == reset.on /\ i \in reset.doomed

---------------------------------------------------------------------------
(* on_combined_list_sent, one candidate at a time.  The plan, made from a    *)
(* fresh price and the cash of the moment, decides nothing: the transaction  *)
(* looks again, and goes on with the cash it has read.                      *)

Resting == [at |-> "idle", sym |-> Nil, seen |-> 0]

MayOpen(s) ==
  /\ \A i \in Open : trade[i].sym # s
  /\ MaxOpen = 0 \/ Cardinality(Open) < MaxOpen
  /\ Debit <= cash /\ cash <= MaxCash

(* Mutant: an open that does not wait for the advisory lock.                *)
BeginOpenUnlocked(o, s) ==
  /\ opener[o].at = "idle"
  /\ MayOpen(s)
  /\ opener' = [opener EXCEPT ![o] = [at |-> "writing", sym |-> s, seen |-> cash]]
  /\ UNCHANGED <<cash, trade, loop, reset, base, crossed>>

BeginOpen(o, s) ==
  /\ opener[o].at = "idle" /\ Writing = {}
  /\ MayOpen(s)
  /\ opener' = [opener EXCEPT ![o] = [at |-> "writing", sym |-> s, seen |-> cash]]
  /\ UNCHANGED <<cash, trade, loop, reset, base, crossed>>

(* A BIGSERIAL id is never given twice.                                     *)
Fresh(i) == i \notin Rows \cup {loop.id} /\ loop.todo[i] = NoRow

CommitOpen(o, i) ==
  /\ opener[o].at = "writing" /\ Fresh(i)
  /\ trade' = [trade EXCEPT ![i] = [NoRow EXCEPT !.status = "open", !.sym = opener[o].sym]]
  /\ cash' = opener[o].seen - Debit
  /\ opener' = [opener EXCEPT ![o] = Resting]
  /\ UNCHANGED <<loop, reset, base, crossed>>

FailOpen(o) ==
  /\ opener[o].at = "writing"
  /\ opener' = [opener EXCEPT ![o] = Resting]
  /\ UNCHANGED <<cash, trade, loop, reset, base, crossed>>

---------------------------------------------------------------------------
(* close_combined_paper_trade: one transaction under the lock.              *)

MayClose(i) == Writing = {} /\ ~Locked(i)

(* Of a closed row only what it settled is kept: nothing reads the rest.     *)
Settle(i, reason, gain) ==
  /\ trade' = [trade EXCEPT ![i] = [NoRow EXCEPT !.status = "closed", !.pnl = Pnl(reason, gain)]]
  /\ cash' = cash + Proceed(reason, gain)

(* Mutant: a close that does not look for status = 'open'.                  *)
CloseAnyway(i, reason, gain) ==
  IF trade[i].status # "none" THEN Settle(i, reason, gain) ELSE UNCHANGED <<trade, cash>>

Close(i, reason, gain) ==
  IF trade[i].status = "open" THEN Settle(i, reason, gain) ELSE UNCHANGED <<trade, cash>>

---------------------------------------------------------------------------
(* The management loop.                                                     *)

BeginRound ==
  /\ loop.at = "asleep"
  /\ loop' = Between([i \in Ids |-> IF i \in Open THEN trade[i] ELSE NoRow])
  /\ UNCHANGED <<cash, trade, opener, reset, base, crossed>>

Rest(i) == [loop.todo EXCEPT ![i] = NoRow]

Larger(a, b) == IF a > b THEN a ELSE b

Peak(t, p) == Larger(t.peak, p)
Triggered(t, p) == Peak(t, p) >= Trigger

(* Mutant: a trailing stop that follows the price and not its peak.         *)
TrailOfPrice(t, p) ==
  LET wanted == Larger(p - Gap, Floor)
  IN  IF ~t.active /\ wanted >= p THEN p - FirstGap ELSE wanted

(* The stop of the first activation stays below the price.                  *)
Trail(t, p) ==
  LET wanted == Larger(Peak(t, p) - Gap, Floor)
  IN  Larger(t.trail, IF ~t.active /\ wanted >= p THEN p - FirstGap ELSE wanted)

Stop(t, p) == IF Triggered(t, p) THEN Larger(-Loss, Trail(t, p)) ELSE -Loss

(* Mutant: the target is kept when the trailing stop takes over.            *)
HitsTargetAlways(t, p) == p >= Target

HitsTarget(t, p) == p >= Target /\ ~t.active

(* Mutant: no maximal duration.                                             *)
VerdictUntimed(t, p) ==
  IF HitsTarget(t, p) THEN "take_profit"
  ELSE IF p <= Stop(t, p) THEN IF Triggered(t, p) \/ t.active THEN "trailing_stop" ELSE "stop_loss"
  ELSE IF t.age >= NoProfitAge /\ Peak(t, p) <= 0 THEN "no_profit_timeout"
  ELSE "none"

(* What _manage_single decides: the reason of a close, or "none".           *)
Verdict(t, p) ==
  IF HitsTarget(t, p) THEN "take_profit"
  ELSE IF p <= Stop(t, p) THEN IF Triggered(t, p) \/ t.active THEN "trailing_stop" ELSE "stop_loss"
  ELSE IF t.age >= NoProfitAge /\ Peak(t, p) <= 0 THEN "no_profit_timeout"
  ELSE IF t.age >= MaxAge THEN "max_duration"
  ELSE "none"

(* exit_fill: the target is not exceeded; a stop that was jumped over fills  *)
(* at the price.                                                            *)
Fill(t, p) == IF HitsTarget(t, p) THEN Target ELSE p

Manage(i, p) ==
  /\ loop.at = "round" /\ loop.todo[i] # NoRow
  /\ LET t == loop.todo[i]
         next == [Between(Rest(i)) EXCEPT !.id = i]
     IN  loop' = IF Verdict(t, p) # "none"
                   THEN [next EXCEPT !.at = "closing", !.reason = Verdict(t, p),
                                     !.gain = Fill(t, p), !.tries = 1]
                   ELSE [next EXCEPT !.at = "updating", !.peak = Peak(t, p),
                                     !.active = t.active \/ Triggered(t, p),
                                     !.trail = IF Triggered(t, p) THEN Trail(t, p) ELSE t.trail]
  /\ UNCHANGED <<cash, trade, opener, reset, base, crossed>>

(* No price, neither live nor over REST: the trade is left as it is.        *)
SkipTrade(i) ==
  /\ loop.at = "round" /\ loop.todo[i] # NoRow
  /\ loop' = Between(Rest(i))
  /\ UNCHANGED <<cash, trade, opener, reset, base, crossed>>

(* Mutant: a close is tried until it yields something.                      *)
RetriedForever == [loop EXCEPT !.tries = @ + 1]

(* _close: a close that yields nothing is tried once more.                  *)
Retried == IF loop.tries = 1 THEN [loop EXCEPT !.tries = 2] ELSE Between(loop.todo)

LoopClose ==
  /\ loop.at = "closing" /\ MayClose(loop.id)
  /\ Close(loop.id, loop.reason, loop.gain)
  /\ loop' = IF trade[loop.id].status = "open" THEN Between(loop.todo) ELSE Retried
  /\ UNCHANGED <<opener, reset, base, crossed>>

LoopCloseFails ==
  /\ loop.at = "closing"
  /\ loop' = Retried
  /\ UNCHANGED <<cash, trade, opener, reset, base, crossed>>

(* Mutant: the peak is stored, the stop that belongs to it is not.          *)
UpdatePeakOnly ==
  /\ loop.at = "updating" /\ ~Locked(loop.id)
  /\ trade' = IF loop.id \in Open THEN [trade EXCEPT ![loop.id].peak = loop.peak] ELSE trade
  /\ loop' = Between(loop.todo)
  /\ UNCHANGED <<cash, opener, reset, base, crossed>>

(* update_combined_paper_trade, by id: a row that was closed or deleted       *)
(* meanwhile takes nothing from it that is read again.                      *)
Update ==
  /\ loop.at = "updating" /\ ~Locked(loop.id)
  /\ trade' = IF loop.id \in Open
                THEN [trade EXCEPT ![loop.id] = [@ EXCEPT !.peak = loop.peak, !.active = loop.active,
                                                          !.trail = loop.trail]]
                ELSE trade
  /\ loop' = Between(loop.todo)
  /\ UNCHANGED <<cash, opener, reset, base, crossed>>

UpdateFails ==
  /\ loop.at = "updating"
  /\ loop' = Between(loop.todo)
  /\ UNCHANGED <<cash, trade, opener, reset, base, crossed>>

---------------------------------------------------------------------------
(* combined_paper_close, the endpoint.  The list of open rows in which the   *)
(* trade is looked up decides nothing: the transaction looks again.         *)

AdminClose(i, p) ==
  /\ MayClose(i)
  /\ Close(i, "manual_close", p)
  /\ UNCHANGED <<opener, loop, reset, base, crossed>>

---------------------------------------------------------------------------
(* reset_combined_paper_portfolio: the rows that are there are deleted, then *)
(* the wallet is set; no lock keeps opens out in between.                   *)

NoReset == [on |-> FALSE, doomed |-> {}, to |-> 0]

BeginReset(to) ==
  /\ ~reset.on
  /\ reset' = [on |-> TRUE, doomed |-> Rows, to |-> to]
  /\ UNCHANGED <<cash, trade, opener, loop, base, crossed>>

CommitReset ==
  /\ reset.on
  /\ trade' = [i \in Ids |-> IF i \in reset.doomed THEN NoRow ELSE trade[i]]
  /\ cash' = reset.to /\ base' = reset.to
  /\ crossed' = (Writing # {} \/ Rows \ reset.doomed # {})
  /\ reset' = NoReset
  /\ UNCHANGED <<opener, loop>>

FailReset ==
  /\ reset.on
  /\ reset' = NoReset
  /\ UNCHANGED <<cash, trade, opener, loop, base, crossed>>

---------------------------------------------------------------------------
TimePasses ==
  /\ \E i \in Open : trade[i].age < MaxAge
  /\ trade' = [i \in Ids |-> IF i \in Open /\ trade[i].age < MaxAge
                              THEN [trade[i] EXCEPT !.age = @ + 1] ELSE trade[i]]
  /\ UNCHANGED <<cash, opener, loop, reset, base, crossed>>

(* The process restarts; the database rolls open transactions back.         *)
Restart ==
  /\ opener' = [o \in Openers |-> Resting]
  /\ loop' = Between(Nothing) /\ reset' = NoReset
  /\ UNCHANGED <<cash, trade, base, crossed>>

Init ==
  /\ trade = [i \in Ids |-> NoRow]
  /\ base \in Balances /\ cash = base
  /\ opener = [o \in Openers |-> Resting]
  /\ loop = Between(Nothing) /\ reset = NoReset
  /\ crossed = FALSE

Ordinary ==
  \/ \E o \in Openers :
       \/ \E s \in Symbols : BeginOpen(o, s)
       \/ FailOpen(o)
       \/ \E i \in Ids : CommitOpen(o, i)
  \/ BeginRound
  \/ \E i \in Ids : SkipTrade(i) \/ \E p \in Gains : Manage(i, p) \/ AdminClose(i, p)
  \/ LoopClose \/ LoopCloseFails \/ Update \/ UpdateFails
  \/ CommitReset \/ FailReset
  \/ TimePasses

Next == Ordinary \/ (\E to \in Balances : BeginReset(to)) \/ Restart

EndOpen == \E o \in Openers : FailOpen(o) \/ \E i \in Ids : CommitOpen(o, i)
EndReset == CommitReset \/ FailReset
EndUpdate == Update \/ UpdateFails

(* The loop keeps its rounds, time passes and transactions end; and for      *)
(* every trade a price can be read, and the database answers, again and      *)
(* again.                                                                   *)
Fairness ==
  /\ WF_vars(TimePasses) /\ WF_vars(BeginRound)
  /\ WF_vars(EndOpen) /\ WF_vars(EndReset) /\ WF_vars(EndUpdate)
  /\ \A i \in Ids : SF_vars(\E p \in Gains : Manage(i, p)) /\ SF_vars(LoopClose /\ loop.id = i)

Spec == Init /\ [][Next]_vars /\ Fairness

---------------------------------------------------------------------------
Effect(i) ==
  CASE trade[i].status = "none"   -> 0
    [] trade[i].status = "open"   -> -Debit
    [] trade[i].status = "closed" -> trade[i].pnl

(* The wallet is the balance of the last reset, minus what the open trades   *)
(* cost, plus the profits recorded with the closed ones: no open or close,   *)
(* by the loop, by hand or retried, is lost or booked twice - unless the     *)
(* reset overlapped an open, which the next reset repairs.                   *)
WalletBalanced == ~crossed => cash = base + Total([i \in Ids |-> Effect(i)])

(* However many lists are sent at once: one open trade per symbol, not more  *)
(* than the limit, and never more spent than there is.                      *)
WithinLimits ==
  /\ \A i, j \in Open : trade[i].sym = trade[j].sym => i = j
  /\ MaxOpen = 0 \/ Cardinality(Open) <= MaxOpen
  /\ cash >= 0

(* A peak that passed the trigger is stored together with its stop: however  *)
(* rounds are interrupted or updates fail, a trade is never found with the   *)
(* peak of a winner and the stop of a beginner.                             *)
ProfitLocked ==
  \A i \in Open : trade[i].peak >= Trigger =>
    trade[i].active /\ trade[i].trail >= Larger(trade[i].peak - Gap, Floor)

(* A stored trailing stop never moves down and is never switched off.       *)
StopNeverLoosens ==
  [][\A i \in Open : trade'[i].status = "open" =>
       trade'[i].trail >= trade[i].trail /\ (trade[i].active => trade'[i].active)]_vars

(* What a trade may be sold for at p, by its row.  "Trailing baglandiysa TP    *)
(* kaldirilir": one whose stop trails is not sold at its target.             *)
Justified(r, reason, p) ==
  /\ reason = "take_profit" => p = Target /\ ~r.active
  /\ reason = "trailing_stop" => (Triggered(r, p) \/ r.active) /\ p <= Stop(r, p)
  /\ reason = "stop_loss" => ~Triggered(r, p) /\ ~r.active /\ p <= -Loss
  /\ reason = "no_profit_timeout" => r.age >= NoProfitAge /\ Peak(r, p) <= 0
  /\ reason = "max_duration" => r.age >= MaxAge

(* The loop decides on a row as it listed it and sells up to two attempts     *)
(* later, with failed updates, closes by hand and resets in between: if the  *)
(* trade is still open, its row as it is stored by then gives the reason.     *)
SoldForCause ==
  loop.at = "closing" /\ trade[loop.id].status = "open" =>
    Justified(trade[loop.id], loop.reason, loop.gain)

(* No trade stays open for ever, whatever fails in between: it is closed     *)
(* once the process is no longer restarted and the portfolio no longer reset *)
(* again and again, as long as prices come back.                            *)
EveryTradeEnds ==
  <>[][Ordinary]_vars => \A i \in Ids : trade[i].status = "open" ~> trade[i].status # "open"
=============================================================================
