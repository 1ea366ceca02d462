---------------------------- MODULE PaperLedger ----------------------------
(***************************************************************************)
(* The paper portfolio in PostgreSQL: one cash row of virtual_wallet that   *)
(* two books debit and credit, the main book (positions/trades, written by  *)
(* the analyzer) and the auto book (auto_paper_trades).  Every writer takes *)
(* the advisory lock "paper_portfolio_open" as its first statement, reads   *)
(* the cash, and writes an ABSOLUTE value back.                             *)
(*                                                                          *)
(* A request is first stamped (time.time() in the coroutine) and queued for *)
(* the thread pool; Begin is the locked read phase of its transaction and   *)
(* Commit* the write phase.  Prices, quantities and commissions enter only  *)
(* through two amounts per trade: the debit of the buy leg and the credit   *)
(* of the sell leg, both with commission, so the PnL is credit - debit.     *)
(***************************************************************************)
EXTENDS Integers, FiniteSets

CONSTANTS
  Ids,           (* trade rows that may ever be written                     *)
  Symbols,       (* traded symbols                                          *)
  Notes,         (* notification ids that may trigger an auto trade         *)
  Nil,           (* "NULL"                                                  *)
  Amounts,       (* money amounts a leg may have                            *)
  Initial,       (* config.INITIAL_BALANCE_TRY                              *)
  MaxMain,       (* config.MAX_OPEN_POSITIONS, 0 = unlimited                *)
  MaxAuto,       (* auto paper max_open_positions, 0 = unlimited            *)
  MaxClock,      (* bound: time stamps that may be taken                    *)
  MaxInFlight,   (* bound: requests waiting for their transaction           *)
  Total(_)       (* the sum of a function from Ids to Amounts               *)

ASSUME IdsAssumption     == IsFiniteSet(Ids) /\ Nil \notin Ids \cup Symbols \cup Notes
ASSUME AmountsAssumption == Amounts \subseteq Nat /\ 0 \in Amounts
ASSUME BoundsAssumption  == {Initial, MaxMain, MaxAuto, MaxClock, MaxInFlight} \subseteq Nat
(* Total adds: it is 0 on the zero function and follows a change of one value. *)
ASSUME TotalAssumption ==
  /\ Total([i \in Ids |-> 0]) = 0
  /\ \A f \in [Ids -> Amounts] : Total(f) \in Int
  /\ \A f \in [Ids -> Amounts], i \in Ids, v \in Amounts :
       Total([f EXCEPT ![i] = v]) = Total(f) - f[i] + v

VARIABLES
  cash,     (* virtual_wallet.amount of the cash asset                      *)
  row,      (* trade rows of both books                                     *)
  cutoff,   (* llm_settings.portfolio_reset_at, 0 before the first reset    *)
  queue,    (* stamped requests waiting for their transaction               *)
  txn,      (* transactions between their locked read and their commit      *)
  clock,    (* last time stamp taken                                        *)
  settled   (* history: rows closed since the last reset committed          *)

vars == <<cash, row, cutoff, queue, txn, clock, settled>>

Books == {"main", "auto"}

Row == [status  : {"unused", "open", "closed", "void"},
        book    : Books, sym : Symbols, note : Notes \cup {Nil},
        debit   : Amounts, credit : Amounts,
        enterAt : Nat, exitAt : Nat]

Request == [op   : {"open", "close", "reset", "reconcile"},
            book : Books, id : Ids \cup {Nil},
            sym  : Symbols \cup {Nil}, note : Notes \cup {Nil},
            amt  : Amounts, at : Nat]

Txn == [req : Request, seen : Int]

TypeOK ==
  /\ cash \in Int
  /\ row \in [Ids -> Row]
  /\ cutoff \in Nat
  /\ queue \in SUBSET Request
  /\ txn \in SUBSET Txn
  /\ clock \in Nat
  /\ settled \in SUBSET Ids

---------------------------------------------------------------------------
(* What the SQL reads.                                                      *)

IsOpen(i, b)  == row[i].status = "open" /\ row[i].book = b
OpenRows(b)   == {i \in Ids : IsOpen(i, b)}
OpenOn(b, s)  == {i \in OpenRows(b) : row[i].sym = s}
Below(n, max) == max = 0 \/ n < max

(* A closed trade counts when its exit_time is after the reset cutoff.      *)
Counted(i) == row[i].status = "closed" /\ row[i].exitAt > cutoff

CreditOf(i) == IF Counted(i) THEN row[i].credit ELSE 0
DebitOf(i)  == IF Counted(i) \/ row[i].status = "open" THEN row[i].debit ELSE 0

(* _ReconcileFigures.cash(): initial + realised PnL - open cost and fees.   *)
Figures == Initial + Total([i \in Ids |-> CreditOf(i)]) - Total([i \in Ids |-> DebitOf(i)])

(* The chronological replay sees what the figures see, and the debit of an   *)
(* auto row that a reset closed after the cutoff.                            *)
ReplayDebitOf(i) ==
  IF row[i].status = "void" /\ row[i].book = "auto" /\ row[i].exitAt > cutoff
    THEN row[i].debit
    ELSE DebitOf(i)

(* Its cash right after row i was entered.                                  *)
Replayed(i) ==
  Initial
    + Total([j \in Ids |-> IF row[j].exitAt < row[i].enterAt THEN CreditOf(j) ELSE 0])
    - Total([j \in Ids |-> IF row[j].enterAt <= row[i].enterAt THEN ReplayDebitOf(j) ELSE 0])

OverAllocated == {i \in OpenRows("main") : Replayed(i) < 0}

(* Closed before the last reset committed, stamped after that reset's stamp. *)
Straddlers == {i \in Ids : Counted(i)} \ settled

---------------------------------------------------------------------------
(* Requests: the part of a handler that runs before its transaction.        *)

InFlight == queue \cup {t.req : t \in txn}

(* Mutant: handlers that do not take the analyzer's lock.                   *)
UnlockedMain == TRUE

(* The analyzer's asyncio lock: one main open or close at a time.           *)
MainIdle == \A r \in InFlight : r.op \in {"open", "close"} => r.book # "main"

Stamp ==
  /\ clock < MaxClock
  /\ Cardinality(queue) < MaxInFlight
  /\ clock' = clock + 1

Enqueue(r) ==
  /\ queue' = queue \cup {r}
  /\ UNCHANGED <<cash, row, cutoff, txn, settled>>

RequestMainOpen(i, s, d) ==
  /\ MainIdle
  /\ row[i].status = "unused" /\ \A r \in InFlight : r.id # i
  /\ OpenOn("main", s) = {}
  /\ Below(Cardinality(OpenRows("main")), MaxMain)
  /\ OpenOn("auto", s) = {}
  /\ Stamp
  /\ Enqueue([op |-> "open", book |-> "main", id |-> i, sym |-> s, note |-> Nil,
              amt |-> d, at |-> clock + 1])

RequestAutoOpen(i, s, n, d) ==
  /\ row[i].status = "unused" /\ \A r \in InFlight : r.id # i
  /\ OpenOn("auto", s) = {}
  /\ Below(Cardinality(OpenRows("auto")), MaxAuto)
  /\ Stamp
  /\ Enqueue([op |-> "open", book |-> "auto", id |-> i, sym |-> s, note |-> n,
              amt |-> d, at |-> clock + 1])

(* A main close is computed from the in-memory position, which may outlive   *)
(* its database row; an auto close re-reads the row.                         *)
RequestClose(i, c) ==
  /\ \/ row[i].status = "open"
     \/ /\ row[i].status = "void" /\ row[i].book = "main"
        /\ OpenOn("main", row[i].sym) = {}
  /\ row[i].book = "main" => MainIdle
  /\ Stamp
  /\ Enqueue([op |-> "close", book |-> row[i].book, id |-> i, sym |-> row[i].sym,
              note |-> Nil, amt |-> c, at |-> clock + 1])

RequestReset ==
  /\ Stamp
  /\ Enqueue([op |-> "reset", book |-> "main", id |-> Nil, sym |-> Nil, note |-> Nil,
              amt |-> 0, at |-> clock + 1])

RequestReconcile ==
  /\ Cardinality(queue) < MaxInFlight
  /\ UNCHANGED clock
  /\ Enqueue([op |-> "reconcile", book |-> "main", id |-> Nil, sym |-> Nil, note |-> Nil,
              amt |-> 0, at |-> 0])

---------------------------------------------------------------------------
(* Transactions.                                                            *)

(* Mutant: a reset that does not take the advisory lock.                    *)
UnlockedReset(op) == op \in {"open", "close", "reconcile"}

(* The operations whose first statement is the portfolio advisory lock.     *)
TakesLock(op) == op \in {"open", "close", "reset", "reconcile"}

(* Mutant: an open that trusts the balance read before the lock.            *)
MayOverspend(r) ==
  /\ OpenOn("main", r.sym) = {}
  /\ Below(Cardinality(OpenRows("main")), MaxMain)
  /\ r.amt > 0

MayOpenMain(r) ==
  /\ OpenOn("main", r.sym) = {}
  /\ Below(Cardinality(OpenRows("main")), MaxMain)
  /\ r.amt > 0 /\ cash >= r.amt

(* Mutants: an auto open that trusts what its handler read before the lock,  *)
(* the limit and symbol in the one, the notification in the other.          *)
MayExceedLimits(r) ==
  /\ OpenOn("main", r.sym) = {}
  /\ r.note # Nil => \A i \in Ids : row[i].status = "unused" \/ row[i].note # r.note
  /\ r.amt > 0 /\ cash >= r.amt

MayRepeatNotification(r) ==
  /\ OpenOn("auto", r.sym) = {}
  /\ Below(Cardinality(OpenRows("auto")), MaxAuto)
  /\ OpenOn("main", r.sym) = {}
  /\ r.amt > 0 /\ cash >= r.amt

MayOpenAuto(r) ==
  /\ OpenOn("auto", r.sym) = {}
  /\ Below(Cardinality(OpenRows("auto")), MaxAuto)
  /\ OpenOn("main", r.sym) = {}
  /\ r.note # Nil => \A i \in Ids : row[i].status = "unused" \/ row[i].note # r.note
  /\ r.amt > 0 /\ cash >= r.amt

(* Mutant: an auto close that updates by id without status = 'open'.         *)
MayCloseAgain(r) ==
  IF r.book = "main" THEN OpenOn("main", r.sym) # {} ELSE row[r.id].status # "unused"

MayClose(r) == IF r.book = "main" THEN OpenOn("main", r.sym) # {} ELSE IsOpen(r.id, "auto")

Admissible(r) ==
  /\ r.op = "open" /\ r.book = "main" => MayOpenMain(r)
  /\ r.op = "open" /\ r.book = "auto" => MayOpenAuto(r)
  /\ r.op = "close" => MayClose(r)

(* Lock, read, decide: a refused request ends here without a write.         *)
Begin(r) ==
  /\ r \in queue
  /\ TakesLock(r.op) => \A t \in txn : ~TakesLock(t.req.op)
  /\ queue' = queue \ {r}
  /\ txn' = IF Admissible(r)
              THEN txn \cup {[req |-> r, seen |-> IF r.op = "reconcile" THEN Figures ELSE cash]}
              ELSE txn
  /\ UNCHANGED <<cash, row, cutoff, clock, settled>>

CommitOpen(t) ==
  /\ t \in txn /\ t.req.op = "open"
  /\ cash' = t.seen - t.req.amt
  /\ row' = [row EXCEPT ![t.req.id] =
               [status |-> "open", book |-> t.req.book, sym |-> t.req.sym,
                note |-> t.req.note, debit |-> t.req.amt, credit |-> 0,
                enterAt |-> t.req.at, exitAt |-> 0]]
  /\ txn' = txn \ {t}
  /\ UNCHANGED <<cutoff, queue, clock, settled>>

(* Mutant: an auto close that books the profit instead of the proceeds.      *)
CloseRowAtProfit(r, i) ==
  IF i = r.id
    THEN [row[i] EXCEPT !.status = "closed", !.credit = r.amt - row[i].debit, !.exitAt = r.at]
    ELSE IF r.book = "main" /\ i \in OpenOn("main", r.sym)
           THEN [row[i] EXCEPT !.status = "void"]
           ELSE row[i]

(* A main close deletes whatever position its symbol has and inserts the     *)
(* trade computed beforehand; an auto close updates its own row.             *)
CloseRow(r, i) ==
  IF i = r.id
    THEN [row[i] EXCEPT !.status = "closed", !.credit = r.amt, !.exitAt = r.at]
    ELSE IF r.book = "main" /\ i \in OpenOn("main", r.sym)
           THEN [row[i] EXCEPT !.status = "void"]
           ELSE row[i]

CommitClose(t) ==
  /\ t \in txn /\ t.req.op = "close"
  /\ cash' = t.seen + t.req.amt
  /\ row' = [i \in Ids |-> CloseRow(t.req, i)]
  /\ settled' = settled \cup {t.req.id}
  /\ txn' = txn \ {t}
  /\ UNCHANGED <<cutoff, queue, clock>>

(* Voiding stands for an auto row closed as 'reset' without PnL and for a    *)
(* deleted main position.                                                    *)
VoidRows(S, at) ==
  [i \in Ids |-> IF i \in S THEN [row[i] EXCEPT !.status = "void", !.exitAt = at] ELSE row[i]]

CommitReset(t) ==
  /\ t \in txn /\ t.req.op = "reset"
  /\ cash' = Initial
  /\ row' = VoidRows(OpenRows("main") \cup OpenRows("auto"), t.req.at)
  /\ cutoff' = t.req.at
  /\ settled' = {}
  /\ txn' = txn \ {t}
  /\ UNCHANGED <<queue, clock>>

(* Over-allocated positions go only when the figures really are negative.   *)
CommitReconcile(t) ==
  /\ t \in txn /\ t.req.op = "reconcile"
  /\ UNCHANGED <<cutoff, queue, clock, settled>>
  /\ LET removed == IF t.seen < 0 THEN OverAllocated ELSE {}
     IN  /\ row' = VoidRows(removed, 0)
         /\ cash' = IF removed = {} THEN t.seen ELSE Figures'
  /\ txn' = txn \ {t}

(* A statement fails and the transaction is rolled back.                    *)
Abort(t) ==
  /\ t \in txn
  /\ txn' = txn \ {t}
  /\ UNCHANGED <<cash, row, cutoff, queue, clock, settled>>

(* The process dies: open transactions roll back, stamped requests are lost; *)
(* init_db rebuilds a cash row that is not positive.                         *)
Restart ==
  /\ queue' = {} /\ txn' = {}
  /\ cash' = IF cash <= 0 THEN Figures ELSE cash
  /\ UNCHANGED <<row, cutoff, clock, settled>>

---------------------------------------------------------------------------
Init ==
  /\ cash = Initial
  /\ \E s \in Symbols :
       row = [i \in Ids |-> [status |-> "unused", book |-> "main", sym |-> s, note |-> Nil,
                             debit |-> 0, credit |-> 0, enterAt |-> 0, exitAt |-> 0]]
  /\ cutoff = 0
  /\ queue = {} /\ txn = {}
  /\ clock = 0
  /\ settled = {}

NextRequest ==
  \/ \E i \in Ids, s \in Symbols, d \in Amounts \ {0} : RequestMainOpen(i, s, d)
  \/ \E i \in Ids, s \in Symbols, n \in Notes \cup {Nil}, d \in Amounts \ {0} : RequestAutoOpen(i, s, n, d)
  \/ \E i \in Ids, c \in Amounts \ {0} : RequestClose(i, c)
  \/ RequestReset
  \/ RequestReconcile

NextTxn ==
  \/ \E r \in queue : Begin(r)
  \/ \E t \in txn : CommitOpen(t) \/ CommitClose(t) \/ CommitReset(t) \/ CommitReconcile(t) \/ Abort(t)

Next == NextRequest \/ NextTxn \/ Restart

Spec == Init /\ [][Next]_vars

---------------------------------------------------------------------------
(* Unless a close straddled a reset, reconciling is a no-op: the cash row is *)
(* exactly the initial balance plus the PnL of the counted closed trades     *)
(* minus what the open rows cost (reconcile_portfolio, _ReconcileFigures).   *)
LedgerBalanced == Straddlers = {} => cash = Figures

(* Unless a close straddled a reset, no interleaving of opens, closes,       *)
(* resets and reconciliations spends money that is not there                 *)
(* (insufficient_paper_balance, insufficient_balance).                       *)
CashCovered == Straddlers = {} => cash >= 0

(* Each book holds at most one open row per symbol and respects its limit,   *)
(* whatever the requests counted before they got the lock (already_open,     *)
(* max_open_positions_reached, max_open).                                    *)
BooksWithinLimits ==
  /\ \A b \in Books, s \in Symbols : Cardinality(OpenOn(b, s)) <= 1
  /\ MaxMain > 0 => Cardinality(OpenRows("main")) <= MaxMain
  /\ MaxAuto > 0 => Cardinality(OpenRows("auto")) <= MaxAuto

(* A notification is turned into at most one auto trade, even when several   *)
(* scans deliver it at once (the churn check of open_auto_paper_trade).      *)
OneTradePerNotification ==
  \A i, j \in Ids :
    row[i].status # "unused" /\ row[j].status # "unused" /\ row[i].note = row[j].note /\ i # j
      => row[i].note = Nil

(* A trade is settled once: its closed row never changes again, so no two    *)
(* closers credit the wallet for it (close_auto_paper_trade returns False,   *)
(* commit_close_position raises paper_position_not_found).                   *)
SettledOnce == [][\A i \in Ids : row[i].status = "closed" => row'[i] = row[i]]_vars

(* A row without its stamps; of a row that was never written nothing.        *)
Shown(i) ==
  [status |-> row[i].status, book |-> row[i].book, note |-> row[i].note,
   sym |-> IF row[i].status = "unused" THEN Nil ELSE row[i].sym,
   debit |-> row[i].debit, credit |-> row[i].credit]

Atomic == INSTANCE AtomicLedger WITH
  Limit   <- [b \in Books |-> IF b = "main" THEN MaxMain ELSE MaxAuto],
  wallet  <- cash,
  trade   <- [i \in Ids |-> Shown(i)],
  counted <- {i \in Ids : Counted(i)}

(* Every transaction of either book takes effect at one instant, as if its    *)
(* request had been decided and carried out there: nothing that its handler  *)
(* read or stamped earlier, and no other writer, shows in the result (the    *)
(* advisory lock "paper_portfolio_open" and the checks repeated under it).   *)
AtomicLedgerSpec == Atomic!Spec

(* The claim of the reset and reconcile comments, without the exception:     *)
(* closed trades from before a reset never come back into the cash.          *)
ReconcileIsNoOp == cash = Figures

(* The D-10 claim: a symbol is never open in both books at once.             *)
OneBookPerSymbol ==
  \A s \in Symbols : OpenOn("main", s) = {} \/ OpenOn("auto", s) = {}

(* The claim of the P0-3 comment and of list_auto_paper_trades: rows entered *)
(* before the reset cutoff belong to another wallet, so the management loop, *)
(* which lists the open rows entered since, misses none.                     *)
EveryOpenRowManaged == \A i \in OpenRows("auto") : row[i].enterAt >= cutoff

=============================================================================
