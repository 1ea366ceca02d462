---------------------------- MODULE AnalyzerBook ----------------------------
(***************************************************************************)
(* The analyzer's open positions, held twice: self.positions in memory,     *)
(* which the strategy loop manages, and the positions table, which survives *)
(* a restart.  Opens and closes are serialised by _open_position_lock; the  *)
(* profit lock of a velocity position is saved, and a portfolio reset runs, *)
(* without it.                                                              *)
(*                                                                          *)
(* Composed with StrategyBreaker: an open first asks the breaker's gate, a  *)
(* close ends with the breaker's evaluation, still under the lock.  A       *)
(* position is its trade id, its strategy and whether its profit lock is    *)
(* armed; prices only decide, from outside, which operation comes.          *)
(***************************************************************************)
EXTENDS StrategyBreaker

CONSTANTS
  Symbols,     (* traded symbols                                           *)
  Ids,         (* bound: trade ids that may be given to positions          *)
  Velocity,    (* CHAT_PREDICTION and GLOBAL_LEAD_LAG                      *)
  Loop         (* the task that runs strategy_loop                         *)

ASSUME BookAssumption ==
  /\ Nil \notin Symbols \cup Ids
  /\ Velocity \subseteq Strategies
  /\ Loop \in Tasks

VARIABLES
  mem,         (* self.positions                                           *)
  row,         (* the positions table                                      *)
  sold,        (* trade ids of the trades table                            *)
  bookLock,    (* holder of _open_position_lock, or Nil                    *)
  job,         (* the operation each task is in                            *)
  reset,       (* the portfolio reset under way, and what it removes       *)
  crossed      (* history: a reset, a save or a reload took effect on top  *)
               (* of another operation since the process started           *)

bookVars == <<mem, row, sold, bookLock, job, reset, crossed>>
vars == <<breakerVars, bookVars>>

None == [id |-> Nil, strat |-> Nil, armed |-> FALSE]
Position == [id : Ids, strat : Strategies, armed : BOOLEAN] \cup {None}
Book == [Symbols -> Position]
Empty == [s \in Symbols |-> None]

Job == [op : {"none", "open", "close", "save"},
        at : {"idle", "gate", "queued", "reading", "committing", "reloading", "removing", "closed", "judging", "saving"},
        sym : Symbols \cup {Nil}, strat : Strategies \cup {Nil}, pos : Position,
        read : Book]                     (* positions read from the table    *)

Free == [op |-> "none", at |-> "idle", sym |-> Nil, strat |-> Nil,
         pos |-> None, read |-> Empty]

Reset == [at : {"none", "cleared", "wiped"}, of : SUBSET Symbols]
NoReset == [at |-> "none", of |-> {}]

BookTypeOK ==
  /\ mem \in Book /\ row \in Book
  /\ sold \in SUBSET Ids
  /\ bookLock \in Tasks \cup {Nil}
  /\ job \in [Tasks -> Job]
  /\ reset \in Reset
  /\ crossed \in BOOLEAN

Idling(t) == job[t].at = "idle" /\ call[t].at = "idle"

At(t, op, stage) == job[t].op = op /\ job[t].at = stage

Used(i) ==
  \/ i \in sold
  \/ \E s \in Symbols : i \in {mem[s].id, row[s].id}
  \/ \E t \in Tasks : i = job[t].pos.id

Working == {t \in Tasks : job[t].at \notin {"idle", "gate", "queued"}}

End(t) == job' = [job EXCEPT ![t] = Free]

---------------------------------------------------------------------------
(* open_position.  The strategy loop itself only opens for paper orders,    *)
(* whose strategy is LLM_PAPER.                                             *)

AskOpen(t, s, k) ==
  /\ Idling(t)
  /\ t = Loop => k \notin Velocity
  /\ AskGate(t, k)
  /\ job' = [job EXCEPT ![t] = [Free EXCEPT !.op = "open", !.at = "gate", !.sym = s, !.strat = k]]
  /\ UNCHANGED <<mem, row, sold, bookLock, reset, crossed>>

(* BUY_BLOCKED strategy_paused, or on to the lock.                          *)
PassGate(t) ==
  /\ At(t, "open", "gate")
  /\ Stage(t, "gate", "done")
  /\ Return(t)
  /\ job' = [job EXCEPT ![t] = IF call[t].cleared
                                 THEN [@ EXCEPT !.at = "queued"]
                                 ELSE Free]
  /\ UNCHANGED <<mem, row, sold, bookLock, reset, crossed>>

(* Under the lock the table is read, and the symbol is looked up in it.     *)
EnterOpen(t) ==
  /\ At(t, "open", "queued")
  /\ bookLock = Nil
  /\ bookLock' = t
  /\ job' = [job EXCEPT ![t].at = "reading", ![t].read = row]
  /\ UNCHANGED <<breakerVars, mem, row, sold, reset, crossed>>

(* A passive symbol or an LLM guard refuses before the table is looked at;  *)
(* then a position the memory had lost is taken over, and an open one, the  *)
(* limit, the auto book, a re-entry block or the balance refuses.           *)
RefuseOpen(t) ==
  /\ At(t, "open", "reading")
  /\ \/ UNCHANGED mem
     \/ LET s == job[t].sym IN
        mem[s] = None /\ mem' = [mem EXCEPT ![s] = job[t].read[s]]
  /\ bookLock' = Nil
  /\ End(t)
  /\ UNCHANGED <<breakerVars, row, sold, reset, crossed>>

EnterMemory(t, i) ==
  /\ At(t, "open", "reading")
  /\ LET s == job[t].sym
         pos == [id |-> i, strat |-> job[t].strat, armed |-> FALSE]
     IN  /\ mem[s] = None /\ job[t].read[s] = None
         /\ ~Used(i)
         /\ mem' = [mem EXCEPT ![s] = pos]
         /\ job' = [job EXCEPT ![t].at = "committing", ![t].pos = pos, ![t].read = Empty]
  /\ UNCHANGED <<breakerVars, row, sold, bookLock, reset, crossed>>

CommitOpen(t) ==
  /\ At(t, "open", "committing")
  /\ row[job[t].sym] = None
  /\ row' = [row EXCEPT ![job[t].sym] = job[t].pos]
  /\ bookLock' = Nil
  /\ End(t)
  /\ UNCHANGED <<breakerVars, mem, sold, reset, crossed>>

(* already_open, max_open_positions_reached, insufficient_paper_balance:    *)
(* memory gives the position up and is then replaced by the table.          *)
RejectOpen(t) ==
  /\ At(t, "open", "committing")
  /\ mem' = [mem EXCEPT ![job[t].sym] = None]
  /\ job' = [job EXCEPT ![t].at = "reloading", ![t].read = row]
  /\ UNCHANGED <<breakerVars, row, sold, bookLock, reset, crossed>>

(* Mutant: only the opened symbol is taken from the table.                  *)
ReloadOne(t) ==
  /\ At(t, "open", "reloading")
  /\ mem' = job[t].read[job[t].sym]
  /\ bookLock' = Nil
  /\ crossed' = (crossed \/ job[t].read # row \/ Working # {t})
  /\ End(t)
  /\ UNCHANGED <<breakerVars, row, sold, reset>>

Reload(t) ==
  /\ At(t, "open", "reloading")
  /\ mem' = job[t].read
  /\ bookLock' = Nil
  /\ crossed' = (crossed \/ job[t].read # row \/ Working # {t})
  /\ End(t)
  /\ UNCHANGED <<breakerVars, row, sold, reset>>

(* Mutant: an open that leaves its position in memory when the write fails. *)
FailOpenKeeping(t) ==
  /\ At(t, "open", "committing")
  /\ UNCHANGED mem
  /\ bookLock' = Nil
  /\ End(t)
  /\ UNCHANGED <<breakerVars, row, sold, reset, crossed>>

(* Any other database error: memory gives the position up, the error goes on. *)
FailOpen(t) ==
  /\ At(t, "open", "committing")
  /\ mem' = [mem EXCEPT ![job[t].sym] = None]
  /\ bookLock' = Nil
  /\ End(t)
  /\ UNCHANGED <<breakerVars, row, sold, reset, crossed>>

---------------------------------------------------------------------------
(* close_position.                                                          *)

AskClose(t, s) ==
  /\ Idling(t) /\ mem[s] # None
  /\ job' = [job EXCEPT ![t] = [Free EXCEPT !.op = "close", !.at = "queued", !.sym = s]]
  /\ UNCHANGED <<breakerVars, mem, row, sold, bookLock, reset, crossed>>

(* None is returned when somebody else closed the symbol meanwhile.         *)
EnterClose(t) ==
  /\ At(t, "close", "queued")
  /\ bookLock = Nil
  /\ IF mem[job[t].sym] = None
       THEN End(t) /\ UNCHANGED bookLock
       ELSE /\ bookLock' = t
            /\ job' = [job EXCEPT ![t].at = "committing", ![t].pos = mem[job[t].sym]]
  /\ UNCHANGED <<breakerVars, mem, row, sold, reset, crossed>>

CommitClose(t) ==
  /\ At(t, "close", "committing")
  /\ row[job[t].sym] # None /\ job[t].pos.id \notin sold
  /\ row' = [row EXCEPT ![job[t].sym] = None]
  /\ sold' = sold \cup {job[t].pos.id}
  /\ job' = [job EXCEPT ![t].at = "removing"]
  /\ UNCHANGED <<breakerVars, mem, bookLock, reset, crossed>>

(* paper_position_not_found, uq_trades_trade_id or a lost connection: the   *)
(* transaction is rolled back and memory keeps the position.                *)
FailClose(t) ==
  /\ At(t, "close", "committing")
  /\ bookLock' = Nil
  /\ End(t)
  /\ UNCHANGED <<breakerVars, mem, row, sold, reset, crossed>>

(* del self.positions[symbol]; a reset may have been first (KeyError).      *)
RemoveClosed(t) ==
  /\ At(t, "close", "removing")
  /\ mem' = [mem EXCEPT ![job[t].sym] = None]
  /\ IF mem[job[t].sym] = None
       THEN End(t) /\ bookLock' = Nil
       ELSE job' = [job EXCEPT ![t].at = "closed"] /\ UNCHANGED bookLock
  /\ UNCHANGED <<breakerVars, row, sold, reset, crossed>>

(* The re-entry guards are written, then the breaker judges the strategy.   *)
AskJudge(t) ==
  /\ At(t, "close", "closed")
  /\ AskEvaluate(t, job[t].pos.strat)
  /\ job' = [job EXCEPT ![t].at = "judging"]
  /\ UNCHANGED <<mem, row, sold, bookLock, reset, crossed>>

EndClose(t) ==
  /\ At(t, "close", "judging")
  /\ Return(t)
  /\ bookLock' = Nil
  /\ End(t)
  /\ UNCHANGED <<mem, row, sold, reset, crossed>>

---------------------------------------------------------------------------
(* _manage_open_position, the profit lock: armed in memory when the peak    *)
(* has reached its trigger, then saved without the book's lock.             *)

Arm(s) ==
  /\ Idling(Loop)
  /\ mem[s] # None /\ mem[s].strat \in Velocity /\ ~mem[s].armed
  /\ mem' = [mem EXCEPT ![s].armed = TRUE]
  /\ job' = [job EXCEPT ![Loop] = [Free EXCEPT !.op = "save", !.at = "saving", !.sym = s, !.pos = mem'[s]]]
  /\ UNCHANGED <<breakerVars, row, sold, bookLock, reset, crossed>>

(* save_position inserts the row when it is gone; trade_id is unique.       *)
SaveArmed(t) ==
  /\ At(t, "save", "saving")
  /\ LET s == job[t].sym IN
     /\ row' = [row EXCEPT ![s] = job[t].pos]
     /\ crossed' = (crossed \/ row[s].id # job[t].pos.id)
  /\ End(t)
  /\ UNCHANGED <<breakerVars, mem, sold, bookLock, reset>>

(* The error is logged; the lock holds in memory only.                      *)
FailSave(t) ==
  /\ At(t, "save", "saving")
  /\ End(t)
  /\ UNCHANGED <<breakerVars, mem, row, sold, bookLock, reset, crossed>>

---------------------------------------------------------------------------
(* /api/reset empties memory and then the table, /api/auto-paper/reset the   *)
(* table and then memory, a reconciliation likewise for the symbols it       *)
(* voids; none takes the lock, so a position may be opened in between.      *)

Without(book, gone) == [s \in Symbols |-> IF s \in gone THEN None ELSE book[s]]

ResetStep(from, to, onTop) ==
  /\ reset = from /\ reset' = to
  /\ crossed' = (crossed \/ onTop \/ Working # {})
  /\ UNCHANGED <<breakerVars, sold, bookLock, job>>

ClearFirst ==
  /\ ResetStep(NoReset, [at |-> "cleared", of |-> Symbols], FALSE)
  /\ mem' = Empty /\ UNCHANGED row

WipeLast ==
  /\ ResetStep([at |-> "cleared", of |-> Symbols], NoReset, mem # Empty)
  /\ row' = Empty /\ UNCHANGED mem

WipeFirst(gone) ==
  /\ ResetStep(NoReset, [at |-> "wiped", of |-> gone], FALSE)
  /\ row' = Without(row, gone) /\ UNCHANGED mem

ClearLast(gone) ==
  /\ ResetStep([at |-> "wiped", of |-> gone], NoReset, \E s \in gone : row[s] # None)
  /\ mem' = Without(mem, gone) /\ UNCHANGED row

---------------------------------------------------------------------------
(* The rest of the breaker's interface.                                     *)

AskLift(t, k) ==
  /\ t # Loop /\ Idling(t)
  /\ AskResume(t, k)
  /\ UNCHANGED bookVars

EndLift(t) ==
  /\ Stage(t, "resume", "done")
  /\ Return(t)
  /\ UNCHANGED bookVars

BreakerStep(t) == Inside(t) /\ UNCHANGED bookVars

TimePasses == (\E k \in Strategies : Later(k)) /\ UNCHANGED bookVars

(* Mutant: load_positions without the runtime part of entry_context.        *)
RestartUnarmed ==
  /\ BreakerRestart
  /\ mem' = [s \in Symbols |-> [row[s] EXCEPT !.armed = FALSE]]
  /\ bookLock' = Nil /\ job' = [t \in Tasks |-> Free]
  /\ reset' = NoReset /\ crossed' = FALSE
  /\ UNCHANGED <<row, sold>>

(* The process dies; load_state fills memory from the table.                *)
Restart ==
  /\ BreakerRestart
  /\ mem' = row
  /\ bookLock' = Nil /\ job' = [t \in Tasks |-> Free]
  /\ reset' = NoReset /\ crossed' = FALSE
  /\ UNCHANGED <<row, sold>>

Init ==
  /\ BreakerInit
  /\ mem = Empty /\ row = Empty
  /\ sold = {} /\ bookLock = Nil
  /\ job = [t \in Tasks |-> Free]
  /\ reset = NoReset /\ crossed = FALSE

(* The steps that follow by themselves once an operation has begun.         *)
Proceed(t) ==
  \/ PassGate(t) \/ EnterOpen(t) \/ RefuseOpen(t) \/ (\E i \in Ids : EnterMemory(t, i))
  \/ CommitOpen(t) \/ RejectOpen(t) \/ Reload(t) \/ FailOpen(t)
  \/ EnterClose(t) \/ CommitClose(t) \/ FailClose(t) \/ RemoveClosed(t) \/ AskJudge(t) \/ EndClose(t)
  \/ SaveArmed(t) \/ FailSave(t)
  \/ BreakerStep(t) \/ EndLift(t)

Request(t) ==
  \/ \E s \in Symbols, k \in Strategies : AskOpen(t, s, k)
  \/ \E s \in Symbols : AskClose(t, s)
  \/ \E k \in Strategies : AskLift(t, k)

Next ==
  \/ \E t \in Tasks : Proceed(t) \/ Request(t)
  \/ \E s \in Symbols : Arm(s)
  \/ ClearFirst \/ WipeLast
  \/ \E gone \in SUBSET Symbols \ {{}} : WipeFirst(gone) \/ ClearLast(gone)
  \/ TimePasses
  \/ Restart

Spec == Init /\ [][Next]_vars

---------------------------------------------------------------------------
Settled(s) ==
  /\ reset = NoReset
  /\ \A t \in Working : job[t].sym # s /\ job[t].at # "reloading"

(* Between operations the strategy loop manages exactly the positions that   *)
(* the table holds, whatever opened, closed, failed or restarted; only a    *)
(* reset, a save or a reload on top of another operation breaks this        *)
(* (the zombie positions of the comment in _open_position_unlocked).        *)
BookAgrees == ~crossed => \A s \in Symbols : Settled(s) => mem[s].id = row[s].id

(* D-01: a profit lock that was stored is in force: the position the loop   *)
(* manages has it, also after any number of restarts.                       *)
FloorHeld ==
  ~crossed => \A s \in Symbols : row[s].armed /\ mem[s].id = row[s].id => mem[s].armed

=============================================================================
