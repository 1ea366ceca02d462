------------------------- MODULE AnalyzerBookProofs -------------------------
(***************************************************************************)
(* Proofs about AnalyzerBook for any tasks, symbols, strategies and trade   *)
(* ids.  The book uses the breaker only through its operations, so what is  *)
(* proved of the breaker holds in the composition; and what the lock's      *)
(* holder knows about its symbol at each await keeps memory and table       *)
(* together.                                                                *)
(***************************************************************************)
EXTENDS AnalyzerBook, StrategyBreakerProofs

(* Stages under _open_position_lock.                                        *)
Active == {"reading", "committing", "reloading", "removing", "closed", "judging"}

Holder == \A t \in Tasks : job[t].at \in Active => bookLock = t

(* An operation that has passed its first checks carries a position; only   *)
(* the strategy loop saves profit locks.                                    *)
Carries ==
  \A t \in Tasks :
    /\ job[t].at \in {"committing", "removing", "closed", "judging", "saving"} => job[t].pos # None
    /\ job[t].at = "saving" => t = Loop
    /\ job[t].at \notin {"idle"} => job[t].sym \in Symbols
    /\ job[t].op = "open" => job[t].strat \in Strategies

BookTypeInv == BookTypeOK /\ Holder /\ Carries

Agree(s) == mem[s].id = row[s].id

(* No reset has begun to remove s.                                          *)
Calm(s) == reset = NoReset \/ (reset.at = "wiped" /\ s \notin reset.of)

Busy(s) == \E t \in Tasks : job[t].at \in Active /\ (job[t].sym = s \/ job[t].at = "reloading")

(* What the holder of the lock knows about its symbol, stage by stage.      *)
Reading(t) ==
  LET s == job[t].sym IN
  job[t].at = "reading" => (mem[s] = None => job[t].read[s] = row[s]) /\ (Calm(s) => Agree(s))

Entering(t) ==
  LET s == job[t].sym IN
  At(t, "open", "committing") => row[s] = None /\ mem[s].id = job[t].pos.id /\ ~job[t].pos.armed

Leaving(t) ==
  LET s == job[t].sym IN
  /\ job[t].at = "removing" => row[s] = None
  /\ At(t, "close", "committing") \/ job[t].at \in {"closed", "judging"} => (Calm(s) => Agree(s))

(* A pending save of a profit lock is about the position managed now, or    *)
(* about one that is gone from the table for good.                          *)
Saving ==
  \A s \in Symbols : job[Loop].at = "saving" /\ job[Loop].sym = s =>
    /\ row[s].id = job[Loop].pos.id => mem[s].id = job[Loop].pos.id /\ mem[s].armed
    /\ \A t \in Tasks : At(t, "open", "committing") /\ job[t].sym = s /\ job[t].pos.id = job[Loop].pos.id
                          => mem[s].armed

Agreed == \A s \in Symbols : Calm(s) /\ ~Busy(s) => Agree(s)
Floored == \A s \in Symbols : row[s].armed /\ Agree(s) => mem[s].armed

Known == (\A t \in Tasks : Reading(t) /\ Entering(t) /\ Leaving(t)) /\ Saving /\ Agreed /\ Floored

BookInv == BookTypeInv /\ (~crossed => Known)
---------------------------------------------------------------------------
(* Types.                                                                   *)
LEMMA BookValues ==
  /\ None \in Position /\ Empty \in Book
  /\ \A p \in Position : p # None => p.id \in Ids /\ p.strat \in Strategies /\ p.armed \in BOOLEAN /\ p.id # Nil
  /\ None.id = Nil /\ None.armed = FALSE
BY BookAssumption DEF None, Position, Empty, Book

LEMMA FreeJob ==
  /\ Free \in Job
  /\ Free.op = "none" /\ Free.at = "idle" /\ Free.sym = Nil /\ Free.strat = Nil /\ Free.pos = None /\ Free.read = Empty
BY BookValues DEF Free, Job

Carrying == {"committing", "removing", "closed", "judging", "saving"}

(* One task's job changes.                                                  *)
JobOthers(t) == \A u \in Tasks : u # t => job'[u] = job[u]

CarriesOne(t, c) ==
  /\ c.at \in Carrying => c.pos # None
  /\ c.at = "saving" => t = Loop
  /\ c.at # "idle" => c.sym \in Symbols
  /\ c.op = "open" => c.strat \in Strategies

LEMMA SetJob ==
  ASSUME BookTypeInv, NEW t \in Tasks, NEW c \in Job, CarriesOne(t, c), job' = [job EXCEPT ![t] = c]
  PROVE  job' \in [Tasks -> Job] /\ Carries' /\ JobOthers(t) /\ job'[t] = c
BY DEF BookTypeInv, BookTypeOK, Carries, CarriesOne, Carrying, JobOthers

LEMMA JobFields ==
  ASSUME BookTypeInv, NEW t \in Tasks
  PROVE  /\ job[t] \in Job /\ CarriesOne(t, job[t])
         /\ job[t].pos \in Position /\ job[t].read \in Book
         /\ job[t].at # "idle" => job[t].sym \in Symbols
BY DEF BookTypeInv, BookTypeOK, Carries, CarriesOne, Carrying, Job

(* The job ends.                                                            *)
LEMMA EndJob ==
  ASSUME BookTypeInv, NEW t \in Tasks, End(t)
  PROVE  job' \in [Tasks -> Job] /\ Carries' /\ JobOthers(t) /\ job'[t].at = "idle"
<1>1. CarriesOne(t, Free)
  BY FreeJob DEF CarriesOne, Carrying
<1>2. QED
  BY <1>1, FreeJob, SetJob DEF End

(* The job goes on to another stage, with what it carries.                  *)
StageNames == {"queued", "reading", "committing", "reloading", "removing", "closed", "judging"}

JobStep(t, stage, pos, read) ==
  /\ job' \in [Tasks -> Job] /\ Carries' /\ JobOthers(t)
  /\ job'[t].op = job[t].op /\ job'[t].at = stage /\ job'[t].sym = job[t].sym
  /\ job'[t].strat = job[t].strat /\ job'[t].pos = pos /\ job'[t].read = read

LEMMA MoveJob ==
  ASSUME BookTypeInv, NEW t \in Tasks, job[t].at # "idle", NEW stage \in StageNames,
         stage \in Carrying => job[t].pos # None,
         job' = [job EXCEPT ![t].at = stage]
  PROVE  JobStep(t, stage, job[t].pos, job[t].read)
<1> DEFINE c == [job[t] EXCEPT !.at = stage]
<1>1. c \in Job /\ c.op = job[t].op /\ c.at = stage /\ c.sym = job[t].sym
      /\ c.strat = job[t].strat /\ c.pos = job[t].pos /\ c.read = job[t].read
  BY JobFields DEF Job, StageNames
<1>2. CarriesOne(t, c)
  BY <1>1, JobFields DEF CarriesOne, StageNames
<1>3. QED
  BY <1>1, <1>2, SetJob DEF JobStep

LEMMA MoveReadJob ==
  ASSUME BookTypeInv, NEW t \in Tasks, job[t].at # "idle", NEW stage \in StageNames \ Carrying,
         NEW read \in Book, job' = [job EXCEPT ![t].at = stage, ![t].read = read]
  PROVE  JobStep(t, stage, job[t].pos, read)
<1> DEFINE c == [job[t] EXCEPT !.at = stage, !.read = read]
<1>1. c \in Job /\ c.op = job[t].op /\ c.at = stage /\ c.sym = job[t].sym
      /\ c.strat = job[t].strat /\ c.pos = job[t].pos /\ c.read = read
  BY JobFields DEF Job, StageNames
<1>2. CarriesOne(t, c)
  BY <1>1, JobFields DEF CarriesOne, StageNames, Carrying
<1>3. QED
  BY <1>1, <1>2, SetJob DEF JobStep

LEMMA MovePosJob ==
  ASSUME BookTypeInv, NEW t \in Tasks, job[t].at # "idle", NEW stage \in StageNames,
         NEW pos \in Position, pos # None, job' = [job EXCEPT ![t].at = stage, ![t].pos = pos]
  PROVE  JobStep(t, stage, pos, job[t].read)
<1> DEFINE c == [job[t] EXCEPT !.at = stage, !.pos = pos]
<1>1. c \in Job /\ c.op = job[t].op /\ c.at = stage /\ c.sym = job[t].sym
      /\ c.strat = job[t].strat /\ c.pos = pos /\ c.read = job[t].read
  BY JobFields DEF Job, StageNames
<1>2. CarriesOne(t, c)
  BY <1>1, JobFields DEF CarriesOne, StageNames
<1>3. QED
  BY <1>1, <1>2, SetJob DEF JobStep

LEMMA MovePosReadJob ==
  ASSUME BookTypeInv, NEW t \in Tasks, job[t].at # "idle", NEW stage \in StageNames,
         NEW pos \in Position, pos # None, NEW read \in Book,
         job' = [job EXCEPT ![t].at = stage, ![t].pos = pos, ![t].read = read]
  PROVE  JobStep(t, stage, pos, read)
<1> DEFINE c == [job[t] EXCEPT !.at = stage, !.pos = pos, !.read = read]
<1>1. c \in Job /\ c.op = job[t].op /\ c.at = stage /\ c.sym = job[t].sym
      /\ c.strat = job[t].strat /\ c.pos = pos /\ c.read = read
  BY JobFields DEF Job, StageNames
<1>2. CarriesOne(t, c)
  BY <1>1, JobFields DEF CarriesOne, StageNames
<1>3. QED
  BY <1>1, <1>2, SetJob DEF JobStep

(* A new job.                                                               *)
LEMMA OpenJob ==
  ASSUME BookTypeInv, NEW t \in Tasks, NEW s \in Symbols, NEW k \in Strategies,
         job' = [job EXCEPT ![t] = [Free EXCEPT !.op = "open", !.at = "gate", !.sym = s, !.strat = k]]
  PROVE  job' \in [Tasks -> Job] /\ Carries' /\ JobOthers(t) /\ job'[t].at = "gate"
<1> DEFINE c == [Free EXCEPT !.op = "open", !.at = "gate", !.sym = s, !.strat = k]
<1>1. c \in Job
  BY BookValues DEF Job, Free
<1>2. c.at = "gate" /\ c.sym = s /\ c.strat = k
  BY DEF Free
<1>3. CarriesOne(t, c)
  BY <1>2 DEF CarriesOne, Carrying
<1>4. QED
  BY <1>1, <1>2, <1>3, SetJob

LEMMA CloseJob ==
  ASSUME BookTypeInv, NEW t \in Tasks, NEW s \in Symbols,
         job' = [job EXCEPT ![t] = [Free EXCEPT !.op = "close", !.at = "queued", !.sym = s]]
  PROVE  job' \in [Tasks -> Job] /\ Carries' /\ JobOthers(t) /\ job'[t].at = "queued"
<1> DEFINE c == [Free EXCEPT !.op = "close", !.at = "queued", !.sym = s]
<1>1. c \in Job
  BY BookValues DEF Job, Free
<1>2. c.at = "queued" /\ c.sym = s /\ c.op = "close"
  BY DEF Free
<1>3. CarriesOne(t, c)
  BY <1>2 DEF CarriesOne, Carrying
<1>4. QED
  BY <1>1, <1>2, <1>3, SetJob

LEMMA SaveJob ==
  ASSUME BookTypeInv, NEW s \in Symbols, NEW pos \in Position, pos # None,
         job' = [job EXCEPT ![Loop] = [Free EXCEPT !.op = "save", !.at = "saving", !.sym = s, !.pos = pos]]
  PROVE  /\ job' \in [Tasks -> Job] /\ Carries' /\ JobOthers(Loop)
         /\ job'[Loop].at = "saving" /\ job'[Loop].sym = s /\ job'[Loop].pos = pos /\ job'[Loop].op = "save"
<1> DEFINE c == [Free EXCEPT !.op = "save", !.at = "saving", !.sym = s, !.pos = pos]
<1>1. c \in Job
  BY BookValues DEF Job, Free
<1>2. c.at = "saving" /\ c.sym = s /\ c.op = "save" /\ c.pos = pos
  BY DEF Free
<1>3. CarriesOne(Loop, c)
  BY <1>2 DEF CarriesOne, Carrying
<1>4. QED
  BY <1>1, <1>2, <1>3, SetJob, BookAssumption
---------------------------------------------------------------------------
(* The kinds of step.                                                       *)
LEMMA OneActive ==
  ASSUME BookTypeInv, NEW t \in Tasks, bookLock \in {Nil, t}
  PROVE  \A u \in Tasks : u # t => job[u].at \notin Active
BY BreakerAssumption DEF BookTypeInv, Holder

LEMMA HolderKept ==
  ASSUME BookTypeInv, NEW t \in Tasks, JobOthers(t),
         job'[t].at \in Active => bookLock' = t,
         bookLock' = bookLock \/ bookLock \in {Nil, t}
  PROVE  Holder'
<1>1. CASE bookLock' = bookLock
  BY <1>1 DEF BookTypeInv, Holder, JobOthers
<1>2. CASE bookLock \in {Nil, t}
  BY <1>2, OneActive DEF Holder, JobOthers
<1>3. QED
  BY <1>1, <1>2

(* Outside the lock, nothing of the book changes.                           *)
LEMMA OutsideStep ==
  ASSUME BookInv, NEW t \in Tasks, JobOthers(t),
         job[t].at \notin Active, job'[t].at \notin Active \cup {"saving"},
         UNCHANGED <<mem, row, reset, crossed>>
  PROVE  ~crossed' => Known'
<1> SUFFICES ASSUME ~crossed PROVE Known'
  OBVIOUS
<1>0. Known
  BY DEF BookInv
<1>1. \A u \in Tasks : Reading(u)' /\ Entering(u)' /\ Leaving(u)'
  BY <1>0 DEF Known, Reading, Entering, Leaving, JobOthers, Active, At, Calm, Agree
<1>2. Saving'
  BY <1>0, BookAssumption DEF Known, Saving, JobOthers, At, Active
<1>3. \A s \in Symbols : Busy(s)' <=> Busy(s)
  BY DEF Busy, JobOthers
<1>4. Agreed' /\ Floored'
  BY <1>0, <1>3 DEF Known, Agreed, Floored, Calm, Agree
<1>5. QED
  BY <1>1, <1>2, <1>4 DEF Known

(* The holder of the lock goes on, changing its own symbol at most.         *)
LEMMA HoldStep ==
  ASSUME BookInv, ~crossed, NEW t \in Tasks, NEW s \in Symbols, JobOthers(t),
         bookLock \in {Nil, t}, job[t].at # "reloading", job[t].sym = s, job'[t].sym = s,
         job'[t].at \in Active, UNCHANGED reset,
         \A r \in Symbols : r # s => mem'[r] = mem[r] /\ row'[r] = row[r],
         Reading(t)' /\ Entering(t)' /\ Leaving(t)', Saving',
         (row[s].armed /\ Agree(s) => mem[s].armed)'
  PROVE  Known'
<1>0. Known /\ \A u \in Tasks : u # t => job[u].at \notin Active
  BY OneActive DEF BookInv
<1>1. \A u \in Tasks : Reading(u)' /\ Entering(u)' /\ Leaving(u)'
  BY <1>0 DEF Reading, Entering, Leaving, JobOthers, Active, At
<1>2. \A r \in Symbols : r # s /\ Calm(r)' /\ ~Busy(r)' => Agree(r)'
  BY <1>0 DEF Known, Agreed, Calm, Busy, Agree, JobOthers
<1>3. Busy(s)'
  BY DEF Busy
<1>4. Agreed' /\ Floored'
  BY <1>0, <1>2, <1>3 DEF Known, Agreed, Floored, Agree
<1>5. QED
  BY <1>1, <1>4 DEF Known

(* The holder of the lock lets go.                                          *)
LEMMA LeaveStep ==
  ASSUME BookInv, ~crossed, NEW t \in Tasks, NEW s \in Symbols, JobOthers(t),
         bookLock = t, job[t].at # "reloading", job[t].sym = s,
         job'[t].at = "idle", UNCHANGED reset,
         \A r \in Symbols : r # s => mem'[r] = mem[r] /\ row'[r] = row[r],
         Calm(s) => Agree(s)', Saving',
         (row[s].armed /\ Agree(s) => mem[s].armed)'
  PROVE  Known'
<1>0. Known /\ \A u \in Tasks : u # t => job[u].at \notin Active
  BY OneActive DEF BookInv
<1>1. \A u \in Tasks : Reading(u)' /\ Entering(u)' /\ Leaving(u)'
  BY <1>0 DEF Reading, Entering, Leaving, JobOthers, Active, At
<1>2. \A r \in Symbols : r # s /\ Calm(r)' => Agree(r)'
  BY <1>0 DEF Known, Agreed, Calm, Busy, Agree, JobOthers
<1>4. Agreed' /\ Floored'
  BY <1>0, <1>2 DEF Known, Agreed, Floored, Agree, Calm
<1>5. QED
  BY <1>1, <1>4 DEF Known

(* A pending save is not disturbed where memory and row stay, or both go.   *)
LEMMA SavingKept ==
  ASSUME BookInv, ~crossed, NEW t \in Tasks, NEW s \in Symbols, JobOthers(t),
         BookTypeInv', bookLock \in {Nil, t}, job[t].at # "idle", job'[t].at # "saving", job[t].at # "saving",
         ~At(t, "open", "committing")',
         \A r \in Symbols : r # s => mem'[r] = mem[r] /\ row'[r] = row[r],
         \/ mem'[s] = mem[s] /\ row'[s] = row[s]
         \/ row'[s] = None
         \/ mem[s] = None /\ row'[s] = row[s]
  PROVE  Saving'
<1> SUFFICES ASSUME NEW r \in Symbols, job'[Loop].at = "saving", job'[Loop].sym = r
             PROVE  /\ row'[r].id = job'[Loop].pos.id => mem'[r].id = job'[Loop].pos.id /\ mem'[r].armed
                    /\ \A u \in Tasks : At(u, "open", "committing")' /\ job'[u].sym = r
                                          /\ job'[u].pos.id = job'[Loop].pos.id => mem'[r].armed
  BY DEF Saving
<1>1. job'[Loop] = job[Loop] /\ Loop # t /\ Loop \in Tasks
  BY BookAssumption DEF JobOthers
<1>2. job[Loop].pos.id # Nil /\ None.id = Nil
  BY <1>1, JobFields, BookValues DEF BookInv, CarriesOne, Carrying
<1>3. row[r].id = job[Loop].pos.id => mem[r].id = job[Loop].pos.id /\ mem[r].armed
  BY <1>1 DEF BookInv, Known, Saving
<1>4. \A u \in Tasks : ~At(u, "open", "committing")'
  BY OneActive DEF BookInv, JobOthers, At, Active
<1>5. QED
  BY <1>1, <1>2, <1>3, <1>4
---------------------------------------------------------------------------
(* open_position, step by step.                                             *)
LEMMA AskOpenInv ==
  ASSUME BookInv, NEW t \in Tasks, NEW s \in Symbols, NEW k \in Strategies, AskOpen(t, s, k)
  PROVE  BookInv'
<1>0. BookTypeInv /\ job[t].at = "idle"
  BY DEF BookInv, AskOpen, Idling
<1>1. job' \in [Tasks -> Job] /\ Carries' /\ JobOthers(t) /\ job'[t].at = "gate"
  BY <1>0, OpenJob DEF AskOpen
<1>2. BookTypeInv'
  BY <1>0, <1>1, HolderKept DEF AskOpen, BookTypeInv, BookTypeOK, Active
<1>3. ~crossed' => Known'
  BY <1>0, <1>1, OutsideStep DEF AskOpen, Active
<1>4. QED
  BY <1>2, <1>3 DEF BookInv

LEMMA PassGateInv ==
  ASSUME BookInv, NEW t \in Tasks, PassGate(t)
  PROVE  BookInv'
<1>0. BookTypeInv /\ job[t].at = "gate"
  BY DEF BookInv, PassGate, At
<1>1. job' \in [Tasks -> Job] /\ Carries' /\ JobOthers(t) /\ job'[t].at \in {"queued", "idle"}
  <2>1. CASE call[t].cleared
    <3>1. job' = [job EXCEPT ![t].at = "queued"]
      BY <2>1 DEF PassGate
    <3>2. JobStep(t, "queued", job[t].pos, job[t].read)
      BY <1>0, <3>1, MoveJob DEF StageNames, Carrying
    <3>3. QED
      BY <3>2 DEF JobStep
  <2>2. CASE ~call[t].cleared
    BY <1>0, <2>2, EndJob DEF PassGate, End
  <2>3. QED
    BY <2>1, <2>2
<1>2. BookTypeInv'
  BY <1>0, <1>1, HolderKept DEF PassGate, BookTypeInv, BookTypeOK, Active
<1>3. ~crossed' => Known'
  BY <1>0, <1>1, OutsideStep DEF PassGate, Active
<1>4. QED
  BY <1>2, <1>3 DEF BookInv

LEMMA EnterOpenInv ==
  ASSUME BookInv, NEW t \in Tasks, EnterOpen(t)
  PROVE  BookInv'
<1>a. BookTypeInv /\ job[t].at = "queued"
  BY DEF BookInv, EnterOpen, At
<1>b. PICK s \in Symbols : s = job[t].sym
  BY <1>a, JobFields
<1>0. BookTypeInv /\ job[t].at = "queued" /\ s = job[t].sym /\ row \in Book /\ bookLock = Nil
  BY <1>a, <1>b DEF EnterOpen, BookTypeInv, BookTypeOK
<1>1. JobStep(t, "reading", job[t].pos, row)
  BY <1>0, MoveReadJob DEF EnterOpen, StageNames, Carrying
<1>2. BookTypeInv'
  BY <1>0, <1>1, HolderKept DEF EnterOpen, BookTypeInv, BookTypeOK, JobStep
<1>3. ASSUME ~crossed' PROVE Known'
  <2>1. ~crossed /\ Known
    BY <1>3 DEF EnterOpen, BookInv
  <2>2. ~Busy(s)
    BY <1>0, BreakerAssumption DEF Busy, BookTypeInv, Holder
  <2>3. Reading(t)'
    BY <1>0, <1>1, <2>1, <2>2 DEF Reading, JobStep, EnterOpen, Known, Agreed, Calm, Agree
  <2>4. Entering(t)' /\ Leaving(t)'
    BY <1>1 DEF Entering, Leaving, At, JobStep
  <2>5. Saving'
    BY <1>0, <1>1, <1>2, <2>1, SavingKept DEF EnterOpen, JobStep, At
  <2>6. (row[s].armed /\ Agree(s) => mem[s].armed)'
    BY <1>0, <1>1, <2>1 DEF Known, Floored, EnterOpen, Agree, JobStep
  <2>7. QED
    BY <1>0, <1>1, <2>1, <2>3, <2>4, <2>5, <2>6, HoldStep DEF EnterOpen, JobStep, Active
<1>4. QED
  BY <1>2, <1>3 DEF BookInv

(* The position the table holds is taken over as it is now.                 *)
LEMMA RefuseOpenInv ==
  ASSUME BookInv, NEW t \in Tasks, RefuseOpen(t)
  PROVE  BookInv'
<1>a. BookTypeInv /\ job[t].at = "reading"
  BY DEF BookInv, RefuseOpen, At
<1>b. PICK s \in Symbols : s = job[t].sym
  BY <1>a, JobFields
<1>0. BookTypeInv /\ job[t].at = "reading" /\ s = job[t].sym /\ bookLock = t /\ job[t].read \in Book
  BY <1>a, <1>b, JobFields DEF BookTypeInv, Holder, Active
<1>1. job' \in [Tasks -> Job] /\ Carries' /\ JobOthers(t) /\ job'[t].at = "idle"
  BY <1>0, EndJob DEF RefuseOpen
<1>2. mem' \in Book
  BY <1>0 DEF RefuseOpen, BookTypeInv, BookTypeOK, Book
<1>3. BookTypeInv'
  BY <1>0, <1>1, <1>2, HolderKept DEF RefuseOpen, BookTypeInv, BookTypeOK, Active
<1>4. ASSUME ~crossed' PROVE Known'
  <2>1. ~crossed /\ Known
    BY <1>4 DEF RefuseOpen, BookInv
  <2>2. /\ \A r \in Symbols : r # s => mem'[r] = mem[r]
        /\ row' = row /\ reset' = reset
        /\ mem'[s] = mem[s] \/ (mem[s] = None /\ mem'[s] = row[s])
    BY <1>0, <2>1 DEF RefuseOpen, Known, Reading, BookTypeInv, BookTypeOK, Book
  <2>3. Calm(s) => Agree(s)'
    BY <1>0, <2>1, <2>2 DEF Known, Reading, Agree
  <2>4. Saving'
    BY <1>0, <1>1, <1>3, <2>1, <2>2, SavingKept DEF At
  <2>5. (row[s].armed /\ Agree(s) => mem[s].armed)'
    BY <2>1, <2>2 DEF Known, Floored, Agree
  <2>6. QED
    BY <1>0, <1>1, <2>1, <2>2, <2>3, <2>4, <2>5, LeaveStep
<1>5. QED
  BY <1>3, <1>4 DEF BookInv
LEMMA EnterMemoryInv ==
  ASSUME BookInv, NEW t \in Tasks, NEW i \in Ids, EnterMemory(t, i)
  PROVE  BookInv'
<1>a. BookTypeInv /\ job[t].at = "reading" /\ job[t].op = "open"
  BY DEF BookInv, EnterMemory, At
<1>b. PICK s \in Symbols : s = job[t].sym
  BY <1>a, JobFields
<1>c. PICK pos : pos = [id |-> i, strat |-> job[t].strat, armed |-> FALSE]
  OBVIOUS
<1>d. pos \in Position /\ pos # None /\ pos.id = i /\ pos.armed = FALSE
  BY <1>a, <1>c, JobFields, BookAssumption DEF Position, None, CarriesOne
<1>0. /\ bookLock = t
      /\ mem[s] = None /\ job[t].read[s] = None /\ ~Used(i)
      /\ mem' = [mem EXCEPT ![s] = pos]
      /\ job' = [job EXCEPT ![t].at = "committing", ![t].pos = pos, ![t].read = Empty]
      /\ UNCHANGED <<row, sold, bookLock, reset, crossed>>
  BY <1>a, <1>b, <1>c DEF EnterMemory, BookTypeInv, Holder, Active
<1>1. JobStep(t, "committing", pos, Empty)
  BY <1>a, <1>d, <1>0, MovePosReadJob, BookValues DEF StageNames
<1>2. mem' \in Book
  BY <1>a, <1>d, <1>0 DEF BookTypeInv, BookTypeOK, Book
<1>3. BookTypeInv'
  BY <1>a, <1>0, <1>1, <1>2, HolderKept DEF BookTypeInv, BookTypeOK, JobStep
<1>4. ASSUME ~crossed' PROVE Known'
  <2>1. ~crossed /\ Known
    BY <1>4, <1>0 DEF BookInv
  <2>2. row[s] = None /\ mem'[s] = pos /\ \A r \in Symbols : r # s => mem'[r] = mem[r]
    BY <1>a, <1>b, <1>0, <2>1 DEF Known, Reading, BookTypeInv, BookTypeOK, Book
  <2>3. Entering(t)' /\ Reading(t)' /\ Leaving(t)'
    BY <1>a, <1>b, <1>d, <1>0, <1>1, <2>2 DEF Entering, Reading, Leaving, At, JobStep
  <2>4. Saving'
    <3> SUFFICES ASSUME NEW r \in Symbols, job'[Loop].at = "saving", job'[Loop].sym = r
                 PROVE  /\ row'[r].id = job'[Loop].pos.id => mem'[r].id = job'[Loop].pos.id /\ mem'[r].armed
                        /\ \A u \in Tasks : At(u, "open", "committing")' /\ job'[u].sym = r
                                              /\ job'[u].pos.id = job'[Loop].pos.id => mem'[r].armed
      BY DEF Saving
    <3>1. job'[Loop] = job[Loop] /\ Loop # t /\ Loop \in Tasks
      BY <1>1, BookAssumption DEF JobStep, JobOthers
    <3>2. job[Loop].pos.id # Nil /\ None.id = Nil /\ job[Loop].pos.id # i
      BY <1>a, <1>0, <3>1, JobFields, BookValues DEF CarriesOne, Carrying, Used
    <3>3. row[r].id = job[Loop].pos.id => mem[r].id = job[Loop].pos.id /\ mem[r].armed
      BY <2>1, <3>1 DEF Known, Saving
    <3>4. \A u \in Tasks : At(u, "open", "committing")' => u = t
      BY <1>a, <1>0, <1>1, OneActive DEF JobStep, JobOthers, At, Active
    <3>5. QED
      BY <1>d, <1>0, <1>1, <2>2, <3>1, <3>2, <3>3, <3>4 DEF JobStep
  <2>5. (row[s].armed /\ Agree(s) => mem[s].armed)'
    BY <1>0, <2>2, BookValues
  <2>6. QED
    BY <1>a, <1>b, <1>0, <1>1, <2>1, <2>2, <2>3, <2>4, <2>5, HoldStep DEF JobStep, Active
<1>5. QED
  BY <1>3, <1>4 DEF BookInv

LEMMA CommitOpenInv ==
  ASSUME BookInv, NEW t \in Tasks, CommitOpen(t)
  PROVE  BookInv'
<1>a. BookTypeInv /\ job[t].at = "committing" /\ job[t].op = "open"
  BY DEF BookInv, CommitOpen, At
<1>b. PICK s \in Symbols : s = job[t].sym
  BY <1>a, JobFields
<1>0. bookLock = t /\ job[t].pos \in Position /\ job[t].pos # None
  BY <1>a, JobFields DEF BookTypeInv, Holder, Active, CarriesOne, Carrying
<1>1. job' \in [Tasks -> Job] /\ Carries' /\ JobOthers(t) /\ job'[t].at = "idle"
  BY <1>a, EndJob DEF CommitOpen
<1>2. row' \in Book /\ row'[s] = job[t].pos /\ \A r \in Symbols : r # s => row'[r] = row[r]
  BY <1>a, <1>b, <1>0 DEF CommitOpen, BookTypeInv, BookTypeOK, Book
<1>3. BookTypeInv'
  BY <1>a, <1>0, <1>1, <1>2, HolderKept DEF CommitOpen, BookTypeInv, BookTypeOK, Active
<1>4. ASSUME ~crossed' PROVE Known'
  <2>1. ~crossed /\ Known
    BY <1>4 DEF CommitOpen, BookInv
  <2>2. mem[s].id = job[t].pos.id /\ ~job[t].pos.armed /\ mem' = mem /\ reset' = reset
    BY <1>a, <1>b, <2>1 DEF Known, Entering, At, CommitOpen
  <2>3. Saving'
    <3> SUFFICES ASSUME NEW r \in Symbols, job'[Loop].at = "saving", job'[Loop].sym = r
                 PROVE  /\ row'[r].id = job'[Loop].pos.id => mem'[r].id = job'[Loop].pos.id /\ mem'[r].armed
                        /\ \A u \in Tasks : At(u, "open", "committing")' /\ job'[u].sym = r
                                              /\ job'[u].pos.id = job'[Loop].pos.id => mem'[r].armed
      BY DEF Saving
    <3>1. job'[Loop] = job[Loop] /\ Loop # t /\ Loop \in Tasks
      BY <1>1, BookAssumption DEF JobOthers
    <3>2. /\ row[r].id = job[Loop].pos.id => mem[r].id = job[Loop].pos.id /\ mem[r].armed
          /\ r = s /\ job[t].pos.id = job[Loop].pos.id => mem[s].armed
      BY <1>a, <1>b, <2>1, <3>1 DEF Known, Saving, At
    <3>3. \A u \in Tasks : ~At(u, "open", "committing")'
      BY <1>a, <1>0, <1>1, OneActive DEF JobOthers, At, Active
    <3>4. QED
      BY <1>2, <2>2, <3>1, <3>2, <3>3
  <2>4. (row[s].armed /\ Agree(s) => mem[s].armed)' /\ Agree(s)'
    BY <1>2, <2>2 DEF Agree
  <2>5. QED
    BY <1>a, <1>b, <1>0, <1>1, <1>2, <2>1, <2>2, <2>3, <2>4, LeaveStep
<1>5. QED
  BY <1>3, <1>4 DEF BookInv

LEMMA RejectOpenInv ==
  ASSUME BookInv, NEW t \in Tasks, RejectOpen(t)
  PROVE  BookInv'
<1>a. BookTypeInv /\ job[t].at = "committing" /\ job[t].op = "open"
  BY DEF BookInv, RejectOpen, At
<1>b. PICK s \in Symbols : s = job[t].sym
  BY <1>a, JobFields
<1>0. bookLock = t
  BY <1>a DEF BookTypeInv, Holder, Active
<1>1. JobStep(t, "reloading", job[t].pos, row)
  BY <1>a, MoveReadJob DEF RejectOpen, StageNames, Carrying, BookTypeInv, BookTypeOK
<1>2. mem' \in Book /\ mem'[s] = None /\ \A r \in Symbols : r # s => mem'[r] = mem[r]
  BY <1>a, <1>b, BookValues DEF RejectOpen, BookTypeInv, BookTypeOK, Book
<1>3. BookTypeInv'
  BY <1>a, <1>0, <1>1, <1>2, HolderKept DEF RejectOpen, BookTypeInv, BookTypeOK, JobStep
<1>4. ASSUME ~crossed' PROVE Known'
  <2>1. ~crossed /\ Known
    BY <1>4 DEF RejectOpen, BookInv
  <2>2. row[s] = None /\ row' = row /\ reset' = reset
    BY <1>a, <1>b, <2>1 DEF Known, Entering, At, RejectOpen
  <2>3. Entering(t)' /\ Reading(t)' /\ Leaving(t)'
    BY <1>1 DEF Entering, Reading, Leaving, At, JobStep
  <2>4. Saving'
    BY <1>a, <1>0, <1>1, <1>2, <1>3, <2>1, <2>2, SavingKept DEF JobStep, At
  <2>5. (row[s].armed /\ Agree(s) => mem[s].armed)'
    BY <2>2, BookValues
  <2>6. QED
    BY <1>a, <1>b, <1>0, <1>1, <1>2, <2>1, <2>2, <2>3, <2>4, <2>5, HoldStep DEF JobStep, Active
<1>5. QED
  BY <1>3, <1>4 DEF BookInv

(* Memory is replaced by the table: nothing else may be under way.           *)
LEMMA ReloadInv ==
  ASSUME BookInv, NEW t \in Tasks, Reload(t)
  PROVE  BookInv'
<1>a. BookTypeInv /\ job[t].at = "reloading"
  BY DEF BookInv, Reload, At
<1>0. bookLock = t /\ job[t].read \in Book
  BY <1>a, JobFields DEF BookTypeInv, Holder, Active
<1>1. job' \in [Tasks -> Job] /\ Carries' /\ JobOthers(t) /\ job'[t].at = "idle"
  BY <1>a, EndJob DEF Reload
<1>2. crossed' \in BOOLEAN
  BY <1>a DEF Reload, BookTypeInv, BookTypeOK
<1>3. BookTypeInv'
  BY <1>a, <1>0, <1>1, <1>2, HolderKept DEF Reload, BookTypeInv, BookTypeOK, Active
<1>4. ASSUME ~crossed' PROVE Known'
  <2>1. mem' = row' /\ Working = {t}
    BY <1>4, <1>2 DEF Reload
  <2>2. \A u \in Tasks : job'[u].at \notin Active \cup {"saving"}
    BY <1>1, <2>1 DEF Working, JobOthers, Active
  <2>3. \A u \in Tasks : Reading(u)' /\ Entering(u)' /\ Leaving(u)'
    BY <2>2 DEF Reading, Entering, Leaving, At, Active
  <2>4. Saving' /\ Agreed' /\ Floored'
    BY <2>1, <2>2, BookAssumption DEF Saving, Agreed, Floored, Agree
  <2>5. QED
    BY <2>3, <2>4 DEF Known
<1>5. QED
  BY <1>3, <1>4 DEF BookInv

LEMMA FailOpenInv ==
  ASSUME BookInv, NEW t \in Tasks, FailOpen(t)
  PROVE  BookInv'
<1>a. BookTypeInv /\ job[t].at = "committing" /\ job[t].op = "open"
  BY DEF BookInv, FailOpen, At
<1>b. PICK s \in Symbols : s = job[t].sym
  BY <1>a, JobFields
<1>0. bookLock = t
  BY <1>a DEF BookTypeInv, Holder, Active
<1>1. job' \in [Tasks -> Job] /\ Carries' /\ JobOthers(t) /\ job'[t].at = "idle"
  BY <1>a, EndJob DEF FailOpen
<1>2. mem' \in Book /\ mem'[s] = None /\ \A r \in Symbols : r # s => mem'[r] = mem[r]
  BY <1>a, <1>b, BookValues DEF FailOpen, BookTypeInv, BookTypeOK, Book
<1>3. BookTypeInv'
  BY <1>a, <1>0, <1>1, <1>2, HolderKept DEF FailOpen, BookTypeInv, BookTypeOK, Active
<1>4. ASSUME ~crossed' PROVE Known'
  <2>1. ~crossed /\ Known
    BY <1>4 DEF FailOpen, BookInv
  <2>2. row[s] = None /\ row' = row /\ reset' = reset
    BY <1>a, <1>b, <2>1 DEF Known, Entering, At, FailOpen
  <2>3. Saving'
    BY <1>a, <1>0, <1>1, <1>2, <1>3, <2>1, <2>2, SavingKept DEF At
  <2>4. (row[s].armed /\ Agree(s) => mem[s].armed)' /\ Agree(s)'
    BY <1>2, <2>2, BookValues DEF Agree
  <2>5. QED
    BY <1>a, <1>b, <1>0, <1>1, <1>2, <2>1, <2>2, <2>3, <2>4, LeaveStep
<1>5. QED
  BY <1>3, <1>4 DEF BookInv
---------------------------------------------------------------------------
(* close_position, step by step.                                            *)
LEMMA AskCloseInv ==
  ASSUME BookInv, NEW t \in Tasks, NEW s \in Symbols, AskClose(t, s)
  PROVE  BookInv'
<1>0. BookTypeInv /\ job[t].at = "idle"
  BY DEF BookInv, AskClose, Idling
<1>1. job' \in [Tasks -> Job] /\ Carries' /\ JobOthers(t) /\ job'[t].at = "queued"
  BY <1>0, CloseJob DEF AskClose
<1>2. BookTypeInv'
  BY <1>0, <1>1, HolderKept DEF AskClose, BookTypeInv, BookTypeOK, Active
<1>3. ~crossed' => Known'
  BY <1>0, <1>1, OutsideStep DEF AskClose, Active
<1>4. QED
  BY <1>2, <1>3 DEF BookInv

LEMMA EnterCloseInv ==
  ASSUME BookInv, NEW t \in Tasks, EnterClose(t)
  PROVE  BookInv'
<1>a. BookTypeInv /\ job[t].at = "queued" /\ job[t].op = "close" /\ bookLock = Nil
  BY DEF BookInv, EnterClose, At
<1>b. PICK s \in Symbols : s = job[t].sym
  BY <1>a, JobFields
<1>1. CASE mem[s] = None
  <2>1. job' \in [Tasks -> Job] /\ Carries' /\ JobOthers(t) /\ job'[t].at = "idle"
    BY <1>a, <1>b, <1>1, EndJob DEF EnterClose
  <2>2. UNCHANGED <<mem, row, sold, bookLock, reset, crossed>>
    BY <1>b, <1>1 DEF EnterClose
  <2>3. BookTypeInv'
    BY <1>a, <2>1, <2>2, HolderKept DEF BookTypeInv, BookTypeOK, Active
  <2>4. ~crossed' => Known'
    BY <1>a, <2>1, <2>2, OutsideStep DEF Active
  <2>5. QED
    BY <2>3, <2>4 DEF BookInv
<1>2. CASE mem[s] # None
  <2>0. mem[s] \in Position /\ bookLock' = t /\ UNCHANGED <<mem, row, sold, reset, crossed>>
        /\ job' = [job EXCEPT ![t].at = "committing", ![t].pos = mem[s]]
    BY <1>a, <1>b, <1>2 DEF EnterClose, BookTypeInv, BookTypeOK, Book
  <2>1. JobStep(t, "committing", mem[s], job[t].read)
    BY <1>a, <1>2, <2>0, MovePosJob DEF StageNames
  <2>2. BookTypeInv'
    BY <1>a, <2>0, <2>1, HolderKept DEF BookTypeInv, BookTypeOK, JobStep
  <2>3. ASSUME ~crossed' PROVE Known'
    <3>1. ~crossed /\ Known
      BY <2>0, <2>3 DEF BookInv
    <3>2. ~Busy(s)
      BY <1>a, BreakerAssumption DEF Busy, BookTypeInv, Holder
    <3>3. Reading(t)' /\ Entering(t)' /\ Leaving(t)'
      BY <1>a, <1>b, <2>0, <2>1, <3>1, <3>2 DEF Reading, Entering, Leaving, At, JobStep, Known, Agreed, Calm, Agree
    <3>4. Saving'
      BY <1>a, <2>0, <2>1, <2>2, <3>1, SavingKept DEF JobStep, At
    <3>5. (row[s].armed /\ Agree(s) => mem[s].armed)'
      BY <2>0, <3>1 DEF Known, Floored, Agree
    <3>6. QED
      BY <1>a, <1>b, <2>0, <2>1, <3>1, <3>3, <3>4, <3>5, HoldStep DEF JobStep, Active
  <2>4. QED
    BY <2>2, <2>3 DEF BookInv
<1>3. QED
  BY <1>1, <1>2

LEMMA CommitCloseInv ==
  ASSUME BookInv, NEW t \in Tasks, CommitClose(t)
  PROVE  BookInv'
<1>a. BookTypeInv /\ job[t].at = "committing" /\ job[t].op = "close"
  BY DEF BookInv, CommitClose, At
<1>b. PICK s \in Symbols : s = job[t].sym
  BY <1>a, JobFields
<1>0. bookLock = t /\ job[t].pos \in Position /\ job[t].pos # None
  BY <1>a, JobFields DEF BookTypeInv, Holder, Active, CarriesOne, Carrying
<1>1. JobStep(t, "removing", job[t].pos, job[t].read)
  BY <1>a, <1>0, MoveJob DEF CommitClose, StageNames
<1>2. row' \in Book /\ row'[s] = None /\ \A r \in Symbols : r # s => row'[r] = row[r]
  BY <1>a, <1>b, BookValues DEF CommitClose, BookTypeInv, BookTypeOK, Book
<1>3. sold' \in SUBSET Ids
  BY <1>a, <1>0, BookValues DEF CommitClose, BookTypeInv, BookTypeOK
<1>4. BookTypeInv'
  BY <1>a, <1>0, <1>1, <1>2, <1>3, HolderKept DEF CommitClose, BookTypeInv, BookTypeOK, JobStep
<1>5. ASSUME ~crossed' PROVE Known'
  <2>1. ~crossed /\ Known /\ mem' = mem /\ reset' = reset
    BY <1>5 DEF CommitClose, BookInv
  <2>2. Reading(t)' /\ Entering(t)' /\ Leaving(t)'
    BY <1>b, <1>1, <1>2 DEF Reading, Entering, Leaving, At, JobStep
  <2>3. Saving'
    BY <1>a, <1>0, <1>1, <1>2, <1>4, <2>1, SavingKept DEF JobStep, At
  <2>4. (row[s].armed /\ Agree(s) => mem[s].armed)'
    BY <1>2, BookValues
  <2>5. QED
    BY <1>a, <1>b, <1>0, <1>1, <1>2, <2>1, <2>2, <2>3, <2>4, HoldStep DEF JobStep, Active
<1>6. QED
  BY <1>4, <1>5 DEF BookInv

(* The lock is given back with memory and table as they are.                *)
LEMMA ReleaseInv ==
  ASSUME BookInv, NEW t \in Tasks, job[t].at \in Active, job[t].at # "reloading",
         Leaving(t) /\ ~crossed /\ Calm(job[t].sym) => Agree(job[t].sym),
         End(t), bookLock' = Nil, UNCHANGED <<mem, row, sold, reset, crossed>>
  PROVE  BookInv'
<1>a. BookTypeInv /\ bookLock = t /\ job[t].at # "idle"
  BY DEF BookInv, BookTypeInv, Holder, Active
<1>b. PICK s \in Symbols : s = job[t].sym
  BY <1>a, JobFields
<1>1. job' \in [Tasks -> Job] /\ Carries' /\ JobOthers(t) /\ job'[t].at = "idle"
  BY <1>a, EndJob
<1>2. BookTypeInv'
  BY <1>a, <1>1, HolderKept DEF BookTypeInv, BookTypeOK, Active
<1>3. ASSUME ~crossed' PROVE Known'
  <2>1. ~crossed /\ Known
    BY <1>3 DEF BookInv
  <2>2. Calm(s) => Agree(s)'
    BY <1>b, <2>1 DEF Known, Agree
  <2>3. Saving'
    BY <1>a, <1>1, <1>2, <2>1, SavingKept DEF At, Active
  <2>4. (row[s].armed /\ Agree(s) => mem[s].armed)'
    BY <2>1 DEF Known, Floored, Agree
  <2>5. QED
    BY <1>a, <1>b, <1>1, <2>1, <2>2, <2>3, <2>4, LeaveStep
<1>4. QED
  BY <1>2, <1>3 DEF BookInv

LEMMA FailCloseInv ==
  ASSUME BookInv, NEW t \in Tasks, FailClose(t)
  PROVE  BookInv'
<1>1. job[t].at = "committing" /\ (Leaving(t) => (Calm(job[t].sym) => Agree(job[t].sym)))
  BY DEF FailClose, At, Leaving
<1>2. QED
  BY <1>1, ReleaseInv DEF FailClose, Active

LEMMA EndCloseInv ==
  ASSUME BookInv, NEW t \in Tasks, EndClose(t)
  PROVE  BookInv'
<1>1. job[t].at = "judging" /\ (Leaving(t) => (Calm(job[t].sym) => Agree(job[t].sym)))
  BY DEF EndClose, At, Leaving
<1>2. QED
  BY <1>1, ReleaseInv DEF EndClose, Active

LEMMA RemoveClosedInv ==
  ASSUME BookInv, NEW t \in Tasks, RemoveClosed(t)
  PROVE  BookInv'
<1>a. BookTypeInv /\ job[t].at = "removing"
  BY DEF BookInv, RemoveClosed, At
<1>b. PICK s \in Symbols : s = job[t].sym
  BY <1>a, JobFields
<1>0. bookLock = t /\ job[t].pos \in Position /\ job[t].pos # None
  BY <1>a, JobFields DEF BookTypeInv, Holder, Active, CarriesOne, Carrying
<1>2. mem' \in Book /\ mem'[s] = None /\ (\A r \in Symbols : r # s => mem'[r] = mem[r])
      /\ UNCHANGED <<row, sold, reset, crossed>>
  BY <1>a, <1>b, BookValues DEF RemoveClosed, BookTypeInv, BookTypeOK, Book
<1>3. ~crossed => Known /\ row[s] = None
  BY <1>a, <1>b DEF BookInv, Known, Leaving
<1>4. ~crossed => Agree(s)' /\ (row[s].armed /\ Agree(s) => mem[s].armed)'
  BY <1>2, <1>3, BookValues DEF Agree
<1>5. CASE mem[s] = None
  <2>1. End(t) /\ bookLock' = Nil
    BY <1>b, <1>5 DEF RemoveClosed
  <2>2. job' \in [Tasks -> Job] /\ Carries' /\ JobOthers(t) /\ job'[t].at = "idle"
    BY <1>a, <2>1, EndJob
  <2>3. BookTypeInv'
    BY <1>a, <1>0, <1>2, <2>1, <2>2, HolderKept DEF BookTypeInv, BookTypeOK, Active
  <2>4. ~crossed => Saving'
    BY <1>a, <1>0, <1>2, <1>3, <2>2, <2>3, SavingKept DEF At
  <2>5. ~crossed' => Known'
    BY <1>a, <1>b, <1>0, <1>2, <1>4, <2>2, <2>4, LeaveStep
  <2>6. QED
    BY <2>3, <2>5 DEF BookInv
<1>6. CASE mem[s] # None
  <2>1. job' = [job EXCEPT ![t].at = "closed"] /\ bookLock' = bookLock
    BY <1>b, <1>6 DEF RemoveClosed
  <2>2. JobStep(t, "closed", job[t].pos, job[t].read)
    BY <1>a, <1>0, <2>1, MoveJob DEF StageNames
  <2>3. BookTypeInv'
    BY <1>a, <1>0, <1>2, <2>1, <2>2, HolderKept DEF BookTypeInv, BookTypeOK, JobStep
  <2>4. ~crossed => Saving'
    BY <1>a, <1>0, <1>2, <1>3, <2>2, <2>3, SavingKept DEF JobStep, At
  <2>5. ~crossed => Reading(t)' /\ Entering(t)' /\ Leaving(t)'
    BY <1>b, <1>4, <2>2 DEF Reading, Entering, Leaving, At, JobStep
  <2>6. ~crossed' => Known'
    BY <1>a, <1>b, <1>0, <1>2, <1>4, <2>2, <2>4, <2>5, HoldStep DEF JobStep, Active
  <2>7. QED
    BY <2>3, <2>6 DEF BookInv
<1>7. QED
  BY <1>5, <1>6

LEMMA AskJudgeInv ==
  ASSUME BookInv, NEW t \in Tasks, AskJudge(t)
  PROVE  BookInv'
<1>a. BookTypeInv /\ job[t].at = "closed" /\ job' = [job EXCEPT ![t].at = "judging"]
      /\ UNCHANGED <<mem, row, sold, bookLock, reset, crossed>>
  BY DEF BookInv, AskJudge, At
<1>b. PICK s \in Symbols : s = job[t].sym
  BY <1>a, JobFields
<1>0. bookLock = t /\ job[t].pos # None
  BY <1>a, JobFields DEF BookTypeInv, Holder, Active, CarriesOne, Carrying
<1>1. JobStep(t, "judging", job[t].pos, job[t].read)
  BY <1>a, <1>0, MoveJob DEF StageNames
<1>2. BookTypeInv'
  BY <1>a, <1>0, <1>1, HolderKept DEF BookTypeInv, BookTypeOK, JobStep
<1>3. ASSUME ~crossed' PROVE Known'
  <2>1. ~crossed /\ Known
    BY <1>3, <1>a DEF BookInv
  <2>2. Reading(t)' /\ Entering(t)' /\ Leaving(t)'
    BY <1>a, <1>1, <2>1 DEF Reading, Entering, Leaving, At, JobStep, Known, Calm, Agree
  <2>3. Saving'
    BY <1>a, <1>0, <1>1, <1>2, <2>1, SavingKept DEF JobStep, At
  <2>4. (row[s].armed /\ Agree(s) => mem[s].armed)'
    BY <1>a, <2>1 DEF Known, Floored, Agree
  <2>5. QED
    BY <1>a, <1>b, <1>0, <1>1, <2>1, <2>2, <2>3, <2>4, HoldStep DEF JobStep, Active
<1>4. QED
  BY <1>2, <1>3 DEF BookInv
---------------------------------------------------------------------------
(* The profit lock, saved without the lock of the book.                     *)
LEMMA ArmInv ==
  ASSUME BookInv, NEW s \in Symbols, Arm(s)
  PROVE  BookInv'
<1>a. BookTypeInv /\ Loop \in Tasks /\ job[Loop].at = "idle" /\ mem[s] # None
      /\ UNCHANGED <<row, sold, bookLock, reset, crossed>>
  BY BookAssumption DEF BookInv, Arm, Idling
<1>b. PICK pos : pos = [mem[s] EXCEPT !.armed = TRUE]
  OBVIOUS
<1>c. pos \in Position /\ pos # None /\ pos.id = mem[s].id /\ pos.armed /\ pos.id # Nil
  BY <1>a, <1>b, BookAssumption DEF BookTypeInv, BookTypeOK, Book, Position, None
<1>0. mem' \in Book /\ mem'[s] = pos /\ \A r \in Symbols : r # s => mem'[r] = mem[r]
  BY <1>a, <1>b, <1>c DEF Arm, BookTypeInv, BookTypeOK, Book
<1>1. /\ job' \in [Tasks -> Job] /\ Carries' /\ JobOthers(Loop)
      /\ job'[Loop].at = "saving" /\ job'[Loop].sym = s /\ job'[Loop].pos = pos /\ job'[Loop].op = "save"
  BY <1>a, <1>c, <1>0, SaveJob DEF Arm
<1>2. BookTypeInv'
  BY <1>a, <1>0, <1>1, HolderKept DEF BookTypeInv, BookTypeOK, Active
<1>3. ASSUME ~crossed' PROVE Known'
  <2>1. ~crossed /\ Known
    BY <1>a, <1>3 DEF BookInv
  <2>2. \A r \in Symbols : mem'[r].id = mem[r].id /\ (mem[r].armed => mem'[r].armed) /\ (mem'[r] = None <=> mem[r] = None)
    BY <1>a, <1>c, <1>0
  <2>3. ASSUME NEW u \in Tasks PROVE Reading(u)' /\ Entering(u)' /\ Leaving(u)'
    <3>1. CASE u = Loop
      BY <1>1, <3>1 DEF Reading, Entering, Leaving, At
    <3>2. CASE u # Loop
      <4>1. job'[u] = job[u] /\ (job[u].at # "idle" => job[u].sym \in Symbols)
        BY <1>a, <1>1, <3>2, JobFields DEF JobOthers
      <4>2. QED
        BY <1>a, <2>1, <2>2, <4>1 DEF Known, Reading, Entering, Leaving, At, Calm, Agree
    <3>3. QED
      BY <3>1, <3>2
  <2>4. Saving'
    BY <1>c, <1>0, <1>1 DEF Saving
  <2>5. \A r \in Symbols : Busy(r) => Busy(r)'
    BY <1>a, <1>1 DEF Busy, JobOthers, Active
  <2>6. Agreed' /\ Floored'
    BY <1>a, <2>1, <2>2, <2>5 DEF Known, Agreed, Floored, Calm, Agree
  <2>7. QED
    BY <2>3, <2>4, <2>6 DEF Known
<1>4. QED
  BY <1>2, <1>3 DEF BookInv

LEMMA SaveArmedInv ==
  ASSUME BookInv, NEW t \in Tasks, SaveArmed(t)
  PROVE  BookInv'
<1>a. BookTypeInv /\ job[t].at = "saving" /\ t = Loop
  BY DEF BookInv, SaveArmed, At, BookTypeInv, Carries
<1>b. PICK s \in Symbols : s = job[t].sym
  BY <1>a, JobFields
<1>c. PICK pos \in Position : pos = job[t].pos /\ pos # None /\ pos.id # Nil
  BY <1>a, JobFields, BookValues DEF CarriesOne, Carrying
<1>0. row' \in Book /\ row'[s] = pos /\ (\A r \in Symbols : r # s => row'[r] = row[r])
      /\ crossed' \in BOOLEAN /\ UNCHANGED <<mem, sold, bookLock, reset>>
  BY <1>a, <1>b, <1>c DEF SaveArmed, BookTypeInv, BookTypeOK, Book
<1>1. job' \in [Tasks -> Job] /\ Carries' /\ JobOthers(t) /\ job'[t].at = "idle"
  BY <1>a, EndJob DEF SaveArmed
<1>2. BookTypeInv'
  BY <1>a, <1>0, <1>1, HolderKept DEF BookTypeInv, BookTypeOK, Active
<1>3. ASSUME ~crossed' PROVE Known'
  <2>1. ~crossed /\ row[s].id = pos.id
    BY <1>a, <1>b, <1>c, <1>3 DEF SaveArmed, BookTypeInv, BookTypeOK
  <2>2. Known /\ mem[s].id = pos.id /\ mem[s].armed
    BY <1>a, <1>b, <1>c, <2>1 DEF BookInv, Known, Saving
  <2>3. row[s] # None /\ mem[s] # None
    BY <1>c, <2>1, <2>2, BookValues
  <2>4. \A r \in Symbols : row'[r].id = row[r].id
    BY <1>0, <2>1
  <2>5. ASSUME NEW u \in Tasks PROVE Reading(u)' /\ Entering(u)' /\ Leaving(u)'
    <3>1. CASE u = t
      BY <1>1, <3>1 DEF Reading, Entering, Leaving, At
    <3>2. CASE u # t
      <4>1. job'[u] = job[u] /\ (job[u].at # "idle" => job[u].sym \in Symbols)
        BY <1>a, <1>1, <3>2, JobFields DEF JobOthers
      <4>2. Reading(u) /\ Entering(u) /\ Leaving(u)
        BY <2>2 DEF Known
      <4>3. QED
        BY <1>0, <2>3, <2>4, <4>1, <4>2 DEF Reading, Entering, Leaving, At, Calm, Agree
    <3>3. QED
      BY <3>1, <3>2
  <2>6. Saving'
    BY <1>a, <1>1 DEF Saving
  <2>7. \A r \in Symbols : Busy(r) => Busy(r)'
    BY <1>a, <1>1 DEF Busy, JobOthers, Active
  <2>8. Agreed' /\ Floored'
    BY <1>0, <2>2, <2>4, <2>7 DEF Known, Agreed, Floored, Calm, Agree
  <2>9. QED
    BY <2>5, <2>6, <2>8 DEF Known
<1>4. QED
  BY <1>2, <1>3 DEF BookInv

LEMMA FailSaveInv ==
  ASSUME BookInv, NEW t \in Tasks, FailSave(t)
  PROVE  BookInv'
<1>0. BookTypeInv /\ job[t].at = "saving"
  BY DEF BookInv, FailSave, At
<1>1. job' \in [Tasks -> Job] /\ Carries' /\ JobOthers(t) /\ job'[t].at = "idle"
  BY <1>0, EndJob DEF FailSave
<1>2. BookTypeInv'
  BY <1>0, <1>1, HolderKept DEF FailSave, BookTypeInv, BookTypeOK, Active
<1>3. ~crossed' => Known'
  BY <1>0, <1>1, OutsideStep DEF FailSave, Active
<1>4. QED
  BY <1>2, <1>3 DEF BookInv

---------------------------------------------------------------------------
(* A reset that crosses nothing finds no operation under way.               *)
LEMMA ResetIdle ==
  ASSUME BookInv, NEW from, NEW to \in Reset, NEW onTop \in BOOLEAN, ResetStep(from, to, onTop),
         mem' \in Book, row' \in Book
  PROVE  /\ BookTypeInv'
         /\ ~crossed' =>
              /\ ~crossed /\ ~onTop /\ Known
              /\ \A u \in Tasks : job[u].at \notin Active \cup {"saving"}
              /\ (\A u \in Tasks : Reading(u)' /\ Entering(u)' /\ Leaving(u)') /\ Saving'
              /\ (\A s \in Symbols : ~Busy(s))
<1>1. BookTypeInv /\ job' = job /\ UNCHANGED <<sold, bookLock>> /\ reset' = to /\ crossed' \in BOOLEAN
  BY DEF BookInv, ResetStep, BookTypeInv, BookTypeOK
<1>2. BookTypeInv'
  BY <1>1 DEF BookTypeInv, BookTypeOK, Holder, Carries
<1>3. ASSUME ~crossed'
      PROVE  ~crossed /\ ~onTop /\ Known /\ \A u \in Tasks : job[u].at \notin Active \cup {"saving"}
  BY <1>1, <1>3 DEF ResetStep, BookInv, Working, Active
<1>4. QED
  BY <1>1, <1>2, <1>3, BookAssumption DEF Reading, Entering, Leaving, At, Saving, Busy, Active

LEMMA ResetsInv ==
  ASSUME BookInv,
         ClearFirst \/ WipeLast \/ \E gone \in SUBSET Symbols \ {{}} : WipeFirst(gone) \/ ClearLast(gone)
  PROVE  BookInv'
<1>0. /\ mem \in Book /\ row \in Book /\ NoReset \in Reset
      /\ \A book \in Book, gone \in SUBSET Symbols : Without(book, gone) \in Book
      /\ \A book \in Book : (book # Empty) \in BOOLEAN
  BY BookValues DEF BookInv, BookTypeInv, BookTypeOK, Reset, NoReset, Without, Book
<1>a. \A s \in Symbols : Empty[s] = None
  BY DEF Empty
<1>1. CASE ClearFirst
  <2>1. [at |-> "cleared", of |-> Symbols] \in Reset /\ mem' \in Book /\ row' = row
        /\ ResetStep(NoReset, [at |-> "cleared", of |-> Symbols], FALSE)
    BY <1>0, <1>1, BookValues DEF ClearFirst, Reset
  <2>2. /\ BookTypeInv'
        /\ ~crossed' => (\A u \in Tasks : Reading(u)' /\ Entering(u)' /\ Leaving(u)') /\ Saving'
    BY <1>0, <2>1, ResetIdle
  <2>3. \A s \in Symbols : ~Calm(s)'
    BY <2>1 DEF ResetStep, Calm, NoReset
  <2>4. \A s \in Symbols : mem'[s] = None
    BY <1>1, <1>a DEF ClearFirst
  <2>5. Agreed' /\ Floored'
    BY <1>0, <2>1, <2>3, <2>4, BookValues DEF Agreed, Floored, Agree, Book
  <2>6. QED
    BY <2>2, <2>5 DEF BookInv, Known
<1>2. CASE WipeLast
  <2>1. row' = Empty /\ mem' = mem
        /\ ResetStep([at |-> "cleared", of |-> Symbols], NoReset, mem # Empty)
    BY <1>2 DEF WipeLast
  <2>2. /\ BookTypeInv'
        /\ ~crossed' => (\A u \in Tasks : Reading(u)' /\ Entering(u)' /\ Leaving(u)') /\ Saving' /\ mem = Empty
    BY <1>0, <2>1, BookValues, ResetIdle
  <2>3. ~crossed' => Agreed' /\ Floored'
    BY <1>a, <2>1, <2>2 DEF Agreed, Floored, Agree
  <2>4. QED
    BY <2>2, <2>3 DEF BookInv, Known
<1>3. ASSUME NEW gone \in SUBSET Symbols, WipeFirst(gone) PROVE BookInv'
  <2>1. [at |-> "wiped", of |-> gone] \in Reset /\ row' \in Book /\ mem' = mem /\ row' = Without(row, gone)
        /\ ResetStep(NoReset, [at |-> "wiped", of |-> gone], FALSE)
    BY <1>0, <1>3 DEF WipeFirst, Reset
  <2>2. /\ BookTypeInv'
        /\ ~crossed' => /\ (\A u \in Tasks : Reading(u)' /\ Entering(u)' /\ Leaving(u)') /\ Saving'
                        /\ Known /\ \A s \in Symbols : ~Busy(s)
    BY <1>0, <2>1, ResetIdle
  <2>3. \A s \in Symbols : row'[s] = IF s \in gone THEN None ELSE row[s]
    BY <2>1 DEF Without
  <2>4. reset = NoReset /\ \A s \in Symbols : Calm(s)' => s \notin gone
    BY <2>1 DEF ResetStep, Calm, NoReset
  <2>5. ~crossed' => Agreed' /\ Floored'
    BY <2>1, <2>2, <2>3, <2>4, BookValues DEF Known, Agreed, Floored, Agree, Calm
  <2>6. QED
    BY <2>2, <2>5 DEF BookInv, Known
<1>4. ASSUME NEW gone \in SUBSET Symbols, ClearLast(gone) PROVE BookInv'
  <2>1. mem' \in Book /\ mem' = Without(mem, gone) /\ row' = row
        /\ ResetStep([at |-> "wiped", of |-> gone], NoReset, \E s \in gone : row[s] # None)
    BY <1>0, <1>4 DEF ClearLast
  <2>2. /\ BookTypeInv'
        /\ ~crossed' => /\ (\A u \in Tasks : Reading(u)' /\ Entering(u)' /\ Leaving(u)') /\ Saving'
                        /\ Known /\ (\A s \in Symbols : ~Busy(s)) /\ \A s \in gone : row[s] = None
    BY <1>0, <2>1, ResetIdle
  <2>3. \A s \in Symbols : mem'[s] = IF s \in gone THEN None ELSE mem[s]
    BY <2>1 DEF Without
  <2>4. \A s \in Symbols : s \notin gone => Calm(s)
    BY <2>1 DEF ResetStep, Calm
  <2>5. ~crossed' => Agreed' /\ Floored'
    BY <2>1, <2>2, <2>3, <2>4, BookValues DEF Known, Agreed, Floored, Agree
  <2>6. QED
    BY <2>2, <2>5 DEF BookInv, Known
<1>5. QED
  BY <1>1, <1>2, <1>3, <1>4

LEMMA RestartInv == ASSUME BookInv, Restart PROVE BookInv'
<1>1. \A t \in Tasks : job'[t] = Free /\ job'[t].at = "idle" /\ job'[t].op = "none"
  BY FreeJob DEF Restart
<1>2. BookTypeInv'
  BY <1>1, FreeJob DEF BookInv, Restart, BookTypeInv, BookTypeOK, Holder, Carries, Active, Reset, NoReset
<1>3. Known'
  BY <1>1, BookAssumption DEF Restart, Known, Reading, Entering, Leaving, At, Saving, Agreed, Floored, Agree
<1>4. QED
  BY <1>2, <1>3 DEF BookInv

LEMMA BookUnchanged == ASSUME BookInv, UNCHANGED bookVars PROVE BookInv'
BY DEF bookVars, BookInv, BookTypeInv, BookTypeOK, Holder, Carries, Known, Reading, Entering, Leaving, At,
       Saving, Agreed, Floored, Agree, Calm, Busy
LEMMA InitBookInv == Init => BookInv
<1> SUFFICES ASSUME Init PROVE BookInv
  OBVIOUS
<1>1. \A t \in Tasks : job[t] = Free /\ job[t].at = "idle" /\ job[t].op = "none"
  BY FreeJob DEF Init
<1>2. BookTypeInv
  BY <1>1, FreeJob, BookValues DEF Init, BookTypeInv, BookTypeOK, Holder, Carries, Active, Reset, NoReset
<1>3. Known
  BY <1>1, BookAssumption DEF Init, Known, Reading, Entering, Leaving, At, Saving, Agreed, Floored, Agree, Empty
<1>4. QED
  BY <1>2, <1>3 DEF BookInv

LEMMA BookStepInv == BookInv /\ [Next]_vars => BookInv'
<1> SUFFICES ASSUME BookInv, [Next]_vars PROVE BookInv'
  OBVIOUS
<1>1. ASSUME NEW t \in Tasks, Proceed(t) PROVE BookInv'
  <2>1. CASE BreakerStep(t) \/ EndLift(t)
    BY <2>1, BookUnchanged DEF BreakerStep, EndLift
  <2>2. QED
    BY <1>1, <2>1, PassGateInv, EnterOpenInv, RefuseOpenInv, EnterMemoryInv, CommitOpenInv, RejectOpenInv,
       ReloadInv, FailOpenInv, EnterCloseInv, CommitCloseInv, FailCloseInv, RemoveClosedInv, AskJudgeInv,
       EndCloseInv, SaveArmedInv, FailSaveInv
       DEF Proceed
<1>2. ASSUME NEW t \in Tasks, Request(t) PROVE BookInv'
  BY <1>2, AskOpenInv, AskCloseInv, BookUnchanged DEF Request, AskLift
<1>3. CASE TimePasses \/ UNCHANGED vars
  BY <1>3, BookUnchanged DEF TimePasses, vars
<1>4. QED
  BY <1>1, <1>2, <1>3, ArmInv, ResetsInv, RestartInv DEF Next

THEOREM BookInvHolds == Spec => []BookInv
BY InitBookInv, BookStepInv, PTL DEF Spec

(* Type correctness of the book and of every operation on it.               *)
THEOREM BookTypes == Spec => []BookTypeOK
<1>1. BookInv => BookTypeOK
  BY DEF BookInv, BookTypeInv
<1>2. QED
  BY <1>1, BookInvHolds, PTL

(* The strategy loop manages what the table holds.                          *)
THEOREM BookAgreement == Spec => []BookAgrees
<1>1. BookInv => BookAgrees
  <2> SUFFICES ASSUME BookInv, ~crossed, NEW s \in Symbols, Settled(s) PROVE mem[s].id = row[s].id
    BY DEF BookAgrees
  <2>1. Calm(s)
    BY DEF Settled, Calm
  <2>2. ~Busy(s)
    BY DEF Settled, Busy, Working, Active
  <2>3. QED
    BY <2>1, <2>2 DEF BookInv, Known, Agreed, Agree
<1>2. QED
  BY <1>1, BookInvHolds, PTL

(* A profit lock that was stored is in force (D-01).                        *)
THEOREM FloorInForce == Spec => []FloorHeld
<1>1. BookInv => FloorHeld
  BY DEF BookInv, Known, Floored, Agree, FloorHeld
<1>2. QED
  BY <1>1, BookInvHolds, PTL

---------------------------------------------------------------------------
(* The composition uses the breaker through its operations only.            *)
LEMMA BreakerSimulation == BookInv /\ [Next]_vars => [BreakerNext]_breakerVars
<1> SUFFICES ASSUME BookInv, [Next]_vars PROVE [BreakerNext]_breakerVars
  OBVIOUS
<1>1. ASSUME NEW t \in Tasks, Proceed(t) PROVE [BreakerNext]_breakerVars
  <2>1. CASE PassGate(t) \/ EndClose(t) \/ EndLift(t)
    BY <2>1 DEF PassGate, EndClose, EndLift, BreakerNext
  <2>2. CASE BreakerStep(t)
    BY <2>2 DEF BreakerStep, BreakerNext
  <2>3. CASE AskJudge(t)
    <3>1. job[t].pos.strat \in Strategies
      BY <2>3, JobFields, BookValues DEF AskJudge, At, BookInv, CarriesOne, Carrying
    <3>2. QED
      BY <2>3, <3>1 DEF AskJudge, BreakerNext
  <2>4. CASE UNCHANGED breakerVars
    BY <2>4
  <2>5. QED
    BY <1>1, <2>1, <2>2, <2>3, <2>4
       DEF Proceed, EnterOpen, RefuseOpen, EnterMemory, CommitOpen, RejectOpen, Reload, FailOpen,
           EnterClose, CommitClose, FailClose, RemoveClosed, SaveArmed, FailSave
<1>2. ASSUME NEW t \in Tasks, Request(t) PROVE [BreakerNext]_breakerVars
  BY <1>2 DEF Request, AskOpen, AskClose, AskLift, BreakerNext
<1>3. CASE TimePasses \/ Restart
  BY <1>3 DEF TimePasses, Restart, BreakerNext
<1>4. CASE UNCHANGED vars \/ \E s \in Symbols : Arm(s)
  BY <1>4 DEF vars, Arm
<1>5. CASE ClearFirst \/ WipeLast \/ \E gone \in SUBSET Symbols \ {{}} : WipeFirst(gone) \/ ClearLast(gone)
  BY <1>5 DEF ClearFirst, WipeLast, WipeFirst, ClearLast, ResetStep
<1>6. QED
  BY <1>1, <1>2, <1>3, <1>4, <1>5 DEF Next

(* A step of the argument and no result: the actions of the book are built   *)
(* from those of the breaker, so the breaker's theorems hold of the          *)
(* composition.  What they say of the code is stated below.                  *)
LEMMA BookUsesBreaker == Spec => BreakerSpec
<1>1. Init => BreakerInit
  BY DEF Init
<1>2. QED
  BY <1>1, BreakerSimulation, BookInvHolds, PTL DEF Spec, BreakerSpec

THEOREM BookMemoryIsStore == Spec => []MemoryIsStore
BY BookUsesBreaker, BreakerMemoryIsStore, PTL

THEOREM BookOwnRecordOnly == Spec => OwnRecordOnly
BY BookUsesBreaker, BreakerOwnRecordOnly

THEOREM BookGateHonoursStore == Spec => GateHonoursStore
BY BookUsesBreaker, BreakerGateHonoursStore
=============================================================================
