-------------------------- MODULE StrategyBreaker --------------------------
(***************************************************************************)
(* circuit_breaker.py: the strategies whose new entries are paused, kept as *)
(* a dictionary in memory and as one JSON value in llm_settings.  The value *)
(* is loaded on first use - outside the lock, unless resume() is the first  *)
(* user - and every change rewrites it as a whole under _state_lock.        *)
(*                                                                          *)
(* A task calls one operation at a time; each await of the operation ends   *)
(* an action.  What the trades say about a strategy is the verdict of an    *)
(* evaluation and left open.                                                *)
(***************************************************************************)
EXTENDS FiniteSets

CONSTANTS
  Tasks,       (* coroutines that may be inside the breaker at once        *)
  Strategies,  (* strategy names                                           *)
  Nil          (* nobody                                                   *)

ASSUME BreakerAssumption == Nil \notin Tasks \cup Strategies

VARIABLES
  paused,      (* _paused, the names in the memory dictionary              *)
  loaded,      (* _loaded                                                  *)
  stored,      (* the value of strategy_circuit_breaker_paused             *)
  stateLock,   (* holder of _state_lock, or Nil                            *)
  recent,      (* strategies evaluated less than 5 s ago (_last_eval)      *)
  call,        (* the operation each task is in                            *)
  astray       (* history: memory and store were allowed to part, by a load *)
               (* that failed or ended late or by a write that failed      *)

breakerVars == <<paused, loaded, stored, stateLock, recent, call, astray>>

Operations == {"none", "gate", "evaluate", "resume"}

(* "loading": llm_settings was read, the value is not assigned yet;         *)
(* "trades": the window of trades is being read; "judged": waiting for the  *)
(* lock; "persisting": memory changed, the write is pending under the lock. *)
Stages == {"idle", "loading", "trades", "judged", "persisting", "done"}

Call == [op : Operations, strat : Strategies \cup {Nil}, at : Stages,
         seen : SUBSET Strategies,       (* what was read, or is to be written *)
         verdict : {"none", "healthy", "breached"},
         cleared : BOOLEAN]              (* answer of the gate: not paused     *)

Idle == [op |-> "none", strat |-> Nil, at |-> "idle", seen |-> {},
         verdict |-> "none", cleared |-> FALSE]

BreakerTypeOK ==
  /\ paused \in SUBSET Strategies
  /\ loaded \in BOOLEAN
  /\ stored \in SUBSET Strategies
  /\ stateLock \in Tasks \cup {Nil}
  /\ recent \in SUBSET Strategies
  /\ call \in [Tasks -> Call]
  /\ astray \in BOOLEAN

Persisting == {t \in Tasks : call[t].at = "persisting"}

Stage(t, op, stage) == call[t].op = op /\ call[t].at = stage

---------------------------------------------------------------------------
(* _ensure_loaded: the read yields the stored value, or nothing when it     *)
(* fails; the caller goes on in the step that assigns it to memory.         *)

Load(t, op, s) ==
  /\ \E read \in {stored, {}} :
       call' = [call EXCEPT ![t] = [Idle EXCEPT !.op = op, !.strat = s, !.at = "loading", !.seen = read]]
  /\ UNCHANGED <<paused, loaded, astray>>

Loaded(t) ==
  /\ loaded' = TRUE
  /\ astray' = (astray \/ call[t].seen # stored \/ Persisting # {})

---------------------------------------------------------------------------
(* is_paused_async: the entry gate of open_position.                        *)

Answer(t, s, names) ==
  /\ call' = [call EXCEPT ![t] = [Idle EXCEPT !.op = "gate", !.strat = s, !.at = "done",
                                             !.cleared = s \notin names]]
  /\ paused' = names

(* Mutant: the synchronous is_paused, which does not wait for the load.     *)
AskMemory(t, s) ==
  /\ call[t].at = "idle"
  /\ Answer(t, s, paused) /\ UNCHANGED <<loaded, astray>>
  /\ UNCHANGED <<stored, stateLock, recent>>

AskGate(t, s) ==
  /\ call[t].at = "idle"
  /\ \/ loaded /\ Answer(t, s, paused) /\ UNCHANGED <<loaded, astray>>
     \/ ~loaded /\ Load(t, "gate", s)
  /\ UNCHANGED <<stored, stateLock, recent>>

GateLoaded(t) ==
  /\ Stage(t, "gate", "loading")
  /\ Loaded(t)
  /\ Answer(t, call[t].strat, call[t].seen)
  /\ UNCHANGED <<stored, stateLock, recent>>

---------------------------------------------------------------------------
(* evaluate_after_close.                                                    *)

Debounce(t, s) ==
  /\ call' = [call EXCEPT ![t] = [Idle EXCEPT !.op = "evaluate", !.strat = s,
                                             !.at = IF s \in recent THEN "done" ELSE "trades"]]
  /\ recent' = recent \cup {s}

AskEvaluate(t, s) ==
  /\ call[t].at = "idle"
  /\ \/ loaded /\ Debounce(t, s) /\ UNCHANGED <<paused, loaded, astray>>
     \/ ~loaded /\ Load(t, "evaluate", s) /\ UNCHANGED recent
  /\ UNCHANGED <<stored, stateLock>>

EvaluateLoaded(t) ==
  /\ Stage(t, "evaluate", "loading")
  /\ Loaded(t)
  /\ paused' = call[t].seen
  /\ Debounce(t, call[t].strat)
  /\ UNCHANGED <<stored, stateLock>>

(* The window of the last trades is too short or unreadable, or its         *)
(* expectancy is on one side of the floor.                                  *)
ReadTrades(t) ==
  /\ Stage(t, "evaluate", "trades")
  /\ \/ call' = [call EXCEPT ![t].at = "done"]
     \/ \E v \in {"healthy", "breached"} :
          call' = [call EXCEPT ![t].at = "judged", ![t].verdict = v]
  /\ UNCHANGED <<paused, loaded, stored, stateLock, recent, astray>>

(* The locked region: nothing to change, or memory is changed and what will  *)
(* be written is fixed (json.dumps) before the write is awaited.            *)
Change(t, op, s, before, names) ==
  /\ paused' = names
  /\ stateLock' = IF names = before THEN Nil ELSE t
  /\ call' = [call EXCEPT ![t] =
                [Idle EXCEPT !.op = op, !.strat = s, !.seen = IF names = before THEN {} ELSE names,
                             !.at = IF names = before THEN "done" ELSE "persisting"]]

Judged(t) ==
  IF call[t].verdict = "healthy" THEN paused \ {call[t].strat} ELSE paused \cup {call[t].strat}

(* Mutant: the read-modify-write that does not wait for the lock.           *)
JudgeUnlocked(t) ==
  /\ Stage(t, "evaluate", "judged")
  /\ Change(t, "evaluate", call[t].strat, paused, Judged(t))
  /\ UNCHANGED <<loaded, stored, recent, astray>>

Judge(t) ==
  /\ Stage(t, "evaluate", "judged")
  /\ stateLock = Nil
  /\ Change(t, "evaluate", call[t].strat, paused, Judged(t))
  /\ UNCHANGED <<loaded, stored, recent, astray>>

---------------------------------------------------------------------------
(* resume: everything under the lock, the load included.                    *)

AskResume(t, s) ==
  /\ call[t].at = "idle" /\ stateLock = Nil
  /\ \/ loaded /\ Change(t, "resume", s, paused, paused \ {s}) /\ UNCHANGED <<loaded, astray>>
     \/ ~loaded /\ Load(t, "resume", s) /\ stateLock' = t
  /\ UNCHANGED <<stored, recent>>

ResumeLoaded(t) ==
  /\ Stage(t, "resume", "loading")
  /\ Loaded(t)
  /\ Change(t, "resume", call[t].strat, call[t].seen, call[t].seen \ {call[t].strat})
  /\ UNCHANGED <<stored, recent>>

---------------------------------------------------------------------------
Persist(t) ==
  /\ call[t].at = "persisting"
  /\ stored' = call[t].seen
  /\ stateLock' = Nil
  /\ call' = [call EXCEPT ![t].at = "done"]
  /\ UNCHANGED <<paused, loaded, recent, astray>>

(* The write raises: memory keeps the change, the lock is released, and the *)
(* handler of the caller ends the call.                                     *)
PersistFails(t) ==
  /\ call[t].at = "persisting"
  /\ stateLock' = Nil
  /\ call' = [call EXCEPT ![t].at = "done"]
  /\ astray' = TRUE
  /\ UNCHANGED <<paused, loaded, stored, recent>>

Return(t) ==
  /\ call[t].at = "done"
  /\ call' = [call EXCEPT ![t] = Idle]
  /\ UNCHANGED <<paused, loaded, stored, stateLock, recent, astray>>

(* Five seconds pass since the last evaluation of s.                        *)
Later(s) ==
  /\ s \in recent
  /\ recent' = recent \ {s}
  /\ UNCHANGED <<paused, loaded, stored, stateLock, call, astray>>

(* The process restarts: only the stored value survives.                    *)
BreakerRestart ==
  /\ paused' = {} /\ loaded' = FALSE
  /\ stateLock' = Nil /\ recent' = {}
  /\ call' = [t \in Tasks |-> Idle]
  /\ astray' = FALSE
  /\ UNCHANGED stored

BreakerInit ==
  /\ paused = {} /\ loaded = FALSE
  /\ stored \in SUBSET Strategies
  /\ stateLock = Nil /\ recent = {}
  /\ call = [t \in Tasks |-> Idle]
  /\ astray = FALSE

(* The steps of a call that its caller only waits for.                      *)
Inside(t) ==
  \/ GateLoaded(t) \/ EvaluateLoaded(t) \/ ResumeLoaded(t)
  \/ ReadTrades(t) \/ Judge(t)
  \/ Persist(t) \/ PersistFails(t)

BreakerNext ==
  \/ \E t \in Tasks :
       \/ Inside(t) \/ Return(t)
       \/ \E s \in Strategies : AskGate(t, s) \/ AskEvaluate(t, s) \/ AskResume(t, s)
  \/ \E s \in Strategies : Later(s)
  \/ BreakerRestart

BreakerSpec == BreakerInit /\ [][BreakerNext]_breakerVars

---------------------------------------------------------------------------
(* The lost updates of D-09: whenever no write is pending, what memory says  *)
(* is what the next process will load - as long as no load failed, none      *)
(* ended on top of a change, and no write failed.                           *)
MemoryIsStore == ~astray /\ loaded /\ Persisting = {} => paused = stored

(* Two evaluations, or an evaluation and a resume, never erase each other's  *)
(* record: a name leaves or enters the store only by the write of a call    *)
(* about that name.                                                         *)
OwnRecordOnly ==
  [][~astray => \A s \in Strategies : (s \in stored) # (s \in stored') =>
        \E t \in Tasks : call[t].at = "persisting" /\ call[t].strat = s]_breakerVars

(* D-05: no restart makes the gate forget.  A strategy that the store has    *)
(* paused is not cleared, unless a write about it is still pending.         *)
GateHonoursStore ==
  [][\A t \in Tasks : call'[t].cleared /\ ~call[t].cleared =>
        astray' \/ Persisting # {} \/ call'[t].strat \notin stored]_breakerVars

=============================================================================
