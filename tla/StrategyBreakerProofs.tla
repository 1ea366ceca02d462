----------------------- MODULE StrategyBreakerProofs -----------------------
(***************************************************************************)
(* Proofs about StrategyBreaker for any tasks and strategies.  The          *)
(* inductive invariant says what _state_lock buys: the dictionary in memory *)
(* and the stored value differ by the record of one pending write at most.  *)
(***************************************************************************)
EXTENDS StrategyBreaker, TLAPS

(* Every call is about a strategy.                                          *)
Named == \A t \in Tasks : call[t].at # "idle" => call[t].strat \in Strategies

TypeInv == BreakerTypeOK /\ Named

(* Who writes, or resumes, holds the lock; who evaluates has loaded.         *)
LockHeld ==
  \A t \in Tasks : call[t].at = "persisting" \/ Stage(t, "resume", "loading") => stateLock = t
LoadedFirst == \A t \in Tasks : call[t].at \in {"trades", "judged", "persisting"} => loaded

(* A pending write changes one record of what is stored.                    *)
WriteOfOne ==
  ~astray => \A t \in Persisting :
    /\ paused = call[t].seen
    /\ \A s \in Strategies : s # call[t].strat => (s \in paused <=> s \in stored)

BreakerInv == TypeInv /\ LockHeld /\ LoadedFirst /\ WriteOfOne /\ MemoryIsStore

---------------------------------------------------------------------------
LEMMA InitBreakerInv == BreakerInit => BreakerInv
<1> SUFFICES ASSUME BreakerInit PROVE BreakerInv
  OBVIOUS
<1>1. \A t \in Tasks : call[t] = Idle /\ call[t].at = "idle"
  BY DEF BreakerInit, Idle
<1>2. Idle \in Call
  BY DEF Idle, Call, Operations, Stages
<1>3. TypeInv
  BY <1>1, <1>2 DEF BreakerInit, TypeInv, BreakerTypeOK, Named
<1>4. QED
  BY <1>1, <1>3 DEF BreakerInit, BreakerInv, LockHeld, LoadedFirst, WriteOfOne, MemoryIsStore, Persisting, Stage

(* The call of one task changes.                                            *)
CallOK == call \in [Tasks -> Call] /\ Named

LEMMA SetCall ==
  ASSUME TypeInv, NEW t \in Tasks, NEW c \in Call, c.at # "idle" => c.strat \in Strategies,
         call' = [call EXCEPT ![t] = c]
  PROVE  CallOK'
BY DEF TypeInv, BreakerTypeOK, Named, CallOK

LEMMA LoadTypes ==
  ASSUME TypeInv, NEW t \in Tasks, NEW op \in Operations, NEW s \in Strategies, Load(t, op, s)
  PROVE  CallOK'
<1>1. PICK read \in {stored, {}} :
        call' = [call EXCEPT ![t] = [Idle EXCEPT !.op = op, !.strat = s, !.at = "loading", !.seen = read]]
  BY DEF Load
<1> DEFINE c == [Idle EXCEPT !.op = op, !.strat = s, !.at = "loading", !.seen = read]
<1>2. c \in Call
  BY DEF TypeInv, BreakerTypeOK, Call, Idle, Operations, Stages
<1>3. c.strat = s
  BY DEF Idle
<1>4. QED
  BY <1>1, <1>2, <1>3, SetCall

LEMMA AnswerTypes ==
  ASSUME TypeInv, NEW t \in Tasks, NEW s \in Strategies, NEW names \in SUBSET Strategies,
         Answer(t, s, names)
  PROVE  CallOK' /\ paused' \in SUBSET Strategies
<1> DEFINE c == [Idle EXCEPT !.op = "gate", !.strat = s, !.at = "done", !.cleared = s \notin names]
<1>1. c \in Call
  BY DEF Call, Idle, Operations, Stages
<1>2. c.strat = s
  BY DEF Idle
<1>3. QED
  BY <1>1, <1>2, SetCall DEF Answer

LEMMA DebounceTypes ==
  ASSUME TypeInv, NEW t \in Tasks, NEW s \in Strategies, Debounce(t, s)
  PROVE  CallOK' /\ recent' \in SUBSET Strategies
<1> DEFINE c == [Idle EXCEPT !.op = "evaluate", !.strat = s, !.at = IF s \in recent THEN "done" ELSE "trades"]
<1>1. c \in Call
  BY DEF Call, Idle, Operations, Stages
<1>2. c.strat = s
  BY DEF Idle
<1>3. QED
  BY <1>1, <1>2, SetCall DEF Debounce, TypeInv, BreakerTypeOK

LEMMA ChangeTypes ==
  ASSUME TypeInv, NEW t \in Tasks, NEW op \in Operations, NEW s \in Strategies,
         NEW before, NEW names \in SUBSET Strategies, Change(t, op, s, before, names)
  PROVE  /\ CallOK' /\ paused' \in SUBSET Strategies /\ stateLock' \in Tasks \cup {Nil}
<1> DEFINE c == [Idle EXCEPT !.op = op, !.strat = s, !.seen = IF names = before THEN {} ELSE names,
                             !.at = IF names = before THEN "done" ELSE "persisting"]
<1>1. c \in Call
  BY DEF Call, Idle, Operations, Stages
<1>2. c.strat = s
  BY DEF Idle
<1>3. CallOK'
  BY <1>1, <1>2, SetCall DEF Change
<1>4. QED
  BY <1>3 DEF Change

(* What a call has read, and is about.                                      *)
LEMMA CallTypes ==
  ASSUME TypeInv, NEW t \in Tasks, call[t].at # "idle"
  PROVE  call[t] \in Call /\ call[t].strat \in Strategies /\ call[t].seen \in SUBSET Strategies
BY DEF TypeInv, BreakerTypeOK, Named, Call

LEMMA TypeStep == TypeInv /\ [BreakerNext]_breakerVars => TypeInv'
<1> SUFFICES ASSUME TypeInv, [BreakerNext]_breakerVars PROVE TypeInv'
  OBVIOUS
<1>0. /\ paused \in SUBSET Strategies /\ loaded \in BOOLEAN /\ stored \in SUBSET Strategies
      /\ stateLock \in Tasks \cup {Nil} /\ recent \in SUBSET Strategies
      /\ call \in [Tasks -> Call] /\ Named /\ astray \in BOOLEAN
      /\ {"gate", "evaluate", "resume"} \subseteq Operations
  BY DEF TypeInv, BreakerTypeOK, Operations
<1> USE DEF TypeInv, BreakerTypeOK
<1>1. ASSUME NEW t \in Tasks, NEW s \in Strategies, AskGate(t, s) PROVE TypeInv'
  BY <1>0, <1>1, LoadTypes, AnswerTypes DEF AskGate, Load, CallOK
<1>2. ASSUME NEW t \in Tasks, GateLoaded(t) PROVE TypeInv'
  BY <1>0, <1>2, AnswerTypes, CallTypes DEF GateLoaded, Loaded, Stage, CallOK
<1>3. ASSUME NEW t \in Tasks, NEW s \in Strategies, AskEvaluate(t, s) PROVE TypeInv'
  BY <1>0, <1>3, LoadTypes, DebounceTypes DEF AskEvaluate, Load, CallOK
<1>4. ASSUME NEW t \in Tasks, EvaluateLoaded(t) PROVE TypeInv'
  BY <1>0, <1>4, DebounceTypes, CallTypes DEF EvaluateLoaded, Loaded, Stage, CallOK
<1>5. ASSUME NEW t \in Tasks, ReadTrades(t) PROVE TypeInv'
  <2>1. PICK c \in Call : c.strat = call[t].strat /\ call' = [call EXCEPT ![t] = c]
    <3>1. CASE call' = [call EXCEPT ![t].at = "done"]
      <4>1. [call[t] EXCEPT !.at = "done"] \in Call
        BY <1>0 DEF Call, Stages
      <4>2. QED
        BY <3>1, <4>1, <1>0 DEF Call
    <3>2. ASSUME NEW v \in {"healthy", "breached"},
                 call' = [call EXCEPT ![t].at = "judged", ![t].verdict = v]
          PROVE  \E c \in Call : c.strat = call[t].strat /\ call' = [call EXCEPT ![t] = c]
      <4>1. [call[t] EXCEPT !.at = "judged", !.verdict = v] \in Call
        BY <1>0 DEF Call, Stages
      <4>2. QED
        BY <3>2, <4>1, <1>0 DEF Call
    <3>3. QED
      BY <1>5, <3>1, <3>2 DEF ReadTrades
  <2>2. CallOK'
    BY <1>5, <2>1, SetCall, CallTypes DEF ReadTrades, Stage
  <2>3. QED
    BY <1>0, <1>5, <2>2 DEF ReadTrades, CallOK
<1>6. ASSUME NEW t \in Tasks, Judge(t) PROVE TypeInv'
  <2>1. call[t].strat \in Strategies /\ Judged(t) \in SUBSET Strategies
    BY <1>0, <1>6, CallTypes DEF Judge, Stage, Judged
  <2>2. QED
    BY <1>0, <1>6, <2>1, ChangeTypes DEF Judge, CallOK
<1>7. ASSUME NEW t \in Tasks, NEW s \in Strategies, AskResume(t, s) PROVE TypeInv'
  <2>1. CASE loaded
    <3>1. Change(t, "resume", s, paused, paused \ {s})
      BY <1>7, <2>1 DEF AskResume
    <3>2. CallOK' /\ paused' \in SUBSET Strategies /\ stateLock' \in Tasks \cup {Nil}
      BY <1>0, <3>1, ChangeTypes
    <3>3. QED
      BY <1>0, <1>7, <2>1, <3>2 DEF AskResume, CallOK
  <2>2. CASE ~loaded
    BY <1>0, <1>7, <2>2, LoadTypes DEF AskResume, Load, CallOK
  <2>3. QED
    BY <2>1, <2>2
<1>8. ASSUME NEW t \in Tasks, ResumeLoaded(t) PROVE TypeInv'
  <2>1. call[t].strat \in Strategies /\ call[t].seen \ {call[t].strat} \in SUBSET Strategies
    BY <1>0, <1>8, CallTypes DEF ResumeLoaded, Stage
  <2>2. CallOK' /\ paused' \in SUBSET Strategies /\ stateLock' \in Tasks \cup {Nil}
    BY <1>0, <1>8, <2>1, ChangeTypes DEF ResumeLoaded
  <2>3. QED
    BY <1>0, <1>8, <2>2 DEF ResumeLoaded, Loaded, CallOK
<1>9. ASSUME NEW t \in Tasks, Persist(t) \/ PersistFails(t) PROVE TypeInv'
  <2>1. call[t].at # "idle" /\ call' = [call EXCEPT ![t].at = "done"]
    BY <1>9 DEF Persist, PersistFails
  <2>2. [call[t] EXCEPT !.at = "done"] \in Call
    BY <1>0 DEF Call, Stages
  <2>3. CallOK'
    BY <1>0, <2>1, <2>2, SetCall, CallTypes DEF Call
  <2>4. call[t].seen \in SUBSET Strategies
    BY <2>1, CallTypes
  <2>5. QED
    BY <1>0, <1>9, <2>3, <2>4 DEF Persist, PersistFails, CallOK
<1>10. ASSUME NEW t \in Tasks, Return(t) PROVE TypeInv'
  <2>1. Idle \in Call /\ Idle.at = "idle"
    BY DEF Idle, Call, Operations, Stages
  <2>2. QED
    BY <1>0, <1>10, <2>1, SetCall DEF Return, CallOK
<1>11. ASSUME NEW s \in Strategies, Later(s) PROVE TypeInv'
  BY <1>0, <1>11 DEF Later, Named
<1>12. CASE BreakerRestart
  <2>1. Idle \in Call /\ Idle.at = "idle"
    BY DEF Idle, Call, Operations, Stages
  <2>2. QED
    BY <1>0, <1>12, <2>1 DEF BreakerRestart, Named
<1>13. CASE UNCHANGED breakerVars
  BY <1>0, <1>13 DEF breakerVars, Named
<1>14. QED
  BY <1>1, <1>2, <1>3, <1>4, <1>5, <1>6, <1>7, <1>8, <1>9, <1>10, <1>11, <1>12, <1>13
     DEF BreakerNext, Inside
---------------------------------------------------------------------------
(* What each kind of step leaves in the calls.                              *)
Others(t) == \A u \in Tasks : u # t => call'[u] = call[u]

LEMMA SetShape ==
  ASSUME TypeInv, NEW t \in Tasks, NEW c, call' = [call EXCEPT ![t] = c]
  PROVE  Others(t) /\ call'[t] = c
BY DEF TypeInv, BreakerTypeOK, Others

LEMMA LoadShape ==
  ASSUME TypeInv, NEW t \in Tasks, NEW op, NEW s, Load(t, op, s)
  PROVE  /\ Others(t)
         /\ call'[t].op = op /\ call'[t].at = "loading" /\ call'[t].cleared = FALSE
<1>1. PICK read \in {stored, {}} :
        call' = [call EXCEPT ![t] = [Idle EXCEPT !.op = op, !.strat = s, !.at = "loading", !.seen = read]]
  BY DEF Load
<1> DEFINE c == [Idle EXCEPT !.op = op, !.strat = s, !.at = "loading", !.seen = read]
<1>2. c.op = op /\ c.at = "loading" /\ c.cleared = FALSE
  BY DEF Idle
<1>3. Others(t) /\ call'[t] = c
  BY <1>1, SetShape
<1>4. QED
  BY <1>2, <1>3

LEMMA AnswerShape ==
  ASSUME TypeInv, NEW t \in Tasks, NEW s, NEW names, Answer(t, s, names)
  PROVE  /\ Others(t)
         /\ call'[t].at = "done" /\ call'[t].strat = s /\ call'[t].cleared = (s \notin names)
<1> DEFINE c == [Idle EXCEPT !.op = "gate", !.strat = s, !.at = "done", !.cleared = s \notin names]
<1>1. c.at = "done" /\ c.strat = s /\ c.cleared = (s \notin names)
  BY DEF Idle
<1>2. Others(t) /\ call'[t] = c
  BY SetShape DEF Answer
<1>3. QED
  BY <1>1, <1>2

LEMMA DebounceShape ==
  ASSUME TypeInv, NEW t \in Tasks, NEW s, Debounce(t, s)
  PROVE  Others(t) /\ call'[t].at \in {"done", "trades"} /\ call'[t].cleared = FALSE
<1> DEFINE c == [Idle EXCEPT !.op = "evaluate", !.strat = s, !.at = IF s \in recent THEN "done" ELSE "trades"]
<1>1. c.at \in {"done", "trades"} /\ c.cleared = FALSE
  BY DEF Idle
<1>2. Others(t) /\ call'[t] = c
  BY SetShape DEF Debounce
<1>3. QED
  BY <1>1, <1>2

LEMMA ChangeShape ==
  ASSUME TypeInv, NEW t \in Tasks, NEW op, NEW s, NEW before, NEW names, Change(t, op, s, before, names)
  PROVE  /\ Others(t)
         /\ call'[t].strat = s /\ call'[t].cleared = FALSE
         /\ IF names = before THEN call'[t].at = "done"
            ELSE call'[t].at = "persisting" /\ call'[t].seen = names
<1> DEFINE c == [Idle EXCEPT !.op = op, !.strat = s, !.seen = IF names = before THEN {} ELSE names,
                             !.at = IF names = before THEN "done" ELSE "persisting"]
<1>1. /\ c.strat = s /\ c.cleared = FALSE
      /\ IF names = before THEN c.at = "done" ELSE c.at = "persisting" /\ c.seen = names
  BY DEF Idle
<1>2. Others(t) /\ call'[t] = c
  BY SetShape DEF Change
<1>3. QED
  BY <1>1, <1>2

LEMMA FieldShape ==
  ASSUME TypeInv, NEW t \in Tasks, NEW stage, call' = [call EXCEPT ![t].at = stage]
  PROVE  Others(t) /\ call'[t].at = stage /\ call'[t].cleared = call[t].cleared
BY DEF TypeInv, BreakerTypeOK, Others, Call

LEMMA VerdictShape ==
  ASSUME TypeInv, NEW t \in Tasks, ReadTrades(t)
  PROVE  /\ Others(t)
         /\ call'[t].at \in {"done", "judged"} /\ call'[t].cleared = call[t].cleared
<1>1. CASE call' = [call EXCEPT ![t].at = "done"]
  BY <1>1, FieldShape
<1>2. ASSUME NEW v, call' = [call EXCEPT ![t].at = "judged", ![t].verdict = v]
      PROVE  /\ Others(t)
             /\ call'[t].at = "judged" /\ call'[t].cleared = call[t].cleared
  BY <1>2 DEF TypeInv, BreakerTypeOK, Others, Call
<1>3. QED
  BY <1>1, <1>2 DEF ReadTrades

---------------------------------------------------------------------------
(* The invariant without the types.                                         *)
Coherent == LockHeld /\ LoadedFirst /\ WriteOfOne /\ MemoryIsStore

(* A step of t that neither writes nor changes what is remembered.          *)
LEMMA QuietStep ==
  ASSUME BreakerInv, NEW t \in Tasks, Others(t), call[t].at # "persisting",
         ~Stage(t, "resume", "loading"),
         call'[t].at # "persisting",
         Stage(t, "resume", "loading")' => stateLock' = t,
         call'[t].at \in {"trades", "judged"} => loaded,
         stateLock' = stateLock \/ stateLock = Nil,
         UNCHANGED <<paused, stored, loaded, astray>>
  PROVE  Coherent'
<1>1. Persisting' = Persisting
  BY DEF Persisting, Others
<1>2. \A u \in Persisting : call'[u] = call[u]
  BY DEF Persisting, Others
<1>3. LockHeld' /\ LoadedFirst'
  BY BreakerAssumption DEF BreakerInv, LockHeld, LoadedFirst, Others, Stage
<1>4. WriteOfOne' /\ MemoryIsStore'
  BY <1>1, <1>2 DEF BreakerInv, WriteOfOne, MemoryIsStore
<1>5. QED
  BY <1>3, <1>4 DEF Coherent

(* A load assigned to memory by a call that does not hold the lock.         *)
LEMMA LoadedStep ==
  ASSUME BreakerInv, NEW t \in Tasks, Others(t), call[t].at = "loading",
         ~Stage(t, "resume", "loading"), call'[t].at \in {"done", "trades"},
         Loaded(t), paused' = call[t].seen, UNCHANGED <<stored, stateLock>>
  PROVE  Coherent'
<1>1. Persisting' = Persisting
  BY DEF Persisting, Others
<1>2. LockHeld' /\ LoadedFirst'
  BY DEF BreakerInv, LockHeld, LoadedFirst, Others, Stage, Loaded
<1>3. ~astray' => paused' = stored' /\ Persisting' = {}
  BY <1>1 DEF Loaded
<1>4. WriteOfOne' /\ MemoryIsStore'
  BY <1>3 DEF WriteOfOne, MemoryIsStore
<1>5. QED
  BY <1>2, <1>4 DEF Coherent

(* The locked change: nobody else holds the lock, and what was there before  *)
(* is what is stored.                                                       *)
LEMMA ChangeStep ==
  ASSUME BreakerInv, NEW t \in Tasks, NEW op, NEW s \in Strategies,
         NEW before \in SUBSET Strategies, NEW names \in SUBSET Strategies,
         Change(t, op, s, before, names),
         stateLock = Nil \/ stateLock = t,
         loaded', stored' = stored, ~astray' => before = stored,
         \A r \in Strategies : r # s => (r \in names <=> r \in before)
  PROVE  Coherent'
<1>0. /\ Others(t) /\ call'[t].strat = s
      /\ IF names = before THEN call'[t].at = "done"
         ELSE call'[t].at = "persisting" /\ call'[t].seen = names
  BY ChangeShape DEF BreakerInv
<1>1. \A u \in Tasks : u # t => call'[u].at # "persisting" /\ ~Stage(u, "resume", "loading")'
  BY <1>0, BreakerAssumption DEF BreakerInv, LockHeld, Others, Stage
<1>2. LockHeld' /\ LoadedFirst'
  BY <1>0, <1>1 DEF Change, LockHeld, LoadedFirst, Others, Stage
<1>3. Persisting' \subseteq {t}
  BY <1>1 DEF Persisting
<1>4. CASE names = before
  <2>1. Persisting' = {} /\ (~astray' => paused' = stored')
    BY <1>0, <1>1, <1>4 DEF Persisting, Change
  <2>2. QED
    BY <1>2, <2>1 DEF Coherent, WriteOfOne, MemoryIsStore
<1>5. CASE names # before
  <2>1. Persisting' = {t} /\ paused' = call'[t].seen
    BY <1>0, <1>1, <1>5 DEF Persisting, Change
  <2>2. ~astray' => \A r \in Strategies : r # call'[t].strat => (r \in paused' <=> r \in stored')
    BY <1>0 DEF Change
  <2>3. QED
    BY <1>2, <2>1, <2>2 DEF Coherent, WriteOfOne, MemoryIsStore
<1>6. QED
  BY <1>4, <1>5

(* While the lock is free, memory is what is stored.                        *)
LEMMA FreeLock ==
  ASSUME BreakerInv, stateLock = Nil, loaded, ~astray
  PROVE  paused = stored
<1>1. Persisting = {}
  BY BreakerAssumption DEF BreakerInv, LockHeld, Persisting
<1>2. QED
  BY <1>1 DEF BreakerInv, MemoryIsStore

LEMMA BreakerStepInv == BreakerInv /\ [BreakerNext]_breakerVars => BreakerInv'
<1> SUFFICES ASSUME BreakerInv, [BreakerNext]_breakerVars PROVE BreakerInv'
  OBVIOUS
<1>0. TypeInv /\ TypeInv'
  BY TypeStep DEF BreakerInv
<1>a. BreakerTypeOK
  BY <1>0 DEF TypeInv
<1> SUFFICES Coherent'
  BY <1>0 DEF Coherent, BreakerInv
<1>1. ASSUME NEW t \in Tasks, NEW s \in Strategies, AskGate(t, s) PROVE Coherent'
  <2>1. CASE loaded /\ Answer(t, s, paused)
    <3>1. Others(t) /\ call'[t].at = "done"
      BY <1>0, <2>1, AnswerShape
    <3>2. paused' = paused /\ UNCHANGED <<stored, stateLock, loaded, astray>>
      BY <1>1, <2>1 DEF AskGate, Answer, Load
    <3>3. QED
      BY <1>1, <3>1, <3>2, QuietStep DEF AskGate, Stage
  <2>2. CASE ~loaded /\ Load(t, "gate", s)
    <3>1. Others(t) /\ call'[t].at = "loading" /\ call'[t].op = "gate"
      BY <1>0, <2>2, LoadShape
    <3>2. QED
      BY <1>1, <2>2, <3>1, QuietStep DEF AskGate, Stage, Load
  <2>3. QED
    BY <1>1, <2>1, <2>2 DEF AskGate
<1>2. ASSUME NEW t \in Tasks, GateLoaded(t) PROVE Coherent'
  <2>1. Others(t) /\ call'[t].at = "done"
    BY <1>0, <1>2, AnswerShape DEF GateLoaded
  <2>2. QED
    BY <1>2, <2>1, LoadedStep DEF GateLoaded, Answer, Stage
<1>3. ASSUME NEW t \in Tasks, NEW s \in Strategies, AskEvaluate(t, s) PROVE Coherent'
  <2>1. CASE loaded /\ Debounce(t, s) /\ UNCHANGED <<paused, loaded, astray>>
    <3>1. Others(t) /\ call'[t].at \in {"done", "trades"}
      BY <1>0, <2>1, DebounceShape
    <3>2. QED
      BY <1>3, <2>1, <3>1, QuietStep DEF AskEvaluate, Stage
  <2>2. CASE ~loaded /\ Load(t, "evaluate", s)
    <3>1. Others(t) /\ call'[t].at = "loading" /\ call'[t].op = "evaluate"
      BY <1>0, <2>2, LoadShape
    <3>2. QED
      BY <1>3, <2>2, <3>1, QuietStep DEF AskEvaluate, Stage, Load
  <2>3. QED
    BY <1>3, <2>1, <2>2 DEF AskEvaluate
<1>4. ASSUME NEW t \in Tasks, EvaluateLoaded(t) PROVE Coherent'
  <2>1. Others(t) /\ call'[t].at \in {"done", "trades"}
    BY <1>0, <1>4, DebounceShape DEF EvaluateLoaded
  <2>2. QED
    BY <1>4, <2>1, LoadedStep DEF EvaluateLoaded, Stage
<1>5. ASSUME NEW t \in Tasks, ReadTrades(t) PROVE Coherent'
  <2>1. Others(t) /\ call'[t].at \in {"done", "judged"}
    BY <1>0, <1>5, VerdictShape
  <2>2. loaded
    BY <1>5 DEF ReadTrades, Stage, BreakerInv, LoadedFirst
  <2>3. QED
    BY <1>5, <2>1, <2>2, QuietStep DEF ReadTrades, Stage
<1>6. ASSUME NEW t \in Tasks, Judge(t) PROVE Coherent'
  <2>1. call[t].strat \in Strategies /\ Judged(t) \in SUBSET Strategies
    BY <1>0, <1>a, <1>6, CallTypes DEF Judge, Stage, Judged, BreakerTypeOK
  <2>2. loaded
    BY <1>6 DEF Judge, Stage, BreakerInv, LoadedFirst
  <2>3. \A r \in Strategies : r # call[t].strat => (r \in Judged(t) <=> r \in paused)
    BY DEF Judged
  <2>4. ~astray' => paused = stored
    BY <1>6, <2>2, FreeLock DEF Judge
  <2>5. paused \in SUBSET Strategies /\ stateLock = Nil /\ loaded' /\ stored' = stored
        /\ Change(t, "evaluate", call[t].strat, paused, Judged(t))
    BY <1>a, <1>6, <2>2 DEF Judge, BreakerTypeOK
  <2>6. QED
    BY <2>1, <2>3, <2>4, <2>5, ChangeStep
<1>7. ASSUME NEW t \in Tasks, NEW s \in Strategies, AskResume(t, s) PROVE Coherent'
  <2>1. CASE loaded /\ Change(t, "resume", s, paused, paused \ {s}) /\ UNCHANGED <<loaded, astray>>
    <3>1. ~astray' => paused = stored
      BY <1>7, <2>1, FreeLock DEF AskResume
    <3>2. paused \in SUBSET Strategies /\ paused \ {s} \in SUBSET Strategies
      BY <1>a DEF BreakerTypeOK
    <3>3. stateLock = Nil /\ stored' = stored /\ loaded'
      BY <1>7, <2>1 DEF AskResume
    <3>4. QED
      BY <2>1, <3>1, <3>2, <3>3, ChangeStep
  <2>2. CASE ~loaded /\ Load(t, "resume", s) /\ stateLock' = t
    <3>1. Others(t) /\ call'[t].at = "loading"
      BY <1>0, <2>2, LoadShape
    <3>2. QED
      BY <1>7, <2>2, <3>1, QuietStep DEF AskResume, Stage, Load
  <2>3. QED
    BY <1>7, <2>1, <2>2 DEF AskResume
<1>8. ASSUME NEW t \in Tasks, ResumeLoaded(t) PROVE Coherent'
  <2>1. call[t].strat \in Strategies /\ call[t].seen \in SUBSET Strategies
    BY <1>0, <1>8, CallTypes DEF ResumeLoaded, Stage
  <2>2. stateLock = t
    BY <1>8 DEF ResumeLoaded, BreakerInv, LockHeld
  <2>3. ~astray' => call[t].seen = stored
    BY <1>8 DEF ResumeLoaded, Loaded
  <2>4. Change(t, "resume", call[t].strat, call[t].seen, call[t].seen \ {call[t].strat})
        /\ loaded' /\ stored' = stored
    BY <1>8 DEF ResumeLoaded, Loaded
  <2>5. call[t].seen \ {call[t].strat} \in SUBSET Strategies
    BY <2>1
  <2>6. QED
    BY <2>1, <2>2, <2>3, <2>4, <2>5, ChangeStep
<1>9. ASSUME NEW t \in Tasks, Persist(t) \/ PersistFails(t) PROVE Coherent'
  <2>1. Others(t) /\ call'[t].at = "done" /\ call[t].at = "persisting" /\ stateLock' = Nil
    BY <1>0, <1>9, FieldShape DEF Persist, PersistFails
  <2>2. \A u \in Tasks : u # t => call[u].at # "persisting" /\ ~Stage(u, "resume", "loading")
    BY <2>1 DEF BreakerInv, LockHeld
  <2>3. Persisting' = {}
    BY <2>1, <2>2 DEF Persisting, Others
  <2>4. LockHeld' /\ LoadedFirst'
    BY <1>9, <2>1, <2>2 DEF LockHeld, LoadedFirst, Others, Stage, BreakerInv, Persist, PersistFails
  <2>5. ~astray' => paused' = stored'
    BY <1>9, <2>1 DEF Persist, PersistFails, BreakerInv, WriteOfOne, Persisting
  <2>6. QED
    BY <2>3, <2>4, <2>5 DEF Coherent, WriteOfOne, MemoryIsStore
<1>10. ASSUME NEW t \in Tasks, Return(t) PROVE Coherent'
  <2>1. Others(t) /\ call'[t] = Idle
    BY <1>0, <1>10, SetShape DEF Return
  <2>2. call'[t].at = "idle"
    BY <2>1 DEF Idle
  <2>3. QED
    BY <1>10, <2>1, <2>2, QuietStep DEF Return, Stage
<1>11. ASSUME NEW s \in Strategies, Later(s) PROVE Coherent'
  BY <1>11 DEF Later, BreakerInv, Coherent, LockHeld, LoadedFirst, WriteOfOne, MemoryIsStore, Persisting, Stage
<1>12. CASE BreakerRestart
  <2>1. \A t \in Tasks : call'[t].at = "idle"
    BY <1>12 DEF BreakerRestart, Idle
  <2>2. QED
    BY <1>12, <2>1 DEF BreakerRestart, Coherent, LockHeld, LoadedFirst, WriteOfOne, MemoryIsStore, Persisting, Stage
<1>13. CASE UNCHANGED breakerVars
  BY <1>13 DEF breakerVars, BreakerInv, Coherent, LockHeld, LoadedFirst, WriteOfOne, MemoryIsStore, Persisting, Stage
<1>14. QED
  BY <1>1, <1>2, <1>3, <1>4, <1>5, <1>6, <1>7, <1>8, <1>9, <1>10, <1>11, <1>12, <1>13
     DEF BreakerNext, Inside
---------------------------------------------------------------------------
(* Memory and store, for any tasks and strategies (D-09).                   *)
THEOREM BreakerInvHolds == BreakerSpec => []BreakerInv
BY InitBreakerInv, BreakerStepInv, PTL DEF BreakerSpec

THEOREM BreakerMemoryIsStore == BreakerSpec => []MemoryIsStore
<1>1. BreakerInv => MemoryIsStore
  BY DEF BreakerInv
<1>2. QED
  BY <1>1, BreakerInvHolds, PTL

(* The store changes only by the write of one call, and by its record.      *)
OwnRecord ==
  ~astray => \A s \in Strategies : (s \in stored) # (s \in stored') =>
    \E t \in Tasks : call[t].at = "persisting" /\ call[t].strat = s

LEMMA OwnRecordStep == BreakerInv /\ [BreakerNext]_breakerVars => OwnRecord
<1> SUFFICES ASSUME BreakerInv, [BreakerNext]_breakerVars PROVE OwnRecord
  OBVIOUS
<1>1. ASSUME NEW t \in Tasks, Persist(t) PROVE OwnRecord
  BY <1>1 DEF Persist, OwnRecord, BreakerInv, WriteOfOne, Persisting
<1>2. CASE stored' = stored
  BY <1>2 DEF OwnRecord
<1>3. stored' = stored \/ \E t \in Tasks : Persist(t)
  BY DEF BreakerNext, Inside, GateLoaded, EvaluateLoaded, ResumeLoaded, ReadTrades, Judge, PersistFails,
         Return, AskGate, AskEvaluate, AskResume, Later, BreakerRestart, breakerVars
<1>4. QED
  BY <1>1, <1>2, <1>3

(* No evaluation or resume erases another one's record.                     *)
THEOREM BreakerOwnRecordOnly == BreakerSpec => OwnRecordOnly
<1>1. BreakerInv /\ [BreakerNext]_breakerVars => [OwnRecord]_breakerVars
  BY OwnRecordStep
<1>2. BreakerSpec => [][OwnRecord]_breakerVars
  BY <1>1, BreakerInvHolds, PTL DEF BreakerSpec
<1>3. QED
  BY <1>2 DEF OwnRecord, OwnRecordOnly

(* A step that answers a gate answers what is stored.                       *)
Honoured ==
  \A t \in Tasks : call'[t].cleared /\ ~call[t].cleared =>
    astray' \/ Persisting # {} \/ call'[t].strat \notin stored

LEMMA StillUncleared ==
  ASSUME NEW t \in Tasks, Others(t), call'[t].cleared = FALSE \/ call'[t].cleared = call[t].cleared
  PROVE  Honoured
BY DEF Others, Honoured

LEMMA HonouredStep == BreakerInv /\ [BreakerNext]_breakerVars => Honoured
<1> SUFFICES ASSUME BreakerInv, [BreakerNext]_breakerVars PROVE Honoured
  OBVIOUS
<1>0. TypeInv
  BY DEF BreakerInv
<1>1. ASSUME NEW t \in Tasks, NEW s \in Strategies, AskGate(t, s) PROVE Honoured
  <2>1. CASE loaded /\ Answer(t, s, paused) /\ UNCHANGED <<loaded, astray>>
    <3>1. Others(t) /\ call'[t].strat = s /\ call'[t].cleared = (s \notin paused)
      BY <1>0, <2>1, AnswerShape
    <3>2. astray \/ Persisting # {} \/ paused = stored
      BY <2>1 DEF BreakerInv, MemoryIsStore
    <3>3. QED
      BY <2>1, <3>1, <3>2 DEF Others, Honoured
  <2>2. CASE Load(t, "gate", s)
    BY <1>0, <2>2, LoadShape, StillUncleared
  <2>3. QED
    BY <1>1, <2>1, <2>2 DEF AskGate
<1>2. ASSUME NEW t \in Tasks, GateLoaded(t) PROVE Honoured
  <2>1. Others(t) /\ call'[t].strat = call[t].strat /\ call'[t].cleared = (call[t].strat \notin call[t].seen)
    BY <1>0, <1>2, AnswerShape DEF GateLoaded
  <2>2. ~astray' => call[t].seen = stored
    BY <1>2 DEF GateLoaded, Loaded
  <2>3. \A u \in Tasks : u # t => call'[u] = call[u]
    BY <2>1 DEF Others
  <2>4. call'[t].cleared => astray' \/ call'[t].strat \notin stored
    <3>1. SUFFICES ASSUME call'[t].cleared, ~astray' PROVE call'[t].strat \notin stored
      OBVIOUS
    <3>2. call[t].strat \notin call[t].seen
      BY <2>1, <3>1, Zenon
    <3>3. QED
      BY <2>1, <2>2, <3>1, <3>2
  <2>5. QED
    BY <2>3, <2>4 DEF Honoured
<1>3. ASSUME NEW t \in Tasks, NEW s \in Strategies, AskEvaluate(t, s) PROVE Honoured
  BY <1>0, <1>3, LoadShape, DebounceShape, StillUncleared DEF AskEvaluate
<1>4. ASSUME NEW t \in Tasks, EvaluateLoaded(t) PROVE Honoured
  BY <1>0, <1>4, DebounceShape, StillUncleared DEF EvaluateLoaded
<1>5. ASSUME NEW t \in Tasks, ReadTrades(t) PROVE Honoured
  BY <1>0, <1>5, VerdictShape, StillUncleared
<1>6. ASSUME NEW t \in Tasks, Judge(t) PROVE Honoured
  BY <1>0, <1>6, ChangeShape, StillUncleared DEF Judge
<1>7. ASSUME NEW t \in Tasks, NEW s \in Strategies, AskResume(t, s) PROVE Honoured
  BY <1>0, <1>7, LoadShape, ChangeShape, StillUncleared DEF AskResume
<1>8. ASSUME NEW t \in Tasks, ResumeLoaded(t) PROVE Honoured
  <2>1. PICK s, before, names : Change(t, "resume", s, before, names)
    BY <1>8 DEF ResumeLoaded
  <2>2. Others(t) /\ call'[t].cleared = FALSE
    BY <1>0, <2>1, ChangeShape
  <2>3. QED
    BY <2>2, StillUncleared DEF Others
<1>9. ASSUME NEW t \in Tasks, Persist(t) \/ PersistFails(t) PROVE Honoured
  BY <1>0, <1>9, FieldShape, StillUncleared DEF Persist, PersistFails
<1>10. ASSUME NEW t \in Tasks, Return(t) PROVE Honoured
  <2>1. Others(t) /\ call'[t] = Idle
    BY <1>0, <1>10, SetShape DEF Return
  <2>2. Idle.cleared = FALSE
    BY DEF Idle
  <2>3. QED
    BY <2>1, <2>2, StillUncleared
<1>11. CASE call' = call
  BY <1>11 DEF Honoured
<1>12. CASE BreakerRestart
  <2>1. Idle.cleared = FALSE
    BY DEF Idle
  <2>2. \A t \in Tasks : call'[t] = Idle
    BY <1>12 DEF BreakerRestart
  <2>3. QED
    BY <2>1, <2>2 DEF Honoured
<1>13. QED
  BY <1>1, <1>2, <1>3, <1>4, <1>5, <1>6, <1>7, <1>8, <1>9, <1>10, <1>11, <1>12
     DEF BreakerNext, Inside, Later, breakerVars

(* A strategy that the store has paused is not cleared (D-05).              *)
THEOREM BreakerGateHonoursStore == BreakerSpec => GateHonoursStore
<1>1. BreakerInv /\ [BreakerNext]_breakerVars => [Honoured]_breakerVars
  BY HonouredStep
<1>2. BreakerSpec => [][Honoured]_breakerVars
  BY <1>1, BreakerInvHolds, PTL DEF BreakerSpec
<1>3. QED
  BY <1>2 DEF Honoured, GateHonoursStore
=============================================================================
