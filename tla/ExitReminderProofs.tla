------------------------ MODULE ExitReminderProofs ------------------------
(***************************************************************************)
(* Proofs about ExitReminder, for any number of workers, requests and ids.  *)
(* Types hold always.  That a stage is pushed once and that no mark         *)
(* swallows a stage holds as long as no retry of an OCO writes marks back   *)
(* that were changed since it read them (the fault that the run             *)
(* exit_reminder_protect shows).                                            *)
(***************************************************************************)
EXTENDS ExitReminder, OpenPositionProofs

(* A worker has taken a stage: marked it, and not yet done with it.          *)
Holding(w) == at[w] \in {"skip", "push", "unmark"}

Typed ==
  /\ ReminderTypeOK
  /\ log \in [Ids -> Seq(PushStages)]
  /\ \A w \in Workers : at[w] # "idle" => round[w].id \in Ids

ReminderInv == Inv /\ Typed

---------------------------------------------------------------------------
(* The rows: the reminder changes nothing in them but marks.                *)

LEMMA SetMarksInv ==
  ASSUME Inv, NEW c \in Ids, NEW m \in SUBSET Stages, SetMarks(c, m),
         UNCHANGED <<pc, job, draft, told, market, oco, sold>>
  PROVE  /\ Inv'
         /\ \A d \in Ids : /\ record'[d].status = record[d].status
                           /\ record'[d].res.known = record[d].res.known
                           /\ Marks(d)' = IF d = c THEN m ELSE Marks(d)
<1>1. record \in [Ids -> Record]
  BY DEF Inv, TypeOK
<1>2. record' = [record EXCEPT ![c] = [record[c] EXCEPT !.res = [record[c].res EXCEPT !.marks = m]]]
  BY <1>1 DEF SetMarks
<1>3. \A r \in Record : /\ [r EXCEPT !.res = [r.res EXCEPT !.marks = m]] \in Record
                        /\ [r EXCEPT !.res = [r.res EXCEPT !.marks = m]].status = r.status
                        /\ [r EXCEPT !.res = [r.res EXCEPT !.marks = m]].res.known = r.res.known
                        /\ [r EXCEPT !.res = [r.res EXCEPT !.marks = m]].res.marks = m
  BY DEF Record, Result
<1>4. record' \in [Ids -> Record]
  BY <1>1, <1>2, <1>3
<1>5. \A d \in Ids : /\ record'[d].status = record[d].status
                     /\ record'[d].res.known = record[d].res.known
                     /\ Marks(d)' = IF d = c THEN m ELSE Marks(d)
  BY <1>1, <1>2, <1>3 DEF Marks
<1>6. TypeOK'
  BY <1>4 DEF Inv, TypeOK
<1>7. \A p \in Requests : Progress(p)'
  BY DEF Inv, Progress, Owner, Sent, Took
<1>8. Rows' /\ OneHolder'
  <2>1. \A p \in Requests : Holds(p)' = Holds(p) /\ Owner(p)' = Owner(p)
    BY DEF Holds, Owner, Sent
  <2>2. \A p \in Requests : Holds(p) \/ Owner(p) \/ market[p] = "sent"
             \/ pc[p] \in {"protect", "ocowait", "write"} => job[p].id \in Ids
    BY DEF Inv, TypeOK, Progress, Holds, Owner, Sent
  <2>3. Rows'
    BY <1>5, <2>1, <2>2 DEF Inv, Rows
  <2>4. OneHolder'
    BY <2>1 DEF Inv, OneHolder
  <2>5. QED
    BY <2>3, <2>4
<1>9. QED
  BY <1>5, <1>6, <1>7, <1>8 DEF Inv

---------------------------------------------------------------------------
(* Types.                                                                   *)

LEMMA InitTyped == ReminderInit => ReminderInv
<1> SUFFICES ASSUME ReminderInit PROVE ReminderInv
  OBVIOUS
<1>1. Inv
  BY InitInv DEF ReminderInit
<1>2. log \in [Ids -> Seq(PushStages)]
  BY DEF ReminderInit
<1>3. Typed
  BY <1>2, FailsAssumption DEF ReminderInit, Typed, ReminderTypeOK, Round, PushStages
<1>4. QED
  BY <1>1, <1>3 DEF ReminderInv

(* A worker moves on: only its own place changes.                            *)
LEMMA MoveTyped ==
  ASSUME Typed, NEW w \in Workers, NEW from, NEW to, Move(w, from, to), from # "idle",
         to \in {"idle", "check", "close", "mark", "skip", "push", "unmark"}
  PROVE  /\ at' \in [Workers -> {"idle", "check", "close", "mark", "skip", "push", "unmark"}]
         /\ at'[w] = to /\ at[w] = from
         /\ \A v \in Workers \ {w} : at'[v] = at[v]
         /\ round[w].id \in Ids /\ round[w] \in Round
         /\ \A v \in Workers : at'[v] # "idle" => round[v].id \in Ids
BY DEF Typed, ReminderTypeOK, Move

LEMMA RequestTyped ==
  ASSUME ReminderInv, [Next]_vars, UNCHANGED reminderVars
  PROVE  ReminderInv'
<1>1. Inv'
  BY NextInv DEF ReminderInv
<1>2. Typed'
  BY DEF ReminderInv, Typed, ReminderTypeOK, reminderVars
<1>3. QED
  BY <1>1, <1>2 DEF ReminderInv

LEMMA RequestStepIsNext ==
  ASSUME RequestStep
  PROVE  Next /\ UNCHANGED reminderVars
BY DEF RequestStep, Next, reminderVars

LEMMA DropTyped ==
  ASSUME Typed, NEW W \in SUBSET Workers, Drop(W)
  PROVE  Typed'
<1>1. fails' \in 0..MaxFails
  BY FailsAssumption DEF Typed, ReminderTypeOK, Drop, Spoil
<1>2. missed' \subseteq Ids
  BY DEF Typed, ReminderTypeOK, Drop
<1>3. /\ at' \in [Workers -> {"idle", "check", "close", "mark", "skip", "push", "unmark"}]
      /\ \A v \in Workers : at'[v] # "idle" => at[v] # "idle"
  BY DEF Typed, ReminderTypeOK, Drop
<1>4. QED
  BY <1>1, <1>2, <1>3 DEF Typed, ReminderTypeOK, Drop

(* What a marking step does to a row.                                        *)
Marking(w, m) ==
  /\ SetMarks(round[w].id, m)
  /\ UNCHANGED <<pc, job, draft, told, market, oco, sold, grace, age, round, log, missed, fails>>

LEMMA MarkingTyped ==
  ASSUME ReminderInv, NEW w \in Workers, NEW from, NEW to, Move(w, from, to), from # "idle",
         to \in {"idle", "push", "skip"},
         NEW m \in SUBSET Stages, Marking(w, m)
  PROVE  ReminderInv'
<1>1. round[w].id \in Ids
  BY MoveTyped DEF ReminderInv
<1>2. Inv'
  BY <1>1, SetMarksInv DEF ReminderInv, Marking
<1>3. Typed'
  BY MoveTyped DEF ReminderInv, Typed, ReminderTypeOK, Marking
<1>4. QED
  BY <1>2, <1>3 DEF ReminderInv

LEMMA MarksAreStages ==
  ASSUME Inv, NEW c \in Ids
  PROVE  Marks(c) \in SUBSET Stages
BY DEF Inv, TypeOK, Marks, Record, Result

LEMMA WorkerTyped ==
  ASSUME ReminderInv, NEW w \in Workers,
         Remind(w) \/ GiveUp(w) \/ PushImpossible(w) \/ PushFailed(w)
  PROVE  ReminderInv'
<1> USE DEF ReminderInv
<1>1. ASSUME UNCHANGED vars, Typed' PROVE Inv'
  BY <1>1, NextInv
<1>2. \A c \in Ids : Marks(c) \in SUBSET Stages
  BY MarksAreStages
<1>3. CASE List(w)
  <2>1. PICK c \in Ids : \E s \in DueStages(c) :
          /\ Due(c, s)
          /\ round' = [round EXCEPT ![w] = [id |-> c, stage |-> s, marks |-> Marks(c)]]
    BY <1>3 DEF List
  <2>2. PICK s \in DueStages(c) :
          round' = [round EXCEPT ![w] = [id |-> c, stage |-> s, marks |-> Marks(c)]]
    BY <2>1
  <2>3. s \in PushStages
    BY <2>2 DEF DueStages, PushStages
  <2>4. [id |-> c, stage |-> s, marks |-> Marks(c)] \in Round
    BY <1>2, <2>3 DEF Round
  <2>5. round' \in [Workers -> Round]
    BY <2>2, <2>4 DEF Typed, ReminderTypeOK
  <2>6. \A v \in Workers : at'[v] # "idle" => round'[v].id \in Ids
    BY <1>3, <2>2 DEF List, Move, Typed, ReminderTypeOK
  <2>7. Typed'
    BY <1>3, <2>5, <2>6 DEF List, Move, Typed, ReminderTypeOK
  <2>8. QED
    BY <1>1, <1>3, <2>7 DEF List
<1>4. CASE CheckBalance(w)
  <2>1. Typed'
    BY <1>4, MoveTyped DEF CheckBalance, Typed, ReminderTypeOK
  <2>2. QED
    BY <1>1, <1>4, <2>1 DEF CheckBalance
<1>5. CASE StageTaken(w)
  <2>1. Typed'
    BY <1>5, MoveTyped DEF StageTaken, Typed, ReminderTypeOK
  <2>2. QED
    BY <1>1, <1>5, <2>1 DEF StageTaken
<1>6. CASE MarkClosed(w)
  <2>1. Move(w, "close", "idle") /\ Marking(w, Marks(round[w].id) \cup {"closed"})
    BY <1>6 DEF MarkClosed, Marking
  <2>2. Marks(round[w].id) \cup {"closed"} \in SUBSET Stages
    BY <2>1, <1>2, MoveTyped DEF Stages
  <2>3. QED
    BY <2>1, <2>2, MarkingTyped
<1>7. CASE MarkStage(w)
  <2>1. Move(w, "mark", AfterMark(w)) /\ Marking(w, Marks(round[w].id) \cup {round[w].stage})
    BY <1>7 DEF MarkStage, Marking
  <2>2. AfterMark(w) \in {"skip", "push"}
    BY DEF AfterMark
  <2>3. Marks(round[w].id) \cup {round[w].stage} \in SUBSET Stages
    BY <2>1, <2>2, <1>2, MoveTyped DEF Stages, Round, PushStages
  <2>4. QED
    BY <2>1, <2>2, <2>3, MarkingTyped
<1>8. CASE SkipStage1(w)
  <2>1. Move(w, "skip", "push") /\ Marking(w, Marks(round[w].id) \cup {"stage1"})
    BY <1>8 DEF SkipStage1, Marking
  <2>2. Marks(round[w].id) \cup {"stage1"} \in SUBSET Stages
    BY <2>1, <1>2, MoveTyped DEF Stages
  <2>3. QED
    BY <2>1, <2>2, MarkingTyped
<1>9. CASE Unmark(w)
  <2>1. Move(w, "unmark", "idle") /\ Marking(w, Marks(round[w].id) \ {round[w].stage})
    BY <1>9 DEF Unmark, Marking, MarksAfterFailure
  <2>2. Marks(round[w].id) \ {round[w].stage} \in SUBSET Stages
    BY <2>1, <1>2, MoveTyped
  <2>3. QED
    BY <2>1, <2>2, MarkingTyped
<1>10. CASE PushDelivered(w)
  <2>1. Move(w, "push", "idle") /\ log' = [log EXCEPT ![round[w].id] = Append(@, round[w].stage)]
    BY <1>10 DEF PushDelivered
  <2>2. round[w].id \in Ids /\ round[w].stage \in PushStages
    BY <2>1, MoveTyped DEF Round
  <2>3. log' \in [Ids -> Seq(PushStages)]
    <3>1. Append(log[round[w].id], round[w].stage) \in Seq(PushStages)
      BY <2>2 DEF Typed
    <3>2. QED
      BY <2>1, <2>2, <3>1 DEF Typed
  <2>4. Typed'
    BY <1>10, <2>1, <2>3, MoveTyped DEF PushDelivered, Typed, ReminderTypeOK
  <2>5. QED
    BY <1>1, <1>10, <2>4 DEF PushDelivered
<1>11. CASE PushImpossible(w)
  <2>1. Typed'
    BY <1>11, MoveTyped DEF PushImpossible, Typed, ReminderTypeOK
  <2>2. QED
    BY <1>1, <1>11, <2>1 DEF PushImpossible
<1>12. CASE PushFailed(w)
  <2>1. fails' \in 0..MaxFails
    BY <1>12, FailsAssumption DEF PushFailed, Spoil, Typed, ReminderTypeOK
  <2>2. Typed'
    BY <1>12, <2>1, MoveTyped DEF PushFailed, Typed, ReminderTypeOK
  <2>3. QED
    BY <1>1, <1>12, <2>2 DEF PushFailed
<1>13. CASE GiveUp(w)
  <2>1. Typed'
    BY <1>13, DropTyped DEF GiveUp
  <2>2. QED
    BY <1>1, <1>13, <2>1 DEF GiveUp
<1>14. QED
  BY <1>3, <1>4, <1>5, <1>6, <1>7, <1>8, <1>9, <1>10, <1>11, <1>12, <1>13 DEF Remind

LEMMA GrowOlderTyped ==
  ASSUME ReminderInv, NEW c \in Ids, GrowOlder(c)
  PROVE  ReminderInv'
<1>1. age' \in [Ids -> 0..3]
  BY DEF ReminderInv, Typed, ReminderTypeOK, GrowOlder
<1>2. Typed'
  BY <1>1 DEF ReminderInv, Typed, ReminderTypeOK, GrowOlder
<1>3. Inv'
  BY NextInv DEF ReminderInv, GrowOlder
<1>4. QED
  BY <1>2, <1>3 DEF ReminderInv

LEMMA RestartTyped ==
  ASSUME ReminderInv, Restart
  PROVE  ReminderInv'
<1>1. [Next]_vars
  BY DEF Restart, Next
<1>2. QED
  BY <1>1, NextInv, DropTyped DEF ReminderInv, Restart

LEMMA ReminderStepTyped ==
  ASSUME ReminderInv, [ReminderNext]_allVars
  PROVE  ReminderInv'
<1>1. CASE RequestStep \/ UNCHANGED allVars
  BY <1>1, RequestStepIsNext, RequestTyped DEF allVars
<1>2. QED
  BY <1>1, GrowOlderTyped, WorkerTyped, RestartTyped DEF ReminderNext

(* Rows, workers, marks and the log hold the values meant for them.          *)
LEMMA ReminderInvHolds == ReminderSpec => []ReminderInv
BY InitTyped, ReminderStepTyped, PTL DEF ReminderSpec

THEOREM ReminderTypes == ReminderSpec => []ReminderTypeOK
<1>1. ReminderInv => ReminderTypeOK
  BY DEF ReminderInv, Typed
<1>2. QED
  BY <1>1, ReminderInvHolds, PTL

(* At most one market order per id, also with reminders writing to the row.  *)
THEOREM ReminderOneOrder == ReminderSpec => []AtMostOneOrder
<1>1. ReminderInv => AtMostOneOrder
  BY DEF ReminderInv, Inv, OneHolder, Holds, Sent, AtMostOneOrder
<1>2. QED
  BY <1>1, ReminderInvHolds, PTL

---------------------------------------------------------------------------
(* Each stage once, none swallowed.                                         *)

(* A retry of an OCO that is about to write the row back has its marks right. *)
WritesFresh ==
  \A p \in Requests : job[p].kind = "protect" /\ pc[p] = "write" =>
    draft[p].res.marks = Marks(job[p].id)

(* A first handler has no marks to write.                                    *)
Drafts ==
  \A p \in Requests : job[p].kind # "protect" /\ pc[p] \in {"protect", "ocowait", "write"} =>
    draft[p].res.marks = {}

(* Before an order is done, nobody reminds of it.                            *)
Untouched == \A c \in Ids : record[c].status # "done" => Marks(c) = {} /\ log[c] = <<>>

Handed ==
  \A w \in Workers : at[w] # "idle" =>
    /\ record[round[w].id].status = "done"
    /\ round[w].stage = "stage2" => age[round[w].id] >= 2
    /\ at[w] = "skip" => round[w].stage = "stage2"

OneMarker ==
  \A v, w \in Workers :
    /\ Holding(v) /\ Holding(w)
    /\ round[v].id = round[w].id /\ round[v].stage = round[w].stage
    => v = w

HeldIsMarked ==
  \A w \in Workers : Holding(w) =>
    /\ round[w].stage \in Marks(round[w].id)
    /\ ~Pushed(round[w].id, round[w].stage)

PushedIsMarked == \A c \in Ids, s \in PushStages : Pushed(c, s) => s \in Marks(c)

Reminded ==
  /\ Drafts /\ Untouched /\ Handed
  /\ OneMarker /\ HeldIsMarked /\ PushedIsMarked
  /\ EachStageOnce /\ MarkMeansPushed

LEMMA InitReminded == ReminderInit => Reminded
<1> SUFFICES ASSUME ReminderInit PROVE Reminded
  OBVIOUS
<1>1. \A c \in Ids : record[c] = NoRow /\ log[c] = <<>> /\ Marks(c) = {}
  BY DEF ReminderInit, Init, NoRow, NoResult, Marks
<1>2. \A c \in Ids : DOMAIN log[c] = {}
  BY <1>1
<1>3. \A w \in Workers : at[w] = "idle"
  BY DEF ReminderInit
<1>4. \A p \in Requests : pc[p] = "idle"
  BY DEF ReminderInit, Init
<1>5. QED
  BY <1>1, <1>2, <1>3, <1>4
     DEF Reminded, Drafts, Untouched, Handed, OneMarker, HeldIsMarked, Holding, PushedIsMarked,
         EachStageOnce, MarkMeansPushed, Pushed

(* What the marks, the log and the workers' hands say of a row stays so when  *)
(* marks, log, hands and lost stages do, and positions only grow older.       *)
LEMMA KeepReminded ==
  ASSUME ReminderInv, Reminded, Drafts',
         \A c \in Ids : /\ Marks(c)' = Marks(c) /\ log'[c] = log[c]
                        /\ record[c].status = "done" => record'[c].status = "done"
                        /\ age'[c] >= age[c] /\ age'[c] \in Int /\ age[c] \in Int,
         \A w \in Workers : at'[w] # "idle" =>
            /\ at[w] # "idle" /\ round'[w] = round[w]
            /\ at'[w] = "skip" => at[w] = "skip"
            /\ (at'[w] \in {"skip", "push", "unmark"}) => (at[w] \in {"skip", "push", "unmark"}),
         missed \subseteq missed',
         \A w \in Workers : Holding(w) /\ ~(at'[w] \in {"skip", "push", "unmark"})
            => round[w].id \in missed'
  PROVE  Reminded'
<1>1. Untouched'
  BY DEF Reminded, Untouched
<1>2. \A w \in Workers : at'[w] # "idle" => round'[w].id \in Ids /\ round'[w] = round[w]
  BY DEF ReminderInv, Typed
<1>3. Handed'
  BY <1>2 DEF Reminded, Handed
<1>4. \A w \in Workers : Holding(w)' => Holding(w) /\ at'[w] # "idle"
  BY DEF Holding
<1>5. OneMarker'
  BY <1>2, <1>4 DEF Reminded, OneMarker
<1>6. \A c \in Ids, s \in PushStages : Pushed(c, s)' = Pushed(c, s)
  BY DEF Pushed
<1>7. \A w \in Workers : round[w].stage \in PushStages
  BY DEF ReminderInv, Typed, ReminderTypeOK, Round
<1>8. HeldIsMarked'
  BY <1>2, <1>4, <1>6, <1>7 DEF Reminded, HeldIsMarked
<1>9. PushedIsMarked'
  BY <1>6 DEF Reminded, PushedIsMarked
<1>10. EachStageOnce'
  BY DEF Reminded, EachStageOnce
<1>11. MarkMeansPushed'
  <2> SUFFICES ASSUME NEW c \in Ids, NEW s \in PushStages, s \in Marks(c)'
               PROVE  \/ Pushed(c, s)'
                      \/ c \in missed'
                      \/ \E w \in Workers : round'[w].id = c /\ round'[w].stage = s
                                            /\ at'[w] \in {"skip", "push", "unmark"}
                      \/ s = "stage1" /\ age'[c] >= 2
    BY DEF MarkMeansPushed
  <2>1. s \in Marks(c)
    OBVIOUS
  <2>2. CASE \E w \in Workers : round[w].id = c /\ round[w].stage = s /\ Holding(w)
    BY <2>2, <1>2 DEF Holding
  <2>3. CASE Pushed(c, s) \/ c \in missed \/ (s = "stage1" /\ age[c] >= 2)
    BY <2>3, <1>6
  <2>4. QED
    BY <2>1, <2>2, <2>3 DEF Reminded, MarkMeansPushed, Holding
<1>12. QED
  BY <1>1, <1>3, <1>5, <1>8, <1>9, <1>10, <1>11 DEF Reminded

---------------------------------------------------------------------------
(* Order requests: a row gets its result when it is still free of marks, and  *)
(* a retry writes back the marks it finds.                                   *)

LEMMA FinishMarks ==
  ASSUME Inv, Drafts, Untouched, WritesFresh, NEW p \in Requests, Finish(p)
  PROVE  \A c \in Ids : /\ Marks(c)' = Marks(c)
                        /\ record[c].status = "done" => record'[c].status = "done"
<1>1. /\ pc[p] = "write" /\ job[p].id \in Ids /\ job[p].kind \in Kinds
      /\ record' = [record EXCEPT ![job[p].id] = draft[p]]
      /\ record \in [Ids -> Record]
  BY DEF Finish, Step, Inv, TypeOK, Progress
<1>2. CASE job[p].kind = "protect"
  <2>1. draft[p].res.marks = Marks(job[p].id) /\ draft[p].status = "done"
    BY <1>1, <1>2 DEF WritesFresh, Inv, Progress
  <2>2. QED
    BY <1>1, <2>1 DEF Marks
<1>3. CASE job[p].kind # "protect"
  <2>1. Owner(p)
    BY <1>1, <1>3 DEF Owner, Kinds
  <2>2. record[job[p].id].status = "in_progress"
    BY <2>1 DEF Inv, Rows
  <2>3. Marks(job[p].id) = {} /\ draft[p].res.marks = {}
    BY <1>1, <1>3, <2>2 DEF Untouched, Drafts
  <2>4. QED
    BY <1>1, <2>2, <2>3 DEF Marks
<1>4. QED
  BY <1>2, <1>3

LEMMA ClaimMarks ==
  ASSUME Inv, Untouched, NEW p \in Requests, Claim(p)
  PROVE  \A c \in Ids : /\ Marks(c)' = Marks(c)
                        /\ record[c].status = "done" => record'[c].status = "done"
<1>1. job[p].id \in Ids /\ record \in [Ids -> Record]
  BY DEF Claim, Step, Inv, TypeOK
<1>2. record[job[p].id].status = "none" /\ Marks(job[p].id) = {}
  BY <1>1 DEF Claim, MayClaim, Untouched
<1>3. QED
  BY <1>1, <1>2 DEF Claim, Marks, NoResult

LEMMA DraftsKept ==
  ASSUME Inv, Drafts, [Next]_vars
  PROVE  Drafts'
<1> SUFFICES ASSUME NEW q \in Requests, job'[q].kind # "protect",
                    pc'[q] \in {"protect", "ocowait", "write"}
             PROVE  draft'[q].res.marks = {}
  BY DEF Drafts
<1> USE DEF Inv, TypeOK, Step
<1>1. ASSUME NEW p \in Requests, FillPolled(p) \/ VoidPolled(p) \/ OrderFailed(p)
      PROVE  draft'[q].res.marks = {}
  <2>1. /\ draft'[p].res.marks = {}
        /\ \A r \in Requests \ {p} : draft'[r] = draft[r] /\ pc'[r] = pc[r]
        /\ job' = job
    <3>1. CASE FillPolled(p)
      <4>1. /\ draft'[p].res.marks = {}
            /\ \A r \in Requests \ {p} : draft'[r] = draft[r]
        BY <3>1, FillDraft
      <4>2. /\ Step(p, "poll", IF job[p].kind = "open" THEN "protect" ELSE "write")
            /\ job' = job
        BY <3>1, Zenon DEF FillPolled
      <4>3. QED
        BY <4>1, <4>2
    <3>2. CASE VoidPolled(p)
      BY <3>2 DEF VoidPolled, Verdict, NoResult
    <3>3. CASE OrderFailed(p)
      BY <3>3 DEF OrderFailed, Verdict, NoResult
    <3>4. QED
      BY <1>1, <3>1, <3>2, <3>3
  <2>2. QED
    BY <2>1 DEF Drafts
<1>2. ASSUME NEW p \in Requests, SkipOco(p) \/ OcoAnswered(p) PROVE draft'[q].res.marks = {}
  <2>1. draft[p] \in Record /\ pc[p] \in {"protect", "ocowait"} /\ job' = job
    BY <1>2 DEF SkipOco, OcoAnswered
  <2>2. /\ draft'[p].res.marks = draft[p].res.marks
        /\ \A r \in Requests \ {p} : draft'[r] = draft[r] /\ pc'[r] = pc[r]
    <3>1. CASE SkipOco(p)
      BY <3>1, <2>1 DEF SkipOco, Verdict, Record, Result
    <3>2. CASE OcoAnswered(p)
      BY <3>2, <2>1 DEF OcoAnswered, Verdict, Record, Result
    <3>3. QED
      BY <1>2, <3>1, <3>2
  <2>3. QED
    BY <2>1, <2>2 DEF Drafts
<1>3. ASSUME NEW p \in Requests, StartProtect(p) PROVE draft'[q].res.marks = {}
  BY <1>3 DEF StartProtect, Drafts
<1>4. ASSUME NEW p \in Requests, SendOco(p) \/ Finish(p) \/ Claim(p) \/ SendOrder(p)
                                 \/ PlanPosition(p) \/ OrderAccepted(p)
      PROVE draft'[q].res.marks = {}
  BY <1>4 DEF SendOco, Finish, Claim, SendOrder, PlanPosition, OrderAccepted, Drafts
<1>5. ASSUME NEW p \in Requests, RefusePlan(p) \/ Replay(p) \/ DeclineProtect(p) \/ HandlerRaises(p)
      PROVE draft'[q].res.marks = {}
  BY <1>5 DEF RefusePlan, Replay, DeclineProtect, HandlerRaises, Answer, Drafts
<1>6. ASSUME NEW p \in Requests, Exchange(p) PROVE draft'[q].res.marks = {}
  BY <1>6 DEF Exchange, TakeOrder, RejectOrder, ExecuteOrder, VoidOrder, RestOco, RejectOco,
     LeaveOco, Drafts
<1>7. ASSUME NEW p \in Requests, NEW k \in Kinds, NEW c \in Ids, Arrive(p, k, c)
      PROVE draft'[q].res.marks = {}
  BY <1>7 DEF Arrive, Drafts
<1>8. CASE SellByHand \/ Crash \/ UNCHANGED vars
  BY <1>8 DEF SellByHand, Crash, vars, Drafts
<1>9. QED
  BY <1>1, <1>2, <1>3, <1>4, <1>5, <1>6, <1>7, <1>8 DEF Next, Handle

LEMMA RequestMarks ==
  ASSUME Inv, Drafts, Untouched, WritesFresh, [Next]_vars
  PROVE  \A c \in Ids : /\ Marks(c)' = Marks(c)
                        /\ record[c].status = "done" => record'[c].status = "done"
<1>1. (\E p \in Requests : Finish(p) \/ Claim(p)) \/ record' = record
  BY Steps DEF Arrive, SendOrder, TakeOrder, RejectOrder, ExecuteOrder, VoidOrder
<1>2. QED
  BY <1>1, FinishMarks, ClaimMarks DEF Marks

LEMMA RequestReminded ==
  ASSUME ReminderInv, Reminded, WritesFresh, [Next]_vars, UNCHANGED reminderVars
  PROVE  Reminded'
<1>1. Drafts'
  BY DraftsKept DEF ReminderInv, Reminded
<1>2. \A c \in Ids : /\ Marks(c)' = Marks(c)
                     /\ record[c].status = "done" => record'[c].status = "done"
  BY RequestMarks DEF ReminderInv, Reminded
<1>3. /\ log' = log /\ round' = round /\ at' = at /\ missed' = missed /\ age' = age
      /\ \A c \in Ids : age[c] \in Int /\ age[c] >= age[c]
  BY DEF reminderVars, ReminderInv, Typed, ReminderTypeOK
<1>4. QED
  BY <1>1, <1>2, <1>3, KeepReminded DEF Holding

---------------------------------------------------------------------------
(* Workers.                                                                 *)

(* Steps of a worker that change no row and no log.                          *)
LEMMA PassReminded ==
  ASSUME ReminderInv, Reminded, WritesFresh, NEW w \in Workers,
         CheckBalance(w) \/ StageTaken(w) \/ PushImpossible(w) \/ PushFailed(w)
  PROVE  Reminded'
<1>1. /\ UNCHANGED vars /\ log' = log /\ round' = round /\ age' = age
      /\ missed' = IF PushImpossible(w) THEN missed' ELSE missed
      /\ missed \subseteq missed'
  BY DEF CheckBalance, StageTaken, PushImpossible, PushFailed
<1>2. PICK from, to : /\ Move(w, from, to) /\ from # "idle"
                      /\ to \in {"idle", "check", "close", "mark", "unmark"}
                      /\ to = "unmark" => from = "push"
                      /\ from \in {"skip", "push", "unmark"} /\ to # "unmark" => round[w].id \in missed'
  <2>1. CASE CheckBalance(w)
    BY <2>1 DEF CheckBalance
  <2>2. CASE StageTaken(w)
    BY <2>2 DEF StageTaken
  <2>3. CASE PushImpossible(w)
    BY <2>3 DEF PushImpossible
  <2>4. CASE PushFailed(w)
    BY <2>4 DEF PushFailed
  <2>5. QED
    BY <2>1, <2>2, <2>3, <2>4
<1>3. /\ at'[w] = to /\ at[w] = from
      /\ \A v \in Workers \ {w} : at'[v] = at[v]
  BY <1>2, MoveTyped DEF ReminderInv
<1>4. Drafts'
  BY <1>1, DraftsKept DEF ReminderInv, Reminded
<1>5. \A c \in Ids : age[c] \in Int /\ age[c] >= age[c]
  BY DEF ReminderInv, Typed, ReminderTypeOK
<1>6. \A c \in Ids : Marks(c)' = Marks(c) /\ record' = record
  BY <1>1 DEF vars, Marks
<1>7. \A v \in Workers : at'[v] # "idle" =>
         /\ at[v] # "idle"
         /\ at'[v] = "skip" => at[v] = "skip"
         /\ (at'[v] \in {"skip", "push", "unmark"}) => (at[v] \in {"skip", "push", "unmark"})
  BY <1>2, <1>3
<1>8. \A v \in Workers : Holding(v) /\ ~(at'[v] \in {"skip", "push", "unmark"}) => round[v].id \in missed'
  BY <1>2, <1>3 DEF Holding
<1>9. QED
  BY <1>1, <1>4, <1>5, <1>6, <1>7, <1>8, KeepReminded

(* Workers that leave their rows, or die.                                    *)
LEMMA DropReminded ==
  ASSUME ReminderInv, Reminded, WritesFresh, [Next]_vars, NEW W \in SUBSET Workers, Drop(W)
  PROVE  Reminded'
<1>1. Drafts'
  BY DraftsKept DEF ReminderInv, Reminded
<1>2. \A c \in Ids : /\ Marks(c)' = Marks(c)
                     /\ record[c].status = "done" => record'[c].status = "done"
  BY RequestMarks DEF ReminderInv, Reminded
<1>3. /\ log' = log /\ round' = round /\ age' = age /\ missed \subseteq missed'
      /\ \A v \in Workers : at'[v] = IF v \in W THEN "idle" ELSE at[v]
      /\ \A v \in W : Holding(v) => round[v].id \in missed'
  BY DEF Drop, Holding
<1>4. \A c \in Ids : age[c] \in Int /\ age[c] >= age[c]
  BY DEF ReminderInv, Typed, ReminderTypeOK
<1>5. \A v \in Workers : at'[v] # "idle" => at'[v] = at[v]
  BY <1>3
<1>6. \A v \in Workers : Holding(v) /\ ~(at'[v] \in {"skip", "push", "unmark"}) => round[v].id \in missed'
  BY <1>3 DEF Holding
<1>7. QED
  BY <1>1, <1>2, <1>3, <1>4, <1>5, <1>6, KeepReminded

LEMMA GrowOlderReminded ==
  ASSUME ReminderInv, Reminded, WritesFresh, NEW c \in Ids, GrowOlder(c)
  PROVE  Reminded'
<1>1. Drafts'
  BY DraftsKept DEF ReminderInv, Reminded, GrowOlder
<1>2. record' = record /\ at' = at /\ round' = round /\ log' = log /\ missed' = missed
  BY DEF GrowOlder, vars
<1>3. \A d \in Ids : age'[d] \in Int /\ age[d] \in Int /\ age'[d] >= age[d]
  BY DEF ReminderInv, Typed, ReminderTypeOK, GrowOlder
<1>4. \A d \in Ids : Marks(d)' = Marks(d)
  BY <1>2 DEF Marks
<1>5. QED
  BY <1>1, <1>2, <1>3, <1>4, KeepReminded DEF Holding

LEMMA ListReminded ==
  ASSUME ReminderInv, Reminded, NEW w \in Workers, List(w)
  PROVE  Reminded'
<1>1. PICK c \in Ids : \E s \in DueStages(c) :
        /\ Due(c, s)
        /\ round' = [round EXCEPT ![w] = [id |-> c, stage |-> s, marks |-> Marks(c)]]
  BY DEF List
<1>2. PICK s \in DueStages(c) :
        /\ Due(c, s)
        /\ round' = [round EXCEPT ![w] = [id |-> c, stage |-> s, marks |-> Marks(c)]]
  BY <1>1
<1>3. /\ at'[w] = "check" /\ at[w] = "idle" /\ \A v \in Workers \ {w} : at'[v] = at[v]
      /\ round'[w] = [id |-> c, stage |-> s, marks |-> Marks(c)]
      /\ \A v \in Workers \ {w} : round'[v] = round[v]
  BY <1>2 DEF List, Move, ReminderInv, Typed, ReminderTypeOK
<1>4. /\ record[c].status = "done"
      /\ s = "stage2" => age[c] >= 2
  BY <1>2 DEF Due, Listed, DueStages
<1>5. /\ UNCHANGED vars /\ age' = age /\ log' = log /\ missed' = missed
      /\ \A d \in Ids : Marks(d)' = Marks(d) /\ record' = record
  BY DEF List, Marks, vars
<1>6. Drafts' /\ Untouched'
  BY <1>5, DraftsKept DEF ReminderInv, Reminded, Untouched
<1>7. Handed'
  BY <1>3, <1>4, <1>5 DEF Reminded, Handed
<1>8. \A v \in Workers : Holding(v)' = Holding(v) /\ (Holding(v) => v # w)
  BY <1>3 DEF Holding
<1>9. \A d \in Ids, t \in PushStages : Pushed(d, t)' = Pushed(d, t)
  BY <1>5 DEF Pushed
<1>10. \A v \in Workers : Holding(v) => round[v].id \in Ids /\ round[v].stage \in PushStages
  BY DEF ReminderInv, Typed, ReminderTypeOK, Round, Holding
<1>11. OneMarker'
  BY <1>3, <1>8 DEF Reminded, OneMarker
<1>12. HeldIsMarked'
  BY <1>3, <1>5, <1>8, <1>9, <1>10 DEF Reminded, HeldIsMarked
<1>13. PushedIsMarked' /\ EachStageOnce'
  BY <1>5, <1>9 DEF Reminded, PushedIsMarked, EachStageOnce
<1>14. MarkMeansPushed'
  BY <1>3, <1>5, <1>8, <1>9 DEF Reminded, MarkMeansPushed, Holding
<1>15. QED
  BY <1>6, <1>7, <1>11, <1>12, <1>13, <1>14 DEF Reminded

(* What a marking step of a worker leaves.                                   *)
LEMMA MarkingFacts ==
  ASSUME ReminderInv, Reminded, NEW w \in Workers, NEW from, NEW to, Move(w, from, to),
         from # "idle", to \in {"idle", "push", "skip"},
         NEW m \in SUBSET Stages, Marking(w, m)
  PROVE  /\ round[w].id \in Ids /\ round[w].stage \in PushStages
         /\ record[round[w].id].status = "done"
         /\ \A d \in Ids : /\ record'[d].status = record[d].status
                           /\ Marks(d)' = IF d = round[w].id THEN m ELSE Marks(d)
         /\ at[w] = from /\ at'[w] = to /\ \A v \in Workers \ {w} : at'[v] = at[v]
         /\ round' = round /\ age' = age /\ log' = log /\ missed' = missed
         /\ \A d \in Ids, t \in PushStages : Pushed(d, t)' = Pushed(d, t)
         /\ \A v \in Workers : at'[v] # "idle" => round[v].id \in Ids /\ round[v].stage \in PushStages
         /\ Drafts' /\ Untouched' /\ EachStageOnce'
<1>1. /\ round[w].id \in Ids /\ round[w].stage \in PushStages
      /\ at[w] = from /\ at'[w] = to /\ \A v \in Workers \ {w} : at'[v] = at[v]
      /\ \A v \in Workers : at'[v] # "idle" => round[v].id \in Ids
  BY MoveTyped DEF ReminderInv, Round
<1>2. record[round[w].id].status = "done"
  BY <1>1 DEF Reminded, Handed
<1>3. \A d \in Ids : /\ record'[d].status = record[d].status
                     /\ Marks(d)' = IF d = round[w].id THEN m ELSE Marks(d)
  BY <1>1, SetMarksInv DEF Marking, ReminderInv
<1>4. round' = round /\ age' = age /\ log' = log /\ missed' = missed /\ draft' = draft /\ job' = job /\ pc' = pc
  BY DEF Marking
<1>5. \A v \in Workers : round[v].stage \in PushStages
  BY DEF ReminderInv, Typed, ReminderTypeOK, Round
<1>6. Drafts' /\ EachStageOnce'
  BY <1>4 DEF Reminded, Drafts, EachStageOnce
<1>7. Untouched'
  BY <1>2, <1>3, <1>4 DEF Reminded, Untouched
<1>8. \A d \in Ids, t \in PushStages : Pushed(d, t)' = Pushed(d, t)
  BY <1>4 DEF Pushed
<1>9. QED
  BY <1>1, <1>2, <1>3, <1>4, <1>5, <1>6, <1>7, <1>8

LEMMA MarkClosedReminded ==
  ASSUME ReminderInv, Reminded, NEW w \in Workers, MarkClosed(w)
  PROVE  Reminded'
<1> DEFINE m == Marks(round[w].id) \cup {"closed"}
<1>1. Move(w, "close", "idle") /\ Marking(w, m)
  BY DEF MarkClosed, Marking
<1>2. m \in SUBSET Stages
  BY <1>1, MoveTyped, MarksAreStages DEF ReminderInv, Stages
<1> HIDE DEF m
<1>3. /\ round[w].id \in Ids /\ round[w].stage \in PushStages
      /\ record[round[w].id].status = "done"
      /\ \A d \in Ids : /\ record'[d].status = record[d].status
                        /\ Marks(d)' = IF d = round[w].id THEN m ELSE Marks(d)
      /\ at[w] = "close" /\ at'[w] = "idle" /\ \A v \in Workers \ {w} : at'[v] = at[v]
      /\ round' = round /\ age' = age /\ log' = log /\ missed' = missed
      /\ \A d \in Ids, t \in PushStages : Pushed(d, t)' = Pushed(d, t)
      /\ \A v \in Workers : at'[v] # "idle" => round[v].id \in Ids /\ round[v].stage \in PushStages
      /\ Drafts' /\ Untouched' /\ EachStageOnce'
  BY <1>1, <1>2, MarkingFacts
<1>4. \A d \in Ids : Marks(d)' \cap PushStages = Marks(d) \cap PushStages /\ Marks(d) \subseteq Marks(d)'
  BY <1>3 DEF m, PushStages
<1>5. \A v \in Workers : Holding(v)' = Holding(v)
  BY <1>3 DEF Holding
<1>6. Handed'
  BY <1>3 DEF Reminded, Handed
<1>7. OneMarker'
  BY <1>3, <1>5 DEF Reminded, OneMarker
<1>8. HeldIsMarked'
  BY <1>3, <1>4, <1>5 DEF Reminded, HeldIsMarked, Holding
<1>9. PushedIsMarked'
  BY <1>3, <1>4 DEF Reminded, PushedIsMarked
<1>10. MarkMeansPushed'
  BY <1>3, <1>4, <1>5 DEF Reminded, MarkMeansPushed, Holding
<1>11. QED
  BY <1>3, <1>6, <1>7, <1>8, <1>9, <1>10 DEF Reminded

(* The first marker of a stage holds it alone.                               *)
LEMMA MarkStageReminded ==
  ASSUME ReminderInv, Reminded, NEW w \in Workers, MarkStage(w)
  PROVE  Reminded'
<1> DEFINE m == Marks(round[w].id) \cup {round[w].stage}
<1>1. Move(w, "mark", AfterMark(w)) /\ Marking(w, m) /\ round[w].stage \notin Marks(round[w].id)
  BY DEF MarkStage, Marking, MayMark
<1>2. AfterMark(w) \in {"skip", "push"} /\ (AfterMark(w) = "skip" => round[w].stage = "stage2")
  BY DEF AfterMark
<1>3. m \in SUBSET Stages
  BY <1>1, <1>2, MoveTyped, MarksAreStages DEF ReminderInv, Stages, Round, PushStages
<1> HIDE DEF m
<1>4. /\ round[w].id \in Ids /\ round[w].stage \in PushStages
      /\ record[round[w].id].status = "done"
      /\ \A d \in Ids : /\ record'[d].status = record[d].status
                        /\ Marks(d)' = IF d = round[w].id THEN m ELSE Marks(d)
      /\ at[w] = "mark" /\ at'[w] = AfterMark(w) /\ \A v \in Workers \ {w} : at'[v] = at[v]
      /\ round' = round /\ age' = age /\ log' = log /\ missed' = missed
      /\ \A d \in Ids, t \in PushStages : Pushed(d, t)' = Pushed(d, t)
      /\ \A v \in Workers : at'[v] # "idle" => round[v].id \in Ids /\ round[v].stage \in PushStages
      /\ Drafts' /\ Untouched' /\ EachStageOnce'
  BY <1>1, <1>2, <1>3, MarkingFacts
<1>5. \A d \in Ids : Marks(d) \subseteq Marks(d)'
  BY <1>4 DEF m
<1>6. \A v \in Workers : Holding(v)' = (v = w \/ Holding(v))
  BY <1>2, <1>4 DEF Holding
<1>7. ~Pushed(round[w].id, round[w].stage) /\ round[w].stage \in Marks(round[w].id)'
  BY <1>1, <1>4 DEF Reminded, PushedIsMarked, m
<1>8. \A v \in Workers : Holding(v) =>
         ~(round[v].id = round[w].id /\ round[v].stage = round[w].stage)
  BY <1>1 DEF Reminded, HeldIsMarked
<1>9. Handed'
  BY <1>2, <1>4 DEF Reminded, Handed
<1>10. OneMarker'
  BY <1>4, <1>6, <1>8 DEF Reminded, OneMarker
<1>11. HeldIsMarked'
  <2> SUFFICES ASSUME NEW v \in Workers, Holding(v)'
               PROVE  round[v].stage \in Marks(round[v].id)' /\ ~Pushed(round[v].id, round[v].stage)'
    BY <1>4 DEF HeldIsMarked
  <2>1. round[v].id \in Ids /\ round[v].stage \in PushStages
    BY <1>4 DEF Holding
  <2>2. CASE v = w
    BY <1>4, <1>7, <2>2
  <2>3. CASE Holding(v)
    BY <1>4, <1>5, <2>1, <2>3 DEF Reminded, HeldIsMarked
  <2>4. QED
    BY <1>6, <2>2, <2>3
<1>12. PushedIsMarked'
  BY <1>4, <1>5 DEF Reminded, PushedIsMarked
<1>13. MarkMeansPushed'
  <2> SUFFICES ASSUME NEW c \in Ids, NEW s \in PushStages, s \in Marks(c)'
               PROVE  \/ Pushed(c, s)
                      \/ c \in missed
                      \/ \E v \in Workers : round[v].id = c /\ round[v].stage = s /\ Holding(v)'
                      \/ s = "stage1" /\ age[c] >= 2
    BY <1>4 DEF MarkMeansPushed, Holding
  <2>1. CASE s \in Marks(c)
    BY <2>1, <1>6 DEF Reminded, MarkMeansPushed, Holding
  <2>2. CASE s \notin Marks(c)
    <3>1. c = round[w].id /\ s = round[w].stage
      BY <1>4, <2>2 DEF m
    <3>2. QED
      BY <1>6, <3>1
  <2>3. QED
    BY <2>1, <2>2
<1>14. QED
  BY <1>4, <1>9, <1>10, <1>11, <1>12, <1>13 DEF Reminded

(* A first stage that is consumed with the second one is a late one.          *)
LEMMA SkipReminded ==
  ASSUME ReminderInv, Reminded, NEW w \in Workers, SkipStage1(w)
  PROVE  Reminded'
<1> DEFINE m == Marks(round[w].id) \cup {"stage1"}
<1>1. Move(w, "skip", "push") /\ Marking(w, m)
  BY DEF SkipStage1, Marking
<1>2. m \in SUBSET Stages
  BY <1>1, MoveTyped, MarksAreStages DEF ReminderInv, Stages
<1> HIDE DEF m
<1>3. /\ round[w].id \in Ids /\ round[w].stage \in PushStages
      /\ record[round[w].id].status = "done"
      /\ \A d \in Ids : /\ record'[d].status = record[d].status
                        /\ Marks(d)' = IF d = round[w].id THEN m ELSE Marks(d)
      /\ at[w] = "skip" /\ at'[w] = "push" /\ \A v \in Workers \ {w} : at'[v] = at[v]
      /\ round' = round /\ age' = age /\ log' = log /\ missed' = missed
      /\ \A d \in Ids, t \in PushStages : Pushed(d, t)' = Pushed(d, t)
      /\ \A v \in Workers : at'[v] # "idle" => round[v].id \in Ids /\ round[v].stage \in PushStages
      /\ Drafts' /\ Untouched' /\ EachStageOnce'
  BY <1>1, <1>2, MarkingFacts
<1>4. \A d \in Ids : Marks(d) \subseteq Marks(d)'
  BY <1>3 DEF m
<1>5. \A v \in Workers : Holding(v)' = Holding(v)
  BY <1>3 DEF Holding
<1>6. age[round[w].id] >= 2
  BY <1>3 DEF Reminded, Handed
<1>7. Handed'
  BY <1>3 DEF Reminded, Handed
<1>8. OneMarker'
  BY <1>3, <1>5 DEF Reminded, OneMarker
<1>9. HeldIsMarked'
  BY <1>3, <1>4, <1>5 DEF Reminded, HeldIsMarked, Holding
<1>10. PushedIsMarked'
  BY <1>3, <1>4 DEF Reminded, PushedIsMarked
<1>11. MarkMeansPushed'
  <2> SUFFICES ASSUME NEW c \in Ids, NEW s \in PushStages, s \in Marks(c)'
               PROVE  \/ Pushed(c, s)
                      \/ c \in missed
                      \/ \E v \in Workers : round[v].id = c /\ round[v].stage = s /\ Holding(v)'
                      \/ s = "stage1" /\ age[c] >= 2
    BY <1>3 DEF MarkMeansPushed, Holding
  <2>1. CASE s \in Marks(c)
    BY <2>1, <1>5 DEF Reminded, MarkMeansPushed, Holding
  <2>2. CASE s \notin Marks(c)
    BY <1>3, <1>6, <2>2 DEF m
  <2>3. QED
    BY <2>1, <2>2
<1>12. QED
  BY <1>3, <1>7, <1>8, <1>9, <1>10, <1>11 DEF Reminded

(* A mark is taken back by the one who holds it.                             *)
LEMMA UnmarkReminded ==
  ASSUME ReminderInv, Reminded, NEW w \in Workers, Unmark(w)
  PROVE  Reminded'
<1> DEFINE m == Marks(round[w].id) \ {round[w].stage}
<1>1. Move(w, "unmark", "idle") /\ Marking(w, m)
  BY DEF Unmark, Marking, MarksAfterFailure
<1>2. m \in SUBSET Stages
  BY <1>1, MoveTyped, MarksAreStages DEF ReminderInv
<1> HIDE DEF m
<1>3. /\ round[w].id \in Ids /\ round[w].stage \in PushStages
      /\ record[round[w].id].status = "done"
      /\ \A d \in Ids : /\ record'[d].status = record[d].status
                        /\ Marks(d)' = IF d = round[w].id THEN m ELSE Marks(d)
      /\ at[w] = "unmark" /\ at'[w] = "idle" /\ \A v \in Workers \ {w} : at'[v] = at[v]
      /\ round' = round /\ age' = age /\ log' = log /\ missed' = missed
      /\ \A d \in Ids, t \in PushStages : Pushed(d, t)' = Pushed(d, t)
      /\ \A v \in Workers : at'[v] # "idle" => round[v].id \in Ids /\ round[v].stage \in PushStages
      /\ Drafts' /\ Untouched' /\ EachStageOnce'
  BY <1>1, <1>2, MarkingFacts
<1>4. \A d \in Ids : \A s : s \in Marks(d)' <=>
         s \in Marks(d) /\ ~(d = round[w].id /\ s = round[w].stage)
  BY <1>3 DEF m
<1>5. \A v \in Workers : Holding(v)' = (Holding(v) /\ v # w)
  BY <1>3 DEF Holding
<1>6. Holding(w) /\ ~Pushed(round[w].id, round[w].stage)
  BY <1>3 DEF Reminded, HeldIsMarked, Holding
<1>7. \A v \in Workers : Holding(v)' => ~(round[v].id = round[w].id /\ round[v].stage = round[w].stage)
  BY <1>5, <1>6 DEF Reminded, OneMarker
<1>8. Handed'
  BY <1>3 DEF Reminded, Handed
<1>9. OneMarker'
  BY <1>3, <1>5 DEF Reminded, OneMarker
<1>10. HeldIsMarked'
  <2> SUFFICES ASSUME NEW v \in Workers, Holding(v)'
               PROVE  round[v].stage \in Marks(round[v].id)' /\ ~Pushed(round[v].id, round[v].stage)'
    BY <1>3 DEF HeldIsMarked
  <2>1. round[v].id \in Ids /\ round[v].stage \in PushStages
    BY <1>3 DEF Holding
  <2>2. QED
    BY <1>3, <1>4, <1>5, <1>7, <2>1 DEF Reminded, HeldIsMarked
<1>11. PushedIsMarked'
  BY <1>3, <1>4, <1>6 DEF Reminded, PushedIsMarked
<1>12. MarkMeansPushed'
  <2> SUFFICES ASSUME NEW c \in Ids, NEW s \in PushStages, s \in Marks(c)'
               PROVE  \/ Pushed(c, s)
                      \/ c \in missed
                      \/ \E v \in Workers : round[v].id = c /\ round[v].stage = s /\ Holding(v)'
                      \/ s = "stage1" /\ age[c] >= 2
    BY <1>3 DEF MarkMeansPushed, Holding
  <2>1. s \in Marks(c) /\ ~(c = round[w].id /\ s = round[w].stage)
    BY <1>4
  <2>2. QED
    BY <2>1, <1>5 DEF Reminded, MarkMeansPushed, Holding
<1>13. QED
  BY <1>3, <1>8, <1>9, <1>10, <1>11, <1>12 DEF Reminded

(* A stage that is pushed has not been pushed before.                        *)
LEMMA PushReminded ==
  ASSUME ReminderInv, Reminded, NEW w \in Workers, PushDelivered(w)
  PROVE  Reminded'
<1>0. PICK c, s : c = round[w].id /\ s = round[w].stage
  OBVIOUS
<1>1. /\ Move(w, "push", "idle") /\ log' = [log EXCEPT ![c] = Append(@, s)]
      /\ UNCHANGED vars /\ age' = age /\ round' = round /\ missed' = missed
  BY <1>0 DEF PushDelivered
<1>2. /\ c \in Ids /\ s \in PushStages
      /\ at[w] = "push" /\ at'[w] = "idle" /\ \A v \in Workers \ {w} : at'[v] = at[v]
      /\ \A v \in Workers : at'[v] # "idle" => round[v].id \in Ids /\ round[v].stage \in PushStages
  BY <1>0, <1>1, MoveTyped DEF ReminderInv, Typed, ReminderTypeOK, Round
<1>3. record[c].status = "done" /\ s \in Marks(c) /\ ~Pushed(c, s)
  BY <1>0, <1>2 DEF Reminded, Handed, HeldIsMarked, Holding
<1>4. record' = record /\ \A d \in Ids : Marks(d)' = Marks(d)
  BY <1>1 DEF vars, Marks
<1>5. /\ log[c] \in Seq(PushStages) /\ log'[c] = Append(log[c], s)
      /\ \A d \in Ids \ {c} : log'[d] = log[d]
  BY <1>1, <1>2 DEF ReminderInv, Typed
<1>6. /\ DOMAIN log[c] = 1..Len(log[c]) /\ Len(log[c]) \in Nat
      /\ DOMAIN log'[c] = 1..Len(log[c]) + 1
      /\ log'[c][Len(log[c]) + 1] = s
      /\ \A i \in 1..Len(log[c]) : log'[c][i] = log[c][i]
  BY <1>5
<1>7. \A d \in Ids, t \in PushStages : Pushed(d, t)' <=> Pushed(d, t) \/ (d = c /\ t = s)
  <2>1. \A t \in PushStages : Pushed(c, t)' <=> Pushed(c, t) \/ t = s
    BY <1>6 DEF Pushed
  <2>2. \A d \in Ids \ {c}, t \in PushStages : Pushed(d, t)' = Pushed(d, t)
    BY <1>5 DEF Pushed
  <2>3. QED
    BY <2>1, <2>2
<1>8. EachStageOnce'
  <2> SUFFICES ASSUME NEW d \in Ids, NEW i \in DOMAIN log'[d], NEW j \in DOMAIN log'[d],
                      log'[d][i] = log'[d][j]
               PROVE  i = j
    BY DEF EachStageOnce
  <2>1. CASE d # c
    BY <1>5, <2>1 DEF Reminded, EachStageOnce
  <2>2. CASE d = c
    <3>1. \A k \in 1..Len(log[c]) : log[c][k] # s
      BY <1>3, <1>6 DEF Pushed
    <3>2. CASE i \in 1..Len(log[c]) /\ j \in 1..Len(log[c])
      BY <1>2, <1>6, <2>2, <3>2 DEF Reminded, EachStageOnce
    <3>3. CASE i = Len(log[c]) + 1 \/ j = Len(log[c]) + 1
      BY <1>6, <2>2, <3>1, <3>3
    <3>4. QED
      BY <1>6, <2>2, <3>2, <3>3
  <2>3. QED
    BY <2>1, <2>2
<1>9. Drafts'
  BY <1>1, DraftsKept DEF ReminderInv, Reminded
<1>10. Untouched'
  BY <1>3, <1>4, <1>5 DEF Reminded, Untouched
<1>11. Handed'
  BY <1>1, <1>2, <1>4 DEF Reminded, Handed
<1>12. \A v \in Workers : Holding(v)' = (Holding(v) /\ v # w)
  BY <1>2 DEF Holding
<1>13. OneMarker'
  BY <1>1, <1>12 DEF Reminded, OneMarker
<1>14. HeldIsMarked'
  <2> SUFFICES ASSUME NEW v \in Workers, Holding(v)'
               PROVE  round[v].stage \in Marks(round[v].id)' /\ ~Pushed(round[v].id, round[v].stage)'
    BY <1>1 DEF HeldIsMarked
  <2>1. round[v].id \in Ids /\ round[v].stage \in PushStages
    BY <1>2 DEF Holding
  <2>2. Holding(w)
    BY <1>2 DEF Holding
  <2>3. ~(round[v].id = c /\ round[v].stage = s)
    BY <1>0, <1>12, <2>2 DEF Reminded, OneMarker
  <2>4. QED
    BY <1>1, <1>4, <1>7, <1>12, <2>1, <2>3 DEF Reminded, HeldIsMarked
<1>15. PushedIsMarked'
  BY <1>3, <1>4, <1>7 DEF Reminded, PushedIsMarked
<1>16. MarkMeansPushed'
  <2> SUFFICES ASSUME NEW d \in Ids, NEW t \in PushStages, t \in Marks(d)
               PROVE  \/ Pushed(d, t)'
                      \/ d \in missed
                      \/ \E v \in Workers : round[v].id = d /\ round[v].stage = t /\ Holding(v)'
                      \/ t = "stage1" /\ age[d] >= 2
    BY <1>1, <1>4 DEF MarkMeansPushed, Holding
  <2>1. CASE d = c /\ t = s
    BY <1>7, <2>1
  <2>2. CASE ~(d = c /\ t = s)
    BY <1>0, <1>7, <1>12, <2>2 DEF Reminded, MarkMeansPushed, Holding
  <2>3. QED
    BY <2>1, <2>2
<1>17. QED
  BY <1>8, <1>9, <1>10, <1>11, <1>13, <1>14, <1>15, <1>16 DEF Reminded

---------------------------------------------------------------------------
LEMMA ReminderStep ==
  ASSUME ReminderInv, Reminded, WritesFresh, [ReminderNext]_allVars
  PROVE  Reminded'
<1>1. CASE RequestStep \/ UNCHANGED allVars
  BY <1>1, RequestStepIsNext, RequestReminded DEF allVars
<1>2. ASSUME NEW c \in Ids, GrowOlder(c) PROVE Reminded'
  BY <1>2, GrowOlderReminded
<1>3. ASSUME NEW w \in Workers, Remind(w) PROVE Reminded'
  BY <1>3, ListReminded, PassReminded, MarkClosedReminded, MarkStageReminded, SkipReminded,
     PushReminded, UnmarkReminded DEF Remind
<1>4. ASSUME NEW w \in Workers, GiveUp(w) PROVE Reminded'
  BY <1>4, DropReminded DEF GiveUp
<1>5. ASSUME NEW w \in Workers, PushImpossible(w) \/ PushFailed(w) PROVE Reminded'
  BY <1>5, PassReminded
<1>6. CASE Restart
  <2>1. [Next]_vars
    BY <1>6 DEF Restart, Next
  <2>2. QED
    BY <1>6, <2>1, DropReminded DEF Restart
<1>7. QED
  BY <1>1, <1>2, <1>3, <1>4, <1>5, <1>6 DEF ReminderNext

LEMMA RemindedHolds == ReminderSpec /\ []WritesFresh => []Reminded
<1>1. ReminderInv /\ WritesFresh /\ Reminded /\ [ReminderNext]_allVars => Reminded'
  BY ReminderStep
<1>2. QED
  BY <1>1, InitReminded, ReminderInvHolds, PTL DEF ReminderSpec

(* Each stage of a position is pushed once, by however many workers and after *)
(* any failures and restarts, as long as no retry of an OCO writes back marks *)
(* that were changed since it read them.                                     *)
THEOREM StagePushedOnce == ReminderSpec /\ []WritesFresh => []EachStageOnce
<1>1. Reminded => EachStageOnce
  BY DEF Reminded
<1>2. QED
  BY <1>1, RemindedHolds, PTL

(* Under the same condition no stage is marked without being pushed, held,    *)
(* replaced, or lost with its worker.                                        *)
THEOREM NoStageSwallowed == ReminderSpec /\ []WritesFresh => []MarkMeansPushed
<1>1. Reminded => MarkMeansPushed
  BY DEF Reminded
<1>2. QED
  BY <1>1, RemindedHolds, PTL

---------------------------------------------------------------------------
(* What the rows, the answers and OrderOnce promise survives the reminder.   *)

Bystanders == <<pc, job, draft, told, market, oco, sold>>

(* A step of the composition is one of the orders, or it changes the marks   *)
(* of one row.                                                              *)
LEMMA RowSteps ==
  ASSUME ReminderInv, [ReminderNext]_allVars
  PROVE  \/ [Next]_vars
         \/ \E c \in Ids, m \in SUBSET Stages : SetMarks(c, m) /\ UNCHANGED Bystanders
<1>1. CASE RequestStep \/ UNCHANGED allVars
  BY <1>1, RequestStepIsNext DEF allVars
<1>2. CASE (\E c \in Ids : GrowOlder(c)) \/ Restart
  BY <1>2 DEF GrowOlder, Restart, Next
<1>3. ASSUME NEW w \in Workers, Remind(w) \/ GiveUp(w) \/ PushImpossible(w) \/ PushFailed(w)
      PROVE  \/ [Next]_vars
             \/ \E c \in Ids, m \in SUBSET Stages : SetMarks(c, m) /\ UNCHANGED Bystanders
  <2>1. CASE UNCHANGED vars
    BY <2>1
  <2>2. CASE MarkClosed(w) \/ MarkStage(w) \/ SkipStage1(w) \/ Unmark(w)
    <3>1. round[w].id \in Ids /\ round[w].stage \in PushStages
      BY <2>2 DEF MarkClosed, MarkStage, SkipStage1, Unmark, Move, ReminderInv, Typed,
         ReminderTypeOK, Round
    <3>2. Marks(round[w].id) \in SUBSET Stages
      BY <3>1, MarksAreStages DEF ReminderInv
    <3>3. /\ Marks(round[w].id) \cup {"closed"} \in SUBSET Stages
          /\ Marks(round[w].id) \cup {"stage1"} \in SUBSET Stages
          /\ Marks(round[w].id) \cup {round[w].stage} \in SUBSET Stages
          /\ Marks(round[w].id) \ {round[w].stage} \in SUBSET Stages
      BY <3>1, <3>2 DEF Stages, PushStages
    <3>4. QED
      BY <2>2, <3>1, <3>3 DEF MarkClosed, MarkStage, SkipStage1, Unmark, MarksAfterFailure, Bystanders
  <2>3. QED
    BY <1>3, <2>1, <2>2 DEF Remind, List, CheckBalance, StageTaken, PushDelivered, GiveUp,
       PushImpossible, PushFailed
<1>4. QED
  BY <1>1, <1>2, <1>3 DEF ReminderNext

LEMMA MarksOnly ==
  ASSUME Inv, NEW c \in Ids, NEW m \in SUBSET Stages, SetMarks(c, m)
  PROVE  \A d \in Ids : /\ record'[d].status = record[d].status
                         /\ record'[d].res.known = record[d].res.known
                         /\ record'[d].res.prot = record[d].res.prot
                         /\ StatusOf(record'[d]) = StatusOf(record[d])
<1>1. record \in [Ids -> Record]
  BY DEF Inv, TypeOK
<1>2. record' = [record EXCEPT ![c] = [record[c] EXCEPT !.res = [record[c].res EXCEPT !.marks = m]]]
  BY <1>1 DEF SetMarks
<1>3. \A r \in Record : /\ [r EXCEPT !.res = [r.res EXCEPT !.marks = m]].status = r.status
                        /\ [r EXCEPT !.res = [r.res EXCEPT !.marks = m]].res.known = r.res.known
                        /\ [r EXCEPT !.res = [r.res EXCEPT !.marks = m]].res.prot = r.res.prot
  BY DEF Record, Result
<1>4. \A d \in Ids : /\ record'[d].status = record[d].status
                     /\ record'[d].res.known = record[d].res.known
                     /\ record'[d].res.prot = record[d].res.prot
  BY <1>1, <1>2, <1>3
<1>5. QED
  BY <1>4 DEF StatusOf

Truths == Evidence /\ Answers /\ Placed

LEMMA TruthsStep ==
  ASSUME ReminderInv, ReminderInv', Truths, [ReminderNext]_allVars
  PROVE  Truths'
<1>1. CASE [Next]_vars
  BY <1>1, NextEvidence, NextAnswers, NextPlaced DEF Truths, ReminderInv
<1>2. CASE \E c \in Ids, m \in SUBSET Stages : SetMarks(c, m) /\ UNCHANGED Bystanders
  <2>1. \A d \in Ids : /\ record'[d].status = record[d].status
                       /\ record'[d].res.known = record[d].res.known
                       /\ record'[d].res.prot = record[d].res.prot
                       /\ StatusOf(record'[d]) = StatusOf(record[d])
    BY <1>2, MarksOnly DEF ReminderInv
  <2>2. UNCHANGED <<pc, job, draft, told, market, oco, sold>>
    BY <1>2 DEF Bystanders
  <2>3. \A d \in Ids : /\ Taken(d)' = Taken(d) /\ Executed(d)' = Executed(d)
                       /\ MayBuy(d)' = MayBuy(d)
    BY <2>2 DEF Taken, Executed, MayBuy, OrderIs
  <2>4. Evidence'
    BY <2>1, <2>3 DEF Truths, Evidence
  <2>5. Answers'
    <3>1. \A p \in Requests : told[p] # "nothing" => job[p].id \in Ids
      BY DEF Truths, Answers, ReminderInv, Inv, Progress
    <3>2. SUFFICES ASSUME NEW p \in Requests
                   PROVE  /\ told[p] # "nothing" => pc[p] # "idle"
                          /\ told[p] = "bought"  => StatusOf(record'[job[p].id]) = "bought"
                          /\ told[p] = "taken"   => StatusOf(record'[job[p].id]) = "accepted"
                          /\ told[p] = "refused" => StatusOf(record'[job[p].id]) = "failed"
      BY <2>2 DEF Answers, StatusOf
    <3>3. QED
      BY <2>1, <3>1 DEF Truths, Answers
  <2>6. Placed'
    BY <2>1, <2>2 DEF Truths, Placed, Accepted
  <2>7. QED
    BY <2>4, <2>5, <2>6 DEF Truths
<1>3. QED
  BY <1>1, <1>2, RowSteps

LEMMA TruthsHold == ReminderSpec => []Truths
<1>1. ReminderInit => Truths
  BY InitEvidence, InitAnswers, InitPlaced DEF ReminderInit, Truths
<1>2. QED
  BY <1>1, TruthsStep, ReminderInvHolds, PTL DEF ReminderSpec

(* The answers to clients are as true with the reminder writing to the rows   *)
(* as without it.                                                           *)
THEOREM ReminderTold ==
  ASSUME "garbled" \notin Faults
  PROVE  ReminderSpec => []ToldTruth
<1>1. ReminderInv /\ Truths => ToldTruth
  BY AnswersAreTrue DEF ReminderInv, Truths
<1>2. QED
  BY <1>1, TruthsHold, ReminderInvHolds, PTL

(* A reminder that rewrites the result of a row never makes it claim a        *)
(* protection the exchange has not accepted.                                *)
THEOREM ReminderPlaced == ReminderSpec => []PlacedIsReal
<1>1. Truths => PlacedIsReal
  BY DEF Truths, Placed, Accepted, PlacedIsReal
<1>2. QED
  BY <1>1, TruthsHold, PTL

(* The composition implements OrderOnce: the steps of the reminder stutter.   *)
THEOREM ReminderKeepsOnce ==
  ASSUME "garbled" \notin Faults
  PROVE  ReminderSpec => OrderOnceSpec
<1>1. ReminderInit => Once!Init
  BY InitOnce DEF ReminderInit
<1>2. ReminderInv /\ ReminderInv' /\ Truths /\ Truths' /\ [ReminderNext]_allVars
        => [Once!Next]_<<status, taken, executed, void>>
  <2> SUFFICES ASSUME ReminderInv, ReminderInv', Truths, Truths', [ReminderNext]_allVars
               PROVE  Once!Next \/ UNCHANGED <<status, taken, executed, void>>
    OBVIOUS
  <2>1. CASE [Next]_vars
    BY <2>1, NextOnce DEF ReminderInv, Truths
  <2>2. CASE \E c \in Ids, m \in SUBSET Stages : SetMarks(c, m) /\ UNCHANGED Bystanders
    <3>1. \A d \in Ids : StatusOf(record'[d]) = StatusOf(record[d])
      BY <2>2, MarksOnly DEF ReminderInv
    <3>2. status' = status
      BY <3>1 DEF status, StatusOf
    <3>3. \A d \in Ids : Taken(d)' = Taken(d) /\ Executed(d)' = Executed(d) /\ Void(d)' = Void(d)
      BY <2>2 DEF Taken, Executed, Void, OrderIs, Bystanders
    <3>4. UNCHANGED <<taken, executed, void>>
      BY <3>3 DEF taken, executed, void
    <3>5. QED
      BY <3>2, <3>4
  <2>3. QED
    BY <2>1, <2>2, RowSteps
<1>3. QED
  BY <1>1, <1>2, TruthsHold, ReminderInvHolds, PTL
     DEF ReminderSpec, OrderOnceSpec, Once!Spec, status, taken, executed, void

---------------------------------------------------------------------------
(* Only what was bought is reminded of: a worker takes a row up when it is     *)
(* recorded with a quantity, and no retry and no mark takes the quantity away. *)

RowBought(c) == StatusOf(record[c]) = "bought"

KnownOnly ==
  /\ \A w \in Workers : at[w] # "idle" => RowBought(round[w].id)
  /\ \A c \in Ids : log[c] # <<>> => RowBought(c)

LEMMA BoughtStays ==
  ASSUME ReminderInv, [ReminderNext]_allVars, NEW c \in Ids, RowBought(c)
  PROVE  RowBought(c)'
<1>1. CASE [Next]_vars
  <2>1. record[c] \in Record
    BY DEF ReminderInv, Inv, TypeOK
  <2>2. record[c].status = "done"
    BY <2>1, StatusWords DEF RowBought
  <2>3. StatusOf(record'[c]) = StatusOf(record[c])
    BY <1>1, <2>2, StatusChange DEF ReminderInv
  <2>4. QED
    BY <2>3 DEF RowBought, StatusOf
<1>2. CASE \E d \in Ids, m \in SUBSET Stages : SetMarks(d, m) /\ UNCHANGED Bystanders
  <2>1. StatusOf(record'[c]) = StatusOf(record[c])
    BY <1>2, MarksOnly DEF ReminderInv
  <2>2. QED
    BY <2>1 DEF RowBought, StatusOf
<1>3. QED
  BY <1>1, <1>2, RowSteps

(* A step hands a row to a worker, delivers a push, or lets workers go on.     *)
LEMMA HandSteps ==
  ASSUME Typed, [ReminderNext]_allVars
  PROVE  \/ \E w \in Workers : List(w) \/ PushDelivered(w)
         \/ /\ log' = log
            /\ \A w \in Workers : at'[w] # "idle" => at[w] # "idle" /\ round'[w] = round[w]
<1> DEFINE Kept == /\ log' = log
                   /\ \A w \in Workers : at'[w] # "idle" => at[w] # "idle" /\ round'[w] = round[w]
<1>1. CASE RequestStep \/ UNCHANGED allVars
  BY <1>1, RequestStepIsNext DEF allVars, reminderVars
<1>2. ASSUME NEW c \in Ids, GrowOlder(c) PROVE Kept
  BY <1>2 DEF GrowOlder
<1>3. ASSUME NEW w \in Workers, Remind(w), ~List(w), ~PushDelivered(w) PROVE Kept
  <2>1. /\ log' = log /\ round' = round
        /\ \E from, to : Move(w, from, to) /\ from # "idle"
    BY <1>3 DEF Remind, CheckBalance, MarkClosed, MarkStage, StageTaken, SkipStage1, Unmark
  <2>2. QED
    BY <2>1 DEF Move, Typed, ReminderTypeOK
<1>4. ASSUME NEW w \in Workers, PushImpossible(w) \/ PushFailed(w) PROVE Kept
  BY <1>4 DEF PushImpossible, PushFailed, Move, Typed, ReminderTypeOK
<1>5. ASSUME NEW W \in SUBSET Workers, Drop(W) PROVE Kept
  BY <1>5 DEF Drop, Typed, ReminderTypeOK
<1>6. QED
  BY <1>1, <1>2, <1>3, <1>4, <1>5 DEF ReminderNext, GiveUp, Restart

LEMMA KnownOnlyStep ==
  ASSUME ReminderInv, KnownOnly, [ReminderNext]_allVars
  PROVE  KnownOnly'
<1>1. \A c \in Ids : RowBought(c) => RowBought(c)'
  BY BoughtStays
<1>2. \A w \in Workers : at[w] # "idle" => round[w].id \in Ids
  BY DEF ReminderInv, Typed
<1>3. ASSUME NEW w \in Workers, List(w) PROVE KnownOnly'
  <2>1. PICK c \in Ids : \E s \in DueStages(c) :
          /\ Due(c, s)
          /\ round' = [round EXCEPT ![w] = [id |-> c, stage |-> s, marks |-> Marks(c)]]
    BY <1>3 DEF List
  <2>2. /\ round'[w].id = c /\ log' = log /\ record' = record
        /\ \A v \in Workers \ {w} : round'[v] = round[v] /\ at'[v] = at[v]
    BY <1>3, <2>1 DEF List, Move, vars, ReminderInv, Typed, ReminderTypeOK
  <2>3. RowBought(c)
    BY <2>1 DEF Due, Listed, HasEntry, RowBought, StatusOf
  <2>4. \A v \in Workers : at'[v] # "idle" => round'[v].id \in Ids /\ RowBought(round'[v].id)
    BY <1>2, <2>1, <2>2, <2>3 DEF KnownOnly
  <2>5. QED
    BY <2>2, <2>4 DEF KnownOnly, RowBought, StatusOf
<1>4. ASSUME NEW w \in Workers, PushDelivered(w) PROVE KnownOnly'
  <2>1. /\ at[w] = "push" /\ round' = round /\ record' = record
        /\ log' = [log EXCEPT ![round[w].id] = Append(@, round[w].stage)]
        /\ \A v \in Workers : at'[v] # "idle" => at[v] # "idle"
    BY <1>4 DEF PushDelivered, Move, vars, ReminderInv, Typed, ReminderTypeOK
  <2>2. RowBought(round[w].id)
    BY <2>1 DEF KnownOnly
  <2>3. \A c \in Ids : log'[c] # <<>> => log[c] # <<>> \/ c = round[w].id
    BY <2>1 DEF ReminderInv, Typed
  <2>4. QED
    BY <2>1, <2>2, <2>3 DEF KnownOnly, RowBought, StatusOf
<1>5. ASSUME log' = log,
             \A w \in Workers : at'[w] # "idle" => at[w] # "idle" /\ round'[w] = round[w]
      PROVE  KnownOnly'
  <2>1. ASSUME NEW w \in Workers, at'[w] # "idle"
        PROVE  round'[w].id \in Ids /\ round'[w] = round[w] /\ RowBought(round[w].id)
    BY <1>2, <1>5, <2>1 DEF KnownOnly
  <2>2. \A w \in Workers : at'[w] # "idle" => RowBought(round[w].id)'
    <3>1. ASSUME NEW w \in Workers, at'[w] # "idle" PROVE RowBought(round[w].id)'
      <4>1. PICK c \in Ids : c = round[w].id /\ round'[w].id = c /\ RowBought(c)
        BY <2>1, <3>1
      <4>2. RowBought(c)'
        BY <1>1, <4>1
      <4>3. QED
        BY <4>1, <4>2 DEF RowBought, StatusOf
    <3>2. QED
      BY <3>1
  <2>3. QED
    BY <1>1, <1>5, <2>2 DEF KnownOnly
<1>6. QED
  BY <1>3, <1>4, <1>5, HandSteps DEF ReminderInv

(* Whatever errors, empty polls, retries and restarts come before it, a push   *)
(* of the reminder is about a position whose buy has executed.                *)
THEOREM RemindedWasBought == ReminderSpec => []RemindsOfBought
<1>1. ReminderInit => KnownOnly
  BY DEF ReminderInit, KnownOnly
<1>2. ReminderInv /\ KnownOnly /\ Truths => RemindsOfBought
  <2>1. SUFFICES ASSUME ReminderInv, KnownOnly, Truths, NEW c \in Ids, log[c] # <<>>
                 PROVE  Executed(c)
    BY DEF RemindsOfBought
  <2>2. record[c] \in Record /\ StatusOf(record[c]) = "bought"
    BY <2>1 DEF KnownOnly, RowBought, ReminderInv, Inv, TypeOK
  <2>3. QED
    BY <2>1, <2>2, StatusWords DEF Truths, Evidence
<1>3. QED
  BY <1>1, <1>2, KnownOnlyStep, TruthsHold, ReminderInvHolds, PTL DEF ReminderSpec
=============================================================================
