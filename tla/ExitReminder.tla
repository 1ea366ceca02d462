---------------------------- MODULE ExitReminder ----------------------------
(***************************************************************************)
(* The reminder that a position's exit time has come, composed with the     *)
(* order requests of OpenPosition: both write the JSON result of the same   *)
(* order_requests row.  A worker reads the due rows, checks the balance at  *)
(* the exchange, marks a stage in the row, then pushes, and takes the mark  *)
(* back if the push failed for the moment.                                  *)
(***************************************************************************)
EXTENDS OpenPosition, Sequences

CONSTANTS
  Workers,     (* reminder loops                                            *)
  MaxFails     (* bound: restarts, outages, quiet hours and failed pushes   *)

ASSUME FailsAssumption == MaxFails \in Nat

VARIABLES
  grace,       (* whether plans have grace_minutes > 0                      *)
  age,         (* of a position: 0 before exit_at, 1 after it, 2 after the  *)
               (* grace, 3 when three days have passed                      *)
  at,          (* where a worker is                                         *)
  round,       (* the row a worker handles, as it was listed                *)
  log,         (* history: stages the push service took                     *)
  missed,      (* history: rows with a stage that was marked and not pushed *)
  fails        (* how many of them happened                                 *)

reminderVars == <<grace, age, at, round, log, missed, fails>>
allVars      == <<vars, reminderVars>>

PushStages == {"stage1", "stage2"}

Round == [id : Ids \cup {Nil}, stage : PushStages, marks : SUBSET Stages]

ReminderTypeOK ==
  /\ grace \in BOOLEAN
  /\ age   \in [Ids -> 0..3]
  /\ at    \in [Workers -> {"idle", "check", "close", "mark", "skip", "push", "unmark"}]
  /\ round \in [Workers -> Round]
  /\ \A c \in Ids : log[c] \in Seq(PushStages)
  /\ missed \subseteq Ids
  /\ fails \in 0..MaxFails

Marks(c) == record[c].res.marks

(* Mutant: a row without an entry price is not passed over.                   *)
AnyEntry(c) == TRUE

(* A row without a known fill has no entry price and is passed over.          *)
HasEntry(c) == record[c].res.known

(* list_plan_order_requests_due.                                             *)
Listed(c) ==
  /\ record[c].status = "done" /\ record[c].res.planned /\ HasEntry(c)
  /\ age[c] \in {1, 2}
  /\ Marks(c) \cap {"closed", "stage2"} = {}
  /\ grace \/ "stage1" \notin Marks(c)

(* Mutant: every key of a row's marks is taken for a stage.                   *)
AnyStage(c) == Stages \ Marks(c)

(* The stage that is due for a listed row, if any.                           *)
DueStages(c) ==
  IF grace /\ age[c] = 2 THEN {"stage2"} ELSE {"stage1"} \ Marks(c)

Due(c, s) == Listed(c) /\ s \in DueStages(c)

(* Coins of the position are gone: less than half of it is left.             *)
Gone == Balance = 0

Move(w, from, to) == at[w] = from /\ at' = [at EXCEPT ![w] = to]

SetMarks(c, m) == record' = [record EXCEPT ![c].res.marks = m]

Spoil == fails < MaxFails /\ fails' = fails + 1

---------------------------------------------------------------------------

(* Time passes for a position; exit_at is counted from the answer to the      *)
(* order, whether it has executed or not.                                     *)
GrowOlder(c) ==
  /\ Taken(c) /\ age[c] < 3
  /\ age' = [age EXCEPT ![c] = @ + 1]
  /\ UNCHANGED <<vars, grace, at, round, log, missed, fails>>

List(w) ==
  /\ Move(w, "idle", "check")
  /\ \E c \in Ids : \E s \in DueStages(c) :
       /\ Due(c, s)
       /\ round' = [round EXCEPT ![w] = [id |-> c, stage |-> s, marks |-> Marks(c)]]
  /\ UNCHANGED <<vars, grace, age, log, missed, fails>>

CheckBalance(w) ==
  /\ Move(w, "check", IF Gone THEN "close" ELSE "mark")
  /\ UNCHANGED <<vars, grace, age, round, log, missed, fails>>

(* Workers W leave their rows; a stage marked but not yet pushed is lost.     *)
Drop(W) ==
  /\ at' = [w \in Workers |-> IF w \in W THEN "idle" ELSE at[w]]
  /\ missed' = missed \cup {round[w].id : w \in {v \in W : at[v] \in {"skip", "push", "unmark"}}}
  /\ Spoil
  /\ UNCHANGED <<grace, age, round, log>>

(* The exchange cannot be read, the user has no keys, it is quiet hours, or a *)
(* call of the database or of the push raises.                                *)
GiveUp(w) ==
  /\ at[w] # "idle"
  /\ Drop({w})
  /\ UNCHANGED vars

MarkClosed(w) ==
  /\ Move(w, "close", "idle")
  /\ SetMarks(round[w].id, Marks(round[w].id) \cup {"closed"})
  /\ UNCHANGED <<pc, job, draft, told, market, oco, sold, grace, age, round, log, missed, fails>>

(* Mutant: the mark is not conditional on being the first.                   *)
MarkAnyway(w) == TRUE

(* mark_exit_reminder: one UPDATE, which succeeds for the first marker only.  *)
MayMark(w) == round[w].stage \notin Marks(round[w].id)

(* A second stage also consumes a first one that the listing had not seen.    *)
AfterMark(w) ==
  IF round[w].stage = "stage2" /\ "stage1" \notin round[w].marks THEN "skip" ELSE "push"

MarkStage(w) ==
  /\ Move(w, "mark", AfterMark(w))
  /\ MayMark(w)
  /\ SetMarks(round[w].id, Marks(round[w].id) \cup {round[w].stage})
  /\ UNCHANGED <<pc, job, draft, told, market, oco, sold, grace, age, round, log, missed, fails>>

StageTaken(w) ==
  /\ Move(w, "mark", "idle")
  /\ ~MayMark(w)
  /\ UNCHANGED <<vars, grace, age, round, log, missed, fails>>

SkipStage1(w) ==
  /\ Move(w, "skip", "push")
  /\ SetMarks(round[w].id, Marks(round[w].id) \cup {"stage1"})
  /\ UNCHANGED <<pc, job, draft, told, market, oco, sold, grace, age, round, log, missed, fails>>

PushDelivered(w) ==
  /\ Move(w, "push", "idle")
  /\ log' = [log EXCEPT ![round[w].id] = Append(@, round[w].stage)]
  /\ UNCHANGED <<vars, grace, age, round, missed, fails>>

(* No subscription, no keys of the push service: the mark stays.              *)
PushImpossible(w) ==
  /\ Move(w, "push", "idle")
  /\ missed' = missed \cup {round[w].id}
  /\ UNCHANGED <<vars, grace, age, round, log, fails>>

PushFailed(w) ==
  /\ Move(w, "push", "unmark")
  /\ Spoil
  /\ UNCHANGED <<vars, grace, age, round, log, missed>>

(* Mutant: a failed push keeps its mark.                                      *)
KeepMark(w) == Marks(round[w].id)

MarksAfterFailure(w) == Marks(round[w].id) \ {round[w].stage}

Unmark(w) ==
  /\ Move(w, "unmark", "idle")
  /\ SetMarks(round[w].id, MarksAfterFailure(w))
  /\ UNCHANGED <<pc, job, draft, told, market, oco, sold, grace, age, round, log, missed, fails>>

---------------------------------------------------------------------------

(* A step of an order request or of the exchange.                             *)
RequestStep ==
  /\ \/ \E p \in Requests, k \in Kinds, c \in Ids : Arrive(p, k, c)
     \/ \E p \in Requests : Handle(p) \/ Exchange(p) \/ HandlerRaises(p)
     \/ SellByHand
  /\ UNCHANGED <<grace, age, at, round, log, missed, fails>>

Restart ==
  /\ Crash \/ /\ \E w \in Workers : at[w] # "idle"
              /\ \A p \in Requests : pc[p] \in {"idle", "end", "dead"}
              /\ UNCHANGED vars
  /\ Drop(Workers)

ReminderInit ==
  /\ Init
  /\ grace \in BOOLEAN
  /\ age   = [c \in Ids |-> 0]
  /\ at    = [w \in Workers |-> "idle"]
  /\ round = [w \in Workers |-> [id |-> Nil, stage |-> "stage1", marks |-> {}]]
  /\ log   = [c \in Ids |-> <<>>]
  /\ missed = {} /\ fails = 0

Remind(w) ==
  \/ List(w) \/ CheckBalance(w) \/ MarkClosed(w) \/ MarkStage(w) \/ StageTaken(w)
  \/ SkipStage1(w) \/ PushDelivered(w) \/ Unmark(w)

ReminderNext ==
  \/ RequestStep
  \/ \E c \in Ids : GrowOlder(c)
  \/ \E w \in Workers : Remind(w) \/ GiveUp(w) \/ PushImpossible(w) \/ PushFailed(w)
  \/ Restart

(* The loop wakes up every minute; its database calls return.                 *)
ReminderSpec ==
  /\ ReminderInit /\ [][ReminderNext]_allVars
  /\ \A w \in Workers : WF_allVars(Remind(w))

---------------------------------------------------------------------------
(* Properties.                                                              *)

Pushed(c, s) == \E i \in DOMAIN log[c] : log[c][i] = s

(* Each stage of a position is pushed at most once, also when two workers    *)
(* handle the row, a push is retried or the server restarts in between.      *)
EachStageOnce ==
  \A c \in Ids : \A i, j \in DOMAIN log[c] : log[c][i] = log[c][j] => i = j

(* No stage is swallowed: a marked one was pushed, is in a worker's hands,   *)
(* was lost with a worker or refused by the push service, or is a first      *)
(* stage that a second one replaced.                                         *)
MarkMeansPushed ==
  \A c \in Ids : \A s \in Marks(c) \cap PushStages :
    \/ Pushed(c, s)
    \/ c \in missed
    \/ \E w \in Workers : round[w].id = c /\ round[w].stage = s /\ at[w] \in {"skip", "push", "unmark"}
    \/ s = "stage1" /\ age[c] >= 2

(* Only a position that was bought is reminded of: a buy that the exchange    *)
(* took and has not filled is recorded as done and has an exit time too, and  *)
(* it may never be filled.                                                   *)
RemindsOfBought == \A c \in Ids : log[c] # <<>> => Executed(c)

(* A position that is due for good is reminded of, found closed, or its      *)
(* reminder was lost; it is not left behind by failed pushes and retries.    *)
DueIsReminded ==
  \A c \in Ids : \A s \in PushStages :
    Due(c, s) ~> \/ Pushed(c, s) \/ Pushed(c, "stage2") \/ c \in missed
                 \/ "closed" \in Marks(c) \/ age[c] > 2
                 \/ (s = "stage1" /\ age[c] = 2)
=============================================================================
