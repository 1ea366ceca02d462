------------------------ MODULE OpenPositionProofs ------------------------
(***************************************************************************)
(* Proofs about OpenPosition, for any number of requests and ids and any    *)
(* faults.  A request holds its id from the claim on: the insert gives the  *)
(* id to one request only, and no request gives it back.                    *)
(***************************************************************************)
EXTENDS OpenPosition, TLAPS

Owner(p) == /\ job[p].kind \in {"open", "simple"}
            /\ pc[p] \in {"send", "wait", "poll", "protect", "ocowait", "write"}
Sent(p)  == market[p] # "unsent"
Holds(p) == Owner(p) \/ Sent(p)

(* The exchange took the order of a request, and executed it if the result of *)
(* the request has a quantity.                                               *)
Took(p) ==
  /\ market[p] \in {"taken", "filled", "void"}
  /\ draft[p].res.known => market[p] = "filled"

(* What a handler has behind it at each point of its way.                    *)
Progress(p) ==
  /\ pc[p] # "idle" => job[p].id \in Ids /\ job[p].kind \in Kinds
  /\ pc[p] \in {"idle", "look", "claim", "send"} => ~Sent(p)
  /\ job[p].kind \in {"none", "protect"} => ~Sent(p)
  /\ pc[p] \in {"claim", "send", "wait", "poll"} => job[p].kind \in {"open", "simple"}
  /\ pc[p] = "wait" => Sent(p)
  /\ pc[p] = "poll" => market[p] \in {"taken", "filled", "void"}
  /\ pc[p] \in {"protect", "ocowait"} /\ Owner(p) => Took(p)
  /\ pc[p] = "write" => draft[p].status \in {"done", "failed", "unknown"}
  /\ pc[p] = "write" /\ Owner(p) =>
       /\ draft[p].status = "done" => Took(p)
       /\ draft[p].status = "failed" => market[p] # "sent"
       /\ draft[p].status = "failed" /\ "garbled" \notin Faults => market[p] \in {"refused", "void"}
  /\ pc[p] = "write" /\ job[p].kind = "protect" => draft[p].status = "done"

(* What the row of an id says while a request holds it or retries its OCO.   *)
Rows ==
  \A p \in Requests :
    /\ Holds(p) => record[job[p].id].status # "none"
    /\ Owner(p) => record[job[p].id].status = "in_progress"
    /\ market[p] = "sent" => record[job[p].id].status \in {"in_progress", "unknown"}
    /\ job[p].kind = "protect" /\ pc[p] \in {"protect", "ocowait", "write"}
         => /\ record[job[p].id].status = "done"
            /\ record[job[p].id].res.known = draft[p].res.known

OneHolder ==
  \A p, q \in Requests : Holds(p) /\ Holds(q) /\ job[p].id = job[q].id => p = q

Inv == TypeOK /\ (\A p \in Requests : Progress(p)) /\ Rows /\ OneHolder

USE DEF Points, Kinds

LEMMA InitInv == Init => Inv
BY IdsAssumption DEF Init, Inv, TypeOK, Progress, Rows, OneHolder, Holds, Owner, Sent,
   Record, Job, Result, NoRow, NoResult, Stages

(* The results that handlers write.                                          *)
LEMMA NoResultType == NoResult \in Result
BY DEF Result, NoResult, Stages

LEMMA BuyResult ==
  ASSUME NEW k \in BOOLEAN, NEW b \in BOOLEAN, NEW r,
         r = [NoResult EXCEPT !.known = k, !.planned = b]
  PROVE  r \in Result /\ r.prot = "none" /\ r.known = k /\ r.marks = {}
<1>1. r = [prot |-> "none", known |-> k, planned |-> b, marks |-> {}]
  BY DEF NoResult
<1>2. QED
  BY ONLY <1>1, k \in BOOLEAN, b \in BOOLEAN DEF Result, Stages

LEMMA OcoResult ==
  ASSUME NEW s \in Result, NEW x \in {"none", "placed", "failed", "skipped"}, NEW r,
         r = [s EXCEPT !.prot = x]
  PROVE  r \in Result /\ r.prot = x /\ r.known = s.known
BY DEF Result

(* A verdict changes one draft.                                              *)
LEMMA VerdictDraft ==
  ASSUME draft \in [Requests -> Record], NEW p \in Requests, NEW r \in Result,
         NEW v \in {"done", "failed", "unknown"}, Verdict(p, v, r)
  PROVE  /\ draft' \in [Requests -> Record]
         /\ draft'[p].status = v /\ draft'[p].res = r
         /\ \A q \in Requests \ {p} : draft'[q] = draft[q]
BY DEF Verdict, Record

(* An answer arrives only of a call that was made; "accepted" is said of an   *)
(* order that was taken, a sure refusal of one that was refused.             *)
LEMMA OutcomesTruth ==
  ASSUME NEW s, NEW o \in Outcomes(s)
  PROVE  /\ o = "accepted" => s \notin {"sent", "refused"}
         /\ o # "lost" => s # "sent"
         /\ o # "accepted" /\ o # "lost" /\ "garbled" \notin Faults => s = "refused"
<1>1. Faults \subseteq {"lost", "garbled"}
  BY FaultsAssumption
<1>2. CASE s = "sent"
  BY <1>1, <1>2 DEF Outcomes
<1>3. CASE s = "refused"
  BY <1>1, <1>3 DEF Outcomes
<1>4. CASE s \notin {"sent", "refused"}
  BY <1>1, <1>4 DEF Outcomes
<1>5. QED
  BY <1>2, <1>3, <1>4

---------------------------------------------------------------------------
(* Every action keeps Inv: one lemma per action, one step per part of Inv.    *)
(* The exchange changes orders only, so the rows of their holders decide.     *)

LEMMA TakeOrderInv ==
  ASSUME Inv, NEW p \in Requests, TakeOrder(p)
  PROVE  Inv'
<1> USE DEF TakeOrder, Becomes, Inv
<1>1. TypeOK'
  BY DEF TypeOK
<1>2. ASSUME NEW q \in Requests PROVE Progress(q)'
  BY DEF TypeOK, Progress, Owner, Sent, Took
<1>3. Rows'
  BY DEF TypeOK, Progress, Rows, Holds, Owner, Sent
<1>4. OneHolder'
  BY DEF TypeOK, Progress, OneHolder, Holds, Owner, Sent
<1>5. QED
  BY <1>1, <1>2, <1>3, <1>4

LEMMA RejectOrderInv ==
  ASSUME Inv, NEW p \in Requests, RejectOrder(p)
  PROVE  Inv'
<1> USE DEF RejectOrder, Becomes, Inv
<1>1. TypeOK'
  BY DEF TypeOK
<1>2. ASSUME NEW q \in Requests PROVE Progress(q)'
  BY DEF TypeOK, Progress, Owner, Sent, Took
<1>3. Rows'
  BY DEF TypeOK, Progress, Rows, Holds, Owner, Sent
<1>4. OneHolder'
  BY DEF TypeOK, Progress, OneHolder, Holds, Owner, Sent
<1>5. QED
  BY <1>1, <1>2, <1>3, <1>4

LEMMA ExecuteOrderInv ==
  ASSUME Inv, NEW p \in Requests, ExecuteOrder(p)
  PROVE  Inv'
<1> USE DEF ExecuteOrder, Becomes, Inv
<1>1. TypeOK'
  BY DEF TypeOK
<1>2. ASSUME NEW q \in Requests PROVE Progress(q)'
  BY DEF TypeOK, Progress, Owner, Sent, Took
<1>3. Rows'
  BY DEF TypeOK, Progress, Rows, Holds, Owner, Sent
<1>4. OneHolder'
  BY DEF TypeOK, Progress, OneHolder, Holds, Owner, Sent
<1>5. QED
  BY <1>1, <1>2, <1>3, <1>4

LEMMA VoidOrderInv ==
  ASSUME Inv, NEW p \in Requests, VoidOrder(p)
  PROVE  Inv'
<1> USE DEF VoidOrder, Becomes, Inv
<1>1. TypeOK'
  BY DEF TypeOK
<1>2. ASSUME NEW q \in Requests PROVE Progress(q)'
  BY DEF TypeOK, Progress, Owner, Sent, Took
<1>3. Rows'
  BY DEF TypeOK, Progress, Rows, Holds, Owner, Sent
<1>4. OneHolder'
  BY DEF TypeOK, Progress, OneHolder, Holds, Owner, Sent
<1>5. QED
  BY <1>1, <1>2, <1>3, <1>4

LEMMA RestOcoInv ==
  ASSUME Inv, NEW p \in Requests, RestOco(p)
  PROVE  Inv'
<1> USE DEF RestOco, Inv
<1>1. TypeOK'
  BY DEF TypeOK
<1>2. ASSUME NEW q \in Requests PROVE Progress(q)'
  BY DEF TypeOK, Progress, Owner, Sent, Took
<1>3. Rows'
  BY DEF TypeOK, Progress, Rows, Holds, Owner, Sent
<1>4. OneHolder'
  BY DEF TypeOK, Progress, OneHolder, Holds, Owner, Sent
<1>5. QED
  BY <1>1, <1>2, <1>3, <1>4

LEMMA RejectOcoInv ==
  ASSUME Inv, NEW p \in Requests, RejectOco(p)
  PROVE  Inv'
<1> USE DEF RejectOco, Inv
<1>1. TypeOK'
  BY DEF TypeOK
<1>2. ASSUME NEW q \in Requests PROVE Progress(q)'
  BY DEF TypeOK, Progress, Owner, Sent, Took
<1>3. Rows'
  BY DEF TypeOK, Progress, Rows, Holds, Owner, Sent
<1>4. OneHolder'
  BY DEF TypeOK, Progress, OneHolder, Holds, Owner, Sent
<1>5. QED
  BY <1>1, <1>2, <1>3, <1>4

LEMMA LeaveOcoInv ==
  ASSUME Inv, NEW p \in Requests, LeaveOco(p)
  PROVE  Inv'
<1> USE DEF LeaveOco, Inv
<1>1. TypeOK'
  BY DEF TypeOK
<1>2. ASSUME NEW q \in Requests PROVE Progress(q)'
  BY DEF TypeOK, Progress, Owner, Sent, Took
<1>3. Rows'
  BY DEF TypeOK, Progress, Rows, Holds, Owner, Sent
<1>4. OneHolder'
  BY DEF TypeOK, Progress, OneHolder, Holds, Owner, Sent
<1>5. QED
  BY <1>1, <1>2, <1>3, <1>4

(* A new request holds nothing, and steps before the claim change only pc.    *)
LEMMA ArriveInv ==
  ASSUME Inv, NEW p \in Requests, NEW k \in Kinds, NEW c \in Ids, Arrive(p, k, c)
  PROVE  Inv'
<1> USE DEF Arrive, Step, Inv
<1>1. TypeOK'
  BY DEF TypeOK, Job
<1>2. ASSUME NEW q \in Requests PROVE Progress(q)'
  BY DEF TypeOK, Job, Progress, Owner, Sent, Took
<1>3. Rows'
  BY DEF TypeOK, Job, Progress, Rows, Holds, Owner, Sent
<1>4. OneHolder'
  BY DEF TypeOK, Job, Progress, OneHolder, Holds, Owner, Sent
<1>5. QED
  BY <1>1, <1>2, <1>3, <1>4

LEMMA PlanPositionInv ==
  ASSUME Inv, NEW p \in Requests, PlanPosition(p)
  PROVE  Inv'
<1> USE DEF PlanPosition, Step, Inv
<1>1. TypeOK'
  BY DEF TypeOK
<1>2. ASSUME NEW q \in Requests PROVE Progress(q)'
  BY DEF TypeOK, Progress, Owner, Sent, Took
<1>3. Rows'
  BY DEF TypeOK, Progress, Rows, Holds, Owner, Sent
<1>4. OneHolder'
  BY DEF TypeOK, Progress, OneHolder, Holds, Owner, Sent
<1>5. QED
  BY <1>1, <1>2, <1>3, <1>4

LEMMA RefusePlanInv ==
  ASSUME Inv, NEW p \in Requests, RefusePlan(p)
  PROVE  Inv'
<1> USE DEF RefusePlan, Step, Answer, Inv
<1>1. TypeOK'
  BY DEF TypeOK
<1>2. ASSUME NEW q \in Requests PROVE Progress(q)'
  BY DEF TypeOK, Progress, Owner, Sent, Took
<1>3. Rows'
  BY DEF TypeOK, Progress, Rows, Holds, Owner, Sent
<1>4. OneHolder'
  BY DEF TypeOK, Progress, OneHolder, Holds, Owner, Sent
<1>5. QED
  BY <1>1, <1>2, <1>3, <1>4

(* The claim makes a holder: the row was free, so the id had none.            *)
LEMMA ClaimInv ==
  ASSUME Inv, NEW p \in Requests, Claim(p)
  PROVE  Inv'
<1> USE DEF Claim, Step, MayClaim, Inv
<1>1. TypeOK'
  BY NoResultType DEF TypeOK, Record
<1>2. ASSUME NEW q \in Requests PROVE Progress(q)'
  BY DEF TypeOK, Record, Progress, Owner, Sent, Took
<1>3. Rows'
  BY DEF TypeOK, Record, Progress, Rows, Holds, Owner, Sent
<1>4. OneHolder'
  BY DEF TypeOK, Record, Progress, Rows, OneHolder, Holds, Owner, Sent
<1>5. QED
  BY <1>1, <1>2, <1>3, <1>4

LEMMA ReplayInv ==
  ASSUME Inv, NEW p \in Requests, Replay(p)
  PROVE  Inv'
<1> USE DEF Replay, Step, Answer, Inv
<1>1. TypeOK'
  BY DEF TypeOK, ToldOf
<1>2. ASSUME NEW q \in Requests PROVE Progress(q)'
  BY DEF TypeOK, Progress, Owner, Sent, Took
<1>3. Rows'
  BY DEF TypeOK, Progress, Rows, Holds, Owner, Sent
<1>4. OneHolder'
  BY DEF TypeOK, Progress, OneHolder, Holds, Owner, Sent
<1>5. QED
  BY <1>1, <1>2, <1>3, <1>4

LEMMA SendOrderInv ==
  ASSUME Inv, NEW p \in Requests, SendOrder(p)
  PROVE  Inv'
<1> USE DEF SendOrder, Step, Inv
<1>1. TypeOK'
  BY DEF TypeOK
<1>2. ASSUME NEW q \in Requests PROVE Progress(q)'
  BY DEF TypeOK, Progress, Owner, Sent, Took
<1>3. Rows'
  BY DEF TypeOK, Progress, Rows, Holds, Owner, Sent
<1>4. OneHolder'
  BY DEF TypeOK, Progress, Rows, OneHolder, Holds, Owner, Sent
<1>5. QED
  BY <1>1, <1>2, <1>3, <1>4

(* The answer of the exchange decides the verdict (OutcomesTruth).            *)
LEMMA OrderAcceptedInv ==
  ASSUME Inv, NEW p \in Requests, OrderAccepted(p)
  PROVE  Inv'
<1>1. market[p] \in {"taken", "filled", "void"}
  <2>1. market[p] \in {"sent", "refused", "taken", "filled", "void"}
    BY DEF Inv, TypeOK, Progress, Sent, OrderAccepted, Step
  <2>2. QED
    BY <2>1, OutcomesTruth DEF OrderAccepted
<1> USE DEF OrderAccepted, Step, Inv
<1>2. TypeOK'
  BY DEF TypeOK
<1>3. ASSUME NEW q \in Requests PROVE Progress(q)'
  BY <1>1 DEF TypeOK, Progress, Owner, Sent, Took
<1>4. Rows'
  BY DEF TypeOK, Progress, Rows, Holds, Owner, Sent
<1>5. OneHolder'
  BY DEF TypeOK, Progress, OneHolder, Holds, Owner, Sent
<1>6. QED
  BY <1>2, <1>3, <1>4, <1>5

(* A quantity is read of an executed order only.                              *)
LEMMA FillDraft ==
  ASSUME Inv, NEW p \in Requests, FillPolled(p)
  PROVE  /\ draft' \in [Requests -> Record] /\ draft'[p].status = "done"
         /\ draft'[p].res.known => market[p] = "filled"
         /\ draft'[p].res.prot = "none"
         /\ draft'[p].res.marks = {}
         /\ \A q \in Requests \ {p} : draft'[q] = draft[q]
<1>1. PICK r \in Readings(market[p]) \ {"void"}, b \in BOOLEAN :
        Verdict(p, "done", [NoResult EXCEPT !.known = (r = "filled"), !.planned = b])
  BY Zenon DEF FillPolled
<1>2. PICK k \in BOOLEAN : k = (r = "filled")
  OBVIOUS
<1>3. PICK res : res = [NoResult EXCEPT !.known = k, !.planned = b]
  OBVIOUS
<1>4. res \in Result /\ res.prot = "none" /\ res.known = k /\ res.marks = {}
  BY <1>3, BuyResult, Zenon
<1>5. Verdict(p, "done", res)
  BY <1>1, <1>2, <1>3
<1>6. k => market[p] = "filled"
  BY <1>2 DEF Readings
<1>7. draft \in [Requests -> Record]
  BY DEF Inv, TypeOK
<1>8. QED
  BY <1>4, <1>5, <1>6, <1>7, VerdictDraft

LEMMA FillPolledInv ==
  ASSUME Inv, NEW p \in Requests, FillPolled(p)
  PROVE  Inv'
<1>1. /\ draft' \in [Requests -> Record] /\ draft'[p].status = "done"
      /\ draft'[p].res.known => market[p] = "filled"
      /\ \A q \in Requests \ {p} : draft'[q] = draft[q]
  BY FillDraft
<1> USE DEF FillPolled, Step, Inv
<1>2. TypeOK'
  BY <1>1 DEF TypeOK
<1>3. ASSUME NEW q \in Requests PROVE Progress(q)'
  BY <1>1 DEF TypeOK, Progress, Owner, Sent, Took
<1>4. Rows'
  BY <1>1 DEF TypeOK, Progress, Rows, Holds, Owner, Sent
<1>5. OneHolder'
  BY <1>1 DEF TypeOK, Progress, OneHolder, Holds, Owner, Sent
<1>6. QED
  BY <1>2, <1>3, <1>4, <1>5

LEMMA VoidPolledInv ==
  ASSUME Inv, NEW p \in Requests, VoidPolled(p)
  PROVE  Inv'
<1>1. /\ draft' \in [Requests -> Record] /\ draft'[p].status = "failed"
      /\ \A q \in Requests \ {p} : draft'[q] = draft[q]
  BY NoResultType, VerdictDraft DEF VoidPolled, Inv, TypeOK
<1>2. market[p] = "void"
  BY DEF VoidPolled, Readings
<1> USE DEF VoidPolled, Step, Inv
<1>3. TypeOK'
  BY <1>1 DEF TypeOK
<1>4. ASSUME NEW q \in Requests PROVE Progress(q)'
  BY <1>1, <1>2 DEF TypeOK, Progress, Owner, Sent, Took
<1>5. Rows'
  BY <1>1 DEF TypeOK, Progress, Rows, Holds, Owner, Sent
<1>6. OneHolder'
  BY <1>1 DEF TypeOK, Progress, OneHolder, Holds, Owner, Sent
<1>7. QED
  BY <1>3, <1>4, <1>5, <1>6

LEMMA OrderFailedInv ==
  ASSUME Inv, NEW p \in Requests, OrderFailed(p)
  PROVE  Inv'
<1>1. PICK o \in Outcomes(market[p]) \ {"accepted"} : Verdict(p, FailureVerdict(o), NoResult)
  BY DEF OrderFailed
<1>2. NoResult \in Result /\ FailureVerdict(o) \in {"done", "failed", "unknown"}
  BY NoResultType DEF FailureVerdict
<1>3. /\ draft' \in [Requests -> Record] /\ draft'[p].status = FailureVerdict(o)
      /\ \A q \in Requests \ {p} : draft'[q] = draft[q]
  BY <1>1, <1>2, VerdictDraft DEF Inv, TypeOK
<1>4. /\ FailureVerdict(o) # "done"
      /\ FailureVerdict(o) = "failed" => market[p] # "sent"
      /\ FailureVerdict(o) = "failed" /\ "garbled" \notin Faults => market[p] = "refused"
  <2>1. market[p] \in {"sent", "refused", "taken", "filled", "void"}
    BY DEF Inv, TypeOK, Progress, Sent, OrderFailed, Step
  <2>2. QED
    BY <2>1, OutcomesTruth DEF FailureVerdict
<1> USE DEF OrderFailed, Step, Inv
<1>5. TypeOK'
  BY <1>3 DEF TypeOK
<1>6. ASSUME NEW q \in Requests PROVE Progress(q)'
  BY <1>3, <1>2, <1>4 DEF TypeOK, Progress, Owner, Sent, Took
<1>7. Rows'
  BY <1>3 DEF TypeOK, Progress, Rows, Holds, Owner, Sent
<1>8. OneHolder'
  BY <1>3 DEF TypeOK, Progress, OneHolder, Holds, Owner, Sent
<1>9. QED
  BY <1>5, <1>6, <1>7, <1>8

LEMMA SkipOcoInv ==
  ASSUME Inv, NEW p \in Requests, SkipOco(p)
  PROVE  Inv'
<1>1. Verdict(p, "done", [draft[p].res EXCEPT !.prot = "skipped"])
  BY DEF SkipOco
<1>2. PICK r : r = [draft[p].res EXCEPT !.prot = "skipped"]
  OBVIOUS
<1>4. r \in Result /\ r.known = draft[p].res.known
  BY <1>2, OcoResult DEF Inv, TypeOK, Record
<1>3. /\ draft' \in [Requests -> Record] /\ draft'[p].status = "done"
      /\ draft'[p].res.known = draft[p].res.known
      /\ \A q \in Requests \ {p} : draft'[q] = draft[q]
  BY <1>1, <1>2, <1>4, VerdictDraft DEF Inv, TypeOK
<1> USE DEF SkipOco, Step, Inv
<1>5. TypeOK'
  BY <1>3 DEF TypeOK
<1>6. ASSUME NEW q \in Requests PROVE Progress(q)'
  BY <1>3 DEF TypeOK, Progress, Owner, Sent, Took
<1>7. Rows'
  BY <1>3 DEF TypeOK, Progress, Rows, Holds, Owner, Sent
<1>8. OneHolder'
  BY <1>3 DEF TypeOK, Progress, OneHolder, Holds, Owner, Sent
<1>9. QED
  BY <1>5, <1>6, <1>7, <1>8

LEMMA SendOcoInv ==
  ASSUME Inv, NEW p \in Requests, SendOco(p)
  PROVE  Inv'
<1> USE DEF SendOco, Step, Inv
<1>1. TypeOK'
  BY DEF TypeOK
<1>2. ASSUME NEW q \in Requests PROVE Progress(q)'
  BY DEF TypeOK, Progress, Owner, Sent, Took
<1>3. Rows'
  BY DEF TypeOK, Progress, Rows, Holds, Owner, Sent
<1>4. OneHolder'
  BY DEF TypeOK, Progress, OneHolder, Holds, Owner, Sent
<1>5. QED
  BY <1>1, <1>2, <1>3, <1>4

LEMMA OcoAnsweredInv ==
  ASSUME Inv, NEW p \in Requests, OcoAnswered(p)
  PROVE  Inv'
<1>1. PICK o \in Outcomes(oco[p]) :
        Verdict(p, "done", [draft[p].res EXCEPT !.prot = ProtectionOf(o)])
  BY DEF OcoAnswered
<1>2. PICK r : r = [draft[p].res EXCEPT !.prot = ProtectionOf(o)]
  OBVIOUS
<1>4. r \in Result /\ r.known = draft[p].res.known
  BY <1>2, OcoResult DEF Inv, TypeOK, Record, ProtectionOf
<1>3. /\ draft' \in [Requests -> Record] /\ draft'[p].status = "done"
      /\ draft'[p].res.known = draft[p].res.known
      /\ \A q \in Requests \ {p} : draft'[q] = draft[q]
  BY <1>1, <1>2, <1>4, VerdictDraft DEF Inv, TypeOK
<1> USE DEF OcoAnswered, Step, Inv
<1>5. TypeOK'
  BY <1>3 DEF TypeOK
<1>6. ASSUME NEW q \in Requests PROVE Progress(q)'
  BY <1>3 DEF TypeOK, Progress, Owner, Sent, Took
<1>7. Rows'
  BY <1>3 DEF TypeOK, Progress, Rows, Holds, Owner, Sent
<1>8. OneHolder'
  BY <1>3 DEF TypeOK, Progress, OneHolder, Holds, Owner, Sent
<1>9. QED
  BY <1>5, <1>6, <1>7, <1>8

(* A holder closes the row it alone holds; a retry leaves its row done.       *)
LEMMA FinishInv ==
  ASSUME Inv, NEW p \in Requests, Finish(p)
  PROVE  Inv'
<1> USE DEF Finish, Step, Inv
<1>1. TypeOK'
  BY DEF TypeOK, ToldOf
<1>2. ASSUME NEW q \in Requests PROVE Progress(q)'
  BY DEF TypeOK, Record, Progress, Owner, Sent, Took
<1>3. Rows'
  <2>1. /\ job[p].id \in Ids /\ pc[p] = "write" /\ (Owner(p) \/ job[p].kind = "protect")
        /\ draft[p].status \in {"done", "failed", "unknown"}
        /\ market[p] = "sent" => draft[p].status = "unknown"
    BY DEF Progress, Owner, Took, Sent
  <2>2. /\ record'[job[p].id] = draft[p]
        /\ \A c \in Ids : c # job[p].id => record'[c] = record[c]
    BY <2>1 DEF TypeOK
  <2>3. ASSUME NEW q \in Requests
        PROVE  /\ Holds(q)' => record'[job[q].id].status # "none"
               /\ Owner(q)' => record'[job[q].id].status = "in_progress"
               /\ market[q] = "sent" => record'[job[q].id].status \in {"in_progress", "unknown"}
               /\ job[q].kind = "protect" /\ pc'[q] \in {"protect", "ocowait", "write"}
                    => /\ record'[job[q].id].status = "done"
                       /\ record'[job[q].id].res.known = draft[q].res.known
    <3>1. CASE q = p
      BY <2>1, <2>2, <3>1 DEF TypeOK, Holds, Owner, Sent
    <3>2. CASE q # p /\ job[q].id = job[p].id
      <4>1. /\ job' = job /\ draft' = draft /\ market' = market /\ pc'[q] = pc[q]
            /\ record'[job[q].id] = draft[p]
        BY <2>2, <3>2 DEF TypeOK
      <4>2. Owner(p) => ~Holds(q)
        BY <3>2 DEF OneHolder, Holds
      <4>3. \/ Owner(p)
            \/ /\ draft[p].status = "done" /\ record[job[q].id].status = "done"
               /\ record[job[q].id].res.known = draft[p].res.known
        <5>1. CASE Owner(p)
          BY <5>1
        <5>2. CASE job[p].kind = "protect"
          <6>1. draft[p].status = "done"
            BY <2>1, <5>2 DEF Progress
          <6>2. /\ record[job[p].id].status = "done"
                /\ record[job[p].id].res.known = draft[p].res.known
            BY <2>1, <5>2 DEF Rows
          <6>3. QED
            BY <3>2, <6>1, <6>2
        <5>3. QED
          BY <2>1, <5>1, <5>2
      <4>4. ~Owner(q) /\ market[q] # "sent"
        BY <4>2, <4>3 DEF Rows, Holds, Sent
      <4>5. ASSUME job[q].kind = "protect", pc[q] \in {"protect", "ocowait", "write"}
            PROVE  draft[p].status = "done" /\ draft[p].res.known = draft[q].res.known
        <5>1. record[job[q].id].status = "done" /\ record[job[q].id].res.known = draft[q].res.known
          BY <4>5 DEF Rows
        <5>2. ~Owner(p)
          BY <3>2, <5>1 DEF Rows
        <5>3. QED
          BY <4>3, <5>1, <5>2
      <4>6. QED
        BY <2>1, <4>1, <4>4, <4>5 DEF Owner
    <3>3. CASE q # p /\ job[q].id # job[p].id
      <4>1. Holds(q) \/ pc[q] # "idle" => job[q].id \in Ids
        BY DEF Holds, Owner, Sent, Progress
      <4>2. pc'[q] = pc[q] /\ (Holds(q)' <=> Holds(q)) /\ (Owner(q)' <=> Owner(q))
        BY <3>3 DEF TypeOK, Holds, Owner, Sent
      <4>3. QED
        BY <2>2, <3>3, <4>1, <4>2 DEF Rows, Holds, Sent
    <3>4. QED
      BY <3>1, <3>2, <3>3
  <2>4. QED
    BY <2>3 DEF Rows
<1>4. OneHolder'
  BY DEF TypeOK, Record, Progress, OneHolder, Holds, Owner, Sent
<1>5. QED
  BY <1>1, <1>2, <1>3, <1>4

LEMMA StartProtectInv ==
  ASSUME Inv, NEW p \in Requests, StartProtect(p)
  PROVE  Inv'
<1> USE DEF StartProtect, Step, MayProtect, Inv
<1>1. TypeOK'
  BY DEF TypeOK
<1>2. ASSUME NEW q \in Requests PROVE Progress(q)'
  BY DEF TypeOK, Progress, Rows, Owner, Sent, Took
<1>3. Rows'
  BY DEF TypeOK, Progress, Rows, Holds, Owner, Sent
<1>4. OneHolder'
  BY DEF TypeOK, Progress, OneHolder, Holds, Owner, Sent
<1>5. QED
  BY <1>1, <1>2, <1>3, <1>4

LEMMA DeclineProtectInv ==
  ASSUME Inv, NEW p \in Requests, DeclineProtect(p)
  PROVE  Inv'
<1> USE DEF DeclineProtect, Step, Answer, Inv
<1>1. TypeOK'
  BY DEF TypeOK, ToldOf
<1>2. ASSUME NEW q \in Requests PROVE Progress(q)'
  BY DEF TypeOK, Progress, Owner, Sent, Took
<1>3. Rows'
  BY DEF TypeOK, Progress, Rows, Holds, Owner, Sent
<1>4. OneHolder'
  BY DEF TypeOK, Progress, OneHolder, Holds, Owner, Sent
<1>5. QED
  BY <1>1, <1>2, <1>3, <1>4

(* A handler that died holds its id only through an order it sent.            *)
LEMMA HandlerRaisesInv ==
  ASSUME Inv, NEW p \in Requests, HandlerRaises(p)
  PROVE  Inv'
<1> USE DEF HandlerRaises, Step, Inv
<1>1. TypeOK'
  BY DEF TypeOK
<1>2. ASSUME NEW q \in Requests PROVE Progress(q)'
  BY DEF TypeOK, Progress, Owner, Sent, Took
<1>3. Rows'
  BY DEF TypeOK, Progress, Rows, Holds, Owner, Sent
<1>4. OneHolder'
  BY DEF TypeOK, Progress, OneHolder, Holds, Owner, Sent
<1>5. QED
  BY <1>1, <1>2, <1>3, <1>4

LEMMA SellByHandInv ==
  ASSUME Inv, SellByHand
  PROVE  Inv'
BY DEF SellByHand, Inv, TypeOK, Progress, Rows, OneHolder, Holds, Owner, Sent, Took

LEMMA CrashInv ==
  ASSUME Inv, Crash
  PROVE  Inv'
<1> USE DEF Crash, Inv
<1>1. TypeOK'
  BY DEF TypeOK
<1>2. ASSUME NEW q \in Requests PROVE Progress(q)'
  BY DEF TypeOK, Progress, Owner, Sent, Took
<1>3. Rows'
  BY DEF TypeOK, Rows, Holds, Owner, Sent
<1>4. OneHolder'
  BY DEF TypeOK, OneHolder, Holds, Owner, Sent
<1>5. QED
  BY <1>1, <1>2, <1>3, <1>4

LEMMA NextInv ==
  ASSUME Inv, [Next]_vars
  PROVE  Inv'
<1>1. ASSUME NEW p \in Requests, NEW k \in Kinds, NEW c \in Ids, Arrive(p, k, c)
      PROVE  Inv'
  BY <1>1, ArriveInv
<1>2. ASSUME NEW p \in Requests, Handle(p)
      PROVE  Inv'
  BY <1>2, PlanPositionInv, RefusePlanInv, ClaimInv, ReplayInv, SendOrderInv,
     OrderAcceptedInv, OrderFailedInv, FillPolledInv, VoidPolledInv, SkipOcoInv, SendOcoInv, OcoAnsweredInv,
     FinishInv, StartProtectInv, DeclineProtectInv DEF Handle
<1>3. ASSUME NEW p \in Requests, Exchange(p)
      PROVE  Inv'
  BY <1>3, TakeOrderInv, RejectOrderInv, ExecuteOrderInv, VoidOrderInv, RestOcoInv,
     RejectOcoInv, LeaveOcoInv DEF Exchange
<1>4. ASSUME UNCHANGED vars
      PROVE  Inv'
  BY <1>4 DEF vars, Inv, TypeOK, Progress, Rows, OneHolder, Holds, Owner, Sent, Took
<1>5. QED
  BY <1>1, <1>2, <1>3, <1>4, HandlerRaisesInv, SellByHandInv, CrashInv DEF Next

LEMMA Invariance == Spec => []Inv
BY InitInv, NextInv, PTL DEF Spec

(* The state keeps its types.                                                *)
THEOREM TypeCorrect == Spec => []TypeOK
<1>1. Inv => TypeOK
  BY DEF Inv
<1>2. QED
  BY <1>1, Invariance, PTL

(* At most one request per id ever sends a market order.                     *)
THEOREM OneOrder == Spec => []AtMostOneOrder
<1>1. Inv => AtMostOneOrder
  BY DEF Inv, OneHolder, Holds, Sent, AtMostOneOrder
<1>2. QED
  BY <1>1, Invariance, PTL

---------------------------------------------------------------------------
(* The rows tell the truth about the exchange.                               *)

(* Every step is one of these, or changes no row, no request and no order.    *)
LEMMA Steps ==
  ASSUME [Next]_vars
  PROVE  \/ \E p \in Requests, k \in Kinds, c \in Ids : Arrive(p, k, c)
         \/ \E p \in Requests : Claim(p) \/ SendOrder(p) \/ Finish(p)
         \/ \E p \in Requests : TakeOrder(p) \/ RejectOrder(p) \/ ExecuteOrder(p) \/ VoidOrder(p)
         \/ UNCHANGED <<record, job, market>>
<1>1. ASSUME NEW p \in Requests, Handle(p)
      PROVE  Claim(p) \/ SendOrder(p) \/ Finish(p) \/ UNCHANGED <<record, job, market>>
  <2>1. CASE PlanPosition(p) \/ RefusePlan(p) \/ Replay(p) \/ OrderAccepted(p)
    BY <2>1 DEF PlanPosition, RefusePlan, Replay, OrderAccepted, Answer
  <2>2. CASE FillPolled(p)
    BY <2>2 DEF FillPolled
  <2>3. CASE VoidPolled(p)
    BY <2>3 DEF VoidPolled
  <2>4. CASE OrderFailed(p)
    BY <2>4 DEF OrderFailed
  <2>5. CASE SkipOco(p)
    BY <2>5 DEF SkipOco
  <2>6. CASE OcoAnswered(p)
    BY <2>6 DEF OcoAnswered
  <2>7. CASE SendOco(p) \/ StartProtect(p) \/ DeclineProtect(p)
    BY <2>7 DEF SendOco, StartProtect, DeclineProtect, Answer
  <2>8. QED
    BY <1>1, <2>1, <2>2, <2>3, <2>4, <2>5, <2>6, <2>7 DEF Handle
<1>2. ASSUME NEW p \in Requests, Exchange(p)
      PROVE  \/ TakeOrder(p) \/ RejectOrder(p) \/ ExecuteOrder(p) \/ VoidOrder(p)
             \/ UNCHANGED <<record, job, market>>
  BY <1>2 DEF Exchange, RestOco, RejectOco, LeaveOco
<1>3. ASSUME SellByHand \/ Crash \/ (\E p \in Requests : HandlerRaises(p)) \/ UNCHANGED vars
      PROVE  UNCHANGED <<record, job, market>>
  BY <1>3 DEF SellByHand, Crash, HandlerRaises, vars
<1>4. QED
  BY <1>1, <1>2, <1>3 DEF Next

(* What a step does to the order of one request, which keeps its id.           *)
LEMMA OrderSteps ==
  ASSUME Inv, [Next]_vars, NEW p \in Requests
  PROVE  /\ market'[p] # "unsent" => job'[p] = job[p]
         /\ \/ market'[p] = market[p] \/ SendOrder(p) \/ TakeOrder(p) \/ RejectOrder(p)
            \/ ExecuteOrder(p) \/ VoidOrder(p)
<1> USE DEF Inv, TypeOK
<1>1. CASE \E q \in Requests, k \in Kinds, d \in Ids : Arrive(q, k, d)
  BY <1>1 DEF Arrive, Step, Progress, Sent
<1>2. CASE \E q \in Requests : Claim(q) \/ Finish(q)
  BY <1>2 DEF Claim, Finish
<1>3. CASE \E q \in Requests : SendOrder(q)
  BY <1>3 DEF SendOrder
<1>4. CASE \E q \in Requests : TakeOrder(q) \/ RejectOrder(q)
  BY <1>4 DEF TakeOrder, RejectOrder, Becomes
<1>5. CASE \E q \in Requests : ExecuteOrder(q) \/ VoidOrder(q)
  BY <1>5 DEF ExecuteOrder, VoidOrder, Becomes
<1>6. CASE UNCHANGED <<record, job, market>>
  BY <1>6
<1>7. QED
  BY <1>1, <1>2, <1>3, <1>4, <1>5, <1>6, Steps

(* Which ids have an order in a state is decided by the orders alone.          *)
LEMMA OrderSets ==
  ASSUME Inv, [Next]_vars, NEW c \in Ids, NEW S \in SUBSET {"taken", "filled", "void"}
  PROVE  OrderIs(c, S)' <=> \E p \in Requests : job[p].id = c /\ market'[p] \in S
<1>1. ASSUME NEW p \in Requests, market'[p] \in S PROVE job'[p] = job[p]
  BY <1>1, OrderSteps
<1>2. QED
  BY <1>1 DEF OrderIs

LEMMA OrdersStay ==
  ASSUME Inv, [Next]_vars, NEW c \in Ids
  PROVE  /\ Taken(c) => Taken(c)'
         /\ Executed(c) => Executed(c)'
<1>1. ASSUME NEW p \in Requests
      PROVE  /\ market[p] \in {"taken", "filled", "void"} => market'[p] \in {"taken", "filled", "void"}
             /\ market[p] = "filled" => market'[p] = "filled"
  <2>1. CASE market'[p] = market[p]
    BY <2>1
  <2>2. CASE SendOrder(p)
    BY <2>2 DEF SendOrder, Step, Inv, Progress, Sent
  <2>3. CASE TakeOrder(p) \/ RejectOrder(p)
    BY <2>3 DEF TakeOrder, RejectOrder, Becomes
  <2>4. CASE ExecuteOrder(p) \/ VoidOrder(p)
    BY <2>4 DEF ExecuteOrder, VoidOrder, Becomes, Inv, TypeOK
  <2>5. QED
    BY <2>1, <2>2, <2>3, <2>4, OrderSteps
<1>2. Taken(c) => Taken(c)'
  <2>1. Taken(c)' <=> \E p \in Requests : job[p].id = c /\ market'[p] \in {"taken", "filled", "void"}
    BY OrderSets DEF Taken
  <2>2. QED
    BY <1>1, <2>1 DEF Taken, OrderIs
<1>3. Executed(c) => Executed(c)'
  <2>1. Executed(c)' <=> \E p \in Requests : job[p].id = c /\ market'[p] \in {"filled"}
    BY OrderSets DEF Executed
  <2>2. QED
    BY <1>1, <2>1 DEF Executed, OrderIs
<1>4. QED
  BY <1>2, <1>3

(* What a row says of its order moves from none to in_progress, and from       *)
(* in_progress to a verdict of its holder; the retry of an OCO leaves it.       *)
LEMMA StatusChange ==
  ASSUME Inv, [Next]_vars, NEW c \in Ids, StatusOf(record'[c]) # StatusOf(record[c])
  PROVE  \E p \in Requests :
           /\ job[p].id = c
           /\ \/ Claim(p) /\ record[c].status = "none" /\ record'[c].status = "in_progress"
              \/ Finish(p) /\ Owner(p) /\ record[c].status = "in_progress"
                 /\ record'[c] = draft[p]
<1> USE DEF Inv, TypeOK
<1>1. CASE \E p \in Requests, k \in Kinds, d \in Ids : Arrive(p, k, d)
  BY <1>1 DEF Arrive
<1>2. CASE \E p \in Requests : SendOrder(p)
  BY <1>2 DEF SendOrder
<1>3. CASE \E p \in Requests : Claim(p)
  <2>1. PICK p \in Requests : Claim(p)
    BY <1>3
  <2>2. /\ job[p].id \in Ids /\ record[job[p].id].status = "none"
        /\ record' = [record EXCEPT ![job[p].id] = [status |-> "in_progress", res |-> NoResult]]
    BY <2>1 DEF Claim, Step, MayClaim, Progress
  <2>3. job[p].id = c /\ record'[c].status = "in_progress"
    BY <2>2
  <2>4. QED
    BY <2>1, <2>2, <2>3
<1>4. CASE \E p \in Requests : Finish(p)
  <2>1. PICK p \in Requests : Finish(p)
    BY <1>4
  <2>2. job[p].id \in Ids /\ pc[p] = "write" /\ record' = [record EXCEPT ![job[p].id] = draft[p]]
    BY <2>1 DEF Finish, Step, Progress
  <2>3. job[p].id = c /\ record'[c] = draft[p]
    BY <2>2
  <2>4. job[p].kind # "protect"
    <3>1. SUFFICES ASSUME job[p].kind = "protect" PROVE FALSE
      OBVIOUS
    <3>2. draft[p].status = "done"
      BY <2>2, <3>1 DEF Progress
    <3>3. record[c].status = "done" /\ record[c].res.known = draft[p].res.known
      BY <2>2, <2>3, <3>1 DEF Rows
    <3>4. QED
      BY <2>3, <3>2, <3>3 DEF StatusOf
  <2>5. Owner(p)
    BY <2>2, <2>4 DEF Progress, Owner
  <2>6. QED
    BY <2>1, <2>3, <2>5 DEF Rows
<1>5. CASE \E p \in Requests : TakeOrder(p) \/ RejectOrder(p) \/ ExecuteOrder(p) \/ VoidOrder(p)
  BY <1>5 DEF TakeOrder, RejectOrder, ExecuteOrder, VoidOrder
<1>6. CASE UNCHANGED <<record, job, market>>
  BY <1>6
<1>7. QED
  BY <1>1, <1>2, <1>3, <1>4, <1>5, <1>6, Steps

(* "done" is recorded only of an order that the exchange has taken, and with a *)
(* quantity only of one that has executed; "failed", when every error is        *)
(* classified, only of an order that will never execute.                       *)
Evidence ==
  \A c \in Ids :
    /\ record[c].status = "done" => Taken(c)
    /\ record[c].status = "done" /\ record[c].res.known => Executed(c)
    /\ record[c].status = "failed" /\ "garbled" \notin Faults => ~MayBuy(c)

LEMMA InitEvidence == Init => Evidence
BY DEF Init, Evidence, NoRow

(* What StatusOf tells of the row.                                            *)
LEMMA StatusWords ==
  ASSUME NEW r \in Record
  PROVE  /\ StatusOf(r) = "bought"   <=> r.status = "done" /\ r.res.known
         /\ StatusOf(r) = "accepted" <=> r.status = "done" /\ ~r.res.known
         /\ \A s \in {"none", "in_progress", "failed", "unknown"} : StatusOf(r) = s <=> r.status = s
         /\ StatusOf(r) \in {"none", "in_progress", "bought", "accepted", "failed", "unknown"}
BY DEF StatusOf, Record, Result

LEMMA NextEvidence ==
  ASSUME Inv, Inv', Evidence, [Next]_vars
  PROVE  Evidence'
<1>1. SUFFICES ASSUME NEW c \in Ids
               PROVE  /\ record'[c].status = "done" => Taken(c)'
                      /\ record'[c].status = "done" /\ record'[c].res.known => Executed(c)'
                      /\ record'[c].status = "failed" /\ "garbled" \notin Faults => ~MayBuy(c)'
  BY DEF Evidence
<1>2. record[c] \in Record /\ record'[c] \in Record
  BY DEF Inv, TypeOK
<1>3. ASSUME record'[c].status = "done"
      PROVE  Taken(c)' /\ (record'[c].res.known => Executed(c)')
  <2>1. CASE StatusOf(record'[c]) = StatusOf(record[c])
    <3>1. record[c].status = "done" /\ (record'[c].res.known => record[c].res.known)
      BY <1>2, <1>3, <2>1, StatusWords
    <3>2. QED
      BY <3>1, OrdersStay DEF Evidence
  <2>2. CASE StatusOf(record'[c]) # StatusOf(record[c])
    <3>1. PICK p \in Requests : job[p].id = c /\ Finish(p) /\ Owner(p) /\ record'[c] = draft[p]
      BY <1>3, <2>2, StatusChange
    <3>2. Took(p)
      BY <1>3, <3>1 DEF Finish, Step, Inv, Progress
    <3>3. Taken(c) /\ (record'[c].res.known => Executed(c))
      BY <3>1, <3>2 DEF Took, Taken, Executed, OrderIs
    <3>4. QED
      BY <3>3, OrdersStay
  <2>3. QED
    BY <2>1, <2>2
<1>4. ASSUME record'[c].status = "failed", "garbled" \notin Faults,
             NEW q \in Requests, job'[q].id = c, market'[q] \in {"sent", "taken", "filled"}
      PROVE  FALSE
  <2>1. market'[q] \in {"taken", "filled"}
    BY <1>4 DEF Inv, Rows
  <2>2. job[q].id = c
    BY <1>4, <2>1, OrderSteps
  <2>3. market[q] \in {"sent", "taken", "filled"}
    <3>1. ~SendOrder(q) /\ ~RejectOrder(q) /\ ~VoidOrder(q)
      BY <2>1 DEF SendOrder, RejectOrder, VoidOrder, Becomes, Inv, TypeOK
    <3>2. TakeOrder(q) \/ ExecuteOrder(q) => market[q] \in {"sent", "taken"}
      BY DEF TakeOrder, ExecuteOrder, Becomes
    <3>3. QED
      BY <2>1, <3>1, <3>2, OrderSteps
  <2>4. CASE record[c].status = "failed"
    BY <1>4, <2>2, <2>3, <2>4 DEF Evidence, MayBuy, OrderIs
  <2>5. CASE record[c].status # "failed"
    <3>1. PICK r \in Requests : job[r].id = c /\ Finish(r) /\ Owner(r) /\ record'[c] = draft[r]
      BY <1>2, <1>4, <2>5, StatusChange, StatusWords
    <3>2. market[r] \in {"refused", "void"}
      BY <1>4, <3>1 DEF Finish, Step, Inv, Progress
    <3>3. r = q
      BY <2>2, <2>3, <3>1 DEF Inv, OneHolder, Holds, Sent
    <3>4. QED
      BY <2>3, <3>2, <3>3
  <2>6. QED
    BY <2>4, <2>5
<1>5. QED
  BY <1>3, <1>4 DEF MayBuy, OrderIs

LEMMA RowsTellTheTruth == Spec => []Evidence
BY InitEvidence, NextEvidence, Invariance, PTL DEF Spec

---------------------------------------------------------------------------
(* The answers tell what the rows say, and those rows do not change.          *)
Answers ==
  \A p \in Requests :
    /\ told[p] # "nothing" => pc[p] # "idle"
    /\ told[p] = "bought"  => StatusOf(record[job[p].id]) = "bought"
    /\ told[p] = "taken"   => StatusOf(record[job[p].id]) = "accepted"
    /\ told[p] = "refused" => StatusOf(record[job[p].id]) = "failed"

LEMMA InitAnswers == Init => Answers
BY DEF Init, Answers

(* An answer that is built from a row says what the row does.                 *)
LEMMA ToldWords ==
  ASSUME NEW r \in Record
  PROVE  /\ ToldOf(r) # "nothing"
         /\ ToldOf(r) = "bought"  => StatusOf(r) = "bought"
         /\ ToldOf(r) = "taken"   => StatusOf(r) = "accepted"
         /\ ToldOf(r) = "refused" => StatusOf(r) = "failed"
BY DEF ToldOf, StatusOf, Record

(* Every answer is given by one of these.                                    *)
LEMMA AnswerSteps ==
  ASSUME Inv, [Next]_vars, NEW p \in Requests
  PROVE  \/ Replay(p) \/ Finish(p) \/ RefusePlan(p) \/ DeclineProtect(p)
         \/ told'[p] = told[p] /\ (pc[p] # "idle" => pc'[p] # "idle")
<1> USE DEF Inv, TypeOK
<1> DEFINE Silent == told'[p] = told[p] /\ (pc[p] # "idle" => pc'[p] # "idle")
<1>1. ASSUME NEW q \in Requests, Handle(q)
      PROVE  Replay(p) \/ Finish(p) \/ RefusePlan(p) \/ DeclineProtect(p) \/ Silent
  <2>1. CASE PlanPosition(q) \/ Claim(q) \/ SendOrder(q)
    BY <2>1 DEF PlanPosition, Claim, SendOrder, Step
  <2>2. CASE OrderAccepted(q) \/ SendOco(q) \/ StartProtect(q)
    BY <2>2 DEF OrderAccepted, SendOco, StartProtect, Step
  <2>3. CASE FillPolled(q)
    BY <2>3 DEF FillPolled, Step
  <2>4. CASE VoidPolled(q)
    BY <2>4 DEF VoidPolled, Step
  <2>5. CASE OrderFailed(q)
    BY <2>5 DEF OrderFailed, Step
  <2>6. CASE SkipOco(q)
    BY <2>6 DEF SkipOco, Step
  <2>7. CASE OcoAnswered(q)
    BY <2>7 DEF OcoAnswered, Step
  <2>8. CASE Replay(q)
    BY <2>8 DEF Replay, Answer, Step
  <2>9. CASE RefusePlan(q) \/ DeclineProtect(q)
    BY <2>9 DEF RefusePlan, DeclineProtect, Answer, Step
  <2>10. CASE Finish(q)
    BY <2>10 DEF Finish, Step
  <2>11. QED
    BY <1>1, <2>1, <2>2, <2>3, <2>4, <2>5, <2>6, <2>7, <2>8, <2>9, <2>10 DEF Handle
<1>2. ASSUME NEW q \in Requests, Exchange(q) \/ HandlerRaises(q) PROVE Silent
  BY <1>2 DEF Exchange, TakeOrder, RejectOrder, ExecuteOrder, VoidOrder, RestOco, RejectOco,
     LeaveOco, HandlerRaises, Step
<1>3. ASSUME NEW q \in Requests, NEW k \in Kinds, NEW c \in Ids, Arrive(q, k, c) PROVE Silent
  BY <1>3 DEF Arrive, Step
<1>4. ASSUME SellByHand \/ Crash \/ UNCHANGED vars PROVE Silent
  BY <1>4 DEF SellByHand, Crash, vars
<1>5. QED
  BY <1>1, <1>2, <1>3, <1>4 DEF Next

(* A request that arrived keeps its id.                                       *)
LEMMA JobKept ==
  ASSUME Inv, [Next]_vars, NEW p \in Requests, pc[p] # "idle"
  PROVE  job'[p] = job[p] /\ job[p].id \in Ids
<1> USE DEF Inv, TypeOK
<1>1. job'[p] = job[p]
  <2>1. CASE \E q \in Requests, k \in Kinds, d \in Ids : Arrive(q, k, d)
    BY <2>1 DEF Arrive, Step
  <2>2. CASE ~ \E q \in Requests, k \in Kinds, d \in Ids : Arrive(q, k, d)
    BY <2>2, Steps DEF Claim, SendOrder, Finish, TakeOrder, RejectOrder, ExecuteOrder, VoidOrder
  <2>3. QED
    BY <2>1, <2>2
<1>2. QED
  BY <1>1

LEMMA NextAnswers ==
  ASSUME Inv, Inv', Answers, [Next]_vars
  PROVE  Answers'
<1>1. SUFFICES ASSUME NEW p \in Requests
               PROVE  /\ told'[p] # "nothing" => pc'[p] # "idle"
                      /\ told'[p] = "bought"  => StatusOf(record'[job'[p].id]) = "bought"
                      /\ told'[p] = "taken"   => StatusOf(record'[job'[p].id]) = "accepted"
                      /\ told'[p] = "refused" => StatusOf(record'[job'[p].id]) = "failed"
  BY DEF Answers, StatusOf
<1> USE DEF Inv, TypeOK
<1>2. CASE told'[p] = told[p] /\ (pc[p] # "idle" => pc'[p] # "idle")
  <2>1. CASE told[p] = "nothing"
    BY <1>2, <2>1
  <2>2. CASE told[p] # "nothing"
    <3>1. PICK c \in Ids : job'[p].id = c /\ job[p].id = c
      BY <2>2, JobKept DEF Answers
    <3>2. StatusOf(record[c]) \in {"bought", "accepted", "failed"}
            => StatusOf(record'[c]) = StatusOf(record[c])
      BY StatusChange, StatusWords
    <3>3. QED
      BY <1>2, <2>2, <3>1, <3>2 DEF Answers
  <2>3. QED
    BY <2>1, <2>2
<1>3. CASE Replay(p)
  <2>1. /\ pc[p] # "idle" /\ pc'[p] = "end" /\ record' = record /\ job' = job
        /\ told'[p] = ToldOf(record[job[p].id])
    BY <1>3 DEF Replay, Answer, Step
  <2>2. record[job[p].id] \in Record
    BY <2>1
  <2>3. QED
    BY <2>1, <2>2, ToldWords
<1>4. CASE Finish(p)
  <2>1. job[p].id \in Ids /\ job' = job /\ record' = [record EXCEPT ![job[p].id] = draft[p]]
        /\ told' = [told EXCEPT ![p] = ToldOf(draft[p])] /\ pc' = [pc EXCEPT ![p] = "end"]
    BY <1>4 DEF Finish, Step, Progress
  <2>2. record'[job'[p].id] = draft[p] /\ told'[p] = ToldOf(draft[p]) /\ pc'[p] = "end"
    BY <2>1
  <2>3. QED
    BY <2>2, ToldWords
<1>5. CASE RefusePlan(p)
  BY <1>5 DEF RefusePlan, Answer, Step
<1>6. CASE DeclineProtect(p)
  <2>1. /\ pc[p] # "idle" /\ pc'[p] = "end" /\ record' = record /\ job' = job
        /\ told'[p] \in {ToldOf(record[job[p].id]), "invalid"}
    BY <1>6 DEF DeclineProtect, Answer, Step
  <2>2. record[job[p].id] \in Record
    BY <2>1
  <2>3. QED
    BY <2>1, <2>2, ToldWords
<1>7. QED
  BY <1>2, <1>3, <1>4, <1>5, <1>6, AnswerSteps

LEMMA AnswersAreTrue ==
  ASSUME "garbled" \notin Faults, Inv, Answers, Evidence
  PROVE  ToldTruth
<1>1. SUFFICES ASSUME NEW p \in Requests, told[p] # "nothing"
               PROVE  /\ told[p] = "bought"  => Executed(job[p].id)
                      /\ told[p] = "taken"   => Taken(job[p].id)
                      /\ told[p] = "refused" => ~MayBuy(job[p].id)
  BY DEF ToldTruth
<1>2. job[p].id \in Ids /\ record[job[p].id] \in Record
  BY <1>1 DEF Inv, TypeOK, Answers
<1>3. QED
  BY <1>1, <1>2, StatusWords DEF Answers, Evidence

(* Whatever answers get lost or polls read nothing: ok with a quantity is said *)
(* of an executed order, ok without one of an order the exchange has taken,     *)
(* and, when every error is classified, a refusal of one that never executes.  *)
THEOREM Told ==
  ASSUME "garbled" \notin Faults
  PROVE  Spec => []ToldTruth
<1>1. Spec => []Answers
  BY InitAnswers, NextAnswers, Invariance, PTL DEF Spec
<1>2. Inv /\ Answers /\ Evidence => ToldTruth
  BY AnswersAreTrue
<1>3. QED
  BY <1>1, <1>2, Invariance, RowsTellTheTruth, PTL

(* "failed" is then a certain failure, as order_requests.py says.             *)
THEOREM FailureCertain ==
  ASSUME "garbled" \notin Faults
  PROVE  Spec => []FailedIsCertain
<1>1. Evidence => FailedIsCertain
  BY DEF Evidence, FailedIsCertain
<1>2. QED
  BY <1>1, RowsTellTheTruth, PTL

---------------------------------------------------------------------------
(* A row, and a result a handler is going to write, say "placed" only of a     *)
(* position with an accepted OCO.                                            *)
Accepted(c) ==
  \E p \in Requests : job[p].id = c /\ oco[p] \in {"resting", "sold", "cancelled"}

Placed ==
  /\ \A c \in Ids : record[c].res.prot = "placed" => Accepted(c)
  /\ \A p \in Requests :
       /\ draft[p].res.prot = "placed" => pc[p] # "idle" /\ Accepted(job[p].id)
       /\ oco[p] # "unsent" => pc[p] \in {"ocowait", "write", "end", "dead"}
       /\ pc[p] = "ocowait" => oco[p] # "unsent"

LEMMA InitPlaced == Init => Placed
BY DEF Init, Placed, NoRow, NoResult

(* An accepted OCO stays accepted, and a request keeps its id.                *)
LEMMA AcceptedStays ==
  ASSUME Inv, Placed, [Next]_vars
  PROVE  /\ \A c \in Ids : Accepted(c) => Accepted(c)'
         /\ \A p \in Requests : pc[p] # "idle" => pc'[p] # "idle" /\ job'[p] = job[p]
         /\ \A p \in Requests :
              /\ oco'[p] # "unsent" => pc'[p] \in {"ocowait", "write", "end", "dead"}
              /\ pc'[p] = "ocowait" => oco'[p] # "unsent"
<1> USE DEF Inv, TypeOK, Placed
<1>1. ASSUME NEW p \in Requests, NEW k \in Kinds, NEW c \in Ids, Arrive(p, k, c)
      PROVE  /\ oco' = oco
             /\ \A q \in Requests : 
                  pc'[q] = pc[q] \/ (q = p /\ pc[p] = "idle" /\ pc'[p] \in {"look", "claim"})
             /\ \A q \in Requests : pc[q] # "idle" => job'[q] = job[q]
  BY <1>1 DEF Arrive, Step
<1>2. ASSUME NEW p \in Requests, Handle(p)
      PROVE  /\ job' = job
             /\ \A q \in Requests : q # p => pc'[q] = pc[q] /\ oco'[q] = oco[q]
             /\ pc[p] # "idle" /\ pc'[p] # "idle"
             /\ \/ oco'[p] = oco[p] /\ pc'[p] # "ocowait" /\ pc[p] \notin {"end", "dead"}
                   /\ (pc[p] \in {"ocowait", "write"} => pc'[p] \in {"write", "end"})
                \/ oco'[p] = "sent" /\ pc[p] = "protect" /\ pc'[p] = "ocowait"
  <2>1. CASE SendOco(p)
    BY <2>1 DEF SendOco, Step
  <2>2. CASE PlanPosition(p) \/ RefusePlan(p) \/ Claim(p) \/ Replay(p) \/ SendOrder(p)
    BY <2>2 DEF PlanPosition, RefusePlan, Claim, Replay, SendOrder, Step, Answer
  <2>3. CASE OrderAccepted(p) \/ OrderFailed(p)
    BY <2>3 DEF OrderAccepted, OrderFailed, Step
  <2>6. CASE FillPolled(p)
    BY <2>6 DEF FillPolled, Step
  <2>7. CASE VoidPolled(p)
    BY <2>7 DEF VoidPolled, Step
  <2>8. CASE SkipOco(p) \/ OcoAnswered(p)
    BY <2>8 DEF SkipOco, OcoAnswered, Step
  <2>4. CASE Finish(p) \/ StartProtect(p) \/ DeclineProtect(p)
    BY <2>4 DEF Finish, StartProtect, DeclineProtect, Step, Answer
  <2>5. QED
    BY <1>2, <2>1, <2>2, <2>3, <2>4, <2>6, <2>7, <2>8 DEF Handle
<1>3. ASSUME NEW p \in Requests, Exchange(p)
      PROVE  /\ UNCHANGED <<pc, job>>
             /\ \A q \in Requests :
                  /\ oco'[q] # "unsent" <=> oco[q] # "unsent"
                  /\ oco[q] \in {"resting", "sold", "cancelled"} =>
                       oco'[q] \in {"resting", "sold", "cancelled"}
  BY <1>3 DEF Exchange, TakeOrder, RejectOrder, ExecuteOrder, VoidOrder, RestOco, RejectOco, LeaveOco
<1>4. ASSUME SellByHand \/ Crash \/ (\E p \in Requests : HandlerRaises(p)) \/ UNCHANGED vars
      PROVE  /\ UNCHANGED <<job, oco>>
             /\ \A q \in Requests : pc'[q] = pc[q] \/ pc'[q] = "dead"
  BY <1>4 DEF SellByHand, Crash, HandlerRaises, Step, vars
<1>5. /\ \A p \in Requests : pc[p] # "idle" => pc'[p] # "idle" /\ job'[p] = job[p]
      /\ \A p \in Requests : oco[p] \in {"resting", "sold", "cancelled"} =>
           oco'[p] \in {"resting", "sold", "cancelled"}
  BY <1>1, <1>2, <1>3, <1>4 DEF Next
<1>6. ASSUME NEW p \in Requests
      PROVE  /\ oco'[p] # "unsent" => pc'[p] \in {"ocowait", "write", "end", "dead"}
             /\ pc'[p] = "ocowait" => oco'[p] # "unsent"
  BY <1>1, <1>2, <1>3, <1>4 DEF Next
<1>7. \A c \in Ids : Accepted(c) => Accepted(c)'
  BY <1>5 DEF Accepted
<1>8. QED
  BY <1>5, <1>6, <1>7

(* Results change where the protection is decided, or a row is read.          *)
LEMMA DraftChange ==
  ASSUME Inv, [Next]_vars, NEW p \in Requests, draft'[p] # draft[p]
  PROVE  \/ FillPolled(p) \/ VoidPolled(p) \/ OrderFailed(p)
         \/ SkipOco(p) \/ OcoAnswered(p) \/ StartProtect(p)
<1> USE DEF Inv, TypeOK
<1> DEFINE Goal == \/ FillPolled(p) \/ VoidPolled(p) \/ OrderFailed(p)
                   \/ SkipOco(p) \/ OcoAnswered(p) \/ StartProtect(p)
<1>1. ASSUME NEW q \in Requests, Handle(q) PROVE Goal
  <2>1. CASE PlanPosition(q) \/ RefusePlan(q) \/ Claim(q) \/ Replay(q) \/ SendOrder(q)
    BY <2>1 DEF PlanPosition, RefusePlan, Claim, Replay, SendOrder, Answer
  <2>2. CASE OrderAccepted(q) \/ SendOco(q) \/ Finish(q) \/ DeclineProtect(q)
    BY <2>2 DEF OrderAccepted, SendOco, Finish, DeclineProtect, Answer
  <2>3. CASE FillPolled(q)
    <3>1. q # p => draft'[p] = draft[p]
      BY <2>3, FillDraft
    <3>2. QED
      BY <2>3, <3>1
  <2>4. CASE VoidPolled(q)
    BY <2>4 DEF VoidPolled, Verdict
  <2>5. CASE OrderFailed(q)
    BY <2>5 DEF OrderFailed, Verdict
  <2>6. CASE SkipOco(q) \/ OcoAnswered(q)
    BY <2>6 DEF SkipOco, OcoAnswered, Verdict
  <2>7. CASE StartProtect(q)
    BY <2>7 DEF StartProtect
  <2>8. QED
    BY <1>1, <2>1, <2>2, <2>3, <2>4, <2>5, <2>6, <2>7 DEF Handle
<1>2. ASSUME NEW q \in Requests, Exchange(q) PROVE draft' = draft
  BY <1>2 DEF Exchange, TakeOrder, RejectOrder, ExecuteOrder, VoidOrder, RestOco, RejectOco, LeaveOco
<1>3. ASSUME \/ \E q \in Requests, k \in Kinds, c \in Ids : Arrive(q, k, c)
             \/ \E q \in Requests : HandlerRaises(q)
             \/ SellByHand \/ Crash \/ UNCHANGED vars
      PROVE  draft' = draft
  BY <1>3 DEF Arrive, HandlerRaises, SellByHand, Crash, vars
<1>4. QED
  BY <1>1, <1>2, <1>3 DEF Next

(* A verdict about the buy says nothing of a protection yet.                  *)
LEMMA BuyVerdict ==
  ASSUME Inv, NEW p \in Requests, FillPolled(p) \/ VoidPolled(p) \/ OrderFailed(p)
  PROVE  /\ draft'[p].res.prot = "none"
         /\ pc[p] \in {"wait", "poll"} /\ pc'[p] \in {"protect", "write"}
         /\ UNCHANGED <<record, job, oco>>
<1>1. CASE FillPolled(p)
  <2>1. draft'[p].res.prot = "none"
    BY <1>1, FillDraft
  <2>2. Step(p, "poll", IF job[p].kind = "open" THEN "protect" ELSE "write")
        /\ UNCHANGED <<record, job, oco>>
    BY <1>1, Zenon DEF FillPolled
  <2>3. QED
    BY <2>1, <2>2 DEF Step, Inv, TypeOK
<1>2. CASE VoidPolled(p)
  BY <1>2, NoResultType, VerdictDraft DEF VoidPolled, Step, Inv, TypeOK, NoResult
<1>3. CASE OrderFailed(p)
  <2>1. PICK v \in {"failed", "unknown"} : Verdict(p, v, NoResult)
    BY <1>3 DEF OrderFailed, FailureVerdict
  <2>2. draft'[p].res.prot = "none"
    BY <2>1, NoResultType, VerdictDraft DEF Inv, TypeOK, NoResult
  <2>3. QED
    BY <1>3, <2>2 DEF OrderFailed, Step, Inv, TypeOK
<1>4. QED
  BY <1>1, <1>2, <1>3

LEMMA NextPlaced ==
  ASSUME Inv, Inv', Placed, [Next]_vars
  PROVE  Placed'
<1>1. ASSUME NEW p \in Requests, draft'[p].res.prot = "placed"
      PROVE  pc'[p] # "idle" /\ Accepted(job[p].id)'
  <2>1. CASE draft'[p] = draft[p]
    <3>1. PICK c \in Ids : c = job[p].id /\ pc[p] # "idle" /\ Accepted(c)
      BY <1>1, <2>1 DEF Placed, Inv, Progress
    <3>2. job'[p] = job[p] /\ pc'[p] # "idle" /\ Accepted(c)'
      BY <3>1, AcceptedStays
    <3>3. QED
      BY <3>1, <3>2 DEF Accepted
  <2>2. CASE StartProtect(p)
    <3>1. job' = job /\ oco' = oco /\ job[p].id \in Ids /\ pc'[p] # "idle"
      BY <2>2 DEF StartProtect, Step, Inv, TypeOK, Progress
    <3>2. draft'[p] = record[job[p].id]
      BY <2>2 DEF StartProtect, Inv, TypeOK
    <3>3. QED
      BY <1>1, <3>1, <3>2 DEF Placed, Accepted
  <2>3. CASE OcoAnswered(p)
    <3>1. PICK o \in Outcomes(oco[p]) :
            Verdict(p, "done", [draft[p].res EXCEPT !.prot = ProtectionOf(o)])
      BY <2>3 DEF OcoAnswered
    <3>2. draft'[p].res.prot = ProtectionOf(o)
      BY <3>1 DEF Verdict, Inv, TypeOK, Record, Result
    <3>3. o = "accepted"
      BY <1>1, <3>2 DEF ProtectionOf
    <3>4. oco[p] \notin {"sent", "refused", "unsent"}
      BY <2>3, <3>1, <3>3, OutcomesTruth DEF OcoAnswered, Step, Placed
    <3>5. oco[p] \in {"resting", "sold", "cancelled"} /\ oco' = oco /\ job' = job /\ pc'[p] # "idle"
      BY <2>3, <3>4 DEF OcoAnswered, Step, Inv, TypeOK
    <3>6. QED
      BY <3>5 DEF Accepted
  <2>4. CASE FillPolled(p) \/ VoidPolled(p) \/ OrderFailed(p)
    BY <1>1, <2>4, BuyVerdict
  <2>6. CASE SkipOco(p)
    BY <1>1, <2>6 DEF SkipOco, Verdict, Inv, TypeOK, Record, Result
  <2>5. QED
    BY <2>1, <2>2, <2>3, <2>4, <2>6, DraftChange
<1>2. ASSUME NEW c \in Ids, record'[c].res.prot = "placed"
      PROVE  Accepted(c)'
  <2>1. CASE record'[c] = record[c]
    BY <1>2, <2>1, AcceptedStays DEF Placed
  <2>2. CASE \E p \in Requests : Claim(p)
    <3>1. PICK p \in Requests : Claim(p)
      BY <2>2
    <3>2. record'[c] = record[c] \/ record'[c].res.prot = "none"
      BY <3>1 DEF Claim, NoResult, Inv, TypeOK
    <3>3. QED
      BY <1>2, <2>1, <3>2
  <2>3. CASE \E p \in Requests : Finish(p)
    <3>1. PICK p \in Requests : Finish(p)
      BY <2>3
    <3>2. \/ record'[c] = record[c]
          \/ record'[c] = draft[p] /\ job[p].id = c /\ job' = job /\ oco' = oco
      BY <3>1 DEF Finish, Inv, TypeOK
    <3>3. QED
      BY <1>2, <2>1, <3>2 DEF Placed, Accepted
  <2>4. QED
    BY <2>1, <2>2, <2>3, Steps DEF Arrive, SendOrder, TakeOrder, RejectOrder, ExecuteOrder, VoidOrder
<1>3. QED
  BY <1>1, <1>2, AcceptedStays DEF Placed

(* A row never claims a protection that the exchange has not accepted.        *)
THEOREM PlacedTrue == Spec => []PlacedIsReal
<1>1. Placed => PlacedIsReal
  BY DEF Placed, Accepted, PlacedIsReal
<1>2. QED
  BY <1>1, InitPlaced, NextPlaced, Invariance, PTL DEF Spec

---------------------------------------------------------------------------
(* Refinement: what the rows say and what the exchange did with the orders     *)
(* form a behavior of OrderOnce.                                             *)

status   == [c \in Ids |-> StatusOf(record[c])]
taken    == {c \in Ids : Taken(c)}
executed == {c \in Ids : Executed(c)}
void     == {c \in Ids : Void(c)}

LEMMA InitOnce == Init => Once!Init
<1>1. SUFFICES ASSUME Init PROVE Once!Init
  OBVIOUS
<1>2. \A c \in Ids : StatusOf(record[c]) = "none"
  BY <1>1 DEF Init, NoRow, StatusOf
<1>3. \A c \in Ids : ~Taken(c) /\ ~Executed(c) /\ ~Void(c)
  BY <1>1 DEF Init, Taken, Executed, Void, OrderIs
<1>4. QED
  BY <1>2, <1>3 DEF Once!Init

(* The order of an id is the order of one request.                            *)
LEMMA OneMarket ==
  ASSUME Inv, NEW p \in Requests, Sent(p), NEW S \in SUBSET {"sent", "taken", "filled", "void"}
  PROVE  /\ job[p].id \in Ids
         /\ OrderIs(job[p].id, S) <=> market[p] \in S
BY DEF Inv, Progress, OneHolder, Holds, Sent, OrderIs

(* A step of one order moves its id only between the sets.                     *)
LEMMA OrderMoves ==
  ASSUME Inv, NEW p \in Requests, NEW s, NEW t, s # "unsent", Becomes(p, s, t), job' = job,
         NEW S \in SUBSET {"taken", "filled", "void"}
  PROVE  /\ \A d \in Ids : d # job[p].id => (OrderIs(d, S)' <=> OrderIs(d, S))
         /\ OrderIs(job[p].id, S)' <=> t \in S
<1>1. \A q \in Requests : market'[q] = IF q = p THEN t ELSE market[q]
  BY DEF Inv, TypeOK, Becomes
<1>2. \A q \in Requests \ {p} : job[q].id = job[p].id => market[q] \notin S
  BY DEF Inv, OneHolder, Holds, Sent, Becomes
<1>3. QED
  BY <1>1, <1>2 DEF OrderIs

LEMMA SetsKept ==
  ASSUME Inv, [Next]_vars,
         \A p \in Requests : ~TakeOrder(p) /\ ~ExecuteOrder(p) /\ ~VoidOrder(p)
  PROVE  UNCHANGED <<taken, executed, void>>
<1>1. ASSUME NEW c \in Ids, NEW S \in SUBSET {"taken", "filled", "void"}
      PROVE  OrderIs(c, S)' = OrderIs(c, S)
  <2>1. ASSUME NEW q \in Requests PROVE market'[q] \in S <=> market[q] \in S
    <3>1. CASE market'[q] = market[q]
      BY <3>1
    <3>2. CASE SendOrder(q)
      BY <3>2 DEF SendOrder, Step, Inv, TypeOK, Progress, Sent
    <3>3. CASE RejectOrder(q)
      BY <3>3 DEF RejectOrder, Becomes, Inv, TypeOK
    <3>4. QED
      BY <3>1, <3>2, <3>3, OrderSteps
  <2>2. OrderIs(c, S)' <=> \E p \in Requests : job[p].id = c /\ market'[p] \in S
    BY OrderSets
  <2>3. OrderIs(c, S)' <=> OrderIs(c, S)
    BY <2>1, <2>2 DEF OrderIs
  <2>4. QED
    BY <2>3 DEF OrderIs
<1>2. \A c \in Ids : Taken(c)' = Taken(c) /\ Executed(c)' = Executed(c) /\ Void(c)' = Void(c)
  BY <1>1 DEF Taken, Executed, Void
<1>3. QED
  BY <1>2 DEF taken, executed, void

LEMMA TakeIsTake ==
  ASSUME Inv, NEW p \in Requests, TakeOrder(p)
  PROVE  Once!Next
<1> DEFINE c == job[p].id
<1>1. Becomes(p, "sent", "taken") /\ market[p] = "sent" /\ job' = job /\ record' = record
  BY DEF TakeOrder, Becomes
<1>2. c \in Ids /\ ~Taken(c) /\ ~Executed(c) /\ ~Void(c)
  BY <1>1, OneMarket DEF Sent, Taken, Executed, Void
<1>3. record[c].status \in {"in_progress", "unknown"}
  BY <1>1 DEF Inv, Rows
<1>4. /\ \A d \in Ids : d # c => (Taken(d)' <=> Taken(d))
      /\ \A d \in Ids : d # c => (Executed(d)' <=> Executed(d))
      /\ \A d \in Ids : d # c => (Void(d)' <=> Void(d))
      /\ Taken(c)' /\ ~Executed(c)' /\ ~Void(c)'
  BY <1>1, OrderMoves DEF Taken, Executed, Void
<1>5. taken' = taken \cup {c} /\ executed' = executed /\ void' = void
  BY <1>1, <1>2, <1>4 DEF taken, executed, void
<1>6. status' = status
  BY <1>1 DEF status
<1>7. status[c] \in {"in_progress", "unknown"} /\ c \notin taken
  BY <1>2, <1>3 DEF status, StatusOf, taken
<1>8. Once!Take(c)
  BY <1>5, <1>6, <1>7 DEF Once!Take, status, taken, executed, void
<1>9. QED
  BY <1>2, <1>8 DEF Once!Next

(* A row that says "bought" or "failed" is evidence against a pending order.   *)
LEMMA ExecuteIsExecute ==
  ASSUME "garbled" \notin Faults, Inv, Evidence, NEW p \in Requests, ExecuteOrder(p)
  PROVE  Once!Next
<1> DEFINE c == job[p].id
<1>1. Becomes(p, "taken", "filled") /\ market[p] = "taken" /\ job' = job /\ record' = record
  BY DEF ExecuteOrder, Becomes
<1>2. c \in Ids /\ Taken(c) /\ ~Executed(c) /\ ~Void(c) /\ MayBuy(c)
  BY <1>1, OneMarket DEF Sent, Taken, Executed, Void, MayBuy
<1>3. StatusOf(record[c]) \in {"in_progress", "unknown", "accepted"}
  <2>1. record[c] \in Record /\ record[c].status # "none"
    BY <1>1, <1>2 DEF Inv, TypeOK, Rows, Holds, Sent
  <2>2. record[c].status # "failed" /\ ~(record[c].status = "done" /\ record[c].res.known)
    BY <1>2 DEF Evidence
  <2>3. QED
    BY <2>1, <2>2, StatusWords
<1>4. /\ \A d \in Ids : d # c => (Taken(d)' <=> Taken(d))
      /\ \A d \in Ids : d # c => (Executed(d)' <=> Executed(d))
      /\ \A d \in Ids : d # c => (Void(d)' <=> Void(d))
      /\ Taken(c)' /\ Executed(c)' /\ ~Void(c)'
  BY <1>1, OrderMoves DEF Taken, Executed, Void
<1>5. taken' = taken /\ executed' = executed \cup {c} /\ void' = void
  BY <1>1, <1>2, <1>4 DEF taken, executed, void
<1>6. status' = status
  BY <1>1 DEF status
<1>7. /\ status[c] \in {"in_progress", "unknown", "accepted"}
      /\ c \in taken \ (executed \cup void)
  BY <1>2, <1>3 DEF status, taken, executed, void
<1>8. Once!Execute(c)
  BY <1>5, <1>6, <1>7 DEF Once!Execute, status, taken, executed, void
<1>9. QED
  BY <1>2, <1>8 DEF Once!Next

LEMMA VoidIsClose ==
  ASSUME Inv, NEW p \in Requests, VoidOrder(p)
  PROVE  Once!Next
<1> DEFINE c == job[p].id
<1>1. Becomes(p, "taken", "void") /\ market[p] = "taken" /\ job' = job /\ record' = record
  BY DEF VoidOrder, Becomes
<1>2. c \in Ids /\ Taken(c) /\ ~Executed(c) /\ ~Void(c)
  BY <1>1, OneMarket DEF Sent, Taken, Executed, Void
<1>3. /\ \A d \in Ids : d # c => (Taken(d)' <=> Taken(d))
      /\ \A d \in Ids : d # c => (Executed(d)' <=> Executed(d))
      /\ \A d \in Ids : d # c => (Void(d)' <=> Void(d))
      /\ Taken(c)' /\ ~Executed(c)' /\ Void(c)'
  BY <1>1, OrderMoves DEF Taken, Executed, Void
<1>4. taken' = taken /\ executed' = executed /\ void' = void \cup {c}
  BY <1>1, <1>2, <1>3 DEF taken, executed, void
<1>5. status' = status
  BY <1>1 DEF status
<1>6. c \in taken \ (executed \cup void)
  BY <1>2 DEF taken, executed, void
<1>7. Once!Close(c)
  BY <1>4, <1>5, <1>6 DEF Once!Close, status, taken, executed, void
<1>8. QED
  BY <1>2, <1>7 DEF Once!Next

LEMMA NextOnce ==
  ASSUME "garbled" \notin Faults, Inv, Inv', Evidence, Evidence', [Next]_vars
  PROVE  Once!Next \/ UNCHANGED <<status, taken, executed, void>>
<1>1. CASE \E p \in Requests : TakeOrder(p) \/ ExecuteOrder(p) \/ VoidOrder(p)
  BY <1>1, TakeIsTake, ExecuteIsExecute, VoidIsClose
<1>2. CASE ~ \E p \in Requests : TakeOrder(p) \/ ExecuteOrder(p) \/ VoidOrder(p)
  <2>1. UNCHANGED <<taken, executed, void>>
    BY <1>2, SetsKept
  <2>2. CASE \A c \in Ids : StatusOf(record'[c]) = StatusOf(record[c])
    <3>1. status' = status
      BY <2>2 DEF status, StatusOf
    <3>2. QED
      BY <2>1, <3>1
  <2>3. CASE \E c \in Ids : StatusOf(record'[c]) # StatusOf(record[c])
    <3>1. PICK c \in Ids : StatusOf(record'[c]) # StatusOf(record[c])
      BY <2>3
    <3>2. PICK p \in Requests :
            /\ job[p].id = c
            /\ \/ Claim(p) /\ record[c].status = "none" /\ record'[c].status = "in_progress"
               \/ Finish(p) /\ Owner(p) /\ record[c].status = "in_progress"
                  /\ record'[c] = draft[p]
      BY <3>1, StatusChange
    <3>3. record[c] \in Record /\ record'[c] \in Record
      BY DEF Inv, TypeOK
    <3>4. status' = [status EXCEPT ![c] = StatusOf(record'[c])]
      <4>1. \A d \in Ids : d # c => record'[d] = record[d]
        BY <3>2 DEF Claim, Finish, Inv, TypeOK
      <4>2. QED
        BY <4>1 DEF status, StatusOf
    <3>5. CASE Claim(p) /\ record[c].status = "none" /\ record'[c].status = "in_progress"
      <4>1. status[c] = "none" /\ StatusOf(record'[c]) = "in_progress"
        BY <3>3, <3>5, StatusWords DEF status
      <4>2. Once!Claim(c)
        BY <2>1, <3>4, <4>1 DEF Once!Claim, status, taken, executed, void
      <4>3. QED
        BY <4>2 DEF Once!Next
    <3>6. CASE Finish(p) /\ Owner(p) /\ record[c].status = "in_progress" /\ record'[c] = draft[p]
      <4>1. PICK v : v = StatusOf(record'[c])
        OBVIOUS
      <4>2. status[c] = "in_progress" /\ status' = [status EXCEPT ![c] = v]
        BY <3>3, <3>4, <3>6, <4>1, StatusWords DEF status
      <4>3. v \in Once!Verdicts
        <5>1. record'[c].status \in {"done", "failed", "unknown"}
          BY <3>6 DEF Finish, Step, Inv, Progress
        <5>2. QED
          BY <3>3, <4>1, <5>1, StatusWords DEF Once!Verdicts
      <4>4. /\ v = "bought"   => Executed(c)'
            /\ v = "accepted" => Taken(c)'
            /\ v = "failed"   => ~Taken(c)' \/ Void(c)'
        <5>1. v = "failed" => ~MayBuy(c)'
          BY <3>3, <4>1, StatusWords DEF Evidence
        <5>2. ~MayBuy(c)' => ~Taken(c)' \/ Void(c)'
          BY DEF MayBuy, Taken, Void, OrderIs
        <5>3. QED
          BY <3>3, <4>1, <5>1, <5>2, StatusWords DEF Evidence
      <4>5. /\ c \in taken' <=> Taken(c)'
            /\ c \in executed' <=> Executed(c)'
            /\ c \in void' <=> Void(c)'
        BY DEF taken, executed, void
      <4>6. Once!Settle(c, v)
        BY <2>1, <4>2, <4>4, <4>5 DEF Once!Settle, status, taken, executed, void
      <4>7. QED
        BY <4>3, <4>6 DEF Once!Next
    <3>7. QED
      BY <3>2, <3>5, <3>6
  <2>4. QED
    BY <2>2, <2>3
<1>3. QED
  BY <1>1, <1>2

(* Opening a position implements OrderOnce when every error is classified:     *)
(* whatever the polls read, a row says "done" only of an order that was taken,  *)
(* with a quantity only of an executed one, and "failed" only of one that is    *)
(* closed, refused or never reached the exchange.                             *)
THEOREM Refinement ==
  ASSUME "garbled" \notin Faults
  PROVE  Spec => OrderOnceSpec
<1>1. Inv /\ Inv' /\ Evidence /\ Evidence' /\ [Next]_vars
        => [Once!Next]_<<status, taken, executed, void>>
  BY NextOnce
<1>2. QED
  BY <1>1, InitOnce, Invariance, RowsTellTheTruth, PTL
     DEF Spec, OrderOnceSpec, Once!Spec, status, taken, executed, void

---------------------------------------------------------------------------
(* One protection per position.  A second OCO needs one of three things: an   *)
(* OCO that counts as failed although the exchange has or may take it, a      *)
(* handler that died with an OCO behind it, or two handlers that protect the  *)
(* same position at a time.                                                  *)

Protecting(p) == pc[p] \in {"protect", "ocowait", "write"}

Accounted ==
  /\ \A p \in Requests : pc[p] = "write" /\ draft[p].res.prot = "failed"
                         => oco[p] \in {"unsent", "refused"}
  /\ \A p \in Requests : pc[p] = "dead" => oco[p] \in {"unsent", "refused"}
  /\ \A p, q \in Requests : Protecting(p) /\ Protecting(q) /\ job[p].id = job[q].id => p = q

(* The exchange has, had or may take the OCO of a request.                    *)
Live(p) == oco[p] \in {"sent", "resting", "sold", "cancelled"}

(* A live OCO is on its way to the row, or the row says "placed".             *)
Guarded ==
  /\ \A p \in Requests : Live(p) =>
       \/ pc[p] = "ocowait"
       \/ pc[p] = "write" /\ draft[p].res.prot = "placed"
       \/ pc[p] = "end" /\ record[job[p].id].res.prot = "placed"
  /\ \A p \in Requests : draft[p].res.prot = "placed" => draft[p].status = "done"
  /\ \A c \in Ids : record[c].res.prot = "placed" => record[c].status = "done"
  /\ \A p \in Requests : Protecting(p) => record[job[p].id].res.prot # "placed"
  /\ \A p, q \in Requests : Live(p) /\ Live(q) /\ job[p].id = job[q].id => p = q

LEMMA InitGuarded == Init => Guarded
BY DEF Init, Guarded, Live, Protecting, NoRow, NoResult

(* What a step does to the OCO and the place of one request.                  *)
LEMMA OneRequest ==
  ASSUME Inv, Placed, [Next]_vars, NEW p \in Requests
  PROVE  /\ Live(p)' => Live(p) \/ SendOco(p)
         /\ Protecting(p)' => \/ Protecting(p) \/ FillPolled(p) \/ VoidPolled(p)
                              \/ OrderFailed(p) \/ StartProtect(p)
         /\ pc[p] = "ocowait" => pc'[p] \in {"ocowait", "dead"} \/ OcoAnswered(p)
         /\ pc[p] = "write" => pc'[p] \in {"write", "dead"} \/ Finish(p)
         /\ pc[p] = "end" => pc'[p] = "end"
<1> USE DEF Inv, TypeOK
<1> DEFINE Goal == /\ Live(p)' => Live(p) \/ SendOco(p)
                   /\ Protecting(p)' => \/ Protecting(p) \/ FillPolled(p) \/ VoidPolled(p)
                                        \/ OrderFailed(p) \/ StartProtect(p)
                   /\ pc[p] = "ocowait" => pc'[p] \in {"ocowait", "dead"} \/ OcoAnswered(p)
                   /\ pc[p] = "write" => pc'[p] \in {"write", "dead"} \/ Finish(p)
                   /\ pc[p] = "end" => pc'[p] = "end"
<1>1. ASSUME NEW q \in Requests, Handle(q) PROVE Goal
  <2>1. CASE q = p
    <3>1. CASE PlanPosition(p) \/ RefusePlan(p) \/ Claim(p) \/ Replay(p) \/ SendOrder(p)
      BY <3>1 DEF PlanPosition, RefusePlan, Claim, Replay, SendOrder, Step, Answer, Live, Protecting
    <3>2. CASE FillPolled(p) \/ VoidPolled(p) \/ OrderFailed(p)
      <4>1. oco' = oco /\ pc[p] \in {"wait", "poll"}
        BY <3>2, BuyVerdict
      <4>2. QED
        BY <3>2, <4>1 DEF Live
    <3>8. CASE OrderAccepted(p)
      BY <3>8 DEF OrderAccepted, Step, Live, Protecting
    <3>5. CASE SkipOco(p)
      BY <3>5 DEF SkipOco, Step, Live, Protecting
    <3>6. CASE SendOco(p)
      BY <3>6 DEF SendOco, Step, Live, Protecting
    <3>7. CASE OcoAnswered(p)
      <4>1. oco' = oco /\ pc[p] = "ocowait"
        BY <3>7 DEF OcoAnswered, Step
      <4>2. QED
        BY <3>7, <4>1 DEF Live, Protecting
    <3>3. CASE Finish(p) \/ StartProtect(p) \/ DeclineProtect(p)
      BY <3>3 DEF Finish, StartProtect, DeclineProtect, Step, Answer, Live, Protecting
    <3>4. QED
      BY <1>1, <2>1, <3>1, <3>2, <3>3, <3>5, <3>6, <3>7, <3>8 DEF Handle
  <2>2. CASE q # p
    <3>1. pc'[p] = pc[p] /\ oco'[p] = oco[p]
      <4>1. CASE PlanPosition(q) \/ RefusePlan(q) \/ Claim(q) \/ Replay(q) \/ SendOrder(q)
        BY <2>2, <4>1 DEF PlanPosition, RefusePlan, Claim, Replay, SendOrder, Step, Answer
      <4>2. CASE OrderAccepted(q)
        BY <2>2, <4>2 DEF OrderAccepted, Step
      <4>3. CASE OrderFailed(q)
        BY <2>2, <4>3 DEF OrderFailed, Step
      <4>4. CASE SkipOco(q) \/ SendOco(q) \/ OcoAnswered(q)
        BY <2>2, <4>4 DEF SkipOco, SendOco, OcoAnswered, Step
      <4>5. CASE Finish(q) \/ StartProtect(q) \/ DeclineProtect(q)
        BY <2>2, <4>5 DEF Finish, StartProtect, DeclineProtect, Step, Answer
      <4>6. CASE FillPolled(q)
        <5>1. Step(q, "poll", IF job[q].kind = "open" THEN "protect" ELSE "write") /\ oco' = oco
          BY <4>6, Zenon DEF FillPolled
        <5>2. QED
          BY <2>2, <5>1 DEF Step
      <4>7. CASE VoidPolled(q)
        BY <2>2, <4>7 DEF VoidPolled, Step
      <4>8. QED
        BY <1>1, <4>1, <4>2, <4>3, <4>4, <4>5, <4>6, <4>7 DEF Handle
    <3>2. QED
      BY <3>1 DEF Live, Protecting
  <2>3. QED
    BY <2>1, <2>2
<1>2. ASSUME NEW q \in Requests, Exchange(q) PROVE Goal
  <2>1. pc' = pc /\ (Live(p)' => Live(p))
    BY <1>2 DEF Exchange, TakeOrder, RejectOrder, ExecuteOrder, VoidOrder, RestOco, RejectOco, LeaveOco, Live
  <2>2. QED
    BY <2>1 DEF Protecting
<1>3. ASSUME NEW q \in Requests, NEW k \in Kinds, NEW c \in Ids, Arrive(q, k, c) PROVE Goal
  BY <1>3 DEF Arrive, Step, Live, Protecting
<1>4. ASSUME NEW q \in Requests, HandlerRaises(q) PROVE Goal
  BY <1>4 DEF HandlerRaises, Step, Live, Protecting
<1>5. CASE SellByHand \/ Crash \/ UNCHANGED vars
  BY <1>5 DEF SellByHand, Crash, vars, Live, Protecting
<1>6. QED
  BY <1>1, <1>2, <1>3, <1>4, <1>5 DEF Next

(* What a step does to the protection that a row records.                     *)
LEMMA ProtectionChange ==
  ASSUME Inv, [Next]_vars, NEW c \in Ids, record'[c] # record[c]
  PROVE  \E p \in Requests :
           /\ job[p].id = c /\ job' = job
           /\ \/ Claim(p) /\ record[c].status = "none" /\ record'[c].res.prot = "none"
              \/ Finish(p) /\ pc[p] = "write" /\ pc'[p] = "end" /\ record'[c] = draft[p]
<1> USE DEF Inv, TypeOK
<1>1. CASE \E p \in Requests : Claim(p)
  <2>1. PICK p \in Requests : Claim(p)
    BY <1>1
  <2>2. /\ job[p].id \in Ids /\ record[job[p].id].status = "none" /\ job' = job
        /\ record' = [record EXCEPT ![job[p].id] = [status |-> "in_progress", res |-> NoResult]]
    BY <2>1 DEF Claim, Step, MayClaim, Progress
  <2>3. job[p].id = c /\ record'[c].res.prot = "none"
    BY <2>2 DEF NoResult
  <2>4. QED
    BY <2>1, <2>2, <2>3
<1>2. CASE \E p \in Requests : Finish(p)
  <2>1. PICK p \in Requests : Finish(p)
    BY <1>2
  <2>2. /\ job[p].id \in Ids /\ pc[p] = "write" /\ pc'[p] = "end" /\ job' = job
        /\ record' = [record EXCEPT ![job[p].id] = draft[p]]
    BY <2>1 DEF Finish, Step, Progress
  <2>3. job[p].id = c /\ record'[c] = draft[p]
    BY <2>2
  <2>4. QED
    BY <2>1, <2>2, <2>3
<1>3. QED
  BY <1>1, <1>2, Steps DEF Arrive, SendOrder, TakeOrder, RejectOrder, ExecuteOrder, VoidOrder

LEMMA NextGuarded ==
  ASSUME Inv, Inv', Placed, Accounted, Accounted', Guarded, [Next]_vars
  PROVE  Guarded'
<1>1. \A p \in Requests : pc[p] # "idle" => pc'[p] # "idle" /\ job'[p] = job[p] /\ job[p].id \in Ids
  BY AcceptedStays DEF Inv, Progress
<1>2. \A p \in Requests : Live(p) \/ Protecting(p) => pc[p] # "idle"
  BY DEF Placed, Live, Protecting
<1>3. ASSUME NEW p \in Requests, draft'[p].res.prot = "placed"
      PROVE  draft'[p].status = "done"
  <2>1. CASE draft'[p] = draft[p]
    BY <1>3, <2>1 DEF Guarded
  <2>2. CASE StartProtect(p)
    BY <2>2, <1>1 DEF StartProtect, MayProtect, Step, Inv, TypeOK
  <2>3. CASE SkipOco(p) \/ OcoAnswered(p)
    BY <2>3 DEF SkipOco, OcoAnswered, Verdict, Inv, TypeOK
  <2>4. CASE FillPolled(p) \/ VoidPolled(p) \/ OrderFailed(p)
    BY <1>3, <2>4, BuyVerdict
  <2>5. QED
    BY <2>1, <2>2, <2>3, <2>4, DraftChange
<1>4. ASSUME NEW c \in Ids, record'[c].res.prot = "placed"
      PROVE  record'[c].status = "done"
  BY <1>4, ProtectionChange DEF Guarded
<1>5. ASSUME NEW p \in Requests, Protecting(p)'
      PROVE  record'[job'[p].id].res.prot # "placed"
  <2>1. CASE Protecting(p)
    <3>1. PICK c \in Ids : c = job[p].id /\ job'[p] = job[p]
      BY <1>1, <1>2, <2>1
    <3>2. CASE record'[c] = record[c]
      BY <2>1, <3>1, <3>2 DEF Guarded
    <3>3. CASE record'[c] # record[c]
      <4>1. PICK q \in Requests :
              /\ job[q].id = c
              /\ \/ record'[c].res.prot = "none"
                 \/ pc[q] = "write" /\ pc'[q] = "end"
        BY <3>3, ProtectionChange
      <4>2. pc[q] = "write" /\ pc'[q] = "end" => q = p
        BY <2>1, <3>1, <4>1 DEF Accounted, Protecting
      <4>3. QED
        BY <1>5, <3>1, <4>1, <4>2 DEF Protecting
    <3>4. QED
      BY <3>2, <3>3
  <2>2. CASE StartProtect(p)
    <3>1. record[job[p].id].res.prot # "placed" /\ record' = record /\ job' = job
      BY <2>2 DEF StartProtect, MayProtect
    <3>2. QED
      BY <3>1
  <2>3. CASE FillPolled(p) \/ VoidPolled(p) \/ OrderFailed(p)
    <3>1. pc[p] \in {"wait", "poll"} /\ record' = record /\ job' = job
      BY <2>3, BuyVerdict
    <3>2. job[p].id \in Ids /\ record[job[p].id].status = "in_progress"
      BY <3>1 DEF Inv, Progress, Rows, Owner
    <3>3. QED
      BY <3>1, <3>2 DEF Guarded
  <2>4. QED
    BY <1>5, <2>1, <2>2, <2>3, OneRequest
<1>6. ASSUME NEW p \in Requests, Live(p)'
      PROVE  \/ pc'[p] = "ocowait"
             \/ pc'[p] = "write" /\ draft'[p].res.prot = "placed"
             \/ pc'[p] = "end" /\ record'[job'[p].id].res.prot = "placed"
  <2>0. pc'[p] # "dead"
    BY <1>6 DEF Accounted, Live
  <2>1. CASE SendOco(p)
    BY <2>1 DEF SendOco, Step, Inv, TypeOK
  <2>2. CASE pc[p] = "ocowait" /\ ~OcoAnswered(p)
    BY <2>0, <2>2, OneRequest
  <2>3. CASE OcoAnswered(p)
    <3>1. PICK o \in Outcomes(oco[p]) :
            Verdict(p, "done", [draft[p].res EXCEPT !.prot = ProtectionOf(o)])
      BY <2>3 DEF OcoAnswered
    <3>2. draft'[p].res.prot = ProtectionOf(o) /\ pc'[p] = "write"
      BY <2>3, <3>1 DEF OcoAnswered, Step, Verdict, Inv, TypeOK, Record, Result
    <3>3. draft'[p].res.prot \in {"placed", "failed"}
      BY <3>2 DEF ProtectionOf
    <3>4. QED
      BY <1>6, <3>2, <3>3 DEF Accounted, Live
  <2>4. CASE Live(p) /\ pc[p] = "write" /\ draft[p].res.prot = "placed"
    <3>1. CASE Finish(p)
      <4>1. job[p].id \in Ids /\ job' = job /\ pc'[p] = "end"
            /\ record' = [record EXCEPT ![job[p].id] = draft[p]]
        BY <2>4, <3>1, <1>1 DEF Finish, Step, Inv, TypeOK
      <4>2. record'[job[p].id] = draft[p]
        BY <4>1 DEF Inv, TypeOK
      <4>3. QED
        BY <2>4, <4>1, <4>2
    <3>2. CASE pc'[p] = "write"
      <4>1. draft'[p] = draft[p]
        <5>1. /\ ~FillPolled(p) /\ ~VoidPolled(p) /\ ~OrderFailed(p)
              /\ ~SkipOco(p) /\ ~OcoAnswered(p) /\ ~StartProtect(p)
          <6>1. ~FillPolled(p) /\ ~VoidPolled(p) /\ ~OrderFailed(p)
            BY <2>4, BuyVerdict
          <6>2. ~SkipOco(p) /\ ~OcoAnswered(p) /\ ~StartProtect(p)
            BY <2>4 DEF SkipOco, OcoAnswered, StartProtect, Step
          <6>3. QED
            BY <6>1, <6>2
        <5>2. QED
          BY <5>1, DraftChange
      <4>2. QED
        BY <2>4, <3>2, <4>1
    <3>3. QED
      BY <2>0, <2>4, <3>1, <3>2, OneRequest
  <2>5. CASE Live(p) /\ pc[p] = "end" /\ record[job[p].id].res.prot = "placed"
    <3>1. PICK c \in Ids : c = job[p].id /\ job'[p] = job[p]
      BY <1>1, <2>5
    <3>2. pc'[p] = "end"
      BY <2>5, OneRequest
    <3>3. record'[c] = record[c]
      <4>1. SUFFICES ASSUME record'[c] # record[c] PROVE FALSE
        OBVIOUS
      <4>2. PICK q \in Requests : job[q].id = c /\ (record[c].status = "none" \/ pc[q] = "write")
        BY <4>1, ProtectionChange
      <4>3. QED
        BY <2>5, <3>1, <4>2 DEF Guarded, Protecting
    <3>4. QED
      BY <2>5, <3>1, <3>2, <3>3
  <2>6. QED
    BY <1>6, <2>1, <2>2, <2>3, <2>4, <2>5, OneRequest DEF Guarded
<1>7. ASSUME NEW p \in Requests, NEW q \in Requests, Live(p)', Live(q)', job'[p].id = job'[q].id
      PROVE  p = q
  <2>1. CASE Live(p) /\ Live(q)
    BY <1>1, <1>2, <1>7, <2>1 DEF Guarded
  <2>2. ASSUME NEW r \in Requests, NEW t \in Requests, SendOco(r), Live(t), r # t,
               job'[r].id = job'[t].id
        PROVE  FALSE
    <3>1. pc[r] = "protect" /\ job' = job
      BY <2>2 DEF SendOco, Step
    <3>2. Protecting(r) /\ job[r].id = job[t].id
      BY <2>2, <3>1 DEF Protecting
    <3>3. ~Protecting(t)
      BY <2>2, <3>2 DEF Accounted
    <3>4. record[job[r].id].res.prot = "placed"
      BY <2>2, <3>2, <3>3 DEF Guarded, Protecting
    <3>5. QED
      BY <3>2, <3>4 DEF Guarded
  <2>3. SendOco(p) /\ SendOco(q) => p = q
    BY DEF SendOco, Step, Inv, TypeOK
  <2>4. QED
    BY <1>7, <2>1, <2>2, <2>3, OneRequest
<1>8. QED
  BY <1>3, <1>4, <1>5, <1>6, <1>7 DEF Guarded

(* A position has at most one OCO at the exchange, unless one is taken for    *)
(* failed that is not, a handler dies behind one, or two handlers protect at  *)
(* a time: the run open_position_two_ocos needs one of them.                 *)
THEOREM ProtectedOnce == Spec /\ []Accounted => []OneProtection
<1>1. Guarded => OneProtection
  BY DEF Guarded, Live, OneProtection
<1>2. Inv /\ Inv' /\ Placed /\ Accounted /\ Accounted' /\ Guarded /\ [Next]_vars => Guarded'
  BY NextGuarded
<1>3. Spec => []Placed
  BY InitPlaced, NextPlaced, Invariance, PTL DEF Spec
<1>4. QED
  BY <1>1, <1>2, <1>3, InitGuarded, Invariance, PTL DEF Spec

---------------------------------------------------------------------------
(* No row is in progress without a handler: the one that claimed it is at     *)
(* work, or died.  (That it gets to an end is the liveness that TLC checks.)  *)
ClaimHasOwner ==
  \A c \in Ids : record[c].status = "in_progress" =>
    \E p \in Requests : job[p].id = c /\ (Owner(p) \/ pc[p] = "dead")

(* An owner stays one until it writes its verdict or dies.                    *)
LEMMA OwnerStays ==
  ASSUME Inv, [Next]_vars, NEW p \in Requests, Owner(p) \/ pc[p] = "dead"
  PROVE  job'[p] = job[p] /\ (Owner(p)' \/ pc'[p] = "dead" \/ Finish(p))
<1> USE DEF Inv, TypeOK, Owner
<1> DEFINE Goal == job'[p] = job[p] /\ (Owner(p)' \/ pc'[p] = "dead" \/ Finish(p))
<1>1. ASSUME NEW q \in Requests, Handle(q) PROVE Goal
  <2>1. CASE PlanPosition(q) \/ RefusePlan(q) \/ Claim(q) \/ Replay(q) \/ SendOrder(q)
    BY <2>1 DEF PlanPosition, RefusePlan, Claim, Replay, SendOrder, Step, Answer
  <2>2. CASE OrderAccepted(q)
    BY <2>2 DEF OrderAccepted, Step
  <2>3. CASE OrderFailed(q)
    BY <2>3 DEF OrderFailed, Step
  <2>4. CASE SkipOco(q) \/ SendOco(q) \/ OcoAnswered(q)
    BY <2>4 DEF SkipOco, SendOco, OcoAnswered, Step
  <2>5. CASE Finish(q)
    BY <2>5 DEF Finish, Step
  <2>6. CASE StartProtect(q) \/ DeclineProtect(q)
    BY <2>6 DEF StartProtect, DeclineProtect, Step, Answer
  <2>7. CASE FillPolled(q)
    BY <2>7 DEF FillPolled, Step
  <2>8. CASE VoidPolled(q)
    BY <2>8 DEF VoidPolled, Step
  <2>9. QED
    BY <1>1, <2>1, <2>2, <2>3, <2>4, <2>5, <2>6, <2>7, <2>8 DEF Handle
<1>2. ASSUME NEW q \in Requests, Exchange(q) PROVE Goal
  BY <1>2 DEF Exchange, TakeOrder, RejectOrder, ExecuteOrder, VoidOrder, RestOco, RejectOco, LeaveOco
<1>3. ASSUME NEW q \in Requests, NEW k \in Kinds, NEW c \in Ids, Arrive(q, k, c) PROVE Goal
  BY <1>3 DEF Arrive, Step
<1>4. ASSUME NEW q \in Requests, HandlerRaises(q) PROVE Goal
  BY <1>4 DEF HandlerRaises, Step
<1>5. CASE SellByHand \/ Crash \/ UNCHANGED vars
  BY <1>5 DEF SellByHand, Crash, vars
<1>6. QED
  BY <1>1, <1>2, <1>3, <1>4, <1>5 DEF Next

LEMMA NextClaimHasOwner ==
  ASSUME Inv, Inv', ClaimHasOwner, [Next]_vars
  PROVE  ClaimHasOwner'
<1> SUFFICES ASSUME NEW c \in Ids, record'[c].status = "in_progress"
             PROVE  \E p \in Requests : job'[p].id = c /\ (Owner(p)' \/ pc'[p] = "dead")
  BY DEF ClaimHasOwner
<1>1. CASE record[c].status = "in_progress"
  <2>1. PICK p \in Requests : job[p].id = c /\ (Owner(p) \/ pc[p] = "dead")
    BY <1>1 DEF ClaimHasOwner
  <2>2. ~Finish(p)
    <3>1. SUFFICES ASSUME Finish(p) PROVE FALSE
      OBVIOUS
    <3>2. pc[p] = "write" /\ record' = [record EXCEPT ![c] = draft[p]]
      BY <2>1, <3>1 DEF Finish, Step
    <3>3. record'[c].status = draft[p].status
      BY <3>2 DEF Inv, TypeOK
    <3>4. QED
      BY <3>2, <3>3 DEF Inv, Progress
  <2>3. QED
    BY <2>1, <2>2, OwnerStays
<1>2. CASE record[c].status # "in_progress"
  <2>1. PICK p \in Requests :
          /\ job[p].id = c
          /\ Claim(p) \/ (Finish(p) /\ record'[c].status = draft[p].status)
    <3>1. record[c] \in Record /\ record'[c] \in Record
      BY DEF Inv, TypeOK
    <3>2. StatusOf(record'[c]) # StatusOf(record[c])
      BY <1>2, <3>1, StatusWords
    <3>3. QED
      BY <3>2, StatusChange
  <2>2. ~(Finish(p) /\ record'[c].status = draft[p].status)
    BY DEF Finish, Step, Inv, Progress
  <2>3. Claim(p)
    BY <2>1, <2>2
  <2>4. job'[p].id = c /\ Owner(p)'
    BY <2>1, <2>3 DEF Claim, Step, Owner, Inv, TypeOK, Progress
  <2>5. QED
    BY <2>4
<1>3. QED
  BY <1>1, <1>2

(* A claimed id is never orphaned by a handler that lives: while a row says    *)
(* in_progress its handler is at work, and only a dead one leaves it so.      *)
THEOREM NoOrphanedClaim == Spec => []ClaimHasOwner
<1>1. Init => ClaimHasOwner
  BY DEF Init, ClaimHasOwner, NoRow
<1>2. QED
  BY <1>1, NextClaimHasOwner, Invariance, PTL DEF Spec
=============================================================================
