---------------------------- MODULE OpenPosition ----------------------------
(***************************************************************************)
(* Real orders on Binance TR, for one user and one coin: opening a position *)
(* (market buy, then an OCO of stop and target), a simple market buy, and   *)
(* the retry of a missing OCO.  All of them go through the row that         *)
(* order_requests keeps per client_order_id.                                *)
(*                                                                          *)
(* Each element of Requests is one HTTP request; it is a coroutine that     *)
(* other requests interleave with at every await (a database call or a call *)
(* of the exchange).  A call of the exchange is a message that the exchange *)
(* may process after the handler stopped waiting for it, or died.           *)
(* An accepted market order is not yet executed: the answer of the exchange *)
(* carries an order id only, and whether the order is filled, closed        *)
(* without a fill or still pending is polled.  Quantities are counted in    *)
(* positions: an executed buy adds one coin, an OCO locks one.              *)
(***************************************************************************)
EXTENDS Integers, FiniteSets

CONSTANTS
  Ids,        (* client order ids                                           *)
  Requests,   (* HTTP requests, each handled once                           *)
  Nil,        (* no id                                                      *)
  Spare,      (* coins of the same asset the user held before               *)
  Faults      (* ways an answer of the exchange may fail to arrive          *)

ASSUME IdsAssumption    == Nil \notin Ids
ASSUME FaultsAssumption == Faults \subseteq {"lost", "garbled"}
ASSUME SpareAssumption  == Spare \in Nat

VARIABLES
  record,   (* order_requests: status and the JSON result                   *)
  pc,       (* where the handler of a request is                            *)
  job,      (* what a request is: its kind and its client order id          *)
  draft,    (* the row its handler is going to write                        *)
  told,     (* what its HTTP answer says of the order                       *)
  market,   (* the market order a request sent, at the exchange             *)
  oco,      (* the OCO a request sent, at the exchange                      *)
  sold      (* coins the user sold by hand                                  *)

vars == <<record, pc, job, draft, told, market, oco, sold>>

Kinds  == {"open", "simple", "protect"}
Stages == {"stage1", "stage2", "closed"}

(* The parts of the result that decide something later: the state of the    *)
(* protection, whether the executed quantity is known, whether there is an  *)
(* exit_at (a position opened from a plan) and the reminder stages marked.   *)
Result == [prot : {"none", "placed", "failed", "skipped"}, known : BOOLEAN,
           planned : BOOLEAN, marks : SUBSET Stages]

NoResult == [prot |-> "none", known |-> FALSE, planned |-> FALSE, marks |-> {}]

Record == [status : {"none", "in_progress", "done", "failed", "unknown"}, res : Result]

NoRow == [status |-> "none", res |-> NoResult]

Job == [kind : Kinds \cup {"none"}, id : Ids \cup {Nil}]

Points == {"idle", "look", "claim", "send", "wait", "poll", "protect", "ocowait",
           "write", "end", "dead"}

TypeOK ==
  /\ record \in [Ids -> Record]
  /\ pc     \in [Requests -> Points]
  /\ job    \in [Requests -> Job]
  /\ draft  \in [Requests -> Record]
  /\ \A p \in Requests : pc[p] # "idle" => job[p].id \in Ids
  /\ told   \in [Requests -> {"nothing", "bought", "taken", "refused", "unclear", "invalid"}]
  /\ market \in [Requests -> {"unsent", "sent", "refused", "taken", "filled", "void"}]
  /\ oco    \in [Requests -> {"unsent", "sent", "resting", "sold", "cancelled", "refused"}]
  /\ sold   \in Nat

---------------------------------------------------------------------------
(* The exchange.                                                            *)

OrderIs(c, states) == \E p \in Requests : job[p].id = c /\ market[p] \in states

Taken(c)    == OrderIs(c, {"taken", "filled", "void"})
Executed(c) == OrderIs(c, {"filled"})
Void(c)     == OrderIs(c, {"void"})
MayBuy(c)   == OrderIs(c, {"sent", "taken", "filled"})

Bought  == Cardinality({p \in Requests : market[p] = "filled"})
Locked  == Cardinality({p \in Requests : oco[p] = "resting"})
Stopped == Cardinality({p \in Requests : oco[p] = "sold"})

(* Free and locked coins of the asset.                                      *)
Balance == Spare + Bought - Stopped - sold
Free    == Balance - Locked

Becomes(p, from, to) == market[p] = from /\ market' = [market EXCEPT ![p] = to]

TakeOrder(p) ==
  /\ Becomes(p, "sent", "taken")
  /\ UNCHANGED <<record, pc, job, draft, told, oco, sold>>

RejectOrder(p) ==
  /\ Becomes(p, "sent", "refused")
  /\ UNCHANGED <<record, pc, job, draft, told, oco, sold>>

ExecuteOrder(p) ==
  /\ Becomes(p, "taken", "filled")
  /\ UNCHANGED <<record, pc, job, draft, told, oco, sold>>

(* Canceled, rejected or expired with nothing executed, after it was taken.  *)
VoidOrder(p) ==
  /\ Becomes(p, "taken", "void")
  /\ UNCHANGED <<record, pc, job, draft, told, oco, sold>>

RestOco(p) ==
  /\ oco[p] = "sent" /\ Free > 0
  /\ oco' = [oco EXCEPT ![p] = "resting"]
  /\ UNCHANGED <<record, pc, job, draft, told, market, sold>>

RejectOco(p) ==
  /\ oco[p] = "sent"
  /\ oco' = [oco EXCEPT ![p] = "refused"]
  /\ UNCHANGED <<record, pc, job, draft, told, market, sold>>

(* The stop or the target is reached, or the user cancels the OCO.          *)
LeaveOco(p) ==
  /\ oco[p] = "resting"
  /\ \E s \in {"sold", "cancelled"} : oco' = [oco EXCEPT ![p] = s]
  /\ UNCHANGED <<record, pc, job, draft, told, market, sold>>

SellByHand ==
  /\ Free > 0
  /\ sold' = sold + 1
  /\ UNCHANGED <<record, pc, job, draft, told, market, oco>>

(* Mutant: a call without a timeout.                                        *)
NoTimeout(state) ==
  CASE state = "sent"    -> {}
    [] state = "refused" -> {"refused"} \cup Faults
    [] OTHER             -> {"accepted"} \cup Faults

(* How a POST ends in the handler: the exchange's answer, an error that the *)
(* client classifies as ambiguous (timeout, 5xx, no JSON: "lost"), or one   *)
(* it does not classify (body cut short, a busy code in a 4xx: "garbled").  *)
Outcomes(state) ==
  CASE state = "sent"    -> Faults \cap {"lost"}
    [] state = "refused" -> {"refused"} \cup Faults
    [] OTHER             -> {"accepted"} \cup Faults

---------------------------------------------------------------------------
(* The handlers.                                                            *)

(* What an answer built from a row says: ok with the executed quantity, ok    *)
(* without one, refused, or not settled.                                     *)
ToldOf(r) ==
  CASE r.status = "done"   -> IF r.res.known THEN "bought" ELSE "taken"
    [] r.status = "failed" -> "refused"
    [] OTHER               -> "unclear"

Step(p, from, to) == pc[p] = from /\ pc' = [pc EXCEPT ![p] = to]

Answer(p, from, words) ==
  /\ Step(p, from, "end")
  /\ told' = [told EXCEPT ![p] = words]
  /\ UNCHANGED <<record, job, draft, market, oco, sold>>

(* What the handler is going to record.                                     *)
Verdict(p, v, res) == draft' = [draft EXCEPT ![p] = [status |-> v, res |-> res]]

(* A simple buy claims its id without looking first.                        *)
Arrive(p, k, c) ==
  /\ Step(p, "idle", IF k = "simple" THEN "claim" ELSE "look")
  /\ job' = [job EXCEPT ![p] = [kind |-> k, id |-> c]]
  /\ UNCHANGED <<record, draft, told, market, oco, sold>>

(* No row yet: plan the position, or refuse it before anything is recorded. *)
PlanPosition(p) ==
  /\ job[p].kind = "open" /\ record[job[p].id].status = "none"
  /\ Step(p, "look", "claim")
  /\ UNCHANGED <<record, job, draft, told, market, oco, sold>>

RefusePlan(p) ==
  /\ job[p].kind = "open" /\ record[job[p].id].status = "none"
  /\ Answer(p, "look", "invalid")

(* Mutant: an upsert.                                                       *)
ClaimAnyway(p) == TRUE

(* INSERT ... ON CONFLICT DO NOTHING: only one request gets a new row.       *)
MayClaim(p) == record[job[p].id].status = "none"

Claim(p) ==
  /\ Step(p, "claim", "send")
  /\ MayClaim(p)
  /\ record' = [record EXCEPT ![job[p].id] = [status |-> "in_progress", res |-> NoResult]]
  /\ UNCHANGED <<job, draft, told, market, oco, sold>>

(* The id is taken, seen at the first look or at the lost claim.            *)
Replay(p) ==
  /\ job[p].kind \in {"open", "simple"} /\ record[job[p].id].status # "none"
  /\ \E from \in {"look", "claim"} : Answer(p, from, ToldOf(record[job[p].id]))

SendOrder(p) ==
  /\ Step(p, "send", "wait")
  /\ market' = [market EXCEPT ![p] = "sent"]
  /\ UNCHANGED <<record, job, draft, told, oco, sold>>

(* The POST is answered with an order id.                                    *)
OrderAccepted(p) ==
  /\ "accepted" \in Outcomes(market[p])
  /\ Step(p, "wait", "poll")
  /\ UNCHANGED <<record, job, draft, told, market, oco, sold>>

(* Mutant: without a quantity in the detail the order counts as filled.      *)
AssumeFilled(state) == {"filled"} \cup ({state} \cap {"void"})

(* What the polls of the order's detail bring.  Errors are ignored and tries  *)
(* run out, so they may bring nothing of whatever order.                     *)
Readings(state) == {"nothing"} \cup ({state} \cap {"filled", "void"})

(* A fill, or nothing: the buy counts as done, with the quantity or without   *)
(* one.  A position is opened from a plan or not.                             *)
FillPolled(p) ==
  /\ \E r \in Readings(market[p]) \ {"void"}, b \in BOOLEAN :
       /\ b => job[p].kind = "open"
       /\ Verdict(p, "done", [NoResult EXCEPT !.known = (r = "filled"), !.planned = b])
  /\ Step(p, "poll", IF job[p].kind = "open" THEN "protect" ELSE "write")
  /\ UNCHANGED <<record, job, told, market, oco, sold>>

(* A final status without a fill is raised as an error, and not an ambiguous  *)
(* one.                                                                      *)
VoidPolled(p) ==
  /\ "void" \in Readings(market[p])
  /\ Verdict(p, "failed", NoResult)
  /\ Step(p, "poll", "write")
  /\ UNCHANGED <<record, job, told, market, oco, sold>>

(* Only an error classified as ambiguous is recorded as unknown.            *)
FailureVerdict(outcome) == IF outcome = "lost" THEN "unknown" ELSE "failed"

OrderFailed(p) ==
  /\ \E o \in Outcomes(market[p]) \ {"accepted"} : Verdict(p, FailureVerdict(o), NoResult)
  /\ Step(p, "wait", "write")
  /\ UNCHANGED <<record, job, told, market, oco, sold>>

(* _protect: without a known quantity no OCO is sent.                        *)
SkipOco(p) ==
  /\ ~draft[p].res.known
  /\ Step(p, "protect", "write")
  /\ Verdict(p, "done", [draft[p].res EXCEPT !.prot = "skipped"])
  /\ UNCHANGED <<record, job, told, market, oco, sold>>

SendOco(p) ==
  /\ draft[p].res.known
  /\ Step(p, "protect", "ocowait")
  /\ oco' = [oco EXCEPT ![p] = "sent"]
  /\ UNCHANGED <<record, job, draft, told, market, sold>>

(* Mutants: a lost answer counts as success; the raw outcome is recorded.   *)
LostIsPlaced(outcome) == IF outcome = "refused" THEN "failed" ELSE "placed"
RawOutcome(outcome)   == outcome

(* Whatever error the OCO call ends with is reported as "failed".           *)
ProtectionOf(outcome) == IF outcome = "accepted" THEN "placed" ELSE "failed"

OcoAnswered(p) ==
  /\ \E o \in Outcomes(oco[p]) :
       Verdict(p, "done", [draft[p].res EXCEPT !.prot = ProtectionOf(o)])
  /\ Step(p, "ocowait", "write")
  /\ UNCHANGED <<record, job, told, market, oco, sold>>

(* finish_order_request overwrites the status and the whole result.          *)
Finish(p) ==
  /\ Step(p, "write", "end")
  /\ record' = [record EXCEPT ![job[p].id] = draft[p]]
  /\ told' = [told EXCEPT ![p] = ToldOf(draft[p])]
  /\ UNCHANGED <<job, draft, market, oco, sold>>

(* protect_position reads the row once and later writes back what it read.   *)
MayProtect(p) ==
  LET r == record[job[p].id] IN r.status = "done" /\ r.res.prot # "placed"

StartProtect(p) ==
  /\ job[p].kind = "protect" /\ MayProtect(p)
  /\ Step(p, "look", "protect")
  /\ draft' = [draft EXCEPT ![p] = record[job[p].id]]
  /\ UNCHANGED <<record, job, told, market, oco, sold>>

DeclineProtect(p) ==
  /\ job[p].kind = "protect" /\ ~MayProtect(p)
  /\ LET r == record[job[p].id] IN
     Answer(p, "look", IF r.status = "done" THEN ToldOf(r) ELSE "invalid")

(* A database call raises, or the retry of an OCO cannot read the filters of *)
(* its symbol: the handler ends with a 500 and nothing recorded.            *)
HandlerRaises(p) ==
  /\ \E from \in {"look", "claim", "send", "write"}
                 \cup (IF job[p].kind = "protect" THEN {"protect"} ELSE {}) :
       Step(p, from, "dead")
  /\ UNCHANGED <<record, job, draft, told, market, oco, sold>>

(* Mutant: a restart that settles the rows it finds in progress.             *)
CrashAndFail ==
  /\ \E p \in Requests : pc[p] \notin {"idle", "end", "dead"}
  /\ pc' = [p \in Requests |-> IF pc[p] \in {"idle", "end"} THEN pc[p] ELSE "dead"]
  /\ record' = [c \in Ids |-> IF record[c].status = "in_progress"
                              THEN [record[c] EXCEPT !.status = "failed"] ELSE record[c]]
  /\ UNCHANGED <<job, draft, told, market, oco, sold>>

(* The server restarts: every running handler is gone, rows and orders stay. *)
Crash ==
  /\ \E p \in Requests : pc[p] \notin {"idle", "end", "dead"}
  /\ pc' = [p \in Requests |-> IF pc[p] \in {"idle", "end"} THEN pc[p] ELSE "dead"]
  /\ UNCHANGED <<record, job, draft, told, market, oco, sold>>

---------------------------------------------------------------------------

Init ==
  /\ record = [c \in Ids |-> NoRow]
  /\ pc     = [p \in Requests |-> "idle"]
  /\ job    = [p \in Requests |-> [kind |-> "none", id |-> Nil]]
  /\ draft  = [p \in Requests |-> NoRow]
  /\ told   = [p \in Requests |-> "nothing"]
  /\ market = [p \in Requests |-> "unsent"]
  /\ oco    = [p \in Requests |-> "unsent"]
  /\ sold   = 0

Handle(p) ==
  \/ PlanPosition(p) \/ RefusePlan(p) \/ Claim(p) \/ Replay(p)
  \/ SendOrder(p) \/ OrderAccepted(p) \/ OrderFailed(p)
  \/ FillPolled(p) \/ VoidPolled(p)
  \/ SkipOco(p) \/ SendOco(p) \/ OcoAnswered(p) \/ Finish(p)
  \/ StartProtect(p) \/ DeclineProtect(p)

Exchange(p) ==
  \/ TakeOrder(p) \/ RejectOrder(p) \/ ExecuteOrder(p) \/ VoidOrder(p)
  \/ RestOco(p) \/ RejectOco(p) \/ LeaveOco(p)

Next ==
  \/ \E p \in Requests, k \in Kinds, c \in Ids : Arrive(p, k, c)
  \/ \E p \in Requests : Handle(p) \/ Exchange(p) \/ HandlerRaises(p)
  \/ SellByHand
  \/ Crash

(* Coroutines are scheduled, database calls return or raise, and every call  *)
(* of the exchange ends by its timeout.                                      *)
Fairness == \A p \in Requests : WF_vars(Handle(p))

Spec == Init /\ [][Next]_vars /\ Fairness

---------------------------------------------------------------------------
(* Properties.                                                              *)

(* However requests with one id interleave, and whatever was lost or        *)
(* restarted between them, at most one of them sends a market order.        *)
AtMostOneOrder ==
  \A p, q \in Requests :
    /\ market[p] # "unsent" /\ market[q] # "unsent"
    /\ job[p].id = job[q].id
    => p = q

(* An answer says no more than the exchange did, at once or when replayed:    *)
(* ok with a quantity is said only of an executed order, ok without one only  *)
(* of an order that the exchange took (it may execute later, or never), and   *)
(* a refusal only of an id whose order will never execute, so that the client *)
(* may safely use a new id.                                                  *)
ToldTruth ==
  \A p \in Requests :
    /\ told[p] = "bought"  => Executed(job[p].id)
    /\ told[p] = "taken"   => Taken(job[p].id)
    /\ told[p] = "refused" => ~MayBuy(job[p].id)

(* A row says "placed" only if the exchange accepted an OCO of that position, *)
(* also when handlers write back a result that others have since replaced.   *)
PlacedIsReal ==
  \A c \in Ids : record[c].res.prot = "placed" =>
    \E p \in Requests : job[p].id = c /\ oco[p] \in {"resting", "sold", "cancelled"}

(* The row of every id keeps the promise of OrderOnce.                       *)
StatusOf(r) ==
  IF r.status = "done" THEN (IF r.res.known THEN "bought" ELSE "accepted") ELSE r.status

Once == INSTANCE OrderOnce WITH
          status   <- [c \in Ids |-> StatusOf(record[c])],
          taken    <- {c \in Ids : Taken(c)},
          executed <- {c \in Ids : Executed(c)},
          void     <- {c \in Ids : Void(c)}

OrderOnceSpec == Once!Spec

(* An id does not stay "in_progress" unless its handler died.                *)
EveryClaimSettles ==
  \A c \in Ids : record[c].status = "in_progress" ~>
    \/ record[c].status # "in_progress"
    \/ \E p \in Requests : job[p].id = c /\ pc[p] = "dead"

(* Claim of open_position.py: a position is protected at most once.          *)
OneProtection ==
  \A p, q \in Requests :
    /\ oco[p] \in {"resting", "sold"} /\ oco[q] \in {"resting", "sold"}
    /\ job[p].id = job[q].id
    => p = q

(* Claim of order_requests.py: "failed" is a certain failure.                *)
FailedIsCertain == \A c \in Ids : record[c].status = "failed" => ~MayBuy(c)
=============================================================================
