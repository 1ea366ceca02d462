---------------------------- MODULE PushDelivery ----------------------------
(***************************************************************************)
(* Web push: the daily counter behind "one push per coin and day", through  *)
(* which every coroutine sends (deliver_web_push), and the queue of pushes   *)
(* deferred by the quiet hours, which one loop flushes through the same      *)
(* gate and which a scan saves with the runtime state.                      *)
(*                                                                          *)
(* Counting, sending and giving back are separate awaits.  Sending to the    *)
(* devices is one step: it reaches one of them at least, or none.           *)
(***************************************************************************)
EXTENDS Integers, FiniteSets, Sequences, SequencesExt

CONSTANTS
  Symbols,
  Direct,        (* coroutines that send at once                            *)
  Flusher,       (* _flush_deferred_push                                    *)
  Ids,           (* bound: notifications that wait at one time              *)
  Nil,
  MaxLen,        (* deque(maxlen=100)                                       *)
  Ttl,           (* the horizon of a notification, with its tolerance       *)
  LastDay,       (* bound: midnights                                        *)
  MaxCount       (* bound: no call starts when a counter stands here        *)

ASSUME PushAssumption ==
  /\ {MaxLen, Ttl, LastDay, MaxCount} \subseteq Nat /\ MaxLen > 0
  /\ IsFiniteSet(Direct) /\ Flusher \notin Direct /\ Nil \notin Ids \cup Symbols

VARIABLES
  day,           (* the Istanbul calendar day                               *)
  count,         (* push_daily_counter                                      *)
  call,          (* deliver_web_push, per coroutine                         *)
  queue,         (* _deferred_push                                          *)
  sym, age,      (* of the notifications                                    *)
  flush,         (* _flush_deferred_push                                    *)
  store,         (* deferred_push of the saved runtime state                *)
  delivered,     (* history: counted pushes that reached a device           *)
  lost,          (* history: counts that were never given back              *)
  astray         (* history: a count of another day was given back here     *)

sent == <<delivered, lost, astray>>
vars == <<day, count, call, queue, sym, age, flush, store, sent>>

Days == 0..LastDay
Callers == Direct \cup {Flusher}
PerDay(S) == [Symbols -> [Days -> S]]

Resting == [at |-> "idle", sym |-> Nil, day |-> 0, counted |-> FALSE, refused |-> FALSE]
Asleep == [on |-> FALSE, stale |-> {}, hand |-> Nil, left |-> <<>>]

Waiting == ToSet(queue) \cup ToSet(flush.left) \cup ({flush.hand} \ {Nil})

Seqs == UNION {[1..n -> Ids] : n \in 0..MaxLen}

PushTypeOK ==
  /\ day \in Days /\ count \in PerDay(Nat)
  /\ call \in [Callers -> [at : {"idle", "sending", "returning"}, sym : Symbols \cup {Nil},
                           day : Days, counted : BOOLEAN, refused : BOOLEAN]]
  /\ {queue, store} \subseteq Seqs
  /\ sym \in [Ids -> Symbols] /\ age \in [Ids -> 0..Ttl + 1]
  /\ flush \in [on : BOOLEAN, stale : SUBSET Ids, hand : Ids \cup {Nil}, left : Seqs]
  /\ delivered \in PerDay(Nat) /\ lost \in PerDay(Nat) /\ astray \in PerDay(BOOLEAN)

(* append and extend of a deque(maxlen): the oldest element gives way.       *)
Appended(s, i) == IF Len(s) = MaxLen THEN Append(Tail(s), i) ELSE Append(s, i)

---------------------------------------------------------------------------
(* deliver_web_push.                                                        *)

(* Mutant: the first push of the day is already one too many.               *)
OverLimitEarly(n) == n > 0
OverLimit(n) == n > 1

(* The counter is raised and read in one statement, then the limit is        *)
(* looked at.                                                               *)
Ask(x, s) ==
  LET n == count[s][day] + 1
  IN  /\ call[x].at = "idle" /\ count[s][day] < MaxCount
      /\ count' = [count EXCEPT ![s][day] = n]
      /\ call' = [call EXCEPT ![x] =
           [at |-> IF OverLimit(n) THEN "returning" ELSE "sending", sym |-> s, day |-> day,
            counted |-> TRUE, refused |-> OverLimit(n)]]
      /\ UNCHANGED <<day, queue, sym, age, flush, store, sent>>

(* The counter fails, or the symbol is not a coin ("ALERT"): the push goes    *)
(* out without a number.                                                    *)
AskUncounted(x, s) ==
  /\ call[x].at = "idle"
  /\ call' = [call EXCEPT ![x] = [Resting EXCEPT !.at = "sending", !.sym = s]]
  /\ UNCHANGED <<day, count, queue, sym, age, flush, store, sent>>

(* What the flush does with the answer: a push that failed is tried again.   *)
Answered(x, kept) ==
  /\ call' = [call EXCEPT ![x] = Resting]
  /\ flush' = IF x # Flusher THEN flush
              ELSE [flush EXCEPT !.hand = Nil,
                                 !.left = IF kept THEN Appended(@, flush.hand) ELSE @]

(* Mutant: a push that did not reach every device gives its count back.      *)
ReachesSome(x) ==
  /\ call[x].at = "sending" /\ call[x].counted
  /\ delivered' = [delivered EXCEPT ![call[x].sym][call[x].day] = @ + 1]
  /\ call' = [call EXCEPT ![x].at = "returning"]
  /\ UNCHANGED <<day, count, queue, sym, age, flush, store, lost, astray>>

Reaches(x) ==
  /\ call[x].at = "sending"
  /\ delivered' = IF call[x].counted
                    THEN [delivered EXCEPT ![call[x].sym][call[x].day] = @ + 1] ELSE delivered
  /\ Answered(x, FALSE)
  /\ UNCHANGED <<day, count, queue, sym, age, store, lost, astray>>

ReachesNobody(x) ==
  /\ call[x].at = "sending"
  /\ IF call[x].counted
       THEN call' = [call EXCEPT ![x].at = "returning"] /\ UNCHANGED flush
       ELSE Answered(x, TRUE)
  /\ UNCHANGED <<day, count, queue, sym, age, store, sent>>

(* Mutant: a count below zero.                                              *)
LowerUnguarded(c) == c - 1
Lower(c) == IF c > 0 THEN c - 1 ELSE 0

(* Mutant: a push that was refused keeps its count.                         *)
GiveBackFailed(x) ==
  /\ call[x].at = "returning"
  /\ count' = IF call[x].refused THEN count
              ELSE [count EXCEPT ![call[x].sym][day] = Lower(@)]
  /\ Answered(x, ~call[x].refused)
  /\ UNCHANGED <<day, queue, sym, age, store, sent>>

(* _release_count_safe gives back to the day it is now, not to the day of    *)
(* the count.                                                               *)
GiveBack(x) ==
  LET c == call[x]
  IN  /\ c.at = "returning"
      /\ count' = [count EXCEPT ![c.sym][day] = Lower(@)]
      /\ IF c.day = day THEN UNCHANGED <<lost, astray>>
         ELSE /\ lost' = [lost EXCEPT ![c.sym][c.day] = @ + 1]
              /\ astray' = [astray EXCEPT ![c.sym][day] = @ \/ count[c.sym][day] > 0]
      /\ Answered(x, ~c.refused)
      /\ UNCHANGED <<day, queue, sym, age, store, delivered>>

GiveBackFails(x) ==
  /\ call[x].at = "returning"
  /\ lost' = [lost EXCEPT ![call[x].sym][call[x].day] = @ + 1]
  /\ Answered(x, ~call[x].refused)
  /\ UNCHANGED <<day, count, queue, sym, age, store, delivered, astray>>

---------------------------------------------------------------------------
(* The quiet hours.                                                         *)

(* A notification of the quiet hours, or of a scan that found them before    *)
(* they ended.                                                              *)
Defer(i, s) ==
  /\ i \notin Waiting \cup ToSet(store)
  /\ queue' = Appended(queue, i)
  /\ sym' = [sym EXCEPT ![i] = s] /\ age' = [age EXCEPT ![i] = 0]
  /\ UNCHANGED <<day, count, call, flush, store, sent>>

(* Mutant: the age of a notification is not looked at.                      *)
NoneStale == {}
Stale == {i \in ToSet(queue) : age[i] > Ttl}

BeginFlush ==
  /\ ~flush.on /\ queue # <<>>
  /\ flush' = [Asleep EXCEPT !.on = TRUE, !.stale = Stale]
  /\ UNCHANGED <<day, count, call, queue, sym, age, store, sent>>

(* Mutant: a notification stays in the queue while it is sent.              *)
PeekNext ==
  /\ flush.on /\ flush.hand = Nil /\ queue # <<>>
  /\ flush' = [flush EXCEPT !.hand = IF Head(queue) \in flush.stale THEN Nil ELSE Head(queue)]
  /\ queue' = IF Head(queue) \in flush.stale THEN Tail(queue) ELSE queue
  /\ UNCHANGED <<day, count, call, sym, age, store, sent>>

TakeNext ==
  /\ flush.on /\ flush.hand = Nil /\ queue # <<>>
  /\ flush' = [flush EXCEPT !.hand = IF Head(queue) \in flush.stale THEN Nil ELSE Head(queue)]
  /\ queue' = Tail(queue)
  /\ UNCHANGED <<day, count, call, sym, age, store, sent>>

InHand == flush.hand # Nil /\ call[Flusher].at = "idle"

(* The policy looks at a notification before its first attempt; which        *)
(* attempt this is, is left open.                                           *)
DropByPolicy ==
  /\ InHand
  /\ flush' = [flush EXCEPT !.hand = Nil]
  /\ UNCHANGED <<day, count, call, queue, sym, age, store, sent>>

(* No key, no subscription: nothing can be sent now.                        *)
Keep ==
  /\ InHand
  /\ flush' = [flush EXCEPT !.hand = Nil, !.left = Appended(@, flush.hand)]
  /\ UNCHANGED <<day, count, call, queue, sym, age, store, sent>>

Attempt == InHand /\ (Ask(Flusher, sym[flush.hand]) \/ AskUncounted(Flusher, sym[flush.hand]))

EndFlush ==
  /\ flush.on /\ flush.hand = Nil /\ queue = <<>>
  /\ queue' = flush.left /\ flush' = Asleep
  /\ UNCHANGED <<day, count, call, sym, age, store, sent>>

(* A flush that finds notifications disabled.                               *)
Disabled ==
  /\ ~flush.on /\ queue # <<>>
  /\ queue' = <<>>
  /\ UNCHANGED <<day, count, call, sym, age, flush, store, sent>>

(* The endpoint that resets notifications: what a flush has already taken    *)
(* out comes back.                                                          *)
ResetQueue ==
  /\ queue' = <<>> /\ store' = <<>>
  /\ UNCHANGED <<day, count, call, sym, age, flush, sent>>

(* _persist_runtime_state, by the scan of the loop or by one that was asked   *)
(* for during a flush: what a flush has taken out is not in it.             *)
Persist ==
  /\ store' = queue
  /\ UNCHANGED <<day, count, call, queue, sym, age, flush, sent>>

---------------------------------------------------------------------------
Midnight ==
  /\ day < LastDay /\ day' = day + 1
  /\ UNCHANGED <<count, call, queue, sym, age, flush, store, sent>>

TimePasses ==
  /\ \E i \in Waiting : age[i] <= Ttl
  /\ age' = [i \in Ids |-> IF i \in Waiting \cup ToSet(store) /\ age[i] <= Ttl
                             THEN age[i] + 1 ELSE age[i]]
  /\ UNCHANGED <<day, count, call, queue, sym, flush, store, sent>>

Holding(s, d) == {x \in Callers : call[x].counted /\ call[x].sym = s /\ call[x].day = d}

Restart ==
  /\ lost' = [s \in Symbols |-> [d \in Days |-> lost[s][d] + Cardinality(Holding(s, d))]]
  /\ call' = [x \in Callers |-> Resting]
  /\ queue' = store /\ flush' = Asleep
  /\ UNCHANGED <<day, count, sym, age, store, delivered, astray>>

Init ==
  /\ day = 0
  /\ count = [s \in Symbols |-> [d \in Days |-> 0]]
  /\ call = [x \in Callers |-> Resting]
  /\ queue = <<>> /\ store = <<>> /\ flush = Asleep
  /\ sym \in [Ids -> Symbols] /\ age = [i \in Ids |-> 0]
  /\ delivered = count /\ lost = count
  /\ astray = [s \in Symbols |-> [d \in Days |-> FALSE]]

Deliver(x) == Reaches(x) \/ ReachesNobody(x) \/ GiveBack(x) \/ GiveBackFails(x)
FlushStep == TakeNext \/ DropByPolicy \/ Keep \/ Attempt \/ EndFlush

Ordinary ==
  \/ \E x \in Direct, s \in Symbols : Ask(x, s) \/ AskUncounted(x, s)
  \/ \E x \in Callers : Deliver(x)
  \/ ~flush.on /\ \E i \in Ids, s \in Symbols : Defer(i, s)
  \/ BeginFlush \/ FlushStep
  \/ Disabled \/ ResetQueue \/ Persist
  \/ Midnight \/ TimePasses

Next ==
  \/ Ordinary
  \/ flush.on /\ \E i \in Ids, s \in Symbols : Defer(i, s)
  \/ Restart

(* The quiet hours end, so that the loop comes to flush; time passes; calls  *)
(* of the database and of the push services return.                         *)
Fairness ==
  /\ WF_vars(BeginFlush) /\ WF_vars(FlushStep) /\ WF_vars(TimePasses)
  /\ WF_vars(Deliver(Flusher))

Spec == Init /\ [][Next]_vars /\ Fairness

---------------------------------------------------------------------------
(* The counter of a coin and day is the number of pushes that were counted   *)
(* on it and delivered, plus those under way, plus those whose count was     *)
(* never given back: no race of counting, refusing, failing and giving back  *)
(* drifts - unless a push of yesterday was given back today.                *)
CounterExact ==
  \A s \in Symbols, d \in Days :
    ~astray[s][d] => count[s][d] = delivered[s][d] + Cardinality(Holding(s, d)) + lost[s][d]

(* "Bugunun 1. push'u gider; sayac >1 ise gonderilmez": of the counted       *)
(* pushes of a coin one a day is delivered, also when one waited in the      *)
(* queue, and also when a restart brought it back after it was sent.        *)
OncePerDay == \A s \in Symbols, d \in Days : ~astray[s][d] => delivered[s][d] <= 1

(* A deferred notification is in one place only.                            *)
OneCopy ==
  /\ IsInjective(queue \o flush.left)
  /\ flush.hand \notin ToSet(queue \o flush.left)

(* Nobody is refused for nothing: when a push is refused, another one of the *)
(* coin was delivered, is under way or was lost on that day.                *)
SilenceHasCause ==
  [][\A x \in Callers : ~call[x].refused /\ call'[x].refused =>
       LET s == call'[x].sym
       IN  \/ astray[s][day] \/ delivered[s][day] + lost[s][day] > 0
           \/ Holding(s, day) # {}]_vars

(* Every deferred notification is sent, refused, dropped or too old in the   *)
(* end - as long as no restart brings it back, and nobody keeps feeding a    *)
(* flush that is under way.                                                 *)
EveryItemEnds == <>[][Ordinary]_vars => \A i \in Ids : i \in Waiting ~> i \notin Waiting
=============================================================================
