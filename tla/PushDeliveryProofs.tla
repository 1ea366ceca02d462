------------------------- MODULE PushDeliveryProofs -------------------------
(***************************************************************************)
(* Proofs about PushDelivery for any coins, coroutines, notifications and    *)
(* days.  A push is only sent by the one that raised the counter from zero,  *)
(* and the counter is zero only while nothing of the coin is delivered or    *)
(* under way; and a notification is moved, never copied.                     *)
(***************************************************************************)
EXTENDS PushDelivery, FiniteSetTheorems, TLAPS

Calls == [at : {"idle", "sending", "returning"}, sym : Symbols \cup {Nil},
          day : Days, counted : BOOLEAN, refused : BOOLEAN]

Flushes == [on : BOOLEAN, stale : SUBSET Ids, hand : Ids \cup {Nil}, left : Seqs]

(* A count is held from the answer of the counter until it is delivered,     *)
(* given back or lost.                                                       *)
Shaped ==
  \A x \in Callers :
    /\ call[x].at = "idle" => ~call[x].counted
    /\ call[x].at = "returning" => call[x].counted
    /\ call[x].counted => call[x].sym \in Symbols
    /\ call[x].refused => call[x].at = "returning"

Sending(s, d) == {x \in Holding(s, d) : call[x].at = "sending"}

(* Of a coin and day one push is sent or delivered.                          *)
OneAtATime ==
  \A s \in Symbols, d \in Days : ~astray[s][d] =>
    /\ delivered[s][d] <= 1
    /\ delivered[s][d] = 1 => Sending(s, d) = {}
    /\ \A x, y \in Sending(s, d) : x = y

Counting == Shaped /\ CounterExact /\ OneAtATime

(* The flush sends only what it holds, and holds nothing when it is off.      *)
Handed ==
  /\ call[Flusher].at # "idle" => flush.hand \in Ids
  /\ ~flush.on => flush.hand = Nil /\ flush.left = <<>>

Queueing == OneCopy /\ IsInjective(store) /\ Handed

PushInv == PushTypeOK /\ Counting /\ Queueing
---------------------------------------------------------------------------
(* Sequences.                                                                *)

LEMMA Parameters ==
  /\ MaxLen \in Nat /\ MaxLen > 0 /\ Ttl \in Nat /\ LastDay \in Nat /\ MaxCount \in Nat
  /\ IsFiniteSet(Direct) /\ Nil \notin Ids /\ Nil \notin Symbols
  /\ IsFiniteSet(Callers) /\ Flusher \in Callers
<1>1. IsFiniteSet(Direct)
  BY PushAssumption
<1>2. IsFiniteSet(Callers) /\ Flusher \in Callers
  BY <1>1, FS_AddElement DEF Callers
<1>3. QED
  BY <1>2, PushAssumption

LEMMA SeqsAre == ASSUME NEW s PROVE s \in Seqs <=> s \in Seq(Ids) /\ Len(s) <= MaxLen
<1>1. ASSUME s \in Seqs PROVE s \in Seq(Ids) /\ Len(s) <= MaxLen
  BY <1>1, Parameters DEF Seqs
<1>2. ASSUME s \in Seq(Ids), Len(s) <= MaxLen PROVE s \in Seqs
  <2>1. s \in [1..Len(s) -> Ids] /\ Len(s) \in 0..MaxLen
    BY <1>2, Parameters
  <2>2. QED
    BY <2>1 DEF Seqs
<1>3. QED
  BY <1>1, <1>2

LEMMA NoneInSeq ==
  ASSUME NEW e, e = <<>>
  PROVE  e \in Seqs /\ IsInjective(e) /\ ToSet(e) = {}
<1>1. e \in Seq(Ids) /\ Len(e) = 0
  OBVIOUS
<1>2. e \in Seqs
  <2>1. Len(e) <= MaxLen
    BY <1>1, Parameters
  <2>2. e \in Seq(Ids)
    BY <1>1
  <2>3. QED
    BY <2>1, <2>2, SeqsAre, Zenon
<1>3. DOMAIN e = {}
  <2>1. DOMAIN e = 1..Len(e) /\ 1..0 = {}
    BY <1>1
  <2>2. QED
    BY <1>1, <2>1
<1>4. IsInjective(e) /\ ToSet(e) = {}
  BY <1>3, Zenon DEF IsInjective, ToSet
<1>5. QED
  BY <1>2, <1>4

LEMMA AppendedSeq ==
  ASSUME NEW s \in Seqs, NEW i \in Ids, IsInjective(s), i \notin ToSet(s)
  PROVE  /\ Appended(s, i) \in Seqs /\ IsInjective(Appended(s, i))
         /\ ToSet(Appended(s, i)) \subseteq ToSet(s) \cup {i}
<1>1. s \in Seq(Ids) /\ Len(s) <= MaxLen /\ Len(s) \in Nat
  BY SeqsAre
<1>1a. Len(s) = MaxLen => Tail(s) \in Seq(Ids)
  BY <1>1, Parameters
<1>2. PICK t : t \in Seq(Ids) /\ t = IF Len(s) = MaxLen THEN Tail(s) ELSE s
  BY <1>1, <1>1a, Zenon
<1>3. Appended(s, i) = Append(t, i)
  BY <1>2 DEF Appended
<1>4. Len(t) \in Nat /\ Len(t) < MaxLen
  BY <1>1, <1>1a, <1>2, Parameters
<1>5. IsInjective(t) /\ ToSet(t) \subseteq ToSet(s)
  <2>1. CASE Len(s) = MaxLen
    <3>1. t = Tail(s) /\ Len(t) = Len(s) - 1 /\ \A k \in 1..Len(t) : t[k] = s[k + 1] /\ k + 1 \in 1..Len(s)
      BY <1>1, <1>2, <2>1, Parameters
    <3>2. DOMAIN t = 1..Len(t) /\ DOMAIN s = 1..Len(s)
      BY <1>1
    <3>3. QED
      BY <1>1, <1>4, <3>1, <3>2 DEF IsInjective, ToSet
  <2>2. CASE Len(s) # MaxLen
    BY <1>2, <2>2
  <2>3. QED
    BY <2>1, <2>2
<1>5a. Append(t, i) \in Seq(Ids)
  BY <1>2
<1>6. PICK u : u \in Seq(Ids) /\ u = Append(t, i)
  BY <1>5a, Zenon
<1>7. /\ DOMAIN u = 1..Len(t) + 1 /\ DOMAIN t = 1..Len(t) /\ Len(u) = Len(t) + 1
      /\ u[Len(t) + 1] = i /\ \A k \in 1..Len(t) : u[k] = t[k]
  BY <1>2, <1>6
<1>8. u \in Seqs
  <2>1. Len(u) <= MaxLen
    BY <1>4, <1>7, Parameters
  <2>2. QED
    BY <1>6, <2>1, SeqsAre
<1>9. i \notin ToSet(t)
  BY <1>5
<1>10. IsInjective(u)
  BY <1>4, <1>5, <1>7, <1>9 DEF IsInjective, ToSet
<1>11. ToSet(u) \subseteq ToSet(t) \cup {i}
  BY <1>4, <1>7 DEF ToSet
<1>12. QED
  BY <1>3, <1>5, <1>6, <1>8, <1>10, <1>11

LEMMA TailSeq ==
  ASSUME NEW s \in Seqs, s # <<>>, IsInjective(s)
  PROVE  /\ Head(s) \in Ids /\ Head(s) \in ToSet(s)
         /\ Tail(s) \in Seqs /\ IsInjective(Tail(s)) /\ ToSet(Tail(s)) \subseteq ToSet(s) \ {Head(s)}
<1>1. s \in Seq(Ids) /\ Len(s) <= MaxLen /\ Len(s) \in Nat /\ Len(s) > 0
  BY SeqsAre
<1>1a. Tail(s) \in Seq(Ids)
  BY <1>1
<1>2. PICK t : t \in Seq(Ids) /\ t = Tail(s)
  BY <1>1a, Zenon
<1>3. /\ Len(t) = Len(s) - 1 /\ DOMAIN t = 1..Len(t) /\ DOMAIN s = 1..Len(s)
      /\ \A k \in 1..Len(t) : t[k] = s[k + 1] /\ k + 1 \in 1..Len(s)
      /\ Head(s) = s[1] /\ 1 \in 1..Len(s)
  BY <1>1, <1>2
<1>4. t \in Seqs
  <2>1. Len(t) <= MaxLen
    BY <1>1, <1>3, Parameters
  <2>2. QED
    BY <1>2, <2>1, SeqsAre
<1>5. IsInjective(t)
  BY <1>1, <1>3 DEF IsInjective
<1>6. ToSet(t) \subseteq ToSet(s) \ {s[1]}
  BY <1>1, <1>3 DEF ToSet, IsInjective
<1>7. Head(s) \in Ids /\ Head(s) \in ToSet(s)
  BY <1>1, <1>3 DEF ToSet
<1>8. QED
  BY <1>2, <1>3, <1>4, <1>5, <1>6, <1>7

(* Two sequences in a row repeat nothing: neither of them does, nor do they   *)
(* share anything.                                                           *)
LEMMA InARow ==
  ASSUME NEW q \in Seqs, NEW l \in Seqs
  PROVE  /\ ToSet(q \o l) = ToSet(q) \cup ToSet(l)
         /\ IsInjective(q \o l) <=> IsInjective(q) /\ IsInjective(l) /\ ToSet(q) \cap ToSet(l) = {}
<1>1. q \in Seq(Ids) /\ l \in Seq(Ids) /\ Len(q) \in Nat /\ Len(l) \in Nat
  BY SeqsAre
<1>1a. q \o l \in Seq(Ids)
  BY <1>1
<1>2. PICK u : u \in Seq(Ids) /\ u = q \o l
  BY <1>1a, Zenon
<1>3. /\ DOMAIN u = 1..Len(q) + Len(l) /\ DOMAIN q = 1..Len(q) /\ DOMAIN l = 1..Len(l)
      /\ \A k \in 1..Len(q) : u[k] = q[k] /\ k \in 1..Len(q) + Len(l)
      /\ \A k \in 1..Len(l) : u[Len(q) + k] = l[k] /\ Len(q) + k \in 1..Len(q) + Len(l)
      /\ \A k \in 1..Len(q) + Len(l) : k \in 1..Len(q) \/ \E j \in 1..Len(l) : k = Len(q) + j
  <2>1. DOMAIN u = 1..Len(q) + Len(l) /\ DOMAIN q = 1..Len(q) /\ DOMAIN l = 1..Len(l)
    BY <1>1, <1>2
  <2>2. \A k \in 1..Len(q) : u[k] = q[k] /\ k \in 1..Len(q) + Len(l)
    BY <1>1, <1>2
  <2>3. \A k \in 1..Len(l) : u[Len(q) + k] = l[k] /\ Len(q) + k \in 1..Len(q) + Len(l)
    BY <1>1, <1>2
  <2>4. ASSUME NEW k \in 1..Len(q) + Len(l), k \notin 1..Len(q)
        PROVE  \E j \in 1..Len(l) : k = Len(q) + j
    <3>1. k - Len(q) \in 1..Len(l) /\ k = Len(q) + (k - Len(q))
      BY <1>1, <2>4
    <3>2. QED
      BY <3>1
  <2>5. QED
    BY <2>1, <2>2, <2>3, <2>4
<1>4. ToSet(u) = ToSet(q) \cup ToSet(l)
  <2>1. ASSUME NEW k \in DOMAIN u PROVE u[k] \in ToSet(q) \cup ToSet(l)
    <3>1. CASE k \in 1..Len(q)
      BY <1>3, <3>1 DEF ToSet
    <3>2. CASE k \notin 1..Len(q)
      <4>1. PICK j \in 1..Len(l) : k = Len(q) + j
        BY <1>3, <3>2
      <4>2. QED
        BY <1>3, <4>1 DEF ToSet
    <3>3. QED
      BY <3>1, <3>2
  <2>2. \A k \in DOMAIN q : q[k] \in ToSet(u)
    BY <1>3 DEF ToSet
  <2>3. ASSUME NEW k \in DOMAIN l PROVE l[k] \in ToSet(u)
    <3>1. PICK j \in DOMAIN u : u[j] = l[k]
      BY <1>3
    <3>2. QED
      BY <3>1 DEF ToSet
  <2>4. QED
    BY <2>1, <2>2, <2>3 DEF ToSet
<1>5. ASSUME IsInjective(u) PROVE IsInjective(q) /\ IsInjective(l) /\ ToSet(q) \cap ToSet(l) = {}
  <2>1. IsInjective(q)
    BY <1>3, <1>5, Zenon DEF IsInjective
  <2>2. IsInjective(l)
    <3>1. SUFFICES ASSUME NEW k \in 1..Len(l), NEW j \in 1..Len(l), l[k] = l[j] PROVE k = j
      BY <1>3 DEF IsInjective
    <3>2. PICK m \in DOMAIN u, n \in DOMAIN u : m = Len(q) + k /\ n = Len(q) + j /\ u[m] = l[k] /\ u[n] = l[j]
      BY <1>3
    <3>3. m = n
      BY <1>5, <3>1, <3>2 DEF IsInjective
    <3>4. QED
      BY <1>1, <3>2, <3>3
  <2>3. ASSUME NEW k \in 1..Len(q), NEW j \in 1..Len(l), q[k] = l[j] PROVE FALSE
    <3>1. k = Len(q) + j
      BY <1>3, <1>5, <2>3 DEF IsInjective
    <3>2. QED
      BY <1>1, <3>1
  <2>4. QED
    BY <1>3, <2>1, <2>2, <2>3 DEF ToSet
<1>6. ASSUME IsInjective(q), IsInjective(l), ToSet(q) \cap ToSet(l) = {} PROVE IsInjective(u)
  <2>1. \A k \in 1..Len(q), j \in 1..Len(l) : q[k] # l[j]
    BY <1>3, <1>6 DEF ToSet
  <2>2. SUFFICES ASSUME NEW k \in DOMAIN u, NEW j \in DOMAIN u, u[k] = u[j] PROVE k = j
    BY DEF IsInjective
  <2>3. CASE k \in 1..Len(q) /\ j \in 1..Len(q)
    BY <1>3, <1>6, <2>2, <2>3 DEF IsInjective
  <2>4. CASE k \in 1..Len(q) /\ j \notin 1..Len(q)
    BY <1>3, <2>1, <2>2, <2>4
  <2>5. CASE k \notin 1..Len(q) /\ j \in 1..Len(q)
    BY <1>3, <2>1, <2>2, <2>5
  <2>6. CASE k \notin 1..Len(q) /\ j \notin 1..Len(q)
    <3>1. PICK m \in 1..Len(l), n \in 1..Len(l) : k = Len(q) + m /\ j = Len(q) + n
      BY <1>3, <2>6
    <3>2. l[m] = l[n]
      BY <1>3, <2>2, <3>1
    <3>3. m = n
      BY <1>3, <1>6, <3>2 DEF IsInjective
    <3>4. QED
      BY <3>1, <3>3
  <2>7. QED
    BY <2>3, <2>4, <2>5, <2>6
<1>7. QED
  BY <1>2, <1>4, <1>5, <1>6

(* A notification is in one place only, said of each place.                   *)
LEMMA Copies ==
  ASSUME queue \in Seqs, flush.left \in Seqs
  PROVE  OneCopy <=> /\ IsInjective(queue) /\ IsInjective(flush.left)
                     /\ ToSet(queue) \cap ToSet(flush.left) = {}
                     /\ flush.hand \notin ToSet(queue) /\ flush.hand \notin ToSet(flush.left)
<1>1. PICK q \in Seqs, l \in Seqs : q = queue /\ l = flush.left
  OBVIOUS
<1>2. QED
  BY <1>1, InARow DEF OneCopy

LEMMA CopiesNext ==
  ASSUME queue' \in Seqs, flush'.left \in Seqs
  PROVE  OneCopy' <=> /\ IsInjective(queue') /\ IsInjective(flush'.left)
                      /\ ToSet(queue') \cap ToSet(flush'.left) = {}
                      /\ flush'.hand \notin ToSet(queue') /\ flush'.hand \notin ToSet(flush'.left)
<1>1. PICK q \in Seqs, l \in Seqs : q = queue' /\ l = flush'.left
  OBVIOUS
<1>2. QED
  BY <1>1, InARow DEF OneCopy
---------------------------------------------------------------------------
(* Counting.                                                                 *)

LEMMA HoldingFinite ==
  ASSUME NEW s \in Symbols, NEW d \in Days
  PROVE  IsFiniteSet(Holding(s, d)) /\ Cardinality(Holding(s, d)) \in Nat
BY Parameters, FS_Subset, FS_CardinalityType DEF Holding

LEMMA HoldingFiniteNext ==
  ASSUME NEW s \in Symbols, NEW d \in Days
  PROVE  IsFiniteSet(Holding(s, d)') /\ Cardinality(Holding(s, d)') \in Nat
BY Parameters, FS_Subset, FS_CardinalityType DEF Holding

(* One call changes: what it held and holds is all that differs.             *)
LEMMA HoldingMoves ==
  ASSUME NEW x \in Callers, \A y \in Callers \ {x} : call'[y] = call[y],
         NEW s \in Symbols, NEW d \in Days
  PROVE  /\ (x \in Holding(s, d)' <=> x \in Holding(s, d)) =>
              Holding(s, d)' = Holding(s, d) /\ Cardinality(Holding(s, d)') = Cardinality(Holding(s, d))
         /\ (x \in Holding(s, d)' /\ x \notin Holding(s, d)) =>
              Cardinality(Holding(s, d)') = Cardinality(Holding(s, d)) + 1
         /\ (x \notin Holding(s, d)' /\ x \in Holding(s, d)) =>
              Cardinality(Holding(s, d)') = Cardinality(Holding(s, d)) - 1
<1>1. PICK H : H = Holding(s, d)
  OBVIOUS
<1>2. PICK G : G = Holding(s, d)'
  OBVIOUS
<1>3. \A y : y # x => (y \in G <=> y \in H)
  BY <1>1, <1>2 DEF Holding
<1>4. IsFiniteSet(H)
  BY <1>1, HoldingFinite
<1>5. CASE x \in G <=> x \in H
  <2>1. G = H
    BY <1>3, <1>5
  <2>2. QED
    BY <1>1, <1>2, <1>5, <2>1
<1>6. CASE x \in G /\ x \notin H
  <2>1. G = H \cup {x}
    BY <1>3, <1>6
  <2>2. Cardinality(G) = Cardinality(H) + 1
    BY <1>4, <1>6, <2>1, FS_AddElement
  <2>3. QED
    BY <1>1, <1>2, <1>6, <2>2
<1>7. CASE x \notin G /\ x \in H
  <2>1. G = H \ {x}
    BY <1>3, <1>7
  <2>2. Cardinality(G) = Cardinality(H) - 1
    BY <1>4, <1>7, <2>1, FS_RemoveElement
  <2>3. QED
    BY <1>1, <1>2, <1>7, <2>2
<1>8. QED
  BY <1>5, <1>6, <1>7

LEMMA CallFields ==
  ASSUME PushTypeOK, NEW x \in Callers
  PROVE  /\ call \in [Callers -> Calls] /\ call[x] \in Calls
         /\ call[x].at \in {"idle", "sending", "returning"} /\ call[x].day \in Days
         /\ call[x].sym \in Symbols \cup {Nil} /\ call[x].counted \in BOOLEAN /\ call[x].refused \in BOOLEAN
BY DEF PushTypeOK, Calls

LEMMA Books ==
  ASSUME PushTypeOK
  PROVE  /\ count \in PerDay(Nat) /\ delivered \in PerDay(Nat) /\ lost \in PerDay(Nat)
         /\ astray \in PerDay(BOOLEAN) /\ day \in Days
         /\ \A s \in Symbols, d \in Days :
              count[s][d] \in Nat /\ delivered[s][d] \in Nat /\ lost[s][d] \in Nat /\ astray[s][d] \in BOOLEAN
BY DEF PushTypeOK, PerDay

LEMMA CallMoves ==
  ASSUME PushTypeOK, NEW x \in Callers, NEW c \in Calls, call' = [call EXCEPT ![x] = c]
  PROVE  call' \in [Callers -> Calls] /\ call'[x] = c /\ \A y \in Callers \ {x} : call'[y] = call[y]
BY CallFields

LEMMA RestingCall ==
  /\ Resting \in Calls /\ Resting.at = "idle" /\ Resting.counted = FALSE /\ Resting.refused = FALSE
BY Parameters DEF Resting, Calls, Days

(* Where a call x is not held by its count, and the books do not change.      *)
LEMMA SameHere ==
  ASSUME PushInv, NEW x \in Callers, \A y \in Callers \ {x} : call'[y] = call[y],
         NEW s \in Symbols, NEW d \in Days, x \notin Holding(s, d), x \notin Holding(s, d)'
  PROVE  /\ Cardinality(Holding(s, d)') = Cardinality(Holding(s, d)) /\ Sending(s, d)' = Sending(s, d)
<1>1. Holding(s, d)' = Holding(s, d)
  BY HoldingMoves
<1>2. \A y \in Holding(s, d) : y # x /\ y \in Callers
  BY DEF Holding
<1>3. QED
  BY <1>1, <1>2 DEF Sending

(* What CounterExact and OneAtATime say of one coin and day.                  *)
Exact(s, d) == ~astray[s][d] => count[s][d] = delivered[s][d] + Cardinality(Holding(s, d)) + lost[s][d]
Alone(s, d) == ~astray[s][d] =>
  /\ delivered[s][d] <= 1
  /\ delivered[s][d] = 1 => Sending(s, d) = {}
  /\ \A x, y \in Sending(s, d) : x = y

LEMMA EachDay ==
  ASSUME PushInv, NEW s \in Symbols, NEW d \in Days
  PROVE  Exact(s, d) /\ Alone(s, d)
<1>1. CounterExact /\ OneAtATime
  BY DEF PushInv, Counting
<1>2. Exact(s, d)
  BY <1>1 DEF CounterExact, Exact
<1>3. Alone(s, d)
  BY <1>1 DEF OneAtATime, Alone
<1>4. QED
  BY <1>2, <1>3

LEMMA EachDayNext ==
  ASSUME \A s \in Symbols, d \in Days : Exact(s, d)' /\ Alone(s, d)'
  PROVE  CounterExact' /\ OneAtATime'
<1>1. CounterExact'
  BY DEF CounterExact, Exact
<1>2. OneAtATime'
  BY DEF OneAtATime, Alone
<1>3. QED
  BY <1>1, <1>2

LEMMA ShapedMoves ==
  ASSUME PushInv, NEW x \in Callers, \A y \in Callers \ {x} : call'[y] = call[y],
         call'[x].at = "idle" => ~call'[x].counted,
         call'[x].at = "returning" => call'[x].counted,
         call'[x].counted => call'[x].sym \in Symbols,
         call'[x].refused => call'[x].at = "returning"
  PROVE  Shaped'
BY DEF PushInv, Counting, Shaped

LEMMA CountingKept ==
  ASSUME PushInv, UNCHANGED <<count, call, sent>>
  PROVE  Counting'
BY DEF PushInv, Counting, sent, Shaped, CounterExact, OneAtATime, Holding, Sending

(* ---- counting, sending, giving back ---- *)
LEMMA AskCounts ==
  ASSUME PushInv, NEW x \in Callers, NEW s \in Symbols, Ask(x, s)
  PROVE  /\ Counting' /\ count' \in PerDay(Nat) /\ call' \in [Callers -> Calls]
         /\ call'[x].at # "idle" /\ \A y \in Callers \ {x} : call'[y] = call[y]
<1>0. PushTypeOK /\ Shaped
  BY DEF PushInv, Counting
<1>1. PICK n, at, refused, d : /\ n = count[s][day] + 1 /\ refused = OverLimit(n) /\ d = day
                               /\ at = IF OverLimit(n) THEN "returning" ELSE "sending"
  OBVIOUS
<1>2. n \in Nat /\ n > 0 /\ d \in Days /\ count[s][d] \in Nat /\ n = count[s][d] + 1
  BY <1>0, <1>1, Books
<1>3. refused \in BOOLEAN /\ refused = (n > 1)
  BY <1>1, <1>2 DEF OverLimit
<1>4. PICK c : c = [at |-> at, sym |-> s, day |-> d, counted |-> TRUE, refused |-> refused]
  OBVIOUS
<1>5. c \in Calls /\ c.at = at /\ c.sym = s /\ c.day = d /\ c.counted = TRUE /\ c.refused = refused
      /\ at \in {"sending", "returning"} /\ (at = "returning" <=> n > 1) /\ (refused <=> n > 1)
  BY <1>1, <1>2, <1>3, <1>4 DEF Calls
<1>6. call' = [call EXCEPT ![x] = c] /\ count' = [count EXCEPT ![s][d] = n]
      /\ UNCHANGED sent /\ call[x].at = "idle"
  BY <1>1, <1>4 DEF Ask
<1>7. call' \in [Callers -> Calls] /\ call'[x] = c /\ \A y \in Callers \ {x} : call'[y] = call[y]
  BY <1>0, <1>5, <1>6, CallMoves
<1>8. count' \in PerDay(Nat)
      /\ \A q \in Symbols, e \in Days : count'[q][e] = IF q = s /\ e = d THEN n ELSE count[q][e]
  <2>1. count \in PerDay(Nat) /\ n \in Nat /\ d \in Days
    BY <1>0, <1>2, Books
  <2>2. count' = [count EXCEPT ![s][d] = n]
    BY <1>6
  <2>3. QED
    BY <2>1, <2>2 DEF PerDay
<1>9. ~call[x].counted
  BY <1>0, <1>6 DEF Shaped
<1>10. Shaped'
  BY <1>5, <1>7, ShapedMoves
<1>11. ASSUME NEW q \in Symbols, NEW e \in Days PROVE Exact(q, e)' /\ Alone(q, e)'
  <2>0. Exact(q, e) /\ Alone(q, e) /\ x \notin Holding(q, e)
    BY <1>9, EachDay DEF Holding
  <2>1. astray' = astray /\ delivered' = delivered /\ lost' = lost
        /\ count[q][e] \in Nat /\ delivered[q][e] \in Nat /\ lost[q][e] \in Nat
    BY <1>0, <1>6, Books DEF sent
  <2>2. CASE q = s /\ e = d
    <3>1. x \in Holding(q, e)'
      BY <1>5, <1>7, <2>2 DEF Holding
    <3>2. Cardinality(Holding(q, e)') = Cardinality(Holding(q, e)) + 1 /\ Cardinality(Holding(q, e)) \in Nat
      BY <1>7, <2>0, <3>1, HoldingMoves, HoldingFinite
    <3>3. Exact(q, e)'
      BY <1>2, <1>8, <2>0, <2>1, <2>2, <3>2 DEF Exact
    <3>4. CASE n > 1
      <4>1. Sending(q, e)' = Sending(q, e)
        BY <1>5, <1>7, <2>0, <3>4 DEF Sending, Holding
      <4>2. Alone(q, e)'
        BY <2>0, <2>1, <4>1, Zenon DEF Alone
      <4>3. QED
        BY <3>3, <4>2
    <3>5. CASE ~(n > 1)
      <4>1. ~astray[q][e] => delivered[q][e] = 0 /\ Cardinality(Holding(q, e)) = 0
        BY <1>2, <2>0, <2>1, <2>2, <3>2, <3>5 DEF Exact
      <4>2. ~astray[q][e] => Holding(q, e) = {}
        BY <4>1, HoldingFinite, FS_EmptySet
      <4>3. ~astray[q][e] => Sending(q, e)' \subseteq {x}
        BY <1>7, <4>2 DEF Sending, Holding
      <4>4. astray'[q][e] = astray[q][e] /\ delivered'[q][e] = delivered[q][e]
        BY <2>1
      <4>5. ~astray[q][e] =>
              delivered[q][e] <= 1 /\ ~(delivered[q][e] = 1) /\ \A y, z \in Sending(q, e)' : y = z
        BY <4>1, <4>3
      <4>6. Alone(q, e)'
        BY <4>4, <4>5, Zenon DEF Alone
      <4>7. QED
        BY <3>3, <4>6
    <3>6. QED
      BY <3>3, <3>4, <3>5
  <2>3. CASE ~(q = s /\ e = d)
    <3>1. x \notin Holding(q, e)'
      BY <1>5, <1>7, <2>3 DEF Holding
    <3>2. Cardinality(Holding(q, e)') = Cardinality(Holding(q, e)) /\ Sending(q, e)' = Sending(q, e)
      BY <1>7, <2>0, <3>1, SameHere
    <3>3. QED
      BY <1>8, <2>0, <2>1, <2>3, <3>2 DEF Exact, Alone
  <2>4. QED
    BY <2>2, <2>3
<1>12. QED
  BY <1>5, <1>7, <1>8, <1>10, <1>11, EachDayNext DEF Counting

LEMMA AskUncountedCounts ==
  ASSUME PushInv, NEW x \in Callers, NEW s \in Symbols, AskUncounted(x, s)
  PROVE  /\ Counting' /\ call' \in [Callers -> Calls]
         /\ call'[x].at # "idle" /\ \A y \in Callers \ {x} : call'[y] = call[y]
<1>0. PushTypeOK /\ Shaped
  BY DEF PushInv, Counting
<1>1. PICK c : c = [Resting EXCEPT !.at = "sending", !.sym = s]
  OBVIOUS
<1>2. c \in Calls /\ c.at = "sending" /\ c.counted = FALSE /\ c.refused = FALSE
  BY <1>1, RestingCall DEF Calls
<1>3. call' = [call EXCEPT ![x] = c] /\ UNCHANGED <<count, sent>> /\ call[x].at = "idle"
  BY <1>1 DEF AskUncounted
<1>4. call' \in [Callers -> Calls] /\ call'[x] = c /\ \A y \in Callers \ {x} : call'[y] = call[y]
  BY <1>0, <1>2, <1>3, CallMoves
<1>5. ~call[x].counted
  BY <1>0, <1>3 DEF Shaped
<1>6. Shaped'
  BY <1>2, <1>4, ShapedMoves
<1>7. ASSUME NEW q \in Symbols, NEW e \in Days PROVE Exact(q, e)' /\ Alone(q, e)'
  <2>1. x \notin Holding(q, e) /\ x \notin Holding(q, e)'
    BY <1>2, <1>4, <1>5 DEF Holding
  <2>2. Cardinality(Holding(q, e)') = Cardinality(Holding(q, e)) /\ Sending(q, e)' = Sending(q, e)
    BY <1>4, <2>1, SameHere
  <2>3. QED
    <3>1. Exact(q, e) /\ Alone(q, e)
      BY EachDay
    <3>2. PICK S : S = Sending(q, e) /\ S = Sending(q, e)'
      BY <2>2
    <3>3. QED
      BY <1>3, <2>2, <3>1, <3>2 DEF Exact, Alone, sent
<1>8. QED
  BY <1>2, <1>4, <1>6, <1>7, EachDayNext DEF Counting

LEMMA ReachesCounts ==
  ASSUME PushInv, NEW x \in Callers, Reaches(x)
  PROVE  /\ Counting' /\ delivered' \in PerDay(Nat) /\ call' \in [Callers -> Calls]
         /\ call'[x] = Resting /\ \A y \in Callers \ {x} : call'[y] = call[y]
<1>0. PushTypeOK /\ Shaped
  BY DEF PushInv, Counting
<1>1. /\ call' = [call EXCEPT ![x] = Resting] /\ UNCHANGED <<count, lost, astray>> /\ call[x].at = "sending"
      /\ delivered' = IF call[x].counted
                        THEN [delivered EXCEPT ![call[x].sym][call[x].day] = @ + 1] ELSE delivered
  BY DEF Reaches, Answered
<1>2. call' \in [Callers -> Calls] /\ call'[x] = Resting /\ \A y \in Callers \ {x} : call'[y] = call[y]
  BY <1>0, <1>1, CallMoves, RestingCall
<1>3. Shaped'
  BY <1>2, RestingCall, ShapedMoves
<1>4. \A q \in Symbols, e \in Days : x \notin Holding(q, e)'
  BY <1>2, RestingCall DEF Holding
<1>5. CASE ~call[x].counted
  <2>1. UNCHANGED delivered
    BY <1>1, <1>5
  <2>2. ASSUME NEW q \in Symbols, NEW e \in Days PROVE Exact(q, e)' /\ Alone(q, e)'
    <3>1. x \notin Holding(q, e)
      BY <1>5 DEF Holding
    <3>2. Cardinality(Holding(q, e)') = Cardinality(Holding(q, e)) /\ Sending(q, e)' = Sending(q, e)
      BY <1>2, <1>4, <3>1, SameHere
    <3>3. QED
      BY <1>1, <2>1, <3>2, EachDay DEF Exact, Alone
  <2>3. QED
    BY <1>0, <1>2, <1>3, <2>1, <2>2, Books, EachDayNext DEF Counting
<1>6. CASE call[x].counted
  <2>1. PICK s \in Symbols, d \in Days : s = call[x].sym /\ d = call[x].day
    BY <1>0, <1>6, CallFields DEF Shaped
  <2>2. PICK n \in Nat : n = delivered[s][d] + 1
    BY <1>0, Books
  <2>3. delivered' = [delivered EXCEPT ![s][d] = n]
    BY <1>1, <1>6, <2>1, <2>2
  <2>4. delivered' \in PerDay(Nat)
        /\ \A q \in Symbols, e \in Days : delivered'[q][e] = IF q = s /\ e = d THEN n ELSE delivered[q][e]
    <3>1. delivered \in PerDay(Nat)
      BY <1>0, Books
    <3>2. QED
      BY <2>3, <3>1 DEF PerDay
  <2>5. ASSUME NEW q \in Symbols, NEW e \in Days PROVE Exact(q, e)' /\ Alone(q, e)'
    <3>0. /\ Exact(q, e) /\ Alone(q, e) /\ x \notin Holding(q, e)'
          /\ count[q][e] \in Nat /\ delivered[q][e] \in Nat /\ lost[q][e] \in Nat
      BY <1>0, <1>4, EachDay, Books
    <3>1. CASE q = s /\ e = d
      <4>1. x \in Holding(q, e) /\ x \in Sending(q, e)
        BY <1>1, <1>6, <2>1, <3>1 DEF Holding, Sending
      <4>2. Cardinality(Holding(q, e)') = Cardinality(Holding(q, e)) - 1 /\ Cardinality(Holding(q, e)) \in Nat
        BY <1>2, <3>0, <4>1, HoldingMoves, HoldingFinite
      <4>3. delivered'[q][e] = delivered[q][e] + 1
        BY <2>2, <2>4, <3>1
      <4>4. Exact(q, e)'
        BY <1>1, <3>0, <4>2, <4>3 DEF Exact
      <4>5. ~astray[q][e] => delivered[q][e] = 0 /\ \A y \in Sending(q, e) : y = x
        BY <3>0, <4>1 DEF Alone
      <4>6. \A y \in Sending(q, e)' : y \in Sending(q, e) /\ y # x
        BY <1>2, <3>0 DEF Sending, Holding
      <4>7. ~astray[q][e] => Sending(q, e)' = {}
        BY <4>5, <4>6
      <4>8. Alone(q, e)'
        BY <1>1, <4>3, <4>5, <4>7 DEF Alone
      <4>9. QED
        BY <4>4, <4>8
    <3>2. CASE ~(q = s /\ e = d)
      <4>1. x \notin Holding(q, e)
        BY <2>1, <3>2 DEF Holding
      <4>2. Cardinality(Holding(q, e)') = Cardinality(Holding(q, e)) /\ Sending(q, e)' = Sending(q, e)
        BY <1>2, <3>0, <4>1, SameHere
      <4>3. delivered'[q][e] = delivered[q][e]
        BY <2>4, <3>2
      <4>4. Exact(q, e)'
        BY <1>1, <3>0, <4>2, <4>3, Zenon DEF Exact
      <4>5. Alone(q, e)'
        BY <1>1, <3>0, <4>2, <4>3, Zenon DEF Alone
      <4>6. QED
        BY <4>4, <4>5
    <3>3. QED
      BY <3>1, <3>2
  <2>6. QED
    BY <1>2, <1>3, <2>4, <2>5, EachDayNext DEF Counting
<1>7. QED
  BY <1>5, <1>6

(* A push that reached nobody: its count is still held.                      *)
LEMMA NobodyCounts ==
  ASSUME PushInv, NEW x \in Callers, ReachesNobody(x)
  PROVE  /\ Counting' /\ call' \in [Callers -> Calls]
         /\ \A y \in Callers \ {x} : call'[y] = call[y]
<1>0. PushTypeOK /\ Shaped
  BY DEF PushInv, Counting
<1>1. UNCHANGED <<count, delivered, lost, astray>> /\ call[x].at = "sending"
  BY DEF ReachesNobody, sent
<1>2. PICK c : c = IF call[x].counted THEN [call[x] EXCEPT !.at = "returning"] ELSE Resting
  OBVIOUS
<1>3. c \in Calls /\ (call[x].counted => c.at = "returning" /\ c.counted = call[x].counted
                        /\ c.sym = call[x].sym /\ c.day = call[x].day)
      /\ (~call[x].counted => c = Resting)
  <2>1. call[x] \in Calls
    BY <1>0, CallFields
  <2>2. QED
    BY <1>2, <2>1, RestingCall DEF Calls
<1>4. call' = [call EXCEPT ![x] = c]
  <2>1. call \in [Callers -> Calls]
    BY <1>0, CallFields
  <2>2. QED
    BY <1>2, <2>1 DEF ReachesNobody, Answered
<1>5. call' \in [Callers -> Calls] /\ call'[x] = c /\ \A y \in Callers \ {x} : call'[y] = call[y]
  BY <1>0, <1>3, <1>4, CallMoves
<1>6. Shaped'
  <2>1. call[x].counted => call[x].sym \in Symbols
    BY <1>0 DEF Shaped
  <2>2. QED
    BY <1>3, <1>5, <2>1, RestingCall, ShapedMoves
<1>7. ASSUME NEW q \in Symbols, NEW e \in Days PROVE Exact(q, e)' /\ Alone(q, e)'
  <2>0. /\ Exact(q, e) /\ Alone(q, e)
        /\ count[q][e] \in Nat /\ delivered[q][e] \in Nat /\ lost[q][e] \in Nat
    BY <1>0, EachDay, Books
  <2>1. x \in Holding(q, e)' <=> x \in Holding(q, e)
    BY <1>3, <1>5, RestingCall DEF Holding
  <2>2. Cardinality(Holding(q, e)') = Cardinality(Holding(q, e))
    BY <1>5, <2>1, HoldingMoves
  <2>3. Sending(q, e)' \subseteq Sending(q, e)
    BY <1>3, <1>5, RestingCall DEF Sending, Holding
  <2>4. Exact(q, e)'
    BY <1>1, <2>0, <2>2 DEF Exact
  <2>5. Alone(q, e)'
    BY <1>1, <2>0, <2>3 DEF Alone
  <2>6. QED
    BY <2>4, <2>5
<1>8. QED
  BY <1>5, <1>6, <1>7, EachDayNext DEF Counting

(* A held count is given up by a call that was not sent: given back, or lost. *)
LEMMA GiveUpCounts ==
  ASSUME PushInv, NEW x \in Callers, call[x].at = "returning", call' = [call EXCEPT ![x] = Resting],
         UNCHANGED delivered,
         \A q \in Symbols, e \in Days :
           /\ astray[q][e] => astray'[q][e]
           /\ q = call[x].sym /\ e = call[x].day =>
                (~astray'[q][e] => count'[q][e] - lost'[q][e] = count[q][e] - lost[q][e] - 1)
           /\ ~(q = call[x].sym /\ e = call[x].day) =>
                (~astray'[q][e] => count'[q][e] - lost'[q][e] = count[q][e] - lost[q][e]),
         \A q \in Symbols, e \in Days : count'[q][e] \in Nat /\ lost'[q][e] \in Nat
  PROVE  /\ Counting' /\ call' \in [Callers -> Calls]
         /\ call'[x] = Resting /\ \A y \in Callers \ {x} : call'[y] = call[y]
<1>0. PushTypeOK /\ Shaped
  BY DEF PushInv, Counting
<1>1. call' \in [Callers -> Calls] /\ call'[x] = Resting /\ \A y \in Callers \ {x} : call'[y] = call[y]
  BY <1>0, CallMoves, RestingCall
<1>2. Shaped'
  BY <1>1, RestingCall, ShapedMoves
<1>3. call[x].counted /\ call[x].sym \in Symbols
  BY <1>0 DEF Shaped
<1>4. ASSUME NEW q \in Symbols, NEW e \in Days PROVE Exact(q, e)' /\ Alone(q, e)'
  <2>0. /\ Exact(q, e) /\ Alone(q, e) /\ x \notin Holding(q, e)'
        /\ count[q][e] \in Nat /\ delivered[q][e] \in Nat /\ lost[q][e] \in Nat
        /\ count'[q][e] \in Nat /\ lost'[q][e] \in Nat
    BY <1>0, <1>1, RestingCall, EachDay, Books DEF Holding
  <2>1. Sending(q, e)' \subseteq Sending(q, e)
    BY <1>1, RestingCall DEF Sending, Holding
  <2>2. Alone(q, e)'
    BY <2>0, <2>1 DEF Alone
  <2>3. CASE q = call[x].sym /\ e = call[x].day
    <3>1. x \in Holding(q, e)
      BY <1>3, <2>3 DEF Holding
    <3>2. Cardinality(Holding(q, e)') = Cardinality(Holding(q, e)) - 1 /\ Cardinality(Holding(q, e)) \in Nat
      BY <1>1, <2>0, <3>1, HoldingMoves, HoldingFinite
    <3>3. ~astray'[q][e] => ~astray[q][e] /\ count'[q][e] - lost'[q][e] = count[q][e] - lost[q][e] - 1
      BY <2>3
    <3>4. Exact(q, e)'
      BY <2>0, <3>2, <3>3 DEF Exact
    <3>5. QED
      BY <2>2, <3>4
  <2>4. CASE ~(q = call[x].sym /\ e = call[x].day)
    <3>1. x \notin Holding(q, e)
      BY <2>4 DEF Holding
    <3>2. Cardinality(Holding(q, e)') = Cardinality(Holding(q, e)) /\ Cardinality(Holding(q, e)) \in Nat
      BY <1>1, <2>0, <3>1, SameHere, HoldingFinite
    <3>3. ~astray'[q][e] => ~astray[q][e] /\ count'[q][e] - lost'[q][e] = count[q][e] - lost[q][e]
      BY <2>4
    <3>4. Exact(q, e)'
      BY <2>0, <3>2, <3>3 DEF Exact
    <3>5. QED
      BY <2>2, <3>4
  <2>5. QED
    BY <2>3, <2>4
<1>5. QED
  BY <1>1, <1>2, <1>4, EachDayNext DEF Counting

(* The books after a count was given up.                                     *)
BooksOK == count \in PerDay(Nat) /\ lost \in PerDay(Nat) /\ astray \in PerDay(BOOLEAN)

(* A count that is held stands in the counter, unless the day went astray.    *)
LEMMA HeldCount ==
  ASSUME PushInv, NEW x \in Callers, NEW s \in Symbols, NEW d \in Days, x \in Holding(s, d), ~astray[s][d]
  PROVE  count[s][d] > 0
<1>1. Cardinality(Holding(s, d)) \in Nat /\ Cardinality(Holding(s, d)) # 0
  BY HoldingFinite, FS_EmptySet
<1>2. Exact(s, d) /\ count[s][d] \in Nat /\ delivered[s][d] \in Nat /\ lost[s][d] \in Nat
  BY EachDay, Books DEF PushInv
<1>3. QED
  BY <1>1, <1>2 DEF Exact

LEMMA GiveBackCounts ==
  ASSUME PushInv, NEW x \in Callers, GiveBack(x)
  PROVE  /\ Counting' /\ call' \in [Callers -> Calls] /\ BooksOK'
         /\ call'[x] = Resting /\ \A y \in Callers \ {x} : call'[y] = call[y]
<1>0. PushTypeOK /\ Shaped
  BY DEF PushInv, Counting
<1>1. PICK s \in Symbols, d \in Days, t \in Days : s = call[x].sym /\ d = call[x].day /\ t = day
  BY <1>0, CallFields, Books DEF Shaped, GiveBack
<1>2. x \in Holding(s, d) /\ call[x].at = "returning"
  BY <1>0, <1>1 DEF GiveBack, Shaped, Holding
<1>3. PICK n \in Nat : n = Lower(count[s][t]) /\ (count[s][t] > 0 => n = count[s][t] - 1)
                       /\ (count[s][t] = 0 => n = count[s][t])
  <2>1. count[s][t] \in Nat
    BY <1>0, Books
  <2>2. Lower(count[s][t]) \in Nat
    BY <2>1 DEF Lower
  <2>3. QED
    BY <2>1, <2>2 DEF Lower
<1>4. count' \in PerDay(Nat)
      /\ \A q \in Symbols, e \in Days : count'[q][e] = IF q = s /\ e = t THEN n ELSE count[q][e]
  <2>1. count' = [count EXCEPT ![s][t] = n]
    BY <1>1, <1>3 DEF GiveBack
  <2>2. count \in PerDay(Nat)
    BY <1>0, Books
  <2>3. QED
    BY <2>1, <2>2 DEF PerDay
<1>5. call' = [call EXCEPT ![x] = Resting] /\ UNCHANGED delivered
  BY DEF GiveBack, Answered
<1>6. CASE d = t
  <2>1. UNCHANGED <<lost, astray>>
    BY <1>1, <1>6 DEF GiveBack
  <2>2. BooksOK'
    BY <1>0, <1>4, <2>1, Books DEF BooksOK
  <2>3. ~astray[s][d] => n = count[s][d] - 1 /\ count[s][d] \in Nat
    BY <1>0, <1>2, <1>3, <1>6, HeldCount, Books
  <2>4. \A q \in Symbols, e \in Days :
          /\ count'[q][e] \in Nat /\ lost'[q][e] \in Nat /\ lost'[q][e] = lost[q][e] /\ astray'[q][e] = astray[q][e]
    BY <1>0, <1>4, <2>1, Books
  <2>5. \A q \in Symbols, e \in Days :
          /\ q = s /\ e = d => (~astray[q][e] => count'[q][e] = count[q][e] - 1)
          /\ ~(q = s /\ e = d) => count'[q][e] = count[q][e]
    BY <1>4, <1>6, <2>3
  <2>6. \A q \in Symbols, e \in Days :
          /\ q = s /\ e = d =>
               (~astray'[q][e] => count'[q][e] - lost'[q][e] = count[q][e] - lost[q][e] - 1)
          /\ ~(q = s /\ e = d) => count'[q][e] - lost'[q][e] = count[q][e] - lost[q][e]
    BY <1>0, <2>4, <2>5, Books
  <2>7. QED
    BY <1>1, <1>2, <1>5, <2>2, <2>4, <2>6, GiveUpCounts
<1>7. CASE d # t
  <2>0. PICK b : b \in BOOLEAN /\ b = (astray[s][t] \/ count[s][t] > 0)
    BY Zenon
  <2>1. PICK m \in Nat : m = lost[s][d] + 1
    BY <1>0, Books
  <2>2. lost' = [lost EXCEPT ![s][d] = m]
    BY <1>1, <1>7, <2>1 DEF GiveBack
  <2>3. astray' = [astray EXCEPT ![s][t] = b]
    BY <1>1, <1>7, <2>0 DEF GiveBack
  <2>4. lost' \in PerDay(Nat)
        /\ \A q \in Symbols, e \in Days : lost'[q][e] = IF q = s /\ e = d THEN m ELSE lost[q][e]
    <3>1. lost \in PerDay(Nat)
      BY <1>0, Books
    <3>2. QED
      BY <2>2, <3>1 DEF PerDay
  <2>5. astray' \in PerDay(BOOLEAN)
        /\ \A q \in Symbols, e \in Days : astray'[q][e] = IF q = s /\ e = t THEN b ELSE astray[q][e]
    <3>1. astray \in PerDay(BOOLEAN)
      BY <1>0, Books
    <3>2. PICK S : S = BOOLEAN
      OBVIOUS
    <3>3. b \in S /\ astray \in PerDay(S)
      BY <2>0, <3>1, <3>2, Zenon
    <3>4. astray' \in PerDay(S)
      BY <2>3, <3>3 DEF PerDay
    <3>5. \A q \in Symbols, e \in Days : astray'[q][e] = IF q = s /\ e = t THEN b ELSE astray[q][e]
      BY <2>3, <3>3 DEF PerDay
    <3>6. QED
      BY <3>2, <3>4, <3>5, Zenon
  <2>6. ASSUME NEW q \in Symbols, NEW e \in Days
        PROVE  /\ astray[q][e] => astray'[q][e]
               /\ q = s /\ e = d =>
                    (~astray'[q][e] => count'[q][e] - lost'[q][e] = count[q][e] - lost[q][e] - 1)
               /\ ~(q = s /\ e = d) =>
                    (~astray'[q][e] => count'[q][e] - lost'[q][e] = count[q][e] - lost[q][e])
               /\ count'[q][e] \in Nat /\ lost'[q][e] \in Nat
    <3>0. /\ count[q][e] \in Nat /\ lost[q][e] \in Nat /\ astray[q][e] \in BOOLEAN
          /\ count[s][t] \in Nat
      BY <1>0, Books
    <3>1. CASE q = s /\ e = d
      <4>1. count'[q][e] = count[q][e] /\ lost'[q][e] = lost[q][e] + 1 /\ astray'[q][e] = astray[q][e]
        BY <1>4, <1>7, <2>1, <2>4, <2>5, <3>1
      <4>2. QED
        BY <3>0, <3>1, <4>1
    <3>2. CASE q = s /\ e = t
      <4>1. lost'[q][e] = lost[q][e] /\ count'[q][e] = n /\ astray'[q][e] = b
        BY <1>4, <1>7, <2>4, <2>5, <3>2
      <4>2. ~b => n = count[q][e] /\ ~astray[q][e]
        <5>1. count[s][t] = 0 \/ count[s][t] > 0
          BY <3>0
        <5>2. QED
          BY <1>3, <2>0, <3>2, <5>1, Zenon
      <4>3. QED
        BY <1>7, <3>0, <3>2, <4>1, <4>2
    <3>3. CASE ~(q = s /\ e = d) /\ ~(q = s /\ e = t)
      <4>1. count'[q][e] = count[q][e] /\ lost'[q][e] = lost[q][e] /\ astray'[q][e] = astray[q][e]
        BY <1>4, <2>4, <2>5, <3>3
      <4>2. QED
        BY <3>0, <3>3, <4>1
    <3>4. QED
      BY <3>1, <3>2, <3>3
  <2>7. BooksOK'
    BY <1>4, <2>4, <2>5 DEF BooksOK
  <2>8. QED
    BY <1>1, <1>2, <1>5, <2>6, <2>7, GiveUpCounts
<1>8. QED
  BY <1>6, <1>7

LEMMA GiveBackFailsCounts ==
  ASSUME PushInv, NEW x \in Callers, GiveBackFails(x)
  PROVE  /\ Counting' /\ call' \in [Callers -> Calls] /\ BooksOK'
         /\ call'[x] = Resting /\ \A y \in Callers \ {x} : call'[y] = call[y]
<1>0. PushTypeOK /\ Shaped
  BY DEF PushInv, Counting
<1>1. PICK s \in Symbols, d \in Days : s = call[x].sym /\ d = call[x].day
  BY <1>0, CallFields DEF Shaped, GiveBackFails
<1>2. PICK m \in Nat : m = lost[s][d] + 1
  BY <1>0, Books
<1>3. /\ call' = [call EXCEPT ![x] = Resting] /\ UNCHANGED <<count, delivered, astray>>
      /\ lost' = [lost EXCEPT ![s][d] = m] /\ call[x].at = "returning"
  BY <1>1, <1>2 DEF GiveBackFails, Answered
<1>4. lost' \in PerDay(Nat)
      /\ \A q \in Symbols, e \in Days : lost'[q][e] = IF q = s /\ e = d THEN m ELSE lost[q][e]
  <2>1. lost \in PerDay(Nat)
    BY <1>0, Books
  <2>2. lost' = [lost EXCEPT ![s][d] = m]
    BY <1>3
  <2>3. QED
    BY <2>1, <2>2 DEF PerDay
<1>5. ASSUME NEW q \in Symbols, NEW e \in Days
      PROVE  /\ astray[q][e] => astray'[q][e]
             /\ q = s /\ e = d => count'[q][e] - lost'[q][e] = count[q][e] - lost[q][e] - 1
             /\ ~(q = s /\ e = d) => count'[q][e] - lost'[q][e] = count[q][e] - lost[q][e]
             /\ count'[q][e] \in Nat /\ lost'[q][e] \in Nat
  <2>1. count[q][e] \in Nat /\ lost[q][e] \in Nat /\ count'[q][e] = count[q][e] /\ astray'[q][e] = astray[q][e]
    BY <1>0, <1>3, Books
  <2>2. lost'[q][e] = IF q = s /\ e = d THEN lost[q][e] + 1 ELSE lost[q][e]
    BY <1>2, <1>4
  <2>3. QED
    BY <2>1, <2>2
<1>6. BooksOK'
  BY <1>0, <1>3, <1>4, Books DEF BooksOK
<1>7. QED
  <2>1. \A q \in Symbols, e \in Days : count'[q][e] \in Nat /\ lost'[q][e] \in Nat
    BY <1>5
  <2>2. \A q \in Symbols, e \in Days :
          /\ astray[q][e] => astray'[q][e]
          /\ q = call[x].sym /\ e = call[x].day =>
               (~astray'[q][e] => count'[q][e] - lost'[q][e] = count[q][e] - lost[q][e] - 1)
          /\ ~(q = call[x].sym /\ e = call[x].day) =>
               (~astray'[q][e] => count'[q][e] - lost'[q][e] = count[q][e] - lost[q][e])
    BY <1>1, <1>5
  <2>3. QED
    BY <1>3, <1>6, <2>1, <2>2, GiveUpCounts

LEMMA RestartCounts ==
  ASSUME PushInv, Restart
  PROVE  Counting' /\ call' \in [Callers -> Calls] /\ BooksOK'
<1>0. PushTypeOK /\ Shaped
  BY DEF PushInv, Counting
<1>1. /\ call' = [x \in Callers |-> Resting] /\ UNCHANGED <<count, delivered, astray>>
      /\ lost' = [s \in Symbols |-> [d \in Days |-> lost[s][d] + Cardinality(Holding(s, d))]]
  BY DEF Restart
<1>2. \A x \in Callers : call'[x] = Resting
  BY <1>1
<1>3. call' \in [Callers -> Calls] /\ Shaped'
  BY <1>1, <1>2, RestingCall DEF Shaped
<1>4. ASSUME NEW q \in Symbols, NEW e \in Days
      PROVE  Exact(q, e)' /\ Alone(q, e)' /\ lost[q][e] + Cardinality(Holding(q, e)) \in Nat
  <2>0. /\ Exact(q, e) /\ Alone(q, e)
        /\ count[q][e] \in Nat /\ delivered[q][e] \in Nat /\ lost[q][e] \in Nat
        /\ Cardinality(Holding(q, e)) \in Nat
    BY <1>0, EachDay, Books, HoldingFinite
  <2>1. Holding(q, e)' = {} /\ Sending(q, e)' = {}
    BY <1>2, RestingCall DEF Holding, Sending
  <2>2. Cardinality(Holding(q, e)') = 0
    BY <2>1, FS_EmptySet
  <2>3. lost'[q][e] = lost[q][e] + Cardinality(Holding(q, e))
    BY <1>1
  <2>4. Exact(q, e)'
    BY <1>1, <2>0, <2>2, <2>3 DEF Exact
  <2>5. Alone(q, e)'
    BY <1>1, <2>0, <2>1 DEF Alone
  <2>6. QED
    BY <2>0, <2>4, <2>5
<1>5. BooksOK'
  <2>1. lost' \in PerDay(Nat)
    BY <1>1, <1>4 DEF PerDay
  <2>2. QED
    BY <1>0, <1>1, <2>1, Books DEF BooksOK
<1>6. QED
  BY <1>3, <1>4, <1>5, EachDayNext DEF Counting
---------------------------------------------------------------------------
(* Queueing.                                                                 *)

LEMMA QueueFields ==
  ASSUME PushInv
  PROVE  /\ queue \in Seqs /\ store \in Seqs /\ flush.left \in Seqs /\ flush \in Flushes
         /\ flush.on \in BOOLEAN /\ flush.stale \subseteq Ids /\ flush.hand \in Ids \cup {Nil}
         /\ IsInjective(queue) /\ IsInjective(flush.left) /\ IsInjective(store)
         /\ ToSet(queue) \cap ToSet(flush.left) = {}
         /\ flush.hand \notin ToSet(queue) /\ flush.hand \notin ToSet(flush.left)
         /\ Handed /\ call[Flusher].at \in {"idle", "sending", "returning"}
<1>1. PushTypeOK /\ Queueing
  BY DEF PushInv
<1>2. queue \in Seqs /\ store \in Seqs /\ flush \in Flushes
  BY <1>1 DEF PushTypeOK, Flushes
<1>3. flush.on \in BOOLEAN /\ flush.stale \subseteq Ids /\ flush.hand \in Ids \cup {Nil} /\ flush.left \in Seqs
  BY <1>2 DEF Flushes
<1>4. QED
  BY <1>1, <1>2, <1>3, Copies, CallFields, Parameters DEF Queueing

(* The type of everything but the calls and their books.                     *)
QueueOK ==
  /\ {queue, store} \subseteq Seqs /\ flush \in Flushes
  /\ sym \in [Ids -> Symbols] /\ age \in [Ids -> 0..Ttl + 1]

LEMMA TypeParts ==
  PushTypeOK <=> /\ day \in Days /\ call \in [Callers -> Calls] /\ count \in PerDay(Nat)
                 /\ delivered \in PerDay(Nat) /\ lost \in PerDay(Nat) /\ astray \in PerDay(BOOLEAN)
                 /\ QueueOK
BY DEF PushTypeOK, QueueOK, Calls, Flushes

LEMMA InvNext ==
  ASSUME day' \in Days, call' \in [Callers -> Calls], count' \in PerDay(Nat),
         delivered' \in PerDay(Nat), lost' \in PerDay(Nat), astray' \in PerDay(BOOLEAN),
         QueueOK', Counting', Queueing'
  PROVE  PushInv'
<1>1. PushTypeOK'
  BY DEF PushTypeOK, QueueOK, Calls, Flushes
<1>2. QED
  BY <1>1 DEF PushInv

(* The queue rests, and the flush keeps what its call is about.              *)
LEMMA QueueKept ==
  ASSUME PushInv, UNCHANGED <<queue, flush, store, sym, age>>,
         call'[Flusher].at # "idle" => flush.hand \in Ids
  PROVE  QueueOK' /\ Queueing'
<1>1. QueueOK'
  BY TypeParts DEF PushInv, QueueOK
<1>2. Queueing'
  BY QueueFields DEF PushInv, Queueing, OneCopy, Handed
<1>3. QED
  BY <1>1, <1>2

LEMMA HandEmptied ==
  ASSUME PushInv, flush.hand \in Ids, UNCHANGED <<queue, store, sym, age>>, call'[Flusher].at = "idle",
         NEW left, left = flush.left \/ left = Appended(flush.left, flush.hand),
         flush' = [flush EXCEPT !.hand = Nil, !.left = left]
  PROVE  QueueOK' /\ Queueing'
<1>1. flush.on
  BY QueueFields, Parameters DEF Handed
<1>2. left \in Seqs /\ IsInjective(left) /\ ToSet(left) \subseteq ToSet(flush.left) \cup {flush.hand}
  <2>1. CASE left = flush.left
    BY <2>1, QueueFields
  <2>2. CASE left = Appended(flush.left, flush.hand)
    <3>1. PICK l \in Seqs, h \in Ids : l = flush.left /\ h = flush.hand /\ IsInjective(l) /\ h \notin ToSet(l)
      BY QueueFields
    <3>2. QED
      BY <2>2, <3>1, AppendedSeq
  <2>3. QED
    BY <2>1, <2>2
<1>3. flush' \in Flushes /\ flush'.hand = Nil /\ flush'.left = left /\ flush'.on = flush.on
  BY <1>2, QueueFields DEF Flushes
<1>4. Nil \notin ToSet(queue) /\ Nil \notin ToSet(left)
  <2>1. \A z \in Seqs : Nil \notin ToSet(z)
    BY SeqsAre, Parameters DEF ToSet
  <2>2. QED
    BY <1>2, <2>1, QueueFields
<1>5. OneCopy'
  <2>1. queue' = queue /\ ToSet(queue) \cap ToSet(left) = {}
    BY <1>2, QueueFields
  <2>2. QED
    BY <1>2, <1>3, <1>4, <2>1, CopiesNext, QueueFields
<1>6. Queueing'
  BY <1>1, <1>3, <1>5, QueueFields DEF Queueing, Handed
<1>7. QueueOK'
  BY <1>3, TypeParts DEF QueueOK, PushInv
<1>8. QED
  BY <1>6, <1>7
---------------------------------------------------------------------------
(* Calls: counting and queueing together.                                    *)

LEMMA Typed ==
  ASSUME PushInv
  PROVE  /\ PushTypeOK /\ day \in Days /\ call \in [Callers -> Calls] /\ count \in PerDay(Nat)
         /\ delivered \in PerDay(Nat) /\ lost \in PerDay(Nat) /\ astray \in PerDay(BOOLEAN)
         /\ QueueOK /\ Counting /\ Queueing
BY TypeParts DEF PushInv

LEMMA AskInv ==
  ASSUME PushInv, NEW x \in Callers, NEW s \in Symbols, Ask(x, s), x = Flusher => flush.hand \in Ids
  PROVE  PushInv'
<1>1. /\ Counting' /\ count' \in PerDay(Nat) /\ call' \in [Callers -> Calls]
      /\ \A y \in Callers \ {x} : call'[y] = call[y]
  BY AskCounts
<1>2. UNCHANGED <<day, queue, sym, age, flush, store, delivered, lost, astray>>
  BY DEF Ask, sent
<1>3. call'[Flusher].at # "idle" => flush.hand \in Ids
  BY <1>1, QueueFields, Parameters DEF Handed
<1>4. QueueOK' /\ Queueing'
  BY <1>2, <1>3, QueueKept
<1>5. QED
  BY <1>1, <1>2, <1>4, Typed, InvNext

LEMMA AskUncountedInv ==
  ASSUME PushInv, NEW x \in Callers, NEW s \in Symbols, AskUncounted(x, s), x = Flusher => flush.hand \in Ids
  PROVE  PushInv'
<1>1. Counting' /\ call' \in [Callers -> Calls] /\ \A y \in Callers \ {x} : call'[y] = call[y]
  BY AskUncountedCounts
<1>2. UNCHANGED <<day, count, queue, sym, age, flush, store, delivered, lost, astray>>
  BY DEF AskUncounted, sent
<1>3. call'[Flusher].at # "idle" => flush.hand \in Ids
  BY <1>1, QueueFields, Parameters DEF Handed
<1>4. QueueOK' /\ Queueing'
  BY <1>2, <1>3, QueueKept
<1>5. QED
  BY <1>1, <1>2, <1>4, Typed, InvNext

LEMMA AnsweredQueue ==
  ASSUME PushInv, NEW x \in Callers, call[x].at # "idle", UNCHANGED <<queue, store, sym, age>>,
         call'[x] = Resting, \A y \in Callers \ {x} : call'[y] = call[y],
         NEW kept, Answered(x, kept)
  PROVE  QueueOK' /\ Queueing'
<1>1. CASE x # Flusher
  <2>1. UNCHANGED flush /\ call'[Flusher] = call[Flusher]
    BY <1>1, Parameters DEF Answered
  <2>2. QED
    BY <2>1, QueueKept, QueueFields DEF Handed
<1>2. CASE x = Flusher
  <2>1. flush.hand \in Ids /\ call'[Flusher].at = "idle"
    BY <1>2, QueueFields, RestingCall DEF Handed
  <2>2. PICK left : left = IF kept THEN Appended(flush.left, flush.hand) ELSE flush.left
    OBVIOUS
  <2>3. flush' = [flush EXCEPT !.hand = Nil, !.left = left]
    BY <1>2, <2>2 DEF Answered
  <2>4. left = flush.left \/ left = Appended(flush.left, flush.hand)
    BY <2>2
  <2>5. QED
    BY <2>1, <2>3, <2>4, HandEmptied
<1>3. QED
  BY <1>1, <1>2

LEMMA ReachesInv == ASSUME PushInv, NEW x \in Callers, Reaches(x) PROVE PushInv'
<1>1. /\ Counting' /\ delivered' \in PerDay(Nat) /\ call' \in [Callers -> Calls]
      /\ call'[x] = Resting /\ \A y \in Callers \ {x} : call'[y] = call[y]
  BY ReachesCounts
<1>2. UNCHANGED <<day, count, queue, sym, age, store, lost, astray>> /\ Answered(x, FALSE)
      /\ call[x].at = "sending"
  BY DEF Reaches
<1>3. QueueOK' /\ Queueing'
  BY <1>1, <1>2, AnsweredQueue
<1>4. QED
  BY <1>1, <1>2, <1>3, Typed, InvNext

LEMMA NobodyInv == ASSUME PushInv, NEW x \in Callers, ReachesNobody(x) PROVE PushInv'
<1>1. Counting' /\ call' \in [Callers -> Calls] /\ \A y \in Callers \ {x} : call'[y] = call[y]
  BY NobodyCounts
<1>2. UNCHANGED <<day, count, queue, sym, age, store, delivered, lost, astray>> /\ call[x].at = "sending"
  BY DEF ReachesNobody, sent
<1>3. QueueOK' /\ Queueing'
  <2>1. CASE call[x].counted
    <3>1. UNCHANGED flush
      BY <2>1 DEF ReachesNobody
    <3>2. call'[Flusher].at # "idle" => flush.hand \in Ids
      BY <1>1, <1>2, QueueFields, Parameters DEF Handed
    <3>3. QED
      BY <1>2, <3>1, <3>2, QueueKept
  <2>2. CASE ~call[x].counted
    <3>1. Answered(x, TRUE) /\ call'[x] = Resting
      BY <2>2, Typed DEF ReachesNobody, Answered
    <3>2. QED
      BY <1>1, <1>2, <3>1, AnsweredQueue
  <2>3. QED
    BY <2>1, <2>2
<1>4. QED
  BY <1>1, <1>2, <1>3, Typed, InvNext

LEMMA GiveBackInv == ASSUME PushInv, NEW x \in Callers, GiveBack(x) \/ GiveBackFails(x) PROVE PushInv'
<1>1. /\ Counting' /\ call' \in [Callers -> Calls] /\ BooksOK'
      /\ call'[x] = Resting /\ \A y \in Callers \ {x} : call'[y] = call[y]
  BY GiveBackCounts, GiveBackFailsCounts
<1>2. /\ UNCHANGED <<day, queue, sym, age, store, delivered>> /\ call[x].at = "returning"
      /\ Answered(x, ~call[x].refused)
  BY DEF GiveBack, GiveBackFails
<1>3. PICK kept : Answered(x, kept)
  BY <1>2, Zenon
<1>4. QueueOK' /\ Queueing'
  BY <1>1, <1>2, <1>3, AnsweredQueue
<1>5. QED
  BY <1>1, <1>2, <1>4, Typed, InvNext DEF BooksOK

---------------------------------------------------------------------------
(* Queue, flush, time and restarts.                                          *)

(* What a step that leaves calls and books alone has to show.                *)
LEMMA QueueStep ==
  ASSUME PushInv, UNCHANGED <<count, call, sent>>, day' \in Days, QueueOK', Queueing'
  PROVE  PushInv'
<1>1. Counting'
  BY CountingKept
<1>2. QED
  BY <1>1, Typed, InvNext DEF sent

LEMMA DeferInv == ASSUME PushInv, NEW i \in Ids, NEW s \in Symbols, Defer(i, s) PROVE PushInv'
<1>1. /\ UNCHANGED <<day, count, call, flush, store, sent>> /\ queue' = Appended(queue, i)
      /\ sym' = [sym EXCEPT ![i] = s] /\ age' = [age EXCEPT ![i] = 0]
      /\ i \notin ToSet(queue) /\ i \notin ToSet(flush.left) /\ i # flush.hand
  BY Parameters DEF Defer, Waiting
<1>2. queue' \in Seqs /\ IsInjective(queue') /\ ToSet(queue') \subseteq ToSet(queue) \cup {i}
  <2>1. PICK q \in Seqs : q = queue /\ IsInjective(q) /\ i \notin ToSet(q)
    BY <1>1, QueueFields
  <2>2. QED
    BY <1>1, <2>1, AppendedSeq
<1>3. OneCopy'
  BY <1>1, <1>2, CopiesNext, QueueFields
<1>4. Queueing'
  BY <1>1, <1>3, QueueFields DEF Queueing, Handed
<1>5. QueueOK'
  BY <1>1, <1>2, Typed, Parameters DEF QueueOK
<1>6. QED
  BY <1>1, <1>4, <1>5, Typed, QueueStep

LEMMA BeginFlushInv == ASSUME PushInv, BeginFlush PROVE PushInv'
<1>1. UNCHANGED <<day, count, call, queue, sym, age, store, sent>> /\ ~flush.on
      /\ flush' = [Asleep EXCEPT !.on = TRUE, !.stale = Stale]
  BY DEF BeginFlush
<1>2. PICK none : none = <<>> /\ none \in Seqs /\ IsInjective(none) /\ ToSet(none) = {}
  BY NoneInSeq
<1>3. PICK stale \in SUBSET Ids : stale = Stale
  <2>1. queue \in Seq(Ids)
    BY QueueFields, SeqsAre
  <2>2. ToSet(queue) \subseteq Ids
    BY <2>1 DEF ToSet
  <2>3. Stale \subseteq Ids
    BY <2>2 DEF Stale
  <2>4. QED
    BY <2>3
<1>4. flush' = [on |-> TRUE, stale |-> stale, hand |-> Nil, left |-> none]
  BY <1>1, <1>2, <1>3 DEF Asleep
<1>5. flush' \in Flushes /\ flush'.on = TRUE /\ flush'.hand = Nil /\ flush'.left = none
  BY <1>2, <1>4 DEF Flushes
<1>6. flush.hand = Nil /\ call[Flusher].at = "idle"
  BY <1>1, QueueFields, Parameters DEF Handed
<1>7. OneCopy'
  BY <1>1, <1>2, <1>5, <1>6, CopiesNext, QueueFields
<1>8. Queueing'
  BY <1>1, <1>5, <1>6, <1>7, QueueFields DEF Queueing, Handed
<1>9. QueueOK'
  BY <1>1, <1>5, Typed DEF QueueOK
<1>10. QED
  BY <1>1, <1>8, <1>9, Typed, QueueStep

LEMMA TakeNextInv == ASSUME PushInv, TakeNext PROVE PushInv'
<1>1. /\ UNCHANGED <<day, count, call, sym, age, store, sent>> /\ flush.on /\ flush.hand = Nil
      /\ queue # <<>> /\ queue' = Tail(queue)
      /\ flush' = [flush EXCEPT !.hand = IF Head(queue) \in flush.stale THEN Nil ELSE Head(queue)]
  BY DEF TakeNext
<1>2. PICK q \in Seqs : q = queue /\ q # <<>> /\ IsInjective(q)
  BY <1>1, QueueFields
<1>3. PICK h : h = Head(q) /\ h \in Ids /\ h \in ToSet(q)
  BY <1>2, TailSeq
<1>4. queue' \in Seqs /\ IsInjective(queue') /\ ToSet(queue') \subseteq ToSet(queue) \ {h}
  BY <1>1, <1>2, <1>3, TailSeq
<1>5. PICK hand \in {h, Nil} : flush' = [flush EXCEPT !.hand = hand]
  BY <1>1, <1>2, <1>3
<1>6. flush' \in Flushes /\ flush'.on = flush.on /\ flush'.hand = hand /\ flush'.left = flush.left
  BY <1>3, <1>5, QueueFields DEF Flushes
<1>7. Nil \notin ToSet(queue') /\ Nil \notin ToSet(flush.left)
  <2>1. \A z \in Seqs : Nil \notin ToSet(z)
    BY SeqsAre, Parameters DEF ToSet
  <2>2. QED
    BY <1>4, <2>1, QueueFields
<1>8. OneCopy'
  BY <1>2, <1>3, <1>4, <1>5, <1>6, <1>7, CopiesNext, QueueFields
<1>9. call[Flusher].at = "idle"
  BY <1>1, QueueFields, Parameters DEF Handed
<1>10. Queueing'
  BY <1>1, <1>6, <1>8, <1>9, QueueFields DEF Queueing, Handed
<1>11. QueueOK'
  BY <1>1, <1>4, <1>6, Typed DEF QueueOK
<1>12. QED
  BY <1>1, <1>10, <1>11, Typed, QueueStep

LEMMA HandInv == ASSUME PushInv, DropByPolicy \/ Keep PROVE PushInv'
<1>1. UNCHANGED <<day, count, call, queue, sym, age, store, sent>> /\ flush.hand # Nil /\ call[Flusher].at = "idle"
  BY DEF DropByPolicy, Keep, InHand
<1>2. PICK left : /\ left = flush.left \/ left = Appended(flush.left, flush.hand)
                  /\ flush' = [flush EXCEPT !.hand = Nil, !.left = left]
  <2>1. CASE DropByPolicy
    <3>1. flush' = [flush EXCEPT !.hand = Nil, !.left = flush.left]
      BY <2>1, QueueFields DEF DropByPolicy, Flushes
    <3>2. QED
      BY <3>1
  <2>2. CASE Keep
    BY <2>2 DEF Keep
  <2>3. QED
    BY <2>1, <2>2
<1>3. QueueOK' /\ Queueing'
  BY <1>1, <1>2, QueueFields, HandEmptied
<1>4. QED
  BY <1>1, <1>3, Typed, QueueStep

LEMMA EndFlushInv == ASSUME PushInv, EndFlush PROVE PushInv'
<1>1. UNCHANGED <<day, count, call, sym, age, store, sent>> /\ flush.hand = Nil
      /\ queue' = flush.left /\ flush' = Asleep
  BY DEF EndFlush
<1>2. PICK none : none = <<>> /\ none \in Seqs /\ IsInjective(none) /\ ToSet(none) = {}
  BY NoneInSeq
<1>3. flush' \in Flushes /\ flush'.on = FALSE /\ flush'.hand = Nil /\ flush'.left = none
  BY <1>1, <1>2 DEF Flushes, Asleep
<1>4. OneCopy'
  BY <1>1, <1>2, <1>3, CopiesNext, QueueFields
<1>5. call[Flusher].at = "idle"
  BY <1>1, QueueFields, Parameters DEF Handed
<1>6. Queueing'
  BY <1>1, <1>2, <1>3, <1>4, <1>5, QueueFields DEF Queueing, Handed
<1>7. QueueOK'
  BY <1>1, <1>3, QueueFields, Typed DEF QueueOK
<1>8. QED
  BY <1>1, <1>6, <1>7, Typed, QueueStep

LEMMA ForgetInv == ASSUME PushInv, Disabled \/ ResetQueue \/ Persist PROVE PushInv'
<1>1. UNCHANGED <<day, count, call, sym, age, flush, sent>>
  BY DEF Disabled, ResetQueue, Persist
<1>2. PICK none : none = <<>> /\ none \in Seqs /\ IsInjective(none) /\ ToSet(none) = {}
  BY NoneInSeq
<1>3. queue' \in {queue, none} /\ store' \in {store, queue, none}
  BY <1>2 DEF Disabled, ResetQueue, Persist
<1>4. /\ queue' \in Seqs /\ store' \in Seqs /\ IsInjective(queue') /\ IsInjective(store')
      /\ ToSet(queue') \subseteq ToSet(queue)
  BY <1>2, <1>3, QueueFields
<1>5. OneCopy'
  BY <1>1, <1>4, CopiesNext, QueueFields
<1>6. Queueing'
  BY <1>1, <1>4, <1>5, QueueFields DEF Queueing, Handed
<1>7. QueueOK'
  BY <1>1, <1>4, Typed DEF QueueOK
<1>8. QED
  BY <1>1, <1>6, <1>7, Typed, QueueStep

LEMMA ClockInv == ASSUME PushInv, Midnight \/ TimePasses PROVE PushInv'
<1>1. UNCHANGED <<count, call, queue, sym, flush, store, sent>>
  BY DEF Midnight, TimePasses
<1>2. day' \in Days
  BY Typed, Parameters DEF Midnight, TimePasses, Days
<1>3. age' \in [Ids -> 0..Ttl + 1]
  <2>1. age \in [Ids -> 0..Ttl + 1]
    BY Typed DEF QueueOK
  <2>2. CASE Midnight
    BY <2>1, <2>2 DEF Midnight
  <2>3. CASE TimePasses
    BY <2>1, <2>3, Parameters DEF TimePasses
  <2>4. QED
    BY <2>2, <2>3
<1>4. Queueing'
  BY <1>1, Typed DEF Queueing, OneCopy, Handed
<1>5. QueueOK'
  BY <1>1, <1>3, Typed DEF QueueOK
<1>6. QED
  BY <1>1, <1>2, <1>4, <1>5, QueueStep

LEMMA RestartInv == ASSUME PushInv, Restart PROVE PushInv'
<1>1. Counting' /\ call' \in [Callers -> Calls] /\ BooksOK'
  BY RestartCounts
<1>2. UNCHANGED <<day, sym, age, store, delivered>> /\ queue' = store /\ flush' = Asleep
      /\ call'[Flusher] = Resting
  BY Parameters DEF Restart
<1>3. PICK none : none = <<>> /\ none \in Seqs /\ IsInjective(none) /\ ToSet(none) = {}
  BY NoneInSeq
<1>4. flush' \in Flushes /\ flush'.on = FALSE /\ flush'.hand = Nil /\ flush'.left = none
  BY <1>2, <1>3 DEF Flushes, Asleep
<1>5. Nil \notin ToSet(queue')
  <2>1. queue' \in Seq(Ids)
    BY <1>2, QueueFields, SeqsAre
  <2>2. QED
    BY <2>1, Parameters DEF ToSet
<1>6. OneCopy'
  BY <1>2, <1>3, <1>4, <1>5, CopiesNext, QueueFields
<1>7. Queueing'
  BY <1>2, <1>3, <1>4, <1>6, QueueFields, RestingCall DEF Queueing, Handed
<1>8. QueueOK'
  BY <1>2, <1>4, QueueFields, Typed DEF QueueOK
<1>9. QED
  BY <1>1, <1>2, <1>7, <1>8, Typed, InvNext DEF BooksOK

LEMMA InitPush == Init => PushInv
<1> SUFFICES ASSUME Init PROVE PushInv
  OBVIOUS
<1>1. /\ day = 0 /\ count = [s \in Symbols |-> [d \in Days |-> 0]] /\ call = [x \in Callers |-> Resting]
      /\ queue = <<>> /\ store = <<>> /\ flush = Asleep /\ sym \in [Ids -> Symbols] /\ age = [i \in Ids |-> 0]
      /\ delivered = count /\ lost = count /\ astray = [s \in Symbols |-> [d \in Days |-> FALSE]]
  BY DEF Init
<1>2. PICK none : none = <<>> /\ none \in Seqs /\ IsInjective(none) /\ ToSet(none) = {}
  BY NoneInSeq
<1>3. flush \in Flushes /\ flush.on = FALSE /\ flush.hand = Nil /\ flush.left = none
  BY <1>1, <1>2 DEF Flushes, Asleep
<1>4. QueueOK
  BY <1>1, <1>2, <1>3, Parameters DEF QueueOK
<1>5. call \in [Callers -> Calls] /\ \A x \in Callers : call[x] = Resting
  BY <1>1, RestingCall
<1>6. Queueing
  <2>1. OneCopy
    BY <1>1, <1>2, <1>3, Copies
  <2>2. QED
    BY <1>1, <1>2, <1>3, <1>5, <2>1, RestingCall, Parameters DEF Queueing, Handed
<1>7. count \in PerDay(Nat) /\ day \in Days
  BY <1>1, Parameters DEF PerDay, Days
<1>8. astray \in PerDay(BOOLEAN)
  BY <1>1 DEF PerDay
<1>9. PushTypeOK
  BY <1>1, <1>4, <1>5, <1>7, <1>8, TypeParts
<1>10. ASSUME NEW s \in Symbols, NEW d \in Days PROVE Exact(s, d) /\ Alone(s, d)
  <2>1. count[s][d] = 0 /\ delivered[s][d] = 0 /\ lost[s][d] = 0
    BY <1>1
  <2>2. Holding(s, d) = {} /\ Sending(s, d) = {}
    BY <1>5, RestingCall DEF Holding, Sending
  <2>3. Cardinality(Holding(s, d)) = 0
    BY <2>2, FS_EmptySet
  <2>4. QED
    BY <2>1, <2>2, <2>3 DEF Exact, Alone
<1>11. CounterExact /\ OneAtATime
  <2>1. CounterExact
    BY <1>10 DEF CounterExact, Exact
  <2>2. OneAtATime
    BY <1>10 DEF OneAtATime, Alone
  <2>3. QED
    BY <2>1, <2>2
<1>12. Shaped
  BY <1>5, RestingCall DEF Shaped
<1>13. QED
  BY <1>6, <1>9, <1>11, <1>12 DEF PushInv, Counting

LEMMA PushStep == PushInv /\ [Next]_vars => PushInv'
<1> SUFFICES ASSUME PushInv, [Next]_vars PROVE PushInv'
  OBVIOUS
<1>1. CASE \E x \in Direct, s \in Symbols : Ask(x, s) \/ AskUncounted(x, s)
  <2>1. PICK x \in Direct, s \in Symbols : Ask(x, s) \/ AskUncounted(x, s)
    BY <1>1
  <2>2. x \in Callers /\ x # Flusher
    BY PushAssumption DEF Callers
  <2>3. QED
    BY <2>1, <2>2, AskInv, AskUncountedInv
<1>2. CASE \E x \in Callers : Deliver(x)
  BY <1>2, ReachesInv, NobodyInv, GiveBackInv DEF Deliver
<1>3. CASE \E i \in Ids, s \in Symbols : Defer(i, s)
  BY <1>3, DeferInv
<1>4. CASE BeginFlush \/ TakeNext \/ DropByPolicy \/ Keep \/ EndFlush
  BY <1>4, BeginFlushInv, TakeNextInv, HandInv, EndFlushInv
<1>5. CASE Attempt
  <2>1. flush.hand \in Ids /\ sym[flush.hand] \in Symbols /\ Flusher \in Callers
    BY <1>5, QueueFields, Typed, Parameters DEF Attempt, InHand, QueueOK
  <2>2. QED
    BY <1>5, <2>1, AskInv, AskUncountedInv DEF Attempt
<1>6. CASE Disabled \/ ResetQueue \/ Persist
  BY <1>6, ForgetInv
<1>7. CASE Midnight \/ TimePasses
  BY <1>7, ClockInv
<1>8. CASE Restart
  BY <1>8, RestartInv
<1>9. CASE UNCHANGED vars
  <2>1. UNCHANGED <<day, count, call, queue, sym, age, flush, store, sent>>
    BY <1>9 DEF vars
  <2>2. QueueOK' /\ Queueing'
    BY <2>1, QueueKept, QueueFields DEF Handed
  <2>3. QED
    BY <2>1, <2>2, Typed, QueueStep
<1>10. QED
  BY <1>1, <1>2, <1>3, <1>4, <1>5, <1>6, <1>7, <1>8, <1>9 DEF Next, Ordinary, FlushStep

(* Counter, calls, queue and flush stay in step, whatever is counted, sent,   *)
(* refused, deferred, flushed, saved, reset or restarted.                    *)
THEOREM PushInvHolds == Spec => []PushInv
BY InitPush, PushStep, PTL DEF Spec

(* Counters, calls, queue and flush hold the values meant for them; the       *)
(* queue never outgrows its maxlen.                                          *)
THEOREM PushTypes == Spec => []PushTypeOK
<1>1. PushInv => PushTypeOK
  BY DEF PushInv
<1>2. QED
  BY <1>1, PushInvHolds, PTL

(* The counter of a coin and day never drifts from what was counted.         *)
THEOREM CounterNeverDrifts == Spec => []CounterExact
<1>1. PushInv => CounterExact
  BY DEF PushInv, Counting
<1>2. QED
  BY <1>1, PushInvHolds, PTL

(* Of the counted pushes of a coin, one a day is delivered, unless a count    *)
(* of another day was given back to this one.                               *)
THEOREM OneADay == Spec => []OncePerDay
<1>1. PushInv => OncePerDay
  BY DEF PushInv, Counting, OneAtATime, OncePerDay
<1>2. QED
  BY <1>1, PushInvHolds, PTL

(* A deferred notification is in one place only.                             *)
THEOREM NeverCopied == Spec => []OneCopy
<1>1. PushInv => OneCopy
  BY DEF PushInv, Queueing
<1>2. QED
  BY <1>1, PushInvHolds, PTL

(* Only asking refuses, and only when the counter stood above zero.          *)
LEMMA AskRefuses ==
  ASSUME PushInv, NEW x \in Callers, NEW y \in Callers, NEW s \in Symbols, Ask(y, s),
         ~call[x].refused, call'[x].refused
  PROVE  /\ call'[x].sym = s
         /\ astray[s][day] \/ delivered[s][day] + lost[s][day] > 0 \/ Holding(s, day) # {}
<1>1. PICK d \in Days : d = day
  BY Typed
<1>2. PICK refused : refused = OverLimit(count[s][d] + 1)
  OBVIOUS
<1>3. PICK c : c = [at |-> IF refused THEN "returning" ELSE "sending", sym |-> s, day |-> d,
                    counted |-> TRUE, refused |-> refused]
  OBVIOUS
<1>4. call' = [call EXCEPT ![y] = c]
  BY <1>1, <1>2, <1>3 DEF Ask
<1>5. x = y /\ call'[x] = c
  BY <1>4, Typed
<1>6. refused /\ c.sym = s
  BY <1>3, <1>5
<1>7. Exact(s, d) /\ count[s][d] \in Nat /\ delivered[s][d] \in Nat /\ lost[s][d] \in Nat
  BY EachDay, Books, Typed
<1>8. count[s][d] > 0
  <2>1. count[s][d] + 1 > 1
    BY <1>2, <1>6, Zenon DEF OverLimit
  <2>2. QED
    BY <1>7, <2>1
<1>9. Holding(s, d) = {} => Cardinality(Holding(s, d)) = 0
  BY FS_EmptySet
<1>10. ~astray[s][d] => delivered[s][d] + lost[s][d] > 0 \/ Holding(s, d) # {}
  BY <1>7, <1>8, <1>9 DEF Exact
<1>11. QED
  BY <1>1, <1>5, <1>6, <1>10

LEMMA SilenceStep ==
  ASSUME PushInv, [Next]_vars, NEW x \in Callers, ~call[x].refused, call'[x].refused
  PROVE  LET s == call'[x].sym
         IN  \/ astray[s][day] \/ delivered[s][day] + lost[s][day] > 0
             \/ Holding(s, day) # {}
<1>1. CASE \E y \in Callers, s \in Symbols : Ask(y, s)
  BY <1>1, AskRefuses
<1>2. CASE UNCHANGED call
  BY <1>2
<1>3. CASE \E y \in Callers : call' = [call EXCEPT ![y] = Resting]
  <2>1. PICK y \in Callers : call' = [call EXCEPT ![y] = Resting]
    BY <1>3
  <2>2. call'[x] = Resting \/ call'[x] = call[x]
    BY <2>1, Typed
  <2>3. QED
    BY <2>2, RestingCall
<1>4. CASE \E y \in Callers, s \in Symbols : AskUncounted(y, s)
  <2>1. PICK y \in Callers, s \in Symbols : AskUncounted(y, s)
    BY <1>4
  <2>2. PICK c : c = [Resting EXCEPT !.at = "sending", !.sym = s]
    OBVIOUS
  <2>3. c.refused = FALSE /\ call' = [call EXCEPT ![y] = c]
    BY <2>1, <2>2, RestingCall DEF AskUncounted, Calls
  <2>4. call'[x] = c \/ call'[x] = call[x]
    BY <2>3, Typed
  <2>5. QED
    BY <2>3, <2>4
<1>5. CASE \E y \in Callers : ReachesNobody(y) /\ call[y].counted
  <2>1. PICK y \in Callers : call' = [call EXCEPT ![y].at = "returning"]
    BY <1>5 DEF ReachesNobody
  <2>2. PICK c : c = [call[y] EXCEPT !.at = "returning"]
    OBVIOUS
  <2>3. c.refused = call[y].refused /\ call' = [call EXCEPT ![y] = c]
    BY <2>1, <2>2, Typed, CallFields DEF Calls
  <2>4. call'[x].refused = call[x].refused
    BY <2>3, Typed
  <2>5. QED
    BY <2>4
<1>6. CASE Restart
  BY <1>6, RestingCall DEF Restart
<1>7. CASE \E y \in Callers : Deliver(y)
  <2>1. PICK y \in Callers : Deliver(y)
    BY <1>7
  <2>2. CASE Reaches(y) \/ GiveBack(y) \/ GiveBackFails(y)
    <3>1. call' = [call EXCEPT ![y] = Resting]
      BY <2>2 DEF Reaches, GiveBack, GiveBackFails, Answered
    <3>2. QED
      BY <1>3, <3>1
  <2>3. CASE ReachesNobody(y) /\ ~call[y].counted
    <3>1. call' = [call EXCEPT ![y] = Resting]
      BY <2>3 DEF ReachesNobody, Answered
    <3>2. QED
      BY <1>3, <3>1
  <2>4. QED
    BY <1>5, <2>1, <2>2, <2>3 DEF Deliver
<1>8. CASE Attempt
  <2>1. flush.hand \in Ids /\ sym[flush.hand] \in Symbols /\ Flusher \in Callers
    BY <1>8, QueueFields, Typed, Parameters DEF Attempt, InHand, QueueOK
  <2>2. QED
    BY <1>1, <1>4, <1>8, <2>1 DEF Attempt
<1>9. CASE \E y \in Direct, s \in Symbols : Ask(y, s) \/ AskUncounted(y, s)
  BY <1>1, <1>4, <1>9 DEF Callers
<1>10. CASE (\E i \in Ids, s \in Symbols : Defer(i, s)) \/ BeginFlush \/ TakeNext \/ DropByPolicy \/ Keep
            \/ EndFlush \/ Disabled \/ ResetQueue \/ Persist \/ Midnight \/ TimePasses \/ UNCHANGED vars
  BY <1>2, <1>10 DEF Defer, BeginFlush, TakeNext, DropByPolicy, Keep, EndFlush, Disabled, ResetQueue,
                     Persist, Midnight, TimePasses, vars
<1>11. QED
  BY <1>6, <1>7, <1>8, <1>9, <1>10 DEF Next, Ordinary, FlushStep

(* Nobody is refused for nothing.                                            *)
THEOREM RefusedForCause == Spec => SilenceHasCause
<1> DEFINE Caused == \A x \in Callers : ~call[x].refused /\ call'[x].refused =>
                       LET s == call'[x].sym
                       IN  \/ astray[s][day] \/ delivered[s][day] + lost[s][day] > 0
                           \/ Holding(s, day) # {}
<1>1. PushInv /\ [Next]_vars => [Caused]_vars
  BY SilenceStep
<1>2. QED
  BY <1>1, PushInvHolds, PTL DEF Spec, SilenceHasCause
=============================================================================
