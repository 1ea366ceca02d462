------------------------- MODULE CombinedPaperProofs -------------------------
(***************************************************************************)
(* Proofs about CombinedPaper for any ids, prices, fees, limits and         *)
(* openers.  What the loop remembers of a listed trade is still what its    *)
(* row says, or the row is gone for good; and a writer that holds the       *)
(* advisory lock still sees the wallet it read, unless a reset committed.   *)
(***************************************************************************)
EXTENDS CombinedPaper, FiniteSetTheorems, TLAPS

(* Only an open row has something to manage.                                *)
Bare == \A i \in Ids : trade[i].status # "open" => ~trade[i].active

(* A listed row, and the trade it was listed from.                          *)
Same(t, u) == t.peak = u.peak /\ t.active = u.active /\ t.trail = u.trail

Winner(t) == t.peak >= Trigger => t.active /\ t.trail >= Larger(t.peak - Gap, Floor)

Listed ==
  \A i \in Ids : loop.todo[i] # NoRow =>
    /\ trade[i].status = "open" => Same(loop.todo[i], trade[i])
    /\ Winner(loop.todo[i])

(* The close and the update under way.                                      *)
Handled ==
  /\ loop.at \in {"closing", "updating"} => loop.id \in Ids /\ loop.todo[loop.id] = NoRow
  /\ loop.at = "closing" /\ loop.reason = "take_profit" => ~trade[loop.id].active
  /\ loop.at = "updating" =>
       /\ Winner(loop)
       /\ trade[loop.id].status = "open" =>
            loop.trail >= trade[loop.id].trail /\ (trade[loop.id].active => loop.active)

(* The advisory lock, and what its holder has read.                         *)
OneWriter == \A o, q \in Writing : o = q
Admitted ==
  \A o \in Writing :
    /\ opener[o].sym \in Symbols
    /\ \A i \in Open : trade[i].sym # opener[o].sym
    /\ MaxOpen = 0 \/ Cardinality(Open) < MaxOpen
    /\ Debit <= opener[o].seen
    /\ ~crossed => opener[o].seen = cash

CombinedInv ==
  /\ CombinedTypeOK /\ Bare /\ Listed /\ Handled
  /\ OneWriter /\ Admitted
  /\ WithinLimits /\ ProfitLocked /\ WalletBalanced
---------------------------------------------------------------------------
(* Values.                                                                  *)
LEMMA Levels ==
  /\ Gains \subseteq Int /\ 0 \in Gains /\ Target \in Gains /\ -Loss \in Gains
  /\ Stake \in Nat /\ Fee \in Nat /\ MaxOpen \in Nat /\ MaxCash \in Nat /\ FirstGap \in Nat
  /\ MaxAge \in Nat /\ Trigger \in Nat /\ Gap \in Nat /\ Floor \in Nat /\ Loss \in Nat
  /\ Balances \subseteq Nat
  /\ Gap < Trigger /\ Floor < Trigger /\ FirstGap <= Gap
  /\ \A g \in Gains : Fee <= Stake + g
BY LevelAssumption, GapAssumption

LEMMA Money ==
  /\ Debit \in Nat /\ 0 \in Effects /\ -Debit \in Effects /\ Effects \subseteq Int
  /\ \A reason \in Reasons, g \in Gains :
       /\ Pnl(reason, g) \in Effects /\ Proceed(reason, g) \in Nat
       /\ Proceed(reason, g) = Pnl(reason, g) + Debit
<1>1. Debit \in Nat /\ 0 \in Effects /\ -Debit \in Effects
  BY Levels DEF Debit, Effects
<1>2. ASSUME NEW reason \in Reasons, NEW g \in Gains
      PROVE  /\ Pnl(reason, g) \in Effects /\ Pnl(reason, g) \in Int /\ Proceed(reason, g) \in Nat
             /\ Proceed(reason, g) = Pnl(reason, g) + Debit
  <2>1. Pnl(reason, g) \in Effects
    BY DEF Effects
  <2>2. ExitFee(reason) \in {0, Fee} /\ g \in Int /\ Fee <= Stake + g
    BY Levels DEF ExitFee
  <2>3. QED
    BY <2>1, <2>2, Levels DEF Pnl, Proceed, Debit
<1>3. Effects \subseteq Int
  BY <1>1, <1>2 DEF Effects
<1>4. QED
  BY <1>1, <1>2, <1>3

LEMMA NoRowFields ==
  /\ NoRow \in Row /\ NoRow.status = "none" /\ NoRow.active = FALSE /\ NoRow.peak = 0
  /\ Winner(NoRow)
<1>1. NoRow.status = "none" /\ NoRow.active = FALSE /\ NoRow.peak = 0
  BY DEF NoRow
<1>2. NoRow \in Row
  BY Levels, Money DEF NoRow, Row
<1>3. Winner(NoRow)
  BY <1>1, Levels DEF Winner
<1>4. QED
  BY <1>1, <1>2, <1>3

LEMMA RowFields ==
  ASSUME NEW t \in Row
  PROVE  /\ t.peak \in Gains /\ t.peak \in Int /\ t.active \in BOOLEAN /\ t.trail \in Int
         /\ t.age \in 0..MaxAge /\ t.pnl \in Effects /\ t.status \in {"none", "open", "closed"}
         /\ t.sym \in Symbols \cup {Nil}
BY Levels DEF Row

(* The loop between two trades.                                             *)
LEMMA BetweenFields ==
  ASSUME NEW todo \in [Ids -> Row]
  PROVE  /\ Between(todo) \in Loop
         /\ Between(todo).at \in {"asleep", "round"} /\ Between(todo).todo = todo
         /\ Between(todo).id = Nil /\ Between(todo).reason = "none"
<1>1. Between(todo).at \in {"asleep", "round"} /\ Between(todo).todo = todo
      /\ Between(todo).id = Nil /\ Between(todo).reason = "none"
  BY DEF Between
<1>2. Between(todo) \in Loop
  BY Levels DEF Between, Loop, Reasons
<1>3. QED
  BY <1>1, <1>2

LEMMA NothingFields == Nothing \in [Ids -> Row] /\ \A i \in Ids : Nothing[i] = NoRow
BY NoRowFields DEF Nothing

LEMMA LoopFields ==
  ASSUME CombinedTypeOK
  PROVE  /\ loop.todo \in [Ids -> Row] /\ loop.id \in Ids \cup {Nil} /\ loop.reason \in Reasons
         /\ loop.gain \in Gains /\ loop.tries \in 0..2 /\ loop.peak \in Gains /\ loop.peak \in Int
         /\ loop.active \in BOOLEAN /\ loop.trail \in Int
         /\ loop.at \in {"asleep", "round", "closing", "updating"}
         /\ trade \in [Ids -> Row] /\ cash \in Int /\ base \in Nat /\ crossed \in BOOLEAN
BY Levels DEF CombinedTypeOK, Loop

LEMMA RestRows ==
  ASSUME CombinedTypeOK, NEW i \in Ids
  PROVE  /\ Rest(i) \in [Ids -> Row] /\ Rest(i)[i] = NoRow
         /\ \A j \in Ids : j # i => Rest(i)[j] = loop.todo[j]
BY LoopFields, NoRowFields DEF Rest

---------------------------------------------------------------------------
(* What managing a trade yields.                                            *)
LEMMA TrailFacts ==
  ASSUME NEW t \in Row, NEW p \in Gains, Winner(t)
  PROVE  /\ Peak(t, p) \in Gains /\ Peak(t, p) \in Int /\ Trail(t, p) \in Int /\ Stop(t, p) \in Int
         /\ Triggered(t, p) \in BOOLEAN
         /\ Triggered(t, p) => Trail(t, p) >= t.trail /\ Trail(t, p) >= Larger(Peak(t, p) - Gap, Floor)
<1>1. p \in Int /\ t.peak \in Int /\ t.peak \in Gains /\ t.trail \in Int /\ t.active \in BOOLEAN
  BY Levels, RowFields
<1>2. Peak(t, p) \in Gains /\ Peak(t, p) \in Int
  BY <1>1 DEF Peak, Larger
<1>3. Trail(t, p) \in Int
  BY <1>1, <1>2, Levels DEF Trail, Larger
<1>4. ASSUME Triggered(t, p)
      PROVE  Trail(t, p) >= t.trail /\ Trail(t, p) >= Larger(Peak(t, p) - Gap, Floor)
  <2> DEFINE wanted == Larger(Peak(t, p) - Gap, Floor)
  <2>1. wanted \in Int
    BY <1>2, Levels DEF Larger
  <2>2. CASE ~t.active /\ wanted >= p
    <3>1. Peak(t, p) = p /\ p >= Trigger
      BY <1>1, <1>4, <2>2, Levels DEF Winner, Triggered, Peak, Larger
    <3>2. p - FirstGap >= wanted
      BY <1>1, <2>1, <2>2, <3>1, Levels DEF Larger
    <3>3. QED
      BY <1>1, <2>1, <2>2, <3>2, Levels DEF Trail, Larger
  <2>3. CASE ~(~t.active /\ wanted >= p)
    <3>1. Trail(t, p) = Larger(t.trail, wanted)
      BY <2>3 DEF Trail
    <3>2. QED
      BY <1>1, <2>1, <3>1 DEF Larger
  <2>4. QED
    BY <2>2, <2>3
<1>5. Stop(t, p) \in Int
  BY <1>3, Levels DEF Stop, Larger
<1>6. QED
  BY <1>2, <1>3, <1>4, <1>5 DEF Triggered

LEMMA VerdictFacts ==
  ASSUME NEW t \in Row, NEW p \in Gains
  PROVE  /\ Verdict(t, p) \in Reasons /\ Fill(t, p) \in Gains
         /\ Verdict(t, p) = "take_profit" => ~t.active
BY Levels DEF Verdict, Reasons, Fill, HitsTarget

LEMMA ManageFacts ==
  ASSUME CombinedTypeOK, Listed, NEW i \in Ids, NEW p \in Gains, Manage(i, p)
  PROVE  /\ loop' \in Loop /\ loop'.todo = Rest(i) /\ loop'.id = i
         /\ loop.todo[i] \in Row /\ Winner(loop.todo[i])
         /\ \/ loop'.at = "closing" /\ (loop'.reason = "take_profit" => ~loop.todo[i].active)
            \/ /\ loop'.at = "updating" /\ Winner(loop)'
               /\ loop'.trail >= loop.todo[i].trail /\ (loop.todo[i].active => loop'.active)
<1>1. PICK t \in Row : t = loop.todo[i] /\ t # NoRow /\ Winner(t)
  BY LoopFields DEF Manage, Listed
<1>2. PICK next : next = [Between(Rest(i)) EXCEPT !.id = i]
  OBVIOUS
<1>3. next \in Loop /\ next.todo = Rest(i) /\ next.id = i
  BY <1>2, RestRows, BetweenFields DEF Loop
<1>4. t.trail \in Int /\ t.active \in BOOLEAN /\ t.peak \in Int
  BY RowFields
<1>5. CASE Verdict(t, p) # "none"
  <2>1. loop' = [next EXCEPT !.at = "closing", !.reason = Verdict(t, p), !.gain = Fill(t, p), !.tries = 1]
    BY <1>1, <1>2, <1>5 DEF Manage
  <2>2. PICK reason \in Reasons, gain \in Gains : reason = Verdict(t, p) /\ gain = Fill(t, p)
    BY VerdictFacts
  <2>3. loop' = [next EXCEPT !.at = "closing", !.reason = reason, !.gain = gain, !.tries = 1]
    BY <2>1, <2>2
  <2>4. 1 \in 0..2 /\ "closing" \in {"asleep", "round", "closing", "updating"}
    OBVIOUS
  <2>5. [next EXCEPT !.at = "closing", !.reason = reason, !.gain = gain, !.tries = 1] \in Loop
    BY <1>3, <2>2, <2>4, Zenon DEF Loop
  <2>6. loop'.todo = Rest(i) /\ loop'.id = i /\ loop'.at = "closing" /\ loop'.reason = reason
    BY <1>3, <2>3 DEF Loop
  <2>7. QED
    BY <1>1, <2>2, <2>3, <2>5, <2>6, VerdictFacts
<1>6. CASE Verdict(t, p) = "none"
  <2>1. loop' = [next EXCEPT !.at = "updating", !.peak = Peak(t, p), !.active = t.active \/ Triggered(t, p),
                             !.trail = IF Triggered(t, p) THEN Trail(t, p) ELSE t.trail]
    BY <1>1, <1>2, <1>6 DEF Manage
  <2>2. PICK peak, active, trail :
          /\ peak = Peak(t, p) /\ active = (t.active \/ Triggered(t, p))
          /\ trail = IF Triggered(t, p) THEN Trail(t, p) ELSE t.trail
    OBVIOUS
  <2>3. peak \in Gains /\ active \in BOOLEAN /\ trail \in Int
    BY <1>1, <1>4, <2>2, TrailFacts
  <2>4. loop' = [next EXCEPT !.at = "updating", !.peak = peak, !.active = active, !.trail = trail]
    BY <2>1, <2>2
  <2>5. loop' \in Loop /\ loop'.todo = Rest(i) /\ loop'.id = i /\ loop'.at = "updating"
        /\ loop'.peak = peak /\ loop'.active = active /\ loop'.trail = trail
    BY <1>3, <2>3, <2>4 DEF Loop
  <2>6. (t.active => active) /\ trail >= t.trail
    BY <1>1, <1>4, <2>2, TrailFacts
  <2>7. peak >= Trigger => active /\ trail >= Larger(peak - Gap, Floor)
    BY <1>1, <2>2, TrailFacts DEF Triggered
  <2>8. QED
    BY <1>1, <2>5, <2>6, <2>7 DEF Winner
<1>7. QED
  BY <1>5, <1>6
---------------------------------------------------------------------------
(* What the loop knows, as trades close or go.                              *)
Fewer == \A j \in Ids : trade'[j] = trade[j] \/ (trade'[j].status # "open" /\ ~trade'[j].active)

LEMMA LoopKept ==
  ASSUME CombinedInv, Fewer, loop' = loop
  PROVE  Listed' /\ Handled'
<1>1. Listed'
  BY LoopFields DEF CombinedInv, Listed, Fewer, Same
<1>2. Handled'
  BY LoopFields DEF CombinedInv, Handled, Fewer, Winner
<1>3. QED
  BY <1>1, <1>2

LEMMA LoopMoved ==
  ASSUME CombinedInv, Fewer, NEW todo \in [Ids -> Row], loop' = Between(todo),
         \A j \in Ids : todo[j] \in {loop.todo[j], NoRow}
  PROVE  loop' \in Loop /\ Listed' /\ Handled'
<1>1. loop' \in Loop /\ loop'.at \in {"asleep", "round"} /\ loop'.todo = todo
  BY BetweenFields
<1>2. Listed'
  BY <1>1 DEF CombinedInv, Listed, Fewer, Same
<1>3. Handled'
  BY <1>1 DEF Handled
<1>4. QED
  BY <1>1, <1>2, <1>3

LEMMA RetriedFacts ==
  ASSUME CombinedInv, Fewer, loop.at = "closing", loop' = Retried
  PROVE  loop' \in Loop /\ Listed' /\ Handled'
<1>1. CASE loop.tries # 1
  BY <1>1, LoopFields, LoopMoved DEF Retried, CombinedInv
<1>2. CASE loop.tries = 1
  <2>1. loop' = [loop EXCEPT !.tries = 2]
    BY <1>2 DEF Retried
  <2>2. 2 \in 0..2
    OBVIOUS
  <2>3. loop' \in Loop
    BY <2>1, <2>2, Zenon DEF CombinedInv, CombinedTypeOK, Loop
  <2>4. loop'.at = "closing" /\ loop'.todo = loop.todo /\ loop'.id = loop.id /\ loop'.reason = loop.reason
    BY <1>2, <2>1 DEF CombinedInv, CombinedTypeOK, Loop
  <2>5. Listed'
    BY <2>4, LoopFields DEF CombinedInv, Listed, Fewer, Same
  <2>6. Handled'
    BY <2>4, LoopFields DEF CombinedInv, Handled, Fewer
  <2>7. QED
    BY <2>3, <2>5, <2>6
<1>3. QED
  BY <1>1, <1>2

---------------------------------------------------------------------------
(* Counting and adding.                                                     *)
LEMMA OpenFinite == IsFiniteSet(Open) /\ Cardinality(Open) \in Nat
BY NameAssumption, FS_Subset, FS_CardinalityType DEF Open

LEMMA FewerOpen ==
  ASSUME Fewer
  PROVE  Open' \subseteq Open /\ Cardinality(Open') \in Nat /\ Cardinality(Open') <= Cardinality(Open)
<1>1. Open' \subseteq Open
  BY DEF Fewer, Open
<1>2. QED
  BY <1>1, OpenFinite, FS_Subset, FS_CardinalityType

Effs == [i \in Ids |-> Effect(i)]

LEMMA EffsType ==
  ASSUME CombinedTypeOK
  PROVE  Effs \in [Ids -> Effects] /\ Total(Effs) \in Int
<1>1. \A i \in Ids : Effect(i) \in Effects
  BY LoopFields, RowFields, Money DEF Effect
<1>2. Effs \in [Ids -> Effects]
  BY <1>1 DEF Effs
<1>3. QED
  BY <1>2, TotalAssumption

LEMMA EffsChange ==
  ASSUME CombinedTypeOK, trade' \in [Ids -> Row], NEW i \in Ids, \A j \in Ids : j # i => trade'[j] = trade[j]
  PROVE  Total(Effs') = Total(Effs) - Effect(i) + Effect(i)'
<1>0. Effs' \in [Ids -> Effects]
  <2>1. ASSUME NEW j \in Ids PROVE Effect(j)' \in Effects
    <3>1. trade'[j].status \in {"none", "open", "closed"} /\ trade'[j].pnl \in Effects
      BY DEF Row
    <3>2. QED
      BY <3>1, Money DEF Effect
  <2>2. QED
    BY <2>1 DEF Effs
<1>1. Effs \in [Ids -> Effects] /\ Effs' \in [Ids -> Effects]
  BY <1>0, EffsType
<1>2. \A j \in Ids : Effs[j] = Effect(j) /\ Effs'[j] = Effect(j)'
  BY DEF Effs
<1>3. \A j \in Ids : j # i => Effs'[j] = Effs[j]
  <2>1. ASSUME NEW j \in Ids, j # i PROVE Effect(j)' = Effect(j)
    <3>1. trade'[j] = trade[j]
      BY <2>1
    <3>2. QED
      BY <3>1 DEF Effect
  <2>2. QED
    BY <1>2, <2>1
<1>4. Effs' = [Effs EXCEPT ![i] = Effs'[i]] /\ Effs'[i] \in Effects
  BY <1>1, <1>3
<1>5. Total([Effs EXCEPT ![i] = Effs'[i]]) = Total(Effs) - Effs[i] + Effs'[i]
  BY <1>1, <1>4, TotalAssumption
<1>6. QED
  BY <1>2, <1>4, <1>5
---------------------------------------------------------------------------
(* The parts of the invariant that rows and wallet make up.                 *)
Store == Bare /\ OneWriter /\ Admitted /\ WithinLimits /\ ProfitLocked /\ WalletBalanced

LEMMA Balanced == WalletBalanced <=> (~crossed => cash = base + Total(Effs))
BY DEF WalletBalanced, Effs

LEMMA BalancedNext == WalletBalanced' <=> (~crossed' => cash' = base' + Total(Effs'))
BY DEF WalletBalanced, Effs

(* A close: nobody is writing, one row settles or nothing changes.          *)
LEMMA CloseStep ==
  ASSUME CombinedInv, NEW i \in Ids, NEW reason \in Reasons, NEW gain \in Gains,
         MayClose(i), Close(i, reason, gain), UNCHANGED <<opener, base, crossed>>
  PROVE  Fewer /\ Store' /\ trade' \in [Ids -> Row] /\ cash' \in Int
<1>0. CombinedTypeOK /\ Store /\ Writing = {} /\ Writing' = Writing
  BY DEF CombinedInv, Store, MayClose, Writing
<1>1. CASE trade[i].status # "open"
  <2>1. UNCHANGED <<trade, cash>>
    BY <1>1 DEF Close
  <2>2. Fewer
    BY <2>1 DEF Fewer
  <2>3. Open' = Open /\ Effs' = Effs
    BY <2>1 DEF Open, Effs, Effect
  <2>4. Store'
    BY <1>0, <2>1, <2>3, Balanced, BalancedNext DEF Store, Bare, OneWriter, Admitted, WithinLimits, ProfitLocked
  <2>5. QED
    BY <1>0, <2>1, <2>2, <2>4, LoopFields
<1>2. CASE trade[i].status = "open"
  <2>1. PICK row : row = [NoRow EXCEPT !.status = "closed", !.pnl = Pnl(reason, gain)]
    OBVIOUS
  <2>2. row \in Row /\ row.status = "closed" /\ row.active = FALSE /\ row.pnl = Pnl(reason, gain)
    BY <2>1, NoRowFields, Money DEF NoRow, Row
  <2>3. trade' = [trade EXCEPT ![i] = row] /\ cash' = cash + Proceed(reason, gain)
    BY <1>2, <2>1 DEF Close, Settle
  <2>4. trade' \in [Ids -> Row] /\ trade'[i] = row /\ (\A j \in Ids : j # i => trade'[j] = trade[j])
        /\ cash' \in Int /\ cash' >= cash
    BY <1>0, <2>2, <2>3, LoopFields, Money
  <2>5. Fewer
    BY <2>2, <2>4 DEF Fewer
  <2>6. Open' \subseteq Open /\ Cardinality(Open') \in Nat /\ Cardinality(Open') <= Cardinality(Open)
    BY <2>5, FewerOpen
  <2>7. Bare' /\ ProfitLocked'
    BY <1>0, <2>2, <2>4 DEF Store, Bare, ProfitLocked, Open
  <2>8. OneWriter' /\ Admitted'
    BY <1>0 DEF OneWriter, Admitted
  <2>9. WithinLimits'
    <3>1. \A j \in Open' : j \in Open /\ trade'[j] = trade[j]
      BY <2>2, <2>4, <2>6 DEF Open
    <3>2. cash' >= 0
      BY <1>0, <2>4, LoopFields DEF Store, WithinLimits
    <3>3. MaxOpen = 0 \/ Cardinality(Open') <= MaxOpen
      BY <1>0, <2>6, OpenFinite, Levels DEF Store, WithinLimits
    <3>4. QED
      BY <1>0, <3>1, <3>2, <3>3 DEF Store, WithinLimits
  <2>10. WalletBalanced'
    <3>1. Effect(i) = -Debit /\ Effect(i)' = Pnl(reason, gain)
      BY <1>2, <2>2, <2>4 DEF Effect
    <3>2. Total(Effs') = Total(Effs) - Effect(i) + Effect(i)'
      BY <1>0, <2>4, EffsChange
    <3>3. /\ Pnl(reason, gain) \in Int /\ Debit \in Int /\ Proceed(reason, gain) \in Int
          /\ Proceed(reason, gain) = Pnl(reason, gain) + Debit
      <4>1. Pnl(reason, gain) \in Effects /\ Proceed(reason, gain) = Pnl(reason, gain) + Debit
            /\ Effects \subseteq Int /\ Proceed(reason, gain) \in Nat /\ Debit \in Nat
        BY Money, Zenon
      <4>2. \A n \in Nat : n \in Int
        OBVIOUS
      <4>3. QED
        BY <4>1, <4>2, Zenon
    <3>4. Total(Effs') = Total(Effs) + Proceed(reason, gain)
      BY <1>0, <3>1, <3>2, <3>3, EffsType
    <3>5. cash' = cash + Proceed(reason, gain) /\ cash \in Int /\ base \in Int /\ base' = base /\ crossed' = crossed
      BY <1>0, <2>3, LoopFields
    <3>6. QED
      BY <1>0, <3>3, <3>4, <3>5, EffsType, Balanced, BalancedNext DEF Store
  <2>11. QED
    BY <2>4, <2>5, <2>7, <2>8, <2>9, <2>10 DEF Store
<1>3. QED
  BY <1>1, <1>2
(* Nothing changes in rows, wallet or writers.                              *)
LEMMA StoreKept ==
  ASSUME CombinedInv, UNCHANGED <<trade, cash, opener, base, crossed>>
  PROVE  Fewer /\ Store'
<1>1. Open' = Open /\ Effs' = Effs /\ Writing' = Writing
  BY DEF Open, Effs, Effect, Writing
<1>2. QED
  BY <1>1, Balanced, BalancedNext
     DEF CombinedInv, Fewer, Store, Bare, OneWriter, Admitted, WithinLimits, ProfitLocked

(* Fewer writers.                                                           *)
LEMMA WritersLess ==
  ASSUME CombinedInv, UNCHANGED <<trade, cash, base, crossed>>, Writing' \subseteq Writing,
         \A o \in Writing' : opener'[o] = opener[o]
  PROVE  Fewer /\ Store'
<1>1. Open' = Open /\ Effs' = Effs
  BY DEF Open, Effs, Effect
<1>2. QED
  BY <1>1, Balanced, BalancedNext
     DEF CombinedInv, Fewer, Store, Bare, OneWriter, Admitted, WithinLimits, ProfitLocked

OpenerRow == [at : {"idle", "writing"}, sym : Symbols \cup {Nil}, seen : Int]

LEMMA RestingFields == Resting \in OpenerRow /\ Resting.at = "idle"
BY DEF Resting, OpenerRow

(* ---- opens ---- *)
LEMMA BeginOpenInv ==
  ASSUME CombinedInv, NEW o \in Openers, NEW s \in Symbols, BeginOpen(o, s)
  PROVE  CombinedInv'
<1>0. CombinedTypeOK /\ cash \in Int /\ opener \in [Openers -> OpenerRow] /\ Writing = {} /\ MayOpen(s)
      /\ UNCHANGED <<cash, trade, loop, reset, base, crossed>>
  BY LoopFields DEF CombinedInv, CombinedTypeOK, OpenerRow, BeginOpen
<1>1. PICK w \in OpenerRow : w = [at |-> "writing", sym |-> s, seen |-> cash]
  BY <1>0 DEF OpenerRow
<1>2. opener' = [opener EXCEPT ![o] = w] /\ w.at = "writing" /\ w.sym = s /\ w.seen = cash
  BY <1>1 DEF BeginOpen
<1>3. CombinedTypeOK'
  BY <1>0, <1>2 DEF CombinedTypeOK, OpenerRow
<1>4. Writing' = {o} /\ opener'[o] = w
  BY <1>0, <1>2 DEF Writing
<1>5. Open' = Open /\ Effs' = Effs /\ Fewer
  BY <1>0 DEF Open, Effs, Effect, Fewer
<1>6. Listed' /\ Handled'
  BY <1>0, <1>5, LoopKept
<1>7. Admitted' /\ OneWriter'
  BY <1>0, <1>2, <1>4, <1>5 DEF Admitted, OneWriter, MayOpen
<1>8. QED
  BY <1>0, <1>3, <1>5, <1>6, <1>7, Balanced, BalancedNext
     DEF CombinedInv, Bare, WithinLimits, ProfitLocked

LEMMA FailOpenInv ==
  ASSUME CombinedInv, NEW o \in Openers, FailOpen(o)
  PROVE  CombinedInv'
<1>0. CombinedTypeOK /\ opener \in [Openers -> OpenerRow] /\ opener' = [opener EXCEPT ![o] = Resting]
      /\ UNCHANGED <<cash, trade, loop, reset, base, crossed>>
  BY DEF CombinedInv, CombinedTypeOK, OpenerRow, FailOpen
<1>1. CombinedTypeOK'
  BY <1>0, RestingFields DEF CombinedTypeOK, OpenerRow
<1>2. Writing' \subseteq Writing /\ \A q \in Writing' : opener'[q] = opener[q]
  BY <1>0, RestingFields DEF Writing
<1>3. Fewer /\ Store'
  BY <1>0, <1>2, WritersLess
<1>4. Listed' /\ Handled'
  BY <1>0, <1>3, LoopKept
<1>5. QED
  BY <1>1, <1>3, <1>4 DEF CombinedInv, Store

LEMMA CommitOpenInv ==
  ASSUME CombinedInv, NEW o \in Openers, NEW i \in Ids, CommitOpen(o, i)
  PROVE  CombinedInv'
<1>0. CombinedTypeOK /\ opener \in [Openers -> OpenerRow] /\ opener' = [opener EXCEPT ![o] = Resting]
      /\ o \in Writing /\ trade[i].status = "none" /\ loop.todo[i] = NoRow /\ loop.id # i
      /\ UNCHANGED <<loop, reset, base, crossed>> /\ cash' = opener[o].seen - Debit
  BY DEF CombinedInv, CombinedTypeOK, OpenerRow, CommitOpen, Writing, Fresh, Rows
<1>1. PICK s \in Symbols : s = opener[o].sym
  BY <1>0 DEF CombinedInv, Admitted
<1>2. PICK row : row = [NoRow EXCEPT !.status = "open", !.sym = s]
  OBVIOUS
<1>3. row \in Row /\ row.status = "open" /\ row.sym = s /\ row.peak = 0
  BY <1>2, NoRowFields DEF NoRow, Row
<1>4. trade' = [trade EXCEPT ![i] = row]
  BY <1>1, <1>2 DEF CommitOpen
<1>5. trade' \in [Ids -> Row] /\ trade'[i] = row /\ \A j \in Ids : j # i => trade'[j] = trade[j]
  BY <1>0, <1>3, <1>4, LoopFields
<1>6. opener[o].seen \in Int /\ cash' \in Int /\ cash' >= 0
  BY <1>0, Money DEF OpenerRow, CombinedInv, Admitted
<1>7. CombinedTypeOK'
  BY <1>0, <1>5, <1>6, RestingFields DEF CombinedTypeOK, OpenerRow
<1>8. Writing = {o} /\ Writing' = {}
  BY <1>0, RestingFields DEF Writing, CombinedInv, OneWriter
<1>9. OneWriter' /\ Admitted'
  BY <1>8 DEF OneWriter, Admitted
<1>10. Open' = Open \cup {i} /\ i \notin Open
  BY <1>0, <1>3, <1>5 DEF Open
<1>11. Cardinality(Open') = Cardinality(Open) + 1
  BY <1>10, OpenFinite, FS_AddElement
<1>12. WithinLimits'
  <2>1. MaxOpen = 0 \/ Cardinality(Open') <= MaxOpen
    BY <1>0, <1>11, OpenFinite, Levels DEF CombinedInv, Admitted
  <2>2. \A j \in Open : trade[j].sym # s
    BY <1>0, <1>1 DEF CombinedInv, Admitted
  <2>3. \A j, k \in Open' : trade'[j].sym = trade'[k].sym => j = k
    BY <1>3, <1>5, <1>10, <2>2 DEF CombinedInv, WithinLimits, Open
  <2>4. QED
    BY <1>6, <2>1, <2>3 DEF WithinLimits
<1>13. Bare' /\ ProfitLocked'
  BY <1>3, <1>5, <1>10, Levels DEF CombinedInv, Bare, ProfitLocked, Open
<1>14. WalletBalanced'
  <2>1. Effect(i) = 0 /\ Effect(i)' = -Debit
    BY <1>0, <1>3, <1>5 DEF Effect
  <2>2. Total(Effs') = Total(Effs) - Effect(i) + Effect(i)'
    BY <1>0, <1>5, EffsChange
  <2>3. Total(Effs') = Total(Effs) - Debit
    BY <1>0, <2>1, <2>2, Money, EffsType
  <2>4. ~crossed => opener[o].seen = base + Total(Effs)
    BY <1>0, Balanced DEF CombinedInv, Admitted
  <2>5. QED
    BY <1>0, <1>6, <2>3, <2>4, BalancedNext, Money, EffsType, LoopFields
<1>15. Listed' /\ Handled'
  BY <1>0, <1>5 DEF CombinedInv, Listed, Handled, Winner
<1>16. QED
  BY <1>7, <1>9, <1>12, <1>13, <1>14, <1>15 DEF CombinedInv
(* ---- the loop ---- *)
LEMMA BeginRoundInv == ASSUME CombinedInv, BeginRound PROVE CombinedInv'
<1>0. CombinedTypeOK /\ UNCHANGED <<cash, trade, opener, reset, base, crossed>>
  BY DEF CombinedInv, BeginRound
<1>1. PICK todo : todo = [i \in Ids |-> IF i \in Open THEN trade[i] ELSE NoRow]
  OBVIOUS
<1>2. todo \in [Ids -> Row] /\ loop' = Between(todo)
  BY <1>0, <1>1, LoopFields, NoRowFields DEF BeginRound
<1>3. loop' \in Loop /\ loop'.at \in {"asleep", "round"} /\ loop'.todo = todo
  BY <1>2, BetweenFields
<1>4. Listed'
  <2>1. ASSUME NEW i \in Ids, todo[i] # NoRow
        PROVE  Same(todo[i], trade[i]) /\ Winner(todo[i])
    BY <1>1, <2>1 DEF CombinedInv, ProfitLocked, Same, Winner
  <2>2. QED
    BY <1>0, <1>3, <2>1 DEF Listed
<1>5. Handled'
  BY <1>3 DEF Handled
<1>6. Store' /\ CombinedTypeOK'
  BY <1>0, <1>3, StoreKept DEF CombinedTypeOK
<1>7. QED
  BY <1>4, <1>5, <1>6 DEF CombinedInv, Store

LEMMA SkipTradeInv == ASSUME CombinedInv, NEW i \in Ids, SkipTrade(i) PROVE CombinedInv'
<1>0. CombinedTypeOK /\ UNCHANGED <<cash, trade, opener, reset, base, crossed>> /\ loop' = Between(Rest(i))
  BY DEF CombinedInv, SkipTrade
<1>1. Store' /\ Fewer
  BY <1>0, StoreKept
<1>2. loop' \in Loop /\ Listed' /\ Handled'
  BY <1>0, <1>1, RestRows, LoopMoved
<1>3. CombinedTypeOK'
  BY <1>0, <1>2 DEF CombinedTypeOK
<1>4. QED
  BY <1>1, <1>2, <1>3 DEF CombinedInv, Store

LEMMA ManageInv == ASSUME CombinedInv, NEW i \in Ids, NEW p \in Gains, Manage(i, p) PROVE CombinedInv'
<1>0. CombinedTypeOK /\ Listed /\ Bare /\ UNCHANGED <<cash, trade, opener, reset, base, crossed>>
      /\ loop.todo[i] # NoRow
  BY DEF CombinedInv, Manage
<1>1. Store'
  BY <1>0, StoreKept
<1>2. /\ loop' \in Loop /\ loop'.todo = Rest(i) /\ loop'.id = i
      /\ \/ loop'.at = "closing" /\ (loop'.reason = "take_profit" => ~loop.todo[i].active)
         \/ /\ loop'.at = "updating" /\ Winner(loop)'
            /\ loop'.trail >= loop.todo[i].trail /\ (loop.todo[i].active => loop'.active)
  BY <1>0, ManageFacts
<1>3. trade[i].status = "open" => Same(loop.todo[i], trade[i])
  BY <1>0 DEF Listed
<1>4. Listed'
  BY <1>0, <1>2, RestRows DEF Listed
<1>5. Handled'
  BY <1>0, <1>2, <1>3, RestRows DEF Handled, Same, Bare
<1>6. CombinedTypeOK'
  BY <1>0, <1>2 DEF CombinedTypeOK
<1>7. QED
  BY <1>1, <1>4, <1>5, <1>6 DEF CombinedInv, Store

LEMMA LoopCloseInv == ASSUME CombinedInv, LoopClose PROVE CombinedInv'
<1>0. CombinedTypeOK /\ UNCHANGED <<opener, reset, base, crossed>> /\ loop.at = "closing"
      /\ loop.id \in Ids /\ loop.reason \in Reasons /\ loop.gain \in Gains /\ loop.todo \in [Ids -> Row]
      /\ MayClose(loop.id) /\ Close(loop.id, loop.reason, loop.gain)
  BY LoopFields DEF CombinedInv, LoopClose, Handled
<1>1. Fewer /\ Store' /\ trade' \in [Ids -> Row] /\ cash' \in Int
  BY <1>0, CloseStep
<1>2. loop' \in Loop /\ Listed' /\ Handled'
  BY <1>0, <1>1, LoopMoved, RetriedFacts DEF LoopClose
<1>3. CombinedTypeOK'
  BY <1>0, <1>1, <1>2 DEF CombinedTypeOK
<1>4. QED
  BY <1>1, <1>2, <1>3 DEF CombinedInv, Store

LEMMA LoopCloseFailsInv == ASSUME CombinedInv, LoopCloseFails PROVE CombinedInv'
<1>0. CombinedTypeOK /\ UNCHANGED <<cash, trade, opener, reset, base, crossed>> /\ loop.at = "closing" /\ loop' = Retried
  BY DEF CombinedInv, LoopCloseFails
<1>1. Store' /\ Fewer
  BY <1>0, StoreKept
<1>2. loop' \in Loop /\ Listed' /\ Handled'
  BY <1>0, <1>1, RetriedFacts
<1>3. CombinedTypeOK'
  BY <1>0, <1>2 DEF CombinedTypeOK
<1>4. QED
  BY <1>1, <1>2, <1>3 DEF CombinedInv, Store

(* The row of a trade takes the tracking fields that go together.           *)
LEMMA UpdateRow ==
  ASSUME CombinedInv, Update, loop.id \in Open
  PROVE  /\ trade' \in [Ids -> Row] /\ loop.id \in Ids
         /\ \A j \in Ids : j # loop.id => trade'[j] = trade[j]
         /\ trade'[loop.id].status = "open" /\ trade'[loop.id].sym = trade[loop.id].sym
         /\ trade'[loop.id].peak = loop.peak /\ trade'[loop.id].active = loop.active
         /\ trade'[loop.id].trail = loop.trail
<1>0. PICK i \in Ids : i = loop.id /\ trade[i].status = "open" /\ trade[i] \in Row
  BY LoopFields DEF CombinedInv, Open
<1>1. PICK peak \in Gains, active \in BOOLEAN, trail \in Int :
        peak = loop.peak /\ active = loop.active /\ trail = loop.trail
  BY LoopFields DEF CombinedInv
<1>2. PICK row : row = [trade[i] EXCEPT !.peak = peak, !.active = active, !.trail = trail]
  OBVIOUS
<1>3. row \in Row /\ row.status = "open" /\ row.sym = trade[i].sym /\ row.peak = peak
      /\ row.active = active /\ row.trail = trail
  BY <1>0, <1>2 DEF Row
<1>4. trade' = [trade EXCEPT ![i] = row]
  BY <1>0, <1>1, <1>2 DEF Update
<1>5. QED
  BY <1>0, <1>1, <1>3, <1>4, LoopFields DEF CombinedInv

LEMMA UpdateInv == ASSUME CombinedInv, Update PROVE CombinedInv'
<1>0. CombinedTypeOK /\ UNCHANGED <<cash, opener, reset, base, crossed>> /\ loop.at = "updating"
      /\ loop' = Between(loop.todo) /\ loop.todo \in [Ids -> Row] /\ Winner(loop)
  BY LoopFields DEF CombinedInv, Update, Handled
<1>1. CASE loop.id \notin Open
  <2>1. Store' /\ Fewer /\ trade' = trade
    BY <1>0, <1>1, StoreKept DEF Update
  <2>2. loop' \in Loop /\ Listed' /\ Handled'
    BY <1>0, <2>1, LoopMoved
  <2>3. CombinedTypeOK'
    BY <1>0, <2>1, <2>2 DEF CombinedTypeOK
  <2>4. QED
    BY <2>1, <2>2, <2>3 DEF CombinedInv, Store
<1>2. CASE loop.id \in Open
  <2>0. PICK i \in Ids : i = loop.id /\ i \in Open
    BY <1>2, UpdateRow
  <2>1. /\ trade' \in [Ids -> Row]
        /\ \A j \in Ids : j # i => trade'[j] = trade[j]
        /\ trade'[i].status = "open" /\ trade'[i].sym = trade[i].sym
        /\ trade'[i].peak = loop.peak /\ trade'[i].active = loop.active /\ trade'[i].trail = loop.trail
    BY <1>2, <2>0, UpdateRow
  <2>2. loop' \in Loop /\ loop'.at \in {"asleep", "round"} /\ loop'.todo = loop.todo
    BY <1>0, BetweenFields
  <2>3. CombinedTypeOK'
    BY <1>0, <2>1, <2>2 DEF CombinedTypeOK
  <2>4. Open' = Open
    BY <2>0, <2>1 DEF Open
  <2>5. Bare' /\ ProfitLocked'
    BY <1>0, <2>0, <2>1, <2>4 DEF CombinedInv, Bare, ProfitLocked, Winner, Open
  <2>6. OneWriter' /\ Admitted'
    <3>1. Writing' = Writing /\ \A j \in Ids : trade'[j].sym = trade[j].sym
      BY <1>0, <2>1 DEF Writing
    <3>2. QED
      BY <1>0, <2>4, <3>1 DEF CombinedInv, OneWriter, Admitted, Open
  <2>7. WithinLimits'
    <3>1. \A j \in Ids : trade'[j].sym = trade[j].sym
      BY <2>1
    <3>2. QED
      BY <1>0, <2>4, <3>1 DEF CombinedInv, WithinLimits, Open
  <2>8. WalletBalanced'
    <3>1. Effect(i) = -Debit /\ Effect(i)' = -Debit
      BY <2>0, <2>1 DEF Effect, Open
    <3>2. Total(Effs') = Total(Effs)
      BY <1>0, <2>1, <3>1, EffsChange, EffsType, Money
    <3>3. QED
      BY <1>0, <3>2, Balanced, BalancedNext DEF CombinedInv
  <2>9. Handled'
    BY <2>2 DEF Handled
  <2>10. Listed'
    <3>1. loop.todo[i] = NoRow
      BY <1>0, <2>0 DEF CombinedInv, Handled
    <3>2. QED
      BY <2>1, <2>2, <3>1 DEF CombinedInv, Listed
  <2>11. QED
    BY <2>3, <2>5, <2>6, <2>7, <2>8, <2>9, <2>10 DEF CombinedInv
<1>3. QED
  BY <1>1, <1>2
LEMMA UpdateFailsInv == ASSUME CombinedInv, UpdateFails PROVE CombinedInv'
<1>0. CombinedTypeOK /\ UNCHANGED <<cash, trade, opener, reset, base, crossed>>
      /\ loop' = Between(loop.todo) /\ loop.todo \in [Ids -> Row]
  BY LoopFields DEF CombinedInv, UpdateFails
<1>1. Store' /\ Fewer
  BY <1>0, StoreKept
<1>2. loop' \in Loop /\ Listed' /\ Handled'
  BY <1>0, <1>1, LoopMoved
<1>3. CombinedTypeOK'
  BY <1>0, <1>2 DEF CombinedTypeOK
<1>4. QED
  BY <1>1, <1>2, <1>3 DEF CombinedInv, Store

LEMMA AdminCloseInv == ASSUME CombinedInv, NEW i \in Ids, NEW p \in Gains, AdminClose(i, p) PROVE CombinedInv'
<1>0. CombinedTypeOK /\ UNCHANGED <<opener, loop, reset, base, crossed>>
      /\ MayClose(i) /\ Close(i, "manual_close", p) /\ "manual_close" \in Reasons
  BY DEF CombinedInv, AdminClose, Reasons
<1>1. Fewer /\ Store' /\ trade' \in [Ids -> Row] /\ cash' \in Int
  BY <1>0, CloseStep
<1>2. Listed' /\ Handled'
  BY <1>0, <1>1, LoopKept
<1>3. CombinedTypeOK'
  BY <1>0, <1>1 DEF CombinedTypeOK
<1>4. QED
  BY <1>1, <1>2, <1>3 DEF CombinedInv, Store

(* ---- resets, time and restarts ---- *)
LEMMA BeginResetInv ==
  ASSUME CombinedInv, (\E to \in Balances : BeginReset(to)) \/ FailReset
  PROVE  CombinedInv'
<1>0. CombinedTypeOK /\ UNCHANGED <<cash, trade, opener, loop, base, crossed>>
  BY DEF CombinedInv, BeginReset, FailReset
<1>1. reset' \in [on : BOOLEAN, doomed : SUBSET Ids, to : Nat]
  <2>1. CASE \E to \in Balances : BeginReset(to)
    <3>1. PICK to \in Balances : BeginReset(to)
      BY <2>1
    <3>2. reset' = [on |-> TRUE, doomed |-> Rows, to |-> to] /\ to \in Nat /\ Rows \in SUBSET Ids
      BY <3>1, Levels DEF BeginReset, Rows
    <3>3. QED
      BY <3>2
  <2>2. CASE FailReset
    BY <2>2 DEF FailReset, NoReset
  <2>3. QED
    BY <2>1, <2>2
<1>2. Store' /\ Fewer
  BY <1>0, StoreKept
<1>3. Listed' /\ Handled'
  BY <1>0, <1>2, LoopKept
<1>4. CombinedTypeOK'
  BY <1>0, <1>1 DEF CombinedTypeOK
<1>5. QED
  BY <1>2, <1>3, <1>4 DEF CombinedInv, Store

(* The rows that were there go; with no open in between, none are left.     *)
LEMMA CommitResetInv == ASSUME CombinedInv, CommitReset PROVE CombinedInv'
<1>0. CombinedTypeOK /\ UNCHANGED <<opener, loop>> /\ reset.to \in Nat /\ reset' = NoReset
      /\ cash' = reset.to /\ base' = reset.to
      /\ crossed' = (Writing # {} \/ Rows \ reset.doomed # {})
  BY DEF CombinedInv, CombinedTypeOK, CommitReset
<1>1. NoReset \in [on : BOOLEAN, doomed : SUBSET Ids, to : Nat] /\ crossed' \in BOOLEAN
  BY <1>0 DEF NoReset
<1>2. trade' \in [Ids -> Row] /\ \A j \in Ids : trade'[j] = IF j \in reset.doomed THEN NoRow ELSE trade[j]
  BY <1>0, NoRowFields, LoopFields DEF CommitReset
<1>3. CombinedTypeOK'
  BY <1>0, <1>1, <1>2 DEF CombinedTypeOK
<1>4. Fewer
  BY <1>2, NoRowFields DEF Fewer
<1>5. Listed' /\ Handled'
  BY <1>0, <1>4, LoopKept
<1>6. Open' \subseteq Open /\ Cardinality(Open') \in Nat /\ Cardinality(Open') <= Cardinality(Open)
      /\ \A j \in Open' : trade'[j] = trade[j]
  <2>1. \A j \in Open' : trade'[j] = trade[j]
    BY <1>2, NoRowFields DEF Open
  <2>2. QED
    BY <1>4, <2>1, FewerOpen
<1>7. Bare' /\ ProfitLocked'
  BY <1>4, <1>6 DEF CombinedInv, Bare, ProfitLocked, Fewer
<1>8. Writing' = Writing
  BY <1>0 DEF Writing
<1>9. OneWriter'
  BY <1>8 DEF CombinedInv, OneWriter
<1>10. Admitted'
  <2> SUFFICES ASSUME NEW o \in Writing
               PROVE  /\ opener[o].sym \in Symbols
                      /\ \A i \in Open' : trade'[i].sym # opener[o].sym
                      /\ MaxOpen = 0 \/ Cardinality(Open') < MaxOpen
                      /\ Debit <= opener[o].seen /\ crossed'
    BY <1>0, <1>8 DEF Admitted
  <2>1. MaxOpen = 0 \/ Cardinality(Open') < MaxOpen
    BY <1>6, OpenFinite, Levels DEF CombinedInv, Admitted
  <2>2. QED
    BY <1>0, <1>6, <2>1 DEF CombinedInv, Admitted
<1>11. WithinLimits'
  <2>1. MaxOpen = 0 \/ Cardinality(Open') <= MaxOpen
    BY <1>6, OpenFinite, Levels DEF CombinedInv, WithinLimits
  <2>2. QED
    BY <1>0, <1>6, <2>1 DEF CombinedInv, WithinLimits
<1>12. WalletBalanced'
  <2>1. SUFFICES ASSUME ~crossed' PROVE cash' = base' + Total(Effs')
    BY BalancedNext
  <2>2. \A j \in Ids : trade'[j].status = "none"
    BY <1>0, <1>2, <2>1, NoRowFields DEF Rows
  <2>3. Effs' = [j \in Ids |-> 0]
    BY <2>2 DEF Effs, Effect
  <2>4. QED
    BY <1>0, <2>3, TotalAssumption
<1>13. QED
  BY <1>3, <1>5, <1>7, <1>9, <1>10, <1>11, <1>12 DEF CombinedInv

LEMMA TimePassesInv == ASSUME CombinedInv, TimePasses PROVE CombinedInv'
<1>0. CombinedTypeOK /\ UNCHANGED <<cash, opener, loop, reset, base, crossed>> /\ trade \in [Ids -> Row]
  BY LoopFields DEF CombinedInv, TimePasses
<1>1. /\ trade' \in [Ids -> Row]
      /\ \A j \in Ids : /\ trade'[j].status = trade[j].status /\ trade'[j].sym = trade[j].sym
                        /\ trade'[j].peak = trade[j].peak /\ trade'[j].active = trade[j].active
                        /\ trade'[j].trail = trade[j].trail /\ trade'[j].pnl = trade[j].pnl
  <2>1. ASSUME NEW j \in Ids
        PROVE  /\ trade'[j] \in Row
               /\ trade'[j].status = trade[j].status /\ trade'[j].sym = trade[j].sym
               /\ trade'[j].peak = trade[j].peak /\ trade'[j].active = trade[j].active
               /\ trade'[j].trail = trade[j].trail /\ trade'[j].pnl = trade[j].pnl
    <3>1. trade[j] \in Row /\ trade[j].age \in 0..MaxAge
      BY <1>0, RowFields
    <3>2. CASE trade'[j] = trade[j]
      BY <3>1, <3>2
    <3>3. CASE trade[j].age < MaxAge /\ trade'[j] = [trade[j] EXCEPT !.age = @ + 1]
      <4>1. PICK age : age = trade[j].age + 1
        OBVIOUS
      <4>2. age \in 0..MaxAge
        BY <3>1, <3>3, <4>1, Levels
      <4>3. trade'[j] = [trade[j] EXCEPT !.age = age]
        BY <3>3, <4>1
      <4>4. QED
        BY <3>1, <4>2, <4>3, SMT DEF Row
    <3>4. QED
      BY <3>2, <3>3 DEF TimePasses
  <2>2. trade' = [j \in Ids |-> trade'[j]]
    BY DEF TimePasses
  <2>3. QED
    BY <2>1, <2>2
<1>2. CombinedTypeOK'
  BY <1>0, <1>1 DEF CombinedTypeOK
<1>3. Open' = Open /\ Writing' = Writing
  BY <1>0, <1>1 DEF Open, Writing
<1>4. Effs' = Effs
  <2>1. \A j \in Ids : Effect(j)' = Effect(j)
    BY <1>1 DEF Effect
  <2>2. QED
    BY <2>1 DEF Effs
<1>4a. Open \subseteq Ids
  BY DEF Open
<1>5. Bare' /\ OneWriter' /\ Admitted' /\ WithinLimits' /\ ProfitLocked'
  <2>1. Bare' /\ OneWriter'
    BY <1>1, <1>3 DEF CombinedInv, Bare, OneWriter
  <2>2. Admitted'
    BY <1>0, <1>1, <1>3, <1>4a DEF CombinedInv, Admitted
  <2>3. WithinLimits'
    BY <1>0, <1>1, <1>3, <1>4a DEF CombinedInv, WithinLimits
  <2>4. ProfitLocked'
    BY <1>1, <1>3, <1>4a DEF CombinedInv, ProfitLocked
  <2>5. QED
    BY <2>1, <2>2, <2>3, <2>4
<1>6. WalletBalanced'
  BY <1>0, <1>4, Balanced, BalancedNext DEF CombinedInv
<1>7. Listed' /\ Handled'
  BY <1>0, <1>1, LoopFields DEF CombinedInv, Listed, Handled, Same, Winner
<1>8. QED
  BY <1>2, <1>5, <1>6, <1>7 DEF CombinedInv

LEMMA RestartInv == ASSUME CombinedInv, Restart PROVE CombinedInv'
<1>0. CombinedTypeOK /\ UNCHANGED <<cash, trade, base, crossed>> /\ loop' = Between(Nothing) /\ reset' = NoReset
      /\ opener' = [o \in Openers |-> Resting]
  BY DEF CombinedInv, Restart
<1>1. Writing' = {}
  BY <1>0, RestingFields DEF Writing
<1>2. Store' /\ Fewer
  BY <1>0, <1>1, WritersLess
<1>3. loop' \in Loop /\ loop'.at \in {"asleep", "round"} /\ loop'.todo = Nothing
  BY <1>0, NothingFields, BetweenFields
<1>4. Listed' /\ Handled'
  BY <1>3, NothingFields DEF Listed, Handled
<1>5. NoReset \in [on : BOOLEAN, doomed : SUBSET Ids, to : Nat]
  BY DEF NoReset
<1>6. CombinedTypeOK'
  BY <1>0, <1>3, <1>5, RestingFields DEF CombinedTypeOK, OpenerRow
<1>7. QED
  BY <1>2, <1>4, <1>6 DEF CombinedInv, Store

LEMMA InitCombined == Init => CombinedInv
<1> SUFFICES ASSUME Init PROVE CombinedInv
  OBVIOUS
<1>0. base \in Nat /\ cash = base /\ loop = Between(Nothing) /\ reset = NoReset /\ crossed = FALSE
      /\ (\A i \in Ids : trade[i] = NoRow) /\ trade = [i \in Ids |-> NoRow] /\ opener = [o \in Openers |-> Resting]
  BY Levels DEF Init
<1>1. NoReset \in [on : BOOLEAN, doomed : SUBSET Ids, to : Nat]
  BY DEF NoReset
<1>2. loop \in Loop /\ loop.at \in {"asleep", "round"} /\ loop.todo = Nothing
  BY <1>0, NothingFields, BetweenFields
<1>3. CombinedTypeOK
  <2>0. trade = [i \in Ids |-> NoRow] /\ NoRow \in Row
    BY <1>0, NoRowFields
  <2>1. trade \in [Ids -> Row]
    BY <2>0, Zenon
  <2>2. opener \in [Openers -> OpenerRow]
    BY <1>0, RestingFields
  <2>3. reset \in [on : BOOLEAN, doomed : SUBSET Ids, to : Nat]
    BY <1>0, <1>1
  <2>4. cash \in Int /\ base \in Nat
    BY <1>0
  <2>5. crossed \in BOOLEAN
    BY <1>0
  <2>6. QED
    BY <1>2, <2>1, <2>2, <2>3, <2>4, <2>5 DEF CombinedTypeOK, OpenerRow
<1>4. Listed /\ Handled
  BY <1>2, NothingFields DEF Listed, Handled
<1>5. Open = {} /\ Writing = {}
  BY <1>0, NoRowFields, RestingFields DEF Open, Writing
<1>6. Bare /\ OneWriter /\ Admitted /\ ProfitLocked
  BY <1>0, <1>5, NoRowFields DEF Bare, OneWriter, Admitted, ProfitLocked
<1>7. WithinLimits
  BY <1>0, <1>5, FS_EmptySet, Levels DEF WithinLimits
<1>8. WalletBalanced
  <2>1. Effs = [i \in Ids |-> 0]
    BY <1>0, NoRowFields DEF Effs, Effect
  <2>2. QED
    BY <1>0, <2>1, Balanced, TotalAssumption
<1>9. QED
  BY <1>3, <1>4, <1>6, <1>7, <1>8 DEF CombinedInv
---------------------------------------------------------------------------
LEMMA CombinedStep == CombinedInv /\ [Next]_vars => CombinedInv'
<1> SUFFICES ASSUME CombinedInv, [Next]_vars PROVE CombinedInv'
  OBVIOUS
<1>1. CASE \E o \in Openers :
             \/ \E s \in Symbols : BeginOpen(o, s)
             \/ FailOpen(o)
             \/ \E i \in Ids : CommitOpen(o, i)
  BY <1>1, BeginOpenInv, FailOpenInv, CommitOpenInv
<1>2. CASE \E i \in Ids : SkipTrade(i) \/ \E p \in Gains : Manage(i, p) \/ AdminClose(i, p)
  BY <1>2, SkipTradeInv, ManageInv, AdminCloseInv
<1>3. CASE BeginRound \/ LoopClose \/ LoopCloseFails \/ Update \/ UpdateFails
  BY <1>3, BeginRoundInv, LoopCloseInv, LoopCloseFailsInv, UpdateInv, UpdateFailsInv
<1>4. CASE (\E to \in Balances : BeginReset(to)) \/ FailReset
  BY <1>4, BeginResetInv
<1>5. CASE CommitReset \/ TimePasses \/ Restart
  BY <1>5, CommitResetInv, TimePassesInv, RestartInv
<1>6. CASE UNCHANGED vars
  <2>0. UNCHANGED <<cash, trade, opener, loop, reset, base, crossed>> /\ CombinedTypeOK
    BY <1>6 DEF vars, CombinedInv
  <2>1. CombinedTypeOK'
    BY <2>0 DEF CombinedTypeOK
  <2>2. Store' /\ Fewer
    BY <2>0, StoreKept
  <2>3. Listed' /\ Handled'
    BY <2>0, <2>2, LoopKept
  <2>4. QED
    BY <2>1, <2>2, <2>3 DEF CombinedInv, Store
<1>7. QED
  BY <1>1, <1>2, <1>3, <1>4, <1>5, <1>6 DEF Next, Ordinary

(* Whatever is opened, managed, closed, reset, retried or restarted, the     *)
(* portfolio keeps all the parts of CombinedInv together.                   *)
THEOREM CombinedInvHolds == Spec => []CombinedInv
BY InitCombined, CombinedStep, PTL DEF Spec

(* Rows, wallet, openers, loop and reset hold the values meant for them.     *)
THEOREM CombinedTypes == Spec => []CombinedTypeOK
<1>1. CombinedInv => CombinedTypeOK
  BY DEF CombinedInv
<1>2. QED
  BY <1>1, CombinedInvHolds, PTL

(* The wallet is the balance of the last reset, less the open lots, plus     *)
(* the recorded profits, unless that reset overlapped an open.              *)
THEOREM CombinedBalance == Spec => []WalletBalanced
<1>1. CombinedInv => WalletBalanced
  BY DEF CombinedInv
<1>2. QED
  BY <1>1, CombinedInvHolds, PTL

(* One open trade per symbol, not more than the limit, never overdrawn.      *)
THEOREM CombinedLimits == Spec => []WithinLimits
<1>1. CombinedInv => WithinLimits
  BY DEF CombinedInv
<1>2. QED
  BY <1>1, CombinedInvHolds, PTL

(* The peak of a winner is stored together with its stop.                   *)
THEOREM PeakWithStop == Spec => []ProfitLocked
<1>1. CombinedInv => ProfitLocked
  BY DEF CombinedInv
<1>2. QED
  BY <1>1, CombinedInvHolds, PTL

(* Only an update moves the stop of a trade that stays open, and never down. *)
LEMMA StopStep ==
  ASSUME CombinedInv, [Next]_vars, NEW i \in Ids, trade[i].status = "open", trade'[i].status = "open"
  PROVE  trade'[i].trail >= trade[i].trail /\ (trade[i].active => trade'[i].active)
<1>0. trade \in [Ids -> Row] /\ trade[i].trail \in Int
  BY LoopFields, RowFields DEF CombinedInv
<1>1. CASE trade'[i] = trade[i]
  BY <1>0, <1>1
<1>2. CASE Fewer
  BY <1>1, <1>2 DEF Fewer
<1>3. CASE trade' = trade
  BY <1>1, <1>3
<1>4. CASE \E o \in Openers : \E j \in Ids : CommitOpen(o, j)
  <2>1. PICK o \in Openers, j \in Ids : CommitOpen(o, j)
    BY <1>4
  <2>2. i # j
    BY <2>1 DEF CommitOpen, Fresh, Rows
  <2>3. trade'[i] = trade[i]
    BY <1>0, <2>1, <2>2 DEF CommitOpen
  <2>4. QED
    BY <1>1, <2>3
<1>5. CASE \E j \in Ids, p \in Gains : AdminClose(j, p)
  <2>1. PICK j \in Ids, p \in Gains : AdminClose(j, p)
    BY <1>5
  <2>2. Fewer
    BY <2>1, CloseStep DEF AdminClose, Reasons, CombinedInv
  <2>3. QED
    BY <1>2, <2>2
<1>6. CASE LoopClose
  <2>1. Fewer
    BY <1>6, LoopFields, CloseStep DEF LoopClose, CombinedInv, Handled
  <2>2. QED
    BY <1>2, <2>1
<1>7. CASE Update
  <2>1. CASE loop.id = i
    <3>1. PICK peak, active, trail : peak = loop.peak /\ active = loop.active /\ trail = loop.trail
      OBVIOUS
    <3>2. trade'[i] = [trade[i] EXCEPT !.peak = peak, !.active = active, !.trail = trail]
      BY <1>0, <1>7, <2>1, <3>1 DEF Update, Open
    <3>3. trade'[i].trail = trail /\ trade'[i].active = active
      BY <1>0, <3>2 DEF Row
    <3>4. loop.trail >= trade[i].trail /\ (trade[i].active => loop.active)
      BY <1>7, <2>1 DEF Update, CombinedInv, Handled
    <3>5. QED
      BY <3>1, <3>3, <3>4
  <2>2. CASE loop.id # i
    <3>1. trade'[i] = trade[i]
      BY <1>0, <1>7, <2>2 DEF Update
    <3>2. QED
      BY <1>1, <3>1
  <2>3. QED
    BY <2>1, <2>2
<1>8. CASE CommitReset
  <2>1. trade'[i] = NoRow \/ trade'[i] = trade[i]
    BY <1>8 DEF CommitReset
  <2>2. QED
    BY <1>1, <2>1, NoRowFields
<1>9. CASE TimePasses
  <2>1. trade'[i] = trade[i] \/ trade'[i] = [trade[i] EXCEPT !.age = @ + 1]
    BY <1>9 DEF TimePasses
  <2>2. trade'[i].trail = trade[i].trail /\ trade'[i].active = trade[i].active
    BY <1>0, <2>1 DEF Row
  <2>3. QED
    BY <1>0, <2>2
<1>10. QED
  BY <1>3, <1>4, <1>5, <1>6, <1>7, <1>8, <1>9
     DEF Next, Ordinary, vars, BeginOpen, FailOpen, BeginRound, SkipTrade, Manage, LoopCloseFails,
         UpdateFails, BeginReset, FailReset, Restart

(* A stored trailing stop never moves down and is never switched off,        *)
(* whichever price, failure, close or reset comes next.                     *)
THEOREM StopOnlyTightens == Spec => StopNeverLoosens
<1> DEFINE Kept == \A i \in Open : trade'[i].status = "open" =>
                     trade'[i].trail >= trade[i].trail /\ (trade[i].active => trade'[i].active)
<1>1. CombinedInv /\ [Next]_vars => [Kept]_vars
  BY StopStep DEF Open
<1>2. QED
  BY <1>1, CombinedInvHolds, PTL DEF Spec, StopNeverLoosens
---------------------------------------------------------------------------
(* What a trade is sold for: the copies of the loop are the rows, except that *)
(* the rows may have got older.                                             *)
CauseInv ==
  /\ \A i \in Ids : loop.todo[i] # NoRow /\ trade[i].status = "open" => loop.todo[i].age <= trade[i].age
  /\ SoldForCause

LEMMA VerdictJustified ==
  ASSUME NEW t \in Row, NEW p \in Gains
  PROVE  Justified(t, Verdict(t, p), Fill(t, p)) /\ Verdict(t, p) # "manual_close"
<1>1. t.age \in Int /\ t.active \in BOOLEAN
  BY Levels, RowFields
<1>2. CASE HitsTarget(t, p)
  BY <1>2 DEF Verdict, Fill, HitsTarget, Justified
<1>3. CASE ~HitsTarget(t, p)
  <2>1. Fill(t, p) = p
    BY <1>3 DEF Fill
  <2>2. Verdict(t, p) # "take_profit"
    BY <1>3 DEF Verdict
  <2>3. Verdict(t, p) \in {"trailing_stop", "stop_loss"} => p <= Stop(t, p)
    BY <1>3 DEF Verdict
  <2>4. Verdict(t, p) = "trailing_stop" => Triggered(t, p) \/ t.active
    BY <1>3 DEF Verdict
  <2>5. Verdict(t, p) = "stop_loss" => ~Triggered(t, p) /\ ~t.active
    BY <1>3 DEF Verdict
  <2>6. ~Triggered(t, p) => Stop(t, p) = -Loss
    BY DEF Stop
  <2>7. Verdict(t, p) = "no_profit_timeout" => t.age >= NoProfitAge /\ Peak(t, p) <= 0
    BY <1>3 DEF Verdict
  <2>8. Verdict(t, p) = "max_duration" => t.age >= MaxAge
    BY <1>3 DEF Verdict
  <2>9. Verdict(t, p) # "manual_close"
    BY DEF Verdict
  <2>10. QED
    BY <2>1, <2>2, <2>3, <2>4, <2>5, <2>6, <2>7, <2>8, <2>9 DEF Justified
<1>4. QED
  BY <1>2, <1>3

(* A cause does not go away as a trade gets older.                           *)
LEMMA CauseStays ==
  ASSUME NEW t \in Row, NEW r \in Row, Same(t, r), t.age <= r.age,
         NEW reason, NEW p \in Gains, Justified(t, reason, p)
  PROVE  Justified(r, reason, p)
<1>1. Peak(r, p) = Peak(t, p)
  BY DEF Same, Peak
<1>2. Triggered(r, p) = Triggered(t, p)
  BY <1>1 DEF Triggered
<1>3. Trail(r, p) = Trail(t, p)
  BY <1>1 DEF Same, Trail
<1>4. Stop(r, p) = Stop(t, p)
  BY <1>2, <1>3 DEF Stop
<1>5. t.age \in Int /\ r.age \in Int /\ NoProfitAge \in Int /\ MaxAge \in Int /\ r.active = t.active
  BY Levels, RowFields, LevelAssumption DEF Same
<1>6. QED
  BY <1>1, <1>2, <1>4, <1>5 DEF Justified

(* What a step does to a row that is open after it.                          *)
LEMMA RowStep ==
  ASSUME CombinedInv, [Next]_vars, NEW i \in Ids, trade'[i].status = "open"
  PROVE  \/ trade[i].status = "none" /\ loop.todo[i] = NoRow /\ loop.id # i /\ loop' = loop
         \/ trade[i].status = "open" /\ Same(trade[i], trade'[i]) /\ trade[i].age <= trade'[i].age
         \/ Update /\ loop.id = i
<1>0. trade \in [Ids -> Row] /\ trade[i].age \in Int
  BY LoopFields, RowFields DEF CombinedInv
<1>1. CASE trade'[i] = trade[i]
  BY <1>0, <1>1 DEF Same
<1>2. CASE Fewer
  BY <1>1, <1>2 DEF Fewer
<1>3. CASE trade' = trade
  BY <1>1, <1>3
<1>4. CASE \E o \in Openers : \E j \in Ids : CommitOpen(o, j)
  <2>1. PICK o \in Openers, j \in Ids : CommitOpen(o, j)
    BY <1>4
  <2>2. CASE i = j
    <3>1. trade[i].status = "none" /\ loop.todo[i] = NoRow /\ loop.id # i /\ loop' = loop
      BY <1>0, <2>1, <2>2 DEF CommitOpen, Fresh, Rows
    <3>2. QED
      BY <3>1
  <2>3. CASE i # j
    <3>1. trade'[i] = trade[i]
      BY <1>0, <2>1, <2>3 DEF CommitOpen
    <3>2. QED
      BY <1>1, <3>1
  <2>4. QED
    BY <2>2, <2>3
<1>5. CASE \E j \in Ids, p \in Gains : AdminClose(j, p)
  <2>1. PICK j \in Ids, p \in Gains : AdminClose(j, p)
    BY <1>5
  <2>2. Fewer
    BY <2>1, CloseStep DEF AdminClose, Reasons, CombinedInv
  <2>3. QED
    BY <1>2, <2>2
<1>6. CASE LoopClose
  <2>1. Fewer
    BY <1>6, LoopFields, CloseStep DEF LoopClose, CombinedInv, Handled
  <2>2. QED
    BY <1>2, <2>1
<1>7. CASE Update
  <2>1. CASE loop.id # i
    <3>1. trade'[i] = trade[i]
      BY <1>0, <1>7, <2>1 DEF Update
    <3>2. QED
      BY <1>1, <3>1
  <2>2. QED
    BY <1>7, <2>1
<1>8. CASE CommitReset
  <2>1. trade'[i] = NoRow \/ trade'[i] = trade[i]
    BY <1>8 DEF CommitReset
  <2>2. QED
    BY <1>1, <2>1, NoRowFields
<1>9. CASE TimePasses
  <2>1. trade'[i] = trade[i] \/ trade'[i] = [trade[i] EXCEPT !.age = @ + 1]
    BY <1>9 DEF TimePasses
  <2>2. CASE trade'[i] = [trade[i] EXCEPT !.age = @ + 1]
    <3>1. /\ trade'[i].status = trade[i].status /\ trade'[i].peak = trade[i].peak
          /\ trade'[i].active = trade[i].active /\ trade'[i].trail = trade[i].trail
          /\ trade'[i].age = trade[i].age + 1
      BY <1>0, <2>2 DEF Row
    <3>2. QED
      BY <1>0, <3>1 DEF Same
  <2>3. QED
    BY <1>1, <2>1, <2>2
<1>10. CASE \E o \in Openers : FailOpen(o) \/ \E s \in Symbols : BeginOpen(o, s)
  BY <1>3, <1>10 DEF FailOpen, BeginOpen
<1>11. CASE \E j \in Ids : SkipTrade(j) \/ \E p \in Gains : Manage(j, p)
  <2>1. UNCHANGED <<cash, trade, opener, reset, base, crossed>>
    BY <1>11, Zenon DEF SkipTrade, Manage
  <2>2. QED
    BY <1>3, <2>1
<1>12. CASE BeginRound \/ LoopCloseFails \/ UpdateFails \/ FailReset \/ Restart \/ UNCHANGED vars
  BY <1>3, <1>12 DEF BeginRound, LoopCloseFails, UpdateFails, FailReset, Restart, vars
<1>13. CASE \E to \in Balances : BeginReset(to)
  BY <1>3, <1>13 DEF BeginReset
<1>14. QED
  BY <1>4, <1>5, <1>6, <1>7, <1>8, <1>9, <1>10, <1>11, <1>12, <1>13 DEF Next, Ordinary

(* Every step of the loop but a new round and a new verdict.                 *)
LEMMA CauseKept ==
  ASSUME CombinedInv, CauseInv, CombinedInv', [Next]_vars,
         \A j \in Ids : loop'.todo[j] \in {loop.todo[j], NoRow},
         loop'.at = "closing" =>
           /\ loop.at = "closing" /\ loop'.id = loop.id
           /\ loop'.reason = loop.reason /\ loop'.gain = loop.gain
  PROVE  CauseInv'
<1>0. /\ trade \in [Ids -> Row] /\ trade' \in [Ids -> Row] /\ loop.todo \in [Ids -> Row]
      /\ loop.gain \in Gains
  BY LoopFields DEF CombinedInv, CombinedTypeOK
<1>1. ASSUME NEW i \in Ids, loop'.todo[i] # NoRow, trade'[i].status = "open"
      PROVE  loop'.todo[i].age <= trade'[i].age
  <2>1. loop'.todo[i] = loop.todo[i] /\ loop.todo[i] # NoRow
    BY <1>1
  <2>2. ~(Update /\ loop.id = i)
    BY <2>1 DEF Update, CombinedInv, Handled
  <2>3. trade[i].status = "open" /\ trade[i].age <= trade'[i].age
    BY <1>1, <2>1, <2>2, RowStep
  <2>4. loop.todo[i].age <= trade[i].age
    BY <2>1, <2>3 DEF CauseInv
  <2>5. loop.todo[i].age \in Int /\ trade[i].age \in Int /\ trade'[i].age \in Int
    BY <1>0, Levels, RowFields
  <2>6. QED
    BY <2>1, <2>3, <2>4, <2>5
<1>2. ASSUME loop'.at = "closing", trade'[loop'.id].status = "open"
      PROVE  Justified(trade'[loop'.id], loop'.reason, loop'.gain)
  <2>1. PICK i \in Ids : i = loop.id /\ i = loop'.id
    BY <1>2 DEF CombinedInv, Handled
  <2>2. loop.at = "closing" /\ loop'.reason = loop.reason /\ loop'.gain = loop.gain
    BY <1>2
  <2>3. ~Update
    BY <2>2 DEF Update
  <2>4. trade[i].status = "open" /\ Same(trade[i], trade'[i]) /\ trade[i].age <= trade'[i].age
    BY <1>2, <2>1, <2>3, RowStep
  <2>5. Justified(trade[i], loop.reason, loop.gain)
    BY <2>1, <2>2, <2>4 DEF CauseInv, SoldForCause
  <2>6. trade[i] \in Row /\ trade'[i] \in Row
    BY <1>0
  <2>7. QED
    BY <1>0, <2>1, <2>2, <2>4, <2>5, <2>6, CauseStays
<1>3. QED
  BY <1>1, <1>2 DEF CauseInv, SoldForCause

LEMMA CauseManage ==
  ASSUME CombinedInv, CauseInv, CombinedInv', NEW i \in Ids, NEW p \in Gains, Manage(i, p)
  PROVE  CauseInv'
<1>0. CombinedTypeOK /\ Listed /\ trade' = trade /\ trade \in [Ids -> Row] /\ loop.todo \in [Ids -> Row]
  BY LoopFields DEF CombinedInv, Manage
<1>1. loop'.todo = Rest(i) /\ loop'.id = i
  BY <1>0, ManageFacts
<1>2. \A j \in Ids : loop'.todo[j] \in {loop.todo[j], NoRow}
  BY <1>0, <1>1, RestRows
<1>3. PICK t \in Row : t = loop.todo[i] /\ t # NoRow
  BY <1>0 DEF Manage
<1>4. PICK next : next = [Between(Rest(i)) EXCEPT !.id = i]
  OBVIOUS
<1>5. next \in Loop
  BY <1>0, <1>4, RestRows, BetweenFields DEF Loop
<1>6. ASSUME loop'.at = "closing" PROVE loop'.reason = Verdict(t, p) /\ loop'.gain = Fill(t, p)
  <2>1. CASE Verdict(t, p) # "none"
    <3>1. PICK reason, gain : reason = Verdict(t, p) /\ gain = Fill(t, p)
      OBVIOUS
    <3>2. loop' = [next EXCEPT !.at = "closing", !.reason = reason, !.gain = gain, !.tries = 1]
      BY <1>3, <1>4, <2>1, <3>1 DEF Manage
    <3>3. QED
      BY <1>5, <3>1, <3>2 DEF Loop
  <2>2. CASE Verdict(t, p) = "none"
    <3>1. PICK peak, active, trail :
            /\ peak = Peak(t, p) /\ active = (t.active \/ Triggered(t, p))
            /\ trail = IF Triggered(t, p) THEN Trail(t, p) ELSE t.trail
      OBVIOUS
    <3>2. loop' = [next EXCEPT !.at = "updating", !.peak = peak, !.active = active, !.trail = trail]
      BY <1>3, <1>4, <2>2, <3>1 DEF Manage
    <3>3. loop'.at = "updating"
      BY <1>5, <3>2 DEF Loop
    <3>4. QED
      BY <1>6, <3>3
  <2>3. QED
    BY <2>1, <2>2
<1>7. ASSUME loop'.at = "closing", trade[i].status = "open"
      PROVE  Justified(trade[i], loop'.reason, loop'.gain)
  <2>1. Same(t, trade[i]) /\ t.age <= trade[i].age
    BY <1>0, <1>3, <1>7 DEF Listed, CauseInv
  <2>2. Fill(t, p) \in Gains /\ Justified(t, Verdict(t, p), Fill(t, p))
    BY VerdictFacts, VerdictJustified
  <2>3. trade[i] \in Row
    BY <1>0
  <2>4. QED
    BY <1>6, <1>7, <2>1, <2>2, <2>3, CauseStays
<1>8. QED
  BY <1>0, <1>1, <1>2, <1>7 DEF CauseInv, SoldForCause

LEMMA CauseRound == ASSUME CombinedInv, CauseInv, BeginRound PROVE CauseInv'
<1>0. trade \in [Ids -> Row] /\ trade' = trade
  BY LoopFields DEF CombinedInv, BeginRound
<1>1. PICK todo : todo = [i \in Ids |-> IF i \in Open THEN trade[i] ELSE NoRow]
  OBVIOUS
<1>2. todo \in [Ids -> Row] /\ loop' = Between(todo)
  BY <1>0, <1>1, NoRowFields DEF BeginRound
<1>3. loop'.at \in {"asleep", "round"} /\ loop'.todo = todo
  BY <1>2, BetweenFields
<1>4. \A i \in Ids : todo[i] # NoRow => todo[i] = trade[i] /\ trade[i].age \in Int
  BY <1>0, <1>1, Levels, RowFields
<1>5. QED
  BY <1>0, <1>3, <1>4 DEF CauseInv, SoldForCause

LEMMA CauseStep == CombinedInv /\ CauseInv /\ [Next]_vars => CauseInv'
<1> SUFFICES ASSUME CombinedInv, CauseInv, [Next]_vars PROVE CauseInv'
  OBVIOUS
<1>0. CombinedInv' /\ loop \in Loop /\ loop.todo \in [Ids -> Row]
  BY CombinedStep, LoopFields DEF CombinedInv, CombinedTypeOK
<1>1. CASE loop' = loop
  BY <1>0, <1>1, CauseKept
<1>2. ASSUME NEW todo \in [Ids -> Row], loop' = Between(todo),
             \A j \in Ids : todo[j] \in {loop.todo[j], NoRow}
      PROVE  CauseInv'
  BY <1>0, <1>2, BetweenFields, CauseKept
<1>3. CASE loop' = Between(loop.todo)
  BY <1>0, <1>2, <1>3
<1>4. ASSUME loop.at = "closing", loop' = Retried PROVE CauseInv'
  <2>1. CASE loop.tries = 1
    <3>1. loop' = [loop EXCEPT !.tries = 2]
      BY <1>4, <2>1 DEF Retried
    <3>2. /\ loop'.at = loop.at /\ loop'.todo = loop.todo /\ loop'.id = loop.id
          /\ loop'.reason = loop.reason /\ loop'.gain = loop.gain
      BY <1>0, <3>1 DEF Loop
    <3>3. QED
      BY <1>0, <1>4, <3>2, CauseKept
  <2>2. CASE loop.tries # 1
    BY <1>3, <1>4, <2>2 DEF Retried
  <2>3. QED
    BY <2>1, <2>2
<1>5. CASE LoopClose \/ LoopCloseFails
  BY <1>3, <1>4, <1>5 DEF LoopClose, LoopCloseFails
<1>6. CASE \E i \in Ids : SkipTrade(i)
  <2>1. PICK i \in Ids : SkipTrade(i)
    BY <1>6
  <2>2. loop' = Between(Rest(i))
    BY <2>1 DEF SkipTrade
  <2>3. Rest(i) \in [Ids -> Row] /\ \A j \in Ids : Rest(i)[j] \in {loop.todo[j], NoRow}
    BY RestRows DEF CombinedInv
  <2>4. QED
    BY <1>2, <2>2, <2>3
<1>7. CASE Restart
  BY <1>2, <1>7, NothingFields DEF Restart
<1>8. CASE \E i \in Ids, p \in Gains : Manage(i, p)
  BY <1>0, <1>8, CauseManage
<1>9. CASE BeginRound
  BY <1>9, CauseRound
<1>10. CASE Update \/ UpdateFails
  BY <1>3, <1>10 DEF Update, UpdateFails
<1>11. CASE \E o \in Openers :
              \/ \E s \in Symbols : BeginOpen(o, s)
              \/ FailOpen(o)
              \/ \E i \in Ids : CommitOpen(o, i)
  BY <1>1, <1>11 DEF BeginOpen, FailOpen, CommitOpen
<1>12. CASE \E i \in Ids, p \in Gains : AdminClose(i, p)
  BY <1>1, <1>12 DEF AdminClose
<1>13. CASE CommitReset \/ FailReset \/ TimePasses \/ (\E to \in Balances : BeginReset(to)) \/ UNCHANGED vars
  BY <1>1, <1>13 DEF CommitReset, FailReset, TimePasses, BeginReset, vars
<1>14. QED
  BY <1>5, <1>6, <1>7, <1>8, <1>9, <1>10, <1>11, <1>12, <1>13 DEF Next, Ordinary

LEMMA InitCause == Init => CauseInv
<1> SUFFICES ASSUME Init PROVE CauseInv
  OBVIOUS
<1>1. loop.at \in {"asleep", "round"} /\ loop.todo = Nothing
  BY NothingFields, BetweenFields DEF Init
<1>2. QED
  BY <1>1, NothingFields DEF CauseInv, SoldForCause

(* Whenever the loop is about to sell a trade that is still open, also at     *)
(* its second attempt, the row as it is stored then gives the reason that is  *)
(* recorded: a stop that is reached, a target that the trailing stop has not *)
(* replaced, a time that is up (_manage_single, exit_fill, _close).          *)
THEOREM CombinedSoldForCause == Spec => []SoldForCause
<1>1. CauseInv => SoldForCause
  BY DEF CauseInv
<1>2. QED
  BY <1>1, InitCause, CauseStep, CombinedInvHolds, PTL DEF Spec
=============================================================================
