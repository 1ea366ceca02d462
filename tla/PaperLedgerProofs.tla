------------------------- MODULE PaperLedgerProofs -------------------------
(***************************************************************************)
(* Proofs about PaperLedger for every finite set of trade rows, any amounts *)
(* and limits.  The inductive invariant adds to the checked invariants what *)
(* the advisory lock buys: at most one transaction is between its read and  *)
(* its commit, so what it read is still so when it writes.                  *)
(***************************************************************************)
EXTENDS PaperLedger, FiniteSetTheorems, TLAPS

(* The lock serialises the transactions, and a waiting transaction's request *)
(* has left the queue.                                                       *)
Serial ==
  /\ \A t, u \in txn : t = u
  /\ \A t \in txn : t.req.op = "open" => t.req \notin queue

(* What Begin read still holds: its guards, the cash, the figures.          *)
ReadsCurrent ==
  \A t \in txn :
    /\ Admissible(t.req)
    /\ t.seen = IF t.req.op = "reconcile" THEN Figures ELSE cash

(* Requests refer to rows the way their handlers created them.              *)
OpenRequests ==
  \A r \in InFlight : r.op = "open" =>
    /\ r.id \in Ids /\ r.sym \in Symbols
    /\ row[r.id].status = "unused"
    /\ r.book = "main" => r.note = Nil
    /\ \A q \in InFlight : q.op = "open" /\ q.id = r.id => q = r

CloseRequests ==
  \A r \in InFlight : r.op = "close" =>
    /\ r.id \in Ids /\ r.book = row[r.id].book /\ r.sym = row[r.id].sym
    /\ row[r.id].status # "unused"
    /\ row[r.id].status = "open" => r.at > cutoff

MainSerial ==
  \A r, q \in InFlight :
    r.op \in {"open", "close"} /\ q.op \in {"open", "close"} /\ r.book = "main" /\ q.book = "main"
      => r = q

Stamped == cutoff <= clock /\ \A r \in InFlight : r.at <= clock

(* The position a main close deletes by symbol is the one its trade was       *)
(* computed from: no other position takes the symbol while a close waits.    *)
CloseMatchesRow ==
  \A r \in InFlight : r.op = "close" /\ r.book = "main" => OpenOn("main", r.sym) \subseteq {r.id}

SettledCounted == \A i \in settled : Counted(i)

UniqueOpen ==
  \A i, j \in Ids :
    /\ row[i].status = "open" /\ row[j].status = "open"
    /\ row[i].book = row[j].book /\ row[i].sym = row[j].sym
    => i = j

WithinLimits ==
  /\ MaxMain > 0 => Cardinality(OpenRows("main")) <= MaxMain
  /\ MaxAuto > 0 => Cardinality(OpenRows("auto")) <= MaxAuto

DbInv ==
  /\ SettledCounted
  /\ UniqueOpen
  /\ WithinLimits
  /\ OneTradePerNotification
  /\ LedgerBalanced
  /\ CashCovered

RequestInv ==
  /\ Serial
  /\ ReadsCurrent
  /\ OpenRequests
  /\ CloseRequests
  /\ MainSerial
  /\ Stamped
  /\ CloseMatchesRow

IInv == TypeOK /\ DbInv /\ RequestInv

dbVars == <<cash, row, cutoff, settled>>

---------------------------------------------------------------------------
(* Sums.                                                                    *)

Credits == [i \in Ids |-> CreditOf(i)]
Debits  == [i \in Ids |-> DebitOf(i)]

(* The total follows a change at one index.                                 *)
LEMMA TotalChange ==
  ASSUME NEW f \in [Ids -> Amounts], NEW g \in [Ids -> Amounts], NEW k \in Ids,
         \A i \in Ids \ {k} : g[i] = f[i]
  PROVE  Total(g) = Total(f) - f[k] + g[k]
<1>1. g = [f EXCEPT ![k] = g[k]]
  OBVIOUS
<1>2. g[k] \in Amounts
  OBVIOUS
<1>3. Total([f EXCEPT ![k] = g[k]]) = Total(f) - f[k] + g[k]
  BY <1>2, TotalAssumption
<1>4. QED
  BY <1>1, <1>3

(* Money sums are integers, and Figures is made of two of them.             *)
LEMMA SumTypes ==
  ASSUME TypeOK
  PROVE  /\ Credits \in [Ids -> Amounts] /\ Debits \in [Ids -> Amounts]
         /\ Total(Credits) \in Int /\ Total(Debits) \in Int
         /\ Figures = Initial + Total(Credits) - Total(Debits)
         /\ Figures \in Int
<1>1. Credits \in [Ids -> Amounts] /\ Debits \in [Ids -> Amounts]
  BY AmountsAssumption DEF TypeOK, Row, Credits, Debits, CreditOf, DebitOf
<1>2. Total(Credits) \in Int /\ Total(Debits) \in Int
  BY <1>1, TotalAssumption
<1>3. Figures = Initial + Total(Credits) - Total(Debits)
  BY DEF Figures, Credits, Debits
<1>4. QED
  BY <1>1, <1>2, <1>3, BoundsAssumption

---------------------------------------------------------------------------
(* Steps that do not write the database keep DbInv and what was read.       *)

(* The database part of the invariant depends on the database alone.        *)
LEMMA DbStable ==
  ASSUME DbInv, UNCHANGED dbVars
  PROVE  DbInv'
BY DEF DbInv, dbVars, SettledCounted, UniqueOpen, WithinLimits, OneTradePerNotification,
       LedgerBalanced, CashCovered, Straddlers, Counted, Figures, CreditOf, DebitOf,
       OpenRows, IsOpen

(* So does everything a transaction reads.                                  *)
LEMMA ReadsStable ==
  ASSUME UNCHANGED dbVars
  PROVE  /\ Figures' = Figures
         /\ \A r : Admissible(r)' = Admissible(r)
         /\ \A b, s : OpenOn(b, s)' = OpenOn(b, s)
BY DEF dbVars, Figures, CreditOf, DebitOf, Counted, Admissible, MayOpenMain, MayOpenAuto,
       MayClose, OpenOn, OpenRows, IsOpen

---------------------------------------------------------------------------
(* Requests.                                                                *)

(* What a handler guarantees of the request it enqueues.                    *)
Fresh(r) ==
  /\ r \in Request
  /\ r.at <= clock'
  /\ r.op \in {"open", "close"} => r.at = clock + 1
  /\ r.op = "open" =>
       /\ r.id \in Ids /\ r.sym \in Symbols
       /\ row[r.id].status = "unused"
       /\ r.book = "main" => r.note = Nil
       /\ \A q \in InFlight : q.id # r.id
  /\ r.op = "close" =>
       /\ r.id \in Ids /\ r.book = row[r.id].book /\ r.sym = row[r.id].sym
       /\ row[r.id].status # "unused"
       /\ r.book = "main" => OpenOn("main", r.sym) \subseteq {r.id}
  /\ r.op \in {"open", "close"} /\ r.book = "main" => MainIdle

(* Queueing a fresh request writes nothing and keeps the invariant.         *)
LEMMA EnqueueKeepsInv ==
  ASSUME IInv, NEW r, Fresh(r), Enqueue(r), clock' \in Nat, clock <= clock'
  PROVE  IInv'
<1> USE DEF IInv
<1>1. UNCHANGED dbVars /\ UNCHANGED txn /\ queue' = queue \cup {r}
  BY DEF Enqueue, dbVars
<1>2. InFlight' = InFlight \cup {r}
  BY <1>1 DEF InFlight
<1>3. DbInv'
  BY <1>1, DbStable
<1>4. TypeOK'
  BY <1>1 DEF TypeOK, dbVars, Fresh
<1>5. Serial'
  BY <1>1 DEF RequestInv, Serial, Fresh, Stamped, InFlight, TypeOK, Txn, Request
<1>6. ReadsCurrent'
  BY <1>1, ReadsStable DEF RequestInv, ReadsCurrent, dbVars
<1>7. OpenRequests'
  BY <1>1, <1>2 DEF RequestInv, OpenRequests, Fresh, dbVars
<1>8. CloseRequests'
  BY <1>1, <1>2 DEF RequestInv, CloseRequests, Fresh, Stamped, dbVars, TypeOK
<1>9. MainSerial'
  BY <1>2 DEF RequestInv, MainSerial, Fresh, MainIdle
<1>10. Stamped'
  <2>1. \A q \in InFlight : q.at \in Nat
    BY DEF InFlight, TypeOK, Txn, Request
  <2>2. QED
    BY <1>1, <1>2, <2>1 DEF RequestInv, Stamped, Fresh, dbVars, TypeOK
<1>11. CloseMatchesRow'
  BY <1>1, <1>2, ReadsStable DEF RequestInv, CloseMatchesRow, Fresh
<1>12. QED
  BY <1>3, <1>4, <1>5, <1>6, <1>7, <1>8, <1>9, <1>10, <1>11 DEF RequestInv

(* Every handler queues a fresh request.                                    *)
LEMMA RequestsKeepInv ==
  ASSUME IInv, NextRequest
  PROVE  IInv'
<1> USE DEF IInv
<1>1. clock \in Nat
  BY DEF TypeOK
<1>2. ASSUME NEW i \in Ids, NEW s \in Symbols, NEW d \in Amounts \ {0}, RequestMainOpen(i, s, d)
      PROVE  IInv'
  <2> DEFINE r == [op |-> "open", book |-> "main", id |-> i, sym |-> s, note |-> Nil,
                   amt |-> d, at |-> clock + 1]
  <2>1. Fresh(r)
    BY <1>1, <1>2 DEF Fresh, RequestMainOpen, Stamp, Request, Books
  <2>2. Enqueue(r) /\ clock' \in Nat /\ clock <= clock'
    BY <1>1, <1>2 DEF RequestMainOpen, Stamp
  <2>3. QED
    BY <2>1, <2>2, EnqueueKeepsInv
<1>3. ASSUME NEW i \in Ids, NEW s \in Symbols, NEW n \in Notes \cup {Nil}, NEW d \in Amounts \ {0},
             RequestAutoOpen(i, s, n, d)
      PROVE  IInv'
  <2> DEFINE r == [op |-> "open", book |-> "auto", id |-> i, sym |-> s, note |-> n,
                   amt |-> d, at |-> clock + 1]
  <2>1. Fresh(r)
    BY <1>1, <1>3 DEF Fresh, RequestAutoOpen, Stamp, Request, Books
  <2>2. Enqueue(r) /\ clock' \in Nat /\ clock <= clock'
    BY <1>1, <1>3 DEF RequestAutoOpen, Stamp
  <2>3. QED
    BY <2>1, <2>2, EnqueueKeepsInv
<1>4. ASSUME NEW i \in Ids, NEW c \in Amounts \ {0}, RequestClose(i, c)
      PROVE  IInv'
  <2> DEFINE r == [op |-> "close", book |-> row[i].book, id |-> i, sym |-> row[i].sym,
                   note |-> Nil, amt |-> c, at |-> clock + 1]
  <2>1. row[i] \in Row
    BY DEF TypeOK
  <2>2. r \in Request
    BY <1>1, <2>1 DEF Row, Request
  <2>3. row[i].book = "main" => OpenOn("main", row[i].sym) \subseteq {i}
    BY <1>4 DEF RequestClose, DbInv, UniqueOpen, OpenOn, OpenRows, IsOpen
  <2>4. Fresh(r)
    BY <1>1, <1>4, <2>2, <2>3 DEF Fresh, RequestClose, Stamp
  <2>5. Enqueue(r) /\ clock' \in Nat /\ clock <= clock'
    BY <1>1, <1>4 DEF RequestClose, Stamp
  <2>6. QED
    BY <2>4, <2>5, EnqueueKeepsInv
<1>5. ASSUME RequestReset
      PROVE  IInv'
  <2> DEFINE r == [op |-> "reset", book |-> "main", id |-> Nil, sym |-> Nil, note |-> Nil,
                   amt |-> 0, at |-> clock + 1]
  <2>1. Fresh(r)
    BY <1>1, <1>5, AmountsAssumption DEF Fresh, RequestReset, Stamp, Request, Books
  <2>2. Enqueue(r) /\ clock' \in Nat /\ clock <= clock'
    BY <1>1, <1>5 DEF RequestReset, Stamp
  <2>3. QED
    BY <2>1, <2>2, EnqueueKeepsInv
<1>6. ASSUME RequestReconcile
      PROVE  IInv'
  <2> DEFINE r == [op |-> "reconcile", book |-> "main", id |-> Nil, sym |-> Nil, note |-> Nil,
                   amt |-> 0, at |-> 0]
  <2>1. Fresh(r)
    BY <1>1, <1>6, AmountsAssumption DEF Fresh, RequestReconcile, Request, Books
  <2>2. Enqueue(r) /\ clock' \in Nat /\ clock <= clock'
    BY <1>1, <1>6 DEF RequestReconcile
  <2>3. QED
    BY <2>1, <2>2, EnqueueKeepsInv
<1>7. QED
  BY <1>2, <1>3, <1>4, <1>5, <1>6 DEF NextRequest

---------------------------------------------------------------------------
(* The initial states.                                                      *)

(* The empty ledger holds the initial balance and no requests.              *)
LEMMA InitInv == Init => IInv
<1> SUFFICES ASSUME Init PROVE IInv
  OBVIOUS
<1>1. TypeOK
  BY AmountsAssumption, BoundsAssumption DEF Init, TypeOK, Row, Books
<1>2. \A i \in Ids : row[i].status = "unused"
  BY DEF Init
<1>3. \A b, s : OpenRows(b) = {} /\ OpenOn(b, s) = {}
  BY <1>2 DEF OpenRows, OpenOn, IsOpen
<1>4. Credits = [i \in Ids |-> 0] /\ Debits = [i \in Ids |-> 0]
  BY <1>2 DEF Credits, Debits, CreditOf, DebitOf, Counted
<1>5. cash = Figures /\ cash = Initial
  <2>1. Total([i \in Ids |-> 0]) = 0
    BY TotalAssumption
  <2>2. QED
    BY <1>1, <1>4, <2>1, SumTypes, BoundsAssumption DEF Init
<1>6. DbInv
  <2>1. SettledCounted /\ UniqueOpen /\ OneTradePerNotification
    BY <1>2 DEF Init, SettledCounted, UniqueOpen, OneTradePerNotification
  <2>2. WithinLimits
    BY <1>3, FS_EmptySet, BoundsAssumption DEF WithinLimits
  <2>3. LedgerBalanced /\ CashCovered
    BY <1>5, BoundsAssumption DEF LedgerBalanced, CashCovered
  <2>4. QED
    BY <2>1, <2>2, <2>3 DEF DbInv
<1>7. InFlight = {} /\ txn = {}
  BY DEF Init, InFlight
<1>8. RequestInv
  BY <1>7 DEF Init, RequestInv, Serial, ReadsCurrent, OpenRequests, CloseRequests, MainSerial,
              Stamped, CloseMatchesRow
<1>9. QED
  BY <1>1, <1>6, <1>8 DEF IInv

---------------------------------------------------------------------------
(* Transactions.                                                            *)

(* Taking the lock and reading: the only running transaction is the new one. *)
LEMMA BeginKeepsInv ==
  ASSUME IInv, NEW r \in queue, Begin(r)
  PROVE  IInv'
<1> USE DEF IInv
<1> DEFINE t0 == [req |-> r, seen |-> IF r.op = "reconcile" THEN Figures ELSE cash]
<1>1. UNCHANGED dbVars /\ UNCHANGED clock /\ queue' = queue \ {r}
  BY DEF Begin, dbVars
<1>2. r \in Request
  BY DEF TypeOK
<1>3. txn = {}
  <2>1. TakesLock(r.op)
    BY <1>2 DEF TakesLock, Request
  <2>2. \A t \in txn : TakesLock(t.req.op)
    BY DEF TakesLock, TypeOK, Txn, Request
  <2>3. QED
    BY <2>1, <2>2 DEF Begin
<1>4. txn' = {} \/ (txn' = {t0} /\ Admissible(r))
  BY <1>3 DEF Begin
<1>5. InFlight' \subseteq InFlight
  BY <1>1, <1>3, <1>4 DEF InFlight
<1>6. t0 \in Txn
  BY <1>2, SumTypes DEF Txn, TypeOK
<1>7. TypeOK'
  BY <1>1, <1>4, <1>6 DEF TypeOK, dbVars
<1>8. Serial'
  BY <1>1, <1>4 DEF Serial
<1>9. ReadsCurrent'
  BY <1>1, <1>4, ReadsStable DEF ReadsCurrent, dbVars
<1>10. OpenRequests'
  BY <1>1, <1>5 DEF RequestInv, OpenRequests, dbVars
<1>11. CloseRequests'
  BY <1>1, <1>5 DEF RequestInv, CloseRequests, dbVars
<1>12. MainSerial'
  BY <1>5 DEF RequestInv, MainSerial
<1>13. Stamped'
  BY <1>1, <1>5 DEF RequestInv, Stamped, dbVars
<1>14. CloseMatchesRow'
  BY <1>1, <1>5, ReadsStable DEF RequestInv, CloseMatchesRow
<1>15. DbInv'
  BY <1>1, DbStable
<1>16. QED
  BY <1>7, <1>8, <1>9, <1>10, <1>11, <1>12, <1>13, <1>14, <1>15 DEF RequestInv

(* A rollback writes nothing.                                               *)
LEMMA AbortKeepsInv ==
  ASSUME IInv, NEW t \in txn, Abort(t)
  PROVE  IInv'
<1> USE DEF IInv
<1>1. UNCHANGED dbVars /\ UNCHANGED <<clock, queue>> /\ txn' = txn \ {t}
  BY DEF Abort, dbVars
<1>2. InFlight' \subseteq InFlight
  BY <1>1 DEF InFlight
<1>3. TypeOK'
  BY <1>1 DEF TypeOK, dbVars
<1>4. Serial' /\ MainSerial'
  BY <1>1, <1>2 DEF RequestInv, Serial, MainSerial
<1>5. ReadsCurrent' /\ CloseMatchesRow'
  BY <1>1, <1>2, ReadsStable DEF RequestInv, ReadsCurrent, CloseMatchesRow, dbVars
<1>6. OpenRequests' /\ CloseRequests' /\ Stamped'
  BY <1>1, <1>2 DEF RequestInv, OpenRequests, CloseRequests, Stamped, dbVars
<1>7. DbInv'
  BY <1>1, DbStable
<1>8. QED
  BY <1>3, <1>4, <1>5, <1>6, <1>7 DEF RequestInv

(* A restart forgets the requests; the cash it may rebuild was balanced.    *)
LEMMA RestartKeepsInv ==
  ASSUME IInv, Restart
  PROVE  IInv'
<1> USE DEF IInv
<1>1. UNCHANGED <<row, cutoff, settled, clock>> /\ queue' = {} /\ txn' = {}
  BY DEF Restart
<1>2. InFlight' = {}
  BY <1>1 DEF InFlight
<1>3. cash' = cash \/ cash' = Figures
  BY DEF Restart
<1>4. Figures \in Int /\ Figures' = Figures /\ Straddlers' = Straddlers
  BY <1>1, SumTypes DEF Figures, CreditOf, DebitOf, Counted, Straddlers
<1>5. TypeOK'
  BY <1>1, <1>3, <1>4 DEF TypeOK
<1>6. LedgerBalanced' /\ CashCovered'
  BY <1>3, <1>4 DEF DbInv, LedgerBalanced, CashCovered
<1>7. SettledCounted' /\ UniqueOpen' /\ WithinLimits' /\ OneTradePerNotification'
  BY <1>1 DEF DbInv, SettledCounted, UniqueOpen, WithinLimits, OneTradePerNotification, Counted,
              OpenRows, IsOpen
<1>8. RequestInv'
  BY <1>1, <1>2 DEF RequestInv, Serial, ReadsCurrent, OpenRequests, CloseRequests, MainSerial,
                    Stamped, CloseMatchesRow
<1>9. QED
  BY <1>5, <1>6, <1>7, <1>8 DEF DbInv

(* SumTypes of the next state.                                              *)
LEMMA SumTypesNext ==
  ASSUME TypeOK'
  PROVE  /\ Credits' \in [Ids -> Amounts] /\ Debits' \in [Ids -> Amounts]
         /\ Figures' = Initial + Total(Credits') - Total(Debits')
         /\ Figures' \in Int
<1>1. Credits' \in [Ids -> Amounts] /\ Debits' \in [Ids -> Amounts]
  BY AmountsAssumption DEF TypeOK, Row, Credits, Debits, CreditOf, DebitOf
<1>2. Total(Credits') \in Int /\ Total(Debits') \in Int
  BY <1>1, TotalAssumption
<1>3. Figures' = Initial + Total(Credits') - Total(Debits')
  BY DEF Figures, Credits, Debits
<1>4. QED
  BY <1>1, <1>2, <1>3, BoundsAssumption

(* A commit ends the only transaction, and what it read is current.         *)
LEMMA CommitEnds ==
  ASSUME IInv, NEW t \in txn, txn' = txn \ {t}, queue' = queue
  PROVE  /\ txn' = {} /\ InFlight' = queue /\ InFlight' \subseteq InFlight
         /\ t.req \in InFlight /\ t.req \in Request
         /\ Admissible(t.req)
         /\ t.seen = IF t.req.op = "reconcile" THEN Figures ELSE cash
         /\ Serial' /\ ReadsCurrent' /\ MainSerial'
<1> USE DEF IInv, RequestInv
<1>1. txn' = {}
  BY DEF Serial
<1>2. InFlight' = queue /\ InFlight' \subseteq InFlight /\ t.req \in InFlight
  BY <1>1 DEF InFlight
<1>3. t.req \in Request
  BY DEF TypeOK, Txn
<1>4. MainSerial'
  BY <1>2 DEF MainSerial
<1>5. QED
  BY <1>1, <1>2, <1>3, <1>4 DEF ReadsCurrent, Serial

(* An open spends what its check under the lock found available.            *)
LEMMA CommitOpenKeepsInv ==
  ASSUME IInv, NEW t \in txn, CommitOpen(t)
  PROVE  IInv'
<1> USE DEF IInv
<1> DEFINE r == t.req
           new == [status |-> "open", book |-> r.book, sym |-> r.sym, note |-> r.note,
                   debit |-> r.amt, credit |-> 0, enterAt |-> r.at, exitAt |-> 0]
<1>1. /\ r.op = "open" /\ cash' = t.seen - r.amt /\ row' = [row EXCEPT ![r.id] = new]
      /\ txn' = txn \ {t} /\ UNCHANGED <<cutoff, queue, clock, settled>>
  BY DEF CommitOpen
<1>2. /\ txn' = {} /\ InFlight' = queue /\ InFlight' \subseteq InFlight
      /\ r \in InFlight /\ r \in Request /\ Admissible(r) /\ t.seen = cash
      /\ Serial' /\ ReadsCurrent' /\ MainSerial'
  BY <1>1, CommitEnds
<1>3. r.id \in Ids /\ r.sym \in Symbols /\ row[r.id].status = "unused"
  BY <1>1, <1>2 DEF RequestInv, OpenRequests
<1>4. /\ row'[r.id] = new
      /\ \A i \in Ids \ {r.id} : row'[i] = row[i]
  BY <1>1, <1>3 DEF TypeOK
<1> HIDE DEF new
<1>5. new \in Row
  BY <1>2, <1>3, AmountsAssumption DEF new, Request, Row
<1>6. cash \in Int /\ r.amt \in Nat /\ cash' = cash - r.amt
  BY <1>1, <1>2, AmountsAssumption DEF TypeOK, Request
<1>7. TypeOK'
  <2>1. row' \in [Ids -> Row]
    BY <1>1, <1>5 DEF TypeOK
  <2>2. cash' \in Int
    BY <1>6
  <2>3. QED
    BY <1>1, <1>2, <2>1, <2>2 DEF TypeOK
<1>8. /\ r.amt <= cash /\ OpenOn(r.book, r.sym) = {}
      /\ r.book = "main" => Below(Cardinality(OpenRows("main")), MaxMain)
      /\ r.book = "auto" => Below(Cardinality(OpenRows("auto")), MaxAuto)
      /\ r.note # Nil => \A i \in Ids : row[i].status = "unused" \/ row[i].note # r.note
  <2>1. r.book \in Books
    BY <1>2 DEF Request
  <2>2. CASE r.book = "main"
    BY <1>1, <1>2, <1>6, <2>2 DEF Admissible, MayOpenMain, RequestInv, OpenRequests
  <2>3. CASE r.book = "auto"
    BY <1>1, <1>2, <1>6, <2>3 DEF Admissible, MayOpenAuto
  <2>4. QED
    BY <2>1, <2>2, <2>3 DEF Books
<1>9. /\ row'[r.id].status = "open" /\ row'[r.id].book = r.book /\ row'[r.id].sym = r.sym
      /\ row'[r.id].debit = r.amt /\ row'[r.id].note = r.note
  BY <1>4 DEF new
<1>10. \A i \in Ids : Counted(i)' = Counted(i)
  BY <1>1, <1>3, <1>4, <1>9 DEF Counted
<1>11. Credits' = Credits
  BY <1>3, <1>4, <1>10 DEF Credits, CreditOf, Counted
<1>12. /\ \A i \in Ids \ {r.id} : Debits'[i] = Debits[i]
       /\ Debits[r.id] = 0 /\ Debits'[r.id] = r.amt
  BY <1>3, <1>4, <1>9, <1>10 DEF Debits, DebitOf, Counted
<1>13. Figures' = Figures - r.amt
  <2>1. Total(Debits') = Total(Debits) + r.amt
    BY <1>3, <1>6, <1>7, <1>12, SumTypes, SumTypesNext, TotalChange
  <2>2. QED
    BY <1>6, <1>7, <1>11, <2>1, SumTypes, SumTypesNext, BoundsAssumption
<1>14. LedgerBalanced' /\ CashCovered'
  BY <1>1, <1>6, <1>8, <1>10, <1>13 DEF DbInv, LedgerBalanced, CashCovered, Straddlers
<1>15. SettledCounted'
  BY <1>1, <1>7, <1>10 DEF TypeOK, DbInv, SettledCounted
<1>16. UniqueOpen'
  BY <1>3, <1>4, <1>8, <1>9 DEF DbInv, UniqueOpen, OpenOn, OpenRows, IsOpen
<1>17. WithinLimits'
  <2>1. \A b : OpenRows(b)' = IF b = r.book THEN OpenRows(b) \cup {r.id} ELSE OpenRows(b)
    BY <1>3, <1>4, <1>9 DEF OpenRows, IsOpen
  <2>2. \A b : IsFiniteSet(OpenRows(b)) /\ r.id \notin OpenRows(b)
    BY <1>3, IdsAssumption, FS_Subset DEF OpenRows, IsOpen
  <2>3. \A b : /\ Cardinality(OpenRows(b)) \in Nat
               /\ Cardinality(OpenRows(b) \cup {r.id}) = Cardinality(OpenRows(b)) + 1
    BY <2>2, FS_AddElement, FS_CardinalityType
  <2>4. QED
    BY <1>8, <2>1, <2>3, BoundsAssumption DEF DbInv, WithinLimits, Below
<1>18. OneTradePerNotification'
  BY <1>3, <1>4, <1>8, <1>9 DEF DbInv, OneTradePerNotification
<1>19. OpenRequests'
  <2>1. \A q \in queue : q.op = "open" => q.id # r.id
    BY <1>1, <1>2 DEF RequestInv, OpenRequests, Serial, InFlight
  <2>2. QED
    BY <1>2, <1>4, <2>1 DEF RequestInv, OpenRequests
<1>20. CloseRequests'
  BY <1>1, <1>2, <1>3, <1>4 DEF RequestInv, CloseRequests
<1>21. Stamped'
  BY <1>1, <1>2 DEF RequestInv, Stamped
<1>22. CloseMatchesRow'
  <2>1. ASSUME NEW q \in queue, q.op = "close", q.book = "main"
        PROVE  r.book # "main"
    BY <1>1, <1>2, <2>1 DEF RequestInv, MainSerial
  <2>2. r.book # "main" => \A s : OpenOn("main", s)' = OpenOn("main", s)
    BY <1>3, <1>4, <1>9 DEF OpenOn, OpenRows, IsOpen
  <2>3. QED
    BY <1>2, <2>1, <2>2 DEF RequestInv, CloseMatchesRow
<1>23. QED
  BY <1>2, <1>7, <1>14, <1>15, <1>16, <1>17, <1>18, <1>19, <1>20, <1>21, <1>22 DEF DbInv, RequestInv

(* A close changes exactly the open row it was computed from.               *)
LEMMA CloseChangesOneRow ==
  ASSUME IInv, NEW t \in txn, CommitClose(t)
  PROVE  /\ t.req.id \in Ids /\ row[t.req.id].status = "open" /\ t.req.at > cutoff
         /\ row' = [row EXCEPT ![t.req.id] =
                      [row[t.req.id] EXCEPT !.status = "closed", !.credit = t.req.amt, !.exitAt = t.req.at]]
<1> USE DEF IInv
<1> DEFINE r == t.req
<1>1. r.op = "close" /\ row' = [i \in Ids |-> CloseRow(r, i)]
  BY DEF CommitClose
<1>2. r \in InFlight /\ r \in Request /\ MayClose(r)
  BY <1>1, CommitEnds DEF CommitClose, Admissible
<1>3. /\ r.id \in Ids /\ r.book = row[r.id].book /\ r.sym = row[r.id].sym
      /\ row[r.id].status = "open" => r.at > cutoff
  BY <1>1, <1>2 DEF RequestInv, CloseRequests
<1>4. r.book = "main" => OpenOn("main", r.sym) = {r.id}
  BY <1>1, <1>2 DEF RequestInv, CloseMatchesRow, MayClose
<1>5. row[r.id].status = "open"
  BY <1>2, <1>4 DEF MayClose, OpenOn, OpenRows, IsOpen
<1>6. \A i \in Ids : CloseRow(r, i) =
        IF i = r.id THEN [row[i] EXCEPT !.status = "closed", !.credit = r.amt, !.exitAt = r.at]
                    ELSE row[i]
  BY <1>4 DEF CloseRow
<1>7. QED
  BY <1>1, <1>3, <1>5, <1>6 DEF TypeOK

(* A close turns the row's open cost into its realised result.              *)
LEMMA CommitCloseKeepsInv ==
  ASSUME IInv, NEW t \in txn, CommitClose(t)
  PROVE  IInv'
<1> USE DEF IInv
<1> DEFINE r == t.req
           old == row[r.id]
           new == [old EXCEPT !.status = "closed", !.credit = r.amt, !.exitAt = r.at]
<1>1. /\ r.op = "close" /\ cash' = t.seen + r.amt /\ settled' = settled \cup {r.id}
      /\ txn' = txn \ {t} /\ UNCHANGED <<cutoff, queue, clock>>
  BY DEF CommitClose
<1>2. /\ txn' = {} /\ InFlight' = queue /\ InFlight' \subseteq InFlight
      /\ r \in InFlight /\ r \in Request /\ t.seen = cash
      /\ Serial' /\ ReadsCurrent' /\ MainSerial'
  BY <1>1, CommitEnds
<1>3. r.id \in Ids /\ old.status = "open" /\ r.at > cutoff /\ row' = [row EXCEPT ![r.id] = new]
  BY CloseChangesOneRow
<1>4. old \in Row
  BY <1>3 DEF TypeOK
<1>5. new \in Row
  BY <1>2, <1>4 DEF Row, Request
<1>6. /\ row'[r.id] = new
      /\ \A i \in Ids \ {r.id} : row'[i] = row[i]
  BY <1>3 DEF TypeOK
<1>7. /\ row'[r.id].status = "closed" /\ row'[r.id].credit = r.amt /\ row'[r.id].exitAt = r.at
      /\ row'[r.id].debit = old.debit /\ row'[r.id].book = old.book /\ row'[r.id].sym = old.sym
      /\ row'[r.id].note = old.note
  BY <1>4, <1>6 DEF Row
<1> HIDE DEF new
<1>8. cash \in Int /\ r.amt \in Nat /\ cash' = cash + r.amt
  BY <1>1, <1>2, AmountsAssumption DEF TypeOK, Request
<1>9. TypeOK'
  <2>1. row' \in [Ids -> Row]
    BY <1>3, <1>5 DEF TypeOK
  <2>2. cash' \in Int
    BY <1>8
  <2>3. QED
    BY <1>1, <1>2, <1>3, <2>1, <2>2 DEF TypeOK
<1>10. /\ ~Counted(r.id) /\ Counted(r.id)'
       /\ \A i \in Ids \ {r.id} : Counted(i)' = Counted(i)
  BY <1>1, <1>3, <1>6, <1>7 DEF Counted
<1>11. Debits' = Debits
  BY <1>3, <1>6, <1>7, <1>10 DEF Debits, DebitOf
<1>12. /\ \A i \in Ids \ {r.id} : Credits'[i] = Credits[i]
       /\ Credits[r.id] = 0 /\ Credits'[r.id] = r.amt
  BY <1>3, <1>6, <1>7, <1>10 DEF Credits, CreditOf
<1>13. Figures' = Figures + r.amt
  <2>1. Total(Credits') = Total(Credits) + r.amt
    BY <1>3, <1>8, <1>9, <1>12, SumTypes, SumTypesNext, TotalChange
  <2>2. QED
    BY <1>8, <1>9, <1>11, <2>1, SumTypes, SumTypesNext, BoundsAssumption
<1>14. Straddlers' = Straddlers
  BY <1>1, <1>3, <1>10 DEF Straddlers
<1>15. LedgerBalanced' /\ CashCovered'
  BY <1>8, <1>13, <1>14 DEF DbInv, LedgerBalanced, CashCovered
<1>16. SettledCounted'
  BY <1>1, <1>9, <1>10 DEF TypeOK, DbInv, SettledCounted
<1>17. UniqueOpen'
  BY <1>3, <1>6, <1>7 DEF DbInv, UniqueOpen
<1>18. \A b, s : OpenRows(b)' \subseteq OpenRows(b) /\ OpenOn(b, s)' \subseteq OpenOn(b, s)
  BY <1>6, <1>7 DEF OpenOn, OpenRows, IsOpen
<1>19. WithinLimits'
  <2>1. \A b : IsFiniteSet(OpenRows(b))
    BY IdsAssumption, FS_Subset DEF OpenRows
  <2>2. \A b : /\ Cardinality(OpenRows(b)) \in Nat /\ Cardinality(OpenRows(b)') \in Nat
               /\ Cardinality(OpenRows(b)') <= Cardinality(OpenRows(b))
    BY <1>18, <2>1, FS_Subset, FS_CardinalityType
  <2>3. QED
    BY <2>2, BoundsAssumption DEF DbInv, WithinLimits
<1>20. OneTradePerNotification'
  BY <1>3, <1>6, <1>7 DEF DbInv, OneTradePerNotification
<1>21. OpenRequests'
  BY <1>2, <1>3, <1>6 DEF RequestInv, OpenRequests
<1>22. CloseRequests'
  BY <1>1, <1>2, <1>3, <1>6, <1>7 DEF RequestInv, CloseRequests
<1>23. Stamped'
  BY <1>1, <1>2 DEF RequestInv, Stamped
<1>24. CloseMatchesRow'
  BY <1>2, <1>18 DEF RequestInv, CloseMatchesRow
<1>25. QED
  BY <1>2, <1>9, <1>15, <1>16, <1>17, <1>19, <1>20, <1>21, <1>22, <1>23, <1>24 DEF DbInv, RequestInv

(* Voiding open rows leaves types, closed rows and requests' facts alone.   *)
LEMMA VoidingKeeps ==
  ASSUME IInv, NEW S \in SUBSET Ids, NEW at \in Nat,
         \A i \in S : row[i].status = "open", row' = VoidRows(S, at)
  PROVE  /\ row' \in [Ids -> Row]
         /\ \A i \in Ids \ S : row'[i] = row[i]
         /\ \A i \in S : row'[i].status = "void"
         /\ \A i \in Ids : /\ row'[i].book = row[i].book /\ row'[i].sym = row[i].sym
                           /\ row'[i].note = row[i].note
         /\ \A b, s : OpenRows(b)' \subseteq OpenRows(b) /\ OpenOn(b, s)' \subseteq OpenOn(b, s)
         /\ UniqueOpen' /\ WithinLimits' /\ OneTradePerNotification'
<1> USE DEF IInv
<1>1. \A i \in Ids : row[i] \in Row
  BY DEF TypeOK
<1>2. \A i \in Ids : [row[i] EXCEPT !.status = "void", !.exitAt = at] \in Row
  BY <1>1 DEF Row
<1>3. row' \in [Ids -> Row]
  BY <1>1, <1>2 DEF VoidRows
<1>4. \A i \in Ids \ S : row'[i] = row[i]
  BY DEF VoidRows
<1>5. \A i \in S : row'[i] = [row[i] EXCEPT !.status = "void", !.exitAt = at]
  BY DEF VoidRows
<1>6. /\ \A i \in S : row'[i].status = "void"
      /\ \A i \in Ids : /\ row'[i].book = row[i].book /\ row'[i].sym = row[i].sym
                        /\ row'[i].note = row[i].note
  <2>1. ASSUME NEW i \in S
        PROVE  /\ row'[i].status = "void" /\ row'[i].book = row[i].book /\ row'[i].sym = row[i].sym
               /\ row'[i].note = row[i].note
    <3>1. row[i] \in Row /\ row'[i] = [row[i] EXCEPT !.status = "void", !.exitAt = at]
      BY <1>1, <1>5
    <3>2. QED
      BY <3>1 DEF Row
  <2>2. QED
    BY <1>4, <2>1
<1>7. \A b, s : OpenRows(b)' \subseteq OpenRows(b) /\ OpenOn(b, s)' \subseteq OpenOn(b, s)
  BY <1>4, <1>6 DEF OpenOn, OpenRows, IsOpen
<1>8. UniqueOpen' /\ OneTradePerNotification'
  BY <1>4, <1>6 DEF DbInv, UniqueOpen, OneTradePerNotification
<1>9. WithinLimits'
  <2>1. \A b : IsFiniteSet(OpenRows(b))
    BY IdsAssumption, FS_Subset DEF OpenRows
  <2>2. \A b : /\ Cardinality(OpenRows(b)) \in Nat /\ Cardinality(OpenRows(b)') \in Nat
               /\ Cardinality(OpenRows(b)') <= Cardinality(OpenRows(b))
    BY <1>7, <2>1, FS_Subset, FS_CardinalityType
  <2>3. QED
    BY <2>2, BoundsAssumption DEF DbInv, WithinLimits
<1>10. QED
  BY <1>3, <1>4, <1>6, <1>7, <1>8, <1>9

(* A reset empties both books; what it does not cut off is a straddler.     *)
LEMMA CommitResetKeepsInv ==
  ASSUME IInv, NEW t \in txn, CommitReset(t)
  PROVE  IInv'
<1> USE DEF IInv
<1> DEFINE r == t.req
           S == OpenRows("main") \cup OpenRows("auto")
<1>1. /\ r.op = "reset" /\ cash' = Initial /\ row' = VoidRows(S, r.at) /\ cutoff' = r.at /\ settled' = {}
      /\ txn' = txn \ {t} /\ UNCHANGED <<queue, clock>>
  BY DEF CommitReset
<1>2. /\ txn' = {} /\ InFlight' = queue /\ InFlight' \subseteq InFlight
      /\ r \in InFlight /\ r \in Request
      /\ Serial' /\ ReadsCurrent' /\ MainSerial'
  BY <1>1, CommitEnds
<1>3. S \in SUBSET Ids /\ \A i \in S : row[i].status = "open"
  BY DEF OpenRows, IsOpen
<1>4. /\ row' \in [Ids -> Row]
      /\ \A i \in Ids \ S : row'[i] = row[i]
      /\ \A i \in S : row'[i].status = "void"
      /\ \A i \in Ids : row'[i].book = row[i].book /\ row'[i].sym = row[i].sym
      /\ \A b, s : OpenRows(b)' \subseteq OpenRows(b) /\ OpenOn(b, s)' \subseteq OpenOn(b, s)
      /\ UniqueOpen' /\ WithinLimits' /\ OneTradePerNotification'
  <2>1. r.at \in Nat
    BY <1>2 DEF Request
  <2>2. QED
    BY <1>1, <1>3, <2>1, VoidingKeeps
<1>5. \A i \in Ids : row'[i].status # "open"
  <2>1. \A i \in Ids : row[i].book \in {"main", "auto"}
    BY DEF TypeOK, Row, Books
  <2>2. \A i \in Ids \ S : row[i].status # "open"
    BY <2>1 DEF OpenRows, IsOpen
  <2>3. QED
    BY <1>4, <2>2
<1>6. TypeOK'
  <2>1. cash' \in Int /\ cutoff' \in Nat
    BY <1>1, <1>2, BoundsAssumption DEF Request
  <2>2. QED
    BY <1>1, <1>2, <1>4, <2>1 DEF TypeOK
<1>7. ASSUME Straddlers' = {}
      PROVE  Figures' = Initial
  <2>1. \A i \in Ids : ~Counted(i)'
    BY <1>1, <1>7 DEF Straddlers
  <2>2. Credits' = [i \in Ids |-> 0] /\ Debits' = [i \in Ids |-> 0]
    BY <1>5, <2>1 DEF Credits, Debits, CreditOf, DebitOf
  <2>3. Total([i \in Ids |-> 0]) = 0
    BY TotalAssumption
  <2>4. QED
    BY <1>6, <2>2, <2>3, SumTypesNext, BoundsAssumption
<1>8. LedgerBalanced' /\ CashCovered' /\ SettledCounted'
  BY <1>1, <1>7, BoundsAssumption DEF LedgerBalanced, CashCovered, SettledCounted
<1>9. OpenRequests'
  BY <1>2, <1>3, <1>4 DEF RequestInv, OpenRequests
<1>10. CloseRequests'
  BY <1>2, <1>4, <1>5 DEF RequestInv, CloseRequests
<1>11. Stamped'
  BY <1>1, <1>2 DEF RequestInv, Stamped
<1>12. CloseMatchesRow'
  BY <1>2, <1>4 DEF RequestInv, CloseMatchesRow
<1>13. QED
  BY <1>2, <1>4, <1>6, <1>8, <1>9, <1>10, <1>11, <1>12 DEF DbInv, RequestInv

(* Reconciling rewrites the cash row with the figures; while no close        *)
(* straddled a reset it removes nothing.                                     *)
LEMMA CommitReconcileKeepsInv ==
  ASSUME IInv, NEW t \in txn, CommitReconcile(t)
  PROVE  IInv'
<1> USE DEF IInv
<1> DEFINE r == t.req
           S == IF t.seen < 0 THEN OverAllocated ELSE {}
<1>1. /\ r.op = "reconcile" /\ row' = VoidRows(S, 0)
      /\ cash' = IF S = {} THEN t.seen ELSE Figures'
      /\ txn' = txn \ {t} /\ UNCHANGED <<cutoff, queue, clock, settled>>
  BY DEF CommitReconcile
<1>2. /\ txn' = {} /\ InFlight' = queue /\ InFlight' \subseteq InFlight
      /\ t.seen = Figures
      /\ Serial' /\ ReadsCurrent' /\ MainSerial'
  BY <1>1, CommitEnds
<1>3. S \in SUBSET Ids /\ \A i \in S : row[i].status = "open"
  BY DEF OverAllocated, OpenRows, IsOpen
<1>4. /\ row' \in [Ids -> Row]
      /\ \A i \in Ids \ S : row'[i] = row[i]
      /\ \A i \in S : row'[i].status = "void"
      /\ \A i \in Ids : row'[i].book = row[i].book /\ row'[i].sym = row[i].sym
      /\ \A b, s : OpenRows(b)' \subseteq OpenRows(b) /\ OpenOn(b, s)' \subseteq OpenOn(b, s)
      /\ UniqueOpen' /\ WithinLimits' /\ OneTradePerNotification'
  BY <1>1, <1>3, VoidingKeeps
<1>5. \A i \in Ids : Counted(i)' = Counted(i)
  BY <1>1, <1>3, <1>4 DEF Counted
<1>6. Straddlers' = Straddlers
  BY <1>1, <1>5 DEF Straddlers
<1>7. Figures' \in Int
  <2>1. Credits' \in [Ids -> Amounts] /\ Debits' \in [Ids -> Amounts]
    BY <1>4, AmountsAssumption DEF Row, Credits, Debits, CreditOf, DebitOf
  <2>2. QED
    BY <2>1, TotalAssumption, BoundsAssumption DEF Figures, Credits, Debits
<1>8. cash' = Figures'
  <2>1. CASE S = {}
    <3>1. row' = row
      BY <1>4, <2>1 DEF TypeOK
    <3>2. Figures' = Figures
      BY <1>1, <3>1 DEF Figures, CreditOf, DebitOf, Counted
    <3>3. QED
      BY <1>1, <1>2, <2>1, <3>2
  <2>2. CASE S # {}
    BY <1>1, <2>2
  <2>3. QED
    BY <2>1, <2>2
<1>9. TypeOK'
  BY <1>1, <1>2, <1>4, <1>7, <1>8 DEF TypeOK
<1>10. CashCovered'
  <2>1. SUFFICES ASSUME Straddlers = {}
                 PROVE  cash' >= 0
    BY <1>6 DEF CashCovered
  <2>2. t.seen = cash /\ cash >= 0 /\ cash \in Int
    BY <1>2, <2>1 DEF DbInv, LedgerBalanced, CashCovered, TypeOK
  <2>3. QED
    BY <1>1, <2>2
<1>11. LedgerBalanced' /\ SettledCounted'
  BY <1>1, <1>5, <1>8, <1>9 DEF TypeOK, DbInv, LedgerBalanced, SettledCounted
<1>12. OpenRequests'
  BY <1>2, <1>3, <1>4 DEF RequestInv, OpenRequests
<1>13. CloseRequests'
  <2>1. \A i \in Ids : /\ row'[i].status = "open" => row[i].status = "open"
                       /\ row[i].status # "unused" => row'[i].status # "unused"
    BY <1>3, <1>4
  <2>2. QED
    BY <1>1, <1>2, <1>4, <2>1 DEF RequestInv, CloseRequests
<1>14. Stamped' /\ CloseMatchesRow'
  BY <1>1, <1>2, <1>4 DEF RequestInv, Stamped, CloseMatchesRow
<1>15. QED
  BY <1>2, <1>4, <1>9, <1>10, <1>11, <1>12, <1>13, <1>14 DEF DbInv, RequestInv

(* Every step keeps the inductive invariant.                                *)
LEMMA NextKeepsInv == IInv /\ [Next]_vars => IInv'
<1> SUFFICES ASSUME IInv, [Next]_vars
             PROVE  IInv'
  OBVIOUS
<1>1. CASE NextRequest
  BY <1>1, RequestsKeepInv
<1>2. CASE NextTxn
  BY <1>2, BeginKeepsInv, CommitOpenKeepsInv, CommitCloseKeepsInv, CommitResetKeepsInv,
     CommitReconcileKeepsInv, AbortKeepsInv DEF NextTxn
<1>3. CASE Restart
  BY <1>3, RestartKeepsInv
<1>4. CASE UNCHANGED vars
  <2>1. UNCHANGED dbVars /\ UNCHANGED <<queue, txn, clock>> /\ InFlight' = InFlight
    BY <1>4 DEF vars, dbVars, InFlight
  <2>2. TypeOK' /\ DbInv'
    BY <2>1, DbStable DEF IInv, TypeOK, dbVars
  <2>3. Serial' /\ MainSerial' /\ ReadsCurrent' /\ CloseMatchesRow'
    BY <2>1, ReadsStable DEF IInv, RequestInv, Serial, MainSerial, ReadsCurrent, CloseMatchesRow, dbVars
  <2>4. OpenRequests' /\ CloseRequests' /\ Stamped'
    BY <2>1 DEF IInv, RequestInv, OpenRequests, CloseRequests, Stamped, dbVars
  <2>5. QED
    BY <2>2, <2>3, <2>4 DEF IInv, RequestInv
<1>5. QED
  BY <1>1, <1>2, <1>3, <1>4 DEF Next

---------------------------------------------------------------------------
(* The theorems.                                                            *)

(* IInv is an invariant.                                                    *)
THEOREM Invariance == Spec => []IInv
BY InitInv, NextKeepsInv, PTL DEF Spec

(* Every variable keeps its type, the cash an integer.                      *)
THEOREM TypeCorrect == Spec => []TypeOK
<1>1. IInv => TypeOK
  BY DEF IInv
<1>2. QED
  BY <1>1, Invariance, PTL

(* Reconciling is a no-op unless a close straddled a reset.                 *)
THEOREM Balanced == Spec => []LedgerBalanced
<1>1. IInv => LedgerBalanced
  BY DEF IInv, DbInv
<1>2. QED
  BY <1>1, Invariance, PTL

(* The wallet is never overspent unless a close straddled a reset.          *)
THEOREM Covered == Spec => []CashCovered
<1>1. IInv => CashCovered
  BY DEF IInv, DbInv
<1>2. QED
  BY <1>1, Invariance, PTL

(* No book exceeds its limit or holds a symbol twice.                       *)
THEOREM Limits == Spec => []BooksWithinLimits
<1>1. ASSUME IInv
      PROVE  BooksWithinLimits
  <2>1. ASSUME NEW b \in Books, NEW s \in Symbols
        PROVE  Cardinality(OpenOn(b, s)) <= 1
    <3>1. \A i, j \in OpenOn(b, s) : i = j
      BY <1>1 DEF IInv, DbInv, UniqueOpen, OpenOn, OpenRows, IsOpen
    <3>2. CASE OpenOn(b, s) = {}
      BY <3>2, FS_EmptySet
    <3>3. CASE OpenOn(b, s) # {}
      <4>1. PICK i \in OpenOn(b, s) : OpenOn(b, s) = {i}
        BY <3>1, <3>3
      <4>2. QED
        BY <4>1, FS_Singleton
    <3>4. QED
      BY <3>2, <3>3
  <2>2. QED
    BY <1>1, <2>1 DEF IInv, DbInv, WithinLimits, BooksWithinLimits
<1>2. QED
  BY <1>1, Invariance, PTL

(* A notification becomes at most one auto trade.                           *)
THEOREM OneTrade == Spec => []OneTradePerNotification
<1>1. IInv => OneTradePerNotification
  BY DEF IInv, DbInv
<1>2. QED
  BY <1>1, Invariance, PTL

(* A closed trade never changes: the wallet is credited for it once.        *)
THEOREM Settled == Spec => SettledOnce
<1> DEFINE Kept == \A i \in Ids : row[i].status = "closed" => row'[i] = row[i]
<1>1. ASSUME IInv, [Next]_vars
      PROVE  [Kept]_vars
  <2>1. CASE NextRequest
    BY <2>1 DEF NextRequest, RequestMainOpen, RequestAutoOpen, RequestClose, RequestReset,
                RequestReconcile, Enqueue
  <2>2. ASSUME NEW r \in queue, Begin(r)
        PROVE  Kept
    BY <2>2 DEF Begin
  <2>3. ASSUME NEW t \in txn, CommitOpen(t)
        PROVE  Kept
    <3>1. t.req \in InFlight /\ t.req.op = "open"
      BY <2>3 DEF CommitOpen, InFlight
    <3>2. t.req.id \in Ids /\ row[t.req.id].status = "unused"
      BY <1>1, <3>1 DEF IInv, RequestInv, OpenRequests
    <3>3. QED
      BY <1>1, <2>3, <3>2 DEF CommitOpen, IInv, TypeOK
  <2>4. ASSUME NEW t \in txn, CommitClose(t)
        PROVE  Kept
    BY <1>1, <2>4, CloseChangesOneRow DEF IInv, TypeOK
  <2>5. ASSUME NEW t \in txn, CommitReset(t)
        PROVE  Kept
    BY <2>5 DEF CommitReset, VoidRows, OpenRows, IsOpen
  <2>6. ASSUME NEW t \in txn, CommitReconcile(t)
        PROVE  Kept
    BY <2>6 DEF CommitReconcile, VoidRows, OverAllocated, OpenRows, IsOpen
  <2>7. ASSUME NEW t \in txn, Abort(t)
        PROVE  Kept
    BY <2>7 DEF Abort
  <2>8. CASE Restart
    BY <2>8 DEF Restart
  <2>9. CASE UNCHANGED vars
    BY <2>9
  <2>10. QED
    BY <1>1, <2>1, <2>2, <2>3, <2>4, <2>5, <2>6, <2>7, <2>8, <2>9 DEF Next, NextTxn
<1>2. QED
  BY <1>1, Invariance, PTL DEF Spec, SettledOnce

---------------------------------------------------------------------------
(* The refinement of AtomicLedger.                                          *)

shown == [i \in Ids |-> Shown(i)]
counted == {i \in Ids : Counted(i)}
limit == [b \in Books |-> IF b = "main" THEN MaxMain ELSE MaxAuto]

(* What the abstract ledger sees of the rows.                               *)
LEMMA AtomicSees ==
  /\ \A b : Atomic!Open(b) = OpenRows(b)
  /\ \A b, s : Atomic!On(b, s) = OpenOn(b, s)
  /\ Atomic!ClosedOnes = {i \in Ids : row[i].status = "closed"}
<1>1. \A i \in Ids : /\ shown[i].status = row[i].status /\ shown[i].book = row[i].book
                     /\ row[i].status = "open" => shown[i].sym = row[i].sym
  BY DEF shown, Shown
<1>2. QED
  BY <1>1 DEF shown, Atomic!Open, Atomic!On, Atomic!ClosedOnes, OpenRows, OpenOn, IsOpen

(* The two modules count alike.                                             *)
LEMMA AtomicCardinality ==
  \A S : Atomic!Cardinality(S) = Cardinality(S)
BY DEF Atomic!Cardinality, Cardinality

(* What it takes for due are the figures.                                   *)
LEMMA AtomicDue ==
  /\ Atomic!Due = Figures
  /\ Atomic!Due' = Figures'
<1>1. /\ [i \in Ids |-> IF i \in counted THEN shown[i].credit ELSE 0] = [i \in Ids |-> CreditOf(i)]
      /\ [i \in Ids |-> IF i \in counted \/ shown[i].status = "open" THEN shown[i].debit ELSE 0]
           = [i \in Ids |-> DebitOf(i)]
  BY DEF shown, Shown, counted, CreditOf, DebitOf
<1>2. /\ [i \in Ids |-> IF i \in counted' THEN shown'[i].credit ELSE 0] = [i \in Ids |-> CreditOf(i)']
      /\ [i \in Ids |-> IF i \in counted' \/ shown'[i].status = "open" THEN shown'[i].debit ELSE 0]
           = [i \in Ids |-> DebitOf(i)']
  BY DEF shown, Shown, counted, CreditOf, DebitOf
<1>3. QED
  BY <1>1, <1>2 DEF Atomic!Due, Figures, shown, counted

(* Steps that write nothing show nothing.                                   *)
LEMMA AtomicRests ==
  ASSUME UNCHANGED <<cash, row, cutoff>>
  PROVE  UNCHANGED <<cash, shown, counted>>
BY DEF shown, Shown, counted, Counted

(* An open, from its request to its commit, is one open of the abstract      *)
(* ledger at the commit.                                                    *)
LEMMA AtomicOpen ==
  ASSUME IInv, NEW t \in txn, CommitOpen(t)
  PROVE  Atomic!Next
<1> USE DEF IInv
<1> DEFINE r == t.req
<1>1. /\ r.op = "open" /\ cash' = t.seen - r.amt /\ cutoff' = cutoff
      /\ row' = [row EXCEPT ![r.id] =
                   [status |-> "open", book |-> r.book, sym |-> r.sym, note |-> r.note,
                    debit |-> r.amt, credit |-> 0, enterAt |-> r.at, exitAt |-> 0]]
      /\ txn' = txn \ {t} /\ queue' = queue
  BY DEF CommitOpen
<1>2. r \in InFlight /\ r \in Request /\ Admissible(r) /\ t.seen = cash
  BY <1>1, CommitEnds
<1>3. /\ r.id \in Ids /\ r.sym \in Symbols /\ row[r.id].status = "unused"
      /\ r.book = "main" => r.note = Nil
  BY <1>1, <1>2 DEF RequestInv, OpenRequests
<1>4. r.book \in Books /\ r.note \in Notes \cup {Nil} /\ r.amt \in Amounts /\ r.amt \in Nat /\ cash \in Int
  BY <1>2, AmountsAssumption DEF Request, TypeOK
<1>5. /\ 0 < r.amt /\ r.amt <= cash /\ OpenOn(r.book, r.sym) = {}
      /\ r.book = "auto" => OpenOn("main", r.sym) = {}
      /\ limit[r.book] = 0 \/ Cardinality(OpenRows(r.book)) < limit[r.book]
      /\ r.note # Nil => \A j \in Ids : row[j].status = "unused" \/ row[j].note # r.note
  <2>1. CASE r.book = "main"
    BY <1>1, <1>2, <1>3, <1>4, <2>1 DEF Admissible, MayOpenMain, Below, limit
  <2>2. CASE r.book = "auto"
    BY <1>1, <1>2, <1>4, <2>2 DEF Admissible, MayOpenAuto, Below, limit, Books
  <2>3. QED
    BY <1>4, <2>1, <2>2 DEF Books
<1>6. /\ \A i \in Ids \ {r.id} : row'[i] = row[i]
      /\ Shown(r.id)' = [status |-> "open", book |-> r.book, sym |-> r.sym, note |-> r.note,
                        debit |-> r.amt, credit |-> 0]
      /\ ~Counted(r.id) /\ ~Counted(r.id)'
  BY <1>1, <1>3 DEF TypeOK, Shown, Counted
<1>7. shown' = [shown EXCEPT ![r.id] = [status |-> "open", book |-> r.book, sym |-> r.sym,
                                        note |-> r.note, debit |-> r.amt, credit |-> 0]]
  BY <1>3, <1>6 DEF shown, Shown
<1>8. counted' = counted
  BY <1>1, <1>6 DEF counted, Counted
<1>9. \A j \in Ids : shown[j].status = row[j].status /\ shown[j].note = row[j].note
  BY DEF shown, Shown
<1>10. Atomic!OpenTrade(r.id, r.book, r.sym, r.note, r.amt)
  BY <1>1, <1>2, <1>3, <1>5, <1>7, <1>8, <1>9, AtomicSees, AtomicCardinality
     DEF Atomic!OpenTrade, shown, counted, limit
<1>11. Atomic!Books = Books
  BY DEF Books, Atomic!Books
<1>12. QED
  BY <1>3, <1>4, <1>10, <1>11 DEF Atomic!Next

(* A close pays out the trade it was asked for, although the main book finds *)
(* it by its symbol, and it counts from then on.                            *)
LEMMA AtomicClose ==
  ASSUME IInv, NEW t \in txn, CommitClose(t)
  PROVE  Atomic!Next
<1> USE DEF IInv
<1> DEFINE r == t.req
           old == row[r.id]
<1>1. /\ cash' = t.seen + r.amt /\ cutoff' = cutoff /\ r.op = "close"
      /\ txn' = txn \ {t} /\ queue' = queue
  BY DEF CommitClose
<1>2. r \in Request /\ t.seen = cash
  BY <1>1, CommitEnds
<1>3. /\ r.id \in Ids /\ old.status = "open" /\ r.at > cutoff
      /\ row' = [row EXCEPT ![r.id] =
                   [old EXCEPT !.status = "closed", !.credit = r.amt, !.exitAt = r.at]]
  BY CloseChangesOneRow
<1>4. old \in Row
  BY <1>3 DEF TypeOK
<1>5. /\ \A i \in Ids \ {r.id} : row'[i] = row[i]
      /\ row'[r.id] = [old EXCEPT !.status = "closed", !.credit = r.amt, !.exitAt = r.at]
  BY <1>3 DEF TypeOK
<1> DEFINE new == row'[r.id]
<1>6. /\ new.status = "closed" /\ new.credit = r.amt /\ new.exitAt = r.at
      /\ new.book = old.book /\ new.sym = old.sym /\ new.note = old.note /\ new.debit = old.debit
  <2> HIDE DEF old
  <2>1. QED
    BY <1>4, <1>5 DEF Row
<1>7. /\ Shown(r.id)' = [Shown(r.id) EXCEPT !.status = "closed", !.credit = r.amt]
      /\ Counted(r.id)'
  <2> HIDE DEF new
  <2>1. Shown(r.id)' = [status |-> new.status, book |-> new.book, note |-> new.note,
                       sym |-> IF new.status = "unused" THEN Nil ELSE new.sym,
                       debit |-> new.debit, credit |-> new.credit]
    BY DEF Shown, new
  <2>2. Shown(r.id) = [status |-> old.status, book |-> old.book, note |-> old.note,
                      sym |-> old.sym, debit |-> old.debit, credit |-> old.credit]
    BY <1>3 DEF Shown
  <2> HIDE DEF old
  <2>3. Shown(r.id)' = [Shown(r.id) EXCEPT !.status = "closed", !.credit = r.amt]
    <3>1. Shown(r.id)' = [status |-> "closed", book |-> old.book, note |-> old.note,
                         sym |-> old.sym, debit |-> old.debit, credit |-> r.amt]
      BY <1>6, <2>1
    <3>2. PICK part : part = [Shown(r.id) EXCEPT !.status = "closed"]
      OBVIOUS
    <3>3. part = [status |-> "closed", book |-> old.book, note |-> old.note,
                 sym |-> old.sym, debit |-> old.debit, credit |-> old.credit]
      BY <2>2, <3>2
    <3>4. [part EXCEPT !.credit = r.amt]
            = [status |-> "closed", book |-> old.book, note |-> old.note,
               sym |-> old.sym, debit |-> old.debit, credit |-> r.amt]
      BY ONLY <3>3
    <3>5. [Shown(r.id) EXCEPT !.status = "closed", !.credit = r.amt] = [part EXCEPT !.credit = r.amt]
      BY <3>2, Zenon
    <3>6. QED
      BY <3>1, <3>4, <3>5, Zenon
  <2>4. QED
    BY <1>1, <1>3, <1>6, <2>3 DEF Counted, new
<1>71. shown' = [shown EXCEPT ![r.id].status = "closed", ![r.id].credit = r.amt]
  <2>1. \A i \in Ids \ {r.id} : Shown(i)' = Shown(i)
    BY <1>5 DEF Shown
  <2>2. [[shown[r.id] EXCEPT !.status = "closed"] EXCEPT !.credit = r.amt] = Shown(r.id)'
    BY <1>3, <1>7 DEF shown
  <2> HIDE DEF r
  <2>3. shown' = [shown EXCEPT ![r.id] = Shown(r.id)']
    BY <1>3, <2>1 DEF shown
  <2>4. QED
    BY <1>3, <2>2, <2>3 DEF shown
<1>8. counted' = counted \cup {r.id}
  BY <1>1, <1>3, <1>5, <1>7 DEF counted, Counted
<1>9. shown[r.id].status = "open"
  BY <1>3 DEF shown, Shown
<1>10. Atomic!CloseTrade(r.id, r.amt)
  BY <1>1, <1>2, <1>71, <1>8, <1>9 DEF Atomic!CloseTrade, shown, counted
<1>11. r.amt \in Amounts
  BY <1>2 DEF Request
<1>12. QED
  BY <1>3, <1>10, <1>11 DEF Atomic!Next

(* Voiding open rows is what the abstract ledger calls voiding.             *)
LEMMA AtomicVoids ==
  ASSUME IInv, NEW S \in SUBSET Ids, NEW at \in Nat,
         \A i \in S : row[i].status = "open", row' = VoidRows(S, at)
  PROVE  /\ shown' = Atomic!Voided(S)
         /\ \A i \in Ids : row'[i].status = "closed" <=> row[i].status = "closed"
         /\ \A i \in Ids : row'[i].status = "closed" => row'[i] = row[i]
<1>1. ASSUME NEW i \in Ids \ S
      PROVE  row'[i] = row[i] /\ Shown(i)' = Shown(i)
    BY DEF VoidRows, Shown
<1>2. ASSUME NEW i \in S
      PROVE  row'[i].status = "void" /\ Shown(i)' = [Shown(i) EXCEPT !.status = "void"]
  <2>1. row[i] \in Row /\ row'[i] = [row[i] EXCEPT !.status = "void", !.exitAt = at]
    BY DEF IInv, TypeOK, VoidRows
  <2>2. QED
    BY <2>1 DEF Row, Shown
<1>3. shown' = Atomic!Voided(S)
  BY <1>1, <1>2 DEF Atomic!Voided, shown
<1>4. QED
  BY <1>1, <1>2, <1>3

(* A reset leaves no open trade, whatever books they were in.               *)
LEMMA AtomicReset ==
  ASSUME IInv, NEW t \in txn, CommitReset(t)
  PROVE  Atomic!Next
<1> USE DEF IInv
<1> DEFINE S == OpenRows("main") \cup OpenRows("auto")
<1>1. /\ cash' = Initial /\ row' = VoidRows(S, t.req.at)
      /\ t.req.at \in Nat
  BY DEF CommitReset, TypeOK, Txn, Request
<1>2. S \in SUBSET Ids /\ \A i \in S : row[i].status = "open"
  BY DEF OpenRows, IsOpen
<1>3. /\ shown' = Atomic!Voided(S)
      /\ \A i \in Ids : row'[i].status = "closed" <=> row[i].status = "closed"
  BY <1>1, <1>2, AtomicVoids
<1>4. counted' \subseteq Atomic!ClosedOnes
  BY <1>3, AtomicSees DEF counted, Counted
<1>5. Atomic!Reset
  BY <1>1, <1>3, <1>4, AtomicSees DEF Atomic!Reset, shown, counted
<1>6. QED
  BY <1>5 DEF Atomic!Next

(* A reconciliation writes what is due at its commit.                       *)
LEMMA AtomicReconcile ==
  ASSUME IInv, NEW t \in txn, CommitReconcile(t)
  PROVE  Atomic!Next
<1> USE DEF IInv
<1> DEFINE S == IF t.seen < 0 THEN OverAllocated ELSE {}
<1>1. /\ t.req.op = "reconcile" /\ row' = VoidRows(S, 0) /\ cutoff' = cutoff
      /\ cash' = IF S = {} THEN t.seen ELSE Figures'
      /\ txn' = txn \ {t} /\ queue' = queue
  BY DEF CommitReconcile
<1>2. t.seen = Figures
  BY <1>1, CommitEnds
<1>3. S \in SUBSET OpenRows("main") /\ S \in SUBSET Ids /\ \A i \in S : row[i].status = "open"
  BY DEF OverAllocated, OpenRows, IsOpen
<1>4. /\ shown' = Atomic!Voided(S)
      /\ \A i \in Ids : row'[i].status = "closed" <=> row[i].status = "closed"
      /\ \A i \in Ids : row'[i].status = "closed" => row'[i] = row[i]
  BY <1>1, <1>3, AtomicVoids
<1>5. counted' = counted
  BY <1>1, <1>4 DEF counted, Counted
<1>6. cash' = Figures'
  <2>1. CASE S = {}
    <3>1. row' = row
      BY <1>1, <2>1 DEF VoidRows, TypeOK
    <3>2. Figures' = Figures
      BY <1>1, <3>1 DEF Figures, CreditOf, DebitOf, Counted
    <3>3. QED
      BY <1>1, <1>2, <2>1, <3>2
  <2>2. CASE S # {}
    BY <1>1, <2>2
  <2>3. QED
    BY <2>1, <2>2
<1>7. S # {} => Figures < 0
  BY <1>2
<1>8. Atomic!Reconcile(S)
  BY <1>4, <1>5, <1>6, <1>7, AtomicDue DEF Atomic!Reconcile, shown, counted
<1>9. QED
  BY <1>3, <1>8, AtomicSees DEF Atomic!Next

(* A restart rebuilds the cash, or shows nothing.                           *)
LEMMA AtomicRestart ==
  ASSUME IInv, Restart
  PROVE  Atomic!Next \/ UNCHANGED <<cash, shown, counted>>
<1>1. UNCHANGED <<row, cutoff>> /\ cash' = IF cash <= 0 THEN Figures ELSE cash
  BY DEF Restart
<1>2. UNCHANGED <<shown, counted>>
  BY <1>1 DEF shown, Shown, counted, Counted
<1>3. CASE cash <= 0
  <2>1. Atomic!Rebuild
    BY <1>1, <1>2, <1>3, AtomicDue DEF Atomic!Rebuild, shown, counted
  <2>2. QED
    BY <2>1 DEF Atomic!Next
<1>4. CASE ~(cash <= 0)
  BY <1>1, <1>2, <1>4
<1>5. QED
  BY <1>3, <1>4

(* The empty portfolio is the empty abstract ledger.                        *)
LEMMA AtomicInit == Init => Atomic!Init
<1> SUFFICES ASSUME Init PROVE Atomic!Init
  OBVIOUS
<1>1. \A i \in Ids : Shown(i) = Atomic!Blank /\ ~Counted(i)
  BY DEF Init, Shown, Atomic!Blank, Counted
<1>2. QED
  BY <1>1 DEF Init, Atomic!Init

(* Every step of the ledger is an atomic operation or shows nothing.        *)
LEMMA AtomicStep ==
  ASSUME IInv, [Next]_vars
  PROVE  Atomic!Next \/ UNCHANGED <<cash, shown, counted>>
<1>1. CASE NextRequest
  BY <1>1, AtomicRests DEF NextRequest, RequestMainOpen, RequestAutoOpen, RequestClose, RequestReset,
                           RequestReconcile, Enqueue
<1>2. ASSUME NEW r \in queue, Begin(r)
      PROVE  UNCHANGED <<cash, shown, counted>>
  BY <1>2, AtomicRests DEF Begin
<1>3. ASSUME NEW t \in txn, Abort(t)
      PROVE  UNCHANGED <<cash, shown, counted>>
  BY <1>3, AtomicRests DEF Abort
<1>4. CASE NextTxn
  BY <1>2, <1>3, <1>4, AtomicOpen, AtomicClose, AtomicReset, AtomicReconcile DEF NextTxn
<1>5. CASE Restart
  BY <1>5, AtomicRestart
<1>6. CASE UNCHANGED vars
  BY <1>6, AtomicRests DEF vars
<1>7. QED
  BY <1>1, <1>4, <1>5, <1>6 DEF Next

(* The two books of the shared wallet behave as if every open, close, reset  *)
(* and reconciliation happened at one instant, with any number of them in    *)
(* flight, rolled back or lost with the process.                            *)
THEOREM LedgerIsAtomic == Spec => AtomicLedgerSpec
<1>1. IInv /\ [Next]_vars => [Atomic!Next]_<<cash, shown, counted>>
  BY AtomicStep
<1>2. QED
  BY <1>1, AtomicInit, Invariance, PTL DEF Spec, AtomicLedgerSpec, Atomic!Spec, shown, counted
=============================================================================
