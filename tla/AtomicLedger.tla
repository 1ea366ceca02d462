---------------------------- MODULE AtomicLedger ----------------------------
(***************************************************************************)
(* What the shared paper wallet promises to its two books: every open,      *)
(* close, reset and reconciliation happens at one instant, on the money and *)
(* the trades of that instant.  There are no requests, stamps, locks or     *)
(* transactions here; a trade counts or it does not.                        *)
(***************************************************************************)
EXTENDS Integers, FiniteSets

CONSTANTS
  Ids, Symbols, Notes, Nil, Amounts,
  Initial,          (* the balance of a new portfolio                       *)
  Limit,            (* of each book: open trades, 0 = unlimited             *)
  Total(_)          (* the sum of a function from Ids to Amounts            *)

VARIABLES
  wallet,           (* the cash                                             *)
  trade,            (* of each id                                           *)
  counted           (* closed trades whose PnL belongs to this portfolio    *)

Books == {"main", "auto"}

Blank == [status |-> "unused", book |-> "main", sym |-> Nil, note |-> Nil, debit |-> 0, credit |-> 0]

Open(b)     == {i \in Ids : trade[i].status = "open" /\ trade[i].book = b}
On(b, s)    == {i \in Open(b) : trade[i].sym = s}
ClosedOnes  == {i \in Ids : trade[i].status = "closed"}

(* What the cash ought to be: what was there, plus what the counted trades   *)
(* returned, minus what they and the open ones cost.                        *)
Due ==
  Initial + Total([i \in Ids |-> IF i \in counted THEN trade[i].credit ELSE 0])
          - Total([i \in Ids |-> IF i \in counted \/ trade[i].status = "open" THEN trade[i].debit ELSE 0])

Init == wallet = Initial /\ trade = [i \in Ids |-> Blank] /\ counted = {}

(* An open is paid for with money that is there, on a symbol its book does   *)
(* not hold (an auto trade: neither book), within the limit, once per        *)
(* notification.                                                            *)
OpenTrade(i, b, s, n, d) ==
  /\ 0 < d /\ d <= wallet
  /\ wallet' = wallet - d
  /\ trade[i].status = "unused"
  /\ On(b, s) = {}
  /\ b = "auto" => On("main", s) = {}
  /\ Limit[b] = 0 \/ Cardinality(Open(b)) < Limit[b]
  /\ n # Nil => \A j \in Ids : trade[j].status = "unused" \/ trade[j].note # n
  /\ trade' = [trade EXCEPT ![i] = [status |-> "open", book |-> b, sym |-> s, note |-> n,
                                    debit |-> d, credit |-> 0]]
  /\ UNCHANGED counted

(* A close pays one open trade out, and touches no other.                   *)
CloseTrade(i, c) ==
  /\ wallet' = wallet + c
  /\ trade[i].status = "open"
  /\ trade' = [trade EXCEPT ![i].status = "closed", ![i].credit = c]
  /\ counted' = counted \cup {i}

Voided(S) == [i \in Ids |-> IF i \in S THEN [trade[i] EXCEPT !.status = "void"] ELSE trade[i]]

(* A reset starts anew without open trades.  It may leave closed ones        *)
(* counted: those that were closed across it.                               *)
Reset ==
  /\ wallet' = Initial
  /\ counted' \subseteq ClosedOnes
  /\ trade' = Voided(Open("main") \cup Open("auto"))

(* A reconciliation sets the cash to what it ought to be; only if that is    *)
(* negative, it takes main trades away first.                               *)
Reconcile(removed) ==
  /\ UNCHANGED counted
  /\ removed # {} => Due < 0
  /\ trade' = Voided(removed)
  /\ wallet' = Due'

(* A start of the server that finds no cash computes it anew.               *)
Rebuild == wallet <= 0 /\ wallet' = Due /\ UNCHANGED <<trade, counted>>

Next ==
  \/ \E i \in Ids, b \in Books, s \in Symbols, n \in Notes \cup {Nil}, d \in Amounts : OpenTrade(i, b, s, n, d)
  \/ \E i \in Ids, c \in Amounts : CloseTrade(i, c)
  \/ Reset
  \/ \E removed \in SUBSET Open("main") : Reconcile(removed)
  \/ Rebuild

Spec == Init /\ [][Next]_<<wallet, trade, counted>>
=============================================================================
