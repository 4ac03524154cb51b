-------------------------------- MODULE Vault --------------------------------
(***************************************************************************)
(* One asset of one vault: its row of vault_balances and what its          *)
(* vault_transactions add up to.  Users deposit and withdraw while the     *)
(* executor confirms purchases and credits sales, each call in a           *)
(* transaction of its own.  A plain read sees a snapshot, an update adds   *)
(* to the current row, and only reserveForBuy locks the row first.         *)
(*                                                                         *)
(* reserveForBuy and cancelBuy have no caller in this repository; with     *)
(* "RESERVE" anybody calls them, in any order and for any amount.  Amounts *)
(* are whole units.                                                        *)
(***************************************************************************)
EXTENDS Integers

CONSTANTS
  Worker,      \* requests and executors that may call at a time
  Amount,
  MaxFunds,    \* bound: what deposits, sales and cancellations may bring in
  MaxRetries,  \* attempts of a transaction that meets a deadlock
  Enabled      \* features a run allows

Feature ==
  { "RESERVE",      \* reserveForBuy and cancelBuy are called
    "DEADLOCK",     \* a transaction may be the victim of a deadlock
    "TWO_DEBITS" }  \* calls that take from the balance may overlap

ASSUME VaultAssumption ==
  /\ Amount \subseteq Nat \ {0}
  /\ MaxFunds \in Nat
  /\ MaxRetries \in Nat \ {0}
  /\ Enabled \subseteq Feature

VARIABLES
  row,     \* the row of vault_balances
  posted,  \* the sum of the vault_transactions of each type
  call     \* what each worker is doing

vars == <<row, posted, call>>

Credit == {"DEPOSIT", "SELL_RETURN"}
Debit  == {"WITHDRAWAL", "BUY_RESERVE"}
Settle == {"BUY_CONFIRM", "BUY_CANCEL"}
Type   == Credit \cup Debit \cup Settle

NoRow == [exists |-> FALSE, balance |-> 0, reserved |-> 0]
Row   == [exists : BOOLEAN, balance : Int, reserved : Int]

NoCall == [phase |-> "idle", type |-> "DEPOSIT", amount |-> 0, found |-> FALSE, tries |-> 0]
Call   == [phase : {"idle", "begin", "write"}, type : Type, amount : Amount \cup {0},
           found : BOOLEAN, tries : 0..MaxRetries]

TypeOK ==
  /\ row \in Row
  /\ posted \in [Type -> Nat]
  /\ call \in [Worker -> Call]

Init ==
  /\ row = NoRow
  /\ posted = [t \in Type |-> 0]
  /\ call = [w \in Worker |-> NoCall]

-----------------------------------------------------------------------------
Calling(T) == {w \in Worker : call[w].phase # "idle" /\ call[w].type \in T}
Becomes(w, c) == call' = [call EXCEPT ![w] = c]
Return(w) == Becomes(w, NoCall)

\* A call and the beginning of its transaction.
Start(w, t, n) ==
  /\ call[w].phase = "idle"
  /\ Becomes(w, [phase |-> "begin", type |-> t, amount |-> n, found |-> FALSE, tries |-> 1])

\* What an update of the row makes of it.
Moved(b, r) == [exists |-> row.exists, balance |-> row.balance + b, reserved |-> row.reserved + r]

\* The transaction commits: the update of the row and the vault_transaction.
Post(w, r) ==
  /\ row' = r
  /\ posted' = [posted EXCEPT ![call[w].type] = @ + call[w].amount]
  /\ Return(w)

Funds == posted["DEPOSIT"] + posted["SELL_RETURN"]

\* A user's deposit or withdrawal, the executor's credit of a sale or its
\* confirmation of a purchase, which it asks for whether or not the job
\* reserved.
Request(w, t, n) ==
  /\ t \in {"BUY_RESERVE", "BUY_CANCEL"} => "RESERVE" \in Enabled
  /\ t \in Credit \cup {"BUY_CANCEL"} => Funds + posted["BUY_CANCEL"] + n <= MaxFunds
  /\ (t \in Debit /\ "TWO_DEBITS" \notin Enabled) => Calling(Debit) = {}
  /\ Start(w, t, n)
  /\ UNCHANGED <<row, posted>>

\* deposit and creditOnSell: is there a row to add to?
FindRow(w) ==
  /\ call[w].phase = "begin" /\ call[w].type \in Credit
  /\ Becomes(w, [call[w] EXCEPT !.phase = "write", !.found = row.exists])
  /\ UNCHANGED <<row, posted>>

AddToRow(w) ==
  /\ call[w].phase = "write" /\ call[w].type \in Credit
  /\ call[w].found
  /\ Post(w, Moved(call[w].amount, 0))

RowReplaced(w) ==  \* mutant
  /\ call[w].phase = "write" /\ call[w].type \in Credit
  /\ ~call[w].found
  /\ Post(w, [exists |-> TRUE, balance |-> call[w].amount, reserved |-> 0])

\* The new row is refused when another transaction created it meanwhile.
CreateRow(w) ==
  /\ call[w].phase = "write" /\ call[w].type \in Credit
  /\ ~call[w].found
  /\ \/ /\ ~row.exists
        /\ Post(w, [exists |-> TRUE, balance |-> call[w].amount, reserved |-> 0])
     \/ /\ row.exists
        /\ Return(w)
        /\ UNCHANGED <<row, posted>>

AllFunds == row.balance + row.reserved  \* mutant
Available == row.balance - row.reserved

\* withdraw: what is available in the snapshot covers the amount.
CheckAvailable(w) ==
  /\ call[w].phase = "begin" /\ call[w].type = "WITHDRAWAL"
  /\ IF row.exists /\ Available >= call[w].amount
     THEN Becomes(w, [call[w] EXCEPT !.phase = "write"])
     ELSE Return(w)
  /\ UNCHANGED <<row, posted>>

Withdraw(w) ==
  /\ call[w].phase = "write" /\ call[w].type = "WITHDRAWAL"
  /\ Post(w, Moved(-call[w].amount, 0))

\* reserveForBuy: the row is locked from the check to the commit.
ReserveForBuy(w) ==
  /\ call[w].phase = "begin" /\ call[w].type = "BUY_RESERVE"
  /\ row.exists /\ Available >= call[w].amount
  /\ Post(w, Moved(-call[w].amount, call[w].amount))

ReserveRefused(w) ==
  /\ call[w].phase = "begin" /\ call[w].type = "BUY_RESERVE"
  /\ ~row.exists \/ Available < call[w].amount
  /\ Return(w)
  /\ UNCHANGED <<row, posted>>

\* confirmBuy: what is reserved in the snapshot covers the amount.
CheckReserve(w) ==
  /\ call[w].phase = "begin" /\ call[w].type = "BUY_CONFIRM"
  /\ IF row.exists /\ row.reserved >= call[w].amount
     THEN Becomes(w, [call[w] EXCEPT !.phase = "write"])
     ELSE Return(w)
  /\ UNCHANGED <<row, posted>>

ConfirmBuy(w) ==
  /\ call[w].phase = "write" /\ call[w].type = "BUY_CONFIRM"
  /\ Post(w, Moved(0, -call[w].amount))

\* cancelBuy checks nothing; without a row its update fails.
CancelBuy(w) ==
  /\ call[w].phase = "begin" /\ call[w].type = "BUY_CANCEL"
  /\ IF row.exists
     THEN Post(w, Moved(call[w].amount, -call[w].amount))
     ELSE Return(w) /\ UNCHANGED <<row, posted>>

DeadlockOnceMore(w) ==  \* mutant
  /\ "DEADLOCK" \in Enabled
  /\ call[w].phase # "idle"
  /\ IF call[w].tries <= MaxRetries
     THEN Becomes(w, [call[w] EXCEPT !.phase = "begin", !.tries = @ + 1])
     ELSE Return(w)
  /\ UNCHANGED <<row, posted>>

\* The database rolls a transaction back; it is tried again MaxRetries times.
Deadlock(w) ==
  /\ "DEADLOCK" \in Enabled
  /\ call[w].phase # "idle"
  /\ IF call[w].tries < MaxRetries
     THEN Becomes(w, [call[w] EXCEPT !.phase = "begin", !.tries = @ + 1])
     ELSE Return(w)
  /\ UNCHANGED <<row, posted>>

CreditStep(w) == FindRow(w) \/ AddToRow(w) \/ CreateRow(w)
DebitStep(w)  == CheckAvailable(w) \/ Withdraw(w) \/ ReserveForBuy(w) \/ ReserveRefused(w)
SettleStep(w) == CheckReserve(w) \/ ConfirmBuy(w) \/ CancelBuy(w)

Next == \E w \in Worker :
  \/ \E t \in Type, n \in Amount : Request(w, t, n)
  \/ CreditStep(w) \/ DebitStep(w) \/ SettleStep(w) \/ Deadlock(w)

Spec == Init /\ [][Next]_vars

-----------------------------------------------------------------------------
\* The row says what the transactions add up to, however the calls overlap and
\* however often one is tried again (executeTransactionWithDeadlockRetry and
\* the increments of every operation).
BooksAgree ==
  /\ row.balance = Funds + posted["BUY_CANCEL"] - posted["WITHDRAWAL"] - posted["BUY_RESERVE"]
  /\ row.reserved = posted["BUY_RESERVE"] - posted["BUY_CONFIRM"] - posted["BUY_CANCEL"]

\* No call takes more than there is (withdraw, reserveForBuy), whatever is
\* deposited, credited, confirmed or given back between its check and its
\* write.  What is available is the balance less the reserve, so a reserve
\* below zero (cancelBuy checks nothing, and two confirmations may both pass)
\* makes more of it than there is; two calls that both take may overdraw too
\* ("TWO_DEBITS").
NoOverdraft == [][row.balance >= 0 /\ row.reserved >= 0 => row'.balance >= 0]_vars

\* The same of the callers there are: without "RESERVE" the reserve is zero.
NotOverdrawn == row.balance >= 0
=============================================================================
