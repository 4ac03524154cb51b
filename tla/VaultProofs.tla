---------------------------- MODULE VaultProofs ----------------------------
(***************************************************************************)
(* Theorems about Vault, for every set of workers and of amounts.          *)
(***************************************************************************)
EXTENDS Vault, TLAPS

\* Every transaction but the one that creates the row finds it there: a row is
\* never deleted.
RowInv ==
  /\ ~row.exists => row = NoRow
  /\ \A w \in Worker :
       call[w].phase = "write" /\ (call[w].type \in Credit => call[w].found) => row.exists

BooksInv == TypeOK /\ RowInv /\ BooksAgree

\* What a request needs to know of a call that begins.
LEMMA StartType ==
  ASSUME TypeOK, VaultAssumption, NEW w \in Worker, NEW t \in Type, NEW n \in Amount, Start(w, t, n)
  PROVE  /\ call' \in [Worker -> Call]
         /\ call'[w].phase = "begin" /\ call'[w].type = t
         /\ call'[w].amount = n
         /\ \A v \in Worker \ {w} : call'[v] = call[v]
<1>1. 1 \in 0..MaxRetries
  BY DEF VaultAssumption
<1>2. [phase |-> "begin", type |-> t, amount |-> n, found |-> FALSE, tries |-> 1] \in Call
  BY <1>1 DEF Call
<1>3. QED
  BY <1>2 DEF TypeOK, Start, Becomes

\* A call that returns.
LEMMA ReturnType ==
  ASSUME TypeOK, VaultAssumption, NEW w \in Worker, Return(w)
  PROVE  /\ call' \in [Worker -> Call]
         /\ call'[w].phase = "idle"
         /\ \A v \in Worker \ {w} : call'[v] = call[v]
<1>1. NoCall \in Call
  BY DEF NoCall, Call, Type, Credit, VaultAssumption
<1>2. QED
  BY <1>1 DEF TypeOK, Return, Becomes, NoCall

\* A call that goes on keeps what it is about.
LEMMA BecomesType ==
  ASSUME TypeOK, NEW w \in Worker, NEW p \in {"begin", "write"}, NEW f \in BOOLEAN,
         Becomes(w, [call[w] EXCEPT !.phase = p, !.found = f])
  PROVE  /\ call' \in [Worker -> Call]
         /\ call'[w].phase = p /\ call'[w].found = f
         /\ call'[w].type = call[w].type /\ call'[w].amount = call[w].amount
         /\ \A v \in Worker \ {w} : call'[v] = call[v]
BY DEF TypeOK, Becomes, Call

\* What calls and the row hold.
LEMMA CallType ==
  ASSUME TypeOK, VaultAssumption, NEW w \in Worker
  PROVE  /\ call[w].amount \in Nat /\ call[w].type \in Type
         /\ row \in Row /\ posted \in [Type -> Nat]
<1>1. call[w].type \in Type /\ call[w].amount \in Amount \cup {0}
  BY DEF TypeOK, Call
<1>2. \A n \in Amount \cup {0} : n \in Nat
  BY DEF VaultAssumption
<1>3. QED
  BY <1>1, <1>2 DEF TypeOK

\* A commit adds the amount to what the transactions of its type add up to.
LEMMA PostType ==
  ASSUME TypeOK, VaultAssumption, NEW w \in Worker, NEW r \in Row, Post(w, r)
  PROVE  /\ row' = r
         /\ posted' \in [Type -> Nat]
         /\ posted'[call[w].type] = posted[call[w].type] + call[w].amount
         /\ \A t \in Type \ {call[w].type} : posted'[t] = posted[t]
         /\ call[w].amount \in Nat
BY CallType DEF TypeOK, Post

(***************************************************************************)
(* Type correctness and the books, together: that a commit finds the row   *)
(* is what makes CreateRow's own balance agree with the transactions.      *)
(***************************************************************************)
LEMMA BooksInit == VaultAssumption /\ Init => BooksInv
<1> SUFFICES ASSUME VaultAssumption, Init PROVE BooksInv
  OBVIOUS
<1>1. NoCall \in Call
  BY DEF NoCall, Call, Type, Credit, VaultAssumption
<1>2. TypeOK
  BY <1>1 DEF Init, TypeOK, NoRow, Row
<1>3. RowInv
  BY DEF Init, RowInv, NoCall
<1>4. BooksAgree
  BY DEF Init, BooksAgree, NoRow, Funds, Type, Credit, Debit, Settle
<1>5. QED
  BY <1>2, <1>3, <1>4 DEF BooksInv

\* A call that begins, goes on or ends without a commit.
LEMMA RowUntouched ==
  ASSUME BooksInv, NEW w \in Worker, UNCHANGED <<row, posted>>,
         call' \in [Worker -> Call],
         \A v \in Worker \ {w} : call'[v] = call[v],
         call'[w].phase = "write" /\ (call'[w].type \in Credit => call'[w].found) => row.exists
  PROVE  BooksInv'
<1>1. TypeOK'
  BY DEF BooksInv, TypeOK
<1>2. RowInv'
  BY DEF BooksInv, RowInv, TypeOK
<1>3. BooksAgree'
  BY DEF BooksInv, BooksAgree, Funds
<1>4. QED
  BY <1>1, <1>2, <1>3 DEF BooksInv

\* A commit to a row that is there, which leaves it there.
LEMMA RowWritten ==
  ASSUME BooksInv, VaultAssumption, NEW w \in Worker, NEW r \in Row, Post(w, r),
         r.exists,
         BooksAgree'
  PROVE  BooksInv'
<1>1. TypeOK'
  BY ReturnType, PostType DEF BooksInv, TypeOK, Post
<1>2. RowInv'
  BY PostType DEF BooksInv, RowInv
<1>3. QED
  BY <1>1, <1>2 DEF BooksInv

\* A commit that moves b to the balance and r to the reserve keeps the books when
\* the transactions of its type say so.
LEMMA MovedBooks ==
  ASSUME BooksInv, VaultAssumption, NEW w \in Worker, row.exists,
         NEW b \in Int, NEW r \in Int, Post(w, Moved(b, r)),
         b = CASE call[w].type \in Credit \cup {"BUY_CANCEL"} -> call[w].amount
               [] call[w].type \in Debit -> -call[w].amount
               [] OTHER -> 0,
         r = CASE call[w].type = "BUY_RESERVE" -> call[w].amount
               [] call[w].type \in Settle -> -call[w].amount
               [] OTHER -> 0
  PROVE  BooksInv'
<1>1. Moved(b, r) \in Row /\ Moved(b, r).exists
  BY CallType DEF BooksInv, Moved, Row
<1>2. /\ row'.balance = row.balance + b
      /\ row'.reserved = row.reserved + r
  BY <1>1, PostType DEF BooksInv, Moved
<1>3. /\ row.balance \in Int /\ row.reserved \in Int
      /\ \A t \in Type : posted[t] \in Nat
      /\ call[w].amount \in Nat
  BY CallType DEF BooksInv, Row
<1>4. call[w].type \in Type
  BY CallType DEF BooksInv
<1>5. /\ posted'[call[w].type] = posted[call[w].type] + call[w].amount
      /\ \A t \in Type \ {call[w].type} : posted'[t] = posted[t]
  BY <1>1, PostType DEF BooksInv
<1>6. call[w].type \in {"DEPOSIT", "SELL_RETURN", "WITHDRAWAL", "BUY_RESERVE", "BUY_CONFIRM",
                        "BUY_CANCEL"}
  BY <1>4 DEF Type, Credit, Debit, Settle
<1>7. \A t \in {"DEPOSIT", "SELL_RETURN", "WITHDRAWAL", "BUY_RESERVE", "BUY_CONFIRM", "BUY_CANCEL"} :
        posted'[t] = IF t = call[w].type THEN posted[t] + call[w].amount ELSE posted[t]
  BY <1>5, <1>6 DEF Type, Credit, Debit, Settle
<1>8. posted[call[w].type] \in Nat /\ \A t \in Type : posted[t] \in Int
  BY <1>3, <1>4
<1>9. row'.balance = Funds' + posted'["BUY_CANCEL"] - posted'["WITHDRAWAL"] - posted'["BUY_RESERVE"]
  BY <1>2, <1>3, <1>6, <1>7, <1>8
     DEF BooksInv, BooksAgree, Funds, Type, Credit, Debit, Settle
<1>10. row'.reserved = posted'["BUY_RESERVE"] - posted'["BUY_CONFIRM"] - posted'["BUY_CANCEL"]
  BY <1>2, <1>3, <1>6, <1>7, <1>8
     DEF BooksInv, BooksAgree, Type, Credit, Debit, Settle
<1>11. BooksAgree'
  BY <1>9, <1>10 DEF BooksAgree
<1>12. QED
  BY <1>1, <1>11, RowWritten

\* Every step keeps the books.
LEMMA BooksStep == VaultAssumption /\ BooksInv /\ [Next]_vars => BooksInv'
<1> SUFFICES ASSUME VaultAssumption, BooksInv, [Next]_vars PROVE BooksInv'
  OBVIOUS
<1> USE DEF BooksInv
<1>1. ASSUME NEW w \in Worker, NEW t \in Type, NEW n \in Amount, Request(w, t, n)
      PROVE  BooksInv'
  <2>1. Start(w, t, n) /\ UNCHANGED <<row, posted>>
    BY <1>1 DEF Request
  <2>2. QED
    BY <2>1, StartType, RowUntouched DEF TypeOK
<1>2. ASSUME NEW w \in Worker, FindRow(w) \/ CheckAvailable(w) \/ CheckReserve(w) \/ ReserveRefused(w)
      PROVE  BooksInv'
  <2>1. UNCHANGED <<row, posted>>
    BY <1>2 DEF FindRow, CheckAvailable, CheckReserve, ReserveRefused
  <2>2. CASE Return(w)
    BY <2>1, <2>2, ReturnType, RowUntouched DEF TypeOK
  <2>3. CASE /\ row.exists
             /\ call[w].phase = "begin"
             /\ Becomes(w, [call[w] EXCEPT !.phase = "write"])
    <3>1. call[w] \in Call
      BY DEF TypeOK
    <3>2. [call[w] EXCEPT !.phase = "write"] = [call[w] EXCEPT !.phase = "write", !.found = call[w].found]
      BY <3>1 DEF Call
    <3>3. call[w].found \in BOOLEAN
      BY <3>1 DEF Call
    <3>4. QED
      BY <2>1, <2>3, <3>2, <3>3, BecomesType, RowUntouched DEF TypeOK
  <2>4. CASE FindRow(w)
    <3>1. row.exists \in BOOLEAN
      BY DEF TypeOK, Row
    <3>2. /\ Becomes(w, [call[w] EXCEPT !.phase = "write", !.found = row.exists])
          /\ call[w].type \in Credit
      BY <2>4 DEF FindRow
    <3>3. /\ call' \in [Worker -> Call]
          /\ call'[w].phase = "write" /\ call'[w].found = row.exists
          /\ call'[w].type \in Credit
          /\ \A v \in Worker \ {w} : call'[v] = call[v]
      BY <3>1, <3>2, BecomesType
    <3>4. QED
      BY <2>1, <3>3, RowUntouched DEF TypeOK, Credit
  <2>5. QED
    BY <1>2, <2>2, <2>3, <2>4 DEF CheckAvailable, CheckReserve, ReserveRefused
<1>3. ASSUME NEW w \in Worker, Deadlock(w)
      PROVE  BooksInv'
  <2>1. UNCHANGED <<row, posted>>
    BY <1>3 DEF Deadlock
  <2>2. CASE Return(w)
    BY <2>1, <2>2, ReturnType, RowUntouched DEF TypeOK
  <2>3. CASE /\ call[w].tries < MaxRetries
             /\ Becomes(w, [call[w] EXCEPT !.phase = "begin", !.tries = @ + 1])
    <3>1. call[w].tries + 1 \in 0..MaxRetries
      BY <2>3 DEF TypeOK, Call, VaultAssumption
    <3>2. /\ call' \in [Worker -> Call]
          /\ call'[w].phase = "begin" /\ call'[w].type = call[w].type
          /\ \A v \in Worker \ {w} : call'[v] = call[v]
      BY <2>3, <3>1 DEF TypeOK, Call, Becomes
    <3>3. QED
      BY <2>1, <3>2, RowUntouched DEF TypeOK
  <2>4. QED
    BY <1>3, <2>2, <2>3 DEF Deadlock
<1>4. ASSUME NEW w \in Worker, AddToRow(w) \/ CreateRow(w)
      PROVE  BooksInv'
  <2>1. call[w].amount \in Nat /\ row \in Row /\ posted \in [Type -> Nat]
    BY CallType
  <2>2. CASE AddToRow(w)
    <3>1. /\ row.exists /\ call[w].type \in Credit
          /\ Post(w, Moved(call[w].amount, 0))
      BY <2>2 DEF AddToRow, RowInv
    <3>2. QED
      BY <2>1, <3>1, MovedBooks DEF TypeOK, Credit, Debit, Settle
  <2>3. CASE CreateRow(w) /\ ~row.exists
    <3>1. /\ call[w].type \in Credit /\ row = NoRow
          /\ Post(w, [exists |-> TRUE, balance |-> call[w].amount, reserved |-> 0])
      BY <2>3 DEF CreateRow, RowInv
    <3>2. [exists |-> TRUE, balance |-> call[w].amount, reserved |-> 0] \in Row
      BY <2>1 DEF Row
    <3>3. /\ row'.balance = row.balance + call[w].amount
          /\ row'.reserved = row.reserved /\ row.reserved = 0 /\ row.balance = 0
      BY <2>1, <3>1, <3>2, PostType DEF NoRow
    <3>4. /\ posted'[call[w].type] = posted[call[w].type] + call[w].amount
          /\ \A t \in Type \ {call[w].type} : posted'[t] = posted[t]
      BY <2>1, <3>1, <3>2, PostType
    <3>5. /\ BooksAgree
          /\ row.balance \in Int /\ row.reserved \in Int
          /\ \A t \in Type : posted[t] \in Nat
      BY <2>1 DEF Row
    <3>6. Type = {"DEPOSIT", "SELL_RETURN", "WITHDRAWAL", "BUY_RESERVE", "BUY_CONFIRM", "BUY_CANCEL"}
      BY DEF Type, Credit, Debit, Settle
    <3>7. BooksAgree'
      <4>1. CASE call[w].type = "DEPOSIT"
        BY <2>1, <3>3, <3>4, <3>5, <3>6, <4>1 DEF BooksAgree, Funds
      <4>2. CASE call[w].type = "SELL_RETURN"
        BY <2>1, <3>3, <3>4, <3>5, <3>6, <4>2 DEF BooksAgree, Funds
      <4>3. QED
        BY <3>1, <4>1, <4>2 DEF Credit
    <3>8. QED
      BY <3>1, <3>2, <3>7, RowWritten DEF TypeOK
  <2>4. CASE Return(w) /\ UNCHANGED <<row, posted>>
    BY <2>4, ReturnType, RowUntouched DEF TypeOK
  <2>5. QED
    BY <1>4, <2>2, <2>3, <2>4 DEF CreateRow
<1>5. ASSUME NEW w \in Worker, Withdraw(w)
      PROVE  BooksInv'
  <2>1. /\ row.exists /\ call[w].type = "WITHDRAWAL"
        /\ Post(w, Moved(-call[w].amount, 0))
    BY <1>5 DEF Withdraw, RowInv, Credit
  <2>2. QED
    BY <2>1, CallType, MovedBooks DEF TypeOK, Credit, Debit, Settle
<1>6. ASSUME NEW w \in Worker, ReserveForBuy(w)
      PROVE  BooksInv'
  <2>1. /\ row.exists /\ call[w].type = "BUY_RESERVE"
        /\ Post(w, Moved(-call[w].amount, call[w].amount))
    BY <1>6 DEF ReserveForBuy
  <2>2. QED
    BY <2>1, CallType, MovedBooks DEF Credit, Debit, Settle
<1>7. ASSUME NEW w \in Worker, ConfirmBuy(w)
      PROVE  BooksInv'
  <2>1. /\ row.exists /\ call[w].type = "BUY_CONFIRM"
        /\ Post(w, Moved(0, -call[w].amount))
    BY <1>7 DEF ConfirmBuy, RowInv, Credit
  <2>2. QED
    BY <2>1, CallType, MovedBooks DEF TypeOK, Credit, Debit, Settle
<1>8. ASSUME NEW w \in Worker, CancelBuy(w)
       PROVE  BooksInv'
  <2>1. CASE row.exists
    <3>1. call[w].type = "BUY_CANCEL" /\ Post(w, Moved(call[w].amount, -call[w].amount))
      BY <1>8, <2>1 DEF CancelBuy
    <3>2. QED
      BY <2>1, <3>1, CallType, MovedBooks DEF TypeOK, Credit, Debit, Settle
  <2>2. CASE ~row.exists
    BY <1>8, <2>2, ReturnType, RowUntouched DEF CancelBuy, TypeOK
  <2>3. QED
    BY <2>1, <2>2
<1>9. CASE UNCHANGED vars
  BY <1>9 DEF vars, TypeOK, RowInv, BooksAgree, Funds
<1>10. QED
  BY <1>1, <1>2, <1>3, <1>4, <1>5, <1>6, <1>7, <1>8, <1>9
  DEF Next, CreditStep, DebitStep, SettleStep

\* The values of the variables have their types, in every reachable state.
THEOREM VaultTypeCorrect == Spec => []TypeOK
<1>1. Init => BooksInv
  BY VaultAssumption, BooksInit
<1>2. BooksInv /\ [Next]_vars => BooksInv'
  BY VaultAssumption, BooksStep
<1>3. BooksInv => TypeOK
  BY DEF BooksInv
<1>4. QED
  BY <1>1, <1>2, <1>3, PTL DEF Spec

\* The row of vault_balances is what the vault_transactions add up to, whatever
\* the amounts, however many requests and executors call at a time, and however
\* often the database makes one of them start again.
THEOREM VaultBooksAgree == Spec => []BooksAgree
<1>1. Init => BooksInv
  BY VaultAssumption, BooksInit
<1>2. BooksInv /\ [Next]_vars => BooksInv'
  BY VaultAssumption, BooksStep
<1>3. BooksInv => BooksAgree
  BY DEF BooksInv
<1>4. QED
  BY <1>1, <1>2, <1>3, PTL DEF Spec

(***************************************************************************)
(* One call at a time takes from the vault.  What a withdrawal found       *)
(* available is there when it writes, unless the reserve was below zero    *)
(* when it looked, and then the reserve still is.                          *)
(***************************************************************************)
DebitInv ==
  /\ \A w \in Worker : call[w].phase = "write" /\ call[w].type = "WITHDRAWAL" /\ row.reserved >= 0
                      => call[w].amount <= row.balance
  /\ \A v, w \in Calling(Debit) : v = w

\* A step of w that takes nothing from the balance and brings no reserve back
\* above zero, or is one of the one debit.
LEMMA DebitKept ==
  ASSUME DebitInv, NEW w \in Worker, \A v \in Worker \ {w} : call'[v] = call[v],
         {row.balance, row'.balance, row.reserved, row'.reserved} \subseteq Int,
         \A v \in Worker : call[v].amount \in Nat,
         \/ w \in Calling(Debit)
         \/ row'.balance >= row.balance /\ row.reserved >= row'.reserved,
         call'[w].phase = "write" /\ call'[w].type = "WITHDRAWAL" /\ row'.reserved >= 0
           => call'[w].amount <= row'.balance,
         call'[w].phase # "idle" /\ call'[w].type \in Debit => \A v \in Calling(Debit) : v = w
  PROVE  DebitInv'
<1>1. \A v, u \in Calling(Debit)' : v = u
  BY DEF DebitInv, Calling
<1>2. ASSUME NEW v \in Worker, call'[v].phase = "write", call'[v].type = "WITHDRAWAL", row'.reserved >= 0
      PROVE  call'[v].amount <= row'.balance
  <2>1. CASE v = w
    BY <1>2, <2>1
  <2>2. CASE v # w
    <3>1. v \in Calling(Debit) /\ call'[v] = call[v]
      BY <1>2, <2>2 DEF Calling, Debit
    <3>2. row'.balance >= row.balance /\ row.reserved >= row'.reserved
      BY <2>2, <3>1 DEF DebitInv
    <3>3. QED
      BY <1>2, <3>1, <3>2 DEF DebitInv
  <2>3. QED
    BY <2>1, <2>2
<1>3. QED
  BY <1>1, <1>2 DEF DebitInv

\* No step takes the balance below zero.
NoneTaken == row.balance >= 0 /\ row.reserved >= 0 => row'.balance >= 0

\* Every step keeps what a withdrawal has read, and none overdraws.
LEMMA DebitsStep ==
  ASSUME VaultAssumption, "TWO_DEBITS" \notin Enabled, BooksInv, BooksInv', DebitInv, [Next]_vars
  PROVE  DebitInv' /\ NoneTaken
<1>0. /\ TypeOK /\ RowInv
      /\ {row.balance, row'.balance, row.reserved, row'.reserved} \subseteq Int
      /\ \A w \in Worker : call[w] \in Call /\ call[w].amount \in Nat
  BY CallType DEF BooksInv, TypeOK, Row
<1>1. ASSUME NEW w \in Worker, NEW t \in Type, NEW n \in Amount, Request(w, t, n)
      PROVE  DebitInv' /\ NoneTaken
  <2>1. Start(w, t, n) /\ UNCHANGED row /\ (t \in Debit => Calling(Debit) = {})
    BY <1>1 DEF Request
  <2>2. QED
    BY <1>0, <2>1, StartType, DebitKept DEF NoneTaken
<1>2. ASSUME NEW w \in Worker, Return(w),
             \/ w \in Calling(Debit)
             \/ row'.balance >= row.balance /\ row.reserved >= row'.reserved
      PROVE  DebitInv'
  BY <1>0, <1>2, ReturnType, DebitKept
<1>3. ASSUME NEW w \in Worker,
             FindRow(w) \/ CheckAvailable(w) \/ CheckReserve(w) \/ ReserveRefused(w) \/ Deadlock(w)
      PROVE  DebitInv' /\ NoneTaken
  <2>1. UNCHANGED row /\ call[w].phase # "idle"
    BY <1>3 DEF FindRow, CheckAvailable, CheckReserve, ReserveRefused, Deadlock
  <2>2. CASE Return(w)
    BY <1>0, <1>2, <2>1, <2>2 DEF NoneTaken
  <2>3. CASE ~Return(w)
    <3>1. PICK c : /\ Becomes(w, c)
                   /\ \E p \in {"begin", "write"} :
                        /\ \/ c = [call[w] EXCEPT !.phase = p]
                           \/ c = [call[w] EXCEPT !.phase = p, !.found = row.exists]
                           \/ c = [call[w] EXCEPT !.phase = p, !.tries = @ + 1]
                        /\ p = "write" /\ call[w].type = "WITHDRAWAL" => Available >= call[w].amount
      BY <1>3, <2>3 DEF FindRow, CheckAvailable, CheckReserve, ReserveRefused, Deadlock, Credit
    <3>2. call[w] \in [phase : {"idle", "begin", "write"}, type : Type, amount : Amount \cup {0},
                       found : BOOLEAN, tries : 0..MaxRetries]
      BY <1>0 DEF Call
    <3>3. /\ c.type = call[w].type /\ c.amount = call[w].amount
          /\ c.phase = "write" /\ c.type = "WITHDRAWAL" => Available >= c.amount
      BY <3>1, <3>2
    <3>4. call'[w] = c /\ \A v \in Worker \ {w} : call'[v] = call[v]
      BY <1>0, <3>1 DEF Becomes, TypeOK
    <3>5. c.phase = "write" /\ c.type = "WITHDRAWAL" /\ row.reserved >= 0 => c.amount <= row.balance
      BY <1>0, <3>3 DEF Available
    <3>6. c.type \in Debit => \A v \in Calling(Debit) : v = w
      BY <2>1, <3>3 DEF DebitInv, Calling
    <3>7. QED
      BY <1>0, <2>1, <3>4, <3>5, <3>6, DebitKept DEF NoneTaken
  <2>4. QED
    BY <2>2, <2>3
<1>4. ASSUME NEW w \in Worker, AddToRow(w) \/ CreateRow(w) \/ ConfirmBuy(w) \/ CancelBuy(w)
      PROVE  DebitInv' /\ NoneTaken
  <2>1. Return(w) /\ row'.balance >= row.balance /\ row.reserved >= row'.reserved
    BY <1>0, <1>4 DEF AddToRow, CreateRow, ConfirmBuy, CancelBuy, Post, Moved, RowInv, NoRow
  <2>2. QED
    BY <1>0, <1>2, <2>1 DEF NoneTaken
<1>5. ASSUME NEW w \in Worker, Withdraw(w) \/ ReserveForBuy(w)
      PROVE  DebitInv' /\ NoneTaken
  <2>1. Return(w) /\ w \in Calling(Debit)
    BY <1>5 DEF Withdraw, ReserveForBuy, Post, Calling, Debit
  <2>2. row'.balance = row.balance - call[w].amount
    BY <1>0, <1>5 DEF Withdraw, ReserveForBuy, Post, Moved
  <2>3. row.reserved >= 0 => call[w].amount <= row.balance
    BY <1>0, <1>5 DEF Withdraw, ReserveForBuy, DebitInv, Available
  <2>4. QED
    BY <1>0, <1>2, <2>1, <2>2, <2>3 DEF NoneTaken
<1>6. CASE UNCHANGED vars
  BY <1>6 DEF vars, DebitInv, Calling, NoneTaken
<1>7. QED
  BY <1>1, <1>3, <1>4, <1>5, <1>6 DEF Next, CreditStep, DebitStep, SettleStep

\* While no two calls that take from the vault overlap, none takes more than
\* there is, whatever is deposited, credited, confirmed or given back meanwhile
\* (withdraw and its check, reserveForBuy), unless the reserve is below zero.
THEOREM VaultNoOverdraft ==
  ASSUME "TWO_DEBITS" \notin Enabled
  PROVE  Spec => NoOverdraft
<1> DEFINE Inv == BooksInv /\ DebitInv
<1>1. Init => Inv
  <2>1. Init => DebitInv
    BY DEF Init, DebitInv, NoCall, Calling
  <2>2. QED
    BY <2>1, VaultAssumption, BooksInit
<1>2. Inv /\ [Next]_vars => Inv' /\ NoneTaken
  <2>1. BooksInv /\ [Next]_vars => BooksInv'
    BY VaultAssumption, BooksStep
  <2>2. QED
    BY <2>1, VaultAssumption, DebitsStep
<1> HIDE DEF Inv
<1>3. QED
  BY <1>1, <1>2, PTL DEF Spec, NoOverdraft, NoneTaken

(***************************************************************************)
(* The callers this repository has: no job reserves, and one withdrawal is *)
(* handled at a time.  Nothing is then reserved or confirmed.              *)
(***************************************************************************)
TodaysCallers == "RESERVE" \notin Enabled /\ "TWO_DEBITS" \notin Enabled

NoReserve ==
  /\ row.reserved = 0
  /\ \A w \in Worker : call[w].phase # "idle" =>
       /\ call[w].type \notin {"BUY_RESERVE", "BUY_CANCEL"}
       /\ call[w].amount > 0
       /\ call[w].phase = "write" => call[w].type # "BUY_CONFIRM"

\* Without a caller of reserveForBuy or cancelBuy nothing is reserved, and every
\* confirmation the executor asks for is refused.
LEMMA NoReserveStep ==
  ASSUME VaultAssumption, "RESERVE" \notin Enabled, BooksInv, NoReserve, [Next]_vars
  PROVE  NoReserve'
<1>0. /\ TypeOK /\ RowInv
      /\ \A w \in Worker : call[w] \in Call /\ call[w].amount \in Nat
      /\ \A n \in Amount : n > 0
  BY CallType DEF BooksInv, TypeOK, VaultAssumption
<1>1. ASSUME NEW w \in Worker, NEW t \in Type, NEW n \in Amount, Request(w, t, n)
      PROVE  NoReserve'
  <2>1. Start(w, t, n) /\ UNCHANGED row /\ t \notin {"BUY_RESERVE", "BUY_CANCEL"}
    BY <1>1 DEF Request
  <2>2. QED
    BY <1>0, <2>1, StartType DEF NoReserve
<1>2. ASSUME NEW w \in Worker, Return(w), row'.reserved = 0
      PROVE  NoReserve'
  BY <1>0, <1>2, ReturnType DEF NoReserve
<1>3. ASSUME NEW w \in Worker, NEW p \in {"begin", "write"}, NEW f \in BOOLEAN, NEW k \in 0..MaxRetries,
             call[w].phase # "idle", p = "write" => call[w].type # "BUY_CONFIRM", UNCHANGED row,
             Becomes(w, [call[w] EXCEPT !.phase = p, !.found = f, !.tries = k])
      PROVE  NoReserve'
  <2>1. /\ call'[w].phase = p /\ call'[w].type = call[w].type /\ call'[w].amount = call[w].amount
        /\ \A v \in Worker \ {w} : call'[v] = call[v]
    BY <1>0, <1>3 DEF Becomes, TypeOK, Call
  <2>2. QED
    BY <1>3, <2>1 DEF NoReserve
<1>4. ASSUME NEW w \in Worker,
             FindRow(w) \/ CheckAvailable(w) \/ CheckReserve(w) \/ ReserveRefused(w) \/ Deadlock(w)
      PROVE  NoReserve'
  <2>1. UNCHANGED row /\ call[w].phase # "idle" /\ row.reserved = 0 /\ call[w].amount > 0
    BY <1>4 DEF FindRow, CheckAvailable, CheckReserve, ReserveRefused, Deadlock, NoReserve
  <2>2. CheckReserve(w) => Return(w)
    BY <1>0, <2>1 DEF CheckReserve
  <2>3. CASE Return(w)
    BY <1>2, <2>1, <2>3
  <2>4. CASE ~Return(w)
    <3>1. PICK c : /\ Becomes(w, c)
                   /\ \/ c = [call[w] EXCEPT !.phase = "write"] /\ call[w].type # "BUY_CONFIRM"
                      \/ c = [call[w] EXCEPT !.phase = "write", !.found = row.exists] /\ call[w].type # "BUY_CONFIRM"
                      \/ c = [call[w] EXCEPT !.phase = "begin", !.tries = @ + 1]
      BY <1>4, <2>2, <2>4 DEF FindRow, CheckAvailable, ReserveRefused, Deadlock, Credit
    <3>2. call[w] \in [phase : {"idle", "begin", "write"}, type : Type, amount : Amount \cup {0},
                       found : BOOLEAN, tries : 0..MaxRetries]
      BY <1>0 DEF Call
    <3>3. /\ c.type = call[w].type /\ c.amount = call[w].amount
          /\ c.phase = "write" => c.type # "BUY_CONFIRM"
      BY <3>1, <3>2
    <3>4. call'[w] = c /\ \A v \in Worker \ {w} : call'[v] = call[v]
      BY <1>0, <3>1 DEF Becomes, TypeOK
    <3>5. QED
      BY <2>1, <3>3, <3>4 DEF NoReserve
  <2>5. QED
    BY <2>3, <2>4
<1>5. ASSUME NEW w \in Worker, AddToRow(w) \/ CreateRow(w) \/ Withdraw(w)
      PROVE  NoReserve'
  <2>1. Return(w) /\ row'.reserved = 0
    BY <1>0, <1>5 DEF AddToRow, CreateRow, Withdraw, Post, Moved, NoReserve, TypeOK, Row
  <2>2. QED
    BY <1>2, <2>1
<1>6. ASSUME NEW w \in Worker, ReserveForBuy(w) \/ ConfirmBuy(w) \/ CancelBuy(w)
      PROVE  FALSE
  BY <1>6 DEF ReserveForBuy, ConfirmBuy, CancelBuy, NoReserve
<1>7. CASE UNCHANGED vars
  BY <1>7 DEF vars, NoReserve
<1>8. QED
  BY <1>1, <1>4, <1>5, <1>6, <1>7 DEF Next, CreditStep, DebitStep, SettleStep

\* With the callers this repository has, withdrawals that do not overlap never
\* take more than the vault holds, whatever is deposited or credited meanwhile
\* and whatever the executor asks to confirm (withdraw, confirmBuy).
THEOREM VaultNeverOverdrawn ==
  ASSUME TodaysCallers
  PROVE  Spec => []NotOverdrawn
<1>1. Init => BooksInv /\ NoReserve /\ NotOverdrawn
  <2>1. Init => NoReserve /\ NotOverdrawn
    BY DEF Init, NoReserve, NotOverdrawn, NoRow, NoCall
  <2>2. QED
    BY <2>1, VaultAssumption, BooksInit
<1>2. BooksInv /\ NoReserve /\ [Next]_vars => (BooksInv /\ NoReserve)'
  <2>1. BooksInv /\ [Next]_vars => BooksInv'
    BY VaultAssumption, BooksStep
  <2>2. QED
    BY <2>1, VaultAssumption, NoReserveStep DEF TodaysCallers
<1>3. NoReserve /\ NotOverdrawn /\ [NoneTaken]_vars => NotOverdrawn'
  BY DEF NoReserve, NotOverdrawn, NoneTaken, vars
<1>4. Spec => [][NoneTaken]_vars
  BY VaultNoOverdraft DEF TodaysCallers, NoOverdraft, NoneTaken
<1>5. QED
  BY <1>1, <1>2, <1>3, <1>4, PTL DEF Spec
=============================================================================
