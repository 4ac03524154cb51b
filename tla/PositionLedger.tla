--------------------------- MODULE PositionLedger ---------------------------
(***************************************************************************)
(* The position book: what packages/domain/src/positions/position.service  *)
(* .ts does to the quantities of trade_positions and to position_fills     *)
(* when orders have been executed, and who calls it.                       *)
(*                                                                         *)
(* Every service call is a database transaction (MySQL, REPEATABLE READ):  *)
(* the snapshot its plain reads see is taken by its first read, the rows   *)
(* it locks FOR UPDATE or updates are the current ones.  A call is         *)
(* therefore two steps of a Worker, one that takes the snapshot and one    *)
(* that obtains the row lock, writes and commits.                          *)
(*                                                                         *)
(* Abstracted: prices, profit, fees and trigger flags; one account,        *)
(* symbol and trade mode; the age limit of a group (a BUY may always find  *)
(* no position young enough); groups of two positions at a time; one       *)
(* execution per job, so an execution is named by its job. The sums of     *)
(* the BUY and of the SELL fills of a position are kept as they change     *)
(* instead of the rows that make them up.                                  *)
(***************************************************************************)
EXTENDS Naturals, FiniteSets, Functions

CONSTANTS
  Position,   \* rows of trade_positions that may come to exist
  BuyJob,     \* BUY jobs, each with at most one execution
  SellJob,    \* SELL jobs, each with at most one execution
  Worker,     \* concurrent callers of PositionService
  MaxQty,     \* largest quantity one execution reports
  DustRatio,  \* a residue is less than total \div DustRatio (100 in the code)
  Enabled,    \* the optional features this deployment uses
  None

Feature ==
  { "BUY_GROUPING",     \* trade_parameters.group_positions_enabled
    "GROUP_API",        \* groupPositions, called from the dashboard
    "DUST",             \* convertToDustPosition, dust-positions-monitor
    "SELL_SYNC",        \* the positions-sell-sync cron job
    "SYNC_MISSING",     \* POST /positions/sync-missing-all
    "SYNC_INTERNAL",    \* POST /internal/positions/sync-missing-all (cron)
    "LIMIT_ORDERS",     \* LIMIT orders, reported by limit-orders-monitor
    "HOOK_LOCK" }       \* lock_sell_by_webhook and sells from webhooks

ASSUME LedgerAssumption ==
  /\ MaxQty \in Nat \ {0}
  /\ DustRatio \in Nat \ {0}
  /\ Enabled \subseteq Feature
  /\ IsFiniteSet(Position)
  /\ None \notin Position \cup BuyJob \cup SellJob
  /\ BuyJob \cap SellJob = {}

VARIABLES
  status, opener, qtyTotal, qtyRemaining, isDust, hookLocked,  \* trade_positions
  bought, sold,                      \* sums of position_fills, per position
  boughtBy, soldBy, fillOn,          \* the same fills, per execution
  grouped,                           \* position_grouped_jobs
  buyStatus, buyQty,                 \* BUY trade_jobs and their executions
  sellStatus, sellQty, sellPos, sellSeen, sellHook,  \* SELL trade_jobs
  owed,                              \* MARKET executions their caller has yet to report
  pc, txJob, txPos, txOther, snap    \* the calls in progress

posVars  == <<status, opener, qtyTotal, qtyRemaining, isDust, hookLocked>>
fillVars == <<bought, sold, boughtBy, soldBy, fillOn, grouped>>
buyVars  == <<buyStatus, buyQty>>
sellVars == <<sellStatus, sellQty, sellPos, sellSeen, sellHook>>
txVars   == <<pc, txJob, txPos, txOther, snap>>
vars     == <<posVars, fillVars, buyVars, sellVars, owed, txVars>>

PositionStatus == {"NONE", "OPEN", "CLOSED", "DELETED"}
\* FILLED with a reason code (an anomaly kept for the audit) is written
\* ANOMALY, FAILED with reason EXECUTION_ORPHANED is written ORPHANED
SellStatus == {"NONE", "EXECUTING", "PENDING_LIMIT", "FILLED", "PARTIALLY_FILLED",
               "SKIPPED", "ANOMALY", "ORPHANED"}
BuyStatus  == {"NONE", "PENDING", "EXECUTING", "PENDING_LIMIT", "FILLED"}
BuyPhase   == {"buyFound", "buyNew", "buyGroup"}
SellPhase  == {"sellExecutor", "sellLimit", "sellDirect"}
Phase      == {"idle", "listed", "finishExecutor", "finishLimit", "groupValid", "group", "dust"}
              \cup BuyPhase \cup SellPhase
RowType    == [status: PositionStatus, total: Nat, remaining: Nat, sold: Nat, locked: BOOLEAN]

\* A position as a plain read returns it, with the sum of its SELL fills.
Row(p) == [status |-> status[p], total |-> qtyTotal[p], remaining |-> qtyRemaining[p],
           sold |-> sold[p], locked |-> p \in hookLocked]
NoRow  == [status |-> "NONE", total |-> 0, remaining |-> 0, sold |-> 0, locked |-> FALSE]
NoSnap == [p \in Position |-> NoRow]
Snapshot == [p \in Position |-> Row(p)]

Open(p) == status[p] = "OPEN" /\ qtyRemaining[p] > 0
Live(p) == status[p] \in {"OPEN", "CLOSED"}
OpenedByOpen(b) == {p \in Position : status[p] = "OPEN" /\ opener[p] = b}  \* mutant

\* trade_job_id_open is unique: at most one live position per BUY job
OpenedBy(b) == {p \in Position : Live(p) /\ opener[p] = b}

TypeOK ==
  /\ status \in [Position -> PositionStatus]
  /\ opener \in [Position -> BuyJob \cup {None}]
  /\ qtyTotal \in [Position -> Nat]
  /\ qtyRemaining \in [Position -> Nat]
  /\ isDust \subseteq Position
  /\ hookLocked \subseteq Position
  /\ bought \in [Position -> Nat]
  /\ sold \in [Position -> Nat]
  /\ boughtBy \in [BuyJob -> Nat]
  /\ soldBy \in [SellJob -> Nat]
  /\ fillOn \in [SellJob -> SUBSET Position]
  /\ grouped \subseteq Position \X BuyJob
  /\ buyStatus \in [BuyJob -> BuyStatus]
  /\ buyQty \in [BuyJob -> Nat]
  /\ sellStatus \in [SellJob -> SellStatus]
  /\ sellQty \in [SellJob -> Nat]
  /\ sellPos \in [SellJob -> Position \cup {None}]
  /\ sellSeen \in [SellJob -> SUBSET Position]
  /\ sellHook \subseteq SellJob
  /\ owed \subseteq BuyJob \cup SellJob
  /\ pc \in [Worker -> Phase]
  /\ txJob \in [Worker -> BuyJob \cup SellJob \cup {None}]
  /\ txPos \in [Worker -> Position \cup {None}]
  /\ txOther \in [Worker -> Position \cup {None}]
  /\ snap \in [Worker -> [Position -> RowType]]

Init ==
  /\ status = [p \in Position |-> "NONE"]
  /\ opener = [p \in Position |-> None]
  /\ qtyTotal = [p \in Position |-> 0]
  /\ qtyRemaining = [p \in Position |-> 0]
  /\ isDust = {}
  /\ hookLocked = {}
  /\ bought = [p \in Position |-> 0]
  /\ sold = [p \in Position |-> 0]
  /\ boughtBy = [b \in BuyJob |-> 0]
  /\ soldBy = [j \in SellJob |-> 0]
  /\ fillOn = [j \in SellJob |-> {}]
  /\ grouped = {}
  /\ buyStatus = [b \in BuyJob |-> "NONE"]
  /\ buyQty = [b \in BuyJob |-> 0]
  /\ sellStatus = [j \in SellJob |-> "NONE"]
  /\ sellQty = [j \in SellJob |-> 0]
  /\ sellPos = [j \in SellJob |-> None]
  /\ sellSeen = [j \in SellJob |-> {}]
  /\ sellHook = {}
  /\ owed = {}
  /\ pc = [w \in Worker |-> "idle"]
  /\ txJob = [w \in Worker |-> None]
  /\ txPos = [w \in Worker |-> None]
  /\ txOther = [w \in Worker |-> None]
  /\ snap = [w \in Worker |-> NoSnap]

(***************************************************************************)
(* Transactions                                                            *)
(***************************************************************************)
Begin(w, phase, job, p, q, s) ==
  /\ pc' = [pc EXCEPT ![w] = phase]
  /\ txJob' = [txJob EXCEPT ![w] = job]
  /\ txPos' = [txPos EXCEPT ![w] = p]
  /\ txOther' = [txOther EXCEPT ![w] = q]
  /\ snap' = [snap EXCEPT ![w] = s]

Finish(w) == Begin(w, "idle", None, None, None, NoSnap)

\* The caller of an execution reports it once: a queue job has one attempt,
\* a recorded sale one request.
Reported(j) == owed' = owed \ {j}

(***************************************************************************)
(* BUY executions                                                          *)
(***************************************************************************)
\* An order of BUY job b was executed on the exchange: a MARKET order, whose
\* execution row the executor has just written, or a LIMIT order, whose job
\* is PENDING_LIMIT until limit-orders-monitor finds it filled.
BuyExecuted(b, q) ==
  /\ buyStatus[b] = "NONE"
  /\ \/ /\ buyStatus' = [buyStatus EXCEPT ![b] = "EXECUTING"]
        /\ owed' = owed \cup {b}
     \/ /\ "LIMIT_ORDERS" \in Enabled
        /\ buyStatus' = [buyStatus EXCEPT ![b] = "PENDING_LIMIT"]
        /\ UNCHANGED owed
  /\ buyQty' = [buyQty EXCEPT ![b] = q]
  /\ UNCHANGED <<posVars, fillVars, sellVars, txVars>>

\* The executor is one process that handles one job of a trade mode at a time.
ExecutorBusy ==
  \E w \in Worker : \/ pc[w] \in {"sellExecutor", "finishExecutor"}
                    \/ pc[w] \in BuyPhase /\ buyStatus[txJob[w]] = "EXECUTING"

MissingUnfinished(b) ==  \* mutant: looks for jobs still under way
  buyStatus[b] = "EXECUTING" /\ OpenedBy(b) = {}

\* The sync-missing endpoints look for FILLED BUY jobs that open no position.
MissingPosition(b) ==
  /\ buyStatus[b] = "FILLED"
  /\ OpenedBy(b) = {}
  /\ \/ "SYNC_MISSING" \in Enabled
     \/ "SYNC_INTERNAL" \in Enabled /\ \A p \in Position : <<p, b>> \notin grouped

\* Positions a BUY may be merged into, as the lookup outside the transaction
\* sees them.
EligibleForGrouping == {p \in Position : "BUY_GROUPING" \in Enabled /\ Open(p)}

\* onBuyExecuted up to the lookup of a position to merge into.  A job that
\* already opens a position returns (or throws) here and changes nothing.
BuyFind(w, b) ==
  /\ pc[w] = "idle"
  /\ \/ b \in owed /\ ~ExecutorBusy
     \/ buyStatus[b] = "PENDING_LIMIT"
     \/ MissingPosition(b)
  /\ OpenedBy(b) = {}
  /\ Reported(b)
  /\ \E p \in EligibleForGrouping \cup {None} : Begin(w, "buyFound", b, p, None, NoSnap)
  /\ UNCHANGED <<posVars, fillVars, buyVars, sellVars>>

\* The merging transaction reads the position again, without a lock.
BuyRead(w) ==
  /\ pc[w] = "buyFound"
  /\ txPos[w] # None
  /\ IF status[txPos[w]] = "OPEN"
     THEN Begin(w, "buyGroup", txJob[w], txPos[w], None, Snapshot)
     ELSE Begin(w, "buyNew", txJob[w], None, None, NoSnap)
  /\ UNCHANGED <<posVars, fillVars, buyVars, sellVars, owed>>

\* The executor sets the job FILLED whatever onBuyExecuted did, the others
\* once it returned.
BuyFilled(b) == buyStatus' = [buyStatus EXCEPT ![b] = "FILLED"]

\* createNewPosition; the job is checked again inside the transaction and
\* trade_job_id_open is unique.
BuyCreate(w, p) ==
  /\ pc[w] = "buyNew" \/ (pc[w] = "buyFound" /\ txPos[w] = None)
  /\ status[p] = "NONE"
  /\ OpenedBy(txJob[w]) = {}
  /\ \/ UNCHANGED hookLocked
     \/ "HOOK_LOCK" \in Enabled /\ hookLocked' = hookLocked \cup {p}
  /\ LET b == txJob[w] IN
     /\ status' = [status EXCEPT ![p] = "OPEN"]
     /\ opener' = [opener EXCEPT ![p] = b]
     /\ qtyTotal' = [qtyTotal EXCEPT ![p] = buyQty[b]]
     /\ qtyRemaining' = [qtyRemaining EXCEPT ![p] = buyQty[b]]
     /\ bought' = [bought EXCEPT ![p] = buyQty[b]]
     /\ boughtBy' = [boughtBy EXCEPT ![b] = @ + buyQty[b]]
     /\ BuyFilled(b)
  /\ Finish(w)
  /\ UNCHANGED <<isDust, sold, soldBy, fillOn, grouped, buyQty, sellVars, owed>>

MergedRemaining(w) == snap[w][txPos[w]].remaining + buyQty[txJob[w]]  \* mutant

MergedTotal(w) == snap[w][txPos[w]].total + buyQty[txJob[w]]

\* The merge: totals computed from what the transaction read, qty_remaining
\* set to the new total.
BuyGroup(w) ==
  /\ pc[w] = "buyGroup"
  /\ status[txPos[w]] # "DELETED"
  /\ LET b == txJob[w]
         p == txPos[w]
     IN /\ qtyTotal' = [qtyTotal EXCEPT ![p] = MergedTotal(w)]
        /\ qtyRemaining' = [qtyRemaining EXCEPT ![p] = MergedTotal(w)]
        /\ bought' = [bought EXCEPT ![p] = @ + buyQty[b]]
        /\ boughtBy' = [boughtBy EXCEPT ![b] = @ + buyQty[b]]
        /\ grouped' = grouped \cup {<<p, c>> : c \in {b, opener[p]}}
        /\ BuyFilled(b)
  /\ Finish(w)
  /\ UNCHANGED <<status, opener, isDust, hookLocked, sold, soldBy, fillOn, buyQty, sellVars, owed>>

\* A lost race, a deadlock or a database error: the transaction is rolled
\* back, the executor logs it and sets the job FILLED all the same.
BuyFails(w) ==
  /\ pc[w] \in BuyPhase
  /\ buyStatus[txJob[w]] = "EXECUTING"
  /\ BuyFilled(txJob[w])
  /\ Finish(w)
  /\ UNCHANGED <<posVars, fillVars, buyQty, sellVars, owed>>

(***************************************************************************)
(* SELL executions                                                         *)
(***************************************************************************)
NewSell(j, p, q, st) ==
  /\ sellStatus[j] = "NONE"
  /\ sellStatus' = [sellStatus EXCEPT ![j] = st]
  /\ sellQty' = [sellQty EXCEPT ![j] = q]
  /\ sellPos' = [sellPos EXCEPT ![j] = p]
  /\ sellSeen' = [sellSeen EXCEPT ![j] = IF "SELL_SYNC" \in Enabled THEN {o \in Position : Live(o)} ELSE {}]
  /\ UNCHANGED <<posVars, fillVars, buyVars, txVars>>

\* A SELL order on position p, of at most what was left of it, was executed.
SellExecuted(j, p, q) ==
  /\ Open(p) /\ q <= qtyRemaining[p]
  /\ \/ /\ NewSell(j, p, q, "EXECUTING")
        /\ owed' = owed \cup {j}
        /\ \/ UNCHANGED sellHook
           \/ "HOOK_LOCK" \in Enabled /\ sellHook' = sellHook \cup {j}
     \/ /\ "LIMIT_ORDERS" \in Enabled
        /\ NewSell(j, p, q, "PENDING_LIMIT")
        /\ UNCHANGED <<owed, sellHook>>

\* POST /positions: a sale made by hand on the exchange is recorded with a
\* job that is FILLED from the start, whatever its quantity.
SellRecorded(j, p, q) ==
  /\ Open(p)
  /\ NewSell(j, p, q, "FILLED")
  /\ owed' = owed \cup {j}
  /\ UNCHANGED sellHook

\* The limit monitor lists its jobs, then checks the position of each: a
\* filled order of a position that is no longer open is only noted.
LimitList(w, j) ==
  /\ pc[w] = "idle"
  /\ sellStatus[j] = "PENDING_LIMIT"
  /\ IF sellPos[j] # None /\ ~Open(sellPos[j])
     THEN sellStatus' = [sellStatus EXCEPT ![j] = "ANOMALY"] /\ UNCHANGED txVars
     ELSE Begin(w, "listed", j, None, None, NoSnap) /\ UNCHANGED sellStatus
  /\ UNCHANGED <<posVars, fillVars, buyVars, sellQty, sellPos, sellSeen, sellHook, owed>>

\* onSellExecuted begins: its read of the job is the first of the transaction.
LimitBegin(w) ==
  /\ pc[w] = "listed"
  /\ Begin(w, "sellLimit", txJob[w], sellPos[txJob[w]], None, Snapshot)
  /\ UNCHANGED <<posVars, fillVars, buyVars, sellVars, owed>>

SellBegin(w, j) ==
  /\ pc[w] = "idle"
  /\ j \in owed
  /\ \/ /\ sellStatus[j] = "EXECUTING" /\ ~ExecutorBusy
        /\ Begin(w, "sellExecutor", j, sellPos[j], None, Snapshot)
     \/ /\ sellStatus[j] # "EXECUTING"
        /\ Begin(w, "sellDirect", j, sellPos[j], None, Snapshot)
  /\ Reported(j)
  /\ UNCHANGED <<posVars, fillVars, buyVars, sellVars>>

\* positions-sell-sync walks the open positions and reports every FILLED sale
\* made since p was opened that has no fill on p.  The sale it reports closes
\* its own position, whichever p is.
SyncBegin(w, j, p) ==
  /\ "SELL_SYNC" \in Enabled
  /\ pc[w] = "idle"
  /\ Open(p)
  /\ sellStatus[j] \in {"FILLED", "ANOMALY"}
  /\ p \in sellSeen[j] /\ p \notin fillOn[j]
  /\ Begin(w, "sellDirect", j, sellPos[j], None, Snapshot)
  /\ UNCHANGED <<posVars, fillVars, buyVars, sellVars, owed>>

\* The quantity passed to onSellExecuted: the executor first cuts it down to
\* what is left of the position.
CallQty(w) ==
  LET row == snap[w][txPos[w]]
      q   == sellQty[txJob[w]]
  IN IF pc[w] = "sellExecutor" /\ row.status = "OPEN" /\ q > row.remaining THEN row.remaining ELSE q

ClosableStored(w) == qtyRemaining[txPos[w]]  \* mutant: qty_remaining is trusted

\* What the sale may close: the current qty_total, read FOR UPDATE, minus the
\* SELL fills, read plainly and so from the snapshot.
Closable(w) ==
  LET p == txPos[w]
  IN IF qtyTotal[p] > snap[w][p].sold THEN qtyTotal[p] - snap[w][p].sold ELSE 0

SellCloseAll(w) == CallQty(w)  \* mutant

SellClose(w) == IF CallQty(w) < Closable(w) THEN CallQty(w) ELSE Closable(w)

RefusalAtFirst(w) ==  \* mutant: the row read FOR UPDATE is not checked
  LET row == snap[w][txPos[w]]
  IN IF row.status # "OPEN" THEN "ANOMALY"
     ELSE IF txJob[w] \in sellHook /\ row.locked THEN "SKIPPED" ELSE "NONE"

\* The checks of onSellExecuted in order: the position read in the
\* transaction, the webhook lock, then the row read FOR UPDATE.
Refusal(w) ==
  LET row == snap[w][txPos[w]]
  IN IF row.status # "OPEN" THEN "ANOMALY"
     ELSE IF row.remaining = 0 THEN "ORPHANED"
     ELSE IF txJob[w] \in sellHook /\ row.locked THEN "SKIPPED"
     ELSE IF ~Open(txPos[w]) THEN "SKIPPED"
     ELSE "NONE"

StatusStillOpen(left) == "OPEN"  \* mutant

StatusFor(left) == IF left = 0 THEN "CLOSED" ELSE "OPEN"

AfterSell(w) ==
  \/ pc[w] = "sellExecutor" /\ Begin(w, "finishExecutor", txJob[w], None, None, NoSnap)
  \/ pc[w] = "sellLimit" /\ Begin(w, "finishLimit", txJob[w], None, None, NoSnap)
  \/ pc[w] = "sellDirect" /\ Finish(w)

StatusLater(w) == sellStatus[txJob[w]]  \* mutant: the caller's last write sets it

\* The transaction that books the sale takes its job off the lists: a pass of
\* the limit monitor that dies before its own last write does not list it again.
SoldStatus(w) == IF CallQty(w) > SellClose(w) THEN "PARTIALLY_FILLED" ELSE "FILLED"

SellRefused(w) ==
  /\ pc[w] \in SellPhase
  /\ txPos[w] # None
  /\ Refusal(w) # "NONE"
  /\ sellStatus' = [sellStatus EXCEPT ![txJob[w]] = Refusal(w)]
  /\ AfterSell(w)
  /\ UNCHANGED <<posVars, fillVars, buyVars, sellQty, sellPos, sellSeen, sellHook, owed>>

\* What was executed beyond the position stays unbooked: the residue that
\* moveToResiduePosition should move is looked for in the emptied position, so
\* it throws and the error is logged.
SellApplied(w) ==
  /\ pc[w] \in SellPhase
  /\ txPos[w] # None
  /\ Refusal(w) = "NONE"
  /\ SellClose(w) > 0
  /\ LET j == txJob[w]
         p == txPos[w]
         left == Closable(w) - SellClose(w)
     IN /\ qtyRemaining' = [qtyRemaining EXCEPT ![p] = left]
        /\ status' = [status EXCEPT ![p] = StatusFor(left)]
        /\ sold' = [sold EXCEPT ![p] = @ + SellClose(w)]
        /\ soldBy' = [soldBy EXCEPT ![j] = @ + SellClose(w)]
        /\ fillOn' = [fillOn EXCEPT ![j] = @ \cup {p}]
        /\ sellStatus' = [sellStatus EXCEPT ![j] = SoldStatus(w)]
  /\ AfterSell(w)
  /\ UNCHANGED <<opener, qtyTotal, isDust, hookLocked, bought, boughtBy, grouped, buyVars,
                 sellQty, sellPos, sellSeen, sellHook, owed>>

\* The transaction throws (nothing left to close, the position is gone, a
\* database error) and is rolled back; the executor carries on.
SellFails(w) ==
  /\ pc[w] = "sellExecutor"
  /\ AfterSell(w)
  /\ UNCHANGED <<posVars, fillVars, buyVars, sellVars, owed>>

SetSellStatus(w, st) ==
  /\ sellStatus' = [sellStatus EXCEPT ![txJob[w]] = st]
  /\ Finish(w)
  /\ UNCHANGED <<posVars, fillVars, buyVars, sellQty, sellPos, sellSeen, sellHook, owed>>

\* The executor's last write: a SKIPPED job that was executed becomes an
\* anomaly, PARTIALLY_FILLED stays, anything else becomes FILLED and loses
\* its reason.
ExecutorFinish(w) ==
  /\ pc[w] = "finishExecutor"
  /\ LET st == sellStatus[txJob[w]]
     IN \/ st = "SKIPPED" /\ SetSellStatus(w, "ANOMALY")
        \/ st = "PARTIALLY_FILLED" /\ SetSellStatus(w, st)
        \/ st \notin {"SKIPPED", "PARTIALLY_FILLED"} /\ SetSellStatus(w, "FILLED")

\* The limit monitor's last write sets the status and keeps the reason.
LimitFinish(w) ==
  /\ pc[w] = "finishLimit"
  /\ SetSellStatus(w, IF sellStatus[txJob[w]] \in {"SKIPPED", "ANOMALY", "ORPHANED"} THEN "ANOMALY" ELSE "FILLED")

(***************************************************************************)
(* Regrouping, dust, the webhook lock                                      *)
(***************************************************************************)
\* groupPositions validates outside its transaction.
GroupValidate(w, p, o) ==
  /\ "GROUP_API" \in Enabled
  /\ pc[w] = "idle"
  /\ p # o /\ Open(p) /\ Open(o)
  /\ Begin(w, "groupValid", None, p, o, NoSnap)
  /\ UNCHANGED <<posVars, fillVars, buyVars, sellVars, owed>>

IsGrouped(p) == \E b \in BuyJob : <<p, b>> \in grouped

\* It reads the positions again and picks the base: one that is a group
\* already if there is any.  The others must have no SELL job under way.
GroupRead(w) ==
  /\ pc[w] = "groupValid"
  /\ LET p == txPos[w]
         o == txOther[w]
     IN /\ Live(p)
        /\ IsGrouped(o) => IsGrouped(p)
        /\ \A j \in SellJob : sellPos[j] = o => sellStatus[j] \notin {"PENDING_LIMIT", "EXECUTING"}
        /\ Begin(w, "group", None, p, o, Snapshot)
  /\ UNCHANGED <<posVars, fillVars, buyVars, sellVars, owed>>

GroupTotal(w) == snap[w][txPos[w]].total + snap[w][txOther[w]].total

GroupRemainingReset(w) == GroupTotal(w)  \* mutant

GroupRemaining(w) == snap[w][txPos[w]].remaining + snap[w][txOther[w]].remaining

\* Fills and grouped jobs move to the base, whose quantities become the sums
\* of what was read; the other position is deleted, with the rows of
\* position_grouped_jobs that name it (ON DELETE CASCADE), and the SELL jobs
\* of it lose their position (ON DELETE SET NULL).
GroupCommit(w) ==
  /\ pc[w] = "group"
  /\ Live(txPos[w])
  /\ LET p == txPos[w]
         o == txOther[w]
         merged == {c \in {p, o} : snap[w][c].status # "DELETED"}
         Move(f) == [f EXCEPT ![p] = f[p] + f[o], ![o] = 0]
     IN /\ status' = [status EXCEPT ![o] = "DELETED"]
        /\ qtyTotal' = [qtyTotal EXCEPT ![p] = GroupTotal(w), ![o] = 0]
        /\ qtyRemaining' = [qtyRemaining EXCEPT ![p] = GroupRemaining(w), ![o] = 0]
        /\ bought' = Move(bought)
        /\ sold' = Move(sold)
        /\ fillOn' = [j \in SellJob |-> IF o \in fillOn[j] THEN (fillOn[j] \ {o}) \cup {p} ELSE fillOn[j]]
        /\ grouped' = {g \in grouped : g[1] # o} \cup {<<p, opener[c]>> : c \in merged}
        /\ isDust' = IF {p, o} \subseteq isDust THEN isDust \ {o} ELSE isDust \ {p, o}
        /\ hookLocked' = hookLocked \ {o}
        /\ sellPos' = [j \in SellJob |-> IF sellPos[j] = o THEN None ELSE sellPos[j]]
  /\ Finish(w)
  /\ UNCHANGED <<opener, boughtBy, soldBy, buyVars, sellStatus, sellQty, sellSeen, sellHook, owed>>

\* convertToDustPosition reads the position, then asks the exchange for a price.
DustBegin(w, p) ==
  /\ "DUST" \in Enabled
  /\ pc[w] = "idle"
  /\ Open(p) /\ p \notin isDust
  /\ qtyRemaining[p] * DustRatio < qtyTotal[p]
  /\ Begin(w, "dust", None, p, None, Snapshot)
  /\ UNCHANGED <<posVars, fillVars, buyVars, sellVars, owed>>

\* What was read as remaining is sold by the position and bought by a new
\* dust position d, opened by a new BUY job b that is never placed.
DustCommit(w, b, d) ==
  /\ pc[w] = "dust"
  /\ Live(txPos[w])
  /\ buyStatus[b] = "NONE" /\ status[d] = "NONE"
  /\ LET p == txPos[w]
         q == snap[w][p].remaining
     IN /\ status' = [status EXCEPT ![p] = "CLOSED", ![d] = "OPEN"]
        /\ opener' = [opener EXCEPT ![d] = b]
        /\ qtyTotal' = [qtyTotal EXCEPT ![d] = q]
        /\ qtyRemaining' = [qtyRemaining EXCEPT ![p] = 0, ![d] = q]
        /\ isDust' = isDust \cup {d}
        /\ bought' = [bought EXCEPT ![d] = q]
        /\ sold' = [sold EXCEPT ![p] = @ + q]
        /\ boughtBy' = [boughtBy EXCEPT ![b] = q]
        /\ buyQty' = [buyQty EXCEPT ![b] = q]
        /\ buyStatus' = [buyStatus EXCEPT ![b] = "PENDING"]
  /\ Finish(w)
  /\ UNCHANGED <<hookLocked, soldBy, fillOn, grouped, sellVars, owed>>

LockSellByWebhook(p) ==
  /\ "HOOK_LOCK" \in Enabled
  /\ Live(p)
  /\ hookLocked' = IF p \in hookLocked THEN hookLocked \ {p} ELSE hookLocked \cup {p}
  /\ UNCHANGED <<status, opener, qtyTotal, qtyRemaining, isDust, fillVars, buyVars, sellVars, owed, txVars>>

\* A call is rolled back and its caller gives up, or the process dies:
\* nothing that was not committed remains.
Abort(w) ==
  /\ pc[w] # "idle"
  /\ Finish(w)
  /\ UNCHANGED <<posVars, fillVars, buyVars, sellVars, owed>>

-----------------------------------------------------------------------------
Call(w) ==
  \/ \E b \in BuyJob : BuyFind(w, b)
  \/ BuyRead(w)
  \/ \E p \in Position : BuyCreate(w, p)
  \/ BuyGroup(w)
  \/ BuyFails(w)
  \/ \E j \in SellJob : LimitList(w, j) \/ SellBegin(w, j)
  \/ \E j \in SellJob, p \in Position : SyncBegin(w, j, p)
  \/ LimitBegin(w)
  \/ SellRefused(w)
  \/ SellApplied(w)
  \/ SellFails(w)
  \/ ExecutorFinish(w)
  \/ LimitFinish(w)
  \/ \E p, o \in Position : GroupValidate(w, p, o)
  \/ GroupRead(w)
  \/ GroupCommit(w)
  \/ \E p \in Position : DustBegin(w, p)
  \/ \E b \in BuyJob, d \in Position : DustCommit(w, b, d)
  \/ Abort(w)

Environment ==
  \/ \E b \in BuyJob, q \in 1..MaxQty : BuyExecuted(b, q)
  \/ \E j \in SellJob, p \in Position, q \in 1..MaxQty : SellExecuted(j, p, q) \/ SellRecorded(j, p, q)
  \/ \E p \in Position : LockSellByWebhook(p)

Next == Environment \/ \E w \in Worker : Call(w)

Spec == Init /\ [][Next]_vars

(***************************************************************************)
(* Properties                                                              *)
(***************************************************************************)
\* A call in progress names the rows its phase works on, and they exist.
CallOK ==
  \A w \in Worker :
    /\ pc[w] \in BuyPhase => txJob[w] \in BuyJob /\ buyStatus[txJob[w]] # "NONE"
    /\ pc[w] \in SellPhase \cup {"listed", "finishExecutor", "finishLimit"} => txJob[w] \in SellJob
    /\ pc[w] \in {"buyGroup", "groupValid", "group", "dust"} =>
         txPos[w] \in Position /\ status[txPos[w]] # "NONE"
    /\ pc[w] \in {"groupValid", "group"} =>
         txOther[w] \in Position \ {txPos[w]} /\ status[txOther[w]] # "NONE"

\* An execution that awaits its report belongs to a BUY job under way.
OwedOK == \A b \in owed \cap BuyJob : buyStatus[b] # "NONE"

\* What keeps ClosedIffEmpty when nothing is merged: purchases are positive,
\* no merge is under way, and a residue about to be converted was not empty.
PositiveQty == \A b \in BuyJob : buyStatus[b] # "NONE" => buyQty[b] > 0
NoMerge ==
  \A w \in Worker : /\ pc[w] \notin {"buyGroup", "groupValid", "group"}
                    /\ pc[w] = "buyFound" => txPos[w] = None
DustRead == \A w \in Worker : pc[w] = "dust" => snap[w][txPos[w]].remaining > 0

\* What keeps the quantities when one call runs at a time: the snapshot of a
\* call is the current state, and the rows of a group are still there.
SnapCurrent ==
  \A w \in Worker : pc[w] \in SellPhase \cup {"group", "dust"} =>
    \A p \in Position : /\ snap[w][p].status = status[p] /\ snap[w][p].total = qtyTotal[p]
                        /\ snap[w][p].remaining = qtyRemaining[p] /\ snap[w][p].sold = sold[p]
GroupLive == \A w \in Worker : pc[w] \in {"groupValid", "group"} => Live(txPos[w]) /\ Live(txOther[w])
FreshRows == \A p \in Position : status[p] = "NONE" => sold[p] = 0

\* A position is opened by a BUY job.
OpenerOK == \A p \in Position : status[p] # "NONE" => opener[p] \in BuyJob

\* qty_total of a position is the sum of its BUY fills: merging and deleting
\* positions never loses or invents a purchase (validatePositionIntegrity
\* checks the same of the rows).
TotalIsBought == \A p \in Position : Live(p) => qtyTotal[p] = bought[p]

\* The fills of a position never sell more than was bought for it: the lock
\* and the recomputed remainder of onSellExecuted are there for this.
NoOversell == \A p \in Position : Live(p) => sold[p] <= bought[p]

\* qty_remaining is qty_total minus the SELL fills, as onSellExecuted and
\* validatePositionIntegrity compute it; every monitor, and the quantity of
\* the next SELL order, trusts the stored column.
RemainingMatchesFills == \A p \in Position : Live(p) => qtyRemaining[p] + sold[p] = bought[p]

\* A position is CLOSED exactly when nothing is left of it, whatever
\* sequence of partial sales, merges and conversions it went through.
ClosedIffEmpty == \A p \in Position : Live(p) => (status[p] = "CLOSED" <=> qtyRemaining[p] = 0)

\* No sale is booked for more than the exchange executed, although a pass of
\* the limit monitor may die between booking an order and its last write and the
\* next pass reports what is still PENDING_LIMIT.  positions-sell-sync and two
\* passes at a time do book a sale again.
SellCountedOnce == \A j \in SellJob : soldBy[j] <= sellQty[j]

\* No purchase is booked for more than the exchange executed: sync-missing
\* recreates no position for a BUY that was merged into another one.
BuyCountedOnce == \A b \in BuyJob : boughtBy[b] <= buyQty[b]

\* "Regra A0": a sale that was executed does not end SKIPPED once its caller
\* is done with it.
ExecutedNeverSkipped ==
  \A j \in SellJob : sellStatus[j] = "SKIPPED" => \E w \in Worker : txJob[w] = j

\* A sale recorded as an anomaly stays one: "registramos como anomalia para
\* auditoria".
AnomalyKept ==
  [][\A j \in SellJob : sellStatus[j] = "ANOMALY" => sellStatus'[j] = "ANOMALY"]_vars

\* CLOSED is final: no later merge, sale or conversion reopens a position.
ClosedIsFinal ==
  [][\A p \in Position : status[p] = "CLOSED" => status'[p] \in {"CLOSED", "DELETED"}]_vars

\* What the account holds is what remains in the positions; the job of a dust
\* position is no purchase.
Promise ==
  INSTANCE Holdings WITH
    Buy        <- BuyJob,
    Sell       <- SellJob,
    held       <- SumFunction(qtyRemaining),
    bookedBuy  <- [b \in BuyJob |-> IF buyStatus[b] = "PENDING" THEN 0 ELSE boughtBy[b]],
    bookedSell <- soldBy

\* Every step of the ledger books one execution, once, or is invisible: no
\* merge, conversion, retry or failed transaction changes what the account
\* holds (onBuyExecuted, onSellExecuted, groupPositions, convertToDustPosition).
ImplementsHoldings == Promise!HSpec

(***************************************************************************)
(* Every BUY job set FILLED is booked in the end, even when booking it     *)
(* failed: the cron job that looks for missing positions runs again and    *)
(* again (fairness of BuyFind), calls return (fairness of a busy worker),  *)
(* and the database does not reject the same job every time (strong        *)
(* fairness of BuyCreate).                                                 *)
(***************************************************************************)
CreateFor(b) == \E w \in Worker, p \in Position : txJob[w] = b /\ BuyCreate(w, p)

FairSpec ==
  /\ Spec
  /\ \A w \in Worker : WF_vars(pc[w] # "idle" /\ Call(w))
  /\ \A b \in BuyJob : SF_vars(\E w \in Worker : BuyFind(w, b)) /\ SF_vars(CreateFor(b))

FilledIsBooked == \A b \in BuyJob : (buyStatus[b] = "FILLED") ~> (boughtBy[b] > 0)
=============================================================================
