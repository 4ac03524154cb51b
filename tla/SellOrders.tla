----------------------------- MODULE SellOrders -----------------------------
(***************************************************************************)
(* The life of the SELL orders of one position, from the trade_job to the  *)
(* order on the exchange and back: who may create a job (dashboard, stop   *)
(* and take-profit monitor), the execution queue, the executor with its    *)
(* sell lock, the limit-orders monitor and the cancel endpoint.            *)
(*                                                                         *)
(* Each action is one database statement, one transaction or one request   *)
(* to the exchange, with the reads that lead to it; between two of them    *)
(* every other process may run.  The monitor's request to cancel an order  *)
(* is one action with the write after it: a pass that dies between them is *)
(* repeated by the next.                                                   *)
(*                                                                         *)
(* Abstracted: prices, fees, precision filters (an order may be refused    *)
(* for any of them), BUY orders, the simulation queue.  The position is    *)
(* only its qty_remaining here, booked in one step; PositionLedger says    *)
(* how.  The 1% tolerance on quantities is zero.                           *)
(***************************************************************************)
EXTENDS Naturals, FiniteSets, Functions

CONSTANTS
  Job,      \* SELL trade_jobs that may come to exist
  Order,    \* orders that may come to exist on the exchange
  Caller,   \* API requests and monitor passes that may run at a time
  Trigger,  \* SL/TP flags of the position: "SL", "TP", "TSG"
  Qty,      \* quantity of the position at the start
  Extra,    \* what else the account holds of the same asset
  Enabled,  \* features and failures a run allows
  None

Feature ==
  { "CANCEL_API",      \* DELETE /limit-orders/:id
    "EXPIRY",          \* jobs with limit_order_expires_at
    "HAND_SALE",       \* sales made on the exchange and recorded afterwards
    "PARTIAL",         \* the exchange fills an order in parts
    "REFUSAL",         \* the exchange refuses orders
    "EXCHANGE_CANCEL", \* the exchange cancels an order
    "CANCEL_FAILS",    \* a request to cancel fails although the order is open
    "TIMEOUT",         \* the answer to a new order is lost
    "NO_STATUS",       \* the answer to a new order may tell nothing but its number
    "CALL_FAILS",      \* a request or a pass ends with an error
    "CRASH",           \* the executor or a caller dies
    "BOOK_FAILS",      \* onSellExecuted fails
    "SLOW_QUEUE",      \* jobs wait in the queue longer than a lock lives
    "STALE_LIST",      \* a limit-orders pass lists jobs the executor has still to place
    "OVERLAP" }        \* passes of the limit-orders monitor overlap

ASSUME SellOrdersAssumption ==
  /\ Qty \in Nat \ {0}
  /\ Extra \in Nat
  /\ IsFiniteSet(Order)
  /\ Trigger \subseteq {"SL", "TP", "TSG"}
  /\ Enabled \subseteq Feature
  /\ None \notin Job \cup Order \cup Trigger

VARIABLES
  qty,      \* trade_positions.qty_remaining; the position is OPEN iff > 0
  flags,    \* the sl_triggered, tp_triggered, tsg_triggered that are set
  lock,     \* sell_lock_job_id, None when free or expired
  job,      \* trade_jobs and their latest execution
  young,    \* jobs created less than a minute ago
  queue,    \* the BullMQ queue trade-execution-real
  stalled,  \* jobs BullMQ has already delivered a second time
  order,    \* the orders on the exchange
  byHand,   \* quantity sold by hand
  ex,       \* what the executor is doing
  call      \* what each caller is doing

posVars == <<qty, flags, lock>>
vars    == <<posVars, job, young, queue, stalled, order, byHand, ex, call>>

ActiveStatus == {"PENDING", "PENDING_LIMIT", "EXECUTING", "PARTIALLY_FILLED"}
FinalStatusButFilled == {"PARTIALLY_FILLED", "SKIPPED", "FAILED", "CANCELED"}  \* mutant
FinalStatus  == {"FILLED", "PARTIALLY_FILLED", "SKIPPED", "FAILED", "CANCELED"}
JobStatus    == {"NONE"} \cup ActiveStatus \cup FinalStatus
OrderType    == {"MARKET", "LIMIT"}

JobRow   == [status: JobStatus, type: OrderType, qty: Nat, order: Order \cup {None}, booked: Nat]
NoJob    == [status |-> "NONE", type |-> "LIMIT", qty |-> 0, order |-> None, booked |-> 0]
OrderRow == [job: Job \cup {None}, qty: Nat, filled: Nat, live: BOOLEAN]
NoOrder  == [job |-> None, qty |-> 0, filled |-> 0, live |-> FALSE]

ExPhase == {"idle", "taken", "marked", "valid", "locked", "ordered", "recorded", "booked"}
ExState == [phase: ExPhase, job: Job \cup {None}, order: Order \cup {None}, got: Nat]
ExIdle  == [phase |-> "idle", job |-> None, order |-> None, got |-> 0]

CallPhase == {"idle", "create", "enqueue", "flag", "confirm", "limit", "limitFilled",
              "cancel", "cancelWrite"}
CallState == [phase: CallPhase, job: Job \cup {None}, order: Order \cup {None},
              qty: Nat, type: OrderType, trigger: Trigger \cup {None}]
NoCall == [phase |-> "idle", job |-> None, order |-> None, qty |-> 0, type |-> "LIMIT",
           trigger |-> None]

TypeOK ==
  /\ qty \in 0..Qty
  /\ flags \subseteq Trigger
  /\ lock \in Job \cup {None}
  /\ job \in [Job -> JobRow]
  /\ young \subseteq Job
  /\ queue \subseteq Job
  /\ stalled \subseteq Job
  /\ order \in [Order -> OrderRow]
  /\ byHand \in 0..Qty
  /\ ex \in ExState
  /\ call \in [Caller -> CallState]

Init ==
  /\ qty = Qty
  /\ flags = {}
  /\ lock = None
  /\ job = [j \in Job |-> NoJob]
  /\ young = {}
  /\ queue = {}
  /\ stalled = {}
  /\ order = [o \in Order |-> NoOrder]
  /\ byHand = 0
  /\ ex = ExIdle
  /\ call = [c \in Caller |-> NoCall]

SetStatus(j, st) == job' = [job EXCEPT ![j].status = st]
Released(j) == IF lock = j THEN None ELSE lock
ActiveJob   == \E j \in Job : job[j].status \in ActiveStatus
AllButTsg(fs) == fs \cap {"TSG"}  \* revertTriggeredFlags and onSellExecuted leave it set

\* What the account can still sell: open orders reserve their quantity.
Free ==
  LET used == SumFunction([o \in Order |-> IF order[o].live THEN order[o].qty ELSE order[o].filled])
  IN IF Qty + Extra > used + byHand THEN Qty + Extra - used - byHand ELSE 0

Smaller(a, b) == IF a < b THEN a ELSE b

SoldAll(q) == q  \* mutant: more than the position holds

\* What an execution of q takes from the position.
Sold(q) == Smaller(q, qty)

\* onSellExecuted, in one step.  A position that is closed loses its flags.
Book(j, q) ==
  /\ qty' = qty - Sold(q)
  /\ flags' = IF 0 < qty /\ qty <= q THEN AllButTsg(flags) ELSE flags
  /\ job' = [job EXCEPT ![j].booked = @ + Sold(q),
                        ![j].status = IF 0 < qty /\ qty < q THEN "PARTIALLY_FILLED" ELSE "FILLED"]

(***************************************************************************)
(* Creating a job                                                          *)
(***************************************************************************)
Idle(c) == call[c].phase = "idle"
Step(c, phase) == call' = [call EXCEPT ![c].phase = phase]
Return(c) == call' = [call EXCEPT ![c] = NoCall]

JobLeft == \E j \in Job : job[j].status = "NONE"  \* bound: jobs that may be created

\* Closing a position from the dashboard: createJob looks for an active SELL
\* job of the position first.
CloseRequest(c, q, ty) ==
  /\ Idle(c)
  /\ JobLeft
  /\ q <= qty
  /\ ~ActiveJob
  /\ call' = [call EXCEPT ![c] = [NoCall EXCEPT !.phase = "create", !.qty = q, !.type = ty]]
  /\ UNCHANGED <<posVars, job, young, queue, stalled, order, byHand, ex>>

\* The price reached trigger t: no SELL job is active or recent.
TriggerCheck(c, t) ==
  /\ Idle(c)
  /\ JobLeft
  /\ qty > 0
  /\ t \notin flags
  /\ ~ActiveJob /\ young = {}
  /\ call' = [call EXCEPT ![c] = [NoCall EXCEPT !.phase = "flag", !.qty = qty, !.trigger = t]]
  /\ UNCHANGED <<posVars, job, young, queue, stalled, order, byHand, ex>>

\* The flag is set by a conditional update, which one pass wins.
TriggerFlag(c) ==
  /\ call[c].phase = "flag"
  /\ IF qty > 0 /\ call[c].trigger \notin flags
     THEN flags' = flags \cup {call[c].trigger} /\ Step(c, "confirm")
     ELSE Return(c) /\ UNCHANGED flags
  /\ UNCHANGED <<qty, lock, job, young, queue, stalled, order, byHand, ex>>

\* Only the trailing stop looks at its flag again: it gives it up when no job
\* is active and the last one failed, or the price has moved away.
TsgReset ==
  /\ "TSG" \in flags /\ "TP" \notin flags
  /\ qty > 0
  /\ ~ActiveJob
  /\ flags' = flags \ {"TSG"}
  /\ UNCHANGED <<qty, lock, job, young, queue, stalled, order, byHand, ex, call>>

\* The second look for jobs, which is also the look of createJob.
TriggerConfirm(c) ==
  /\ call[c].phase = "confirm"
  /\ IF ActiveJob \/ young # {}
     THEN flags' = flags \ {call[c].trigger} /\ Return(c)
     ELSE Step(c, "create") /\ UNCHANGED flags
  /\ UNCHANGED <<qty, lock, job, young, queue, stalled, order, byHand, ex>>

CreateJob(c, j) ==
  /\ call[c].phase = "create"
  /\ job[j].status = "NONE"
  /\ job' = [job EXCEPT ![j].status = IF call[c].type = "LIMIT" THEN "PENDING_LIMIT" ELSE "PENDING",
                        ![j].type = call[c].type,
                        ![j].qty = call[c].qty]
  /\ young' = young \cup {j}
  /\ call' = [call EXCEPT ![c].phase = "enqueue", ![c].job = j]
  /\ UNCHANGED <<posVars, queue, stalled, order, byHand, ex>>

Enqueue(c) ==
  /\ call[c].phase = "enqueue"
  /\ queue' = queue \cup {call[c].job}
  /\ Return(c)
  /\ UNCHANGED <<posVars, job, young, stalled, order, byHand, ex>>

\* An error: a request ends, a trigger that was creating a job gives its flag
\* back.
CallFails(c) ==
  /\ "CALL_FAILS" \in Enabled
  /\ ~Idle(c)
  /\ flags' = IF call[c].phase \in {"create", "enqueue"} THEN flags \ {call[c].trigger} ELSE flags
  /\ Return(c)
  /\ UNCHANGED <<qty, lock, job, young, queue, stalled, order, byHand, ex>>

CallDies(c) ==
  /\ "CRASH" \in Enabled
  /\ ~Idle(c)
  /\ Return(c)
  /\ UNCHANGED <<posVars, job, young, queue, stalled, order, byHand, ex>>

\* A minute passes; a trigger pass is shorter.
JobAges(j) ==
  /\ j \in young
  /\ \A c \in Caller : call[c].phase \notin {"flag", "confirm"}
  /\ young' = young \ {j}
  /\ UNCHANGED <<posVars, job, queue, stalled, order, byHand, ex, call>>

(***************************************************************************)
(* The executor: one process, one job at a time                            *)
(***************************************************************************)
ExStep(phase) == ex' = [ex EXCEPT !.phase = phase]

\* The job is dropped when it has a final status already.
Take(j) ==
  /\ ex.phase = "idle"
  /\ j \in queue
  /\ queue' = queue \ {j}
  /\ IF job[j].status \in FinalStatus
     THEN UNCHANGED ex
     ELSE ex' = [ExIdle EXCEPT !.phase = "taken", !.job = j]
  /\ UNCHANGED <<posVars, job, young, stalled, order, byHand, call>>

\* EXECUTING is written whatever the status is by now.
Mark ==
  /\ ex.phase = "taken"
  /\ SetStatus(ex.job, "EXECUTING")
  /\ ExStep("marked")
  /\ UNCHANGED <<posVars, young, queue, stalled, order, byHand, call>>

End(st, lk, fs) ==
  /\ SetStatus(ex.job, st)
  /\ lock' = lk
  /\ flags' = fs
  /\ ex' = ExIdle
  /\ UNCHANGED <<qty, young, queue, stalled, order, byHand, call>>

Unsellable(j) == qty = 0 \/ job[j].qty > qty \/ Free = 0

\* The open order o is what the LIMIT job j is to place: the quantity is the
\* same and, for the job's own order, the price.
Similar(j, o) ==
  order[o].live /\ job[j].type = "LIMIT" /\ order[o].qty = Smaller(job[j].qty, Free)

\* The checks before an order: the position is open and holds the quantity,
\* the account has some of it, the filters and the minimum profit allow it, the
\* first of the open orders the exchange lists is no duplicate.  Not every
\* refusal gives the flags and a lock kept from an earlier delivery back.
CheckFails ==
  /\ ex.phase = "marked"
  /\ LET j == ex.job
     IN \/ qty = 0 /\ End("SKIPPED", lock, AllButTsg(flags))
        \/ qty > 0 /\ job[j].qty > qty /\ End("SKIPPED", lock, flags)
        \/ qty > 0 /\ Free = 0 /\ End("SKIPPED", Released(j), flags)
        \/ ~Unsellable(j) /\ "REFUSAL" \in Enabled
           /\ \E st \in {"SKIPPED", "FAILED"}, lk \in {lock, Released(j)},
                 fs \in {flags, AllButTsg(flags)} : End(st, lk, fs)
        \/ ~Unsellable(j) /\ (\E o \in Order : Similar(j, o)) /\ End("FAILED", lock, flags)

\* No open order is listed, or one that is not the same, or the list cannot be
\* had: the check is passed over then.
CheckPasses ==
  /\ ex.phase = "marked"
  /\ ~Unsellable(ex.job)
  /\ \/ \A o \in Order : ~order[o].live
     \/ \E o \in Order : order[o].live /\ ~(Similar(ex.job, o) /\ order[o].job = ex.job)
     \/ "CALL_FAILS" \in Enabled
  /\ job' = [job EXCEPT ![ex.job].qty = Smaller(@, Free)]
  /\ ExStep("valid")
  /\ UNCHANGED <<posVars, young, queue, stalled, order, byHand, call>>

LockIgnored(j) == qty > 0  \* mutant

\* acquireSellLock: free, expired or held by the same job.
LockFree(j) == qty > 0 /\ lock \in {None, j}

AcquireLock ==
  /\ ex.phase = "valid"
  /\ LockFree(ex.job)
  /\ lock' = ex.job
  /\ ExStep("locked")
  /\ UNCHANGED <<qty, flags, job, young, queue, stalled, order, byHand, call>>

LockRefused ==
  /\ ex.phase = "valid"
  /\ ~LockFree(ex.job)
  /\ End("SKIPPED", lock, flags)

\* The exchange accepts the order.  A MARKET order is done at once, a LIMIT
\* order may be.
Placed(o, amount, f) ==
  /\ order[o].job = None
  /\ f \in {0, amount} \/ "PARTIAL" \in Enabled
  /\ job[ex.job].type = "MARKET" => f > 0
  /\ order' = [order EXCEPT ![o] = [job |-> ex.job, qty |-> amount, filled |-> f,
                                    live |-> job[ex.job].type = "LIMIT" /\ f < amount]]

\* What the executor reads in an answer about an order that has filled f.
Told(f) == {f} \cup {g \in {0} : "NO_STATUS" \in Enabled}

\* The amount is cut to the free balance when the exchange refuses it.
Submit(o) ==
  /\ ex.phase = "locked"
  /\ Free > 0
  /\ LET amount == Smaller(job[ex.job].qty, Free)
     IN \E f \in 0..amount :
          /\ Placed(o, amount, f)
          /\ \E got \in Told(f) :
               ex' = [ex EXCEPT !.phase = "ordered", !.order = o, !.got = got]
  /\ UNCHANGED <<posVars, job, young, queue, stalled, byHand, call>>

\* The order reaches the exchange, its answer does not reach the executor:
\* the job is FAILED and not tried again.
SubmitTimesOut(o) ==
  /\ "TIMEOUT" \in Enabled
  /\ ex.phase = "locked"
  /\ Free > 0
  /\ LET amount == Smaller(job[ex.job].qty, Free)
     IN \E f \in 0..amount : Placed(o, amount, f)
  /\ SetStatus(ex.job, "FAILED")
  /\ lock' = Released(ex.job)
  /\ ex' = ExIdle
  /\ UNCHANGED <<qty, flags, young, queue, stalled, byHand, call>>

\* For lack of balance the handler returns at once, with the lock and the
\* flags as they are; for any other reason it releases the lock and, when
\* trying again is pointless, the flags.
SubmitRefused ==
  /\ ex.phase = "locked"
  /\ \/ /\ Free = 0 \/ "REFUSAL" \in Enabled
        /\ End("SKIPPED", lock, flags)
     \/ /\ "REFUSAL" \in Enabled
        /\ \E fs \in {flags, AllButTsg(flags)} : End("FAILED", Released(ex.job), fs)

\* The execution row: from now on the monitor can find the order.
Record ==
  /\ ex.phase = "ordered"
  /\ job' = [job EXCEPT ![ex.job].order = ex.order]
  /\ ExStep("recorded")
  /\ UNCHANGED <<posVars, young, queue, stalled, order, byHand, call>>

RestingFilled    == "FILLED"     \* mutant: nobody looks at the order again
RestingExecuting == "EXECUTING"  \* mutant: the status is left as it is

\* The status of a LIMIT job whose order waits on the exchange.
Resting == "PENDING_LIMIT"

\* A LIMIT order of which nothing is filled and which the answer calls new,
\* open or pending.
Rest ==
  /\ ex.phase = "recorded"
  /\ ex.got = 0
  /\ job[ex.job].type = "LIMIT"
  /\ End(Resting, lock, flags)

\* onSellExecuted, with no more than an open position holds; an error of it
\* is logged and otherwise ignored.
BookExecution ==
  /\ ex.phase = "recorded"
  /\ ex.got > 0
  /\ \/ Book(ex.job, IF qty > 0 THEN Smaller(ex.got, qty) ELSE ex.got)
     \/ "BOOK_FAILS" \in Enabled /\ UNCHANGED <<qty, flags, job>>
  /\ ExStep("booked")
  /\ UNCHANGED <<lock, young, queue, stalled, order, byHand, call>>

PartResting == "PENDING_LIMIT"  \* mutant: the monitor waits for the rest

\* The status of a job whose order was filled in part when it was placed.
Part == "PARTIALLY_FILLED"

\* The answer tells neither a status nor a quantity: there is nothing to book,
\* and the order counts as done, open or not.
Untold == "NO_STATUS" \in Enabled /\ ex.phase = "recorded" /\ ex.got = 0

PartFilled == 0 < ex.got /\ ex.got < order[ex.order].qty

Complete ==
  /\ ex.phase = "booked" \/ Untold
  /\ End(IF job[ex.job].status = "PARTIALLY_FILLED" \/ PartFilled THEN Part ELSE "FILLED",
         Released(ex.job), flags)

\* The executor dies: BullMQ finds the job stalled and delivers it once more.
ExecutorCrash ==
  /\ "CRASH" \in Enabled
  /\ ex.phase # "idle"
  /\ ex' = ExIdle
  /\ queue' = IF ex.job \in stalled THEN queue ELSE queue \cup {ex.job}
  /\ stalled' = stalled \cup {ex.job}
  /\ UNCHANGED <<posVars, job, young, order, byHand, call>>

(***************************************************************************)
(* The limit-orders monitor                                                *)
(***************************************************************************)
FilledUp(o) == order[o].filled = order[o].qty

NotCancelled(o) == order  \* mutant: the job is CANCELED, its order is not

\* The request to cancel an order.
Cancelled(o) == [order EXCEPT ![o].live = FALSE]

ClosedIsCanceled(o) == "CANCELED"  \* mutant: without a look at the exchange

\* The status of a job whose order is found done and its position closed.
ClosedStatus(o) == IF FilledUp(o) THEN "FILLED" ELSE "CANCELED"

Unlisted == "PENDING"  \* mutant: the list is of jobs that never rest

\* The status of the jobs a pass lists.
Listed == "PENDING_LIMIT"

\* The jobs of a pass are listed once, with their latest execution.
LimitRead(c, j) ==
  /\ Idle(c)
  /\ "STALE_LIST" \in Enabled \/ job[j].order # None
  /\ "OVERLAP" \in Enabled \/
       \A d \in Caller : call[d].phase \in {"limit", "limitFilled"} => call[d].job # j
  /\ job[j].status = Listed
  /\ call' = [call EXCEPT ![c] = [NoCall EXCEPT !.phase = "limit", !.job = j, !.order = job[j].order]]
  /\ UNCHANGED <<posVars, job, young, queue, stalled, order, byHand, ex>>

LimitEnds(c, st, lk) ==
  /\ SetStatus(call[c].job, st)
  /\ lock' = lk
  /\ Return(c)
  /\ UNCHANGED <<qty, flags, young, queue, stalled, byHand, ex>>

LimitExpired(c) ==
  /\ "EXPIRY" \in Enabled
  /\ call[c].phase = "limit"
  /\ LimitEnds(c, "CANCELED", lock)
  /\ UNCHANGED order

\* The position was closed meanwhile: an order that is still open is
\* cancelled first, but a request that fails does not stop the job from being
\* CANCELED.
LimitClosed(c) ==
  /\ call[c].phase = "limit"
  /\ qty = 0
  /\ LET o  == call[c].order
         lk == Released(call[c].job)
     IN \/ /\ o = None
           /\ LimitEnds(c, "CANCELED", lk)
           /\ UNCHANGED order
        \/ /\ o # None /\ ~order[o].live
           /\ LimitEnds(c, ClosedStatus(o), lk)
           /\ UNCHANGED order
        \/ /\ o # None /\ order[o].live
           /\ LimitEnds(c, "CANCELED", lk)
           /\ \/ order' = Cancelled(o)
              \/ "CANCEL_FAILS" \in Enabled /\ UNCHANGED order

LimitFilled(c) ==
  /\ call[c].phase = "limit"
  /\ qty > 0
  /\ call[c].order # None
  /\ FilledUp(call[c].order)
  /\ Book(call[c].job, order[call[c].order].filled)
  /\ Step(c, "limitFilled")
  /\ UNCHANGED <<lock, young, queue, stalled, order, byHand, ex>>

LimitCompletes(c) ==
  /\ call[c].phase = "limitFilled"
  /\ LimitEnds(c, "FILLED", lock)
  /\ UNCHANGED order

\* An order the exchange has cancelled is waited for as well: its status is
\* compared with names in capitals, and the exchange library writes none.
LimitWaits(c) ==
  /\ call[c].phase = "limit"
  /\ qty > 0
  /\ call[c].order # None => ~FilledUp(call[c].order)
  /\ Return(c)
  /\ UNCHANGED <<posVars, job, young, queue, stalled, order, byHand, ex>>

(***************************************************************************)
(* DELETE /limit-orders/:id                                                *)
(***************************************************************************)
CancelRequest(c, j) ==
  /\ "CANCEL_API" \in Enabled
  /\ Idle(c)
  /\ job[j].type = "LIMIT" /\ job[j].status \in {"PENDING_LIMIT", "EXECUTING"}
  /\ call' = [call EXCEPT ![c] = [NoCall EXCEPT !.phase = "cancel", !.job = j, !.order = job[j].order]]
  /\ UNCHANGED <<posVars, job, young, queue, stalled, order, byHand, ex>>

\* An order the exchange no longer has is as good as cancelled.
CancelOrder(c) ==
  /\ call[c].phase = "cancel"
  /\ order' = IF call[c].order = None THEN order ELSE Cancelled(call[c].order)
  /\ Step(c, "cancelWrite")
  /\ UNCHANGED <<posVars, job, young, queue, stalled, byHand, ex>>

CancelWrite(c) ==
  /\ call[c].phase = "cancelWrite"
  /\ LimitEnds(c, "CANCELED", lock)
  /\ UNCHANGED order

(***************************************************************************)
(* The exchange and time                                                   *)
(***************************************************************************)
Fill(o) ==
  /\ order[o].live
  /\ \E f \in order[o].filled + 1 .. order[o].qty :
       /\ f = order[o].qty \/ "PARTIAL" \in Enabled
       /\ order' = [order EXCEPT ![o].filled = f, ![o].live = f < order[o].qty]
  /\ UNCHANGED <<posVars, job, young, queue, stalled, byHand, ex, call>>

ExchangeCancels(o) ==
  /\ "EXCHANGE_CANCEL" \in Enabled
  /\ order[o].live
  /\ order' = [order EXCEPT ![o].live = FALSE]
  /\ UNCHANGED <<posVars, job, young, queue, stalled, byHand, ex, call>>

\* POST /positions: the rest of the position was sold on the exchange by hand.
HandSale ==
  /\ "HAND_SALE" \in Enabled
  /\ 0 < qty /\ qty <= Free
  /\ byHand' = byHand + qty
  /\ qty' = 0
  /\ flags' = AllButTsg(flags)
  /\ UNCHANGED <<lock, job, young, queue, stalled, order, ex, call>>

\* 5 minutes for a MARKET, 20 for a LIMIT order: longer than the executor
\* works on a job and, normally, than a job waits for it.
LockExpires ==
  /\ lock # None
  /\ ex.phase = "idle"
  /\ \/ "SLOW_QUEUE" \in Enabled
     \/ queue = {} /\ \A c \in Caller : call[c].phase \notin {"create", "enqueue"}
  /\ lock' = None
  /\ UNCHANGED <<qty, flags, job, young, queue, stalled, order, byHand, ex, call>>

-----------------------------------------------------------------------------
Executor ==
  \/ \E j \in Job : Take(j)
  \/ Mark
  \/ CheckFails
  \/ CheckPasses
  \/ AcquireLock
  \/ LockRefused
  \/ \E o \in Order : Submit(o) \/ SubmitTimesOut(o)
  \/ SubmitRefused
  \/ Record
  \/ Rest
  \/ BookExecution
  \/ Complete

Continue(c) ==
  \/ TriggerFlag(c)
  \/ TriggerConfirm(c)
  \/ \E j \in Job : CreateJob(c, j)
  \/ Enqueue(c)
  \/ LimitExpired(c)
  \/ LimitClosed(c)
  \/ LimitFilled(c)
  \/ LimitCompletes(c)
  \/ LimitWaits(c)
  \/ CancelOrder(c)
  \/ CancelWrite(c)

Next ==
  \/ Executor
  \/ ExecutorCrash
  \/ \E c \in Caller :
       \/ \E q \in 1..Qty, ty \in OrderType : CloseRequest(c, q, ty)
       \/ \E t \in Trigger : TriggerCheck(c, t)
       \/ \E j \in Job : LimitRead(c, j) \/ CancelRequest(c, j)
       \/ Continue(c)
       \/ CallFails(c)
       \/ CallDies(c)
  \/ TsgReset
  \/ \E j \in Job : JobAges(j)
  \/ \E o \in Order : Fill(o) \/ ExchangeCancels(o)
  \/ HandSale
  \/ LockExpires

Spec == Init /\ [][Next]_vars

(***************************************************************************)
(* Properties                                                              *)
(***************************************************************************)
OrdersOf(j) == {o \in Order : order[o].job = j}

\* The sell lock "garante no máximo 1 SELL ativo por posição": at most one
\* order of the position is open on the exchange.  It holds while every answer
\* to a new order tells its status and nothing of it is filled in part; with
\* "NO_STATUS" or "PARTIAL" the lock goes before the order
\* (find_two_live_orders.cfg).
OneLiveOrder == \A o, p \in Order : order[o].live /\ order[p].live => o = p

\* The orders of a position never sell more than it holds, whoever created
\* them and however they interleave.  It needs what OneLiveOrder needs.
NotOversold == SumFunction([o \in Order |-> order[o].filled]) + byHand <= Qty

\* An open order belongs to a job that somebody still looks at, or whose
\* execution row is about to be written.  It needs what OneLiveOrder needs: an
\* order of which nothing is told is left on the exchange with its job FILLED.
LiveIsWatched ==
  \A o \in Order : order[o].live => job[order[o].job].status \in {"PENDING_LIMIT", "EXECUTING"}

\* A job is never sent to the exchange twice.
OneOrderPerJob == \A j \in Job : \A o, p \in OrdersOf(j) : o = p

ExecutedBy(j) == SumFunction([o \in Order |-> IF order[o].job = j THEN order[o].filled ELSE 0])

\* What is booked on the position was executed by an order of the job.
BookedIsExecuted == \A j \in Job : job[j].booked <= ExecutedBy(j)

\* The executor is done with the CANCELED job j.
Canceled(j) == job[j].status = "CANCELED" /\ ex.job # j

\* A job is CANCELED only when its order is off the exchange: expiry, the
\* cancel endpoint and the monitor's look at closed positions see to it.
CanceledIsOff == \A o \in Order : order[o].live => ~Canceled(order[o].job)

\* A CANCELED job sold nothing: what the exchange executed meanwhile is found
\* before the job is written off.
CanceledIsUnsold == \A o \in Order : order[o].filled > 0 => ~Canceled(order[o].job)

\* The executor, the monitor and the cancel endpoint give the sell lock back
\* with the job: "Garantir liberação de lock em TODOS os cenários de saída".
LockIsUsed == lock # None => job[lock].status \in ActiveStatus

\* A job that was FILLED is never executed again, whenever it is delivered
\* again and whoever has written its status meanwhile.
FilledStaysExecuted ==
  [][\A j \in Job : job[j].status = "FILLED" => job'[j].status # "EXECUTING"]_vars

(***************************************************************************)
(* Fairness: processes that have started go on, the limit monitor runs     *)
(* again and again and does not fail on the same job for ever, and an      *)
(* exchange answers.                                                       *)
(***************************************************************************)
FairSpec ==
  /\ Spec
  /\ WF_vars(Executor)
  /\ \A c \in Caller : WF_vars(Continue(c))
  /\ \A j \in Job : /\ SF_vars(\E c \in Caller : LimitRead(c, j))
                    /\ SF_vars(\E c \in Caller : call[c].job = j /\ (LimitFilled(c) \/ LimitClosed(c)))
                    /\ SF_vars(\E c \in Caller : call[c].job = j /\ LimitCompletes(c))

Waiting(j) == job[j].status = "PENDING_LIMIT" /\ job[j].order # None

\* An order that was filled while it waited is found by the monitor and its
\* job FILLED in the end, whatever the other jobs of the position do.
FilledIsSettled ==
  \A j \in Job : (Waiting(j) /\ FilledUp(job[j].order)) ~> (job[j].status = "FILLED")

\* The executor takes every job it started to a status that is not EXECUTING.
ExecutingEnds == \A j \in Job : (job[j].status = "EXECUTING") ~> (job[j].status # "EXECUTING")

\* A stop or take-profit that fired sells the position or fires again: "o monitor
\* principal irá detectar e criar o job no próximo ciclo".
TriggerFiresAgain == \A t \in Trigger : (t \in flags /\ qty > 0) ~> (t \notin flags \/ qty = 0)
=============================================================================
