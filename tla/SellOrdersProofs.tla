-------------------------- MODULE SellOrdersProofs --------------------------
(***************************************************************************)
(* Theorems of SellOrders for every number of jobs, orders, callers and    *)
(* every quantity:                                                         *)
(*                                                                         *)
(*  - TypeCorrect and FilledStays: whatever fails, dies or is repeated;    *)
(*  - BookedWasExecuted: unless passes of the limit-orders monitor overlap.*)
(*                                                                         *)
(* Each action has a lemma of what it reads and writes; the proof that     *)
(* steps keep a part of an invariant has one case per action, which cites  *)
(* that lemma and expands nothing else of the action.                      *)
(***************************************************************************)
EXTENDS SellOrders, SumLemmas

(***************************************************************************)
(* Types, and what the phases of the executor and of a call name           *)
(***************************************************************************)
Created(j) == j \in Job /\ job[j].status # "NONE"

OrderPhase == {"ordered", "recorded", "booked"}
JobPhase   == {"enqueue", "limit", "limitFilled", "cancel", "cancelWrite"}
LimitPhase == {"limit", "limitFilled"}

ExNames ==
  /\ ex.phase = "idle" => ex = ExIdle
  /\ ex.phase # "idle" => Created(ex.job)
  /\ ex.phase \in OrderPhase => ex.order \in Order

CallNames ==
  \A c \in Caller :
    /\ call[c].phase \in JobPhase => Created(call[c].job)
    /\ call[c].phase = "limitFilled" => call[c].order \in Order
    /\ call[c].phase \in {"flag", "confirm"} => call[c].trigger \in Trigger

RowNames ==
  /\ \A j \in queue : Created(j)
  /\ \A j \in Job : job[j].status = "NONE" => job[j].order = None /\ job[j].booked = 0

TypeInv ==
  /\ TypeOK
  /\ qty + byHand <= Qty
  /\ ExNames
  /\ CallNames
  /\ RowNames

(***************************************************************************)
(* A job is delivered to the executor once at a time                       *)
(***************************************************************************)
\* A call has still to put the job j in the queue.
ToQueue(j) == \E c \in Caller : call[c].phase = "enqueue" /\ call[c].job = j

\* The executor has j, or will get it.
Undelivered(j) == j \in queue \/ ex.job = j \/ ToQueue(j)

OneDelivery ==
  /\ ex.job \notin queue
  /\ \A c \in Caller : call[c].phase = "enqueue" =>
       /\ call[c].job \notin queue
       /\ call[c].job # ex.job
       /\ \A d \in Caller : call[d].phase = "enqueue" /\ call[d].job = call[c].job => d = c

\* A job that rests with an order is done with the executor: the passes of the
\* limit-orders monitor are over jobs the executor will not touch.
RestsDelivered ==
  /\ \A j \in Job : job[j].status = "PENDING_LIMIT" /\ job[j].order # None => ~Undelivered(j)
  /\ \A c \in Caller : call[c].phase \in LimitPhase /\ call[c].order # None
       => ~Undelivered(call[c].job)

ExStatus ==
  /\ ex.phase = "taken" => job[ex.job].status # "FILLED"
  /\ ex.phase \notin {"idle", "taken"} => job[ex.job].status # "PENDING_LIMIT"

\* A step that makes no FILLED job EXECUTING.
FilledKept == \A j \in Job : job[j].status = "FILLED" => job'[j].status # "EXECUTING"

DeliveryInv ==
  /\ OneDelivery
  /\ RestsDelivered
  /\ ExStatus

(***************************************************************************)
(* Passes of the limit-orders monitor do not overlap on a job              *)
(***************************************************************************)
Filled(o) == order[o].filled

OnePass ==
  \A c, d \in Caller : call[c].phase \in LimitPhase /\ call[d].phase \in LimitPhase
    /\ call[c].job = call[d].job => c = d

\* The order o of j is executed for so much more than is booked of j.
Covers(j, o) ==
  /\ j \in Job
  /\ o \in Order
  /\ order[o].job = j
  /\ job[j].booked + Filled(o) <= ExecutedBy(j)

RowsCovered ==
  \A j \in Job : job[j].status = "PENDING_LIMIT" /\ job[j].order # None => Covers(j, job[j].order)

CallsCovered ==
  \A c \in Caller : call[c].phase = "limit" /\ call[c].order # None
    => Covers(call[c].job, call[c].order)

ExCovered ==
  /\ ex.phase \in {"ordered", "recorded"} => Covers(ex.job, ex.order) /\ ex.got <= Filled(ex.order)
  /\ ex.phase = "recorded" => job[ex.job].order = ex.order

BookedInv ==
  /\ OnePass
  /\ BookedIsExecuted
  /\ RowsCovered
  /\ CallsCovered
  /\ ExCovered

-----------------------------------------------------------------------------
\* The free balance is a number.
LEMMA FreeNat == TypeOK => Free \in Nat
<1> SUFFICES ASSUME TypeOK PROVE Free \in Nat
  OBVIOUS
<1> DEFINE use == [o \in Order |-> IF order[o].live THEN order[o].qty ELSE order[o].filled]
<1>1. IsFiniteSet(Order) /\ Qty \in Nat /\ Extra \in Nat
  BY SellOrdersAssumption
<1>2. byHand \in Nat
  BY SellOrdersAssumption DEF TypeOK
<1>3. \A o \in Order : use[o] \in Nat
  BY DEF TypeOK, OrderRow
<1>4. DOMAIN use = Order
  OBVIOUS
<1> HIDE DEF use
<1>5. SumFunction(use) \in Nat
  BY <1>1, <1>3, <1>4, SumNat DEF SumFunction
<1>6. Free = IF Qty + Extra > SumFunction(use) + byHand THEN Qty + Extra - SumFunction(use) - byHand ELSE 0
  BY DEF Free, use
<1> QED
  BY <1>1, <1>2, <1>5, <1>6

(***************************************************************************)
(* What a step changes of the jobs, calls and orders, field by field       *)
(***************************************************************************)
\* Only the job j changes, and it keeps its type, quantity, order and booking.
JobWritten(j, st) ==
  /\ job' \in [Job -> JobRow]
  /\ \A k \in Job \ {j} : job'[k] = job[k]
  /\ job'[j].status = st /\ job'[j].type = job[j].type /\ job'[j].qty = job[j].qty
  /\ job'[j].order = job[j].order /\ job'[j].booked = job[j].booked

\* Only the call c changes, to the record r.
CallBecomes(c, r) ==
  /\ call' \in [Caller -> CallState]
  /\ call'[c] = r
  /\ \A d \in Caller \ {c} : call'[d] = call[d]

\* Only the phase of the call c changes.
CallMoves(c, ph) ==
  /\ call' \in [Caller -> CallState]
  /\ \A d \in Caller \ {c} : call'[d] = call[d]
  /\ call'[c].phase = ph /\ call'[c].job = call[c].job /\ call'[c].order = call[c].order
  /\ call'[c].qty = call[c].qty /\ call'[c].type = call[c].type /\ call'[c].trigger = call[c].trigger

\* Only the order o changes, and it stays the job's, of the same quantity.
OrderMoves(o, f, lv) ==
  /\ order' \in [Order -> OrderRow]
  /\ \A p \in Order \ {o} : order'[p] = order[p]
  /\ order'[o].job = order[o].job /\ order'[o].qty = order[o].qty
  /\ order'[o].filled = f /\ order'[o].live = lv

\* SetStatus changes the status of one job and nothing else of any job.
LEMMA StatusWritten ==
  ASSUME TypeOK, NEW j \in Job, NEW st \in JobStatus, SetStatus(j, st)
  PROVE  JobWritten(j, st)
  BY DEF TypeOK, JobRow, SetStatus, JobWritten

\* Return makes a call idle.
LEMMA CallReturns ==
  ASSUME TypeOK, NEW c \in Caller, Return(c)
  PROVE  CallBecomes(c, NoCall)
<1>1. NoCall \in CallState
  BY DEF NoCall, CallState, CallPhase, OrderType
<1> QED
  BY <1>1 DEF TypeOK, Return, CallBecomes

\* A call that begins is the one record that changes.
LEMMA CallBegins ==
  ASSUME TypeOK, NEW c \in Caller, NEW r \in CallState, call' = [call EXCEPT ![c] = r]
  PROVE  CallBecomes(c, r)
  BY DEF TypeOK, CallBecomes

\* Step changes the phase of one call.
LEMMA CallSteps ==
  ASSUME TypeOK, NEW c \in Caller, NEW ph \in CallPhase, Step(c, ph)
  PROVE  CallMoves(c, ph)
<1>1. call[c] \in CallState
  BY DEF TypeOK
<1>2. [call[c] EXCEPT !.phase = ph] \in CallState
  BY <1>1 DEF CallState
<1>3. call' = [call EXCEPT ![c] = [call[c] EXCEPT !.phase = ph]]
  BY DEF Step
<1> QED
  BY <1>1, <1>2, <1>3 DEF TypeOK, CallMoves, CallState

\* Book takes from the position what it adds to the job (onSellExecuted).
LEMMA BookEffect ==
  ASSUME TypeOK, NEW j \in Job, NEW q \in Nat, Book(j, q)
  PROVE  /\ Sold(q) \in Nat /\ Sold(q) <= q /\ Sold(q) <= qty
         /\ q <= qty => Sold(q) = q
         /\ qty' = qty - Sold(q)
         /\ flags' \subseteq flags
         /\ job' \in [Job -> JobRow]
         /\ \A k \in Job \ {j} : job'[k] = job[k]
         /\ job'[j].status \in {"FILLED", "PARTIALLY_FILLED"}
         /\ q <= qty => job'[j].status = "FILLED"
         /\ job'[j].qty = job[j].qty /\ job'[j].order = job[j].order
         /\ job'[j].booked = job[j].booked + Sold(q)
<1>1. qty \in 0..Qty /\ Qty \in Nat /\ job \in [Job -> JobRow]
  BY SellOrdersAssumption DEF TypeOK
<1>2. Sold(q) \in Nat /\ Sold(q) <= q /\ Sold(q) <= qty /\ (q <= qty => Sold(q) = q)
  BY <1>1 DEF Sold, Smaller
<1> DEFINE st == IF 0 < qty /\ qty < q THEN "PARTIALLY_FILLED" ELSE "FILLED"
           s  == Sold(q)
<1>3. job' = [job EXCEPT ![j].booked = @ + s, ![j].status = st] /\ qty' = qty - s
  BY DEF Book
<1>4. flags' \subseteq flags
  BY DEF Book, AllButTsg
<1>5. st \in {"FILLED", "PARTIALLY_FILLED"} /\ (q <= qty => st = "FILLED")
  BY <1>1
<1> HIDE DEF s, st
<1>6. job[j] \in JobRow /\ s \in Nat /\ st \in JobStatus
  BY <1>1, <1>2, <1>5 DEF s, JobStatus, FinalStatus
<1>7. job' = [job EXCEPT ![j] = [job[j] EXCEPT !.booked = job[j].booked + s, !.status = st]]
  BY <1>1, <1>3, <1>6 DEF JobRow
<1>8. [job[j] EXCEPT !.booked = job[j].booked + s, !.status = st] \in JobRow
  <2>1. job[j].booked + s \in Nat
    BY <1>6 DEF JobRow
  <2> QED
    BY <1>6, <2>1 DEF JobRow
<1>9. /\ job' \in [Job -> JobRow]
      /\ \A k \in Job \ {j} : job'[k] = job[k]
      /\ job'[j].status = st
      /\ job'[j].qty = job[j].qty /\ job'[j].order = job[j].order
      /\ job'[j].booked = job[j].booked + s
  BY <1>1, <1>6, <1>7, <1>8 DEF JobRow
<1> QED
  BY <1>2, <1>3, <1>4, <1>5, <1>9 DEF s

\* CreateJob writes a row that did not exist, for the call that asked for it.
LEMMA CreateEffect ==
  ASSUME TypeOK, NEW c \in Caller, NEW j \in Job, CreateJob(c, j)
  PROVE  /\ job' \in [Job -> JobRow]
         /\ \A k \in Job \ {j} : job'[k] = job[k]
         /\ job'[j].status \in {"PENDING", "PENDING_LIMIT"} /\ job'[j].qty = call[c].qty
         /\ job'[j].order = job[j].order /\ job'[j].booked = job[j].booked
         /\ call' \in [Caller -> CallState]
         /\ \A d \in Caller \ {c} : call'[d] = call[d]
         /\ call'[c].phase = "enqueue" /\ call'[c].job = j
<1>1. call[c] \in CallState /\ job[j] \in JobRow
  BY DEF TypeOK
<1> DEFINE st == IF call[c].type = "LIMIT" THEN "PENDING_LIMIT" ELSE "PENDING"
           r  == [job[j] EXCEPT !.status = st, !.type = call[c].type, !.qty = call[c].qty]
           k  == [call[c] EXCEPT !.phase = "enqueue", !.job = j]
<1>2. r \in JobRow /\ k \in CallState
  BY <1>1 DEF JobRow, JobStatus, ActiveStatus, CallState, CallPhase
<1>3. job' = [job EXCEPT ![j] = r] /\ call' = [call EXCEPT ![c] = k]
  BY <1>1 DEF CreateJob, TypeOK
<1>4. /\ r.status \in {"PENDING", "PENDING_LIMIT"} /\ r.qty = call[c].qty
      /\ r.order = job[j].order /\ r.booked = job[j].booked
      /\ k.phase = "enqueue" /\ k.job = j
  BY <1>1 DEF JobRow, CallState
<1> HIDE DEF r, k
<1> QED
  BY <1>2, <1>3, <1>4 DEF TypeOK

\* CheckPasses cuts the quantity of the executor's job and writes nothing
\* else.
LEMMA CheckEffect ==
  ASSUME TypeOK, CheckPasses, ex.job \in Job
  PROVE  /\ job' \in [Job -> JobRow]
         /\ \A k \in Job \ {ex.job} : job'[k] = job[k]
         /\ job'[ex.job].status = job[ex.job].status /\ job'[ex.job].order = job[ex.job].order
         /\ job'[ex.job].booked = job[ex.job].booked
         /\ job'[ex.job].qty = Smaller(job[ex.job].qty, Free)
         /\ Smaller(job[ex.job].qty, Free) \in Nat
<1>1. Free \in Nat /\ job[ex.job].qty \in Nat
  BY FreeNat DEF TypeOK, JobRow
<1>2. Smaller(job[ex.job].qty, Free) \in Nat
  BY <1>1 DEF Smaller
<1> QED
  BY <1>2 DEF CheckPasses, TypeOK, JobRow

\* Record writes the order into the executor's job.
LEMMA RecordEffect ==
  ASSUME TypeOK, Record, ex.job \in Job, ex.order \in Order
  PROVE  /\ job' \in [Job -> JobRow]
         /\ \A k \in Job \ {ex.job} : job'[k] = job[k]
         /\ job'[ex.job].status = job[ex.job].status /\ job'[ex.job].order = ex.order
         /\ job'[ex.job].booked = job[ex.job].booked /\ job'[ex.job].qty = job[ex.job].qty
  BY DEF Record, TypeOK, JobRow

\* The order o comes to be, of the executor's job, for no more than it wants.
OrderPlaced(o, amount, f) ==
  /\ order[o].job = None
  /\ amount \in Nat /\ f \in 0..amount
  /\ 0 < Free /\ amount <= Free /\ amount <= job[ex.job].qty
  /\ job[ex.job].qty > 0 => amount > 0
  /\ f \in {0, amount} \/ "PARTIAL" \in Enabled
  /\ order' \in [Order -> OrderRow]
  /\ \A p \in Order \ {o} : order'[p] = order[p]
  /\ order'[o].job = ex.job /\ order'[o].qty = amount /\ order'[o].filled = f
  /\ order'[o].live \in BOOLEAN /\ (order'[o].live => f < amount)

\* Placed fills in an order that did not exist, for the executor's job.
LEMMA PlacedEffect ==
  ASSUME TypeOK, ex.job \in Job, NEW o \in Order, Free > 0,
         NEW f \in 0..Smaller(job[ex.job].qty, Free), Placed(o, Smaller(job[ex.job].qty, Free), f)
  PROVE  OrderPlaced(o, Smaller(job[ex.job].qty, Free), f)
<1> DEFINE a == Smaller(job[ex.job].qty, Free)
<1>1. Free \in Nat /\ job[ex.job].qty \in Nat
  BY FreeNat DEF TypeOK, JobRow
<1>2. a \in Nat /\ a <= Free /\ a <= job[ex.job].qty /\ (job[ex.job].qty > 0 => a > 0)
  BY <1>1 DEF Smaller
<1> DEFINE r == [job |-> ex.job, qty |-> a, filled |-> f,
                 live |-> job[ex.job].type = "LIMIT" /\ f < a]
<1>3. order' = [order EXCEPT ![o] = r] /\ f \in 0..a
  BY DEF Placed
<1> HIDE DEF a
<1>4. r \in OrderRow
  BY <1>2, <1>3 DEF OrderRow
<1>5. order' \in [Order -> OrderRow] /\ order'[o] = r /\ \A p \in Order \ {o} : order'[p] = order[p]
  BY <1>3, <1>4 DEF TypeOK
<1>6. order[o].job = None /\ (f \in {0, a} \/ "PARTIAL" \in Enabled)
  BY DEF Placed, a
<1>7. OrderPlaced(o, a, f)
  BY <1>2, <1>3, <1>5, <1>6 DEF OrderPlaced
<1> QED
  BY <1>7 DEF a

\* Fill executes more of an open order, which stays open until all is
\* executed.
LEMMA FillEffect ==
  ASSUME TypeOK, NEW o \in Order, Fill(o)
  PROVE  \E f \in order[o].filled + 1 .. order[o].qty :
            /\ f = order[o].qty \/ "PARTIAL" \in Enabled
            /\ f \in Nat
            /\ OrderMoves(o, f, f < order[o].qty)
<1>1. PICK f \in order[o].filled + 1 .. order[o].qty :
            /\ f = order[o].qty \/ "PARTIAL" \in Enabled
            /\ order' = [order EXCEPT ![o].filled = f, ![o].live = f < order[o].qty]
  BY DEF Fill
<1>2. order[o] \in OrderRow /\ f \in Nat
  BY <1>1 DEF TypeOK, OrderRow
<1> DEFINE r == [order[o] EXCEPT !.filled = f, !.live = f < order[o].qty]
<1>3. OrderMoves(o, f, f < order[o].qty)
  <2>1. (f < order[o].qty) \in BOOLEAN
    OBVIOUS
  <2>2. r \in OrderRow /\ r.job = order[o].job /\ r.qty = order[o].qty /\ r.filled = f
        /\ r.live = (f < order[o].qty)
    BY <1>2, <2>1 DEF OrderRow
  <2>3. order' = [order EXCEPT ![o] = r]
    BY <1>1 DEF TypeOK
  <2> HIDE DEF r
  <2> QED
    BY <2>2, <2>3 DEF TypeOK, OrderMoves
<1> QED
  BY <1>1, <1>2, <1>3

\* Cancelled takes one order off the exchange and leaves what was executed.
LEMMA CancelEffect ==
  ASSUME TypeOK, NEW o \in Order, order' = [order EXCEPT ![o].live = FALSE]
  PROVE  OrderMoves(o, order[o].filled, FALSE)
  BY DEF TypeOK, OrderRow, OrderMoves

\* ExStep changes the phase of the executor.
LEMMA ExMoves ==
  ASSUME TypeOK, NEW ph \in ExPhase, ExStep(ph)
  PROVE  /\ ex' \in ExState
         /\ ex'.phase = ph /\ ex'.job = ex.job /\ ex'.order = ex.order /\ ex'.got = ex.got
  BY DEF TypeOK, ExState, ExStep

\* The executor goes on to another phase with the same job and order.
ExGoes(ph) ==
  ex' \in ExState /\ ex'.phase = ph /\ ex'.job = ex.job /\ ex'.order = ex.order /\ ex'.got = ex.got

restVars == <<young, queue, stalled, byHand>>

\* Facts on names and idle records that the steps below keep needing.
LEMMA TypeFacts ==
  /\ TypeInv => TypeOK /\ Qty \in Nat
  /\ None \notin Job /\ None \notin Order /\ None \notin Trigger
  /\ ExIdle \in ExState /\ ExIdle.phase = "idle" /\ ExIdle.job = None /\ ExIdle.order = None
  /\ NoCall \in CallState /\ NoCall.phase = "idle"
  /\ TypeInv /\ ex.phase # "idle" => ex.job \in Job
  /\ \A c \in Caller : TypeInv /\ call[c].phase \in JobPhase => call[c].job \in Job
  BY SellOrdersAssumption DEF TypeInv, ExIdle, ExState, ExPhase, NoCall, CallState, CallPhase, OrderType,
     ExNames, CallNames, Created

\* ExStep in the terms of ExGoes.
LEMMA ExPhaseMoves ==
  ASSUME TypeInv, NEW ph \in ExPhase, ExStep(ph)
  PROVE  ExGoes(ph)
  BY ExMoves, TypeFacts DEF ExGoes

\* End writes the status of the executor's job, the lock and the flags, and
\* frees the executor.
LEMMA EndEffect ==
  ASSUME TypeInv, ex.phase # "idle", NEW st \in JobStatus, NEW lk, NEW fs, End(st, lk, fs)
  PROVE  /\ JobWritten(ex.job, st)
         /\ lock' = lk /\ flags' = fs /\ ex' = ExIdle
         /\ UNCHANGED <<qty, restVars, order, call>>
  BY StatusWritten, TypeFacts DEF End, restVars

\* LimitEnds writes the status of the call's job and the lock, and ends the
\* call.
LEMMA LimitEndsEffect ==
  ASSUME TypeInv, NEW c \in Caller, call[c].phase \in JobPhase, NEW st \in JobStatus, NEW lk,
         LimitEnds(c, st, lk)
  PROVE  /\ JobWritten(call[c].job, st)
         /\ lock' = lk
         /\ CallBecomes(c, NoCall)
         /\ UNCHANGED <<qty, flags, restVars, ex>>
  BY StatusWritten, CallReturns, TypeFacts DEF LimitEnds, restVars

\* What Mark reads and writes.
LEMMA MarkEffect ==
  ASSUME TypeInv, Mark
  PROVE  /\ ex.phase = "taken" /\ ex.job \in Job
         /\ JobWritten(ex.job, "EXECUTING")
         /\ ExGoes("marked")
         /\ UNCHANGED <<posVars, restVars, order, call>>
<1>1. ex.phase = "taken" /\ ex.job \in Job /\ "EXECUTING" \in JobStatus /\ "marked" \in ExPhase
  BY TypeFacts DEF Mark, JobStatus, ActiveStatus, ExPhase
<1> QED
  BY <1>1, StatusWritten, ExPhaseMoves, TypeFacts DEF Mark, restVars

\* What CheckFails reads and writes.
LEMMA CheckFailsEffect ==
  ASSUME TypeInv, CheckFails
  PROVE  /\ ex.phase = "marked" /\ ex.job \in Job
         /\ \E st \in {"SKIPPED", "FAILED"} : JobWritten(ex.job, st)
         /\ lock' \in {lock, Released(ex.job)} /\ flags' \subseteq flags /\ ex' = ExIdle
         /\ UNCHANGED <<qty, restVars, order, call>>
<1>1. PICK st \in {"SKIPPED", "FAILED"}, lk \in {lock, Released(ex.job)}, fs \in {flags, AllButTsg(flags)} :
        End(st, lk, fs)
  BY DEF CheckFails
<1>2. st \in JobStatus /\ fs \subseteq flags
  BY DEF JobStatus, FinalStatus, AllButTsg
<1>3. ex.phase = "marked" /\ ex.job \in Job
  BY TypeFacts DEF CheckFails
<1> QED
  BY <1>1, <1>2, <1>3, EndEffect

\* What CheckPasses reads and writes.
LEMMA CheckPassesEffect ==
  ASSUME TypeInv, CheckPasses
  PROVE  /\ ex.phase = "marked" /\ ex.job \in Job
         /\ qty > 0 /\ job[ex.job].qty <= qty /\ Free > 0
         /\ job' \in [Job -> JobRow]
         /\ \A k \in Job \ {ex.job} : job'[k] = job[k]
         /\ job'[ex.job].status = job[ex.job].status /\ job'[ex.job].order = job[ex.job].order
         /\ job'[ex.job].booked = job[ex.job].booked
         /\ job'[ex.job].qty \in Nat /\ job'[ex.job].qty <= job[ex.job].qty
         /\ job[ex.job].qty > 0 => job'[ex.job].qty > 0
         /\ ExGoes("valid")
         /\ UNCHANGED <<posVars, restVars, order, call>>
<1>1. ex.phase = "marked" /\ ex.job \in Job /\ "valid" \in ExPhase /\ TypeOK
  BY TypeFacts DEF CheckPasses, ExPhase
<1>2. Free \in Nat /\ qty \in Nat /\ job[ex.job].qty \in Nat
  BY <1>1, FreeNat, SellOrdersAssumption DEF TypeOK, JobRow
<1>3. qty > 0 /\ job[ex.job].qty <= qty /\ Free > 0
  BY <1>2 DEF CheckPasses, Unsellable
<1>4. ExGoes("valid")
  BY <1>1, ExPhaseMoves DEF CheckPasses
<1>5. /\ job' \in [Job -> JobRow]
      /\ \A k \in Job \ {ex.job} : job'[k] = job[k]
      /\ job'[ex.job].status = job[ex.job].status /\ job'[ex.job].order = job[ex.job].order
      /\ job'[ex.job].booked = job[ex.job].booked
      /\ job'[ex.job].qty = Smaller(job[ex.job].qty, Free)
  BY <1>1, CheckEffect
<1>6. /\ Smaller(job[ex.job].qty, Free) \in Nat /\ Smaller(job[ex.job].qty, Free) <= job[ex.job].qty
      /\ job[ex.job].qty > 0 => Smaller(job[ex.job].qty, Free) > 0
  BY <1>2, <1>3 DEF Smaller
<1>7. UNCHANGED <<posVars, restVars, order, call>>
  BY DEF CheckPasses, restVars
<1> QED
  BY <1>1, <1>3, <1>4, <1>5, <1>6, <1>7

\* What Acquire reads and writes.
LEMMA AcquireEffect ==
  ASSUME TypeInv, AcquireLock
  PROVE  /\ ex.phase = "valid" /\ ex.job \in Job
         /\ qty > 0 /\ lock \in {None, ex.job} /\ lock' = ex.job
         /\ ExGoes("locked")
         /\ UNCHANGED <<qty, flags, restVars, job, order, call>>
<1>1. "locked" \in ExPhase
  BY DEF ExPhase
<1> QED
  BY <1>1, ExPhaseMoves, TypeFacts DEF AcquireLock, LockFree, restVars

\* What LockRefused reads and writes.
LEMMA LockRefusedEffect ==
  ASSUME TypeInv, LockRefused
  PROVE  /\ ex.phase = "valid" /\ ex.job \in Job
         /\ JobWritten(ex.job, "SKIPPED")
         /\ ex' = ExIdle
         /\ UNCHANGED <<posVars, restVars, order, call>>
<1>1. "SKIPPED" \in JobStatus
  BY DEF JobStatus, FinalStatus
<1> QED
  BY <1>1, EndEffect, TypeFacts DEF LockRefused, posVars

\* What Submit reads and writes.
LEMMA SubmitEffect ==
  ASSUME TypeInv, NEW o \in Order, Submit(o)
  PROVE  /\ ex.phase = "locked" /\ ex.job \in Job
         /\ OrderPlaced(o, order'[o].qty, order'[o].filled)
         /\ ex' \in ExState /\ ex'.phase = "ordered" /\ ex'.job = ex.job /\ ex'.order = o
         /\ ex'.got \in Told(order'[o].filled)
         /\ UNCHANGED <<posVars, restVars, job, call>>
<1>1. ex.phase = "locked" /\ ex.job \in Job /\ TypeOK /\ Free > 0
  BY TypeFacts DEF Submit
<1>2. PICK f \in 0..Smaller(job[ex.job].qty, Free) :
        /\ Placed(o, Smaller(job[ex.job].qty, Free), f)
        /\ \E got \in Told(f) : ex' = [ex EXCEPT !.phase = "ordered", !.order = o, !.got = got]
  BY DEF Submit
<1>3. OrderPlaced(o, Smaller(job[ex.job].qty, Free), f)
  BY <1>1, <1>2, PlacedEffect
<1>4. order'[o].qty = Smaller(job[ex.job].qty, Free) /\ order'[o].filled = f /\ f \in Nat
  BY <1>3 DEF OrderPlaced
<1>5. PICK got \in Told(f) : ex' = [ex EXCEPT !.phase = "ordered", !.order = o, !.got = got]
  BY <1>2
<1>6. got \in Nat
  BY <1>4 DEF Told
<1>7. /\ ex' \in ExState /\ ex'.phase = "ordered" /\ ex'.job = ex.job /\ ex'.order = o
      /\ ex'.got = got
  BY <1>1, <1>5, <1>6 DEF TypeOK, ExState, ExPhase
<1>8. UNCHANGED <<posVars, restVars, job, call>>
  BY DEF Submit, restVars
<1> QED
  BY <1>1, <1>3, <1>4, <1>5, <1>7, <1>8

\* What SubmitTimesOut reads and writes.
LEMMA SubmitTimesOutEffect ==
  ASSUME TypeInv, NEW o \in Order, SubmitTimesOut(o)
  PROVE  /\ "TIMEOUT" \in Enabled
         /\ ex.phase = "locked" /\ ex.job \in Job
         /\ OrderPlaced(o, order'[o].qty, order'[o].filled)
         /\ JobWritten(ex.job, "FAILED")
         /\ lock' = Released(ex.job) /\ ex' = ExIdle
         /\ UNCHANGED <<qty, flags, restVars, call>>
<1>1. ex.phase = "locked" /\ ex.job \in Job /\ TypeOK /\ Free > 0 /\ "FAILED" \in JobStatus
  BY TypeFacts DEF SubmitTimesOut, JobStatus, FinalStatus
<1>2. PICK f \in 0..Smaller(job[ex.job].qty, Free) : Placed(o, Smaller(job[ex.job].qty, Free), f)
  BY DEF SubmitTimesOut
<1>3. OrderPlaced(o, Smaller(job[ex.job].qty, Free), f)
  BY <1>1, <1>2, PlacedEffect
<1>4. OrderPlaced(o, order'[o].qty, order'[o].filled)
  <2>1. order'[o].qty = Smaller(job[ex.job].qty, Free) /\ order'[o].filled = f
    BY <1>3 DEF OrderPlaced
  <2> QED
    BY <1>3, <2>1
<1>5. JobWritten(ex.job, "FAILED")
  BY <1>1, StatusWritten DEF SubmitTimesOut
<1> QED
  BY <1>1, <1>4, <1>5 DEF SubmitTimesOut, restVars

\* What SubmitRefused reads and writes.
LEMMA SubmitRefusedEffect ==
  ASSUME TypeInv, SubmitRefused
  PROVE  /\ ex.phase = "locked" /\ ex.job \in Job
         /\ \E st \in {"SKIPPED", "FAILED"} : JobWritten(ex.job, st)
         /\ lock' \in {lock, Released(ex.job)} /\ flags' \subseteq flags /\ ex' = ExIdle
         /\ UNCHANGED <<qty, restVars, order, call>>
<1>1. PICK st \in {"SKIPPED", "FAILED"}, lk \in {lock, Released(ex.job)}, fs \in {flags, AllButTsg(flags)} :
        End(st, lk, fs)
  BY DEF SubmitRefused
<1>2. st \in JobStatus /\ fs \subseteq flags
  BY DEF JobStatus, FinalStatus, AllButTsg
<1>3. ex.phase = "locked" /\ ex.job \in Job
  BY TypeFacts DEF SubmitRefused
<1> QED
  BY <1>1, <1>2, <1>3, EndEffect

\* What Recorded reads and writes.
LEMMA RecordedEffect ==
  ASSUME TypeInv, Record
  PROVE  /\ ex.phase = "ordered" /\ ex.job \in Job /\ ex.order \in Order
         /\ job' \in [Job -> JobRow]
         /\ \A k \in Job \ {ex.job} : job'[k] = job[k]
         /\ job'[ex.job].status = job[ex.job].status /\ job'[ex.job].order = ex.order
         /\ job'[ex.job].booked = job[ex.job].booked /\ job'[ex.job].qty = job[ex.job].qty
         /\ ExGoes("recorded")
         /\ UNCHANGED <<posVars, restVars, order, call>>
<1>1. ex.phase = "ordered" /\ ex.job \in Job /\ ex.order \in Order /\ "recorded" \in ExPhase /\ TypeOK
  BY TypeFacts DEF Record, TypeInv, ExNames, OrderPhase, ExPhase
<1> QED
  BY <1>1, RecordEffect, ExPhaseMoves DEF Record, restVars

\* What Rest reads and writes.
LEMMA RestEffect ==
  ASSUME TypeInv, Rest
  PROVE  /\ ex.phase = "recorded" /\ ex.job \in Job /\ ex.got = 0
         /\ JobWritten(ex.job, "PENDING_LIMIT")
         /\ ex' = ExIdle
         /\ UNCHANGED <<posVars, restVars, order, call>>
<1>1. "PENDING_LIMIT" \in JobStatus
  BY DEF JobStatus, ActiveStatus
<1> QED
  BY <1>1, EndEffect, TypeFacts DEF Rest, Resting, posVars

\* What an execution of q for the job j changes.
Booked(j, q) ==
  /\ Sold(q) \in Nat /\ Sold(q) <= q /\ Sold(q) <= qty
  /\ q <= qty => Sold(q) = q
  /\ qty' = qty - Sold(q)
  /\ flags' \subseteq flags
  /\ job' \in [Job -> JobRow]
  /\ \A k \in Job \ {j} : job'[k] = job[k]
  /\ job'[j].status \in {"FILLED", "PARTIALLY_FILLED"}
  /\ q <= qty => job'[j].status = "FILLED"
  /\ job'[j].qty = job[j].qty /\ job'[j].order = job[j].order
  /\ job'[j].booked = job[j].booked + Sold(q)

\* What BookExecution reads and writes.
LEMMA BookExecutionEffect ==
  ASSUME TypeInv, BookExecution
  PROVE  /\ ex.phase = "recorded" /\ ex.job \in Job /\ ex.got > 0
         /\ \/ \E q \in 0..ex.got : Booked(ex.job, q) /\ (0 < qty /\ ex.got <= qty => q = ex.got)
            \/ "BOOK_FAILS" \in Enabled /\ UNCHANGED <<qty, flags, job>>
         /\ ExGoes("booked")
         /\ UNCHANGED <<lock, restVars, order, call>>
<1>1. ex.phase = "recorded" /\ ex.job \in Job /\ ex.got > 0 /\ "booked" \in ExPhase /\ TypeOK
  BY TypeFacts DEF BookExecution, ExPhase
<1>2. ex.got \in Nat /\ qty \in Nat
  BY <1>1, SellOrdersAssumption DEF TypeOK, ExState
<1> DEFINE q == IF qty > 0 THEN Smaller(ex.got, qty) ELSE ex.got
<1>3. q \in 0..ex.got /\ (0 < qty /\ ex.got <= qty => q = ex.got)
  BY <1>2 DEF Smaller
<1>4. Book(ex.job, q) \/ ("BOOK_FAILS" \in Enabled /\ UNCHANGED <<qty, flags, job>>)
  BY DEF BookExecution
<1>5. ASSUME Book(ex.job, q) PROVE Booked(ex.job, q)
  <2>1. q \in Nat
    BY <1>2, <1>3
  <2> HIDE DEF q
  <2> QED
    BY <1>1, <1>5, <2>1, BookEffect DEF Booked
<1> HIDE DEF q
<1>6. ExGoes("booked")
  BY <1>1, ExPhaseMoves DEF BookExecution
<1> QED
  BY <1>1, <1>3, <1>4, <1>5, <1>6 DEF BookExecution, restVars

\* What Complete reads and writes.
LEMMA CompleteEffect ==
  ASSUME TypeInv, Complete
  PROVE  /\ ex.phase = "booked" \/ Untold
         /\ ex.phase \in {"recorded", "booked"} /\ ex.job \in Job
         /\ \E st \in {"FILLED", "PARTIALLY_FILLED"} : JobWritten(ex.job, st)
         /\ lock' = Released(ex.job) /\ ex' = ExIdle
         /\ UNCHANGED <<qty, flags, restVars, order, call>>
<1>1. PICK st \in {"FILLED", "PARTIALLY_FILLED"} : End(st, Released(ex.job), flags)
  BY DEF Complete, Part
<1>2. st \in JobStatus
  BY DEF JobStatus, FinalStatus
<1> QED
  BY <1>1, <1>2, EndEffect, TypeFacts DEF Complete, Untold

\* What CloseRequest reads and writes.
LEMMA CloseRequestEffect ==
  ASSUME TypeInv, NEW c \in Caller, NEW q \in 1..Qty, NEW ty \in OrderType, CloseRequest(c, q, ty)
  PROVE  /\ call[c].phase = "idle" /\ ~ActiveJob
         /\ \E r \in CallState : CallBecomes(c, r) /\ r.phase = "create" /\ r.qty = q
         /\ UNCHANGED <<posVars, restVars, job, order, ex>>
<1> DEFINE r == [NoCall EXCEPT !.phase = "create", !.qty = q, !.type = ty]
<1>1. r \in CallState /\ r.phase = "create" /\ r.qty = q
  <2>1. q \in Nat
    BY SellOrdersAssumption
  <2> QED
    BY <2>1 DEF NoCall, CallState, CallPhase
<1>2. CallBecomes(c, r)
  <2>1. call' = [call EXCEPT ![c] = r]
    BY DEF CloseRequest
  <2> HIDE DEF r
  <2> QED
    BY <1>1, <2>1, CallBegins, TypeFacts
<1> HIDE DEF r
<1> QED
  BY <1>1, <1>2 DEF CloseRequest, Idle, restVars

\* What TriggerCheck reads and writes.
LEMMA TriggerCheckEffect ==
  ASSUME TypeInv, NEW c \in Caller, NEW t \in Trigger, TriggerCheck(c, t)
  PROVE  /\ call[c].phase = "idle"
         /\ \E r \in CallState : CallBecomes(c, r) /\ r.phase = "flag" /\ r.qty > 0 /\ r.trigger = t
         /\ UNCHANGED <<posVars, restVars, job, order, ex>>
<1> DEFINE r == [NoCall EXCEPT !.phase = "flag", !.qty = qty, !.trigger = t]
<1>1. qty \in Nat /\ qty > 0
  BY TypeFacts, SellOrdersAssumption DEF TypeOK, TriggerCheck
<1>2. r \in CallState /\ r.phase = "flag" /\ r.qty = qty /\ r.trigger = t
  BY <1>1 DEF NoCall, CallState, CallPhase, OrderType
<1>3. CallBecomes(c, r)
  <2>1. call' = [call EXCEPT ![c] = r]
    BY DEF TriggerCheck
  <2> HIDE DEF r
  <2> QED
    BY <1>2, <2>1, CallBegins, TypeFacts
<1> HIDE DEF r
<1> QED
  BY <1>1, <1>2, <1>3 DEF TriggerCheck, Idle, restVars

\* What LimitRead reads and writes.
LEMMA LimitReadEffect ==
  ASSUME TypeInv, NEW c \in Caller, NEW j \in Job, LimitRead(c, j)
  PROVE  /\ call[c].phase = "idle" /\ job[j].status = "PENDING_LIMIT"
         /\ "STALE_LIST" \in Enabled \/ job[j].order # None
         /\ "OVERLAP" \in Enabled \/
              \A d \in Caller : call[d].phase \in LimitPhase => call[d].job # j
         /\ \E r \in CallState : /\ CallBecomes(c, r)
                                 /\ r.phase = "limit" /\ r.job = j /\ r.order = job[j].order
         /\ UNCHANGED <<posVars, restVars, job, order, ex>>
<1> DEFINE r == [NoCall EXCEPT !.phase = "limit", !.job = j, !.order = job[j].order]
<1>1. job[j].order \in Order \cup {None}
  BY TypeFacts DEF TypeOK, JobRow
<1>2. r \in CallState /\ r.phase = "limit" /\ r.job = j /\ r.order = job[j].order
  BY <1>1 DEF NoCall, CallState, CallPhase, OrderType
<1>3. CallBecomes(c, r)
  <2>1. call' = [call EXCEPT ![c] = r]
    BY DEF LimitRead
  <2> HIDE DEF r
  <2> QED
    BY <1>2, <2>1, CallBegins, TypeFacts
<1> HIDE DEF r
<1> QED
  BY <1>2, <1>3 DEF LimitRead, Listed, Idle, LimitPhase, restVars

\* What CancelRequest reads and writes.
LEMMA CancelRequestEffect ==
  ASSUME TypeInv, NEW c \in Caller, NEW j \in Job, CancelRequest(c, j)
  PROVE  /\ "CANCEL_API" \in Enabled
         /\ call[c].phase = "idle" /\ job[j].status # "NONE"
         /\ \E r \in CallState : CallBecomes(c, r) /\ r.phase = "cancel" /\ r.job = j
         /\ UNCHANGED <<posVars, restVars, job, order, ex>>
<1> DEFINE r == [NoCall EXCEPT !.phase = "cancel", !.job = j, !.order = job[j].order]
<1>1. job[j].order \in Order \cup {None}
  BY TypeFacts DEF TypeOK, JobRow
<1>2. r \in CallState /\ r.phase = "cancel" /\ r.job = j
  BY <1>1 DEF NoCall, CallState, CallPhase, OrderType
<1>3. CallBecomes(c, r)
  <2>1. call' = [call EXCEPT ![c] = r]
    BY DEF CancelRequest
  <2> HIDE DEF r
  <2> QED
    BY <1>2, <2>1, CallBegins, TypeFacts
<1> HIDE DEF r
<1> QED
  BY <1>2, <1>3 DEF CancelRequest, Idle, restVars

\* What TriggerFlag reads and writes.
LEMMA TriggerFlagEffect ==
  ASSUME TypeInv, NEW c \in Caller, TriggerFlag(c)
  PROVE  /\ call[c].phase = "flag"
         /\ flags' \in {flags, flags \cup {call[c].trigger}}
         /\ CallMoves(c, "confirm") \/ CallBecomes(c, NoCall)
         /\ UNCHANGED <<qty, lock, restVars, job, order, ex>>
<1>1. "confirm" \in CallPhase
  BY DEF CallPhase
<1> QED
  BY <1>1, CallSteps, CallReturns, TypeFacts DEF TriggerFlag, restVars

\* What TriggerConfirm reads and writes.
LEMMA TriggerConfirmEffect ==
  ASSUME TypeInv, NEW c \in Caller, TriggerConfirm(c)
  PROVE  /\ call[c].phase = "confirm"
         /\ flags' \subseteq flags
         /\ (~ActiveJob /\ CallMoves(c, "create")) \/ CallBecomes(c, NoCall)
         /\ UNCHANGED <<qty, lock, restVars, job, order, ex>>
<1>1. "create" \in CallPhase
  BY DEF CallPhase
<1> QED
  BY <1>1, CallSteps, CallReturns, TypeFacts DEF TriggerConfirm, restVars

\* What CreateJob reads and writes.
LEMMA CreateJobEffect ==
  ASSUME TypeInv, NEW c \in Caller, NEW j \in Job, CreateJob(c, j)
  PROVE  /\ call[c].phase = "create" /\ job[j].status = "NONE"
         /\ job' \in [Job -> JobRow]
         /\ \A k \in Job \ {j} : job'[k] = job[k]
         /\ job'[j].status \in {"PENDING", "PENDING_LIMIT"} /\ job'[j].qty = call[c].qty
         /\ job'[j].order = job[j].order /\ job'[j].booked = job[j].booked
         /\ call' \in [Caller -> CallState]
         /\ \A d \in Caller \ {c} : call'[d] = call[d]
         /\ call'[c].phase = "enqueue" /\ call'[c].job = j
         /\ young' = young \cup {j}
         /\ UNCHANGED <<posVars, queue, stalled, byHand, order, ex>>
<1>1. TypeOK
  BY TypeFacts
<1>2. call[c].phase = "create" /\ job[j].status = "NONE" /\ young' = young \cup {j}
      /\ UNCHANGED <<posVars, queue, stalled, byHand, order, ex>>
  BY DEF CreateJob
<1> QED
  BY <1>1, <1>2, CreateEffect

\* What Enqueue reads and writes.
LEMMA EnqueueEffect ==
  ASSUME TypeInv, NEW c \in Caller, Enqueue(c)
  PROVE  /\ call[c].phase = "enqueue" /\ call[c].job \in Job
         /\ queue' = queue \cup {call[c].job}
         /\ CallBecomes(c, NoCall)
         /\ UNCHANGED <<posVars, young, stalled, byHand, job, order, ex>>
  BY CallReturns, TypeFacts DEF Enqueue, JobPhase

\* What LimitExpired reads and writes.
LEMMA LimitExpiredEffect ==
  ASSUME TypeInv, NEW c \in Caller, LimitExpired(c)
  PROVE  /\ "EXPIRY" \in Enabled
         /\ call[c].phase = "limit" /\ call[c].job \in Job
         /\ JobWritten(call[c].job, "CANCELED")
         /\ CallBecomes(c, NoCall)
         /\ UNCHANGED <<posVars, restVars, order, ex>>
<1>1. "CANCELED" \in JobStatus /\ call[c].phase = "limit" /\ call[c].phase \in JobPhase
  BY DEF JobStatus, FinalStatus, LimitExpired, JobPhase
<1> QED
  BY <1>1, LimitEndsEffect, TypeFacts DEF LimitExpired, posVars

\* What LimitClosed reads and writes.
LEMMA LimitClosedEffect ==
  ASSUME TypeInv, NEW c \in Caller, LimitClosed(c)
  PROVE  /\ call[c].phase = "limit" /\ call[c].job \in Job /\ qty = 0
         /\ \/ /\ call[c].order = None
               /\ JobWritten(call[c].job, "CANCELED")
               /\ UNCHANGED order
            \/ /\ call[c].order \in Order
               /\ ~order[call[c].order].live
               /\ \/ FilledUp(call[c].order) /\ JobWritten(call[c].job, "FILLED")
                  \/ ~FilledUp(call[c].order) /\ JobWritten(call[c].job, "CANCELED")
               /\ UNCHANGED order
            \/ /\ call[c].order \in Order
               /\ order[call[c].order].live
               /\ JobWritten(call[c].job, "CANCELED")
               /\ \/ OrderMoves(call[c].order, order[call[c].order].filled, FALSE)
                  \/ "CANCEL_FAILS" \in Enabled /\ UNCHANGED order
         /\ lock' = Released(call[c].job)
         /\ CallBecomes(c, NoCall)
         /\ UNCHANGED <<qty, flags, restVars, ex>>
<1> DEFINE o  == call[c].order
           lk == Released(call[c].job)
<1>1. call[c].phase = "limit" /\ call[c].phase \in JobPhase /\ call[c].job \in Job /\ qty = 0 /\ TypeOK
  BY TypeFacts DEF LimitClosed, JobPhase
<1>2. o \in Order \cup {None}
  BY <1>1 DEF TypeOK, CallState
<1>3. {"CANCELED", "FILLED"} \subseteq JobStatus
  BY DEF JobStatus, FinalStatus
<1>4. PICK st \in {"CANCELED", "FILLED"} :
        /\ LimitEnds(c, st, lk)
        /\ \/ o = None /\ st = "CANCELED" /\ UNCHANGED order
           \/ o # None /\ ~order[o].live /\ st = ClosedStatus(o) /\ UNCHANGED order
           \/ /\ o # None /\ order[o].live /\ st = "CANCELED"
              /\ order' = Cancelled(o) \/ ("CANCEL_FAILS" \in Enabled /\ UNCHANGED order)
  <2>1. \A p : ClosedStatus(p) \in {"CANCELED", "FILLED"}
    BY DEF ClosedStatus
  <2> QED
    BY <2>1 DEF LimitClosed
<1>5. /\ JobWritten(call[c].job, st)
      /\ lock' = lk
      /\ CallBecomes(c, NoCall)
      /\ UNCHANGED <<qty, flags, restVars, ex>>
  BY <1>1, <1>3, <1>4, LimitEndsEffect
<1>6. order' = Cancelled(o) /\ o \in Order => OrderMoves(o, order[o].filled, FALSE)
  BY <1>1, CancelEffect DEF Cancelled
<1> HIDE DEF o, lk
<1>7. \/ o = None /\ JobWritten(call[c].job, "CANCELED") /\ UNCHANGED order
      \/ /\ o \in Order /\ ~order[o].live
         /\ \/ FilledUp(o) /\ JobWritten(call[c].job, "FILLED")
            \/ ~FilledUp(o) /\ JobWritten(call[c].job, "CANCELED")
         /\ UNCHANGED order
      \/ /\ o \in Order /\ order[o].live /\ JobWritten(call[c].job, "CANCELED")
         /\ \/ OrderMoves(o, order[o].filled, FALSE)
            \/ "CANCEL_FAILS" \in Enabled /\ UNCHANGED order
  <2>1. CASE o = None
    BY <1>4, <1>5, <2>1
  <2>2. CASE o \in Order /\ ~order[o].live
    <3>1. st = IF FilledUp(o) THEN "FILLED" ELSE "CANCELED"
      BY <1>4, <2>2, TypeFacts DEF ClosedStatus
    <3>2. CASE FilledUp(o)
      BY <1>4, <1>5, <2>2, <3>1, <3>2, TypeFacts
    <3>3. CASE ~FilledUp(o)
      BY <1>4, <1>5, <2>2, <3>1, <3>3, TypeFacts
    <3> QED
      BY <3>2, <3>3
  <2>3. CASE o \in Order /\ order[o].live
    BY <1>4, <1>5, <1>6, <2>3, TypeFacts
  <2> QED
    BY <1>2, <2>1, <2>2, <2>3
<1> QED
  BY <1>1, <1>5, <1>7 DEF o, lk

\* What LimitFilled reads and writes.
LEMMA LimitFilledEffect ==
  ASSUME TypeInv, NEW c \in Caller, LimitFilled(c)
  PROVE  /\ call[c].phase = "limit" /\ call[c].job \in Job /\ call[c].order \in Order /\ qty > 0
         /\ order[call[c].order].filled = order[call[c].order].qty
         /\ Booked(call[c].job, order[call[c].order].filled)
         /\ CallMoves(c, "limitFilled")
         /\ UNCHANGED <<lock, restVars, order, ex>>
<1>1. call[c].phase = "limit" /\ call[c].job \in Job /\ TypeOK /\ "limitFilled" \in CallPhase
  BY TypeFacts DEF LimitFilled, JobPhase, CallPhase
<1>2. call[c].order \in Order
  BY <1>1 DEF LimitFilled, TypeOK, CallState
<1>3. order[call[c].order].filled \in Nat
  BY <1>1, <1>2 DEF TypeOK, OrderRow
<1>4. Booked(call[c].job, order[call[c].order].filled)
  <2>1. Book(call[c].job, order[call[c].order].filled)
    BY DEF LimitFilled
  <2> QED
    BY <1>1, <1>3, <2>1, BookEffect DEF Booked
<1>5. CallMoves(c, "limitFilled")
  BY <1>1, CallSteps DEF LimitFilled
<1> QED
  BY <1>1, <1>2, <1>4, <1>5 DEF LimitFilled, FilledUp, restVars

\* What LimitCompletes reads and writes.
LEMMA LimitCompletesEffect ==
  ASSUME TypeInv, NEW c \in Caller, LimitCompletes(c)
  PROVE  /\ call[c].phase = "limitFilled" /\ call[c].job \in Job
         /\ JobWritten(call[c].job, "FILLED")
         /\ CallBecomes(c, NoCall)
         /\ UNCHANGED <<posVars, restVars, order, ex>>
<1>1. "FILLED" \in JobStatus /\ call[c].phase = "limitFilled" /\ call[c].phase \in JobPhase
  BY DEF JobStatus, FinalStatus, LimitCompletes, JobPhase
<1> QED
  BY <1>1, LimitEndsEffect, TypeFacts DEF LimitCompletes, posVars

\* What LimitWaits reads and writes.
LEMMA LimitWaitsEffect ==
  ASSUME TypeInv, NEW c \in Caller, LimitWaits(c)
  PROVE  CallBecomes(c, NoCall) /\ UNCHANGED <<posVars, restVars, job, order, ex>>
  BY CallReturns, TypeFacts DEF LimitWaits, restVars

\* What CancelOrder reads and writes.
LEMMA CancelOrderEffect ==
  ASSUME TypeInv, NEW c \in Caller, CancelOrder(c)
  PROVE  /\ call[c].phase = "cancel" /\ call[c].job \in Job
         /\ \/ UNCHANGED order
            \/ /\ call[c].order \in Order
               /\ OrderMoves(call[c].order, order[call[c].order].filled, FALSE)
         /\ CallMoves(c, "cancelWrite")
         /\ UNCHANGED <<posVars, restVars, job, ex>>
<1>1. call[c].phase = "cancel" /\ call[c].job \in Job /\ "cancelWrite" \in CallPhase /\ TypeOK
  BY TypeFacts DEF CancelOrder, CallPhase, JobPhase
<1>2. call[c].order \in Order \cup {None}
  BY <1>1 DEF TypeOK, CallState
<1>3. \/ UNCHANGED order
      \/ /\ call[c].order \in Order
         /\ OrderMoves(call[c].order, order[call[c].order].filled, FALSE)
  BY <1>1, <1>2, CancelEffect DEF CancelOrder, Cancelled
<1> QED
  BY <1>1, <1>3, CallSteps DEF CancelOrder, restVars

\* What CancelWrite reads and writes.
LEMMA CancelWriteEffect ==
  ASSUME TypeInv, NEW c \in Caller, CancelWrite(c)
  PROVE  /\ call[c].phase = "cancelWrite" /\ call[c].job \in Job
         /\ JobWritten(call[c].job, "CANCELED")
         /\ CallBecomes(c, NoCall)
         /\ UNCHANGED <<posVars, restVars, order, ex>>
<1>1. "CANCELED" \in JobStatus /\ call[c].phase = "cancelWrite" /\ call[c].phase \in JobPhase
  BY DEF JobStatus, FinalStatus, CancelWrite, JobPhase
<1> QED
  BY <1>1, LimitEndsEffect, TypeFacts DEF CancelWrite, posVars

\* A call that fails or dies is idle and leaves the tables alone.
LEMMA CallEndsEffect ==
  ASSUME TypeInv, NEW c \in Caller, CallFails(c) \/ CallDies(c)
  PROVE  /\ CallBecomes(c, NoCall) /\ flags' \subseteq flags
         /\ UNCHANGED <<qty, lock, restVars, job, order, ex>>
  BY CallReturns, TypeFacts DEF CallFails, CallDies, posVars, restVars

\* What ExchangeCancels reads and writes.
LEMMA ExchangeCancelsEffect ==
  ASSUME TypeInv, NEW o \in Order, ExchangeCancels(o)
  PROVE  /\ order[o].live
         /\ OrderMoves(o, order[o].filled, FALSE)
         /\ UNCHANGED <<posVars, restVars, job, ex, call>>
  BY CancelEffect, TypeFacts DEF ExchangeCancels, restVars

\* What Fills reads and writes.
LEMMA FillsEffect ==
  ASSUME TypeInv, NEW o \in Order, Fill(o)
  PROVE  /\ order[o].live
         /\ \E f \in Nat : /\ order[o].filled < f /\ f <= order[o].qty
                           /\ f = order[o].qty \/ "PARTIAL" \in Enabled
                           /\ OrderMoves(o, f, f < order[o].qty)
         /\ UNCHANGED <<posVars, restVars, job, ex, call>>
<1>1. TypeOK
  BY TypeFacts
<1>2. order[o].filled \in Nat /\ order[o].qty \in Nat
  BY <1>1 DEF TypeOK, OrderRow
<1>3. PICK f \in order[o].filled + 1 .. order[o].qty :
        (f = order[o].qty \/ "PARTIAL" \in Enabled) /\ OrderMoves(o, f, f < order[o].qty)
  BY <1>1, FillEffect
<1>4. f \in Nat /\ order[o].filled < f /\ f <= order[o].qty
  BY <1>2, <1>3
<1> QED
  BY <1>3, <1>4 DEF Fill, restVars

\* LimitClosed writes one status, and at most takes one order off the
\* exchange.
LEMMA LimitClosedWrites ==
  ASSUME TypeInv, NEW c \in Caller, LimitClosed(c)
  PROVE  /\ call[c].phase = "limit" /\ call[c].job \in Job /\ qty = 0
         /\ \E st \in {"CANCELED", "FILLED"} : JobWritten(call[c].job, st)
         /\ order' \in [Order -> OrderRow]
         /\ lock' \in {lock, None}
         /\ CallBecomes(c, NoCall)
         /\ UNCHANGED <<qty, flags, restVars, ex>>
<1>1. order \in [Order -> OrderRow]
  BY TypeFacts DEF TypeOK
<1>2. order' \in [Order -> OrderRow]
  BY <1>1, LimitClosedEffect DEF OrderMoves
<1>3. \E st \in {"CANCELED", "FILLED"} : JobWritten(call[c].job, st)
  BY LimitClosedEffect
<1> QED
  BY <1>2, <1>3, LimitClosedEffect DEF Released

\* The cancel endpoint takes at most one order off the exchange.
LEMMA CancelOrderMoves ==
  ASSUME TypeInv, NEW c \in Caller, CancelOrder(c)
  PROVE  /\ call[c].phase = "cancel" /\ call[c].job \in Job
         /\ order' \in [Order -> OrderRow]
         /\ CallMoves(c, "cancelWrite")
         /\ UNCHANGED <<posVars, restVars, job, ex>>
<1>1. order \in [Order -> OrderRow]
  BY TypeFacts DEF TypeOK
<1> QED
  BY <1>1, CancelOrderEffect DEF OrderMoves

\* What the phases of the calls and the rows of the queue name exists.
LEMMA NameFacts ==
  ASSUME TypeInv
  PROVE  /\ queue \subseteq Job /\ None \notin queue
         /\ \A c \in Caller : call[c].phase \in JobPhase => call[c].job \in Job /\ call[c].job # None
  BY TypeFacts DEF TypeOK

\* A cancellation by the exchange touches the orders only.
LEMMA ExchangeCancelsKeeps ==
  ASSUME NEW o \in Order, ExchangeCancels(o)
  PROVE  UNCHANGED <<posVars, restVars, job, ex, call>>
  BY DEF ExchangeCancels, restVars

\* The initial state is well typed.
LEMMA TypeInit == Init => TypeInv
  BY SellOrdersAssumption DEF Init, NoJob, NoOrder, TypeOK, JobRow, OrderRow, ExState,
    CallState, ExIdle, NoCall, JobStatus, ActiveStatus, FinalStatus, ExPhase, CallPhase,
    OrderType, TypeInv, ExNames, CallNames, RowNames, Created, OrderPhase, JobPhase, posVars

\* Every step keeps the variables in their types and sells no more than is
\* there.
LEMMA TypeOKStep == TypeInv /\ [Next]_vars => TypeOK' /\ qty' + byHand' <= Qty
<1> SUFFICES ASSUME TypeInv, [Next]_vars PROVE TypeOK' /\ qty' + byHand' <= Qty
  OBVIOUS
<1>a. TypeInv /\ TypeOK /\ Qty \in Nat
  BY SellOrdersAssumption DEF TypeInv
<1>1. ASSUME NEW j \in Job, Take(j)
     PROVE  TypeOK' /\ qty' + byHand' <= Qty
  BY <1>1, <1>a, TypeFacts DEF Take, posVars, restVars, TypeOK, TypeInv, ExIdle, ExNames,
    RowNames, Created, ExState, ExPhase
<1>2. ASSUME Mark
     PROVE  TypeOK' /\ qty' + byHand' <= Qty
  BY <1>2, <1>a, TypeFacts, MarkEffect DEF JobWritten, ExGoes, posVars, restVars, TypeOK,
    TypeInv
<1>3. ASSUME CheckFails
     PROVE  TypeOK' /\ qty' + byHand' <= Qty
  BY <1>3, <1>a, TypeFacts, CheckFailsEffect DEF JobWritten, posVars, restVars, TypeOK,
    TypeInv, Released
<1>4. ASSUME CheckPasses
     PROVE  TypeOK' /\ qty' + byHand' <= Qty
  BY <1>4, <1>a, TypeFacts, CheckPassesEffect DEF ExGoes, posVars, restVars, TypeOK, TypeInv
<1>5. ASSUME AcquireLock
     PROVE  TypeOK' /\ qty' + byHand' <= Qty
  BY <1>5, <1>a, TypeFacts, AcquireEffect DEF ExGoes, posVars, restVars, TypeOK, TypeInv
<1>6. ASSUME LockRefused
     PROVE  TypeOK' /\ qty' + byHand' <= Qty
  BY <1>6, <1>a, TypeFacts, LockRefusedEffect DEF JobWritten, posVars, restVars, TypeOK,
    TypeInv
<1>7. ASSUME NEW o \in Order, Submit(o)
     PROVE  TypeOK' /\ qty' + byHand' <= Qty
  BY <1>7, <1>a, TypeFacts, SubmitEffect DEF OrderPlaced, posVars, restVars, TypeOK, TypeInv
<1>8. ASSUME NEW o \in Order, SubmitTimesOut(o)
     PROVE  TypeOK' /\ qty' + byHand' <= Qty
  BY <1>8, <1>a, TypeFacts, SubmitTimesOutEffect DEF OrderPlaced, JobWritten, posVars,
    restVars, TypeOK, TypeInv, Released
<1>9. ASSUME SubmitRefused
     PROVE  TypeOK' /\ qty' + byHand' <= Qty
  BY <1>9, <1>a, TypeFacts, SubmitRefusedEffect DEF JobWritten, posVars, restVars, TypeOK,
    TypeInv, Released
<1>10. ASSUME Record
      PROVE  TypeOK' /\ qty' + byHand' <= Qty
  BY <1>10, <1>a, TypeFacts, RecordedEffect DEF ExGoes, posVars, restVars, TypeOK, TypeInv
<1>11. ASSUME Rest
      PROVE  TypeOK' /\ qty' + byHand' <= Qty
  BY <1>11, <1>a, TypeFacts, RestEffect DEF JobWritten, posVars, restVars, TypeOK, TypeInv
<1>12. ASSUME BookExecution
      PROVE  TypeOK' /\ qty' + byHand' <= Qty
  BY <1>12, <1>a, TypeFacts, BookExecutionEffect DEF Booked, ExGoes, posVars, restVars, TypeOK,
    TypeInv
<1>13. ASSUME Complete
      PROVE  TypeOK' /\ qty' + byHand' <= Qty
  BY <1>13, <1>a, TypeFacts, CompleteEffect DEF JobWritten, posVars, restVars, TypeOK, TypeInv,
    Released
<1>14. ASSUME ExecutorCrash
      PROVE  TypeOK' /\ qty' + byHand' <= Qty
  BY <1>14, <1>a, TypeFacts DEF ExecutorCrash, posVars, restVars, TypeOK, TypeInv
<1>15. ASSUME NEW c \in Caller, NEW q \in 1..Qty, NEW ty \in OrderType, CloseRequest(c, q, ty)
      PROVE  TypeOK' /\ qty' + byHand' <= Qty
  BY <1>15, <1>a, TypeFacts, CloseRequestEffect DEF CallBecomes, posVars, restVars, TypeOK,
    TypeInv
<1>16. ASSUME NEW c \in Caller, NEW t \in Trigger, TriggerCheck(c, t)
      PROVE  TypeOK' /\ qty' + byHand' <= Qty
  BY <1>16, <1>a, TypeFacts, TriggerCheckEffect DEF CallBecomes, posVars, restVars, TypeOK,
    TypeInv
<1>17. ASSUME NEW c \in Caller, NEW j \in Job, LimitRead(c, j)
      PROVE  TypeOK' /\ qty' + byHand' <= Qty
  BY <1>17, <1>a, TypeFacts, LimitReadEffect DEF CallBecomes, posVars, restVars, TypeOK,
    TypeInv
<1>18. ASSUME NEW c \in Caller, NEW j \in Job, CancelRequest(c, j)
      PROVE  TypeOK' /\ qty' + byHand' <= Qty
  BY <1>18, <1>a, TypeFacts, CancelRequestEffect DEF CallBecomes, posVars, restVars, TypeOK,
    TypeInv
<1>19. ASSUME NEW c \in Caller, TriggerFlag(c)
      PROVE  TypeOK' /\ qty' + byHand' <= Qty
  BY <1>19, <1>a, TypeFacts, TriggerFlagEffect DEF CallMoves, CallBecomes, posVars, restVars,
    TypeOK, TypeInv, CallNames
<1>20. ASSUME NEW c \in Caller, TriggerConfirm(c)
      PROVE  TypeOK' /\ qty' + byHand' <= Qty
  BY <1>20, <1>a, TypeFacts, TriggerConfirmEffect DEF CallMoves, CallBecomes, posVars,
    restVars, TypeOK, TypeInv
<1>21. ASSUME NEW c \in Caller, NEW j \in Job, CreateJob(c, j)
      PROVE  TypeOK' /\ qty' + byHand' <= Qty
  BY <1>21, <1>a, TypeFacts, CreateJobEffect DEF posVars, restVars, TypeOK, TypeInv
<1>22. ASSUME NEW c \in Caller, Enqueue(c)
      PROVE  TypeOK' /\ qty' + byHand' <= Qty
  BY <1>22, <1>a, TypeFacts, EnqueueEffect DEF CallBecomes, posVars, restVars, TypeOK, TypeInv
<1>23. ASSUME NEW c \in Caller, LimitExpired(c)
      PROVE  TypeOK' /\ qty' + byHand' <= Qty
  BY <1>23, <1>a, TypeFacts, LimitExpiredEffect DEF JobWritten, CallBecomes, posVars, restVars,
    TypeOK, TypeInv
<1>24. ASSUME NEW c \in Caller, LimitClosed(c)
      PROVE  TypeOK' /\ qty' + byHand' <= Qty
  BY <1>24, <1>a, TypeFacts, LimitClosedWrites DEF JobWritten, CallBecomes, CallMoves, posVars,
    restVars, TypeOK, TypeInv, Released
<1>25. ASSUME NEW c \in Caller, LimitFilled(c)
      PROVE  TypeOK' /\ qty' + byHand' <= Qty
  BY <1>25, <1>a, TypeFacts, LimitFilledEffect DEF Booked, CallMoves, posVars, restVars,
    TypeOK, TypeInv
<1>26. ASSUME NEW c \in Caller, LimitCompletes(c)
      PROVE  TypeOK' /\ qty' + byHand' <= Qty
  BY <1>26, <1>a, TypeFacts, LimitCompletesEffect DEF JobWritten, CallBecomes, posVars,
    restVars, TypeOK, TypeInv
<1>27. ASSUME NEW c \in Caller, LimitWaits(c)
      PROVE  TypeOK' /\ qty' + byHand' <= Qty
  BY <1>27, <1>a, TypeFacts, LimitWaitsEffect DEF CallBecomes, posVars, restVars, TypeOK,
    TypeInv
<1>28. ASSUME NEW c \in Caller, CancelOrder(c)
      PROVE  TypeOK' /\ qty' + byHand' <= Qty
  BY <1>28, <1>a, TypeFacts, CancelOrderMoves DEF JobWritten, CallBecomes, CallMoves, posVars,
    restVars, TypeOK, TypeInv
<1>29. ASSUME NEW c \in Caller, CancelWrite(c)
      PROVE  TypeOK' /\ qty' + byHand' <= Qty
  BY <1>29, <1>a, TypeFacts, CancelWriteEffect DEF JobWritten, CallBecomes, posVars, restVars,
    TypeOK, TypeInv
<1>30. ASSUME NEW c \in Caller, CallFails(c)
      PROVE  TypeOK' /\ qty' + byHand' <= Qty
  BY <1>30, <1>a, TypeFacts, CallEndsEffect DEF CallBecomes, posVars, restVars, TypeOK, TypeInv
<1>31. ASSUME NEW c \in Caller, CallDies(c)
      PROVE  TypeOK' /\ qty' + byHand' <= Qty
  BY <1>31, <1>a, TypeFacts, CallEndsEffect DEF CallBecomes, posVars, restVars, TypeOK, TypeInv
<1>32. ASSUME TsgReset
      PROVE  TypeOK' /\ qty' + byHand' <= Qty
  BY <1>32, <1>a, TypeFacts DEF TsgReset, posVars, restVars, TypeOK, TypeInv
<1>33. ASSUME NEW j \in Job, JobAges(j)
      PROVE  TypeOK' /\ qty' + byHand' <= Qty
  BY <1>33, <1>a, TypeFacts DEF JobAges, posVars, restVars, TypeOK, TypeInv
<1>34. ASSUME NEW o \in Order, Fill(o)
      PROVE  TypeOK' /\ qty' + byHand' <= Qty
  BY <1>34, <1>a, TypeFacts, FillsEffect DEF OrderMoves, posVars, restVars, TypeOK, TypeInv
<1>35. ASSUME NEW o \in Order, ExchangeCancels(o)
      PROVE  TypeOK' /\ qty' + byHand' <= Qty
  BY <1>35, <1>a, TypeFacts, ExchangeCancelsEffect DEF OrderMoves, posVars, restVars, TypeOK,
    TypeInv
<1>36. ASSUME HandSale
      PROVE  TypeOK' /\ qty' + byHand' <= Qty
  BY <1>36, <1>a, TypeFacts DEF HandSale, posVars, restVars, AllButTsg, TypeOK, TypeInv
<1>37. ASSUME LockExpires
      PROVE  TypeOK' /\ qty' + byHand' <= Qty
  BY <1>37, <1>a, TypeFacts DEF LockExpires, posVars, restVars, TypeOK, TypeInv
<1>38. CASE UNCHANGED vars
  BY <1>38, <1>a DEF vars, posVars, TypeOK, TypeInv
<1> QED
  BY <1>1, <1>2, <1>3, <1>4, <1>5, <1>6, <1>7, <1>8, <1>9, <1>10, <1>11, <1>12, <1>13, <1>14,
    <1>15, <1>16, <1>17, <1>18, <1>19, <1>20, <1>21, <1>22, <1>23, <1>24, <1>25, <1>26, <1>27, <1>28, <1>29, <1>30, <1>31, <1>32, <1>33, <1>34, <1>35, <1>36, <1>37,
    <1>38 DEF Next, Executor, Continue

\* Every step keeps that the executor names what exists.
LEMMA ExNamesStep == TypeInv /\ [Next]_vars => ExNames'
<1> SUFFICES ASSUME TypeInv, [Next]_vars PROVE ExNames'
  OBVIOUS
<1>a. TypeInv /\ TypeOK /\ Qty \in Nat
  BY SellOrdersAssumption DEF TypeInv
<1>1. ASSUME NEW j \in Job, Take(j)
     PROVE  ExNames'
  BY <1>1, <1>a, TypeFacts DEF Take, posVars, restVars, ExNames, TypeInv, OrderPhase, Created,
    RowNames, ExIdle
<1>2. ASSUME Mark
     PROVE  ExNames'
  BY <1>2, <1>a, TypeFacts, MarkEffect DEF JobWritten, ExGoes, posVars, restVars, ExNames,
    TypeInv, OrderPhase, Created
<1>3. ASSUME CheckFails
     PROVE  ExNames'
  BY <1>3, <1>a, TypeFacts, CheckFailsEffect DEF JobWritten, posVars, restVars, ExNames,
    TypeInv, OrderPhase, Created
<1>4. ASSUME CheckPasses
     PROVE  ExNames'
  BY <1>4, <1>a, TypeFacts, CheckPassesEffect DEF ExGoes, posVars, restVars, ExNames, TypeInv,
    OrderPhase, Created
<1>5. ASSUME AcquireLock
     PROVE  ExNames'
  BY <1>5, <1>a, TypeFacts, AcquireEffect DEF ExGoes, posVars, restVars, ExNames, TypeInv,
    OrderPhase, Created
<1>6. ASSUME LockRefused
     PROVE  ExNames'
  BY <1>6, <1>a, TypeFacts, LockRefusedEffect DEF JobWritten, posVars, restVars, ExNames,
    TypeInv, OrderPhase, Created
<1>7. ASSUME NEW o \in Order, Submit(o)
     PROVE  ExNames'
  BY <1>7, <1>a, TypeFacts, SubmitEffect DEF OrderPlaced, posVars, restVars, ExNames, TypeInv,
    OrderPhase, Created
<1>8. ASSUME NEW o \in Order, SubmitTimesOut(o)
     PROVE  ExNames'
  BY <1>8, <1>a, TypeFacts, SubmitTimesOutEffect DEF OrderPlaced, JobWritten, posVars,
    restVars, ExNames, TypeInv, OrderPhase, Created
<1>9. ASSUME SubmitRefused
     PROVE  ExNames'
  BY <1>9, <1>a, TypeFacts, SubmitRefusedEffect DEF JobWritten, posVars, restVars, ExNames,
    TypeInv, OrderPhase, Created
<1>10. ASSUME Record
      PROVE  ExNames'
  BY <1>10, <1>a, TypeFacts, RecordedEffect DEF ExGoes, posVars, restVars, ExNames, TypeInv,
    OrderPhase, Created
<1>11. ASSUME Rest
      PROVE  ExNames'
  BY <1>11, <1>a, TypeFacts, RestEffect DEF JobWritten, posVars, restVars, ExNames, TypeInv,
    OrderPhase, Created
<1>12. ASSUME BookExecution
      PROVE  ExNames'
  BY <1>12, <1>a, TypeFacts, BookExecutionEffect DEF Booked, ExGoes, posVars, restVars,
    ExNames, TypeInv, OrderPhase, Created
<1>13. ASSUME Complete
      PROVE  ExNames'
  BY <1>13, <1>a, TypeFacts, CompleteEffect DEF JobWritten, posVars, restVars, ExNames,
    TypeInv, OrderPhase, Created
<1>14. ASSUME ExecutorCrash
      PROVE  ExNames'
  BY <1>14, <1>a, TypeFacts DEF ExecutorCrash, posVars, restVars, ExNames, TypeInv, OrderPhase,
    Created
<1>15. ASSUME NEW c \in Caller, NEW q \in 1..Qty, NEW ty \in OrderType, CloseRequest(c, q, ty)
      PROVE  ExNames'
  BY <1>15, <1>a, TypeFacts, CloseRequestEffect DEF CallBecomes, posVars, restVars, ExNames,
    TypeInv, OrderPhase, Created
<1>16. ASSUME NEW c \in Caller, NEW t \in Trigger, TriggerCheck(c, t)
      PROVE  ExNames'
  BY <1>16, <1>a, TypeFacts, TriggerCheckEffect DEF CallBecomes, posVars, restVars, ExNames,
    TypeInv, OrderPhase, Created
<1>17. ASSUME NEW c \in Caller, NEW j \in Job, LimitRead(c, j)
      PROVE  ExNames'
  BY <1>17, <1>a, TypeFacts, LimitReadEffect DEF CallBecomes, posVars, restVars, ExNames,
    TypeInv, OrderPhase, Created
<1>18. ASSUME NEW c \in Caller, NEW j \in Job, CancelRequest(c, j)
      PROVE  ExNames'
  BY <1>18, <1>a, TypeFacts, CancelRequestEffect DEF CallBecomes, posVars, restVars, ExNames,
    TypeInv, OrderPhase, Created
<1>19. ASSUME NEW c \in Caller, TriggerFlag(c)
      PROVE  ExNames'
  BY <1>19, <1>a, TypeFacts, TriggerFlagEffect DEF CallMoves, CallBecomes, posVars, restVars,
    ExNames, TypeInv, OrderPhase, Created
<1>20. ASSUME NEW c \in Caller, TriggerConfirm(c)
      PROVE  ExNames'
  BY <1>20, <1>a, TypeFacts, TriggerConfirmEffect DEF CallMoves, CallBecomes, posVars,
    restVars, ExNames, TypeInv, OrderPhase, Created
<1>21. ASSUME NEW c \in Caller, NEW j \in Job, CreateJob(c, j)
      PROVE  ExNames'
  BY <1>21, <1>a, TypeFacts, CreateJobEffect DEF posVars, restVars, ExNames, TypeInv,
    OrderPhase, Created
<1>22. ASSUME NEW c \in Caller, Enqueue(c)
      PROVE  ExNames'
  BY <1>22, <1>a, TypeFacts, EnqueueEffect DEF CallBecomes, posVars, restVars, ExNames,
    TypeInv, OrderPhase, Created
<1>23. ASSUME NEW c \in Caller, LimitExpired(c)
      PROVE  ExNames'
  BY <1>23, <1>a, TypeFacts, LimitExpiredEffect DEF JobWritten, CallBecomes, posVars, restVars,
    ExNames, TypeInv, OrderPhase, Created
<1>24. ASSUME NEW c \in Caller, LimitClosed(c)
      PROVE  ExNames'
  BY <1>24, <1>a, TypeFacts, LimitClosedWrites DEF JobWritten, CallBecomes, CallMoves, posVars,
    restVars, ExNames, TypeInv, OrderPhase, Created
<1>25. ASSUME NEW c \in Caller, LimitFilled(c)
      PROVE  ExNames'
  BY <1>25, <1>a, TypeFacts, LimitFilledEffect DEF Booked, CallMoves, posVars, restVars,
    ExNames, TypeInv, OrderPhase, Created
<1>26. ASSUME NEW c \in Caller, LimitCompletes(c)
      PROVE  ExNames'
  BY <1>26, <1>a, TypeFacts, LimitCompletesEffect DEF JobWritten, CallBecomes, posVars,
    restVars, ExNames, TypeInv, OrderPhase, Created
<1>27. ASSUME NEW c \in Caller, LimitWaits(c)
      PROVE  ExNames'
  BY <1>27, <1>a, TypeFacts, LimitWaitsEffect DEF CallBecomes, posVars, restVars, ExNames,
    TypeInv, OrderPhase, Created
<1>28. ASSUME NEW c \in Caller, CancelOrder(c)
      PROVE  ExNames'
  BY <1>28, <1>a, TypeFacts, CancelOrderMoves DEF JobWritten, CallBecomes, CallMoves, posVars,
    restVars, ExNames, TypeInv, OrderPhase, Created
<1>29. ASSUME NEW c \in Caller, CancelWrite(c)
      PROVE  ExNames'
  BY <1>29, <1>a, TypeFacts, CancelWriteEffect DEF JobWritten, CallBecomes, posVars, restVars,
    ExNames, TypeInv, OrderPhase, Created
<1>30. ASSUME NEW c \in Caller, CallFails(c)
      PROVE  ExNames'
  BY <1>30, <1>a, TypeFacts, CallEndsEffect DEF CallBecomes, posVars, restVars, ExNames,
    TypeInv, OrderPhase, Created
<1>31. ASSUME NEW c \in Caller, CallDies(c)
      PROVE  ExNames'
  BY <1>31, <1>a, TypeFacts, CallEndsEffect DEF CallBecomes, posVars, restVars, ExNames,
    TypeInv, OrderPhase, Created
<1>32. ASSUME TsgReset
      PROVE  ExNames'
  BY <1>32, <1>a, TypeFacts DEF TsgReset, posVars, restVars, ExNames, TypeInv, OrderPhase,
    Created
<1>33. ASSUME NEW j \in Job, JobAges(j)
      PROVE  ExNames'
  BY <1>33, <1>a, TypeFacts DEF JobAges, posVars, restVars, ExNames, TypeInv, OrderPhase,
    Created
<1>34. ASSUME NEW o \in Order, Fill(o)
      PROVE  ExNames'
  BY <1>34, <1>a, TypeFacts, FillsEffect DEF OrderMoves, posVars, restVars, ExNames, TypeInv,
    OrderPhase, Created
<1>35. ASSUME NEW o \in Order, ExchangeCancels(o)
      PROVE  ExNames'
  BY <1>35, <1>a, TypeFacts, ExchangeCancelsEffect DEF OrderMoves, posVars, restVars, ExNames,
    TypeInv, OrderPhase, Created
<1>36. ASSUME HandSale
      PROVE  ExNames'
  BY <1>36, <1>a, TypeFacts DEF HandSale, posVars, restVars, AllButTsg, ExNames, TypeInv,
    OrderPhase, Created
<1>37. ASSUME LockExpires
      PROVE  ExNames'
  BY <1>37, <1>a, TypeFacts DEF LockExpires, posVars, restVars, ExNames, TypeInv, OrderPhase,
    Created
<1>38. CASE UNCHANGED vars
  BY <1>38, <1>a DEF vars, posVars, ExNames, TypeInv, OrderPhase, Created
<1> QED
  BY <1>1, <1>2, <1>3, <1>4, <1>5, <1>6, <1>7, <1>8, <1>9, <1>10, <1>11, <1>12, <1>13, <1>14,
    <1>15, <1>16, <1>17, <1>18, <1>19, <1>20, <1>21, <1>22, <1>23, <1>24, <1>25, <1>26, <1>27, <1>28, <1>29, <1>30, <1>31, <1>32, <1>33, <1>34, <1>35, <1>36, <1>37,
    <1>38 DEF Next, Executor, Continue

\* Every step keeps that the calls name what exists.
LEMMA CallNamesStep == TypeInv /\ [Next]_vars => CallNames'
<1> SUFFICES ASSUME TypeInv, [Next]_vars PROVE CallNames'
  OBVIOUS
<1>a. TypeInv /\ TypeOK /\ Qty \in Nat
  BY SellOrdersAssumption DEF TypeInv
<1>1. ASSUME NEW j \in Job, Take(j)
     PROVE  CallNames'
  BY <1>1, <1>a, TypeFacts DEF Take, posVars, restVars, CallNames, TypeInv, JobPhase, Created
<1>2. ASSUME Mark
     PROVE  CallNames'
  BY <1>2, <1>a, TypeFacts, MarkEffect DEF JobWritten, ExGoes, posVars, restVars, CallNames,
    TypeInv, JobPhase, Created
<1>3. ASSUME CheckFails
     PROVE  CallNames'
  BY <1>3, <1>a, TypeFacts, CheckFailsEffect DEF JobWritten, posVars, restVars, CallNames,
    TypeInv, JobPhase, Created
<1>4. ASSUME CheckPasses
     PROVE  CallNames'
  BY <1>4, <1>a, TypeFacts, CheckPassesEffect DEF ExGoes, posVars, restVars, CallNames,
    TypeInv, JobPhase, Created
<1>5. ASSUME AcquireLock
     PROVE  CallNames'
  BY <1>5, <1>a, TypeFacts, AcquireEffect DEF ExGoes, posVars, restVars, CallNames, TypeInv,
    JobPhase, Created
<1>6. ASSUME LockRefused
     PROVE  CallNames'
  BY <1>6, <1>a, TypeFacts, LockRefusedEffect DEF JobWritten, posVars, restVars, CallNames,
    TypeInv, JobPhase, Created
<1>7. ASSUME NEW o \in Order, Submit(o)
     PROVE  CallNames'
  BY <1>7, <1>a, TypeFacts, SubmitEffect DEF OrderPlaced, posVars, restVars, CallNames,
    TypeInv, JobPhase, Created
<1>8. ASSUME NEW o \in Order, SubmitTimesOut(o)
     PROVE  CallNames'
  BY <1>8, <1>a, TypeFacts, SubmitTimesOutEffect DEF OrderPlaced, JobWritten, posVars,
    restVars, CallNames, TypeInv, JobPhase, Created
<1>9. ASSUME SubmitRefused
     PROVE  CallNames'
  BY <1>9, <1>a, TypeFacts, SubmitRefusedEffect DEF JobWritten, posVars, restVars, CallNames,
    TypeInv, JobPhase, Created
<1>10. ASSUME Record
      PROVE  CallNames'
  BY <1>10, <1>a, TypeFacts, RecordedEffect DEF ExGoes, posVars, restVars, CallNames, TypeInv,
    JobPhase, Created
<1>11. ASSUME Rest
      PROVE  CallNames'
  BY <1>11, <1>a, TypeFacts, RestEffect DEF JobWritten, posVars, restVars, CallNames, TypeInv,
    JobPhase, Created
<1>12. ASSUME BookExecution
      PROVE  CallNames'
  BY <1>12, <1>a, TypeFacts, BookExecutionEffect DEF Booked, ExGoes, posVars, restVars,
    CallNames, TypeInv, JobPhase, Created
<1>13. ASSUME Complete
      PROVE  CallNames'
  BY <1>13, <1>a, TypeFacts, CompleteEffect DEF JobWritten, posVars, restVars, CallNames,
    TypeInv, JobPhase, Created
<1>14. ASSUME ExecutorCrash
      PROVE  CallNames'
  BY <1>14, <1>a, TypeFacts DEF ExecutorCrash, posVars, restVars, CallNames, TypeInv, JobPhase,
    Created
<1>15. ASSUME NEW c \in Caller, NEW q \in 1..Qty, NEW ty \in OrderType, CloseRequest(c, q, ty)
      PROVE  CallNames'
  BY <1>15, <1>a, TypeFacts, CloseRequestEffect DEF CallBecomes, posVars, restVars, CallNames,
    TypeInv, JobPhase, Created
<1>16. ASSUME NEW c \in Caller, NEW t \in Trigger, TriggerCheck(c, t)
      PROVE  CallNames'
  BY <1>16, <1>a, TypeFacts, TriggerCheckEffect DEF CallBecomes, posVars, restVars, CallNames,
    TypeInv, JobPhase, Created
<1>17. ASSUME NEW c \in Caller, NEW j \in Job, LimitRead(c, j)
      PROVE  CallNames'
  BY <1>17, <1>a, TypeFacts, LimitReadEffect DEF CallBecomes, posVars, restVars, CallNames,
    TypeInv, JobPhase, Created
<1>18. ASSUME NEW c \in Caller, NEW j \in Job, CancelRequest(c, j)
      PROVE  CallNames'
  BY <1>18, <1>a, TypeFacts, CancelRequestEffect DEF CallBecomes, posVars, restVars, CallNames,
    TypeInv, JobPhase, Created
<1>19. ASSUME NEW c \in Caller, TriggerFlag(c)
      PROVE  CallNames'
  BY <1>19, <1>a, TypeFacts, TriggerFlagEffect DEF CallMoves, CallBecomes, posVars, restVars,
    CallNames, TypeInv, JobPhase, Created
<1>20. ASSUME NEW c \in Caller, TriggerConfirm(c)
      PROVE  CallNames'
  BY <1>20, <1>a, TypeFacts, TriggerConfirmEffect DEF CallMoves, CallBecomes, posVars,
    restVars, CallNames, TypeInv, JobPhase, Created
<1>21. ASSUME NEW c \in Caller, NEW j \in Job, CreateJob(c, j)
      PROVE  CallNames'
  BY <1>21, <1>a, TypeFacts, CreateJobEffect DEF posVars, restVars, CallNames, TypeInv,
    JobPhase, Created
<1>22. ASSUME NEW c \in Caller, Enqueue(c)
      PROVE  CallNames'
  BY <1>22, <1>a, TypeFacts, EnqueueEffect DEF CallBecomes, posVars, restVars, CallNames,
    TypeInv, JobPhase, Created
<1>23. ASSUME NEW c \in Caller, LimitExpired(c)
      PROVE  CallNames'
  BY <1>23, <1>a, TypeFacts, LimitExpiredEffect DEF JobWritten, CallBecomes, posVars, restVars,
    CallNames, TypeInv, JobPhase, Created
<1>24. ASSUME NEW c \in Caller, LimitClosed(c)
      PROVE  CallNames'
  BY <1>24, <1>a, TypeFacts, LimitClosedWrites DEF JobWritten, CallBecomes, CallMoves, posVars,
    restVars, CallNames, TypeInv, JobPhase, Created
<1>25. ASSUME NEW c \in Caller, LimitFilled(c)
      PROVE  CallNames'
  BY <1>25, <1>a, TypeFacts, LimitFilledEffect DEF Booked, CallMoves, posVars, restVars,
    CallNames, TypeInv, JobPhase, Created
<1>26. ASSUME NEW c \in Caller, LimitCompletes(c)
      PROVE  CallNames'
  BY <1>26, <1>a, TypeFacts, LimitCompletesEffect DEF JobWritten, CallBecomes, posVars,
    restVars, CallNames, TypeInv, JobPhase, Created
<1>27. ASSUME NEW c \in Caller, LimitWaits(c)
      PROVE  CallNames'
  BY <1>27, <1>a, TypeFacts, LimitWaitsEffect DEF CallBecomes, posVars, restVars, CallNames,
    TypeInv, JobPhase, Created
<1>28. ASSUME NEW c \in Caller, CancelOrder(c)
      PROVE  CallNames'
  BY <1>28, <1>a, TypeFacts, CancelOrderMoves DEF JobWritten, CallBecomes, CallMoves, posVars,
    restVars, CallNames, TypeInv, JobPhase, Created
<1>29. ASSUME NEW c \in Caller, CancelWrite(c)
      PROVE  CallNames'
  BY <1>29, <1>a, TypeFacts, CancelWriteEffect DEF JobWritten, CallBecomes, posVars, restVars,
    CallNames, TypeInv, JobPhase, Created
<1>30. ASSUME NEW c \in Caller, CallFails(c)
      PROVE  CallNames'
  BY <1>30, <1>a, TypeFacts, CallEndsEffect DEF CallBecomes, posVars, restVars, CallNames,
    TypeInv, JobPhase, Created
<1>31. ASSUME NEW c \in Caller, CallDies(c)
      PROVE  CallNames'
  BY <1>31, <1>a, TypeFacts, CallEndsEffect DEF CallBecomes, posVars, restVars, CallNames,
    TypeInv, JobPhase, Created
<1>32. ASSUME TsgReset
      PROVE  CallNames'
  BY <1>32, <1>a, TypeFacts DEF TsgReset, posVars, restVars, CallNames, TypeInv, JobPhase,
    Created
<1>33. ASSUME NEW j \in Job, JobAges(j)
      PROVE  CallNames'
  BY <1>33, <1>a, TypeFacts DEF JobAges, posVars, restVars, CallNames, TypeInv, JobPhase,
    Created
<1>34. ASSUME NEW o \in Order, Fill(o)
      PROVE  CallNames'
  BY <1>34, <1>a, TypeFacts, FillsEffect DEF OrderMoves, posVars, restVars, CallNames, TypeInv,
    JobPhase, Created
<1>35. ASSUME NEW o \in Order, ExchangeCancels(o)
      PROVE  CallNames'
  BY <1>35, <1>a, TypeFacts, ExchangeCancelsEffect DEF OrderMoves, posVars, restVars,
    CallNames, TypeInv, JobPhase, Created
<1>36. ASSUME HandSale
      PROVE  CallNames'
  BY <1>36, <1>a, TypeFacts DEF HandSale, posVars, restVars, AllButTsg, CallNames, TypeInv,
    JobPhase, Created
<1>37. ASSUME LockExpires
      PROVE  CallNames'
  BY <1>37, <1>a, TypeFacts DEF LockExpires, posVars, restVars, CallNames, TypeInv, JobPhase,
    Created
<1>38. CASE UNCHANGED vars
  BY <1>38, <1>a DEF vars, posVars, CallNames, TypeInv, JobPhase, Created
<1> QED
  BY <1>1, <1>2, <1>3, <1>4, <1>5, <1>6, <1>7, <1>8, <1>9, <1>10, <1>11, <1>12, <1>13, <1>14,
    <1>15, <1>16, <1>17, <1>18, <1>19, <1>20, <1>21, <1>22, <1>23, <1>24, <1>25, <1>26, <1>27, <1>28, <1>29, <1>30, <1>31, <1>32, <1>33, <1>34, <1>35, <1>36, <1>37,
    <1>38 DEF Next, Executor, Continue

\* Every step keeps that the rows name what exists.
LEMMA RowNamesStep == TypeInv /\ [Next]_vars => RowNames'
<1> SUFFICES ASSUME TypeInv, [Next]_vars PROVE RowNames'
  OBVIOUS
<1>a. TypeInv /\ TypeOK /\ Qty \in Nat
  BY SellOrdersAssumption DEF TypeInv
<1>1. ASSUME NEW j \in Job, Take(j)
     PROVE  RowNames'
  BY <1>1, <1>a, TypeFacts DEF Take, posVars, restVars, RowNames, TypeInv, Created
<1>2. ASSUME Mark
     PROVE  RowNames'
  BY <1>2, <1>a, TypeFacts, MarkEffect DEF JobWritten, ExGoes, posVars, restVars, RowNames,
    TypeInv, Created
<1>3. ASSUME CheckFails
     PROVE  RowNames'
  BY <1>3, <1>a, TypeFacts, CheckFailsEffect DEF JobWritten, posVars, restVars, RowNames,
    TypeInv, Created
<1>4. ASSUME CheckPasses
     PROVE  RowNames'
  BY <1>4, <1>a, TypeFacts, CheckPassesEffect DEF ExGoes, posVars, restVars, RowNames, TypeInv,
    Created
<1>5. ASSUME AcquireLock
     PROVE  RowNames'
  BY <1>5, <1>a, TypeFacts, AcquireEffect DEF ExGoes, posVars, restVars, RowNames, TypeInv,
    Created
<1>6. ASSUME LockRefused
     PROVE  RowNames'
  BY <1>6, <1>a, TypeFacts, LockRefusedEffect DEF JobWritten, posVars, restVars, RowNames,
    TypeInv, Created
<1>7. ASSUME NEW o \in Order, Submit(o)
     PROVE  RowNames'
  BY <1>7, <1>a, TypeFacts, SubmitEffect DEF OrderPlaced, posVars, restVars, RowNames, TypeInv,
    Created
<1>8. ASSUME NEW o \in Order, SubmitTimesOut(o)
     PROVE  RowNames'
  BY <1>8, <1>a, TypeFacts, SubmitTimesOutEffect DEF OrderPlaced, JobWritten, posVars,
    restVars, RowNames, TypeInv, Created
<1>9. ASSUME SubmitRefused
     PROVE  RowNames'
  BY <1>9, <1>a, TypeFacts, SubmitRefusedEffect DEF JobWritten, posVars, restVars, RowNames,
    TypeInv, Created
<1>10. ASSUME Record
      PROVE  RowNames'
  BY <1>10, <1>a, TypeFacts, RecordedEffect DEF ExGoes, posVars, restVars, RowNames, TypeInv,
    Created, ExNames
<1>11. ASSUME Rest
      PROVE  RowNames'
  BY <1>11, <1>a, TypeFacts, RestEffect DEF JobWritten, posVars, restVars, RowNames, TypeInv,
    Created
<1>12. ASSUME BookExecution
      PROVE  RowNames'
  BY <1>12, <1>a, TypeFacts, BookExecutionEffect DEF Booked, ExGoes, posVars, restVars,
    RowNames, TypeInv, Created
<1>13. ASSUME Complete
      PROVE  RowNames'
  BY <1>13, <1>a, TypeFacts, CompleteEffect DEF JobWritten, posVars, restVars, RowNames,
    TypeInv, Created
<1>14. ASSUME ExecutorCrash
      PROVE  RowNames'
  BY <1>14, <1>a, TypeFacts DEF ExecutorCrash, posVars, restVars, RowNames, TypeInv, Created,
    ExNames
<1>15. ASSUME NEW c \in Caller, NEW q \in 1..Qty, NEW ty \in OrderType, CloseRequest(c, q, ty)
      PROVE  RowNames'
  BY <1>15, <1>a, TypeFacts, CloseRequestEffect DEF CallBecomes, posVars, restVars, RowNames,
    TypeInv, Created
<1>16. ASSUME NEW c \in Caller, NEW t \in Trigger, TriggerCheck(c, t)
      PROVE  RowNames'
  BY <1>16, <1>a, TypeFacts, TriggerCheckEffect DEF CallBecomes, posVars, restVars, RowNames,
    TypeInv, Created
<1>17. ASSUME NEW c \in Caller, NEW j \in Job, LimitRead(c, j)
      PROVE  RowNames'
  BY <1>17, <1>a, TypeFacts, LimitReadEffect DEF CallBecomes, posVars, restVars, RowNames,
    TypeInv, Created
<1>18. ASSUME NEW c \in Caller, NEW j \in Job, CancelRequest(c, j)
      PROVE  RowNames'
  BY <1>18, <1>a, TypeFacts, CancelRequestEffect DEF CallBecomes, posVars, restVars, RowNames,
    TypeInv, Created
<1>19. ASSUME NEW c \in Caller, TriggerFlag(c)
      PROVE  RowNames'
  BY <1>19, <1>a, TypeFacts, TriggerFlagEffect DEF CallMoves, CallBecomes, posVars, restVars,
    RowNames, TypeInv, Created
<1>20. ASSUME NEW c \in Caller, TriggerConfirm(c)
      PROVE  RowNames'
  BY <1>20, <1>a, TypeFacts, TriggerConfirmEffect DEF CallMoves, CallBecomes, posVars,
    restVars, RowNames, TypeInv, Created
<1>21. ASSUME NEW c \in Caller, NEW j \in Job, CreateJob(c, j)
      PROVE  RowNames'
  BY <1>21, <1>a, TypeFacts, CreateJobEffect DEF posVars, restVars, RowNames, TypeInv, Created
<1>22. ASSUME NEW c \in Caller, Enqueue(c)
      PROVE  RowNames'
  BY <1>22, <1>a, TypeFacts, EnqueueEffect DEF CallBecomes, posVars, restVars, RowNames,
    TypeInv, Created, CallNames, JobPhase
<1>23. ASSUME NEW c \in Caller, LimitExpired(c)
      PROVE  RowNames'
  BY <1>23, <1>a, TypeFacts, LimitExpiredEffect DEF JobWritten, CallBecomes, posVars, restVars,
    RowNames, TypeInv, Created
<1>24. ASSUME NEW c \in Caller, LimitClosed(c)
      PROVE  RowNames'
  BY <1>24, <1>a, TypeFacts, LimitClosedWrites DEF JobWritten, CallBecomes, CallMoves, posVars,
    restVars, RowNames, TypeInv, Created, CallNames, JobPhase
<1>25. ASSUME NEW c \in Caller, LimitFilled(c)
      PROVE  RowNames'
  BY <1>25, <1>a, TypeFacts, LimitFilledEffect DEF Booked, CallMoves, posVars, restVars,
    RowNames, TypeInv, Created
<1>26. ASSUME NEW c \in Caller, LimitCompletes(c)
      PROVE  RowNames'
  BY <1>26, <1>a, TypeFacts, LimitCompletesEffect DEF JobWritten, CallBecomes, posVars,
    restVars, RowNames, TypeInv, Created
<1>27. ASSUME NEW c \in Caller, LimitWaits(c)
      PROVE  RowNames'
  BY <1>27, <1>a, TypeFacts, LimitWaitsEffect DEF CallBecomes, posVars, restVars, RowNames,
    TypeInv, Created
<1>28. ASSUME NEW c \in Caller, CancelOrder(c)
      PROVE  RowNames'
  BY <1>28, <1>a, TypeFacts, CancelOrderMoves DEF JobWritten, CallBecomes, CallMoves, posVars,
    restVars, RowNames, TypeInv, Created
<1>29. ASSUME NEW c \in Caller, CancelWrite(c)
      PROVE  RowNames'
  BY <1>29, <1>a, TypeFacts, CancelWriteEffect DEF JobWritten, CallBecomes, posVars, restVars,
    RowNames, TypeInv, Created
<1>30. ASSUME NEW c \in Caller, CallFails(c)
      PROVE  RowNames'
  BY <1>30, <1>a, TypeFacts, CallEndsEffect DEF CallBecomes, posVars, restVars, RowNames,
    TypeInv, Created
<1>31. ASSUME NEW c \in Caller, CallDies(c)
      PROVE  RowNames'
  BY <1>31, <1>a, TypeFacts, CallEndsEffect DEF CallBecomes, posVars, restVars, RowNames,
    TypeInv, Created
<1>32. ASSUME TsgReset
      PROVE  RowNames'
  BY <1>32, <1>a, TypeFacts DEF TsgReset, posVars, restVars, RowNames, TypeInv, Created
<1>33. ASSUME NEW j \in Job, JobAges(j)
      PROVE  RowNames'
  BY <1>33, <1>a, TypeFacts DEF JobAges, posVars, restVars, RowNames, TypeInv, Created
<1>34. ASSUME NEW o \in Order, Fill(o)
      PROVE  RowNames'
  BY <1>34, <1>a, TypeFacts, FillsEffect DEF OrderMoves, posVars, restVars, RowNames, TypeInv,
    Created
<1>35. ASSUME NEW o \in Order, ExchangeCancels(o)
      PROVE  RowNames'
  BY <1>35, <1>a, TypeFacts, ExchangeCancelsEffect DEF OrderMoves, posVars, restVars, RowNames,
    TypeInv, Created
<1>36. ASSUME HandSale
      PROVE  RowNames'
  BY <1>36, <1>a, TypeFacts DEF HandSale, posVars, restVars, AllButTsg, RowNames, TypeInv,
    Created
<1>37. ASSUME LockExpires
      PROVE  RowNames'
  BY <1>37, <1>a, TypeFacts DEF LockExpires, posVars, restVars, RowNames, TypeInv, Created
<1>38. CASE UNCHANGED vars
  BY <1>38, <1>a DEF vars, posVars, RowNames, TypeInv, Created
<1> QED
  BY <1>1, <1>2, <1>3, <1>4, <1>5, <1>6, <1>7, <1>8, <1>9, <1>10, <1>11, <1>12, <1>13, <1>14,
    <1>15, <1>16, <1>17, <1>18, <1>19, <1>20, <1>21, <1>22, <1>23, <1>24, <1>25, <1>26, <1>27, <1>28, <1>29, <1>30, <1>31, <1>32, <1>33, <1>34, <1>35, <1>36, <1>37,
    <1>38 DEF Next, Executor, Continue

\* Every step keeps the types and the names.
LEMMA TypeStep == TypeInv /\ [Next]_vars => TypeInv'
  BY TypeOKStep, ExNamesStep, CallNamesStep, RowNamesStep DEF TypeInv

\* Every step keeps that a job is delivered once at a time.
LEMMA OneDeliveryStep == TypeInv /\ DeliveryInv /\ [Next]_vars => OneDelivery'
<1> SUFFICES ASSUME TypeInv /\ DeliveryInv, [Next]_vars PROVE OneDelivery'
  OBVIOUS
<1>a. TypeInv /\ DeliveryInv /\ TypeOK /\ Qty \in Nat
  BY SellOrdersAssumption DEF TypeInv
<1>1. ASSUME NEW j \in Job, Take(j)
     PROVE  OneDelivery'
  BY <1>1, <1>a, TypeFacts DEF Take, posVars, restVars, OneDelivery, DeliveryInv, TypeInv,
    RowNames, ExIdle, Created
<1>2. ASSUME Mark
     PROVE  OneDelivery'
  BY <1>2, <1>a, TypeFacts, MarkEffect DEF JobWritten, ExGoes, posVars, restVars, OneDelivery,
    DeliveryInv, TypeInv
<1>3. ASSUME CheckFails
     PROVE  OneDelivery'
  BY <1>3, <1>a, TypeFacts, NameFacts, CheckFailsEffect DEF JobWritten, posVars, restVars,
    OneDelivery, DeliveryInv, TypeInv, JobPhase
<1>4. ASSUME CheckPasses
     PROVE  OneDelivery'
  BY <1>4, <1>a, TypeFacts, CheckPassesEffect DEF ExGoes, posVars, restVars, OneDelivery,
    DeliveryInv, TypeInv
<1>5. ASSUME AcquireLock
     PROVE  OneDelivery'
  BY <1>5, <1>a, TypeFacts, AcquireEffect DEF ExGoes, posVars, restVars, OneDelivery,
    DeliveryInv, TypeInv
<1>6. ASSUME LockRefused
     PROVE  OneDelivery'
  BY <1>6, <1>a, TypeFacts, NameFacts, LockRefusedEffect DEF JobWritten, posVars, restVars,
    OneDelivery, DeliveryInv, TypeInv, JobPhase
<1>7. ASSUME NEW o \in Order, Submit(o)
     PROVE  OneDelivery'
  BY <1>7, <1>a, TypeFacts, SubmitEffect DEF OrderPlaced, posVars, restVars, OneDelivery,
    DeliveryInv, TypeInv
<1>8. ASSUME NEW o \in Order, SubmitTimesOut(o)
     PROVE  OneDelivery'
  BY <1>8, <1>a, TypeFacts, NameFacts, SubmitTimesOutEffect DEF OrderPlaced, JobWritten, posVars,
    restVars, OneDelivery, DeliveryInv, TypeInv, JobPhase
<1>9. ASSUME SubmitRefused
     PROVE  OneDelivery'
  BY <1>9, <1>a, TypeFacts, NameFacts, SubmitRefusedEffect DEF JobWritten, posVars, restVars,
    OneDelivery, DeliveryInv, TypeInv, JobPhase
<1>10. ASSUME Record
      PROVE  OneDelivery'
  BY <1>10, <1>a, TypeFacts, RecordedEffect DEF ExGoes, posVars, restVars, OneDelivery,
    DeliveryInv, TypeInv
<1>11. ASSUME Rest
      PROVE  OneDelivery'
  BY <1>11, <1>a, TypeFacts, NameFacts, RestEffect DEF JobWritten, posVars, restVars, OneDelivery,
    DeliveryInv, TypeInv, JobPhase
<1>12. ASSUME BookExecution
      PROVE  OneDelivery'
  BY <1>12, <1>a, TypeFacts, BookExecutionEffect DEF Booked, ExGoes, posVars, restVars,
    OneDelivery, DeliveryInv, TypeInv
<1>13. ASSUME Complete
      PROVE  OneDelivery'
  BY <1>13, <1>a, TypeFacts, NameFacts, CompleteEffect DEF JobWritten, posVars, restVars,
    OneDelivery, DeliveryInv, TypeInv, JobPhase
<1>14. ASSUME ExecutorCrash
      PROVE  OneDelivery'
  BY <1>14, <1>a, TypeFacts, NameFacts DEF ExecutorCrash, posVars, restVars, OneDelivery,
    DeliveryInv, TypeInv, JobPhase
<1>15. ASSUME NEW c \in Caller, NEW q \in 1..Qty, NEW ty \in OrderType, CloseRequest(c, q, ty)
      PROVE  OneDelivery'
  BY <1>15, <1>a, TypeFacts, CloseRequestEffect DEF CallBecomes, posVars, restVars,
    OneDelivery, DeliveryInv, TypeInv
<1>16. ASSUME NEW c \in Caller, NEW t \in Trigger, TriggerCheck(c, t)
      PROVE  OneDelivery'
  BY <1>16, <1>a, TypeFacts, TriggerCheckEffect DEF CallBecomes, posVars, restVars,
    OneDelivery, DeliveryInv, TypeInv
<1>17. ASSUME NEW c \in Caller, NEW j \in Job, LimitRead(c, j)
      PROVE  OneDelivery'
  BY <1>17, <1>a, TypeFacts, LimitReadEffect DEF CallBecomes, posVars, restVars, OneDelivery,
    DeliveryInv, TypeInv
<1>18. ASSUME NEW c \in Caller, NEW j \in Job, CancelRequest(c, j)
      PROVE  OneDelivery'
  BY <1>18, <1>a, TypeFacts, CancelRequestEffect DEF CallBecomes, posVars, restVars,
    OneDelivery, DeliveryInv, TypeInv
<1>19. ASSUME NEW c \in Caller, TriggerFlag(c)
      PROVE  OneDelivery'
  BY <1>19, <1>a, TypeFacts, TriggerFlagEffect DEF CallMoves, CallBecomes, posVars, restVars,
    OneDelivery, DeliveryInv, TypeInv
<1>20. ASSUME NEW c \in Caller, TriggerConfirm(c)
      PROVE  OneDelivery'
  BY <1>20, <1>a, TypeFacts, TriggerConfirmEffect DEF CallMoves, CallBecomes, posVars,
    restVars, OneDelivery, DeliveryInv, TypeInv
<1>21. ASSUME NEW c \in Caller, NEW j \in Job, CreateJob(c, j)
      PROVE  OneDelivery'
  BY <1>21, <1>a, TypeFacts, CreateJobEffect DEF posVars, restVars, OneDelivery, DeliveryInv,
    TypeInv, ExNames, RowNames, CallNames, JobPhase, Created
<1>22. ASSUME NEW c \in Caller, Enqueue(c)
      PROVE  OneDelivery'
  BY <1>22, <1>a, TypeFacts, EnqueueEffect DEF CallBecomes, posVars, restVars, OneDelivery,
    DeliveryInv, TypeInv
<1>23. ASSUME NEW c \in Caller, LimitExpired(c)
      PROVE  OneDelivery'
  BY <1>23, <1>a, TypeFacts, LimitExpiredEffect DEF JobWritten, CallBecomes, posVars, restVars,
    OneDelivery, DeliveryInv, TypeInv
<1>24. ASSUME NEW c \in Caller, LimitClosed(c)
      PROVE  OneDelivery'
  BY <1>24, <1>a, TypeFacts, LimitClosedWrites DEF JobWritten, CallBecomes, CallMoves, posVars,
    restVars, OneDelivery, DeliveryInv, TypeInv
<1>25. ASSUME NEW c \in Caller, LimitFilled(c)
      PROVE  OneDelivery'
  BY <1>25, <1>a, TypeFacts, LimitFilledEffect DEF Booked, CallMoves, posVars, restVars,
    OneDelivery, DeliveryInv, TypeInv
<1>26. ASSUME NEW c \in Caller, LimitCompletes(c)
      PROVE  OneDelivery'
  BY <1>26, <1>a, TypeFacts, LimitCompletesEffect DEF JobWritten, CallBecomes, posVars,
    restVars, OneDelivery, DeliveryInv, TypeInv
<1>27. ASSUME NEW c \in Caller, LimitWaits(c)
      PROVE  OneDelivery'
  BY <1>27, <1>a, TypeFacts, LimitWaitsEffect DEF CallBecomes, posVars, restVars, OneDelivery,
    DeliveryInv, TypeInv
<1>28. ASSUME NEW c \in Caller, CancelOrder(c)
      PROVE  OneDelivery'
  BY <1>28, <1>a, TypeFacts, CancelOrderMoves DEF JobWritten, CallBecomes, CallMoves, posVars,
    restVars, OneDelivery, DeliveryInv, TypeInv
<1>29. ASSUME NEW c \in Caller, CancelWrite(c)
      PROVE  OneDelivery'
  BY <1>29, <1>a, TypeFacts, CancelWriteEffect DEF JobWritten, CallBecomes, posVars, restVars,
    OneDelivery, DeliveryInv, TypeInv
<1>30. ASSUME NEW c \in Caller, CallFails(c)
      PROVE  OneDelivery'
  BY <1>30, <1>a, TypeFacts, CallEndsEffect DEF CallBecomes, posVars, restVars, OneDelivery,
    DeliveryInv, TypeInv
<1>31. ASSUME NEW c \in Caller, CallDies(c)
      PROVE  OneDelivery'
  BY <1>31, <1>a, TypeFacts, CallEndsEffect DEF CallBecomes, posVars, restVars, OneDelivery,
    DeliveryInv, TypeInv
<1>32. ASSUME TsgReset
      PROVE  OneDelivery'
  BY <1>32, <1>a, TypeFacts DEF TsgReset, posVars, restVars, OneDelivery, DeliveryInv, TypeInv
<1>33. ASSUME NEW j \in Job, JobAges(j)
      PROVE  OneDelivery'
  BY <1>33, <1>a, TypeFacts DEF JobAges, posVars, restVars, OneDelivery, DeliveryInv, TypeInv
<1>34. ASSUME NEW o \in Order, Fill(o)
      PROVE  OneDelivery'
  BY <1>34, <1>a, TypeFacts, FillsEffect DEF OrderMoves, posVars, restVars, OneDelivery,
    DeliveryInv, TypeInv
<1>35. ASSUME NEW o \in Order, ExchangeCancels(o)
      PROVE  OneDelivery'
  <2>1. UNCHANGED <<queue, ex, call>>
    BY <1>35, <1>a, ExchangeCancelsEffect DEF restVars
  <2> QED
    BY <1>a, <2>1 DEF OneDelivery, DeliveryInv
<1>36. ASSUME HandSale
      PROVE  OneDelivery'
  BY <1>36, <1>a, TypeFacts DEF HandSale, posVars, restVars, AllButTsg, OneDelivery,
    DeliveryInv, TypeInv
<1>37. ASSUME LockExpires
      PROVE  OneDelivery'
  BY <1>37, <1>a, TypeFacts DEF LockExpires, posVars, restVars, OneDelivery, DeliveryInv,
    TypeInv
<1>38. CASE UNCHANGED vars
  BY <1>38, <1>a DEF vars, posVars, OneDelivery, DeliveryInv, TypeInv
<1> QED
  BY <1>1, <1>2, <1>3, <1>4, <1>5, <1>6, <1>7, <1>8, <1>9, <1>10, <1>11, <1>12, <1>13, <1>14,
    <1>15, <1>16, <1>17, <1>18, <1>19, <1>20, <1>21, <1>22, <1>23, <1>24, <1>25, <1>26, <1>27, <1>28, <1>29, <1>30, <1>31, <1>32, <1>33, <1>34, <1>35, <1>36, <1>37,
    <1>38 DEF Next, Executor, Continue

\* Every step keeps that a job that rests with an order is not on its way.
LEMMA RestsDeliveredStep == TypeInv /\ DeliveryInv /\ [Next]_vars => RestsDelivered'
<1> SUFFICES ASSUME TypeInv /\ DeliveryInv, [Next]_vars PROVE RestsDelivered'
  OBVIOUS
<1>a. TypeInv /\ DeliveryInv /\ TypeOK /\ Qty \in Nat
  BY SellOrdersAssumption DEF TypeInv
<1>1. ASSUME NEW j \in Job, Take(j)
     PROVE  RestsDelivered'
  <2>1. j \in queue /\ queue' = queue \ {j} /\ UNCHANGED <<job, call>>
    BY <1>1 DEF Take
  <2>2. \A k : Undelivered(k)' => Undelivered(k)
    BY <1>1, <2>1 DEF Take, Undelivered, ToQueue, ExIdle
  <2> QED
    BY <1>a, <2>1, <2>2 DEF DeliveryInv, RestsDelivered
<1>2. ASSUME Mark
     PROVE  RestsDelivered'
  BY <1>2, <1>a, TypeFacts, MarkEffect DEF JobWritten, ExGoes, posVars, restVars, OneDelivery,
    RestsDelivered, ExStatus, DeliveryInv, TypeInv, Undelivered, ToQueue, LimitPhase
<1>3. ASSUME CheckFails
     PROVE  RestsDelivered'
  BY <1>3, <1>a, TypeFacts, NameFacts, CheckFailsEffect DEF JobWritten, posVars, restVars,
    OneDelivery, RestsDelivered, ExStatus, DeliveryInv, TypeInv, Undelivered, ToQueue,
    LimitPhase, JobPhase, ExIdle
<1>4. ASSUME CheckPasses
     PROVE  RestsDelivered'
  BY <1>4, <1>a, TypeFacts, CheckPassesEffect DEF ExGoes, posVars, restVars, OneDelivery,
    RestsDelivered, ExStatus, DeliveryInv, TypeInv, Undelivered, ToQueue, LimitPhase
<1>5. ASSUME AcquireLock
     PROVE  RestsDelivered'
  BY <1>5, <1>a, TypeFacts, AcquireEffect DEF ExGoes, posVars, restVars, OneDelivery,
    RestsDelivered, ExStatus, DeliveryInv, TypeInv, Undelivered, ToQueue, LimitPhase
<1>6. ASSUME LockRefused
     PROVE  RestsDelivered'
  BY <1>6, <1>a, TypeFacts, NameFacts, LockRefusedEffect DEF JobWritten, posVars, restVars,
    OneDelivery, RestsDelivered, ExStatus, DeliveryInv, TypeInv, Undelivered, ToQueue,
    LimitPhase, JobPhase, ExIdle
<1>7. ASSUME NEW o \in Order, Submit(o)
     PROVE  RestsDelivered'
  BY <1>7, <1>a, TypeFacts, SubmitEffect DEF OrderPlaced, posVars, restVars, OneDelivery,
    RestsDelivered, ExStatus, DeliveryInv, TypeInv, Undelivered, ToQueue, LimitPhase
<1>8. ASSUME NEW o \in Order, SubmitTimesOut(o)
     PROVE  RestsDelivered'
  BY <1>8, <1>a, TypeFacts, NameFacts, SubmitTimesOutEffect DEF OrderPlaced, JobWritten, posVars,
    restVars, OneDelivery, RestsDelivered, ExStatus, DeliveryInv, TypeInv, Undelivered,
    ToQueue, LimitPhase, JobPhase, ExIdle
<1>9. ASSUME SubmitRefused
     PROVE  RestsDelivered'
  BY <1>9, <1>a, TypeFacts, NameFacts, SubmitRefusedEffect DEF JobWritten, posVars, restVars,
    OneDelivery, RestsDelivered, ExStatus, DeliveryInv, TypeInv, Undelivered, ToQueue,
    LimitPhase, JobPhase, ExIdle
<1>10. ASSUME Record
      PROVE  RestsDelivered'
  BY <1>10, <1>a, TypeFacts, RecordedEffect DEF ExGoes, posVars, restVars, OneDelivery,
    RestsDelivered, ExStatus, DeliveryInv, TypeInv, Undelivered, ToQueue, LimitPhase
<1>11. ASSUME Rest
      PROVE  RestsDelivered'
  BY <1>11, <1>a, TypeFacts, NameFacts, RestEffect DEF JobWritten, posVars, restVars, OneDelivery,
    RestsDelivered, ExStatus, DeliveryInv, TypeInv, Undelivered, ToQueue, LimitPhase, JobPhase,
    ExIdle
<1>12. ASSUME BookExecution
      PROVE  RestsDelivered'
  BY <1>12, <1>a, TypeFacts, BookExecutionEffect DEF Booked, ExGoes, posVars, restVars,
    OneDelivery, RestsDelivered, ExStatus, DeliveryInv, TypeInv, Undelivered, ToQueue,
    LimitPhase
<1>13. ASSUME Complete
      PROVE  RestsDelivered'
  BY <1>13, <1>a, TypeFacts, NameFacts, CompleteEffect DEF JobWritten, posVars, restVars,
    OneDelivery, RestsDelivered, ExStatus, DeliveryInv, TypeInv, Undelivered, ToQueue,
    LimitPhase, JobPhase, ExIdle
<1>14. ASSUME ExecutorCrash
      PROVE  RestsDelivered'
  BY <1>14, <1>a, TypeFacts, NameFacts DEF ExecutorCrash, posVars, restVars, OneDelivery,
    RestsDelivered, ExStatus, DeliveryInv, TypeInv, Undelivered, ToQueue, LimitPhase, JobPhase,
    ExIdle
<1>15. ASSUME NEW c \in Caller, NEW q \in 1..Qty, NEW ty \in OrderType, CloseRequest(c, q, ty)
      PROVE  RestsDelivered'
  BY <1>15, <1>a, TypeFacts, CloseRequestEffect DEF CallBecomes, posVars, restVars,
    OneDelivery, RestsDelivered, ExStatus, DeliveryInv, TypeInv, Undelivered, ToQueue,
    LimitPhase
<1>16. ASSUME NEW c \in Caller, NEW t \in Trigger, TriggerCheck(c, t)
      PROVE  RestsDelivered'
  BY <1>16, <1>a, TypeFacts, TriggerCheckEffect DEF CallBecomes, posVars, restVars,
    OneDelivery, RestsDelivered, ExStatus, DeliveryInv, TypeInv, Undelivered, ToQueue,
    LimitPhase
<1>17. ASSUME NEW c \in Caller, NEW j \in Job, LimitRead(c, j)
      PROVE  RestsDelivered'
  BY <1>17, <1>a, TypeFacts, LimitReadEffect DEF CallBecomes, posVars, restVars, OneDelivery,
    RestsDelivered, ExStatus, DeliveryInv, TypeInv, Undelivered, ToQueue, LimitPhase
<1>18. ASSUME NEW c \in Caller, NEW j \in Job, CancelRequest(c, j)
      PROVE  RestsDelivered'
  BY <1>18, <1>a, TypeFacts, CancelRequestEffect DEF CallBecomes, posVars, restVars,
    OneDelivery, RestsDelivered, ExStatus, DeliveryInv, TypeInv, Undelivered, ToQueue,
    LimitPhase
<1>19. ASSUME NEW c \in Caller, TriggerFlag(c)
      PROVE  RestsDelivered'
  BY <1>19, <1>a, TypeFacts, TriggerFlagEffect DEF CallMoves, CallBecomes, posVars, restVars,
    OneDelivery, RestsDelivered, ExStatus, DeliveryInv, TypeInv, Undelivered, ToQueue,
    LimitPhase
<1>20. ASSUME NEW c \in Caller, TriggerConfirm(c)
      PROVE  RestsDelivered'
  BY <1>20, <1>a, TypeFacts, TriggerConfirmEffect DEF CallMoves, CallBecomes, posVars,
    restVars, OneDelivery, RestsDelivered, ExStatus, DeliveryInv, TypeInv, Undelivered,
    ToQueue, LimitPhase
<1>21. ASSUME NEW c \in Caller, NEW j \in Job, CreateJob(c, j)
      PROVE  RestsDelivered'
  BY <1>21, <1>a, TypeFacts, CreateJobEffect DEF posVars, restVars, OneDelivery,
    RestsDelivered, ExStatus, DeliveryInv, TypeInv, Undelivered, ToQueue, LimitPhase, ExNames,
    RowNames, CallNames, JobPhase, Created
<1>22. ASSUME NEW c \in Caller, Enqueue(c)
      PROVE  RestsDelivered'
  BY <1>22, <1>a, TypeFacts, EnqueueEffect DEF CallBecomes, posVars, restVars, OneDelivery,
    RestsDelivered, ExStatus, DeliveryInv, TypeInv, Undelivered, ToQueue, LimitPhase
<1>23. ASSUME NEW c \in Caller, LimitExpired(c)
      PROVE  RestsDelivered'
  BY <1>23, <1>a, TypeFacts, LimitExpiredEffect DEF JobWritten, CallBecomes, posVars, restVars,
    OneDelivery, RestsDelivered, ExStatus, DeliveryInv, TypeInv, Undelivered, ToQueue,
    LimitPhase
<1>24. ASSUME NEW c \in Caller, LimitClosed(c)
      PROVE  RestsDelivered'
  BY <1>24, <1>a, TypeFacts, LimitClosedWrites DEF JobWritten, CallBecomes, CallMoves, posVars,
    restVars, OneDelivery, RestsDelivered, ExStatus, DeliveryInv, TypeInv, Undelivered,
    ToQueue, LimitPhase
<1>25. ASSUME NEW c \in Caller, LimitFilled(c)
      PROVE  RestsDelivered'
  BY <1>25, <1>a, TypeFacts, LimitFilledEffect DEF Booked, CallMoves, posVars, restVars,
    OneDelivery, RestsDelivered, ExStatus, DeliveryInv, TypeInv, Undelivered, ToQueue,
    LimitPhase
<1>26. ASSUME NEW c \in Caller, LimitCompletes(c)
      PROVE  RestsDelivered'
  BY <1>26, <1>a, TypeFacts, LimitCompletesEffect DEF JobWritten, CallBecomes, posVars,
    restVars, OneDelivery, RestsDelivered, ExStatus, DeliveryInv, TypeInv, Undelivered,
    ToQueue, LimitPhase
<1>27. ASSUME NEW c \in Caller, LimitWaits(c)
      PROVE  RestsDelivered'
  BY <1>27, <1>a, TypeFacts, LimitWaitsEffect DEF CallBecomes, posVars, restVars, OneDelivery,
    RestsDelivered, ExStatus, DeliveryInv, TypeInv, Undelivered, ToQueue, LimitPhase
<1>28. ASSUME NEW c \in Caller, CancelOrder(c)
      PROVE  RestsDelivered'
  BY <1>28, <1>a, TypeFacts, CancelOrderMoves DEF JobWritten, CallBecomes, CallMoves, posVars,
    restVars, OneDelivery, RestsDelivered, ExStatus, DeliveryInv, TypeInv, Undelivered,
    ToQueue, LimitPhase
<1>29. ASSUME NEW c \in Caller, CancelWrite(c)
      PROVE  RestsDelivered'
  BY <1>29, <1>a, TypeFacts, CancelWriteEffect DEF JobWritten, CallBecomes, posVars, restVars,
    OneDelivery, RestsDelivered, ExStatus, DeliveryInv, TypeInv, Undelivered, ToQueue,
    LimitPhase
<1>30. ASSUME NEW c \in Caller, CallFails(c)
      PROVE  RestsDelivered'
  BY <1>30, <1>a, TypeFacts, CallEndsEffect DEF CallBecomes, posVars, restVars, OneDelivery,
    RestsDelivered, ExStatus, DeliveryInv, TypeInv, Undelivered, ToQueue, LimitPhase
<1>31. ASSUME NEW c \in Caller, CallDies(c)
      PROVE  RestsDelivered'
  BY <1>31, <1>a, TypeFacts, CallEndsEffect DEF CallBecomes, posVars, restVars, OneDelivery,
    RestsDelivered, ExStatus, DeliveryInv, TypeInv, Undelivered, ToQueue, LimitPhase
<1>32. ASSUME TsgReset
      PROVE  RestsDelivered'
  BY <1>32, <1>a, TypeFacts DEF TsgReset, posVars, restVars, OneDelivery, RestsDelivered,
    ExStatus, DeliveryInv, TypeInv, Undelivered, ToQueue, LimitPhase
<1>33. ASSUME NEW j \in Job, JobAges(j)
      PROVE  RestsDelivered'
  BY <1>33, <1>a, TypeFacts DEF JobAges, posVars, restVars, OneDelivery, RestsDelivered,
    ExStatus, DeliveryInv, TypeInv, Undelivered, ToQueue, LimitPhase
<1>34. ASSUME NEW o \in Order, Fill(o)
      PROVE  RestsDelivered'
  BY <1>34, <1>a, TypeFacts, FillsEffect DEF OrderMoves, posVars, restVars, OneDelivery,
    RestsDelivered, ExStatus, DeliveryInv, TypeInv, Undelivered, ToQueue, LimitPhase
<1>35. ASSUME NEW o \in Order, ExchangeCancels(o)
      PROVE  RestsDelivered'
  BY <1>35, <1>a, ExchangeCancelsEffect DEF posVars, restVars, RestsDelivered, Undelivered,
    ToQueue, DeliveryInv
<1>36. ASSUME HandSale
      PROVE  RestsDelivered'
  BY <1>36, <1>a, TypeFacts DEF HandSale, posVars, restVars, AllButTsg, OneDelivery,
    RestsDelivered, ExStatus, DeliveryInv, TypeInv, Undelivered, ToQueue, LimitPhase
<1>37. ASSUME LockExpires
      PROVE  RestsDelivered'
  BY <1>37, <1>a, TypeFacts DEF LockExpires, posVars, restVars, OneDelivery, RestsDelivered,
    ExStatus, DeliveryInv, TypeInv, Undelivered, ToQueue, LimitPhase
<1>38. CASE UNCHANGED vars
  BY <1>38, <1>a DEF vars, posVars, OneDelivery, RestsDelivered, ExStatus, DeliveryInv,
    TypeInv, Undelivered, ToQueue, LimitPhase
<1> QED
  BY <1>1, <1>2, <1>3, <1>4, <1>5, <1>6, <1>7, <1>8, <1>9, <1>10, <1>11, <1>12, <1>13, <1>14,
    <1>15, <1>16, <1>17, <1>18, <1>19, <1>20, <1>21, <1>22, <1>23, <1>24, <1>25, <1>26, <1>27, <1>28, <1>29, <1>30, <1>31, <1>32, <1>33, <1>34, <1>35, <1>36, <1>37,
    <1>38 DEF Next, Executor, Continue

\* Every step keeps that the executor's job is not FILLED or resting.
LEMMA ExStatusStep == TypeInv /\ DeliveryInv /\ [Next]_vars => ExStatus'
<1> SUFFICES ASSUME TypeInv /\ DeliveryInv, [Next]_vars PROVE ExStatus'
  OBVIOUS
<1>a. TypeInv /\ DeliveryInv /\ TypeOK /\ Qty \in Nat
  BY SellOrdersAssumption DEF TypeInv
<1>1. ASSUME NEW j \in Job, Take(j)
     PROVE  ExStatus'
  BY <1>1, <1>a, TypeFacts DEF Take, posVars, restVars, RestsDelivered, ExStatus, DeliveryInv,
    TypeInv, Undelivered, ToQueue, LimitPhase, ExIdle, RowNames, Created, FinalStatus
<1>2. ASSUME Mark
     PROVE  ExStatus'
  BY <1>2, <1>a, TypeFacts, MarkEffect DEF JobWritten, ExGoes, posVars, restVars,
    RestsDelivered, ExStatus, DeliveryInv, TypeInv, Undelivered, ToQueue, LimitPhase
<1>3. ASSUME CheckFails
     PROVE  ExStatus'
  BY <1>3, <1>a, TypeFacts, CheckFailsEffect DEF JobWritten, posVars, restVars, RestsDelivered,
    ExStatus, DeliveryInv, TypeInv, Undelivered, ToQueue, LimitPhase
<1>4. ASSUME CheckPasses
     PROVE  ExStatus'
  BY <1>4, <1>a, TypeFacts, CheckPassesEffect DEF ExGoes, posVars, restVars, RestsDelivered,
    ExStatus, DeliveryInv, TypeInv, Undelivered, ToQueue, LimitPhase
<1>5. ASSUME AcquireLock
     PROVE  ExStatus'
  BY <1>5, <1>a, TypeFacts, AcquireEffect DEF ExGoes, posVars, restVars, RestsDelivered,
    ExStatus, DeliveryInv, TypeInv, Undelivered, ToQueue, LimitPhase
<1>6. ASSUME LockRefused
     PROVE  ExStatus'
  BY <1>6, <1>a, TypeFacts, LockRefusedEffect DEF JobWritten, posVars, restVars,
    RestsDelivered, ExStatus, DeliveryInv, TypeInv, Undelivered, ToQueue, LimitPhase
<1>7. ASSUME NEW o \in Order, Submit(o)
     PROVE  ExStatus'
  BY <1>7, <1>a, TypeFacts, SubmitEffect DEF OrderPlaced, posVars, restVars, RestsDelivered,
    ExStatus, DeliveryInv, TypeInv, Undelivered, ToQueue, LimitPhase
<1>8. ASSUME NEW o \in Order, SubmitTimesOut(o)
     PROVE  ExStatus'
  BY <1>8, <1>a, TypeFacts, SubmitTimesOutEffect DEF OrderPlaced, JobWritten, posVars,
    restVars, RestsDelivered, ExStatus, DeliveryInv, TypeInv, Undelivered, ToQueue, LimitPhase
<1>9. ASSUME SubmitRefused
     PROVE  ExStatus'
  BY <1>9, <1>a, TypeFacts, SubmitRefusedEffect DEF JobWritten, posVars, restVars,
    RestsDelivered, ExStatus, DeliveryInv, TypeInv, Undelivered, ToQueue, LimitPhase
<1>10. ASSUME Record
      PROVE  ExStatus'
  BY <1>10, <1>a, TypeFacts, RecordedEffect DEF ExGoes, posVars, restVars, RestsDelivered,
    ExStatus, DeliveryInv, TypeInv, Undelivered, ToQueue, LimitPhase
<1>11. ASSUME Rest
      PROVE  ExStatus'
  BY <1>11, <1>a, TypeFacts, RestEffect DEF JobWritten, posVars, restVars, RestsDelivered,
    ExStatus, DeliveryInv, TypeInv, Undelivered, ToQueue, LimitPhase
<1>12. ASSUME BookExecution
      PROVE  ExStatus'
  BY <1>12, <1>a, TypeFacts, BookExecutionEffect DEF Booked, ExGoes, posVars, restVars,
    RestsDelivered, ExStatus, DeliveryInv, TypeInv, Undelivered, ToQueue, LimitPhase
<1>13. ASSUME Complete
      PROVE  ExStatus'
  BY <1>13, <1>a, TypeFacts, CompleteEffect DEF JobWritten, posVars, restVars, RestsDelivered,
    ExStatus, DeliveryInv, TypeInv, Undelivered, ToQueue, LimitPhase
<1>14. ASSUME ExecutorCrash
      PROVE  ExStatus'
  BY <1>14, <1>a, TypeFacts DEF ExecutorCrash, posVars, restVars, RestsDelivered, ExStatus,
    DeliveryInv, TypeInv, Undelivered, ToQueue, LimitPhase
<1>15. ASSUME NEW c \in Caller, NEW q \in 1..Qty, NEW ty \in OrderType, CloseRequest(c, q, ty)
      PROVE  ExStatus'
  BY <1>15, <1>a, TypeFacts, CloseRequestEffect DEF CallBecomes, posVars, restVars,
    RestsDelivered, ExStatus, DeliveryInv, TypeInv, Undelivered, ToQueue, LimitPhase
<1>16. ASSUME NEW c \in Caller, NEW t \in Trigger, TriggerCheck(c, t)
      PROVE  ExStatus'
  BY <1>16, <1>a, TypeFacts, TriggerCheckEffect DEF CallBecomes, posVars, restVars,
    RestsDelivered, ExStatus, DeliveryInv, TypeInv, Undelivered, ToQueue, LimitPhase
<1>17. ASSUME NEW c \in Caller, NEW j \in Job, LimitRead(c, j)
      PROVE  ExStatus'
  BY <1>17, <1>a, TypeFacts, LimitReadEffect DEF CallBecomes, posVars, restVars,
    RestsDelivered, ExStatus, DeliveryInv, TypeInv, Undelivered, ToQueue, LimitPhase
<1>18. ASSUME NEW c \in Caller, NEW j \in Job, CancelRequest(c, j)
      PROVE  ExStatus'
  BY <1>18, <1>a, TypeFacts, CancelRequestEffect DEF CallBecomes, posVars, restVars,
    RestsDelivered, ExStatus, DeliveryInv, TypeInv, Undelivered, ToQueue, LimitPhase
<1>19. ASSUME NEW c \in Caller, TriggerFlag(c)
      PROVE  ExStatus'
  BY <1>19, <1>a, TypeFacts, TriggerFlagEffect DEF CallMoves, CallBecomes, posVars, restVars,
    RestsDelivered, ExStatus, DeliveryInv, TypeInv, Undelivered, ToQueue, LimitPhase
<1>20. ASSUME NEW c \in Caller, TriggerConfirm(c)
      PROVE  ExStatus'
  BY <1>20, <1>a, TypeFacts, TriggerConfirmEffect DEF CallMoves, CallBecomes, posVars,
    restVars, RestsDelivered, ExStatus, DeliveryInv, TypeInv, Undelivered, ToQueue, LimitPhase
<1>21. ASSUME NEW c \in Caller, NEW j \in Job, CreateJob(c, j)
      PROVE  ExStatus'
  BY <1>21, <1>a, TypeFacts, CreateJobEffect DEF posVars, restVars, RestsDelivered, ExStatus,
    DeliveryInv, TypeInv, Undelivered, ToQueue, LimitPhase, ExNames, Created
<1>22. ASSUME NEW c \in Caller, Enqueue(c)
      PROVE  ExStatus'
  BY <1>22, <1>a, TypeFacts, EnqueueEffect DEF CallBecomes, posVars, restVars, RestsDelivered,
    ExStatus, DeliveryInv, TypeInv, Undelivered, ToQueue, LimitPhase
<1>23. ASSUME NEW c \in Caller, LimitExpired(c)
      PROVE  ExStatus'
  BY <1>23, <1>a, TypeFacts, LimitExpiredEffect DEF JobWritten, CallBecomes, posVars, restVars,
    RestsDelivered, ExStatus, DeliveryInv, TypeInv, Undelivered, ToQueue, LimitPhase
<1>24. ASSUME NEW c \in Caller, LimitClosed(c)
      PROVE  ExStatus'
  <2>1. call[c].order \in Order => call[c].job # ex.job
    BY <1>24, <1>a, TypeFacts, LimitClosedEffect DEF DeliveryInv, RestsDelivered, Undelivered, LimitPhase
  <2>2. PICK st \in {"CANCELED", "FILLED"} : JobWritten(call[c].job, st) /\ (call[c].job = ex.job => st # "FILLED")
    BY <1>24, <1>a, <2>1, LimitClosedEffect
  <2>3. UNCHANGED ex
    BY <1>24, <1>a, LimitClosedWrites
  <2> QED
    BY <1>a, <2>2, <2>3, TypeFacts DEF JobWritten, ExStatus, DeliveryInv
<1>25. ASSUME NEW c \in Caller, LimitFilled(c)
      PROVE  ExStatus'
  BY <1>25, <1>a, TypeFacts, LimitFilledEffect DEF Booked, CallMoves, posVars, restVars,
    RestsDelivered, ExStatus, DeliveryInv, TypeInv, Undelivered, ToQueue, LimitPhase
<1>26. ASSUME NEW c \in Caller, LimitCompletes(c)
      PROVE  ExStatus'
  BY <1>26, <1>a, TypeFacts, LimitCompletesEffect DEF JobWritten, CallBecomes, posVars,
    restVars, RestsDelivered, ExStatus, DeliveryInv, TypeInv, Undelivered, ToQueue, LimitPhase,
    CallNames
<1>27. ASSUME NEW c \in Caller, LimitWaits(c)
      PROVE  ExStatus'
  BY <1>27, <1>a, TypeFacts, LimitWaitsEffect DEF CallBecomes, posVars, restVars,
    RestsDelivered, ExStatus, DeliveryInv, TypeInv, Undelivered, ToQueue, LimitPhase
<1>28. ASSUME NEW c \in Caller, CancelOrder(c)
      PROVE  ExStatus'
  BY <1>28, <1>a, TypeFacts, CancelOrderMoves DEF JobWritten, CallBecomes, CallMoves, posVars,
    restVars, RestsDelivered, ExStatus, DeliveryInv, TypeInv, Undelivered, ToQueue, LimitPhase
<1>29. ASSUME NEW c \in Caller, CancelWrite(c)
      PROVE  ExStatus'
  BY <1>29, <1>a, TypeFacts, CancelWriteEffect DEF JobWritten, CallBecomes, posVars, restVars,
    RestsDelivered, ExStatus, DeliveryInv, TypeInv, Undelivered, ToQueue, LimitPhase
<1>30. ASSUME NEW c \in Caller, CallFails(c)
      PROVE  ExStatus'
  BY <1>30, <1>a, TypeFacts, CallEndsEffect DEF CallBecomes, posVars, restVars, RestsDelivered,
    ExStatus, DeliveryInv, TypeInv, Undelivered, ToQueue, LimitPhase
<1>31. ASSUME NEW c \in Caller, CallDies(c)
      PROVE  ExStatus'
  BY <1>31, <1>a, TypeFacts, CallEndsEffect DEF CallBecomes, posVars, restVars, RestsDelivered,
    ExStatus, DeliveryInv, TypeInv, Undelivered, ToQueue, LimitPhase
<1>32. ASSUME TsgReset
      PROVE  ExStatus'
  BY <1>32, <1>a, TypeFacts DEF TsgReset, posVars, restVars, RestsDelivered, ExStatus,
    DeliveryInv, TypeInv, Undelivered, ToQueue, LimitPhase
<1>33. ASSUME NEW j \in Job, JobAges(j)
      PROVE  ExStatus'
  BY <1>33, <1>a, TypeFacts DEF JobAges, posVars, restVars, RestsDelivered, ExStatus,
    DeliveryInv, TypeInv, Undelivered, ToQueue, LimitPhase
<1>34. ASSUME NEW o \in Order, Fill(o)
      PROVE  ExStatus'
  BY <1>34, <1>a, TypeFacts, FillsEffect DEF OrderMoves, posVars, restVars, RestsDelivered,
    ExStatus, DeliveryInv, TypeInv, Undelivered, ToQueue, LimitPhase
<1>35. ASSUME NEW o \in Order, ExchangeCancels(o)
      PROVE  ExStatus'
  BY <1>35, <1>a, TypeFacts, ExchangeCancelsEffect DEF OrderMoves, posVars, restVars,
    RestsDelivered, ExStatus, DeliveryInv, TypeInv, Undelivered, ToQueue, LimitPhase
<1>36. ASSUME HandSale
      PROVE  ExStatus'
  BY <1>36, <1>a, TypeFacts DEF HandSale, posVars, restVars, AllButTsg, RestsDelivered,
    ExStatus, DeliveryInv, TypeInv, Undelivered, ToQueue, LimitPhase
<1>37. ASSUME LockExpires
      PROVE  ExStatus'
  BY <1>37, <1>a, TypeFacts DEF LockExpires, posVars, restVars, RestsDelivered, ExStatus,
    DeliveryInv, TypeInv, Undelivered, ToQueue, LimitPhase
<1>38. CASE UNCHANGED vars
  BY <1>38, <1>a DEF vars, posVars, RestsDelivered, ExStatus, DeliveryInv, TypeInv,
    Undelivered, ToQueue, LimitPhase
<1> QED
  BY <1>1, <1>2, <1>3, <1>4, <1>5, <1>6, <1>7, <1>8, <1>9, <1>10, <1>11, <1>12, <1>13, <1>14,
    <1>15, <1>16, <1>17, <1>18, <1>19, <1>20, <1>21, <1>22, <1>23, <1>24, <1>25, <1>26, <1>27, <1>28, <1>29, <1>30, <1>31, <1>32, <1>33, <1>34, <1>35, <1>36, <1>37,
    <1>38 DEF Next, Executor, Continue

\* Initially no job is on its way.
LEMMA DeliveryInit == Init => DeliveryInv
  BY SellOrdersAssumption DEF Init, NoJob, ExIdle, NoCall, DeliveryInv, OneDelivery,
    RestsDelivered, ExStatus, LimitPhase

\* Every step delivers each job once at a time.
LEMMA DeliveryStep == TypeInv /\ DeliveryInv /\ [Next]_vars => DeliveryInv'
  BY OneDeliveryStep, RestsDeliveredStep, ExStatusStep DEF DeliveryInv

\* Types and deliveries are right in every reachable state.
LEMMA SpecDelivery == Spec => [](TypeInv /\ DeliveryInv)
<1>1. Init => TypeInv /\ DeliveryInv
  BY TypeInit, DeliveryInit
<1>2. TypeInv /\ DeliveryInv /\ [Next]_vars => (TypeInv /\ DeliveryInv)'
  BY TypeStep, DeliveryStep
<1> QED
  BY <1>1, <1>2, PTL DEF Spec

\* Types: of any number of jobs, orders and callers, whatever fails.
THEOREM TypeCorrect == Spec => []TypeOK
<1>1. TypeInv => TypeOK
  BY DEF TypeInv
<1> QED
  BY <1>1, SpecDelivery, PTL

\* No step makes a FILLED job EXECUTING.
LEMMA FilledStep == TypeInv /\ DeliveryInv /\ [Next]_vars => FilledKept
<1> SUFFICES ASSUME TypeInv /\ DeliveryInv, [Next]_vars PROVE FilledKept
  OBVIOUS
<1>a. TypeInv /\ DeliveryInv /\ TypeOK /\ Qty \in Nat
  BY SellOrdersAssumption DEF TypeInv
<1>1. ASSUME NEW j \in Job, Take(j)
     PROVE  FilledKept
  BY <1>1, <1>a, TypeFacts DEF Take, posVars, restVars, FilledKept, TypeInv, DeliveryInv
<1>2. ASSUME Mark
     PROVE  FilledKept
  BY <1>2, <1>a, TypeFacts, MarkEffect DEF JobWritten, ExGoes, posVars, restVars, FilledKept,
    TypeInv, DeliveryInv, ExStatus
<1>3. ASSUME CheckFails
     PROVE  FilledKept
  BY <1>3, <1>a, TypeFacts, CheckFailsEffect DEF JobWritten, posVars, restVars, FilledKept,
    TypeInv, DeliveryInv
<1>4. ASSUME CheckPasses
     PROVE  FilledKept
  BY <1>4, <1>a, TypeFacts, CheckPassesEffect DEF ExGoes, posVars, restVars, FilledKept,
    TypeInv, DeliveryInv
<1>5. ASSUME AcquireLock
     PROVE  FilledKept
  BY <1>5, <1>a, TypeFacts, AcquireEffect DEF ExGoes, posVars, restVars, FilledKept, TypeInv,
    DeliveryInv
<1>6. ASSUME LockRefused
     PROVE  FilledKept
  BY <1>6, <1>a, TypeFacts, LockRefusedEffect DEF JobWritten, posVars, restVars, FilledKept,
    TypeInv, DeliveryInv
<1>7. ASSUME NEW o \in Order, Submit(o)
     PROVE  FilledKept
  BY <1>7, <1>a, TypeFacts, SubmitEffect DEF OrderPlaced, posVars, restVars, FilledKept,
    TypeInv, DeliveryInv
<1>8. ASSUME NEW o \in Order, SubmitTimesOut(o)
     PROVE  FilledKept
  BY <1>8, <1>a, TypeFacts, SubmitTimesOutEffect DEF OrderPlaced, JobWritten, posVars,
    restVars, FilledKept, TypeInv, DeliveryInv
<1>9. ASSUME SubmitRefused
     PROVE  FilledKept
  BY <1>9, <1>a, TypeFacts, SubmitRefusedEffect DEF JobWritten, posVars, restVars, FilledKept,
    TypeInv, DeliveryInv
<1>10. ASSUME Record
      PROVE  FilledKept
  BY <1>10, <1>a, TypeFacts, RecordedEffect DEF ExGoes, posVars, restVars, FilledKept, TypeInv,
    DeliveryInv
<1>11. ASSUME Rest
      PROVE  FilledKept
  BY <1>11, <1>a, TypeFacts, RestEffect DEF JobWritten, posVars, restVars, FilledKept, TypeInv,
    DeliveryInv
<1>12. ASSUME BookExecution
      PROVE  FilledKept
  BY <1>12, <1>a, TypeFacts, BookExecutionEffect DEF Booked, ExGoes, posVars, restVars,
    FilledKept, TypeInv, DeliveryInv
<1>13. ASSUME Complete
      PROVE  FilledKept
  BY <1>13, <1>a, TypeFacts, CompleteEffect DEF JobWritten, posVars, restVars, FilledKept,
    TypeInv, DeliveryInv
<1>14. ASSUME ExecutorCrash
      PROVE  FilledKept
  BY <1>14, <1>a, TypeFacts DEF ExecutorCrash, posVars, restVars, FilledKept, TypeInv,
    DeliveryInv
<1>15. ASSUME NEW c \in Caller, NEW q \in 1..Qty, NEW ty \in OrderType, CloseRequest(c, q, ty)
      PROVE  FilledKept
  BY <1>15, <1>a, TypeFacts, CloseRequestEffect DEF CallBecomes, posVars, restVars, FilledKept,
    TypeInv, DeliveryInv
<1>16. ASSUME NEW c \in Caller, NEW t \in Trigger, TriggerCheck(c, t)
      PROVE  FilledKept
  BY <1>16, <1>a, TypeFacts, TriggerCheckEffect DEF CallBecomes, posVars, restVars, FilledKept,
    TypeInv, DeliveryInv
<1>17. ASSUME NEW c \in Caller, NEW j \in Job, LimitRead(c, j)
      PROVE  FilledKept
  BY <1>17, <1>a, TypeFacts, LimitReadEffect DEF CallBecomes, posVars, restVars, FilledKept,
    TypeInv, DeliveryInv
<1>18. ASSUME NEW c \in Caller, NEW j \in Job, CancelRequest(c, j)
      PROVE  FilledKept
  BY <1>18, <1>a, TypeFacts, CancelRequestEffect DEF CallBecomes, posVars, restVars,
    FilledKept, TypeInv, DeliveryInv
<1>19. ASSUME NEW c \in Caller, TriggerFlag(c)
      PROVE  FilledKept
  BY <1>19, <1>a, TypeFacts, TriggerFlagEffect DEF CallMoves, CallBecomes, posVars, restVars,
    FilledKept, TypeInv, DeliveryInv
<1>20. ASSUME NEW c \in Caller, TriggerConfirm(c)
      PROVE  FilledKept
  BY <1>20, <1>a, TypeFacts, TriggerConfirmEffect DEF CallMoves, CallBecomes, posVars,
    restVars, FilledKept, TypeInv, DeliveryInv
<1>21. ASSUME NEW c \in Caller, NEW j \in Job, CreateJob(c, j)
      PROVE  FilledKept
  BY <1>21, <1>a, TypeFacts, CreateJobEffect DEF posVars, restVars, FilledKept, TypeInv,
    DeliveryInv
<1>22. ASSUME NEW c \in Caller, Enqueue(c)
      PROVE  FilledKept
  BY <1>22, <1>a, TypeFacts, EnqueueEffect DEF CallBecomes, posVars, restVars, FilledKept,
    TypeInv, DeliveryInv
<1>23. ASSUME NEW c \in Caller, LimitExpired(c)
      PROVE  FilledKept
  BY <1>23, <1>a, TypeFacts, LimitExpiredEffect DEF JobWritten, CallBecomes, posVars, restVars,
    FilledKept, TypeInv, DeliveryInv
<1>24. ASSUME NEW c \in Caller, LimitClosed(c)
      PROVE  FilledKept
  BY <1>24, <1>a, TypeFacts, LimitClosedWrites DEF JobWritten, CallBecomes, CallMoves, posVars,
    restVars, FilledKept, TypeInv, DeliveryInv
<1>25. ASSUME NEW c \in Caller, LimitFilled(c)
      PROVE  FilledKept
  BY <1>25, <1>a, TypeFacts, LimitFilledEffect DEF Booked, CallMoves, posVars, restVars,
    FilledKept, TypeInv, DeliveryInv
<1>26. ASSUME NEW c \in Caller, LimitCompletes(c)
      PROVE  FilledKept
  BY <1>26, <1>a, TypeFacts, LimitCompletesEffect DEF JobWritten, CallBecomes, posVars,
    restVars, FilledKept, TypeInv, DeliveryInv
<1>27. ASSUME NEW c \in Caller, LimitWaits(c)
      PROVE  FilledKept
  BY <1>27, <1>a, TypeFacts, LimitWaitsEffect DEF CallBecomes, posVars, restVars, FilledKept,
    TypeInv, DeliveryInv
<1>28. ASSUME NEW c \in Caller, CancelOrder(c)
      PROVE  FilledKept
  BY <1>28, <1>a, TypeFacts, CancelOrderMoves DEF JobWritten, CallBecomes, CallMoves, posVars,
    restVars, FilledKept, TypeInv, DeliveryInv
<1>29. ASSUME NEW c \in Caller, CancelWrite(c)
      PROVE  FilledKept
  BY <1>29, <1>a, TypeFacts, CancelWriteEffect DEF JobWritten, CallBecomes, posVars, restVars,
    FilledKept, TypeInv, DeliveryInv
<1>30. ASSUME NEW c \in Caller, CallFails(c)
      PROVE  FilledKept
  BY <1>30, <1>a, TypeFacts, CallEndsEffect DEF CallBecomes, posVars, restVars, FilledKept,
    TypeInv, DeliveryInv
<1>31. ASSUME NEW c \in Caller, CallDies(c)
      PROVE  FilledKept
  BY <1>31, <1>a, TypeFacts, CallEndsEffect DEF CallBecomes, posVars, restVars, FilledKept,
    TypeInv, DeliveryInv
<1>32. ASSUME TsgReset
      PROVE  FilledKept
  BY <1>32, <1>a, TypeFacts DEF TsgReset, posVars, restVars, FilledKept, TypeInv, DeliveryInv
<1>33. ASSUME NEW j \in Job, JobAges(j)
      PROVE  FilledKept
  BY <1>33, <1>a, TypeFacts DEF JobAges, posVars, restVars, FilledKept, TypeInv, DeliveryInv
<1>34. ASSUME NEW o \in Order, Fill(o)
      PROVE  FilledKept
  BY <1>34, <1>a, TypeFacts, FillsEffect DEF OrderMoves, posVars, restVars, FilledKept,
    TypeInv, DeliveryInv
<1>35. ASSUME NEW o \in Order, ExchangeCancels(o)
      PROVE  FilledKept
  BY <1>35, <1>a, TypeFacts, ExchangeCancelsEffect DEF OrderMoves, posVars, restVars,
    FilledKept, TypeInv, DeliveryInv
<1>36. ASSUME HandSale
      PROVE  FilledKept
  BY <1>36, <1>a, TypeFacts DEF HandSale, posVars, restVars, AllButTsg, FilledKept, TypeInv,
    DeliveryInv
<1>37. ASSUME LockExpires
      PROVE  FilledKept
  BY <1>37, <1>a, TypeFacts DEF LockExpires, posVars, restVars, FilledKept, TypeInv,
    DeliveryInv
<1>38. CASE UNCHANGED vars
  BY <1>38, <1>a DEF vars, posVars, FilledKept, TypeInv, DeliveryInv
<1> QED
  BY <1>1, <1>2, <1>3, <1>4, <1>5, <1>6, <1>7, <1>8, <1>9, <1>10, <1>11, <1>12, <1>13, <1>14,
    <1>15, <1>16, <1>17, <1>18, <1>19, <1>20, <1>21, <1>22, <1>23, <1>24, <1>25, <1>26, <1>27, <1>28, <1>29, <1>30, <1>31, <1>32, <1>33, <1>34, <1>35, <1>36, <1>37,
    <1>38 DEF Next, Executor, Continue

\* A job that was FILLED is never executed again, whenever it is delivered
\* again and whoever has written its status meanwhile.
THEOREM FilledStays == Spec => FilledStaysExecuted
<1>1. TypeInv /\ DeliveryInv /\ [Next]_vars => [FilledKept]_vars
  BY FilledStep
<1> QED
  BY <1>1, SpecDelivery, PTL DEF Spec, FilledStaysExecuted, FilledKept

(***************************************************************************)
(* What is executed for a job                                              *)
(***************************************************************************)
\* Orders stay their job's and are executed more and more.
Grows ==
  \A o \in Order : order[o].job # None =>
    order'[o].job = order[o].job /\ order[o].filled <= order'[o].filled

Share(j) == [o \in Order |-> IF order[o].job = j THEN order[o].filled ELSE 0]

ExecutedSum ==
  \A j \in Job :
    /\ ExecutedBy(j) = SumFunctionOnSet(Share(j), Order)
    /\ \A o \in Order : Share(j)[o] \in Nat
    /\ ExecutedBy(j) \in Nat

\* ExecutedBy is a sum of naturals over the orders.
LEMMA ExecutedIsSum == TypeOK => ExecutedSum
<1> SUFFICES ASSUME TypeOK, NEW j \in Job
             PROVE  /\ ExecutedBy(j) = SumFunctionOnSet(Share(j), Order)
                    /\ \A o \in Order : Share(j)[o] \in Nat
                    /\ ExecutedBy(j) \in Nat
  BY DEF ExecutedSum
<1> DEFINE f == Share(j)
<1>1. ExecutedBy(j) = SumFunctionOnSet(f, Order)
  <2>1. DOMAIN f = Order
    BY DEF Share
  <2>2. ExecutedBy(j) = SumFunction(f)
    BY DEF ExecutedBy, Share
  <2> HIDE DEF f
  <2> QED
    BY <2>1, <2>2 DEF SumFunction
<1>2. \A o \in Order : f[o] \in Nat
  BY DEF Share, TypeOK, OrderRow
<1>3. IsFiniteSet(Order)
  BY SellOrdersAssumption
<1> HIDE DEF f
<1>4. SumFunctionOnSet(f, Order) \in Nat
  BY <1>2, <1>3, SumNat
<1> QED
  BY <1>1, <1>2, <1>4 DEF f

\* What a job executed grows with its orders.
LEMMA ExecutedGrows ==
  ASSUME TypeOK, TypeOK', Grows, NEW j \in Job, NEW o \in Order, order'[o].job = j
  PROVE  /\ ExecutedBy(j) \in Nat /\ ExecutedBy(j)' \in Nat
         /\ Share(j)[o] \in Nat
         /\ ExecutedBy(j) + order'[o].filled <= ExecutedBy(j)' + Share(j)[o]
<1> DEFINE f == Share(j)
           g == Share(j)'
<1>1. ExecutedBy(j) = SumFunctionOnSet(f, Order) /\ ExecutedBy(j) \in Nat /\ \A p \in Order : f[p] \in Nat
  BY ExecutedIsSum DEF ExecutedSum
<1>2. ExecutedBy(j)' = SumFunctionOnSet(g, Order) /\ ExecutedBy(j)' \in Nat /\ \A p \in Order : g[p] \in Nat
  <2>1. ExecutedSum'
    BY ExecutedIsSum, PTL
  <2> QED
    BY <2>1 DEF ExecutedSum
<1>3. g[o] = order'[o].filled
  BY DEF Share
<1>4. \A p \in Order : f[p] <= g[p]
  <2> TAKE p \in Order
  <2>1. CASE order[p].job = j
    BY <2>1, SellOrdersAssumption DEF Share, Grows, TypeOK, OrderRow
  <2>2. CASE order[p].job # j
    <3>1. f[p] = 0 /\ g[p] \in Nat
      BY <1>2, <2>2 DEF Share
    <3> QED
      BY <3>1
  <2> QED
    BY <2>1, <2>2
<1> HIDE DEF f, g
<1>5. IsFiniteSet(Order) /\ IsFiniteSet(Order \ {o})
  BY SellOrdersAssumption, FS_Subset
<1>6. /\ SumFunctionOnSet(f, Order) = f[o] + SumFunctionOnSet(f, Order \ {o})
      /\ SumFunctionOnSet(g, Order) = g[o] + SumFunctionOnSet(g, Order \ {o})
  <2>1. \A p \in Order : f[p] \in Int /\ g[p] \in Int
    BY <1>1, <1>2
  <2> QED
    BY <1>5, <2>1, SumTakeOut
<1>7. SumFunctionOnSet(f, Order \ {o}) <= SumFunctionOnSet(g, Order \ {o})
  <2>1. \A p \in Order \ {o} : f[p] \in Int /\ g[p] \in Int /\ f[p] <= g[p]
    BY <1>1, <1>2, <1>4
  <2> QED
    BY <1>5, <2>1, SumMonotone
<1>8. SumFunctionOnSet(f, Order \ {o}) \in Nat /\ SumFunctionOnSet(g, Order \ {o}) \in Nat
  <2>1. \A p \in Order \ {o} : f[p] \in Nat /\ g[p] \in Nat
    BY <1>1, <1>2
  <2> QED
    BY <1>5, <2>1, SumNat
<1>9. f[o] \in Nat /\ g[o] \in Nat
  BY <1>1, <1>2
<1> QED
  BY <1>1, <1>2, <1>3, <1>6, <1>7, <1>8, <1>9 DEF f

\* What was executed for a job stays executed.
LEMMA ExecutedStays ==
  ASSUME TypeOK, TypeOK', Grows, NEW j \in Job
  PROVE  ExecutedBy(j) \in Nat /\ ExecutedBy(j)' \in Nat /\ ExecutedBy(j) <= ExecutedBy(j)'
<1> DEFINE f == Share(j)
           g == Share(j)'
<1>1. ExecutedBy(j) = SumFunctionOnSet(f, Order) /\ ExecutedBy(j) \in Nat /\ \A p \in Order : f[p] \in Nat
  BY ExecutedIsSum DEF ExecutedSum
<1>2. ExecutedBy(j)' = SumFunctionOnSet(g, Order) /\ ExecutedBy(j)' \in Nat /\ \A p \in Order : g[p] \in Nat
  <2>1. ExecutedSum'
    BY ExecutedIsSum, PTL
  <2> QED
    BY <2>1 DEF ExecutedSum
<1>3. \A p \in Order : f[p] <= g[p]
  <2> TAKE p \in Order
  <2>1. CASE order[p].job = j
    BY <2>1, SellOrdersAssumption DEF Share, Grows, TypeOK, OrderRow
  <2>2. CASE order[p].job # j
    <3>1. f[p] = 0 /\ g[p] \in Nat
      BY <1>2, <2>2 DEF Share
    <3> QED
      BY <3>1
  <2> QED
    BY <2>1, <2>2
<1> HIDE DEF f, g
<1>4. SumFunctionOnSet(f, Order) <= SumFunctionOnSet(g, Order)
  <2>1. \A p \in Order : f[p] \in Int /\ g[p] \in Int /\ f[p] <= g[p]
    BY <1>1, <1>2, <1>3
  <2> QED
    BY <2>1, SellOrdersAssumption, SumMonotone
<1> QED
  BY <1>1, <1>2, <1>4

\* An order of j covers what it covered.
LEMMA CoversStays ==
  ASSUME TypeOK, TypeOK', Grows, NEW j, NEW o, Covers(j, o), job'[j].booked = job[j].booked
  PROVE  Covers(j, o)'
<1>1. j \in Job /\ o \in Order /\ order[o].job = j /\ j # None /\ order'[o].job = j
  BY SellOrdersAssumption DEF Covers, Grows
<1>2. Share(j)[o] = order[o].filled
  BY <1>1 DEF Share
<1>3. /\ ExecutedBy(j) \in Nat /\ ExecutedBy(j)' \in Nat
      /\ ExecutedBy(j) + order'[o].filled <= ExecutedBy(j)' + order[o].filled
  BY <1>1, <1>2, ExecutedGrows
<1>4. order[o].filled \in Nat /\ order'[o].filled \in Nat /\ job[j].booked \in Nat
  BY <1>1 DEF TypeOK, OrderRow, JobRow
<1>5. job[j].booked + order[o].filled <= ExecutedBy(j)
  BY DEF Covers, Filled
<1>6. job'[j].booked + order'[o].filled <= ExecutedBy(j)'
  BY <1>3, <1>4, <1>5
<1> QED
  BY <1>1, <1>6 DEF Covers, Filled

\* A new order of j covers what it executes.
LEMMA CoversPlaced ==
  ASSUME TypeOK, TypeOK', Grows, NEW j \in Job, NEW o \in Order, order[o].job # j, order'[o].job = j,
         job[j].booked <= ExecutedBy(j), job'[j].booked = job[j].booked
  PROVE  Covers(j, o)'
<1>1. Share(j)[o] = 0
  BY DEF Share
<1>2. /\ ExecutedBy(j) \in Nat /\ ExecutedBy(j)' \in Nat
      /\ ExecutedBy(j) + order'[o].filled <= ExecutedBy(j)' + 0
  BY <1>1, ExecutedGrows
<1>3. order'[o].filled \in Nat /\ job[j].booked \in Nat
  BY DEF TypeOK, OrderRow, JobRow
<1>4. job'[j].booked + order'[o].filled <= ExecutedBy(j)'
  BY <1>2, <1>3
<1> QED
  BY <1>4 DEF Covers, Filled

\* An order that is filled or cancelled executes no less than before.
LEMMA MovedGrows ==
  ASSUME TypeOK, NEW o \in Order, NEW f \in Nat, NEW lv, OrderMoves(o, f, lv), order[o].filled <= f
  PROVE  Grows
<1>1. \A p \in Order : order[p].filled \in Nat
  BY DEF TypeOK, OrderRow
<1>2. \A p \in Order \ {o} : order'[p] = order[p]
  BY DEF OrderMoves
<1>3. order'[o].job = order[o].job /\ order'[o].filled = f
  BY DEF OrderMoves
<1> QED
  BY <1>1, <1>2, <1>3 DEF Grows

\* A new order takes nothing from what was executed.
LEMMA PlacedGrows ==
  ASSUME TypeOK, NEW o \in Order, NEW a, NEW f, OrderPlaced(o, a, f)
  PROVE  Grows
<1>1. \A p \in Order : order[p].filled \in Nat
  BY DEF TypeOK, OrderRow
<1>2. order[o].job = None /\ \A p \in Order \ {o} : order'[p] = order[p]
  BY DEF OrderPlaced
<1> QED
  BY <1>1, <1>2 DEF Grows

\* What a step leaves of the executed quantities.
ExecutedKept ==
  /\ Grows
  /\ \A j \in Job : ExecutedBy(j) \in Nat /\ ExecutedBy(j)' \in Nat /\ ExecutedBy(j) <= ExecutedBy(j)'
  /\ \A j, o : Covers(j, o) /\ job'[j].booked = job[j].booked => Covers(j, o)'
  /\ \A j, o : Covers(j, o) => \A n \in Nat : n <= Filled(o) => n <= Filled(o)'

\* Booking what an order of j covers.
LEMMA CoveredIsBooked ==
  ASSUME TypeOK, BookedIsExecuted, ExecutedKept, NEW j \in Job, NEW o, Covers(j, o),
         NEW q \in Nat, q <= order[o].filled,
         job'[j].booked \in Nat, job'[j].booked <= job[j].booked + q,
         \A k \in Job \ {j} : job'[k] = job[k]
  PROVE  BookedIsExecuted'
<1>1. o \in Order /\ job[j].booked + order[o].filled <= ExecutedBy(j)
  BY DEF Covers, Filled
<1>2. \A k \in Job : /\ ExecutedBy(k) \in Nat /\ ExecutedBy(k)' \in Nat /\ ExecutedBy(k) <= ExecutedBy(k)'
                     /\ job[k].booked \in Nat /\ job[k].booked <= ExecutedBy(k)
  BY DEF ExecutedKept, TypeOK, JobRow, BookedIsExecuted
<1>3. order[o].filled \in Nat
  BY <1>1 DEF TypeOK, OrderRow
<1>4. job'[j].booked <= ExecutedBy(j)'
  BY <1>1, <1>2, <1>3
<1>5. ASSUME NEW k \in Job \ {j} PROVE job'[k].booked <= ExecutedBy(k)'
  BY <1>2, <1>5
<1> QED
  BY <1>4, <1>5 DEF BookedIsExecuted

\* Nothing that the exchange executed is undone.
LEMMA OrdersGrow == TypeInv /\ [Next]_vars => Grows
<1> SUFFICES ASSUME TypeInv, [Next]_vars PROVE Grows
  OBVIOUS
<1>a. TypeInv /\ TypeOK
  BY DEF TypeInv
<1>b. UNCHANGED order => Grows
  BY <1>a DEF Grows, TypeOK, OrderRow
<1>c. \A o \in Order : order[o].filled \in Nat /\ order[o].filled <= order[o].filled
  BY <1>a DEF TypeOK, OrderRow
<1>1. ASSUME NEW j \in Job, Take(j)
     PROVE  Grows
  BY <1>1, <1>a, <1>b DEF Take, posVars
<1>2. ASSUME Mark
     PROVE  Grows
  BY <1>2, <1>a, MarkEffect, <1>b
<1>3. ASSUME CheckFails
     PROVE  Grows
  BY <1>3, <1>a, CheckFailsEffect, <1>b
<1>4. ASSUME CheckPasses
     PROVE  Grows
  BY <1>4, <1>a, CheckPassesEffect, <1>b
<1>5. ASSUME AcquireLock
     PROVE  Grows
  BY <1>5, <1>a, AcquireEffect, <1>b
<1>6. ASSUME LockRefused
     PROVE  Grows
  BY <1>6, <1>a, LockRefusedEffect, <1>b
<1>7. ASSUME NEW o \in Order, Submit(o)
     PROVE  Grows
  BY <1>7, <1>a, SubmitEffect, PlacedGrows
<1>8. ASSUME NEW o \in Order, SubmitTimesOut(o)
     PROVE  Grows
  BY <1>8, <1>a, SubmitTimesOutEffect, PlacedGrows
<1>9. ASSUME SubmitRefused
     PROVE  Grows
  BY <1>9, <1>a, SubmitRefusedEffect, <1>b
<1>10. ASSUME Record
      PROVE  Grows
  BY <1>10, <1>a, RecordedEffect, <1>b
<1>11. ASSUME Rest
      PROVE  Grows
  BY <1>11, <1>a, RestEffect, <1>b
<1>12. ASSUME BookExecution
      PROVE  Grows
  BY <1>12, <1>a, BookExecutionEffect, <1>b
<1>13. ASSUME Complete
      PROVE  Grows
  BY <1>13, <1>a, CompleteEffect, <1>b
<1>14. ASSUME ExecutorCrash
      PROVE  Grows
  BY <1>14, <1>a, <1>b DEF ExecutorCrash, posVars
<1>15. ASSUME NEW c \in Caller, NEW q \in 1..Qty, NEW ty \in OrderType, CloseRequest(c, q, ty)
      PROVE  Grows
  BY <1>15, <1>a, CloseRequestEffect, <1>b
<1>16. ASSUME NEW c \in Caller, NEW t \in Trigger, TriggerCheck(c, t)
      PROVE  Grows
  BY <1>16, <1>a, TriggerCheckEffect, <1>b
<1>17. ASSUME NEW c \in Caller, NEW j \in Job, LimitRead(c, j)
      PROVE  Grows
  BY <1>17, <1>a, LimitReadEffect, <1>b
<1>18. ASSUME NEW c \in Caller, NEW j \in Job, CancelRequest(c, j)
      PROVE  Grows
  BY <1>18, <1>a, CancelRequestEffect, <1>b
<1>19. ASSUME NEW c \in Caller, TriggerFlag(c)
      PROVE  Grows
  BY <1>19, <1>a, TriggerFlagEffect, <1>b
<1>20. ASSUME NEW c \in Caller, TriggerConfirm(c)
      PROVE  Grows
  BY <1>20, <1>a, TriggerConfirmEffect, <1>b
<1>21. ASSUME NEW c \in Caller, NEW j \in Job, CreateJob(c, j)
      PROVE  Grows
  BY <1>21, <1>a, CreateJobEffect, <1>b
<1>22. ASSUME NEW c \in Caller, Enqueue(c)
      PROVE  Grows
  BY <1>22, <1>a, EnqueueEffect, <1>b
<1>23. ASSUME NEW c \in Caller, LimitExpired(c)
      PROVE  Grows
  BY <1>23, <1>a, LimitExpiredEffect, <1>b
<1>24. ASSUME NEW c \in Caller, LimitClosed(c)
      PROVE  Grows
  <2>1. \/ UNCHANGED order
        \/ call[c].order \in Order /\ OrderMoves(call[c].order, order[call[c].order].filled, FALSE)
    BY <1>24, <1>a, LimitClosedEffect
  <2> QED
    BY <1>a, <1>b, <1>c, <2>1, MovedGrows
<1>25. ASSUME NEW c \in Caller, LimitFilled(c)
      PROVE  Grows
  BY <1>25, <1>a, LimitFilledEffect, <1>b
<1>26. ASSUME NEW c \in Caller, LimitCompletes(c)
      PROVE  Grows
  BY <1>26, <1>a, LimitCompletesEffect, <1>b
<1>27. ASSUME NEW c \in Caller, LimitWaits(c)
      PROVE  Grows
  BY <1>27, <1>a, LimitWaitsEffect, <1>b
<1>28. ASSUME NEW c \in Caller, CancelOrder(c)
      PROVE  Grows
  <2>1. \/ UNCHANGED order
        \/ call[c].order \in Order /\ OrderMoves(call[c].order, order[call[c].order].filled, FALSE)
    BY <1>28, <1>a, CancelOrderEffect
  <2> QED
    BY <1>a, <1>b, <1>c, <2>1, MovedGrows
<1>29. ASSUME NEW c \in Caller, CancelWrite(c)
      PROVE  Grows
  BY <1>29, <1>a, CancelWriteEffect, <1>b
<1>30. ASSUME NEW c \in Caller, CallFails(c)
      PROVE  Grows
  BY <1>30, <1>a, CallEndsEffect, <1>b
<1>31. ASSUME NEW c \in Caller, CallDies(c)
      PROVE  Grows
  BY <1>31, <1>a, CallEndsEffect, <1>b
<1>32. ASSUME TsgReset
      PROVE  Grows
  BY <1>32, <1>a, <1>b DEF TsgReset, posVars
<1>33. ASSUME NEW j \in Job, JobAges(j)
      PROVE  Grows
  BY <1>33, <1>a, <1>b DEF JobAges, posVars
<1>34. ASSUME NEW o \in Order, Fill(o)
      PROVE  Grows
  <2>1. PICK f \in Nat : order[o].filled < f /\ OrderMoves(o, f, f < order[o].qty)
    BY <1>34, <1>a, FillsEffect
  <2>2. order[o].filled <= f
    BY <1>c, <2>1
  <2> QED
    BY <1>a, <2>1, <2>2, MovedGrows
<1>35. ASSUME NEW o \in Order, ExchangeCancels(o)
      PROVE  Grows
  <2>1. OrderMoves(o, order[o].filled, FALSE)
    BY <1>35, <1>a, ExchangeCancelsEffect
  <2> QED
    BY <1>a, <1>c, <2>1, MovedGrows
<1>36. ASSUME HandSale
      PROVE  Grows
  BY <1>36, <1>a, <1>b DEF HandSale, posVars
<1>37. ASSUME LockExpires
      PROVE  Grows
  BY <1>37, <1>a, <1>b DEF LockExpires, posVars
<1>38. CASE UNCHANGED vars
  BY <1>38, <1>a, <1>b DEF vars, posVars
<1> QED
  BY <1>1, <1>2, <1>3, <1>4, <1>5, <1>6, <1>7, <1>8, <1>9, <1>10, <1>11, <1>12, <1>13, <1>14,
    <1>15, <1>16, <1>17, <1>18, <1>19, <1>20, <1>21, <1>22, <1>23, <1>24, <1>25, <1>26, <1>27, <1>28, <1>29, <1>30, <1>31, <1>32, <1>33, <1>34, <1>35, <1>36, <1>37,
    <1>38 DEF Next, Executor, Continue

\* No step takes back what was executed.
LEMMA ExecutedStep == TypeInv /\ [Next]_vars => ExecutedKept
<1> SUFFICES ASSUME TypeInv, [Next]_vars PROVE ExecutedKept
  OBVIOUS
<1>1. TypeOK /\ TypeOK'
  BY TypeOKStep DEF TypeInv
<1>2. Grows
  BY OrdersGrow
<1>3. ASSUME NEW j \in Job
      PROVE  ExecutedBy(j) \in Nat /\ ExecutedBy(j)' \in Nat /\ ExecutedBy(j) <= ExecutedBy(j)'
  BY <1>1, <1>2, ExecutedStays
<1>4. ASSUME NEW j, NEW o, Covers(j, o), job'[j].booked = job[j].booked
      PROVE  Covers(j, o)'
  BY <1>1, <1>2, <1>4, CoversStays
<1>5. ASSUME NEW j, NEW o, Covers(j, o), NEW m \in Nat, m <= Filled(o)
      PROVE  m <= Filled(o)'
  <2>1. o \in Order /\ order[o].job # None
    BY <1>5, SellOrdersAssumption DEF Covers
  <2>2. order[o].filled \in Nat /\ order'[o].filled \in Nat /\ order[o].filled <= order'[o].filled
    BY <1>1, <1>2, <2>1 DEF TypeOK, OrderRow, Grows
  <2> QED
    BY <1>5, <2>2 DEF Filled
<1> QED
  BY <1>2, <1>3, <1>4, <1>5 DEF ExecutedKept

\* Every step keeps that passes do not overlap on a job.
LEMMA OnePassStep == "OVERLAP" \notin Enabled /\ TypeInv /\ DeliveryInv /\ BookedInv /\ [Next]_vars => OnePass'
<1> SUFFICES ASSUME "OVERLAP" \notin Enabled, TypeInv /\ DeliveryInv /\ BookedInv, [Next]_vars PROVE OnePass'
  OBVIOUS
<1>a. TypeInv /\ DeliveryInv /\ BookedInv /\ TypeOK /\ ExecutedKept
  BY ExecutedStep DEF TypeInv
<1>1. ASSUME NEW j \in Job, Take(j)
     PROVE  OnePass'
  BY <1>1, <1>a, TypeFacts DEF Take, posVars, restVars, OnePass, BookedInv, LimitPhase
<1>2. ASSUME Mark
     PROVE  OnePass'
  BY <1>2, <1>a, TypeFacts, MarkEffect DEF JobWritten, ExGoes, posVars, restVars, OnePass,
    BookedInv, LimitPhase
<1>3. ASSUME CheckFails
     PROVE  OnePass'
  BY <1>3, <1>a, TypeFacts, CheckFailsEffect DEF JobWritten, posVars, restVars, OnePass,
    BookedInv, LimitPhase
<1>4. ASSUME CheckPasses
     PROVE  OnePass'
  BY <1>4, <1>a, TypeFacts, CheckPassesEffect DEF ExGoes, posVars, restVars, OnePass,
    BookedInv, LimitPhase
<1>5. ASSUME AcquireLock
     PROVE  OnePass'
  BY <1>5, <1>a, TypeFacts, AcquireEffect DEF ExGoes, posVars, restVars, OnePass, BookedInv,
    LimitPhase
<1>6. ASSUME LockRefused
     PROVE  OnePass'
  BY <1>6, <1>a, TypeFacts, LockRefusedEffect DEF JobWritten, posVars, restVars, OnePass,
    BookedInv, LimitPhase
<1>7. ASSUME NEW o \in Order, Submit(o)
     PROVE  OnePass'
  BY <1>7, <1>a, TypeFacts, SubmitEffect DEF OrderPlaced, posVars, restVars, OnePass,
    BookedInv, LimitPhase
<1>8. ASSUME NEW o \in Order, SubmitTimesOut(o)
     PROVE  OnePass'
  BY <1>8, <1>a, TypeFacts, SubmitTimesOutEffect DEF OrderPlaced, JobWritten, posVars,
    restVars, OnePass, BookedInv, LimitPhase
<1>9. ASSUME SubmitRefused
     PROVE  OnePass'
  BY <1>9, <1>a, TypeFacts, SubmitRefusedEffect DEF JobWritten, posVars, restVars, OnePass,
    BookedInv, LimitPhase
<1>10. ASSUME Record
      PROVE  OnePass'
  BY <1>10, <1>a, TypeFacts, RecordedEffect DEF ExGoes, posVars, restVars, OnePass, BookedInv,
    LimitPhase
<1>11. ASSUME Rest
      PROVE  OnePass'
  BY <1>11, <1>a, TypeFacts, RestEffect DEF JobWritten, posVars, restVars, OnePass, BookedInv,
    LimitPhase
<1>12. ASSUME BookExecution
      PROVE  OnePass'
  BY <1>12, <1>a, TypeFacts, BookExecutionEffect DEF Booked, ExGoes, posVars, restVars,
    OnePass, BookedInv, LimitPhase
<1>13. ASSUME Complete
      PROVE  OnePass'
  BY <1>13, <1>a, TypeFacts, CompleteEffect DEF JobWritten, posVars, restVars, OnePass,
    BookedInv, LimitPhase
<1>14. ASSUME ExecutorCrash
      PROVE  OnePass'
  BY <1>14, <1>a, TypeFacts DEF ExecutorCrash, posVars, restVars, OnePass, BookedInv,
    LimitPhase
<1>15. ASSUME NEW c \in Caller, NEW q \in 1..Qty, NEW ty \in OrderType, CloseRequest(c, q, ty)
      PROVE  OnePass'
  BY <1>15, <1>a, TypeFacts, CloseRequestEffect DEF CallBecomes, posVars, restVars, OnePass,
    BookedInv, LimitPhase
<1>16. ASSUME NEW c \in Caller, NEW t \in Trigger, TriggerCheck(c, t)
      PROVE  OnePass'
  BY <1>16, <1>a, TypeFacts, TriggerCheckEffect DEF CallBecomes, posVars, restVars, OnePass,
    BookedInv, LimitPhase
<1>17. ASSUME NEW c \in Caller, NEW j \in Job, LimitRead(c, j)
      PROVE  OnePass'
  BY <1>17, <1>a, TypeFacts, LimitReadEffect DEF CallBecomes, posVars, restVars, OnePass,
    BookedInv, LimitPhase
<1>18. ASSUME NEW c \in Caller, NEW j \in Job, CancelRequest(c, j)
      PROVE  OnePass'
  BY <1>18, <1>a, TypeFacts, CancelRequestEffect DEF CallBecomes, posVars, restVars, OnePass,
    BookedInv, LimitPhase
<1>19. ASSUME NEW c \in Caller, TriggerFlag(c)
      PROVE  OnePass'
  BY <1>19, <1>a, TypeFacts, TriggerFlagEffect DEF CallMoves, CallBecomes, posVars, restVars,
    OnePass, BookedInv, LimitPhase
<1>20. ASSUME NEW c \in Caller, TriggerConfirm(c)
      PROVE  OnePass'
  BY <1>20, <1>a, TypeFacts, TriggerConfirmEffect DEF CallMoves, CallBecomes, posVars,
    restVars, OnePass, BookedInv, LimitPhase
<1>21. ASSUME NEW c \in Caller, NEW j \in Job, CreateJob(c, j)
      PROVE  OnePass'
  BY <1>21, <1>a, TypeFacts, CreateJobEffect DEF posVars, restVars, OnePass, BookedInv,
    LimitPhase
<1>22. ASSUME NEW c \in Caller, Enqueue(c)
      PROVE  OnePass'
  BY <1>22, <1>a, TypeFacts, EnqueueEffect DEF CallBecomes, posVars, restVars, OnePass,
    BookedInv, LimitPhase
<1>23. ASSUME NEW c \in Caller, LimitExpired(c)
      PROVE  OnePass'
  BY <1>23, <1>a, TypeFacts, LimitExpiredEffect DEF JobWritten, CallBecomes, posVars, restVars,
    OnePass, BookedInv, LimitPhase
<1>24. ASSUME NEW c \in Caller, LimitClosed(c)
      PROVE  OnePass'
  BY <1>24, <1>a, TypeFacts, LimitClosedWrites DEF JobWritten, CallBecomes, CallMoves, posVars,
    restVars, OnePass, BookedInv, LimitPhase
<1>25. ASSUME NEW c \in Caller, LimitFilled(c)
      PROVE  OnePass'
  BY <1>25, <1>a, TypeFacts, LimitFilledEffect DEF Booked, CallMoves, posVars, restVars,
    OnePass, BookedInv, LimitPhase
<1>26. ASSUME NEW c \in Caller, LimitCompletes(c)
      PROVE  OnePass'
  BY <1>26, <1>a, TypeFacts, LimitCompletesEffect DEF JobWritten, CallBecomes, posVars,
    restVars, OnePass, BookedInv, LimitPhase
<1>27. ASSUME NEW c \in Caller, LimitWaits(c)
      PROVE  OnePass'
  BY <1>27, <1>a, TypeFacts, LimitWaitsEffect DEF CallBecomes, posVars, restVars, OnePass,
    BookedInv, LimitPhase
<1>28. ASSUME NEW c \in Caller, CancelOrder(c)
      PROVE  OnePass'
  BY <1>28, <1>a, TypeFacts, CancelOrderMoves DEF JobWritten, CallBecomes, CallMoves, posVars,
    restVars, OnePass, BookedInv, LimitPhase
<1>29. ASSUME NEW c \in Caller, CancelWrite(c)
      PROVE  OnePass'
  BY <1>29, <1>a, TypeFacts, CancelWriteEffect DEF JobWritten, CallBecomes, posVars, restVars,
    OnePass, BookedInv, LimitPhase
<1>30. ASSUME NEW c \in Caller, CallFails(c)
      PROVE  OnePass'
  BY <1>30, <1>a, TypeFacts, CallEndsEffect DEF CallBecomes, posVars, restVars, OnePass,
    BookedInv, LimitPhase
<1>31. ASSUME NEW c \in Caller, CallDies(c)
      PROVE  OnePass'
  BY <1>31, <1>a, TypeFacts, CallEndsEffect DEF CallBecomes, posVars, restVars, OnePass,
    BookedInv, LimitPhase
<1>32. ASSUME TsgReset
      PROVE  OnePass'
  BY <1>32, <1>a, TypeFacts DEF TsgReset, posVars, restVars, OnePass, BookedInv, LimitPhase
<1>33. ASSUME NEW j \in Job, JobAges(j)
      PROVE  OnePass'
  BY <1>33, <1>a, TypeFacts DEF JobAges, posVars, restVars, OnePass, BookedInv, LimitPhase
<1>34. ASSUME NEW o \in Order, Fill(o)
      PROVE  OnePass'
  BY <1>34, <1>a, TypeFacts, FillsEffect DEF OrderMoves, posVars, restVars, OnePass, BookedInv,
    LimitPhase
<1>35. ASSUME NEW o \in Order, ExchangeCancels(o)
      PROVE  OnePass'
  BY <1>35, <1>a, TypeFacts, ExchangeCancelsKeeps DEF JobWritten, CallBecomes, CallMoves, posVars,
    restVars, OnePass, BookedInv, LimitPhase
<1>36. ASSUME HandSale
      PROVE  OnePass'
  BY <1>36, <1>a, TypeFacts DEF HandSale, posVars, restVars, AllButTsg, OnePass, BookedInv,
    LimitPhase
<1>37. ASSUME LockExpires
      PROVE  OnePass'
  BY <1>37, <1>a, TypeFacts DEF LockExpires, posVars, restVars, OnePass, BookedInv, LimitPhase
<1>38. CASE UNCHANGED vars
  BY <1>38, <1>a DEF vars, posVars, OnePass, BookedInv, LimitPhase
<1> QED
  BY <1>1, <1>2, <1>3, <1>4, <1>5, <1>6, <1>7, <1>8, <1>9, <1>10, <1>11, <1>12, <1>13, <1>14,
    <1>15, <1>16, <1>17, <1>18, <1>19, <1>20, <1>21, <1>22, <1>23, <1>24, <1>25, <1>26, <1>27, <1>28, <1>29, <1>30, <1>31, <1>32, <1>33, <1>34, <1>35, <1>36, <1>37,
    <1>38 DEF Next, Executor, Continue

\* Every step keeps that what is booked was executed.
LEMMA BookedStep == "OVERLAP" \notin Enabled /\ TypeInv /\ DeliveryInv /\ BookedInv /\ [Next]_vars => BookedIsExecuted'
<1> SUFFICES ASSUME "OVERLAP" \notin Enabled, TypeInv /\ DeliveryInv /\ BookedInv, [Next]_vars PROVE BookedIsExecuted'
  OBVIOUS
<1>a. TypeInv /\ DeliveryInv /\ BookedInv /\ TypeOK /\ ExecutedKept
  BY ExecutedStep DEF TypeInv
<1>1. ASSUME NEW j \in Job, Take(j)
     PROVE  BookedIsExecuted'
  BY <1>1, <1>a, TypeFacts DEF Take, posVars, restVars, BookedIsExecuted, BookedInv,
    ExecutedKept, TypeOK, JobRow
<1>2. ASSUME Mark
     PROVE  BookedIsExecuted'
  BY <1>2, <1>a, TypeFacts, MarkEffect DEF JobWritten, ExGoes, posVars, restVars,
    BookedIsExecuted, BookedInv, ExecutedKept, TypeOK, JobRow
<1>3. ASSUME CheckFails
     PROVE  BookedIsExecuted'
  BY <1>3, <1>a, TypeFacts, CheckFailsEffect DEF JobWritten, posVars, restVars,
    BookedIsExecuted, BookedInv, ExecutedKept, TypeOK, JobRow
<1>4. ASSUME CheckPasses
     PROVE  BookedIsExecuted'
  BY <1>4, <1>a, TypeFacts, CheckPassesEffect DEF ExGoes, posVars, restVars, BookedIsExecuted,
    BookedInv, ExecutedKept, TypeOK, JobRow, TypeInv
<1>5. ASSUME AcquireLock
     PROVE  BookedIsExecuted'
  BY <1>5, <1>a, TypeFacts, AcquireEffect DEF ExGoes, posVars, restVars, BookedIsExecuted,
    BookedInv, ExecutedKept, TypeOK, JobRow
<1>6. ASSUME LockRefused
     PROVE  BookedIsExecuted'
  BY <1>6, <1>a, TypeFacts, LockRefusedEffect DEF JobWritten, posVars, restVars,
    BookedIsExecuted, BookedInv, ExecutedKept, TypeOK, JobRow
<1>7. ASSUME NEW o \in Order, Submit(o)
     PROVE  BookedIsExecuted'
  BY <1>7, <1>a, TypeFacts, SubmitEffect DEF OrderPlaced, posVars, restVars, BookedIsExecuted,
    BookedInv, ExecutedKept, TypeOK, JobRow
<1>8. ASSUME NEW o \in Order, SubmitTimesOut(o)
     PROVE  BookedIsExecuted'
  BY <1>8, <1>a, TypeFacts, SubmitTimesOutEffect DEF OrderPlaced, JobWritten, posVars,
    restVars, BookedIsExecuted, BookedInv, ExecutedKept, TypeOK, JobRow
<1>9. ASSUME SubmitRefused
     PROVE  BookedIsExecuted'
  BY <1>9, <1>a, TypeFacts, SubmitRefusedEffect DEF JobWritten, posVars, restVars,
    BookedIsExecuted, BookedInv, ExecutedKept, TypeOK, JobRow
<1>10. ASSUME Record
      PROVE  BookedIsExecuted'
  BY <1>10, <1>a, TypeFacts, RecordedEffect DEF ExGoes, posVars, restVars, BookedIsExecuted,
    BookedInv, ExecutedKept, TypeOK, JobRow
<1>11. ASSUME Rest
      PROVE  BookedIsExecuted'
  BY <1>11, <1>a, TypeFacts, RestEffect DEF JobWritten, posVars, restVars, BookedIsExecuted,
    BookedInv, ExecutedKept, TypeOK, JobRow
<1>12. ASSUME BookExecution
      PROVE  BookedIsExecuted'
  <2>1. ex.job \in Job /\ \A k \in Job \ {ex.job} : job'[k] = job[k]
    BY <1>12, <1>a, BookExecutionEffect DEF Booked
  <2>2. job[ex.job].booked \in Nat /\ ex.got \in Nat
    BY <1>a, <2>1 DEF TypeOK, JobRow, ExState
  <2>3. job'[ex.job].booked \in Nat /\ job'[ex.job].booked <= job[ex.job].booked + ex.got
    <3>1. ASSUME NEW q \in 0..ex.got, Booked(ex.job, q)
          PROVE  job'[ex.job].booked \in Nat /\ job'[ex.job].booked <= job[ex.job].booked + ex.got
      <4>1. q \in Nat /\ q <= ex.got /\ Sold(q) \in Nat /\ Sold(q) <= q
            /\ job'[ex.job].booked = job[ex.job].booked + Sold(q)
        BY <2>2, <3>1 DEF Booked
      <4> QED
        BY <2>2, <4>1
    <3>2. ASSUME UNCHANGED job
          PROVE  job'[ex.job].booked \in Nat /\ job'[ex.job].booked <= job[ex.job].booked + ex.got
      BY <2>2, <3>2
    <3> QED
      BY <1>12, <1>a, <3>1, <3>2, BookExecutionEffect
  <2>4. Covers(ex.job, ex.order) /\ ex.got <= order[ex.order].filled
    BY <1>12, <1>a, BookExecutionEffect DEF BookedInv, ExCovered, Filled
  <2> QED
    BY <1>a, <2>1, <2>2, <2>3, <2>4, CoveredIsBooked DEF BookedInv
<1>13. ASSUME Complete
      PROVE  BookedIsExecuted'
  BY <1>13, <1>a, TypeFacts, CompleteEffect DEF JobWritten, posVars, restVars,
    BookedIsExecuted, BookedInv, ExecutedKept, TypeOK, JobRow
<1>14. ASSUME ExecutorCrash
      PROVE  BookedIsExecuted'
  BY <1>14, <1>a, TypeFacts DEF ExecutorCrash, posVars, restVars, BookedIsExecuted, BookedInv,
    ExecutedKept, TypeOK, JobRow
<1>15. ASSUME NEW c \in Caller, NEW q \in 1..Qty, NEW ty \in OrderType, CloseRequest(c, q, ty)
      PROVE  BookedIsExecuted'
  BY <1>15, <1>a, TypeFacts, CloseRequestEffect DEF CallBecomes, posVars, restVars,
    BookedIsExecuted, BookedInv, ExecutedKept, TypeOK, JobRow
<1>16. ASSUME NEW c \in Caller, NEW t \in Trigger, TriggerCheck(c, t)
      PROVE  BookedIsExecuted'
  BY <1>16, <1>a, TypeFacts, TriggerCheckEffect DEF CallBecomes, posVars, restVars,
    BookedIsExecuted, BookedInv, ExecutedKept, TypeOK, JobRow
<1>17. ASSUME NEW c \in Caller, NEW j \in Job, LimitRead(c, j)
      PROVE  BookedIsExecuted'
  BY <1>17, <1>a, TypeFacts, LimitReadEffect DEF CallBecomes, posVars, restVars,
    BookedIsExecuted, BookedInv, ExecutedKept, TypeOK, JobRow
<1>18. ASSUME NEW c \in Caller, NEW j \in Job, CancelRequest(c, j)
      PROVE  BookedIsExecuted'
  BY <1>18, <1>a, TypeFacts, CancelRequestEffect DEF CallBecomes, posVars, restVars,
    BookedIsExecuted, BookedInv, ExecutedKept, TypeOK, JobRow
<1>19. ASSUME NEW c \in Caller, TriggerFlag(c)
      PROVE  BookedIsExecuted'
  BY <1>19, <1>a, TypeFacts, TriggerFlagEffect DEF CallMoves, CallBecomes, posVars, restVars,
    BookedIsExecuted, BookedInv, ExecutedKept, TypeOK, JobRow
<1>20. ASSUME NEW c \in Caller, TriggerConfirm(c)
      PROVE  BookedIsExecuted'
  BY <1>20, <1>a, TypeFacts, TriggerConfirmEffect DEF CallMoves, CallBecomes, posVars,
    restVars, BookedIsExecuted, BookedInv, ExecutedKept, TypeOK, JobRow
<1>21. ASSUME NEW c \in Caller, NEW j \in Job, CreateJob(c, j)
      PROVE  BookedIsExecuted'
  BY <1>21, <1>a, TypeFacts, CreateJobEffect DEF posVars, restVars, BookedIsExecuted,
    BookedInv, ExecutedKept, TypeOK, JobRow, TypeInv, RowNames
<1>22. ASSUME NEW c \in Caller, Enqueue(c)
      PROVE  BookedIsExecuted'
  BY <1>22, <1>a, TypeFacts, EnqueueEffect DEF CallBecomes, posVars, restVars,
    BookedIsExecuted, BookedInv, ExecutedKept, TypeOK, JobRow
<1>23. ASSUME NEW c \in Caller, LimitExpired(c)
      PROVE  BookedIsExecuted'
  BY <1>23, <1>a, TypeFacts, LimitExpiredEffect DEF JobWritten, CallBecomes, posVars, restVars,
    BookedIsExecuted, BookedInv, ExecutedKept, TypeOK, JobRow
<1>24. ASSUME NEW c \in Caller, LimitClosed(c)
      PROVE  BookedIsExecuted'
  <2>1. \A k \in Job : job'[k].booked = job[k].booked
    BY <1>24, <1>a, LimitClosedWrites DEF JobWritten
  <2> QED
    BY <1>a, <2>1 DEF BookedIsExecuted, BookedInv, ExecutedKept, TypeOK, JobRow
<1>25. ASSUME NEW c \in Caller, LimitFilled(c)
      PROVE  BookedIsExecuted'
  <2>1. PICK j \in Job, o \in Order :
           /\ j = call[c].job /\ o = call[c].order /\ call[c].order # None /\ call[c].phase = "limit"
           /\ Booked(j, order[o].filled)
    BY <1>25, <1>a, TypeFacts, LimitFilledEffect
  <2>2. Covers(j, o)
    BY <1>a, <2>1 DEF BookedInv, CallsCovered
  <2>3. order[o].filled \in Nat /\ job[j].booked \in Nat /\ order[o].filled <= order[o].filled
    BY <1>a, <2>1 DEF TypeOK, OrderRow, JobRow
  <2>4. /\ \A k \in Job \ {j} : job'[k] = job[k]
        /\ job'[j].booked \in Nat /\ job'[j].booked <= job[j].booked + order[o].filled
    BY <2>1, <2>3 DEF Booked
  <2> QED
    BY <1>a, <2>1, <2>2, <2>3, <2>4, CoveredIsBooked DEF BookedInv
<1>26. ASSUME NEW c \in Caller, LimitCompletes(c)
      PROVE  BookedIsExecuted'
  BY <1>26, <1>a, TypeFacts, LimitCompletesEffect DEF JobWritten, CallBecomes, posVars,
    restVars, BookedIsExecuted, BookedInv, ExecutedKept, TypeOK, JobRow
<1>27. ASSUME NEW c \in Caller, LimitWaits(c)
      PROVE  BookedIsExecuted'
  BY <1>27, <1>a, TypeFacts, LimitWaitsEffect DEF CallBecomes, posVars, restVars,
    BookedIsExecuted, BookedInv, ExecutedKept, TypeOK, JobRow
<1>28. ASSUME NEW c \in Caller, CancelOrder(c)
      PROVE  BookedIsExecuted'
  BY <1>28, <1>a, TypeFacts, CancelOrderMoves DEF JobWritten, CallBecomes, CallMoves, posVars,
    restVars, BookedIsExecuted, BookedInv, ExecutedKept, TypeOK, JobRow
<1>29. ASSUME NEW c \in Caller, CancelWrite(c)
      PROVE  BookedIsExecuted'
  BY <1>29, <1>a, TypeFacts, CancelWriteEffect DEF JobWritten, CallBecomes, posVars, restVars,
    BookedIsExecuted, BookedInv, ExecutedKept, TypeOK, JobRow
<1>30. ASSUME NEW c \in Caller, CallFails(c)
      PROVE  BookedIsExecuted'
  BY <1>30, <1>a, TypeFacts, CallEndsEffect DEF CallBecomes, posVars, restVars,
    BookedIsExecuted, BookedInv, ExecutedKept, TypeOK, JobRow
<1>31. ASSUME NEW c \in Caller, CallDies(c)
      PROVE  BookedIsExecuted'
  BY <1>31, <1>a, TypeFacts, CallEndsEffect DEF CallBecomes, posVars, restVars,
    BookedIsExecuted, BookedInv, ExecutedKept, TypeOK, JobRow
<1>32. ASSUME TsgReset
      PROVE  BookedIsExecuted'
  BY <1>32, <1>a, TypeFacts DEF TsgReset, posVars, restVars, BookedIsExecuted, BookedInv,
    ExecutedKept, TypeOK, JobRow
<1>33. ASSUME NEW j \in Job, JobAges(j)
      PROVE  BookedIsExecuted'
  BY <1>33, <1>a, TypeFacts DEF JobAges, posVars, restVars, BookedIsExecuted, BookedInv,
    ExecutedKept, TypeOK, JobRow
<1>34. ASSUME NEW o \in Order, Fill(o)
      PROVE  BookedIsExecuted'
  BY <1>34, <1>a, TypeFacts, FillsEffect DEF OrderMoves, posVars, restVars, BookedIsExecuted,
    BookedInv, ExecutedKept, TypeOK, JobRow
<1>35. ASSUME NEW o \in Order, ExchangeCancels(o)
      PROVE  BookedIsExecuted'
  BY <1>35, <1>a, TypeFacts, ExchangeCancelsKeeps DEF JobWritten, CallBecomes, CallMoves, posVars,
    restVars, BookedIsExecuted, BookedInv, ExecutedKept, TypeOK, JobRow
<1>36. ASSUME HandSale
      PROVE  BookedIsExecuted'
  BY <1>36, <1>a, TypeFacts DEF HandSale, posVars, restVars, AllButTsg, BookedIsExecuted,
    BookedInv, ExecutedKept, TypeOK, JobRow
<1>37. ASSUME LockExpires
      PROVE  BookedIsExecuted'
  BY <1>37, <1>a, TypeFacts DEF LockExpires, posVars, restVars, BookedIsExecuted, BookedInv,
    ExecutedKept, TypeOK, JobRow
<1>38. CASE UNCHANGED vars
  BY <1>38, <1>a DEF vars, posVars, BookedIsExecuted, BookedInv, ExecutedKept, TypeOK, JobRow
<1> QED
  BY <1>1, <1>2, <1>3, <1>4, <1>5, <1>6, <1>7, <1>8, <1>9, <1>10, <1>11, <1>12, <1>13, <1>14,
    <1>15, <1>16, <1>17, <1>18, <1>19, <1>20, <1>21, <1>22, <1>23, <1>24, <1>25, <1>26, <1>27, <1>28, <1>29, <1>30, <1>31, <1>32, <1>33, <1>34, <1>35, <1>36, <1>37,
    <1>38 DEF Next, Executor, Continue

\* Every step keeps that a resting order is not booked yet.
LEMMA RowsCoveredStep == "OVERLAP" \notin Enabled /\ TypeInv /\ DeliveryInv /\ BookedInv /\ [Next]_vars => RowsCovered'
<1> SUFFICES ASSUME "OVERLAP" \notin Enabled, TypeInv /\ DeliveryInv /\ BookedInv, [Next]_vars PROVE RowsCovered'
  OBVIOUS
<1>a. TypeInv /\ DeliveryInv /\ BookedInv /\ TypeOK /\ ExecutedKept
  BY ExecutedStep DEF TypeInv
<1>1. ASSUME NEW j \in Job, Take(j)
     PROVE  RowsCovered'
  BY <1>1, <1>a, TypeFacts DEF Take, posVars, restVars, RowsCovered, BookedInv, ExecutedKept
<1>2. ASSUME Mark
     PROVE  RowsCovered'
  BY <1>2, <1>a, TypeFacts, MarkEffect DEF JobWritten, ExGoes, posVars, restVars, RowsCovered,
    BookedInv, ExecutedKept
<1>3. ASSUME CheckFails
     PROVE  RowsCovered'
  BY <1>3, <1>a, TypeFacts, CheckFailsEffect DEF JobWritten, posVars, restVars, RowsCovered,
    BookedInv, ExecutedKept
<1>4. ASSUME CheckPasses
     PROVE  RowsCovered'
  BY <1>4, <1>a, TypeFacts, CheckPassesEffect DEF ExGoes, posVars, restVars, RowsCovered,
    BookedInv, ExecutedKept
<1>5. ASSUME AcquireLock
     PROVE  RowsCovered'
  BY <1>5, <1>a, TypeFacts, AcquireEffect DEF ExGoes, posVars, restVars, RowsCovered,
    BookedInv, ExecutedKept
<1>6. ASSUME LockRefused
     PROVE  RowsCovered'
  BY <1>6, <1>a, TypeFacts, LockRefusedEffect DEF JobWritten, posVars, restVars, RowsCovered,
    BookedInv, ExecutedKept
<1>7. ASSUME NEW o \in Order, Submit(o)
     PROVE  RowsCovered'
  BY <1>7, <1>a, TypeFacts, SubmitEffect DEF OrderPlaced, posVars, restVars, RowsCovered,
    BookedInv, ExecutedKept
<1>8. ASSUME NEW o \in Order, SubmitTimesOut(o)
     PROVE  RowsCovered'
  BY <1>8, <1>a, TypeFacts, SubmitTimesOutEffect DEF OrderPlaced, JobWritten, posVars,
    restVars, RowsCovered, BookedInv, ExecutedKept
<1>9. ASSUME SubmitRefused
     PROVE  RowsCovered'
  BY <1>9, <1>a, TypeFacts, SubmitRefusedEffect DEF JobWritten, posVars, restVars, RowsCovered,
    BookedInv, ExecutedKept
<1>10. ASSUME Record
      PROVE  RowsCovered'
  BY <1>10, <1>a, TypeFacts, RecordedEffect DEF DeliveryInv, ExStatus, RowsCovered, BookedInv,
    ExecutedKept
<1>11. ASSUME Rest
      PROVE  RowsCovered'
  BY <1>11, <1>a, TypeFacts, RestEffect DEF JobWritten, posVars, restVars, RowsCovered,
    BookedInv, ExecutedKept, ExCovered
<1>12. ASSUME BookExecution
      PROVE  RowsCovered'
  BY <1>12, <1>a, TypeFacts, BookExecutionEffect DEF Booked, ExGoes, posVars, restVars,
    RowsCovered, BookedInv, ExecutedKept
<1>13. ASSUME Complete
      PROVE  RowsCovered'
  BY <1>13, <1>a, TypeFacts, CompleteEffect DEF JobWritten, posVars, restVars, RowsCovered,
    BookedInv, ExecutedKept
<1>14. ASSUME ExecutorCrash
      PROVE  RowsCovered'
  BY <1>14, <1>a, TypeFacts DEF ExecutorCrash, posVars, restVars, RowsCovered, BookedInv,
    ExecutedKept
<1>15. ASSUME NEW c \in Caller, NEW q \in 1..Qty, NEW ty \in OrderType, CloseRequest(c, q, ty)
      PROVE  RowsCovered'
  BY <1>15, <1>a, TypeFacts, CloseRequestEffect DEF CallBecomes, posVars, restVars,
    RowsCovered, BookedInv, ExecutedKept
<1>16. ASSUME NEW c \in Caller, NEW t \in Trigger, TriggerCheck(c, t)
      PROVE  RowsCovered'
  BY <1>16, <1>a, TypeFacts, TriggerCheckEffect DEF CallBecomes, posVars, restVars,
    RowsCovered, BookedInv, ExecutedKept
<1>17. ASSUME NEW c \in Caller, NEW j \in Job, LimitRead(c, j)
      PROVE  RowsCovered'
  BY <1>17, <1>a, TypeFacts, LimitReadEffect DEF CallBecomes, posVars, restVars, RowsCovered,
    BookedInv, ExecutedKept
<1>18. ASSUME NEW c \in Caller, NEW j \in Job, CancelRequest(c, j)
      PROVE  RowsCovered'
  BY <1>18, <1>a, TypeFacts, CancelRequestEffect DEF CallBecomes, posVars, restVars,
    RowsCovered, BookedInv, ExecutedKept
<1>19. ASSUME NEW c \in Caller, TriggerFlag(c)
      PROVE  RowsCovered'
  BY <1>19, <1>a, TypeFacts, TriggerFlagEffect DEF CallMoves, CallBecomes, posVars, restVars,
    RowsCovered, BookedInv, ExecutedKept
<1>20. ASSUME NEW c \in Caller, TriggerConfirm(c)
      PROVE  RowsCovered'
  BY <1>20, <1>a, TypeFacts, TriggerConfirmEffect DEF CallMoves, CallBecomes, posVars,
    restVars, RowsCovered, BookedInv, ExecutedKept
<1>21. ASSUME NEW c \in Caller, NEW j \in Job, CreateJob(c, j)
      PROVE  RowsCovered'
  BY <1>21, <1>a, TypeFacts, CreateJobEffect DEF posVars, restVars, RowsCovered, BookedInv,
    ExecutedKept, TypeInv, RowNames
<1>22. ASSUME NEW c \in Caller, Enqueue(c)
      PROVE  RowsCovered'
  BY <1>22, <1>a, TypeFacts, EnqueueEffect DEF CallBecomes, posVars, restVars, RowsCovered,
    BookedInv, ExecutedKept
<1>23. ASSUME NEW c \in Caller, LimitExpired(c)
      PROVE  RowsCovered'
  BY <1>23, <1>a, TypeFacts, LimitExpiredEffect DEF JobWritten, CallBecomes, posVars, restVars,
    RowsCovered, BookedInv, ExecutedKept
<1>24. ASSUME NEW c \in Caller, LimitClosed(c)
      PROVE  RowsCovered'
  BY <1>24, <1>a, TypeFacts, LimitClosedWrites DEF JobWritten, CallBecomes, CallMoves, posVars,
    restVars, RowsCovered, BookedInv, ExecutedKept
<1>25. ASSUME NEW c \in Caller, LimitFilled(c)
      PROVE  RowsCovered'
  BY <1>25, <1>a, TypeFacts, LimitFilledEffect DEF Booked, CallMoves, posVars, restVars,
    RowsCovered, BookedInv, ExecutedKept
<1>26. ASSUME NEW c \in Caller, LimitCompletes(c)
      PROVE  RowsCovered'
  BY <1>26, <1>a, TypeFacts, LimitCompletesEffect DEF JobWritten, CallBecomes, posVars,
    restVars, RowsCovered, BookedInv, ExecutedKept
<1>27. ASSUME NEW c \in Caller, LimitWaits(c)
      PROVE  RowsCovered'
  BY <1>27, <1>a, TypeFacts, LimitWaitsEffect DEF CallBecomes, posVars, restVars, RowsCovered,
    BookedInv, ExecutedKept
<1>28. ASSUME NEW c \in Caller, CancelOrder(c)
      PROVE  RowsCovered'
  BY <1>28, <1>a, TypeFacts, CancelOrderMoves DEF JobWritten, CallBecomes, CallMoves, posVars,
    restVars, RowsCovered, BookedInv, ExecutedKept
<1>29. ASSUME NEW c \in Caller, CancelWrite(c)
      PROVE  RowsCovered'
  BY <1>29, <1>a, TypeFacts, CancelWriteEffect DEF JobWritten, CallBecomes, posVars, restVars,
    RowsCovered, BookedInv, ExecutedKept
<1>30. ASSUME NEW c \in Caller, CallFails(c)
      PROVE  RowsCovered'
  BY <1>30, <1>a, TypeFacts, CallEndsEffect DEF CallBecomes, posVars, restVars, RowsCovered,
    BookedInv, ExecutedKept
<1>31. ASSUME NEW c \in Caller, CallDies(c)
      PROVE  RowsCovered'
  BY <1>31, <1>a, TypeFacts, CallEndsEffect DEF CallBecomes, posVars, restVars, RowsCovered,
    BookedInv, ExecutedKept
<1>32. ASSUME TsgReset
      PROVE  RowsCovered'
  BY <1>32, <1>a, TypeFacts DEF TsgReset, posVars, restVars, RowsCovered, BookedInv,
    ExecutedKept
<1>33. ASSUME NEW j \in Job, JobAges(j)
      PROVE  RowsCovered'
  BY <1>33, <1>a, TypeFacts DEF JobAges, posVars, restVars, RowsCovered, BookedInv,
    ExecutedKept
<1>34. ASSUME NEW o \in Order, Fill(o)
      PROVE  RowsCovered'
  BY <1>34, <1>a, TypeFacts, FillsEffect DEF OrderMoves, posVars, restVars, RowsCovered,
    BookedInv, ExecutedKept
<1>35. ASSUME NEW o \in Order, ExchangeCancels(o)
      PROVE  RowsCovered'
  BY <1>35, <1>a, TypeFacts, ExchangeCancelsKeeps DEF JobWritten, CallBecomes, CallMoves, posVars,
    restVars, RowsCovered, BookedInv, ExecutedKept
<1>36. ASSUME HandSale
      PROVE  RowsCovered'
  BY <1>36, <1>a, TypeFacts DEF HandSale, posVars, restVars, AllButTsg, RowsCovered, BookedInv,
    ExecutedKept
<1>37. ASSUME LockExpires
      PROVE  RowsCovered'
  BY <1>37, <1>a, TypeFacts DEF LockExpires, posVars, restVars, RowsCovered, BookedInv,
    ExecutedKept
<1>38. CASE UNCHANGED vars
  BY <1>38, <1>a DEF vars, posVars, RowsCovered, BookedInv, ExecutedKept
<1> QED
  BY <1>1, <1>2, <1>3, <1>4, <1>5, <1>6, <1>7, <1>8, <1>9, <1>10, <1>11, <1>12, <1>13, <1>14,
    <1>15, <1>16, <1>17, <1>18, <1>19, <1>20, <1>21, <1>22, <1>23, <1>24, <1>25, <1>26, <1>27, <1>28, <1>29, <1>30, <1>31, <1>32, <1>33, <1>34, <1>35, <1>36, <1>37,
    <1>38 DEF Next, Executor, Continue

\* Every step keeps that the order of a pass is not booked yet.
LEMMA CallsCoveredStep == "OVERLAP" \notin Enabled /\ TypeInv /\ DeliveryInv /\ BookedInv /\ [Next]_vars => CallsCovered'
<1> SUFFICES ASSUME "OVERLAP" \notin Enabled, TypeInv /\ DeliveryInv /\ BookedInv, [Next]_vars PROVE CallsCovered'
  OBVIOUS
<1>a. TypeInv /\ DeliveryInv /\ BookedInv /\ TypeOK /\ ExecutedKept
  BY ExecutedStep DEF TypeInv
<1>1. ASSUME NEW j \in Job, Take(j)
     PROVE  CallsCovered'
  BY <1>1, <1>a, TypeFacts, NameFacts DEF Take, posVars, restVars, CallsCovered, BookedInv,
    ExecutedKept, JobPhase
<1>2. ASSUME Mark
     PROVE  CallsCovered'
  BY <1>2, <1>a, TypeFacts, NameFacts, MarkEffect DEF JobWritten, ExGoes, posVars, restVars,
    CallsCovered, BookedInv, ExecutedKept, JobPhase
<1>3. ASSUME CheckFails
     PROVE  CallsCovered'
  BY <1>3, <1>a, TypeFacts, NameFacts, CheckFailsEffect DEF JobWritten, posVars, restVars,
    CallsCovered, BookedInv, ExecutedKept, JobPhase
<1>4. ASSUME CheckPasses
     PROVE  CallsCovered'
  BY <1>4, <1>a, TypeFacts, NameFacts, CheckPassesEffect DEF ExGoes, posVars, restVars,
    CallsCovered, BookedInv, ExecutedKept, JobPhase
<1>5. ASSUME AcquireLock
     PROVE  CallsCovered'
  BY <1>5, <1>a, TypeFacts, NameFacts, AcquireEffect DEF ExGoes, posVars, restVars,
    CallsCovered, BookedInv, ExecutedKept, JobPhase
<1>6. ASSUME LockRefused
     PROVE  CallsCovered'
  BY <1>6, <1>a, TypeFacts, NameFacts, LockRefusedEffect DEF JobWritten, posVars, restVars,
    CallsCovered, BookedInv, ExecutedKept, JobPhase
<1>7. ASSUME NEW o \in Order, Submit(o)
     PROVE  CallsCovered'
  BY <1>7, <1>a, TypeFacts, NameFacts, SubmitEffect DEF OrderPlaced, posVars, restVars,
    CallsCovered, BookedInv, ExecutedKept, JobPhase
<1>8. ASSUME NEW o \in Order, SubmitTimesOut(o)
     PROVE  CallsCovered'
  BY <1>8, <1>a, TypeFacts, NameFacts, SubmitTimesOutEffect DEF OrderPlaced, JobWritten,
    posVars, restVars, CallsCovered, BookedInv, ExecutedKept, JobPhase
<1>9. ASSUME SubmitRefused
     PROVE  CallsCovered'
  BY <1>9, <1>a, TypeFacts, NameFacts, SubmitRefusedEffect DEF JobWritten, posVars, restVars,
    CallsCovered, BookedInv, ExecutedKept, JobPhase
<1>10. ASSUME Record
      PROVE  CallsCovered'
  BY <1>10, <1>a, TypeFacts, NameFacts, RecordedEffect DEF ExGoes, posVars, restVars,
    CallsCovered, BookedInv, ExecutedKept, JobPhase
<1>11. ASSUME Rest
      PROVE  CallsCovered'
  BY <1>11, <1>a, TypeFacts, NameFacts, RestEffect DEF JobWritten, posVars, restVars,
    CallsCovered, BookedInv, ExecutedKept, JobPhase
<1>12. ASSUME BookExecution
      PROVE  CallsCovered'
  BY <1>12, <1>a, TypeFacts, NameFacts, BookExecutionEffect DEF Booked, ExGoes, posVars,
    restVars, CallsCovered, BookedInv, ExecutedKept, JobPhase, DeliveryInv, RestsDelivered,
    LimitPhase, Undelivered
<1>13. ASSUME Complete
      PROVE  CallsCovered'
  BY <1>13, <1>a, TypeFacts, NameFacts, CompleteEffect DEF JobWritten, posVars, restVars,
    CallsCovered, BookedInv, ExecutedKept, JobPhase
<1>14. ASSUME ExecutorCrash
      PROVE  CallsCovered'
  BY <1>14, <1>a, TypeFacts, NameFacts DEF ExecutorCrash, posVars, restVars, CallsCovered,
    BookedInv, ExecutedKept, JobPhase
<1>15. ASSUME NEW c \in Caller, NEW q \in 1..Qty, NEW ty \in OrderType, CloseRequest(c, q, ty)
      PROVE  CallsCovered'
  BY <1>15, <1>a, TypeFacts, NameFacts, CloseRequestEffect DEF CallBecomes, posVars, restVars,
    CallsCovered, BookedInv, ExecutedKept, JobPhase
<1>16. ASSUME NEW c \in Caller, NEW t \in Trigger, TriggerCheck(c, t)
      PROVE  CallsCovered'
  BY <1>16, <1>a, TypeFacts, NameFacts, TriggerCheckEffect DEF CallBecomes, posVars, restVars,
    CallsCovered, BookedInv, ExecutedKept, JobPhase
<1>17. ASSUME NEW c \in Caller, NEW j \in Job, LimitRead(c, j)
      PROVE  CallsCovered'
  BY <1>17, <1>a, TypeFacts, NameFacts, LimitReadEffect DEF CallBecomes, posVars, restVars,
    CallsCovered, BookedInv, ExecutedKept, JobPhase, RowsCovered
<1>18. ASSUME NEW c \in Caller, NEW j \in Job, CancelRequest(c, j)
      PROVE  CallsCovered'
  BY <1>18, <1>a, TypeFacts, NameFacts, CancelRequestEffect DEF CallBecomes, posVars, restVars,
    CallsCovered, BookedInv, ExecutedKept, JobPhase
<1>19. ASSUME NEW c \in Caller, TriggerFlag(c)
      PROVE  CallsCovered'
  BY <1>19, <1>a, TypeFacts, NameFacts, TriggerFlagEffect DEF CallMoves, CallBecomes, posVars,
    restVars, CallsCovered, BookedInv, ExecutedKept, JobPhase
<1>20. ASSUME NEW c \in Caller, TriggerConfirm(c)
      PROVE  CallsCovered'
  BY <1>20, <1>a, TypeFacts, NameFacts, TriggerConfirmEffect DEF CallMoves, CallBecomes,
    posVars, restVars, CallsCovered, BookedInv, ExecutedKept, JobPhase
<1>21. ASSUME NEW c \in Caller, NEW j \in Job, CreateJob(c, j)
      PROVE  CallsCovered'
  BY <1>21, <1>a, TypeFacts, NameFacts, CreateJobEffect DEF posVars, restVars, CallsCovered,
    BookedInv, ExecutedKept, JobPhase
<1>22. ASSUME NEW c \in Caller, Enqueue(c)
      PROVE  CallsCovered'
  BY <1>22, <1>a, TypeFacts, NameFacts, EnqueueEffect DEF CallBecomes, posVars, restVars,
    CallsCovered, BookedInv, ExecutedKept, JobPhase
<1>23. ASSUME NEW c \in Caller, LimitExpired(c)
      PROVE  CallsCovered'
  BY <1>23, <1>a, TypeFacts, NameFacts, LimitExpiredEffect DEF JobWritten, CallBecomes,
    posVars, restVars, CallsCovered, BookedInv, ExecutedKept, JobPhase
<1>24. ASSUME NEW c \in Caller, LimitClosed(c)
      PROVE  CallsCovered'
  BY <1>24, <1>a, TypeFacts, NameFacts, LimitClosedWrites DEF JobWritten, CallBecomes, CallMoves,
    posVars, restVars, CallsCovered, BookedInv, ExecutedKept, JobPhase
<1>25. ASSUME NEW c \in Caller, LimitFilled(c)
      PROVE  CallsCovered'
  BY <1>25, <1>a, TypeFacts, NameFacts, LimitFilledEffect DEF Booked, CallMoves, posVars,
    restVars, CallsCovered, BookedInv, ExecutedKept, JobPhase, OnePass, LimitPhase
<1>26. ASSUME NEW c \in Caller, LimitCompletes(c)
      PROVE  CallsCovered'
  BY <1>26, <1>a, TypeFacts, NameFacts, LimitCompletesEffect DEF JobWritten, CallBecomes,
    posVars, restVars, CallsCovered, BookedInv, ExecutedKept, JobPhase
<1>27. ASSUME NEW c \in Caller, LimitWaits(c)
      PROVE  CallsCovered'
  BY <1>27, <1>a, TypeFacts, NameFacts, LimitWaitsEffect DEF CallBecomes, posVars, restVars,
    CallsCovered, BookedInv, ExecutedKept, JobPhase
<1>28. ASSUME NEW c \in Caller, CancelOrder(c)
      PROVE  CallsCovered'
  BY <1>28, <1>a, TypeFacts, NameFacts, CancelOrderMoves DEF JobWritten, CallBecomes, CallMoves,
    posVars, restVars, CallsCovered, BookedInv, ExecutedKept, JobPhase
<1>29. ASSUME NEW c \in Caller, CancelWrite(c)
      PROVE  CallsCovered'
  BY <1>29, <1>a, TypeFacts, NameFacts, CancelWriteEffect DEF JobWritten, CallBecomes, posVars,
    restVars, CallsCovered, BookedInv, ExecutedKept, JobPhase
<1>30. ASSUME NEW c \in Caller, CallFails(c)
      PROVE  CallsCovered'
  BY <1>30, <1>a, TypeFacts, NameFacts, CallEndsEffect DEF CallBecomes, posVars, restVars,
    CallsCovered, BookedInv, ExecutedKept, JobPhase
<1>31. ASSUME NEW c \in Caller, CallDies(c)
      PROVE  CallsCovered'
  BY <1>31, <1>a, TypeFacts, NameFacts, CallEndsEffect DEF CallBecomes, posVars, restVars,
    CallsCovered, BookedInv, ExecutedKept, JobPhase
<1>32. ASSUME TsgReset
      PROVE  CallsCovered'
  BY <1>32, <1>a, TypeFacts, NameFacts DEF TsgReset, posVars, restVars, CallsCovered,
    BookedInv, ExecutedKept, JobPhase
<1>33. ASSUME NEW j \in Job, JobAges(j)
      PROVE  CallsCovered'
  BY <1>33, <1>a, TypeFacts, NameFacts DEF JobAges, posVars, restVars, CallsCovered, BookedInv,
    ExecutedKept, JobPhase
<1>34. ASSUME NEW o \in Order, Fill(o)
      PROVE  CallsCovered'
  BY <1>34, <1>a, TypeFacts, NameFacts, FillsEffect DEF OrderMoves, posVars, restVars,
    CallsCovered, BookedInv, ExecutedKept, JobPhase
<1>35. ASSUME NEW o \in Order, ExchangeCancels(o)
      PROVE  CallsCovered'
  BY <1>35, <1>a, TypeFacts, NameFacts, ExchangeCancelsKeeps DEF JobWritten, CallBecomes,
    CallMoves, posVars, restVars, CallsCovered, BookedInv, ExecutedKept, JobPhase
<1>36. ASSUME HandSale
      PROVE  CallsCovered'
  BY <1>36, <1>a, TypeFacts, NameFacts DEF HandSale, posVars, restVars, AllButTsg,
    CallsCovered, BookedInv, ExecutedKept, JobPhase
<1>37. ASSUME LockExpires
      PROVE  CallsCovered'
  BY <1>37, <1>a, TypeFacts, NameFacts DEF LockExpires, posVars, restVars, CallsCovered,
    BookedInv, ExecutedKept, JobPhase
<1>38. CASE UNCHANGED vars
  BY <1>38, <1>a DEF vars, posVars, CallsCovered, BookedInv, ExecutedKept, JobPhase
<1> QED
  BY <1>1, <1>2, <1>3, <1>4, <1>5, <1>6, <1>7, <1>8, <1>9, <1>10, <1>11, <1>12, <1>13, <1>14,
    <1>15, <1>16, <1>17, <1>18, <1>19, <1>20, <1>21, <1>22, <1>23, <1>24, <1>25, <1>26, <1>27, <1>28, <1>29, <1>30, <1>31, <1>32, <1>33, <1>34, <1>35, <1>36, <1>37,
    <1>38 DEF Next, Executor, Continue

\* Every step keeps that the executor's order is not booked yet.
LEMMA ExCoveredStep == "OVERLAP" \notin Enabled /\ TypeInv /\ DeliveryInv /\ BookedInv /\ [Next]_vars => ExCovered'
<1> SUFFICES ASSUME "OVERLAP" \notin Enabled, TypeInv /\ DeliveryInv /\ BookedInv, [Next]_vars PROVE ExCovered'
  OBVIOUS
<1>a. TypeInv /\ DeliveryInv /\ BookedInv /\ TypeOK /\ ExecutedKept
  BY ExecutedStep DEF TypeInv
<1>1. ASSUME NEW j \in Job, Take(j)
     PROVE  ExCovered'
  BY <1>1, <1>a, TypeFacts DEF Take, posVars, restVars, ExCovered, BookedInv, ExecutedKept,
    TypeOK, ExState, ExIdle
<1>2. ASSUME Mark
     PROVE  ExCovered'
  BY <1>2, <1>a, TypeFacts, MarkEffect DEF JobWritten, ExGoes, posVars, restVars, ExCovered,
    BookedInv, ExecutedKept, TypeOK, ExState
<1>3. ASSUME CheckFails
     PROVE  ExCovered'
  BY <1>3, <1>a, TypeFacts, CheckFailsEffect DEF JobWritten, posVars, restVars, ExCovered,
    BookedInv, ExecutedKept, TypeOK, ExState
<1>4. ASSUME CheckPasses
     PROVE  ExCovered'
  BY <1>4, <1>a, TypeFacts, CheckPassesEffect DEF ExGoes, posVars, restVars, ExCovered,
    BookedInv, ExecutedKept, TypeOK, ExState
<1>5. ASSUME AcquireLock
     PROVE  ExCovered'
  BY <1>5, <1>a, TypeFacts, AcquireEffect DEF ExGoes, posVars, restVars, ExCovered, BookedInv,
    ExecutedKept, TypeOK, ExState
<1>6. ASSUME LockRefused
     PROVE  ExCovered'
  BY <1>6, <1>a, TypeFacts, LockRefusedEffect DEF JobWritten, posVars, restVars, ExCovered,
    BookedInv, ExecutedKept, TypeOK, ExState
<1>7. ASSUME NEW o \in Order, Submit(o)
     PROVE  ExCovered'
  <2>1. PICK j \in Job : j = ex.job
    BY <1>7, <1>a, SubmitEffect
  <2>2. TypeOK /\ TypeOK' /\ Grows
    BY <1>a, TypeOKStep DEF ExecutedKept
  <2>3. OrderPlaced(o, order'[o].qty, order'[o].filled) /\ UNCHANGED job
    BY <1>7, <1>a, SubmitEffect
  <2>4. order[o].job # j /\ order'[o].job = j /\ job'[j].booked = job[j].booked
    BY <2>1, <2>3, SellOrdersAssumption DEF OrderPlaced
  <2>5. job[j].booked <= ExecutedBy(j)
    BY <1>a, <2>1 DEF BookedInv, BookedIsExecuted
  <2>6. Covers(j, o)'
    BY <2>1, <2>2, <2>4, <2>5, CoversPlaced
  <2>7. ex'.job = j /\ ex'.order = o /\ ex'.phase = "ordered" /\ ex'.got \in Told(Filled(o)')
    BY <1>7, <1>a, <2>1, SubmitEffect DEF Filled
  <2>8. Filled(o)' \in Nat
    BY <2>2 DEF Filled, TypeOK, OrderRow
  <2>9. ex'.got <= Filled(o)'
    BY <2>7, <2>8 DEF Told
  <2> QED
    BY <2>6, <2>7, <2>9 DEF ExCovered
<1>8. ASSUME NEW o \in Order, SubmitTimesOut(o)
     PROVE  ExCovered'
  BY <1>8, <1>a, TypeFacts, SubmitTimesOutEffect DEF OrderPlaced, JobWritten, posVars,
    restVars, ExCovered, BookedInv, ExecutedKept, TypeOK, ExState
<1>9. ASSUME SubmitRefused
     PROVE  ExCovered'
  BY <1>9, <1>a, TypeFacts, SubmitRefusedEffect DEF JobWritten, posVars, restVars, ExCovered,
    BookedInv, ExecutedKept, TypeOK, ExState
<1>10. ASSUME Record
      PROVE  ExCovered'
  BY <1>10, <1>a, TypeFacts, RecordedEffect DEF ExGoes, posVars, restVars, ExCovered,
    BookedInv, ExecutedKept, TypeOK, ExState
<1>11. ASSUME Rest
      PROVE  ExCovered'
  BY <1>11, <1>a, TypeFacts, RestEffect DEF JobWritten, posVars, restVars, ExCovered,
    BookedInv, ExecutedKept, TypeOK, ExState
<1>12. ASSUME BookExecution
      PROVE  ExCovered'
  BY <1>12, <1>a, TypeFacts, BookExecutionEffect DEF Booked, ExGoes, posVars, restVars,
    ExCovered, BookedInv, ExecutedKept, TypeOK, ExState
<1>13. ASSUME Complete
      PROVE  ExCovered'
  BY <1>13, <1>a, TypeFacts, CompleteEffect DEF JobWritten, posVars, restVars, ExCovered,
    BookedInv, ExecutedKept, TypeOK, ExState
<1>14. ASSUME ExecutorCrash
      PROVE  ExCovered'
  BY <1>14, <1>a, TypeFacts DEF ExecutorCrash, posVars, restVars, ExCovered, BookedInv,
    ExecutedKept, TypeOK, ExState
<1>15. ASSUME NEW c \in Caller, NEW q \in 1..Qty, NEW ty \in OrderType, CloseRequest(c, q, ty)
      PROVE  ExCovered'
  BY <1>15, <1>a, TypeFacts, CloseRequestEffect DEF CallBecomes, posVars, restVars, ExCovered,
    BookedInv, ExecutedKept, TypeOK, ExState
<1>16. ASSUME NEW c \in Caller, NEW t \in Trigger, TriggerCheck(c, t)
      PROVE  ExCovered'
  BY <1>16, <1>a, TypeFacts, TriggerCheckEffect DEF CallBecomes, posVars, restVars, ExCovered,
    BookedInv, ExecutedKept, TypeOK, ExState
<1>17. ASSUME NEW c \in Caller, NEW j \in Job, LimitRead(c, j)
      PROVE  ExCovered'
  BY <1>17, <1>a, TypeFacts, LimitReadEffect DEF CallBecomes, posVars, restVars, ExCovered,
    BookedInv, ExecutedKept, TypeOK, ExState
<1>18. ASSUME NEW c \in Caller, NEW j \in Job, CancelRequest(c, j)
      PROVE  ExCovered'
  BY <1>18, <1>a, TypeFacts, CancelRequestEffect DEF CallBecomes, posVars, restVars, ExCovered,
    BookedInv, ExecutedKept, TypeOK, ExState
<1>19. ASSUME NEW c \in Caller, TriggerFlag(c)
      PROVE  ExCovered'
  BY <1>19, <1>a, TypeFacts, TriggerFlagEffect DEF CallMoves, CallBecomes, posVars, restVars,
    ExCovered, BookedInv, ExecutedKept, TypeOK, ExState
<1>20. ASSUME NEW c \in Caller, TriggerConfirm(c)
      PROVE  ExCovered'
  BY <1>20, <1>a, TypeFacts, TriggerConfirmEffect DEF CallMoves, CallBecomes, posVars,
    restVars, ExCovered, BookedInv, ExecutedKept, TypeOK, ExState
<1>21. ASSUME NEW c \in Caller, NEW j \in Job, CreateJob(c, j)
      PROVE  ExCovered'
  BY <1>21, <1>a, TypeFacts, CreateJobEffect DEF posVars, restVars, ExCovered, BookedInv,
    ExecutedKept, TypeOK, ExState
<1>22. ASSUME NEW c \in Caller, Enqueue(c)
      PROVE  ExCovered'
  BY <1>22, <1>a, TypeFacts, EnqueueEffect DEF CallBecomes, posVars, restVars, ExCovered,
    BookedInv, ExecutedKept, TypeOK, ExState
<1>23. ASSUME NEW c \in Caller, LimitExpired(c)
      PROVE  ExCovered'
  BY <1>23, <1>a, TypeFacts, LimitExpiredEffect DEF JobWritten, CallBecomes, posVars, restVars,
    ExCovered, BookedInv, ExecutedKept, TypeOK, ExState
<1>24. ASSUME NEW c \in Caller, LimitClosed(c)
      PROVE  ExCovered'
  BY <1>24, <1>a, TypeFacts, LimitClosedWrites DEF JobWritten, CallBecomes, CallMoves, posVars,
    restVars, ExCovered, BookedInv, ExecutedKept, TypeOK, ExState
<1>25. ASSUME NEW c \in Caller, LimitFilled(c)
      PROVE  ExCovered'
  BY <1>25, <1>a, TypeFacts, LimitFilledEffect DEF Booked, CallMoves, posVars, restVars,
    ExCovered, BookedInv, ExecutedKept, TypeOK, ExState, DeliveryInv, RestsDelivered,
    LimitPhase, Undelivered
<1>26. ASSUME NEW c \in Caller, LimitCompletes(c)
      PROVE  ExCovered'
  BY <1>26, <1>a, TypeFacts, LimitCompletesEffect DEF JobWritten, CallBecomes, posVars,
    restVars, ExCovered, BookedInv, ExecutedKept, TypeOK, ExState
<1>27. ASSUME NEW c \in Caller, LimitWaits(c)
      PROVE  ExCovered'
  BY <1>27, <1>a, TypeFacts, LimitWaitsEffect DEF CallBecomes, posVars, restVars, ExCovered,
    BookedInv, ExecutedKept, TypeOK, ExState
<1>28. ASSUME NEW c \in Caller, CancelOrder(c)
      PROVE  ExCovered'
  BY <1>28, <1>a, TypeFacts, CancelOrderMoves DEF JobWritten, CallBecomes, CallMoves, posVars,
    restVars, ExCovered, BookedInv, ExecutedKept, TypeOK, ExState
<1>29. ASSUME NEW c \in Caller, CancelWrite(c)
      PROVE  ExCovered'
  BY <1>29, <1>a, TypeFacts, CancelWriteEffect DEF JobWritten, CallBecomes, posVars, restVars,
    ExCovered, BookedInv, ExecutedKept, TypeOK, ExState
<1>30. ASSUME NEW c \in Caller, CallFails(c)
      PROVE  ExCovered'
  BY <1>30, <1>a, TypeFacts, CallEndsEffect DEF CallBecomes, posVars, restVars, ExCovered,
    BookedInv, ExecutedKept, TypeOK, ExState
<1>31. ASSUME NEW c \in Caller, CallDies(c)
      PROVE  ExCovered'
  BY <1>31, <1>a, TypeFacts, CallEndsEffect DEF CallBecomes, posVars, restVars, ExCovered,
    BookedInv, ExecutedKept, TypeOK, ExState
<1>32. ASSUME TsgReset
      PROVE  ExCovered'
  BY <1>32, <1>a, TypeFacts DEF TsgReset, posVars, restVars, ExCovered, BookedInv,
    ExecutedKept, TypeOK, ExState
<1>33. ASSUME NEW j \in Job, JobAges(j)
      PROVE  ExCovered'
  BY <1>33, <1>a, TypeFacts DEF JobAges, posVars, restVars, ExCovered, BookedInv, ExecutedKept,
    TypeOK, ExState
<1>34. ASSUME NEW o \in Order, Fill(o)
      PROVE  ExCovered'
  BY <1>34, <1>a, TypeFacts, FillsEffect DEF OrderMoves, posVars, restVars, ExCovered,
    BookedInv, ExecutedKept, TypeOK, ExState
<1>35. ASSUME NEW o \in Order, ExchangeCancels(o)
      PROVE  ExCovered'
  BY <1>35, <1>a, TypeFacts, ExchangeCancelsKeeps DEF JobWritten, CallBecomes, CallMoves, posVars,
    restVars, ExCovered, BookedInv, ExecutedKept, TypeOK, ExState
<1>36. ASSUME HandSale
      PROVE  ExCovered'
  BY <1>36, <1>a, TypeFacts DEF HandSale, posVars, restVars, AllButTsg, ExCovered, BookedInv,
    ExecutedKept, TypeOK, ExState
<1>37. ASSUME LockExpires
      PROVE  ExCovered'
  BY <1>37, <1>a, TypeFacts DEF LockExpires, posVars, restVars, ExCovered, BookedInv,
    ExecutedKept, TypeOK, ExState
<1>38. CASE UNCHANGED vars
  BY <1>38, <1>a DEF vars, posVars, ExCovered, BookedInv, ExecutedKept, TypeOK, ExState
<1> QED
  BY <1>1, <1>2, <1>3, <1>4, <1>5, <1>6, <1>7, <1>8, <1>9, <1>10, <1>11, <1>12, <1>13, <1>14,
    <1>15, <1>16, <1>17, <1>18, <1>19, <1>20, <1>21, <1>22, <1>23, <1>24, <1>25, <1>26, <1>27, <1>28, <1>29, <1>30, <1>31, <1>32, <1>33, <1>34, <1>35, <1>36, <1>37,
    <1>38 DEF Next, Executor, Continue

\* Initially nothing is booked.
LEMMA BookedInit == Init => BookedInv
<1> SUFFICES ASSUME Init PROVE BookedInv
  OBVIOUS
<1>1. TypeOK
  BY TypeInit DEF TypeInv
<1>2. \A j \in Job : ExecutedBy(j) \in Nat
  BY <1>1, ExecutedIsSum DEF ExecutedSum
<1> QED
  BY <1>2 DEF Init, NoJob, ExIdle, NoCall, BookedInv, OnePass, BookedIsExecuted, RowsCovered,
    CallsCovered, ExCovered, LimitPhase

\* Every step keeps what is booked covered by what was executed.
LEMMA BookedInvStep == "OVERLAP" \notin Enabled /\ TypeInv /\ DeliveryInv /\ BookedInv /\ [Next]_vars => BookedInv'
  BY OnePassStep, BookedStep, RowsCoveredStep, CallsCoveredStep, ExCoveredStep DEF BookedInv

\* What is booked on the position was executed by an order of the job, whatever
\* fails, as long as a pass of the limit-orders monitor ends before the next
\* one looks at the same job.
THEOREM BookedWasExecuted == ASSUME "OVERLAP" \notin Enabled PROVE Spec => []BookedIsExecuted
<1>1. Init => TypeInv /\ DeliveryInv /\ BookedInv
  BY TypeInit, DeliveryInit, BookedInit
<1>2. TypeInv /\ DeliveryInv /\ BookedInv /\ [Next]_vars => (TypeInv /\ DeliveryInv /\ BookedInv)'
  BY TypeStep, DeliveryStep, BookedInvStep
<1>3. BookedInv => BookedIsExecuted
  BY DEF BookedInv
<1> QED
  BY <1>1, <1>2, <1>3, PTL DEF Spec
=============================================================================
