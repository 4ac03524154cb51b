--------------------------- MODULE SellLockProofs ---------------------------
(***************************************************************************)
(* What the sell lock of SellOrders is worth, for every number of jobs,    *)
(* orders and callers and every quantity:                                  *)
(*                                                                         *)
(*  - OneOrderIsLive, LiveOrderIsWatched, CanceledIsOffExchange,           *)
(*    CanceledSoldNothing: when Calm, whatever the exchange refuses or     *)
(*    cancels, requests fail, bookings fail, passes of the limit-orders    *)
(*    monitor overlap and others sell by hand;                             *)
(*  - NothingOversold: when Calm, and everything that is executed is       *)
(*    booked, once.                                                        *)
(***************************************************************************)
EXTENDS SellOrdersProofs

(***************************************************************************)
(* Calm: nothing dies or is lost, an answer to a new order tells its       *)
(* status, orders are filled at once, and nobody writes CANCELED without   *)
(* the exchange                                                            *)
(***************************************************************************)
Calm == Enabled \cap {"CRASH", "TIMEOUT", "NO_STATUS", "PARTIAL", "STALE_LIST", "CANCEL_FAILS",
                      "SLOW_QUEUE", "CANCEL_API", "EXPIRY"} = {}

\* All or nothing is executed of an order.
WholeOrders ==
  \A o \in Order :
    /\ order[o].live => order[o].job # None /\ Filled(o) = 0
    /\ order[o].job = None => Filled(o) = 0
    /\ order[o].job # None => order[o].qty > 0 /\ Created(order[o].job)
    /\ Filled(o) \in {0, order[o].qty}

\* A job has an order only when the executor is past placing it, and one.
OrderedOnce ==
  \A o \in Order : order[o].job # None =>
    /\ order[o].job \notin queue
    /\ ~ToQueue(order[o].job)
    /\ ex.job = order[o].job => ex.phase \in OrderPhase /\ ex.order = o
    /\ \A p \in Order : order[p].job = order[o].job => p = o
    /\ job[order[o].job].status # "PENDING"

ExOrder ==
  /\ ex.phase \in OrderPhase =>
       /\ order[ex.order].job = ex.job
       /\ ex.got > 0 => Filled(ex.order) = order[ex.order].qty /\ ex.got = Filled(ex.order)
  /\ ex.phase = "booked" => ex.got > 0
  /\ ex.phase \in {"marked", "valid", "locked", "ordered", "recorded"} => job[ex.job].status = "EXECUTING"
  /\ ex.phase \in {"locked"} \cup OrderPhase => lock = ex.job

JobOrder == \A j \in Job : job[j].order # None => order[job[j].order].job = j

CallOrder ==
  \A c \in Caller :
    /\ call[c].phase \notin {"cancel", "cancelWrite"}
    /\ call[c].phase \in LimitPhase => call[c].order \in Order /\ order[call[c].order].job = call[c].job
    /\ call[c].phase = "limitFilled" => Filled(call[c].order) = order[call[c].order].qty

Amounts ==
  /\ \A j \in Job : job[j].status # "NONE" => job[j].qty > 0
  /\ \A c \in Caller : call[c].phase \in {"create", "flag", "confirm"} => call[c].qty > 0

\* Nothing is on its way to the executor.
Quiet ==
  /\ ex.phase = "idle"
  /\ queue = {}
  /\ \A c \in Caller : call[c].phase \notin {"create", "enqueue"}

Watched(j) == job[j].status \in {"PENDING_LIMIT", "EXECUTING"}

\* The lock outlives a waiting order, or nothing else is about to be placed.
Guarded(j) == Watched(j) /\ (lock = j \/ Quiet)

LiveGuarded == \A o \in Order : order[o].live => Guarded(order[o].job)

SoldNotCanceled == \A o \in Order : Filled(o) > 0 => job[order[o].job].status # "CANCELED"

CalmInv ==
  /\ WholeOrders
  /\ OrderedOnce
  /\ ExOrder
  /\ JobOrder
  /\ CallOrder
  /\ Amounts
  /\ OneLiveOrder
  /\ LiveGuarded
  /\ SoldNotCanceled

(***************************************************************************)
(* The position sells only through orders that are booked                  *)
(***************************************************************************)
Accounted == Calm /\ Enabled \cap {"HAND_SALE", "BOOK_FAILS", "OVERLAP"} = {}

\* o is open, or executed and not booked yet.
Unsettled(o) ==
  order[o].job # None /\ (order[o].live \/ (Filled(o) > 0 /\ job[order[o].job].booked = 0))

\* What was executed of o and is booked.
Due(o) == IF Unsettled(o) THEN 0 ELSE Filled(o)

Settled == SumFunction([o \in Order |-> Due(o)])

Unbooked ==
  /\ \A j \in Job : Undelivered(j) /\ ~(ex.job = j /\ ex.phase = "booked") => job[j].booked = 0
  /\ \A j \in Job : job[j].status = "PENDING_LIMIT" => job[j].booked = 0
  /\ \A c \in Caller : call[c].phase = "limit" => job[call[c].job].booked = 0
  /\ \A c \in Caller : call[c].phase = "limitFilled" => job[call[c].job].booked > 0
  /\ ex.phase = "booked" => job[ex.job].booked > 0

LiveUnbooked == \A o \in Order : order[o].live => job[order[o].job].booked = 0

StockKept == Settled + byHand + qty <= Qty

UnsettledFits == \A o \in Order : Unsettled(o) => order[o].qty <= qty /\ Guarded(order[o].job)

OneUnsettled == \A o, p \in Order : Unsettled(o) /\ Unsettled(p) => o = p

\* The quantity was checked, and is checked again by whoever gets the lock.
ExFits ==
  /\ ex.phase = "valid" => job[ex.job].qty <= qty \/ lock \notin {None, ex.job} \/ qty = 0
  /\ ex.phase = "locked" => job[ex.job].qty <= qty

StockInv ==
  /\ Unbooked
  /\ LiveUnbooked
  /\ StockKept
  /\ UnsettledFits
  /\ OneUnsettled
  /\ ExFits

-----------------------------------------------------------------------------
(***************************************************************************)
(* What a calm state rules out                                             *)
(***************************************************************************)
CalmHyp == Calm /\ TypeInv /\ DeliveryInv /\ CalmInv

\* The failures a calm run is free of.
LEMMA CalmEnabled ==
  ASSUME Calm
  PROVE  /\ "CRASH" \notin Enabled /\ "TIMEOUT" \notin Enabled /\ "NO_STATUS" \notin Enabled
         /\ "PARTIAL" \notin Enabled
         /\ "STALE_LIST" \notin Enabled /\ "CANCEL_FAILS" \notin Enabled
         /\ "SLOW_QUEUE" \notin Enabled /\ "CANCEL_API" \notin Enabled /\ "EXPIRY" \notin Enabled
  BY DEF Calm

\* The actions a calm run never takes.
LEMMA CalmRulesOut ==
  ASSUME CalmHyp
  PROVE  /\ ~ExecutorCrash
         /\ \A o \in Order : ~SubmitTimesOut(o)
         /\ \A c \in Caller : ~LimitExpired(c) /\ ~CallDies(c) /\ ~CancelOrder(c) /\ ~CancelWrite(c)
         /\ \A c \in Caller, j \in Job : ~CancelRequest(c, j)
  BY CalmEnabled DEF CalmHyp, CalmInv, CallOrder, ExecutorCrash, SubmitTimesOut, LimitExpired, CallDies,
     CancelOrder, CancelWrite, CancelRequest

\* An order that exists has a job that exists, and is executed wholly or not
\* at all.
LEMMA OrdersHaveJobs ==
  ASSUME CalmHyp
  PROVE  /\ \A o \in Order : order[o].qty \in Nat /\ Filled(o) \in Nat
         /\ \A o \in Order : order[o].live => Filled(o) = 0
         /\ \A o \in Order : order[o].live \/ Filled(o) > 0 => order[o].job # None
         /\ \A o \in Order : order[o].job # None =>
              order[o].job \in Job /\ order[o].qty > 0 /\ job[order[o].job].status # "NONE"
         /\ \A o \in Order : Filled(o) \in {0, order[o].qty}
<1>1. TypeOK /\ WholeOrders
  BY DEF CalmHyp, TypeInv, CalmInv
<1>2. \A o \in Order : order[o].qty \in Nat /\ Filled(o) \in Nat
  BY <1>1 DEF TypeOK, OrderRow, Filled
<1> QED
  BY <1>1, <1>2 DEF WholeOrders, Created

\* A pass of the limit-orders monitor is over a job the executor is done with,
\* and knows its one order.
LEMMA CallsKnow ==
  ASSUME CalmHyp, NEW c \in Caller, call[c].phase \in LimitPhase
  PROVE  /\ call[c].job \in Job /\ call[c].order \in Order
         /\ order[call[c].order].job = call[c].job
         /\ \A p \in Order : order[p].job = call[c].job => p = call[c].order
         /\ call[c].job # ex.job
<1>1. call[c].phase \in JobPhase
  BY DEF LimitPhase, JobPhase
<1>2. call[c].job \in Job /\ call[c].job # None
  BY <1>1, NameFacts DEF CalmHyp
<1>3. call[c].order \in Order /\ order[call[c].order].job = call[c].job
  BY DEF CalmHyp, CalmInv, CallOrder
<1>4. \A p \in Order : order[p].job = call[c].job => p = call[c].order
  BY <1>2, <1>3 DEF CalmHyp, CalmInv, OrderedOnce
<1>5. call[c].order # None
  BY <1>3, TypeFacts
<1>6. ~Undelivered(call[c].job)
  BY <1>5 DEF CalmHyp, DeliveryInv, RestsDelivered
<1> QED
  BY <1>2, <1>3, <1>4, <1>6 DEF Undelivered

\* Before the executor places the order of its job there is none.
LEMMA NotPlacedYet ==
  ASSUME CalmHyp, ex.phase \in {"taken", "marked", "valid", "locked"}
  PROVE  /\ ex.job \in Job
         /\ \A p \in Order : order[p].job # ex.job
<1>1. ex.job \in Job /\ ex.job # None
  BY TypeFacts DEF CalmHyp
<1> QED
  BY <1>1 DEF CalmHyp, CalmInv, OrderedOnce, OrderPhase

\* While the executor is at work an open order has the lock.
LEMMA LiveHasLock ==
  ASSUME CalmHyp, ~Quiet, NEW p \in Order, order[p].live
  PROVE  lock = order[p].job /\ lock # None /\ lock \in Job
<1>1. lock = order[p].job
  BY DEF CalmHyp, CalmInv, LiveGuarded, Guarded
<1> QED
  BY <1>1, OrdersHaveJobs

\* When the executor may place an order nothing is open.
LEMMA NothingLive ==
  ASSUME CalmHyp, ex.phase = "locked" \/ (ex.phase = "valid" /\ lock \in {None, ex.job})
  PROVE  \A p \in Order : ~order[p].live
<1>1. \A p \in Order : order[p].job # ex.job
  BY NotPlacedYet
<1>2. ~Quiet
  BY DEF Quiet
<1>3. lock \in {None, ex.job}
  BY DEF CalmHyp, CalmInv, ExOrder
<1> QED
  BY <1>1, <1>2, <1>3, LiveHasLock

\* The executor's job has one order, which is off the exchange when something
\* of it was executed.
LEMMA PlacedOrder ==
  ASSUME CalmHyp, ex.phase \in OrderPhase
  PROVE  /\ ex.job \in Job /\ ex.order \in Order /\ order[ex.order].job = ex.job
         /\ \A p \in Order : order[p].job = ex.job => p = ex.order
         /\ ex.phase = "booked" => ex.got > 0
         /\ ex.got > 0 => ~order[ex.order].live
<1>1. ex.job \in Job /\ ex.job # None /\ ex.order \in Order
  <2>1. ex.phase # "idle"
    BY DEF OrderPhase
  <2> QED
    BY <2>1, TypeFacts DEF CalmHyp, TypeInv, ExNames
<1>2. order[ex.order].job = ex.job
  BY DEF CalmHyp, CalmInv, ExOrder
<1>3. \A p \in Order : order[p].job = ex.job => p = ex.order
  BY <1>1 DEF CalmHyp, CalmInv, OrderedOnce
<1>4. ex.got > 0 => ~order[ex.order].live
  <2>1. ex.got > 0 => Filled(ex.order) = order[ex.order].qty
    BY DEF CalmHyp, CalmInv, ExOrder
  <2> QED
    BY <1>1, <1>2, <2>1, OrdersHaveJobs
<1> QED
  BY <1>1, <1>2, <1>3, <1>4 DEF CalmHyp, CalmInv, ExOrder

\* An open order has a job that is active.
LEMMA LiveIsActive ==
  ASSUME CalmHyp, NEW p \in Order, order[p].live
  PROVE  ActiveJob
<1>1. order[p].job \in Job
  BY OrdersHaveJobs
<1>2. job[order[p].job].status \in {"PENDING_LIMIT", "EXECUTING"}
  BY DEF CalmHyp, CalmInv, LiveGuarded, Guarded, Watched
<1> QED
  BY <1>1, <1>2 DEF ActiveJob, ActiveStatus

\* Orders are at most taken off the exchange.
OrdersFade ==
  /\ order' \in [Order -> OrderRow]
  /\ \A p \in Order : /\ order'[p].job = order[p].job /\ order'[p].qty = order[p].qty
                      /\ order'[p].filled = order[p].filled
                      /\ order'[p].live => order[p].live

\* Taking one order off the exchange in the terms of OrdersFade.
LEMMA MovedFades ==
  ASSUME TypeOK, NEW o \in Order, OrderMoves(o, order[o].filled, FALSE)
  PROVE  OrdersFade /\ ~order'[o].live
<1>1. order' \in [Order -> OrderRow] /\ \A p \in Order \ {o} : order'[p] = order[p]
  BY DEF OrderMoves
<1>2. order'[o].job = order[o].job /\ order'[o].qty = order[o].qty
      /\ order'[o].filled = order[o].filled /\ ~order'[o].live
  BY DEF OrderMoves
<1> QED
  BY <1>1, <1>2 DEF OrdersFade

\* So does leaving the orders alone.
LEMMA SameFades ==
  ASSUME TypeOK, UNCHANGED order
  PROVE  OrdersFade
  BY DEF TypeOK, OrdersFade

\* When a request to cancel does not fail, the order of a closed position is
\* off the exchange when its job is CANCELED.
LEMMA LimitClosedCalm ==
  ASSUME CalmHyp, NEW c \in Caller, LimitClosed(c)
  PROVE  /\ call[c].phase = "limit" /\ call[c].phase \in LimitPhase /\ qty = 0
         /\ \E st \in {"FILLED", "CANCELED"} :
              JobWritten(call[c].job, st) /\ (st = "CANCELED" => Filled(call[c].order) = 0)
         /\ OrdersFade /\ ~order'[call[c].order].live
         /\ lock' = Released(call[c].job)
         /\ CallBecomes(c, NoCall)
         /\ UNCHANGED <<qty, flags, restVars, ex>>
<1>1. TypeInv /\ TypeOK /\ "CANCEL_FAILS" \notin Enabled
  BY CalmEnabled DEF CalmHyp, TypeInv
<1>2. call[c].phase = "limit" /\ call[c].phase \in LimitPhase
  BY <1>1, LimitClosedEffect DEF LimitPhase
<1>3. call[c].order \in Order /\ call[c].order # None /\ order[call[c].order].job = call[c].job
      /\ order[call[c].order].job # None
  BY <1>2, CallsKnow, TypeFacts
<1>4. CASE order[call[c].order].live
  <2>1. JobWritten(call[c].job, "CANCELED") /\ OrderMoves(call[c].order, order[call[c].order].filled, FALSE)
    BY <1>1, <1>3, <1>4, LimitClosedEffect
  <2>2. OrdersFade /\ ~order'[call[c].order].live
    BY <1>1, <1>3, <2>1, MovedFades
  <2>3. Filled(call[c].order) = 0
    BY <1>3, <1>4, OrdersHaveJobs
  <2> QED
    BY <1>1, <1>2, <2>1, <2>2, <2>3, LimitClosedEffect
<1>5. CASE ~order[call[c].order].live
  <2>1. UNCHANGED order /\ \/ FilledUp(call[c].order) /\ JobWritten(call[c].job, "FILLED")
                           \/ ~FilledUp(call[c].order) /\ JobWritten(call[c].job, "CANCELED")
    BY <1>1, <1>3, <1>5, LimitClosedEffect
  <2>2. ~FilledUp(call[c].order) => Filled(call[c].order) = 0
    BY <1>3, OrdersHaveJobs DEF FilledUp, Filled
  <2>3. OrdersFade /\ ~order'[call[c].order].live
    BY <1>1, <1>5, <2>1, SameFades
  <2>4. \E st \in {"FILLED", "CANCELED"} :
          JobWritten(call[c].job, st) /\ (st = "CANCELED" => Filled(call[c].order) = 0)
    BY <2>1, <2>2
  <2> QED
    BY <1>1, <1>2, <2>3, <2>4, LimitClosedEffect
<1> QED
  BY <1>4, <1>5

\* The order a pass books was executed wholly.
LEMMA LimitFilledCalm ==
  ASSUME CalmHyp, NEW c \in Caller, call[c].phase = "limitFilled" \/ LimitFilled(c)
  PROVE  /\ call[c].phase \in LimitPhase
         /\ Filled(call[c].order) = order[call[c].order].qty
         /\ Filled(call[c].order) > 0
         /\ ~order[call[c].order].live
<1>1. TypeInv
  BY DEF CalmHyp
<1>2. call[c].phase \in LimitPhase
  BY <1>1, LimitFilledEffect DEF LimitPhase
<1>3. call[c].order \in Order /\ order[call[c].order].job # None
  BY <1>2, CallsKnow, TypeFacts
<1>4. Filled(call[c].order) = order[call[c].order].qty
  BY <1>1, LimitFilledEffect DEF Filled, CalmHyp, CalmInv, CallOrder
<1> QED
  BY <1>2, <1>3, <1>4, OrdersHaveJobs

\* Orders are filled at once.
LEMMA FillCalm ==
  ASSUME CalmHyp, NEW o \in Order, Fill(o)
  PROVE  /\ order[o].live /\ Filled(o) = 0 /\ order[o].qty > 0
         /\ OrderMoves(o, order[o].qty, FALSE)
         /\ UNCHANGED <<posVars, restVars, job, ex, call>>
<1>1. TypeInv /\ "PARTIAL" \notin Enabled
  BY CalmEnabled DEF CalmHyp
<1>2. order[o].live /\ Filled(o) = 0 /\ order[o].qty > 0 /\ order[o].qty \in Nat
  BY <1>1, FillsEffect, OrdersHaveJobs
<1>3. OrderMoves(o, order[o].qty, order[o].qty < order[o].qty)
  BY <1>1, FillsEffect
<1>4. (order[o].qty < order[o].qty) = FALSE
  BY <1>2
<1> QED
  BY <1>1, <1>2, <1>3, <1>4, FillsEffect

\* The order that the executor places is the only one of its job, and nothing
\* else is open.
LEMMA SubmitCalm ==
  ASSUME CalmHyp, NEW o \in Order, Submit(o)
  PROVE  /\ ex.phase = "locked" /\ ex.job \in Job /\ ex.job # None
         /\ job[ex.job].status = "EXECUTING" /\ lock = ex.job
         /\ order' \in [Order -> OrderRow] /\ order[o].job = None
         /\ \A p \in Order \ {o} : order'[p] = order[p] /\ ~order[p].live /\ order[p].job # ex.job
         /\ order'[o].job = ex.job /\ order'[o].qty \in Nat /\ order'[o].qty > 0
         /\ order'[o].filled \in {0, order'[o].qty}
         /\ order'[o].live => order'[o].filled = 0
         /\ order'[o].qty <= job[ex.job].qty
         /\ ex' \in ExState /\ ex'.phase = "ordered" /\ ex'.job = ex.job /\ ex'.order = o
         /\ ex'.got = order'[o].filled
         /\ UNCHANGED <<posVars, restVars, job, call>>
<1>1. TypeInv /\ "PARTIAL" \notin Enabled /\ "NO_STATUS" \notin Enabled
  BY CalmEnabled DEF CalmHyp
<1>2. ex.phase = "locked" /\ ex.job \in Job /\ ex.job # None
  BY <1>1, SubmitEffect, TypeFacts
<1>3. \A p \in Order : ~order[p].live /\ order[p].job # ex.job
  BY <1>2, NothingLive, NotPlacedYet
<1>4. OrderPlaced(o, order'[o].qty, order'[o].filled)
  BY <1>1, SubmitEffect
<1>5. job[ex.job].qty > 0
  <2>1. job[ex.job].status # "NONE"
    BY <1>2 DEF CalmHyp, TypeInv, ExNames, Created
  <2> QED
    BY <1>2, <2>1 DEF CalmHyp, CalmInv, Amounts
<1>6. job[ex.job].status = "EXECUTING" /\ lock = ex.job
  BY <1>2 DEF CalmHyp, CalmInv, ExOrder
<1>7. /\ order'[o].qty \in Nat /\ order'[o].qty > 0 /\ order'[o].filled \in {0, order'[o].qty}
      /\ order'[o].qty <= job[ex.job].qty
      /\ order'[o].filled \in 0..order'[o].qty
      /\ order'[o].live => order'[o].filled < order'[o].qty
  BY <1>1, <1>4, <1>5 DEF OrderPlaced
<1>8. order'[o].live => order'[o].filled = 0
  BY <1>7
<1>9. /\ order' \in [Order -> OrderRow] /\ order[o].job = None
      /\ \A p \in Order \ {o} : order'[p] = order[p]
      /\ order'[o].job = ex.job
  BY <1>4 DEF OrderPlaced
<1>10. /\ ex' \in ExState /\ ex'.phase = "ordered" /\ ex'.job = ex.job /\ ex'.order = o
       /\ ex'.got = order'[o].filled
       /\ UNCHANGED <<posVars, restVars, job, call>>
  BY <1>1, SubmitEffect DEF Told
<1> QED
  BY <1>2, <1>3, <1>6, <1>7, <1>8, <1>9, <1>10

\* Every answer tells what was executed, and an execution is booked before its
\* job is done.
LEMMA CompleteCalm ==
  ASSUME CalmHyp, Complete
  PROVE  /\ ex.phase = "booked" /\ ex.job \in Job
         /\ \E st \in {"FILLED", "PARTIALLY_FILLED"} : JobWritten(ex.job, st)
         /\ lock' = Released(ex.job) /\ ex' = ExIdle
         /\ UNCHANGED <<qty, flags, restVars, order, call>>
<1>1. TypeInv /\ ~Untold
  BY CalmEnabled DEF CalmHyp, Untold
<1> QED
  BY <1>1, CompleteEffect

\* An order the exchange cancels fades.
LEMMA ExchangeCancelsCalm ==
  ASSUME CalmHyp, NEW o \in Order, ExchangeCancels(o)
  PROVE  OrdersFade /\ UNCHANGED <<posVars, restVars, job, ex, call>>
<1>1. TypeInv /\ TypeOK
  BY DEF CalmHyp, TypeInv
<1>2. OrderMoves(o, order[o].filled, FALSE)
  BY <1>1, ExchangeCancelsEffect
<1> QED
  BY <1>1, <1>2, MovedFades, ExchangeCancelsKeeps

\* Every step keeps that orders are executed wholly or not at all.
LEMMA WholeOrdersStep == CalmHyp /\ [Next]_vars => WholeOrders'
<1> SUFFICES ASSUME CalmHyp, [Next]_vars PROVE WholeOrders'
  OBVIOUS
<1>a. CalmHyp /\ CalmHyp /\ TypeInv /\ DeliveryInv /\ CalmInv /\ TypeOK /\ Qty \in Nat
  BY SellOrdersAssumption DEF CalmHyp, TypeInv
<1>b. /\ "CRASH" \notin Enabled /\ "TIMEOUT" \notin Enabled /\ "EXPIRY" \notin Enabled /\ "CANCEL_API" \notin Enabled
      /\ \A c \in Caller : call[c].phase \notin {"cancel", "cancelWrite"}
  BY <1>a, CalmEnabled DEF CalmHyp, CalmInv, CallOrder
<1>1. ASSUME NEW j \in Job, Take(j)
     PROVE  WholeOrders'
  BY <1>1, <1>a, TypeFacts DEF Take, posVars, restVars, CalmInv, WholeOrders, Created, Filled
<1>2. ASSUME Mark
     PROVE  WholeOrders'
  BY <1>2, <1>a, TypeFacts, MarkEffect, NotPlacedYet DEF JobWritten, ExGoes, posVars, restVars,
    CalmInv, WholeOrders, Created, Filled
<1>3. ASSUME CheckFails
     PROVE  WholeOrders'
  BY <1>3, <1>a, TypeFacts, CheckFailsEffect, NotPlacedYet DEF JobWritten, posVars, restVars,
    CalmInv, WholeOrders, Created, Filled
<1>4. ASSUME CheckPasses
     PROVE  WholeOrders'
  BY <1>4, <1>a, TypeFacts, CheckPassesEffect, NotPlacedYet DEF ExGoes, posVars, restVars,
    CalmInv, WholeOrders, Created, Filled
<1>5. ASSUME AcquireLock
     PROVE  WholeOrders'
  BY <1>5, <1>a, TypeFacts, AcquireEffect, NotPlacedYet, NothingLive DEF ExGoes, posVars,
    restVars, CalmInv, WholeOrders, Created, Filled
<1>6. ASSUME LockRefused
     PROVE  WholeOrders'
  BY <1>6, <1>a, TypeFacts, LockRefusedEffect, NotPlacedYet DEF JobWritten, posVars, restVars,
    CalmInv, WholeOrders, Created, Filled
<1>7. ASSUME NEW o \in Order, Submit(o)
     PROVE  WholeOrders'
  BY <1>7, <1>a, TypeFacts, SubmitCalm DEF posVars, restVars, CalmInv, WholeOrders, Created,
    Filled
<1>8. ASSUME SubmitRefused
     PROVE  WholeOrders'
  BY <1>8, <1>a, TypeFacts, SubmitRefusedEffect, NotPlacedYet DEF JobWritten, posVars, restVars,
    CalmInv, WholeOrders, Created, Filled
<1>9. ASSUME Record
     PROVE  WholeOrders'
  BY <1>9, <1>a, TypeFacts, RecordedEffect, PlacedOrder DEF ExGoes, OrderPhase, posVars, restVars,
    CalmInv, WholeOrders, Created, Filled
<1>10. ASSUME Rest
      PROVE  WholeOrders'
  BY <1>10, <1>a, TypeFacts, RestEffect, PlacedOrder DEF JobWritten, OrderPhase, posVars, restVars,
    CalmInv, WholeOrders, Created, Filled
<1>11. ASSUME BookExecution
      PROVE  WholeOrders'
  BY <1>11, <1>a, TypeFacts, BookExecutionEffect, PlacedOrder DEF Booked, ExGoes, OrderPhase,
    posVars, restVars, CalmInv, WholeOrders, Created, Filled
<1>12. ASSUME Complete
      PROVE  WholeOrders'
  BY <1>12, <1>a, TypeFacts, CompleteCalm, PlacedOrder DEF JobWritten, OrderPhase, posVars,
    restVars, CalmInv, WholeOrders, Created, Filled
<1>13. ASSUME NEW c \in Caller, NEW q \in 1..Qty, NEW ty \in OrderType, CloseRequest(c, q, ty)
      PROVE  WholeOrders'
  BY <1>13, <1>a, TypeFacts, CloseRequestEffect DEF CallBecomes, posVars, restVars, CalmInv,
    WholeOrders, Created, Filled
<1>14. ASSUME NEW c \in Caller, NEW t \in Trigger, TriggerCheck(c, t)
      PROVE  WholeOrders'
  BY <1>14, <1>a, TypeFacts, TriggerCheckEffect DEF CallBecomes, posVars, restVars, CalmInv,
    WholeOrders, Created, Filled
<1>15. ASSUME NEW c \in Caller, NEW j \in Job, LimitRead(c, j)
      PROVE  WholeOrders'
  BY <1>15, <1>a, TypeFacts, LimitReadEffect DEF CallBecomes, posVars, restVars, CalmInv,
    WholeOrders, Created, Filled
<1>16. ASSUME NEW c \in Caller, TriggerFlag(c)
      PROVE  WholeOrders'
  BY <1>16, <1>a, TypeFacts, TriggerFlagEffect DEF CallMoves, CallBecomes, posVars, restVars,
    CalmInv, WholeOrders, Created, Filled
<1>17. ASSUME NEW c \in Caller, TriggerConfirm(c)
      PROVE  WholeOrders'
  BY <1>17, <1>a, TypeFacts, TriggerConfirmEffect DEF CallMoves, CallBecomes, posVars, restVars,
    CalmInv, WholeOrders, Created, Filled
<1>18. ASSUME NEW c \in Caller, NEW j \in Job, CreateJob(c, j)
      PROVE  WholeOrders'
  BY <1>18, <1>a, TypeFacts, CreateJobEffect DEF posVars, restVars, CalmInv, WholeOrders, Created,
    Filled
<1>19. ASSUME NEW c \in Caller, Enqueue(c)
      PROVE  WholeOrders'
  BY <1>19, <1>a, TypeFacts, EnqueueEffect DEF CallBecomes, posVars, restVars, CalmInv,
    WholeOrders, Created, Filled
<1>20. ASSUME NEW c \in Caller, LimitClosed(c)
      PROVE  WholeOrders'
  BY <1>20, <1>a, TypeFacts, LimitClosedCalm, CallsKnow DEF JobWritten, CallBecomes, OrdersFade,
    posVars, restVars, CalmInv, WholeOrders, Created, Filled
<1>21. ASSUME NEW c \in Caller, LimitFilled(c)
      PROVE  WholeOrders'
  BY <1>21, <1>a, TypeFacts, LimitFilledEffect, LimitFilledCalm, CallsKnow DEF Booked, CallMoves,
    posVars, restVars, CalmInv, WholeOrders, Created, Filled
<1>22. ASSUME NEW c \in Caller, LimitCompletes(c)
      PROVE  WholeOrders'
  BY <1>22, <1>a, TypeFacts, LimitCompletesEffect, LimitFilledCalm, CallsKnow DEF JobWritten,
    CallBecomes, posVars, restVars, CalmInv, WholeOrders, Created, Filled
<1>23. ASSUME NEW c \in Caller, LimitWaits(c)
      PROVE  WholeOrders'
  BY <1>23, <1>a, TypeFacts, LimitWaitsEffect DEF CallBecomes, posVars, restVars, CalmInv,
    WholeOrders, Created, Filled
<1>24. ASSUME NEW c \in Caller, CallFails(c)
      PROVE  WholeOrders'
  BY <1>24, <1>a, TypeFacts, CallEndsEffect DEF CallBecomes, posVars, restVars, CalmInv,
    WholeOrders, Created, Filled
<1>25. ASSUME TsgReset
      PROVE  WholeOrders'
  BY <1>25, <1>a, TypeFacts DEF TsgReset, posVars, restVars, CalmInv, WholeOrders, Created, Filled
<1>26. ASSUME NEW j \in Job, JobAges(j)
      PROVE  WholeOrders'
  BY <1>26, <1>a, TypeFacts DEF JobAges, posVars, restVars, CalmInv, WholeOrders, Created, Filled
<1>27. ASSUME NEW o \in Order, Fill(o)
      PROVE  WholeOrders'
  <2>1. /\ order'[o].job = order[o].job /\ order'[o].qty = order[o].qty
        /\ order'[o].filled = order[o].qty /\ ~order'[o].live
        /\ \A p \in Order \ {o} : order'[p] = order[p]
        /\ UNCHANGED job
    BY <1>27, <1>a, FillCalm DEF OrderMoves
  <2>2. order[o].live /\ WholeOrders
    BY <1>27, <1>a, FillCalm DEF CalmInv
  <2> QED
    BY <2>1, <2>2 DEF WholeOrders, Created, Filled
<1>28. ASSUME NEW o \in Order, ExchangeCancels(o)
      PROVE  WholeOrders'
  BY <1>28, <1>a, TypeFacts, ExchangeCancelsCalm DEF OrdersFade, posVars, restVars, CalmInv,
    WholeOrders, Created, Filled
<1>29. ASSUME HandSale
      PROVE  WholeOrders'
  BY <1>29, <1>a, TypeFacts DEF HandSale, posVars, restVars, AllButTsg, CalmInv, WholeOrders,
    Created, Filled
<1>30. ASSUME LockExpires
      PROVE  WholeOrders'
  BY <1>30, <1>a, TypeFacts DEF LockExpires, posVars, restVars, CalmInv, WholeOrders, Created,
    Filled
<1>31. CASE UNCHANGED vars
  BY <1>31, <1>a DEF vars, posVars, CalmInv, WholeOrders, Created, Filled
<1> QED
  BY <1>a, CalmRulesOut, <1>1, <1>2, <1>3, <1>4, <1>5, <1>6, <1>7, <1>8, <1>9, <1>10, <1>11,
    <1>12, <1>13, <1>14, <1>15, <1>16, <1>17, <1>18, <1>19, <1>20, <1>21, <1>22, <1>23,
    <1>24, <1>25, <1>26, <1>27, <1>28, <1>29, <1>30, <1>31 DEF Next, Executor, Continue

\* Every step keeps that a job has one order, once the executor placed it.
LEMMA OrderedOnceStep == CalmHyp /\ [Next]_vars => OrderedOnce'
<1> SUFFICES ASSUME CalmHyp, [Next]_vars PROVE OrderedOnce'
  OBVIOUS
<1>a. CalmHyp /\ CalmHyp /\ TypeInv /\ DeliveryInv /\ CalmInv /\ TypeOK /\ Qty \in Nat
  BY SellOrdersAssumption DEF CalmHyp, TypeInv
<1>b. /\ "CRASH" \notin Enabled /\ "TIMEOUT" \notin Enabled /\ "EXPIRY" \notin Enabled /\ "CANCEL_API" \notin Enabled
      /\ \A c \in Caller : call[c].phase \notin {"cancel", "cancelWrite"}
  BY <1>a, CalmEnabled DEF CalmHyp, CalmInv, CallOrder
<1>c. /\ \A o \in Order : order[o].job # None => order[o].job \in Job /\ job[order[o].job].status # "NONE"
      /\ \A c \in Caller : call[c].phase = "enqueue" => call[c].job \in Job
  BY <1>a, OrdersHaveJobs, NameFacts DEF JobPhase
<1>1. ASSUME NEW j \in Job, Take(j)
     PROVE  OrderedOnce'
  <2>1. /\ ex.phase = "idle" /\ j \in queue /\ queue' = queue \ {j} /\ UNCHANGED <<job, order, call>>
        /\ ex' = ex \/ ex'.job = j
    BY <1>1 DEF Take, ExIdle
  <2>2. \A o \in Order : order[o].job # j
    BY <1>a, <1>c, <2>1, TypeFacts DEF TypeOK, CalmInv, OrderedOnce
  <2> QED
    BY <1>a, <2>1, <2>2 DEF CalmInv, OrderedOnce, ToQueue
<1>2. ASSUME Mark
     PROVE  OrderedOnce'
  BY <1>2, <1>a, TypeFacts, MarkEffect, NotPlacedYet, <1>c DEF JobWritten, ExGoes, posVars,
    restVars, CalmInv, OrderedOnce, OrderPhase, ToQueue
<1>3. ASSUME CheckFails
     PROVE  OrderedOnce'
  BY <1>3, <1>a, TypeFacts, CheckFailsEffect, NotPlacedYet, <1>c DEF JobWritten, posVars,
    restVars, CalmInv, OrderedOnce, OrderPhase, ToQueue
<1>4. ASSUME CheckPasses
     PROVE  OrderedOnce'
  BY <1>4, <1>a, TypeFacts, CheckPassesEffect, NotPlacedYet, <1>c DEF ExGoes, posVars, restVars,
    CalmInv, OrderedOnce, OrderPhase, ToQueue
<1>5. ASSUME AcquireLock
     PROVE  OrderedOnce'
  BY <1>5, <1>a, TypeFacts, AcquireEffect, NotPlacedYet, NothingLive, <1>c DEF ExGoes, posVars,
    restVars, CalmInv, OrderedOnce, OrderPhase, ToQueue
<1>6. ASSUME LockRefused
     PROVE  OrderedOnce'
  BY <1>6, <1>a, TypeFacts, LockRefusedEffect, NotPlacedYet, <1>c DEF JobWritten, posVars,
    restVars, CalmInv, OrderedOnce, OrderPhase, ToQueue
<1>7. ASSUME NEW o \in Order, Submit(o)
     PROVE  OrderedOnce'
  BY <1>7, <1>a, TypeFacts, SubmitCalm, <1>c DEF posVars, restVars, CalmInv, OrderedOnce,
    OrderPhase, ToQueue, DeliveryInv, OneDelivery
<1>8. ASSUME SubmitRefused
     PROVE  OrderedOnce'
  BY <1>8, <1>a, TypeFacts, SubmitRefusedEffect, NotPlacedYet, <1>c DEF JobWritten, posVars,
    restVars, CalmInv, OrderedOnce, OrderPhase, ToQueue
<1>9. ASSUME Record
     PROVE  OrderedOnce'
  BY <1>9, <1>a, TypeFacts, RecordedEffect, PlacedOrder, <1>c DEF ExGoes, OrderPhase, posVars,
    restVars, CalmInv, OrderedOnce, ToQueue
<1>10. ASSUME Rest
      PROVE  OrderedOnce'
  BY <1>10, <1>a, TypeFacts, RestEffect, PlacedOrder, <1>c DEF JobWritten, OrderPhase, posVars,
    restVars, CalmInv, OrderedOnce, ToQueue
<1>11. ASSUME BookExecution
      PROVE  OrderedOnce'
  BY <1>11, <1>a, TypeFacts, BookExecutionEffect, PlacedOrder, <1>c DEF Booked, ExGoes, OrderPhase,
    posVars, restVars, CalmInv, OrderedOnce, ToQueue
<1>12. ASSUME Complete
      PROVE  OrderedOnce'
  BY <1>12, <1>a, TypeFacts, CompleteCalm, PlacedOrder, <1>c DEF JobWritten, OrderPhase, posVars,
    restVars, CalmInv, OrderedOnce, ToQueue
<1>13. ASSUME NEW c \in Caller, NEW q \in 1..Qty, NEW ty \in OrderType, CloseRequest(c, q, ty)
      PROVE  OrderedOnce'
  BY <1>13, <1>a, TypeFacts, CloseRequestEffect, <1>c DEF CallBecomes, posVars, restVars, CalmInv,
    OrderedOnce, OrderPhase, ToQueue
<1>14. ASSUME NEW c \in Caller, NEW t \in Trigger, TriggerCheck(c, t)
      PROVE  OrderedOnce'
  BY <1>14, <1>a, TypeFacts, TriggerCheckEffect, <1>c DEF CallBecomes, posVars, restVars, CalmInv,
    OrderedOnce, OrderPhase, ToQueue
<1>15. ASSUME NEW c \in Caller, NEW j \in Job, LimitRead(c, j)
      PROVE  OrderedOnce'
  BY <1>15, <1>a, TypeFacts, LimitReadEffect, <1>c DEF CallBecomes, posVars, restVars, CalmInv,
    OrderedOnce, OrderPhase, ToQueue
<1>16. ASSUME NEW c \in Caller, TriggerFlag(c)
      PROVE  OrderedOnce'
  BY <1>16, <1>a, TypeFacts, TriggerFlagEffect, <1>c DEF CallMoves, CallBecomes, posVars, restVars,
    CalmInv, OrderedOnce, OrderPhase, ToQueue
<1>17. ASSUME NEW c \in Caller, TriggerConfirm(c)
      PROVE  OrderedOnce'
  BY <1>17, <1>a, TypeFacts, TriggerConfirmEffect, <1>c DEF CallMoves, CallBecomes, posVars,
    restVars, CalmInv, OrderedOnce, OrderPhase, ToQueue
<1>18. ASSUME NEW c \in Caller, NEW j \in Job, CreateJob(c, j)
      PROVE  OrderedOnce'
  BY <1>18, <1>a, TypeFacts, CreateJobEffect, <1>c DEF posVars, restVars, CalmInv, OrderedOnce,
    OrderPhase, ToQueue
<1>19. ASSUME NEW c \in Caller, Enqueue(c)
      PROVE  OrderedOnce'
  BY <1>19, <1>a, TypeFacts, EnqueueEffect, <1>c DEF CallBecomes, posVars, restVars, CalmInv,
    OrderedOnce, OrderPhase, ToQueue
<1>20. ASSUME NEW c \in Caller, LimitClosed(c)
      PROVE  OrderedOnce'
  BY <1>20, <1>a, TypeFacts, LimitClosedCalm, CallsKnow, <1>c DEF JobWritten, CallBecomes,
    OrdersFade, posVars, restVars, CalmInv, OrderedOnce, OrderPhase, ToQueue
<1>21. ASSUME NEW c \in Caller, LimitFilled(c)
      PROVE  OrderedOnce'
  BY <1>21, <1>a, TypeFacts, LimitFilledEffect, LimitFilledCalm, CallsKnow, <1>c DEF Booked,
    CallMoves, posVars, restVars, CalmInv, OrderedOnce, OrderPhase, ToQueue
<1>22. ASSUME NEW c \in Caller, LimitCompletes(c)
      PROVE  OrderedOnce'
  BY <1>22, <1>a, TypeFacts, LimitCompletesEffect, LimitFilledCalm, CallsKnow, <1>c DEF JobWritten,
    CallBecomes, posVars, restVars, CalmInv, OrderedOnce, OrderPhase, ToQueue
<1>23. ASSUME NEW c \in Caller, LimitWaits(c)
      PROVE  OrderedOnce'
  BY <1>23, <1>a, TypeFacts, LimitWaitsEffect, <1>c DEF CallBecomes, posVars, restVars, CalmInv,
    OrderedOnce, OrderPhase, ToQueue
<1>24. ASSUME NEW c \in Caller, CallFails(c)
      PROVE  OrderedOnce'
  BY <1>24, <1>a, TypeFacts, CallEndsEffect, <1>c DEF CallBecomes, posVars, restVars, CalmInv,
    OrderedOnce, OrderPhase, ToQueue
<1>25. ASSUME TsgReset
      PROVE  OrderedOnce'
  BY <1>25, <1>a, TypeFacts, <1>c DEF TsgReset, posVars, restVars, CalmInv, OrderedOnce,
    OrderPhase, ToQueue
<1>26. ASSUME NEW j \in Job, JobAges(j)
      PROVE  OrderedOnce'
  BY <1>26, <1>a, TypeFacts, <1>c DEF JobAges, posVars, restVars, CalmInv, OrderedOnce, OrderPhase,
    ToQueue
<1>27. ASSUME NEW o \in Order, Fill(o)
      PROVE  OrderedOnce'
  <2>1. \A p \in Order : order'[p].job = order[p].job
    BY <1>27, <1>a, FillCalm DEF OrderMoves
  <2>2. UNCHANGED <<queue, job, ex, call>>
    BY <1>27, <1>a, FillCalm DEF restVars
  <2> QED
    BY <1>a, <2>1, <2>2 DEF CalmInv, OrderedOnce, ToQueue
<1>28. ASSUME NEW o \in Order, ExchangeCancels(o)
      PROVE  OrderedOnce'
  BY <1>28, <1>a, TypeFacts, ExchangeCancelsCalm, <1>c DEF OrdersFade, posVars, restVars, CalmInv,
    OrderedOnce, OrderPhase, ToQueue
<1>29. ASSUME HandSale
      PROVE  OrderedOnce'
  BY <1>29, <1>a, TypeFacts, <1>c DEF HandSale, posVars, restVars, AllButTsg, CalmInv, OrderedOnce,
    OrderPhase, ToQueue
<1>30. ASSUME LockExpires
      PROVE  OrderedOnce'
  BY <1>30, <1>a, TypeFacts, <1>c DEF LockExpires, posVars, restVars, CalmInv, OrderedOnce,
    OrderPhase, ToQueue
<1>31. CASE UNCHANGED vars
  BY <1>31, <1>a, <1>c DEF vars, posVars, CalmInv, OrderedOnce, OrderPhase, ToQueue
<1> QED
  BY <1>a, CalmRulesOut, <1>1, <1>2, <1>3, <1>4, <1>5, <1>6, <1>7, <1>8, <1>9, <1>10, <1>11,
    <1>12, <1>13, <1>14, <1>15, <1>16, <1>17, <1>18, <1>19, <1>20, <1>21, <1>22, <1>23,
    <1>24, <1>25, <1>26, <1>27, <1>28, <1>29, <1>30, <1>31 DEF Next, Executor, Continue

\* Every step keeps that the executor knows its order and has the lock.
LEMMA ExOrderStep == CalmHyp /\ [Next]_vars => ExOrder'
<1> SUFFICES ASSUME CalmHyp, [Next]_vars PROVE ExOrder'
  OBVIOUS
<1>a. CalmHyp /\ CalmHyp /\ TypeInv /\ DeliveryInv /\ CalmInv /\ TypeOK /\ Qty \in Nat
  BY SellOrdersAssumption DEF CalmHyp, TypeInv
<1>b. /\ "CRASH" \notin Enabled /\ "TIMEOUT" \notin Enabled /\ "EXPIRY" \notin Enabled /\ "CANCEL_API" \notin Enabled
      /\ \A c \in Caller : call[c].phase \notin {"cancel", "cancelWrite"}
  BY <1>a, CalmEnabled DEF CalmHyp, CalmInv, CallOrder
<1>c. /\ ex.phase # "idle" => ex.job \in Job
      /\ ex.phase \in OrderPhase => ex.order \in Order /\ (ex.got > 0 => ~order[ex.order].live)
  BY <1>a, PlacedOrder, TypeFacts
<1>1. ASSUME NEW j \in Job, Take(j)
     PROVE  ExOrder'
  <2>1. ex.phase = "idle" /\ UNCHANGED <<lock, job, order, call>> /\ (ex' = ex \/ ex'.phase = "taken")
    BY <1>1 DEF Take, ExIdle, posVars
  <2> QED
    BY <1>a, <2>1 DEF CalmInv, ExOrder, OrderPhase, Filled
<1>2. ASSUME Mark
     PROVE  ExOrder'
  BY <1>2, <1>a, TypeFacts, MarkEffect, NotPlacedYet, <1>c DEF JobWritten, ExGoes, posVars,
    restVars, CalmInv, ExOrder, OrderPhase, Filled
<1>3. ASSUME CheckFails
     PROVE  ExOrder'
  BY <1>3, <1>a, TypeFacts, CheckFailsEffect, NotPlacedYet, <1>c DEF JobWritten, posVars,
    restVars, CalmInv, ExOrder, OrderPhase, Filled
<1>4. ASSUME CheckPasses
     PROVE  ExOrder'
  BY <1>4, <1>a, TypeFacts, CheckPassesEffect, NotPlacedYet, <1>c DEF ExGoes, posVars, restVars,
    CalmInv, ExOrder, OrderPhase, Filled
<1>5. ASSUME AcquireLock
     PROVE  ExOrder'
  BY <1>5, <1>a, TypeFacts, AcquireEffect, NotPlacedYet, NothingLive, <1>c DEF ExGoes, posVars,
    restVars, CalmInv, ExOrder, OrderPhase, Filled
<1>6. ASSUME LockRefused
     PROVE  ExOrder'
  BY <1>6, <1>a, TypeFacts, LockRefusedEffect, NotPlacedYet, <1>c DEF JobWritten, posVars,
    restVars, CalmInv, ExOrder, OrderPhase, Filled
<1>7. ASSUME NEW o \in Order, Submit(o)
     PROVE  ExOrder'
  BY <1>7, <1>a, TypeFacts, SubmitCalm, <1>c DEF posVars, restVars, CalmInv, ExOrder, OrderPhase,
    Filled
<1>8. ASSUME SubmitRefused
     PROVE  ExOrder'
  BY <1>8, <1>a, TypeFacts, SubmitRefusedEffect, NotPlacedYet, <1>c DEF JobWritten, posVars,
    restVars, CalmInv, ExOrder, OrderPhase, Filled
<1>9. ASSUME Record
     PROVE  ExOrder'
  BY <1>9, <1>a, TypeFacts, RecordedEffect, PlacedOrder, <1>c DEF ExGoes, OrderPhase, posVars,
    restVars, CalmInv, ExOrder, Filled
<1>10. ASSUME Rest
      PROVE  ExOrder'
  BY <1>10, <1>a, TypeFacts, RestEffect, PlacedOrder, <1>c DEF JobWritten, OrderPhase, posVars,
    restVars, CalmInv, ExOrder, Filled
<1>11. ASSUME BookExecution
      PROVE  ExOrder'
  BY <1>11, <1>a, TypeFacts, BookExecutionEffect, PlacedOrder, <1>c DEF Booked, ExGoes, OrderPhase,
    posVars, restVars, CalmInv, ExOrder, Filled
<1>12. ASSUME Complete
      PROVE  ExOrder'
  BY <1>12, <1>a, TypeFacts, CompleteCalm, PlacedOrder, <1>c DEF JobWritten, OrderPhase, posVars,
    restVars, CalmInv, ExOrder, Filled
<1>13. ASSUME NEW c \in Caller, NEW q \in 1..Qty, NEW ty \in OrderType, CloseRequest(c, q, ty)
      PROVE  ExOrder'
  BY <1>13, <1>a, TypeFacts, CloseRequestEffect, <1>c DEF CallBecomes, posVars, restVars, CalmInv,
    ExOrder, OrderPhase, Filled
<1>14. ASSUME NEW c \in Caller, NEW t \in Trigger, TriggerCheck(c, t)
      PROVE  ExOrder'
  BY <1>14, <1>a, TypeFacts, TriggerCheckEffect, <1>c DEF CallBecomes, posVars, restVars, CalmInv,
    ExOrder, OrderPhase, Filled
<1>15. ASSUME NEW c \in Caller, NEW j \in Job, LimitRead(c, j)
      PROVE  ExOrder'
  BY <1>15, <1>a, TypeFacts, LimitReadEffect, <1>c DEF CallBecomes, posVars, restVars, CalmInv,
    ExOrder, OrderPhase, Filled
<1>16. ASSUME NEW c \in Caller, TriggerFlag(c)
      PROVE  ExOrder'
  BY <1>16, <1>a, TypeFacts, TriggerFlagEffect, <1>c DEF CallMoves, CallBecomes, posVars, restVars,
    CalmInv, ExOrder, OrderPhase, Filled
<1>17. ASSUME NEW c \in Caller, TriggerConfirm(c)
      PROVE  ExOrder'
  BY <1>17, <1>a, TypeFacts, TriggerConfirmEffect, <1>c DEF CallMoves, CallBecomes, posVars,
    restVars, CalmInv, ExOrder, OrderPhase, Filled
<1>18. ASSUME NEW c \in Caller, NEW j \in Job, CreateJob(c, j)
      PROVE  ExOrder'
  BY <1>18, <1>a, TypeFacts, CreateJobEffect, <1>c DEF posVars, restVars, CalmInv, ExOrder,
    OrderPhase, Filled, TypeInv, ExNames, Created
<1>19. ASSUME NEW c \in Caller, Enqueue(c)
      PROVE  ExOrder'
  BY <1>19, <1>a, TypeFacts, EnqueueEffect, <1>c DEF CallBecomes, posVars, restVars, CalmInv,
    ExOrder, OrderPhase, Filled
<1>20. ASSUME NEW c \in Caller, LimitClosed(c)
      PROVE  ExOrder'
  <2>1. call[c].job \in Job /\ call[c].job # ex.job /\ UNCHANGED ex /\ lock' = Released(call[c].job) /\ OrdersFade
    BY <1>20, <1>a, LimitClosedCalm, CallsKnow
  <2>2. PICK st : JobWritten(call[c].job, st)
    BY <1>20, <1>a, LimitClosedCalm
  <2>3. ex.phase # "idle" => job'[ex.job] = job[ex.job] /\ (lock = ex.job => lock' = lock)
    BY <1>c, <2>1, <2>2 DEF JobWritten, Released
  <2> QED
    BY <1>a, <1>c, <2>1, <2>3 DEF CalmInv, ExOrder, OrderPhase, Filled, OrdersFade
<1>21. ASSUME NEW c \in Caller, LimitFilled(c)
      PROVE  ExOrder'
  BY <1>21, <1>a, TypeFacts, LimitFilledEffect, LimitFilledCalm, CallsKnow, <1>c DEF Booked,
    CallMoves, posVars, restVars, CalmInv, ExOrder, OrderPhase, Filled
<1>22. ASSUME NEW c \in Caller, LimitCompletes(c)
      PROVE  ExOrder'
  BY <1>22, <1>a, TypeFacts, LimitCompletesEffect, LimitFilledCalm, CallsKnow, <1>c DEF JobWritten,
    CallBecomes, posVars, restVars, CalmInv, ExOrder, OrderPhase, Filled
<1>23. ASSUME NEW c \in Caller, LimitWaits(c)
      PROVE  ExOrder'
  BY <1>23, <1>a, TypeFacts, LimitWaitsEffect, <1>c DEF CallBecomes, posVars, restVars, CalmInv,
    ExOrder, OrderPhase, Filled
<1>24. ASSUME NEW c \in Caller, CallFails(c)
      PROVE  ExOrder'
  BY <1>24, <1>a, TypeFacts, CallEndsEffect, <1>c DEF CallBecomes, posVars, restVars, CalmInv,
    ExOrder, OrderPhase, Filled
<1>25. ASSUME TsgReset
      PROVE  ExOrder'
  BY <1>25, <1>a, TypeFacts, <1>c DEF TsgReset, posVars, restVars, CalmInv, ExOrder, OrderPhase,
    Filled
<1>26. ASSUME NEW j \in Job, JobAges(j)
      PROVE  ExOrder'
  BY <1>26, <1>a, TypeFacts, <1>c DEF JobAges, posVars, restVars, CalmInv, ExOrder, OrderPhase,
    Filled
<1>27. ASSUME NEW o \in Order, Fill(o)
      PROVE  ExOrder'
  <2>1. UNCHANGED <<lock, job, ex>> /\ order[o].live /\ OrderMoves(o, order[o].qty, FALSE)
    BY <1>27, <1>a, FillCalm DEF posVars
  <2>2. ex.phase \in OrderPhase => order'[ex.order].job = order[ex.order].job /\ (ex.got > 0 => order'[ex.order] = order[ex.order])
    BY <1>c, <2>1 DEF OrderMoves
  <2> QED
    BY <1>a, <1>c, <2>1, <2>2 DEF CalmInv, ExOrder, OrderPhase, Filled
<1>28. ASSUME NEW o \in Order, ExchangeCancels(o)
      PROVE  ExOrder'
  <2>1. UNCHANGED <<lock, job, ex>> /\ OrdersFade
    BY <1>28, <1>a, ExchangeCancelsCalm DEF posVars
  <2> QED
    BY <1>a, <1>c, <2>1 DEF CalmInv, ExOrder, OrderPhase, Filled, OrdersFade
<1>29. ASSUME HandSale
      PROVE  ExOrder'
  BY <1>29, <1>a, TypeFacts, <1>c DEF HandSale, posVars, restVars, AllButTsg, CalmInv, ExOrder,
    OrderPhase, Filled
<1>30. ASSUME LockExpires
      PROVE  ExOrder'
  BY <1>30, <1>a, TypeFacts, <1>c DEF LockExpires, posVars, restVars, CalmInv, ExOrder, OrderPhase,
    Filled
<1>31. CASE UNCHANGED vars
  BY <1>31, <1>a, <1>c DEF vars, posVars, CalmInv, ExOrder, OrderPhase, Filled
<1> QED
  BY <1>a, CalmRulesOut, <1>1, <1>2, <1>3, <1>4, <1>5, <1>6, <1>7, <1>8, <1>9, <1>10, <1>11,
    <1>12, <1>13, <1>14, <1>15, <1>16, <1>17, <1>18, <1>19, <1>20, <1>21, <1>22, <1>23,
    <1>24, <1>25, <1>26, <1>27, <1>28, <1>29, <1>30, <1>31 DEF Next, Executor, Continue

\* Every step keeps that a recorded order is the job's.
LEMMA JobOrderStep == CalmHyp /\ [Next]_vars => JobOrder'
<1> SUFFICES ASSUME CalmHyp, [Next]_vars PROVE JobOrder'
  OBVIOUS
<1>a. CalmHyp /\ CalmHyp /\ TypeInv /\ DeliveryInv /\ CalmInv /\ TypeOK /\ Qty \in Nat
  BY SellOrdersAssumption DEF CalmHyp, TypeInv
<1>b. /\ "CRASH" \notin Enabled /\ "TIMEOUT" \notin Enabled /\ "EXPIRY" \notin Enabled /\ "CANCEL_API" \notin Enabled
      /\ \A c \in Caller : call[c].phase \notin {"cancel", "cancelWrite"}
  BY <1>a, CalmEnabled DEF CalmHyp, CalmInv, CallOrder
<1>c. \A j \in Job : job[j].order # None => job[j].order \in Order /\ order[job[j].order].job = j
  BY <1>a DEF TypeOK, JobRow, CalmInv, JobOrder
<1>1. ASSUME NEW j \in Job, Take(j)
     PROVE  JobOrder'
  BY <1>1, <1>a DEF Take, CalmInv, JobOrder
<1>2. ASSUME Mark
     PROVE  JobOrder'
  BY <1>2, <1>a, TypeFacts, MarkEffect, NotPlacedYet, <1>c DEF JobWritten, ExGoes, posVars,
    restVars, CalmInv, JobOrder, TypeInv, RowNames
<1>3. ASSUME CheckFails
     PROVE  JobOrder'
  BY <1>3, <1>a, TypeFacts, CheckFailsEffect, NotPlacedYet, <1>c DEF JobWritten, posVars,
    restVars, CalmInv, JobOrder, TypeInv, RowNames
<1>4. ASSUME CheckPasses
     PROVE  JobOrder'
  BY <1>4, <1>a, TypeFacts, CheckPassesEffect, NotPlacedYet, <1>c DEF ExGoes, posVars, restVars,
    CalmInv, JobOrder, TypeInv, RowNames
<1>5. ASSUME AcquireLock
     PROVE  JobOrder'
  BY <1>5, <1>a, TypeFacts, AcquireEffect, NotPlacedYet, NothingLive, <1>c DEF ExGoes, posVars,
    restVars, CalmInv, JobOrder, TypeInv, RowNames
<1>6. ASSUME LockRefused
     PROVE  JobOrder'
  BY <1>6, <1>a, TypeFacts, LockRefusedEffect, NotPlacedYet, <1>c DEF JobWritten, posVars,
    restVars, CalmInv, JobOrder, TypeInv, RowNames
<1>7. ASSUME NEW o \in Order, Submit(o)
     PROVE  JobOrder'
  <2>1. \A p \in Order : order[p].job # None => order'[p].job = order[p].job
    BY <1>7, <1>a, SubmitCalm
  <2>2. UNCHANGED job
    BY <1>7, <1>a, SubmitCalm
  <2> QED
    BY <1>c, <2>1, <2>2, TypeFacts DEF JobOrder
<1>8. ASSUME SubmitRefused
     PROVE  JobOrder'
  BY <1>8, <1>a, TypeFacts, SubmitRefusedEffect, NotPlacedYet, <1>c DEF JobWritten, posVars,
    restVars, CalmInv, JobOrder, TypeInv, RowNames
<1>9. ASSUME Record
     PROVE  JobOrder'
  BY <1>9, <1>a, TypeFacts, RecordedEffect, PlacedOrder, <1>c DEF ExGoes, OrderPhase, posVars,
    restVars, CalmInv, JobOrder, TypeInv, RowNames
<1>10. ASSUME Rest
      PROVE  JobOrder'
  BY <1>10, <1>a, TypeFacts, RestEffect, PlacedOrder, <1>c DEF JobWritten, OrderPhase, posVars,
    restVars, CalmInv, JobOrder, TypeInv, RowNames
<1>11. ASSUME BookExecution
      PROVE  JobOrder'
  BY <1>11, <1>a, TypeFacts, BookExecutionEffect, PlacedOrder, <1>c DEF Booked, ExGoes, OrderPhase,
    posVars, restVars, CalmInv, JobOrder, TypeInv, RowNames
<1>12. ASSUME Complete
      PROVE  JobOrder'
  BY <1>12, <1>a, TypeFacts, CompleteCalm, PlacedOrder, <1>c DEF JobWritten, OrderPhase, posVars,
    restVars, CalmInv, JobOrder, TypeInv, RowNames
<1>13. ASSUME NEW c \in Caller, NEW q \in 1..Qty, NEW ty \in OrderType, CloseRequest(c, q, ty)
      PROVE  JobOrder'
  BY <1>13, <1>a, TypeFacts, CloseRequestEffect, <1>c DEF CallBecomes, posVars, restVars, CalmInv,
    JobOrder, TypeInv, RowNames
<1>14. ASSUME NEW c \in Caller, NEW t \in Trigger, TriggerCheck(c, t)
      PROVE  JobOrder'
  BY <1>14, <1>a, TypeFacts, TriggerCheckEffect, <1>c DEF CallBecomes, posVars, restVars, CalmInv,
    JobOrder, TypeInv, RowNames
<1>15. ASSUME NEW c \in Caller, NEW j \in Job, LimitRead(c, j)
      PROVE  JobOrder'
  BY <1>15, <1>a, TypeFacts, LimitReadEffect, <1>c DEF CallBecomes, posVars, restVars, CalmInv,
    JobOrder, TypeInv, RowNames
<1>16. ASSUME NEW c \in Caller, TriggerFlag(c)
      PROVE  JobOrder'
  BY <1>16, <1>a, TypeFacts, TriggerFlagEffect, <1>c DEF CallMoves, CallBecomes, posVars, restVars,
    CalmInv, JobOrder, TypeInv, RowNames
<1>17. ASSUME NEW c \in Caller, TriggerConfirm(c)
      PROVE  JobOrder'
  BY <1>17, <1>a, TypeFacts, TriggerConfirmEffect, <1>c DEF CallMoves, CallBecomes, posVars,
    restVars, CalmInv, JobOrder, TypeInv, RowNames
<1>18. ASSUME NEW c \in Caller, NEW j \in Job, CreateJob(c, j)
      PROVE  JobOrder'
  BY <1>18, <1>a, TypeFacts, CreateJobEffect, <1>c DEF posVars, restVars, CalmInv, JobOrder,
    TypeInv, RowNames
<1>19. ASSUME NEW c \in Caller, Enqueue(c)
      PROVE  JobOrder'
  BY <1>19, <1>a, TypeFacts, EnqueueEffect, <1>c DEF CallBecomes, posVars, restVars, CalmInv,
    JobOrder, TypeInv, RowNames
<1>20. ASSUME NEW c \in Caller, LimitClosed(c)
      PROVE  JobOrder'
  <2>1. \A j \in Job : job'[j].order = job[j].order
    BY <1>20, <1>a, LimitClosedCalm, CallsKnow DEF JobWritten
  <2>2. \A p \in Order : order'[p].job = order[p].job
    BY <1>20, <1>a, LimitClosedCalm DEF OrdersFade
  <2> QED
    BY <1>c, <2>1, <2>2 DEF JobOrder
<1>21. ASSUME NEW c \in Caller, LimitFilled(c)
      PROVE  JobOrder'
  BY <1>21, <1>a, TypeFacts, LimitFilledEffect, LimitFilledCalm, CallsKnow, <1>c DEF Booked,
    CallMoves, posVars, restVars, CalmInv, JobOrder, TypeInv, RowNames
<1>22. ASSUME NEW c \in Caller, LimitCompletes(c)
      PROVE  JobOrder'
  BY <1>22, <1>a, TypeFacts, LimitCompletesEffect, LimitFilledCalm, CallsKnow, <1>c DEF JobWritten,
    CallBecomes, posVars, restVars, CalmInv, JobOrder, TypeInv, RowNames
<1>23. ASSUME NEW c \in Caller, LimitWaits(c)
      PROVE  JobOrder'
  BY <1>23, <1>a, TypeFacts, LimitWaitsEffect, <1>c DEF CallBecomes, posVars, restVars, CalmInv,
    JobOrder, TypeInv, RowNames
<1>24. ASSUME NEW c \in Caller, CallFails(c)
      PROVE  JobOrder'
  BY <1>24, <1>a, TypeFacts, CallEndsEffect, <1>c DEF CallBecomes, posVars, restVars, CalmInv,
    JobOrder, TypeInv, RowNames
<1>25. ASSUME TsgReset
      PROVE  JobOrder'
  BY <1>25, <1>a, TypeFacts, <1>c DEF TsgReset, posVars, restVars, CalmInv, JobOrder, TypeInv,
    RowNames
<1>26. ASSUME NEW j \in Job, JobAges(j)
      PROVE  JobOrder'
  BY <1>26, <1>a, TypeFacts, <1>c DEF JobAges, posVars, restVars, CalmInv, JobOrder, TypeInv,
    RowNames
<1>27. ASSUME NEW o \in Order, Fill(o)
      PROVE  JobOrder'
  <2>1. \A p \in Order : order[p].job # None => order'[p].job = order[p].job
    BY <1>27, <1>a, FillCalm DEF OrderMoves
  <2>2. UNCHANGED job
    BY <1>27, <1>a, FillCalm
  <2> QED
    BY <1>c, <2>1, <2>2, TypeFacts DEF JobOrder
<1>28. ASSUME NEW o \in Order, ExchangeCancels(o)
      PROVE  JobOrder'
  <2>1. \A p \in Order : order[p].job # None => order'[p].job = order[p].job
    BY <1>28, <1>a, ExchangeCancelsCalm DEF OrdersFade
  <2>2. UNCHANGED job
    BY <1>28, <1>a, ExchangeCancelsCalm
  <2> QED
    BY <1>c, <2>1, <2>2, TypeFacts DEF JobOrder
<1>29. ASSUME HandSale
      PROVE  JobOrder'
  BY <1>29, <1>a, TypeFacts, <1>c DEF HandSale, posVars, restVars, AllButTsg, CalmInv, JobOrder,
    TypeInv, RowNames
<1>30. ASSUME LockExpires
      PROVE  JobOrder'
  BY <1>30, <1>a, TypeFacts, <1>c DEF LockExpires, posVars, restVars, CalmInv, JobOrder, TypeInv,
    RowNames
<1>31. CASE UNCHANGED vars
  BY <1>31, <1>a, <1>c DEF vars, posVars, CalmInv, JobOrder, TypeInv, RowNames
<1> QED
  BY <1>a, CalmRulesOut, <1>1, <1>2, <1>3, <1>4, <1>5, <1>6, <1>7, <1>8, <1>9, <1>10, <1>11,
    <1>12, <1>13, <1>14, <1>15, <1>16, <1>17, <1>18, <1>19, <1>20, <1>21, <1>22, <1>23,
    <1>24, <1>25, <1>26, <1>27, <1>28, <1>29, <1>30, <1>31 DEF Next, Executor, Continue

\* Every step keeps that a pass knows the order of its job.
LEMMA CallOrderStep == CalmHyp /\ [Next]_vars => CallOrder'
<1> SUFFICES ASSUME CalmHyp, [Next]_vars PROVE CallOrder'
  OBVIOUS
<1>a. CalmHyp /\ CalmHyp /\ TypeInv /\ DeliveryInv /\ CalmInv /\ TypeOK /\ Qty \in Nat
  BY SellOrdersAssumption DEF CalmHyp, TypeInv
<1>b. /\ "CRASH" \notin Enabled /\ "TIMEOUT" \notin Enabled /\ "EXPIRY" \notin Enabled /\ "CANCEL_API" \notin Enabled
      /\ \A c \in Caller : call[c].phase \notin {"cancel", "cancelWrite"}
  BY <1>a, CalmEnabled DEF CalmHyp, CalmInv, CallOrder
<1>c. \A c \in Caller : call[c].phase \in LimitPhase =>
        /\ call[c].order \in Order /\ call[c].job \in Job /\ call[c].job # None
        /\ order[call[c].order].job = call[c].job
        /\ call[c].phase = "limitFilled" => ~order[call[c].order].live /\ Filled(call[c].order) = order[call[c].order].qty
  BY <1>a, CallsKnow, LimitFilledCalm, TypeFacts
<1>1. ASSUME NEW j \in Job, Take(j)
     PROVE  CallOrder'
  BY <1>1, <1>a DEF Take, CalmInv, CallOrder, Filled
<1>2. ASSUME Mark
     PROVE  CallOrder'
  BY <1>2, <1>a, TypeFacts, MarkEffect, NotPlacedYet, <1>c DEF JobWritten, ExGoes, posVars,
    restVars, CalmInv, CallOrder, LimitPhase, Filled
<1>3. ASSUME CheckFails
     PROVE  CallOrder'
  BY <1>3, <1>a, TypeFacts, CheckFailsEffect, NotPlacedYet, <1>c DEF JobWritten, posVars,
    restVars, CalmInv, CallOrder, LimitPhase, Filled
<1>4. ASSUME CheckPasses
     PROVE  CallOrder'
  BY <1>4, <1>a, TypeFacts, CheckPassesEffect, NotPlacedYet, <1>c DEF ExGoes, posVars, restVars,
    CalmInv, CallOrder, LimitPhase, Filled
<1>5. ASSUME AcquireLock
     PROVE  CallOrder'
  BY <1>5, <1>a, TypeFacts, AcquireEffect, NotPlacedYet, NothingLive, <1>c DEF ExGoes, posVars,
    restVars, CalmInv, CallOrder, LimitPhase, Filled
<1>6. ASSUME LockRefused
     PROVE  CallOrder'
  BY <1>6, <1>a, TypeFacts, LockRefusedEffect, NotPlacedYet, <1>c DEF JobWritten, posVars,
    restVars, CalmInv, CallOrder, LimitPhase, Filled
<1>7. ASSUME NEW o \in Order, Submit(o)
     PROVE  CallOrder'
  <2>1. \A p \in Order : order[p].job # None => order'[p] = order[p]
    BY <1>7, <1>a, SubmitCalm
  <2>2. UNCHANGED call
    BY <1>7, <1>a, SubmitCalm
  <2> QED
    BY <1>a, <1>b, <1>c, <2>1, <2>2 DEF CallOrder, LimitPhase, Filled
<1>8. ASSUME SubmitRefused
     PROVE  CallOrder'
  BY <1>8, <1>a, TypeFacts, SubmitRefusedEffect, NotPlacedYet, <1>c DEF JobWritten, posVars,
    restVars, CalmInv, CallOrder, LimitPhase, Filled
<1>9. ASSUME Record
     PROVE  CallOrder'
  BY <1>9, <1>a, TypeFacts, RecordedEffect, PlacedOrder, <1>c DEF ExGoes, OrderPhase, posVars,
    restVars, CalmInv, CallOrder, LimitPhase, Filled
<1>10. ASSUME Rest
      PROVE  CallOrder'
  BY <1>10, <1>a, TypeFacts, RestEffect, PlacedOrder, <1>c DEF JobWritten, OrderPhase, posVars,
    restVars, CalmInv, CallOrder, LimitPhase, Filled
<1>11. ASSUME BookExecution
      PROVE  CallOrder'
  BY <1>11, <1>a, TypeFacts, BookExecutionEffect, PlacedOrder, <1>c DEF Booked, ExGoes, OrderPhase,
    posVars, restVars, CalmInv, CallOrder, LimitPhase, Filled
<1>12. ASSUME Complete
      PROVE  CallOrder'
  BY <1>12, <1>a, TypeFacts, CompleteCalm, PlacedOrder, <1>c DEF JobWritten, OrderPhase, posVars,
    restVars, CalmInv, CallOrder, LimitPhase, Filled
<1>13. ASSUME NEW c \in Caller, NEW q \in 1..Qty, NEW ty \in OrderType, CloseRequest(c, q, ty)
      PROVE  CallOrder'
  BY <1>13, <1>a, TypeFacts, CloseRequestEffect, <1>c DEF CallBecomes, posVars, restVars, CalmInv,
    CallOrder, LimitPhase, Filled
<1>14. ASSUME NEW c \in Caller, NEW t \in Trigger, TriggerCheck(c, t)
      PROVE  CallOrder'
  BY <1>14, <1>a, TypeFacts, TriggerCheckEffect, <1>c DEF CallBecomes, posVars, restVars, CalmInv,
    CallOrder, LimitPhase, Filled
<1>15. ASSUME NEW c \in Caller, NEW j \in Job, LimitRead(c, j)
      PROVE  CallOrder'
  <2>1. job[j].order \in Order /\ order[job[j].order].job = j
    BY <1>15, <1>a, LimitReadEffect, CalmEnabled, TypeFacts DEF CalmHyp, CalmInv, JobOrder, TypeOK, JobRow
  <2> QED
    BY <1>15, <1>a, <1>b, <1>c, <2>1, LimitReadEffect DEF CallBecomes, CallOrder, LimitPhase, Filled
<1>16. ASSUME NEW c \in Caller, TriggerFlag(c)
      PROVE  CallOrder'
  BY <1>16, <1>a, TypeFacts, TriggerFlagEffect, <1>c DEF CallMoves, CallBecomes, posVars, restVars,
    CalmInv, CallOrder, LimitPhase, Filled
<1>17. ASSUME NEW c \in Caller, TriggerConfirm(c)
      PROVE  CallOrder'
  BY <1>17, <1>a, TypeFacts, TriggerConfirmEffect, <1>c DEF CallMoves, CallBecomes, posVars,
    restVars, CalmInv, CallOrder, LimitPhase, Filled
<1>18. ASSUME NEW c \in Caller, NEW j \in Job, CreateJob(c, j)
      PROVE  CallOrder'
  BY <1>18, <1>a, TypeFacts, CreateJobEffect, <1>c DEF posVars, restVars, CalmInv, CallOrder,
    LimitPhase, Filled
<1>19. ASSUME NEW c \in Caller, Enqueue(c)
      PROVE  CallOrder'
  BY <1>19, <1>a, TypeFacts, EnqueueEffect, <1>c DEF CallBecomes, posVars, restVars, CalmInv,
    CallOrder, LimitPhase, Filled
<1>20. ASSUME NEW c \in Caller, LimitClosed(c)
      PROVE  CallOrder'
  BY <1>20, <1>a, TypeFacts, LimitClosedCalm, CallsKnow, <1>c DEF JobWritten, CallBecomes,
    OrdersFade, posVars, restVars, CalmInv, CallOrder, LimitPhase, Filled
<1>21. ASSUME NEW c \in Caller, LimitFilled(c)
      PROVE  CallOrder'
  BY <1>21, <1>a, TypeFacts, LimitFilledEffect, LimitFilledCalm, CallsKnow, <1>c DEF Booked,
    CallMoves, posVars, restVars, CalmInv, CallOrder, LimitPhase, Filled
<1>22. ASSUME NEW c \in Caller, LimitCompletes(c)
      PROVE  CallOrder'
  BY <1>22, <1>a, TypeFacts, LimitCompletesEffect, LimitFilledCalm, CallsKnow, <1>c DEF JobWritten,
    CallBecomes, posVars, restVars, CalmInv, CallOrder, LimitPhase, Filled
<1>23. ASSUME NEW c \in Caller, LimitWaits(c)
      PROVE  CallOrder'
  BY <1>23, <1>a, TypeFacts, LimitWaitsEffect, <1>c DEF CallBecomes, posVars, restVars, CalmInv,
    CallOrder, LimitPhase, Filled
<1>24. ASSUME NEW c \in Caller, CallFails(c)
      PROVE  CallOrder'
  BY <1>24, <1>a, TypeFacts, CallEndsEffect, <1>c DEF CallBecomes, posVars, restVars, CalmInv,
    CallOrder, LimitPhase, Filled
<1>25. ASSUME TsgReset
      PROVE  CallOrder'
  BY <1>25, <1>a, TypeFacts, <1>c DEF TsgReset, posVars, restVars, CalmInv, CallOrder, LimitPhase,
    Filled
<1>26. ASSUME NEW j \in Job, JobAges(j)
      PROVE  CallOrder'
  BY <1>26, <1>a, TypeFacts, <1>c DEF JobAges, posVars, restVars, CalmInv, CallOrder, LimitPhase,
    Filled
<1>27. ASSUME NEW o \in Order, Fill(o)
      PROVE  CallOrder'
  <2>1. \A p \in Order : order'[p].job = order[p].job /\ (~order[p].live => order'[p] = order[p])
    BY <1>27, <1>a, FillCalm DEF OrderMoves
  <2>2. UNCHANGED call
    BY <1>27, <1>a, FillCalm
  <2> QED
    BY <1>a, <1>b, <1>c, <2>1, <2>2 DEF CallOrder, LimitPhase, Filled
<1>28. ASSUME NEW o \in Order, ExchangeCancels(o)
      PROVE  CallOrder'
  BY <1>28, <1>a, TypeFacts, ExchangeCancelsCalm, <1>c DEF OrdersFade, posVars, restVars, CalmInv,
    CallOrder, LimitPhase, Filled
<1>29. ASSUME HandSale
      PROVE  CallOrder'
  BY <1>29, <1>a, TypeFacts, <1>c DEF HandSale, posVars, restVars, AllButTsg, CalmInv, CallOrder,
    LimitPhase, Filled
<1>30. ASSUME LockExpires
      PROVE  CallOrder'
  BY <1>30, <1>a, TypeFacts, <1>c DEF LockExpires, posVars, restVars, CalmInv, CallOrder,
    LimitPhase, Filled
<1>31. CASE UNCHANGED vars
  BY <1>31, <1>a, <1>c DEF vars, posVars, CalmInv, CallOrder, LimitPhase, Filled
<1> QED
  BY <1>a, CalmRulesOut, <1>1, <1>2, <1>3, <1>4, <1>5, <1>6, <1>7, <1>8, <1>9, <1>10, <1>11,
    <1>12, <1>13, <1>14, <1>15, <1>16, <1>17, <1>18, <1>19, <1>20, <1>21, <1>22, <1>23,
    <1>24, <1>25, <1>26, <1>27, <1>28, <1>29, <1>30, <1>31 DEF Next, Executor, Continue

\* Every step keeps that quantities are positive.
LEMMA AmountsStep == CalmHyp /\ [Next]_vars => Amounts'
<1> SUFFICES ASSUME CalmHyp, [Next]_vars PROVE Amounts'
  OBVIOUS
<1>a. CalmHyp /\ CalmHyp /\ TypeInv /\ DeliveryInv /\ CalmInv /\ TypeOK /\ Qty \in Nat
  BY SellOrdersAssumption DEF CalmHyp, TypeInv
<1>b. /\ "CRASH" \notin Enabled /\ "TIMEOUT" \notin Enabled /\ "EXPIRY" \notin Enabled /\ "CANCEL_API" \notin Enabled
      /\ \A c \in Caller : call[c].phase \notin {"cancel", "cancelWrite"}
  BY <1>a, CalmEnabled DEF CalmHyp, CalmInv, CallOrder
<1>1. ASSUME NEW j \in Job, Take(j)
     PROVE  Amounts'
  BY <1>1, <1>a, TypeFacts DEF Take, posVars, restVars, CalmInv, Amounts
<1>2. ASSUME Mark
     PROVE  Amounts'
  BY <1>2, <1>a, TypeFacts, MarkEffect, NotPlacedYet DEF JobWritten, ExGoes, posVars, restVars,
    CalmInv, Amounts, TypeInv, ExNames, Created
<1>3. ASSUME CheckFails
     PROVE  Amounts'
  BY <1>3, <1>a, TypeFacts, CheckFailsEffect, NotPlacedYet DEF JobWritten, posVars, restVars,
    CalmInv, Amounts, TypeInv, ExNames, Created
<1>4. ASSUME CheckPasses
     PROVE  Amounts'
  BY <1>4, <1>a, TypeFacts, CheckPassesEffect, NotPlacedYet DEF ExGoes, posVars, restVars,
    CalmInv, Amounts, TypeInv, ExNames, Created
<1>5. ASSUME AcquireLock
     PROVE  Amounts'
  BY <1>5, <1>a, TypeFacts, AcquireEffect, NotPlacedYet, NothingLive DEF ExGoes, posVars,
    restVars, CalmInv, Amounts
<1>6. ASSUME LockRefused
     PROVE  Amounts'
  BY <1>6, <1>a, TypeFacts, LockRefusedEffect, NotPlacedYet DEF JobWritten, posVars, restVars,
    CalmInv, Amounts, TypeInv, ExNames, Created
<1>7. ASSUME NEW o \in Order, Submit(o)
     PROVE  Amounts'
  BY <1>7, <1>a, TypeFacts, SubmitCalm DEF posVars, restVars, CalmInv, Amounts
<1>8. ASSUME SubmitRefused
     PROVE  Amounts'
  BY <1>8, <1>a, TypeFacts, SubmitRefusedEffect, NotPlacedYet DEF JobWritten, posVars, restVars,
    CalmInv, Amounts, TypeInv, ExNames, Created
<1>9. ASSUME Record
     PROVE  Amounts'
  BY <1>9, <1>a, TypeFacts, RecordedEffect, PlacedOrder DEF ExGoes, OrderPhase, posVars, restVars,
    CalmInv, Amounts, TypeInv, ExNames, Created
<1>10. ASSUME Rest
      PROVE  Amounts'
  BY <1>10, <1>a, TypeFacts, RestEffect, PlacedOrder DEF JobWritten, OrderPhase, posVars, restVars,
    CalmInv, Amounts, TypeInv, ExNames, Created
<1>11. ASSUME BookExecution
      PROVE  Amounts'
  BY <1>11, <1>a, TypeFacts, BookExecutionEffect, PlacedOrder DEF Booked, ExGoes, OrderPhase,
    posVars, restVars, CalmInv, Amounts, TypeInv, ExNames, Created
<1>12. ASSUME Complete
      PROVE  Amounts'
  BY <1>12, <1>a, TypeFacts, CompleteCalm, PlacedOrder DEF JobWritten, OrderPhase, posVars,
    restVars, CalmInv, Amounts, TypeInv, ExNames, Created
<1>13. ASSUME NEW c \in Caller, NEW q \in 1..Qty, NEW ty \in OrderType, CloseRequest(c, q, ty)
      PROVE  Amounts'
  BY <1>13, <1>a, TypeFacts, CloseRequestEffect DEF CallBecomes, posVars, restVars, CalmInv,
    Amounts
<1>14. ASSUME NEW c \in Caller, NEW t \in Trigger, TriggerCheck(c, t)
      PROVE  Amounts'
  BY <1>14, <1>a, TypeFacts, TriggerCheckEffect DEF CallBecomes, posVars, restVars, CalmInv,
    Amounts
<1>15. ASSUME NEW c \in Caller, NEW j \in Job, LimitRead(c, j)
      PROVE  Amounts'
  BY <1>15, <1>a, TypeFacts, LimitReadEffect DEF CallBecomes, posVars, restVars, CalmInv, Amounts
<1>16. ASSUME NEW c \in Caller, TriggerFlag(c)
      PROVE  Amounts'
  BY <1>16, <1>a, TypeFacts, TriggerFlagEffect DEF CallMoves, CallBecomes, posVars, restVars,
    CalmInv, Amounts
<1>17. ASSUME NEW c \in Caller, TriggerConfirm(c)
      PROVE  Amounts'
  BY <1>17, <1>a, TypeFacts, TriggerConfirmEffect DEF CallMoves, CallBecomes, posVars, restVars,
    CalmInv, Amounts
<1>18. ASSUME NEW c \in Caller, NEW j \in Job, CreateJob(c, j)
      PROVE  Amounts'
  BY <1>18, <1>a, TypeFacts, CreateJobEffect DEF posVars, restVars, CalmInv, Amounts
<1>19. ASSUME NEW c \in Caller, Enqueue(c)
      PROVE  Amounts'
  BY <1>19, <1>a, TypeFacts, EnqueueEffect DEF CallBecomes, posVars, restVars, CalmInv, Amounts
<1>20. ASSUME NEW c \in Caller, LimitClosed(c)
      PROVE  Amounts'
  BY <1>20, <1>a, TypeFacts, LimitClosedCalm, CallsKnow DEF JobWritten, CallBecomes, OrdersFade,
    posVars, restVars, CalmInv, Amounts, TypeInv, CallNames, JobPhase, Created
<1>21. ASSUME NEW c \in Caller, LimitFilled(c)
      PROVE  Amounts'
  BY <1>21, <1>a, TypeFacts, LimitFilledEffect, LimitFilledCalm, CallsKnow DEF Booked, CallMoves,
    posVars, restVars, CalmInv, Amounts, TypeInv, CallNames, JobPhase, Created
<1>22. ASSUME NEW c \in Caller, LimitCompletes(c)
      PROVE  Amounts'
  BY <1>22, <1>a, TypeFacts, LimitCompletesEffect, LimitFilledCalm, CallsKnow DEF JobWritten,
    CallBecomes, posVars, restVars, CalmInv, Amounts, TypeInv, CallNames, JobPhase, Created
<1>23. ASSUME NEW c \in Caller, LimitWaits(c)
      PROVE  Amounts'
  BY <1>23, <1>a, TypeFacts, LimitWaitsEffect DEF CallBecomes, posVars, restVars, CalmInv, Amounts
<1>24. ASSUME NEW c \in Caller, CallFails(c)
      PROVE  Amounts'
  BY <1>24, <1>a, TypeFacts, CallEndsEffect DEF CallBecomes, posVars, restVars, CalmInv, Amounts
<1>25. ASSUME TsgReset
      PROVE  Amounts'
  BY <1>25, <1>a, TypeFacts DEF TsgReset, posVars, restVars, CalmInv, Amounts
<1>26. ASSUME NEW j \in Job, JobAges(j)
      PROVE  Amounts'
  BY <1>26, <1>a, TypeFacts DEF JobAges, posVars, restVars, CalmInv, Amounts
<1>27. ASSUME NEW o \in Order, Fill(o)
      PROVE  Amounts'
  BY <1>27, <1>a, TypeFacts, FillCalm DEF OrderMoves, posVars, restVars, CalmInv, Amounts
<1>28. ASSUME NEW o \in Order, ExchangeCancels(o)
      PROVE  Amounts'
  BY <1>28, <1>a, TypeFacts, ExchangeCancelsCalm DEF OrdersFade, posVars, restVars, CalmInv,
    Amounts
<1>29. ASSUME HandSale
      PROVE  Amounts'
  BY <1>29, <1>a, TypeFacts DEF HandSale, posVars, restVars, AllButTsg, CalmInv, Amounts
<1>30. ASSUME LockExpires
      PROVE  Amounts'
  BY <1>30, <1>a, TypeFacts DEF LockExpires, posVars, restVars, CalmInv, Amounts
<1>31. CASE UNCHANGED vars
  BY <1>31, <1>a DEF vars, posVars, CalmInv, Amounts
<1> QED
  BY <1>a, CalmRulesOut, <1>1, <1>2, <1>3, <1>4, <1>5, <1>6, <1>7, <1>8, <1>9, <1>10, <1>11,
    <1>12, <1>13, <1>14, <1>15, <1>16, <1>17, <1>18, <1>19, <1>20, <1>21, <1>22, <1>23,
    <1>24, <1>25, <1>26, <1>27, <1>28, <1>29, <1>30, <1>31 DEF Next, Executor, Continue

\* Every step keeps that at most one order is open.
LEMMA OneLiveStep == CalmHyp /\ [Next]_vars => OneLiveOrder'
<1> SUFFICES ASSUME CalmHyp, [Next]_vars PROVE OneLiveOrder'
  OBVIOUS
<1>a. CalmHyp /\ CalmHyp /\ TypeInv /\ DeliveryInv /\ CalmInv /\ TypeOK /\ Qty \in Nat
  BY SellOrdersAssumption DEF CalmHyp, TypeInv
<1>b. /\ "CRASH" \notin Enabled /\ "TIMEOUT" \notin Enabled /\ "EXPIRY" \notin Enabled /\ "CANCEL_API" \notin Enabled
      /\ \A c \in Caller : call[c].phase \notin {"cancel", "cancelWrite"}
  BY <1>a, CalmEnabled DEF CalmHyp, CalmInv, CallOrder
<1>c. /\ OneLiveOrder /\ (UNCHANGED order => OneLiveOrder') /\ (OrdersFade => OneLiveOrder')
  BY <1>a DEF CalmInv, OneLiveOrder, OrdersFade
<1>1. ASSUME NEW j \in Job, Take(j)
     PROVE  OneLiveOrder'
  BY <1>1, <1>c DEF Take
<1>2. ASSUME Mark
     PROVE  OneLiveOrder'
  BY <1>2, <1>a, <1>c, MarkEffect
<1>3. ASSUME CheckFails
     PROVE  OneLiveOrder'
  BY <1>3, <1>a, <1>c, CheckFailsEffect
<1>4. ASSUME CheckPasses
     PROVE  OneLiveOrder'
  BY <1>4, <1>a, <1>c, CheckPassesEffect
<1>5. ASSUME AcquireLock
     PROVE  OneLiveOrder'
  BY <1>5, <1>a, <1>c, AcquireEffect
<1>6. ASSUME LockRefused
     PROVE  OneLiveOrder'
  BY <1>6, <1>a, <1>c, LockRefusedEffect
<1>7. ASSUME NEW o \in Order, Submit(o)
     PROVE  OneLiveOrder'
  <2>1. \A p \in Order \ {o} : ~order'[p].live
    BY <1>7, <1>a, SubmitCalm
  <2> QED
    BY <2>1 DEF OneLiveOrder
<1>8. ASSUME SubmitRefused
     PROVE  OneLiveOrder'
  BY <1>8, <1>a, <1>c, SubmitRefusedEffect
<1>9. ASSUME Record
     PROVE  OneLiveOrder'
  BY <1>9, <1>a, <1>c, RecordedEffect
<1>10. ASSUME Rest
      PROVE  OneLiveOrder'
  BY <1>10, <1>a, <1>c, RestEffect
<1>11. ASSUME BookExecution
      PROVE  OneLiveOrder'
  BY <1>11, <1>a, <1>c, BookExecutionEffect
<1>12. ASSUME Complete
      PROVE  OneLiveOrder'
  BY <1>12, <1>a, <1>c, CompleteCalm
<1>13. ASSUME NEW c \in Caller, NEW q \in 1..Qty, NEW ty \in OrderType, CloseRequest(c, q, ty)
      PROVE  OneLiveOrder'
  BY <1>13, <1>a, <1>c, CloseRequestEffect
<1>14. ASSUME NEW c \in Caller, NEW t \in Trigger, TriggerCheck(c, t)
      PROVE  OneLiveOrder'
  BY <1>14, <1>a, <1>c, TriggerCheckEffect
<1>15. ASSUME NEW c \in Caller, NEW j \in Job, LimitRead(c, j)
      PROVE  OneLiveOrder'
  BY <1>15, <1>a, <1>c, LimitReadEffect
<1>16. ASSUME NEW c \in Caller, TriggerFlag(c)
      PROVE  OneLiveOrder'
  BY <1>16, <1>a, <1>c, TriggerFlagEffect
<1>17. ASSUME NEW c \in Caller, TriggerConfirm(c)
      PROVE  OneLiveOrder'
  BY <1>17, <1>a, <1>c, TriggerConfirmEffect
<1>18. ASSUME NEW c \in Caller, NEW j \in Job, CreateJob(c, j)
      PROVE  OneLiveOrder'
  BY <1>18, <1>a, <1>c, CreateJobEffect
<1>19. ASSUME NEW c \in Caller, Enqueue(c)
      PROVE  OneLiveOrder'
  BY <1>19, <1>a, <1>c, EnqueueEffect
<1>20. ASSUME NEW c \in Caller, LimitClosed(c)
      PROVE  OneLiveOrder'
  BY <1>20, <1>a, <1>c, LimitClosedCalm
<1>21. ASSUME NEW c \in Caller, LimitFilled(c)
      PROVE  OneLiveOrder'
  BY <1>21, <1>a, <1>c, LimitFilledEffect
<1>22. ASSUME NEW c \in Caller, LimitCompletes(c)
      PROVE  OneLiveOrder'
  BY <1>22, <1>a, <1>c, LimitCompletesEffect
<1>23. ASSUME NEW c \in Caller, LimitWaits(c)
      PROVE  OneLiveOrder'
  BY <1>23, <1>a, <1>c, LimitWaitsEffect
<1>24. ASSUME NEW c \in Caller, CallFails(c)
      PROVE  OneLiveOrder'
  BY <1>24, <1>a, <1>c, CallEndsEffect
<1>25. ASSUME TsgReset
      PROVE  OneLiveOrder'
  BY <1>25, <1>c DEF TsgReset
<1>26. ASSUME NEW j \in Job, JobAges(j)
      PROVE  OneLiveOrder'
  BY <1>26, <1>c DEF JobAges
<1>27. ASSUME NEW o \in Order, Fill(o)
      PROVE  OneLiveOrder'
  <2>1. /\ ~order'[o].live
        /\ \A p \in Order \ {o} : order'[p] = order[p]
    BY <1>27, <1>a, FillCalm DEF OrderMoves
  <2> QED
    BY <1>c, <2>1 DEF OneLiveOrder
<1>28. ASSUME NEW o \in Order, ExchangeCancels(o)
      PROVE  OneLiveOrder'
  BY <1>28, <1>a, <1>c, ExchangeCancelsCalm
<1>29. ASSUME HandSale
      PROVE  OneLiveOrder'
  BY <1>29, <1>c DEF HandSale
<1>30. ASSUME LockExpires
      PROVE  OneLiveOrder'
  BY <1>30, <1>c DEF LockExpires
<1>31. CASE UNCHANGED vars
  BY <1>31, <1>a, <1>c DEF vars, posVars
<1> QED
  BY <1>a, CalmRulesOut, <1>1, <1>2, <1>3, <1>4, <1>5, <1>6, <1>7, <1>8, <1>9, <1>10, <1>11,
    <1>12, <1>13, <1>14, <1>15, <1>16, <1>17, <1>18, <1>19, <1>20, <1>21, <1>22, <1>23,
    <1>24, <1>25, <1>26, <1>27, <1>28, <1>29, <1>30, <1>31 DEF Next, Executor, Continue

\* Every step keeps that the lock outlives an open order, or nothing else is
\* about to be placed.
LEMMA LiveGuardedStep == CalmHyp /\ [Next]_vars => LiveGuarded'
<1> SUFFICES ASSUME CalmHyp, [Next]_vars PROVE LiveGuarded'
  OBVIOUS
<1>a. CalmHyp /\ CalmHyp /\ TypeInv /\ DeliveryInv /\ CalmInv /\ TypeOK /\ Qty \in Nat
  BY SellOrdersAssumption DEF CalmHyp, TypeInv
<1>b. /\ "CRASH" \notin Enabled /\ "TIMEOUT" \notin Enabled /\ "EXPIRY" \notin Enabled /\ "CANCEL_API" \notin Enabled
      /\ \A c \in Caller : call[c].phase \notin {"cancel", "cancelWrite"}
  BY <1>a, CalmEnabled DEF CalmHyp, CalmInv, CallOrder
<1>c. \A p \in Order : order[p].live =>
        order[p].job \in Job /\ order[p].job # None /\ Guarded(order[p].job)
  BY <1>a, OrdersHaveJobs, TypeFacts DEF CalmInv, LiveGuarded
<1>1. ASSUME NEW j \in Job, Take(j)
     PROVE  LiveGuarded'
  BY <1>1, <1>a, TypeFacts, <1>c DEF Take, posVars, restVars, LiveGuarded, Guarded, Watched, Quiet
<1>2. ASSUME Mark
     PROVE  LiveGuarded'
  BY <1>2, <1>a, TypeFacts, MarkEffect, NotPlacedYet, <1>c DEF JobWritten, ExGoes, posVars,
    restVars, LiveGuarded, Guarded, Watched, Quiet
<1>3. ASSUME CheckFails
     PROVE  LiveGuarded'
  BY <1>3, <1>a, TypeFacts, CheckFailsEffect, NotPlacedYet, <1>c DEF JobWritten, posVars,
    restVars, LiveGuarded, Guarded, Watched, Quiet, Released
<1>4. ASSUME CheckPasses
     PROVE  LiveGuarded'
  BY <1>4, <1>a, TypeFacts, CheckPassesEffect, NotPlacedYet, <1>c DEF ExGoes, posVars, restVars,
    LiveGuarded, Guarded, Watched, Quiet
<1>5. ASSUME AcquireLock
     PROVE  LiveGuarded'
  BY <1>5, <1>a, TypeFacts, AcquireEffect, NotPlacedYet, NothingLive, <1>c DEF ExGoes, posVars,
    restVars, LiveGuarded, Guarded, Watched, Quiet
<1>6. ASSUME LockRefused
     PROVE  LiveGuarded'
  BY <1>6, <1>a, TypeFacts, LockRefusedEffect, NotPlacedYet, <1>c DEF JobWritten, posVars,
    restVars, LiveGuarded, Guarded, Watched, Quiet
<1>7. ASSUME NEW o \in Order, Submit(o)
     PROVE  LiveGuarded'
  BY <1>7, <1>a, TypeFacts, SubmitCalm, <1>c DEF posVars, restVars, LiveGuarded, Guarded, Watched,
    Quiet
<1>8. ASSUME SubmitRefused
     PROVE  LiveGuarded'
  BY <1>8, <1>a, TypeFacts, SubmitRefusedEffect, NotPlacedYet, <1>c DEF JobWritten, posVars,
    restVars, LiveGuarded, Guarded, Watched, Quiet, Released
<1>9. ASSUME Record
     PROVE  LiveGuarded'
  BY <1>9, <1>a, TypeFacts, RecordedEffect, PlacedOrder, <1>c DEF ExGoes, OrderPhase, posVars,
    restVars, LiveGuarded, Guarded, Watched, Quiet
<1>10. ASSUME Rest
      PROVE  LiveGuarded'
  BY <1>10, <1>a, TypeFacts, RestEffect, PlacedOrder, <1>c DEF JobWritten, OrderPhase, posVars,
    restVars, LiveGuarded, Guarded, Watched, Quiet
<1>11. ASSUME BookExecution
      PROVE  LiveGuarded'
  BY <1>11, <1>a, TypeFacts, BookExecutionEffect, PlacedOrder, <1>c DEF Booked, ExGoes, OrderPhase,
    posVars, restVars, LiveGuarded, Guarded, Watched, Quiet
<1>12. ASSUME Complete
      PROVE  LiveGuarded'
  BY <1>12, <1>a, TypeFacts, CompleteCalm, PlacedOrder, <1>c DEF JobWritten, OrderPhase, posVars,
    restVars, LiveGuarded, Guarded, Watched, Quiet, Released
<1>13. ASSUME NEW c \in Caller, NEW q \in 1..Qty, NEW ty \in OrderType, CloseRequest(c, q, ty)
      PROVE  LiveGuarded'
  BY <1>13, <1>a, TypeFacts, CloseRequestEffect, <1>c, LiveIsActive DEF CallBecomes, posVars,
    restVars, LiveGuarded, Guarded, Watched, Quiet
<1>14. ASSUME NEW c \in Caller, NEW t \in Trigger, TriggerCheck(c, t)
      PROVE  LiveGuarded'
  BY <1>14, <1>a, TypeFacts, TriggerCheckEffect, <1>c DEF CallBecomes, posVars, restVars,
    LiveGuarded, Guarded, Watched, Quiet
<1>15. ASSUME NEW c \in Caller, NEW j \in Job, LimitRead(c, j)
      PROVE  LiveGuarded'
  BY <1>15, <1>a, TypeFacts, LimitReadEffect, <1>c DEF CallBecomes, posVars, restVars, LiveGuarded,
    Guarded, Watched, Quiet
<1>16. ASSUME NEW c \in Caller, TriggerFlag(c)
      PROVE  LiveGuarded'
  BY <1>16, <1>a, TypeFacts, TriggerFlagEffect, <1>c DEF CallMoves, CallBecomes, posVars, restVars,
    LiveGuarded, Guarded, Watched, Quiet
<1>17. ASSUME NEW c \in Caller, TriggerConfirm(c)
      PROVE  LiveGuarded'
  BY <1>17, <1>a, TypeFacts, TriggerConfirmEffect, <1>c, LiveIsActive DEF CallMoves, CallBecomes,
    posVars, restVars, LiveGuarded, Guarded, Watched, Quiet
<1>18. ASSUME NEW c \in Caller, NEW j \in Job, CreateJob(c, j)
      PROVE  LiveGuarded'
  BY <1>18, <1>a, TypeFacts, CreateJobEffect, <1>c DEF posVars, restVars, LiveGuarded, Guarded,
    Watched, Quiet
<1>19. ASSUME NEW c \in Caller, Enqueue(c)
      PROVE  LiveGuarded'
  BY <1>19, <1>a, TypeFacts, EnqueueEffect, <1>c DEF CallBecomes, posVars, restVars, LiveGuarded,
    Guarded, Watched, Quiet
<1>20. ASSUME NEW c \in Caller, LimitClosed(c)
      PROVE  LiveGuarded'
  <2>1. PICK st : JobWritten(call[c].job, st)
    BY <1>20, <1>a, LimitClosedCalm
  <2>2. \A p \in Order : /\ order'[p].job = order[p].job
                         /\ order'[p].live => order[p].live /\ order[p].job # call[c].job
    BY <1>20, <1>a, LimitClosedCalm, CallsKnow DEF OrdersFade
  <2>3. /\ UNCHANGED <<queue, ex>>
        /\ lock' = Released(call[c].job)
        /\ Quiet => Quiet'
    BY <1>20, <1>a, LimitClosedCalm, TypeFacts DEF restVars, Quiet, CallBecomes
  <2>4. ASSUME NEW p \in Order, order'[p].live
        PROVE  job'[order'[p].job] = job[order[p].job] /\ order'[p].job = order[p].job
               /\ (lock = order[p].job => lock' = lock)
    BY <1>c, <2>1, <2>2, <2>3, <2>4 DEF JobWritten, Released
  <2> QED
    BY <1>c, <2>2, <2>3, <2>4 DEF LiveGuarded, Guarded, Watched
<1>21. ASSUME NEW c \in Caller, LimitFilled(c)
      PROVE  LiveGuarded'
  BY <1>21, <1>a, TypeFacts, LimitFilledEffect, LimitFilledCalm, CallsKnow, <1>c DEF Booked,
    CallMoves, posVars, restVars, LiveGuarded, Guarded, Watched, Quiet
<1>22. ASSUME NEW c \in Caller, LimitCompletes(c)
      PROVE  LiveGuarded'
  BY <1>22, <1>a, TypeFacts, LimitCompletesEffect, LimitFilledCalm, CallsKnow, <1>c DEF JobWritten,
    CallBecomes, posVars, restVars, LiveGuarded, Guarded, Watched, Quiet
<1>23. ASSUME NEW c \in Caller, LimitWaits(c)
      PROVE  LiveGuarded'
  BY <1>23, <1>a, TypeFacts, LimitWaitsEffect, <1>c DEF CallBecomes, posVars, restVars,
    LiveGuarded, Guarded, Watched, Quiet
<1>24. ASSUME NEW c \in Caller, CallFails(c)
      PROVE  LiveGuarded'
  BY <1>24, <1>a, TypeFacts, CallEndsEffect, <1>c DEF CallBecomes, posVars, restVars, LiveGuarded,
    Guarded, Watched, Quiet
<1>25. ASSUME TsgReset
      PROVE  LiveGuarded'
  BY <1>25, <1>a, TypeFacts, <1>c DEF TsgReset, posVars, restVars, LiveGuarded, Guarded, Watched,
    Quiet
<1>26. ASSUME NEW j \in Job, JobAges(j)
      PROVE  LiveGuarded'
  BY <1>26, <1>a, TypeFacts, <1>c DEF JobAges, posVars, restVars, LiveGuarded, Guarded, Watched,
    Quiet
<1>27. ASSUME NEW o \in Order, Fill(o)
      PROVE  LiveGuarded'
  <2>1. /\ \A p \in Order \ {o} : order'[p] = order[p]
        /\ ~order'[o].live /\ order'[o].job = order[o].job
        /\ UNCHANGED <<lock, queue, job, ex, call>>
    BY <1>27, <1>a, FillCalm DEF OrderMoves, posVars, restVars
  <2>2. order[o].live
    BY <1>27, <1>a, FillCalm
  <2> QED
    BY <1>a, <1>c, <2>1, <2>2 DEF LiveGuarded, Guarded, Watched, Quiet
<1>28. ASSUME NEW o \in Order, ExchangeCancels(o)
      PROVE  LiveGuarded'
  BY <1>28, <1>a, TypeFacts, ExchangeCancelsCalm, <1>c DEF OrdersFade, posVars, restVars,
    LiveGuarded, Guarded, Watched, Quiet
<1>29. ASSUME HandSale
      PROVE  LiveGuarded'
  BY <1>29, <1>a, TypeFacts, <1>c DEF HandSale, posVars, restVars, AllButTsg, LiveGuarded, Guarded,
    Watched, Quiet
<1>30. ASSUME LockExpires
      PROVE  LiveGuarded'
  BY <1>30, <1>a, TypeFacts, <1>c, CalmEnabled DEF LockExpires, posVars, restVars, LiveGuarded,
    Guarded, Watched, Quiet, CalmHyp
<1>31. CASE UNCHANGED vars
  BY <1>31, <1>a, <1>c DEF vars, posVars, LiveGuarded, Guarded, Watched, Quiet
<1> QED
  BY <1>a, CalmRulesOut, <1>1, <1>2, <1>3, <1>4, <1>5, <1>6, <1>7, <1>8, <1>9, <1>10, <1>11,
    <1>12, <1>13, <1>14, <1>15, <1>16, <1>17, <1>18, <1>19, <1>20, <1>21, <1>22, <1>23,
    <1>24, <1>25, <1>26, <1>27, <1>28, <1>29, <1>30, <1>31 DEF Next, Executor, Continue

\* Every step keeps that a job that sold is not CANCELED.
LEMMA SoldNotCanceledStep == CalmHyp /\ [Next]_vars => SoldNotCanceled'
<1> SUFFICES ASSUME CalmHyp, [Next]_vars PROVE SoldNotCanceled'
  OBVIOUS
<1>a. CalmHyp /\ CalmHyp /\ TypeInv /\ DeliveryInv /\ CalmInv /\ TypeOK /\ Qty \in Nat
  BY SellOrdersAssumption DEF CalmHyp, TypeInv
<1>b. /\ "CRASH" \notin Enabled /\ "TIMEOUT" \notin Enabled /\ "EXPIRY" \notin Enabled /\ "CANCEL_API" \notin Enabled
      /\ \A c \in Caller : call[c].phase \notin {"cancel", "cancelWrite"}
  BY <1>a, CalmEnabled DEF CalmHyp, CalmInv, CallOrder
<1>c. \A p \in Order : /\ order[p].live => Filled(p) = 0 /\ Guarded(order[p].job)
                       /\ Filled(p) > 0 => order[p].job \in Job
  BY <1>a, OrdersHaveJobs, TypeFacts DEF CalmInv, LiveGuarded
<1>1. ASSUME NEW j \in Job, Take(j)
     PROVE  SoldNotCanceled'
  BY <1>1, <1>a, TypeFacts, <1>c DEF Take, posVars, restVars, CalmInv, SoldNotCanceled, Filled
<1>2. ASSUME Mark
     PROVE  SoldNotCanceled'
  BY <1>2, <1>a, TypeFacts, MarkEffect, NotPlacedYet, <1>c DEF JobWritten, ExGoes, posVars,
    restVars, CalmInv, SoldNotCanceled, Filled
<1>3. ASSUME CheckFails
     PROVE  SoldNotCanceled'
  BY <1>3, <1>a, TypeFacts, CheckFailsEffect, NotPlacedYet, <1>c DEF JobWritten, posVars,
    restVars, CalmInv, SoldNotCanceled, Filled
<1>4. ASSUME CheckPasses
     PROVE  SoldNotCanceled'
  BY <1>4, <1>a, TypeFacts, CheckPassesEffect, NotPlacedYet, <1>c DEF ExGoes, posVars, restVars,
    CalmInv, SoldNotCanceled, Filled
<1>5. ASSUME AcquireLock
     PROVE  SoldNotCanceled'
  BY <1>5, <1>a, TypeFacts, AcquireEffect, NotPlacedYet, NothingLive, <1>c DEF ExGoes, posVars,
    restVars, CalmInv, SoldNotCanceled, Filled
<1>6. ASSUME LockRefused
     PROVE  SoldNotCanceled'
  BY <1>6, <1>a, TypeFacts, LockRefusedEffect, NotPlacedYet, <1>c DEF JobWritten, posVars,
    restVars, CalmInv, SoldNotCanceled, Filled
<1>7. ASSUME NEW o \in Order, Submit(o)
     PROVE  SoldNotCanceled'
  BY <1>7, <1>a, TypeFacts, SubmitCalm, <1>c DEF posVars, restVars, CalmInv, SoldNotCanceled,
    Filled
<1>8. ASSUME SubmitRefused
     PROVE  SoldNotCanceled'
  BY <1>8, <1>a, TypeFacts, SubmitRefusedEffect, NotPlacedYet, <1>c DEF JobWritten, posVars,
    restVars, CalmInv, SoldNotCanceled, Filled
<1>9. ASSUME Record
     PROVE  SoldNotCanceled'
  BY <1>9, <1>a, TypeFacts, RecordedEffect, PlacedOrder, <1>c DEF ExGoes, OrderPhase, posVars,
    restVars, CalmInv, SoldNotCanceled, Filled
<1>10. ASSUME Rest
      PROVE  SoldNotCanceled'
  BY <1>10, <1>a, TypeFacts, RestEffect, PlacedOrder, <1>c DEF JobWritten, OrderPhase, posVars,
    restVars, CalmInv, SoldNotCanceled, Filled
<1>11. ASSUME BookExecution
      PROVE  SoldNotCanceled'
  BY <1>11, <1>a, TypeFacts, BookExecutionEffect, PlacedOrder, <1>c DEF Booked, ExGoes, OrderPhase,
    posVars, restVars, CalmInv, SoldNotCanceled, Filled
<1>12. ASSUME Complete
      PROVE  SoldNotCanceled'
  BY <1>12, <1>a, TypeFacts, CompleteCalm, PlacedOrder, <1>c DEF JobWritten, OrderPhase, posVars,
    restVars, CalmInv, SoldNotCanceled, Filled
<1>13. ASSUME NEW c \in Caller, NEW q \in 1..Qty, NEW ty \in OrderType, CloseRequest(c, q, ty)
      PROVE  SoldNotCanceled'
  BY <1>13, <1>a, TypeFacts, CloseRequestEffect, <1>c DEF CallBecomes, posVars, restVars, CalmInv,
    SoldNotCanceled, Filled
<1>14. ASSUME NEW c \in Caller, NEW t \in Trigger, TriggerCheck(c, t)
      PROVE  SoldNotCanceled'
  BY <1>14, <1>a, TypeFacts, TriggerCheckEffect, <1>c DEF CallBecomes, posVars, restVars, CalmInv,
    SoldNotCanceled, Filled
<1>15. ASSUME NEW c \in Caller, NEW j \in Job, LimitRead(c, j)
      PROVE  SoldNotCanceled'
  BY <1>15, <1>a, TypeFacts, LimitReadEffect, <1>c DEF CallBecomes, posVars, restVars, CalmInv,
    SoldNotCanceled, Filled
<1>16. ASSUME NEW c \in Caller, TriggerFlag(c)
      PROVE  SoldNotCanceled'
  BY <1>16, <1>a, TypeFacts, TriggerFlagEffect, <1>c DEF CallMoves, CallBecomes, posVars, restVars,
    CalmInv, SoldNotCanceled, Filled
<1>17. ASSUME NEW c \in Caller, TriggerConfirm(c)
      PROVE  SoldNotCanceled'
  BY <1>17, <1>a, TypeFacts, TriggerConfirmEffect, <1>c DEF CallMoves, CallBecomes, posVars,
    restVars, CalmInv, SoldNotCanceled, Filled
<1>18. ASSUME NEW c \in Caller, NEW j \in Job, CreateJob(c, j)
      PROVE  SoldNotCanceled'
  BY <1>18, <1>a, TypeFacts, CreateJobEffect, <1>c DEF posVars, restVars, CalmInv, SoldNotCanceled,
    Filled
<1>19. ASSUME NEW c \in Caller, Enqueue(c)
      PROVE  SoldNotCanceled'
  BY <1>19, <1>a, TypeFacts, EnqueueEffect, <1>c DEF CallBecomes, posVars, restVars, CalmInv,
    SoldNotCanceled, Filled
<1>20. ASSUME NEW c \in Caller, LimitClosed(c)
      PROVE  SoldNotCanceled'
  BY <1>20, <1>a, TypeFacts, LimitClosedCalm, CallsKnow, <1>c DEF JobWritten, CallBecomes,
    OrdersFade, posVars, restVars, CalmInv, SoldNotCanceled, Filled
<1>21. ASSUME NEW c \in Caller, LimitFilled(c)
      PROVE  SoldNotCanceled'
  BY <1>21, <1>a, TypeFacts, LimitFilledEffect, LimitFilledCalm, CallsKnow, <1>c DEF Booked,
    CallMoves, posVars, restVars, CalmInv, SoldNotCanceled, Filled
<1>22. ASSUME NEW c \in Caller, LimitCompletes(c)
      PROVE  SoldNotCanceled'
  BY <1>22, <1>a, TypeFacts, LimitCompletesEffect, LimitFilledCalm, CallsKnow, <1>c DEF JobWritten,
    CallBecomes, posVars, restVars, CalmInv, SoldNotCanceled, Filled
<1>23. ASSUME NEW c \in Caller, LimitWaits(c)
      PROVE  SoldNotCanceled'
  BY <1>23, <1>a, TypeFacts, LimitWaitsEffect, <1>c DEF CallBecomes, posVars, restVars, CalmInv,
    SoldNotCanceled, Filled
<1>24. ASSUME NEW c \in Caller, CallFails(c)
      PROVE  SoldNotCanceled'
  BY <1>24, <1>a, TypeFacts, CallEndsEffect, <1>c DEF CallBecomes, posVars, restVars, CalmInv,
    SoldNotCanceled, Filled
<1>25. ASSUME TsgReset
      PROVE  SoldNotCanceled'
  BY <1>25, <1>a, TypeFacts, <1>c DEF TsgReset, posVars, restVars, CalmInv, SoldNotCanceled, Filled
<1>26. ASSUME NEW j \in Job, JobAges(j)
      PROVE  SoldNotCanceled'
  BY <1>26, <1>a, TypeFacts, <1>c DEF JobAges, posVars, restVars, CalmInv, SoldNotCanceled, Filled
<1>27. ASSUME NEW o \in Order, Fill(o)
      PROVE  SoldNotCanceled'
  <2>1. /\ \A p \in Order \ {o} : order'[p] = order[p]
        /\ ~order'[o].live /\ order'[o].job = order[o].job
        /\ UNCHANGED <<lock, queue, job, ex, call>>
    BY <1>27, <1>a, FillCalm DEF OrderMoves, posVars, restVars
  <2>2. order[o].live
    BY <1>27, <1>a, FillCalm
  <2> QED
    BY <1>a, <1>c, <2>1, <2>2 DEF CalmInv, SoldNotCanceled, Filled, Guarded, Watched
<1>28. ASSUME NEW o \in Order, ExchangeCancels(o)
      PROVE  SoldNotCanceled'
  BY <1>28, <1>a, TypeFacts, ExchangeCancelsCalm, <1>c DEF OrdersFade, posVars, restVars, CalmInv,
    SoldNotCanceled, Filled
<1>29. ASSUME HandSale
      PROVE  SoldNotCanceled'
  BY <1>29, <1>a, TypeFacts, <1>c DEF HandSale, posVars, restVars, AllButTsg, CalmInv,
    SoldNotCanceled, Filled
<1>30. ASSUME LockExpires
      PROVE  SoldNotCanceled'
  BY <1>30, <1>a, TypeFacts, <1>c DEF LockExpires, posVars, restVars, CalmInv, SoldNotCanceled,
    Filled
<1>31. CASE UNCHANGED vars
  BY <1>31, <1>a, <1>c DEF vars, posVars, CalmInv, SoldNotCanceled, Filled
<1> QED
  BY <1>a, CalmRulesOut, <1>1, <1>2, <1>3, <1>4, <1>5, <1>6, <1>7, <1>8, <1>9, <1>10, <1>11,
    <1>12, <1>13, <1>14, <1>15, <1>16, <1>17, <1>18, <1>19, <1>20, <1>21, <1>22, <1>23,
    <1>24, <1>25, <1>26, <1>27, <1>28, <1>29, <1>30, <1>31 DEF Next, Executor, Continue

\* Initially the parts of CalmInv hold.
LEMMA CalmInit == Calm /\ Init => CalmInv
  BY SellOrdersAssumption DEF Init, NoJob, NoOrder, ExIdle, NoCall, CalmInv, WholeOrders, OrderedOnce,
    ExOrder, JobOrder, CallOrder, Amounts, OneLiveOrder, LiveGuarded, SoldNotCanceled, Filled,
    OrderPhase, LimitPhase

\* Every step of a calm run keeps CalmInv.
LEMMA CalmStep == CalmHyp /\ [Next]_vars => CalmInv'
  BY WholeOrdersStep, OrderedOnceStep, ExOrderStep, JobOrderStep, CallOrderStep, AmountsStep,
    OneLiveStep, LiveGuardedStep, SoldNotCanceledStep DEF CalmInv

\* CalmHyp holds in every reachable state of a calm run.
LEMMA SpecCalm == ASSUME Calm PROVE Spec => []CalmHyp
<1>1. Init => CalmHyp
  BY TypeInit, DeliveryInit, CalmInit DEF CalmHyp
<1>2. CalmHyp /\ [Next]_vars => CalmHyp'
  <2> SUFFICES ASSUME CalmHyp, [Next]_vars PROVE CalmHyp'
    OBVIOUS
  <2>1. TypeInv' /\ DeliveryInv' /\ CalmInv'
    BY TypeStep, DeliveryStep, CalmStep DEF CalmHyp
  <2> QED
    BY <2>1 DEF CalmHyp, Calm
<1> QED
  BY <1>1, <1>2, PTL DEF Spec

\* The sell lock keeps its promise when the executor and its queue keep up,
\* nothing is lost and every answer to a new order tells its status: at most
\* one order of the position is open on the exchange, whoever creates jobs and
\* however they interleave.  For an answer without a status the executor gives
\* the lock up with the order open, so the premise cannot be dropped.
THEOREM OneOrderIsLive == ASSUME Calm PROVE Spec => []OneLiveOrder
<1>1. CalmHyp => OneLiveOrder
  BY DEF CalmHyp, CalmInv
<1> QED
  BY <1>1, SpecCalm, PTL

\* An open order belongs to a job that is still looked at, under the same
\* premises: an order of which the answer tells nothing is watched by nobody.
THEOREM LiveOrderIsWatched == ASSUME Calm PROVE Spec => []LiveIsWatched
<1>1. CalmHyp => LiveIsWatched
  BY DEF CalmHyp, CalmInv, LiveGuarded, Guarded, Watched, LiveIsWatched
<1> QED
  BY <1>1, SpecCalm, PTL

\* A job is CANCELED only when its order is off the exchange.
THEOREM CanceledIsOffExchange == ASSUME Calm PROVE Spec => []CanceledIsOff
<1>1. CalmHyp => CanceledIsOff
  BY DEF CalmHyp, CalmInv, LiveGuarded, Guarded, Watched, CanceledIsOff, Canceled
<1> QED
  BY <1>1, SpecCalm, PTL

\* A CANCELED job sold nothing: what the exchange executed meanwhile is found
\* before the job is written off.
THEOREM CanceledSoldNothing == ASSUME Calm PROVE Spec => []CanceledIsUnsold
<1>1. CalmHyp => CanceledIsUnsold
  BY DEF CalmHyp, CalmInv, SoldNotCanceled, Filled, CanceledIsUnsold, Canceled
<1> QED
  BY <1>1, SpecCalm, PTL

(***************************************************************************)
(* What is executed and not booked                                         *)
(***************************************************************************)
StockHyp == Accounted /\ CalmHyp /\ BookedInv /\ StockInv

\* The features an accounted run is free of.
LEMMA AccountedEnabled ==
  ASSUME Accounted
  PROVE  "HAND_SALE" \notin Enabled /\ "BOOK_FAILS" \notin Enabled /\ "OVERLAP" \notin Enabled /\ Calm
  BY DEF Accounted

DueSum ==
  /\ Settled = SumFunctionOnSet([o \in Order |-> Due(o)], Order)
  /\ \A o \in Order : Due(o) \in Nat
  /\ Settled \in Nat

\* Settled is a sum of naturals over the orders.
LEMMA SettledIsSum == TypeOK => DueSum
<1> SUFFICES ASSUME TypeOK PROVE DueSum
  OBVIOUS
<1> DEFINE f == [o \in Order |-> Due(o)]
<1>1. \A o \in Order : Due(o) \in Nat
  BY DEF Due, Filled, TypeOK, OrderRow
<1>2. DOMAIN f = Order /\ Settled = SumFunction(f) /\ \A o \in Order : f[o] \in Nat
  BY <1>1 DEF Settled
<1> HIDE DEF f
<1>3. Settled = SumFunctionOnSet(f, Order)
  BY <1>2 DEF SumFunction
<1>4. SumFunctionOnSet(f, Order) \in Nat
  BY <1>2, SellOrdersAssumption, SumNat
<1> QED
  BY <1>1, <1>3, <1>4 DEF DueSum, f

\* Settled is the same when it is the same for each order.
LEMMA SettledSame ==
  ASSUME TypeOK, TypeOK', \A o \in Order : Due(o)' = Due(o)
  PROVE  Settled \in Nat /\ Settled' = Settled
<1> DEFINE f == [o \in Order |-> Due(o)]
           g == [o \in Order |-> Due(o)']
<1>1. Settled = SumFunctionOnSet(f, Order) /\ Settled \in Nat
  BY SettledIsSum DEF DueSum
<1>2. Settled' = SumFunctionOnSet(g, Order)
  <2>1. DueSum'
    BY SettledIsSum, PTL
  <2> QED
    BY <2>1 DEF DueSum
<1>3. \A o \in Order : f[o] = g[o]
  OBVIOUS
<1> HIDE DEF f, g
<1> QED
  BY <1>1, <1>2, <1>3, SellOrdersAssumption, SumAgrees

\* Settled changes by as much as the one order that changes.
LEMMA SettledChanges ==
  ASSUME TypeOK, TypeOK', NEW e \in Order, \A o \in Order \ {e} : Due(o)' = Due(o)
  PROVE  /\ Settled \in Nat /\ Settled' \in Nat /\ Due(e) \in Nat /\ Due(e)' \in Nat
         /\ Settled' = Settled - Due(e) + Due(e)'
<1> DEFINE f == [o \in Order |-> Due(o)]
           g == [o \in Order |-> Due(o)']
<1>1. Settled = SumFunctionOnSet(f, Order) /\ Settled \in Nat /\ \A o \in Order : Due(o) \in Nat
  BY SettledIsSum DEF DueSum
<1>2. Settled' = SumFunctionOnSet(g, Order) /\ Settled' \in Nat /\ \A o \in Order : Due(o)' \in Nat
  <2>1. DueSum'
    BY SettledIsSum, PTL
  <2> QED
    BY <2>1 DEF DueSum
<1>3. /\ \A o \in Order : f[o] \in Int /\ g[o] \in Int
      /\ \A o \in Order \ {e} : f[o] = g[o]
      /\ f[e] = Due(e) /\ g[e] = Due(e)'
  BY <1>1, <1>2
<1> HIDE DEF f, g
<1>4. SumFunctionOnSet(g, Order) = SumFunctionOnSet(f, Order) - f[e] + g[e]
  BY <1>3, SellOrdersAssumption, SumChange
<1> QED
  BY <1>1, <1>2, <1>3, <1>4

\* What is executed in all is at most what is booked and the one order that
\* is not.
LEMMA AllIsSettled ==
  ASSUME StockHyp
  PROVE  NotOversold
<1> DEFINE f == [o \in Order |-> Due(o)]
           g == [o \in Order |-> order[o].filled]
<1>1. TypeOK /\ StockInv /\ Qty \in Nat
  BY SellOrdersAssumption DEF StockHyp, CalmHyp, TypeInv
<1>2. Settled = SumFunctionOnSet(f, Order) /\ Settled \in Nat /\ \A o \in Order : f[o] \in Nat
  BY <1>1, SettledIsSum DEF DueSum
<1>3. \A o \in Order : g[o] \in Nat
  BY <1>1 DEF TypeOK, OrderRow
<1>4. NotOversold <=> SumFunctionOnSet(g, Order) + byHand <= Qty
  <2>1. DOMAIN g = Order
    OBVIOUS
  <2>2. NotOversold <=> SumFunction(g) + byHand <= Qty
    BY DEF NotOversold
  <2> HIDE DEF g
  <2> QED
    BY <2>1, <2>2 DEF SumFunction
<1>5. qty \in Nat /\ byHand \in Nat /\ Settled + byHand + qty <= Qty
  BY <1>1 DEF TypeOK, StockInv, StockKept
<1>6. CASE \A o \in Order : ~Unsettled(o)
  <2>1. \A o \in Order : f[o] = g[o]
    BY <1>6 DEF Due, Filled
  <2> HIDE DEF f, g
  <2>2. SumFunctionOnSet(f, Order) = SumFunctionOnSet(g, Order)
    BY <2>1, SellOrdersAssumption, SumAgrees
  <2> QED
    BY <1>1, <1>2, <1>4, <1>5, <2>2
<1>7. ASSUME NEW e \in Order, Unsettled(e)
      PROVE  NotOversold
  <2>1. \A o \in Order \ {e} : f[o] = g[o]
    BY <1>1, <1>7 DEF StockInv, OneUnsettled, Due, Filled
  <2>2. f[e] = 0 /\ g[e] = Filled(e) /\ Filled(e) <= qty
    <3>1. Filled(e) \in {0, order[e].qty} /\ order[e].qty \in Nat
      BY OrdersHaveJobs DEF StockHyp
    <3>2. order[e].qty <= qty
      BY <1>1, <1>7 DEF StockInv, UnsettledFits
    <3> QED
      BY <1>5, <1>7, <3>1, <3>2 DEF Due, Filled
  <2> HIDE DEF f, g
  <2>3. SumFunctionOnSet(g, Order) = SumFunctionOnSet(f, Order) - f[e] + g[e]
    <3>1. \A o \in Order : f[o] \in Int /\ g[o] \in Int
      BY <1>2, <1>3
    <3> QED
      BY <2>1, <3>1, SellOrdersAssumption, SumChange
  <2>4. Filled(e) \in Nat
    BY <1>3, <2>2
  <2> QED
    BY <1>1, <1>2, <1>4, <1>5, <2>2, <2>3, <2>4
<1> QED
  BY <1>6, <1>7

\* An unsettled order is waited for.
LEMMA UnsettledFacts ==
  ASSUME StockHyp, NEW o \in Order, Unsettled(o)
  PROVE  /\ order[o].job \in Job /\ order[o].job # None
         /\ order[o].qty \in Nat /\ order[o].qty > 0 /\ order[o].qty <= qty /\ qty > 0
         /\ job[order[o].job].booked = 0
         /\ job[order[o].job].status \in {"PENDING_LIMIT", "EXECUTING"}
         /\ ActiveJob
         /\ ~Quiet => lock = order[o].job
         /\ \A p \in Order : Unsettled(p) => p = o
<1>1. CalmHyp /\ StockInv /\ TypeOK
  BY DEF StockHyp, CalmHyp, TypeInv
<1>2. order[o].job \in Job /\ order[o].job # None /\ order[o].qty \in Nat /\ order[o].qty > 0
  BY <1>1, OrdersHaveJobs DEF Unsettled
<1>3. order[o].qty <= qty /\ Guarded(order[o].job)
  BY <1>1 DEF StockInv, UnsettledFits
<1>4. qty \in Nat
  BY <1>1, SellOrdersAssumption DEF TypeOK
<1>5. qty > 0
  BY <1>2, <1>3, <1>4
<1>6. job[order[o].job].booked = 0
  BY <1>1 DEF Unsettled, StockInv, LiveUnbooked
<1>7. ActiveJob
  BY <1>2, <1>3 DEF Guarded, Watched, ActiveJob, ActiveStatus
<1>8. \A p \in Order : Unsettled(p) => p = o
  BY <1>1 DEF StockInv, OneUnsettled
<1> QED
  BY <1>2, <1>3, <1>5, <1>6, <1>7, <1>8 DEF Guarded, Watched

\* When the executor may place an order nothing is unsettled.
LEMMA AllSettled ==
  ASSUME StockHyp, ex.phase = "locked" \/ (ex.phase = "valid" /\ lock \in {None, ex.job})
  PROVE  \A p \in Order : ~Unsettled(p)
<1>1. \A p \in Order : order[p].job # ex.job
  BY NotPlacedYet DEF StockHyp
<1>2. ~Quiet
  BY DEF Quiet
<1>3. lock \in {None, ex.job}
  BY DEF StockHyp, CalmHyp, CalmInv, ExOrder
<1> QED
  BY <1>1, <1>2, <1>3, UnsettledFacts

\* The order o of j is booked in full.
BookedInFull(j, o) ==
  /\ j \in Job /\ j # None /\ o \in Order
  /\ order[o].job = j /\ Unsettled(o)
  /\ \A p \in Order : order[p].job = j => p = o
  /\ ~order[o].live
  /\ Filled(o) \in Nat /\ Filled(o) > 0 /\ Filled(o) = order[o].qty /\ Filled(o) <= qty
  /\ job' \in [Job -> JobRow]
  /\ \A k \in Job \ {j} : job'[k] = job[k]
  /\ job'[j].status = "FILLED" /\ job'[j].booked > 0
  /\ job'[j].qty = job[j].qty /\ job'[j].order = job[j].order
  /\ qty' = qty - Filled(o)

\* An unsettled order is booked in full.
LEMMA FullBooking ==
  ASSUME StockHyp, NEW j \in Job, NEW o \in Order, order[o].job = j, job[j].booked = 0,
         \A p \in Order : order[p].job = j => p = o,
         ~order[o].live, Filled(o) > 0, Filled(o) = order[o].qty,
         Booked(j, Filled(o))
  PROVE  BookedInFull(j, o)
<1>1. Unsettled(o)
  BY SellOrdersAssumption DEF Unsettled
<1>2. order[o].qty <= qty /\ j # None
  BY <1>1, UnsettledFacts
<1>3. Filled(o) \in Nat
  BY OrdersHaveJobs DEF StockHyp
<1>4. Filled(o) <= qty /\ Sold(Filled(o)) = Filled(o)
  BY <1>2 DEF Booked
<1>5. job'[j].booked = 0 + Filled(o)
  BY <1>4 DEF Booked
<1>6. job'[j].booked > 0
  BY <1>3, <1>5
<1> QED
  BY <1>1, <1>2, <1>3, <1>4, <1>6 DEF Booked, BookedInFull

\* The executor books its order in full, once.
LEMMA BookExecutionStock ==
  ASSUME StockHyp, BookExecution
  PROVE  /\ ex.phase = "recorded" /\ ex.got > 0
         /\ BookedInFull(ex.job, ex.order)
         /\ ExGoes("booked")
         /\ UNCHANGED <<lock, restVars, order, call>>
<1>1. CalmHyp /\ TypeInv /\ StockInv /\ TypeOK /\ Qty \in Nat /\ "BOOK_FAILS" \notin Enabled
  BY AccountedEnabled, SellOrdersAssumption DEF StockHyp, CalmHyp, TypeInv
<1>2. ex.phase = "recorded" /\ ex.phase \in OrderPhase /\ ex.got > 0
  BY <1>1, BookExecutionEffect DEF OrderPhase
<1>3. /\ ex.job \in Job /\ ex.order \in Order /\ order[ex.order].job = ex.job /\ ex.job # None
      /\ \A p \in Order : order[p].job = ex.job => p = ex.order
      /\ ~order[ex.order].live
  BY <1>1, <1>2, PlacedOrder, TypeFacts
<1>4. Filled(ex.order) = order[ex.order].qty /\ ex.got = Filled(ex.order)
  BY <1>1, <1>2 DEF CalmHyp, CalmInv, ExOrder
<1>5. job[ex.job].booked = 0
  BY <1>1, <1>2, <1>3 DEF StockInv, Unbooked, Undelivered
<1>6. Unsettled(ex.order)
  BY <1>2, <1>3, <1>4, <1>5 DEF Unsettled
<1>7. 0 < qty /\ ex.got <= qty
  BY <1>3, <1>4, <1>6, UnsettledFacts
<1>8. PICK q \in 0..ex.got : Booked(ex.job, q) /\ q = ex.got
  BY <1>1, <1>7, BookExecutionEffect
<1>9. BookedInFull(ex.job, ex.order)
  <2>1. Booked(ex.job, Filled(ex.order)) /\ Filled(ex.order) > 0
    BY <1>2, <1>4, <1>8
  <2> QED
    BY <1>3, <1>4, <1>5, <2>1, FullBooking
<1> QED
  BY <1>1, <1>2, <1>9, BookExecutionEffect

\* The limit-orders monitor books the order in full, once.
LEMMA LimitFilledStock ==
  ASSUME StockHyp, NEW c \in Caller, LimitFilled(c)
  PROVE  /\ call[c].phase = "limit"
         /\ BookedInFull(call[c].job, call[c].order)
         /\ call[c].job # ex.job /\ ~Undelivered(call[c].job)
         /\ CallMoves(c, "limitFilled")
         /\ UNCHANGED <<lock, restVars, order, ex>>
<1>1. CalmHyp /\ TypeInv /\ StockInv /\ DeliveryInv
  BY DEF StockHyp, CalmHyp
<1>2. call[c].phase = "limit" /\ call[c].phase \in LimitPhase
  BY <1>1, LimitFilledEffect DEF LimitPhase
<1>3. /\ call[c].job \in Job /\ call[c].order \in Order /\ call[c].order # None
      /\ order[call[c].order].job = call[c].job
      /\ \A p \in Order : order[p].job = call[c].job => p = call[c].order
      /\ call[c].job # ex.job
  BY <1>1, <1>2, CallsKnow, TypeFacts
<1>4. /\ Filled(call[c].order) = order[call[c].order].qty /\ Filled(call[c].order) > 0
      /\ ~order[call[c].order].live
  BY <1>1, LimitFilledCalm
<1>5. job[call[c].job].booked = 0
  BY <1>1, <1>2 DEF StockInv, Unbooked
<1>6. Booked(call[c].job, Filled(call[c].order))
  BY <1>1, LimitFilledEffect DEF Filled
<1>7. BookedInFull(call[c].job, call[c].order)
  BY <1>3, <1>4, <1>5, <1>6, FullBooking
<1>8. ~Undelivered(call[c].job)
  BY <1>1, <1>2, <1>3 DEF DeliveryInv, RestsDelivered
<1> QED
  BY <1>1, <1>2, <1>3, <1>7, <1>8, LimitFilledEffect

\* A booking settles its order, and nothing else was unsettled.
LEMMA BookingSettles ==
  ASSUME StockHyp, TypeOK', NEW j, NEW o, BookedInFull(j, o), UNCHANGED <<order, byHand>>
  PROVE  /\ \A p \in Order : ~Unsettled(p)'
         /\ StockKept'
<1>1. TypeOK /\ StockInv /\ Qty \in Nat
  BY SellOrdersAssumption DEF StockHyp, CalmHyp, TypeInv
<1>2. /\ j \in Job /\ j # None /\ o \in Order /\ order[o].job = j /\ Unsettled(o)
      /\ \A p \in Order : order[p].job = j => p = o
      /\ ~order[o].live /\ Filled(o) \in Nat /\ Filled(o) <= qty /\ qty' = qty - Filled(o)
      /\ \A k \in Job \ {j} : job'[k] = job[k]
      /\ job'[j].booked > 0
  BY DEF BookedInFull
<1>3. \A p \in Order : Unsettled(p) => p = o
  BY <1>2, UnsettledFacts
<1>4. \A p \in Order : order[p].job # None => order[p].job \in Job
  BY OrdersHaveJobs DEF StockHyp
<1>5. job'[j].booked \in Nat
  BY <1>2 DEF TypeOK, JobRow
<1>6. \A p \in Order : ~Unsettled(p)'
  <2> TAKE p \in Order
  <2>1. CASE p = o
    BY <1>2, <1>5, <2>1 DEF Unsettled
  <2>2. CASE p # o
    BY <1>2, <1>3, <1>4, <2>2 DEF Unsettled, Filled
  <2> QED
    BY <2>1, <2>2
<1>7. \A p \in Order \ {o} : Due(p)' = Due(p)
  BY <1>3, <1>6 DEF Due, Filled
<1>8. Due(o) = 0 /\ Due(o)' = Filled(o)
  BY <1>2, <1>6 DEF Due, Filled
<1>9. Settled \in Nat /\ Settled' = Settled - 0 + Filled(o)
  BY <1>1, <1>2, <1>7, <1>8, SettledChanges
<1>10. qty \in Nat /\ byHand \in Nat /\ Settled + byHand + qty <= Qty
  BY <1>1 DEF TypeOK, StockInv, StockKept
<1>11. Settled' + byHand' + qty' <= Qty
  BY <1>1, <1>2, <1>9, <1>10
<1> QED
  BY <1>6, <1>11 DEF StockKept

\* Taking an unfilled order off the exchange settles it.
LEMMA FadesStock ==
  ASSUME StockHyp, TypeOK', OrdersFade, UNCHANGED <<qty, byHand>>,
         \A k \in Job : job'[k].booked = job[k].booked
  PROVE  /\ \A p \in Order : Unsettled(p)' => Unsettled(p)
         /\ StockKept'
<1>1. TypeOK /\ StockInv /\ CalmHyp
  BY DEF StockHyp, CalmHyp, TypeInv
<1>2. \A p \in Order : order[p].job # None => order[p].job \in Job
  BY <1>1, OrdersHaveJobs
<1>3. \A p \in Order : /\ order'[p].job = order[p].job /\ order'[p].filled = order[p].filled
                       /\ order'[p].live => order[p].live
  BY DEF OrdersFade
<1>4. \A p \in Order : Unsettled(p)' => Unsettled(p)
  BY <1>2, <1>3 DEF Unsettled, Filled
<1>5. ASSUME NEW p \in Order PROVE Due(p)' = Due(p)
  <2>1. CASE Unsettled(p) /\ ~Unsettled(p)'
    <3>1. order[p].live /\ ~(Filled(p) > 0 /\ job[order[p].job].booked = 0)
      BY <1>2, <1>3, <2>1 DEF Unsettled, Filled
    <3>2. Filled(p) = 0
      BY <1>1, <3>1, OrdersHaveJobs
    <3> QED
      BY <1>3, <2>1, <3>2 DEF Due, Filled
  <2>2. CASE ~(Unsettled(p) /\ ~Unsettled(p)')
    BY <1>3, <1>4, <2>2 DEF Due, Filled
  <2> QED
    BY <2>1, <2>2
<1>6. Settled' = Settled
  BY <1>1, <1>5, SettledSame
<1> QED
  BY <1>1, <1>4, <1>6 DEF StockInv, StockKept

\* An order that is filled was unsettled, and leaves the others so.
LEMMA FillStock ==
  ASSUME StockHyp, TypeOK', NEW o \in Order, Fill(o)
  PROVE  /\ Unsettled(o)
         /\ \A p \in Order : Unsettled(p)' => Unsettled(p)
         /\ StockKept'
<1>1. TypeOK /\ StockInv /\ CalmHyp
  BY DEF StockHyp, CalmHyp, TypeInv
<1>2. /\ order[o].live /\ Filled(o) = 0 /\ order[o].qty > 0
      /\ OrderMoves(o, order[o].qty, FALSE)
      /\ UNCHANGED <<qty, byHand, job>>
  BY <1>1, FillCalm DEF posVars, restVars
<1>3. /\ \A p \in Order \ {o} : order'[p] = order[p]
      /\ order'[o].job = order[o].job /\ order'[o].filled = order[o].qty
  BY <1>2 DEF OrderMoves
<1>4. Unsettled(o) /\ job[order[o].job].booked = 0 /\ order[o].job # None
  BY <1>1, <1>2, OrdersHaveJobs DEF Unsettled, StockInv, LiveUnbooked
<1>5. Unsettled(o)'
  BY <1>2, <1>3, <1>4 DEF Unsettled, Filled
<1>6. \A p \in Order \ {o} : Unsettled(p)' = Unsettled(p) /\ Due(p)' = Due(p)
  BY <1>2, <1>3 DEF Unsettled, Due, Filled
<1>7. \A p \in Order : Due(p)' = Due(p)
  BY <1>4, <1>5, <1>6 DEF Due
<1>8. Settled' = Settled
  BY <1>1, <1>7, SettledSame
<1>9. StockKept'
  BY <1>1, <1>2, <1>8 DEF StockInv, StockKept
<1> QED
  BY <1>4, <1>6, <1>9

\* The order the executor places is the only unsettled one, and fits.
LEMMA SubmitStock ==
  ASSUME StockHyp, TypeOK', NEW o \in Order, Submit(o)
  PROVE  /\ \A p \in Order : Unsettled(p)' => p = o
         /\ job[ex.job].booked = 0
         /\ order'[o].qty <= qty
         /\ StockKept'
<1>1. TypeOK /\ StockInv /\ CalmHyp
  BY DEF StockHyp, CalmHyp, TypeInv
<1>2. /\ ex.phase = "locked" /\ ex.job \in Job /\ order[o].job = None
      /\ \A p \in Order \ {o} : order'[p] = order[p]
      /\ order'[o].job = ex.job /\ order'[o].filled \in {0, order'[o].qty}
      /\ order'[o].live => order'[o].filled = 0
      /\ order'[o].qty \in Nat /\ order'[o].qty <= job[ex.job].qty
      /\ UNCHANGED <<qty, byHand, job>> /\ ex.job # None
  BY <1>1, SubmitCalm DEF posVars, restVars
<1>3. \A p \in Order : ~Unsettled(p)
  BY <1>2, AllSettled
<1>4. \A p \in Order \ {o} : ~Unsettled(p)' /\ Due(p)' = Due(p)
  BY <1>2, <1>3 DEF Unsettled, Due, Filled
<1>5. job[ex.job].booked = 0
  BY <1>1, <1>2 DEF StockInv, Unbooked, Undelivered
<1>6. Due(o) = 0
  BY <1>1, <1>2, <1>3, OrdersHaveJobs DEF Due, CalmHyp, CalmInv, WholeOrders
<1>7. Due(o)' = 0
  <2>1. CASE order'[o].filled = 0
    BY <2>1 DEF Due, Filled
  <2>2. CASE order'[o].filled > 0
    BY <1>2, <1>5, <2>2 DEF Due, Unsettled, Filled
  <2> QED
    BY <1>2, <2>1, <2>2
<1>8. Settled' = Settled
  BY <1>1, <1>4, <1>6, <1>7, SettledSame
<1>9. job[ex.job].qty <= qty /\ job[ex.job].qty \in Nat /\ qty \in Nat
  BY <1>1, <1>2, SellOrdersAssumption DEF StockInv, ExFits, TypeOK, JobRow
<1>10. order'[o].qty <= qty
  BY <1>2, <1>9
<1> QED
  BY <1>1, <1>2, <1>4, <1>5, <1>8, <1>10 DEF StockInv, StockKept

\* Only the executor's new order comes to be unsettled.
UnsettledFewer ==
  \A p \in Order : Unsettled(p)' => Unsettled(p) \/ (ex'.phase = "ordered" /\ ex.phase = "locked" /\ p = ex'.order)

\* Every step keeps that only the executor's new order comes to be unsettled,
\* and the stock adds up.
LEMMA UnsettledStep == StockHyp /\ [Next]_vars => UnsettledFewer /\ StockKept'
<1> SUFFICES ASSUME StockHyp, [Next]_vars PROVE UnsettledFewer /\ StockKept'
  OBVIOUS
<1>a. StockHyp /\ CalmHyp /\ TypeInv /\ DeliveryInv /\ CalmInv /\ StockInv /\ TypeOK /\ TypeOK' /\ Qty \in Nat
  BY SellOrdersAssumption, TypeOKStep DEF CalmHyp, TypeInv, StockHyp
<1>b. /\ "CRASH" \notin Enabled /\ "TIMEOUT" \notin Enabled /\ "EXPIRY" \notin Enabled /\ "CANCEL_API" \notin Enabled
      /\ "HAND_SALE" \notin Enabled /\ "SLOW_QUEUE" \notin Enabled
      /\ \A c \in Caller : call[c].phase \notin {"cancel", "cancelWrite"}
  BY <1>a, CalmEnabled, AccountedEnabled DEF StockHyp, CalmHyp, CalmInv, CallOrder
<1>c. ASSUME UNCHANGED <<qty, byHand, order>>, \A k \in Job : job'[k].booked = job[k].booked
      PROVE  UnsettledFewer /\ StockKept'
  <2>1. OrdersFade
    BY <1>a, <1>c, SameFades
  <2> QED
    BY <1>a, <1>c, <2>1, FadesStock DEF UnsettledFewer
<1>1. ASSUME NEW j \in Job, Take(j)
     PROVE  UnsettledFewer /\ StockKept'
  BY <1>1, <1>a, <1>c DEF Take, posVars, restVars
<1>2. ASSUME Mark
     PROVE  UnsettledFewer /\ StockKept'
  BY <1>2, <1>a, <1>c, MarkEffect DEF JobWritten, ExGoes, posVars, restVars
<1>3. ASSUME CheckFails
     PROVE  UnsettledFewer /\ StockKept'
  BY <1>3, <1>a, <1>c, CheckFailsEffect DEF JobWritten, posVars, restVars
<1>4. ASSUME CheckPasses
     PROVE  UnsettledFewer /\ StockKept'
  BY <1>4, <1>a, <1>c, CheckPassesEffect DEF ExGoes, posVars, restVars
<1>5. ASSUME AcquireLock
     PROVE  UnsettledFewer /\ StockKept'
  BY <1>5, <1>a, <1>c, AcquireEffect DEF ExGoes, posVars, restVars
<1>6. ASSUME LockRefused
     PROVE  UnsettledFewer /\ StockKept'
  BY <1>6, <1>a, <1>c, LockRefusedEffect DEF JobWritten, posVars, restVars
<1>7. ASSUME NEW o \in Order, Submit(o)
     PROVE  UnsettledFewer /\ StockKept'
  <2>1. ex.phase = "locked" /\ ex'.phase = "ordered" /\ ex'.order = o
    BY <1>7, <1>a, SubmitCalm
  <2> QED
    BY <1>7, <1>a, <2>1, SubmitStock DEF UnsettledFewer
<1>8. ASSUME SubmitRefused
     PROVE  UnsettledFewer /\ StockKept'
  BY <1>8, <1>a, <1>c, SubmitRefusedEffect DEF JobWritten, posVars, restVars
<1>9. ASSUME Record
     PROVE  UnsettledFewer /\ StockKept'
  BY <1>9, <1>a, <1>c, RecordedEffect DEF ExGoes, posVars, restVars
<1>10. ASSUME Rest
      PROVE  UnsettledFewer /\ StockKept'
  BY <1>10, <1>a, <1>c, RestEffect DEF JobWritten, posVars, restVars
<1>11. ASSUME BookExecution
      PROVE  UnsettledFewer /\ StockKept'
  <2>1. BookedInFull(ex.job, ex.order) /\ UNCHANGED <<order, byHand>>
    BY <1>11, <1>a, BookExecutionStock DEF restVars
  <2> QED
    BY <1>a, <2>1, BookingSettles DEF UnsettledFewer
<1>12. ASSUME Complete
      PROVE  UnsettledFewer /\ StockKept'
  BY <1>12, <1>a, <1>c, CompleteCalm DEF JobWritten, posVars, restVars
<1>13. ASSUME NEW c \in Caller, NEW q \in 1..Qty, NEW ty \in OrderType, CloseRequest(c, q, ty)
      PROVE  UnsettledFewer /\ StockKept'
  BY <1>13, <1>a, <1>c, CloseRequestEffect DEF CallBecomes, posVars, restVars
<1>14. ASSUME NEW c \in Caller, NEW t \in Trigger, TriggerCheck(c, t)
      PROVE  UnsettledFewer /\ StockKept'
  BY <1>14, <1>a, <1>c, TriggerCheckEffect DEF CallBecomes, posVars, restVars
<1>15. ASSUME NEW c \in Caller, NEW j \in Job, LimitRead(c, j)
      PROVE  UnsettledFewer /\ StockKept'
  BY <1>15, <1>a, <1>c, LimitReadEffect DEF CallBecomes, posVars, restVars
<1>16. ASSUME NEW c \in Caller, TriggerFlag(c)
      PROVE  UnsettledFewer /\ StockKept'
  BY <1>16, <1>a, <1>c, TriggerFlagEffect DEF CallMoves, CallBecomes, posVars, restVars
<1>17. ASSUME NEW c \in Caller, TriggerConfirm(c)
      PROVE  UnsettledFewer /\ StockKept'
  BY <1>17, <1>a, <1>c, TriggerConfirmEffect DEF CallMoves, CallBecomes, posVars, restVars
<1>18. ASSUME NEW c \in Caller, NEW j \in Job, CreateJob(c, j)
      PROVE  UnsettledFewer /\ StockKept'
  BY <1>18, <1>a, <1>c, CreateJobEffect DEF posVars, restVars
<1>19. ASSUME NEW c \in Caller, Enqueue(c)
      PROVE  UnsettledFewer /\ StockKept'
  BY <1>19, <1>a, <1>c, EnqueueEffect DEF CallBecomes, posVars, restVars
<1>20. ASSUME NEW c \in Caller, LimitClosed(c)
      PROVE  UnsettledFewer /\ StockKept'
  <2>1. OrdersFade /\ UNCHANGED <<qty, byHand>>
    BY <1>20, <1>a, LimitClosedCalm DEF posVars, restVars
  <2>2. \A k \in Job : job'[k].booked = job[k].booked
    BY <1>20, <1>a, LimitClosedCalm, CallsKnow DEF JobWritten
  <2> QED
    BY <1>a, <2>1, <2>2, FadesStock DEF UnsettledFewer
<1>21. ASSUME NEW c \in Caller, LimitFilled(c)
      PROVE  UnsettledFewer /\ StockKept'
  <2>1. BookedInFull(call[c].job, call[c].order) /\ UNCHANGED <<order, byHand>>
    BY <1>21, <1>a, LimitFilledStock DEF restVars
  <2> QED
    BY <1>a, <2>1, BookingSettles DEF UnsettledFewer
<1>22. ASSUME NEW c \in Caller, LimitCompletes(c)
      PROVE  UnsettledFewer /\ StockKept'
  BY <1>22, <1>a, <1>c, LimitCompletesEffect DEF JobWritten, CallBecomes, posVars, restVars
<1>23. ASSUME NEW c \in Caller, LimitWaits(c)
      PROVE  UnsettledFewer /\ StockKept'
  BY <1>23, <1>a, <1>c, LimitWaitsEffect DEF CallBecomes, posVars, restVars
<1>24. ASSUME NEW c \in Caller, CallFails(c)
      PROVE  UnsettledFewer /\ StockKept'
  BY <1>24, <1>a, <1>c, CallEndsEffect DEF CallBecomes, posVars, restVars
<1>25. ASSUME TsgReset
      PROVE  UnsettledFewer /\ StockKept'
  BY <1>25, <1>a, <1>c DEF TsgReset, posVars, restVars
<1>26. ASSUME NEW j \in Job, JobAges(j)
      PROVE  UnsettledFewer /\ StockKept'
  BY <1>26, <1>a, <1>c DEF JobAges, posVars, restVars
<1>27. ASSUME NEW o \in Order, Fill(o)
      PROVE  UnsettledFewer /\ StockKept'
  BY <1>27, <1>a, FillStock DEF UnsettledFewer
<1>28. ASSUME NEW o \in Order, ExchangeCancels(o)
      PROVE  UnsettledFewer /\ StockKept'
  <2>1. OrdersFade /\ UNCHANGED <<qty, byHand>>
    BY <1>28, <1>a, ExchangeCancelsCalm DEF posVars, restVars
  <2>2. \A k \in Job : job'[k].booked = job[k].booked
    BY <1>28, <1>a, ExchangeCancelsCalm
  <2> QED
    BY <1>a, <2>1, <2>2, FadesStock DEF UnsettledFewer
<1>29. ASSUME HandSale
      PROVE  UnsettledFewer /\ StockKept'
  BY <1>29, <1>b DEF HandSale
<1>30. ASSUME LockExpires
      PROVE  UnsettledFewer /\ StockKept'
  BY <1>30, <1>a, <1>c DEF LockExpires, posVars, restVars
<1>31. CASE UNCHANGED vars
  BY <1>31, <1>a, <1>c DEF vars, posVars
<1> QED
  BY <1>a, CalmRulesOut, <1>1, <1>2, <1>3, <1>4, <1>5, <1>6, <1>7, <1>8, <1>9, <1>10, <1>11,
    <1>12, <1>13, <1>14, <1>15, <1>16, <1>17, <1>18, <1>19, <1>20, <1>21, <1>22, <1>23,
    <1>24, <1>25, <1>26, <1>27, <1>28, <1>29, <1>30, <1>31 DEF Next, Executor, Continue

\* Every step keeps that a job on its way is not booked.
LEMMA UnbookedStep == StockHyp /\ [Next]_vars => Unbooked'
<1> SUFFICES ASSUME StockHyp, [Next]_vars PROVE Unbooked'
  OBVIOUS
<1>a. StockHyp /\ CalmHyp /\ TypeInv /\ DeliveryInv /\ CalmInv /\ StockInv /\ TypeOK /\ TypeOK' /\ Qty \in Nat
  BY SellOrdersAssumption, TypeOKStep DEF CalmHyp, TypeInv, StockHyp
<1>b. /\ "CRASH" \notin Enabled /\ "TIMEOUT" \notin Enabled /\ "EXPIRY" \notin Enabled /\ "CANCEL_API" \notin Enabled
      /\ "HAND_SALE" \notin Enabled /\ "SLOW_QUEUE" \notin Enabled
      /\ \A c \in Caller : call[c].phase \notin {"cancel", "cancelWrite"}
  BY <1>a, CalmEnabled, AccountedEnabled DEF StockHyp, CalmHyp, CalmInv, CallOrder
<1>c. /\ ex.phase # "idle" => ex.job \in Job /\ ex.job # None
      /\ \A c \in Caller : call[c].phase \in {"enqueue", "limit", "limitFilled"} => call[c].job \in Job /\ call[c].job # None
      /\ queue \subseteq Job /\ None \notin queue
  BY <1>a, NameFacts, TypeFacts DEF JobPhase
<1>1. ASSUME NEW j \in Job, Take(j)
     PROVE  Unbooked'
  <2>1. ex.phase = "idle" /\ j \in queue /\ queue' = queue \ {j} /\ UNCHANGED <<job, call>>
    BY <1>1 DEF Take
  <2>2. ex'.phase # "booked" /\ \A k : Undelivered(k)' => Undelivered(k)
    BY <1>1, <2>1 DEF Take, Undelivered, ToQueue, ExIdle
  <2> QED
    BY <1>a, <2>1, <2>2 DEF StockInv, Unbooked
<1>2. ASSUME Mark
     PROVE  Unbooked'
  BY <1>2, <1>a, TypeFacts, MarkEffect, NotPlacedYet, <1>c DEF JobWritten, ExGoes, posVars,
    restVars, StockInv, Unbooked, Undelivered, ToQueue
<1>3. ASSUME CheckFails
     PROVE  Unbooked'
  BY <1>3, <1>a, TypeFacts, CheckFailsEffect, NotPlacedYet, <1>c DEF JobWritten, posVars,
    restVars, StockInv, Unbooked, Undelivered, ToQueue
<1>4. ASSUME CheckPasses
     PROVE  Unbooked'
  BY <1>4, <1>a, TypeFacts, CheckPassesEffect, NotPlacedYet, <1>c DEF ExGoes, posVars, restVars,
    StockInv, Unbooked, Undelivered, ToQueue
<1>5. ASSUME AcquireLock
     PROVE  Unbooked'
  BY <1>5, <1>a, TypeFacts, AcquireEffect, NotPlacedYet, NothingLive, <1>c DEF ExGoes, posVars,
    restVars, StockInv, Unbooked, Undelivered, ToQueue
<1>6. ASSUME LockRefused
     PROVE  Unbooked'
  BY <1>6, <1>a, TypeFacts, LockRefusedEffect, NotPlacedYet, <1>c DEF JobWritten, posVars,
    restVars, StockInv, Unbooked, Undelivered, ToQueue
<1>7. ASSUME NEW o \in Order, Submit(o)
     PROVE  Unbooked'
  BY <1>7, <1>a, TypeFacts, SubmitCalm, <1>c DEF posVars, restVars, StockInv, Unbooked,
    Undelivered, ToQueue
<1>8. ASSUME SubmitRefused
     PROVE  Unbooked'
  BY <1>8, <1>a, TypeFacts, SubmitRefusedEffect, NotPlacedYet, <1>c DEF JobWritten, posVars,
    restVars, StockInv, Unbooked, Undelivered, ToQueue
<1>9. ASSUME Record
     PROVE  Unbooked'
  BY <1>9, <1>a, TypeFacts, RecordedEffect, PlacedOrder, <1>c DEF ExGoes, OrderPhase, posVars,
    restVars, StockInv, Unbooked, Undelivered, ToQueue
<1>10. ASSUME Rest
      PROVE  Unbooked'
  BY <1>10, <1>a, TypeFacts, RestEffect, PlacedOrder, <1>c DEF JobWritten, OrderPhase, posVars,
    restVars, StockInv, Unbooked, Undelivered, ToQueue
<1>11. ASSUME BookExecution
      PROVE  Unbooked'
  <2>1. BookedInFull(ex.job, ex.order)
    BY <1>11, <1>a, BookExecutionStock
  <2>2. ex.phase = "recorded" /\ ExGoes("booked") /\ UNCHANGED <<queue, call>>
    BY <1>11, <1>a, BookExecutionStock DEF restVars
  <2>3. \A c \in Caller : call[c].phase \in LimitPhase => call[c].job # ex.job
    BY <1>a, CallsKnow
  <2> QED
    BY <1>a, <1>c, <2>1, <2>2, <2>3 DEF BookedInFull, ExGoes, LimitPhase, StockInv, Unbooked, Undelivered, ToQueue
<1>12. ASSUME Complete
      PROVE  Unbooked'
  BY <1>12, <1>a, TypeFacts, CompleteCalm, PlacedOrder, <1>c DEF JobWritten, OrderPhase, posVars,
    restVars, StockInv, Unbooked, Undelivered, ToQueue, DeliveryInv, OneDelivery
<1>13. ASSUME NEW c \in Caller, NEW q \in 1..Qty, NEW ty \in OrderType, CloseRequest(c, q, ty)
      PROVE  Unbooked'
  BY <1>13, <1>a, TypeFacts, CloseRequestEffect, <1>c DEF CallBecomes, posVars, restVars, StockInv,
    Unbooked, Undelivered, ToQueue
<1>14. ASSUME NEW c \in Caller, NEW t \in Trigger, TriggerCheck(c, t)
      PROVE  Unbooked'
  BY <1>14, <1>a, TypeFacts, TriggerCheckEffect, <1>c DEF CallBecomes, posVars, restVars, StockInv,
    Unbooked, Undelivered, ToQueue
<1>15. ASSUME NEW c \in Caller, NEW j \in Job, LimitRead(c, j)
      PROVE  Unbooked'
  BY <1>15, <1>a, TypeFacts, LimitReadEffect, <1>c DEF CallBecomes, posVars, restVars, StockInv,
    Unbooked, Undelivered, ToQueue
<1>16. ASSUME NEW c \in Caller, TriggerFlag(c)
      PROVE  Unbooked'
  BY <1>16, <1>a, TypeFacts, TriggerFlagEffect, <1>c DEF CallMoves, CallBecomes, posVars, restVars,
    StockInv, Unbooked, Undelivered, ToQueue
<1>17. ASSUME NEW c \in Caller, TriggerConfirm(c)
      PROVE  Unbooked'
  BY <1>17, <1>a, TypeFacts, TriggerConfirmEffect, <1>c DEF CallMoves, CallBecomes, posVars,
    restVars, StockInv, Unbooked, Undelivered, ToQueue
<1>18. ASSUME NEW c \in Caller, NEW j \in Job, CreateJob(c, j)
      PROVE  Unbooked'
  BY <1>18, <1>a, TypeFacts, CreateJobEffect, <1>c DEF posVars, restVars, StockInv, Unbooked,
    Undelivered, ToQueue, TypeInv, RowNames
<1>19. ASSUME NEW c \in Caller, Enqueue(c)
      PROVE  Unbooked'
  BY <1>19, <1>a, TypeFacts, EnqueueEffect, <1>c DEF CallBecomes, posVars, restVars, StockInv,
    Unbooked, Undelivered, ToQueue
<1>20. ASSUME NEW c \in Caller, LimitClosed(c)
      PROVE  Unbooked'
  BY <1>20, <1>a, TypeFacts, LimitClosedCalm, CallsKnow, <1>c DEF JobWritten, CallBecomes,
    OrdersFade, posVars, restVars, StockInv, Unbooked, Undelivered, ToQueue
<1>21. ASSUME NEW c \in Caller, LimitFilled(c)
      PROVE  Unbooked'
  <2>1. BookedInFull(call[c].job, call[c].order)
    BY <1>21, <1>a, LimitFilledStock
  <2>2. /\ call[c].phase = "limit" /\ CallMoves(c, "limitFilled") /\ UNCHANGED <<queue, ex>>
        /\ call[c].job # ex.job /\ ~Undelivered(call[c].job)
    BY <1>21, <1>a, LimitFilledStock DEF restVars
  <2>3. \A d \in Caller \ {c} : call[d].phase \in LimitPhase => call[d].job # call[c].job
    BY <1>a, <2>2 DEF StockHyp, BookedInv, OnePass, LimitPhase
  <2> QED
    BY <1>a, <1>c, <2>1, <2>2, <2>3 DEF BookedInFull, CallMoves, LimitPhase, StockInv, Unbooked, Undelivered, ToQueue
<1>22. ASSUME NEW c \in Caller, LimitCompletes(c)
      PROVE  Unbooked'
  BY <1>22, <1>a, TypeFacts, LimitCompletesEffect, LimitFilledCalm, CallsKnow, <1>c DEF JobWritten,
    CallBecomes, posVars, restVars, StockInv, Unbooked, Undelivered, ToQueue
<1>23. ASSUME NEW c \in Caller, LimitWaits(c)
      PROVE  Unbooked'
  BY <1>23, <1>a, TypeFacts, LimitWaitsEffect, <1>c DEF CallBecomes, posVars, restVars, StockInv,
    Unbooked, Undelivered, ToQueue
<1>24. ASSUME NEW c \in Caller, CallFails(c)
      PROVE  Unbooked'
  BY <1>24, <1>a, TypeFacts, CallEndsEffect, <1>c DEF CallBecomes, posVars, restVars, StockInv,
    Unbooked, Undelivered, ToQueue
<1>25. ASSUME TsgReset
      PROVE  Unbooked'
  BY <1>25, <1>a, TypeFacts, <1>c DEF TsgReset, posVars, restVars, StockInv, Unbooked, Undelivered,
    ToQueue
<1>26. ASSUME NEW j \in Job, JobAges(j)
      PROVE  Unbooked'
  BY <1>26, <1>a, TypeFacts, <1>c DEF JobAges, posVars, restVars, StockInv, Unbooked, Undelivered,
    ToQueue
<1>27. ASSUME NEW o \in Order, Fill(o)
      PROVE  Unbooked'
  <2>1. UNCHANGED <<queue, job, ex, call>>
    BY <1>27, <1>a, FillCalm DEF restVars
  <2> QED
    BY <1>a, <2>1 DEF StockInv, Unbooked, Undelivered, ToQueue
<1>28. ASSUME NEW o \in Order, ExchangeCancels(o)
      PROVE  Unbooked'
  BY <1>28, <1>a, TypeFacts, ExchangeCancelsCalm, <1>c DEF OrdersFade, posVars, restVars, StockInv,
    Unbooked, Undelivered, ToQueue
<1>29. ASSUME HandSale
      PROVE  Unbooked'
  BY <1>29, <1>b DEF HandSale
<1>30. ASSUME LockExpires
      PROVE  Unbooked'
  BY <1>30, <1>a, TypeFacts, <1>c DEF LockExpires, posVars, restVars, StockInv, Unbooked,
    Undelivered, ToQueue
<1>31. CASE UNCHANGED vars
  BY <1>31, <1>a, <1>c DEF vars, posVars, StockInv, Unbooked, Undelivered, ToQueue
<1> QED
  BY <1>a, CalmRulesOut, <1>1, <1>2, <1>3, <1>4, <1>5, <1>6, <1>7, <1>8, <1>9, <1>10, <1>11,
    <1>12, <1>13, <1>14, <1>15, <1>16, <1>17, <1>18, <1>19, <1>20, <1>21, <1>22, <1>23,
    <1>24, <1>25, <1>26, <1>27, <1>28, <1>29, <1>30, <1>31 DEF Next, Executor, Continue

\* Every step keeps that an open order is not booked.
LEMMA LiveUnbookedStep == StockHyp /\ [Next]_vars => LiveUnbooked'
<1> SUFFICES ASSUME StockHyp, [Next]_vars PROVE LiveUnbooked'
  OBVIOUS
<1>a. StockHyp /\ CalmHyp /\ TypeInv /\ DeliveryInv /\ CalmInv /\ StockInv /\ TypeOK /\ TypeOK' /\ Qty \in Nat
  BY SellOrdersAssumption, TypeOKStep DEF CalmHyp, TypeInv, StockHyp
<1>b. /\ "CRASH" \notin Enabled /\ "TIMEOUT" \notin Enabled /\ "EXPIRY" \notin Enabled /\ "CANCEL_API" \notin Enabled
      /\ "HAND_SALE" \notin Enabled /\ "SLOW_QUEUE" \notin Enabled
      /\ \A c \in Caller : call[c].phase \notin {"cancel", "cancelWrite"}
  BY <1>a, CalmEnabled, AccountedEnabled DEF StockHyp, CalmHyp, CalmInv, CallOrder
<1>c. \A o \in Order : order[o].live => order[o].job \in Job
  BY <1>a, OrdersHaveJobs
<1>1. ASSUME NEW j \in Job, Take(j)
     PROVE  LiveUnbooked'
  BY <1>1, <1>a, TypeFacts, <1>c DEF Take, posVars, restVars, StockInv, LiveUnbooked
<1>2. ASSUME Mark
     PROVE  LiveUnbooked'
  BY <1>2, <1>a, TypeFacts, MarkEffect, NotPlacedYet, <1>c DEF JobWritten, ExGoes, posVars,
    restVars, StockInv, LiveUnbooked
<1>3. ASSUME CheckFails
     PROVE  LiveUnbooked'
  BY <1>3, <1>a, TypeFacts, CheckFailsEffect, NotPlacedYet, <1>c DEF JobWritten, posVars,
    restVars, StockInv, LiveUnbooked
<1>4. ASSUME CheckPasses
     PROVE  LiveUnbooked'
  BY <1>4, <1>a, TypeFacts, CheckPassesEffect, NotPlacedYet, <1>c DEF ExGoes, posVars, restVars,
    StockInv, LiveUnbooked
<1>5. ASSUME AcquireLock
     PROVE  LiveUnbooked'
  BY <1>5, <1>a, TypeFacts, AcquireEffect, NotPlacedYet, NothingLive, <1>c DEF ExGoes, posVars,
    restVars, StockInv, LiveUnbooked
<1>6. ASSUME LockRefused
     PROVE  LiveUnbooked'
  BY <1>6, <1>a, TypeFacts, LockRefusedEffect, NotPlacedYet, <1>c DEF JobWritten, posVars,
    restVars, StockInv, LiveUnbooked
<1>7. ASSUME NEW o \in Order, Submit(o)
     PROVE  LiveUnbooked'
  BY <1>7, <1>a, TypeFacts, SubmitCalm, <1>c, SubmitStock DEF posVars, restVars, StockInv,
    LiveUnbooked
<1>8. ASSUME SubmitRefused
     PROVE  LiveUnbooked'
  BY <1>8, <1>a, TypeFacts, SubmitRefusedEffect, NotPlacedYet, <1>c DEF JobWritten, posVars,
    restVars, StockInv, LiveUnbooked
<1>9. ASSUME Record
     PROVE  LiveUnbooked'
  BY <1>9, <1>a, TypeFacts, RecordedEffect, PlacedOrder, <1>c DEF ExGoes, OrderPhase, posVars,
    restVars, StockInv, LiveUnbooked
<1>10. ASSUME Rest
      PROVE  LiveUnbooked'
  BY <1>10, <1>a, TypeFacts, RestEffect, PlacedOrder, <1>c DEF JobWritten, OrderPhase, posVars,
    restVars, StockInv, LiveUnbooked
<1>11. ASSUME BookExecution
      PROVE  LiveUnbooked'
  BY <1>11, <1>a, TypeFacts, BookExecutionStock, <1>c DEF BookedInFull, ExGoes, posVars, restVars,
    StockInv, LiveUnbooked
<1>12. ASSUME Complete
      PROVE  LiveUnbooked'
  BY <1>12, <1>a, TypeFacts, CompleteCalm, PlacedOrder, <1>c DEF JobWritten, OrderPhase, posVars,
    restVars, StockInv, LiveUnbooked
<1>13. ASSUME NEW c \in Caller, NEW q \in 1..Qty, NEW ty \in OrderType, CloseRequest(c, q, ty)
      PROVE  LiveUnbooked'
  BY <1>13, <1>a, TypeFacts, CloseRequestEffect, <1>c DEF CallBecomes, posVars, restVars, StockInv,
    LiveUnbooked
<1>14. ASSUME NEW c \in Caller, NEW t \in Trigger, TriggerCheck(c, t)
      PROVE  LiveUnbooked'
  BY <1>14, <1>a, TypeFacts, TriggerCheckEffect, <1>c DEF CallBecomes, posVars, restVars, StockInv,
    LiveUnbooked
<1>15. ASSUME NEW c \in Caller, NEW j \in Job, LimitRead(c, j)
      PROVE  LiveUnbooked'
  BY <1>15, <1>a, TypeFacts, LimitReadEffect, <1>c DEF CallBecomes, posVars, restVars, StockInv,
    LiveUnbooked
<1>16. ASSUME NEW c \in Caller, TriggerFlag(c)
      PROVE  LiveUnbooked'
  BY <1>16, <1>a, TypeFacts, TriggerFlagEffect, <1>c DEF CallMoves, CallBecomes, posVars, restVars,
    StockInv, LiveUnbooked
<1>17. ASSUME NEW c \in Caller, TriggerConfirm(c)
      PROVE  LiveUnbooked'
  BY <1>17, <1>a, TypeFacts, TriggerConfirmEffect, <1>c DEF CallMoves, CallBecomes, posVars,
    restVars, StockInv, LiveUnbooked
<1>18. ASSUME NEW c \in Caller, NEW j \in Job, CreateJob(c, j)
      PROVE  LiveUnbooked'
  BY <1>18, <1>a, TypeFacts, CreateJobEffect, <1>c DEF posVars, restVars, StockInv, LiveUnbooked
<1>19. ASSUME NEW c \in Caller, Enqueue(c)
      PROVE  LiveUnbooked'
  BY <1>19, <1>a, TypeFacts, EnqueueEffect, <1>c DEF CallBecomes, posVars, restVars, StockInv,
    LiveUnbooked
<1>20. ASSUME NEW c \in Caller, LimitClosed(c)
      PROVE  LiveUnbooked'
  BY <1>20, <1>a, TypeFacts, LimitClosedCalm, CallsKnow, <1>c DEF JobWritten, CallBecomes,
    OrdersFade, posVars, restVars, StockInv, LiveUnbooked
<1>21. ASSUME NEW c \in Caller, LimitFilled(c)
      PROVE  LiveUnbooked'
  BY <1>21, <1>a, TypeFacts, LimitFilledStock, <1>c DEF BookedInFull, CallMoves, posVars, restVars,
    StockInv, LiveUnbooked
<1>22. ASSUME NEW c \in Caller, LimitCompletes(c)
      PROVE  LiveUnbooked'
  BY <1>22, <1>a, TypeFacts, LimitCompletesEffect, LimitFilledCalm, CallsKnow, <1>c DEF JobWritten,
    CallBecomes, posVars, restVars, StockInv, LiveUnbooked
<1>23. ASSUME NEW c \in Caller, LimitWaits(c)
      PROVE  LiveUnbooked'
  BY <1>23, <1>a, TypeFacts, LimitWaitsEffect, <1>c DEF CallBecomes, posVars, restVars, StockInv,
    LiveUnbooked
<1>24. ASSUME NEW c \in Caller, CallFails(c)
      PROVE  LiveUnbooked'
  BY <1>24, <1>a, TypeFacts, CallEndsEffect, <1>c DEF CallBecomes, posVars, restVars, StockInv,
    LiveUnbooked
<1>25. ASSUME TsgReset
      PROVE  LiveUnbooked'
  BY <1>25, <1>a, TypeFacts, <1>c DEF TsgReset, posVars, restVars, StockInv, LiveUnbooked
<1>26. ASSUME NEW j \in Job, JobAges(j)
      PROVE  LiveUnbooked'
  BY <1>26, <1>a, TypeFacts, <1>c DEF JobAges, posVars, restVars, StockInv, LiveUnbooked
<1>27. ASSUME NEW o \in Order, Fill(o)
      PROVE  LiveUnbooked'
  BY <1>27, <1>a, TypeFacts, FillCalm, <1>c DEF OrderMoves, posVars, restVars, StockInv,
    LiveUnbooked
<1>28. ASSUME NEW o \in Order, ExchangeCancels(o)
      PROVE  LiveUnbooked'
  BY <1>28, <1>a, TypeFacts, ExchangeCancelsCalm, <1>c DEF OrdersFade, posVars, restVars, StockInv,
    LiveUnbooked
<1>29. ASSUME HandSale
      PROVE  LiveUnbooked'
  BY <1>29, <1>b DEF HandSale
<1>30. ASSUME LockExpires
      PROVE  LiveUnbooked'
  BY <1>30, <1>a, TypeFacts, <1>c DEF LockExpires, posVars, restVars, StockInv, LiveUnbooked
<1>31. CASE UNCHANGED vars
  BY <1>31, <1>a, <1>c DEF vars, posVars, StockInv, LiveUnbooked
<1> QED
  BY <1>a, CalmRulesOut, <1>1, <1>2, <1>3, <1>4, <1>5, <1>6, <1>7, <1>8, <1>9, <1>10, <1>11,
    <1>12, <1>13, <1>14, <1>15, <1>16, <1>17, <1>18, <1>19, <1>20, <1>21, <1>22, <1>23,
    <1>24, <1>25, <1>26, <1>27, <1>28, <1>29, <1>30, <1>31 DEF Next, Executor, Continue

\* At most one order comes to be unsettled.
LEMMA OneUnsettledStep == StockHyp /\ [Next]_vars => OneUnsettled'
<1> SUFFICES ASSUME StockHyp, [Next]_vars PROVE OneUnsettled'
  OBVIOUS
<1>1. UnsettledFewer
  BY UnsettledStep
<1>2. OneUnsettled
  BY DEF StockHyp, StockInv
<1>3. ex.phase = "locked" => \A p \in Order : ~Unsettled(p)
  BY AllSettled
<1> QED
  BY <1>1, <1>2, <1>3 DEF OneUnsettled, UnsettledFewer

\* Every step keeps that an unsettled order fits what is left and is guarded.
LEMMA UnsettledFitsStep == StockHyp /\ [Next]_vars => UnsettledFits'
<1> SUFFICES ASSUME StockHyp, [Next]_vars PROVE UnsettledFits'
  OBVIOUS
<1>a. StockHyp /\ CalmHyp /\ TypeInv /\ DeliveryInv /\ CalmInv /\ StockInv /\ TypeOK /\ TypeOK' /\ Qty \in Nat
  BY SellOrdersAssumption, TypeOKStep DEF CalmHyp, TypeInv, StockHyp
<1>b. /\ "CRASH" \notin Enabled /\ "TIMEOUT" \notin Enabled /\ "EXPIRY" \notin Enabled /\ "CANCEL_API" \notin Enabled
      /\ "HAND_SALE" \notin Enabled /\ "SLOW_QUEUE" \notin Enabled
      /\ \A c \in Caller : call[c].phase \notin {"cancel", "cancelWrite"}
  BY <1>a, CalmEnabled, AccountedEnabled DEF StockHyp, CalmHyp, CalmInv, CallOrder
<1>c. /\ ex.phase # "locked" \/ ex'.phase # "ordered" => \A p \in Order : Unsettled(p)' => Unsettled(p)
      /\ \A p \in Order : Unsettled(p) =>
           /\ order[p].job \in Job /\ order[p].job # None /\ order[p].qty <= qty /\ qty > 0
           /\ Guarded(order[p].job) /\ ActiveJob
           /\ ~Quiet => lock = order[p].job
           /\ job[order[p].job].booked = 0
  BY <1>a, UnsettledStep, UnsettledFacts DEF UnsettledFewer, StockInv, UnsettledFits
<1>d. UNCHANGED <<qty, order, lock, job, ex, queue, call>> => UnsettledFits'
  BY <1>a DEF StockInv, UnsettledFits, Unsettled, Filled, Guarded, Watched, Quiet
<1>1. ASSUME NEW j \in Job, Take(j)
     PROVE  UnsettledFits'
  BY <1>1, <1>a, TypeFacts, <1>c DEF Take, posVars, restVars, UnsettledFits, Guarded, Watched,
    Quiet
<1>2. ASSUME Mark
     PROVE  UnsettledFits'
  BY <1>2, <1>a, TypeFacts, MarkEffect, NotPlacedYet, <1>c DEF JobWritten, ExGoes, posVars,
    restVars, UnsettledFits, Guarded, Watched, Quiet
<1>3. ASSUME CheckFails
     PROVE  UnsettledFits'
  BY <1>3, <1>a, TypeFacts, CheckFailsEffect, NotPlacedYet, <1>c DEF JobWritten, posVars,
    restVars, UnsettledFits, Guarded, Watched, Quiet, Released
<1>4. ASSUME CheckPasses
     PROVE  UnsettledFits'
  BY <1>4, <1>a, TypeFacts, CheckPassesEffect, NotPlacedYet, <1>c DEF ExGoes, posVars, restVars,
    UnsettledFits, Guarded, Watched, Quiet
<1>5. ASSUME AcquireLock
     PROVE  UnsettledFits'
  <2>1. \A p \in Order : ~Unsettled(p)'
    BY <1>5, <1>a, <1>c, AcquireEffect, AllSettled
  <2> QED
    BY <2>1 DEF UnsettledFits
<1>6. ASSUME LockRefused
     PROVE  UnsettledFits'
  BY <1>6, <1>a, TypeFacts, LockRefusedEffect, NotPlacedYet, <1>c DEF JobWritten, posVars,
    restVars, UnsettledFits, Guarded, Watched, Quiet
<1>7. ASSUME NEW o \in Order, Submit(o)
     PROVE  UnsettledFits'
  <2>1. \A p \in Order : Unsettled(p)' => p = o
    BY <1>7, <1>a, SubmitStock
  <2>2. order'[o].qty <= qty' /\ order'[o].job = ex.job /\ UNCHANGED job /\ job[ex.job].status = "EXECUTING" /\ lock' = ex.job
    BY <1>7, <1>a, SubmitStock, SubmitCalm DEF posVars
  <2> QED
    BY <2>1, <2>2 DEF UnsettledFits, Guarded, Watched
<1>8. ASSUME SubmitRefused
     PROVE  UnsettledFits'
  <2>1. \A p \in Order : ~Unsettled(p) /\ ex.phase = "locked"
    BY <1>8, <1>a, SubmitRefusedEffect, AllSettled
  <2>2. \A p \in Order : ~Unsettled(p)'
    BY <1>8, <1>a, <2>1, UnsettledStep, SubmitRefusedEffect, TypeFacts DEF UnsettledFewer
  <2> QED
    BY <2>2 DEF UnsettledFits
<1>9. ASSUME Record
     PROVE  UnsettledFits'
  BY <1>9, <1>a, TypeFacts, RecordedEffect, PlacedOrder, <1>c DEF ExGoes, OrderPhase, posVars,
    restVars, UnsettledFits, Guarded, Watched, Quiet
<1>10. ASSUME Rest
      PROVE  UnsettledFits'
  BY <1>10, <1>a, TypeFacts, RestEffect, PlacedOrder, <1>c DEF JobWritten, OrderPhase, posVars,
    restVars, UnsettledFits, Guarded, Watched, Quiet
<1>11. ASSUME BookExecution
      PROVE  UnsettledFits'
  <2>1. BookedInFull(ex.job, ex.order) /\ UNCHANGED <<order, byHand>>
    BY <1>11, <1>a, BookExecutionStock DEF restVars
  <2>2. \A p \in Order : ~Unsettled(p)'
    BY <1>a, <2>1, BookingSettles
  <2> QED
    BY <2>2 DEF UnsettledFits
<1>12. ASSUME Complete
      PROVE  UnsettledFits'
  <2>1. ex.phase = "booked" /\ ex'.phase = "idle" /\ lock = ex.job /\ job[ex.job].booked > 0 /\ ~Quiet
    BY <1>12, <1>a, CompleteCalm, TypeFacts DEF CalmInv, ExOrder, OrderPhase, StockInv, Unbooked, Quiet
  <2>2. \A p \in Order : ~Unsettled(p)
    BY <1>c, <2>1
  <2> QED
    BY <1>c, <2>1, <2>2 DEF UnsettledFits
<1>13. ASSUME NEW c \in Caller, NEW q \in 1..Qty, NEW ty \in OrderType, CloseRequest(c, q, ty)
      PROVE  UnsettledFits'
  <2>1. \A p \in Order : ~Unsettled(p)'
    BY <1>13, <1>a, <1>c, CloseRequestEffect
  <2> QED
    BY <2>1 DEF UnsettledFits
<1>14. ASSUME NEW c \in Caller, NEW t \in Trigger, TriggerCheck(c, t)
      PROVE  UnsettledFits'
  BY <1>14, <1>a, TypeFacts, TriggerCheckEffect, <1>c DEF CallBecomes, posVars, restVars,
    UnsettledFits, Guarded, Watched, Quiet
<1>15. ASSUME NEW c \in Caller, NEW j \in Job, LimitRead(c, j)
      PROVE  UnsettledFits'
  BY <1>15, <1>a, TypeFacts, LimitReadEffect, <1>c DEF CallBecomes, posVars, restVars,
    UnsettledFits, Guarded, Watched, Quiet
<1>16. ASSUME NEW c \in Caller, TriggerFlag(c)
      PROVE  UnsettledFits'
  BY <1>16, <1>a, TypeFacts, TriggerFlagEffect, <1>c DEF CallMoves, CallBecomes, posVars, restVars,
    UnsettledFits, Guarded, Watched, Quiet
<1>17. ASSUME NEW c \in Caller, TriggerConfirm(c)
      PROVE  UnsettledFits'
  BY <1>17, <1>a, TypeFacts, TriggerConfirmEffect, <1>c DEF CallMoves, CallBecomes, posVars,
    restVars, UnsettledFits, Guarded, Watched, Quiet
<1>18. ASSUME NEW c \in Caller, NEW j \in Job, CreateJob(c, j)
      PROVE  UnsettledFits'
  BY <1>18, <1>a, TypeFacts, CreateJobEffect, <1>c DEF posVars, restVars, UnsettledFits, Guarded,
    Watched, Quiet
<1>19. ASSUME NEW c \in Caller, Enqueue(c)
      PROVE  UnsettledFits'
  BY <1>19, <1>a, TypeFacts, EnqueueEffect, <1>c DEF CallBecomes, posVars, restVars, UnsettledFits,
    Guarded, Watched, Quiet
<1>20. ASSUME NEW c \in Caller, LimitClosed(c)
      PROVE  UnsettledFits'
  <2>1. \A p \in Order : ~Unsettled(p)'
    BY <1>20, <1>a, <1>c, LimitClosedCalm
  <2> QED
    BY <2>1 DEF UnsettledFits
<1>21. ASSUME NEW c \in Caller, LimitFilled(c)
      PROVE  UnsettledFits'
  <2>1. BookedInFull(call[c].job, call[c].order) /\ UNCHANGED <<order, byHand>>
    BY <1>21, <1>a, LimitFilledStock DEF restVars
  <2>2. \A p \in Order : ~Unsettled(p)'
    BY <1>a, <2>1, BookingSettles
  <2> QED
    BY <2>2 DEF UnsettledFits
<1>22. ASSUME NEW c \in Caller, LimitCompletes(c)
      PROVE  UnsettledFits'
  <2>1. \A p \in Order : Unsettled(p) => order[p].job # call[c].job
    BY <1>22, <1>a, <1>c, LimitCompletesEffect DEF StockInv, Unbooked
  <2>2. UNCHANGED <<qty, lock, queue, ex>> /\ (Quiet => Quiet')
    BY <1>22, <1>a, LimitCompletesEffect, TypeFacts DEF posVars, restVars, Quiet, CallBecomes
  <2>3. ASSUME NEW p \in Order, Unsettled(p)'
        PROVE  order'[p].qty <= qty' /\ Guarded(order[p].job)'
    <3>1. Unsettled(p) /\ order'[p].job = order[p].job /\ order'[p].qty = order[p].qty
      BY <1>22, <1>a, <1>c, <2>2, <2>3, LimitCompletesEffect
    <3>2. order[p].job # call[c].job /\ order[p].job \in Job
      BY <1>22, <1>a, <1>c, <2>1, <3>1
    <3>3. job'[order[p].job] = job[order[p].job]
      BY <1>22, <1>a, <3>2, LimitCompletesEffect DEF JobWritten
    <3> QED
      BY <1>c, <2>2, <3>1, <3>2, <3>3 DEF Guarded, Watched
  <2> QED
    BY <2>3 DEF UnsettledFits
<1>23. ASSUME NEW c \in Caller, LimitWaits(c)
      PROVE  UnsettledFits'
  BY <1>23, <1>a, TypeFacts, LimitWaitsEffect, <1>c DEF CallBecomes, posVars, restVars,
    UnsettledFits, Guarded, Watched, Quiet
<1>24. ASSUME NEW c \in Caller, CallFails(c)
      PROVE  UnsettledFits'
  BY <1>24, <1>a, TypeFacts, CallEndsEffect, <1>c DEF CallBecomes, posVars, restVars,
    UnsettledFits, Guarded, Watched, Quiet
<1>25. ASSUME TsgReset
      PROVE  UnsettledFits'
  BY <1>25, <1>a, TypeFacts, <1>c DEF TsgReset, posVars, restVars, UnsettledFits, Guarded, Watched,
    Quiet
<1>26. ASSUME NEW j \in Job, JobAges(j)
      PROVE  UnsettledFits'
  BY <1>26, <1>a, TypeFacts, <1>c DEF JobAges, posVars, restVars, UnsettledFits, Guarded, Watched,
    Quiet
<1>27. ASSUME NEW o \in Order, Fill(o)
      PROVE  UnsettledFits'
  <2>1. UNCHANGED <<qty, lock, queue, job, ex, call>>
    BY <1>27, <1>a, FillCalm DEF posVars, restVars
  <2>2. \A p \in Order : order'[p].job = order[p].job /\ order'[p].qty = order[p].qty
    BY <1>27, <1>a, FillCalm DEF OrderMoves
  <2>3. \A p \in Order : Unsettled(p)' => Unsettled(p)
    BY <1>27, <1>a, FillStock
  <2> QED
    BY <1>c, <2>1, <2>2, <2>3 DEF UnsettledFits, Guarded, Watched, Quiet
<1>28. ASSUME NEW o \in Order, ExchangeCancels(o)
      PROVE  UnsettledFits'
  BY <1>28, <1>a, TypeFacts, ExchangeCancelsCalm, <1>c DEF OrdersFade, posVars, restVars,
    UnsettledFits, Guarded, Watched, Quiet
<1>29. ASSUME HandSale
      PROVE  UnsettledFits'
  BY <1>29, <1>b DEF HandSale
<1>30. ASSUME LockExpires
      PROVE  UnsettledFits'
  <2>1. Quiet /\ UNCHANGED <<qty, order, job, queue, ex, call>>
    BY <1>30, <1>b DEF LockExpires, Quiet
  <2>2. \A p \in Order : Unsettled(p)' => Unsettled(p)
    BY <1>c, <2>1 DEF Quiet
  <2> QED
    BY <1>c, <2>1, <2>2 DEF UnsettledFits, Guarded, Watched, Quiet
<1>31. CASE UNCHANGED vars
  BY <1>31, <1>a, <1>c DEF vars, posVars, UnsettledFits, Guarded, Watched, Quiet
<1> QED
  BY <1>a, CalmRulesOut, <1>1, <1>2, <1>3, <1>4, <1>5, <1>6, <1>7, <1>8, <1>9, <1>10, <1>11,
    <1>12, <1>13, <1>14, <1>15, <1>16, <1>17, <1>18, <1>19, <1>20, <1>21, <1>22, <1>23,
    <1>24, <1>25, <1>26, <1>27, <1>28, <1>29, <1>30, <1>31 DEF Next, Executor, Continue

\* Every step keeps that the executor's quantity fits what is left.
LEMMA ExFitsStep == StockHyp /\ [Next]_vars => ExFits'
<1> SUFFICES ASSUME StockHyp, [Next]_vars PROVE ExFits'
  OBVIOUS
<1>a. StockHyp /\ CalmHyp /\ TypeInv /\ DeliveryInv /\ CalmInv /\ StockInv /\ TypeOK /\ TypeOK' /\ Qty \in Nat
  BY SellOrdersAssumption, TypeOKStep DEF CalmHyp, TypeInv, StockHyp
<1>b. /\ "CRASH" \notin Enabled /\ "TIMEOUT" \notin Enabled /\ "EXPIRY" \notin Enabled /\ "CANCEL_API" \notin Enabled
      /\ "HAND_SALE" \notin Enabled /\ "SLOW_QUEUE" \notin Enabled
      /\ \A c \in Caller : call[c].phase \notin {"cancel", "cancelWrite"}
  BY <1>a, CalmEnabled, AccountedEnabled DEF StockHyp, CalmHyp, CalmInv, CallOrder
<1>c. \A p \in Order : Unsettled(p) =>
        order[p].job \in Job /\ order[p].job # None /\ (~Quiet => lock = order[p].job)
  BY <1>a, UnsettledFacts
<1>d. ex.phase # "idle" => ex.job \in Job /\ ~Quiet
  BY <1>a, TypeFacts DEF Quiet
<1>1. ASSUME NEW j \in Job, Take(j)
     PROVE  ExFits'
  BY <1>1, <1>a, TypeFacts, <1>c, <1>d DEF Take, posVars, restVars, StockInv, ExFits, ExIdle
<1>2. ASSUME Mark
     PROVE  ExFits'
  BY <1>2, <1>a, TypeFacts, MarkEffect, NotPlacedYet, <1>c, <1>d DEF JobWritten, ExGoes, posVars,
    restVars, StockInv, ExFits
<1>3. ASSUME CheckFails
     PROVE  ExFits'
  BY <1>3, <1>a, TypeFacts, CheckFailsEffect, NotPlacedYet, <1>c, <1>d DEF JobWritten, posVars,
    restVars, StockInv, ExFits
<1>4. ASSUME CheckPasses
     PROVE  ExFits'
  <2>1. /\ ex'.phase = "valid" /\ ex'.job = ex.job /\ UNCHANGED qty
        /\ job'[ex.job].qty <= job[ex.job].qty /\ job[ex.job].qty <= qty
        /\ job'[ex.job].qty \in Nat /\ ex.job \in Job
    BY <1>4, <1>a, CheckPassesEffect DEF ExGoes, posVars
  <2>2. job[ex.job].qty \in Nat /\ qty \in Nat
    BY <1>a, <2>1 DEF TypeOK, JobRow
  <2>3. job'[ex.job].qty <= qty'
    BY <2>1, <2>2
  <2> QED
    BY <2>1, <2>3 DEF ExFits
<1>5. ASSUME AcquireLock
     PROVE  ExFits'
  BY <1>5, <1>a, TypeFacts, AcquireEffect, NotPlacedYet, NothingLive, <1>c, <1>d DEF ExGoes,
    posVars, restVars, StockInv, ExFits
<1>6. ASSUME LockRefused
     PROVE  ExFits'
  BY <1>6, <1>a, TypeFacts, LockRefusedEffect, NotPlacedYet, <1>c, <1>d DEF JobWritten, posVars,
    restVars, StockInv, ExFits
<1>7. ASSUME NEW o \in Order, Submit(o)
     PROVE  ExFits'
  BY <1>7, <1>a, TypeFacts, SubmitCalm, <1>c, <1>d DEF posVars, restVars, StockInv, ExFits
<1>8. ASSUME SubmitRefused
     PROVE  ExFits'
  BY <1>8, <1>a, TypeFacts, SubmitRefusedEffect, NotPlacedYet, <1>c, <1>d DEF JobWritten, posVars,
    restVars, StockInv, ExFits
<1>9. ASSUME Record
     PROVE  ExFits'
  BY <1>9, <1>a, TypeFacts, RecordedEffect, PlacedOrder, <1>c, <1>d DEF ExGoes, OrderPhase,
    posVars, restVars, StockInv, ExFits
<1>10. ASSUME Rest
      PROVE  ExFits'
  BY <1>10, <1>a, TypeFacts, RestEffect, PlacedOrder, <1>c, <1>d DEF JobWritten, OrderPhase,
    posVars, restVars, StockInv, ExFits
<1>11. ASSUME BookExecution
      PROVE  ExFits'
  BY <1>11, <1>a, TypeFacts, BookExecutionStock, <1>c, <1>d DEF BookedInFull, ExGoes, posVars,
    restVars, StockInv, ExFits
<1>12. ASSUME Complete
      PROVE  ExFits'
  BY <1>12, <1>a, TypeFacts, CompleteCalm, PlacedOrder, <1>c, <1>d DEF JobWritten, OrderPhase,
    posVars, restVars, StockInv, ExFits
<1>13. ASSUME NEW c \in Caller, NEW q \in 1..Qty, NEW ty \in OrderType, CloseRequest(c, q, ty)
      PROVE  ExFits'
  BY <1>13, <1>a, TypeFacts, CloseRequestEffect, <1>c, <1>d DEF CallBecomes, posVars, restVars,
    StockInv, ExFits
<1>14. ASSUME NEW c \in Caller, NEW t \in Trigger, TriggerCheck(c, t)
      PROVE  ExFits'
  BY <1>14, <1>a, TypeFacts, TriggerCheckEffect, <1>c, <1>d DEF CallBecomes, posVars, restVars,
    StockInv, ExFits
<1>15. ASSUME NEW c \in Caller, NEW j \in Job, LimitRead(c, j)
      PROVE  ExFits'
  BY <1>15, <1>a, TypeFacts, LimitReadEffect, <1>c, <1>d DEF CallBecomes, posVars, restVars,
    StockInv, ExFits
<1>16. ASSUME NEW c \in Caller, TriggerFlag(c)
      PROVE  ExFits'
  BY <1>16, <1>a, TypeFacts, TriggerFlagEffect, <1>c, <1>d DEF CallMoves, CallBecomes, posVars,
    restVars, StockInv, ExFits
<1>17. ASSUME NEW c \in Caller, TriggerConfirm(c)
      PROVE  ExFits'
  BY <1>17, <1>a, TypeFacts, TriggerConfirmEffect, <1>c, <1>d DEF CallMoves, CallBecomes, posVars,
    restVars, StockInv, ExFits
<1>18. ASSUME NEW c \in Caller, NEW j \in Job, CreateJob(c, j)
      PROVE  ExFits'
  BY <1>18, <1>a, TypeFacts, CreateJobEffect, <1>c, <1>d DEF posVars, restVars, StockInv, ExFits,
    TypeInv, ExNames, Created
<1>19. ASSUME NEW c \in Caller, Enqueue(c)
      PROVE  ExFits'
  BY <1>19, <1>a, TypeFacts, EnqueueEffect, <1>c, <1>d DEF CallBecomes, posVars, restVars,
    StockInv, ExFits
<1>20. ASSUME NEW c \in Caller, LimitClosed(c)
      PROVE  ExFits'
  BY <1>20, <1>a, TypeFacts, LimitClosedCalm, CallsKnow, <1>c, <1>d DEF JobWritten, CallBecomes,
    OrdersFade, posVars, restVars, StockInv, ExFits, Released
<1>21. ASSUME NEW c \in Caller, LimitFilled(c)
      PROVE  ExFits'
  <2>1. /\ call[c].job \in Job /\ call[c].job # None /\ call[c].job # ex.job
        /\ order[call[c].order].job = call[c].job /\ call[c].order \in Order /\ Unsettled(call[c].order)
        /\ \A k \in Job \ {call[c].job} : job'[k] = job[k]
        /\ UNCHANGED <<lock, ex>>
    BY <1>21, <1>a, LimitFilledStock DEF BookedInFull
  <2>2. ex.phase # "idle" => lock = call[c].job
    BY <1>c, <1>d, <2>1
  <2>3. ex.phase = "locked" => lock = ex.job
    BY <1>a DEF CalmInv, ExOrder
  <2> QED
    BY <1>d, <2>1, <2>2, <2>3 DEF ExFits
<1>22. ASSUME NEW c \in Caller, LimitCompletes(c)
      PROVE  ExFits'
  BY <1>22, <1>a, TypeFacts, LimitCompletesEffect, LimitFilledCalm, CallsKnow, <1>c,
    <1>d DEF JobWritten, CallBecomes, posVars, restVars, StockInv, ExFits
<1>23. ASSUME NEW c \in Caller, LimitWaits(c)
      PROVE  ExFits'
  BY <1>23, <1>a, TypeFacts, LimitWaitsEffect, <1>c, <1>d DEF CallBecomes, posVars, restVars,
    StockInv, ExFits
<1>24. ASSUME NEW c \in Caller, CallFails(c)
      PROVE  ExFits'
  BY <1>24, <1>a, TypeFacts, CallEndsEffect, <1>c, <1>d DEF CallBecomes, posVars, restVars,
    StockInv, ExFits
<1>25. ASSUME TsgReset
      PROVE  ExFits'
  BY <1>25, <1>a, TypeFacts, <1>c, <1>d DEF TsgReset, posVars, restVars, StockInv, ExFits
<1>26. ASSUME NEW j \in Job, JobAges(j)
      PROVE  ExFits'
  BY <1>26, <1>a, TypeFacts, <1>c, <1>d DEF JobAges, posVars, restVars, StockInv, ExFits
<1>27. ASSUME NEW o \in Order, Fill(o)
      PROVE  ExFits'
  BY <1>27, <1>a, TypeFacts, FillCalm, <1>c, <1>d DEF OrderMoves, posVars, restVars, StockInv,
    ExFits
<1>28. ASSUME NEW o \in Order, ExchangeCancels(o)
      PROVE  ExFits'
  BY <1>28, <1>a, TypeFacts, ExchangeCancelsCalm, <1>c, <1>d DEF OrdersFade, posVars, restVars,
    StockInv, ExFits
<1>29. ASSUME HandSale
      PROVE  ExFits'
  BY <1>29, <1>b DEF HandSale
<1>30. ASSUME LockExpires
      PROVE  ExFits'
  BY <1>30, <1>a, TypeFacts, <1>c, <1>d DEF LockExpires, posVars, restVars, StockInv, ExFits
<1>31. CASE UNCHANGED vars
  BY <1>31, <1>a, <1>c, <1>d DEF vars, posVars, StockInv, ExFits
<1> QED
  BY <1>a, CalmRulesOut, <1>1, <1>2, <1>3, <1>4, <1>5, <1>6, <1>7, <1>8, <1>9, <1>10, <1>11,
    <1>12, <1>13, <1>14, <1>15, <1>16, <1>17, <1>18, <1>19, <1>20, <1>21, <1>22, <1>23,
    <1>24, <1>25, <1>26, <1>27, <1>28, <1>29, <1>30, <1>31 DEF Next, Executor, Continue

\* Initially nothing is settled or unsettled.
LEMMA StockInit == Init => StockInv
<1> SUFFICES ASSUME Init PROVE StockInv
  OBVIOUS
<1>1. TypeOK /\ Qty \in Nat
  BY TypeInit, SellOrdersAssumption DEF TypeInv
<1>2. \A o \in Order : ~order[o].live /\ order[o].job = None /\ Filled(o) = 0
  BY DEF Init, NoOrder, Filled
<1> DEFINE f == [o \in Order |-> Due(o)]
<1>3. Settled = SumFunctionOnSet(f, Order)
  BY <1>1, SettledIsSum DEF DueSum
<1>4. \A o \in Order : f[o] = 0
  BY <1>2 DEF Due
<1> HIDE DEF f
<1>5. Settled = 0
  BY <1>3, <1>4, SellOrdersAssumption, SumZero
<1>6. StockKept
  BY <1>1, <1>5 DEF StockKept, Init
<1>7. Unbooked
  BY SellOrdersAssumption DEF Init, NoJob, ExIdle, NoCall, Unbooked
<1> QED
  BY <1>2, <1>6, <1>7 DEF StockInv, LiveUnbooked, UnsettledFits, OneUnsettled, Unsettled, ExFits, Init, ExIdle

\* The orders of a position never sell more than it holds, whoever created
\* them and however they interleave: when the executor and its queue keep up,
\* nothing is lost, every answer tells the status of its order, every execution
\* is booked, passes of the limit-orders monitor do not overlap and nobody sells
\* by hand.
THEOREM NothingOversold == ASSUME Accounted PROVE Spec => []NotOversold
<1>1. Init => StockHyp
  BY AccountedEnabled, TypeInit, DeliveryInit, BookedInit, CalmInit, StockInit DEF StockHyp, CalmHyp
<1>2. StockHyp /\ [Next]_vars => StockHyp'
  <2> SUFFICES ASSUME StockHyp, [Next]_vars PROVE StockHyp'
    OBVIOUS
  <2>1. TypeInv' /\ DeliveryInv' /\ CalmInv' /\ BookedInv'
    BY AccountedEnabled, TypeStep, DeliveryStep, CalmStep, BookedInvStep DEF StockHyp, CalmHyp
  <2>2. StockInv'
    BY UnbookedStep, LiveUnbookedStep, UnsettledStep, UnsettledFitsStep, OneUnsettledStep, ExFitsStep
    DEF StockInv
  <2>3. Calm' /\ Accounted'
    BY AccountedEnabled DEF StockHyp, Calm, Accounted
  <2> QED
    BY <2>1, <2>2, <2>3 DEF StockHyp, CalmHyp
<1>3. StockHyp => NotOversold
  BY AllIsSettled
<1> QED
  BY <1>1, <1>2, <1>3, PTL DEF Spec
=============================================================================
