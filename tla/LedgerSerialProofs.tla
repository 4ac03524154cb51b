-------------------------- MODULE LedgerSerialProofs --------------------------
(***************************************************************************)
(* What PositionLedger guarantees when one call runs at a time: the stored *)
(* quantities of every position agree with its fills, so nothing is sold   *)
(* twice, and the book keeps the promise of Holdings.  BUY_GROUPING is     *)
(* left out, because the merge of a purchase into a partly sold position   *)
(* breaks the agreement (run find_merge_after_sale); what it does not      *)
(* break, the totals, is proved with it (SerialTotals).                    *)
(***************************************************************************)
EXTENDS PositionLedgerProofs, SumLemmas

Serial == \A v, w \in Worker : v = w
NoBuyGrouping == "BUY_GROUPING" \notin Enabled

NoBuyMerge ==
  \A w \in Worker : /\ pc[w] # "buyGroup"
                    /\ pc[w] = "buyFound" => txPos[w] = None

Agree == TotalIsBought /\ RemainingMatchesFills /\ FreshRows
SerialInv == TypeInv /\ Agree /\ NoBuyMerge /\ SnapCurrent /\ GroupLive

\* There is nothing in the book and no call at first.
THEOREM InitSerial == Init => SerialInv
BY InitType DEF Init, SerialInv, Agree, TotalIsBought, RemainingMatchesFills, FreshRows, Live,
   NoBuyMerge, SnapCurrent, GroupLive, SellPhase

\* The quantities of positions and the sums of their fills.
bookVars == <<status, qtyTotal, qtyRemaining, bought, sold>>

\* A step that books nothing.
LEMMA AgreeQuiet ==
  ASSUME Agree, UNCHANGED bookVars
  PROVE  Agree'
BY DEF Agree, TotalIsBought, RemainingMatchesFills, FreshRows, Live, bookVars

\* A step of the only worker that starts, continues or ends a call and books
\* nothing: a phase that has a snapshot has just taken it.
LEMMA SerialQuiet ==
  ASSUME SerialInv, TypeInv', UNCHANGED bookVars, Serial,
         NEW w \in Worker, NEW phase, NEW job, NEW p, NEW o, NEW s,
         Begin(w, phase, job, p, o, s),
         phase # "buyGroup", phase = "buyFound" => p = None,
         phase \in SellPhase \cup {"group", "dust"} => s = Snapshot,
         phase \in {"groupValid", "group"} => Live(p) /\ Live(o)
  PROVE  SerialInv'
<1>1. /\ \A v \in Worker : v = w
      /\ pc'[w] = phase /\ txPos'[w] = p /\ txOther'[w] = o /\ snap'[w] = s
  BY BeginWrites DEF Serial, SerialInv, TypeInv
<1>2. NoBuyMerge'
  BY <1>1 DEF NoBuyMerge
<1>3. SnapCurrent'
  BY <1>1 DEF SnapCurrent, Snapshot, Row, bookVars
<1>4. GroupLive'
  BY <1>1 DEF GroupLive, Live, bookVars
<1>5. QED
  BY <1>2, <1>3, <1>4, AgreeQuiet DEF SerialInv

\* A step of the only worker that books something ends its transaction.
LEMMA SerialBooked ==
  ASSUME SerialInv, TypeInv', Agree', Serial,
         NEW w \in Worker, NEW phase \in {"idle", "finishExecutor", "finishLimit"}, NEW job,
         Begin(w, phase, job, None, None, NoSnap)
  PROVE  SerialInv'
<1>1. (\A v \in Worker : v = w) /\ pc'[w] = phase
  BY BeginWrites DEF Serial, SerialInv, TypeInv
<1>2. phase \notin SellPhase \cup {"buyGroup", "buyFound", "groupValid", "group", "dust"}
  BY DEF SellPhase
<1>3. NoBuyMerge' /\ SnapCurrent' /\ GroupLive'
  BY <1>1, <1>2 DEF NoBuyMerge, SnapCurrent, GroupLive
<1>4. QED
  BY <1>3 DEF SerialInv

\* The steps of a purchase.
LEMMA SerialBuy ==
  ASSUME SerialInv, Serial, NoBuyGrouping, NEW w \in Worker, BuyCall(w)
  PROVE  SerialInv'
<1>0. TypeInv' /\ TypeOK /\ EligibleForGrouping = {}
  BY BuyCallType DEF SerialInv, TypeInv, NoBuyGrouping, EligibleForGrouping
<1>1. ASSUME NEW b \in BuyJob, BuyFind(w, b)
      PROVE  SerialInv'
  <2>1. Begin(w, "buyFound", b, None, None, NoSnap) /\ UNCHANGED bookVars
    BY <1>0, <1>1 DEF BuyFind, posVars, fillVars, bookVars
  <2>2. QED
    BY <1>0, <2>1, SerialQuiet DEF SellPhase
<1>2. ASSUME BuyRead(w) \/ BuyGroup(w)
      PROVE  SerialInv'
  BY <1>2 DEF BuyRead, BuyGroup, SerialInv, NoBuyMerge
<1>3. ASSUME NEW p \in Position, BuyCreate(w, p)
      PROVE  SerialInv'
  <2> DEFINE q == buyQty[txJob[w]]
  <2>1. q \in Nat
    BY <1>0, <1>3 DEF BuyCreate, SerialInv, TypeInv, TypeOK, CallOK, BuyPhase
  <2>2. /\ status[p] = "NONE"
        /\ status' = [status EXCEPT ![p] = "OPEN"]
        /\ qtyTotal' = [qtyTotal EXCEPT ![p] = q]
        /\ qtyRemaining' = [qtyRemaining EXCEPT ![p] = q]
        /\ bought' = [bought EXCEPT ![p] = q]
        /\ UNCHANGED sold
    BY <1>3 DEF BuyCreate
  <2> HIDE DEF q
  <2>3. Agree'
    BY <1>0, <2>1, <2>2 DEF SerialInv, TypeOK, Agree, TotalIsBought, RemainingMatchesFills, FreshRows, Live
  <2>4. QED
    BY <1>0, <1>3, <2>3, SerialBooked DEF BuyCreate, Finish
<1>4. ASSUME BuyFails(w)
      PROVE  SerialInv'
  <2>1. Begin(w, "idle", None, None, None, NoSnap) /\ UNCHANGED bookVars
    BY <1>4 DEF BuyFails, Finish, posVars, fillVars, bookVars
  <2>2. QED
    BY <1>0, <2>1, SerialQuiet DEF SellPhase
<1>5. QED
  BY <1>1, <1>2, <1>3, <1>4 DEF BuyCall

\* What a sale may close is what is left of the position.
LEMMA ClosableIsRemaining ==
  ASSUME SerialInv, NEW w \in Worker, SellApplied(w)
  PROVE  Closable(w) = qtyRemaining[txPos[w]]
<1> DEFINE p == txPos[w]
<1>1. TypeOK /\ p \in Position /\ status[p] = "OPEN"
  BY DEF SellApplied, Refusal, Open, SerialInv, TypeInv, TypeOK
<1>2. snap[w][p].sold = sold[p]
  BY <1>1 DEF SellApplied, SerialInv, SnapCurrent
<1>3. qtyTotal[p] = bought[p] /\ qtyRemaining[p] + sold[p] = bought[p]
  BY <1>1 DEF SerialInv, Agree, TotalIsBought, RemainingMatchesFills, Live
<1>4. {qtyTotal[p], qtyRemaining[p], sold[p], bought[p]} \subseteq Nat
  BY <1>1 DEF TypeOK
<1>5. QED
  BY <1>2, <1>3, <1>4 DEF Closable

\* The steps of a sale.
LEMMA SerialSell ==
  ASSUME SerialInv, Serial, NEW w \in Worker, SellCall(w)
  PROVE  SerialInv'
<1>0. TypeInv' /\ TypeOK
  BY SellCallType DEF SerialInv, TypeInv
<1>1. ASSUME NEW phase \in SellPhase \cup {"listed"}, NEW j, NEW p, NEW s,
             Begin(w, phase, j, p, None, s), phase \in SellPhase => s = Snapshot,
             UNCHANGED <<posVars, fillVars>>
      PROVE  SerialInv'
  BY <1>0, <1>1, SerialQuiet DEF SellPhase, posVars, fillVars, bookVars
<1>2. ASSUME NEW j \in SellJob, LimitList(w, j)
      PROVE  SerialInv'
  <2>1. CASE UNCHANGED txVars
    <3>1. UNCHANGED bookVars
      BY <1>2 DEF LimitList, posVars, fillVars, bookVars
    <3>2. NoBuyMerge' /\ SnapCurrent' /\ GroupLive'
      BY <2>1, <3>1 DEF txVars, bookVars, SerialInv, NoBuyMerge, SnapCurrent, GroupLive, Live
    <3>3. QED
      BY <1>0, <3>1, <3>2, AgreeQuiet DEF SerialInv
  <2>2. CASE Begin(w, "listed", j, None, None, NoSnap)
    BY <1>1, <1>2, <2>2 DEF LimitList, SellPhase
  <2>3. QED
    BY <1>2, <2>1, <2>2 DEF LimitList
<1>3. ASSUME NEW j \in SellJob, SellBegin(w, j)
      PROVE  SerialInv'
  <2>1. PICK phase \in SellPhase : Begin(w, phase, j, sellPos[j], None, Snapshot)
    BY <1>3 DEF SellBegin, SellPhase
  <2>2. QED
    BY <1>1, <1>3, <2>1 DEF SellBegin
<1>4. ASSUME NEW j \in SellJob, NEW p \in Position, SyncBegin(w, j, p)
      PROVE  SerialInv'
  BY <1>1, <1>4 DEF SyncBegin, SellPhase
<1>5. ASSUME LimitBegin(w)
      PROVE  SerialInv'
  BY <1>1, <1>5 DEF LimitBegin, SellPhase
<1>6. ASSUME SellRefused(w) \/ SellFails(w)
      PROVE  SerialInv'
  <2>1. AfterSell(w) /\ UNCHANGED bookVars
    BY <1>6 DEF SellRefused, SellFails, posVars, fillVars, bookVars
  <2>2. QED
    BY <1>0, <2>1, EmptyAfterSell, SerialBooked, AgreeQuiet DEF SerialInv
<1>7. ASSUME SellApplied(w)
      PROVE  SerialInv'
  <2> DEFINE p == txPos[w]
             q == SellClose(w)
  <2>1. p \in Position /\ status[p] = "OPEN" /\ Closable(w) = qtyRemaining[p]
    BY <1>0, <1>7, ClosableIsRemaining DEF SellApplied, Refusal, Open, TypeOK
  <2>2. q \in Nat /\ q <= qtyRemaining[p]
    <3>1. CallQty(w) \in Nat
      BY <1>0, <1>7, <2>1 DEF CallQty, SellApplied, SerialInv, TypeInv, CallOK, TypeOK, RowType
    <3>2. QED
      BY <1>0, <2>1, <3>1 DEF SellClose, TypeOK
  <2>3. /\ qtyRemaining' = [qtyRemaining EXCEPT ![p] = qtyRemaining[p] - q]
        /\ status' = [status EXCEPT ![p] = StatusFor(qtyRemaining[p] - q)]
        /\ sold' = [sold EXCEPT ![p] = @ + q]
        /\ UNCHANGED <<qtyTotal, bought>>
    BY <1>7, <2>1 DEF SellApplied
  <2> HIDE DEF p, q
  <2>4. /\ status \in [Position -> PositionStatus]
        /\ qtyRemaining \in [Position -> Nat] /\ sold \in [Position -> Nat] /\ bought \in [Position -> Nat]
    BY <1>0 DEF TypeOK
  <2>5. Agree'
    BY <2>1, <2>2, <2>3, <2>4
       DEF SerialInv, Agree, TotalIsBought, RemainingMatchesFills, FreshRows, Live, StatusFor
  <2>6. QED
    BY <1>0, <1>7, <2>5, EmptyAfterSell, SerialBooked DEF SellApplied
<1>8. ASSUME ExecutorFinish(w) \/ LimitFinish(w)
      PROVE  SerialInv'
  <2>1. Begin(w, "idle", None, None, None, NoSnap) /\ UNCHANGED bookVars
    BY <1>8 DEF ExecutorFinish, LimitFinish, SetSellStatus, Finish, posVars, fillVars, bookVars
  <2>2. QED
    BY <1>0, <2>1, SerialQuiet DEF SellPhase
<1>9. QED
  BY <1>2, <1>3, <1>4, <1>5, <1>6, <1>7, <1>8 DEF SellCall

\* The steps of groupPositions and of the dust job.
LEMMA SerialRegroup ==
  ASSUME SerialInv, Serial, NEW w \in Worker, RegroupCall(w)
  PROVE  SerialInv'
<1>0. /\ TypeInv' /\ TypeOK
      /\ pc[w] \in {"groupValid", "group"} => /\ txPos[w] \in Position /\ txOther[w] \in Position
                                            /\ txPos[w] # txOther[w]
                                            /\ Live(txPos[w]) /\ Live(txOther[w])
      /\ pc[w] \in {"group", "dust"} => snap[w] = [p \in Position |-> snap[w][p]]
  BY RegroupCallType DEF SerialInv, TypeInv, TypeOK, CallOK, GroupLive
<1>1. ASSUME NEW p \in Position, NEW o \in Position, GroupValidate(w, p, o)
      PROVE  SerialInv'
  <2>1. Begin(w, "groupValid", None, p, o, NoSnap) /\ UNCHANGED bookVars /\ Live(p) /\ Live(o)
    BY <1>1 DEF GroupValidate, posVars, fillVars, bookVars, Open, Live
  <2>2. QED
    BY <1>0, <2>1, SerialQuiet DEF SellPhase
<1>2. ASSUME GroupRead(w)
      PROVE  SerialInv'
  <2>1. /\ Begin(w, "group", None, txPos[w], txOther[w], Snapshot) /\ UNCHANGED bookVars
        /\ Live(txPos[w]) /\ Live(txOther[w])
    BY <1>0, <1>2 DEF GroupRead, posVars, fillVars, bookVars
  <2>2. QED
    BY <1>0, <2>1, SerialQuiet DEF SellPhase
<1>3. ASSUME GroupCommit(w)
      PROVE  SerialInv'
  <2> DEFINE p == txPos[w]
             o == txOther[w]
  <2>1. p \in Position /\ o \in Position /\ p # o /\ Live(p) /\ Live(o)
    BY <1>0, <1>3 DEF GroupCommit
  <2>2. GroupTotal(w) = qtyTotal[p] + qtyTotal[o] /\ GroupRemaining(w) = qtyRemaining[p] + qtyRemaining[o]
    BY <1>3, <2>1 DEF GroupCommit, GroupTotal, GroupRemaining, SerialInv, SnapCurrent
  <2>3. /\ status' = [status EXCEPT ![o] = "DELETED"]
        /\ qtyTotal' = [qtyTotal EXCEPT ![p] = GroupTotal(w), ![o] = 0]
        /\ qtyRemaining' = [qtyRemaining EXCEPT ![p] = GroupRemaining(w), ![o] = 0]
        /\ bought' = [bought EXCEPT ![p] = bought[p] + bought[o], ![o] = 0]
        /\ sold' = [sold EXCEPT ![p] = sold[p] + sold[o], ![o] = 0]
    BY <1>3 DEF GroupCommit
  <2> HIDE DEF p, o
  <2>4. /\ status \in [Position -> PositionStatus] /\ qtyTotal \in [Position -> Nat]
        /\ qtyRemaining \in [Position -> Nat] /\ sold \in [Position -> Nat] /\ bought \in [Position -> Nat]
    BY <1>0 DEF TypeOK
  <2>5. /\ qtyTotal[p] = bought[p] /\ qtyRemaining[p] + sold[p] = bought[p]
        /\ qtyTotal[o] = bought[o] /\ qtyRemaining[o] + sold[o] = bought[o]
    BY <2>1 DEF SerialInv, Agree, TotalIsBought, RemainingMatchesFills
  <2>6. TotalIsBought'
    BY <2>1, <2>2, <2>3, <2>4, <2>5 DEF SerialInv, Agree, TotalIsBought, Live
  <2>7. RemainingMatchesFills'
    BY <2>1, <2>2, <2>3, <2>4, <2>5 DEF SerialInv, Agree, RemainingMatchesFills, Live
  <2>8. FreshRows'
    BY <2>1, <2>3, <2>4 DEF SerialInv, Agree, FreshRows, Live
  <2>9. QED
    BY <1>0, <1>3, <2>6, <2>7, <2>8, SerialBooked DEF GroupCommit, Finish, Agree
<1>4. ASSUME NEW p \in Position, DustBegin(w, p)
      PROVE  SerialInv'
  <2>1. Begin(w, "dust", None, p, None, Snapshot) /\ UNCHANGED bookVars
    BY <1>4 DEF DustBegin, posVars, fillVars, bookVars
  <2>2. QED
    BY <1>0, <2>1, SerialQuiet DEF SellPhase
<1>5. ASSUME NEW b \in BuyJob, NEW d \in Position, DustCommit(w, b, d)
      PROVE  SerialInv'
  <2> DEFINE p == txPos[w]
             q == snap[w][p].remaining
  <2>1. p \in Position /\ p # d /\ Live(p) /\ q = qtyRemaining[p] /\ status[d] = "NONE"
    BY <1>0, <1>5 DEF DustCommit, SerialInv, TypeInv, CallOK, SnapCurrent, Live
  <2>2. /\ status' = [status EXCEPT ![p] = "CLOSED", ![d] = "OPEN"]
        /\ qtyTotal' = [qtyTotal EXCEPT ![d] = q]
        /\ qtyRemaining' = [qtyRemaining EXCEPT ![p] = 0, ![d] = q]
        /\ bought' = [bought EXCEPT ![d] = q]
        /\ sold' = [sold EXCEPT ![p] = @ + q]
    BY <1>5 DEF DustCommit
  <2> HIDE DEF p, q
  <2>3. /\ status \in [Position -> PositionStatus] /\ qtyTotal \in [Position -> Nat]
        /\ qtyRemaining \in [Position -> Nat] /\ sold \in [Position -> Nat] /\ bought \in [Position -> Nat]
    BY <1>0 DEF TypeOK
  <2>4. qtyTotal[p] = bought[p] /\ qtyRemaining[p] + sold[p] = bought[p] /\ sold[d] = 0
    BY <2>1 DEF SerialInv, Agree, TotalIsBought, RemainingMatchesFills, FreshRows
  <2>5. TotalIsBought'
    BY <2>1, <2>2, <2>3, <2>4 DEF SerialInv, Agree, TotalIsBought, Live
  <2>6. RemainingMatchesFills'
    BY <2>1, <2>2, <2>3, <2>4 DEF SerialInv, Agree, RemainingMatchesFills, Live
  <2>7. FreshRows'
    BY <2>1, <2>2, <2>3 DEF SerialInv, Agree, FreshRows, Live
  <2>8. QED
    BY <1>0, <1>5, <2>5, <2>6, <2>7, SerialBooked DEF DustCommit, Finish, Agree
<1>6. ASSUME Abort(w)
      PROVE  SerialInv'
  <2>1. Begin(w, "idle", None, None, None, NoSnap) /\ UNCHANGED bookVars
    BY <1>6 DEF Abort, Finish, posVars, fillVars, bookVars
  <2>2. QED
    BY <1>0, <2>1, SerialQuiet DEF SellPhase
<1>7. QED
  BY <1>1, <1>2, <1>3, <1>4, <1>5, <1>6 DEF RegroupCall

\* Every step keeps the invariant.
LEMMA SerialStep ==
  ASSUME SerialInv, [Next]_vars, Serial, NoBuyGrouping
  PROVE  SerialInv'
<1>1. ASSUME NEW w \in Worker, Call(w)
      PROVE  SerialInv'
  BY <1>1, SerialBuy, SerialSell, SerialRegroup DEF Call, BuyCall, SellCall, RegroupCall
<1>2. ASSUME UNCHANGED <<bookVars, txVars>>
      PROVE  SerialInv'
  <2>1. TypeInv'
    BY TypeInvStep DEF SerialInv
  <2>2. NoBuyMerge' /\ SnapCurrent' /\ GroupLive'
    BY <1>2 DEF SerialInv, NoBuyMerge, SnapCurrent, GroupLive, Live, bookVars, txVars
  <2>3. QED
    BY <1>2, <2>1, <2>2, AgreeQuiet DEF SerialInv
<1>3. ASSUME Environment \/ UNCHANGED vars
      PROVE  UNCHANGED <<bookVars, txVars>>
  BY <1>3 DEF Environment, BuyExecuted, SellExecuted, SellRecorded, NewSell, LockSellByWebhook,
     vars, posVars, fillVars, bookVars, txVars
<1>4. QED
  BY <1>1, <1>2, <1>3 DEF Next

\* With one call at a time the three columns agree: qty_total is what was
\* bought, qty_remaining is qty_total minus what was sold.  Positions may be
\* grouped, converted to dust, sold partly or wholly, by every caller.
THEOREM SerialIntegrity ==
  ASSUME Serial, NoBuyGrouping
  PROVE  Spec => [](TotalIsBought /\ RemainingMatchesFills)
<1>1. SerialInv /\ [Next]_vars => SerialInv'
  BY SerialStep
<1>2. SerialInv => TotalIsBought /\ RemainingMatchesFills
  BY DEF SerialInv, Agree
<1>3. QED
  BY <1>1, <1>2, InitSerial, PTL DEF Spec

\* ... so no position sells more than was bought for it.
THEOREM SerialNoOversell ==
  ASSUME Serial, NoBuyGrouping
  PROVE  Spec => []NoOversell
<1>1. SerialInv /\ [Next]_vars => SerialInv'
  BY SerialStep
<1>2. SerialInv => NoOversell
  BY DEF SerialInv, Agree, RemainingMatchesFills, NoOversell, TypeInv, TypeOK, Live
<1>3. QED
  BY <1>1, <1>2, InitSerial, PTL DEF Spec

(***************************************************************************)
(* Purchases that are merged                                               *)
(***************************************************************************)
\* What keeps the totals when purchases are merged too: a merge adds to the
\* total it read, of rows that are still there.
TotalsRead ==
  \A w \in Worker : pc[w] \in {"buyGroup", "group"} =>
    \A p \in Position : snap[w][p].total = qtyTotal[p]

MergeInv == TypeInv /\ TotalIsBought /\ TotalsRead /\ GroupLive

\* A step of the only worker that writes neither totals nor BUY fills.
LEMMA MergeQuiet ==
  ASSUME MergeInv, TypeInv', Serial, UNCHANGED <<qtyTotal, bought>>,
         \A p \in Position : Live(p)' <=> Live(p),
         NEW w \in Worker, NEW phase, NEW job, NEW p, NEW o, NEW s,
         Begin(w, phase, job, p, o, s),
         phase \in {"buyGroup", "group"} => s = Snapshot,
         phase \in {"groupValid", "group"} => /\ p \in Position /\ o \in Position
                                              /\ Live(p) /\ Live(o)
  PROVE  MergeInv'
<1>1. /\ \A v \in Worker : v = w
      /\ pc'[w] = phase /\ txPos'[w] = p /\ txOther'[w] = o /\ snap'[w] = s
  BY BeginWrites DEF Serial, MergeInv, TypeInv
<1>2. TotalIsBought'
  BY DEF MergeInv, TotalIsBought
<1>3. TotalsRead'
  BY <1>1 DEF TotalsRead, Snapshot, Row
<1>4. GroupLive'
  BY <1>1 DEF GroupLive
<1>5. QED
  BY <1>2, <1>3, <1>4 DEF MergeInv

\* A step of the only worker that books something ends its transaction.
LEMMA MergeBooked ==
  ASSUME TypeInv, TypeInv', TotalIsBought', Serial, NEW w \in Worker,
         Begin(w, "idle", None, None, None, NoSnap)
  PROVE  MergeInv'
<1>1. (\A v \in Worker : v = w) /\ pc'[w] = "idle"
  BY BeginWrites DEF Serial, TypeInv
<1>2. QED
  BY <1>1 DEF MergeInv, TotalsRead, GroupLive

\* The steps of onBuyExecuted.
LEMMA MergeBuy ==
  ASSUME MergeInv, TypeInv', Serial, NEW w \in Worker, BuyCall(w)
  PROVE  MergeInv'
<1>0. TypeInv /\ TypeOK
  BY DEF MergeInv, TypeInv
<1>1. ASSUME UNCHANGED <<status, qtyTotal, bought>>,
             NEW phase \in {"buyFound", "buyNew", "buyGroup", "idle"}, NEW job, NEW p, NEW s,
             Begin(w, phase, job, p, None, s), phase = "buyGroup" => s = Snapshot
      PROVE  MergeInv'
  BY <1>1, MergeQuiet DEF Live
<1>2. ASSUME BuyRead(w) \/ BuyFails(w) \/ \E b \in BuyJob : BuyFind(w, b)
      PROVE  MergeInv'
  <2>1. UNCHANGED <<status, qtyTotal, bought>>
    BY <1>2 DEF BuyRead, BuyFails, BuyFind, posVars, fillVars
  <2>2. \E phase \in {"buyFound", "buyNew", "buyGroup", "idle"} : \E job, p, s :
          Begin(w, phase, job, p, None, s) /\ (phase = "buyGroup" => s = Snapshot)
    BY <1>2 DEF BuyRead, BuyFails, BuyFind, Finish
  <2>3. QED
    BY <1>1, <2>1, <2>2
<1>3. ASSUME NEW p \in Position, BuyCreate(w, p)
      PROVE  MergeInv'
  <2>1. PICK q : q = buyQty[txJob[w]]
    OBVIOUS
  <2>2. /\ status' = [status EXCEPT ![p] = "OPEN"]
        /\ qtyTotal' = [qtyTotal EXCEPT ![p] = q]
        /\ bought' = [bought EXCEPT ![p] = q]
        /\ Begin(w, "idle", None, None, None, NoSnap)
    BY <1>3, <2>1 DEF BuyCreate, Finish
  <2>3. TotalIsBought'
    BY <1>0, <2>2 DEF TypeOK, MergeInv, TotalIsBought, Live
  <2>4. QED
    BY <1>0, <2>2, <2>3, MergeBooked
<1>4. ASSUME BuyGroup(w)
      PROVE  MergeInv'
  <2>1. PICK p \in Position : p = txPos[w] /\ Live(p)
    BY <1>0, <1>4 DEF BuyGroup, TypeInv, CallOK, Live, TypeOK, PositionStatus
  <2>2. PICK q : q = buyQty[txJob[w]]
    OBVIOUS
  <2>3. MergedTotal(w) = bought[p] + q
    BY <1>4, <2>1, <2>2 DEF MergedTotal, BuyGroup, MergeInv, TotalsRead, TotalIsBought
  <2>4. /\ qtyTotal' = [qtyTotal EXCEPT ![p] = bought[p] + q]
        /\ bought' = [bought EXCEPT ![p] = bought[p] + q]
        /\ UNCHANGED status
        /\ Begin(w, "idle", None, None, None, NoSnap)
    BY <1>4, <2>1, <2>2, <2>3 DEF BuyGroup, Finish
  <2>5. TotalIsBought'
    BY <1>0, <2>4 DEF TypeOK, MergeInv, TotalIsBought, Live
  <2>6. QED
    BY <1>0, <2>4, <2>5, MergeBooked
<1>5. QED
  BY <1>2, <1>3, <1>4 DEF BuyCall

\* The steps of onSellExecuted write neither totals nor BUY fills.
LEMMA MergeSell ==
  ASSUME MergeInv, TypeInv', Serial, NEW w \in Worker, SellCall(w)
  PROVE  MergeInv'
<1>0. TypeInv /\ TypeOK
  BY DEF MergeInv, TypeInv
<1>1. UNCHANGED <<qtyTotal, bought>>
  BY DEF SellCall, LimitList, SellBegin, SyncBegin, LimitBegin, SellRefused, SellApplied, SellFails,
     ExecutorFinish, LimitFinish, SetSellStatus, posVars, fillVars
<1>2. \A p \in Position : Live(p)' <=> Live(p)
  <2>1. CASE SellApplied(w)
    <3>1. PICK left : /\ status' = [status EXCEPT ![txPos[w]] = StatusFor(left)]
                      /\ status[txPos[w]] = "OPEN"
      BY <2>1 DEF SellApplied, Refusal, Open
    <3>2. QED
      BY <1>0, <3>1 DEF TypeOK, StatusFor, Live
  <2>2. CASE ~SellApplied(w)
    <3>1. UNCHANGED status
      BY <2>2 DEF SellCall, LimitList, SellBegin, SyncBegin, LimitBegin, SellRefused, SellFails,
         ExecutorFinish, LimitFinish, SetSellStatus, posVars
    <3>2. QED
      BY <3>1 DEF Live
  <2>3. QED
    BY <2>1, <2>2
<1>3. \/ UNCHANGED txVars
      \/ AfterSell(w)
      \/ \E phase \in SellPhase \cup {"listed", "idle"} : \E job, p, s : Begin(w, phase, job, p, None, s)
  BY DEF SellCall, LimitList, SellBegin, SyncBegin, LimitBegin, SellRefused, SellApplied, SellFails,
     ExecutorFinish, LimitFinish, SetSellStatus, Finish, SellPhase
<1>4. CASE UNCHANGED txVars
  BY <1>1, <1>2, <1>4 DEF MergeInv, TotalIsBought, TotalsRead, GroupLive, txVars, TypeInv, CallOK
<1>5. CASE AfterSell(w) \/ \E phase \in SellPhase \cup {"listed", "idle"} : \E job, p, s : Begin(w, phase, job, p, None, s)
  <2>1. PICK phase, job, p, s : /\ Begin(w, phase, job, p, None, s)
                                /\ phase \in SellPhase \cup {"listed", "idle", "finishExecutor", "finishLimit"}
    BY <1>5, EmptyAfterSell
  <2>2. phase \notin {"buyGroup", "groupValid", "group"}
    BY <2>1 DEF SellPhase
  <2>3. QED
    BY <1>1, <1>2, <2>1, <2>2, MergeQuiet
<1>6. QED
  BY <1>3, <1>4, <1>5

\* The steps of groupPositions and convertToDustPosition.
LEMMA MergeRegroup ==
  ASSUME MergeInv, TypeInv', Serial, NEW w \in Worker, RegroupCall(w)
  PROVE  MergeInv'
<1>0. /\ TypeInv /\ TypeOK
      /\ pc[w] \in {"groupValid", "group"} => /\ txPos[w] \in Position /\ txOther[w] \in Position
                                            /\ txPos[w] # txOther[w]
                                            /\ Live(txPos[w]) /\ Live(txOther[w])
  BY DEF MergeInv, TypeInv, CallOK, GroupLive
<1>1. ASSUME NEW p \in Position, NEW o \in Position, GroupValidate(w, p, o)
      PROVE  MergeInv'
  <2>1. /\ Begin(w, "groupValid", None, p, o, NoSnap) /\ UNCHANGED <<status, qtyTotal, bought>>
        /\ Live(p) /\ Live(o)
    BY <1>1 DEF GroupValidate, posVars, fillVars, Open, Live
  <2>2. QED
    BY <2>1, MergeQuiet DEF Live
<1>2. ASSUME GroupRead(w)
      PROVE  MergeInv'
  <2>1. PICK p \in Position, o \in Position :
          Begin(w, "group", None, p, o, Snapshot) /\ Live(p) /\ Live(o)
    BY <1>0, <1>2 DEF GroupRead
  <2>2. UNCHANGED <<status, qtyTotal, bought>>
    BY <1>2 DEF GroupRead, posVars, fillVars
  <2>3. QED
    BY <2>1, <2>2, MergeQuiet DEF Live
<1>3. ASSUME GroupCommit(w)
      PROVE  MergeInv'
  <2>1. PICK p \in Position, o \in Position : p = txPos[w] /\ o = txOther[w] /\ p # o /\ Live(p) /\ Live(o)
    BY <1>0, <1>3 DEF GroupCommit
  <2>2. GroupTotal(w) = bought[p] + bought[o]
    BY <1>3, <2>1 DEF GroupCommit, GroupTotal, MergeInv, TotalsRead, TotalIsBought
  <2>3. /\ status' = [status EXCEPT ![o] = "DELETED"]
        /\ qtyTotal' = [qtyTotal EXCEPT ![p] = bought[p] + bought[o], ![o] = 0]
        /\ bought' = [bought EXCEPT ![p] = bought[p] + bought[o], ![o] = 0]
        /\ Begin(w, "idle", None, None, None, NoSnap)
    BY <1>3, <2>1, <2>2 DEF GroupCommit, Finish
  <2>4. TotalIsBought'
    BY <1>0, <2>1, <2>3 DEF TypeOK, MergeInv, TotalIsBought, Live
  <2>5. QED
    BY <1>0, <2>3, <2>4, MergeBooked
<1>4. ASSUME (\E p \in Position : DustBegin(w, p)) \/ Abort(w)
      PROVE  MergeInv'
  <2>1. /\ UNCHANGED <<status, qtyTotal, bought>>
        /\ \E phase \in {"dust", "idle"} : \E p, s : Begin(w, phase, None, p, None, s)
    BY <1>4 DEF DustBegin, Abort, Finish, posVars, fillVars
  <2>2. QED
    BY <2>1, MergeQuiet DEF Live
<1>5. ASSUME NEW b \in BuyJob, NEW d \in Position, DustCommit(w, b, d)
      PROVE  MergeInv'
  <2>1. PICK p \in Position : p = txPos[w] /\ Live(p) /\ p # d
    BY <1>0, <1>5 DEF DustCommit, TypeInv, CallOK, Live
  <2>2. PICK q : q = snap[w][p].remaining
    OBVIOUS
  <2>3. /\ status' = [status EXCEPT ![p] = "CLOSED", ![d] = "OPEN"]
        /\ qtyTotal' = [qtyTotal EXCEPT ![d] = q]
        /\ bought' = [bought EXCEPT ![d] = q]
        /\ Begin(w, "idle", None, None, None, NoSnap)
    BY <1>5, <2>1, <2>2 DEF DustCommit, Finish
  <2>4. TotalIsBought'
    BY <1>0, <2>1, <2>3 DEF TypeOK, MergeInv, TotalIsBought, Live
  <2>5. QED
    BY <1>0, <2>3, <2>4, MergeBooked
<1>6. QED
  BY <1>1, <1>2, <1>3, <1>4, <1>5 DEF RegroupCall

\* With one call at a time qty_total is what was bought for the position,
\* whatever the deployment enables: a merge of a purchase, a group and a
\* residue of dust neither lose nor invent any.
THEOREM SerialTotals == ASSUME Serial PROVE Spec => []TotalIsBought
<1>1. Init => MergeInv
  BY InitType DEF Init, MergeInv, TotalIsBought, TotalsRead, GroupLive, Live
<1>2. MergeInv /\ [Next]_vars => MergeInv'
  <2> SUFFICES ASSUME MergeInv, [Next]_vars PROVE MergeInv'
    OBVIOUS
  <2>1. TypeInv'
    BY TypeInvStep DEF MergeInv
  <2>2. ASSUME NEW w \in Worker, Call(w) PROVE MergeInv'
    BY <2>1, <2>2, MergeBuy, MergeSell, MergeRegroup DEF Call, BuyCall, SellCall, RegroupCall
  <2>3. ASSUME Environment \/ UNCHANGED vars PROVE MergeInv'
    <3>1. UNCHANGED <<status, qtyTotal, bought, txVars>>
      BY <2>3 DEF Environment, BuyExecuted, SellExecuted, SellRecorded, NewSell, LockSellByWebhook,
         vars, posVars, fillVars
    <3>2. QED
      BY <2>1, <3>1 DEF MergeInv, TotalIsBought, TotalsRead, GroupLive, Live, txVars
  <2>4. QED
    BY <2>2, <2>3 DEF Next
<1>3. MergeInv => TotalIsBought
  BY DEF MergeInv
<1>4. QED
  BY <1>1, <1>2, <1>3, PTL DEF Spec

(***************************************************************************)
(* The promise of Holdings                                                 *)
(***************************************************************************)
\* What the book still needs besides SerialInv: no row that does not exist
\* holds anything, executions are positive, and each is booked once.  A sync
\* endpoint would book a purchase again that a group of groups forgot.
NoneEmpty == \A p \in Position : status[p] = "NONE" => qtyRemaining[p] = 0
NothingForgotten == Unsynced \/ Ungrouped
HoldInv ==
  /\ SerialInv /\ SellsInv /\ BuysInv /\ NoneEmpty /\ PositiveQty /\ DustRead
  /\ Ungrouped => EmptyInv /\ BuysKept

\* The variables of Holdings, as functions of constants.
Booked == [b \in BuyJob |-> IF buyStatus[b] = "PENDING" THEN 0 ELSE boughtBy[b]]

\* The sum that INSTANCE Holdings calls held is over all the rows.
LEMMA HeldSum ==
  /\ TypeOK => SumFunction(qtyRemaining) = SumFunctionOnSet(qtyRemaining, Position)
  /\ TypeOK' => SumFunction(qtyRemaining)' = SumFunctionOnSet(qtyRemaining', Position)
BY DEF SumFunction, TypeOK

\* The two steps of Holdings, and its variables, in terms of Booked.
LEMMA PromiseSteps ==
  /\ \A b : Promise!BookBuy(b) <=> /\ Booked[b] = 0
                                   /\ Booked'[b] > 0
                                   /\ Booked' = [Booked EXCEPT ![b] = Booked'[b]]
                                   /\ SumFunction(qtyRemaining)' = SumFunction(qtyRemaining) + Booked'[b]
                                   /\ UNCHANGED soldBy
  /\ \A j : Promise!BookSell(j) <=> /\ soldBy[j] = 0
                                    /\ soldBy'[j] \in 1..SumFunction(qtyRemaining)
                                    /\ soldBy' = [soldBy EXCEPT ![j] = soldBy'[j]]
                                    /\ SumFunction(qtyRemaining)' = SumFunction(qtyRemaining) - soldBy'[j]
                                    /\ UNCHANGED Booked
  /\ UNCHANGED Promise!hvars <=> /\ SumFunction(qtyRemaining)' = SumFunction(qtyRemaining)
                                 /\ UNCHANGED <<Booked, soldBy>>
BY DEF Promise!BookBuy, Promise!BookSell, Promise!hvars, Booked

\* How the sum changes with one row.
LEMMA HeldChange ==
  ASSUME TypeOK, TypeOK', NEW p \in Position, \A r \in Position \ {p} : qtyRemaining'[r] = qtyRemaining[r]
  PROVE  /\ SumFunction(qtyRemaining) \in Nat /\ qtyRemaining[p] <= SumFunction(qtyRemaining)
         /\ SumFunction(qtyRemaining)' = SumFunction(qtyRemaining) - qtyRemaining[p] + qtyRemaining'[p]
<1>1. PICK f, g : f = qtyRemaining /\ g = qtyRemaining'
  OBVIOUS
<1>2. /\ IsFiniteSet(Position)
      /\ \A x \in Position : f[x] \in Nat /\ g[x] \in Nat
      /\ \A x \in Position \ {p} : f[x] = g[x]
  BY <1>1, LedgerAssumption DEF TypeOK
<1>3. SumFunctionOnSet(g, Position) = SumFunctionOnSet(f, Position) - f[p] + g[p]
  <2>1. \A x \in Position : f[x] \in Int /\ g[x] \in Int
    BY <1>2
  <2>2. QED
    BY <1>2, <2>1, SumChange
<1>4. SumFunctionOnSet(f, Position) \in Nat /\ f[p] <= SumFunctionOnSet(f, Position)
  BY <1>2, SumNat
<1>5. QED
  BY <1>1, <1>3, <1>4, HeldSum

\* ... and with two: what one row loses the other one gains.
LEMMA HeldMoved ==
  ASSUME TypeOK, TypeOK', NEW p \in Position, NEW o \in Position, p # o,
         \A r \in Position \ {p, o} : qtyRemaining'[r] = qtyRemaining[r],
         qtyRemaining'[p] + qtyRemaining'[o] = qtyRemaining[p] + qtyRemaining[o]
  PROVE  SumFunction(qtyRemaining)' = SumFunction(qtyRemaining)
<1>1. PICK f, g : f = qtyRemaining /\ g = qtyRemaining'
  OBVIOUS
<1>2. PICK m : m = [r \in Position |-> IF r = p THEN g[p] ELSE f[r]]
  OBVIOUS
<1>3. /\ IsFiniteSet(Position)
      /\ \A x \in Position : f[x] \in Int /\ g[x] \in Int /\ m[x] \in Int
      /\ m[p] = g[p] /\ m[o] = f[o] /\ g[p] + g[o] = f[p] + f[o]
      /\ \A x \in Position \ {p} : f[x] = m[x]
      /\ \A x \in Position \ {o} : m[x] = g[x]
  BY <1>1, <1>2, LedgerAssumption DEF TypeOK
<1>4. SumFunctionOnSet(m, Position) = SumFunctionOnSet(f, Position) - f[p] + m[p]
  <2>1. \A x \in Position : f[x] \in Int /\ m[x] \in Int
    BY <1>3
  <2>2. QED
    BY <1>3, <2>1, SumChange
<1>5. SumFunctionOnSet(g, Position) = SumFunctionOnSet(m, Position) - m[o] + g[o]
  <2>1. /\ IsFiniteSet(Position)
        /\ \A x \in Position : m[x] \in Int /\ g[x] \in Int
        /\ \A x \in Position \ {o} : m[x] = g[x]
    BY <1>3
  <2>2. QED
    BY <2>1, SumChange
<1>6. SumFunctionOnSet(f, Position) \in Int
  BY <1>3, SumInt
<1>7. SumFunctionOnSet(g, Position) = SumFunctionOnSet(f, Position)
  BY <1>3, <1>4, <1>5, <1>6
<1>8. QED
  BY <1>1, <1>7, HeldSum

\* The executions of this book are positive, and so is a residue about to be
\* converted.
LEMMA PositiveStep ==
  ASSUME TypeInv, PositiveQty, DustRead, [Next]_vars
  PROVE  PositiveQty' /\ DustRead'
<1>0. TypeOK
  BY DEF TypeInv
<1>1. ASSUME NEW w \in Worker, NEW phase, phase # "dust", NEW job, NEW p, NEW o, NEW s,
             Begin(w, phase, job, p, o, s)
      PROVE  DustRead'
  BY <1>0, <1>1, BeginWrites DEF DustRead
<1>2. ASSUME NEW b \in BuyJob, buyStatus[b] # "NONE", BuyFilled(b), UNCHANGED buyQty
      PROVE  PositiveQty'
  BY <1>0, <1>2 DEF PositiveQty, BuyFilled, TypeOK
<1>3. ASSUME NEW w \in Worker, BuyCall(w)
      PROVE  PositiveQty' /\ DustRead'
  <2>1. \E phase \in {"buyFound", "buyNew", "buyGroup", "idle"} : \E job, p, s : Begin(w, phase, job, p, None, s)
    BY <1>3 DEF BuyCall, BuyFind, BuyRead, BuyCreate, BuyGroup, BuyFails, Finish
  <2>2. CASE UNCHANGED buyVars
    BY <1>1, <2>1, <2>2 DEF PositiveQty, buyVars
  <2>3. CASE pc[w] \in BuyPhase /\ BuyFilled(txJob[w]) /\ UNCHANGED buyQty
    BY <1>1, <1>2, <2>1, <2>3 DEF TypeInv, CallOK
  <2>4. QED
    BY <1>3, <2>2, <2>3 DEF BuyCall, BuyFind, BuyRead, BuyCreate, BuyGroup, BuyFails, BuyPhase
<1>4. ASSUME NEW w \in Worker, SellCall(w)
      PROVE  PositiveQty' /\ DustRead'
  <2>1. /\ UNCHANGED buyVars
        /\ \/ UNCHANGED txVars
           \/ AfterSell(w)
           \/ \E phase \in SellPhase \cup {"listed", "idle"} : \E job, p, s : Begin(w, phase, job, p, None, s)
    BY <1>4 DEF SellCall, LimitList, SellBegin, SyncBegin, LimitBegin, SellRefused, SellApplied, SellFails,
       ExecutorFinish, LimitFinish, SetSellStatus, Finish, SellPhase
  <2>2. DustRead'
    <3>1. CASE UNCHANGED txVars
      BY <3>1 DEF DustRead, txVars
    <3>2. CASE ~UNCHANGED txVars
      <4>1. PICK phase, job, p, s : /\ Begin(w, phase, job, p, None, s)
                                    /\ phase \in SellPhase \cup {"listed", "idle", "finishExecutor", "finishLimit"}
        BY <2>1, <3>2, EmptyAfterSell
      <4>2. QED
        BY <1>1, <4>1 DEF SellPhase
    <3>3. QED
      BY <3>1, <3>2
  <2>3. QED
    BY <2>1, <2>2 DEF PositiveQty, buyVars
<1>5. ASSUME NEW w \in Worker, NEW p \in Position, DustBegin(w, p)
      PROVE  PositiveQty' /\ DustRead'
  <2>1. Begin(w, "dust", None, p, None, Snapshot) /\ qtyRemaining[p] > 0 /\ UNCHANGED buyVars
    BY <1>5 DEF DustBegin, Open
  <2>2. Snapshot[p].remaining > 0
    BY <2>1 DEF Snapshot, Row
  <2>3. QED
    BY <1>0, <2>1, <2>2, BeginWrites DEF PositiveQty, DustRead, buyVars
<1>6. ASSUME NEW w \in Worker, NEW b \in BuyJob, NEW d \in Position, DustCommit(w, b, d)
      PROVE  PositiveQty' /\ DustRead'
  <2>1. PICK q : q = snap[w][txPos[w]].remaining
    OBVIOUS
  <2>2. q > 0 /\ buyQty' = [buyQty EXCEPT ![b] = q] /\ buyStatus' = [buyStatus EXCEPT ![b] = "PENDING"]
        /\ Begin(w, "idle", None, None, None, NoSnap)
    BY <1>6, <2>1 DEF DustCommit, DustRead, Finish
  <2>3. QED
    BY <1>0, <1>1, <2>2 DEF PositiveQty, TypeOK
<1>7. ASSUME NEW w \in Worker, RegroupCall(w), \A b \in BuyJob, d \in Position : ~DustCommit(w, b, d),
             \A p \in Position : ~DustBegin(w, p)
      PROVE  PositiveQty' /\ DustRead'
  <2>1. /\ UNCHANGED buyVars
        /\ \E phase \in {"idle", "groupValid", "group"} : \E p, o, s : Begin(w, phase, None, p, o, s)
    BY <1>7 DEF RegroupCall, GroupValidate, GroupRead, GroupCommit, Abort, Finish
  <2>2. QED
    BY <1>1, <2>1 DEF PositiveQty, buyVars
<1>8. ASSUME Environment \/ UNCHANGED vars
      PROVE  PositiveQty' /\ DustRead'
  <2>1. UNCHANGED txVars
    BY <1>8 DEF Environment, BuyExecuted, SellExecuted, SellRecorded, NewSell, LockSellByWebhook, vars
  <2>2. UNCHANGED buyVars \/ \E b \in BuyJob, q \in 1..MaxQty : BuyExecuted(b, q)
    BY <1>8 DEF Environment, SellExecuted, SellRecorded, NewSell, LockSellByWebhook, vars
  <2>3. ASSUME NEW b \in BuyJob, NEW q \in 1..MaxQty, BuyExecuted(b, q)
        PROVE  PositiveQty'
    <3>1. q > 0 /\ buyQty' = [buyQty EXCEPT ![b] = q] /\ \E st : buyStatus' = [buyStatus EXCEPT ![b] = st]
      BY <2>3, LedgerAssumption DEF BuyExecuted
    <3>2. QED
      BY <1>0, <3>1 DEF PositiveQty, TypeOK
  <2>4. PositiveQty'
    BY <2>2, <2>3 DEF PositiveQty, buyVars
  <2>5. QED
    BY <2>1, <2>4 DEF DustRead, txVars
<1>9. QED
  BY <1>3, <1>4, <1>5, <1>6, <1>7, <1>8 DEF Next, Call, BuyCall, SellCall, RegroupCall

\* The steps of PositionLedger that are invisible in Holdings: they write none
\* of the three variables.
LEMMA HoldQuiet ==
  ASSUME UNCHANGED <<qtyRemaining, boughtBy, soldBy>>,
         \A b \in BuyJob : buyStatus'[b] = "PENDING" <=> buyStatus[b] = "PENDING"
  PROVE  UNCHANGED Promise!hvars
<1>1. UNCHANGED Booked
  BY DEF Booked
<1>2. SumFunction(qtyRemaining)' = SumFunction(qtyRemaining)
  OBVIOUS
<1>3. QED
  BY <1>1, <1>2, PromiseSteps

\* onBuyExecuted books its purchase when it creates the position.
LEMMA HoldBuy ==
  ASSUME HoldInv, TypeOK', NEW w \in Worker, BuyCall(w), NothingForgotten
  PROVE  (\E b \in BuyJob : Promise!BookBuy(b)) \/ UNCHANGED Promise!hvars
<1>0. TypeOK /\ NoBuyMerge /\ (pc[w] \in BuyPhase => txJob[w] \in BuyJob)
  BY DEF HoldInv, SerialInv, TypeInv, CallOK
<1>1. ASSUME (\E b \in BuyJob : BuyFind(w, b)) \/ BuyRead(w)
      PROVE  UNCHANGED Promise!hvars
  BY <1>1, HoldQuiet DEF BuyFind, BuyRead, posVars, fillVars, buyVars
<1>2. ASSUME BuyFails(w)
      PROVE  UNCHANGED Promise!hvars
  <2>1. buyStatus[txJob[w]] = "EXECUTING" /\ buyStatus' = [buyStatus EXCEPT ![txJob[w]] = "FILLED"]
        /\ UNCHANGED <<qtyRemaining, boughtBy, soldBy>>
    BY <1>2 DEF BuyFails, BuyFilled, posVars, fillVars
  <2>2. QED
    BY <1>0, <2>1, HoldQuiet DEF TypeOK
<1>3. ASSUME NEW p \in Position, BuyCreate(w, p)
      PROVE  \E b \in BuyJob : Promise!BookBuy(b)
  <2>1. PICK b \in BuyJob : b = txJob[w] /\ pc[w] \in BuyPhase
    BY <1>0, <1>3 DEF BuyCreate, BuyPhase
  <2>2. PICK q \in Nat : q = buyQty[b]
    BY <1>0 DEF TypeOK
  <2>3. q > 0 /\ buyStatus[b] # "PENDING" /\ boughtBy[b] = 0
    <3>1. q > 0 /\ buyStatus[b] \in {"EXECUTING", "PENDING_LIMIT", "FILLED"} /\ OpenedBy(b) = {}
      BY <1>3, <2>1, <2>2 DEF HoldInv, BuysInv, BuysInHand, PositiveQty, BuyCreate
    <3>2. CASE Unsynced
      BY <2>1, <3>1, <3>2 DEF HoldInv, BuysInv, BuysOnce, BuyOpen
    <3>3. CASE Ungrouped
      BY <3>1, <3>3 DEF HoldInv, BuysKept
    <3>4. QED
      BY <3>1, <3>2, <3>3 DEF NothingForgotten
  <2>4. /\ status[p] = "NONE" /\ qtyRemaining[p] = 0
        /\ qtyRemaining' = [qtyRemaining EXCEPT ![p] = q]
        /\ boughtBy' = [boughtBy EXCEPT ![b] = @ + q]
        /\ buyStatus' = [buyStatus EXCEPT ![b] = "FILLED"]
        /\ UNCHANGED soldBy
    BY <1>3, <2>1, <2>2 DEF BuyCreate, BuyFilled, HoldInv, NoneEmpty
  <2>5. SumFunction(qtyRemaining)' = SumFunction(qtyRemaining) + q
    <3>1. qtyRemaining'[p] = q /\ \A r \in Position \ {p} : qtyRemaining'[r] = qtyRemaining[r]
      BY <1>0, <2>4 DEF TypeOK
    <3>2. /\ SumFunction(qtyRemaining) \in Nat
          /\ SumFunction(qtyRemaining)' = SumFunction(qtyRemaining) - qtyRemaining[p] + qtyRemaining'[p]
      BY <1>0, <3>1, HeldChange
    <3>3. QED
      BY <2>4, <3>1, <3>2
  <2>6. Booked[b] = 0 /\ Booked' = [Booked EXCEPT ![b] = q]
    <3>1. boughtBy'[b] = q /\ buyStatus'[b] = "FILLED"
      BY <1>0, <2>3, <2>4 DEF TypeOK
    <3>2. \A c \in BuyJob \ {b} : boughtBy'[c] = boughtBy[c] /\ buyStatus'[c] = buyStatus[c]
      BY <1>0, <2>4 DEF TypeOK
    <3>3. QED
      BY <2>3, <3>1, <3>2 DEF Booked
  <2>7. Booked'[b] = q
    BY <2>6 DEF Booked
  <2>8. QED
    BY <2>3, <2>4, <2>5, <2>6, <2>7, PromiseSteps
<1>4. ~BuyGroup(w)
  BY <1>0 DEF BuyGroup, NoBuyMerge
<1>5. QED
  BY <1>1, <1>2, <1>3, <1>4 DEF BuyCall

\* onSellExecuted books its sale when it writes the fill.
LEMMA HoldSell ==
  ASSUME HoldInv, TypeOK', NEW w \in Worker, SellCall(w)
  PROVE  (\E j \in SellJob : Promise!BookSell(j)) \/ UNCHANGED Promise!hvars
<1>0. TypeOK
  BY DEF HoldInv, SerialInv, TypeInv
<1>1. CASE ~SellApplied(w)
  <2>1. UNCHANGED <<qtyRemaining, boughtBy, soldBy, buyStatus>>
    BY <1>1 DEF SellCall, LimitList, SellBegin, SyncBegin, LimitBegin, SellRefused, SellFails,
       ExecutorFinish, LimitFinish, SetSellStatus, posVars, fillVars, buyVars
  <2>2. QED
    BY <2>1, HoldQuiet
<1>2. CASE SellApplied(w)
  <2>1. PICK j \in SellJob, p \in Position : j = txJob[w] /\ p = txPos[w] /\ pc[w] \in SellHand
    BY <1>0, <1>2 DEF SellApplied, HoldInv, SerialInv, TypeInv, TypeOK, CallOK, SellHand
  <2>2. PICK q : q = SellClose(w)
    OBVIOUS
  <2>3. q \in Nat /\ q > 0 /\ q <= qtyRemaining[p] /\ Closable(w) = qtyRemaining[p]
    <3>1. CallQty(w) \in Nat
      BY <1>0, <2>1 DEF CallQty, TypeOK, RowType
    <3>2. Closable(w) = qtyRemaining[p] /\ qtyRemaining[p] \in Nat
      BY <1>0, <1>2, <2>1, ClosableIsRemaining DEF HoldInv, TypeOK
    <3>3. QED
      BY <1>2, <2>2, <3>1, <3>2 DEF SellApplied, SellClose
  <2>4. /\ qtyRemaining' = [qtyRemaining EXCEPT ![p] = qtyRemaining[p] - q]
        /\ soldBy' = [soldBy EXCEPT ![j] = @ + q]
        /\ UNCHANGED <<boughtBy, buyStatus>>
    BY <1>2, <2>1, <2>2, <2>3 DEF SellApplied, buyVars
  <2>5. soldBy[j] = 0
    BY <2>1 DEF HoldInv, SellsInv, SellsOnce, SellOpen
  <2>6. /\ qtyRemaining[p] \in Nat /\ qtyRemaining'[p] = qtyRemaining[p] - q
        /\ \A r \in Position \ {p} : qtyRemaining'[r] = qtyRemaining[r]
    BY <1>0, <2>4 DEF TypeOK
  <2>7. /\ SumFunction(qtyRemaining) \in Nat /\ qtyRemaining[p] <= SumFunction(qtyRemaining)
        /\ SumFunction(qtyRemaining)' = SumFunction(qtyRemaining) - qtyRemaining[p] + qtyRemaining'[p]
    BY <1>0, <2>6, HeldChange
  <2>8. /\ q \in 1..SumFunction(qtyRemaining)
        /\ SumFunction(qtyRemaining)' = SumFunction(qtyRemaining) - q
    BY <2>3, <2>6, <2>7
  <2>9. soldBy'[j] = q /\ soldBy' = [soldBy EXCEPT ![j] = q]
    BY <1>0, <2>3, <2>4, <2>5 DEF TypeOK
  <2>10. UNCHANGED Booked
    BY <2>4 DEF Booked
  <2>11. QED
    BY <2>5, <2>8, <2>9, <2>10, PromiseSteps
<1>3. QED
  BY <1>1, <1>2

\* Grouping and converting move a quantity from one position to another one.
LEMMA HoldRegroup ==
  ASSUME HoldInv, TypeOK', NEW w \in Worker, RegroupCall(w), NothingForgotten
  PROVE  UNCHANGED Promise!hvars
<1>0. /\ TypeInv /\ TypeOK
      /\ pc[w] = "group" => /\ txPos[w] \in Position /\ txOther[w] \in Position
                            /\ txPos[w] # txOther[w]
                            /\ Live(txPos[w]) /\ Live(txOther[w])
      /\ pc[w] \in {"group", "dust"} =>
           \A r \in Position : snap[w][r].remaining = qtyRemaining[r]
  BY DEF HoldInv, SerialInv, TypeInv, CallOK, GroupLive, SnapCurrent
<1>1. CASE GroupCommit(w)
  <2>1. PICK p \in Position, o \in Position : p = txPos[w] /\ o = txOther[w] /\ p # o
    BY <1>0, <1>1 DEF GroupCommit
  <2>2. GroupRemaining(w) = qtyRemaining[p] + qtyRemaining[o]
    BY <1>0, <1>1, <2>1 DEF GroupCommit, GroupRemaining
  <2>3. /\ qtyRemaining' = [qtyRemaining EXCEPT ![p] = qtyRemaining[p] + qtyRemaining[o], ![o] = 0]
        /\ UNCHANGED <<boughtBy, soldBy, buyStatus>>
    BY <1>1, <2>1, <2>2 DEF GroupCommit, buyVars
  <2>4. /\ qtyRemaining'[p] + qtyRemaining'[o] = qtyRemaining[p] + qtyRemaining[o]
        /\ \A r \in Position \ {p, o} : qtyRemaining'[r] = qtyRemaining[r]
    BY <1>0, <2>1, <2>3 DEF TypeOK
  <2>5. SumFunction(qtyRemaining)' = SumFunction(qtyRemaining)
    BY <1>0, <2>1, <2>4, HeldMoved
  <2>6. UNCHANGED Booked
    BY <2>3 DEF Booked
  <2>7. QED
    BY <2>3, <2>5, <2>6, PromiseSteps
<1>2. ASSUME NEW b \in BuyJob, NEW d \in Position, DustCommit(w, b, d)
      PROVE  UNCHANGED Promise!hvars
  <2>1. PICK p \in Position : p = txPos[w] /\ p # d /\ status[d] = "NONE"
    BY <1>0, <1>2 DEF DustCommit, TypeInv, CallOK, Live
  <2>2. PICK q : q = snap[w][p].remaining
    OBVIOUS
  <2>3. q = qtyRemaining[p] /\ qtyRemaining[d] = 0
    BY <1>0, <1>2, <2>1, <2>2 DEF DustCommit, HoldInv, NoneEmpty
  <2>4. /\ qtyRemaining' = [qtyRemaining EXCEPT ![p] = 0, ![d] = q]
        /\ boughtBy' = [boughtBy EXCEPT ![b] = q]
        /\ buyStatus[b] = "NONE" /\ buyStatus' = [buyStatus EXCEPT ![b] = "PENDING"]
        /\ UNCHANGED soldBy
    BY <1>2, <2>1, <2>2 DEF DustCommit
  <2>5. /\ qtyRemaining'[p] + qtyRemaining'[d] = qtyRemaining[p] + qtyRemaining[d]
        /\ \A r \in Position \ {p, d} : qtyRemaining'[r] = qtyRemaining[r]
    BY <1>0, <2>1, <2>3, <2>4 DEF TypeOK
  <2>6. SumFunction(qtyRemaining)' = SumFunction(qtyRemaining)
    BY <1>0, <2>1, <2>5, HeldMoved
  <2>7. UNCHANGED Booked
    <3>1. boughtBy[b] = 0
      <4>1. CASE Unsynced
        BY <2>4, <4>1 DEF HoldInv, BuysInv, BuysOnce, BuyOpen, Unreported
      <4>2. CASE Ungrouped
        BY <2>4, <4>2 DEF HoldInv, BuysKept
      <4>3. QED
        BY <4>1, <4>2 DEF NothingForgotten
    <3>2. buyStatus'[b] = "PENDING" /\ \A c \in BuyJob \ {b} : buyStatus'[c] = buyStatus[c] /\ boughtBy'[c] = boughtBy[c]
      BY <1>0, <2>4 DEF TypeOK
    <3>3. QED
      BY <2>4, <3>1, <3>2 DEF Booked
  <2>8. QED
    BY <2>4, <2>6, <2>7, PromiseSteps
<1>3. CASE ~GroupCommit(w) /\ \A b \in BuyJob, d \in Position : ~DustCommit(w, b, d)
  <2>1. UNCHANGED <<qtyRemaining, boughtBy, soldBy, buyStatus>>
    BY <1>3 DEF RegroupCall, GroupValidate, GroupRead, DustBegin, Abort, posVars, fillVars, buyVars
  <2>2. QED
    BY <2>1, HoldQuiet
<1>4. QED
  BY <1>1, <1>2, <1>3

\* Rows that do not exist stay empty.
LEMMA NoneEmptyStep ==
  ASSUME SerialInv, NoneEmpty, [Next]_vars
  PROVE  NoneEmpty'
<1>0. TypeInv /\ TypeOK /\ NoBuyMerge /\ GroupLive
  BY DEF SerialInv, TypeInv
<1>1. ASSUME \A p \in Position : status'[p] = "NONE" =>
               status[p] = "NONE" /\ qtyRemaining'[p] = qtyRemaining[p]
      PROVE  NoneEmpty'
  BY <1>1 DEF NoneEmpty
<1>2. ASSUME NEW w \in Worker, NEW p \in Position, BuyCreate(w, p)
      PROVE  NoneEmpty'
  BY <1>0, <1>1, <1>2 DEF BuyCreate, TypeOK
<1>3. ASSUME NEW w \in Worker, SellApplied(w)
      PROVE  NoneEmpty'
  <2>1. /\ status[txPos[w]] = "OPEN"
        /\ \E left : /\ status' = [status EXCEPT ![txPos[w]] = StatusFor(left)]
                     /\ qtyRemaining' = [qtyRemaining EXCEPT ![txPos[w]] = left]
    BY <1>3 DEF SellApplied, Refusal, Open
  <2>2. QED
    BY <1>0, <1>1, <2>1 DEF StatusFor, TypeOK
<1>4. ASSUME NEW w \in Worker, GroupCommit(w)
      PROVE  NoneEmpty'
  <2>1. PICK p \in Position, o \in Position : p = txPos[w] /\ o = txOther[w] /\ Live(p)
    BY <1>0, <1>4 DEF GroupCommit, TypeInv, CallOK
  <2>2. /\ status' = [status EXCEPT ![o] = "DELETED"]
        /\ qtyRemaining' = [qtyRemaining EXCEPT ![p] = GroupRemaining(w), ![o] = 0]
    BY <1>4, <2>1 DEF GroupCommit
  <2>3. QED
    BY <1>0, <1>1, <2>1, <2>2 DEF Live, TypeOK
<1>5. ASSUME NEW w \in Worker, NEW b \in BuyJob, NEW d \in Position, DustCommit(w, b, d)
      PROVE  NoneEmpty'
  <2>1. PICK p \in Position : p = txPos[w]
    BY <1>0, <1>5 DEF DustCommit, TypeInv, CallOK
  <2>2. \E q : /\ status' = [status EXCEPT ![p] = "CLOSED", ![d] = "OPEN"]
               /\ qtyRemaining' = [qtyRemaining EXCEPT ![p] = 0, ![d] = q]
    BY <1>5, <2>1 DEF DustCommit
  <2>3. QED
    BY <1>0, <1>1, <2>2 DEF TypeOK
<1>6. ASSUME NEW w \in Worker, Call(w), ~SellApplied(w), ~GroupCommit(w), \A p \in Position : ~BuyCreate(w, p),
             \A b \in BuyJob, d \in Position : ~DustCommit(w, b, d)
      PROVE  NoneEmpty'
  <2>1. ~BuyGroup(w)
    BY <1>0 DEF BuyGroup, NoBuyMerge
  <2>2. UNCHANGED <<status, qtyRemaining>>
    BY <1>6, <2>1 DEF Call, BuyFind, BuyRead, BuyFails, LimitList, SellBegin, SyncBegin, LimitBegin,
       SellRefused, SellFails, ExecutorFinish, LimitFinish, SetSellStatus, GroupValidate, GroupRead,
       DustBegin, Abort, posVars
  <2>3. QED
    BY <1>1, <2>2
<1>7. ASSUME Environment \/ UNCHANGED vars
      PROVE  NoneEmpty'
  <2>1. UNCHANGED <<status, qtyRemaining>>
    BY <1>7 DEF Environment, BuyExecuted, SellExecuted, SellRecorded, NewSell, LockSellByWebhook, vars, posVars
  <2>2. QED
    BY <1>1, <2>1
<1>8. QED
  BY <1>2, <1>3, <1>4, <1>5, <1>6, <1>7 DEF Next

\* Every step keeps what the refinement needs.
LEMMA HoldInvStep ==
  ASSUME HoldInv, [Next]_vars, Serial, NoBuyGrouping, "SELL_SYNC" \notin Enabled
  PROVE  HoldInv'
<1>1. SerialInv'
  BY SerialStep DEF HoldInv
<1>2. OneReporter /\ (\A v, w \in Worker : v = w)
  BY DEF OneReporter, Serial
<1>3. SellsInv' /\ BuysInv'
  BY <1>2, SellsStep, BuysStep DEF HoldInv, SerialInv
<1>4. NoneEmpty' /\ PositiveQty' /\ DustRead'
  BY NoneEmptyStep, PositiveStep DEF HoldInv, SerialInv
<1>5. ASSUME Ungrouped PROVE EmptyInv' /\ BuysKept'
  <2>1. EmptyInv /\ BuysKept /\ TypeInv /\ NoMerge
    BY <1>5 DEF HoldInv, EmptyInv
  <2>2. QED
    BY <1>5, <2>1, EmptyStep, BuysKeptStep
<1>6. QED
  BY <1>1, <1>3, <1>4, <1>5 DEF HoldInv

\* Every step books one execution as Holdings says, or is invisible there.
LEMMA HoldStep ==
  ASSUME HoldInv, HoldInv', [Next]_vars, NothingForgotten
  PROVE  [Promise!HNext]_(Promise!hvars)
<1>0. TypeOK /\ TypeOK'
  BY DEF HoldInv, SerialInv, TypeInv
<1>1. ASSUME NEW w \in Worker, Call(w)
      PROVE  Promise!HNext \/ UNCHANGED Promise!hvars
  BY <1>0, <1>1, HoldBuy, HoldSell, HoldRegroup
     DEF Call, BuyCall, SellCall, RegroupCall, Promise!HNext
<1>2. ASSUME Environment \/ UNCHANGED vars
      PROVE  UNCHANGED Promise!hvars
  <2>1. UNCHANGED <<qtyRemaining, boughtBy, soldBy>>
    BY <1>2 DEF Environment, BuyExecuted, SellExecuted, SellRecorded, NewSell, LockSellByWebhook,
       vars, posVars, fillVars
  <2>2. UNCHANGED buyStatus \/ \E b \in BuyJob : \E st \in {"EXECUTING", "PENDING_LIMIT"} :
          buyStatus[b] = "NONE" /\ buyStatus' = [buyStatus EXCEPT ![b] = st]
    BY <1>2 DEF Environment, BuyExecuted, SellExecuted, SellRecorded, NewSell, LockSellByWebhook,
       vars, buyVars
  <2>3. \A b \in BuyJob : buyStatus'[b] = "PENDING" <=> buyStatus[b] = "PENDING"
    BY <1>0, <2>2 DEF TypeOK
  <2>4. QED
    BY <2>1, <2>3, HoldQuiet
<1>3. QED
  BY <1>1, <1>2 DEF Next

\* The position book keeps the promise of Holdings: each execution is booked
\* once, in one step, for what the account gains or loses by it, and nothing
\* else changes what the account holds.  Calls run one at a time; without
\* positions-sell-sync, which books sales again (find_sync_books_again), and
\* without a sync endpoint next to groupPositions, which books purchases again
\* (find_group_forgets_buys).
THEOREM BookImplementsHoldings ==
  ASSUME Serial, NoBuyGrouping, "SELL_SYNC" \notin Enabled, NothingForgotten
  PROVE  Spec => ImplementsHoldings
<1>1. Init => HoldInv
  <2> SUFFICES ASSUME Init PROVE HoldInv
    OBVIOUS
  <2>1. SerialInv /\ EmptyInv
    BY InitSerial, InitEmpty
  <2>2. SellsInv /\ BuysInv
    BY DEF Init, SellsInv, SellsInHand, SellsOnce, SellHand, SellPhase, BuysInv, BuysInHand, BuysOnce, BuyPhase
  <2>3. NoneEmpty /\ BuysKept
    BY DEF Init, NoneEmpty, BuysKept
  <2>4. QED
    BY <2>1, <2>2, <2>3 DEF HoldInv, EmptyInv
<1>2. HoldInv /\ [Next]_vars => HoldInv'
  BY HoldInvStep
<1>3. HoldInv /\ HoldInv' /\ [Next]_vars => [Promise!HNext]_(Promise!hvars)
  BY HoldStep
<1>4. Init => Promise!HInit
  <2> SUFFICES ASSUME Init PROVE Promise!HInit
    OBVIOUS
  <2>1. TypeOK
    BY InitType DEF TypeInv
  <2>2. SumFunctionOnSet(qtyRemaining, Position) = 0
    <3>1. IsFiniteSet(Position) /\ \A p \in Position : qtyRemaining[p] = 0
      BY LedgerAssumption DEF Init
    <3>2. QED
      BY <3>1, SumZero
  <2>3. SumFunction(qtyRemaining) = 0
    BY <2>1, <2>2, HeldSum
  <2>4. QED
    BY <2>3 DEF Promise!HInit, Init
<1>5. QED
  BY <1>1, <1>2, <1>3, <1>4, PTL DEF Spec, ImplementsHoldings, Promise!HSpec
=============================================================================
