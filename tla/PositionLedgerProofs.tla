------------------------ MODULE PositionLedgerProofs ------------------------
(***************************************************************************)
(* Theorems about PositionLedger, for every set of positions, jobs and     *)
(* workers and every quantity.                                             *)
(***************************************************************************)
EXTENDS PositionLedger, TLAPS

(***************************************************************************)
(* Type correctness.  TypeOK is not inductive: what a call writes depends  *)
(* on the rows it names, which CallOK and OpenerOK describe.               *)
(***************************************************************************)
TypeInv == TypeOK /\ CallOK /\ OwedOK /\ OpenerOK

\* A step of w leaves the calls of the other workers alone.
OthersKept(w) ==
  \A v \in Worker \ {w} : /\ pc'[v] = pc[v] /\ txJob'[v] = txJob[v]
                          /\ txPos'[v] = txPos[v] /\ txOther'[v] = txOther[v]

TxTypeOK ==
  /\ pc \in [Worker -> Phase]
  /\ txJob \in [Worker -> BuyJob \cup SellJob \cup {None}]
  /\ txPos \in [Worker -> Position \cup {None}]
  /\ txOther \in [Worker -> Position \cup {None}]
  /\ snap \in [Worker -> [Position -> RowType]]

\* A snapshot is a function from positions to rows, and so is the empty one.
LEMMA SnapshotType ==
  ASSUME TypeOK
  PROVE  Snapshot \in [Position -> RowType] /\ NoSnap \in [Position -> RowType]
BY DEF TypeOK, Snapshot, NoSnap, Row, NoRow, RowType, PositionStatus

\* Begin and Finish keep the variables of the calls in progress well typed.
LEMMA BeginType ==
  ASSUME TypeOK, NEW w \in Worker, NEW phase \in Phase,
         NEW job \in BuyJob \cup SellJob \cup {None},
         NEW p \in Position \cup {None}, NEW o \in Position \cup {None},
         NEW s \in [Position -> RowType],
         Begin(w, phase, job, p, o, s)
  PROVE  /\ TxTypeOK'
         /\ pc'[w] = phase /\ txJob'[w] = job /\ txPos'[w] = p /\ txOther'[w] = o
         /\ OthersKept(w)
BY DEF TypeOK, TxTypeOK, Begin, OthersKept

\* A call that ends.
LEMMA FinishType ==
  ASSUME TypeOK, NEW w \in Worker, Finish(w)
  PROVE  /\ TxTypeOK'
         /\ pc'[w] = "idle"
         /\ OthersKept(w)
<1>1. "idle" \in Phase
  BY DEF Phase
<1>2. QED
  BY <1>1, SnapshotType, BeginType DEF Finish

\* What CallOK says of the other calls survives a step of one call, which
\* never makes a row disappear.
LEMMA OtherCalls ==
  ASSUME TypeInv, NEW w \in Worker,
         OthersKept(w),
         \A p \in Position : status[p] # "NONE" => status'[p] # "NONE",
         \A b \in BuyJob : buyStatus[b] # "NONE" => buyStatus'[b] # "NONE",
         pc'[w] \in BuyPhase => txJob'[w] \in BuyJob /\ buyStatus'[txJob'[w]] # "NONE",
         pc'[w] \in SellPhase \cup {"listed", "finishExecutor", "finishLimit"} => txJob'[w] \in SellJob,
         pc'[w] \in {"buyGroup", "groupValid", "group", "dust"} =>
           txPos'[w] \in Position /\ status'[txPos'[w]] # "NONE",
         pc'[w] \in {"groupValid", "group"} =>
           txOther'[w] \in Position \ {txPos'[w]} /\ status'[txOther'[w]] # "NONE"
  PROVE  CallOK'
BY DEF TypeInv, CallOK, OthersKept

\* A sale after its booking.
LEMMA AfterSellType ==
  ASSUME TypeInv, NEW w \in Worker, pc[w] \in SellPhase, AfterSell(w)
  PROVE  /\ TxTypeOK'
         /\ pc'[w] \in {"idle", "finishExecutor", "finishLimit"}
         /\ pc'[w] # "idle" => txJob'[w] \in SellJob
         /\ OthersKept(w)
<1>1. "finishExecutor" \in Phase /\ "finishLimit" \in Phase
  BY DEF Phase
<1>2. txJob[w] \in SellJob /\ TypeOK
  BY DEF TypeInv, CallOK
<1>3. CASE Finish(w)
  BY <1>2, <1>3, FinishType
<1>4. ASSUME NEW phase \in {"finishExecutor", "finishLimit"},
             Begin(w, phase, txJob[w], None, None, NoSnap)
      PROVE  /\ TxTypeOK' /\ pc'[w] = phase /\ txJob'[w] = txJob[w]
             /\ OthersKept(w)
  BY <1>1, <1>2, <1>4, SnapshotType, BeginType
<1>5. QED
  BY <1>2, <1>3, <1>4 DEF AfterSell

\* The first state is typed, and no call runs.
THEOREM InitType == Init => TypeInv
BY LedgerAssumption DEF Init, TypeInv, TypeOK, CallOK, OwedOK, OpenerOK, NoSnap, NoRow, RowType,
   PositionStatus, SellStatus, BuyStatus, Phase, BuyPhase, SellPhase

\* An action of the environment keeps every variable in its type.
LEMMA EnvironmentType == TypeInv /\ Environment => TypeInv'
<1> SUFFICES ASSUME TypeInv, Environment
             PROVE  TypeInv'
  OBVIOUS
<1> USE LedgerAssumption DEF TypeInv, TypeOK, CallOK, OwedOK, OpenerOK
<1>1. ASSUME NEW b \in BuyJob, NEW q \in 1..MaxQty, BuyExecuted(b, q)
      PROVE  TypeInv'
  <2>0. PICK st \in {"EXECUTING", "PENDING_LIMIT"} : buyStatus' = [buyStatus EXCEPT ![b] = st]
    BY <1>1 DEF BuyExecuted
  <2>1. /\ buyStatus' \in [BuyJob -> BuyStatus]
        /\ buyStatus'[b] # "NONE"
        /\ \A c \in BuyJob : buyStatus[c] # "NONE" => buyStatus'[c] # "NONE"
    BY <2>0 DEF BuyStatus
  <2>2. TypeOK'
    BY <1>1, <2>1 DEF BuyExecuted, posVars, fillVars, sellVars, txVars
  <2>3. CallOK' /\ OwedOK' /\ OpenerOK'
    BY <1>1, <2>1 DEF BuyExecuted, posVars, fillVars, sellVars, txVars
  <2>4. QED
    BY <2>2, <2>3
<1>2. ASSUME NEW j \in SellJob, NEW p \in Position, NEW q \in 1..MaxQty, NEW st \in SellStatus,
             NewSell(j, p, q, st), owed' \subseteq owed \cup {j}, sellHook' \subseteq sellHook \cup {j}
      PROVE  TypeInv'
  BY <1>2 DEF NewSell, posVars, fillVars, buyVars, txVars
<1>3. ASSUME NEW j \in SellJob, NEW p \in Position, NEW q \in 1..MaxQty,
             SellExecuted(j, p, q) \/ SellRecorded(j, p, q)
      PROVE  TypeInv'
  <2>1. {"EXECUTING", "PENDING_LIMIT", "FILLED"} \subseteq SellStatus
    BY DEF SellStatus
  <2>2. QED
    BY <1>2, <1>3, <2>1 DEF SellExecuted, SellRecorded
<1>4. ASSUME NEW p \in Position, LockSellByWebhook(p)
      PROVE  TypeInv'
  BY <1>4 DEF LockSellByWebhook, fillVars, buyVars, sellVars, txVars
<1>5. QED
  BY <1>1, <1>3, <1>4 DEF Environment

BuyCall(w) ==
  \/ \E b \in BuyJob : BuyFind(w, b)
  \/ BuyRead(w)
  \/ \E p \in Position : BuyCreate(w, p)
  \/ BuyGroup(w)
  \/ BuyFails(w)

\* The steps of onBuyExecuted.
LEMMA BuyCallType ==
  ASSUME TypeInv, NEW w \in Worker, BuyCall(w)
  PROVE  TypeInv'
<1>0. /\ TypeOK
      /\ BuyPhase \subseteq Phase
      /\ BuyPhase = {"buyFound", "buyNew", "buyGroup"}
      /\ BuyPhase \cap (SellPhase \cup {"listed", "finishExecutor", "finishLimit"}) = {}
      /\ pc[w] \in BuyPhase => txJob[w] \in BuyJob /\ buyStatus[txJob[w]] # "NONE"
  BY DEF TypeInv, CallOK, Phase, BuyPhase, SellPhase
<1>1. ASSUME NEW b \in BuyJob, BuyFind(w, b)
      PROVE  TypeInv'
  <2>1. PICK p \in Position \cup {None} : Begin(w, "buyFound", b, p, None, NoSnap)
    BY <1>1 DEF BuyFind, EligibleForGrouping
  <2>2. /\ TxTypeOK' /\ pc'[w] = "buyFound" /\ txJob'[w] = b
        /\ OthersKept(w)
    BY <2>1, <1>0, SnapshotType, BeginType
  <2>3. TypeOK' /\ OwedOK' /\ OpenerOK'
    BY <1>1, <2>2 DEF BuyFind, Reported, TypeInv, TypeOK, TxTypeOK, OwedOK, OpenerOK, posVars, fillVars, buyVars, sellVars
  <2>4. buyStatus[b] # "NONE" /\ status' = status /\ buyStatus' = buyStatus
    BY <1>1 DEF BuyFind, MissingPosition, posVars, buyVars, TypeInv, OwedOK
  <2>5. CallOK'
    BY <2>2, <2>4, <1>0, OtherCalls DEF TypeInv
  <2>6. QED
    BY <2>3, <2>5 DEF TypeInv
<1>2. ASSUME BuyRead(w)
      PROVE  TypeInv'
  <2>1. /\ TxTypeOK' /\ pc'[w] \in {"buyGroup", "buyNew"} /\ txJob'[w] = txJob[w]
        /\ pc'[w] = "buyGroup" => txPos'[w] \in Position /\ status[txPos'[w]] # "NONE"
        /\ OthersKept(w)
    <3>1. txJob[w] \in BuyJob /\ txPos[w] \in Position
      BY <1>2, <1>0 DEF BuyRead, TypeOK
    <3>2. CASE status[txPos[w]] = "OPEN"
      <4>1. Begin(w, "buyGroup", txJob[w], txPos[w], None, Snapshot)
        BY <1>2, <3>2 DEF BuyRead
      <4>2. /\ TxTypeOK' /\ pc'[w] = "buyGroup" /\ txJob'[w] = txJob[w] /\ txPos'[w] = txPos[w]
            /\ OthersKept(w)
        BY <4>1, <3>1, <1>0, SnapshotType, BeginType
      <4>3. QED
        BY <4>2, <3>1, <3>2
    <3>3. CASE status[txPos[w]] # "OPEN"
      <4>1. Begin(w, "buyNew", txJob[w], None, None, NoSnap)
        BY <1>2, <3>3 DEF BuyRead
      <4>2. TxTypeOK' /\ pc'[w] = "buyNew" /\ txJob'[w] = txJob[w] /\ OthersKept(w)
        BY <4>1, <3>1, <1>0, SnapshotType, BeginType
      <4>3. QED
        BY <4>2
    <3>4. QED
      BY <3>2, <3>3
  <2>2. TypeOK' /\ OwedOK' /\ OpenerOK'
    BY <1>2, <2>1 DEF BuyRead, TypeInv, TypeOK, TxTypeOK, OwedOK, OpenerOK, posVars, fillVars, buyVars, sellVars
  <2>3. status' = status /\ buyStatus' = buyStatus /\ pc[w] \in BuyPhase
    BY <1>2, <1>0 DEF BuyRead, posVars, buyVars
  <2>4. CallOK'
    BY <2>1, <2>3, <1>0, OtherCalls DEF TypeInv
  <2>5. QED
    BY <2>2, <2>4 DEF TypeInv
<1>3. ASSUME NEW p \in Position, BuyCreate(w, p)
      PROVE  TypeInv'
  <2>1. txJob[w] \in BuyJob
    BY <1>3, <1>0 DEF BuyCreate
  <2>2. TxTypeOK' /\ pc'[w] = "idle"
        /\ OthersKept(w)
    BY <1>3, <1>0, FinishType DEF BuyCreate
  <2>3. TypeOK' /\ OwedOK' /\ OpenerOK'
    BY <1>3, <2>1, <2>2 DEF BuyCreate, BuyFilled, TypeInv, TypeOK, TxTypeOK, OwedOK, OpenerOK, PositionStatus, BuyStatus, sellVars
  <2>4. /\ \A q \in Position : status[q] # "NONE" => status'[q] # "NONE"
        /\ \A b \in BuyJob : buyStatus[b] # "NONE" => buyStatus'[b] # "NONE"
    BY <1>3, <1>0 DEF BuyCreate, BuyFilled, TypeOK
  <2>5. CallOK'
    BY <2>2, <2>4, OtherCalls DEF BuyPhase, SellPhase
  <2>6. QED
    BY <2>3, <2>5 DEF TypeInv
<1>4. ASSUME BuyGroup(w)
      PROVE  TypeInv'
  <2>1. txJob[w] \in BuyJob /\ txPos[w] \in Position /\ opener[txPos[w]] \in BuyJob
    BY <1>4, <1>0 DEF BuyGroup, TypeInv, CallOK, OwedOK, OpenerOK
  <2>2. TxTypeOK' /\ pc'[w] = "idle"
        /\ OthersKept(w)
    BY <1>4, <1>0, FinishType DEF BuyGroup
  <2>3. MergedTotal(w) \in Nat
    BY <2>1 DEF MergedTotal, TypeInv, TypeOK, RowType
  <2>4. TypeOK' /\ OwedOK' /\ OpenerOK'
    BY <1>4, <2>1, <2>2, <2>3 DEF BuyGroup, BuyFilled, TypeInv, TypeOK, TxTypeOK, OwedOK, OpenerOK, BuyStatus, sellVars
  <2>5. /\ status' = status
        /\ \A b \in BuyJob : buyStatus[b] # "NONE" => buyStatus'[b] # "NONE"
    BY <1>4, <1>0 DEF BuyGroup, BuyFilled, TypeOK
  <2>6. CallOK'
    BY <2>2, <2>5, OtherCalls DEF BuyPhase, SellPhase
  <2>7. QED
    BY <2>4, <2>6 DEF TypeInv
<1>5. ASSUME BuyFails(w)
      PROVE  TypeInv'
  <2>1. txJob[w] \in BuyJob
    BY <1>5, <1>0 DEF BuyFails
  <2>2. TxTypeOK' /\ pc'[w] = "idle"
        /\ OthersKept(w)
    BY <1>5, <1>0, FinishType DEF BuyFails
  <2>3. TypeOK' /\ OwedOK' /\ OpenerOK'
    BY <1>5, <2>2 DEF BuyFails, BuyFilled, TypeInv, TypeOK, TxTypeOK, OwedOK, OpenerOK, BuyStatus, posVars, fillVars, sellVars
  <2>4. /\ status' = status
        /\ \A b \in BuyJob : buyStatus[b] # "NONE" => buyStatus'[b] # "NONE"
    BY <1>5, <1>0 DEF BuyFails, BuyFilled, TypeOK, posVars
  <2>5. CallOK'
    BY <2>2, <2>4, OtherCalls DEF BuyPhase, SellPhase
  <2>6. QED
    BY <2>3, <2>5 DEF TypeInv
<1>6. QED
  BY <1>1, <1>2, <1>3, <1>4, <1>5 DEF BuyCall

\* A step that books nothing and at most sets the status of SELL jobs.
LEMMA NothingBooked ==
  ASSUME TypeInv, UNCHANGED <<posVars, fillVars, buyVars>>,
         UNCHANGED <<sellQty, sellPos, sellSeen, sellHook>>,
         sellStatus' \in [SellJob -> SellStatus],
         owed' \subseteq owed, TxTypeOK'
  PROVE  /\ TypeOK' /\ OwedOK' /\ OpenerOK'
         /\ status' = status /\ buyStatus' = buyStatus
BY DEF TypeInv, TypeOK, TxTypeOK, OwedOK, OpenerOK, posVars, fillVars, buyVars

\* A call that starts on a row, or ends, without booking anything.
LEMMA QuietStep ==
  ASSUME TypeInv, UNCHANGED <<posVars, fillVars, buyVars>>,
         UNCHANGED <<sellQty, sellPos, sellSeen, sellHook>>,
         sellStatus' \in [SellJob -> SellStatus],
         owed' \subseteq owed, TxTypeOK',
         NEW w \in Worker, OthersKept(w),
         pc'[w] \notin BuyPhase,
         pc'[w] \in SellPhase \cup {"listed", "finishExecutor", "finishLimit"} => txJob'[w] \in SellJob,
         pc'[w] \in {"groupValid", "group", "dust"} => txPos'[w] \in Position /\ status[txPos'[w]] # "NONE",
         pc'[w] \in {"groupValid", "group"} =>
           txOther'[w] \in Position \ {txPos'[w]} /\ status[txOther'[w]] # "NONE"
  PROVE  TypeInv'
<1>1. /\ TypeOK' /\ OwedOK' /\ OpenerOK'
      /\ status' = status /\ buyStatus' = buyStatus
  BY NothingBooked
<1>2. "buyGroup" \in BuyPhase
  BY DEF BuyPhase
<1>3. CallOK'
  BY <1>1, <1>2, OtherCalls
<1>4. QED
  BY <1>1, <1>3 DEF TypeInv

SellCall(w) ==
  \/ \E j \in SellJob : LimitList(w, j) \/ SellBegin(w, j)
  \/ \E j \in SellJob, p \in Position : SyncBegin(w, j, p)
  \/ LimitBegin(w)
  \/ SellRefused(w)
  \/ SellApplied(w)
  \/ SellFails(w)
  \/ ExecutorFinish(w)
  \/ LimitFinish(w)

\* The steps of onSellExecuted and of its callers.
LEMMA SellCallType ==
  ASSUME TypeInv, NEW w \in Worker, SellCall(w)
  PROVE  TypeInv'
<1>0. /\ TypeOK
      /\ SellPhase = {"sellExecutor", "sellLimit", "sellDirect"}
      /\ SellPhase \cup {"listed", "finishExecutor", "finishLimit"} \subseteq Phase
      /\ (SellPhase \cup {"listed", "finishExecutor", "finishLimit", "idle"}) \cap
            (BuyPhase \cup {"groupValid", "group", "dust"}) = {}
      /\ pc[w] \in SellPhase \cup {"listed", "finishExecutor", "finishLimit"} => txJob[w] \in SellJob
      /\ sellStatus \in [SellJob -> SellStatus]
      /\ sellPos \in [SellJob -> Position \cup {None}]
  BY DEF TypeInv, TypeOK, CallOK, Phase, BuyPhase, SellPhase
<1>1. ASSUME NEW j \in SellJob, NEW phase \in SellPhase \cup {"listed"},
             NEW p \in Position \cup {None}, NEW s \in [Position -> RowType],
             Begin(w, phase, j, p, None, s), owed' \subseteq owed,
             UNCHANGED <<posVars, fillVars, buyVars, sellVars>>
      PROVE  TypeInv'
  <2>1. TxTypeOK' /\ pc'[w] = phase /\ txJob'[w] = j /\ OthersKept(w)
    BY <1>0, <1>1, BeginType
  <2>2. QED
    BY <1>0, <1>1, <2>1, QuietStep DEF sellVars
<1>2. ASSUME NEW j \in SellJob, LimitList(w, j)
      PROVE  TypeInv'
  <2>1. CASE UNCHANGED txVars
    <3>1. sellStatus' \in [SellJob -> SellStatus]
      BY <1>0, <1>2 DEF LimitList, SellStatus
    <3>2. TypeOK' /\ OwedOK' /\ OpenerOK' /\ status' = status /\ buyStatus' = buyStatus
      BY <1>2, <2>1, <3>1, NothingBooked DEF LimitList, TypeInv, TypeOK, TxTypeOK, txVars
    <3>3. CallOK'
      BY <2>1, <3>2 DEF TypeInv, CallOK, txVars
    <3>4. QED
      BY <3>2, <3>3 DEF TypeInv
  <2>2. CASE Begin(w, "listed", j, None, None, NoSnap) /\ UNCHANGED sellStatus
    BY <1>1, <1>2, <2>2, <1>0, SnapshotType DEF LimitList, sellVars
  <2>3. QED
    BY <1>2, <2>1, <2>2 DEF LimitList
<1>3. ASSUME NEW j \in SellJob, SellBegin(w, j)
      PROVE  TypeInv'
  <2>1. owed' \subseteq owed /\ UNCHANGED <<posVars, fillVars, buyVars, sellVars>>
    BY <1>3 DEF SellBegin, Reported
  <2>2. PICK phase \in SellPhase : Begin(w, phase, j, sellPos[j], None, Snapshot)
    BY <1>3, <1>0 DEF SellBegin
  <2>3. QED
    BY <1>0, <1>1, <2>1, <2>2, SnapshotType
<1>4. ASSUME NEW j \in SellJob, NEW p \in Position, SyncBegin(w, j, p)
      PROVE  TypeInv'
  <2>1. /\ Begin(w, "sellDirect", j, sellPos[j], None, Snapshot)
        /\ owed' \subseteq owed /\ UNCHANGED <<posVars, fillVars, buyVars, sellVars>>
    BY <1>4 DEF SyncBegin
  <2>2. QED
    BY <1>0, <1>1, <2>1, SnapshotType
<1>5. ASSUME LimitBegin(w)
      PROVE  TypeInv'
  <2>1. /\ Begin(w, "sellLimit", txJob[w], sellPos[txJob[w]], None, Snapshot)
        /\ owed' \subseteq owed /\ UNCHANGED <<posVars, fillVars, buyVars, sellVars>>
        /\ txJob[w] \in SellJob
    BY <1>5, <1>0 DEF LimitBegin
  <2>2. QED
    BY <1>0, <1>1, <2>1, SnapshotType
<1>6. ASSUME SellRefused(w)
      PROVE  TypeInv'
  <2>1. Refusal(w) \in SellStatus
    BY DEF Refusal, SellStatus
  <2>2. sellStatus' \in [SellJob -> SellStatus]
    BY <1>0, <1>6, <2>1 DEF SellRefused
  <2>3. /\ TxTypeOK' /\ OthersKept(w)
        /\ pc'[w] \in {"idle", "finishExecutor", "finishLimit"}
        /\ pc'[w] # "idle" => txJob'[w] \in SellJob
    BY <1>6, AfterSellType DEF SellRefused
  <2>4. QED
    BY <1>0, <1>6, <2>2, <2>3, QuietStep DEF SellRefused
<1>7. ASSUME SellApplied(w)
      PROVE  TypeInv'
  <2> DEFINE j == txJob[w]
             p == txPos[w]
             left == Closable(w) - SellClose(w)
  <2>1. j \in SellJob /\ p \in Position
    BY <1>0, <1>7 DEF SellApplied, TypeOK
  <2>2. Closable(w) \in Nat /\ CallQty(w) \in Nat
    BY <1>0, <2>1 DEF Closable, CallQty, TypeOK, RowType
  <2>3. SellClose(w) \in Nat /\ left \in Nat
    BY <2>2 DEF SellClose
  <2>4. /\ TxTypeOK' /\ OthersKept(w)
        /\ pc'[w] \in {"idle", "finishExecutor", "finishLimit"}
        /\ pc'[w] # "idle" => txJob'[w] \in SellJob
    BY <1>7, AfterSellType DEF SellApplied
  <2>5. StatusFor(left) \in PositionStatus \ {"NONE"}
    BY DEF StatusFor, PositionStatus
  <2>6. /\ qtyRemaining' = [qtyRemaining EXCEPT ![p] = left]
        /\ status' = [status EXCEPT ![p] = StatusFor(left)]
        /\ sold' = [sold EXCEPT ![p] = @ + SellClose(w)]
        /\ soldBy' = [soldBy EXCEPT ![j] = @ + SellClose(w)]
        /\ fillOn' = [fillOn EXCEPT ![j] = @ \cup {p}]
        /\ \E st \in SellStatus : sellStatus' = [sellStatus EXCEPT ![j] = st]
        /\ UNCHANGED <<opener, qtyTotal, isDust, hookLocked, bought, boughtBy, grouped, buyVars,
                       sellQty, sellPos, sellSeen, sellHook, owed>>
    BY <1>7 DEF SellApplied, SoldStatus, SellStatus
  <2> HIDE DEF j, p, left
  <2>7. status \in [Position -> PositionStatus]
    BY <1>0 DEF TypeOK
  <2>8. /\ status' \in [Position -> PositionStatus]
        /\ \A q \in Position : status'[q] # "NONE" <=> (status[q] # "NONE" \/ q = p)
    BY <2>1, <2>5, <2>6, <2>7
  <2>9. TypeOK'
    BY <1>0, <2>1, <2>3, <2>4, <2>6, <2>8 DEF TypeOK, TxTypeOK, buyVars
  <2>10. OwedOK' /\ status[p] # "NONE" /\ buyStatus' = buyStatus
    BY <1>7, <2>1, <2>6 DEF SellApplied, Refusal, Open, TypeInv, OwedOK, buyVars, p
  <2>11. OpenerOK'
    BY <2>6, <2>8, <2>10 DEF TypeInv, OpenerOK
  <2>12. CallOK'
    BY <1>0, <2>4, <2>8, <2>10, OtherCalls DEF BuyPhase
  <2>13. QED
    BY <2>9, <2>10, <2>11, <2>12 DEF TypeInv
<1>8. ASSUME SellFails(w)
      PROVE  TypeInv'
  <2>1. /\ TxTypeOK' /\ OthersKept(w)
        /\ pc'[w] \in {"idle", "finishExecutor", "finishLimit"}
        /\ pc'[w] # "idle" => txJob'[w] \in SellJob
    BY <1>0, <1>8, AfterSellType DEF SellFails
  <2>2. UNCHANGED <<posVars, fillVars, buyVars, sellVars, owed>>
    BY <1>8 DEF SellFails
  <2>3. QED
    BY <1>0, <2>1, <2>2, QuietStep DEF sellVars
<1>9. ASSUME NEW st \in SellStatus, SetSellStatus(w, st)
      PROVE  TypeInv'
  <2>1. TxTypeOK' /\ pc'[w] = "idle" /\ OthersKept(w)
    BY <1>0, <1>9, FinishType DEF SetSellStatus
  <2>2. sellStatus' \in [SellJob -> SellStatus]
    BY <1>0, <1>9 DEF SetSellStatus
  <2>3. QED
    BY <1>0, <1>9, <2>1, <2>2, QuietStep DEF SetSellStatus
<1>10. ASSUME ExecutorFinish(w) \/ LimitFinish(w)
       PROVE  TypeInv'
  BY <1>9, <1>10 DEF ExecutorFinish, LimitFinish, SellStatus
<1>11. QED
  BY <1>2, <1>3, <1>4, <1>5, <1>6, <1>7, <1>8, <1>10 DEF SellCall

RegroupCall(w) ==
  \/ \E p, o \in Position : GroupValidate(w, p, o)
  \/ GroupRead(w)
  \/ GroupCommit(w)
  \/ \E p \in Position : DustBegin(w, p)
  \/ \E b \in BuyJob, d \in Position : DustCommit(w, b, d)
  \/ Abort(w)

\* The steps of groupPositions and convertToDustPosition, and a call that is lost.
LEMMA RegroupCallType ==
  ASSUME TypeInv, NEW w \in Worker, RegroupCall(w)
  PROVE  TypeInv'
<1>0. /\ TypeOK
      /\ {"groupValid", "group", "dust", "idle"} \subseteq Phase
      /\ {"groupValid", "group", "dust", "idle"} \cap
            (BuyPhase \cup SellPhase \cup {"listed", "finishExecutor", "finishLimit"}) = {}
      /\ pc[w] \in {"groupValid", "group", "dust"} => txPos[w] \in Position /\ status[txPos[w]] # "NONE"
      /\ pc[w] \in {"groupValid", "group"} =>
           txOther[w] \in Position \ {txPos[w]} /\ status[txOther[w]] # "NONE"
      /\ sellStatus \in [SellJob -> SellStatus]
  BY DEF TypeInv, TypeOK, CallOK, Phase, BuyPhase, SellPhase
<1>1. ASSUME NEW p \in Position, NEW o \in Position, GroupValidate(w, p, o)
      PROVE  TypeInv'
  <2>1. /\ Begin(w, "groupValid", None, p, o, NoSnap)
        /\ p # o /\ status[p] # "NONE" /\ status[o] # "NONE"
        /\ UNCHANGED <<posVars, fillVars, buyVars, sellVars, owed>>
    BY <1>1 DEF GroupValidate, Open
  <2>2. /\ TxTypeOK' /\ pc'[w] = "groupValid" /\ txPos'[w] = p /\ txOther'[w] = o /\ OthersKept(w)
    BY <1>0, <2>1, SnapshotType, BeginType
  <2>3. QED
    BY <1>0, <2>1, <2>2, QuietStep DEF sellVars
<1>2. ASSUME GroupRead(w)
      PROVE  TypeInv'
  <2>1. /\ Begin(w, "group", None, txPos[w], txOther[w], Snapshot)
        /\ pc[w] = "groupValid"
        /\ UNCHANGED <<posVars, fillVars, buyVars, sellVars, owed>>
    BY <1>2 DEF GroupRead
  <2>2. /\ TxTypeOK' /\ pc'[w] = "group" /\ txPos'[w] = txPos[w] /\ txOther'[w] = txOther[w] /\ OthersKept(w)
    BY <1>0, <2>1, SnapshotType, BeginType
  <2>3. QED
    BY <1>0, <2>1, <2>2, QuietStep DEF sellVars
<1>3. ASSUME GroupCommit(w)
      PROVE  TypeInv'
  <2> DEFINE p == txPos[w]
             o == txOther[w]
  <2>1. p \in Position /\ o \in Position /\ p # o /\ opener[p] \in BuyJob /\ opener[o] \in BuyJob
    BY <1>0, <1>3 DEF GroupCommit, TypeInv, OpenerOK
  <2>2. TxTypeOK' /\ pc'[w] = "idle" /\ OthersKept(w)
    BY <1>0, <1>3, FinishType DEF GroupCommit
  <2>3. GroupTotal(w) \in Nat /\ GroupRemaining(w) \in Nat
    BY <1>0, <2>1 DEF GroupTotal, GroupRemaining, TypeOK, RowType
  <2>4. /\ status' = [status EXCEPT ![o] = "DELETED"]
        /\ qtyTotal' = [qtyTotal EXCEPT ![p] = GroupTotal(w), ![o] = 0]
        /\ qtyRemaining' = [qtyRemaining EXCEPT ![p] = GroupRemaining(w), ![o] = 0]
        /\ bought' = [bought EXCEPT ![p] = bought[p] + bought[o], ![o] = 0]
        /\ sold' = [sold EXCEPT ![p] = sold[p] + sold[o], ![o] = 0]
        /\ fillOn' = [j \in SellJob |-> IF o \in fillOn[j] THEN (fillOn[j] \ {o}) \cup {p} ELSE fillOn[j]]
        /\ isDust' \subseteq isDust /\ hookLocked' \subseteq hookLocked
        /\ sellPos' = [j \in SellJob |-> IF sellPos[j] = o THEN None ELSE sellPos[j]]
        /\ UNCHANGED <<opener, boughtBy, soldBy, buyVars, sellStatus, sellQty, sellSeen, sellHook, owed>>
    BY <1>3 DEF GroupCommit
  <2>5. grouped' \subseteq grouped \cup {<<p, opener[c]>> : c \in {p, o}}
    BY <1>3 DEF GroupCommit
  <2> HIDE DEF p, o
  <2>6. grouped' \subseteq Position \X BuyJob
    BY <1>0, <2>1, <2>5 DEF TypeOK
  <2>7. /\ status' \in [Position -> PositionStatus]
        /\ \A q \in Position : status[q] # "NONE" <=> status'[q] # "NONE"
    <3>1. status \in [Position -> PositionStatus] /\ status[o] # "NONE"
      BY <1>0, <1>3 DEF TypeOK, GroupCommit, o
    <3>2. QED
      BY <2>1, <2>4, <3>1 DEF PositionStatus
  <2>8. TypeOK'
    <3>1. /\ qtyTotal' \in [Position -> Nat] /\ qtyRemaining' \in [Position -> Nat]
          /\ bought' \in [Position -> Nat] /\ sold' \in [Position -> Nat]
      <4>1. qtyTotal \in [Position -> Nat] /\ qtyRemaining \in [Position -> Nat]
        BY <1>0 DEF TypeOK
      <4>2. bought \in [Position -> Nat] /\ sold \in [Position -> Nat]
        BY <1>0 DEF TypeOK
      <4>3. bought[p] + bought[o] \in Nat /\ sold[p] + sold[o] \in Nat
        BY <2>1, <4>2
      <4>4. QED
        BY <2>1, <2>3, <2>4, <4>1, <4>2, <4>3
    <3>2. fillOn' \in [SellJob -> SUBSET Position] /\ sellPos' \in [SellJob -> Position \cup {None}]
      BY <1>0, <2>1, <2>4 DEF TypeOK
    <3>3. QED
      BY <1>0, <2>2, <2>4, <2>6, <2>7, <3>1, <3>2 DEF TypeOK, TxTypeOK, buyVars
  <2>9. OwedOK' /\ OpenerOK' /\ buyStatus' = buyStatus
    BY <2>4, <2>7 DEF TypeInv, OwedOK, OpenerOK, buyVars
  <2>10. CallOK'
    BY <1>0, <2>2, <2>7, <2>9, OtherCalls DEF BuyPhase
  <2>11. QED
    BY <2>8, <2>9, <2>10 DEF TypeInv
<1>4. ASSUME NEW p \in Position, DustBegin(w, p)
      PROVE  TypeInv'
  <2>1. /\ Begin(w, "dust", None, p, None, Snapshot)
        /\ status[p] # "NONE"
        /\ UNCHANGED <<posVars, fillVars, buyVars, sellVars, owed>>
    BY <1>4 DEF DustBegin, Open
  <2>2. /\ TxTypeOK' /\ pc'[w] = "dust" /\ txPos'[w] = p /\ OthersKept(w)
    BY <1>0, <2>1, SnapshotType, BeginType
  <2>3. QED
    BY <1>0, <2>1, <2>2, QuietStep DEF sellVars
<1>5. ASSUME NEW b \in BuyJob, NEW d \in Position, DustCommit(w, b, d)
      PROVE  TypeInv'
  <2> DEFINE p == txPos[w]
             q == snap[w][p].remaining
  <2>1. p \in Position /\ p # d /\ q \in Nat
    BY <1>0, <1>5 DEF DustCommit, TypeOK, RowType
  <2>2. TxTypeOK' /\ pc'[w] = "idle" /\ OthersKept(w)
    BY <1>0, <1>5, FinishType DEF DustCommit
  <2>3. /\ status' = [status EXCEPT ![p] = "CLOSED", ![d] = "OPEN"]
        /\ opener' = [opener EXCEPT ![d] = b]
        /\ qtyTotal' = [qtyTotal EXCEPT ![d] = q]
        /\ qtyRemaining' = [qtyRemaining EXCEPT ![p] = 0, ![d] = q]
        /\ isDust' = isDust \cup {d}
        /\ bought' = [bought EXCEPT ![d] = q]
        /\ sold' = [sold EXCEPT ![p] = @ + q]
        /\ boughtBy' = [boughtBy EXCEPT ![b] = q]
        /\ buyQty' = [buyQty EXCEPT ![b] = q]
        /\ buyStatus' = [buyStatus EXCEPT ![b] = "PENDING"]
        /\ status[p] # "NONE"
        /\ UNCHANGED <<hookLocked, soldBy, fillOn, grouped, sellVars, owed>>
    BY <1>0, <1>5 DEF DustCommit
  <2> HIDE DEF p, q
  <2>4. /\ status' \in [Position -> PositionStatus]
        /\ buyStatus' \in [BuyJob -> BuyStatus]
        /\ \A c \in Position : status'[c] # "NONE" <=> (status[c] # "NONE" \/ c = d)
        /\ \A c \in BuyJob : buyStatus[c] # "NONE" => buyStatus'[c] # "NONE"
    BY <1>0, <2>1, <2>3 DEF TypeOK, PositionStatus, BuyStatus
  <2>5. TypeOK'
    <3>1. /\ qtyTotal' \in [Position -> Nat] /\ qtyRemaining' \in [Position -> Nat]
          /\ bought' \in [Position -> Nat] /\ sold' \in [Position -> Nat]
      BY <1>0, <2>1, <2>3 DEF TypeOK
    <3>2. /\ opener' \in [Position -> BuyJob \cup {None}]
          /\ boughtBy' \in [BuyJob -> Nat] /\ buyQty' \in [BuyJob -> Nat]
      BY <1>0, <2>1, <2>3 DEF TypeOK
    <3>3. QED
      BY <1>0, <2>2, <2>3, <2>4, <3>1, <3>2 DEF TypeOK, TxTypeOK, sellVars
  <2>6. OwedOK' /\ OpenerOK'
    BY <1>0, <2>3, <2>4 DEF TypeInv, TypeOK, OwedOK, OpenerOK
  <2>7. CallOK'
    BY <1>0, <2>2, <2>4, OtherCalls DEF BuyPhase
  <2>8. QED
    BY <2>5, <2>6, <2>7 DEF TypeInv
<1>6. ASSUME Abort(w)
      PROVE  TypeInv'
  <2>1. TxTypeOK' /\ pc'[w] = "idle" /\ OthersKept(w)
    BY <1>0, <1>6, FinishType DEF Abort
  <2>2. UNCHANGED <<posVars, fillVars, buyVars, sellVars, owed>>
    BY <1>6 DEF Abort
  <2>3. QED
    BY <1>0, <2>1, <2>2, QuietStep DEF sellVars
<1>7. QED
  BY <1>1, <1>2, <1>3, <1>4, <1>5, <1>6 DEF RegroupCall

\* Every step keeps the types and what a call has read.
LEMMA TypeInvStep == TypeInv /\ [Next]_vars => TypeInv'
<1> SUFFICES ASSUME TypeInv, [Next]_vars
             PROVE  TypeInv'
  OBVIOUS
<1>1. CASE Environment
  BY <1>1, EnvironmentType
<1>2. ASSUME NEW w \in Worker, Call(w)
      PROVE  TypeInv'
  <2>1. BuyCall(w) \/ SellCall(w) \/ RegroupCall(w)
    BY <1>2 DEF Call, BuyCall, SellCall, RegroupCall
  <2>2. QED
    BY <2>1, BuyCallType, SellCallType, RegroupCallType
<1>3. CASE UNCHANGED vars
  BY <1>3 DEF vars, posVars, fillVars, buyVars, sellVars, txVars, TypeInv, TypeOK, CallOK, OwedOK, OpenerOK
<1>4. QED
  BY <1>1, <1>2, <1>3 DEF Next

\* Every variable keeps its type, however many workers and whichever features
\* are enabled: in particular no quantity becomes negative.
THEOREM TypeCorrect == Spec => []TypeOK
<1>1. TypeInv => TypeOK
  BY DEF TypeInv
<1>2. QED
  BY <1>1, InitType, TypeInvStep, PTL DEF Spec

(***************************************************************************)
(* CLOSED means empty, for any number of concurrent calls, in a deployment *)
(* that neither groups purchases nor positions.                            *)
(***************************************************************************)
Ungrouped == "BUY_GROUPING" \notin Enabled /\ "GROUP_API" \notin Enabled

EmptyInv == TypeInv /\ ClosedIffEmpty /\ PositiveQty /\ NoMerge /\ DustRead

\* There is no position at first.
THEOREM InitEmpty == Init => EmptyInv
BY InitType DEF Init, EmptyInv, ClosedIffEmpty, Live, PositiveQty, NoMerge, DustRead

\* A step that leaves the quantities and statuses of positions and the BUY
\* jobs alone, and starts no merge.
LEMMA EmptyQuiet ==
  ASSUME EmptyInv, TypeInv',
         UNCHANGED <<status, qtyRemaining>>,
         \A b \in BuyJob : buyStatus'[b] # "NONE" => buyQty'[b] > 0,
         NEW w \in Worker,
         \A v \in Worker \ {w} : pc'[v] = pc[v] /\ txPos'[v] = txPos[v] /\ snap'[v] = snap[v],
         pc'[w] \notin {"buyGroup", "groupValid", "group"},
         pc'[w] = "buyFound" => txPos'[w] = None,
         pc'[w] = "dust" => snap'[w][txPos'[w]].remaining > 0
  PROVE  EmptyInv'
<1>1. ClosedIffEmpty'
  BY DEF EmptyInv, ClosedIffEmpty, Live
<1>2. PositiveQty'
  BY DEF PositiveQty
<1>3. NoMerge' /\ DustRead'
  BY DEF EmptyInv, NoMerge, DustRead
<1>4. QED
  BY <1>1, <1>2, <1>3 DEF EmptyInv

\* What Begin and Finish write for w, and that they write nothing else.
LEMMA BeginWrites ==
  ASSUME TypeOK, NEW w \in Worker, NEW phase, NEW job, NEW p, NEW o, NEW s,
         Begin(w, phase, job, p, o, s)
  PROVE  /\ pc'[w] = phase /\ txJob'[w] = job /\ txPos'[w] = p /\ txOther'[w] = o /\ snap'[w] = s
         /\ \A v \in Worker \ {w} : /\ pc'[v] = pc[v] /\ txJob'[v] = txJob[v] /\ txPos'[v] = txPos[v]
                                    /\ txOther'[v] = txOther[v] /\ snap'[v] = snap[v]
BY DEF TypeOK, Begin

\* The steps of a purchase.
LEMMA EmptyBuy ==
  ASSUME EmptyInv, Ungrouped, NEW w \in Worker, BuyCall(w)
  PROVE  EmptyInv'
<1>0. TypeInv' /\ TypeOK /\ PositiveQty /\ EligibleForGrouping = {}
  BY BuyCallType DEF EmptyInv, TypeInv, Ungrouped, EligibleForGrouping
<1>1. ASSUME NEW b \in BuyJob, BuyFind(w, b)
      PROVE  EmptyInv'
  <2>1. Begin(w, "buyFound", b, None, None, NoSnap)
    BY <1>0, <1>1 DEF BuyFind
  <2>2. QED
    BY <1>0, <1>1, <2>1, BeginWrites, EmptyQuiet DEF BuyFind, posVars, buyVars, PositiveQty
<1>2. ASSUME BuyRead(w)
      PROVE  EmptyInv'
  BY <1>2 DEF BuyRead, EmptyInv, NoMerge
<1>3. ASSUME NEW p \in Position, BuyCreate(w, p)
      PROVE  EmptyInv'
  <2> DEFINE b == txJob[w]
  <2>1. b \in BuyJob /\ buyStatus[b] # "NONE" /\ buyQty[b] \in Nat /\ buyQty[b] > 0
    BY <1>0, <1>3 DEF BuyCreate, EmptyInv, TypeInv, TypeOK, CallOK, BuyPhase, PositiveQty
  <2>2. /\ status' = [status EXCEPT ![p] = "OPEN"]
        /\ qtyRemaining' = [qtyRemaining EXCEPT ![p] = buyQty[b]]
        /\ buyStatus' = [buyStatus EXCEPT ![b] = "FILLED"]
        /\ UNCHANGED buyQty
    BY <1>3 DEF BuyCreate, BuyFilled
  <2> HIDE DEF b
  <2>3. ClosedIffEmpty'
    BY <1>0, <2>1, <2>2 DEF EmptyInv, TypeOK, ClosedIffEmpty, Live
  <2>4. PositiveQty'
    BY <1>0, <2>1, <2>2 DEF EmptyInv, TypeOK, PositiveQty
  <2>5. NoMerge' /\ DustRead'
    BY <1>0, <1>3, BeginWrites DEF BuyCreate, Finish, EmptyInv, NoMerge, DustRead
  <2>6. QED
    BY <1>0, <2>3, <2>4, <2>5 DEF EmptyInv
<1>4. ASSUME BuyGroup(w)
      PROVE  EmptyInv'
  BY <1>4 DEF BuyGroup, EmptyInv, NoMerge
<1>5. ASSUME BuyFails(w)
      PROVE  EmptyInv'
  <2>1. \A b \in BuyJob : buyStatus'[b] # "NONE" => buyQty'[b] > 0
    BY <1>0, <1>5 DEF BuyFails, BuyFilled, EmptyInv, TypeInv, TypeOK, CallOK, PositiveQty
  <2>2. QED
    BY <1>0, <1>5, <2>1, BeginWrites, EmptyQuiet DEF BuyFails, Finish, posVars
<1>6. QED
  BY <1>1, <1>2, <1>3, <1>4, <1>5 DEF BuyCall

\* A step of w that only starts, continues or ends a sale.
LEMMA EmptySellStep ==
  ASSUME EmptyInv, TypeInv', UNCHANGED <<status, qtyRemaining, buyVars>>,
         NEW w \in Worker, NEW phase \in SellPhase \cup {"idle", "listed", "finishExecutor", "finishLimit"},
         NEW job, NEW p, NEW s, Begin(w, phase, job, p, None, s)
  PROVE  EmptyInv'
<1>1. TypeOK /\ \A b \in BuyJob : buyStatus'[b] # "NONE" => buyQty'[b] > 0
  BY DEF EmptyInv, TypeInv, PositiveQty, buyVars
<1>2. phase \notin {"buyFound", "buyGroup", "groupValid", "group", "dust"}
  BY DEF SellPhase
<1>3. QED
  BY <1>1, <1>2, BeginWrites, EmptyQuiet

\* After its booking a sale works on no position.
LEMMA EmptyAfterSell ==
  ASSUME NEW w \in Worker, AfterSell(w)
  PROVE  \E phase \in {"idle", "finishExecutor", "finishLimit"} :
           \E job : Begin(w, phase, job, None, None, NoSnap)
BY DEF AfterSell, Finish

\* The steps of a sale.
LEMMA EmptySell ==
  ASSUME EmptyInv, NEW w \in Worker, SellCall(w)
  PROVE  EmptyInv'
<1>0. TypeInv' /\ TypeOK
  BY SellCallType DEF EmptyInv, TypeInv
<1>1. ASSUME NEW j \in SellJob, LimitList(w, j)
      PROVE  EmptyInv'
  <2>1. UNCHANGED <<status, qtyRemaining, buyVars>>
    BY <1>1 DEF LimitList, posVars
  <2>2. CASE UNCHANGED txVars
    BY <1>0, <2>1, <2>2, EmptyQuiet DEF txVars, buyVars, EmptyInv, PositiveQty, NoMerge, DustRead
  <2>3. CASE Begin(w, "listed", j, None, None, NoSnap)
    BY <1>0, <2>1, <2>3, EmptySellStep
  <2>4. QED
    BY <1>1, <2>2, <2>3 DEF LimitList
<1>2. ASSUME NEW j \in SellJob, SellBegin(w, j)
      PROVE  EmptyInv'
  <2>1. UNCHANGED <<status, qtyRemaining, buyVars>>
    BY <1>2 DEF SellBegin, posVars
  <2>2. PICK phase \in SellPhase : Begin(w, phase, j, sellPos[j], None, Snapshot)
    BY <1>2 DEF SellBegin, SellPhase
  <2>3. QED
    BY <1>0, <2>1, <2>2, EmptySellStep
<1>3. ASSUME NEW j \in SellJob, NEW p \in Position, SyncBegin(w, j, p)
      PROVE  EmptyInv'
  BY <1>0, <1>3, EmptySellStep DEF SyncBegin, posVars, SellPhase
<1>4. ASSUME LimitBegin(w)
      PROVE  EmptyInv'
  BY <1>0, <1>4, EmptySellStep DEF LimitBegin, posVars, SellPhase
<1>5. ASSUME SellRefused(w) \/ SellFails(w)
      PROVE  EmptyInv'
  <2>1. UNCHANGED <<status, qtyRemaining, buyVars>> /\ AfterSell(w)
    BY <1>5 DEF SellRefused, SellFails, posVars
  <2>2. QED
    BY <1>0, <2>1, EmptyAfterSell, EmptySellStep
<1>6. ASSUME SellApplied(w)
      PROVE  EmptyInv'
  <2> DEFINE p == txPos[w]
             left == Closable(w) - SellClose(w)
  <2>1. p \in Position
    BY <1>0, <1>6 DEF SellApplied, TypeOK
  <2>2. /\ qtyRemaining' = [qtyRemaining EXCEPT ![p] = left]
        /\ status' = [status EXCEPT ![p] = StatusFor(left)]
        /\ UNCHANGED <<buyStatus, buyQty>>
    BY <1>6 DEF SellApplied, buyVars
  <2>3. status \in [Position -> PositionStatus] /\ qtyRemaining \in [Position -> Nat]
    BY <1>0 DEF TypeOK
  <2> HIDE DEF p, left
  <2>4. ClosedIffEmpty'
    BY <2>1, <2>2, <2>3 DEF EmptyInv, ClosedIffEmpty, Live, StatusFor
  <2>5. PICK phase \in {"idle", "finishExecutor", "finishLimit"} :
              \E job : Begin(w, phase, job, None, None, NoSnap)
    BY <1>6, EmptyAfterSell DEF SellApplied
  <2>6. NoMerge' /\ DustRead'
    BY <1>0, <2>5, BeginWrites DEF EmptyInv, NoMerge, DustRead
  <2>7. PositiveQty'
    BY <2>2 DEF EmptyInv, PositiveQty
  <2>8. QED
    BY <1>0, <2>4, <2>6, <2>7 DEF EmptyInv
<1>7. ASSUME ExecutorFinish(w) \/ LimitFinish(w)
      PROVE  EmptyInv'
  <2>1. UNCHANGED <<status, qtyRemaining, buyVars>> /\ Begin(w, "idle", None, None, None, NoSnap)
    BY <1>7 DEF ExecutorFinish, LimitFinish, SetSellStatus, Finish, posVars
  <2>2. QED
    BY <1>0, <2>1, EmptySellStep
<1>8. QED
  BY <1>1, <1>2, <1>3, <1>4, <1>5, <1>6, <1>7 DEF SellCall

\* The steps of groupPositions and of the dust job.
LEMMA EmptyRegroup ==
  ASSUME EmptyInv, Ungrouped, NEW w \in Worker, RegroupCall(w)
  PROVE  EmptyInv'
<1>0. TypeInv' /\ TypeOK
  BY RegroupCallType DEF EmptyInv, TypeInv
<1>1. ASSUME NEW p \in Position, NEW o \in Position, GroupValidate(w, p, o)
      PROVE  EmptyInv'
  BY <1>1 DEF GroupValidate, Ungrouped
<1>2. ASSUME GroupRead(w) \/ GroupCommit(w)
      PROVE  EmptyInv'
  BY <1>2 DEF GroupRead, GroupCommit, EmptyInv, NoMerge
<1>3. ASSUME NEW p \in Position, DustBegin(w, p)
      PROVE  EmptyInv'
  <2>1. /\ Begin(w, "dust", None, p, None, Snapshot) /\ qtyRemaining[p] > 0
        /\ UNCHANGED <<status, qtyRemaining, buyVars>>
    BY <1>3 DEF DustBegin, Open, posVars
  <2>2. Snapshot[p].remaining > 0
    BY <2>1 DEF Snapshot, Row
  <2>3. /\ pc'[w] = "dust" /\ snap'[w][txPos'[w]].remaining > 0
        /\ \A v \in Worker \ {w} : pc'[v] = pc[v] /\ txPos'[v] = txPos[v] /\ snap'[v] = snap[v]
    BY <1>0, <2>1, <2>2, BeginWrites
  <2>4. QED
    BY <1>0, <2>1, <2>3, EmptyQuiet DEF buyVars, EmptyInv, PositiveQty
<1>4. ASSUME NEW b \in BuyJob, NEW d \in Position, DustCommit(w, b, d)
      PROVE  EmptyInv'
  <2> DEFINE p == txPos[w]
             q == snap[w][p].remaining
  <2>1. p \in Position /\ p # d /\ q \in Nat /\ q > 0
    BY <1>0, <1>4 DEF DustCommit, TypeOK, RowType, EmptyInv, TypeInv, CallOK, DustRead, Live
  <2>2. /\ status' = [status EXCEPT ![p] = "CLOSED", ![d] = "OPEN"]
        /\ qtyRemaining' = [qtyRemaining EXCEPT ![p] = 0, ![d] = q]
        /\ buyQty' = [buyQty EXCEPT ![b] = q]
        /\ buyStatus' = [buyStatus EXCEPT ![b] = "PENDING"]
    BY <1>4 DEF DustCommit
  <2>3. /\ status \in [Position -> PositionStatus] /\ qtyRemaining \in [Position -> Nat]
        /\ buyStatus \in [BuyJob -> BuyStatus] /\ buyQty \in [BuyJob -> Nat]
    BY <1>0 DEF TypeOK
  <2> HIDE DEF p, q
  <2>4. ClosedIffEmpty'
    BY <2>1, <2>2, <2>3 DEF EmptyInv, ClosedIffEmpty, Live
  <2>5. PositiveQty'
    BY <2>1, <2>2, <2>3 DEF EmptyInv, PositiveQty
  <2>6. NoMerge' /\ DustRead'
    BY <1>0, <1>4, BeginWrites DEF DustCommit, Finish, EmptyInv, NoMerge, DustRead
  <2>7. QED
    BY <1>0, <2>4, <2>5, <2>6 DEF EmptyInv
<1>5. ASSUME Abort(w)
      PROVE  EmptyInv'
  BY <1>0, <1>5, EmptySellStep DEF Abort, Finish, posVars
<1>6. QED
  BY <1>1, <1>2, <1>3, <1>4, <1>5 DEF RegroupCall

\* The account and the exchange leave the positions alone.
LEMMA EmptyEnvironment == EmptyInv /\ Environment => EmptyInv'
<1> SUFFICES ASSUME EmptyInv, Environment
             PROVE  EmptyInv'
  OBVIOUS
<1>1. /\ TypeInv' /\ TypeOK
      /\ UNCHANGED <<status, qtyRemaining, txVars>>
  BY EnvironmentType DEF EmptyInv, TypeInv, Environment, BuyExecuted, SellExecuted, SellRecorded,
     NewSell, LockSellByWebhook, posVars
<1>2. PositiveQty'
  <2>1. CASE UNCHANGED buyVars
    BY <2>1 DEF EmptyInv, PositiveQty, buyVars
  <2>2. ASSUME NEW b \in BuyJob, NEW q \in 1..MaxQty, BuyExecuted(b, q)
        PROVE  PositiveQty'
    <3>1. PICK st \in BuyStatus : buyStatus' = [buyStatus EXCEPT ![b] = st]
      BY <2>2 DEF BuyExecuted, BuyStatus
    <3>2. buyQty' = [buyQty EXCEPT ![b] = q] /\ q > 0
      BY <2>2, LedgerAssumption DEF BuyExecuted
    <3>3. QED
      BY <1>1, <3>1, <3>2 DEF EmptyInv, TypeOK, PositiveQty
  <2>3. QED
    BY <2>1, <2>2 DEF Environment, SellExecuted, SellRecorded, NewSell, LockSellByWebhook
<1>3. ClosedIffEmpty' /\ NoMerge' /\ DustRead'
  BY <1>1 DEF EmptyInv, ClosedIffEmpty, Live, NoMerge, DustRead, txVars
<1>4. QED
  BY <1>1, <1>2, <1>3 DEF EmptyInv

\* Every step keeps the invariant.
LEMMA EmptyStep == ASSUME Ungrouped PROVE EmptyInv /\ [Next]_vars => EmptyInv'
<1> SUFFICES ASSUME EmptyInv, [Next]_vars
             PROVE  EmptyInv'
  OBVIOUS
<1>1. ASSUME NEW w \in Worker, Call(w)
      PROVE  EmptyInv'
  BY <1>1, EmptyBuy, EmptySell, EmptyRegroup DEF Call, BuyCall, SellCall, RegroupCall
<1>2. CASE UNCHANGED vars
  <2>1. TypeInv'
    BY TypeInvStep DEF EmptyInv
  <2>2. QED
    BY <1>2, <2>1 DEF vars, posVars, buyVars, txVars, EmptyInv, ClosedIffEmpty, Live, PositiveQty, NoMerge, DustRead
<1>3. QED
  BY <1>1, <1>2, EmptyEnvironment DEF Next

\* A position is CLOSED exactly when nothing is left of it, with any number
\* of concurrent executors, monitors and requests, as long as the deployment
\* neither merges purchases nor groups positions.
THEOREM ClosedMeansEmpty == ASSUME Ungrouped PROVE Spec => []ClosedIffEmpty
<1>1. EmptyInv /\ [Next]_vars => EmptyInv'
  BY EmptyStep
<1>2. EmptyInv => ClosedIffEmpty
  BY DEF EmptyInv
<1>3. QED
  BY <1>1, <1>2, InitEmpty, PTL DEF Spec

(***************************************************************************)
(* CLOSED is final                                                         *)
(***************************************************************************)
\* A row is reopened by nobody: a sale writes only a row it finds open, a merge
\* leaves the status alone, a conversion closes, grouping deletes.
LEMMA ClosedStep ==
  ASSUME TypeInv, [Next]_vars, NEW p \in Position, status[p] = "CLOSED"
  PROVE  status'[p] \in {"CLOSED", "DELETED"}
<1>0. status \in [Position -> PositionStatus]
  BY DEF TypeInv, TypeOK
<1>1. ASSUME NEW w \in Worker, BuyCall(w)
      PROVE  status'[p] \in {"CLOSED", "DELETED"}
  BY <1>0, <1>1 DEF BuyCall, BuyFind, BuyRead, BuyCreate, BuyGroup, BuyFails, posVars
<1>2. ASSUME NEW w \in Worker, SellApplied(w)
      PROVE  status'[p] \in {"CLOSED", "DELETED"}
  <2>1. p # txPos[w]
    BY <1>2 DEF SellApplied, Refusal, Open
  <2>2. \E st : status' = [status EXCEPT ![txPos[w]] = st]
    BY <1>2 DEF SellApplied
  <2>3. QED
    BY <1>0, <2>1, <2>2
<1>3. ASSUME NEW w \in Worker, SellCall(w), ~SellApplied(w)
      PROVE  status'[p] \in {"CLOSED", "DELETED"}
  BY <1>3 DEF SellCall, LimitList, SellBegin, SyncBegin, LimitBegin, SellRefused, SellFails,
     ExecutorFinish, LimitFinish, SetSellStatus, posVars
<1>4. ASSUME NEW w \in Worker, RegroupCall(w)
      PROVE  status'[p] \in {"CLOSED", "DELETED"}
  BY <1>0, <1>4 DEF RegroupCall, GroupValidate, GroupRead, GroupCommit, DustBegin, DustCommit, Abort, posVars
<1>5. ASSUME Environment \/ UNCHANGED vars
      PROVE  status'[p] \in {"CLOSED", "DELETED"}
  BY <1>5 DEF Environment, BuyExecuted, SellExecuted, SellRecorded, NewSell, LockSellByWebhook, vars, posVars
<1>6. QED
  BY <1>1, <1>2, <1>3, <1>4, <1>5 DEF Next, Call, BuyCall, SellCall, RegroupCall

\* CLOSED is final: no later merge, sale or conversion reopens a position,
\* with every feature and however calls interleave.
THEOREM ClosedStaysClosed == Spec => ClosedIsFinal
<1>1. TypeInv /\ [Next]_vars => [\A p \in Position : status[p] = "CLOSED" => status'[p] \in {"CLOSED", "DELETED"}]_vars
  BY ClosedStep
<1>2. TypeInv /\ [Next]_vars => TypeInv'
  BY TypeInvStep
<1>3. QED
  BY <1>1, <1>2, InitType, PTL DEF Spec, ClosedIsFinal

(***************************************************************************)
(* A purchase is booked once                                               *)
(***************************************************************************)
\* A purchase that was booked opens a position as long as none is merged or
\* grouped; createNewPosition looks for it.
BuysKept ==
  \A b \in BuyJob :
    /\ boughtBy[b] <= buyQty[b]
    /\ OpenedBy(b) = {} => boughtBy[b] = 0
    /\ buyStatus[b] = "NONE" => boughtBy[b] = 0

\* A step that books no purchase and deletes no position.
LEMMA BuysKeptQuiet ==
  ASSUME TypeInv, BuysKept, UNCHANGED <<opener, boughtBy, buyVars>>,
         \A p \in Position : status'[p] = status[p] \/ (Live(p) /\ status'[p] \in {"OPEN", "CLOSED"})
  PROVE  BuysKept'
<1>1. ASSUME NEW b \in BuyJob, OpenedBy(b)' = {} PROVE OpenedBy(b) = {}
  BY <1>1 DEF OpenedBy, Live
<1>2. QED
  BY <1>1 DEF BuysKept, buyVars

\* Every step keeps the purchases booked at most once; only BuyCreate and
\* DustCommit book any.
LEMMA BuysKeptStep ==
  ASSUME TypeInv, BuysKept, [Next]_vars, Ungrouped, NoMerge
  PROVE  BuysKept'
<1>0. TypeOK
  BY DEF TypeInv
<1>1. ASSUME NEW w \in Worker, NEW p \in Position, BuyCreate(w, p)
      PROVE  BuysKept'
  <2>1. PICK b \in BuyJob : b = txJob[w] /\ buyStatus[b] # "NONE" /\ buyQty[b] \in Nat
    BY <1>0, <1>1 DEF BuyCreate, TypeInv, TypeOK, CallOK, BuyPhase
  <2>2. /\ OpenedBy(b) = {} /\ status[p] = "NONE"
        /\ status' = [status EXCEPT ![p] = "OPEN"]
        /\ opener' = [opener EXCEPT ![p] = b]
        /\ boughtBy' = [boughtBy EXCEPT ![b] = @ + buyQty[b]]
        /\ buyStatus' = [buyStatus EXCEPT ![b] = "FILLED"]
        /\ UNCHANGED buyQty
    BY <1>1, <2>1 DEF BuyCreate, BuyFilled
  <2>3. boughtBy[b] = 0
    BY <2>1, <2>2 DEF BuysKept
  <2>4. boughtBy'[b] = buyQty[b]
    BY <1>0, <2>1, <2>2, <2>3 DEF TypeOK
  <2>5. p \in OpenedBy(b)'
    BY <1>0, <2>2 DEF OpenedBy, Live, TypeOK
  <2>6. ASSUME NEW c \in BuyJob \ {b}
        PROVE  /\ boughtBy'[c] = boughtBy[c] /\ buyStatus'[c] = buyStatus[c]
               /\ OpenedBy(c)' = {} => OpenedBy(c) = {}
    BY <1>0, <2>2, <2>6 DEF OpenedBy, Live, TypeOK
  <2>7. buyStatus'[b] # "NONE"
    BY <1>0, <2>1, <2>2 DEF TypeOK
  <2>8. QED
    BY <1>0, <2>1, <2>2, <2>4, <2>5, <2>6, <2>7 DEF BuysKept
<1>2. ASSUME NEW w \in Worker, NEW b \in BuyJob, NEW d \in Position, DustCommit(w, b, d)
      PROVE  BuysKept'
  <2> DEFINE q == snap[w][txPos[w]].remaining
  <2>1. /\ txPos[w] \in Position /\ Live(txPos[w]) /\ txPos[w] # d /\ status[d] = "NONE" /\ buyStatus[b] = "NONE"
        /\ status' = [status EXCEPT ![txPos[w]] = "CLOSED", ![d] = "OPEN"]
        /\ opener' = [opener EXCEPT ![d] = b]
        /\ boughtBy' = [boughtBy EXCEPT ![b] = q]
        /\ buyQty' = [buyQty EXCEPT ![b] = q]
        /\ buyStatus' = [buyStatus EXCEPT ![b] = "PENDING"]
    BY <1>2 DEF DustCommit, Live, TypeInv, CallOK
  <2>2. q \in Nat
    BY <1>0, <2>1 DEF TypeOK, RowType
  <2> HIDE DEF q
  <2>3. boughtBy'[b] = q /\ buyQty'[b] = q /\ buyStatus'[b] = "PENDING"
    BY <1>0, <2>1 DEF TypeOK
  <2>4. d \in OpenedBy(b)'
    BY <1>0, <2>1 DEF OpenedBy, Live, TypeOK
  <2>5. ASSUME NEW c \in BuyJob \ {b}
        PROVE  /\ boughtBy'[c] = boughtBy[c] /\ buyStatus'[c] = buyStatus[c] /\ buyQty'[c] = buyQty[c]
               /\ OpenedBy(c)' = {} => OpenedBy(c) = {}
    BY <1>0, <2>1, <2>5 DEF OpenedBy, Live, TypeOK
  <2>6. QED
    BY <2>2, <2>3, <2>4, <2>5 DEF BuysKept
<1>3. ASSUME NEW w \in Worker, BuyCall(w), \A p \in Position : ~BuyCreate(w, p)
      PROVE  BuysKept'
  <2>1. CASE BuyFails(w)
    <3> DEFINE b == txJob[w]
    <3>1. b \in BuyJob /\ buyStatus[b] # "NONE" /\ buyStatus' = [buyStatus EXCEPT ![b] = "FILLED"]
          /\ UNCHANGED <<status, opener, boughtBy, buyQty>>
      BY <2>1 DEF BuyFails, BuyFilled, TypeInv, CallOK, posVars, fillVars
    <3> HIDE DEF b
    <3>2. \A c \in BuyJob : buyStatus'[c] = "NONE" => buyStatus[c] = "NONE"
      BY <1>0, <3>1 DEF TypeOK
    <3>3. QED
      BY <3>1, <3>2 DEF BuysKept, OpenedBy, Live
  <2>2. CASE \E b \in BuyJob : BuyFind(w, b)
    BY <2>2, BuysKeptQuiet DEF BuyFind, posVars, fillVars, buyVars
  <2>3. CASE BuyRead(w)
    BY <2>3, BuysKeptQuiet DEF BuyRead, posVars, fillVars, buyVars
  <2>4. CASE BuyGroup(w)
    BY <2>4 DEF BuyGroup, NoMerge
  <2>5. QED
    BY <1>3, <2>1, <2>2, <2>3, <2>4 DEF BuyCall
<1>4. ASSUME NEW w \in Worker, SellApplied(w)
      PROVE  BuysKept'
  <2>1. status[txPos[w]] = "OPEN" /\ UNCHANGED <<opener, boughtBy, buyVars>>
        /\ \E left : status' = [status EXCEPT ![txPos[w]] = StatusFor(left)]
    BY <1>4 DEF SellApplied, Refusal, Open
  <2>2. QED
    BY <1>0, <2>1, BuysKeptQuiet DEF StatusFor, Live, TypeOK
<1>5. ASSUME NEW w \in Worker, SellCall(w), ~SellApplied(w)
      PROVE  BuysKept'
  <2>1. UNCHANGED <<status, opener, boughtBy, buyVars>>
    BY <1>5 DEF SellCall, LimitList, SellBegin, SyncBegin, LimitBegin, SellRefused, SellFails,
       ExecutorFinish, LimitFinish, SetSellStatus, posVars, fillVars
  <2>2. QED
    BY <2>1, BuysKeptQuiet
<1>6. ASSUME NEW w \in Worker, RegroupCall(w), \A b \in BuyJob, d \in Position : ~DustCommit(w, b, d)
      PROVE  BuysKept'
  <2>1. UNCHANGED <<status, opener, boughtBy, buyVars>>
    BY <1>6 DEF RegroupCall, GroupValidate, GroupRead, GroupCommit, NoMerge, DustBegin, Abort, posVars, fillVars
  <2>2. QED
    BY <2>1, BuysKeptQuiet
<1>7. ASSUME NEW b \in BuyJob, NEW q \in 1..MaxQty, BuyExecuted(b, q)
      PROVE  BuysKept'
  <2>1. /\ buyStatus[b] = "NONE" /\ buyQty' = [buyQty EXCEPT ![b] = q]
        /\ \E st : st # "NONE" /\ buyStatus' = [buyStatus EXCEPT ![b] = st]
        /\ UNCHANGED <<status, opener, boughtBy>>
    BY <1>7 DEF BuyExecuted, posVars, fillVars
  <2>2. boughtBy[b] = 0
    BY <2>1 DEF BuysKept
  <2>3. QED
    BY <1>0, <2>1, <2>2 DEF BuysKept, OpenedBy, Live, TypeOK
<1>8. ASSUME NEW j \in SellJob, NEW p \in Position, NEW q \in 1..MaxQty,
             SellExecuted(j, p, q) \/ SellRecorded(j, p, q)
      PROVE  BuysKept'
  BY <1>8, BuysKeptQuiet DEF SellExecuted, SellRecorded, NewSell, posVars, fillVars
<1>9. ASSUME NEW p \in Position, LockSellByWebhook(p)
      PROVE  BuysKept'
  BY <1>9, BuysKeptQuiet DEF LockSellByWebhook, fillVars
<1>10. CASE UNCHANGED vars
  BY <1>10, BuysKeptQuiet DEF vars, posVars, fillVars
<1>11. QED
  BY <1>1, <1>2, <1>3, <1>4, <1>5, <1>6, <1>7, <1>8, <1>9, <1>10
     DEF Next, Environment, Call, BuyCall, SellCall, RegroupCall

\* No purchase is booked for more than the exchange executed, however the
\* executor, the LIMIT monitor and the sync endpoints overlap on it: the check
\* inside the transaction and the unique key are enough, as long as no
\* purchase is merged and no position grouped away.
THEOREM PurchaseBookedOnce == ASSUME Ungrouped PROVE Spec => []BuyCountedOnce
<1> DEFINE KInv == EmptyInv /\ BuysKept
<1>1. Init => KInv
  BY InitEmpty DEF Init, BuysKept
<1>2. KInv /\ [Next]_vars => KInv'
  <2>1. EmptyInv /\ [Next]_vars => EmptyInv'
    BY EmptyStep
  <2>2. QED
    BY <2>1, BuysKeptStep DEF EmptyInv
<1>3. KInv => BuyCountedOnce
  BY DEF BuysKept, BuyCountedOnce
<1>4. QED
  BY <1>1, <1>2, <1>3, PTL DEF Spec

(***************************************************************************)
(* A sale is booked once                                                   *)
(***************************************************************************)
\* One reporter at a time looks at the LIMIT orders, or there are none.
OneReporter == (\A v, w \in Worker : v = w) \/ "LIMIT_ORDERS" \notin Enabled

SellHand == SellPhase \cup {"listed"}

Unreported == {"NONE", "PENDING_LIMIT"}

\* The sale j may still be reported, or is being reported.
SellOpen(j) ==
  \/ sellStatus[j] \in Unreported
  \/ j \in owed
  \/ \E w \in Worker : pc[w] \in SellHand /\ txJob[w] = j

\* Who reports a sale has it for himself: nobody owes its report any more, and
\* no other call is about it.
SellsInHand ==
  /\ \A j \in SellJob : sellStatus[j] \in Unreported => j \notin owed
  /\ "LIMIT_ORDERS" \notin Enabled => \A j \in SellJob : sellStatus[j] # "PENDING_LIMIT"
  /\ \A w \in Worker : pc[w] \in SellHand =>
       /\ txJob[w] \notin owed /\ sellStatus[txJob[w]] # "NONE"
       /\ \A v \in Worker : pc[v] \in SellHand /\ txJob[v] = txJob[w] => v = w

SellsOnce == \A j \in SellJob : soldBy[j] <= sellQty[j] /\ (SellOpen(j) => soldBy[j] = 0)

SellsInv == SellsInHand /\ SellsOnce

\* A step of w that goes on with its sale or lets it go, and at most writes a
\* status that ends a job.
LEMMA SellsQuiet ==
  ASSUME TypeInv, SellsInv, UNCHANGED <<soldBy, sellQty>>,
         \A j \in SellJob : j \in owed' => j \in owed,
         \A j \in SellJob : sellStatus'[j] = sellStatus[j] \/ sellStatus'[j] \notin Unreported,
         NEW w \in Worker, NEW phase, NEW job, NEW p, NEW o, NEW s, Begin(w, phase, job, p, o, s),
         phase \in SellHand => pc[w] \in SellHand /\ job = txJob[w]
  PROVE  SellsInv'
<1>1. /\ pc'[w] = phase /\ txJob'[w] = job
      /\ \A v \in Worker \ {w} : pc'[v] = pc[v] /\ txJob'[v] = txJob[v]
  BY BeginWrites DEF TypeInv
<1>2. \A v \in Worker : pc'[v] \in SellHand => pc[v] \in SellHand /\ txJob'[v] = txJob[v] /\ txJob[v] \in SellJob
  BY <1>1 DEF TypeInv, CallOK, SellHand
<1>3. SellsInHand'
  BY <1>2 DEF SellsInv, SellsInHand, Unreported
<1>4. \A j \in SellJob : SellOpen(j)' => SellOpen(j)
  BY <1>2 DEF SellOpen
<1>5. QED
  BY <1>3, <1>4 DEF SellsInv, SellsOnce

\* A step of w that takes a sale nobody has.
LEMMA SellsTaken ==
  ASSUME TypeInv, SellsInv, UNCHANGED <<soldBy, sellVars>>, NEW w \in Worker, NEW j \in SellJob,
         \A k \in SellJob : k \in owed' => k \in owed /\ k # j,
         sellStatus[j] # "NONE",
         \A v \in Worker \ {w} : pc[v] \in SellHand => txJob[v] # j,
         SellOpen(j),
         NEW phase \in SellHand, NEW p, NEW s, Begin(w, phase, j, p, None, s)
  PROVE  SellsInv'
<1>1. /\ pc'[w] = phase /\ txJob'[w] = j
      /\ \A v \in Worker \ {w} : pc'[v] = pc[v] /\ txJob'[v] = txJob[v]
  BY BeginWrites DEF TypeInv
<1>2. \A v \in Worker : pc[v] \in SellHand => txJob[v] \in SellJob
  BY DEF TypeInv, CallOK, SellHand
<1>3. SellsInHand'
  BY <1>1, <1>2 DEF SellsInv, SellsInHand, sellVars
<1>4. \A k \in SellJob : SellOpen(k)' => SellOpen(k)
  BY <1>1 DEF SellOpen, sellVars
<1>5. QED
  BY <1>3, <1>4 DEF SellsInv, SellsOnce, sellVars

\* The steps of onSellExecuted and of its callers.
LEMMA SellsCall ==
  ASSUME TypeInv, SellsInv, OneReporter, "SELL_SYNC" \notin Enabled, NEW w \in Worker, SellCall(w)
  PROVE  SellsInv'
<1>0. /\ TypeOK
      /\ pc[w] \in SellHand \cup {"finishExecutor", "finishLimit"} => txJob[w] \in SellJob
      /\ {"idle", "finishExecutor", "finishLimit"} \cap SellHand = {}
  BY DEF TypeInv, CallOK, SellHand, SellPhase
<1>1. ASSUME NEW j \in SellJob, LimitList(w, j)
      PROVE  SellsInv'
  <2>1. /\ sellStatus[j] = "PENDING_LIMIT" /\ UNCHANGED <<soldBy, sellQty, owed>>
        /\ \A v \in Worker : v = w
    BY <1>1 DEF LimitList, fillVars, SellsInv, SellsInHand, OneReporter
  <2>2. CASE sellStatus' = [sellStatus EXCEPT ![j] = "ANOMALY"] /\ UNCHANGED txVars
    <3>1. \A k \in SellJob : sellStatus'[k] = sellStatus[k] \/ sellStatus'[k] = "ANOMALY"
      BY <1>0, <2>2 DEF TypeOK
    <3>2. SellsInHand'
      BY <2>1, <2>2, <3>1, <1>0 DEF SellsInv, SellsInHand, txVars, Unreported, TypeInv, CallOK, SellHand
    <3>3. \A k \in SellJob : SellOpen(k)' => SellOpen(k)
      BY <2>1, <2>2, <3>1 DEF SellOpen, txVars, Unreported
    <3>4. QED
      BY <2>1, <3>2, <3>3 DEF SellsInv, SellsOnce
  <2>3. CASE Begin(w, "listed", j, None, None, NoSnap) /\ UNCHANGED sellStatus
    <3>1. j \notin owed /\ SellOpen(j)
      BY <2>1 DEF SellsInv, SellsInHand, SellOpen, Unreported
    <3>2. UNCHANGED <<soldBy, sellVars>> /\ "listed" \in SellHand
      BY <1>1, <2>3 DEF LimitList, fillVars, sellVars, SellHand
    <3>3. QED
      BY <2>1, <2>3, <3>1, <3>2, SellsTaken
  <2>4. QED
    BY <1>1, <2>2, <2>3 DEF LimitList
<1>2. ASSUME NEW j \in SellJob, SellBegin(w, j)
      PROVE  SellsInv'
  <2>1. PICK phase \in SellPhase : Begin(w, phase, j, sellPos[j], None, Snapshot)
    BY <1>2 DEF SellBegin, SellPhase
  <2>2. j \in owed /\ owed' = owed \ {j} /\ UNCHANGED <<soldBy, sellVars>>
    BY <1>2 DEF SellBegin, Reported, fillVars
  <2>3. /\ sellStatus[j] # "NONE" /\ SellOpen(j) /\ phase \in SellHand
        /\ \A v \in Worker : pc[v] \in SellHand => txJob[v] # j
    BY <2>2 DEF SellsInv, SellsInHand, SellOpen, Unreported, SellHand
  <2>4. QED
    BY <2>1, <2>2, <2>3, SellsTaken
<1>3. ASSUME NEW j \in SellJob, NEW p \in Position, SyncBegin(w, j, p)
      PROVE  SellsInv'
  BY <1>3 DEF SyncBegin
<1>4. ASSUME LimitBegin(w)
      PROVE  SellsInv'
  <2>1. /\ pc[w] = "listed" /\ Begin(w, "sellLimit", txJob[w], sellPos[txJob[w]], None, Snapshot)
        /\ UNCHANGED <<soldBy, sellQty, sellStatus, owed>>
    BY <1>4 DEF LimitBegin, fillVars, sellVars
  <2>2. QED
    BY <2>1, SellsQuiet DEF SellHand
<1>5. ASSUME SellRefused(w)
      PROVE  SellsInv'
  <2>1. PICK phase, job : phase \in {"idle", "finishExecutor", "finishLimit"} /\ Begin(w, phase, job, None, None, NoSnap)
    BY <1>5, EmptyAfterSell DEF SellRefused
  <2>2. /\ sellStatus' = [sellStatus EXCEPT ![txJob[w]] = Refusal(w)] /\ Refusal(w) \notin Unreported
        /\ UNCHANGED <<soldBy, sellQty, owed>>
    BY <1>5 DEF SellRefused, fillVars, Refusal, Unreported
  <2>3. \A k \in SellJob : sellStatus'[k] = sellStatus[k] \/ sellStatus'[k] \notin Unreported
    BY <1>0, <2>2 DEF TypeOK
  <2>4. QED
    BY <1>0, <2>1, <2>2, <2>3, SellsQuiet
<1>6. ASSUME SellFails(w)
      PROVE  SellsInv'
  <2>1. PICK phase, job : phase \in {"idle", "finishExecutor", "finishLimit"} /\ Begin(w, phase, job, None, None, NoSnap)
    BY <1>6, EmptyAfterSell DEF SellFails
  <2>2. UNCHANGED <<soldBy, sellQty, sellStatus, owed>>
    BY <1>6 DEF SellFails, fillVars, sellVars
  <2>3. QED
    BY <1>0, <2>1, <2>2, SellsQuiet
<1>7. ASSUME SellApplied(w)
      PROVE  SellsInv'
  <2>1. PICK j \in SellJob : j = txJob[w] /\ pc[w] \in SellHand
    BY <1>0, <1>7 DEF SellApplied, SellHand
  <2>2. PICK phase, job : phase \in {"idle", "finishExecutor", "finishLimit"} /\ Begin(w, phase, job, None, None, NoSnap)
    BY <1>7, EmptyAfterSell DEF SellApplied
  <2>3. /\ pc'[w] \notin SellHand
        /\ \A v \in Worker \ {w} : pc'[v] = pc[v] /\ txJob'[v] = txJob[v]
    BY <1>0, <2>2, BeginWrites
  <2>4. PICK q : q = SellClose(w)
    OBVIOUS
  <2>5. /\ soldBy' = [soldBy EXCEPT ![j] = @ + q] /\ UNCHANGED <<sellQty, owed>>
        /\ \E st \in {"PARTIALLY_FILLED", "FILLED"} : sellStatus' = [sellStatus EXCEPT ![j] = st]
    BY <1>7, <2>1, <2>4 DEF SellApplied, SoldStatus
  <2>6. q \in Nat /\ q <= sellQty[j]
    <3>1. txPos[w] \in Position /\ sellQty[j] \in Nat /\ snap[w][txPos[w]].remaining \in Nat
      BY <1>0, <1>7 DEF SellApplied, TypeOK, RowType
    <3>2. CallQty(w) \in Nat /\ CallQty(w) <= sellQty[j]
      BY <2>1, <3>1 DEF CallQty
    <3>3. Closable(w) \in Nat
      BY <1>0, <3>1 DEF Closable, TypeOK, RowType
    <3>4. QED
      BY <2>1, <2>4, <3>1, <3>2, <3>3 DEF SellClose
  <2>7. soldBy[j] = 0 /\ j \notin owed /\ \A v \in Worker \ {w} : pc[v] \in SellHand => txJob[v] # j
    BY <2>1 DEF SellsInv, SellsInHand, SellsOnce, SellOpen
  <2>8. /\ soldBy'[j] = q /\ sellStatus'[j] \notin Unreported
        /\ \A k \in SellJob \ {j} : soldBy'[k] = soldBy[k] /\ sellStatus'[k] = sellStatus[k]
    BY <1>0, <2>5, <2>6, <2>7 DEF TypeOK, Unreported
  <2>9. SellsInHand'
    <3>1. \A v \in Worker : pc'[v] \in SellHand => pc[v] \in SellHand /\ txJob'[v] = txJob[v] /\ txJob[v] \in SellJob \ {j}
      BY <2>3, <2>7 DEF TypeInv, CallOK, SellHand
    <3>2. QED
      BY <2>5, <2>8, <3>1 DEF SellsInv, SellsInHand, Unreported
  <2>10. ~SellOpen(j)' /\ \A k \in SellJob \ {j} : SellOpen(k)' => SellOpen(k)
    BY <2>3, <2>5, <2>7, <2>8 DEF SellOpen
  <2>11. QED
    BY <2>5, <2>6, <2>8, <2>9, <2>10 DEF SellsInv, SellsOnce
<1>8. ASSUME ExecutorFinish(w) \/ LimitFinish(w)
      PROVE  SellsInv'
  <2>1. PICK st : SetSellStatus(w, st) /\ st \notin Unreported
    BY <1>8 DEF ExecutorFinish, LimitFinish, Unreported
  <2>2. /\ \A k \in SellJob : sellStatus'[k] = sellStatus[k] \/ sellStatus'[k] \notin Unreported
        /\ Begin(w, "idle", None, None, None, NoSnap)
        /\ UNCHANGED <<soldBy, sellQty, owed>>
    BY <1>0, <2>1 DEF SetSellStatus, Finish, fillVars, TypeOK
  <2>3. QED
    BY <1>0, <2>2, SellsQuiet
<1>9. QED
  BY <1>1, <1>2, <1>3, <1>4, <1>5, <1>6, <1>7, <1>8 DEF SellCall

\* Calls that are not about a sale.
LEMMA SellsOthers ==
  ASSUME TypeInv, SellsInv, NEW w \in Worker, BuyCall(w) \/ RegroupCall(w)
  PROVE  SellsInv'
<1>0. TypeOK /\ (BuyPhase \cup {"idle", "groupValid", "group", "dust"}) \cap SellHand = {}
  BY DEF TypeInv, SellHand, SellPhase, BuyPhase
<1>1. /\ UNCHANGED <<soldBy, sellQty, sellStatus>>
      /\ \A j \in SellJob : j \in owed' => j \in owed
      /\ \E phase \in BuyPhase \cup {"idle", "groupValid", "group", "dust"} :
           \E job, p, o, s : Begin(w, phase, job, p, o, s)
  BY DEF BuyCall, BuyFind, BuyRead, BuyCreate, BuyGroup, BuyFails, RegroupCall, GroupValidate, GroupRead,
     GroupCommit, DustBegin, DustCommit, Abort, Finish, Reported, BuyPhase, fillVars, sellVars
<1>2. QED
  BY <1>0, <1>1, SellsQuiet

\* Every step keeps the sales booked at most once.
LEMMA SellsStep ==
  ASSUME TypeInv, SellsInv, [Next]_vars, OneReporter, "SELL_SYNC" \notin Enabled
  PROVE  SellsInv'
<1>0. TypeOK
  BY DEF TypeInv
<1>1. ASSUME NEW w \in Worker, Call(w)
      PROVE  SellsInv'
  BY <1>1, SellsCall, SellsOthers DEF Call, BuyCall, SellCall, RegroupCall
<1>2. ASSUME UNCHANGED <<soldBy, sellVars, txVars>>, \A j \in SellJob : j \in owed' <=> j \in owed
      PROVE  SellsInv'
  <2>1. \A w \in Worker : pc[w] \in SellHand => txJob[w] \in SellJob
    BY DEF TypeInv, CallOK, SellHand
  <2>2. QED
    BY <1>2, <2>1 DEF SellsInv, SellsInHand, SellsOnce, SellOpen, sellVars, txVars
<1>3. ASSUME NEW j \in SellJob, NEW p \in Position, NEW q \in 1..MaxQty,
             SellExecuted(j, p, q) \/ SellRecorded(j, p, q)
      PROVE  SellsInv'
  <2>1. PICK st \in {"EXECUTING", "PENDING_LIMIT", "FILLED"} :
          /\ sellStatus[j] = "NONE" /\ sellStatus' = [sellStatus EXCEPT ![j] = st]
          /\ sellQty' = [sellQty EXCEPT ![j] = q]
          /\ UNCHANGED <<soldBy, txVars>>
          /\ st = "PENDING_LIMIT" => "LIMIT_ORDERS" \in Enabled /\ owed' = owed
          /\ st # "PENDING_LIMIT" => owed' = owed \cup {j}
    BY <1>3 DEF SellExecuted, SellRecorded, NewSell, fillVars
  <2>2. /\ sellStatus'[j] = st /\ sellQty'[j] = q /\ q \in Nat
        /\ \A k \in SellJob \ {j} : sellStatus'[k] = sellStatus[k] /\ sellQty'[k] = sellQty[k]
    BY <1>0, <2>1, LedgerAssumption DEF TypeOK
  <2>3. /\ j \notin owed /\ soldBy[j] = 0
        /\ \A w \in Worker : pc[w] \in SellHand => txJob[w] \in SellJob \ {j}
    BY <2>1 DEF SellsInv, SellsInHand, SellsOnce, SellOpen, Unreported, TypeInv, CallOK, SellHand
  <2>4. SellsInHand'
    BY <2>1, <2>2, <2>3 DEF SellsInv, SellsInHand, Unreported, txVars
  <2>5. \A k \in SellJob \ {j} : SellOpen(k)' => SellOpen(k)
    BY <2>1, <2>2, <2>3 DEF SellOpen, txVars
  <2>6. QED
    BY <2>1, <2>2, <2>3, <2>4, <2>5 DEF SellsInv, SellsOnce
<1>4. ASSUME NEW b \in BuyJob, NEW q \in 1..MaxQty, BuyExecuted(b, q)
      PROVE  SellsInv'
  BY <1>2, <1>4, LedgerAssumption DEF BuyExecuted, fillVars
<1>5. ASSUME NEW p \in Position, LockSellByWebhook(p)
      PROVE  SellsInv'
  BY <1>2, <1>5 DEF LockSellByWebhook, fillVars
<1>6. CASE UNCHANGED vars
  BY <1>2, <1>6 DEF vars, fillVars
<1>7. QED
  BY <1>1, <1>3, <1>4, <1>5, <1>6 DEF Next, Environment

\* No sale is booked for more than the exchange executed, however executor,
\* dashboard and monitors overlap and wherever they fail: without
\* positions-sell-sync each execution has one reporter, and the LIMIT orders
\* have one as long as passes of their monitor do not overlap.
THEOREM SaleBookedOnce ==
  ASSUME OneReporter, "SELL_SYNC" \notin Enabled
  PROVE  Spec => []SellCountedOnce
<1> DEFINE SInv == TypeInv /\ SellsInv
<1>1. Init => SInv
  BY InitType DEF Init, SellsInv, SellsInHand, SellsOnce, SellHand, SellPhase
<1>2. SInv /\ [Next]_vars => SInv'
  BY SellsStep, TypeInvStep
<1>3. SInv => SellCountedOnce
  BY DEF SellsInv, SellsOnce, SellCountedOnce
<1>4. QED
  BY <1>1, <1>2, <1>3, PTL DEF Spec

(***************************************************************************)
(* A purchase is booked once, merged or not                                *)
(***************************************************************************)
\* Nothing looks for FILLED jobs that open no position.
Unsynced == "SYNC_MISSING" \notin Enabled /\ "SYNC_INTERNAL" \notin Enabled

\* The purchase b may still be reported, or is being reported.
BuyOpen(b) ==
  \/ buyStatus[b] \in Unreported
  \/ b \in owed
  \/ \E w \in Worker : pc[w] \in BuyPhase /\ txJob[w] = b

\* Who reports a purchase has it for himself.
BuysInHand ==
  /\ \A b \in BuyJob : b \in owed => buyStatus[b] = "EXECUTING"
  /\ "LIMIT_ORDERS" \notin Enabled => \A b \in BuyJob : buyStatus[b] # "PENDING_LIMIT"
  /\ \A w \in Worker : pc[w] \in BuyPhase =>
       /\ txJob[w] \notin owed /\ buyStatus[txJob[w]] \in {"EXECUTING", "PENDING_LIMIT", "FILLED"}
       /\ \A v \in Worker : pc[v] \in BuyPhase /\ txJob[v] = txJob[w] => v = w

BuysOnce == \A b \in BuyJob : boughtBy[b] <= buyQty[b] /\ (BuyOpen(b) => boughtBy[b] = 0)

BuysInv == BuysInHand /\ (Unsynced => BuysOnce)

\* A step of w that goes on with its purchase or lets it go, and at most gives
\* it up: the executor sets the job FILLED.
LEMMA BuysQuiet ==
  ASSUME TypeInv, BuysInv, UNCHANGED <<boughtBy, buyQty>>, NEW w \in Worker,
         \A b \in BuyJob : b \in owed' => b \in owed,
         \A b \in BuyJob : buyStatus'[b] = buyStatus[b]
                           \/ (pc[w] \in BuyPhase /\ b = txJob[w] /\ buyStatus'[b] = "FILLED"),
         NEW phase, NEW job, NEW p, NEW o, NEW s, Begin(w, phase, job, p, o, s),
         phase \in BuyPhase => pc[w] \in BuyPhase /\ job = txJob[w]
  PROVE  BuysInv'
<1>1. /\ pc'[w] = phase /\ txJob'[w] = job
      /\ \A v \in Worker \ {w} : pc'[v] = pc[v] /\ txJob'[v] = txJob[v]
  BY BeginWrites DEF TypeInv
<1>2. \A v \in Worker : pc'[v] \in BuyPhase => pc[v] \in BuyPhase /\ txJob'[v] = txJob[v] /\ txJob[v] \in BuyJob
  BY <1>1 DEF TypeInv, CallOK
<1>3. BuysInHand'
  BY <1>2 DEF BuysInv, BuysInHand
<1>4. \A b \in BuyJob : BuyOpen(b)' => BuyOpen(b)
  BY <1>2 DEF BuyOpen, Unreported
<1>5. QED
  BY <1>3, <1>4 DEF BuysInv, BuysOnce

\* A step of w that takes a purchase nobody has.
LEMMA BuysTaken ==
  ASSUME TypeInv, BuysInv, UNCHANGED <<boughtBy, buyVars>>, NEW w \in Worker, NEW b \in BuyJob,
         \A c \in BuyJob : c \in owed' => c \in owed /\ c # b,
         buyStatus[b] \in {"EXECUTING", "PENDING_LIMIT", "FILLED"},
         \A v \in Worker \ {w} : pc[v] \in BuyPhase => txJob[v] # b,
         Unsynced => BuyOpen(b),
         NEW phase \in BuyPhase, NEW p, NEW s, Begin(w, phase, b, p, None, s)
  PROVE  BuysInv'
<1>1. /\ pc'[w] = phase /\ txJob'[w] = b
      /\ \A v \in Worker \ {w} : pc'[v] = pc[v] /\ txJob'[v] = txJob[v]
  BY BeginWrites DEF TypeInv
<1>2. \A v \in Worker : pc[v] \in BuyPhase => txJob[v] \in BuyJob
  BY DEF TypeInv, CallOK
<1>3. BuysInHand'
  BY <1>1, <1>2 DEF BuysInv, BuysInHand, buyVars
<1>4. Unsynced => \A c \in BuyJob : BuyOpen(c)' => BuyOpen(c)
  BY <1>1 DEF BuyOpen, buyVars
<1>5. QED
  BY <1>3, <1>4 DEF BuysInv, BuysOnce, buyVars

\* A step of w that books its purchase, into a new position or another one.
LEMMA BuysBooked ==
  ASSUME TypeInv, BuysInv, NEW w \in Worker, pc[w] \in BuyPhase, NEW b \in BuyJob, b = txJob[w],
         boughtBy' = [boughtBy EXCEPT ![b] = @ + buyQty[b]], BuyFilled(b), Finish(w),
         UNCHANGED <<buyQty, owed>>
  PROVE  BuysInv'
<1>0. TypeOK /\ "idle" \notin BuyPhase
  BY DEF TypeInv, BuyPhase
<1>1. /\ pc'[w] = "idle"
      /\ \A v \in Worker \ {w} : pc'[v] = pc[v] /\ txJob'[v] = txJob[v]
  BY <1>0, BeginWrites DEF Finish
<1>2. /\ buyStatus'[b] = "FILLED"
      /\ \A c \in BuyJob \ {b} : buyStatus'[c] = buyStatus[c] /\ boughtBy'[c] = boughtBy[c]
  BY <1>0 DEF TypeOK, BuyFilled
<1>3. b \notin owed /\ \A v \in Worker \ {w} : pc[v] \in BuyPhase => txJob[v] # b
  BY DEF BuysInv, BuysInHand
<1>4. \A v \in Worker : pc'[v] \in BuyPhase => pc[v] \in BuyPhase /\ txJob'[v] = txJob[v] /\ txJob[v] \in BuyJob \ {b}
  BY <1>0, <1>1, <1>3 DEF TypeInv, CallOK
<1>5. BuysInHand'
  BY <1>2, <1>3, <1>4 DEF BuysInv, BuysInHand
<1>6. ~BuyOpen(b)' /\ \A c \in BuyJob \ {b} : BuyOpen(c)' => BuyOpen(c)
  BY <1>2, <1>3, <1>4 DEF BuyOpen, Unreported
<1>7. Unsynced => BuysOnce'
  <2>1. ASSUME Unsynced PROVE boughtBy'[b] = buyQty[b]
    <3>1. boughtBy[b] = 0
      BY <2>1 DEF BuysInv, BuysOnce, BuyOpen
    <3>2. QED
      BY <1>0, <3>1 DEF TypeOK
  <2>2. QED
    BY <1>0, <1>2, <1>6, <2>1 DEF BuysInv, BuysOnce, TypeOK
<1>8. QED
  BY <1>5, <1>7 DEF BuysInv

\* The steps of onBuyExecuted and of its callers.
LEMMA BuysCall ==
  ASSUME TypeInv, BuysInv, OneReporter, (\A v, w \in Worker : v = w) \/ Unsynced,
         NEW w \in Worker, BuyCall(w)
  PROVE  BuysInv'
<1>0. TypeOK /\ (pc[w] \in BuyPhase => txJob[w] \in BuyJob) /\ "idle" \notin BuyPhase
  BY DEF TypeInv, CallOK, BuyPhase
<1>1. ASSUME NEW b \in BuyJob, BuyFind(w, b)
      PROVE  BuysInv'
  <2>1. PICK p : Begin(w, "buyFound", b, p, None, NoSnap)
    BY <1>1 DEF BuyFind
  <2>2. /\ owed' = owed \ {b} /\ UNCHANGED <<boughtBy, buyVars>> /\ "buyFound" \in BuyPhase
        /\ b \in owed \/ buyStatus[b] = "PENDING_LIMIT" \/ (buyStatus[b] = "FILLED" /\ ~Unsynced)
    BY <1>1 DEF BuyFind, Reported, MissingPosition, Unsynced, BuyPhase, fillVars
  <2>3. /\ buyStatus[b] \in {"EXECUTING", "PENDING_LIMIT", "FILLED"}
        /\ Unsynced => BuyOpen(b)
        /\ \A v \in Worker \ {w} : pc[v] \in BuyPhase => txJob[v] # b
    BY <2>2 DEF BuysInv, BuysInHand, BuyOpen, Unreported, OneReporter
  <2>4. QED
    BY <2>1, <2>2, <2>3, BuysTaken
<1>2. ASSUME BuyRead(w)
      PROVE  BuysInv'
  <2>1. pc[w] \in BuyPhase /\ UNCHANGED <<boughtBy, buyQty, buyStatus, owed>>
        /\ \E phase, p, s : Begin(w, phase, txJob[w], p, None, s)
    BY <1>2 DEF BuyRead, BuyPhase, fillVars, buyVars
  <2>2. QED
    BY <2>1, BuysQuiet
<1>3. ASSUME BuyFails(w)
      PROVE  BuysInv'
  <2>1. /\ pc[w] \in BuyPhase /\ UNCHANGED <<boughtBy, buyQty, owed>>
        /\ buyStatus' = [buyStatus EXCEPT ![txJob[w]] = "FILLED"]
        /\ Begin(w, "idle", None, None, None, NoSnap)
    BY <1>3 DEF BuyFails, BuyFilled, Finish, fillVars
  <2>2. \A b \in BuyJob : buyStatus'[b] = buyStatus[b] \/ (b = txJob[w] /\ buyStatus'[b] = "FILLED")
    BY <1>0, <2>1 DEF TypeOK
  <2>3. QED
    BY <1>0, <2>1, <2>2, BuysQuiet
<1>4. ASSUME NEW p \in Position, BuyCreate(w, p)
      PROVE  BuysInv'
  BY <1>0, <1>4, BuysBooked DEF BuyCreate, BuyPhase
<1>5. ASSUME BuyGroup(w)
      PROVE  BuysInv'
  BY <1>0, <1>5, BuysBooked DEF BuyGroup, BuyPhase
<1>6. QED
  BY <1>1, <1>2, <1>3, <1>4, <1>5 DEF BuyCall

\* Steps that are not about a purchase on the exchange.
LEMMA BuysStep ==
  ASSUME TypeInv, BuysInv, [Next]_vars, OneReporter, (\A v, w \in Worker : v = w) \/ Unsynced
  PROVE  BuysInv'
<1>0. TypeOK /\ \A w \in Worker : pc[w] \in BuyPhase => txJob[w] \in BuyJob
  BY DEF TypeInv, CallOK
<1>1. ASSUME UNCHANGED <<boughtBy, buyVars, txVars>>, \A b \in BuyJob : b \in owed' <=> b \in owed
      PROVE  BuysInv'
  BY <1>0, <1>1 DEF BuysInv, BuysInHand, BuysOnce, BuyOpen, buyVars, txVars
<1>2. ASSUME NEW w \in Worker, UNCHANGED <<boughtBy, buyVars>>, \A b \in BuyJob : b \in owed' => b \in owed,
             NEW phase, phase \notin BuyPhase, NEW job, NEW p, NEW o, NEW s, Begin(w, phase, job, p, o, s)
      PROVE  BuysInv'
  BY <1>2, BuysQuiet DEF buyVars
<1>3. ASSUME NEW w \in Worker, SellCall(w)
      PROVE  BuysInv'
  <2>1. /\ UNCHANGED <<boughtBy, buyVars>>
        /\ owed' = owed \/ \E j \in SellJob : owed' = owed \ {j}
        /\ \/ UNCHANGED <<txVars, owed>>
           \/ AfterSell(w)
           \/ \E phase \in SellPhase \cup {"listed", "idle"} : \E job, p, s : Begin(w, phase, job, p, None, s)
    BY <1>3 DEF SellCall, LimitList, SellBegin, SyncBegin, LimitBegin, SellRefused, SellApplied, SellFails,
       ExecutorFinish, LimitFinish, SetSellStatus, Finish, Reported, SellPhase, fillVars
  <2>2. CASE UNCHANGED <<txVars, owed>>
    BY <1>1, <2>1, <2>2
  <2>3. CASE AfterSell(w) \/ \E phase \in SellPhase \cup {"listed", "idle"} : \E job, p, s : Begin(w, phase, job, p, None, s)
    <3>1. PICK phase, job, p, s : /\ Begin(w, phase, job, p, None, s)
                                  /\ phase \in SellPhase \cup {"listed", "idle", "finishExecutor", "finishLimit"}
      BY <2>3, EmptyAfterSell
    <3>2. phase \notin BuyPhase
      BY <3>1 DEF SellPhase, BuyPhase
    <3>3. QED
      BY <1>2, <2>1, <3>1, <3>2
  <2>4. QED
    BY <2>1, <2>2, <2>3
<1>4. ASSUME NEW w \in Worker, RegroupCall(w), \A b \in BuyJob, d \in Position : ~DustCommit(w, b, d)
      PROVE  BuysInv'
  <2>1. /\ UNCHANGED <<boughtBy, buyVars, owed>>
        /\ \E phase \in {"idle", "groupValid", "group", "dust"} : \E job, p, o, s : Begin(w, phase, job, p, o, s)
    BY <1>4 DEF RegroupCall, GroupValidate, GroupRead, GroupCommit, DustBegin, Abort, Finish, fillVars
  <2>2. QED
    BY <1>2, <2>1 DEF BuyPhase
<1>5. ASSUME NEW w \in Worker, NEW b \in BuyJob, NEW d \in Position, DustCommit(w, b, d)
      PROVE  BuysInv'
  <2>1. PICK q : q = snap[w][txPos[w]].remaining
    OBVIOUS
  <2>2. /\ buyStatus[b] = "NONE" /\ buyStatus' = [buyStatus EXCEPT ![b] = "PENDING"]
        /\ boughtBy' = [boughtBy EXCEPT ![b] = q] /\ buyQty' = [buyQty EXCEPT ![b] = q]
        /\ UNCHANGED owed /\ Begin(w, "idle", None, None, None, NoSnap)
        /\ txPos[w] \in Position
    BY <1>5, <2>1 DEF DustCommit, Finish, TypeInv, CallOK
  <2>3. q \in Nat
    BY <1>0, <2>1, <2>2 DEF TypeOK, RowType
  <2>4. /\ buyStatus'[b] = "PENDING" /\ boughtBy'[b] = q /\ buyQty'[b] = q
        /\ \A c \in BuyJob \ {b} : buyStatus'[c] = buyStatus[c] /\ boughtBy'[c] = boughtBy[c] /\ buyQty'[c] = buyQty[c]
    BY <1>0, <2>2 DEF TypeOK
  <2>5. pc'[w] = "idle" /\ \A v \in Worker \ {w} : pc'[v] = pc[v] /\ txJob'[v] = txJob[v]
    BY <1>0, <2>2, BeginWrites
  <2>6. b \notin owed /\ \A v \in Worker : pc'[v] \in BuyPhase =>
           pc[v] \in BuyPhase /\ txJob'[v] = txJob[v] /\ txJob[v] \in BuyJob \ {b}
    BY <1>0, <2>2, <2>5 DEF BuysInv, BuysInHand, BuyPhase
  <2>7. BuysInHand'
    BY <2>2, <2>4, <2>6 DEF BuysInv, BuysInHand
  <2>8. ~BuyOpen(b)' /\ \A c \in BuyJob \ {b} : BuyOpen(c)' => BuyOpen(c)
    BY <2>2, <2>4, <2>6 DEF BuyOpen, Unreported
  <2>9. QED
    BY <2>3, <2>4, <2>7, <2>8 DEF BuysInv, BuysOnce
<1>6. ASSUME NEW b \in BuyJob, NEW q \in 1..MaxQty, BuyExecuted(b, q)
      PROVE  BuysInv'
  <2>1. PICK st \in {"EXECUTING", "PENDING_LIMIT"} :
          /\ buyStatus[b] = "NONE" /\ buyStatus' = [buyStatus EXCEPT ![b] = st]
          /\ buyQty' = [buyQty EXCEPT ![b] = q] /\ UNCHANGED <<boughtBy, txVars>>
          /\ st = "PENDING_LIMIT" => "LIMIT_ORDERS" \in Enabled /\ owed' = owed
          /\ st = "EXECUTING" => owed' = owed \cup {b}
    BY <1>6 DEF BuyExecuted, fillVars
  <2>2. /\ buyStatus'[b] = st /\ buyQty'[b] = q /\ q \in Nat
        /\ \A c \in BuyJob \ {b} : buyStatus'[c] = buyStatus[c] /\ buyQty'[c] = buyQty[c]
    BY <1>0, <2>1, LedgerAssumption DEF TypeOK
  <2>3. b \notin owed /\ \A w \in Worker : pc[w] \in BuyPhase => txJob[w] \in BuyJob \ {b}
    BY <1>0, <2>1 DEF BuysInv, BuysInHand
  <2>4. BuysInHand'
    BY <2>1, <2>2, <2>3 DEF BuysInv, BuysInHand, txVars
  <2>5. (Unsynced => boughtBy[b] = 0) /\ \A c \in BuyJob \ {b} : BuyOpen(c)' => BuyOpen(c)
    BY <2>1, <2>2, <2>3 DEF BuysInv, BuysOnce, BuyOpen, Unreported, txVars
  <2>6. QED
    BY <2>1, <2>2, <2>4, <2>5 DEF BuysInv, BuysOnce
<1>7. ASSUME NEW j \in SellJob, NEW p \in Position, NEW q \in 1..MaxQty,
             SellExecuted(j, p, q) \/ SellRecorded(j, p, q)
      PROVE  BuysInv'
  BY <1>1, <1>7, LedgerAssumption DEF SellExecuted, SellRecorded, NewSell, fillVars
<1>8. ASSUME NEW p \in Position, LockSellByWebhook(p)
      PROVE  BuysInv'
  BY <1>1, <1>8 DEF LockSellByWebhook, fillVars
<1>9. CASE UNCHANGED vars
  BY <1>1, <1>9 DEF vars, fillVars
<1>10. QED
  BY <1>3, <1>4, <1>5, <1>6, <1>7, <1>8, <1>9, BuysCall
     DEF Next, Environment, Call, BuyCall, SellCall, RegroupCall

\* No purchase is booked for more than the exchange executed, whether it opens
\* a position or is merged into one, and however positions are grouped later:
\* while no sync job looks for positions, each execution has one reporter.
\* (With one, a purchase that a group of groups forgot is booked again: run
\* find_group_forgets_buys.)
THEOREM MergedPurchaseBookedOnce == ASSUME OneReporter, Unsynced PROVE Spec => []BuyCountedOnce
<1> DEFINE BInv == TypeInv /\ BuysInv
<1>1. Init => BInv
  BY InitType DEF Init, BuysInv, BuysInHand, BuysOnce, BuyPhase
<1>2. BInv /\ [Next]_vars => BInv'
  BY BuysStep, TypeInvStep
<1>3. BInv => BuyCountedOnce
  BY DEF BuysInv, BuysOnce, BuyCountedOnce
<1>4. QED
  BY <1>1, <1>2, <1>3, PTL DEF Spec
=============================================================================
