------------------------- MODULE SubscriptionsProofs -------------------------
(***************************************************************************)
(* Theorems about Subscriptions, for every number of subscriptions and     *)
(* every set of payments, users and requests.                              *)
(***************************************************************************)
EXTENDS Subscriptions, WellFoundedInduction, TLAPS

(***************************************************************************)
(* The operators the actions are built from.                               *)
(***************************************************************************)

\* The newest of some subscriptions is one of them.
LEMMA NewestIn ==
  ASSUME MaxSub \in Nat, NEW S \in SUBSET Sub, S # {}
  PROVE  Newest(S) \in S
<1> DEFINE Above == {n \in Nat : \A s \in S : s <= n}
<1>1. Above # {}
  <2>1. MaxSub \in Above
    BY DEF Sub
  <2>2. QED
    BY <2>1
<1>2. PICK m \in Above : \A n \in Above : ~(<<n, m>> \in OpToRel(<, Nat))
  <2>1. Above \subseteq Nat
    OBVIOUS
  <2>2. QED
    BY <1>1, <2>1, WFMin, NatLessThanWellFounded, Zenon
<1>3. \A n \in Above : ~(n < m)
  BY <1>2 DEF OpToRel
<1>4. m \in S
  <2>1. SUFFICES ASSUME m \notin S PROVE FALSE
    OBVIOUS
  <2>2. PICK t \in S : TRUE
    OBVIOUS
  <2>3. t <= m /\ t # m /\ t \in Nat /\ m \in Nat /\ t > 0
    BY <2>1, <2>2 DEF Sub
  <2>4. \A s \in S : s \in Nat /\ s <= m /\ s # m
    BY <2>1 DEF Sub
  <2>5. m - 1 \in Above
    BY <2>3, <2>4
  <2>6. QED
    BY <1>3, <2>3, <2>5
<1>5. QED
  BY <1>4 DEF Newest

\* A new row, and a new status of the first one, keep every row there is.
RowsKept ==
  /\ rows' \in [Payment -> Seq(Row)]
  /\ \A q \in Payment : rows[q] # <<>> => rows'[q] # <<>>

\* A row that is added.
LEMMA NewRowType ==
  ASSUME rows \in [Payment -> Seq(Row)], NEW p \in Payment, NEW s \in Sub \cup {0}, NEW st \in PayStatus,
         NewRow(p, s, st)
  PROVE  /\ RowsKept
         /\ rows'[p] # <<>>
         /\ \A q \in Payment, i \in Nat : i \in DOMAIN rows'[q] =>
              \/ q = p /\ rows'[q][i].sub = s
              \/ i \in DOMAIN rows[q] /\ rows'[q][i] = rows[q][i]
<1> DEFINE r == [sub |-> s, status |-> DbStatus[st]]
<1>1. r \in Row
  BY DEF Row, DbStatus, PayStatus, RowStatus
<1>2. rows' = [rows EXCEPT ![p] = Append(@, r)]
  BY DEF NewRow
<1>3. /\ Append(rows[p], r) \in Seq(Row) /\ Append(rows[p], r) # <<>>
      /\ \A i \in Nat : i \in DOMAIN Append(rows[p], r) =>
           \/ Append(rows[p], r)[i] = r
           \/ i \in DOMAIN rows[p] /\ Append(rows[p], r)[i] = rows[p][i]
  <2> DEFINE old == rows[p]
             new == Append(old, r)
  <2>1. old \in Seq(Row) /\ Len(old) \in Nat /\ DOMAIN old = 1..Len(old)
    OBVIOUS
  <2>2. new \in Seq(Row) /\ Len(new) = Len(old) + 1 /\ DOMAIN new = 1..(Len(old) + 1)
    BY <1>1, <2>1
  <2>3. new[Len(old) + 1] = r /\ \A i \in 1..Len(old) : new[i] = old[i]
    BY <1>1, <2>1
  <2> HIDE DEF old, new, r
  <2>4. new # <<>>
    <3>1. Len(new) # 0
      BY <2>1, <2>2
    <3>2. QED
      BY <3>1
  <2>5. ASSUME NEW i \in Nat, i \in DOMAIN new
        PROVE  new[i] = r \/ (i \in DOMAIN old /\ new[i] = old[i])
    BY <2>1, <2>2, <2>3, <2>5
  <2>6. QED
    BY <2>2, <2>4, <2>5 DEF old, new, r
<1>4. QED
  BY <1>1, <1>2, <1>3 DEF RowsKept

\* A row whose status changes.
LEMMA StatusType ==
  ASSUME rows \in [Payment -> Seq(Row)], NEW p \in Payment, NEW i \in Nat, NEW st \in RowStatus,
         rows' = [rows EXCEPT ![p][i].status = st]
  PROVE  /\ RowsKept
         /\ \A q \in Payment : /\ DOMAIN rows'[q] = DOMAIN rows[q]
                               /\ \A k \in DOMAIN rows[q] : rows'[q][k].sub = rows[q][k].sub
<1> DEFINE new == [rows[p] EXCEPT ![i].status = st]
<1>1. rows' = [rows EXCEPT ![p] = new]
  OBVIOUS
<1>2. /\ new \in Seq(Row)
      /\ DOMAIN new = DOMAIN rows[p]
      /\ \A k \in DOMAIN rows[p] : new[k].sub = rows[p][k].sub
  <2>1. rows[p] \in [1..Len(rows[p]) -> Row] /\ Len(rows[p]) \in Nat
    OBVIOUS
  <2>2. new \in [1..Len(rows[p]) -> Row]
    BY <2>1 DEF Row
  <2>3. new \in Seq(Row)
    BY <2>1, <2>2
  <2>4. QED
    BY <2>1, <2>2, <2>3 DEF Row
<1>3. QED
  BY <1>1, <1>2 DEF RowsKept

\* A row that is written.
LEMMA SetRowType ==
  ASSUME rows \in [Payment -> Seq(Row)], NEW p \in Payment, NEW st \in PayStatus, SetRow(p, st)
  PROVE  /\ RowsKept
         /\ \A q \in Payment : /\ DOMAIN rows'[q] = DOMAIN rows[q]
                               /\ \A k \in DOMAIN rows[q] : rows'[q][k].sub = rows[q][k].sub
<1>1. DbStatus[st] \in RowStatus
  BY DEF DbStatus, PayStatus, RowStatus
<1>2. QED
  BY <1>1, StatusType DEF SetRow

\* The row of a new payment.
LEMMA NewPaymentType ==
  ASSUME SubscriptionsAssumption, TypeOK, NEW p \in Payment, NEW s \in Sub, NEW pref \in BOOLEAN,
         NewPayment(p, s, pref)
  PROVE  pay' \in [Payment -> PayRow]
<1>1. Newest(Created) \in Created
  BY NewestIn DEF NewPayment, Created, SubscriptionsAssumption
<1>2. Newest(Created) \in 0..MaxSub
  BY <1>1 DEF Created, Sub, SubscriptionsAssumption
<1>3. UserOf[s] \in User
  BY DEF SubscriptionsAssumption
<1>4. PICK u \in Payers(s) :
        pay' = [pay EXCEPT ![p] = [status |-> "pending", for |-> s, pref |-> pref,
                                   made |-> Newest(Created), payer |-> u]]
  BY DEF NewPayment
<1>5. u \in User \cup {None}
  BY <1>3 DEF Payers
<1>6. [status |-> "pending", for |-> s, pref |-> pref, made |-> Newest(Created), payer |-> u] \in PayRow
  BY <1>2, <1>5 DEF PayRow, PayStatus
<1>7. QED
  BY <1>4, <1>6 DEF TypeOK

\* The subscription that is picked is one.
LEMMA PickType ==
  ASSUME SubscriptionsAssumption, NEW p \in Payment
  PROVE  /\ OpenOfPayer(p) # {} => PickOfPayer(p) \in Sub
         /\ OpenBefore(p) # {} => Newest(OpenBefore(p)) \in Sub
<1>1. \A S \in SUBSET Sub : S # {} => Newest(S) \in S
  BY NewestIn DEF SubscriptionsAssumption
<1>2. OpenOfPayer(p) \in SUBSET Sub /\ OpenBefore(p) \in SUBSET Sub
  BY DEF OpenOfPayer, OpenBefore, Open, Created
<1>3. QED
  BY <1>1, <1>2 DEF PickOfPayer

(***************************************************************************)
(* Type correctness.                                                       *)
(***************************************************************************)

\* A request knows its payment and its subscription when it needs them, unless
\* it creates a PIX payment for none or refunds one ...
CallOK(c) ==
  /\ c.phase \in {"find", "payer", "any", "row", "write", "link", "activate", "refundRow"}
       => c.p \in Payment
  /\ c.phase \notin {"idle", "find", "payer", "any", "refundRow"} =>
       c.s \in Sub \/ (c.kind = "pix" /\ c.phase \in {"row", "write"})

\* ... and so does the job, with each of its lists.
SyncOK(y) ==
  /\ y.part = "import" => \A t \in y.todo : t.p \in Payment /\ t.status \in PayStatus
  /\ y.part = "rows" => \A t \in y.todo : t.p \in Payment /\ (t.s = 0 => t.was = "NONE")
  /\ y.part = "subs" => \A t \in y.todo : t.s \in Sub
  /\ y.orders # {} \/ y.phase # "next" => y.item.s \in Sub
  /\ y.phase \in {"create", "subRow", "orderRow", "orderLink", "process", "activate", "row"}
       => y.p \in Payment

TypeInv == TypeOK /\ (\A w \in Worker : CallOK(call[w])) /\ SyncOK(sync)

\* A call that goes on.
LEMMA CallMoves ==
  ASSUME TypeInv, NEW w \in Worker, NEW c \in Call, CallOK(c), Becomes(w, c)
  PROVE  call' \in [Worker -> Call] /\ \A v \in Worker : CallOK(call'[v])
BY DEF TypeInv, TypeOK, Becomes

\* A call that is over.
LEMMA CallReturns ==
  ASSUME TypeInv, NEW w \in Worker, Return(w)
  PROVE  call' \in [Worker -> Call] /\ \A v \in Worker : CallOK(call'[v])
<1>1. NoCall \in Call /\ CallOK(NoCall)
  BY DEF NoCall, Call, CallPhase, PayStatus, CallOK
<1>2. QED
  BY <1>1, CallMoves DEF Return

\* The next phase of a request, which knows what it must.
LEMMA CallGoes ==
  ASSUME TypeInv, NEW w \in Worker, NEW ph \in CallPhase, Goes(w, ph),
         CallOK([call[w] EXCEPT !.phase = ph])
  PROVE  call' \in [Worker -> Call] /\ \A v \in Worker : CallOK(call'[v])
<1>1. [call[w] EXCEPT !.phase = ph] \in Call
  BY DEF TypeInv, TypeOK, Call
<1>2. QED
  BY <1>1, CallMoves DEF Goes, Becomes

\* A call that is about to take access away.
LEMMA CallAccess ==
  ASSUME TypeInv, NEW w \in Worker, NEW ph \in {"cancel", "user", "refundSub"}, Access(w, ph),
         call[w].s \in Sub
  PROVE  call' \in [Worker -> Call] /\ \A v \in Worker : CallOK(call'[v])
<1> DEFINE c == [NoCall EXCEPT !.phase = ph, !.s = call[w].s]
<1>1. c \in Call
  BY DEF NoCall, Call, CallPhase, PayStatus
<1>2. CallOK(c)
  BY DEF NoCall, CallOK
<1>3. QED
  BY <1>1, <1>2, CallMoves DEF Access

\* The first state is typed.
LEMMA TypeInit == SubscriptionsAssumption /\ Init => TypeInv
<1> SUFFICES ASSUME SubscriptionsAssumption, Init PROVE TypeInv
  OBVIOUS
<1>1. NoCall \in Call /\ CallOK(NoCall)
  BY DEF NoCall, Call, CallPhase, PayStatus, CallOK
<1>2. NoSync \in Sync /\ SyncOK(NoSync)
  BY DEF NoSync, Sync, NoItem, Item, SyncPhase, PayStatus, SubStatus, SyncOK
<1>3. pay \in [Payment -> PayRow] /\ sub \in [Sub -> SubRow]
  BY DEF Init, PayRow, SubRow, PayStatus, SubStatus, SubscriptionsAssumption
<1>4. rows \in [Payment -> Seq(Row)] /\ call \in [Worker -> Call] /\ \A w \in Worker : CallOK(call[w])
  BY <1>1 DEF Init
<1>5. sync \in Sync /\ SyncOK(sync) /\ crashes \in 0..MaxCrash
  BY <1>2 DEF Init, SubscriptionsAssumption
<1>6. QED
  BY <1>3, <1>4, <1>5 DEF Init, TypeInv, TypeOK

\* The steps of a user.
LEMMA UserType ==
  ASSUME SubscriptionsAssumption, TypeInv, UserStep
  PROVE  TypeInv'
<1>1. PICK s \in Sub : Checkout(s) \/ CancelSubscription(s)
  BY DEF UserStep
<1>2. sub' \in [Sub -> SubRow]
  <2>1. sub \in [Sub -> SubRow]
    BY DEF TypeInv, TypeOK
  <2>2. CASE Checkout(s)
    <3>1. [status |-> "PENDING_PAYMENT", mp |-> None] \in SubRow
      BY DEF SubRow, SubStatus
    <3>2. QED
      BY <2>1, <2>2, <3>1 DEF Checkout
  <2>3. CASE CancelSubscription(s)
    <3>1. [sub[s] EXCEPT !.status = "CANCELLED"] \in SubRow
      BY <2>1 DEF SubRow, SubStatus
    <3>2. QED
      BY <2>1, <2>3, <3>1 DEF CancelSubscription
  <2>4. QED
    BY <1>1, <2>2, <2>3
<1>3. QED
  BY <1>1, <1>2 DEF Checkout, CancelSubscription, TypeInv, TypeOK

\* The steps of the gateway.
LEMMA GatewayType ==
  ASSUME SubscriptionsAssumption, TypeInv, GatewayStep
  PROVE  TypeInv'
<1>1. PICK p \in Payment : Decide(p) \/ GatewayRefund(p) \/ \E s \in Sub : Pay(p, s)
  BY DEF GatewayStep
<1>2. pay' \in [Payment -> PayRow]
  <2>1. CASE Decide(p) \/ GatewayRefund(p)
    <3>1. PICK st \in PayStatus : pay' = [pay EXCEPT ![p].status = st]
      <4>1. CASE Decide(p)
        <5>1. PICK st \in {"approved", "rejected", "cancelled"} : pay' = [pay EXCEPT ![p].status = st]
          BY <4>1 DEF Decide
        <5>2. QED
          BY <5>1 DEF PayStatus
      <4>2. CASE GatewayRefund(p)
        <5>1. pay' = [pay EXCEPT ![p].status = "refunded"]
          BY <4>2 DEF GatewayRefund
        <5>2. QED
          BY <5>1 DEF PayStatus
      <4>3. QED
        BY <2>1, <4>1, <4>2
    <3>2. [pay[p] EXCEPT !.status = st] \in PayRow
      <4>1. pay[p] \in PayRow
        BY DEF TypeInv, TypeOK
      <4>2. QED
        BY <4>1 DEF PayRow
    <3>3. QED
      BY <3>1, <3>2 DEF TypeInv, TypeOK
  <2>2. CASE \E s \in Sub : Pay(p, s)
    BY <2>2, NewPaymentType DEF Pay, TypeInv
  <2>3. QED
    BY <1>1, <2>1, <2>2
<1>3. QED
  BY <1>1, <1>2 DEF Decide, GatewayRefund, Pay, TypeInv, TypeOK

\* The steps of a request.
LEMMA RequestType ==
  ASSUME SubscriptionsAssumption, TypeInv, NEW w \in Worker, Request(w)
  PROVE  TypeInv'
<1>1. PICK p \in Payment : Notify(w, p) \/ Refund(w, p) \/ \E s \in Sub : Pix(w, p, s)
  BY DEF Request
<1>2. CASE Notify(w, p)
  <2> DEFINE c == [NoCall EXCEPT !.phase = "find", !.p = p, !.status = pay[p].status]
  <2>1. c \in Call /\ CallOK(c)
    BY DEF NoCall, Call, CallPhase, PayStatus, CallOK, TypeInv, TypeOK, PayRow
  <2>2. QED
    BY <1>2, <2>1, CallMoves DEF Notify, TypeInv, TypeOK
<1>3. CASE Refund(w, p)
  <2> DEFINE c == [NoCall EXCEPT !.phase = "refundRow", !.kind = "refund", !.p = p, !.s = rows[p][1].sub]
  <2>1. rows[p][1].sub \in Sub \cup {0}
    <3>1. rows[p] \in Seq(Row) /\ rows[p] # <<>>
      BY <1>3 DEF Refund, TypeInv, TypeOK
    <3>2. rows[p][1] \in Row
      BY <3>1
    <3>3. QED
      BY <3>2 DEF Row
  <2>2. c \in Call /\ CallOK(c)
    BY <2>1 DEF NoCall, Call, CallPhase, PayStatus, CallOK
  <2>3. pay' \in [Payment -> PayRow]
    <3>1. pay[p] \in PayRow
      BY DEF TypeInv, TypeOK
    <3>2. [pay[p] EXCEPT !.status = "refunded"] \in PayRow
      BY <3>1 DEF PayRow, PayStatus
    <3>3. QED
      BY <1>3, <3>2 DEF Refund, TypeInv, TypeOK
  <2>4. QED
    BY <1>3, <2>2, <2>3, CallMoves DEF Refund, TypeInv, TypeOK
<1>4. CASE \E s \in Sub : Pix(w, p, s)
  <2>1. PICK s \in Sub : Pix(w, p, s)
    BY <1>4
  <2>2. PICK named \in {s, 0} :
          Becomes(w, [NoCall EXCEPT !.phase = "row", !.kind = "pix", !.p = p, !.s = named,
                                    !.status = "pending"])
    BY <2>1 DEF Pix
  <2> DEFINE c == [NoCall EXCEPT !.phase = "row", !.kind = "pix", !.p = p, !.s = named, !.status = "pending"]
  <2>3. c \in Call /\ CallOK(c)
    BY DEF NoCall, Call, CallPhase, PayStatus, CallOK
  <2>4. pay' \in [Payment -> PayRow]
    BY <2>1, NewPaymentType DEF Pix, TypeInv
  <2>5. call' \in [Worker -> Call] /\ \A v \in Worker : CallOK(call'[v])
    BY <2>2, <2>3, CallMoves
  <2>6. QED
    BY <2>1, <2>4, <2>5 DEF Pix, TypeInv, TypeOK
<1>5. QED
  BY <1>1, <1>2, <1>3, <1>4

\* The search for the subscription ends with one, or goes on.
LEMMA FoundType ==
  ASSUME TypeInv, NEW w \in Worker, NEW s \in Sub, FoundSub(w, s),
         call[w].phase \in {"find", "payer", "any"}
  PROVE  call' \in [Worker -> Call] /\ \A v \in Worker : CallOK(call'[v])
<1> DEFINE c == [call[w] EXCEPT !.phase = "row", !.s = s, !.mp = sub[s].mp]
<1>1. call[w] \in Call /\ call[w].p \in Payment /\ sub[s].mp \in Payment \cup {None}
  BY DEF TypeInv, TypeOK, CallOK, SubRow
<1>2. c \in Call
  BY <1>1 DEF Call, CallPhase
<1>3. CallOK(c)
  BY <1>1 DEF CallOK, Call
<1>4. QED
  BY <1>2, <1>3, CallMoves DEF FoundSub

\* The steps that link a payment to its subscription.
LEMMA LinkType ==
  ASSUME SubscriptionsAssumption, TypeInv, NEW w \in Worker, LinkStep(w)
  PROVE  TypeInv'
<1>1. call[w] \in Call /\ CallOK(call[w])
  BY DEF TypeInv, TypeOK
<1>2. CASE FindSub(w)
  <2>1. CASE \E s \in ByKey(call[w].p) : FoundSub(w, s)
    BY <1>2, <2>1, FoundType DEF FindSub, ByKey, Created, TypeInv, TypeOK
  <2>2. CASE Goes(w, "payer")
    <3>1. CallOK([call[w] EXCEPT !.phase = "payer"])
      BY <1>1, <1>2 DEF FindSub, CallOK, Call
    <3>2. QED
      BY <1>2, <2>2, <3>1, CallGoes DEF FindSub, CallPhase, TypeInv, TypeOK
  <2>3. QED
    BY <1>2, <2>1, <2>2 DEF FindSub
<1>3. CASE FindByPayer(w)
  <2>1. call[w].p \in Payment
    BY <1>1, <1>3 DEF FindByPayer, CallOK
  <2>2. CASE OpenOfPayer(call[w].p) # {}
    BY <1>3, <2>1, <2>2, PickType, FoundType DEF FindByPayer, TypeInv, TypeOK
  <2>3. CASE OpenOfPayer(call[w].p) = {}
    <3>1. CallOK([call[w] EXCEPT !.phase = "any"])
      BY <1>1, <2>1 DEF CallOK, Call
    <3>2. QED
      BY <1>3, <2>3, <3>1, CallGoes DEF FindByPayer, CallPhase, TypeInv, TypeOK
  <2>4. QED
    BY <2>2, <2>3
<1>4. CASE FindByAmount(w)
  <2>1. call[w].p \in Payment
    BY <1>1, <1>4 DEF FindByAmount, CallOK
  <2>2. QED
    BY <1>4, <2>1, PickType, FoundType, CallReturns DEF FindByAmount, TypeInv, TypeOK
<1>5. CASE FindRow(w)
  <2> DEFINE c == [call[w] EXCEPT !.phase = "write", !.found = rows[call[w].p] # <<>>]
  <2>1. c \in Call /\ CallOK(c)
    BY <1>1, <1>5 DEF FindRow, Call, CallPhase, CallOK
  <2>2. QED
    BY <1>5, <2>1, CallMoves DEF FindRow, TypeInv, TypeOK
<1>6. CASE WriteRow(w)
  <2> DEFINE c == [call[w] EXCEPT !.phase = "link", !.kind = "notify", !.found = FALSE]
  <2>1. /\ call[w].p \in Payment /\ call[w].s \in Sub \cup {0} /\ call[w].status \in PayStatus
        /\ call[w].s \in Sub \/ (call[w].kind = "pix" /\ call[w].s = 0)
    BY <1>1, <1>6 DEF WriteRow, CallOK, Call
  <2>2. rows' \in [Payment -> Seq(Row)]
    BY <1>6, <2>1, SetRowType, NewRowType DEF WriteRow, TypeInv, TypeOK, RowsKept
  <2>3. c \in Call /\ (call[w].s \in Sub => CallOK(c))
    BY <1>1, <2>1 DEF Call, CallPhase, CallOK
  <2>4. call' \in [Worker -> Call] /\ \A v \in Worker : CallOK(call'[v])
    BY <1>6, <2>1, <2>3, CallMoves, CallReturns DEF WriteRow
  <2>5. QED
    BY <1>6, <2>2, <2>4 DEF WriteRow, TypeInv, TypeOK
<1>7. CASE LinkPayment(w)
  <2>1. call[w].p \in Payment /\ call[w].s \in Sub
    BY <1>1, <1>7 DEF LinkPayment, CallOK
  <2>2. sub' \in [Sub -> SubRow]
    BY <1>7, <2>1 DEF LinkPayment, TypeInv, TypeOK, SubRow
  <2> DEFINE c == [call[w] EXCEPT !.phase = "activate", !.mp = None]
  <2>3. c \in Call /\ CallOK(c)
    BY <1>1, <2>1 DEF Call, CallPhase, CallOK
  <2>4. call' \in [Worker -> Call] /\ \A v \in Worker : CallOK(call'[v])
    BY <1>7, <2>1, <2>3, CallMoves, CallReturns, CallAccess DEF LinkPayment
  <2>5. QED
    BY <1>7, <2>2, <2>4 DEF LinkPayment, TypeInv, TypeOK
<1>8. QED
  BY <1>2, <1>3, <1>4, <1>5, <1>6, <1>7 DEF LinkStep

\* A subscription that is cancelled.
LEMMA SubStatusType ==
  ASSUME TypeInv, NEW s \in Sub, sub' = [sub EXCEPT ![s].status = "CANCELLED"]
  PROVE  sub' \in [Sub -> SubRow]
<1>1. sub \in [Sub -> SubRow] /\ sub[s] \in SubRow
  BY DEF TypeInv, TypeOK
<1>2. [sub[s] EXCEPT !.status = "CANCELLED"] \in SubRow
  BY <1>1 DEF SubRow, SubStatus
<1>3. QED
  BY <1>1, <1>2

\* The steps that give access, or take it.
LEMMA AccessType ==
  ASSUME SubscriptionsAssumption, TypeInv, NEW w \in Worker, AccessStep(w) \/ RefundStep(w)
  PROVE  TypeInv'
<1>1. call[w] \in Call /\ CallOK(call[w])
  BY DEF TypeInv, TypeOK
<1>2. CASE Activate(w)
  <2>1. call[w].p \in Payment /\ call[w].s \in Sub
    BY <1>1, <1>2 DEF Activate, CallOK
  <2>2. sub' \in [Sub -> SubRow]
    <3>1. [status |-> "ACTIVE", mp |-> call[w].p] \in SubRow
      BY <2>1 DEF SubRow, SubStatus
    <3>2. QED
      BY <1>2, <2>1, <3>1 DEF Activate, TypeInv, TypeOK
  <2>3. call' \in [Worker -> Call] /\ \A v \in Worker : CallOK(call'[v])
    BY <1>2, <2>1, CallAccess DEF Activate
  <2>4. QED
    BY <1>2, <2>2, <2>3 DEF Activate, TypeInv, TypeOK
<1>3. CASE ActivateUser(w) \/ RefundUser(w)
  <2>1. call[w].s \in Sub /\ CallUser(w) \in User
    BY <1>1, <1>3 DEF ActivateUser, RefundUser, CallOK, CallUser, SubscriptionsAssumption
  <2>2. CallOK([call[w] EXCEPT !.phase = "role"]) /\ CallOK([call[w] EXCEPT !.phase = "refundRole"])
    BY <1>1, <2>1 DEF CallOK, Call
  <2>3. call' \in [Worker -> Call] /\ \A v \in Worker : CallOK(call'[v])
    BY <1>3, <2>2, CallGoes DEF ActivateUser, RefundUser, CallPhase
  <2>4. QED
    BY <1>3, <2>1, <2>3 DEF ActivateUser, RefundUser, TypeInv, TypeOK
<1>4. CASE FindRole(w)
  <2>1. CallOK([call[w] EXCEPT !.phase = "grant"])
    BY <1>1, <1>4 DEF FindRole, CallOK, Call
  <2>2. call' \in [Worker -> Call] /\ \A v \in Worker : CallOK(call'[v])
    BY <1>4, <2>1, CallGoes, CallReturns DEF FindRole, CallPhase
  <2>3. QED
    BY <1>4, <2>2 DEF FindRole, TypeInv, TypeOK
<1>5. CASE GrantRole(w) \/ RefundRole(w)
  <2>1. CallUser(w) \in User
    BY <1>1, <1>5 DEF GrantRole, RefundRole, CallOK, CallUser, SubscriptionsAssumption
  <2>2. QED
    BY <1>5, <2>1, CallReturns DEF GrantRole, RefundRole, TypeInv, TypeOK
<1>6. CASE CancelSub(w)
  <2>1. call[w].s \in Sub
    BY <1>1, <1>6 DEF CancelSub, CallOK
  <2>2. QED
    BY <1>6, <2>1, SubStatusType, CallReturns DEF CancelSub, TypeInv, TypeOK
<1>7. CASE RefundRow(w)
  <2>1. call[w].p \in Payment /\ (call[w].s # 0 => call[w].s \in Sub)
    BY <1>1, <1>7 DEF RefundRow, CallOK, Call
  <2>2. rows' \in [Payment -> Seq(Row)]
    BY <1>7, <2>1, SetRowType DEF RefundRow, PayStatus, RowsKept, TypeInv, TypeOK
  <2>3. call' \in [Worker -> Call] /\ \A v \in Worker : CallOK(call'[v])
    BY <1>7, <2>1, CallReturns, CallAccess DEF RefundRow
  <2>4. QED
    BY <1>7, <2>2, <2>3 DEF RefundRow, TypeInv, TypeOK
<1>8. CASE RefundSub(w)
  <2>1. call[w].s \in Sub
    BY <1>1, <1>8 DEF RefundSub, CallOK
  <2>2. CallOK([call[w] EXCEPT !.phase = "refundUser"])
    BY <1>1, <2>1 DEF CallOK, Call
  <2>3. call' \in [Worker -> Call] /\ \A v \in Worker : CallOK(call'[v])
    BY <1>8, <2>2, CallGoes DEF RefundSub, CallPhase
  <2>4. QED
    BY <1>8, <2>1, <2>3, SubStatusType DEF RefundSub, TypeInv, TypeOK
<1>9. QED
  BY <1>2, <1>3, <1>4, <1>5, <1>6, <1>7, <1>8 DEF AccessStep, RefundStep

\* A call that dies.
LEMMA CrashType ==
  ASSUME SubscriptionsAssumption, TypeInv, (\E w \in Worker : Crash(w)) \/ SyncCrash
  PROVE  TypeInv'
<1>1. crashes' \in 0..MaxCrash
  BY DEF Crash, SyncCrash, TypeInv, TypeOK, SubscriptionsAssumption
<1>2. CASE \E w \in Worker : Crash(w)
  BY <1>1, <1>2, CallReturns DEF Crash, TypeInv, TypeOK
<1>3. CASE SyncCrash
  <2>1. NoSync \in Sync /\ SyncOK(NoSync)
    BY DEF NoSync, Sync, NoItem, Item, SyncPhase, PayStatus, SubStatus, SyncOK
  <2>2. QED
    BY <1>1, <1>3, <2>1 DEF SyncCrash, TypeInv, TypeOK
<1>4. QED
  BY <1>2, <1>3

\* The next phase of the job, and the next entry of its list.
LEMMA SyncGoesType ==
  ASSUME TypeInv, NEW ph \in SyncPhase, SyncGoes(ph),
         sync.item.s \in Sub,
         ph \in {"create", "subRow", "orderRow", "orderLink", "process", "activate", "row"}
           => sync.p \in Payment
  PROVE  sync' \in Sync /\ SyncOK(sync')
<1>1. sync \in Sync /\ SyncOK(sync)
  BY DEF TypeInv, TypeOK
<1>2. sync' = [sync EXCEPT !.phase = ph]
  BY DEF SyncGoes
<1>3. sync' \in Sync
  BY <1>1, <1>2 DEF Sync
<1>4. SyncOK(sync')
  BY <1>1, <1>2 DEF Sync, SyncOK
<1>5. QED
  BY <1>3, <1>4

\* The synchronization goes on to its next payment.
LEMMA NextItemType ==
  ASSUME TypeInv, NextItem
  PROVE  sync' \in Sync /\ SyncOK(sync')
<1>1. sync \in Sync /\ SyncOK(sync) /\ NoItem \in Item
  BY DEF TypeInv, TypeOK, NoItem, Item, PayStatus, SubStatus
<1>2. sync' = [sync EXCEPT !.phase = "next", !.p = None, !.status = "none", !.found = FALSE,
                           !.item = IF sync.orders = {} THEN NoItem ELSE @]
  BY DEF NextItem
<1> DEFINE item == IF sync.orders = {} THEN NoItem ELSE sync.item
<1>3. item \in Item /\ (sync.orders # {} => item = sync.item)
  BY <1>1 DEF Sync
<1> HIDE DEF item
<1>4. sync' = [sync EXCEPT !.phase = "next", !.p = None, !.status = "none", !.found = FALSE, !.item = item]
  BY <1>2 DEF item
<1>5. sync' \in Sync
  BY <1>1, <1>3, <1>4 DEF Sync, SyncPhase, PayStatus
<1>6. SyncOK(sync')
  BY <1>1, <1>3, <1>4 DEF Sync, SyncOK
<1>7. QED
  BY <1>5, <1>6

\* What the synchronization lists.
LEMMA ListsType ==
  ASSUME NEW part \in {"import", "rows", "subs"}, NEW todo \in SUBSET Item, Lists(part, todo),
         part = "import" => \A t \in todo : t.p \in Payment /\ t.status \in PayStatus,
         part = "rows" => \A t \in todo : t.p \in Payment /\ (t.s = 0 => t.was = "NONE"),
         part = "subs" => \A t \in todo : t.s \in Sub
  PROVE  sync' \in Sync /\ SyncOK(sync')
<1>1. NoItem \in Item
  BY DEF NoItem, Item, PayStatus, SubStatus
<1>2. sync' = [NoSync EXCEPT !.part = part, !.todo = todo]
  BY DEF Lists
<1>3. sync' \in Sync
  BY <1>1, <1>2 DEF NoSync, Sync, SyncPhase, PayStatus
<1>4. SyncOK(sync')
  BY <1>2 DEF NoSync, SyncOK
<1>5. QED
  BY <1>3, <1>4

\* An entry is taken from the list, and left there (Drop) or worked on.
LEMMA TakenType ==
  ASSUME TypeInv, NEW item \in sync.todo
  PROVE  /\ item \in Item
         /\ sync.part = "import" => item.p \in Payment /\ item.status \in PayStatus
         /\ sync.part = "rows" => item.p \in Payment /\ (item.s = 0 => item.was = "NONE")
         /\ sync.part = "subs" => item.s \in Sub
BY DEF TypeInv, TypeOK, Sync, SyncOK

\* The synchronization is done with a payment.
LEMMA DropType ==
  ASSUME TypeInv, NEW item \in sync.todo, Drop(item)
  PROVE  sync' \in Sync /\ SyncOK(sync')
<1>1. sync \in Sync /\ SyncOK(sync)
  BY DEF TypeInv, TypeOK
<1>2. sync' = [sync EXCEPT !.todo = sync.todo \ {item}]
  BY DEF Drop
<1>3. sync' \in Sync
  BY <1>1, <1>2 DEF Sync
<1>4. SyncOK(sync')
  BY <1>1, <1>2 DEF Sync, SyncOK
<1>5. QED
  BY <1>3, <1>4

\* An entry fails and the list goes on.
LEMMA FailsType ==
  ASSUME SubscriptionsAssumption, TypeInv, EntryFails
  PROVE  TypeInv'
<1>1. crashes' \in 0..MaxCrash
  BY DEF EntryFails, TypeInv, TypeOK, SubscriptionsAssumption
<1>2. sync' \in Sync /\ SyncOK(sync')
  <2>1. CASE \E item \in sync.todo : Drop(item)
    BY <2>1, DropType
  <2>2. CASE Lists(sync.part, sync.todo)
    <3>1. sync \in Sync /\ SyncOK(sync) /\ NoItem \in Item
      BY DEF TypeInv, TypeOK, NoItem, Item, PayStatus, SubStatus
    <3>2. sync' = [NoSync EXCEPT !.part = sync.part, !.todo = sync.todo]
      BY <2>2 DEF Lists
    <3>3. sync' \in Sync
      BY <3>1, <3>2 DEF NoSync, Sync, SyncPhase, PayStatus
    <3>4. SyncOK(sync')
      BY <3>1, <3>2 DEF NoSync, SyncOK
    <3>5. QED
      BY <3>3, <3>4
  <2>3. QED
    BY <2>1, <2>2 DEF EntryFails
<1>3. QED
  BY <1>1, <1>2 DEF EntryFails, TypeInv, TypeOK

\* The synchronization imports a payment.
LEMMA ImportType ==
  ASSUME SubscriptionsAssumption, TypeInv, ImportStep
  PROVE  TypeInv'
<1>1. sync \in Sync /\ SyncOK(sync) /\ NoItem \in Item
  BY DEF TypeInv, TypeOK, NoItem, Item, PayStatus, SubStatus
<1>2. CASE ListPayments
  <2>0. PICK listed \in SUBSET Existing :
          Lists("import", {[NoItem EXCEPT !.p = p, !.status = pay[p].status] : p \in listed})
    BY <1>2, Zenon DEF ListPayments
  <2> DEFINE todo == {[NoItem EXCEPT !.p = p, !.status = pay[p].status] : p \in listed}
  <2>1. \A p \in listed : p \in Payment /\ pay[p].status \in PayStatus
    BY DEF Existing, TypeInv, TypeOK, PayRow
  <2>2. \A t \in todo : t \in Item /\ t.p \in Payment /\ t.status \in PayStatus
    <3>1. ASSUME NEW p \in listed
          PROVE  LET t == [NoItem EXCEPT !.p = p, !.status = pay[p].status]
                 IN  t \in Item /\ t.p \in Payment /\ t.status \in PayStatus
      BY <2>1 DEF NoItem, Item, SubStatus
    <3>2. QED
      BY <3>1, Zenon
  <2>3. todo \in SUBSET Item
    BY <2>2, Zenon
  <2>4. sync' \in Sync /\ SyncOK(sync')
    <3>1. Lists("import", todo)
      BY <2>0, Zenon
    <3> HIDE DEF todo
    <3>2. QED
      BY <2>2, <2>3, <3>1, ListsType
  <2>5. QED
    <3>1. UNCHANGED <<pay, sub, rows, active, role, call, crashes>>
      BY <1>2, Zenon DEF ListPayments
    <3>2. QED
      BY <2>4, <3>1 DEF TypeInv, TypeOK
<1>3. CASE ImportRow
  <2>1. sync.p \in Payment /\ sync.item.s \in Sub /\ sync.status \in PayStatus
    BY <1>1, <1>3 DEF ImportRow, SyncOK, Sync
  <2>2. rows' \in [Payment -> Seq(Row)]
    BY <1>3, <2>1, NewRowType DEF ImportRow, TypeInv, TypeOK, RowsKept
  <2>3. sync' \in Sync /\ SyncOK(sync')
    BY <1>3, <2>1, SyncGoesType, NextItemType DEF ImportRow, ProcessIf, SyncPhase
  <2>4. QED
    BY <1>3, <2>2, <2>3 DEF ImportRow, TypeInv, TypeOK
<1>4. CASE \E item \in sync.todo : ImportKnown(item)
  <2>1. PICK item \in sync.todo : ImportKnown(item)
    BY <1>4
  <2>2. item.p \in Payment /\ item.status \in PayStatus
    BY <2>1, TakenType DEF ImportKnown, Between
  <2>3. rows' \in [Payment -> Seq(Row)]
    BY <2>1, <2>2, SetRowType DEF ImportKnown, TypeInv, TypeOK, RowsKept
  <2>4. sync' \in Sync /\ SyncOK(sync')
    BY <2>1, DropType DEF ImportKnown
  <2>5. QED
    BY <2>1, <2>3, <2>4 DEF ImportKnown, TypeInv, TypeOK
<1>5. CASE \E item \in sync.todo : ImportFind(item)
  <2>1. PICK item \in sync.todo : ImportFind(item)
    BY <1>5
  <2>2. item \in Item /\ item.p \in Payment /\ item.status \in PayStatus
    BY <2>1, TakenType DEF ImportFind, Between
  <2>3. ImportSub(item.p) # 0 => ImportSub(item.p) \in Sub
    BY <2>2, PickType DEF ImportSub, TypeInv, TypeOK, PayRow
  <2> DEFINE y == [sync EXCEPT !.todo = sync.todo \ {item}, !.phase = "create", !.p = item.p,
                     !.item = [NoItem EXCEPT !.s = ImportSub(item.p)], !.status = item.status]
  <2>4. ASSUME ImportSub(item.p) # 0
        PROVE  y \in Sync /\ SyncOK(y)
    <3>1. [NoItem EXCEPT !.s = ImportSub(item.p)] \in Item
      BY <2>3, <2>4 DEF NoItem, Item, PayStatus, SubStatus
    <3>2. [NoItem EXCEPT !.s = ImportSub(item.p)].s \in Sub
      BY <2>3, <2>4 DEF NoItem
    <3>3. y \in Sync
      BY <1>1, <2>2, <3>1 DEF Sync, SyncPhase
    <3>4. SyncOK(y)
      BY <1>1, <2>2, <3>2 DEF Sync, SyncOK
    <3>5. QED
      BY <3>3, <3>4
  <2>5. sync' \in Sync /\ SyncOK(sync')
    BY <2>1, <2>4, DropType DEF ImportFind
  <2>6. QED
    BY <2>1, <2>5 DEF ImportFind, TypeInv, TypeOK
<1>6. QED
  BY <1>2, <1>3, <1>4, <1>5 DEF ImportStep

\* The steps of the synchronization that write the rows of payments.
LEMMA RowsType ==
  ASSUME SubscriptionsAssumption, TypeInv, RowsStep
  PROVE  TypeInv'
<1>1. sync \in Sync /\ SyncOK(sync) /\ NoItem \in Item
  BY DEF TypeInv, TypeOK, NoItem, Item, PayStatus, SubStatus
<1>2. CASE ListRows
  <2> DEFINE entry(p, i) == [p |-> p, i |-> i, s |-> rows[p][i].sub, status |-> rows[p][i].status,
                             was |-> StatusOf(rows[p][i].sub)]
             todo == UNION {{entry(p, i) : i \in DOMAIN rows[p]} : p \in Payment}
  <2>1. ASSUME NEW p \in Payment, NEW i \in DOMAIN rows[p]
        PROVE  /\ entry(p, i) \in Item /\ entry(p, i).p \in Payment
               /\ entry(p, i).s = 0 => entry(p, i).was = "NONE"
    <3>1. rows[p] \in Seq(Row) /\ i \in 1..Len(rows[p])
      BY DEF TypeInv, TypeOK
    <3>2. i \in Nat /\ rows[p][i] \in Row
      BY <3>1
    <3>3. rows[p][i].sub \in Sub \cup {0} /\ rows[p][i].status \in RowStatus
      BY <3>2 DEF Row
    <3>4. ASSUME NEW s \in Sub \cup {0}
          PROVE  StatusOf(s) \in SubStatus /\ (s = 0 => StatusOf(s) = "NONE")
      BY DEF StatusOf, SubStatus, TypeInv, TypeOK, SubRow
    <3>5. QED
      BY <3>2, <3>3, <3>4 DEF Item
  <2>2. \A t \in todo : \E p \in Payment : \E i \in DOMAIN rows[p] : t = entry(p, i)
    OBVIOUS
  <2> HIDE DEF entry
  <2>3. \A t \in todo : t \in Item /\ t.p \in Payment /\ (t.s = 0 => t.was = "NONE")
    BY <2>1, <2>2
  <2>4. sync' \in Sync /\ SyncOK(sync')
    <3>1. Lists("rows", todo)
      BY <1>2 DEF ListRows, entry
    <3> HIDE DEF todo
    <3>2. todo \in SUBSET Item
      BY <2>3
    <3>3. QED
      BY <2>3, <3>1, <3>2, ListsType
  <2>5. QED
    BY <1>2, <2>4 DEF ListRows, TypeInv, TypeOK
<1>3. CASE Deactivate
  <2>1. sync.item.s \in Sub
    BY <1>1, <1>3 DEF Deactivate, SyncOK
  <2>2. sub' \in [Sub -> SubRow]
    BY <1>3, <2>1, SubStatusType DEF Deactivate
  <2>3. sync' \in Sync /\ SyncOK(sync')
    BY <1>3, <2>1, SyncGoesType DEF Deactivate, SyncPhase
  <2>4. QED
    BY <1>3, <2>2, <2>3 DEF Deactivate, TypeInv, TypeOK
<1>4. CASE RemoveRole
  BY <1>4, NextItemType DEF RemoveRole, TypeInv, TypeOK
<1>5. CASE \E item \in sync.todo : RefreshRow(item)
  <2>1. PICK item \in sync.todo : RefreshRow(item)
    BY <1>5
  <2>2. /\ item \in Item /\ item.p \in Payment /\ item.i \in Nat
        /\ item.was # "NONE" => item.s \in Sub
    BY <2>1, TakenType DEF RefreshRow, Between, Item
  <2> DEFINE new == DbStatus[pay[item.p].status]
  <2>3. new \in RowStatus
    BY <2>2 DEF TypeInv, TypeOK, PayRow, PayStatus, DbStatus, RowStatus
  <2>4. rows' = rows \/ rows' = [rows EXCEPT ![item.p][item.i].status = new]
    BY <2>1 DEF RefreshRow
  <2>5. rows' \in [Payment -> Seq(Row)]
    BY <2>2, <2>3, <2>4, StatusType DEF TypeInv, TypeOK, RowsKept
  <2>6. ASSUME NEW after \in {"process", "deactivate"}, item.s \in Sub,
               sync' = [sync EXCEPT !.todo = sync.todo \ {item}, !.item = [NoItem EXCEPT !.s = item.s],
                                    !.p = item.p, !.phase = after]
        PROVE  sync' \in Sync /\ SyncOK(sync')
    <3>1. [NoItem EXCEPT !.s = item.s] \in Item /\ [NoItem EXCEPT !.s = item.s].s \in Sub
      BY <2>6 DEF NoItem, Item, PayStatus, SubStatus
    <3>2. sync' \in Sync
      BY <1>1, <2>2, <2>6, <3>1 DEF Sync, SyncPhase
    <3>3. SyncOK(sync')
      BY <1>1, <2>2, <2>6, <3>1 DEF Sync, SyncOK
    <3>4. QED
      BY <3>2, <3>3
  <2>7. sync' \in Sync /\ SyncOK(sync')
    <3>1. \/ Drop(item)
          \/ /\ item.was # "NONE"
             /\ \E after \in {"process", "deactivate"} :
                  sync' = [sync EXCEPT !.todo = sync.todo \ {item}, !.item = [NoItem EXCEPT !.s = item.s],
                                       !.p = item.p, !.phase = after]
      BY <2>1 DEF RefreshRow
    <3>2. QED
      BY <2>2, <2>6, <3>1, DropType
  <2>8. QED
    BY <2>1, <2>5, <2>7 DEF RefreshRow, TypeInv, TypeOK
<1>6. QED
  BY <1>2, <1>3, <1>4, <1>5 DEF RowsStep

\* The steps of the synchronization that write subscriptions.
LEMMA SubsType ==
  ASSUME SubscriptionsAssumption, TypeInv, SubsStep
  PROVE  TypeInv'
<1>1. sync \in Sync /\ SyncOK(sync) /\ NoItem \in Item
  BY DEF TypeInv, TypeOK, NoItem, Item, PayStatus, SubStatus
<1>2. CASE ListSubs
  <2> DEFINE entry(s) == [NoItem EXCEPT !.s = s, !.p = sub[s].mp, !.was = sub[s].status]
             held == {s \in Created : sub[s].mp # None}
             todo == {entry(s) : s \in Listed(IF held = {} THEN Created ELSE held) \cup Open}
  <2>1. ASSUME NEW s \in Sub
        PROVE  entry(s) \in Item /\ entry(s).s \in Sub
    <3>1. sub[s].mp \in Payment \cup {None} /\ sub[s].status \in SubStatus
      BY DEF TypeInv, TypeOK, SubRow
    <3>2. QED
      BY <3>1 DEF NoItem, Item, PayStatus
  <2>2. \A t \in todo : \E s \in Sub : t = entry(s)
    <3>1. \A s \in Listed(IF held = {} THEN Created ELSE held) \cup Open : s \in Sub
      BY Zenon DEF Listed, Created, Open
    <3>2. QED
      BY <3>1, Zenon
  <2> HIDE DEF entry
  <2>3. \A t \in todo : t \in Item /\ t.s \in Sub
    BY <2>1, <2>2
  <2>4. sync' \in Sync /\ SyncOK(sync')
    <3>1. Lists("subs", todo)
      BY <1>2, Zenon DEF ListSubs, entry
    <3> HIDE DEF todo
    <3>2. todo \in SUBSET Item
      BY <2>3
    <3>3. QED
      BY <2>3, <3>1, <3>2, ListsType
  <2>5. QED
    <3>1. UNCHANGED <<pay, sub, rows, active, role, call, crashes>>
      BY <1>2, Zenon DEF ListSubs
    <3>2. QED
      BY <2>4, <3>1 DEF TypeInv, TypeOK
<1>3. CASE \E item \in sync.todo : FindOrders(item)
  <2>1. PICK item \in sync.todo : FindOrders(item)
    BY <1>3
  <2>2. item \in Item /\ item.s \in Sub
    BY <2>1, TakenType DEF FindOrders, Between
  <2> DEFINE orders == {[p |-> p, status |-> pay[p].status] :
                          p \in {q \in Existing : pay[q].pref /\ pay[q].for = item.s}}
  <2>3. orders \in SUBSET Order
    BY DEF Existing, Order, TypeInv, TypeOK, PayRow
  <2>4. sync' = [sync EXCEPT !.todo = sync.todo \ {item}, !.item = item, !.orders = orders]
    BY <2>1 DEF FindOrders
  <2> HIDE DEF orders
  <2>5. sync' \in Sync
    BY <1>1, <2>2, <2>3, <2>4 DEF Sync
  <2>6. SyncOK(sync')
    BY <1>1, <2>2, <2>4 DEF Sync, SyncOK
  <2>7. QED
    BY <2>1, <2>5, <2>6 DEF FindOrders, TypeInv, TypeOK
<1>4. CASE \E o \in sync.orders : FindOrderRow(o)
  <2>1. PICK o \in sync.orders : FindOrderRow(o)
    BY <1>4
  <2>2. o.p \in Payment /\ o.status \in PayStatus /\ sync.item.s \in Sub
    BY <1>1 DEF Sync, Order, SyncOK
  <2>3. sync' = [sync EXCEPT !.orders = sync.orders \ {o}, !.p = o.p, !.status = o.status,
                             !.found = rows[o.p] # <<>>, !.phase = "orderRow"]
    BY <2>1 DEF FindOrderRow
  <2>4. sync' \in Sync
    BY <1>1, <2>2, <2>3 DEF Sync, SyncPhase
  <2>5. SyncOK(sync')
    BY <1>1, <2>2, <2>3 DEF Sync, SyncOK
  <2>6. QED
    BY <2>1, <2>4, <2>5 DEF FindOrderRow, TypeInv, TypeOK
<1>5. CASE WriteOrderRow
  <2>1. sync.p \in Payment /\ sync.item.s \in Sub /\ sync.status \in PayStatus
    BY <1>1, <1>5 DEF WriteOrderRow, SyncOK, Sync
  <2>2. rows' \in [Payment -> Seq(Row)]
    BY <1>5, <2>1, NewRowType DEF WriteOrderRow, TypeInv, TypeOK, RowsKept
  <2>3. sync' \in Sync /\ SyncOK(sync')
    BY <1>5, <2>1, SyncGoesType DEF WriteOrderRow, SyncPhase
  <2>4. QED
    BY <1>5, <2>2, <2>3 DEF WriteOrderRow, TypeInv, TypeOK
<1>6. CASE LinkOrder
  <2>1. sync.p \in Payment /\ sync.item.s \in Sub /\ sync.item \in Item
    BY <1>1, <1>6 DEF LinkOrder, SyncOK, Sync
  <2>2. sub' \in [Sub -> SubRow]
    <3>1. sub[sync.item.s] \in SubRow
      BY <2>1 DEF TypeInv, TypeOK
    <3>2. [sub[sync.item.s] EXCEPT !.mp = sync.p] \in SubRow
      BY <2>1, <3>1 DEF SubRow
    <3>3. \/ sub' = sub
          \/ sub' = [sub EXCEPT ![sync.item.s] = [sub[sync.item.s] EXCEPT !.mp = sync.p]]
      BY <1>6 DEF LinkOrder
    <3>4. QED
      BY <2>1, <3>2, <3>3 DEF TypeInv, TypeOK
  <2>3. [sync.item EXCEPT !.p = sync.p] \in Item /\ [sync.item EXCEPT !.p = sync.p].s \in Sub
    BY <2>1 DEF Item
  <2>4. CASE sync' = [sync EXCEPT !.item.p = sync.p, !.phase = "process"]
    <3>1. sync' = [sync EXCEPT !.item = [sync.item EXCEPT !.p = sync.p], !.phase = "process"]
      BY <2>4
    <3>2. sync' \in Sync
      BY <1>1, <2>3, <3>1 DEF Sync, SyncPhase
    <3>3. SyncOK(sync')
      BY <1>1, <2>1, <2>3, <3>1 DEF Sync, SyncOK
    <3>4. QED
      BY <1>6, <2>2, <3>2, <3>3 DEF LinkOrder, TypeInv, TypeOK
  <2>5. CASE ~(sync.status = "approved" /\ sub[sync.item.s].status = "PENDING_PAYMENT")
    <3>1. sync' = [sync EXCEPT !.item = IF sync.orders = {} THEN NoItem ELSE [sync.item EXCEPT !.p = sync.p],
                               !.phase = "next", !.p = None, !.status = "none", !.found = FALSE]
      BY <1>6, <2>5 DEF LinkOrder
    <3> DEFINE item == IF sync.orders = {} THEN NoItem ELSE [sync.item EXCEPT !.p = sync.p]
    <3>2. item \in Item /\ (sync.orders # {} => item.s \in Sub)
      BY <1>1, <2>3
    <3> HIDE DEF item
    <3>3. sync' = [sync EXCEPT !.item = item, !.phase = "next", !.p = None, !.status = "none", !.found = FALSE]
      BY <3>1 DEF item
    <3>4. sync' \in Sync
      BY <1>1, <3>2, <3>3 DEF Sync, SyncPhase, PayStatus
    <3>5. SyncOK(sync')
      BY <1>1, <3>2, <3>3 DEF Sync, SyncOK
    <3>6. QED
      BY <1>6, <2>2, <3>4, <3>5 DEF LinkOrder, TypeInv, TypeOK
  <2>6. QED
    BY <1>6, <2>4, <2>5 DEF LinkOrder
<1>7. CASE \E item \in sync.todo : FindSubRow(item)
  <2>1. PICK item \in sync.todo : FindSubRow(item)
    BY <1>7
  <2>2. item \in Item /\ item.s \in Sub /\ item.p \in Payment
    BY <2>1, TakenType DEF FindSubRow, Between, Item
  <2>3. pay[item.p].status \in PayStatus
    BY <2>2 DEF TypeInv, TypeOK, PayRow
  <2>4. sync' = [sync EXCEPT !.todo = sync.todo \ {item}, !.item = item, !.p = item.p,
                   !.status = pay[item.p].status, !.found = rows[item.p] # <<>>, !.phase = "subRow"]
    BY <2>1 DEF FindSubRow
  <2>5. sync' \in Sync
    BY <1>1, <2>2, <2>3, <2>4 DEF Sync, SyncPhase
  <2>6. SyncOK(sync')
    BY <1>1, <2>2, <2>4 DEF Sync, SyncOK
  <2>7. QED
    BY <2>1, <2>5, <2>6 DEF FindSubRow, TypeInv, TypeOK
<1>8. CASE WriteSubRow
  <2>1. sync.p \in Payment /\ sync.item.s \in Sub /\ sync.status \in PayStatus
    BY <1>1, <1>8 DEF WriteSubRow, SyncOK, Sync
  <2>2. rows' \in [Payment -> Seq(Row)]
    BY <1>8, <2>1, NewRowType, SetRowType DEF WriteSubRow, TypeInv, TypeOK, RowsKept
  <2>3. sync' \in Sync /\ SyncOK(sync')
    BY <1>8, <2>1, SyncGoesType, NextItemType DEF WriteSubRow, ProcessIf, SyncPhase
  <2>4. QED
    BY <1>8, <2>2, <2>3 DEF WriteSubRow, TypeInv, TypeOK
<1>9. CASE EndRound
  <2>1. NoSync \in Sync /\ SyncOK(NoSync)
    BY <1>1 DEF NoSync, Sync, SyncPhase, PayStatus, SyncOK
  <2>2. QED
    BY <1>9, <2>1 DEF EndRound, TypeInv, TypeOK
<1>10. QED
  BY <1>2, <1>3, <1>4, <1>5, <1>6, <1>7, <1>8, <1>9 DEF SubsStep

\* The steps of the synchronization.
LEMMA ProcessType ==
  ASSUME SubscriptionsAssumption, TypeInv, ProcessStep
  PROVE  TypeInv'
<1>1. sync \in Sync /\ SyncOK(sync)
  BY DEF TypeInv, TypeOK
<1>2. sync.item.s \in Sub /\ SyncUser \in User
  BY <1>1 DEF ProcessStep, Process, SyncActivate, ApproveRow, SyncActivateUser, SyncFindRole,
              SyncGrantRole, SyncOK, SyncUser, SubscriptionsAssumption
<1>3. CASE Process
  <2>1. sync' \in Sync /\ SyncOK(sync')
    BY <1>1, <1>2, <1>3, SyncGoesType, NextItemType DEF Process, SyncPhase, SyncOK
  <2>2. QED
    BY <1>3, <2>1 DEF Process, TypeInv, TypeOK
<1>4. CASE SyncActivate
  <2>1. sync.p \in Payment
    BY <1>1, <1>4 DEF SyncActivate, SyncOK
  <2>2. [status |-> "ACTIVE", mp |-> sync.p] \in SubRow
    BY <2>1 DEF SubRow, SubStatus
  <2>3. sync' \in Sync /\ SyncOK(sync')
    BY <1>2, <1>4, <2>1, SyncGoesType DEF SyncActivate, SyncPhase
  <2>4. QED
    BY <1>4, <2>2, <2>3 DEF SyncActivate, TypeInv, TypeOK
<1>5. CASE ApproveRow
  <2>1. sync.p \in Payment
    BY <1>1, <1>5 DEF ApproveRow, SyncOK
  <2>2. rows' \in [Payment -> Seq(Row)]
    BY <1>5, <2>1, SetRowType DEF ApproveRow, PayStatus, RowsKept, TypeInv, TypeOK
  <2>3. sync' \in Sync /\ SyncOK(sync')
    BY <1>2, <1>5, SyncGoesType DEF ApproveRow, SyncPhase
  <2>4. QED
    BY <1>5, <2>2, <2>3 DEF ApproveRow, TypeInv, TypeOK
<1>6. CASE SyncActivateUser
  <2>1. sync' \in Sync /\ SyncOK(sync')
    BY <1>2, <1>6, SyncGoesType DEF SyncActivateUser, SyncPhase
  <2>2. QED
    BY <1>2, <1>6, <2>1 DEF SyncActivateUser, TypeInv, TypeOK
<1>7. CASE SyncFindRole
  <2>1. sync' \in Sync /\ SyncOK(sync')
    BY <1>2, <1>7, SyncGoesType, NextItemType DEF SyncFindRole, SyncPhase
  <2>2. QED
    BY <1>7, <2>1 DEF SyncFindRole, TypeInv, TypeOK
<1>8. CASE SyncGrantRole
  BY <1>2, <1>8, NextItemType DEF SyncGrantRole, TypeInv, TypeOK
<1>9. QED
  BY <1>3, <1>4, <1>5, <1>6, <1>7, <1>8 DEF ProcessStep

\* Every step keeps the types.
LEMMA TypeStep == SubscriptionsAssumption /\ TypeInv /\ [Next]_vars => TypeInv'
<1> SUFFICES ASSUME SubscriptionsAssumption, TypeInv, [Next]_vars PROVE TypeInv'
  OBVIOUS
<1>1. CASE UNCHANGED vars
  BY <1>1 DEF vars, TypeInv, TypeOK
<1>2. CASE Next
  <2>1. CASE \E w \in Worker : CallStep(w)
    BY <2>1, LinkType, AccessType DEF CallStep
  <2>2. CASE SyncStep
    BY <2>2, ImportType, RowsType, SubsType, ProcessType DEF SyncStep
  <2>3. QED
    BY <1>2, <2>1, <2>2, UserType, GatewayType, RequestType, CrashType, FailsType DEF Next
<1>3. QED
  BY <1>1, <1>2

\* The tables, the requests and the job have their types for any number of
\* subscriptions and with every feature; a step works only on a payment and a
\* subscription it knows (CallOK, SyncOK), which the handlers rely on.
THEOREM SubscriptionsTypeCorrect == Spec => []TypeOK
<1>1. TypeInv => TypeOK
  BY DEF TypeInv
<1>2. QED
  BY <1>1, TypeInit, TypeStep, SubscriptionsAssumption, PTL DEF Spec

(***************************************************************************)
(* Ownership: a payment whose preference the gateway tells belongs to the  *)
(* subscription of that preference, and to no other.                       *)
(* Requests and the job act on what they read earlier; this is right       *)
(* because what they rely on cannot change any more: whose a payment is,   *)
(* that it was approved once, and that it has a row.                       *)
(***************************************************************************)
Known(p, py) == py[p].status # "none"
Paid(p, py) == py[p].status \in {"approved", "refunded"}
ToldIn(p, py) == py[p].pref /\ "UNTOLD" \notin Enabled
Owned(p, s, py) == p \in Payment /\ Known(p, py) /\ (ToldIn(p, py) => py[p].for = s)

PayOwn == \A p \in Payment : Known(p, pay) => pay[p].for \in Created
SubOwn ==
  \A s \in Sub :
    /\ sub[s].mp # None => (Owned(sub[s].mp, s, pay) /\ rows[sub[s].mp] # <<>>)
    /\ sub[s].status = "ACTIVE" => \E p \in Payment : Paid(p, pay) /\ Owned(p, s, pay)
RowsOwn == \A p \in Payment, i \in Nat : i \in DOMAIN rows[p] => Owned(p, rows[p][i].sub, pay)

\* A request has the subscription its payment is for, if that can be told, and
\* activates it only with a payment that was approved and is recorded.
CallOwn(c, py, rw) ==
  /\ c.phase \in {"payer", "any"} => ~ToldIn(c.p, py)
  /\ c.phase \in {"find", "payer", "any", "row", "write", "link"}
       => Known(c.p, py) /\ (c.status = "approved" => Paid(c.p, py))
  /\ c.phase \in {"row", "write", "link", "activate"} => Owned(c.p, c.s, py)
  /\ c.phase = "write" /\ c.found => rw[c.p] # <<>>
  /\ c.phase \in {"link", "activate"} => rw[c.p] # <<>>
  /\ c.phase = "activate" => Paid(c.p, py)

\* The lists of the job stay true while it goes through them.
SyncOwn(y, py, rw) ==
  /\ y.part = "import" =>
       \A t \in y.todo : Known(t.p, py) /\ (t.status = "approved" => Paid(t.p, py))
  /\ y.part = "rows" => \A t \in y.todo : Owned(t.p, t.s, py) /\ rw[t.p] # <<>>
  /\ y.part = "subs" => \A t \in y.todo : t.p # None => Owned(t.p, t.s, py)
  /\ \A o \in y.orders : Owned(o.p, y.item.s, py) /\ (o.status = "approved" => Paid(o.p, py))
  /\ y.phase \in {"create", "subRow", "orderRow", "orderLink", "process", "activate"}
       => Owned(y.p, y.item.s, py)
  /\ y.phase \in {"create", "subRow", "orderRow", "orderLink"} /\ y.status = "approved"
       => Paid(y.p, py)
  /\ y.phase \in {"process", "activate"} => Paid(y.p, py)
  /\ y.phase \in {"subRow", "orderRow"} /\ y.found => rw[y.p] # <<>>
  /\ y.phase \in {"orderLink", "process", "activate"} => rw[y.p] # <<>>

OwnInv ==
  /\ PayOwn /\ SubOwn /\ RowsOwn
  /\ \A w \in Worker : CallOwn(call[w], pay, rows)
  /\ SyncOwn(sync, pay, rows)

\* What never changes again.
Grows ==
  \A p \in Payment :
    /\ Known(p, pay) => Known(p, pay') /\ pay'[p].for = pay[p].for /\ pay'[p].pref = pay[p].pref
    /\ Paid(p, pay) => Paid(p, pay')
    /\ rows[p] # <<>> => rows'[p] # <<>>

\* What a call works for stays its own.
LEMMA CallKept ==
  ASSUME Grows, NEW c \in Call, CallOK(c), CallOwn(c, pay, rows)
  PROVE  CallOwn(c, pay', rows')
BY DEF Grows, CallOK, CallOwn, Owned, ToldIn

\* What the synchronization works for stays its own.
LEMMA SyncKept ==
  ASSUME Grows, NEW y \in Sync, SyncOK(y), SyncOwn(y, pay, rows)
  PROVE  SyncOwn(y, pay', rows')
<1>1. \A p \in Payment, s \in Sub : Owned(p, s, pay) => Owned(p, s, pay')
  BY DEF Grows, Owned, ToldIn
<1>2. \A o \in y.orders : Owned(o.p, y.item.s, pay') /\ (o.status = "approved" => Paid(o.p, pay'))
  BY DEF Grows, SyncOwn, Owned, ToldIn
<1>3. \A t \in y.todo : y.part = "subs" /\ t.p # None => Owned(t.p, t.s, pay')
  BY DEF Grows, SyncOwn, Owned, ToldIn
<1>4. \A t \in y.todo : y.part = "rows" => Owned(t.p, t.s, pay') /\ rows'[t.p] # <<>>
  BY DEF Grows, SyncOwn, Owned, ToldIn
<1>5. \A t \in y.todo : y.part = "import" =>
        (Known(t.p, pay') /\ (t.status = "approved" => Paid(t.p, pay')))
  BY DEF Grows, SyncOwn, SyncOK
<1>6. QED
  BY <1>2, <1>3, <1>4, <1>5 DEF Grows, SyncOwn, SyncOK, Owned, ToldIn

\* A step keeps the invariant when its tables and what it moves do.
LEMMA OwnKept ==
  ASSUME TypeInv, OwnInv, Grows, PayOwn', SubOwn', RowsOwn',
         \A w \in Worker : call'[w] = call[w] \/ CallOwn(call'[w], pay', rows'),
         sync' = sync \/ SyncOwn(sync', pay', rows')
  PROVE  OwnInv'
<1>1. ASSUME NEW w \in Worker PROVE CallOwn(call'[w], pay', rows')
  BY CallKept DEF TypeInv, TypeOK, OwnInv
<1>2. SyncOwn(sync', pay', rows')
  BY SyncKept DEF TypeInv, TypeOK, OwnInv
<1>3. QED
  BY <1>1, <1>2 DEF OwnInv

\* Only the requests and the job move.
LEMMA TablesSame ==
  ASSUME OwnInv, pay' = pay, sub' = sub, rows' = rows
  PROVE  Grows /\ PayOwn' /\ SubOwn' /\ RowsOwn'
BY DEF OwnInv, Grows, PayOwn, SubOwn, RowsOwn, Known, Paid, Owned, ToldIn, Created, Exists

\* Only rows change, and none comes to another subscription.
LEMMA RowsChange ==
  ASSUME OwnInv, pay' = pay, sub' = sub, RowsKept,
         \A p \in Payment, i \in Nat : i \in DOMAIN rows'[p] => Owned(p, rows'[p][i].sub, pay)
  PROVE  Grows /\ PayOwn' /\ SubOwn' /\ RowsOwn'
<1>1. Grows /\ RowsOwn'
  BY DEF Grows, RowsOwn, Known, Paid, Owned, ToldIn, RowsKept
<1>2. PayOwn'
  BY DEF OwnInv, PayOwn, Known, Created, Exists
<1>3. SubOwn'
  BY DEF OwnInv, SubOwn, Known, Paid, Owned, ToldIn, RowsKept
<1>4. QED
  BY <1>1, <1>2, <1>3

\* The row of a new payment.
LEMMA NewRowOwn ==
  ASSUME TypeInv, OwnInv, pay' = pay, sub' = sub, NEW p \in Payment, NEW s \in Sub \cup {0},
         NEW st \in PayStatus, NewRow(p, s, st), Owned(p, s, pay)
  PROVE  Grows /\ PayOwn' /\ SubOwn' /\ RowsOwn' /\ rows'[p] # <<>>
<1>1. RowsKept /\ rows'[p] # <<>>
  BY NewRowType DEF TypeInv, TypeOK
<1>2. \A q \in Payment, i \in Nat : i \in DOMAIN rows'[q] =>
        \/ q = p /\ rows'[q][i].sub = s
        \/ i \in DOMAIN rows[q] /\ rows'[q][i] = rows[q][i]
  BY NewRowType DEF TypeInv, TypeOK
<1>3. \A q \in Payment, i \in Nat : i \in DOMAIN rows'[q] => Owned(q, rows'[q][i].sub, pay)
  BY <1>2 DEF OwnInv, RowsOwn
<1>4. QED
  BY <1>1, <1>3, RowsChange

\* A step that leaves the rows alone.
LEMMA SameRowsOwn ==
  ASSUME OwnInv, pay' = pay, sub' = sub, RowsKept, rows \in [Payment -> Seq(Row)],
         \A q \in Payment : /\ DOMAIN rows'[q] = DOMAIN rows[q]
                            /\ \A k \in DOMAIN rows[q] : rows'[q][k].sub = rows[q][k].sub
  PROVE  Grows /\ PayOwn' /\ SubOwn' /\ RowsOwn'
<1>1. \A q \in Payment, i \in Nat : i \in DOMAIN rows'[q] => Owned(q, rows'[q][i].sub, pay)
  BY DEF OwnInv, RowsOwn
<1>2. QED
  BY <1>1, RowsChange

\* A row that is written for the subscription it belongs to.
LEMMA SetRowOwn ==
  ASSUME TypeInv, OwnInv, pay' = pay, sub' = sub, NEW p \in Payment, NEW st \in PayStatus, SetRow(p, st)
  PROVE  Grows /\ PayOwn' /\ SubOwn' /\ RowsOwn'
<1>1. rows \in [Payment -> Seq(Row)]
  BY DEF TypeInv, TypeOK
<1>2. QED
  BY <1>1, SetRowType, SameRowsOwn

\* Only one subscription changes: cancelled, linked or activated.
LEMMA SubChange ==
  ASSUME TypeInv, OwnInv, pay' = pay, rows' = rows, NEW s \in Sub, NEW r \in SubRow,
         sub' = [sub EXCEPT ![s] = r], r.status = "NONE" => sub[s].status = "NONE",
         r.mp = sub[s].mp \/ (Owned(r.mp, s, pay) /\ rows[r.mp] # <<>>),
         r.status = "ACTIVE" => sub[s].status = "ACTIVE" \/ (Owned(r.mp, s, pay) /\ Paid(r.mp, pay))
  PROVE  Grows /\ PayOwn' /\ SubOwn' /\ RowsOwn'
<1>1. Grows /\ RowsOwn'
  BY DEF OwnInv, Grows, RowsOwn, Known, Paid, Owned, ToldIn
<1>2. Created \subseteq Created'
  BY DEF Created, Exists, TypeInv, TypeOK
<1>3. PayOwn'
  BY <1>2 DEF OwnInv, PayOwn, Known
<1>4. ASSUME NEW t \in Sub
      PROVE  /\ sub'[t].mp # None => (Owned(sub'[t].mp, t, pay) /\ rows[sub'[t].mp] # <<>>)
             /\ sub'[t].status = "ACTIVE" => \E p \in Payment : Paid(p, pay) /\ Owned(p, t, pay)
  <2>1. CASE t = s
    <3>1. sub'[t] = r
      BY <2>1 DEF TypeInv, TypeOK
    <3>2. r.mp # None => (Owned(r.mp, t, pay) /\ rows[r.mp] # <<>>)
      BY <2>1 DEF OwnInv, SubOwn
    <3>3. r.status = "ACTIVE" => \E p \in Payment : Paid(p, pay) /\ Owned(p, t, pay)
      BY <2>1 DEF OwnInv, SubOwn, Owned, ToldIn
    <3>4. QED
      BY <3>1, <3>2, <3>3
  <2>2. CASE t # s
    BY <2>2 DEF OwnInv, SubOwn, TypeInv, TypeOK
  <2>3. QED
    BY <2>1, <2>2
<1>5. SubOwn'
  BY <1>4 DEF SubOwn, Known, Paid, Owned, ToldIn
<1>6. QED
  BY <1>1, <1>3, <1>5

\* A subscription that is cancelled.
LEMMA CancelledOwn ==
  ASSUME TypeInv, OwnInv, pay' = pay, rows' = rows, NEW s \in Sub,
         sub' = [sub EXCEPT ![s].status = "CANCELLED"]
  PROVE  Grows /\ PayOwn' /\ SubOwn' /\ RowsOwn'
<1> DEFINE r == [sub[s] EXCEPT !.status = "CANCELLED"]
<1>1. r \in SubRow /\ r.status = "CANCELLED" /\ r.mp = sub[s].mp
  BY DEF TypeInv, TypeOK, SubRow, SubStatus
<1>2. sub' = [sub EXCEPT ![s] = r]
  OBVIOUS
<1>3. QED
  BY <1>1, <1>2, SubChange

\* The steps of a user.
LEMMA UserOwn ==
  ASSUME SubscriptionsAssumption, TypeInv, OwnInv, UserStep
  PROVE  OwnInv'
<1>1. PICK s \in Sub : Checkout(s) \/ CancelSubscription(s)
  BY DEF UserStep
<1>2. Grows /\ PayOwn' /\ SubOwn' /\ RowsOwn'
  <2>1. CASE Checkout(s)
    <3> DEFINE r == [status |-> "PENDING_PAYMENT", mp |-> None]
    <3>1. r \in SubRow /\ r.status = "PENDING_PAYMENT" /\ r.mp = None
      BY DEF SubRow, SubStatus
    <3>2. Created \subseteq Created'
      BY <2>1 DEF Checkout, Created, Exists, TypeInv, TypeOK
    <3>3. PayOwn'
      BY <2>1, <3>2 DEF Checkout, OwnInv, PayOwn, Known
    <3>4. Grows /\ RowsOwn'
      BY <2>1 DEF Checkout, OwnInv, Grows, RowsOwn, Known, Paid, Owned, ToldIn
    <3>5. SubOwn'
      BY <2>1 DEF Checkout, OwnInv, SubOwn, Known, Paid, Owned, ToldIn, TypeInv, TypeOK
    <3>6. QED
      BY <3>3, <3>4, <3>5
  <2>2. CASE CancelSubscription(s)
    BY <2>2, CancelledOwn DEF CancelSubscription
  <2>3. QED
    BY <1>1, <2>1, <2>2
<1>3. call' = call /\ sync' = sync
  BY <1>1 DEF Checkout, CancelSubscription
<1>4. QED
  BY <1>2, <1>3, OwnKept

\* Payments change as the gateway lets them.
LEMMA PayChange ==
  ASSUME SubscriptionsAssumption, TypeInv, OwnInv, sub' = sub, rows' = rows, NEW p \in Payment,
         NEW r \in PayRow, pay' = [pay EXCEPT ![p] = r],
         r.status # "none" => r.for \in Created,
         pay[p].status # "none" => r.status # "none" /\ r.for = pay[p].for /\ r.pref = pay[p].pref,
         Paid(p, pay) => r.status \in {"approved", "refunded"}
  PROVE  Grows /\ PayOwn' /\ SubOwn' /\ RowsOwn'
<1>1. pay'[p] = r /\ \A q \in Payment : q # p => pay'[q] = pay[q]
  BY DEF TypeInv, TypeOK
<1>2. Grows
  BY <1>1 DEF Grows, Known, Paid
<1>3. PayOwn'
  BY <1>1 DEF OwnInv, PayOwn, Known, Created, Exists
<1>4. \A q \in Payment, s \in Sub : Owned(q, s, pay) => Owned(q, s, pay')
  BY <1>2 DEF Grows, Owned, ToldIn
<1>5. SubOwn'
  <2>1. \A s \in Sub : sub[s].mp # None => (Owned(sub[s].mp, s, pay') /\ rows[sub[s].mp] # <<>>)
    BY <1>4 DEF OwnInv, SubOwn, Owned, ToldIn
  <2>2. \A s \in Sub : sub[s].status = "ACTIVE" => \E q \in Payment : Paid(q, pay') /\ Owned(q, s, pay')
    BY <1>2, <1>4 DEF OwnInv, SubOwn, Grows
  <2>3. QED
    BY <2>1, <2>2 DEF SubOwn, Owned, ToldIn, Known, Paid
<1>6. RowsOwn'
  BY <1>2 DEF OwnInv, RowsOwn, Grows, Owned, ToldIn, Known
<1>7. QED
  BY <1>2, <1>3, <1>5, <1>6

\* A payment whose status changes.
LEMMA StatusOwn ==
  ASSUME SubscriptionsAssumption, TypeInv, OwnInv, sub' = sub, rows' = rows, NEW p \in Payment,
         NEW st \in PayStatus, pay' = [pay EXCEPT ![p].status = st], pay[p].status # "none", st # "none",
         Paid(p, pay) => st \in {"approved", "refunded"}
  PROVE  Grows /\ PayOwn' /\ SubOwn' /\ RowsOwn'
<1> DEFINE r == [pay[p] EXCEPT !.status = st]
<1>1. r \in PayRow /\ r.status = st /\ r.for = pay[p].for /\ r.pref = pay[p].pref
  <2>1. pay[p] \in PayRow
    BY DEF TypeInv, TypeOK
  <2>2. QED
    BY <2>1 DEF PayRow
<1>2. pay' = [pay EXCEPT ![p] = r]
  OBVIOUS
<1>3. pay[p].for \in Created
  BY DEF OwnInv, PayOwn, Known
<1>4. QED
  BY <1>1, <1>2, <1>3, PayChange

\* A new payment is nobody's yet, and for a subscription that exists.
LEMMA NewPaymentOwn ==
  ASSUME SubscriptionsAssumption, TypeInv, OwnInv, sub' = sub, rows' = rows, NEW p \in Payment,
         NEW s \in Sub, NEW pref \in BOOLEAN, NewPayment(p, s, pref)
  PROVE  /\ Grows /\ PayOwn' /\ SubOwn' /\ RowsOwn'
         /\ Known(p, pay') /\ pay'[p].pref = pref
<1>1. Newest(Created) \in Created
  BY NewestIn DEF NewPayment, Created, SubscriptionsAssumption
<1>2. PICK u \in Payers(s) :
        pay' = [pay EXCEPT ![p] = [status |-> "pending", for |-> s, pref |-> pref,
                                   made |-> Newest(Created), payer |-> u]]
  BY DEF NewPayment
<1> DEFINE r == [status |-> "pending", for |-> s, pref |-> pref, made |-> Newest(Created), payer |-> u]
<1>3. r \in PayRow
  <2>1. Newest(Created) \in 0..MaxSub
    BY <1>1 DEF Created, Sub, SubscriptionsAssumption
  <2>2. UserOf[s] \in User
    BY DEF SubscriptionsAssumption
  <2>3. u \in User \cup {None}
    BY <2>2 DEF Payers
  <2>4. QED
    BY <2>1, <2>3 DEF PayRow, PayStatus
<1>4. r.status = "pending" /\ r.for = s /\ r.pref = pref
  OBVIOUS
<1>5. pay[p].status = "none" /\ ~Paid(p, pay) /\ s \in Created /\ pay' = [pay EXCEPT ![p] = r]
  BY <1>2 DEF NewPayment, Paid, Created
<1>6. pay'[p] = r
  BY <1>5 DEF TypeInv, TypeOK
<1> HIDE DEF r
<1>7. Known(p, pay') /\ pay'[p].pref = pref
  BY <1>4, <1>6 DEF Known
<1>8. QED
  BY <1>3, <1>4, <1>5, <1>7, PayChange

\* The steps of the gateway.
LEMMA GatewayOwn ==
  ASSUME SubscriptionsAssumption, TypeInv, OwnInv, GatewayStep
  PROVE  OwnInv'
<1>1. PICK p \in Payment : Decide(p) \/ GatewayRefund(p) \/ \E s \in Sub : Pay(p, s)
  BY DEF GatewayStep
<1>2. Grows /\ PayOwn' /\ SubOwn' /\ RowsOwn'
  <2>1. CASE Decide(p)
    <3>1. PICK st \in {"approved", "rejected", "cancelled"} : pay' = [pay EXCEPT ![p].status = st]
      BY <2>1 DEF Decide
    <3>2. pay[p].status = "pending" /\ ~Paid(p, pay) /\ st \in PayStatus /\ st # "none"
      BY <2>1 DEF Decide, Paid, PayStatus
    <3>3. QED
      BY <2>1, <3>1, <3>2, StatusOwn DEF Decide
  <2>2. CASE GatewayRefund(p)
    <3>1. "refunded" \in PayStatus
      BY DEF PayStatus
    <3>2. QED
      BY <2>2, <3>1, StatusOwn DEF GatewayRefund
  <2>3. CASE \E s \in Sub : Pay(p, s)
    <3>1. PICK s \in Sub : Pay(p, s)
      BY <2>3
    <3>2. QED
      BY <3>1, NewPaymentOwn DEF Pay
  <2>4. QED
    BY <1>1, <2>1, <2>2, <2>3
<1>3. call' = call /\ sync' = sync
  BY <1>1 DEF Decide, GatewayRefund, Pay
<1>4. QED
  BY <1>2, <1>3, OwnKept

\* A request moves: the tables are as they must be, and so is its new record.
LEMMA CallBecomes ==
  ASSUME TypeInv, OwnInv, Grows, PayOwn', SubOwn', RowsOwn', sync' = sync,
         NEW w \in Worker, NEW c, Becomes(w, c), CallOwn(c, pay', rows')
  PROVE  OwnInv'
<1>1. \A v \in Worker : call'[v] = call[v] \/ CallOwn(call'[v], pay', rows')
  BY DEF Becomes, TypeInv, TypeOK
<1>2. QED
  BY <1>1, OwnKept

\* A call that is over owns nothing.
LEMMA CallReturned ==
  ASSUME TypeInv, OwnInv, Grows, PayOwn', SubOwn', RowsOwn', sync' = sync,
         NEW w \in Worker, Return(w)
  PROVE  OwnInv'
<1>1. CallOwn(NoCall, pay', rows')
  BY DEF NoCall, CallOwn
<1>2. QED
  BY <1>1, CallBecomes DEF Return

\* A request that only grants or takes access relies on nothing.
LEMMA CallLast ==
  ASSUME TypeInv, OwnInv, Grows, PayOwn', SubOwn', RowsOwn', sync' = sync, NEW w \in Worker,
         NEW ph \in {"cancel", "user", "role", "grant", "refundSub", "refundUser", "refundRole"},
         Goes(w, ph) \/ Access(w, ph)
  PROVE  OwnInv'
<1>1. CASE Goes(w, ph)
  <2> DEFINE c == [call[w] EXCEPT !.phase = ph]
  <2>1. c.phase = ph
    BY DEF TypeInv, TypeOK, Call
  <2>2. CallOwn(c, pay', rows')
    BY <2>1 DEF CallOwn
  <2>3. Becomes(w, c)
    BY <1>1 DEF Goes, Becomes
  <2>4. QED
    BY <2>2, <2>3, CallBecomes
<1>2. CASE Access(w, ph)
  <2> DEFINE c == [NoCall EXCEPT !.phase = ph, !.s = call[w].s]
  <2>1. CallOwn(c, pay', rows')
    BY DEF NoCall, CallOwn
  <2>2. QED
    BY <1>2, <2>1, CallBecomes DEF Access
<1>3. QED
  BY <1>1, <1>2

\* The steps of a request.
LEMMA RequestOwn ==
  ASSUME SubscriptionsAssumption, TypeInv, OwnInv, NEW w \in Worker, Request(w)
  PROVE  OwnInv'
<1>1. PICK p \in Payment : Notify(w, p) \/ Refund(w, p) \/ \E s \in Sub : Pix(w, p, s)
  BY DEF Request
<1>2. CASE Notify(w, p)
  <2> DEFINE c == [NoCall EXCEPT !.phase = "find", !.p = p, !.status = pay[p].status]
  <2>1. CallOwn(c, pay', rows')
    BY <1>2 DEF Notify, NoCall, CallOwn, Known, Paid
  <2>2. QED
    BY <1>2, <2>1, TablesSame, CallBecomes DEF Notify
<1>3. CASE Refund(w, p)
  <2> DEFINE c == [NoCall EXCEPT !.phase = "refundRow", !.kind = "refund", !.p = p, !.s = rows[p][1].sub]
  <2>1. CallOwn(c, pay', rows')
    BY DEF NoCall, CallOwn
  <2>2. Grows /\ PayOwn' /\ SubOwn' /\ RowsOwn'
    <3>1. "refunded" \in PayStatus
      BY DEF PayStatus
    <3>2. QED
      BY <1>3, <3>1, StatusOwn DEF Refund
  <2>3. QED
    BY <1>3, <2>1, <2>2, CallBecomes DEF Refund
<1>4. CASE \E s \in Sub : Pix(w, p, s)
  <2>1. PICK s \in Sub : Pix(w, p, s)
    BY <1>4
  <2>2. NewPayment(p, s, FALSE) /\ sub' = sub /\ rows' = rows /\ sync' = sync
    BY <2>1 DEF Pix
  <2>3. /\ Grows /\ PayOwn' /\ SubOwn' /\ RowsOwn'
        /\ Known(p, pay') /\ ~pay'[p].pref
    BY <2>2, NewPaymentOwn
  <2>4. PICK named \in {s, 0} :
          Becomes(w, [NoCall EXCEPT !.phase = "row", !.kind = "pix", !.p = p, !.s = named,
                                    !.status = "pending"])
    BY <2>1 DEF Pix
  <2> DEFINE c == [NoCall EXCEPT !.phase = "row", !.kind = "pix", !.p = p, !.s = named, !.status = "pending"]
  <2>5. CallOwn(c, pay', rows')
    BY <2>3 DEF NoCall, CallOwn, Owned, ToldIn
  <2>6. QED
    BY <2>2, <2>3, <2>4, <2>5, CallBecomes
<1>5. QED
  BY <1>1, <1>2, <1>3, <1>4

\* The key of a payment finds the subscription it is for, and no other.
LEMMA KeyOwn ==
  ASSUME TypeInv, OwnInv, NEW p \in Payment, Known(p, pay)
  PROVE  /\ ByKey(p) = {} => ~ToldIn(p, pay)
         /\ \A s \in ByKey(p) : s \in Sub /\ Owned(p, s, pay)
<1>1. pay[p].for \in Created
  BY DEF OwnInv, PayOwn
<1>2. \A s \in Created : sub[s].mp = p => Owned(p, s, pay)
  BY SubscriptionsAssumption DEF SubscriptionsAssumption, Created, OwnInv, SubOwn
<1>3. ASSUME NEW s \in ByKey(p) PROVE s \in Sub /\ Owned(p, s, pay)
  <2>1. s \in Created /\ (sub[s].mp = p \/ pay[p].for = s)
    BY DEF ByKey
  <2>2. QED
    BY <1>2, <2>1 DEF Owned, Created
<1>4. Told(p) = ToldIn(p, pay)
  BY DEF Told, ToldIn
<1>5. Told(p) => pay[p].for \in ByKey(p)
  BY <1>1 DEF ByKey
<1>6. QED
  BY <1>3, <1>4, <1>5

\* The search ends with a subscription that may be the payment's.
LEMMA FoundOwn ==
  ASSUME TypeInv, OwnInv, NEW w \in Worker, NEW s \in Sub, FoundSub(w, s),
         call[w].phase \in {"find", "payer", "any"}, Owned(call[w].p, s, pay),
         UNCHANGED <<pay, sub, rows, sync>>
  PROVE  OwnInv'
<1>1. call[w] \in Call /\ CallOK(call[w]) /\ CallOwn(call[w], pay, rows)
  BY DEF TypeInv, TypeOK, OwnInv
<1> DEFINE c == [call[w] EXCEPT !.phase = "row", !.s = s, !.mp = sub[s].mp]
<1>2. c.phase = "row" /\ c.s = s /\ c.p = call[w].p /\ c.status = call[w].status
  BY <1>1 DEF Call
<1>3. CallOwn(c, pay', rows')
  BY <1>1, <1>2 DEF CallOwn, Owned, ToldIn, Known, Paid
<1>4. QED
  BY <1>3, TablesSame, CallBecomes DEF FoundSub

\* The search goes on without the key, which was not told.
LEMMA SearchOwn ==
  ASSUME TypeInv, OwnInv, NEW w \in Worker, NEW ph \in {"payer", "any"}, Goes(w, ph),
         call[w].phase \in {"find", "payer"}, ~ToldIn(call[w].p, pay),
         UNCHANGED <<pay, sub, rows, sync>>
  PROVE  OwnInv'
<1>1. call[w] \in Call /\ CallOK(call[w]) /\ CallOwn(call[w], pay, rows)
  BY DEF TypeInv, TypeOK, OwnInv
<1> DEFINE c == [call[w] EXCEPT !.phase = ph]
<1>2. c.phase = ph /\ c.p = call[w].p /\ c.status = call[w].status
  BY <1>1 DEF Call
<1>3. CallOwn(c, pay', rows')
  BY <1>1, <1>2 DEF CallOwn, ToldIn, Known, Paid
<1>4. Becomes(w, c)
  BY DEF Goes, Becomes
<1>5. QED
  BY <1>3, <1>4, TablesSame, CallBecomes

\* The steps that link a payment to its subscription.
LEMMA LinkOwn ==
  ASSUME SubscriptionsAssumption, TypeInv, OwnInv, NEW w \in Worker, LinkStep(w)
  PROVE  OwnInv'
<1>1. call[w] \in Call /\ CallOK(call[w]) /\ CallOwn(call[w], pay, rows)
  BY DEF TypeInv, TypeOK, OwnInv
<1>2. CASE FindSub(w)
  <2>1. call[w].p \in Payment /\ Known(call[w].p, pay)
        /\ (call[w].status = "approved" => Paid(call[w].p, pay))
    BY <1>1, <1>2 DEF FindSub, CallOK, CallOwn
  <2>2. UNCHANGED <<pay, sub, rows, sync>>
    BY <1>2 DEF FindSub
  <2>3. CASE \E s \in ByKey(call[w].p) : FoundSub(w, s)
    BY <1>2, <2>1, <2>2, <2>3, KeyOwn, FoundOwn DEF FindSub
  <2>4. CASE ByKey(call[w].p) = {} /\ Goes(w, "payer")
    BY <1>2, <2>1, <2>2, <2>4, KeyOwn, SearchOwn DEF FindSub
  <2>5. QED
    BY <1>2, <2>3, <2>4 DEF FindSub
<1>3. CASE FindByPayer(w) \/ FindByAmount(w)
  <2>1. /\ call[w].phase \in {"payer", "any"} /\ call[w].p \in Payment /\ Known(call[w].p, pay)
        /\ ~ToldIn(call[w].p, pay)
    BY <1>1, <1>3 DEF FindByPayer, FindByAmount, CallOK, CallOwn
  <2>2. \A s : Owned(call[w].p, s, pay)
    BY <2>1 DEF Owned
  <2>3. UNCHANGED <<pay, sub, rows, sync>>
    BY <1>3 DEF FindByPayer, FindByAmount
  <2>4. CASE FindByPayer(w)
    BY <2>1, <2>2, <2>3, <2>4, PickType, FoundOwn, SearchOwn DEF FindByPayer
  <2>5. CASE FindByAmount(w)
    BY <2>1, <2>2, <2>3, <2>5, PickType, FoundOwn, TablesSame, CallReturned DEF FindByAmount
  <2>6. QED
    BY <1>3, <2>4, <2>5
<1>4. CASE FindRow(w)
  <2> DEFINE c == [call[w] EXCEPT !.phase = "write", !.found = rows[call[w].p] # <<>>]
  <2>1. /\ c.phase = "write" /\ c.s = call[w].s /\ c.p = call[w].p /\ c.status = call[w].status
        /\ c.found <=> rows[call[w].p] # <<>>
    BY <1>1 DEF Call
  <2>2. CallOwn(c, pay', rows')
    BY <1>1, <1>4, <2>1 DEF FindRow, CallOwn, Owned, ToldIn, Known, Paid
  <2>3. QED
    BY <1>4, <2>2, TablesSame, CallBecomes DEF FindRow
<1>5. CASE WriteRow(w)
  <2>1. /\ call[w].p \in Payment /\ call[w].s \in Sub \cup {0} /\ call[w].status \in PayStatus
        /\ Owned(call[w].p, call[w].s, pay) /\ (call[w].found => rows[call[w].p] # <<>>)
    BY <1>1, <1>5 DEF WriteRow, CallOK, CallOwn, Call
  <2>2. Owned(call[w].p, call[w].s, pay) /\ (call[w].status = "approved" => Paid(call[w].p, pay))
    BY <1>1, <1>5 DEF WriteRow, CallOwn
  <2>3. Grows /\ PayOwn' /\ SubOwn' /\ RowsOwn'
    BY <1>5, <2>1, <2>2, NewRowOwn, SetRowOwn DEF WriteRow
  <2>4. rows'[call[w].p] # <<>>
    BY <1>1, <1>5, <2>1, <2>2, <2>3, NewRowOwn DEF WriteRow, Grows, CallOwn
  <2> DEFINE c == [call[w] EXCEPT !.phase = "link", !.kind = "notify", !.found = FALSE]
  <2>5. c.phase = "link" /\ c.s = call[w].s /\ c.p = call[w].p /\ c.status = call[w].status
    BY <1>1 DEF Call
  <2>6. CallOwn(c, pay', rows')
    BY <1>5, <2>2, <2>4, <2>5 DEF WriteRow, CallOwn, Owned, ToldIn, Known, Paid
  <2>7. QED
    BY <1>5, <2>3, <2>6, CallBecomes, CallReturned DEF WriteRow
<1>6. CASE LinkPayment(w)
  <2>1. /\ call[w].p \in Payment /\ call[w].s \in Sub
        /\ Owned(call[w].p, call[w].s, pay) /\ rows[call[w].p] # <<>>
    BY <1>1, <1>6 DEF LinkPayment, CallOK, CallOwn
  <2>2. Grows /\ PayOwn' /\ SubOwn' /\ RowsOwn'
    <3> DEFINE r == [sub[call[w].s] EXCEPT !.mp = IF call[w].mp # call[w].p THEN call[w].p ELSE sub[call[w].s].mp]
    <3>1. sub[call[w].s] \in SubRow
      BY <2>1 DEF TypeInv, TypeOK
    <3>2. /\ r \in SubRow /\ r.status = sub[call[w].s].status
          /\ r.mp = sub[call[w].s].mp \/ r.mp = call[w].p
      BY <2>1, <3>1 DEF SubRow
    <3>3. sub' = [sub EXCEPT ![call[w].s] = r]
      BY <1>6 DEF LinkPayment
    <3>4. r.status = "NONE" => sub[call[w].s].status = "NONE"
      BY <3>2
    <3>5. r.mp = sub[call[w].s].mp \/ (Owned(r.mp, call[w].s, pay) /\ rows[r.mp] # <<>>)
      BY <2>1, <3>2
    <3> HIDE DEF r
    <3>6. pay' = pay /\ rows' = rows
      BY <1>6 DEF LinkPayment
    <3>7. r.status = "ACTIVE" => sub[call[w].s].status = "ACTIVE"
      BY <3>2
    <3>8. QED
      BY <2>1, <3>2, <3>3, <3>4, <3>5, <3>6, <3>7, SubChange
  <2> DEFINE c == [call[w] EXCEPT !.phase = "activate", !.mp = None]
  <2>3. c.phase = "activate" /\ c.s = call[w].s /\ c.p = call[w].p /\ c.status = call[w].status
    BY <1>1 DEF Call
  <2>4. call[w].status = "approved" => CallOwn(c, pay', rows')
    BY <1>1, <1>6, <2>1, <2>3 DEF LinkPayment, CallOwn, Owned, ToldIn, Known, Paid
  <2>5. QED
    BY <1>6, <2>2, <2>4, CallBecomes, CallReturned, CallLast DEF LinkPayment
<1>7. QED
  BY <1>2, <1>3, <1>4, <1>5, <1>6 DEF LinkStep

\* The steps that give access, or take it.
LEMMA AccessOwn ==
  ASSUME SubscriptionsAssumption, TypeInv, OwnInv, NEW w \in Worker, AccessStep(w) \/ RefundStep(w)
  PROVE  OwnInv'
<1>1. call[w] \in Call /\ CallOK(call[w]) /\ CallOwn(call[w], pay, rows)
  BY DEF TypeInv, TypeOK, OwnInv
<1>2. CASE Activate(w)
  <2>1. /\ call[w].p \in Payment /\ call[w].s \in Sub /\ Owned(call[w].p, call[w].s, pay)
        /\ Paid(call[w].p, pay) /\ rows[call[w].p] # <<>>
    BY <1>1, <1>2 DEF Activate, CallOK, CallOwn
  <2> DEFINE r == [status |-> "ACTIVE", mp |-> call[w].p]
  <2>2. r \in SubRow /\ r.status = "ACTIVE" /\ r.mp = call[w].p
    BY <2>1 DEF SubRow, SubStatus
  <2>3. sub' = [sub EXCEPT ![call[w].s] = r]
    BY <1>2 DEF Activate
  <2>4. Grows /\ PayOwn' /\ SubOwn' /\ RowsOwn'
    BY <1>2, <2>1, <2>2, <2>3, SubChange DEF Activate
  <2>5. QED
    BY <1>2, <2>4, CallLast DEF Activate
<1>3. CASE ActivateUser(w) \/ RefundUser(w)
  BY <1>3, TablesSame, CallLast DEF ActivateUser, RefundUser
<1>4. CASE FindRole(w)
  BY <1>4, TablesSame, CallLast, CallReturned DEF FindRole
<1>5. CASE GrantRole(w) \/ RefundRole(w)
  BY <1>5, TablesSame, CallReturned DEF GrantRole, RefundRole
<1>6. CASE CancelSub(w)
  <2>1. call[w].s \in Sub
    BY <1>1, <1>6 DEF CancelSub, CallOK
  <2>2. QED
    BY <1>6, <2>1, CancelledOwn, CallReturned DEF CancelSub
<1>7. CASE RefundSub(w)
  <2>1. call[w].s \in Sub
    BY <1>1, <1>7 DEF RefundSub, CallOK
  <2>2. QED
    BY <1>7, <2>1, CancelledOwn, CallLast DEF RefundSub
<1>8. CASE RefundRow(w)
  <2>1. call[w].p \in Payment /\ "refunded" \in PayStatus
    BY <1>1, <1>8 DEF RefundRow, CallOK, PayStatus
  <2>2. Grows /\ PayOwn' /\ SubOwn' /\ RowsOwn'
    BY <1>8, <2>1, SetRowOwn DEF RefundRow
  <2>3. QED
    BY <1>8, <2>2, CallLast, CallReturned DEF RefundRow
<1>9. QED
  BY <1>2, <1>3, <1>4, <1>5, <1>6, <1>7, <1>8 DEF AccessStep, RefundStep

\* A process that dies forgets what it read.
LEMMA CrashOwn ==
  ASSUME TypeInv, OwnInv, (\E w \in Worker : Crash(w)) \/ SyncCrash
  PROVE  OwnInv'
<1>1. CASE \E w \in Worker : Crash(w)
  BY <1>1, TablesSame, CallReturned DEF Crash
<1>2. CASE SyncCrash
  <2>1. SyncOwn(NoSync, pay', rows')
    BY DEF NoSync, SyncOwn
  <2>2. QED
    BY <1>2, <2>1, TablesSame, OwnKept DEF SyncCrash
<1>3. QED
  BY <1>1, <1>2

\* What the job holds stays true of the tables a step leaves.
LEMMA SyncStays ==
  ASSUME TypeInv, OwnInv, Grows
  PROVE  SyncOwn(sync, pay', rows') /\ sync \in Sync /\ SyncOK(sync) /\ SyncOwn(sync, pay, rows)
<1>1. sync \in Sync /\ SyncOK(sync) /\ SyncOwn(sync, pay, rows)
  BY DEF TypeInv, TypeOK, OwnInv
<1>2. QED
  BY <1>1, SyncKept

\* The synchronization goes on to its next payment.
LEMMA NextOwn ==
  ASSUME TypeInv, OwnInv, Grows, NextItem
  PROVE  SyncOwn(sync', pay', rows')
<1>1. SyncOwn(sync, pay', rows') /\ sync \in Sync
  BY SyncStays
<1>2. /\ sync'.part = sync.part /\ sync'.todo = sync.todo /\ sync'.orders = sync.orders
      /\ sync'.phase = "next" /\ (sync.orders # {} => sync'.item = sync.item)
  BY <1>1 DEF NextItem, Sync
<1>3. QED
  BY <1>1, <1>2 DEF SyncOwn

\* The synchronization goes on with its payment.
LEMMA LastOwn ==
  ASSUME TypeInv, OwnInv, Grows, NEW ph \in {"deactivate", "unrole", "row", "user", "role", "grant"},
         SyncGoes(ph)
  PROVE  SyncOwn(sync', pay', rows')
<1>1. SyncOwn(sync, pay', rows') /\ sync \in Sync
  BY SyncStays
<1>2. /\ sync'.part = sync.part /\ sync'.todo = sync.todo /\ sync'.orders = sync.orders
      /\ sync'.phase = ph /\ sync'.item = sync.item
  BY <1>1 DEF SyncGoes, Sync
<1>3. QED
  BY <1>1, <1>2 DEF SyncOwn

\* The synchronization is done with a payment.
LEMMA DropOwn ==
  ASSUME TypeInv, OwnInv, Grows, NEW item \in sync.todo, Drop(item)
  PROVE  SyncOwn(sync', pay', rows')
<1>1. SyncOwn(sync, pay', rows') /\ sync \in Sync
  BY SyncStays
<1>2. /\ sync'.part = sync.part /\ sync'.todo \subseteq sync.todo /\ sync'.orders = sync.orders
      /\ sync'.phase = sync.phase /\ sync'.item = sync.item /\ sync'.p = sync.p
      /\ sync'.status = sync.status /\ sync'.found = sync.found
  BY <1>1 DEF Drop, Sync
<1>3. QED
  BY <1>1, <1>2 DEF SyncOwn

\* Processing a payment begins or goes on with one that is approved and recorded.
LEMMA ProcessOwn ==
  ASSUME TypeInv, OwnInv, Grows, NEW ph \in {"process", "activate"}, SyncGoes(ph),
         Owned(sync.p, sync.item.s, pay), Paid(sync.p, pay), rows'[sync.p] # <<>>
  PROVE  SyncOwn(sync', pay', rows')
<1>1. SyncOwn(sync, pay', rows') /\ sync \in Sync
  BY SyncStays
<1>2. /\ sync'.part = sync.part /\ sync'.todo = sync.todo /\ sync'.orders = sync.orders
      /\ sync'.phase = ph /\ sync'.item = sync.item /\ sync'.p = sync.p
  BY <1>1 DEF SyncGoes, Sync
<1>3. Owned(sync.p, sync.item.s, pay') /\ Paid(sync.p, pay')
  BY DEF Grows, Owned, ToldIn
<1>4. QED
  BY <1>1, <1>2, <1>3 DEF SyncOwn

\* An entry fails, and the list goes on as it was.
LEMMA FailsOwn ==
  ASSUME TypeInv, OwnInv, EntryFails
  PROVE  OwnInv'
<1>1. Grows /\ PayOwn' /\ SubOwn' /\ RowsOwn' /\ call' = call
  BY TablesSame DEF EntryFails
<1>2. CASE \E item \in sync.todo : Drop(item)
  BY <1>1, <1>2, DropOwn, OwnKept
<1>3. CASE Lists(sync.part, sync.todo)
  <2>1. SyncOwn(sync, pay', rows')
    BY <1>1, SyncStays
  <2>2. /\ sync'.part = sync.part /\ sync'.todo = sync.todo /\ sync'.orders = {} /\ sync'.phase = "next"
    BY <1>3 DEF Lists, NoSync
  <2>3. SyncOwn(sync', pay', rows')
    BY <2>1, <2>2 DEF SyncOwn
  <2>4. QED
    BY <1>1, <2>3, OwnKept
<1>4. QED
  BY <1>2, <1>3 DEF EntryFails

\* The synchronization imports a payment.
LEMMA ImportOwn ==
  ASSUME SubscriptionsAssumption, TypeInv, OwnInv, ImportStep
  PROVE  OwnInv'
<1>1. sync \in Sync /\ SyncOK(sync) /\ SyncOwn(sync, pay, rows)
  BY DEF TypeInv, TypeOK, OwnInv
<1>2. CASE ListPayments
  <2>0. PICK listed \in SUBSET Existing :
          Lists("import", {[NoItem EXCEPT !.p = p, !.status = pay[p].status] : p \in listed})
    BY <1>2, Zenon DEF ListPayments
  <2> DEFINE todo == {[NoItem EXCEPT !.p = p, !.status = pay[p].status] : p \in listed}
  <2>1. \A t \in todo : Known(t.p, pay) /\ (t.status = "approved" => Paid(t.p, pay))
    <3>1. ASSUME NEW p \in listed
          PROVE  LET t == [NoItem EXCEPT !.p = p, !.status = pay[p].status]
                 IN  Known(t.p, pay) /\ (t.status = "approved" => Paid(t.p, pay))
      BY DEF Existing, NoItem, Known, Paid
    <3>2. QED
      BY <3>1, Zenon
  <2>9. UNCHANGED <<pay, sub, rows, call>>
    BY <1>2, Zenon DEF ListPayments
  <2>2. pay' = pay /\ sync' = [NoSync EXCEPT !.part = "import", !.todo = todo]
    BY <2>0, <2>9, Zenon DEF Lists
  <2>3. /\ sync'.part = "import" /\ sync'.todo = todo /\ sync'.orders = {} /\ sync'.phase = "next"
    BY <2>2 DEF NoSync
  <2> HIDE DEF todo
  <2>4. SyncOwn(sync', pay', rows')
    BY <2>1, <2>2, <2>3 DEF SyncOwn, Known, Paid
  <2>5. QED
    BY <2>4, <2>9, TablesSame, OwnKept
<1>3. CASE ImportRow
  <2>1. /\ sync.p \in Payment /\ sync.item.s \in Sub /\ sync.status \in PayStatus
        /\ Owned(sync.p, sync.item.s, pay) /\ (sync.status = "approved" => Paid(sync.p, pay))
    BY <1>1, <1>3 DEF ImportRow, SyncOK, Sync, SyncOwn
  <2>2. Grows /\ PayOwn' /\ SubOwn' /\ RowsOwn' /\ rows'[sync.p] # <<>>
    BY <1>3, <2>1, NewRowOwn DEF ImportRow
  <2>3. SyncOwn(sync', pay', rows')
    BY <1>3, <2>1, <2>2, NextOwn, ProcessOwn DEF ImportRow, ProcessIf
  <2>4. QED
    BY <1>3, <2>2, <2>3, OwnKept DEF ImportRow
<1>4. CASE \E item \in sync.todo : ImportKnown(item)
  <2>1. PICK item \in sync.todo : ImportKnown(item)
    BY <1>4
  <2>2. item.p \in Payment /\ item.status \in PayStatus
    BY <2>1, TakenType DEF ImportKnown, Between
  <2>3. Grows /\ PayOwn' /\ SubOwn' /\ RowsOwn'
    BY <2>1, <2>2, SetRowOwn DEF ImportKnown
  <2>4. QED
    BY <2>1, <2>3, DropOwn, OwnKept DEF ImportKnown
<1>5. CASE \E item \in sync.todo : ImportFind(item)
  <2>1. PICK item \in sync.todo : ImportFind(item)
    BY <1>5
  <2>2. /\ item.p \in Payment /\ item.status \in PayStatus /\ Known(item.p, pay)
        /\ (item.status = "approved" => Paid(item.p, pay))
    BY <1>1, <2>1, TakenType DEF ImportFind, Between, SyncOwn
  <2>3. Owned(item.p, ImportSub(item.p), pay)
    BY <2>2 DEF ImportSub, Told, Owned, ToldIn
  <2>4. Grows /\ PayOwn' /\ SubOwn' /\ RowsOwn' /\ pay' = pay /\ rows' = rows
    BY <2>1, TablesSame DEF ImportFind
  <2> DEFINE y == [sync EXCEPT !.todo = sync.todo \ {item}, !.phase = "create", !.p = item.p,
                     !.item = [NoItem EXCEPT !.s = ImportSub(item.p)], !.status = item.status]
  <2>5. SyncOwn(y, pay', rows')
    <3>1. /\ y.part = "import" /\ y.todo \subseteq sync.todo /\ y.orders = {} /\ y.phase = "create"
          /\ y.p = item.p /\ y.status = item.status /\ y.item.s = ImportSub(item.p)
      BY <1>1, <2>1 DEF ImportFind, Between, Sync, NoItem
    <3>2. \A t \in sync.todo : Known(t.p, pay) /\ (t.status = "approved" => Paid(t.p, pay))
      BY <1>1, <2>1 DEF ImportFind, Between, SyncOwn
    <3> HIDE DEF y
    <3>3. QED
      BY <2>2, <2>3, <2>4, <3>1, <3>2 DEF SyncOwn, Known, Paid, Owned, ToldIn
  <2>6. SyncOwn(sync', pay', rows')
    BY <2>1, <2>4, <2>5, DropOwn DEF ImportFind
  <2>7. QED
    BY <2>1, <2>4, <2>6, OwnKept DEF ImportFind
<1>6. QED
  BY <1>2, <1>3, <1>4, <1>5 DEF ImportStep

\* The steps of the synchronization that write the rows of payments.
LEMMA RowsOwnStep ==
  ASSUME SubscriptionsAssumption, TypeInv, OwnInv, RowsStep
  PROVE  OwnInv'
<1>1. sync \in Sync /\ SyncOK(sync) /\ SyncOwn(sync, pay, rows)
  BY DEF TypeInv, TypeOK, OwnInv
<1>2. CASE ListRows
  <2> DEFINE entry(p, i) == [p |-> p, i |-> i, s |-> rows[p][i].sub, status |-> rows[p][i].status,
                             was |-> StatusOf(rows[p][i].sub)]
             todo == UNION {{entry(p, i) : i \in DOMAIN rows[p]} : p \in Payment}
  <2>1. ASSUME NEW p \in Payment, NEW i \in DOMAIN rows[p]
        PROVE  Owned(entry(p, i).p, entry(p, i).s, pay) /\ rows[entry(p, i).p] # <<>>
    <3>1. rows[p] \in Seq(Row) /\ i \in Nat /\ rows[p] # <<>>
      BY DEF TypeInv, TypeOK
    <3>2. QED
      BY <3>1 DEF OwnInv, RowsOwn
  <2>2. \A t \in todo : \E p \in Payment : \E i \in DOMAIN rows[p] : t = entry(p, i)
    OBVIOUS
  <2>3. pay' = pay /\ rows' = rows /\ sync' = [NoSync EXCEPT !.part = "rows", !.todo = todo]
    BY <1>2 DEF ListRows, Lists
  <2>4. /\ sync'.part = "rows" /\ sync'.todo = todo /\ sync'.orders = {} /\ sync'.phase = "next"
    BY <2>3 DEF NoSync
  <2> HIDE DEF entry
  <2>5. \A t \in todo : Owned(t.p, t.s, pay) /\ rows[t.p] # <<>>
    BY <2>1, <2>2
  <2> HIDE DEF todo
  <2>6. SyncOwn(sync', pay', rows')
    BY <2>3, <2>4, <2>5 DEF SyncOwn, Owned, ToldIn, Known
  <2>7. QED
    BY <1>2, <2>6, TablesSame, OwnKept DEF ListRows
<1>3. CASE Deactivate
  <2>1. sync.item.s \in Sub
    BY <1>1, <1>3 DEF Deactivate, SyncOK
  <2>2. Grows /\ PayOwn' /\ SubOwn' /\ RowsOwn'
    BY <1>3, <2>1, CancelledOwn DEF Deactivate
  <2>3. QED
    BY <1>3, <2>2, LastOwn, OwnKept DEF Deactivate
<1>4. CASE RemoveRole
  BY <1>4, TablesSame, NextOwn, OwnKept DEF RemoveRole
<1>5. CASE \E item \in sync.todo : RefreshRow(item)
  <2>1. PICK item \in sync.todo : RefreshRow(item)
    BY <1>5
  <2>2. /\ item.p \in Payment /\ item.i \in Nat
        /\ Owned(item.p, item.s, pay) /\ rows[item.p] # <<>>
    BY <1>1, <2>1, TakenType DEF RefreshRow, Between, Item, SyncOwn
  <2> DEFINE new == DbStatus[pay[item.p].status]
  <2>3. new \in RowStatus /\ (new = "APPROVED" => Paid(item.p, pay))
    BY <2>2 DEF TypeInv, TypeOK, PayRow, PayStatus, DbStatus, RowStatus, Paid
  <2>4. rows' = rows \/ rows' = [rows EXCEPT ![item.p][item.i].status = new]
    BY <2>1 DEF RefreshRow
  <2>5. pay' = pay /\ sub' = sub /\ call' = call
    BY <2>1 DEF RefreshRow
  <2>6. Grows /\ PayOwn' /\ SubOwn' /\ RowsOwn'
    <3>1. rows \in [Payment -> Seq(Row)]
      BY DEF TypeInv, TypeOK
    <3>2. CASE rows' = rows
      BY <2>5, <3>2, TablesSame
    <3>3. CASE rows' = [rows EXCEPT ![item.p][item.i].status = new]
      BY <2>2, <2>3, <2>5, <3>1, <3>3, StatusType, SameRowsOwn
    <3>4. QED
      BY <2>4, <3>2, <3>3
  <2>7. ASSUME NEW after \in {"process", "deactivate"}, after = "process" => new = "APPROVED",
               sync' = [sync EXCEPT !.todo = sync.todo \ {item}, !.item = [NoItem EXCEPT !.s = item.s],
                                    !.p = item.p, !.phase = after]
        PROVE  SyncOwn(sync', pay', rows')
    <3>1. /\ sync'.part = "rows" /\ sync'.todo \subseteq sync.todo /\ sync'.orders = {}
          /\ sync'.phase = after /\ sync'.p = item.p /\ sync'.item.s = item.s
      BY <1>1, <2>1, <2>7 DEF RefreshRow, Between, Sync, NoItem
    <3>2. SyncOwn(sync, pay', rows') /\ sync.part = "rows"
      BY <2>1, <2>6, SyncStays DEF RefreshRow, Between
    <3>3. Owned(item.p, item.s, pay') /\ rows'[item.p] # <<>> /\ (after = "process" => Paid(item.p, pay'))
      BY <2>2, <2>3, <2>5, <2>6, <2>7 DEF Owned, ToldIn, Known, Paid, Grows
    <3>4. QED
      BY <2>7, <3>1, <3>2, <3>3 DEF SyncOwn
  <2>8. SyncOwn(sync', pay', rows')
    <3>1. \/ Drop(item)
          \/ \E after \in {"process", "deactivate"} :
               /\ after = "process" => new = "APPROVED"
               /\ sync' = [sync EXCEPT !.todo = sync.todo \ {item}, !.item = [NoItem EXCEPT !.s = item.s],
                                       !.p = item.p, !.phase = after]
      BY <2>1 DEF RefreshRow
    <3>2. QED
      BY <2>6, <2>7, <3>1, DropOwn
  <2>9. QED
    BY <2>5, <2>6, <2>8, OwnKept
<1>6. QED
  BY <1>2, <1>3, <1>4, <1>5 DEF RowsStep

\* The steps of the synchronization that write subscriptions.
LEMMA SubsOwnStep ==
  ASSUME SubscriptionsAssumption, TypeInv, OwnInv, SubsStep
  PROVE  OwnInv'
<1>1. sync \in Sync /\ SyncOK(sync) /\ SyncOwn(sync, pay, rows)
  BY DEF TypeInv, TypeOK, OwnInv
<1>2. CASE ListSubs
  <2> DEFINE entry(s) == [NoItem EXCEPT !.s = s, !.p = sub[s].mp, !.was = sub[s].status]
             held == {s \in Created : sub[s].mp # None}
             todo == {entry(s) : s \in Listed(IF held = {} THEN Created ELSE held) \cup Open}
  <2>1. ASSUME NEW s \in Sub
        PROVE  entry(s).p # None => Owned(entry(s).p, entry(s).s, pay)
    BY DEF NoItem, OwnInv, SubOwn
  <2>2. \A t \in todo : \E s \in Sub : t = entry(s)
    <3>1. \A s \in Listed(IF held = {} THEN Created ELSE held) \cup Open : s \in Sub
      BY Zenon DEF Listed, Created, Open
    <3>2. QED
      BY <3>1, Zenon
  <2>8. UNCHANGED <<pay, sub, rows, call>>
    BY <1>2, Zenon DEF ListSubs
  <2>3. pay' = pay /\ sync' = [NoSync EXCEPT !.part = "subs", !.todo = todo]
    BY <1>2, Zenon DEF ListSubs, Lists
  <2>4. /\ sync'.part = "subs" /\ sync'.todo = todo /\ sync'.orders = {} /\ sync'.phase = "next"
    BY <2>3 DEF NoSync
  <2> HIDE DEF entry
  <2>5. \A t \in todo : t.p # None => Owned(t.p, t.s, pay)
    BY <2>1, <2>2
  <2> HIDE DEF todo
  <2>6. SyncOwn(sync', pay', rows')
    BY <2>3, <2>4, <2>5 DEF SyncOwn, Owned, ToldIn, Known
  <2>7. QED
    BY <2>6, <2>8, TablesSame, OwnKept
<1>3. CASE \E item \in sync.todo : FindOrders(item)
  <2>1. PICK item \in sync.todo : FindOrders(item)
    BY <1>3
  <2> DEFINE orders == {[p |-> p, status |-> pay[p].status] :
                          p \in {q \in Existing : pay[q].pref /\ pay[q].for = item.s}}
  <2>2. \A o \in orders : Owned(o.p, item.s, pay) /\ (o.status = "approved" => Paid(o.p, pay))
    BY DEF Existing, Owned, ToldIn, Known, Paid
  <2>3. sync' = [sync EXCEPT !.todo = sync.todo \ {item}, !.item = item, !.orders = orders]
    BY <2>1 DEF FindOrders
  <2>4. Grows /\ PayOwn' /\ SubOwn' /\ RowsOwn' /\ pay' = pay /\ call' = call
    BY <2>1, TablesSame DEF FindOrders
  <2> HIDE DEF orders
  <2>5. /\ sync'.part = "subs" /\ sync'.todo \subseteq sync.todo /\ sync'.orders = orders
        /\ sync'.phase = "next" /\ sync'.item = item
    BY <1>1, <2>1, <2>3 DEF FindOrders, Between, Sync
  <2>6. SyncOwn(sync', pay', rows')
    <3>1. \A t \in sync.todo : t.p # None => Owned(t.p, t.s, pay)
      BY <1>1, <2>1 DEF FindOrders, Between, SyncOwn
    <3>2. QED
      BY <2>2, <2>4, <2>5, <3>1 DEF SyncOwn, Owned, ToldIn, Known, Paid
  <2>7. QED
    BY <2>4, <2>6, OwnKept
<1>4. CASE \E o \in sync.orders : FindOrderRow(o)
  <2>1. PICK o \in sync.orders : FindOrderRow(o)
    BY <1>4
  <2>2. Owned(o.p, sync.item.s, pay) /\ (o.status = "approved" => Paid(o.p, pay))
    BY <1>1 DEF SyncOwn
  <2>3. Grows /\ PayOwn' /\ SubOwn' /\ RowsOwn' /\ pay' = pay /\ rows' = rows /\ call' = call
    BY <2>1, TablesSame DEF FindOrderRow
  <2>4. /\ sync'.part = sync.part /\ sync'.todo = sync.todo /\ sync'.orders \subseteq sync.orders
        /\ sync'.phase = "orderRow" /\ sync'.p = o.p /\ sync'.status = o.status
        /\ sync'.item = sync.item /\ (sync'.found => rows[o.p] # <<>>)
    BY <1>1, <2>1 DEF FindOrderRow, Sync
  <2>5. SyncOwn(sync', pay', rows')
    BY <1>1, <2>2, <2>3, <2>4 DEF SyncOwn, Owned, ToldIn, Known, Paid
  <2>6. QED
    BY <2>3, <2>5, OwnKept
<1>5. CASE WriteOrderRow
  <2>1. /\ sync.p \in Payment /\ sync.item.s \in Sub /\ sync.status \in PayStatus
        /\ Owned(sync.p, sync.item.s, pay) /\ (sync.found => rows[sync.p] # <<>>)
    BY <1>1, <1>5 DEF WriteOrderRow, SyncOK, Sync, SyncOwn
  <2>2. Grows /\ PayOwn' /\ SubOwn' /\ RowsOwn' /\ rows'[sync.p] # <<>>
    BY <1>5, <2>1, NewRowOwn, TablesSame DEF WriteOrderRow
  <2>3. SyncOwn(sync, pay', rows') /\ sync.phase = "orderRow"
    BY <1>5, <2>2, SyncStays DEF WriteOrderRow
  <2>4. sync' = [sync EXCEPT !.phase = "orderLink"]
    BY <1>5 DEF WriteOrderRow, SyncGoes
  <2>5. /\ sync'.part = sync.part /\ sync'.todo = sync.todo /\ sync'.orders = sync.orders
        /\ sync'.phase = "orderLink" /\ sync'.p = sync.p /\ sync'.status = sync.status
        /\ sync'.item = sync.item
    BY <1>1, <2>4 DEF Sync
  <2>6. SyncOwn(sync', pay', rows')
    BY <2>2, <2>3, <2>5 DEF SyncOwn
  <2>7. QED
    BY <1>5, <2>2, <2>6, OwnKept DEF WriteOrderRow
<1>6. CASE LinkOrder
  <2>1. /\ sync.p \in Payment /\ sync.item.s \in Sub /\ Owned(sync.p, sync.item.s, pay)
        /\ rows[sync.p] # <<>> /\ (sync.status = "approved" => Paid(sync.p, pay))
    BY <1>1, <1>6 DEF LinkOrder, SyncOK, SyncOwn
  <2>2. Grows /\ PayOwn' /\ SubOwn' /\ RowsOwn'
    <3>1. CASE sub' = sub
      BY <1>6, <3>1, TablesSame DEF LinkOrder
    <3>2. CASE sub' = [sub EXCEPT ![sync.item.s].mp = sync.p]
      <4> DEFINE r == [sub[sync.item.s] EXCEPT !.mp = sync.p]
      <4>1. r \in SubRow /\ r.status = sub[sync.item.s].status /\ r.mp = sync.p
        <5>1. sub[sync.item.s] \in SubRow
          BY <2>1 DEF TypeInv, TypeOK
        <5>2. QED
          BY <2>1, <5>1 DEF SubRow
      <4>2. r.status = "NONE" => sub[sync.item.s].status = "NONE"
        BY <4>1
      <4>3. sub' = [sub EXCEPT ![sync.item.s] = r] /\ pay' = pay /\ rows' = rows
        BY <1>6, <3>2 DEF LinkOrder
      <4> HIDE DEF r
      <4>4. QED
        BY <2>1, <4>1, <4>2, <4>3, SubChange
    <3>3. QED
      BY <1>6, <3>1, <3>2 DEF LinkOrder
  <2>3. pay' = pay /\ rows' = rows /\ call' = call
    BY <1>6 DEF LinkOrder
  <2>4. /\ sync'.part = sync.part /\ sync'.todo = sync.todo /\ sync'.orders = sync.orders
        /\ \/ /\ sync'.phase = "process" /\ sync'.p = sync.p /\ sync.status = "approved"
              /\ sync'.item.s = sync.item.s
           \/ sync'.phase = "next" /\ (sync.orders # {} => sync'.item.s = sync.item.s)
    <3>1. sync.item \in Item
      BY <1>1 DEF Sync
    <3>2. CASE sync.status = "approved" /\ sub[sync.item.s].status = "PENDING_PAYMENT"
      <4>1. sync' = [sync EXCEPT !.item = [sync.item EXCEPT !.p = sync.p], !.phase = "process"]
        BY <1>6, <3>2 DEF LinkOrder
      <4>2. QED
        BY <1>1, <3>1, <3>2, <4>1 DEF Sync, Item
    <3>3. CASE ~(sync.status = "approved" /\ sub[sync.item.s].status = "PENDING_PAYMENT")
      <4>1. sync' = [sync EXCEPT !.item = IF sync.orders = {} THEN NoItem ELSE [sync.item EXCEPT !.p = sync.p],
                               !.phase = "next", !.p = None, !.status = "none", !.found = FALSE]
        BY <1>6, <3>3 DEF LinkOrder
      <4>2. QED
        BY <1>1, <3>1, <4>1 DEF Sync, Item
    <3>4. QED
      BY <3>2, <3>3
  <2>5. SyncOwn(sync', pay', rows')
    BY <1>1, <2>1, <2>3, <2>4 DEF SyncOwn, Owned, ToldIn, Known, Paid
  <2>6. QED
    BY <2>2, <2>3, <2>5, OwnKept
<1>7. CASE \E item \in sync.todo : FindSubRow(item)
  <2>1. PICK item \in sync.todo : FindSubRow(item)
    BY <1>7
  <2>2. Grows /\ PayOwn' /\ SubOwn' /\ RowsOwn' /\ pay' = pay /\ rows' = rows /\ call' = call
    BY <2>1, TablesSame DEF FindSubRow
  <2>3. \A t \in sync.todo : t.p # None => Owned(t.p, t.s, pay)
    BY <1>1, <2>1 DEF FindSubRow, Between, SyncOwn
  <2>4. /\ sync'.part = "subs" /\ sync'.todo \subseteq sync.todo /\ sync'.orders = {}
        /\ sync'.phase = "subRow" /\ sync'.p = item.p /\ sync'.status = pay[item.p].status
        /\ sync'.item = item /\ (sync'.found => rows[item.p] # <<>>) /\ item.p # None
    BY <1>1, <2>1 DEF FindSubRow, Between, Sync
  <2>5. SyncOwn(sync', pay', rows')
    BY <2>2, <2>3, <2>4 DEF SyncOwn, Owned, ToldIn, Known, Paid
  <2>6. QED
    BY <2>2, <2>5, OwnKept
<1>8. CASE WriteSubRow
  <2>1. /\ sync.p \in Payment /\ sync.item.s \in Sub /\ sync.status \in PayStatus
        /\ Owned(sync.p, sync.item.s, pay) /\ (sync.found => rows[sync.p] # <<>>)
        /\ (sync.status = "approved" => Paid(sync.p, pay))
    BY <1>1, <1>8 DEF WriteSubRow, SyncOK, Sync, SyncOwn
  <2>2. Grows /\ PayOwn' /\ SubOwn' /\ RowsOwn'
    BY <1>8, <2>1, NewRowOwn, SetRowOwn DEF WriteSubRow
  <2>3. rows'[sync.p] # <<>>
    BY <1>8, <2>1, <2>2, NewRowOwn DEF WriteSubRow, Grows
  <2>4. SyncOwn(sync', pay', rows')
    BY <1>8, <2>1, <2>2, <2>3, NextOwn, ProcessOwn DEF WriteSubRow, ProcessIf
  <2>5. QED
    BY <1>8, <2>2, <2>4, OwnKept DEF WriteSubRow
<1>9. CASE EndRound
  <2>1. SyncOwn(NoSync, pay', rows')
    BY DEF NoSync, SyncOwn
  <2>2. QED
    BY <1>9, <2>1, TablesSame, OwnKept DEF EndRound
<1>10. QED
  BY <1>2, <1>3, <1>4, <1>5, <1>6, <1>7, <1>8, <1>9 DEF SubsStep

\* The steps of the synchronization.
LEMMA ProcessOwnStep ==
  ASSUME SubscriptionsAssumption, TypeInv, OwnInv, ProcessStep
  PROVE  OwnInv'
<1>1. sync \in Sync /\ SyncOK(sync) /\ SyncOwn(sync, pay, rows)
  BY DEF TypeInv, TypeOK, OwnInv
<1>2. CASE Process
  <2>1. Owned(sync.p, sync.item.s, pay) /\ Paid(sync.p, pay) /\ rows[sync.p] # <<>>
    BY <1>1, <1>2 DEF Process, SyncOwn
  <2>2. Grows /\ PayOwn' /\ SubOwn' /\ RowsOwn' /\ rows' = rows
    BY <1>2, TablesSame DEF Process
  <2>3. SyncOwn(sync', pay', rows')
    BY <1>2, <2>1, <2>2, NextOwn, ProcessOwn DEF Process
  <2>4. QED
    BY <1>2, <2>2, <2>3, OwnKept DEF Process
<1>3. CASE SyncActivate
  <2>1. /\ sync.p \in Payment /\ sync.item.s \in Sub /\ Owned(sync.p, sync.item.s, pay)
        /\ Paid(sync.p, pay) /\ rows[sync.p] # <<>>
    BY <1>1, <1>3 DEF SyncActivate, SyncOK, SyncOwn
  <2> DEFINE r == [status |-> "ACTIVE", mp |-> sync.p]
  <2>2. r \in SubRow /\ r.status = "ACTIVE" /\ r.mp = sync.p
    BY <2>1 DEF SubRow, SubStatus
  <2>3. sub' = [sub EXCEPT ![sync.item.s] = r] /\ pay' = pay /\ rows' = rows
    BY <1>3 DEF SyncActivate
  <2>4. Grows /\ PayOwn' /\ SubOwn' /\ RowsOwn'
    BY <2>1, <2>2, <2>3, SubChange
  <2>5. QED
    BY <1>3, <2>4, LastOwn, OwnKept DEF SyncActivate
<1>4. CASE ApproveRow
  <2>1. sync.p \in Payment /\ "approved" \in PayStatus
    BY <1>1, <1>4 DEF ApproveRow, SyncOK, PayStatus
  <2>2. Grows /\ PayOwn' /\ SubOwn' /\ RowsOwn'
    BY <1>4, <2>1, SetRowOwn DEF ApproveRow
  <2>3. QED
    BY <1>4, <2>2, LastOwn, OwnKept DEF ApproveRow
<1>5. CASE SyncActivateUser
  BY <1>5, TablesSame, LastOwn, OwnKept DEF SyncActivateUser
<1>6. CASE SyncFindRole
  BY <1>6, TablesSame, LastOwn, NextOwn, OwnKept DEF SyncFindRole
<1>7. CASE SyncGrantRole
  BY <1>7, TablesSame, NextOwn, OwnKept DEF SyncGrantRole
<1>8. QED
  BY <1>2, <1>3, <1>4, <1>5, <1>6, <1>7 DEF ProcessStep

\* No payment has a subscription at first.
LEMMA OwnInit == SubscriptionsAssumption /\ Init => OwnInv
<1> SUFFICES ASSUME SubscriptionsAssumption, Init PROVE OwnInv
  OBVIOUS
<1>1. PayOwn /\ SubOwn /\ RowsOwn
  BY DEF Init, PayOwn, SubOwn, RowsOwn, Known
<1>2. (\A w \in Worker : CallOwn(call[w], pay, rows)) /\ SyncOwn(sync, pay, rows)
  BY DEF Init, NoCall, CallOwn, NoSync, SyncOwn
<1>3. QED
  BY <1>1, <1>2 DEF OwnInv

\* Every step keeps the payments with their owners.
LEMMA OwnStep == SubscriptionsAssumption /\ TypeInv /\ OwnInv /\ [Next]_vars => OwnInv'
<1> SUFFICES ASSUME SubscriptionsAssumption, TypeInv, OwnInv, [Next]_vars PROVE OwnInv'
  OBVIOUS
<1>1. CASE UNCHANGED vars
  BY <1>1, TablesSame, OwnKept DEF vars
<1>2. CASE Next
  <2>1. CASE \E w \in Worker : CallStep(w)
    BY <2>1, LinkOwn, AccessOwn DEF CallStep
  <2>2. CASE SyncStep
    BY <2>2, ImportOwn, RowsOwnStep, SubsOwnStep, ProcessOwnStep DEF SyncStep
  <2>3. QED
    BY <1>2, <2>1, <2>2, UserOwn, GatewayOwn, RequestOwn, CrashOwn, FailsOwn DEF Next
<1>3. QED
  BY <1>1, <1>2

\* The invariant holds in every state.
LEMMA Ownership == Spec => [](TypeInv /\ OwnInv)
<1>1. SubscriptionsAssumption /\ Init => TypeInv /\ OwnInv
  BY TypeInit, OwnInit
<1>2. SubscriptionsAssumption /\ TypeInv /\ OwnInv /\ [Next]_vars => TypeInv' /\ OwnInv'
  BY TypeStep, OwnStep
<1>3. QED
  BY <1>1, <1>2, SubscriptionsAssumption, PTL DEF Spec

\* A subscription is active only after a payment the gateway approved, and its
\* own if the gateway tells whose it is, however many requests, rounds, refunds
\* and failures cross, PIX payments included (processApprovedPayment of the API
\* and of the job).
THEOREM SubscriptionsActiveWasPaid == Spec => []ActiveWasPaid
<1>1. OwnInv => ActiveWasPaid
  BY DEF OwnInv, SubOwn, ActiveWasPaid, WasPaid, Paid, Owned, ToldIn, Told
<1>2. QED
  BY <1>1, Ownership, PTL

\* The payment a subscription holds has a row; if the gateway tells whose it is,
\* the row is that subscription's and no other subscription holds the payment.
THEOREM SubscriptionsLinkedIsRecorded == Spec => []LinkedIsRecorded
<1>1. ASSUME TypeInv, OwnInv, NEW s \in Sub, NEW p \in Payment, sub[s].mp = p
      PROVE  /\ rows[p] # <<>>
             /\ Told(p) => /\ \E i \in DOMAIN rows[p] : rows[p][i].sub = s
                           /\ \A t \in Sub : sub[t].mp = p => t = s
  <2>1. p # None
    BY SubscriptionsAssumption DEF SubscriptionsAssumption
  <2>2. Owned(p, s, pay) /\ rows[p] # <<>>
    BY <1>1, <2>1 DEF OwnInv, SubOwn
  <2>3. 1 \in DOMAIN rows[p]
    <3>1. rows[p] \in Seq(Row)
      BY <1>1 DEF TypeInv, TypeOK
    <3>2. QED
      BY <2>2, <3>1
  <2>4. Told(p) => pay[p].for = s
    BY <2>2 DEF Owned, ToldIn, Told
  <2>5. Owned(p, rows[p][1].sub, pay)
    BY <1>1, <2>3 DEF OwnInv, RowsOwn
  <2>6. Told(p) => rows[p][1].sub = s
    BY <2>4, <2>5 DEF Owned, ToldIn, Told
  <2>7. ASSUME Told(p), NEW t \in Sub, sub[t].mp = p PROVE t = s
    <3>1. Owned(p, t, pay)
      BY <1>1, <2>1, <2>7 DEF OwnInv, SubOwn
    <3>2. QED
      BY <2>4, <2>7, <3>1 DEF Owned, ToldIn, Told
  <2>8. QED
    BY <2>2, <2>3, <2>6, <2>7
<1>2. TypeInv /\ OwnInv => LinkedIsRecorded
  BY <1>1 DEF LinkedIsRecorded
<1>3. QED
  BY <1>2, Ownership, PTL

(***************************************************************************)
(* Access, when the gateway tells the preference of every payment, each    *)
(* subscription is paid once and each user has one.  Whoever activates a   *)
(* subscription goes on to the user and the role; access is only taken     *)
(* away for a payment that ended, and what was given back or cancelled     *)
(* stays so.                                                               *)
(***************************************************************************)
AllTold == {"PIX", "UNTOLD"} \cap Enabled = {}
PaidOnce == "RETRY" \notin Enabled
OneEach == \A s, t \in Sub : UserOf[s] = UserOf[t] => s = t

For(p, s, py) == p \in Payment /\ Known(p, py) /\ py[p].for = s

OnePaid ==
  /\ \A p, q \in Payment : Known(p, pay) /\ Known(q, pay) /\ pay[p].for = pay[q].for => p = q
  /\ \A p \in Payment : Known(p, pay) => ToldIn(p, pay)
ActiveHolds == \A s \in Sub : sub[s].status = "ACTIVE" => sub[s].mp # None

Ended(s, py) ==
  s \in Sub /\ \E p \in Payment : For(p, s, py) /\ py[p].status \in {"refunded", "cancelled"}
EndPhase == {"refundRow", "refundSub", "refundUser", "refundRole"}
OnlyEnded ==
  /\ \A w \in Worker : call[w].phase \in EndPhase => Ended(call[w].s, pay)
  /\ sync.phase \in {"deactivate", "unrole"} => Ended(sync.item.s, pay)
SyncRests == sync.part = "off" => sync.phase = "next"

\* Someone is about to make the user active.
Activating(s) ==
  \/ \E w \in Worker : call[w].s = s /\ call[w].phase = "user"
  \/ sync.item.s = s /\ sync.phase \in {"row", "user"}

Serves(s) == sub[s].status = "ACTIVE" /\ Stands(sub[s].mp)
Served(s) ==
  Serves(s) /\ crashes = 0 => /\ UserOf[s] \in active \/ Activating(s)
                              /\ UserOf[s] \in role \/ Granting(s)

AccessInv == OnePaid /\ ActiveHolds /\ OnlyEnded /\ SyncRests /\ \A s \in Sub : Served(s)

\* How the gateway's payments change.
PayMoves ==
  \/ pay' = pay
  \/ \E p \in Payment, s \in Sub : NewPayment(p, s, TRUE)
  \/ \E p \in Payment, st \in {"approved", "rejected", "cancelled"} :
       pay[p].status = "pending" /\ pay' = [pay EXCEPT ![p].status = st]
  \/ \E p \in Payment : pay[p].status = "approved" /\ pay' = [pay EXCEPT ![p].status = "refunded"]

\* How a subscription changes.  Whoever activates one goes on to its user.
SubMoves(s) ==
  \/ sub'[s] = sub[s]
  \/ sub'[s].status # "ACTIVE"
  \/ pay' = pay /\ sub'[s].status = sub[s].status /\ For(sub'[s].mp, s, pay)
  \/ sub'[s].mp # None /\ Activating(s)'

\* A worker's step: it gives access when its call says so, and takes it away
\* only for a payment that ended.
WorkerMoves(w) ==
  LET c == call[w]
      d == call'[w]
  IN /\ \A v \in Worker \ {w} : call'[v] = call[v]
     /\ sync' = sync
     /\ d.phase \in EndPhase => (c.phase \in EndPhase /\ d.s = c.s) \/ Ended(d.s, pay')
     /\ c.phase = "user" => d.phase = "role" /\ d.s = c.s /\ UserOf[c.s] \in active'
     /\ c.phase = "role" => UserOf[c.s] \in role' \/ (d.phase = "grant" /\ d.s = c.s)
     /\ c.phase = "grant" => UserOf[c.s] \in role'
     /\ active \subseteq active' \/ (c.phase \in EndPhase /\ active' = active \ {UserOf[c.s]})
     /\ role \subseteq role' \/ (c.phase \in EndPhase /\ role' = role \ {UserOf[c.s]})

\* A step of the job: the same.
SyncMoves ==
  LET t == sync.item.s
      u == sync'.item.s
  IN /\ call' = call
     /\ SyncRests'
     /\ sync'.phase \in {"deactivate", "unrole"} =>
          (sync.phase \in {"deactivate", "unrole"} /\ u = t) \/ Ended(u, pay')
     /\ sync.phase = "row" => sync'.phase = "user" /\ u = t
     /\ sync.phase = "user" => sync'.phase = "role" /\ u = t /\ UserOf[t] \in active'
     /\ sync.phase = "role" => UserOf[t] \in role' \/ (sync'.phase = "grant" /\ u = t)
     /\ sync.phase = "grant" => UserOf[t] \in role'
     /\ active \subseteq active'
     /\ role \subseteq role' \/ (sync.phase \in {"deactivate", "unrole"} /\ role' = role \ {UserOf[t]})

\* A payment that ended stays ended, none comes to a subscription that has one,
\* and none is approved but one that was pending.
LEMMA PayKept ==
  ASSUME TypeInv, OwnInv, OnePaid, AllTold, PaidOnce, PayMoves
  PROVE  /\ OnePaid'
         /\ \A s \in Sub : Ended(s, pay) => Ended(s, pay')
         /\ \A p \in Payment : pay'[p].status = "approved" => pay[p].status \in {"approved", "pending"}
<1>0. pay \in [Payment -> PayRow] /\ (\A p \in Payment : pay[p].for \in Sub \cup {0})
  BY DEF TypeInv, TypeOK, PayRow
<1>1. CASE pay' = pay
  BY <1>1 DEF OnePaid, Ended, For, Known, ToldIn
<1>2. ASSUME NEW p \in Payment, NEW s \in Sub, NewPayment(p, s, TRUE)
      PROVE  /\ OnePaid'
             /\ \A t \in Sub : Ended(t, pay) => Ended(t, pay')
             /\ \A q \in Payment : pay'[q].status = "approved" => pay[q].status \in {"approved", "pending"}
  <2>1. /\ pay[p].status = "none" /\ (\A q \in Payment : pay[q].for # s)
        /\ pay'[p].status = "pending" /\ pay'[p].for = s /\ pay'[p].pref
        /\ \A q \in Payment \ {p} : pay'[q] = pay[q]
    BY <1>0, <1>2 DEF NewPayment, PaidFor, PaidOnce
  <2>2. OnePaid'
    BY <2>1 DEF OnePaid, Known, ToldIn, AllTold
  <2>3. QED
    BY <2>1, <2>2 DEF Ended, For, Known
<1>3. ASSUME NEW p \in Payment, NEW st \in {"approved", "rejected", "cancelled", "refunded"},
             pay[p].status \in {"pending", "approved"}, st = "approved" => pay[p].status = "pending",
             pay' = [pay EXCEPT ![p].status = st]
      PROVE  /\ OnePaid'
             /\ \A t \in Sub : Ended(t, pay) => Ended(t, pay')
             /\ \A q \in Payment : pay'[q].status = "approved" => pay[q].status \in {"approved", "pending"}
  <2>1. /\ pay'[p].status = st /\ pay'[p].for = pay[p].for /\ pay'[p].pref = pay[p].pref
        /\ \A q \in Payment \ {p} : pay'[q] = pay[q]
    BY <1>0, <1>3 DEF PayRow
  <2>2. OnePaid'
    BY <1>3, <2>1 DEF OnePaid, Known, ToldIn
  <2>3. QED
    BY <1>3, <2>1, <2>2 DEF Ended, For, Known
<1>4. QED
  BY <1>1, <1>2, <1>3 DEF PayMoves

\* A subscription that gives access is not one whose payment ended.
LEMMA EndedServesNot ==
  ASSUME OwnInv, OnePaid, NEW s \in Sub, Ended(s, pay)
  PROVE  ~Serves(s)
BY DEF OwnInv, SubOwn, OnePaid, Ended, For, Owned, Serves, Stands

\* A subscription that gives access after a step did before, or was activated
\* just now.
LEMMA ServesBefore ==
  ASSUME TypeInv, OwnInv, OnePaid, ActiveHolds, AllTold, PaidOnce, PayMoves, NEW s \in Sub, SubMoves(s), Serves(s)'
  PROVE  Serves(s) \/ Activating(s)'
<1>1. sub'[s].status = "ACTIVE" /\ sub'[s].mp # None /\ pay'[sub'[s].mp].status = "approved"
  BY DEF Serves, Stands
<1>2. ASSUME sub[s].status = "ACTIVE"
      PROVE  sub[s].mp # None /\ Owned(sub[s].mp, s, pay) /\ Paid(sub[s].mp, pay)
  <2>1. sub[s].mp # None /\ Owned(sub[s].mp, s, pay)
    BY <1>2 DEF ActiveHolds, OwnInv, SubOwn
  <2>2. PICK p \in Payment : Paid(p, pay) /\ Owned(p, s, pay)
    BY <1>2 DEF OwnInv, SubOwn
  <2>3. QED
    BY <2>1, <2>2 DEF OnePaid, Owned
<1>3. CASE sub'[s] = sub[s]
  <2>1. sub[s].mp \in Payment /\ Paid(sub[s].mp, pay) /\ sub[s].mp # None
    BY <1>1, <1>2, <1>3 DEF Owned
  <2>2. pay[sub[s].mp].status \in {"approved", "pending"}
    BY <1>1, <1>3, <2>1, PayKept
  <2>3. QED
    BY <1>1, <1>3, <2>1, <2>2 DEF Serves, Stands, Paid
<1>4. CASE pay' = pay /\ sub'[s].status = sub[s].status /\ For(sub'[s].mp, s, pay)
  <2>1. sub'[s].mp = sub[s].mp
    BY <1>1, <1>2, <1>4 DEF OnePaid, Owned, For
  <2>2. QED
    BY <1>1, <1>4, <2>1 DEF Serves, Stands
<1>5. QED
  BY <1>1, <1>3, <1>4 DEF SubMoves

\* A step of a request that hands nothing over and has nothing to end.
LEMMA QuietMoves ==
  ASSUME TypeInv, NEW w \in Worker, NEW c \in Call, Becomes(w, c), sync' = sync,
         call[w].phase \notin {"user", "role", "grant"},
         c.phase \in EndPhase => Ended(c.s, pay'),
         active' = active, role' = role
  PROVE  WorkerMoves(w)
<1>1. call'[w] = c /\ \A v \in Worker \ {w} : call'[v] = call[v]
  BY DEF TypeInv, TypeOK, Becomes
<1>2. QED
  BY <1>1 DEF WorkerMoves

\* A request that is through.
LEMMA ReturnMoves ==
  ASSUME TypeInv, NEW w \in Worker, Return(w), sync' = sync,
         call[w].phase \notin {"user", "role", "grant"},
         active' = active, role' = role
  PROVE  WorkerMoves(w)
<1>1. NoCall \in Call /\ NoCall.phase = "idle"
  BY DEF NoCall, Call, CallPhase, PayStatus
<1>2. QED
  BY <1>1, QuietMoves DEF Return, EndPhase

\* A request that comes in.
LEMMA RequestMoves ==
  ASSUME SubscriptionsAssumption, TypeInv, OwnInv, OnePaid, AllTold, NEW w \in Worker, Request(w)
  PROVE  PayMoves /\ (\A s \in Sub : SubMoves(s)) /\ WorkerMoves(w) /\ crashes' = crashes
<1>1. PICK p \in Payment : Notify(w, p) \/ Refund(w, p) \/ \E s \in Sub : Pix(w, p, s)
  BY DEF Request
<1>2. sub' = sub /\ sync' = sync /\ active' = active /\ role' = role /\ crashes' = crashes
      /\ call[w].phase = "idle"
  <2>1. CASE Notify(w, p) \/ Refund(w, p)
    BY <2>1 DEF Notify, Refund
  <2>2. CASE \E s \in Sub : Pix(w, p, s)
    <3>1. PICK s \in Sub : Pix(w, p, s)
      BY <2>2
    <3>2. QED
      BY <3>1 DEF Pix
  <2>3. QED
    BY <1>1, <2>1, <2>2
<1>3. CASE Notify(w, p)
  <2> DEFINE c == [NoCall EXCEPT !.phase = "find", !.p = p, !.status = pay[p].status]
  <2>1. c \in Call /\ c.phase = "find"
    BY DEF NoCall, Call, CallPhase, PayStatus, TypeInv, TypeOK, PayRow
  <2>2. Becomes(w, c) /\ pay' = pay
    BY <1>3 DEF Notify
  <2> HIDE DEF c
  <2>3. WorkerMoves(w)
    BY <1>2, <2>1, <2>2, QuietMoves DEF EndPhase
  <2>4. QED
    BY <1>2, <2>2, <2>3 DEF PayMoves, SubMoves
<1>4. CASE Refund(w, p)
  <2> DEFINE c == [NoCall EXCEPT !.phase = "refundRow", !.kind = "refund", !.p = p, !.s = rows[p][1].sub]
  <2>1. rows[p][1].sub \in Sub /\ For(p, rows[p][1].sub, pay)
    <3>1. rows[p] \in Seq(Row) /\ rows[p] # <<>>
      BY <1>4 DEF Refund, TypeInv, TypeOK
    <3>2. rows[p][1] \in Row /\ 1 \in DOMAIN rows[p]
      BY <3>1
    <3>3. QED
      BY <3>2 DEF OwnInv, RowsOwn, PayOwn, OnePaid, Owned, For, Created
  <2>2. c \in Call /\ c.phase = "refundRow" /\ c.s = rows[p][1].sub
    BY <2>1 DEF NoCall, Call, CallPhase, PayStatus
  <2>3. Becomes(w, c) /\ pay' = [pay EXCEPT ![p].status = "refunded"] /\ pay[p].status = "approved"
    BY <1>4 DEF Refund
  <2> HIDE DEF c
  <2>4. Ended(c.s, pay')
    <3>1. pay'[p].status = "refunded" /\ pay'[p].for = pay[p].for
      BY <2>3 DEF TypeInv, TypeOK, PayRow
    <3>2. QED
      BY <2>1, <2>2, <3>1 DEF Ended, For, Known
  <2>5. WorkerMoves(w)
    BY <1>2, <2>2, <2>3, <2>4, QuietMoves
  <2>6. QED
    BY <1>2, <2>3, <2>5 DEF PayMoves, SubMoves
<1>5. ~\E s \in Sub : Pix(w, p, s)
  <2>1. "PIX" \notin Enabled
    BY DEF AllTold
  <2>2. QED
    BY <2>1, Zenon DEF Pix
<1>6. QED
  BY <1>1, <1>3, <1>4, <1>5

\* A step that finds the subscription of a payment and records it.
LEMMA LinkMoves ==
  ASSUME SubscriptionsAssumption, TypeInv, OwnInv, OnePaid, NEW w \in Worker, LinkStep(w)
  PROVE  PayMoves /\ (\A s \in Sub : SubMoves(s)) /\ WorkerMoves(w) /\ crashes' = crashes
<1>1. call[w] \in Call /\ CallOwn(call[w], pay, rows) /\ CallOK(call[w])
  BY DEF TypeInv, TypeOK, OwnInv
<1>2. pay' = pay /\ sync' = sync /\ active' = active /\ role' = role /\ crashes' = crashes
  BY DEF LinkStep, FindSub, FindByPayer, FindByAmount, FindRow, WriteRow, LinkPayment
<1>3. call[w].phase \notin {"user", "role", "grant"}
  BY DEF LinkStep, FindSub, FindByPayer, FindByAmount, FindRow, WriteRow, LinkPayment
<1>4. WorkerMoves(w)
  <2>1. \/ \E s \in Sub : FoundSub(w, s)
        \/ \E ph \in {"payer", "any"} : Goes(w, ph)
        \/ Return(w)
        \/ Becomes(w, [call[w] EXCEPT !.phase = "write", !.found = rows[call[w].p] # <<>>])
        \/ Becomes(w, [call[w] EXCEPT !.phase = "link", !.kind = "notify", !.found = FALSE])
        \/ Becomes(w, [call[w] EXCEPT !.phase = "activate", !.mp = None])
        \/ Access(w, "cancel") /\ call[w].phase = "link"
    <3>1. CASE FindSub(w)
      BY <3>1 DEF FindSub, ByKey, Created
    <3>2. CASE FindByPayer(w) \/ FindByAmount(w)
      BY <1>1, <3>2, PickType DEF FindByPayer, FindByAmount, CallOK
    <3>3. CASE FindRow(w) \/ WriteRow(w) \/ LinkPayment(w)
      BY <3>3 DEF FindRow, WriteRow, LinkPayment
    <3>4. QED
      BY <3>1, <3>2, <3>3 DEF LinkStep
  <2>2. ASSUME NEW c \in Call, c.phase \notin EndPhase, Becomes(w, c)
        PROVE  WorkerMoves(w)
    BY <1>2, <1>3, <2>2, QuietMoves
  <2>3. CASE \E s \in Sub : FoundSub(w, s)
    <3>1. PICK s \in Sub : FoundSub(w, s)
      BY <2>3
    <3> DEFINE c == [call[w] EXCEPT !.phase = "row", !.s = s, !.mp = sub[s].mp]
    <3>2. sub[s].mp \in Payment \cup {None}
      BY DEF TypeInv, TypeOK, SubRow
    <3>3. c \in Call /\ c.phase = "row" /\ Becomes(w, c)
      BY <1>1, <3>1, <3>2 DEF Call, CallPhase, FoundSub
    <3> HIDE DEF c
    <3>4. QED
      BY <2>2, <3>3 DEF EndPhase
  <2>4. ASSUME NEW ph \in {"payer", "any"}, Goes(w, ph)
        PROVE  WorkerMoves(w)
    <3> DEFINE c == [call[w] EXCEPT !.phase = ph]
    <3>1. c \in Call /\ c.phase = ph /\ Becomes(w, c)
      BY <1>1, <2>4 DEF Call, CallPhase, Goes, Becomes
    <3> HIDE DEF c
    <3>2. QED
      BY <2>2, <3>1 DEF EndPhase
  <2>5. CASE Becomes(w, [call[w] EXCEPT !.phase = "write", !.found = rows[call[w].p] # <<>>])
    <3> DEFINE c == [call[w] EXCEPT !.phase = "write", !.found = rows[call[w].p] # <<>>]
    <3>1. c \in Call /\ c.phase = "write" /\ Becomes(w, c)
      BY <1>1, <2>5 DEF Call, CallPhase
    <3> HIDE DEF c
    <3>2. QED
      BY <2>2, <3>1 DEF EndPhase
  <2>6. CASE Becomes(w, [call[w] EXCEPT !.phase = "link", !.kind = "notify", !.found = FALSE])
    <3> DEFINE c == [call[w] EXCEPT !.phase = "link", !.kind = "notify", !.found = FALSE]
    <3>1. c \in Call /\ c.phase = "link" /\ Becomes(w, c)
      BY <1>1, <2>6 DEF Call, CallPhase
    <3> HIDE DEF c
    <3>2. QED
      BY <2>2, <3>1 DEF EndPhase
  <2>7. CASE Becomes(w, [call[w] EXCEPT !.phase = "activate", !.mp = None])
    <3> DEFINE c == [call[w] EXCEPT !.phase = "activate", !.mp = None]
    <3>1. c \in Call /\ c.phase = "activate" /\ Becomes(w, c)
      BY <1>1, <2>7 DEF Call, CallPhase
    <3> HIDE DEF c
    <3>2. QED
      BY <2>2, <3>1 DEF EndPhase
  <2>8. CASE Access(w, "cancel") /\ call[w].phase = "link"
    <3> DEFINE c == [NoCall EXCEPT !.phase = "cancel", !.s = call[w].s]
    <3>1. c \in Call /\ c.phase = "cancel" /\ Becomes(w, c)
      BY <1>1, <2>8 DEF NoCall, Call, CallPhase, PayStatus, Access, CallOK
    <3> HIDE DEF c
    <3>2. QED
      BY <2>2, <3>1 DEF EndPhase
  <2>9. QED
    BY <1>2, <1>3, <2>1, <2>3, <2>4, <2>5, <2>6, <2>7, <2>8, ReturnMoves
<1>5. ASSUME NEW s \in Sub PROVE SubMoves(s)
  <2>1. CASE LinkPayment(w)
    <3>1. For(call[w].p, call[w].s, pay) /\ call[w].s \in Sub
      BY <1>1, <2>1 DEF LinkPayment, CallOwn, CallOK, OnePaid, Owned, For
    <3>2. PICK m \in Payment \cup {None} :
            /\ sub' = [sub EXCEPT ![call[w].s].mp = m]
            /\ m = call[w].p \/ m = sub[call[w].s].mp
      <4>1. sub[call[w].s].mp \in Payment \cup {None} /\ call[w].p \in Payment
        BY <3>1 DEF TypeInv, TypeOK, SubRow, For
      <4>2. CASE call[w].mp # call[w].p
        BY <2>1, <4>1, <4>2 DEF LinkPayment
      <4>3. CASE call[w].mp = call[w].p
        <5>1. sub' = [sub EXCEPT ![call[w].s].mp = sub[call[w].s].mp]
          BY <2>1, <4>3 DEF LinkPayment
        <5>2. QED
          BY <4>1, <5>1
      <4>4. QED
        BY <4>2, <4>3
    <3>3. /\ s # call[w].s => sub'[s] = sub[s]
          /\ sub'[call[w].s].mp = m /\ sub'[call[w].s].status = sub[call[w].s].status
          /\ m = sub[call[w].s].mp => sub'[call[w].s] = sub[call[w].s]
      BY <3>1, <3>2 DEF TypeInv, TypeOK, SubRow
    <3>4. QED
      BY <1>2, <3>1, <3>2, <3>3 DEF SubMoves
  <2>2. CASE ~LinkPayment(w)
    <3>1. sub' = sub
      BY <2>2 DEF LinkStep, FindSub, FindByPayer, FindByAmount, FindRow, WriteRow
    <3>2. QED
      BY <3>1 DEF SubMoves
  <2>3. QED
    BY <2>1, <2>2
<1>6. QED
  BY <1>2, <1>4, <1>5 DEF PayMoves

\* The state of a request after a step.
LEMMA CallAfter ==
  ASSUME TypeInv, NEW w \in Worker
  PROVE  /\ \A ph \in CallPhase : Goes(w, ph) => /\ call'[w].phase = ph /\ call'[w].s = call[w].s
                                                 /\ \A v \in Worker \ {w} : call'[v] = call[v]
         /\ \A ph \in CallPhase : Access(w, ph) => /\ call'[w].phase = ph /\ call'[w].s = call[w].s
                                                   /\ \A v \in Worker \ {w} : call'[v] = call[v]
         /\ Return(w) => call'[w].phase = "idle" /\ \A v \in Worker \ {w} : call'[v] = call[v]
<1>1. call \in [Worker -> Call] /\ call[w] \in Call
  BY DEF TypeInv, TypeOK
<1>2. ASSUME NEW ph \in CallPhase, Goes(w, ph)
      PROVE  call'[w].phase = ph /\ call'[w].s = call[w].s /\ \A v \in Worker \ {w} : call'[v] = call[v]
  BY <1>1, <1>2 DEF Goes, Call
<1>3. ASSUME NEW ph \in CallPhase, Access(w, ph)
      PROVE  call'[w].phase = ph /\ call'[w].s = call[w].s /\ \A v \in Worker \ {w} : call'[v] = call[v]
  <2> DEFINE c == [NoCall EXCEPT !.phase = ph, !.s = call[w].s]
  <2>1. c.phase = ph /\ c.s = call[w].s
    BY DEF NoCall
  <2>2. call' = [call EXCEPT ![w] = c]
    BY <1>3 DEF Access, Becomes
  <2> HIDE DEF c
  <2>3. QED
    BY <1>1, <2>1, <2>2
<1>4. ASSUME Return(w)
      PROVE  call'[w].phase = "idle" /\ \A v \in Worker \ {w} : call'[v] = call[v]
  BY <1>1, <1>4 DEF Return, Becomes, NoCall
<1>5. QED
  BY <1>2, <1>3, <1>4

\* A subscription that is cancelled.
LEMMA CancelMoves ==
  ASSUME TypeInv, NEW s \in Sub, sub' = [sub EXCEPT ![s].status = "CANCELLED"]
  PROVE  \A t \in Sub : SubMoves(t)
BY DEF TypeInv, TypeOK, SubRow, SubMoves

\* A subscription that is activated.
LEMMA ActivateMoves ==
  ASSUME SubscriptionsAssumption, TypeInv, NEW s \in Sub, NEW p \in Payment,
         sub' = [sub EXCEPT ![s] = [status |-> "ACTIVE", mp |-> p]], Activating(s)'
  PROVE  \A t \in Sub : SubMoves(t)
<1>1. p # None
  BY DEF SubscriptionsAssumption
<1>2. \A t \in Sub : t # s => sub'[t] = sub[t]
  BY DEF TypeInv, TypeOK
<1>3. sub'[s].mp = p
  BY DEF TypeInv, TypeOK
<1>4. QED
  BY <1>1, <1>2, <1>3 DEF SubMoves

\* A step that gives access, or cancels what was not paid.
LEMMA AccessMoves ==
  ASSUME SubscriptionsAssumption, TypeInv, NEW w \in Worker, AccessStep(w)
  PROVE  PayMoves /\ (\A s \in Sub : SubMoves(s)) /\ WorkerMoves(w) /\ crashes' = crashes
<1>1. call[w] \in Call /\ CallOK(call[w])
  BY DEF TypeInv, TypeOK
<1>2. pay' = pay /\ sync' = sync /\ crashes' = crashes
  BY DEF AccessStep, Activate, ActivateUser, FindRole, GrantRole, CancelSub
<1>3. {"role", "grant", "user"} \subseteq CallPhase
  BY DEF CallPhase
<1>4. CASE Activate(w)
  <2>1. PICK s \in Sub : s = call[w].s /\ call[w].p \in Payment
    BY <1>1, <1>4 DEF Activate, CallOK
  <2>2. call'[w].phase = "user" /\ call'[w].s = s /\ \A v \in Worker \ {w} : call'[v] = call[v]
    BY <1>3, <1>4, <2>1, CallAfter DEF Activate
  <2>3. Activating(s)'
    BY <2>2 DEF Activating
  <2>4. \A t \in Sub : SubMoves(t)
    BY <1>4, <2>1, <2>3, ActivateMoves DEF Activate
  <2>5. WorkerMoves(w)
    BY <1>2, <1>4, <2>2 DEF Activate, WorkerMoves, EndPhase
  <2>6. QED
    BY <1>2, <2>4, <2>5 DEF PayMoves
<1>5. CASE ActivateUser(w)
  <2>1. call'[w].phase = "role" /\ call'[w].s = call[w].s /\ \A v \in Worker \ {w} : call'[v] = call[v]
    BY <1>3, <1>5, CallAfter DEF ActivateUser
  <2>2. WorkerMoves(w)
    BY <1>2, <1>5, <2>1 DEF ActivateUser, CallUser, WorkerMoves, EndPhase
  <2>3. QED
    BY <1>2, <1>5, <2>2 DEF ActivateUser, PayMoves, SubMoves
<1>6. CASE FindRole(w)
  <2>1. ASSUME CallUser(w) \in role PROVE WorkerMoves(w)
    <3>1. call'[w].phase = "idle" /\ \A v \in Worker \ {w} : call'[v] = call[v]
      BY <1>6, <2>1, CallAfter DEF FindRole
    <3>2. QED
      BY <1>2, <1>6, <2>1, <3>1 DEF FindRole, CallUser, WorkerMoves, EndPhase
  <2>2. ASSUME CallUser(w) \notin role PROVE WorkerMoves(w)
    <3>1. call'[w].phase = "grant" /\ call'[w].s = call[w].s /\ \A v \in Worker \ {w} : call'[v] = call[v]
      BY <1>3, <1>6, <2>2, CallAfter DEF FindRole
    <3>2. QED
      BY <1>2, <1>6, <3>1 DEF FindRole, WorkerMoves, EndPhase
  <2>3. QED
    BY <1>2, <1>6, <2>1, <2>2 DEF FindRole, PayMoves, SubMoves
<1>7. CASE GrantRole(w)
  <2>1. call'[w].phase = "idle" /\ \A v \in Worker \ {w} : call'[v] = call[v]
    BY <1>7, CallAfter DEF GrantRole
  <2>2. WorkerMoves(w)
    BY <1>2, <1>7, <2>1 DEF GrantRole, CallUser, WorkerMoves, EndPhase
  <2>3. QED
    BY <1>2, <1>7, <2>2 DEF GrantRole, PayMoves, SubMoves
<1>8. CASE CancelSub(w)
  <2>1. call[w].s \in Sub
    BY <1>1, <1>8 DEF CancelSub, CallOK
  <2>2. \A s \in Sub : SubMoves(s)
    BY <1>8, <2>1, CancelMoves DEF CancelSub
  <2>3. WorkerMoves(w)
    BY <1>2, <1>8, ReturnMoves DEF CancelSub
  <2>4. QED
    BY <1>2, <2>2, <2>3 DEF PayMoves
<1>9. QED
  BY <1>4, <1>5, <1>6, <1>7, <1>8 DEF AccessStep

\* A step that gives a payment back and takes the access away.
LEMMA RefundMoves ==
  ASSUME TypeInv, NEW w \in Worker, RefundStep(w)
  PROVE  PayMoves /\ (\A s \in Sub : SubMoves(s)) /\ WorkerMoves(w) /\ crashes' = crashes
<1>1. call[w] \in Call /\ CallOK(call[w])
  BY DEF TypeInv, TypeOK
<1>2. pay' = pay /\ sync' = sync /\ crashes' = crashes
  BY DEF RefundStep, RefundRow, RefundSub, RefundUser, RefundRole
<1>3. {"refundSub", "refundUser", "refundRole"} \subseteq CallPhase
  BY DEF CallPhase
<1>4. call[w].phase \in EndPhase
  BY DEF RefundStep, RefundRow, RefundSub, RefundUser, RefundRole, EndPhase
<1>5. CASE RefundRow(w)
  <2>1. CASE Return(w)
    BY <1>2, <1>4, <1>5, <2>1, ReturnMoves DEF RefundRow, PayMoves, SubMoves, EndPhase
  <2>2. CASE call[w].s # 0 /\ Access(w, "refundSub")
    <3>1. call'[w].phase = "refundSub" /\ call'[w].s = call[w].s /\ \A v \in Worker \ {w} : call'[v] = call[v]
      BY <1>3, <2>2, CallAfter
    <3>2. QED
      BY <1>2, <1>4, <1>5, <3>1 DEF RefundRow, WorkerMoves, EndPhase, PayMoves, SubMoves
  <2>3. QED
    BY <1>5, <2>1, <2>2 DEF RefundRow
<1>6. CASE RefundSub(w)
  <2>1. call[w].s \in Sub
    BY <1>1, <1>6 DEF RefundSub, CallOK
  <2>2. \A s \in Sub : SubMoves(s)
    BY <1>6, <2>1, CancelMoves DEF RefundSub
  <2>3. call'[w].phase = "refundUser" /\ call'[w].s = call[w].s /\ \A v \in Worker \ {w} : call'[v] = call[v]
    BY <1>3, <1>6, CallAfter DEF RefundSub
  <2>4. WorkerMoves(w)
    BY <1>2, <1>4, <1>6, <2>3 DEF RefundSub, WorkerMoves, EndPhase
  <2>5. QED
    BY <1>2, <2>2, <2>4 DEF PayMoves
<1>7. CASE RefundUser(w)
  <2>1. call'[w].phase = "refundRole" /\ call'[w].s = call[w].s /\ \A v \in Worker \ {w} : call'[v] = call[v]
    BY <1>3, <1>7, CallAfter DEF RefundUser
  <2>2. WorkerMoves(w)
    BY <1>2, <1>4, <1>7, <2>1 DEF RefundUser, CallUser, WorkerMoves, EndPhase
  <2>3. QED
    BY <1>2, <1>7, <2>2 DEF RefundUser, PayMoves, SubMoves
<1>8. CASE RefundRole(w)
  <2>1. call'[w].phase = "idle" /\ \A v \in Worker \ {w} : call'[v] = call[v]
    BY <1>8, CallAfter DEF RefundRole
  <2>2. WorkerMoves(w)
    BY <1>2, <1>4, <1>8, <2>1 DEF RefundRole, CallUser, WorkerMoves, EndPhase
  <2>3. QED
    BY <1>2, <1>8, <2>2 DEF RefundRole, PayMoves, SubMoves
<1>9. QED
  BY <1>5, <1>6, <1>7, <1>8 DEF RefundStep

\* The state of the job after a step.
LEMMA SyncAfter ==
  ASSUME TypeInv
  PROVE  /\ \A ph \in SyncPhase : SyncGoes(ph) => sync'.phase = ph /\ sync'.part = sync.part /\ sync'.item = sync.item
         /\ NextItem => sync'.phase = "next"
         /\ \A part, todo : Lists(part, todo) => sync'.phase = "next"
         /\ \A t : Drop(t) => sync'.phase = sync.phase
<1>1. sync \in Sync
  BY DEF TypeInv, TypeOK
<1>2. ASSUME NEW ph \in SyncPhase, SyncGoes(ph)
      PROVE  sync'.phase = ph /\ sync'.part = sync.part /\ sync'.item = sync.item
  BY <1>1, <1>2 DEF SyncGoes, Sync
<1>3. ASSUME NextItem PROVE sync'.phase = "next"
  BY <1>1, <1>3 DEF NextItem, Sync
<1>4. ASSUME NEW part, NEW todo, Lists(part, todo) PROVE sync'.phase = "next"
  BY <1>4 DEF Lists, NoSync
<1>5. ASSUME NEW t, Drop(t) PROVE sync'.phase = sync.phase
  BY <1>1, <1>5 DEF Drop, Sync
<1>6. QED
  BY <1>2, <1>3, <1>4, <1>5

\* A step of the job that has nothing to end.
LEMMA QuietSync ==
  ASSUME call' = call, active' = active, role' = role,
         sync.phase \notin {"row", "user", "role", "grant"},
         sync'.phase \notin {"deactivate", "unrole"},
         sync'.phase # "next" => sync'.part # "off"
  PROVE  SyncMoves
BY DEF SyncMoves, SyncRests

\* A step that imports the gateway's payments.
LEMMA ImportMoves ==
  ASSUME TypeInv, SyncRests, ImportStep
  PROVE  PayMoves /\ (\A s \in Sub : SubMoves(s)) /\ SyncMoves /\ crashes' = crashes
<1>1. sync \in Sync
  BY DEF TypeInv, TypeOK
<1>2. /\ pay' = pay /\ sub' = sub /\ call' = call /\ active' = active /\ role' = role
      /\ crashes' = crashes /\ sync.phase \notin {"row", "user", "role", "grant"}
  <2>1. CASE ListPayments
    <3>1. /\ pay' = pay /\ sub' = sub /\ call' = call /\ active' = active /\ role' = role
          /\ crashes' = crashes /\ sync.part = "off"
      BY <2>1, Zenon DEF ListPayments
    <3>2. QED
      BY <3>1 DEF SyncRests
  <2>2. CASE ImportRow
    BY <2>2 DEF ImportRow
  <2>3. CASE \E item \in sync.todo : ImportKnown(item) \/ ImportFind(item)
    <3>1. PICK item \in sync.todo : ImportKnown(item) \/ ImportFind(item)
      BY <2>3
    <3>2. QED
      BY <3>1 DEF ImportKnown, ImportFind, Between
  <2>4. QED
    BY <2>1, <2>2, <2>3 DEF ImportStep
<1>3. sync'.phase \notin {"deactivate", "unrole"} /\ (sync'.phase # "next" => sync'.part # "off")
  <2>1. CASE ListPayments
    <3>1. sync' = [NoSync EXCEPT !.part = "import", !.todo = sync'.todo]
      BY <2>1 DEF ListPayments, Lists, NoSync
    <3>2. QED
      BY <3>1 DEF NoSync
  <2>2. CASE ImportRow
    <3>1. sync.part # "off" /\ "process" \in SyncPhase
      BY <2>2 DEF ImportRow, SyncRests, SyncPhase
    <3>2. QED
      BY <2>2, <3>1, SyncAfter DEF ImportRow, ProcessIf
  <2>3. CASE \E item \in sync.todo : ImportKnown(item)
    <3>1. PICK item \in sync.todo : ImportKnown(item)
      BY <2>3
    <3>2. QED
      BY <3>1, SyncAfter DEF ImportKnown, Between
  <2>4. CASE \E item \in sync.todo : ImportFind(item)
    <3>1. PICK item \in sync.todo : ImportFind(item)
      BY <2>4
    <3>2. CASE Drop(item)
      BY <3>1, <3>2, SyncAfter DEF ImportFind, Between
    <3>3. CASE ~Drop(item)
      <4>1. sync' = [sync EXCEPT !.todo = sync.todo \ {item}, !.phase = "create", !.p = item.p,
                               !.item = [NoItem EXCEPT !.s = ImportSub(item.p)], !.status = item.status]
        BY <3>1, <3>3 DEF ImportFind
      <4>2. sync'.phase = "create" /\ sync'.part = sync.part
        BY <1>1, <4>1 DEF Sync
      <4>3. QED
        BY <3>1, <4>2 DEF ImportFind, Between
    <3>4. QED
      BY <3>2, <3>3
  <2>5. QED
    BY <2>1, <2>2, <2>3, <2>4 DEF ImportStep
<1>4. QED
  BY <1>2, <1>3, QuietSync DEF PayMoves, SubMoves

\* A step that brings the rows up to date.
LEMMA RowsMoves ==
  ASSUME TypeInv, OwnInv, OnePaid, SyncRests, RowsStep
  PROVE  PayMoves /\ (\A s \in Sub : SubMoves(s)) /\ SyncMoves /\ crashes' = crashes
<1>1. sync \in Sync /\ SyncOK(sync) /\ SyncOwn(sync, pay, rows)
  BY DEF TypeInv, TypeOK, OwnInv
<1>2. pay' = pay /\ call' = call /\ active' = active /\ crashes' = crashes
  <2>1. CASE ListRows
    BY <2>1 DEF ListRows
  <2>2. CASE Deactivate \/ RemoveRole
    BY <2>2 DEF Deactivate, RemoveRole
  <2>3. CASE \E item \in sync.todo : RefreshRow(item)
    <3>1. PICK item \in sync.todo : RefreshRow(item)
      BY <2>3
    <3>2. QED
      BY <3>1 DEF RefreshRow
  <2>4. QED
    BY <2>1, <2>2, <2>3 DEF RowsStep
<1>3. CASE ListRows
  <2>1. sync.phase = "next" /\ sync'.phase = "next" /\ sub' = sub /\ role' = role
    BY <1>3, SyncAfter DEF ListRows, Between
  <2>2. QED
    BY <1>2, <2>1, QuietSync DEF PayMoves, SubMoves
<1>4. CASE Deactivate
  <2>1. sync.item.s \in Sub /\ "unrole" \in SyncPhase /\ sync.part # "off"
    BY <1>1, <1>4 DEF Deactivate, SyncOK, SyncPhase, SyncRests
  <2>2. \A s \in Sub : SubMoves(s)
    BY <1>4, <2>1, CancelMoves DEF Deactivate
  <2>3. sync'.phase = "unrole" /\ sync'.part = sync.part /\ sync'.item = sync.item
    BY <1>4, <2>1, SyncAfter DEF Deactivate
  <2>4. SyncMoves
    BY <1>2, <1>4, <2>1, <2>3 DEF Deactivate, SyncMoves, SyncRests
  <2>5. QED
    BY <1>2, <2>2, <2>4 DEF PayMoves
<1>5. CASE RemoveRole
  <2>1. sync'.phase = "next" /\ sync.phase = "unrole" /\ role' = role \ {UserOf[sync.item.s]} /\ sub' = sub
    BY <1>5, SyncAfter DEF RemoveRole, SyncUser
  <2>2. SyncMoves
    BY <1>2, <2>1 DEF SyncMoves, SyncRests
  <2>3. QED
    BY <1>2, <2>1, <2>2 DEF PayMoves, SubMoves
<1>6. CASE \E item \in sync.todo : RefreshRow(item)
  <2>1. PICK item \in sync.todo : RefreshRow(item)
    BY <1>6
  <2> DEFINE new == DbStatus[pay[item.p].status]
  <2>2. sync.part = "rows" /\ sync.phase = "next" /\ sub' = sub /\ role' = role
    BY <2>1 DEF RefreshRow, Between
  <2>3. item.p \in Payment /\ item.s \in Sub /\ For(item.p, item.s, pay)
    <3>1. item \in sync.todo
      BY <2>1 DEF RefreshRow, Take
    <3>2. Owned(item.p, item.s, pay)
      BY <1>1, <2>2, <3>1 DEF SyncOwn
    <3>3. QED
      BY <3>2 DEF OwnInv, PayOwn, OnePaid, Owned, For, Created
  <2>4. new \in {"REFUNDED", "CANCELLED"} => pay[item.p].status \in {"refunded", "cancelled"}
    BY <2>3 DEF TypeInv, TypeOK, PayRow, PayStatus, DbStatus
  <2>5. \/ Drop(item)
        \/ \E after \in {"process", "deactivate"} :
             /\ after = "deactivate" => new \in {"REFUNDED", "CANCELLED"}
             /\ sync' = [sync EXCEPT !.todo = sync.todo \ {item}, !.item = [NoItem EXCEPT !.s = item.s],
                                     !.p = item.p, !.phase = after]
    BY <2>1 DEF RefreshRow
  <2>6. CASE Drop(item)
    <3>1. sync'.phase = "next"
      BY <2>2, <2>6, SyncAfter
    <3>2. QED
      BY <1>2, <2>2, <3>1, QuietSync DEF PayMoves, SubMoves
  <2>7. ASSUME NEW after \in {"process", "deactivate"},
               after = "deactivate" => new \in {"REFUNDED", "CANCELLED"},
               sync' = [sync EXCEPT !.todo = sync.todo \ {item}, !.item = [NoItem EXCEPT !.s = item.s],
                                    !.p = item.p, !.phase = after]
        PROVE  SyncMoves
    <3>1. sync'.phase = after /\ sync'.part = "rows" /\ sync'.item.s = item.s
      BY <1>1, <2>2, <2>7 DEF Sync, NoItem
    <3>2. after = "deactivate" => Ended(item.s, pay')
      BY <1>2, <2>3, <2>4, <2>7 DEF Ended
    <3>3. QED
      BY <1>2, <2>2, <3>1, <3>2 DEF SyncMoves, SyncRests
  <2>8. QED
    BY <1>2, <2>2, <2>5, <2>6, <2>7 DEF PayMoves, SubMoves
<1>7. QED
  BY <1>3, <1>4, <1>5, <1>6 DEF RowsStep

\* A step that goes through the subscriptions.
LEMMA SubsMoves ==
  ASSUME SubscriptionsAssumption, TypeInv, OwnInv, OnePaid, SyncRests, SubsStep
  PROVE  PayMoves /\ (\A s \in Sub : SubMoves(s)) /\ SyncMoves /\ crashes' = crashes
<1>1. sync \in Sync /\ SyncOK(sync) /\ SyncOwn(sync, pay, rows)
  BY DEF TypeInv, TypeOK, OwnInv
<1>2. ASSUME pay' = pay, call' = call, active' = active, role' = role, crashes' = crashes,
             \A s \in Sub : SubMoves(s),
             sync.phase \notin {"row", "user", "role", "grant"},
             sync'.phase \notin {"deactivate", "unrole"},
             sync'.phase # "next" => sync'.part # "off"
      PROVE  PayMoves /\ (\A s \in Sub : SubMoves(s)) /\ SyncMoves /\ crashes' = crashes
  BY <1>2, QuietSync DEF PayMoves
<1>3. CASE ListSubs
  <2>1. /\ pay' = pay /\ sub' = sub /\ call' = call /\ active' = active /\ role' = role
        /\ crashes' = crashes /\ sync.phase = "next"
    BY <1>3, Zenon DEF ListSubs, Between
  <2>2. sync' = [NoSync EXCEPT !.part = "subs", !.todo = sync'.todo]
    BY <1>3 DEF ListSubs, Lists, NoSync
  <2>3. sync'.phase = "next"
    BY <2>2 DEF NoSync
  <2>4. QED
    BY <1>2, <2>1, <2>3 DEF SubMoves
<1>4. CASE WriteOrderRow
  <2>1. sync.part # "off" /\ "orderLink" \in SyncPhase
    BY <1>4 DEF WriteOrderRow, SyncRests, SyncPhase
  <2>2. sync'.phase = "orderLink" /\ sync'.part = sync.part
    BY <1>4, <2>1, SyncAfter DEF WriteOrderRow
  <2>3. QED
    BY <1>2, <1>4, <2>1, <2>2 DEF WriteOrderRow, SubMoves
<1>5. CASE LinkOrder
  <2>1. sync.part # "off" /\ sync.item.s \in Sub /\ For(sync.p, sync.item.s, pay)
    BY <1>1, <1>5 DEF LinkOrder, SyncRests, SyncOK, SyncOwn, OnePaid, Owned, For
  <2>2. /\ pay' = pay /\ call' = call /\ active' = active /\ role' = role
        /\ crashes' = crashes /\ sync.phase = "orderLink"
    BY <1>5 DEF LinkOrder
  <2>3. sync'.phase \in {"process", "next"} /\ sync'.part = sync.part
    BY <1>1, <1>5 DEF LinkOrder, Sync
  <2>4. ASSUME NEW s \in Sub PROVE SubMoves(s)
    <3>1. CASE sub' = sub
      BY <3>1 DEF SubMoves
    <3>2. CASE sub' = [sub EXCEPT ![sync.item.s].mp = sync.p]
      <4>1. /\ s # sync.item.s => sub'[s] = sub[s]
            /\ s = sync.item.s => sub'[s].mp = sync.p /\ sub'[s].status = sub[s].status
        BY <2>1, <3>2 DEF TypeInv, TypeOK, SubRow
      <4>2. QED
        BY <2>1, <2>2, <4>1 DEF SubMoves
    <3>3. QED
      BY <1>5, <3>1, <3>2 DEF LinkOrder
  <2>5. QED
    BY <1>2, <2>1, <2>2, <2>3, <2>4
<1>6. CASE WriteSubRow
  <2>1. sync.part # "off" /\ "process" \in SyncPhase
    BY <1>6 DEF WriteSubRow, SyncRests, SyncPhase
  <2>2. sync'.phase = "next" \/ (sync'.phase = "process" /\ sync'.part = sync.part)
    BY <1>6, <2>1, SyncAfter DEF WriteSubRow, ProcessIf
  <2>3. QED
    BY <1>2, <1>6, <2>1, <2>2 DEF WriteSubRow, SubMoves
<1>7. CASE EndRound
  <2>1. sync'.phase = "next"
    BY <1>7 DEF EndRound, NoSync
  <2>2. QED
    BY <1>2, <1>7, <2>1 DEF EndRound, Between, SubMoves
<1>8. CASE \E item \in sync.todo : FindOrders(item)
  <2>1. PICK item \in sync.todo : FindOrders(item)
    BY <1>8
  <2>2. /\ pay' = pay /\ sub' = sub /\ call' = call /\ active' = active /\ role' = role
        /\ crashes' = crashes /\ sync.phase = "next"
    BY <2>1, Zenon DEF FindOrders, Between
  <2>3. sync' = [sync EXCEPT !.todo = sync.todo \ {item}, !.item = item, !.orders = sync'.orders]
    BY <1>1, <2>1 DEF FindOrders, Sync
  <2>4. sync'.phase = "next"
    BY <1>1, <2>2, <2>3 DEF Sync
  <2>5. QED
    BY <1>2, <2>2, <2>4 DEF SubMoves
<1>9. CASE \E item \in sync.todo : FindSubRow(item)
  <2>1. PICK item \in sync.todo : FindSubRow(item)
    BY <1>9
  <2>2. sync'.phase = "subRow" /\ sync'.part = "subs"
    BY <1>1, <2>1 DEF FindSubRow, Between, Sync
  <2>3. QED
    BY <1>2, <2>1, <2>2 DEF FindSubRow, Between, SubMoves
<1>10. CASE \E o \in sync.orders : FindOrderRow(o)
  <2>1. PICK o \in sync.orders : FindOrderRow(o)
    BY <1>10
  <2>2. sync'.phase = "orderRow" /\ sync'.part = "subs"
    BY <1>1, <2>1 DEF FindOrderRow, Sync
  <2>3. QED
    BY <1>2, <2>1, <2>2 DEF FindOrderRow, SubMoves
<1>11. QED
  BY <1>3, <1>4, <1>5, <1>6, <1>7, <1>8, <1>9, <1>10 DEF SubsStep

\* A step that makes a subscription active and gives its user access.
LEMMA ProcessMoves ==
  ASSUME SubscriptionsAssumption, TypeInv, SyncRests, ProcessStep
  PROVE  PayMoves /\ (\A s \in Sub : SubMoves(s)) /\ SyncMoves /\ crashes' = crashes
<1>1. sync \in Sync /\ SyncOK(sync) /\ sync.part # "off"
  BY DEF TypeInv, TypeOK, SyncRests, ProcessStep, Process, SyncActivate, ApproveRow,
         SyncActivateUser, SyncFindRole, SyncGrantRole
<1>2. pay' = pay /\ call' = call /\ crashes' = crashes
  BY DEF ProcessStep, Process, SyncActivate, ApproveRow, SyncActivateUser, SyncFindRole, SyncGrantRole
<1>3. {"activate", "row", "user", "role", "grant"} \subseteq SyncPhase
  BY DEF SyncPhase
<1>4. CASE Process
  <2>1. sync'.phase = "next" \/ (sync'.phase = "activate" /\ sync'.part = sync.part)
    BY <1>3, <1>4, SyncAfter DEF Process
  <2>2. QED
    BY <1>1, <1>2, <1>4, <2>1, QuietSync DEF Process, PayMoves, SubMoves
<1>5. CASE SyncActivate
  <2>1. PICK s \in Sub : s = sync.item.s /\ sync.p \in Payment
    BY <1>1, <1>5 DEF SyncActivate, SyncOK
  <2>2. sync'.phase = "row" /\ sync'.part = sync.part /\ sync'.item = sync.item
    BY <1>3, <1>5, SyncAfter DEF SyncActivate
  <2>3. Activating(s)'
    BY <2>1, <2>2 DEF Activating
  <2>4. \A t \in Sub : SubMoves(t)
    BY <1>5, <2>1, <2>3, ActivateMoves DEF SyncActivate
  <2>5. QED
    BY <1>1, <1>2, <1>5, <2>2, <2>4, QuietSync DEF SyncActivate, PayMoves
<1>6. CASE ApproveRow
  <2>1. sync'.phase = "user" /\ sync'.part = sync.part /\ sync'.item = sync.item
    BY <1>3, <1>6, SyncAfter DEF ApproveRow
  <2>2. SyncMoves
    BY <1>1, <1>2, <1>6, <2>1 DEF ApproveRow, SyncMoves, SyncRests
  <2>3. QED
    BY <1>2, <1>6, <2>2 DEF ApproveRow, PayMoves, SubMoves
<1>7. CASE SyncActivateUser
  <2>1. sync'.phase = "role" /\ sync'.part = sync.part /\ sync'.item = sync.item
    BY <1>3, <1>7, SyncAfter DEF SyncActivateUser
  <2>2. SyncMoves
    BY <1>1, <1>2, <1>7, <2>1 DEF SyncActivateUser, SyncUser, SyncMoves, SyncRests
  <2>3. QED
    BY <1>2, <1>7, <2>2 DEF SyncActivateUser, PayMoves, SubMoves
<1>8. CASE SyncFindRole
  <2>1. ASSUME SyncUser \in role PROVE SyncMoves
    <3>1. sync'.phase = "next"
      BY <1>8, <2>1, SyncAfter DEF SyncFindRole
    <3>2. QED
      BY <1>2, <1>8, <2>1, <3>1 DEF SyncFindRole, SyncUser, SyncMoves, SyncRests
  <2>2. ASSUME SyncUser \notin role PROVE SyncMoves
    <3>1. sync'.phase = "grant" /\ sync'.part = sync.part /\ sync'.item = sync.item
      BY <1>3, <1>8, <2>2, SyncAfter DEF SyncFindRole
    <3>2. QED
      BY <1>1, <1>2, <1>8, <3>1 DEF SyncFindRole, SyncMoves, SyncRests
  <2>3. QED
    BY <1>2, <1>8, <2>1, <2>2 DEF SyncFindRole, PayMoves, SubMoves
<1>9. CASE SyncGrantRole
  <2>1. sync'.phase = "next"
    BY <1>9, SyncAfter DEF SyncGrantRole
  <2>2. SyncMoves
    BY <1>2, <1>9, <2>1 DEF SyncGrantRole, SyncUser, SyncMoves, SyncRests
  <2>3. QED
    BY <1>2, <1>9, <2>2 DEF SyncGrantRole, PayMoves, SubMoves
<1>10. QED
  BY <1>4, <1>5, <1>6, <1>7, <1>8, <1>9 DEF ProcessStep

\* The steps of the users and of the gateway leave the requests, the job and the
\* access alone.
LEMMA OutsideMoves ==
  ASSUME TypeInv, UserStep \/ GatewayStep
  PROVE  /\ PayMoves /\ \A s \in Sub : SubMoves(s)
         /\ call' = call /\ sync' = sync /\ active' = active /\ role' = role /\ crashes' = crashes
<1>1. CASE UserStep
  <2>1. PICK s \in Sub : Checkout(s) \/ CancelSubscription(s)
    BY <1>1 DEF UserStep
  <2>2. \A t \in Sub : SubMoves(t)
    <3>1. CASE Checkout(s)
      BY <3>1 DEF Checkout, TypeInv, TypeOK, SubMoves
    <3>2. CASE CancelSubscription(s)
      BY <3>2, CancelMoves DEF CancelSubscription
    <3>3. QED
      BY <2>1, <3>1, <3>2
  <2>3. QED
    BY <2>1, <2>2 DEF Checkout, CancelSubscription, PayMoves
<1>2. CASE GatewayStep
  <2>1. PICK p \in Payment : Decide(p) \/ GatewayRefund(p) \/ \E s \in Sub : Pay(p, s)
    BY <1>2 DEF GatewayStep
  <2>2. CASE Decide(p)
    BY <2>2 DEF Decide, PayMoves, SubMoves
  <2>3. CASE GatewayRefund(p)
    BY <2>3 DEF GatewayRefund, PayMoves, SubMoves
  <2>4. CASE \E s \in Sub : Pay(p, s)
    <3>1. PICK s \in Sub : Pay(p, s)
      BY <2>4
    <3>2. NewPayment(p, s, TRUE)
      BY <3>1 DEF Pay
    <3>3. PayMoves
      BY <3>2 DEF PayMoves
    <3>4. QED
      BY <3>1, <3>3 DEF Pay, SubMoves
  <2>5. QED
    BY <2>1, <2>2, <2>3, <2>4
<1>3. QED
  BY <1>1, <1>2

\* An active subscription goes on to hold a payment.
LEMMA HoldsKept ==
  ASSUME SubscriptionsAssumption, ActiveHolds, \A s \in Sub : SubMoves(s)
  PROVE  ActiveHolds'
BY DEF SubscriptionsAssumption, ActiveHolds, SubMoves, For

\* A user keeps the access when someone else loses it.
LEMMA ServedKept ==
  ASSUME TypeInv, OwnInv, OwnInv', AllTold, PaidOnce, OneEach, AccessInv, PayMoves,
         \A s \in Sub : SubMoves(s), crashes' = crashes,
         NEW a \in Sub \cup {0}, a \in Sub => (active' # active \/ role' # role => Ended(a, pay')),
         active \subseteq active' \/ (a \in Sub /\ active' = active \ {UserOf[a]}),
         role \subseteq role' \/ (a \in Sub /\ role' = role \ {UserOf[a]}),
         \A s \in Sub : Activating(s) => Activating(s)' \/ (UserOf[s] \in active' /\ Granting(s)'),
         \A s \in Sub : Granting(s) => Granting(s)' \/ UserOf[s] \in role'
  PROVE  \A s \in Sub : Served(s)'
<1> SUFFICES ASSUME NEW s \in Sub, Serves(s)', crashes' = 0
             PROVE  /\ UserOf[s] \in active' \/ Activating(s)'
                    /\ UserOf[s] \in role' \/ Granting(s)'
  BY DEF Served
<1>1. OnePaid'
  BY PayKept DEF AccessInv
<1>2. /\ \A q, p \in Payment : Known(p, pay') /\ Known(q, pay') /\ pay'[p].for = pay'[q].for => p = q
      /\ \A p \in Payment : Known(p, pay') => ToldIn(p, pay')
  BY <1>1 DEF OnePaid, Known, ToldIn
<1>3. ~Ended(s, pay')
  <2>1. sub'[s].mp # None /\ pay'[sub'[s].mp].status = "approved"
    BY DEF Serves, Stands
  <2>2. Owned(sub'[s].mp, s, pay')
    BY <2>1 DEF OwnInv, SubOwn
  <2>3. QED
    BY <1>2, <2>1, <2>2 DEF Ended, For, Owned
<1>4. CASE Activating(s)'
  BY <1>4 DEF Activating, Granting
<1>5. CASE ~Activating(s)'
  <2>1. Serves(s) /\ crashes = 0
    BY <1>5, ServesBefore DEF AccessInv
  <2>2. UserOf[s] \in active \/ Activating(s)
    BY <2>1 DEF AccessInv, Served
  <2>3. UserOf[s] \in role \/ Granting(s)
    BY <2>1 DEF AccessInv, Served
  <2>4. ASSUME a \in Sub, active' # active \/ role' # role
        PROVE  UserOf[a] # UserOf[s]
    BY <1>3, <2>4 DEF OneEach
  <2>5. UserOf[s] \in active => UserOf[s] \in active'
    BY <2>4
  <2>6. UserOf[s] \in role => UserOf[s] \in role'
    BY <2>4
  <2>7. QED
    BY <1>5, <2>2, <2>3, <2>5, <2>6
<1>6. QED
  BY <1>4, <1>5

\* A step of a request keeps the invariant.
LEMMA WorkerAccess ==
  ASSUME SubscriptionsAssumption, TypeInv, OwnInv, OwnInv', AllTold, PaidOnce, OneEach, AccessInv, PayMoves,
         \A s \in Sub : SubMoves(s), crashes' = crashes, NEW w \in Worker, WorkerMoves(w)
  PROVE  AccessInv'
<1>1. OnePaid' /\ \A s \in Sub : Ended(s, pay) => Ended(s, pay')
  BY PayKept DEF AccessInv
<1>2. ActiveHolds'
  BY HoldsKept DEF AccessInv
<1>3. PICK c \in Call : c = call[w] /\ CallOK(c)
  BY DEF TypeInv, TypeOK
<1>4. c.phase \in EndPhase => c.s \in Sub /\ Ended(c.s, pay')
  BY <1>1, <1>3 DEF EndPhase, AccessInv, OnlyEnded, Ended
<1>5. OnlyEnded' /\ SyncRests'
  <2>1. ASSUME NEW v \in Worker, call'[v].phase \in EndPhase PROVE Ended(call'[v].s, pay')
    <3>1. CASE v = w
      BY <1>3, <1>4, <2>1, <3>1 DEF WorkerMoves
    <3>2. CASE v # w
      <4>1. call'[v] = call[v]
        BY <3>2 DEF WorkerMoves
      <4>2. call[v].s \in Sub
        BY <2>1, <4>1 DEF AccessInv, OnlyEnded, Ended
      <4>3. QED
        BY <1>1, <2>1, <4>1, <4>2 DEF AccessInv, OnlyEnded
    <3>3. QED
      BY <3>1, <3>2
  <2>2. sync' = sync /\ SyncOK(sync)
    BY DEF WorkerMoves, TypeInv
  <2>3. sync.phase \in {"deactivate", "unrole"} => Ended(sync.item.s, pay')
    BY <1>1, <2>2 DEF SyncOK, AccessInv, OnlyEnded
  <2>4. QED
    BY <2>1, <2>2, <2>3 DEF AccessInv, OnlyEnded, SyncRests
<1>6. ASSUME NEW s \in Sub
      PROVE  /\ Activating(s) => Activating(s)' \/ (UserOf[s] \in active' /\ Granting(s)')
             /\ Granting(s) => Granting(s)' \/ UserOf[s] \in role'
  <2>1. sync' = sync
    BY DEF WorkerMoves
  <2>2. ASSUME NEW v \in Worker, call[v].s = s, call[v].phase \in {"user", "role", "grant"}
        PROVE  /\ call[v].phase = "user" => Activating(s)' \/ (UserOf[s] \in active' /\ Granting(s)')
               /\ Granting(s)' \/ UserOf[s] \in role'
    <3>1. CASE v = w
      BY <2>2, <3>1 DEF WorkerMoves, Granting
    <3>2. CASE v # w
      <4>1. call'[v] = call[v]
        BY <3>2 DEF WorkerMoves
      <4>2. QED
        BY <2>2, <4>1 DEF Activating, Granting
    <3>3. QED
      BY <3>1, <3>2
  <2>3. CASE sync.item.s = s /\ sync.phase \in {"row", "user", "role", "grant"}
    <3>1. Granting(s)' /\ (sync.phase \in {"row", "user"} => Activating(s)')
      BY <2>1, <2>3 DEF Granting, Activating
    <3>2. sync.phase \notin {"row", "user"} /\ Activating(s) => \E v \in Worker : call[v].s = s /\ call[v].phase = "user"
      BY DEF Activating
    <3>3. QED
      BY <2>2, <3>1, <3>2
  <2>4. QED
    BY <2>2, <2>3 DEF Activating, Granting
<1>7. \A s \in Sub : Served(s)'
  <2>1. CASE c.phase \in EndPhase
    <3>1. /\ active \subseteq active' \/ active' = active \ {UserOf[c.s]}
          /\ role \subseteq role' \/ role' = role \ {UserOf[c.s]}
      BY <1>3 DEF WorkerMoves
    <3>2. QED
      BY <1>4, <1>6, <2>1, <3>1, ServedKept
  <2>2. CASE c.phase \notin EndPhase
    <3>1. active \subseteq active' /\ role \subseteq role' /\ 0 \notin Sub
      BY <1>3, <2>2 DEF WorkerMoves, Sub, SubscriptionsAssumption
    <3>2. QED
      BY <1>6, <3>1, ServedKept
  <2>3. QED
    BY <2>1, <2>2
<1>8. QED
  BY <1>1, <1>2, <1>5, <1>7 DEF AccessInv

\* A step of the job keeps the invariant.
LEMMA SyncAccess ==
  ASSUME SubscriptionsAssumption, TypeInv, TypeInv', OwnInv, OwnInv', AllTold, PaidOnce, OneEach, AccessInv,
         PayMoves, \A s \in Sub : SubMoves(s), crashes' = crashes, SyncMoves
  PROVE  AccessInv'
<1>1. OnePaid' /\ \A s \in Sub : Ended(s, pay) => Ended(s, pay')
  BY PayKept DEF AccessInv
<1>2. ActiveHolds'
  BY HoldsKept DEF AccessInv
<1>3. PICK y \in Sync : y = sync /\ SyncOK(y)
  BY DEF TypeInv, TypeOK
<1>4. y.phase \in {"deactivate", "unrole"} => y.item.s \in Sub /\ Ended(y.item.s, pay')
  BY <1>1, <1>3 DEF SyncOK, AccessInv, OnlyEnded
<1>5. OnlyEnded' /\ SyncRests'
  <2>1. ASSUME NEW v \in Worker, call'[v].phase \in EndPhase PROVE Ended(call'[v].s, pay')
    <3>1. call'[v] = call[v]
      BY DEF SyncMoves
    <3>2. call[v].s \in Sub
      BY <2>1, <3>1 DEF AccessInv, OnlyEnded, Ended
    <3>3. QED
      BY <1>1, <2>1, <3>1, <3>2 DEF AccessInv, OnlyEnded
  <2>2. sync'.phase \in {"deactivate", "unrole"} => Ended(sync'.item.s, pay')
    BY <1>3, <1>4 DEF SyncMoves
  <2>3. SyncRests'
    BY DEF SyncMoves
  <2>4. QED
    BY <2>1, <2>2, <2>3 DEF OnlyEnded
<1>6. ASSUME NEW s \in Sub
      PROVE  /\ Activating(s) => Activating(s)' \/ (UserOf[s] \in active' /\ Granting(s)')
             /\ Granting(s) => Granting(s)' \/ UserOf[s] \in role'
  <2>1. call' = call
    BY DEF SyncMoves
  <2>2. ASSUME NEW v \in Worker, call[v].s = s, call[v].phase \in {"user", "role", "grant"}
        PROVE  Granting(s)' /\ (call[v].phase = "user" => Activating(s)')
    BY <2>1, <2>2 DEF Activating, Granting
  <2>3. ASSUME sync.item.s = s, sync.phase \in {"row", "user", "role", "grant"}
        PROVE  /\ sync.phase \in {"row", "user"} => Activating(s)' \/ (UserOf[s] \in active' /\ Granting(s)')
               /\ Granting(s)' \/ UserOf[s] \in role'
    BY <2>3 DEF SyncMoves, Activating, Granting
  <2>4. QED
    BY <2>2, <2>3 DEF Activating, Granting
<1>7. \A s \in Sub : Served(s)'
  <2>1. CASE y.phase \in {"deactivate", "unrole"}
    <3>1. active \subseteq active' /\ (role \subseteq role' \/ role' = role \ {UserOf[y.item.s]})
      BY <1>3 DEF SyncMoves
    <3>2. QED
      BY <1>4, <1>6, <2>1, <3>1, ServedKept
  <2>2. CASE y.phase \notin {"deactivate", "unrole"}
    <3>1. active \subseteq active' /\ role \subseteq role' /\ 0 \notin Sub
      BY <1>3, <2>2 DEF SyncMoves, Sub, SubscriptionsAssumption
    <3>2. QED
      BY <1>6, <3>1, ServedKept
  <2>3. QED
    BY <2>1, <2>2
<1>8. QED
  BY <1>1, <1>2, <1>5, <1>7 DEF AccessInv

\* So does a step of a user or of the gateway, ...
LEMMA OutsideAccess ==
  ASSUME SubscriptionsAssumption, TypeInv, OwnInv, OwnInv', AllTold, PaidOnce, OneEach, AccessInv, PayMoves,
         \A s \in Sub : SubMoves(s), call' = call, sync' = sync, active' = active, role' = role,
         crashes' = crashes
  PROVE  AccessInv'
<1>1. OnePaid' /\ \A s \in Sub : Ended(s, pay) => Ended(s, pay')
  BY PayKept DEF AccessInv
<1>2. ActiveHolds'
  BY HoldsKept DEF AccessInv
<1>3. \A s : Ended(s, pay) => Ended(s, pay')
  BY <1>1 DEF Ended
<1>4. OnlyEnded' /\ SyncRests'
  BY <1>3 DEF AccessInv, OnlyEnded, SyncRests
<1>5. \A s \in Sub : (Activating(s) => Activating(s)') /\ (Granting(s) => Granting(s)')
  BY DEF Activating, Granting
<1>6. 0 \notin Sub
  BY DEF Sub, SubscriptionsAssumption
<1>7. \A s \in Sub : Served(s)'
  BY <1>5, <1>6, ServedKept
<1>8. QED
  BY <1>1, <1>2, <1>4, <1>7 DEF AccessInv

\* ... and a crash, after which no access is promised.
LEMMA CrashAccess ==
  ASSUME SubscriptionsAssumption, TypeInv, AccessInv,
         EntryFails \/ SyncCrash \/ \E w \in Worker : Crash(w)
  PROVE  AccessInv'
<1>1. pay' = pay /\ sub' = sub /\ crashes' = crashes + 1 /\ crashes \in Nat
  BY DEF EntryFails, SyncCrash, Crash, TypeInv, TypeOK, SubscriptionsAssumption
<1>2. OnePaid' /\ ActiveHolds'
  BY <1>1 DEF AccessInv, OnePaid, ActiveHolds, Known, ToldIn
<1>3. \A w \in Worker : call'[w] = call[w] \/ call'[w].phase = "idle"
  BY DEF EntryFails, SyncCrash, Crash, Return, Becomes, NoCall, TypeInv, TypeOK
<1>4. sync' = sync \/ (sync'.phase = "next")
  <2>1. CASE EntryFails
    BY <2>1, SyncAfter DEF EntryFails
  <2>2. CASE SyncCrash \/ \E w \in Worker : Crash(w)
    BY <2>2 DEF SyncCrash, Crash, NoSync
  <2>3. QED
    BY <2>1, <2>2
<1>5. OnlyEnded' /\ SyncRests'
  <2>1. ASSUME NEW w \in Worker, call'[w].phase \in EndPhase PROVE Ended(call'[w].s, pay')
    BY <1>1, <1>3, <2>1 DEF AccessInv, OnlyEnded, EndPhase
  <2>2. sync'.phase \in {"deactivate", "unrole"} => Ended(sync'.item.s, pay')
    BY <1>1, <1>4 DEF AccessInv, OnlyEnded
  <2>3. SyncRests'
    BY <1>4 DEF AccessInv, SyncRests
  <2>4. QED
    BY <2>1, <2>2, <2>3 DEF OnlyEnded
<1>6. \A s \in Sub : Served(s)'
  BY <1>1 DEF Served
<1>7. QED
  BY <1>2, <1>5, <1>6 DEF AccessInv

\* Nobody has access, and nothing is active, at first.
LEMMA AccessInit == SubscriptionsAssumption /\ Init => AccessInv
<1> SUFFICES ASSUME SubscriptionsAssumption, Init PROVE AccessInv
  OBVIOUS
<1>1. OnePaid /\ ActiveHolds
  BY DEF Init, OnePaid, ActiveHolds, Known
<1>2. OnlyEnded /\ SyncRests
  BY DEF Init, OnlyEnded, SyncRests, NoCall, NoSync, EndPhase
<1>3. \A s \in Sub : ~Serves(s)
  BY DEF Init, Serves
<1>4. QED
  BY <1>1, <1>2, <1>3 DEF AccessInv, Served

\* Every step keeps the access of whoever paid.
LEMMA AccessInvStep ==
  ASSUME SubscriptionsAssumption, TypeInv, TypeInv', OwnInv, OwnInv', AllTold, PaidOnce, OneEach, AccessInv,
         [Next]_vars
  PROVE  AccessInv'
<1>1. CASE UNCHANGED vars
  <2>1. PayMoves /\ \A s \in Sub : SubMoves(s)
    BY <1>1 DEF vars, PayMoves, SubMoves
  <2>2. QED
    BY <1>1, <2>1, OutsideAccess DEF vars
<1>2. CASE UserStep \/ GatewayStep
  BY <1>2, OutsideMoves, OutsideAccess
<1>3. CASE \E w \in Worker : Request(w) \/ CallStep(w)
  <2>1. PICK w \in Worker : Request(w) \/ CallStep(w)
    BY <1>3
  <2>2. PayMoves /\ (\A s \in Sub : SubMoves(s)) /\ WorkerMoves(w) /\ crashes' = crashes
    BY <2>1, RequestMoves, LinkMoves, AccessMoves, RefundMoves DEF CallStep, AccessInv
  <2>3. QED
    BY <2>2, WorkerAccess
<1>4. CASE SyncStep
  <2>1. SyncRests /\ OnePaid
    BY DEF AccessInv
  <2>2. PayMoves /\ (\A s \in Sub : SubMoves(s)) /\ SyncMoves /\ crashes' = crashes
    BY <1>4, <2>1, ImportMoves, RowsMoves, SubsMoves, ProcessMoves DEF SyncStep
  <2>3. QED
    BY <2>2, SyncAccess
<1>5. CASE EntryFails \/ SyncCrash \/ \E w \in Worker : Crash(w)
  BY <1>5, CrashAccess
<1>6. QED
  BY <1>1, <1>2, <1>3, <1>4, <1>5 DEF Next

\* Whoever has an active subscription whose payment stands is active and has the
\* role, however requests, rounds and refunds cross, when none of them died, the
\* gateway tells the preference of each payment, a subscription is paid once and
\* a user has one (processApprovedPayment of the API and of the job,
\* refundPayment of the administrator).
THEOREM SubscriptionsActiveHasAccess ==
  ASSUME AllTold, PaidOnce, OneEach
  PROVE  Spec => []ActiveHasAccess
<1>1. SubscriptionsAssumption /\ Init => AccessInv
  BY AccessInit
<1>2. SubscriptionsAssumption /\ TypeInv /\ OwnInv /\ AccessInv /\ [Next]_vars => AccessInv'
  BY TypeStep, OwnStep, AccessInvStep
<1>3. AccessInv => ActiveHasAccess
  BY DEF AccessInv, Served, Serves, ActiveHasAccess, Activating, Granting
<1>4. QED
  BY <1>1, <1>2, <1>3, Ownership, SubscriptionsAssumption, PTL DEF Spec
=============================================================================
