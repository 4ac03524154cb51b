---------------------------- MODULE Subscriptions ----------------------------
(***************************************************************************)
(* Subscriptions paid through Mercado Pago, with the native provider.      *)
(* Three parties write the same rows without a transaction around them:    *)
(* the API, which handles the gateway's notifications (any number of times *)
(* each, two at a time if Worker says so) and the refunds of an            *)
(* administrator; the sync job of the monitors, which goes through the     *)
(* gateway's payments, its own rows and its subscriptions one after        *)
(* another on lists it read before; and the users, who check out, renew    *)
(* and cancel.  The gateway decides about payments on its own.             *)
(*                                                                         *)
(* Subscriptions are numbered in the order of their creation, and cost the *)
(* same: an amount tells none of them from another.  All of them are       *)
(* created within the seven days the searches by amount look back.  A      *)
(* payment that carries no preference matches no subscription's, and the   *)
(* external_reference of one names its plan and not its user               *)
(* (mercadopago.service.ts:168), so the import never matches by it.        *)
(***************************************************************************)
EXTENDS Naturals, Sequences, FiniteSets

CONSTANTS
  MaxSub,    \* bound: subscriptions
  Payment,   \* payments of the gateway
  User,
  UserOf,    \* whose a subscription is
  Worker,    \* requests the API handles at a time
  MaxCrash,  \* bound: requests, rounds and entries of a round that fail
  PaymentsListed,  \* payments of the gateway a round looks at (1000 in the code)
  SubsListed,      \* subscriptions a round looks at (200 in the code)
  Enabled,   \* features a run allows
  None

Feature ==
  { "RETRY",    \* a subscription may be paid more than once
    "PIX",      \* payments without a preference
    "UNTOLD",   \* the gateway does not tell a payment's preference
    "OTHER_PAYER",  \* the payer's e-mail may be another user's, or nobody's
    "REFUND" }  \* payments are given back

Sub == 1..MaxSub

ASSUME SubscriptionsAssumption ==
  /\ MaxSub \in Nat /\ MaxCrash \in Nat
  /\ PaymentsListed \in Nat /\ SubsListed \in Nat
  /\ UserOf \in [Sub -> User]
  /\ Enabled \subseteq Feature
  /\ None \notin Payment \cup User

VARIABLES
  pay,     \* the gateway's payments
  sub,     \* subscriptions
  rows,    \* subscription_payments, of each payment in the order of their ids
  active,  \* users with is_active
  role,    \* users with the subscriber role
  call,    \* what each request of the API is doing
  sync,    \* what the sync job is doing
  crashes  \* how often one of them died

vars == <<pay, sub, rows, active, role, call, sync, crashes>>

PayStatus == {"none", "pending", "approved", "rejected", "cancelled", "refunded"}
SubStatus == {"NONE", "PENDING_PAYMENT", "ACTIVE", "CANCELLED"}
RowStatus == {"PENDING", "APPROVED", "REJECTED", "CANCELLED", "REFUNDED"}

DbStatusUnmapped == [st \in PayStatus |-> st]  \* mutant
\* mapMpStatusToDbStatus
DbStatus ==
  [none |-> "PENDING", pending |-> "PENDING", approved |-> "APPROVED",
   rejected |-> "REJECTED", cancelled |-> "CANCELLED", refunded |-> "REFUNDED"]

PayRow == [status : PayStatus, for : Sub \cup {0}, pref : BOOLEAN, made : 0..MaxSub,
           payer : User \cup {None}]
SubRow == [status : SubStatus, mp : Payment \cup {None}]
Row    == [sub : Sub \cup {0}, status : RowStatus]  \* 0: subscription_id is null

CallPhase == {"idle", "find", "payer", "any", "row", "write", "link", "activate", "cancel",
              "user", "role", "grant", "refundRow", "refundSub", "refundUser", "refundRole"}
Call == [phase : CallPhase, kind : {"notify", "pix", "refund"}, p : Payment \cup {None},
         s : Sub \cup {0}, status : PayStatus, mp : Payment \cup {None}, found : BOOLEAN]
NoCall == [phase |-> "idle", kind |-> "notify", p |-> None, s |-> 0, status |-> "none",
           mp |-> None, found |-> FALSE]

\* One entry of a list the job goes through: a payment and its status for the
\* gateway, a row (the i-th of its payment), or a subscription and its payment.
Item == [p : Payment \cup {None}, i : Nat, s : Sub \cup {0}, status : PayStatus \cup RowStatus,
         was : SubStatus]
NoItem == [p |-> None, i |-> 0, s |-> 0, status |-> "none", was |-> "NONE"]

\* A payment of a preference, as the gateway tells it.
Order == [p : Payment, status : PayStatus]

SyncPhase == {"next", "create", "deactivate", "unrole", "subRow", "orderRow", "orderLink",
              "process", "activate", "row", "user", "role", "grant"}
Sync == [part : {"off", "import", "rows", "subs"}, todo : SUBSET Item, orders : SUBSET Order,
         phase : SyncPhase, item : Item, p : Payment \cup {None}, status : PayStatus,
         found : BOOLEAN]
NoSync == [part |-> "off", todo |-> {}, orders |-> {}, phase |-> "next", item |-> NoItem,
           p |-> None, status |-> "none", found |-> FALSE]

TypeOK ==
  /\ pay \in [Payment -> PayRow]
  /\ sub \in [Sub -> SubRow]
  /\ rows \in [Payment -> Seq(Row)]
  /\ active \subseteq User
  /\ role \subseteq User
  /\ call \in [Worker -> Call]
  /\ sync \in Sync
  /\ crashes \in 0..MaxCrash

Init ==
  /\ pay = [p \in Payment |->
              [status |-> "none", for |-> 0, pref |-> FALSE, made |-> 0, payer |-> None]]
  /\ sub = [s \in Sub |-> [status |-> "NONE", mp |-> None]]
  /\ rows = [p \in Payment |-> <<>>]
  /\ active = {} /\ role = {}
  /\ call = [w \in Worker |-> NoCall]
  /\ sync = NoSync
  /\ crashes = 0

Exists(s) == sub[s].status # "NONE"
Created == {s \in Sub : Exists(s)}
Newest(S) == CHOOSE s \in S : \A t \in S : t <= s
SubsOf(u) == {s \in Created : UserOf[s] = u}

-----------------------------------------------------------------------------
(* Users and the gateway.                                                  *)

\* createCheckout: a preference and a subscription that waits for its payment.
\* renewSubscription makes the same of an active one.
Checkout(s) ==
  /\ ~Exists(s) /\ \A t \in 1..(s - 1) : Exists(t)
  /\ sub' = [sub EXCEPT ![s] = [status |-> "PENDING_PAYMENT", mp |-> None]]
  /\ UNCHANGED <<pay, rows, active, role, call, sync, crashes>>

\* A user or an administrator cancels.
CancelSubscription(s) ==
  /\ Exists(s)
  /\ sub' = [sub EXCEPT ![s].status = "CANCELLED"]
  /\ UNCHANGED <<pay, rows, active, role, call, sync, crashes>>

PaidFor(s) == {p \in Payment : pay[p].for = s}

Payers(s) == IF "OTHER_PAYER" \in Enabled THEN User \cup {None} ELSE {UserOf[s]}

NewPayment(p, s, pref) ==
  /\ pay[p].status = "none"
  /\ Exists(s)
  /\ "RETRY" \notin Enabled => PaidFor(s) = {}
  /\ \E u \in Payers(s) :
       pay' = [pay EXCEPT ![p] = [status |-> "pending", for |-> s, pref |-> pref,
                                  made |-> Newest(Created), payer |-> u]]

\* The payer pays on the page of the preference.
Pay(p, s) ==
  /\ NewPayment(p, s, TRUE)
  /\ UNCHANGED <<sub, rows, active, role, call, sync, crashes>>

Decide(p) ==
  /\ pay[p].status = "pending"
  /\ \E st \in {"approved", "rejected", "cancelled"} : pay' = [pay EXCEPT ![p].status = st]
  /\ UNCHANGED <<sub, rows, active, role, call, sync, crashes>>

\* A refund made on the gateway's own pages.
GatewayRefund(p) ==
  /\ "REFUND" \in Enabled
  /\ pay[p].status = "approved"
  /\ pay' = [pay EXCEPT ![p].status = "refunded"]
  /\ UNCHANGED <<sub, rows, active, role, call, sync, crashes>>

-----------------------------------------------------------------------------
(* The searches for the subscription a payment belongs to.                 *)

Told(p) == pay[p].pref /\ "UNTOLD" \notin Enabled
ByKey(p) == {s \in Created : sub[s].mp = p \/ (Told(p) /\ pay[p].for = s)}
Open == {s \in Created : sub[s].status = "PENDING_PAYMENT" /\ sub[s].mp = None}
OpenBefore(p) == {s \in Open : s <= pay[p].made}
OpenOfPayer(p) == Open \cap SubsOf(pay[p].payer)

\* Preferably one that was there when the payment was made.
PickOfPayer(p) ==
  IF OpenOfPayer(p) \cap OpenBefore(p) # {} THEN Newest(OpenOfPayer(p) \cap OpenBefore(p))
                                            ELSE Newest(OpenOfPayer(p))

-----------------------------------------------------------------------------
(* The API.                                                                *)

Becomes(w, c) == call' = [call EXCEPT ![w] = c]
Goes(w, phase) == call' = [call EXCEPT ![w].phase = phase]
Return(w) == Becomes(w, NoCall)
CallUser(w) == UserOf[call[w].s]

\* From here on a request only needs to know its subscription.
Access(w, phase) == Becomes(w, [NoCall EXCEPT !.phase = phase, !.s = call[w].s])

\* A notification: what the gateway says of the payment now.
Notify(w, p) ==
  /\ call[w].phase = "idle"
  /\ pay[p].status # "none"
  /\ Becomes(w, [NoCall EXCEPT !.phase = "find", !.p = p, !.status = pay[p].status])
  /\ UNCHANGED <<pay, sub, rows, active, role, sync, crashes>>

\* createPixPayment: a payment without a preference, recorded at once, with a
\* subscription only if the request names it.
Pix(w, p, s) ==
  /\ "PIX" \in Enabled
  /\ call[w].phase = "idle"
  /\ NewPayment(p, s, FALSE)
  /\ \E named \in {s, 0} :
       Becomes(w, [NoCall EXCEPT !.phase = "row", !.kind = "pix", !.p = p, !.s = named,
                                 !.status = "pending"])
  /\ UNCHANGED <<sub, rows, active, role, sync, crashes>>

FoundSub(w, s) == Becomes(w, [call[w] EXCEPT !.phase = "row", !.s = s, !.mp = sub[s].mp])

FindSub(w) ==
  /\ call[w].phase = "find"
  /\ \/ \E s \in ByKey(call[w].p) : FoundSub(w, s)
     \/ ByKey(call[w].p) = {} /\ Goes(w, "payer")
  /\ UNCHANGED <<pay, sub, rows, active, role, sync, crashes>>

FindByPayer(w) ==
  /\ call[w].phase = "payer"
  /\ IF OpenOfPayer(call[w].p) # {}
     THEN FoundSub(w, PickOfPayer(call[w].p))
     ELSE Goes(w, "any")
  /\ UNCHANGED <<pay, sub, rows, active, role, sync, crashes>>

FindByAmount(w) ==
  /\ call[w].phase = "any"
  /\ IF OpenBefore(call[w].p) # {}
     THEN FoundSub(w, Newest(OpenBefore(call[w].p)))
     ELSE Return(w)
  /\ UNCHANGED <<pay, sub, rows, active, role, sync, crashes>>

FindRow(w) ==
  /\ call[w].phase = "row"
  /\ Becomes(w, [call[w] EXCEPT !.phase = "write", !.found = rows[call[w].p] # <<>>])
  /\ UNCHANGED <<pay, sub, rows, active, role, sync, crashes>>

NewRow(p, s, status) == rows' = [rows EXCEPT ![p] = Append(@, [sub |-> s, status |-> DbStatus[status]])]
SetRow(p, status) == rows' = [rows EXCEPT ![p][1].status = DbStatus[status]]

\* createPixPayment leaves the subscription alone when the row was there, and
\* links nothing when it found none.
WriteRow(w) ==
  /\ call[w].phase = "write"
  /\ IF call[w].found
     THEN SetRow(call[w].p, call[w].status)
     ELSE NewRow(call[w].p, call[w].s, call[w].status)
  /\ IF call[w].kind = "pix" /\ (call[w].found \/ call[w].s = 0)
     THEN Return(w)
     ELSE Becomes(w, [call[w] EXCEPT !.phase = "link", !.kind = "notify", !.found = FALSE])
  /\ UNCHANGED <<pay, sub, active, role, sync, crashes>>

ActivatesPending(w) ==  \* mutant
  /\ call[w].phase = "link"
  /\ sub' = [sub EXCEPT ![call[w].s].mp = call[w].p]
  /\ IF call[w].status \in {"rejected", "cancelled"}
     THEN Access(w, "cancel")
     ELSE Becomes(w, [call[w] EXCEPT !.phase = "activate", !.mp = None])
  /\ UNCHANGED <<pay, rows, active, role, sync, crashes>>

\* The subscription holds the payment handled last.
LinkPayment(w) ==
  /\ call[w].phase = "link"
  /\ sub' = [sub EXCEPT ![call[w].s].mp = IF call[w].mp # call[w].p THEN call[w].p ELSE @]
  /\ \/ call[w].status = "approved" /\ Becomes(w, [call[w] EXCEPT !.phase = "activate", !.mp = None])
     \/ call[w].status \in {"rejected", "cancelled"} /\ Access(w, "cancel")
     \/ call[w].status \in {"pending", "refunded"} /\ Return(w)
  /\ UNCHANGED <<pay, rows, active, role, sync, crashes>>

Activate(w) ==
  /\ call[w].phase = "activate"
  /\ sub' = [sub EXCEPT ![call[w].s] = [status |-> "ACTIVE", mp |-> call[w].p]]
  /\ Access(w, "user")
  /\ UNCHANGED <<pay, rows, active, role, sync, crashes>>

ActivateUser(w) ==
  /\ call[w].phase = "user"
  /\ active' = active \cup {CallUser(w)}
  /\ Goes(w, "role")
  /\ UNCHANGED <<pay, sub, rows, role, sync, crashes>>

FindActive(w) ==  \* mutant
  /\ call[w].phase = "role"
  /\ IF CallUser(w) \in active THEN Return(w) ELSE Goes(w, "grant")
  /\ UNCHANGED <<pay, sub, rows, active, role, sync, crashes>>

FindRole(w) ==
  /\ call[w].phase = "role"
  /\ IF CallUser(w) \in role THEN Return(w) ELSE Goes(w, "grant")
  /\ UNCHANGED <<pay, sub, rows, active, role, sync, crashes>>

\* The unique key of user_roles refuses a second one.
GrantRole(w) ==
  /\ call[w].phase = "grant"
  /\ role' = role \cup {CallUser(w)}
  /\ Return(w)
  /\ UNCHANGED <<pay, sub, rows, active, sync, crashes>>

\* The payment was refused or cancelled.
CancelSub(w) ==
  /\ call[w].phase = "cancel"
  /\ sub' = [sub EXCEPT ![call[w].s].status = "CANCELLED"]
  /\ Return(w)
  /\ UNCHANGED <<pay, rows, active, role, sync, crashes>>

\* An administrator gives a payment back ...
Refund(w, p) ==
  /\ "REFUND" \in Enabled
  /\ call[w].phase = "idle"
  /\ rows[p] # <<>> /\ rows[p][1].status # "REFUNDED"
  /\ pay[p].status = "approved"
  /\ pay' = [pay EXCEPT ![p].status = "refunded"]
  /\ Becomes(w, [NoCall EXCEPT !.phase = "refundRow", !.kind = "refund", !.p = p, !.s = rows[p][1].sub])
  /\ UNCHANGED <<sub, rows, active, role, sync, crashes>>

RefundRow(w) ==
  /\ call[w].phase = "refundRow"
  /\ SetRow(call[w].p, "refunded")
  /\ Return(w) \/ (call[w].s # 0 /\ Access(w, "refundSub"))
  /\ UNCHANGED <<pay, sub, active, role, sync, crashes>>

\* ... and may cancel the subscription too, if the row names one.
RefundSub(w) ==
  /\ call[w].phase = "refundSub"
  /\ sub' = [sub EXCEPT ![call[w].s].status = "CANCELLED"]
  /\ Goes(w, "refundUser")
  /\ UNCHANGED <<pay, rows, active, role, sync, crashes>>

RefundUser(w) ==
  /\ call[w].phase = "refundUser"
  /\ active' = active \ {CallUser(w)}
  /\ Goes(w, "refundRole")
  /\ UNCHANGED <<pay, sub, rows, role, sync, crashes>>

RefundRole(w) ==
  /\ call[w].phase = "refundRole"
  /\ role' = role \ {CallUser(w)}
  /\ Return(w)
  /\ UNCHANGED <<pay, sub, rows, active, sync, crashes>>

\* The request dies, or a statement fails and nothing runs it again.
Crash(w) ==
  /\ crashes < MaxCrash /\ crashes' = crashes + 1
  /\ call[w].phase # "idle"
  /\ Return(w)
  /\ UNCHANGED <<pay, sub, rows, active, role, sync>>

LinkStep(w) == FindSub(w) \/ FindByPayer(w) \/ FindByAmount(w) \/ FindRow(w) \/ WriteRow(w) \/ LinkPayment(w)
AccessStep(w) == Activate(w) \/ ActivateUser(w) \/ FindRole(w) \/ GrantRole(w) \/ CancelSub(w)
RefundStep(w) == RefundRow(w) \/ RefundSub(w) \/ RefundUser(w) \/ RefundRole(w)
CallStep(w) == LinkStep(w) \/ AccessStep(w) \/ RefundStep(w)

-----------------------------------------------------------------------------
(* The sync job.  A round goes through three lists, and through each in an *)
(* order that does not matter here.                                        *)

SyncUser == UserOf[sync.item.s]
SyncGoes(phase) == sync' = [sync EXCEPT !.phase = phase]
NextItem == sync' = [sync EXCEPT !.phase = "next", !.p = None, !.status = "none", !.found = FALSE,
                                 !.item = IF sync.orders = {} THEN NoItem ELSE @]
Lists(part, todo) == sync' = [NoSync EXCEPT !.part = part, !.todo = todo]

\* The job is between two entries of a list.
Between(part) == sync.part = part /\ sync.phase = "next" /\ sync.orders = {}
Take(item) == item \in sync.todo
Drop(item) == sync' = [sync EXCEPT !.todo = @ \ {item}]

Existing == {p \in Payment : pay[p].status # "none"}

\* The payments the gateway has, as they are now, page by page: a page that
\* cannot be read ends the search.
ListPayments ==
  /\ sync.part = "off"
  /\ \E listed \in SUBSET Existing :
       /\ Cardinality(listed) <= PaymentsListed
       /\ Lists("import", {[NoItem EXCEPT !.p = p, !.status = pay[p].status] : p \in listed})
  /\ UNCHANGED <<pay, sub, rows, active, role, call, crashes>>

\* A payment that has its row: only the row is brought up to date.
ImportKnown(item) ==
  /\ Between("import") /\ Take(item)
  /\ rows[item.p] # <<>>
  /\ SetRow(item.p, item.status)
  /\ Drop(item)
  /\ UNCHANGED <<pay, sub, active, role, call, crashes>>

ImportByPayer(p) ==  \* mutant
  IF OpenOfPayer(p) # {} THEN PickOfPayer(p) ELSE IF Told(p) THEN pay[p].for ELSE 0

ImportSub(p) ==
  IF Told(p) THEN pay[p].for
  ELSE IF OpenOfPayer(p) # {} THEN PickOfPayer(p)
  ELSE IF OpenBefore(p) # {} THEN Newest(OpenBefore(p))
  ELSE 0

ImportFind(item) ==
  /\ Between("import") /\ Take(item)
  /\ rows[item.p] = <<>>
  /\ IF ImportSub(item.p) = 0
     THEN Drop(item)
     ELSE sync' = [sync EXCEPT !.todo = @ \ {item}, !.phase = "create", !.p = item.p,
                               !.item = [NoItem EXCEPT !.s = ImportSub(item.p)], !.status = item.status]
  /\ UNCHANGED <<pay, sub, rows, active, role, call, crashes>>

\* An approved payment of a subscription that waits is processed.
ProcessIf(condition) == IF condition THEN SyncGoes("process") ELSE NextItem

ImportRow ==
  /\ sync.phase = "create"
  /\ NewRow(sync.p, sync.item.s, sync.status)
  /\ ProcessIf(sync.status = "approved" /\ sub[sync.item.s].status = "PENDING_PAYMENT")
  /\ UNCHANGED <<pay, sub, active, role, call, crashes>>

\* Every row, with the status its subscription has now.
StatusOf(s) == IF s = 0 THEN "NONE" ELSE sub[s].status

ListRows ==
  /\ Between("import") /\ sync.todo = {}
  /\ Lists("rows", UNION {{[p |-> p, i |-> i, s |-> rows[p][i].sub, status |-> rows[p][i].status,
                            was |-> StatusOf(rows[p][i].sub)] : i \in DOMAIN rows[p]} : p \in Payment})
  /\ UNCHANGED <<pay, sub, rows, active, role, call, crashes>>

\* The subscription follows its payment only when the row was out of date.
RefreshRow(item) ==
  LET new == DbStatus[pay[item.p].status]
      after == IF new = "APPROVED" /\ item.was = "PENDING_PAYMENT" THEN "process"
               ELSE IF new \in {"REFUNDED", "CANCELLED"} /\ item.was = "ACTIVE" THEN "deactivate"
               ELSE "next" IN
  /\ Between("rows") /\ Take(item)
  /\ rows' = IF new = item.status THEN rows ELSE [rows EXCEPT ![item.p][item.i].status = new]
  /\ IF new = item.status \/ after = "next"
     THEN Drop(item)
     ELSE sync' = [sync EXCEPT !.todo = @ \ {item}, !.item = [NoItem EXCEPT !.s = item.s],
                               !.p = item.p, !.phase = after]
  /\ UNCHANGED <<pay, sub, active, role, call, crashes>>

Deactivate ==
  /\ sync.phase = "deactivate"
  /\ sub' = [sub EXCEPT ![sync.item.s].status = "CANCELLED"]
  /\ SyncGoes("unrole")
  /\ UNCHANGED <<pay, rows, active, role, call, crashes>>

RemoveRole ==
  /\ sync.phase = "unrole"
  /\ role' = role \ {SyncUser}
  /\ NextItem
  /\ UNCHANGED <<pay, sub, rows, active, call, crashes>>

\* The newest subscriptions that hold a payment (of all, if none does), and
\* every one that waits without.
Listed(S) == {s \in S : Cardinality({t \in S : t >= s}) <= SubsListed}

ListSubs ==
  LET held == {s \in Created : sub[s].mp # None} IN
  /\ Between("rows") /\ sync.todo = {}
  /\ Lists("subs", {[NoItem EXCEPT !.s = s, !.p = sub[s].mp, !.was = sub[s].status] :
                      s \in Listed(IF held = {} THEN Created ELSE held) \cup Open})
  /\ UNCHANGED <<pay, sub, rows, active, role, call, crashes>>

\* The payments of its preference, as they are now.
FindOrders(item) ==
  /\ Between("subs") /\ Take(item)
  /\ item.p = None
  /\ sync' = [sync EXCEPT !.todo = @ \ {item}, !.item = item,
                !.orders = {[p |-> p, status |-> pay[p].status] :
                             p \in {q \in Existing : pay[q].pref /\ pay[q].for = item.s}}]
  /\ UNCHANGED <<pay, sub, rows, active, role, call, crashes>>

FindOrderRow(o) ==
  /\ sync.part = "subs" /\ sync.phase = "next" /\ o \in sync.orders
  /\ sync' = [sync EXCEPT !.orders = @ \ {o}, !.p = o.p, !.status = o.status,
                !.found = rows[o.p] # <<>>, !.phase = "orderRow"]
  /\ UNCHANGED <<pay, sub, rows, active, role, call, crashes>>

WriteOrderRow ==
  /\ sync.phase = "orderRow"
  /\ IF sync.found THEN UNCHANGED rows ELSE NewRow(sync.p, sync.item.s, sync.status)
  /\ SyncGoes("orderLink")
  /\ UNCHANGED <<pay, sub, active, role, call, crashes>>

\* The first payment of the preference becomes the subscription's.
LinkOrder ==
  /\ sync.phase = "orderLink"
  /\ IF sync.item.p = None
     THEN sub' = [sub EXCEPT ![sync.item.s].mp = sync.p]
     ELSE UNCHANGED sub
  /\ IF sync.status = "approved" /\ sub[sync.item.s].status = "PENDING_PAYMENT"
     THEN sync' = [sync EXCEPT !.item.p = sync.p, !.phase = "process"]
     ELSE sync' = [sync EXCEPT !.item = IF sync.orders = {} THEN NoItem ELSE [@ EXCEPT !.p = sync.p],
                               !.phase = "next", !.p = None, !.status = "none", !.found = FALSE]
  /\ UNCHANGED <<pay, rows, active, role, call, crashes>>

\* The payment a subscription holds.
FindSubRow(item) ==
  /\ Between("subs") /\ Take(item)
  /\ item.p # None
  /\ sync' = [sync EXCEPT !.todo = @ \ {item}, !.item = item, !.p = item.p,
                !.status = pay[item.p].status, !.found = rows[item.p] # <<>>, !.phase = "subRow"]
  /\ UNCHANGED <<pay, sub, rows, active, role, call, crashes>>

SubRowOnly ==  \* mutant
  /\ sync.phase = "subRow"
  /\ IF sync.found THEN SetRow(sync.p, sync.status) ELSE NewRow(sync.p, sync.item.s, sync.status)
  /\ NextItem
  /\ UNCHANGED <<pay, sub, active, role, call, crashes>>

WriteSubRow ==
  /\ sync.phase = "subRow"
  /\ IF sync.found THEN SetRow(sync.p, sync.status) ELSE NewRow(sync.p, sync.item.s, sync.status)
  /\ ProcessIf(sync.status = "approved" /\ sync.item.was = "PENDING_PAYMENT")
  /\ UNCHANGED <<pay, sub, active, role, call, crashes>>

\* processApprovedPayment of the job: an active subscription is left alone.
Process ==
  /\ sync.phase = "process"
  /\ IF sub[sync.item.s].status = "ACTIVE" THEN NextItem ELSE SyncGoes("activate")
  /\ UNCHANGED <<pay, sub, rows, active, role, call, crashes>>

SyncActivate ==
  /\ sync.phase = "activate"
  /\ sub' = [sub EXCEPT ![sync.item.s] = [status |-> "ACTIVE", mp |-> sync.p]]
  /\ SyncGoes("row")
  /\ UNCHANGED <<pay, rows, active, role, call, crashes>>

\* The row is there: each of the three lists made or found it.
ApproveRow ==
  /\ sync.phase = "row"
  /\ SetRow(sync.p, "approved")
  /\ SyncGoes("user")
  /\ UNCHANGED <<pay, sub, active, role, call, crashes>>

SyncActivateUser ==
  /\ sync.phase = "user"
  /\ active' = active \cup {SyncUser}
  /\ SyncGoes("role")
  /\ UNCHANGED <<pay, sub, rows, role, call, crashes>>

SyncFindRole ==
  /\ sync.phase = "role"
  /\ IF SyncUser \in role THEN NextItem ELSE SyncGoes("grant")
  /\ UNCHANGED <<pay, sub, rows, active, role, call, crashes>>

SyncGrantRole ==
  /\ sync.phase = "grant"
  /\ role' = role \cup {SyncUser}
  /\ NextItem
  /\ UNCHANGED <<pay, sub, rows, active, call, crashes>>

EndRound ==
  /\ Between("subs") /\ sync.todo = {}
  /\ sync' = NoSync
  /\ UNCHANGED <<pay, sub, rows, active, role, call, crashes>>

\* A statement or a request to the gateway fails: the error is logged and the
\* list goes on, without what was left of the entry.
EntryFails ==
  /\ crashes < MaxCrash /\ crashes' = crashes + 1
  /\ \/ /\ sync.phase = "next" /\ sync.orders = {}
        /\ \E item \in sync.todo : Drop(item)
     \/ /\ sync.phase # "next" \/ sync.orders # {}
        /\ Lists(sync.part, sync.todo)
  /\ UNCHANGED <<pay, sub, rows, active, role, call>>

\* The job dies, or cannot read a list of its own.
SyncCrash ==
  /\ crashes < MaxCrash /\ crashes' = crashes + 1
  /\ sync.part # "off"
  /\ sync' = NoSync
  /\ UNCHANGED <<pay, sub, rows, active, role, call>>

ImportStep == ListPayments \/ ImportRow \/ \E item \in sync.todo : ImportKnown(item) \/ ImportFind(item)
RowsStep == ListRows \/ Deactivate \/ RemoveRole \/ \E item \in sync.todo : RefreshRow(item)
SubsStep ==
  \/ ListSubs \/ WriteOrderRow \/ LinkOrder \/ WriteSubRow \/ EndRound
  \/ \E item \in sync.todo : FindOrders(item) \/ FindSubRow(item)
  \/ \E o \in sync.orders : FindOrderRow(o)
ProcessStep == Process \/ SyncActivate \/ ApproveRow \/ SyncActivateUser \/ SyncFindRole \/ SyncGrantRole
SyncStep == ImportStep \/ RowsStep \/ SubsStep \/ ProcessStep

-----------------------------------------------------------------------------
UserStep == \E s \in Sub : Checkout(s) \/ CancelSubscription(s)

GatewayStep == \E p \in Payment : Decide(p) \/ GatewayRefund(p) \/ \E s \in Sub : Pay(p, s)

Request(w) == \E p \in Payment : Notify(w, p) \/ Refund(w, p) \/ \E s \in Sub : Pix(w, p, s)

Next ==
  \/ UserStep \/ GatewayStep
  \/ \E w \in Worker : Request(w) \/ CallStep(w) \/ Crash(w)
  \/ SyncStep \/ EntryFails \/ SyncCrash

Spec == Init /\ [][Next]_vars

\* A request goes on once it came in, and the scheduler keeps starting the job;
\* no notification need ever arrive.
FairSpec == Spec /\ WF_vars(SyncStep) /\ \A w \in Worker : WF_vars(CallStep(w))

-----------------------------------------------------------------------------
\* No subscription is active without an approved payment, its own if the gateway
\* tells whose it is, whatever was in progress when the payment was decided,
\* given back or announced once more (processApprovedPayment of the API and of
\* the job act on what they read before they looked for the subscription).
WasPaid(p) == pay[p].status \in {"approved", "refunded"}
ActiveWasPaid ==
  \A s \in Sub : sub[s].status = "ACTIVE" =>
    \E p \in Payment : WasPaid(p) /\ (Told(p) => pay[p].for = s)

\* Every payment a subscription holds is recorded, and one whose preference the
\* gateway tells is recorded as that subscription's and held by no other (the
\* API and the job each search, record and link).  A PIX payment may be recorded
\* for none, and is then found by its payer or its amount.
LinkedIsRecorded ==
  \A s \in Sub, p \in Payment : sub[s].mp = p =>
    /\ rows[p] # <<>>
    /\ Told(p) => /\ \E i \in DOMAIN rows[p] : rows[p][i].sub = s
                  /\ \A t \in Sub : sub[t].mp = p => t = s

\* Whoever has an active subscription whose payment stands can use it, once the
\* request or the round that made it active is through, if none died.
Granting(s) ==
  \/ \E w \in Worker : call[w].s = s /\ call[w].phase \in {"user", "role", "grant"}
  \/ sync.item.s = s /\ sync.phase \in {"row", "user", "role", "grant"}
Stands(p) == p # None /\ pay[p].status = "approved"
ActiveHasAccess ==
  \A s \in Sub : (sub[s].status = "ACTIVE" /\ Stands(sub[s].mp) /\ ~Granting(s) /\ crashes = 0)
    => UserOf[s] \in active \cap role

\* A subscription that waits for a payment the gateway approved does not wait
\* for ever, even if no notification comes (the job).
PaidIsActivated ==
  \A s \in Sub, p \in Payment :
    (sub[s].status = "PENDING_PAYMENT" /\ pay[p].status = "approved" /\ pay[p].for = s /\ pay[p].pref)
      ~> (sub[s].status # "PENDING_PAYMENT" \/ pay[p].status # "approved")

\* A subscription is active by a payment made for it, also if the searches by
\* payer and amount had to find it.
ActivePaidItself == \A s \in Sub : sub[s].status = "ACTIVE" => \E p \in PaidFor(s) : WasPaid(p)

\* A payment has one row.
OneRowPerPayment == \A p \in Payment : Len(rows[p]) <= 1

\* Access ends when the payment is given back.
RefundEndsAccess ==
  \A s \in Sub : (sub[s].status = "ACTIVE" /\ ~Stands(sub[s].mp)) ~> (sub[s].status # "ACTIVE" \/ Stands(sub[s].mp))

\* What becomes of one attempt to pay does not undo another one that was approved.
PaidStaysActive ==
  [][\A s \in Sub : sub[s].status = "ACTIVE" /\ (\E p \in PaidFor(s) : Stands(p)) /\ sub'[s].status = "CANCELLED"
       => CancelSubscription(s) \/ \E w \in Worker : RefundSub(w)]_vars

=============================================================================
