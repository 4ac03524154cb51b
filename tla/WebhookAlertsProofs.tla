------------------------- MODULE WebhookAlertsProofs -------------------------
(***************************************************************************)
(* Theorems about WebhookAlerts, for every set of events, workers, sides   *)
(* and prices and every configuration of the monitor.                      *)
(***************************************************************************)
EXTENDS WebhookAlerts, TLAPS

(***************************************************************************)
(* Type correctness.  TypeOK is not inductive: what a call writes depends  *)
(* on what it has read, which CallOK describes.                            *)
(***************************************************************************)
TypeInv == TypeOK /\ \A w \in Worker : CallOK(w)

\* No alert disappears.
RowsKept == \A a \in Alert : alert[a].state # "NONE" => alert'[a].state # "NONE"

\* A call of one worker that goes on as c, which has what its phase needs.
Becomes(w, c) ==
  /\ c \in CallState
  /\ call' = [call EXCEPT ![w] = c]
  /\ c.by = "webhook" <=> c.phase \in SignalPhase
  /\ c.phase \in SignalPhase => c.side \in Side /\ c.price \in Price
  /\ c.phase \in SignalPhase \ {"receive"} => c.event \in Event
  /\ c.phase \in {"replace"} \cup (AlertPhase \ {"pass"}) =>
       c.alert \in Alert /\ alert'[c.alert].state # "NONE"
  /\ c.phase = "priced" => c.extreme \in Price

\* The calls stay in order when one of them goes on and no alert disappears.
LEMMA CallsType ==
  ASSUME TypeInv, NEW w \in Worker, NEW c, Becomes(w, c), RowsKept
  PROVE  call' \in [Worker -> CallState] /\ \A v \in Worker : CallOK(v)'
<1>1. call \in [Worker -> CallState] /\ \A v \in Worker : CallOK(v)
  BY DEF TypeInv, TypeOK
<1>2. call' \in [Worker -> CallState] /\ call'[w] = c
  BY <1>1 DEF Becomes
<1>3. CallOK(w)'
  BY <1>2 DEF Becomes, CallOK
<1>4. ASSUME NEW v \in Worker \ {w}
      PROVE  CallOK(v)'
  <2>1. call'[v] = call[v] /\ call[v] \in CallState
    BY <1>1 DEF Becomes
  <2>2. QED
    BY <1>1, <2>1 DEF CallOK, RowsKept
<1>5. QED
  BY <1>2, <1>3, <1>4

\* An idle worker has no call, and the cycle counter can hold 0.
LEMMA NoCallType == NoCall \in CallState
BY AlertsAssumption DEF NoCall, CallState, Verdict, EnoughCycles, Larger

\* A call that returns is over.
LEMMA ReturnBecomes ==
  ASSUME NEW w \in Worker, Return(w)
  PROVE  Becomes(w, NoCall)
BY NoCallType DEF Becomes, Return, NoCall, SignalPhase, AlertPhase

\* The monitor's next alert, or the end of the call.
LEMMA RestBecomes ==
  ASSUME NEW w \in Worker, NEW todo \in SUBSET Alert, call' = [call EXCEPT ![w] = Rest(w, todo)]
  PROVE  Becomes(w, Rest(w, todo))
<1>1. NoCall \in CallState
  BY NoCallType
<1>2. Rest(w, todo) \in CallState
  BY <1>1 DEF Rest, NoCall, CallState, AlertPhase
<1>3. Rest(w, todo).phase \in {"idle", "pass"} /\ Rest(w, todo).by \in {"nobody", "pass"}
  BY DEF Rest, NoCall
<1>4. QED
  BY <1>2, <1>3 DEF Becomes, SignalPhase, AlertPhase

\* A call that proceeds takes the next alert of its pass, or is over.
LEMMA ProceedBecomes ==
  ASSUME TypeInv, NEW w \in Worker, Proceed(w)
  PROVE  \E todo \in SUBSET Alert : Becomes(w, Rest(w, todo))
<1>1. call[w].todo \in SUBSET Alert
  BY DEF TypeInv, TypeOK, CallState
<1>2. call' = [call EXCEPT ![w] = Rest(w, call[w].todo)]
  BY DEF Proceed, TypeInv, TypeOK
<1>3. QED
  BY <1>1, <1>2, RestBecomes

\* A step to another phase of the same call.
LEMMA StepBecomes ==
  ASSUME TypeInv, RowsKept, NEW w \in Worker,
         NEW phase \in SignalPhase \cup AlertPhase, Step(w, phase),
         phase \notin {"receive", "priced", "pass", "replace"},
         phase \in SignalPhase <=> call[w].phase \in SignalPhase \ {"receive"},
         phase \in AlertPhase => call[w].phase \in AlertPhase \ {"pass"}
  PROVE  Becomes(w, [call[w] EXCEPT !.phase = phase])
<1>1. call[w] \in CallState /\ call \in [Worker -> CallState] /\ CallOK(w)
  BY DEF TypeInv, TypeOK
<1> DEFINE c == [call[w] EXCEPT !.phase = phase]
<1>2. call' = [call EXCEPT ![w] = c]
  BY <1>1 DEF Step
<1>3. c \in CallState
  BY <1>1 DEF CallState
<1>4. /\ c.phase = phase /\ c.by = call[w].by /\ c.side = call[w].side /\ c.price = call[w].price
      /\ c.event = call[w].event /\ c.alert = call[w].alert /\ c.extreme = call[w].extreme
  BY <1>1 DEF CallState
<1>5. QED
  BY <1>1, <1>2, <1>3, <1>4 DEF Becomes, CallOK, RowsKept, SignalPhase, AlertPhase

TablesTyped ==
  /\ alert \in [Alert -> AlertRow \cup {NoAlert}]
  /\ event \in [Event -> EventStatus]
  /\ recent \subseteq Side
  /\ aged \subseteq Alert
  /\ fresh \subseteq Alert
  /\ jobs \in [Alert -> 0..2]
  /\ queued \subseteq Alert

\* What a step of a call has to show.
LEMMA WorkerStep ==
  ASSUME TypeInv, NEW w \in Worker, NEW c, Becomes(w, c), RowsKept, TablesTyped'
  PROVE  TypeInv'
BY CallsType DEF TypeInv, TypeOK, TablesTyped

\* A step that leaves the tables alone leaves them typed.
LEMMA TablesUnchanged ==
  ASSUME TypeInv, UNCHANGED <<alert, event, recent, aged, fresh, jobs, queued>>
  PROVE  TablesTyped' /\ RowsKept
BY DEF TypeInv, TypeOK, TablesTyped, RowsKept

\* An alert that exists has a row.
LEMMA RowType ==
  ASSUME TypeInv, NEW a \in Alert, alert[a].state # "NONE"
  PROVE  alert[a] \in AlertRow
BY DEF TypeInv, TypeOK, NoAlert

\* Only the state of the alert changes.
LEMMA StateType ==
  ASSUME TypeInv, NEW a \in Alert, alert[a].state # "NONE", NEW st \in AlertState,
         alert' = [alert EXCEPT ![a].state = st]
  PROVE  /\ alert' \in [Alert -> AlertRow \cup {NoAlert}]
         /\ RowsKept
         /\ alert'[a].state = st
<1>1. alert \in [Alert -> AlertRow \cup {NoAlert}] /\ alert[a] \in AlertRow
  BY RowType DEF TypeInv, TypeOK
<1>2. [alert[a] EXCEPT !.state = st] \in AlertRow
  BY <1>1 DEF AlertRow
<1>3. alert' = [alert EXCEPT ![a] = [alert[a] EXCEPT !.state = st]]
  BY <1>1
<1>4. alert'[a].state = st
  BY <1>1, <1>3 DEF AlertRow
<1>5. st # "NONE"
  BY DEF AlertState
<1>6. QED
  BY <1>1, <1>2, <1>3, <1>4, <1>5 DEF RowsKept

\* The row of a new alert.
LEMMA NewAlertType ==
  ASSUME TypeInv, NEW w \in Worker, call[w].phase \in SignalPhase \ {"receive"},
         NEW r \in Alert \cup {None}
  PROVE  NewAlert(w, r) \in AlertRow /\ NewAlert(w, r).state = "MONITORING"
BY AlertsAssumption DEF TypeInv, CallOK, NewAlert, AlertRow, AlertState, EnoughCycles, Larger

\* A delivery that skips its event.
LEMMA SkipType ==
  ASSUME TypeInv, NEW w \in Worker, call[w].phase \in SignalPhase \ {"receive"}, Skip(w),
         UNCHANGED <<alert, recent, aged, fresh, jobs, queued>>
  PROVE  TypeInv'
<1>1. call[w].event \in Event
  BY DEF TypeInv, CallOK
<1>2. event' \in [Event -> EventStatus]
  BY <1>1 DEF TypeInv, TypeOK, Skip, EventStatus
<1>3. TablesTyped' /\ RowsKept
  BY <1>2 DEF TypeInv, TypeOK, TablesTyped, RowsKept
<1>4. Becomes(w, NoCall)
  BY ReturnBecomes DEF Skip
<1>5. QED
  BY <1>3, <1>4, WorkerStep

Delivery(w) ==
  \/ \E s \in Side, p \in Price : Receive(w, s, p)
  \/ \E e \in Event : CreateEvent(w, e)
  \/ Precheck(w)
  \/ Find(w)
  \/ \E a \in Alert : Replace(w, a) \/ Insert(w, a)
  \/ Watch(w)

\* The steps of a delivery.
LEMMA DeliveryType ==
  ASSUME TypeInv, NEW w \in Worker, Delivery(w)
  PROVE  TypeInv'
<1> DEFINE tables == <<alert, event, recent, aged, fresh, jobs, queued>>
<1>0. call[w] \in CallState /\ call \in [Worker -> CallState] /\ CallOK(w) /\ TablesTyped
  BY DEF TypeInv, TypeOK, TablesTyped
<1>1. ASSUME NEW s \in Side, NEW p \in Price, Receive(w, s, p)
      PROVE  TypeInv'
  <2> DEFINE c == [NoCall EXCEPT !.phase = "receive", !.by = "webhook", !.side = s, !.price = p]
  <2>1. c \in CallState
    BY NoCallType DEF CallState, SignalPhase
  <2>2. c.phase = "receive" /\ c.by = "webhook" /\ c.side = s /\ c.price = p
    BY DEF NoCall
  <2>3. Becomes(w, c)
    BY <1>1, <2>1, <2>2 DEF Becomes, Receive, SignalPhase, AlertPhase
  <2>4. QED
    BY <1>1, <2>3, TablesUnchanged, WorkerStep DEF Receive
<1>2. ASSUME NEW e \in Event, CreateEvent(w, e)
      PROVE  TypeInv'
  <2> DEFINE c == [call[w] EXCEPT !.phase = "precheck", !.event = e]
  <2>1. c \in CallState
    BY <1>0 DEF CallState, SignalPhase
  <2>2. /\ c.phase = "precheck" /\ c.by = call[w].by /\ c.side = call[w].side
        /\ c.price = call[w].price /\ c.event = e
    BY <1>0 DEF CallState
  <2>3. call' = [call EXCEPT ![w] = c]
    BY <1>0, <1>2 DEF CreateEvent
  <2>4. Becomes(w, c)
    BY <1>0, <1>2, <2>1, <2>2, <2>3 DEF Becomes, CallOK, CreateEvent, At, SignalPhase, AlertPhase
  <2>5. call[w].side \in Side
    BY <1>0, <1>2 DEF CallOK, CreateEvent, At, SignalPhase
  <2>6. event' \in [Event -> EventStatus] /\ recent' \subseteq Side
    BY <1>0, <1>2, <2>5 DEF TablesTyped, CreateEvent, EventStatus
  <2>7. TablesTyped' /\ RowsKept
    BY <1>0, <1>2, <2>6 DEF TablesTyped, RowsKept, CreateEvent
  <2>8. QED
    BY <2>4, <2>7, WorkerStep
<1>3. ASSUME Precheck(w)
      PROVE  TypeInv'
  <2>1. call[w].phase = "precheck" /\ call[w].phase \in SignalPhase \ {"receive"}
    BY <1>3 DEF Precheck, At, SignalPhase
  <2>2. CASE Skip(w)
    BY <1>3, <2>1, <2>2, SkipType DEF Precheck
  <2>3. CASE Step(w, "find") /\ UNCHANGED event
    <3>1. TablesTyped' /\ RowsKept
      BY <1>3, <2>3, TablesUnchanged DEF Precheck
    <3>2. Becomes(w, [call[w] EXCEPT !.phase = "find"])
      BY <2>1, <2>3, <3>1, StepBecomes DEF SignalPhase, AlertPhase
    <3>3. QED
      BY <3>1, <3>2, WorkerStep
  <2>4. QED
    BY <1>3, <2>2, <2>3 DEF Precheck
<1>4. ASSUME Find(w)
      PROVE  TypeInv'
  <2>1. call[w].phase = "find" /\ call[w].phase \in SignalPhase \ {"receive"}
    BY <1>4 DEF Find, At, SignalPhase
  <2>2. CASE Skip(w)
    BY <1>4, <2>1, <2>2, SkipType DEF Find
  <2>3. ASSUME NEW phase \in {"insert", "watch"}, Step(w, phase), UNCHANGED event
        PROVE  TypeInv'
    <3>1. TablesTyped' /\ RowsKept
      BY <1>4, <2>3, TablesUnchanged DEF Find
    <3>2. Becomes(w, [call[w] EXCEPT !.phase = phase])
      BY <2>1, <2>3, <3>1, StepBecomes DEF SignalPhase, AlertPhase
    <3>3. QED
      BY <3>1, <3>2, WorkerStep
  <2>4. ASSUME NEW a \in Alert, Newest(a), UNCHANGED event,
               call' = [call EXCEPT ![w].phase = "replace", ![w].alert = a]
        PROVE  TypeInv'
    <3> DEFINE c == [call[w] EXCEPT !.phase = "replace", !.alert = a]
    <3>1. c \in CallState
      BY <1>0 DEF CallState, SignalPhase
    <3>2. /\ c.phase = "replace" /\ c.by = call[w].by /\ c.side = call[w].side
          /\ c.price = call[w].price /\ c.event = call[w].event /\ c.alert = a
      BY <1>0 DEF CallState
    <3>3. call' = [call EXCEPT ![w] = c]
      BY <1>0, <2>4
    <3>4. TablesTyped' /\ RowsKept
      BY <1>4, <2>4, TablesUnchanged DEF Find
    <3>5. alert'[a].state # "NONE"
      BY <1>4, <2>4 DEF Newest, Active, Find
    <3>6. Becomes(w, c)
      BY <1>0, <2>1, <3>1, <3>2, <3>3, <3>5 DEF Becomes, CallOK, SignalPhase, AlertPhase
    <3>7. QED
      BY <3>4, <3>6, WorkerStep
  <2>5. QED
    BY <1>4, <2>2, <2>3, <2>4 DEF Find
<1>5. ASSUME NEW a \in Alert, Replace(w, a)
      PROVE  TypeInv'
  <2> DEFINE r == call[w].alert
             new == NewAlert(w, r)
             c == [call[w] EXCEPT !.phase = "watch", !.alert = None]
  <2>1. call[w].phase = "replace" /\ call[w].phase \in SignalPhase \ {"receive"}
    BY <1>5 DEF Replace, At, SignalPhase
  <2>2. r \in Alert /\ alert[r] \in AlertRow /\ alert[r].state # "NONE" /\ r # a
    BY <1>0, <1>5, <2>1, RowType DEF CallOK, Replace, Unused
  <2>3. new \in AlertRow /\ new.state # "NONE"
    BY <2>1, <2>2, NewAlertType
  <2>4. [alert[r] EXCEPT !.state = "CANCELLED"] \in AlertRow
    BY <2>2 DEF AlertRow, AlertState
  <2>5. alert' = [alert EXCEPT ![a] = new, ![r] = [alert[r] EXCEPT !.state = "CANCELLED"]]
    BY <1>0, <1>5, <2>2 DEF Replace, Replaced, TablesTyped
  <2>6. alert' \in [Alert -> AlertRow \cup {NoAlert}]
    BY <1>0, <2>3, <2>4, <2>5 DEF TablesTyped
  <2>7. /\ alert'[a] = new
        /\ alert'[r] = [alert[r] EXCEPT !.state = "CANCELLED"]
        /\ \A b \in Alert \ {a, r} : alert'[b] = alert[b]
    BY <1>0, <2>2, <2>5 DEF TablesTyped
  <2>8. alert'[r].state = "CANCELLED"
    BY <2>2, <2>7 DEF AlertRow
  <2>9. RowsKept
    BY <2>3, <2>7, <2>8 DEF RowsKept
  <2>10. event' \in [Event -> EventStatus]
    BY <1>0, <1>5, <2>2 DEF Replace, TablesTyped, AlertRow, EventStatus
  <2>11. TablesTyped'
    BY <1>0, <1>5, <2>6, <2>10 DEF TablesTyped, Replace
  <2>12. c \in CallState /\ call' = [call EXCEPT ![w] = c]
    BY <1>0, <1>5 DEF CallState, SignalPhase, Replace
  <2>13. /\ c.phase = "watch" /\ c.by = call[w].by /\ c.side = call[w].side
         /\ c.price = call[w].price /\ c.event = call[w].event
    BY <1>0 DEF CallState
  <2>14. Becomes(w, c)
    BY <1>0, <2>1, <2>12, <2>13 DEF Becomes, CallOK, SignalPhase, AlertPhase
  <2>15. QED
    BY <2>9, <2>11, <2>14, WorkerStep
<1>6. ASSUME NEW a \in Alert, Insert(w, a)
      PROVE  TypeInv'
  <2>1. call[w].phase = "insert" /\ call[w].phase \in SignalPhase \ {"receive"}
    BY <1>6 DEF Insert, At, SignalPhase
  <2>2. NewAlert(w, None) \in AlertRow /\ NewAlert(w, None).state # "NONE"
    BY <2>1, NewAlertType
  <2>3. TablesTyped' /\ RowsKept
    BY <1>0, <1>6, <2>2 DEF TablesTyped, RowsKept, Insert
  <2>4. Becomes(w, [call[w] EXCEPT !.phase = "watch"])
    BY <1>6, <2>1, <2>3, StepBecomes DEF Insert, SignalPhase, AlertPhase
  <2>5. QED
    BY <2>3, <2>4, WorkerStep
<1>7. ASSUME Watch(w)
      PROVE  TypeInv'
  <2>1. call[w].event \in Event
    BY <1>0, <1>7 DEF CallOK, Watch, At, SignalPhase
  <2>2. event' \in [Event -> EventStatus]
    BY <1>0, <1>7, <2>1 DEF TablesTyped, Watch, EventStatus
  <2>3. TablesTyped' /\ RowsKept
    BY <1>0, <1>7, <2>2 DEF TablesTyped, RowsKept, Watch
  <2>4. Becomes(w, NoCall)
    BY <1>7, ReturnBecomes DEF Watch
  <2>5. QED
    BY <2>3, <2>4, WorkerStep
<1>8. QED
  BY <1>1, <1>2, <1>3, <1>4, <1>5, <1>6, <1>7 DEF Delivery

\* A call of the monitor, or of a user, that only changes itself.
LEMMA ProceedType ==
  ASSUME TypeInv, NEW w \in Worker, Proceed(w), TablesTyped', RowsKept
  PROVE  TypeInv'
<1>1. PICK todo \in SUBSET Alert : Becomes(w, Rest(w, todo))
  BY ProceedBecomes
<1>2. QED
  BY <1>1, WorkerStep

\* To the next phase of the work on an alert.
LEMMA AlertStepType ==
  ASSUME TypeInv, NEW w \in Worker, call[w].phase \in AlertPhase \ {"pass"},
         NEW phase \in AlertPhase \ {"pass", "priced"}, Step(w, phase), TablesTyped', RowsKept
  PROVE  TypeInv'
<1>1. Becomes(w, [call[w] EXCEPT !.phase = phase])
  BY StepBecomes DEF SignalPhase, AlertPhase
<1>2. QED
  BY <1>1, WorkerStep

\* What a pass computes from a price.
LEMMA PriceType ==
  ASSUME TypeInv, NEW w \in Worker, NEW a \in Alert, NEW p \in Price, PriceRead(w, a, p)
  PROVE  TypeInv'
<1> DEFINE new  == NewExtreme(alert[a].side, p, alert[a].extreme)
           x    == IF new THEN p ELSE alert[a].extreme
           n    == IF new THEN 0 ELSE Smaller(alert[a].cycles + 1, EnoughCycles)
           v    == VerdictFor(a, p, x, n)
           todo == call[w].todo \ {a}
           c    == [call[w] EXCEPT !.phase = "priced", !.alert = a, !.todo = todo, !.extreme = x,
                                   !.cycles = n, !.verdict = v]
<1>0. call[w] \in CallState /\ call \in [Worker -> CallState] /\ CallOK(w)
  BY DEF TypeInv, TypeOK
<1>1. call[w].phase = "pass" /\ todo \in SUBSET Alert
  BY <1>0 DEF PriceRead, At, CallState
<1>2. TablesTyped' /\ RowsKept
  BY TablesUnchanged DEF PriceRead
<1>3. CASE Active(a)
  <2>1. alert[a] \in AlertRow
    BY <1>3, RowType DEF Active
  <2>2. EnoughCycles \in Nat
    BY AlertsAssumption DEF EnoughCycles, Larger
  <2>3. n \in 0..EnoughCycles
    <3>1. alert[a].cycles \in 0..EnoughCycles
      BY <2>1 DEF AlertRow
    <3>2. QED
      BY <3>1, <2>2 DEF Smaller
  <2>4. x \in Price
    BY <2>1 DEF AlertRow
  <2>5. v \in Verdict
    BY DEF VerdictFor, Verdict
  <2> HIDE DEF new, x, n, v
  <2>6. c \in CallState
    BY <1>0, <1>1, <2>3, <2>4, <2>5 DEF CallState, AlertPhase
  <2>7. c.phase = "priced" /\ c.by = call[w].by /\ c.alert = a /\ c.extreme = x
    BY <1>0 DEF CallState
  <2>8. call' = [call EXCEPT ![w] = c]
    BY <1>0, <1>3 DEF PriceRead, x, n, new, v
  <2>9. alert'[a].state # "NONE"
    BY <1>3 DEF PriceRead, Active
  <2>10. Becomes(w, c)
    BY <1>0, <1>1, <2>4, <2>6, <2>7, <2>8, <2>9 DEF Becomes, CallOK, SignalPhase, AlertPhase
  <2>11. QED
    BY <1>2, <2>10, WorkerStep
<1>4. CASE ~Active(a)
  <2>1. call' = [call EXCEPT ![w] = Rest(w, todo)]
    BY <1>0, <1>4 DEF PriceRead
  <2>2. QED
    BY <1>1, <1>2, <2>1, RestBecomes, WorkerStep
<1>5. QED
  BY <1>3, <1>4

\* A pass that writes what it has found.
LEMMA PriceWriteType ==
  ASSUME TypeInv, NEW w \in Worker, PriceWrite(w)
  PROVE  TypeInv'
<1> DEFINE a   == call[w].alert
           row == [alert[a] EXCEPT !.extreme = call[w].extreme, !.cycles = call[w].cycles]
           c   == [NoCall EXCEPT !.phase = call[w].verdict, !.by = "pass", !.alert = a,
                                 !.todo = call[w].todo]
<1>0. /\ call[w] \in CallState /\ call \in [Worker -> CallState] /\ CallOK(w) /\ TablesTyped
      /\ call[w].phase = "priced"
  BY DEF TypeInv, TypeOK, TablesTyped, PriceWrite, At
<1>1. a \in Alert /\ alert[a].state # "NONE" /\ alert[a] \in AlertRow /\ call[w].extreme \in Price
  BY <1>0, RowType DEF CallOK, AlertPhase
<1>2. call[w].cycles \in 0..EnoughCycles /\ call[w].todo \in SUBSET Alert /\ call[w].verdict \in Verdict
  BY <1>0 DEF CallState
<1>3. row \in AlertRow /\ row.state = alert[a].state
  BY <1>1, <1>2 DEF AlertRow
<1>4. alert' = [alert EXCEPT ![a] = row]
  BY <1>0, <1>1 DEF PriceWrite, TablesTyped
<1>5. alert' \in [Alert -> AlertRow \cup {NoAlert}]
  BY <1>0, <1>3, <1>4 DEF TablesTyped
<1>6. alert'[a] = row /\ \A b \in Alert \ {a} : alert'[b] = alert[b]
  BY <1>0, <1>1, <1>4 DEF TablesTyped
<1>7. RowsKept
  BY <1>1, <1>3, <1>6 DEF RowsKept
<1>8. TablesTyped'
  BY <1>0, <1>1, <1>5 DEF TablesTyped, PriceWrite
<1>9. CASE call[w].verdict = "wait"
  <2>1. call' = [call EXCEPT ![w] = Rest(w, call[w].todo)]
    BY <1>0, <1>9 DEF PriceWrite
  <2>2. QED
    BY <1>2, <1>7, <1>8, <2>1, RestBecomes, WorkerStep
<1>10. CASE call[w].verdict # "wait"
  <2>1. call[w].verdict \in {"execute", "cancel"}
    BY <1>2, <1>10 DEF Verdict
  <2>2. c \in CallState
    BY <1>1, <1>2, <2>1, NoCallType DEF CallState, AlertPhase
  <2>3. c.phase = call[w].verdict /\ c.by = "pass" /\ c.alert = a
    BY DEF NoCall
  <2>4. call' = [call EXCEPT ![w] = c]
    BY <1>0, <1>10 DEF PriceWrite
  <2>5. Becomes(w, c)
    BY <1>1, <1>7, <2>1, <2>2, <2>3, <2>4 DEF Becomes, RowsKept, SignalPhase, AlertPhase
  <2>6. QED
    BY <1>7, <1>8, <2>5, WorkerStep
<1>11. QED
  BY <1>9, <1>10

Monitoring(w) ==
  \/ PassStarts(w)
  \/ \E a \in Alert : CancelRequest(w, a)
  \/ \E a \in Alert : PriceMissing(w, a) \/ \E p \in Price : PriceRead(w, a, p)
  \/ PriceWrite(w)
  \/ CancelRead(w)
  \/ CancelWrite(w)
  \/ SkipEvent(w)
  \/ ExecuteRead(w)
  \/ CreateJobs(w)
  \/ CreateNoJobs(w)
  \/ Executed(w)
  \/ Report(w)
  \/ Enqueue(w)

\* The steps of a pass and of a user's cancellation.
LEMMA MonitoringType ==
  ASSUME TypeInv, NEW w \in Worker, Monitoring(w)
  PROVE  TypeInv'
<1>0. call[w] \in CallState /\ call \in [Worker -> CallState] /\ CallOK(w) /\ TablesTyped
  BY DEF TypeInv, TypeOK, TablesTyped
<1>1. ASSUME PassStarts(w)
      PROVE  TypeInv'
  <2> DEFINE active == {a \in Alert : Active(a)}
             c == [NoCall EXCEPT !.phase = "pass", !.by = "pass", !.todo = active]
  <2>1. active \in SUBSET Alert
    OBVIOUS
  <2> HIDE DEF active
  <2>2. c \in CallState /\ c.phase = "pass" /\ c.by = "pass"
    BY <2>1, NoCallType DEF CallState, AlertPhase, NoCall
  <2>3. Becomes(w, c)
    BY <1>1, <2>2 DEF Becomes, PassStarts, SignalPhase, AlertPhase, active
  <2>4. QED
    BY <1>1, <2>3, TablesUnchanged, WorkerStep DEF PassStarts
<1>2. ASSUME NEW a \in Alert, CancelRequest(w, a)
      PROVE  TypeInv'
  <2> DEFINE c == [NoCall EXCEPT !.phase = "cancelled", !.by = "user", !.alert = a]
  <2>1. c \in CallState /\ c.phase = "cancelled" /\ c.by = "user" /\ c.alert = a
    BY NoCallType DEF CallState, AlertPhase, NoCall
  <2>2. alert'[a].state # "NONE"
    BY <1>2 DEF CancelRequest, Active
  <2>3. Becomes(w, c)
    BY <1>2, <2>1, <2>2 DEF Becomes, CancelRequest, SignalPhase, AlertPhase
  <2>4. QED
    BY <1>2, <2>3, TablesUnchanged, WorkerStep DEF CancelRequest
<1>3. ASSUME NEW a \in Alert, PriceMissing(w, a)
      PROVE  TypeInv'
  <2>1. call[w].todo \ {a} \in SUBSET Alert
    BY <1>0 DEF CallState
  <2>2. call' = [call EXCEPT ![w] = Rest(w, call[w].todo \ {a})]
    BY <1>0, <1>3 DEF PriceMissing
  <2>3. Becomes(w, Rest(w, call[w].todo \ {a}))
    BY <2>1, <2>2, RestBecomes
  <2>4. TablesTyped' /\ RowsKept
    BY <1>3, TablesUnchanged DEF PriceMissing
  <2>5. QED
    BY <2>3, <2>4, WorkerStep
<1>4. ASSUME \/ At(w, "cancel") \/ At(w, "cancelled") \/ At(w, "skip") \/ At(w, "execute")
             \/ At(w, "jobs") \/ At(w, "executed") \/ At(w, "report") \/ At(w, "enqueue")
      PROVE  /\ call[w].phase \in AlertPhase \ {"pass"}
             /\ call[w].alert \in Alert
             /\ alert[call[w].alert].state # "NONE"
             /\ alert[call[w].alert] \in AlertRow
  BY <1>0, <1>4, RowType DEF At, CallOK, AlertPhase
<1>5. ASSUME CancelRead(w) \/ ExecuteRead(w) \/ CreateNoJobs(w)
      PROVE  TypeInv'
  <2>1. call[w].phase \in AlertPhase \ {"pass"}
    BY <1>4, <1>5 DEF CancelRead, ExecuteRead, CreateNoJobs
  <2>2. TablesTyped' /\ RowsKept
    BY <1>5, TablesUnchanged DEF CancelRead, ExecuteRead, CreateNoJobs
  <2>3. \/ Proceed(w)
        \/ \E phase \in AlertPhase \ {"pass", "priced"} : Step(w, phase)
    BY <1>5 DEF CancelRead, ExecuteRead, CreateNoJobs, WithoutJobs, AlertPhase
  <2>4. QED
    BY <2>1, <2>2, <2>3, ProceedType, AlertStepType
<1>6. ASSUME CancelWrite(w) \/ Executed(w)
      PROVE  TypeInv'
  <2>1. /\ call[w].phase \in AlertPhase \ {"pass"}
        /\ call[w].alert \in Alert
        /\ alert[call[w].alert].state # "NONE"
    BY <1>4, <1>6 DEF CancelWrite, Executed
  <2>2. PICK st \in {"CANCELLED", "EXECUTED"} : alert' = [alert EXCEPT ![call[w].alert].state = st]
    BY <1>6 DEF CancelWrite, Executed, Finished
  <2>3. alert' \in [Alert -> AlertRow \cup {NoAlert}] /\ RowsKept
    BY <2>1, <2>2, StateType DEF AlertState
  <2>4. fresh' \subseteq Alert /\ UNCHANGED <<event, recent, aged, jobs, queued>>
    BY <1>0, <1>6, <2>1 DEF CancelWrite, Executed, TablesTyped
  <2>5. TablesTyped'
    BY <1>0, <2>3, <2>4 DEF TablesTyped
  <2>6. \E phase \in AlertPhase \ {"pass", "priced"} : Step(w, phase)
    BY <1>6 DEF CancelWrite, Executed, AlertPhase
  <2>7. QED
    BY <2>1, <2>3, <2>5, <2>6, AlertStepType
<1>7. ASSUME SkipEvent(w) \/ Report(w)
      PROVE  TypeInv'
  <2>1. call[w].phase \in AlertPhase \ {"pass"} /\ alert[call[w].alert] \in AlertRow
    BY <1>4, <1>7 DEF SkipEvent, Report
  <2>2. alert[call[w].alert].event \in Event
    BY <2>1 DEF AlertRow
  <2>3. event' \in [Event -> EventStatus] /\ UNCHANGED <<alert, recent, aged, fresh, jobs, queued>>
    BY <1>0, <1>7, <2>2 DEF SkipEvent, Report, TablesTyped, EventStatus
  <2>4. TablesTyped' /\ RowsKept
    BY <1>0, <2>3 DEF TablesTyped, RowsKept
  <2>5. \/ Proceed(w)
        \/ \E phase \in AlertPhase \ {"pass", "priced"} : Step(w, phase)
    BY <1>7 DEF SkipEvent, Report, AlertPhase
  <2>6. QED
    BY <2>1, <2>4, <2>5, ProceedType, AlertStepType
<1>8. ASSUME CreateJobs(w)
      PROVE  TypeInv'
  <2>1. call[w].phase \in AlertPhase \ {"pass"} /\ call[w].alert \in Alert
    BY <1>4, <1>8 DEF CreateJobs
  <2>2. jobs[call[w].alert] \in 0..2 /\ Smaller(jobs[call[w].alert] + 1, 2) \in 0..2
    BY <1>0, <2>1 DEF TablesTyped, Smaller
  <2>3. jobs' \in [Alert -> 0..2]
    BY <1>0, <1>8, <2>2 DEF TablesTyped, CreateJobs
  <2>4. TablesTyped' /\ RowsKept
    BY <1>0, <1>8, <2>3 DEF TablesTyped, RowsKept, CreateJobs
  <2>5. QED
    BY <1>8, <2>1, <2>4, AlertStepType DEF CreateJobs, AlertPhase
<1>9. ASSUME Enqueue(w)
      PROVE  TypeInv'
  <2>1. TablesTyped' /\ RowsKept
    BY <1>0, <1>4, <1>9 DEF TablesTyped, RowsKept, Enqueue
  <2>2. QED
    BY <1>9, <2>1, ProceedType DEF Enqueue
<1>10. QED
  BY <1>1, <1>2, <1>3, <1>5, <1>6, <1>7, <1>8, <1>9, PriceType, PriceWriteType DEF Monitoring

\* An error or the death of a process ends a call, or lets the pass go on.
LEMMA FailureType ==
  ASSUME TypeInv, NEW w \in Worker, CallFails(w) \/ Crash(w)
  PROVE  TypeInv'
<1>1. ASSUME Return(w), UNCHANGED <<alert, event, recent, aged, fresh, jobs, queued>>
      PROVE  TypeInv'
  BY <1>1, ReturnBecomes, TablesUnchanged, WorkerStep
<1>2. ASSUME Proceed(w), UNCHANGED <<alert, event, recent, aged, fresh, jobs, queued>>
      PROVE  TypeInv'
  BY <1>2, ProceedType, TablesUnchanged
<1>3. ASSUME At(w, "report"), Step(w, "enqueue"),
             UNCHANGED <<alert, event, recent, aged, fresh, jobs, queued>>
      PROVE  TypeInv'
  <2>1. "enqueue" \in AlertPhase \ {"pass", "priced"} /\ call[w].phase \in AlertPhase \ {"pass"}
    BY <1>3 DEF At, AlertPhase
  <2>2. QED
    BY <1>3, <2>1, AlertStepType, TablesUnchanged
<1>4. ASSUME call[w].phase \in SignalPhase \ {"receive"}, Skip(w),
             UNCHANGED <<alert, recent, aged, fresh, jobs, queued>>
      PROVE  TypeInv'
  BY <1>4, SkipType
<1>5. QED
  BY <1>1, <1>2, <1>3, <1>4 DEF CallFails, Crash

\* Time changes no alert and no call.
LEMMA TimeType ==
  ASSUME TypeInv,
         \/ \E s \in Side : RecentEnds(s)
         \/ \E a \in Alert : AlertAges(a) \/ CooldownEnds(a)
         \/ UNCHANGED vars
  PROVE  TypeInv'
<1>1. UNCHANGED <<alert, call>> /\ TypeOK'
  BY DEF TypeInv, TypeOK, RecentEnds, AlertAges, CooldownEnds, vars
<1>2. QED
  BY <1>1 DEF TypeInv, CallOK

\* The first state is typed.
LEMMA InitType == Init => TypeInv
<1>1. ASSUME Init
      PROVE  TypeInv
  <2>1. call \in [Worker -> CallState] /\ \A w \in Worker : CallOK(w)
    BY <1>1, NoCallType DEF Init, CallOK, NoCall, SignalPhase, AlertPhase
  <2>2. TablesTyped
    BY <1>1 DEF Init, TablesTyped, EventStatus
  <2>3. QED
    BY <2>1, <2>2 DEF TypeInv, TypeOK, TablesTyped
<1>2. QED
  BY <1>1

\* Every step keeps the types.
LEMMA StepType == TypeInv /\ [Next]_vars => TypeInv'
<1>1. ASSUME TypeInv, [Next]_vars
      PROVE  TypeInv'
  <2>1. \/ \E w \in Worker : Delivery(w) \/ Monitoring(w) \/ CallFails(w) \/ Crash(w)
        \/ \E s \in Side : RecentEnds(s)
        \/ \E a \in Alert : AlertAges(a) \/ CooldownEnds(a)
        \/ UNCHANGED vars
    BY <1>1 DEF Next, Continue, Delivery, Monitoring
  <2>2. QED
    BY <1>1, <2>1, DeliveryType, MonitoringType, FailureType, TimeType
<1>2. QED
  BY <1>1

\* For every configuration of the monitor and any number of overlapping
\* deliveries, passes and cancellations, with every failure, the tables and
\* calls have their types, and a call works on an alert that exists.
THEOREM AlertsTypeCorrect == Spec => []TypeOK
<1>1. TypeInv => TypeOK
  BY DEF TypeInv
<1>2. QED
  BY <1>1, InitType, StepType, PTL DEF Spec

(***************************************************************************)
(* One active alert, when signals are delivered one at a time (or nothing  *)
(* overlaps at all): only a delivery makes an alert active, and what it    *)
(* read still holds when it writes (SignalsAlone), because passes and      *)
(* users only end alerts.                                                  *)
(***************************************************************************)
OneCaller == \A v, w \in Worker : v = w
OneSignal == "TWO_SIGNALS" \notin Enabled \/ OneCaller

OneAlertInv == TypeInv /\ OneActiveAlert /\ SignalsAlone

\* Worker w goes on as c, delivers no signal unless it did, and is not about
\* to write an alert.
Harmless(w, c) ==
  /\ call' = [call EXCEPT ![w] = c]
  /\ c.by = "webhook" => call[w].by = "webhook"
  /\ c.phase \notin {"insert", "replace"}

ActiveKept == \A a \in Alert : alert'[a].state = "MONITORING" => Active(a)

\* A step that ends alerts, or none, cannot make two of them active.
LEMMA HarmlessStep ==
  ASSUME OneAlertInv, NEW w \in Worker, NEW c, Harmless(w, c), ActiveKept
  PROVE  OneActiveAlert' /\ SignalsAlone'
<1>1. call \in [Worker -> CallState] /\ OneActiveAlert /\ SignalsAlone
  BY DEF OneAlertInv, TypeInv, TypeOK
<1>2. call'[w] = c /\ \A v \in Worker \ {w} : call'[v] = call[v]
  BY <1>1 DEF Harmless
<1>3. OneActiveAlert'
  BY <1>1 DEF ActiveKept, OneActiveAlert, Active
<1>4. \A u, v \in Worker : call'[u].by = "webhook" /\ call'[v].by = "webhook" => u = v
  BY <1>1, <1>2 DEF Harmless, SignalsAlone
<1>5. ASSUME NEW v \in Worker, NEW a \in Alert, alert'[a].state = "MONITORING"
      PROVE  call'[v].phase # "insert" /\ (call'[v].phase = "replace" => call'[v].alert = a)
  <2>1. Active(a)
    BY <1>5 DEF ActiveKept
  <2>2. CASE v = w
    BY <1>2, <2>2 DEF Harmless
  <2>3. CASE v # w
    BY <1>1, <1>2, <2>1, <2>3 DEF SignalsAlone, At
  <2>4. QED
    BY <2>2, <2>3
<1>6. QED
  BY <1>3, <1>4, <1>5 DEF SignalsAlone, Active, At

\* The ways a call goes on.
LEMMA HarmlessCalls ==
  ASSUME TypeInv, NEW w \in Worker
  PROVE  /\ Return(w) => Harmless(w, NoCall)
         /\ \A todo : call' = [call EXCEPT ![w] = Rest(w, todo)] => Harmless(w, Rest(w, todo))
         /\ Proceed(w) => Harmless(w, Rest(w, call[w].todo))
         /\ \A phase : Step(w, phase) /\ phase \notin {"insert", "replace"}
                          => Harmless(w, [call[w] EXCEPT !.phase = phase])
<1>1. call \in [Worker -> CallState] /\ call[w] \in CallState
  BY DEF TypeInv, TypeOK
<1>2. Return(w) => Harmless(w, NoCall)
  BY DEF Harmless, Return, NoCall
<1>3. ASSUME NEW todo
      PROVE  /\ Rest(w, todo).by \in {"nobody", "pass"}
             /\ Rest(w, todo).phase \in {"idle", "pass"}
  BY DEF Rest, NoCall
<1>4. \A todo : call' = [call EXCEPT ![w] = Rest(w, todo)] => Harmless(w, Rest(w, todo))
  BY <1>3 DEF Harmless
<1>5. Proceed(w) => call' = [call EXCEPT ![w] = Rest(w, call[w].todo)]
  BY <1>1 DEF Proceed
<1>6. ASSUME NEW phase, Step(w, phase), phase \notin {"insert", "replace"}
      PROVE  Harmless(w, [call[w] EXCEPT !.phase = phase])
  <2> DEFINE c == [call[w] EXCEPT !.phase = phase]
  <2>1. c.phase = phase /\ c.by = call[w].by
    BY <1>1 DEF CallState
  <2>2. call' = [call EXCEPT ![w] = c]
    BY <1>1, <1>6 DEF Step
  <2>3. QED
    BY <1>6, <2>1, <2>2 DEF Harmless
<1>7. QED
  BY <1>2, <1>4, <1>5, <1>6

\* Passes and users only end alerts.
LEMMA MonitoringHarmless ==
  ASSUME OneAlertInv, NEW w \in Worker, Monitoring(w)
  PROVE  OneActiveAlert' /\ SignalsAlone'
<1>0. /\ TypeInv /\ call \in [Worker -> CallState] /\ call[w] \in CallState /\ CallOK(w)
      /\ alert \in [Alert -> AlertRow \cup {NoAlert}]
  BY DEF OneAlertInv, TypeInv, TypeOK
<1>1. UNCHANGED alert => ActiveKept
  BY DEF ActiveKept, Active
<1>2. ASSUME PassStarts(w) \/ \E a \in Alert : CancelRequest(w, a)
      PROVE  \E c : Harmless(w, c)
  <2>1. PICK c : /\ call' = [call EXCEPT ![w] = c]
                 /\ \/ /\ PassStarts(w)
                       /\ c = [NoCall EXCEPT !.phase = "pass", !.by = "pass",
                                             !.todo = {a \in Alert : Active(a)}]
                    \/ \E a \in Alert :
                         /\ CancelRequest(w, a)
                         /\ c = [NoCall EXCEPT !.phase = "cancelled", !.by = "user", !.alert = a]
    BY <1>2 DEF PassStarts, CancelRequest
  <2>2. c.by \in {"pass", "user"} /\ c.phase \in {"pass", "cancelled"}
    BY <2>1 DEF NoCall
  <2>3. QED
    BY <2>1, <2>2 DEF Harmless
<1>3. ASSUME PassStarts(w) \/ \E a \in Alert : CancelRequest(w, a)
      PROVE  OneActiveAlert' /\ SignalsAlone'
  BY <1>1, <1>2, <1>3, HarmlessStep DEF PassStarts, CancelRequest
<1>4. ASSUME NEW a \in Alert, PriceMissing(w, a)
      PROVE  OneActiveAlert' /\ SignalsAlone'
  <2>1. call' = [call EXCEPT ![w] = Rest(w, call[w].todo \ {a})]
    BY <1>0, <1>4 DEF PriceMissing
  <2>2. Harmless(w, Rest(w, call[w].todo \ {a}))
    BY <1>0, <2>1, HarmlessCalls
  <2>3. ActiveKept
    BY <1>1, <1>4 DEF PriceMissing
  <2>4. QED
    BY <2>2, <2>3, HarmlessStep
<1>5. ASSUME NEW a \in Alert, NEW p \in Price, PriceRead(w, a, p)
      PROVE  OneActiveAlert' /\ SignalsAlone'
  <2> DEFINE new  == NewExtreme(alert[a].side, p, alert[a].extreme)
             x    == IF new THEN p ELSE alert[a].extreme
             n    == IF new THEN 0 ELSE Smaller(alert[a].cycles + 1, EnoughCycles)
             todo == call[w].todo \ {a}
             c    == [call[w] EXCEPT !.phase = "priced", !.alert = a, !.todo = todo, !.extreme = x,
                                     !.cycles = n, !.verdict = VerdictFor(a, p, x, n)]
  <2>1. ActiveKept
    BY <1>1, <1>5 DEF PriceRead
  <2>2. CASE ~Active(a)
    <3>1. call' = [call EXCEPT ![w] = Rest(w, todo)]
      BY <1>0, <1>5, <2>2 DEF PriceRead
    <3>2. QED
      BY <1>0, <2>1, <3>1, HarmlessCalls, HarmlessStep
  <2>3. CASE Active(a)
    <3>1. call' = [call EXCEPT ![w] = c]
      BY <1>0, <1>5, <2>3 DEF PriceRead
    <3> HIDE DEF new, x, n
    <3>2. c.phase = "priced" /\ c.by = call[w].by
      BY <1>0 DEF CallState
    <3>3. Harmless(w, c)
      BY <3>1, <3>2 DEF Harmless
    <3>4. QED
      BY <2>1, <3>3, HarmlessStep
  <2>4. QED
    BY <2>2, <2>3
<1>6. ASSUME PriceWrite(w)
      PROVE  OneActiveAlert' /\ SignalsAlone'
  <2> DEFINE a == call[w].alert
  <2>1. a \in Alert /\ alert[a] \in AlertRow
    BY <1>0, <1>6, RowType DEF PriceWrite, At, CallOK, AlertPhase
  <2>2. \A b \in Alert : alert'[b].state = alert[b].state
    BY <1>0, <1>6, <2>1 DEF PriceWrite, AlertRow
  <2>3. ActiveKept
    BY <2>2 DEF ActiveKept, Active
  <2>4. CASE call[w].verdict = "wait"
    <3>1. call' = [call EXCEPT ![w] = Rest(w, call[w].todo)]
      BY <1>0, <1>6, <2>4 DEF PriceWrite
    <3>2. QED
      BY <1>0, <2>3, <3>1, HarmlessCalls, HarmlessStep
  <2>5. CASE call[w].verdict # "wait"
    <3> DEFINE c == [NoCall EXCEPT !.phase = call[w].verdict, !.by = "pass", !.alert = a,
                                   !.todo = call[w].todo]
    <3>1. call' = [call EXCEPT ![w] = c]
      BY <1>0, <1>6, <2>5 DEF PriceWrite
    <3>2. c.phase \in {"execute", "cancel"} /\ c.by = "pass"
      BY <1>0, <2>5 DEF NoCall, CallState, Verdict
    <3>3. Harmless(w, c)
      BY <3>1, <3>2 DEF Harmless
    <3>4. QED
      BY <2>3, <3>3, HarmlessStep
  <2>6. QED
    BY <2>4, <2>5
<1>7. ASSUME CancelRead(w) \/ CancelWrite(w) \/ SkipEvent(w) \/ ExecuteRead(w) \/ CreateJobs(w)
             \/ CreateNoJobs(w) \/ Executed(w) \/ Report(w) \/ Enqueue(w)
      PROVE  OneActiveAlert' /\ SignalsAlone'
  <2>1. Proceed(w) \/ \E phase : Step(w, phase) /\ phase \notin {"insert", "replace"}
    BY <1>7 DEF CancelRead, CancelWrite, SkipEvent, ExecuteRead, CreateJobs, CreateNoJobs,
                WithoutJobs, Executed, Report, Enqueue
  <2>2. \E c : Harmless(w, c)
    BY <1>0, <2>1, HarmlessCalls
  <2>3. CASE CancelWrite(w) \/ Executed(w)
    <3>1. call[w].alert \in Alert /\ alert[call[w].alert].state # "NONE"
      BY <1>0, <2>3 DEF CancelWrite, Executed, At, CallOK, AlertPhase
    <3>2. PICK st \in {"CANCELLED", "EXECUTED"} :
            alert' = [alert EXCEPT ![call[w].alert].state = st]
      BY <2>3 DEF CancelWrite, Executed, Finished
    <3>3. alert'[call[w].alert].state = st
      BY <1>0, <3>1, <3>2, StateType DEF AlertState
    <3>4. \A b \in Alert \ {call[w].alert} : alert'[b] = alert[b]
      BY <1>0, <3>2
    <3>5. ActiveKept
      BY <3>3, <3>4 DEF ActiveKept, Active
    <3>6. QED
      BY <2>2, <3>5, HarmlessStep
  <2>4. CASE ~(CancelWrite(w) \/ Executed(w))
    <3>1. UNCHANGED alert
      BY <1>7, <2>4 DEF CancelRead, SkipEvent, ExecuteRead, CreateJobs, CreateNoJobs, Report, Enqueue
    <3>2. QED
      BY <1>1, <2>2, <3>1, HarmlessStep
  <2>5. QED
    BY <2>3, <2>4
<1>8. QED
  BY <1>3, <1>4, <1>5, <1>6, <1>7 DEF Monitoring

\* A delivery that writes an alert finds what it read: the one it replaces is
\* the only active alert, or there is none.
LEMMA WriteAlone ==
  ASSUME OneAlertInv, NEW w \in Worker, NEW a \in Alert, Replace(w, a) \/ Insert(w, a)
  PROVE  OneActiveAlert' /\ SignalsAlone'
<1>0. /\ TypeInv /\ call \in [Worker -> CallState] /\ call[w] \in CallState /\ CallOK(w)
      /\ alert \in [Alert -> AlertRow \cup {NoAlert}]
      /\ SignalsAlone
  BY DEF OneAlertInv, TypeInv, TypeOK
<1>1. call[w].phase \in {"replace", "insert"} /\ call[w].by = "webhook"
  BY <1>0 DEF Replace, Insert, At, CallOK, SignalPhase
<1>2. \A v \in Worker \ {w} : call'[v] = call[v] /\ call[v].by # "webhook"
  BY <1>0, <1>1 DEF Replace, Insert, Step, SignalsAlone
<1>3. call'[w].phase = "watch" /\ call'[w].by = "webhook"
  BY <1>0, <1>1 DEF Replace, Insert, Step, CallState
<1>4. \A v \in Worker \ {w} : call'[v].phase \notin {"insert", "replace"}
  BY <1>0, <1>2 DEF TypeInv, CallOK, SignalPhase
<1>5. \A b \in Alert : alert'[b].state = "MONITORING" => b = a
  <2>1. CASE Replace(w, a)
    <3> DEFINE r == call[w].alert
    <3>1. At(w, "replace") /\ r \in Alert /\ alert[r] \in AlertRow /\ r # a
      BY <1>0, <2>1, RowType DEF Replace, At, CallOK, Unused
    <3>2. \A b \in Alert : Active(b) => b = r
      BY <1>0, <3>1 DEF SignalsAlone
    <3>3. alert' = [alert EXCEPT ![a] = NewAlert(w, r), ![r].state = "CANCELLED"]
      BY <2>1 DEF Replace, Replaced
    <3>4. alert'[r].state = "CANCELLED"
      BY <1>0, <3>1, <3>3 DEF AlertRow
    <3>5. \A b \in Alert \ {a, r} : alert'[b] = alert[b]
      BY <1>0, <3>1, <3>3
    <3>6. QED
      BY <3>2, <3>4, <3>5 DEF Active
  <2>2. CASE Insert(w, a)
    <3>1. At(w, "insert") /\ alert' = [alert EXCEPT ![a] = NewAlert(w, None)]
      BY <2>2 DEF Insert
    <3>2. \A b \in Alert : ~Active(b)
      BY <1>0, <3>1 DEF SignalsAlone, At
    <3>3. QED
      BY <1>0, <3>1, <3>2 DEF Active
  <2>3. QED
    BY <2>1, <2>2
<1>6. QED
  BY <1>2, <1>3, <1>4, <1>5 DEF OneActiveAlert, SignalsAlone, Active, At

\* The steps of a delivery.
LEMMA DeliveryAlone ==
  ASSUME OneSignal, OneAlertInv, NEW w \in Worker, Delivery(w)
  PROVE  OneActiveAlert' /\ SignalsAlone'
<1>0. /\ TypeInv /\ call \in [Worker -> CallState] /\ call[w] \in CallState /\ CallOK(w)
      /\ OneActiveAlert /\ SignalsAlone
  BY DEF OneAlertInv, TypeInv, TypeOK
<1>1. ASSUME NEW s \in Side, NEW p \in Price, Receive(w, s, p)
      PROVE  OneActiveAlert' /\ SignalsAlone'
  <2> DEFINE c == [NoCall EXCEPT !.phase = "receive", !.by = "webhook", !.side = s, !.price = p]
  <2>1. c.phase = "receive"
    BY DEF NoCall
  <2>2. call' = [call EXCEPT ![w] = c] /\ UNCHANGED alert
    BY <1>1 DEF Receive
  <2>3. \A v \in Worker : call[v].by # "webhook"
    BY <1>1 DEF Receive, OneSignal, OneCaller, Idle, NoCall, CallOK, OneAlertInv, TypeInv, SignalPhase
  <2> HIDE DEF c
  <2>4. call'[w] = c /\ \A v \in Worker \ {w} : call'[v] = call[v]
    BY <1>0, <2>2
  <2>5. QED
    BY <1>0, <2>1, <2>2, <2>3, <2>4 DEF OneActiveAlert, SignalsAlone, Active, At
<1>2. ASSUME NEW e \in Event, CreateEvent(w, e)
      PROVE  OneActiveAlert' /\ SignalsAlone'
  <2> DEFINE c == [call[w] EXCEPT !.phase = "precheck", !.event = e]
  <2>1. call' = [call EXCEPT ![w] = c] /\ c.phase = "precheck" /\ c.by = call[w].by
    BY <1>0, <1>2 DEF CreateEvent, CallState
  <2>2. Harmless(w, c) /\ ActiveKept
    BY <1>2, <2>1 DEF Harmless, ActiveKept, Active, CreateEvent
  <2>3. QED
    BY <2>2, HarmlessStep
<1>3. ASSUME Precheck(w) \/ Watch(w)
      PROVE  OneActiveAlert' /\ SignalsAlone'
  <2>1. Return(w) \/ Step(w, "find")
    BY <1>3 DEF Precheck, Skip, Watch
  <2>2. \E c : Harmless(w, c)
    BY <1>0, <2>1, HarmlessCalls
  <2>3. ActiveKept
    BY <1>3 DEF ActiveKept, Active, Precheck, Watch
  <2>4. QED
    BY <2>2, <2>3, HarmlessStep
<1>4. ASSUME Find(w)
      PROVE  OneActiveAlert' /\ SignalsAlone'
  <2>1. UNCHANGED alert /\ call[w].phase = "find" /\ call[w].by = "webhook"
    BY <1>0, <1>4 DEF Find, At, CallOK, SignalPhase
  <2>2. CASE Return(w) \/ Step(w, "watch")
    <3>1. \E c : Harmless(w, c)
      BY <1>0, <2>2, HarmlessCalls
    <3>2. ActiveKept
      BY <2>1 DEF ActiveKept, Active
    <3>3. QED
      BY <3>1, <3>2, HarmlessStep
  <2>3. CASE Step(w, "insert") /\ \A a \in Alert : ~Active(a)
    <3>1. \A v \in Worker \ {w} : call'[v] = call[v]
      BY <1>0, <2>3 DEF Step
    <3>2. call'[w].by = "webhook"
      BY <1>0, <2>1, <2>3 DEF Step, CallState
    <3>3. \A a \in Alert : alert'[a].state # "MONITORING"
      BY <2>1, <2>3 DEF Active
    <3>4. QED
      BY <1>0, <2>1, <3>1, <3>2, <3>3 DEF OneActiveAlert, SignalsAlone, Active
  <2>4. ASSUME NEW a \in Alert, Newest(a),
               call' = [call EXCEPT ![w].phase = "replace", ![w].alert = a]
        PROVE  OneActiveAlert' /\ SignalsAlone'
    <3> DEFINE c == [call[w] EXCEPT !.phase = "replace", !.alert = a]
    <3>1. call' = [call EXCEPT ![w] = c]
      BY <1>0, <2>4
    <3>2. c.phase = "replace" /\ c.alert = a /\ c.by = "webhook"
      BY <1>0, <2>1 DEF CallState
    <3> HIDE DEF c
    <3>3. call'[w] = c /\ \A v \in Worker \ {w} : call'[v] = call[v]
      BY <1>0, <3>1
    <3>4. \A b \in Alert : alert'[b].state = "MONITORING" => b = a
      BY <1>0, <2>1, <2>4 DEF OneActiveAlert, Newest, Active
    <3>5. QED
      BY <1>0, <2>1, <3>2, <3>3, <3>4 DEF OneActiveAlert, SignalsAlone, Active, At
  <2>5. QED
    BY <1>4, <2>2, <2>3, <2>4 DEF Find, Skip
<1>5. QED
  BY <1>1, <1>2, <1>3, <1>4, WriteAlone DEF Delivery

\* Every step keeps one active alert.
LEMMA OneAlertStep ==
  ASSUME OneSignal, OneAlertInv, [Next]_vars
  PROVE  OneAlertInv'
<1>0. TypeInv'
  BY StepType DEF OneAlertInv
<1>1. ASSUME NEW w \in Worker, CallFails(w) \/ Crash(w)
      PROVE  OneActiveAlert' /\ SignalsAlone'
  <2>1. Return(w) \/ Proceed(w) \/ Step(w, "enqueue")
    BY <1>1 DEF CallFails, Crash, Skip
  <2>2. \E c : Harmless(w, c)
    BY <2>1, HarmlessCalls DEF OneAlertInv
  <2>3. ActiveKept
    BY <1>1 DEF CallFails, Crash, ActiveKept, Active
  <2>4. QED
    BY <2>2, <2>3, HarmlessStep
<1>2. ASSUME \/ \E s \in Side : RecentEnds(s)
             \/ \E a \in Alert : AlertAges(a) \/ CooldownEnds(a)
             \/ UNCHANGED vars
      PROVE  OneActiveAlert' /\ SignalsAlone'
  <2>1. UNCHANGED <<alert, call>>
    BY <1>2 DEF RecentEnds, AlertAges, CooldownEnds, vars
  <2>2. QED
    BY <2>1 DEF OneAlertInv, OneActiveAlert, SignalsAlone, Active, At
<1>3. \/ \E w \in Worker : Delivery(w) \/ Monitoring(w) \/ CallFails(w) \/ Crash(w)
      \/ \E s \in Side : RecentEnds(s)
      \/ \E a \in Alert : AlertAges(a) \/ CooldownEnds(a)
      \/ UNCHANGED vars
  BY DEF Next, Continue, Delivery, Monitoring
<1>4. QED
  BY <1>0, <1>1, <1>2, <1>3, DeliveryAlone, MonitoringHarmless DEF OneAlertInv

\* There is no alert at first.
LEMMA OneAlertInit == Init => OneAlertInv
<1>1. Init => OneActiveAlert /\ SignalsAlone
  BY DEF Init, OneActiveAlert, SignalsAlone, Active, NoAlert, NoCall, At
<1>2. QED
  BY <1>1, InitType DEF OneAlertInv

\* When the signals of a source come one at a time, at most one of its alerts is
\* active, however many passes of the monitor and cancellations overlap with
\* a delivery and wherever they fail.
THEOREM OneAlertAtATime == ASSUME OneSignal PROVE Spec => []OneActiveAlert
<1>1. Init => OneAlertInv
  BY OneAlertInit
<1>2. OneAlertInv /\ [Next]_vars => OneAlertInv'
  BY OneAlertStep
<1>3. OneAlertInv => OneActiveAlert
  BY DEF OneAlertInv
<1>4. QED
  BY <1>1, <1>2, <1>3, PTL DEF Spec

(***************************************************************************)
(* What a step of one worker changes: the alerts, the jobs, the cooldowns  *)
(* and its own call.  The invariants below rest on these two lemmas.       *)
(***************************************************************************)
Acts(w) == Delivery(w) \/ Monitoring(w) \/ CallFails(w) \/ Crash(w)

\* What never changes of an alert.
SameSignal(a) ==
  /\ alert'[a].side = alert[a].side /\ alert'[a].price = alert[a].price
  /\ alert'[a].event = alert[a].event /\ alert'[a].replaces = alert[a].replaces

Created(w, a) ==
  /\ alert[a].state = "NONE"
  /\ \/ Replace(w, a) /\ alert'[a] = NewAlert(w, call[w].alert)
     \/ Insert(w, a) /\ alert'[a] = NewAlert(w, None)

Moved(w, a) ==
  /\ alert[a].state # "NONE" /\ a = call[w].alert /\ SameSignal(a)
  /\ \/ PriceWrite(w) /\ alert'[a].state = alert[a].state /\ alert'[a].extreme = call[w].extreme
     \/ /\ alert'[a].extreme = alert[a].extreme
        /\ \/ alert'[a].state = "CANCELLED" /\ (CancelWrite(w) \/ \E b \in Alert : Replace(w, b))
           \/ alert'[a].state = "EXECUTED" /\ Executed(w)

\* Few actions write the alerts, the jobs and the cooldowns.
LEMMA FewWrite ==
  ASSUME NEW w \in Worker, Acts(w)
  PROVE  /\ \/ UNCHANGED alert
            \/ \E b \in Alert : Replace(w, b) \/ Insert(w, b)
            \/ PriceWrite(w) \/ CancelWrite(w) \/ Executed(w)
         /\ UNCHANGED jobs \/ CreateJobs(w)
         /\ UNCHANGED fresh \/ Executed(w) \/ PriceWrite(w)
<1>1. ASSUME Delivery(w)
      PROVE  /\ UNCHANGED alert \/ \E b \in Alert : Replace(w, b) \/ Insert(w, b)
             /\ UNCHANGED <<jobs, fresh>>
  <2>1. ASSUME NEW b \in Alert, Replace(w, b) \/ Insert(w, b)
        PROVE  UNCHANGED <<jobs, fresh>>
    BY <2>1 DEF Replace, Insert
  <2>2. ASSUME NEW s \in Side, NEW p \in Price, Receive(w, s, p)
        PROVE  UNCHANGED <<alert, jobs, fresh>>
    BY <2>2 DEF Receive
  <2>3. ASSUME NEW e \in Event, CreateEvent(w, e)
        PROVE  UNCHANGED <<alert, jobs, fresh>>
    BY <2>3 DEF CreateEvent
  <2>4. ASSUME Precheck(w) \/ Find(w) \/ Watch(w)
        PROVE  UNCHANGED <<alert, jobs, fresh>>
    BY <2>4 DEF Precheck, Find, Watch
  <2>5. QED
    BY <1>1, <2>1, <2>2, <2>3, <2>4 DEF Delivery
<1>2. ASSUME Monitoring(w)
      PROVE  /\ UNCHANGED alert \/ PriceWrite(w) \/ CancelWrite(w) \/ Executed(w)
             /\ UNCHANGED jobs \/ CreateJobs(w)
             /\ UNCHANGED fresh \/ Executed(w) \/ PriceWrite(w)
  <2>1. PassStarts(w) => UNCHANGED <<alert, jobs, fresh>>
    BY DEF PassStarts
  <2>2. ASSUME NEW a \in Alert, NEW p \in Price, PriceRead(w, a, p)
        PROVE  UNCHANGED <<alert, jobs, fresh>>
    BY <2>2 DEF PriceRead
  <2>3. ASSUME NEW a \in Alert, CancelRequest(w, a) \/ PriceMissing(w, a)
        PROVE  UNCHANGED <<alert, jobs, fresh>>
    BY <2>3 DEF CancelRequest, PriceMissing
  <2>4. ASSUME CancelRead(w) \/ SkipEvent(w) \/ ExecuteRead(w) \/ CreateNoJobs(w) \/ Report(w)
               \/ Enqueue(w)
        PROVE  UNCHANGED <<alert, jobs, fresh>>
    BY <2>4 DEF CancelRead, SkipEvent, ExecuteRead, CreateNoJobs, Report, Enqueue
  <2>5. /\ PriceWrite(w) \/ Executed(w) => UNCHANGED jobs
        /\ CancelWrite(w) => UNCHANGED <<jobs, fresh>>
        /\ CreateJobs(w) => UNCHANGED <<alert, fresh>>
    BY DEF PriceWrite, Executed, CancelWrite, CreateJobs
  <2>6. QED
    BY <1>2, <2>1, <2>2, <2>4, <2>5, <2>3 DEF Monitoring
<1>3. ASSUME CallFails(w) \/ Crash(w)
      PROVE  UNCHANGED <<alert, jobs, fresh>>
  BY <1>3 DEF CallFails, Crash
<1>4. QED
  BY <1>1, <1>2, <1>3 DEF Acts

\* An alert is created, followed, cancelled, replaced or executed by the call
\* that holds it, and nothing else happens to it.
LEMMA AlertHistory ==
  ASSUME TypeInv, NEW w \in Worker, Acts(w), NEW a \in Alert
  PROVE  alert'[a] = alert[a] \/ Created(w, a) \/ Moved(w, a)
<1>0. /\ alert \in [Alert -> AlertRow \cup {NoAlert}] /\ CallOK(w)
  BY DEF TypeInv, TypeOK
<1> DEFINE r == call[w].alert
<1>1. CASE \E b \in Alert : Replace(w, b)
  <2>1. PICK b \in Alert : Replace(w, b)
    BY <1>1
  <2>2. r \in Alert /\ alert[r] \in AlertRow /\ r # b /\ alert[b].state = "NONE"
    BY <1>0, <2>1, RowType DEF Replace, At, CallOK, Unused
  <2>3. alert' = [alert EXCEPT ![b] = NewAlert(w, r), ![r].state = "CANCELLED"]
    BY <2>1 DEF Replace, Replaced
  <2>4. CASE a = b
    <3>1. alert'[a] = NewAlert(w, r)
      BY <1>0, <2>2, <2>3, <2>4
    <3>2. QED
      BY <2>1, <2>2, <2>4, <3>1 DEF Created
  <2>5. CASE a = r
    <3>1. alert'[a] = [alert[a] EXCEPT !.state = "CANCELLED"] /\ alert[a] \in AlertRow
      BY <1>0, <2>2, <2>3, <2>5
    <3>2. QED
      BY <1>1, <2>5, <3>1 DEF Moved, SameSignal, AlertRow, AlertState
  <2>6. CASE a \notin {b, r}
    BY <1>0, <2>2, <2>3, <2>6
  <2>7. QED
    BY <2>4, <2>5, <2>6
<1>2. CASE \E b \in Alert : Insert(w, b)
  <2>1. PICK b \in Alert : Insert(w, b)
    BY <1>2
  <2>2. alert' = [alert EXCEPT ![b] = NewAlert(w, None)] /\ alert[b].state = "NONE"
    BY <2>1 DEF Insert, Unused
  <2>3. QED
    BY <1>0, <2>1, <2>2 DEF Created
<1>3. CASE PriceWrite(w) \/ CancelWrite(w) \/ Executed(w)
  <2>1. r \in Alert /\ alert[r] \in AlertRow /\ alert[r].state # "NONE"
    BY <1>0, <1>3, RowType DEF PriceWrite, CancelWrite, Executed, At, CallOK, AlertPhase
  <2>2. CASE PriceWrite(w)
    <3>1. alert' = [alert EXCEPT ![r] = [alert[r] EXCEPT !.extreme = call[w].extreme,
                                                        !.cycles = call[w].cycles]]
      BY <1>0, <2>1, <2>2 DEF PriceWrite
    <3>2. CASE a # r
      BY <1>0, <3>1, <3>2
    <3>3. CASE a = r
      <4>1. alert'[a] = [alert[a] EXCEPT !.extreme = call[w].extreme, !.cycles = call[w].cycles]
        BY <1>0, <2>1, <3>1, <3>3
      <4>2. QED
        BY <2>1, <2>2, <3>3, <4>1 DEF Moved, SameSignal, AlertRow
    <3>4. QED
      BY <3>2, <3>3
  <2>3. CASE CancelWrite(w) \/ Executed(w)
    <3>1. PICK st \in {"CANCELLED", "EXECUTED"} :
            /\ alert' = [alert EXCEPT ![r].state = st]
            /\ st = "CANCELLED" => CancelWrite(w)
            /\ st = "EXECUTED" => Executed(w)
      BY <2>3 DEF CancelWrite, Executed, Finished
    <3>2. CASE a # r
      BY <1>0, <3>1, <3>2
    <3>3. CASE a = r
      <4>1. alert'[a] = [alert[a] EXCEPT !.state = st]
        BY <1>0, <2>1, <3>1, <3>3
      <4>2. QED
        BY <2>1, <3>1, <3>3, <4>1 DEF Moved, SameSignal, AlertRow
    <3>4. QED
      BY <3>2, <3>3
  <2>4. QED
    BY <1>3, <2>2, <2>3
<1>4. CASE UNCHANGED alert
  BY <1>4
<1>5. QED
  BY <1>1, <1>2, <1>3, <1>4, FewWrite

\* The phases of a pass.  A pass and a user cancel an alert in the same phases.
PassPhase == AlertPhase \ {"cancelled", "skip"}

Goes(w) ==
  LET c == call[w]
      d == call'[w]
  IN \/ d.phase = "idle" /\ d.by = "nobody" /\ d.todo = {}
     \/ d.phase = "pass" /\ d.by = "pass" /\ (PassStarts(w) \/ (c.phase \in AlertPhase /\ c.todo # {}))
     \/ d.phase = "cancelled" /\ d.by = "user" /\ d.todo = {}
     \/ d.phase \in SignalPhase /\ d.by = "webhook" /\ (d.todo = {} \/ (c.by = "webhook" /\ d.todo = c.todo))
     \/ /\ d.phase \in AlertPhase \ {"pass"} /\ c.phase \in AlertPhase /\ d.todo \subseteq c.todo
        /\ d.phase \in PassPhase => c.phase \in PassPhase
        /\ d.by = c.by \/ (c.phase = "priced" /\ d.by = "pass")

Enters(w) ==
  LET c == call[w]
      d == call'[w]
  IN /\ d.phase \in {"priced", "replace"} => d.alert \in Alert /\ Active(d.alert) /\ UNCHANGED alert
     /\ d.phase = "priced" /\ d.verdict = "execute" => ~FellTooFar(d.alert, d.extreme)
     /\ d.phase = "execute" => PriceWrite(w) /\ c.verdict = "execute" /\ d.alert = c.alert
     /\ d.phase = "jobs" => ExecuteRead(w) /\ Active(c.alert) /\ d.alert = c.alert
     /\ d.phase = "executed" => CreateJobs(w) /\ d.alert = c.alert
     /\ c.phase = "executed" => Executed(w) \/ CallFails(w) \/ Crash(w)
     /\ d.phase = "cancelled" => d.alert \in Alert /\ Active(d.alert) /\ UNCHANGED alert
     /\ d.phase = "insert" => ~Cooling(d.side) /\ UNCHANGED <<alert, fresh>>
     /\ d.phase = "replace" =>
          /\ alert[d.alert].side = d.side
          /\ Improves(d.side, d.price, alert[d.alert].extreme)

\* The call of another worker.
Alone(w) == \A v \in Worker \ {w} : call'[v] = call[v]

\* A call that is over.
LEMMA GoneIdle ==
  ASSUME TypeInv, NEW w \in Worker, Return(w),
         call[w].phase = "executed" => Executed(w) \/ CallFails(w) \/ Crash(w)
  PROVE  Alone(w) /\ Goes(w) /\ Enters(w)
<1>1. call' = [call EXCEPT ![w] = NoCall] /\ call \in [Worker -> CallState]
  BY DEF Return, TypeInv, TypeOK
<1>2. call'[w].phase = "idle" /\ call'[w].by = "nobody" /\ call'[w].todo = {}
  BY <1>1 DEF NoCall
<1>3. QED
  BY <1>1, <1>2 DEF Alone, Goes, Enters

\* A pass that goes on with its next alert, or is over.
LEMMA GoneOn ==
  ASSUME TypeInv, NEW w \in Worker, NEW todo \in SUBSET call[w].todo,
         call' = [call EXCEPT ![w] = Rest(w, todo)], call[w].phase \in AlertPhase,
         call[w].phase = "executed" => CallFails(w) \/ Crash(w)
  PROVE  Alone(w) /\ Goes(w) /\ Enters(w)
<1>1. call \in [Worker -> CallState]
  BY DEF TypeInv, TypeOK
<1>2. CASE todo = {}
  <2>1. Rest(w, todo) = NoCall
    BY <1>2 DEF Rest
  <2>2. call'[w].phase = "idle" /\ call'[w].by = "nobody" /\ call'[w].todo = {}
    BY <1>1, <2>1 DEF NoCall
  <2>3. QED
    BY <1>1, <2>2 DEF Alone, Goes, Enters
<1>3. CASE todo # {}
  <2>1. call'[w].phase = "pass" /\ call'[w].by = "pass" /\ call[w].todo # {}
    BY <1>1, <1>3 DEF Rest, NoCall
  <2>2. QED
    BY <1>1, <2>1 DEF Alone, Goes, Enters
<1>4. QED
  BY <1>2, <1>3

\* A call that proceeds to the next alert.
LEMMA GoneProceed ==
  ASSUME TypeInv, NEW w \in Worker, Proceed(w), call[w].phase \in AlertPhase,
         call[w].phase = "executed" => CallFails(w) \/ Crash(w)
  PROVE  Alone(w) /\ Goes(w) /\ Enters(w)
<1>1. call' = [call EXCEPT ![w] = Rest(w, call[w].todo)]
  BY DEF Proceed, TypeInv, TypeOK
<1>2. QED
  BY <1>1, GoneOn

\* The next phase of the same call.
LEMMA GoneStep ==
  ASSUME TypeInv, NEW w \in Worker, NEW phase, Step(w, phase)
  PROVE  /\ Alone(w)
         /\ call'[w].phase = phase /\ call'[w].by = call[w].by /\ call'[w].todo = call[w].todo
         /\ call'[w].alert = call[w].alert /\ call'[w].side = call[w].side
         /\ call'[w].price = call[w].price /\ call'[w].event = call[w].event
<1>1. call \in [Worker -> CallState] /\ call[w] \in CallState
  BY DEF TypeInv, TypeOK
<1>2. call' = [call EXCEPT ![w] = [call[w] EXCEPT !.phase = phase]]
  BY <1>1 DEF Step
<1>3. call'[w] = [call[w] EXCEPT !.phase = phase]
  BY <1>1, <1>2
<1>4. Alone(w)
  BY <1>1, <1>2 DEF Alone
<1>5. QED
  BY <1>1, <1>3, <1>4 DEF CallState

\* A call that stays with its alert enters no new pass.
LEMMA GoneAlong ==
  ASSUME TypeInv, NEW w \in Worker, NEW phase \in AlertPhase \ {"pass"}, Step(w, phase),
         call[w].phase \in AlertPhase, phase \in PassPhase => call[w].phase \in PassPhase
  PROVE  Goes(w)
<1>1. call'[w].phase = phase /\ call'[w].by = call[w].by /\ call'[w].todo = call[w].todo
  BY GoneStep
<1>2. QED
  BY <1>1 DEF Goes

\* Where the steps of a delivery lead.
LEMMA DeliveryMoves ==
  ASSUME TypeInv, NEW w \in Worker, Delivery(w)
  PROVE  Alone(w) /\ Goes(w) /\ Enters(w)
<1> DEFINE c == call[w]
<1>0. call \in [Worker -> CallState] /\ c \in CallState /\ CallOK(w)
  BY DEF TypeInv, TypeOK
<1>1. ASSUME NEW s \in Side, NEW p \in Price, Receive(w, s, p)
      PROVE  Alone(w) /\ Goes(w) /\ Enters(w)
  <2>1. PICK d : /\ d = [NoCall EXCEPT !.phase = "receive", !.by = "webhook", !.side = s, !.price = p]
                 /\ call' = [call EXCEPT ![w] = d]
    BY <1>1 DEF Receive
  <2>2. d.phase = "receive" /\ d.by = "webhook" /\ d.todo = {} /\ c.phase = "idle"
    BY <1>1, <2>1 DEF NoCall, Receive, Idle
  <2> HIDE DEF c
  <2>3. call'[w] = d /\ Alone(w)
    BY <1>0, <2>1 DEF Alone
  <2>4. Goes(w)
    BY <2>2, <2>3 DEF Goes, SignalPhase
  <2>5. call[w].phase = "idle"
    BY <2>2 DEF c
  <2>6. Enters(w)
    BY <2>2, <2>3, <2>5 DEF Enters
  <2>7. QED
    BY <2>3, <2>4, <2>6
<1>2. ASSUME NEW e \in Event, CreateEvent(w, e)
      PROVE  Alone(w) /\ Goes(w) /\ Enters(w)
  <2>1. PICK d : d = [c EXCEPT !.phase = "precheck", !.event = e] /\ call' = [call EXCEPT ![w] = d]
    BY <1>0, <1>2 DEF CreateEvent
  <2>2. d.phase = "precheck" /\ d.by = c.by /\ d.todo = c.todo /\ c.phase = "receive" /\ c.by = "webhook"
    BY <1>0, <1>2, <2>1 DEF CreateEvent, At, CallState, CallOK, SignalPhase
  <2>3. call'[w] = d /\ Alone(w)
    BY <1>0, <2>1 DEF Alone
  <2>4. QED
    BY <2>2, <2>3 DEF Goes, Enters, SignalPhase
<1>3. ASSUME Precheck(w) \/ Watch(w)
      PROVE  Alone(w) /\ Goes(w) /\ Enters(w)
  <2>1. c.phase \in {"precheck", "watch"} /\ c.by = "webhook"
    BY <1>0, <1>3 DEF Precheck, Watch, At, CallOK, SignalPhase
  <2>2. CASE Return(w)
    BY <2>1, <2>2, GoneIdle
  <2>3. CASE Step(w, "find")
    BY <2>1, <2>3, GoneStep DEF Goes, Enters, SignalPhase
  <2>4. QED
    BY <1>3, <2>2, <2>3 DEF Precheck, Watch, Skip
<1>4. ASSUME Find(w)
      PROVE  Alone(w) /\ Goes(w) /\ Enters(w)
  <2>1. c.phase = "find" /\ c.by = "webhook" /\ UNCHANGED <<alert, fresh>>
    BY <1>0, <1>4 DEF Find, At, CallOK, SignalPhase
  <2>2. CASE Return(w)
    BY <2>1, <2>2, GoneIdle
  <2>3. CASE Step(w, "watch")
    BY <2>1, <2>3, GoneStep DEF Goes, Enters, SignalPhase
  <2>4. CASE Step(w, "insert") /\ ~Cooling(c.side)
    BY <2>1, <2>4, GoneStep DEF Goes, Enters, SignalPhase
  <2>5. ASSUME NEW a \in Alert, Newest(a), SameSide(w, a), Better(w, a),
               call' = [call EXCEPT ![w].phase = "replace", ![w].alert = a]
        PROVE  Alone(w) /\ Goes(w) /\ Enters(w)
    <3>1. PICK d : d = [c EXCEPT !.phase = "replace", !.alert = a] /\ call' = [call EXCEPT ![w] = d]
      BY <1>0, <2>5
    <3>2. /\ d.phase = "replace" /\ d.by = "webhook" /\ d.todo = c.todo /\ d.alert = a
          /\ d.side = c.side /\ d.price = c.price
      BY <1>0, <2>1, <3>1 DEF CallState
    <3>3. call'[w] = d /\ Alone(w)
      BY <1>0, <3>1 DEF Alone
    <3>4. Goes(w)
      BY <2>1, <3>2, <3>3 DEF Goes, SignalPhase
    <3>5. QED
      BY <2>1, <2>5, <3>2, <3>3, <3>4 DEF Enters, Newest, SameSide, Better
  <2>6. QED
    BY <1>4, <2>2, <2>3, <2>4, <2>5 DEF Find, Skip
<1>5. ASSUME NEW a \in Alert, Replace(w, a)
      PROVE  Alone(w) /\ Goes(w) /\ Enters(w)
  <2>1. PICK d : d = [c EXCEPT !.phase = "watch", !.alert = None] /\ call' = [call EXCEPT ![w] = d]
    BY <1>0, <1>5 DEF Replace
  <2>2. d.phase = "watch" /\ d.by = c.by /\ d.todo = c.todo /\ c.phase = "replace" /\ c.by = "webhook"
    BY <1>0, <1>5, <2>1 DEF Replace, At, CallState, CallOK, SignalPhase
  <2>3. call'[w] = d /\ Alone(w)
    BY <1>0, <2>1 DEF Alone
  <2>4. QED
    BY <2>2, <2>3 DEF Goes, Enters, SignalPhase
<1>6. ASSUME NEW a \in Alert, Insert(w, a)
      PROVE  Alone(w) /\ Goes(w) /\ Enters(w)
  <2>1. c.phase = "insert" /\ c.by = "webhook" /\ Step(w, "watch")
    BY <1>0, <1>6 DEF Insert, At, CallOK, SignalPhase
  <2>2. QED
    BY <2>1, GoneStep DEF Goes, Enters, SignalPhase
<1>7. QED
  BY <1>1, <1>2, <1>3, <1>4, <1>5, <1>6 DEF Delivery

\* Where the steps of a pass or of a cancellation lead.
LEMMA MonitoringMoves ==
  ASSUME TypeInv, NEW w \in Worker, Monitoring(w)
  PROVE  Alone(w) /\ Goes(w) /\ Enters(w)
<1> DEFINE c == call[w]
<1>0. call \in [Worker -> CallState] /\ c \in CallState /\ CallOK(w)
  BY DEF TypeInv, TypeOK
<1>1. ASSUME PassStarts(w)
      PROVE  Alone(w) /\ Goes(w) /\ Enters(w)
  <2> DEFINE todo == {a \in Alert : Active(a)}
  <2>1. call' = [call EXCEPT ![w] = [NoCall EXCEPT !.phase = "pass", !.by = "pass", !.todo = todo]]
    BY <1>1 DEF PassStarts
  <2> HIDE DEF todo
  <2>2. call'[w].phase = "pass" /\ call'[w].by = "pass" /\ c.phase = "idle" /\ Alone(w)
    BY <1>0, <1>1, <2>1 DEF NoCall, PassStarts, Idle, Alone
  <2>3. Goes(w)
    BY <1>1, <2>2 DEF Goes
  <2>4. Enters(w)
    BY <2>2 DEF Enters
  <2>5. QED
    BY <2>2, <2>3, <2>4
<1>2. ASSUME NEW a \in Alert, CancelRequest(w, a)
      PROVE  Alone(w) /\ Goes(w) /\ Enters(w)
  <2>1. PICK d : /\ d = [NoCall EXCEPT !.phase = "cancelled", !.by = "user", !.alert = a]
                 /\ call' = [call EXCEPT ![w] = d]
    BY <1>2 DEF CancelRequest
  <2>2. d.phase = "cancelled" /\ d.by = "user" /\ d.todo = {} /\ d.alert = a /\ c.phase = "idle"
    BY <1>2, <2>1 DEF NoCall, CancelRequest, Idle
  <2>3. call'[w] = d /\ Alone(w)
    BY <1>0, <2>1 DEF Alone
  <2>4. QED
    BY <1>2, <2>2, <2>3 DEF Goes, Enters, CancelRequest
<1>3. ASSUME NEW a \in Alert, PriceMissing(w, a)
      PROVE  Alone(w) /\ Goes(w) /\ Enters(w)
  <2>1. call' = [call EXCEPT ![w] = Rest(w, c.todo \ {a})] /\ c.phase = "pass"
    BY <1>0, <1>3 DEF PriceMissing, At
  <2>2. QED
    BY <2>1, GoneOn DEF AlertPhase
<1>4. ASSUME NEW a \in Alert, NEW p \in Price, PriceRead(w, a, p)
      PROVE  Alone(w) /\ Goes(w) /\ Enters(w)
  <2> DEFINE new  == NewExtreme(alert[a].side, p, alert[a].extreme)
             x    == IF new THEN p ELSE alert[a].extreme
             n    == IF new THEN 0 ELSE Smaller(alert[a].cycles + 1, EnoughCycles)
             todo == c.todo \ {a}
  <2>1. c.phase = "pass" /\ UNCHANGED alert
    BY <1>4 DEF PriceRead, At
  <2>2. CASE ~Active(a)
    <3>1. call' = [call EXCEPT ![w] = Rest(w, todo)]
      BY <1>0, <1>4, <2>2 DEF PriceRead
    <3>2. QED
      BY <2>1, <3>1, GoneOn DEF AlertPhase
  <2>3. CASE Active(a)
    <3>1. PICK d : /\ d = [c EXCEPT !.phase = "priced", !.alert = a, !.todo = todo, !.extreme = x,
                                    !.cycles = n, !.verdict = VerdictFor(a, p, x, n)]
                   /\ call' = [call EXCEPT ![w] = d]
      BY <1>0, <1>4, <2>3 DEF PriceRead
    <3> HIDE DEF x, n
    <3>2. /\ d.phase = "priced" /\ d.by = c.by /\ d.todo \subseteq c.todo /\ d.alert = a
          /\ d.extreme = x /\ d.verdict = VerdictFor(a, p, x, n)
      BY <1>0, <3>1 DEF CallState
    <3>3. call'[w] = d /\ Alone(w)
      BY <1>0, <3>1 DEF Alone
    <3>4. d.verdict = "execute" => ~FellTooFar(a, x)
      BY <3>2 DEF VerdictFor
    <3>5. Goes(w)
      <4>1. "priced" \in AlertPhase \ {"pass"} /\ "pass" \in AlertPhase /\ "pass" \in PassPhase
        BY DEF AlertPhase, PassPhase
      <4>2. QED
        BY <2>1, <3>2, <3>3, <4>1 DEF Goes
    <3>6. QED
      BY <2>1, <2>3, <3>2, <3>3, <3>4, <3>5 DEF Enters
  <2>4. QED
    BY <2>2, <2>3
<1>5. ASSUME PriceWrite(w)
      PROVE  Alone(w) /\ Goes(w) /\ Enters(w)
  <2>1. c.phase = "priced"
    BY <1>5 DEF PriceWrite, At
  <2>2. CASE c.verdict = "wait"
    <3>1. call' = [call EXCEPT ![w] = Rest(w, c.todo)]
      BY <1>0, <1>5, <2>2 DEF PriceWrite
    <3>2. QED
      BY <2>1, <3>1, GoneOn DEF AlertPhase
  <2>3. CASE c.verdict # "wait"
    <3>1. PICK d : /\ d = [NoCall EXCEPT !.phase = c.verdict, !.by = "pass", !.alert = c.alert,
                                         !.todo = c.todo]
                   /\ call' = [call EXCEPT ![w] = d]
      BY <1>0, <1>5, <2>3 DEF PriceWrite
    <3>2. /\ d.phase = c.verdict /\ c.verdict \in {"execute", "cancel"} /\ d.by = "pass"
          /\ d.alert = c.alert /\ d.todo = c.todo
      BY <1>0, <2>3, <3>1 DEF NoCall, CallState, Verdict
    <3>3. call'[w] = d /\ Alone(w)
      BY <1>0, <3>1 DEF Alone
    <3>4. QED
      BY <1>5, <2>1, <3>2, <3>3 DEF Goes, Enters, AlertPhase, PassPhase
  <2>4. QED
    BY <2>2, <2>3
<1>6. ASSUME CancelRead(w) \/ ExecuteRead(w) \/ CreateNoJobs(w)
      PROVE  Alone(w) /\ Goes(w) /\ Enters(w)
  <2>1. c.phase \in {"cancel", "execute", "jobs"} /\ UNCHANGED alert
    BY <1>6 DEF CancelRead, ExecuteRead, CreateNoJobs, At
  <2>2. CASE Proceed(w)
    BY <2>1, <2>2, GoneProceed DEF AlertPhase
  <2>3. CASE Step(w, "cancelled") /\ Active(c.alert)
    <3>1. c.alert \in Alert
      BY <1>0, <2>1 DEF CallOK, AlertPhase
    <3>2. Goes(w)
      BY <2>1, <2>3, GoneAlong DEF AlertPhase, PassPhase
    <3>3. Alone(w) /\ call'[w].phase = "cancelled" /\ call'[w].alert = c.alert
      BY <2>3, GoneStep
    <3>4. QED
      BY <2>1, <2>3, <3>1, <3>2, <3>3 DEF Enters
  <2>4. CASE Step(w, "jobs") /\ ExecuteRead(w) /\ Active(c.alert)
    <3>1. Goes(w)
      BY <2>1, <2>4, GoneAlong DEF AlertPhase, PassPhase, ExecuteRead, At
    <3>2. Alone(w) /\ call'[w].phase = "jobs" /\ call'[w].alert = c.alert
      BY <2>4, GoneStep
    <3>3. QED
      BY <2>1, <2>4, <3>1, <3>2 DEF Enters
  <2>5. CASE Step(w, "cancel")
    <3>1. Goes(w)
      BY <2>1, <2>5, GoneAlong DEF AlertPhase, PassPhase
    <3>2. Alone(w) /\ call'[w].phase = "cancel"
      BY <2>5, GoneStep
    <3>3. QED
      BY <2>1, <3>1, <3>2 DEF Enters
  <2>6. QED
    BY <1>6, <2>2, <2>3, <2>4, <2>5 DEF CancelRead, ExecuteRead, CreateNoJobs, WithoutJobs
<1>7. ASSUME CancelWrite(w) \/ CreateJobs(w) \/ Executed(w) \/ Report(w)
      PROVE  Alone(w) /\ Goes(w) /\ Enters(w)
  <2>1. \/ c.phase = "cancelled" /\ Step(w, "skip")
        \/ c.phase = "jobs" /\ Step(w, "executed") /\ CreateJobs(w)
        \/ c.phase = "executed" /\ Step(w, "report") /\ Executed(w)
        \/ c.phase = "report" /\ Step(w, "enqueue")
    BY <1>7 DEF CancelWrite, CreateJobs, Executed, Report, At
  <2>2. Goes(w)
    BY <2>1, GoneAlong DEF AlertPhase, PassPhase
  <2>3. \A phase : Step(w, phase) =>
          Alone(w) /\ call'[w].phase = phase /\ call'[w].alert = c.alert
    BY GoneStep
  <2>4. QED
    BY <2>1, <2>2, <2>3 DEF Enters
<1>8. ASSUME SkipEvent(w) \/ Enqueue(w)
      PROVE  Alone(w) /\ Goes(w) /\ Enters(w)
  <2>1. c.phase \in {"skip", "enqueue"} /\ Proceed(w)
    BY <1>8 DEF SkipEvent, Enqueue, At
  <2>2. QED
    BY <2>1, GoneProceed DEF AlertPhase
<1>9. QED
  BY <1>1, <1>2, <1>3, <1>4, <1>5, <1>6, <1>7, <1>8 DEF Monitoring

\* Where a call goes, and what it knows when it gets there.
LEMMA CallHistory ==
  ASSUME TypeInv, NEW w \in Worker, Acts(w)
  PROVE  Alone(w) /\ Goes(w) /\ Enters(w)
<1>1. ASSUME CallFails(w) \/ Crash(w)
      PROVE  Alone(w) /\ Goes(w) /\ Enters(w)
  <2>1. CASE Return(w)
    BY <1>1, <2>1, GoneIdle
  <2>2. CASE Proceed(w) /\ call[w].phase \in AlertPhase
    BY <1>1, <2>2, GoneProceed
  <2>3. CASE Step(w, "enqueue") /\ call[w].phase = "report"
    <3>1. Goes(w)
      BY <2>3, GoneAlong DEF AlertPhase, PassPhase
    <3>2. Alone(w) /\ call'[w].phase = "enqueue"
      BY <2>3, GoneStep
    <3>3. QED
      BY <2>3, <3>1, <3>2 DEF Enters
  <2>4. QED
    BY <1>1, <2>1, <2>2, <2>3 DEF CallFails, Crash, Skip, At
<1>2. QED
  BY <1>1, DeliveryMoves, MonitoringMoves DEF Acts

(***************************************************************************)
(* One pass at a time.  What a pass has read of an alert can be overtaken  *)
(* by signals and users, but not by another pass.                          *)
(***************************************************************************)
OnePass == "TWO_PASSES" \notin Enabled

PassesAlone ==
  /\ \A w \in Worker : call[w].phase \in PassPhase => call[w].by = "pass"
  /\ \A w \in Worker : call[w].by # "pass" => call[w].todo = {}
  /\ \A v, w \in Worker : call[v].by = "pass" /\ call[w].by = "pass" => v = w

PassInv == TypeInv /\ PassesAlone

\* Of two calls in a pass's own phases one is the other.
LEMMA OnlyPass ==
  ASSUME PassesAlone, NEW v \in Worker, NEW w \in Worker,
         call[v].phase \in PassPhase, call[w].phase \in PassPhase
  PROVE  v = w
BY DEF PassesAlone

\* No call enters the pass of another.
LEMMA PassWorkerStep ==
  ASSUME OnePass, PassInv, NEW w \in Worker, Acts(w)
  PROVE  PassesAlone'
<1> DEFINE c == call[w]
           d == call'[w]
<1>0. /\ Alone(w) /\ Goes(w)
      /\ c.phase \in PassPhase => c.by = "pass"
      /\ c.by # "pass" => c.todo = {}
  BY CallHistory DEF PassInv, PassesAlone
<1>1. PassStarts(w) => \A v \in Worker : call[v].by # "pass"
  BY DEF PassStarts, OnePass
<1>2. d.phase \in PassPhase => d.by = "pass"
  BY <1>0 DEF Goes, PassPhase, SignalPhase, AlertPhase
<1>3. d.by # "pass" => d.todo = {}
  BY <1>0 DEF Goes
<1>4. d.by = "pass" => c.by = "pass" \/ PassStarts(w)
  BY <1>0 DEF Goes, PassPhase
<1>5. ASSUME d.by = "pass", NEW v \in Worker \ {w}
      PROVE  call'[v].by # "pass"
  BY <1>0, <1>1, <1>4, <1>5 DEF Alone, PassInv, PassesAlone
<1>6. ASSUME NEW v \in Worker
      PROVE  /\ call'[v].phase \in PassPhase => call'[v].by = "pass"
             /\ call'[v].by # "pass" => call'[v].todo = {}
  BY <1>0, <1>2, <1>3 DEF Alone, PassInv, PassesAlone
<1>7. ASSUME NEW u \in Worker, NEW v \in Worker, call'[u].by = "pass", call'[v].by = "pass"
      PROVE  u = v
  BY <1>0, <1>5, <1>7 DEF Alone, PassInv, PassesAlone
<1>8. QED
  BY <1>6, <1>7 DEF PassesAlone

\* The steps that belong to no call.
Time ==
  \/ \E s \in Side : RecentEnds(s)
  \/ \E a \in Alert : AlertAges(a) \/ CooldownEnds(a)
  \/ UNCHANGED vars

\* Time changes no alert, no job and no call, and starts no cooldown.
LEMMA TimeKeeps ==
  ASSUME Time
  PROVE  UNCHANGED <<alert, event, jobs, call>> /\ (UNCHANGED fresh \/ \E a \in fresh : fresh' = fresh \ {a})
BY DEF Time, RecentEnds, AlertAges, CooldownEnds, vars

\* Every step is one of a worker, or of time.
LEMMA WhoActs ==
  ASSUME [Next]_vars
  PROVE  (\E w \in Worker : Acts(w)) \/ Time
BY DEF Next, Continue, Acts, Delivery, Monitoring, Time

\* No pass runs at first.
LEMMA PassInit == Init => PassInv
<1>1. Init => PassesAlone
  BY DEF Init, PassesAlone, NoCall, PassPhase, AlertPhase
<1>2. QED
  BY <1>1, InitType DEF PassInv

\* Every step keeps the passes alone.
LEMMA PassStep ==
  ASSUME OnePass, PassInv, [Next]_vars
  PROVE  PassInv'
<1>1. TypeInv'
  BY StepType DEF PassInv
<1>2. ASSUME Time
      PROVE  PassesAlone'
  BY <1>2, TimeKeeps DEF PassInv, PassesAlone
<1>3. QED
  BY <1>1, <1>2, WhoActs, PassWorkerStep DEF PassInv

(***************************************************************************)
(* JobsOnce.  An alert that has its jobs and is still active is about to   *)
(* be EXECUTED, by the pass that created them.                             *)
(***************************************************************************)
NothingFails == Enabled \cap {"CALL_FAILS", "CRASH"} = {}

JobsCounted(a) ==
  jobs[a] = 0 \/ ( /\ jobs[a] = 1
                   /\ alert[a].state # "NONE"
                   /\ Active(a) => \E w \in Worker : At(w, "executed") /\ call[w].alert = a )

JobsInv ==
  /\ PassInv
  /\ \A w \in Worker : At(w, "jobs") => jobs[call[w].alert] = 0
  /\ \A a \in Alert : JobsCounted(a)

\* The steps of a worker keep the jobs of an alert counted.
LEMMA JobsWorkerStep ==
  ASSUME OnePass, NothingFails, JobsInv, NEW w \in Worker, Acts(w), PassInv'
  PROVE  JobsInv'
<1> DEFINE c == call[w]
           d == call'[w]
<1>0. /\ Alone(w) /\ Enters(w) /\ PassesAlone /\ TypeInv
      /\ \A a \in Alert : alert'[a] = alert[a] \/ Created(w, a) \/ Moved(w, a)
      /\ jobs' = jobs \/ CreateJobs(w)
      /\ jobs \in [Alert -> 0..2]
      /\ CallOK(w)
  BY CallHistory, AlertHistory, FewWrite DEF JobsInv, PassInv, TypeInv, TypeOK
<1>1. ~CallFails(w) /\ ~Crash(w)
  BY DEF NothingFails, CallFails, Crash
<1>2. {"jobs", "executed", "execute"} \subseteq PassPhase
  BY DEF PassPhase, AlertPhase
<1>3. ASSUME NEW a \in Alert, alert[a].state # "NONE"
      PROVE  /\ alert'[a].state # "NONE"
             /\ alert'[a].state = "MONITORING" => Active(a)
  BY <1>0, <1>3 DEF Created, Moved, Active
<1>4. CASE CreateJobs(w)
  <2> DEFINE b == c.alert
  <2>1. /\ c.phase = "jobs" /\ b \in Alert /\ jobs[b] = 0 /\ alert[b].state # "NONE"
        /\ UNCHANGED alert
    BY <1>0, <1>4 DEF CreateJobs, At, JobsInv, CallOK, AlertPhase
  <2>2. jobs' = [jobs EXCEPT ![b] = 1]
    BY <1>0, <1>4, <2>1 DEF CreateJobs, Smaller
  <2>3. d.phase = "executed" /\ d.alert = b
    BY <1>0, <1>4, GoneStep DEF CreateJobs
  <2>4. ASSUME NEW v \in Worker \ {w}
        PROVE  call'[v].phase # "jobs" /\ call[v].phase # "executed"
    BY <1>0, <1>2, <2>1, OnlyPass DEF Alone
  <2>5. ASSUME NEW v \in Worker, call'[v].phase = "jobs"
        PROVE  jobs'[call'[v].alert] = 0
    BY <2>3, <2>4, <2>5
  <2>6. ASSUME NEW a \in Alert
        PROVE  JobsCounted(a)'
    <3>1. CASE a = b
      <4>1. jobs'[a] = 1 /\ alert'[a].state # "NONE"
        BY <1>0, <2>1, <2>2, <3>1
      <4>2. At(w, "executed")' /\ call'[w].alert = a
        BY <2>3, <3>1 DEF At
      <4>3. QED
        BY <4>1, <4>2 DEF JobsCounted
    <3>2. CASE a # b
      <4>1. jobs'[a] = jobs[a] /\ alert'[a] = alert[a]
        BY <1>0, <2>1, <2>2, <3>2
      <4>2. JobsCounted(a)
        BY DEF JobsInv
      <4>3. ~\E v \in Worker : At(v, "executed") /\ call[v].alert = a
        BY <2>1, <2>4 DEF At
      <4>4. QED
        BY <4>1, <4>2, <4>3 DEF JobsCounted, Active
    <3>3. QED
      BY <3>1, <3>2
  <2>7. QED
    BY <2>5, <2>6 DEF JobsInv, At
<1>5. CASE jobs' = jobs
  <2>1. ASSUME NEW v \in Worker, call'[v].phase = "jobs"
        PROVE  jobs'[call'[v].alert] = 0
    <3>1. CASE v # w
      BY <1>0, <1>5, <2>1, <3>1 DEF Alone, JobsInv, At
    <3>2. CASE v = w
      <4>1. c.phase = "execute" /\ c.alert \in Alert /\ Active(c.alert) /\ d.alert = c.alert
        BY <1>0, <2>1, <3>2 DEF Enters, ExecuteRead, At, CallOK, AlertPhase
      <4>2. ~\E u \in Worker : At(u, "executed")
        BY <1>0, <1>2, <4>1, OnlyPass DEF At
      <4>3. JobsCounted(c.alert)
        BY <4>1 DEF JobsInv
      <4>4. QED
        BY <1>5, <3>2, <4>1, <4>2, <4>3 DEF JobsCounted
    <3>3. QED
      BY <3>1, <3>2
  <2>2. ASSUME NEW a \in Alert
        PROVE  JobsCounted(a)'
    <3>1. JobsCounted(a)
      BY DEF JobsInv
    <3>2. CASE jobs[a] = 0
      BY <1>5, <3>2 DEF JobsCounted
    <3>3. CASE jobs[a] # 0
      <4>1. jobs'[a] = 1 /\ alert'[a].state # "NONE"
        BY <1>3, <1>5, <3>1, <3>3 DEF JobsCounted
      <4>2. ASSUME alert'[a].state = "MONITORING"
            PROVE  \E v \in Worker : At(v, "executed")' /\ call'[v].alert = a
        <5>1. PICK v \in Worker : At(v, "executed") /\ call[v].alert = a
          BY <1>3, <3>1, <3>3, <4>2 DEF JobsCounted
        <5>2. v # w
          <6>1. SUFFICES ASSUME v = w PROVE FALSE
            OBVIOUS
          <6>2. Executed(w)
            BY <1>0, <1>1, <5>1, <6>1 DEF Enters, At
          <6>3. alert' = [alert EXCEPT ![a].state = "EXECUTED"]
            BY <5>1, <6>1, <6>2 DEF Executed, Finished
          <6>4. alert'[a].state = "EXECUTED"
            BY <1>0, <3>1, <3>3, <6>3, StateType DEF AlertState, JobsCounted
          <6>5. QED
            BY <4>2, <6>4
        <5>3. QED
          BY <1>0, <5>1, <5>2 DEF Alone, At
      <4>3. QED
        BY <4>1, <4>2 DEF JobsCounted, Active
    <3>4. QED
      BY <3>2, <3>3
  <2>3. QED
    BY <2>1, <2>2 DEF JobsInv, At
<1>6. QED
  BY <1>0, <1>4, <1>5

\* When passes of the monitor do not overlap and no statement fails, an alert
\* creates its jobs at most once, whatever signals replace it and users cancel
\* it between the pass's reads and writes.
THEOREM AlertActsOnce == ASSUME OnePass, NothingFails PROVE Spec => []JobsOnce
<1>1. Init => JobsInv
  <2>1. Init => (\A w \in Worker : ~At(w, "jobs")) /\ (\A a \in Alert : JobsCounted(a))
    BY DEF Init, At, NoCall, JobsCounted
  <2>2. QED
    BY <2>1, PassInit DEF JobsInv
<1>2. JobsInv /\ [Next]_vars => JobsInv'
  <2> SUFFICES ASSUME JobsInv, [Next]_vars PROVE JobsInv'
    OBVIOUS
  <2>1. PassInv'
    BY PassStep DEF JobsInv
  <2>2. ASSUME Time
        PROVE  JobsInv'
    BY <2>1, <2>2, TimeKeeps DEF JobsInv, JobsCounted, At, Active
  <2>3. QED
    BY <2>1, <2>2, WhoActs, JobsWorkerStep
<1>3. JobsInv => JobsOnce
  BY DEF JobsInv, JobsCounted, JobsOnce
<1>4. QED
  BY <1>1, <1>2, <1>3, PTL DEF Spec

(***************************************************************************)
(* NoBuyAfterFreeFall.  The price and the side of an alert stay, and only  *)
(* the one pass writes its extreme: what a pass has decided on still       *)
(* stands when it executes.                                                *)
(***************************************************************************)
Fell(a) == FellTooFar(a, alert[a].extreme)

Decided(w) ==
  At(w, "priced") =>
    /\ alert[call[w].alert].state # "EXECUTED"
    /\ call[w].verdict = "execute" => ~FellTooFar(call[w].alert, call[w].extreme)

Committed(w) == call[w].phase \in {"execute", "jobs", "executed"} => ~Fell(call[w].alert)

FallInv ==
  /\ PassInv
  /\ \A w \in Worker : Decided(w) /\ Committed(w)
  /\ NoBuyAfterFreeFall

\* Whether a price is too low only depends on the signal of the alert.
LEMMA FellSame ==
  ASSUME NEW a \in Alert, SameSignal(a) \/ alert'[a] = alert[a], NEW x
  PROVE  FellTooFar(a, x)' <=> FellTooFar(a, x)
BY DEF FellTooFar, SameSignal

\* The steps of a worker keep what a pass has decided.
LEMMA FallWorkerStep ==
  ASSUME OnePass, FallInv, NEW w \in Worker, Acts(w), PassInv'
  PROVE  FallInv'
<1> DEFINE c == call[w]
           d == call'[w]
<1>0. /\ Alone(w) /\ Enters(w) /\ PassesAlone /\ TypeInv
      /\ \A a \in Alert : alert'[a] = alert[a] \/ Created(w, a) \/ Moved(w, a)
      /\ CallOK(w)
  BY CallHistory, AlertHistory DEF FallInv, PassInv, TypeInv
<1>1. {"priced", "execute", "jobs", "executed"} \subseteq PassPhase
  BY DEF PassPhase, AlertPhase
<1>2. ASSUME NEW a \in Alert, alert[a].state # "NONE"
      PROVE  alert'[a] = alert[a] \/ SameSignal(a)
  BY <1>0, <1>2 DEF Created, Moved
<1>3. ASSUME NEW v \in Worker, call[v].phase \in {"priced", "execute", "jobs", "executed"}
      PROVE  call[v].alert \in Alert /\ alert[call[v].alert].state # "NONE"
  BY <1>0, <1>3 DEF TypeInv, CallOK, AlertPhase
<1>4. \* Another worker's pass: the acting worker is no pass.
      ASSUME NEW v \in Worker \ {w}, call[v].phase \in {"priced", "execute", "jobs", "executed"}
      PROVE  LET a == call[v].alert
             IN  /\ alert'[a].extreme = alert[a].extreme
                 /\ alert'[a].state = "EXECUTED" => alert[a].state = "EXECUTED"
  <2>1. c.phase \notin PassPhase
    BY <1>0, <1>1, <1>4, OnlyPass
  <2>2. ~PriceWrite(w) /\ ~Executed(w)
    BY <1>1, <2>1 DEF PriceWrite, Executed, At
  <2>3. QED
    BY <1>0, <1>3, <1>4, <2>2 DEF Created, Moved
<1>5. ASSUME NEW v \in Worker
      PROVE  Decided(v)'
  <2>1. SUFFICES ASSUME call'[v].phase = "priced"
                 PROVE  Decided(v)'
    BY DEF Decided, At
  <2>2. PICK a, x : a = call'[v].alert /\ x = call'[v].extreme
    OBVIOUS
  <2>3. SUFFICES /\ alert'[a].state # "EXECUTED"
                 /\ call'[v].verdict = "execute" => ~FellTooFar(a, x)'
    BY <2>2 DEF Decided, FellTooFar
  <2>4. CASE v = w
    <3>1. /\ a \in Alert /\ Active(a) /\ UNCHANGED alert
          /\ call'[v].verdict = "execute" => ~FellTooFar(a, x)
      BY <1>0, <2>1, <2>2, <2>4 DEF Enters
    <3>2. QED
      BY <3>1, FellSame DEF Active
  <2>5. CASE v # w
    <3>1. call'[v] = call[v] /\ call[v].phase = "priced" /\ a = call[v].alert /\ x = call[v].extreme
      BY <1>0, <2>1, <2>2, <2>5 DEF Alone
    <3>2. /\ alert[a].state # "EXECUTED"
          /\ call[v].verdict = "execute" => ~FellTooFar(a, x)
      BY <3>1 DEF FallInv, Decided, At
    <3>3. a \in Alert /\ alert[a].state # "NONE" /\ (alert'[a].state = "EXECUTED" => alert[a].state = "EXECUTED")
      BY <1>3, <1>4, <2>5, <3>1
    <3>4. FellTooFar(a, x)' <=> FellTooFar(a, x)
      BY <1>2, <3>3, FellSame
    <3>5. QED
      BY <3>1, <3>2, <3>3, <3>4
  <2>6. QED
    BY <2>4, <2>5
<1>6. ASSUME NEW v \in Worker
      PROVE  Committed(v)'
  <2>1. SUFFICES ASSUME call'[v].phase \in {"execute", "jobs", "executed"}
                 PROVE  Committed(v)'
    BY DEF Committed
  <2>2. PICK a, x : a = call'[v].alert /\ x = alert'[a].extreme
    OBVIOUS
  <2>3. SUFFICES ~FellTooFar(a, x)'
    BY <2>2 DEF Committed, Fell, FellTooFar
  <2>4. CASE v = w /\ call'[v].phase = "execute"
    <3>1. PriceWrite(w) /\ c.verdict = "execute" /\ a = c.alert /\ c.phase = "priced"
      BY <1>0, <2>2, <2>4 DEF Enters, PriceWrite, At
    <3>2. a \in Alert /\ alert[a].state # "NONE" /\ ~FellTooFar(a, c.extreme)
      BY <1>3, <3>1 DEF FallInv, Decided, At
    <3>3. alert[a] \in AlertRow /\ alert \in [Alert -> AlertRow \cup {NoAlert}]
      BY <1>0, <3>2, RowType DEF TypeInv, TypeOK
    <3>4. x = c.extreme
      BY <2>2, <3>1, <3>2, <3>3 DEF PriceWrite, AlertRow
    <3>5. ~FellTooFar(a, x)
      BY <3>2, <3>4
    <3>6. QED
      BY <1>2, <3>2, <3>5, FellSame
  <2>5. CASE v = w /\ call'[v].phase \in {"jobs", "executed"}
    <3>1. c.phase \in {"execute", "jobs"} /\ a = c.alert /\ UNCHANGED alert
      BY <1>0, <2>2, <2>5 DEF Enters, ExecuteRead, CreateJobs, At
    <3>2. a \in Alert /\ ~FellTooFar(a, x)
      BY <1>3, <2>2, <3>1 DEF FallInv, Committed, Fell
    <3>3. QED
      BY <3>1, <3>2, FellSame
  <2>6. CASE v # w
    <3>1. call'[v] = call[v] /\ a = call[v].alert
      BY <1>0, <2>2, <2>6 DEF Alone
    <3>2. a \in Alert /\ alert[a].state # "NONE" /\ x = alert[a].extreme
      BY <1>3, <1>4, <2>1, <2>2, <2>6, <3>1
    <3>3. ~FellTooFar(a, x)
      BY <2>1, <3>1, <3>2 DEF FallInv, Committed, Fell
    <3>4. QED
      BY <1>2, <3>2, <3>3, FellSame
  <2>7. QED
    BY <2>1, <2>4, <2>5, <2>6
<1>7. ASSUME NEW a \in Alert, alert'[a].state = "EXECUTED"
      PROVE  ~Fell(a)'
  <2>1. CASE alert'[a] = alert[a]
    BY <1>7, <2>1 DEF FallInv, NoBuyAfterFreeFall, Fell, FellTooFar
  <2>2. CASE Created(w, a)
    BY <1>7, <2>2 DEF Created, NewAlert
  <2>3. CASE Moved(w, a)
    <3>1. CASE PriceWrite(w) /\ alert'[a].state = alert[a].state
      BY <1>7, <2>3, <3>1 DEF Moved, FallInv, Decided, PriceWrite
    <3>2. CASE Executed(w) /\ alert'[a].extreme = alert[a].extreme
      <4>1. ~Fell(a)
        BY <2>3, <3>2 DEF Moved, FallInv, Committed, Executed, At
      <4>2. QED
        BY <2>3, <3>2, <4>1, FellSame DEF Moved, Fell
    <3>3. QED
      BY <1>7, <2>3, <3>1, <3>2 DEF Moved
  <2>4. QED
    BY <1>0, <2>1, <2>2, <2>3
<1>8. QED
  BY <1>5, <1>6, <1>7 DEF FallInv, NoBuyAfterFreeFall, Fell

\* When passes of the monitor do not overlap, no BUY is executed whose lowest
\* price was further below its signal than max_fall_pct, whatever fails and
\* whatever signals and users do meanwhile.
THEOREM NoFallIsBought == ASSUME OnePass PROVE Spec => []NoBuyAfterFreeFall
<1>1. Init => FallInv
  <2>1. Init => /\ \A w \in Worker : call[w].phase = "idle"
                /\ \A a \in Alert : alert[a].state = "NONE"
    BY DEF Init, NoCall, NoAlert
  <2>2. QED
    BY <2>1, PassInit DEF FallInv, Decided, Committed, At, NoBuyAfterFreeFall
<1>2. FallInv /\ [Next]_vars => FallInv'
  <2> SUFFICES ASSUME FallInv, [Next]_vars PROVE FallInv'
    OBVIOUS
  <2>1. PassInv'
    BY PassStep DEF FallInv
  <2>2. ASSUME Time
        PROVE  FallInv'
    BY <2>1, <2>2, TimeKeeps DEF FallInv, Decided, Committed, NoBuyAfterFreeFall, Fell, FellTooFar, At
  <2>3. QED
    BY <2>1, <2>2, WhoActs, FallWorkerStep
<1>3. FallInv => NoBuyAfterFreeFall
  BY DEF FallInv
<1>4. QED
  BY <1>1, <1>2, <1>3, PTL DEF Spec

(***************************************************************************)
(* One call at a time.  What a call has read of an alert then still holds  *)
(* when it writes, whichever statements fail and whichever calls die.      *)
(***************************************************************************)
Sure(w) ==
  LET c == call[w]
  IN /\ c.phase = "insert" => ~Cooling(c.side)
     /\ c.phase = "replace" => SameSide(w, c.alert) /\ Better(w, c.alert)
     /\ c.phase \in {"replace", "priced", "jobs", "executed", "cancelled"} => Active(c.alert)

ReplacedStays ==
  \A a \in Alert : alert[a].replaces # None => alert[alert[a].replaces].state = "CANCELLED"

SerialInv ==
  /\ OneAlertInv
  /\ \A w \in Worker : Sure(w)
  /\ CooldownRespected
  /\ ReplacementIsNoWorse
  /\ ReplacedStays

\* An alert that is no longer active is not touched.
LEMMA EndedStays ==
  ASSUME SerialInv, NEW w \in Worker, Acts(w), NEW a \in Alert,
         alert[a].state \notin {"NONE", "MONITORING"}
  PROVE  alert'[a] = alert[a]
<1>1. TypeInv /\ Sure(w)
  BY DEF SerialInv, OneAlertInv
<1>2. ASSUME Moved(w, a)
      PROVE  call[w].phase \in {"replace", "priced", "executed", "cancelled"} /\ call[w].alert = a
  BY <1>2 DEF Moved, PriceWrite, CancelWrite, Replace, Executed, At
<1>3. ~Moved(w, a) /\ ~Created(w, a)
  BY <1>1, <1>2 DEF Sure, Active, Created
<1>4. QED
  BY <1>1, <1>3, AlertHistory

\* The replaced_alert_id of an alert is an older alert.
LEMMA ReplacesType ==
  ASSUME TypeInv, NEW a \in Alert
  PROVE  alert[a].replaces \in Alert \cup {None}
BY DEF TypeInv, TypeOK, AlertRow, NoAlert

\* What a call reads is so when it reads it, and nothing comes between.
LEMMA SerialSure ==
  ASSUME OneCaller, SerialInv, NEW w \in Worker, Acts(w)
  PROVE  Sure(w)'
<1> DEFINE c == call[w]
<1>1. Enters(w) /\ Sure(w)
  BY CallHistory DEF SerialInv, OneAlertInv
<1>2. PICK d : d = call'[w]
  OBVIOUS
<1>3. d.phase = "insert" => ~Cooling(d.side)'
  BY <1>1, <1>2 DEF Enters, Cooling
<1>4. d.phase = "replace" => SameSide(w, d.alert)' /\ Better(w, d.alert)'
  BY <1>1, <1>2 DEF Enters, SameSide, Better
<1>5. d.phase \in {"replace", "priced", "cancelled"} => Active(d.alert)'
  BY <1>1, <1>2 DEF Enters, Active
<1>6. d.phase \in {"jobs", "executed"} => Active(d.alert)'
  BY <1>1, <1>2 DEF Enters, Active, ExecuteRead, CreateJobs, At, Sure
<1>7. QED
  BY <1>2, <1>3, <1>4, <1>5, <1>6 DEF Sure, SameSide, Better, Active, Cooling

\* A cooldown starts when the only active alert ends.
LEMMA SerialCooldown ==
  ASSUME OneCaller, SerialInv, OneAlertInv', NEW w \in Worker, Acts(w)
  PROVE  CooldownRespected'
<1> DEFINE c == call[w]
           r == c.alert
<1>0. /\ TypeInv /\ Sure(w) /\ OneActiveAlert /\ OneActiveAlert' /\ CallOK(w)
      /\ CooldownRespected
      /\ alert \in [Alert -> AlertRow \cup {NoAlert}] /\ fresh \subseteq Alert
  BY DEF SerialInv, OneAlertInv, TypeInv, TypeOK
<1>1. SUFFICES ASSUME NEW a \in Alert, NEW b \in Alert, alert'[a].state = "MONITORING",
                      b \in fresh', alert'[b].state = "EXECUTED"
               PROVE  alert'[a].side # alert'[b].side
  BY DEF CooldownRespected, Active
<1>2. \A n \in Alert : alert'[n] = alert[n] \/ Created(w, n) \/ Moved(w, n)
  BY <1>0, AlertHistory
<1>3. CASE Executed(w)
  <2>1. At(w, "executed") /\ Active(r) /\ r \in Alert
    BY <1>0, <1>3 DEF Executed, At, Sure, CallOK, AlertPhase
  <2>2. alert'[r].state = "EXECUTED" /\ \A n \in Alert \ {r} : alert'[n] = alert[n]
    BY <1>0, <1>3, <2>1, StateType DEF Executed, Finished, AlertState, Active
  <2>3. QED
    BY <1>0, <1>1, <2>1, <2>2 DEF OneActiveAlert, Active
<1>4. CASE ~Executed(w)
  <2>1. \* Writing the price of an active alert starts no cooldown.
        fresh' = fresh
    <3>1. CASE PriceWrite(w)
      <4>1. Active(r)
        BY <1>0, <3>1 DEF PriceWrite, At, Sure
      <4>2. QED
        BY <3>1, <4>1 DEF PriceWrite, Active
    <3>2. QED
      BY <1>4, <3>1, FewWrite
  <2>2. alert[b].state = "EXECUTED" /\ alert'[b] = alert[b]
    <3>1. alert[b].state = "EXECUTED"
      BY <1>1, <1>2, <1>4 DEF Created, Moved, NewAlert
    <3>2. QED
      BY <3>1, EndedStays
  <2>3. CASE alert'[a] = alert[a]
    BY <1>0, <1>1, <2>1, <2>2, <2>3 DEF CooldownRespected, Active
  <2>4. CASE Moved(w, a)
    <3>1. alert[a].state = "MONITORING" /\ alert'[a].side = alert[a].side
      BY <1>1, <2>4 DEF Moved, SameSignal
    <3>2. QED
      BY <1>0, <1>1, <2>1, <2>2, <3>1 DEF CooldownRespected, Active
  <2>5. CASE Created(w, a) /\ Insert(w, a)
    <3>1. c.phase = "insert" /\ alert'[a].side = c.side
      BY <2>5 DEF Created, Insert, Replace, At, NewAlert
    <3>2. ~Cooling(c.side)
      BY <1>0, <3>1 DEF Sure
    <3>3. QED
      BY <1>1, <2>1, <2>2, <3>1, <3>2 DEF Cooling
  <2>6. CASE Created(w, a) /\ Replace(w, a)
    <3>1. c.phase = "replace" /\ alert'[a].side = c.side
      BY <2>6 DEF Created, Insert, Replace, At, NewAlert
    <3>2. Active(r) /\ alert[r].side = c.side /\ r \in Alert
      BY <1>0, <3>1 DEF Sure, SameSide, CallOK
    <3>3. QED
      BY <1>0, <1>1, <2>1, <2>2, <3>1, <3>2 DEF CooldownRespected
  <2>7. QED
    BY <1>2, <2>3, <2>4, <2>5, <2>6 DEF Created
<1>5. QED
  BY <1>3, <1>4

\* An alert that was replaced has ended and its best price stays.
LEMMA SerialReplaced ==
  ASSUME OneCaller, SerialInv, NEW w \in Worker, Acts(w)
  PROVE  ReplacementIsNoWorse' /\ ReplacedStays'
<1> DEFINE c == call[w]
<1>0. TypeInv /\ Sure(w) /\ CallOK(w) /\ ReplacementIsNoWorse /\ ReplacedStays
  BY DEF SerialInv, OneAlertInv, TypeInv
<1>1. SUFFICES ASSUME NEW a \in Alert, alert'[a].replaces # None
               PROVE  /\ Improves(alert'[a].side, alert'[a].price, alert'[alert'[a].replaces].extreme)
                      /\ alert'[alert'[a].replaces].state = "CANCELLED"
  BY DEF ReplacementIsNoWorse, ReplacedStays, Improves
<1>2. CASE alert'[a] = alert[a] \/ Moved(w, a)
  <2>1. /\ alert'[a].replaces = alert[a].replaces
        /\ alert'[a].side = alert[a].side /\ alert'[a].price = alert[a].price
    BY <1>2 DEF Moved, SameSignal
  <2>2. PICK q \in Alert : q = alert[a].replaces
    BY <1>0, <1>1, <2>1, ReplacesType
  <2>3. alert[q].state = "CANCELLED" /\ Improves(alert[a].side, alert[a].price, alert[q].extreme)
    BY <1>0, <1>1, <2>1, <2>2 DEF ReplacementIsNoWorse, ReplacedStays
  <2>4. alert'[q] = alert[q]
    BY <2>3, EndedStays
  <2>5. QED
    BY <2>1, <2>2, <2>3, <2>4
<1>3. CASE Created(w, a)
  <2>1. Replace(w, a) /\ alert'[a] = NewAlert(w, c.alert)
    BY <1>1, <1>3 DEF Created, NewAlert
  <2>2. PICK q \in Alert : q = c.alert
    BY <1>0, <2>1 DEF Replace, At, CallOK
  <2>3. /\ alert'[a].replaces = q /\ alert'[a].side = c.side /\ alert'[a].price = c.price
    BY <2>1, <2>2 DEF NewAlert
  <2>4. Active(q) /\ Improves(c.side, c.price, alert[q].extreme)
    BY <1>0, <2>1, <2>2 DEF Sure, Better, Replace, At
  <2>5. alert'[q].state = "CANCELLED" /\ alert'[q].extreme = alert[q].extreme
    <3>1. alert \in [Alert -> AlertRow \cup {NoAlert}] /\ alert[q] \in AlertRow /\ q # a
      BY <1>0, <1>3, <2>4, RowType DEF Active, TypeInv, TypeOK, Created
    <3>2. alert' = [alert EXCEPT ![a] = NewAlert(w, q), ![q].state = "CANCELLED"]
      BY <2>1, <2>2 DEF Replace, Replaced
    <3>3. alert'[q] = [alert[q] EXCEPT !.state = "CANCELLED"]
      BY <3>1, <3>2
    <3>4. QED
      BY <3>1, <3>3 DEF AlertRow
  <2>6. QED
    BY <2>3, <2>4, <2>5
<1>4. QED
  BY <1>0, <1>2, <1>3, AlertHistory

\* There is no alert and no call at first.
LEMMA SerialInit == Init => SerialInv
<1>1. Init => OneAlertInv
  BY OneAlertInit
<1>2. Init => /\ \A w \in Worker : call[w].phase = "idle"
              /\ \A a \in Alert : alert[a].state = "NONE" /\ alert[a].replaces = None
  BY DEF Init, NoCall, NoAlert
<1>3. QED
  BY <1>1, <1>2 DEF SerialInv, Sure, CooldownRespected, ReplacementIsNoWorse, ReplacedStays, Active

\* Every step keeps what single calls rely on.
LEMMA SerialStep ==
  ASSUME OneCaller, SerialInv, [Next]_vars
  PROVE  SerialInv'
<1>1. OneAlertInv'
  BY OneAlertStep DEF SerialInv, OneSignal
<1>2. ASSUME NEW w \in Worker, Acts(w)
      PROVE  SerialInv'
  <2>1. \A v \in Worker : v = w
    BY DEF OneCaller
  <2>2. QED
    BY <1>1, <1>2, <2>1, SerialSure, SerialCooldown, SerialReplaced DEF SerialInv
<1>3. ASSUME Time
      PROVE  SerialInv'
  <2>1. UNCHANGED <<alert, call>> /\ fresh' \subseteq fresh
    BY <1>3, TimeKeeps
  <2>2. \A w \in Worker : Sure(w)'
    BY <2>1 DEF SerialInv, Sure, Cooling, SameSide, Better, Active
  <2>3. QED
    BY <1>1, <2>1, <2>2 DEF SerialInv, CooldownRespected, ReplacementIsNoWorse, ReplacedStays, Active
<1>4. QED
  BY <1>2, <1>3, WhoActs

\* When calls do not overlap, no alert is followed while a cooldown of its side
\* runs, wherever calls fail or die.
THEOREM CooldownHolds == ASSUME OneCaller PROVE Spec => []CooldownRespected
<1>1. SerialInv => CooldownRespected
  BY DEF SerialInv
<1>2. QED
  BY <1>1, SerialInit, SerialStep, PTL DEF Spec

\* When calls do not overlap, an alert is only replaced by a signal at least as
\* good as the best price it had seen.
THEOREM ReplacementsImprove == ASSUME OneCaller PROVE Spec => []ReplacementIsNoWorse
<1>1. SerialInv => ReplacementIsNoWorse
  BY DEF SerialInv
<1>2. QED
  BY <1>1, SerialInit, SerialStep, PTL DEF Spec

(***************************************************************************)
(* The promise of SignalDesk.  An event has at most one alert, and a       *)
(* delivery works for an event that has none yet.                          *)
(***************************************************************************)
EventsOwned ==
  /\ \A a, b \in Alert : alert[a].event # None /\ alert[a].event = alert[b].event => a = b
  /\ \A a \in Alert : alert[a].event # None => event[alert[a].event] # "NONE"
  /\ \A w \in Worker : call[w].phase \in SignalPhase \ {"receive"} => event[call[w].event] = "RECEIVED"
  /\ \A w \in Worker : call[w].phase \in {"precheck", "find", "replace", "insert"} =>
       \A a \in Alert : alert[a].event # call[w].event

DeskInv == SerialInv /\ EventsOwned

Unwatched(e) == \A a \in Alert : alert[a].event # e

Ignored(e) == event[e] \in {"SKIPPED", "MONITORING"}

\* What becomes of an event, without choosing its alert.
FateSaid(e) ==
  /\ \A a \in Alert : alert[a].event = e => FateOf(e) = FateOfAlert(a)
  /\ Unwatched(e) => (Ignored(e) => FateOf(e) = "dropped") /\ (~Ignored(e) => FateOf(e) = "new")

FatesSay == \A e \in Event : FateSaid(e)

\* An event with an alert has the fate of that alert.
LEMMA FatesKnown == EventsOwned => FatesSay
<1> SUFFICES ASSUME EventsOwned, NEW e \in Event PROVE FateSaid(e)
  BY Zenon DEF FatesSay
<1>1. ASSUME NEW a \in Alert, alert[a].event = e
      PROVE  FateOf(e) = FateOfAlert(a)
  <2> DEFINE b == CHOOSE b \in Alert : alert[b].event = e
  <2>1. b \in Alert /\ alert[b].event = e
    BY <1>1
  <2>2. e # None
    BY AlertsAssumption
  <2>3. b = a
    BY <1>1, <2>1, <2>2 DEF EventsOwned
  <2>4. FateOf(e) = FateOfAlert(b)
    BY <1>1 DEF FateOf
  <2>5. QED
    BY <2>3, <2>4
<1>2. ASSUME Unwatched(e)
      PROVE  (Ignored(e) => FateOf(e) = "dropped") /\ (~Ignored(e) => FateOf(e) = "new")
  BY <1>2 DEF FateOf, Ignored, Unwatched
<1>3. QED
  BY <1>1, <1>2 DEF FateSaid

\* The same, after a step.
LEMMA FatesKnownNext == EventsOwned' => FatesSay'
BY FatesKnown, PTL

\* The steps of the desk.
LEMMA DeskWatches ==
  ASSUME NEW e \in Event, FateOf(e) = "new", FateOf(e)' = "watched",
         \A t \in Event \ {e} : FateOf(t)' = IF FateOf(t) = "watched" THEN "replaced" ELSE FateOf(t)
  PROVE  Desk!Watch(e)
BY DEF Desk!Watch

\* The watched signal is acted upon.
LEMMA DeskActs ==
  ASSUME NEW e \in Event, FateOf(e) = "watched", FateOf(e)' = "acted",
         \A t \in Event \ {e} : FateOf(t)' = FateOf(t)
  PROVE  Desk!Act(e)
BY DEF Desk!Act

\* A signal is dropped, whether it was watched or not.
LEMMA DeskDrops ==
  ASSUME NEW e \in Event, FateOf(e) \in {"new", "watched"}, FateOf(e)' = "dropped",
         \A t \in Event \ {e} : FateOf(t)' = FateOf(t)
  PROVE  Desk!Drop(e)
BY DEF Desk!Drop

\* A pass or a cancellation does not turn into a delivery.
LEMMA MonitoringBy ==
  ASSUME TypeInv, NEW w \in Worker, Monitoring(w)
  PROVE  /\ call[w].phase \notin SignalPhase
         /\ call'[w].phase \notin SignalPhase
<1> DEFINE c == call[w]
<1>0. call \in [Worker -> CallState] /\ c \in CallState /\ CallOK(w)
  BY DEF TypeInv, TypeOK
<1>1. c.phase \notin SignalPhase
  <2>1. \A phase \in SignalPhase : phase # "idle" /\ phase \notin AlertPhase
    BY DEF SignalPhase, AlertPhase
  <2>2. PassStarts(w) => c.phase = "idle"
    BY DEF PassStarts, Idle
  <2>3. ASSUME PriceWrite(w) \/ CancelRead(w) \/ CancelWrite(w) \/ SkipEvent(w) \/ ExecuteRead(w)
               \/ CreateJobs(w) \/ CreateNoJobs(w) \/ Executed(w) \/ Report(w) \/ Enqueue(w)
        PROVE  c.phase \in AlertPhase
    BY <2>3 DEF PriceWrite, CancelRead, CancelWrite, SkipEvent, ExecuteRead, CreateJobs, CreateNoJobs,
                Executed, Report, Enqueue, At, AlertPhase
  <2>4. ASSUME NEW a \in Alert, CancelRequest(w, a) \/ PriceMissing(w, a)
        PROVE  c.phase \in {"idle", "pass"}
    BY <2>4 DEF CancelRequest, PriceMissing, Idle, At
  <2>5. ASSUME NEW a \in Alert, NEW p \in Price, PriceRead(w, a, p)
        PROVE  c.phase = "pass"
    BY <2>5 DEF PriceRead, At
  <2>6. \A a \in Alert : /\ (CancelRequest(w, a) \/ PriceMissing(w, a)) => c.phase \in {"idle", "pass"}
                         /\ \A p \in Price : PriceRead(w, a, p) => c.phase = "pass"
    BY <2>4, <2>5
  <2>7. c.phase \in {"idle", "pass"} \/ c.phase \in AlertPhase
    BY <2>2, <2>3, <2>6, Zenon DEF Monitoring
  <2>8. QED
    BY <2>1, <2>7 DEF AlertPhase
<1>2. c.by # "webhook"
  BY <1>0, <1>1 DEF CallOK
<1>3. CASE Proceed(w) \/ \E todo : call' = [call EXCEPT ![w] = Rest(w, todo)]
  <2>1. PICK todo : call' = [call EXCEPT ![w] = Rest(w, todo)]
    BY <1>0, <1>3 DEF Proceed
  <2>2. Rest(w, todo).phase \in {"idle", "pass"}
    BY DEF Rest, NoCall
  <2>3. QED
    BY <1>0, <1>1, <2>1, <2>2 DEF SignalPhase
<1>4. ASSUME NEW phase, Step(w, phase), phase \notin SignalPhase
      PROVE  call'[w].phase \notin SignalPhase
  BY <1>4, GoneStep
<1>5. ASSUME PassStarts(w) \/ \E a \in Alert : CancelRequest(w, a)
      PROVE  call'[w].phase \notin SignalPhase
  <2>1. CASE PassStarts(w)
    <3> DEFINE todo == {a \in Alert : Active(a)}
    <3>1. call' = [call EXCEPT ![w] = [NoCall EXCEPT !.phase = "pass", !.by = "pass", !.todo = todo]]
      BY <2>1 DEF PassStarts
    <3> HIDE DEF todo
    <3>2. QED
      BY <1>0, <3>1 DEF NoCall, SignalPhase
  <2>2. ASSUME NEW a \in Alert, CancelRequest(w, a)
        PROVE  call'[w].phase \notin SignalPhase
    BY <1>0, <2>2 DEF CancelRequest, NoCall, SignalPhase
  <2>3. QED
    BY <1>5, <2>1, <2>2
<1>6. ASSUME NEW a \in Alert, NEW p \in Price, PriceRead(w, a, p)
      PROVE  call'[w].phase \notin SignalPhase
  <2> DEFINE new  == NewExtreme(alert[a].side, p, alert[a].extreme)
             x    == IF new THEN p ELSE alert[a].extreme
             n    == IF new THEN 0 ELSE Smaller(alert[a].cycles + 1, EnoughCycles)
             todo == c.todo \ {a}
             e    == [c EXCEPT !.phase = "priced", !.alert = a, !.todo = todo, !.extreme = x,
                               !.cycles = n, !.verdict = VerdictFor(a, p, x, n)]
  <2>1. call' = [call EXCEPT ![w] = IF Active(a) THEN e ELSE Rest(w, todo)]
    BY <1>0, <1>6 DEF PriceRead
  <2>2. e.phase = "priced"
    BY <1>0 DEF CallState
  <2> HIDE DEF e
  <2>3. CASE Active(a)
    BY <1>0, <2>1, <2>2, <2>3 DEF SignalPhase
  <2>4. CASE ~Active(a)
    BY <1>3, <1>1, <2>1, <2>4
  <2>5. QED
    BY <2>3, <2>4
<1>7. ASSUME PriceWrite(w)
      PROVE  call'[w].phase \notin SignalPhase
  <2>1. CASE c.verdict = "wait"
    BY <1>0, <1>1, <1>3, <1>7, <2>1 DEF PriceWrite
  <2>2. CASE c.verdict # "wait"
    BY <1>0, <1>7, <2>2 DEF PriceWrite, NoCall, CallState, Verdict, SignalPhase
  <2>3. QED
    BY <2>1, <2>2
<1>8. ASSUME NEW a \in Alert, PriceMissing(w, a)
      PROVE  call'[w].phase \notin SignalPhase
  <2>1. call' = [call EXCEPT ![w] = Rest(w, c.todo \ {a})]
    BY <1>0, <1>8 DEF PriceMissing
  <2>2. QED
    BY <1>1, <1>3, <2>1
<1>9. ASSUME CancelRead(w) \/ CancelWrite(w) \/ SkipEvent(w) \/ ExecuteRead(w) \/ CreateJobs(w)
             \/ CreateNoJobs(w) \/ Executed(w) \/ Report(w) \/ Enqueue(w)
      PROVE  call'[w].phase \notin SignalPhase
  <2>1. Proceed(w) \/ \E phase : Step(w, phase) /\ phase \notin SignalPhase
    BY <1>9 DEF CancelRead, CancelWrite, SkipEvent, ExecuteRead, CreateJobs, CreateNoJobs,
                WithoutJobs, Executed, Report, Enqueue, SignalPhase
  <2>2. QED
    BY <1>1, <1>3, <1>4, <2>1
<1>10. QED
  BY <1>1, <1>5, <1>6, <1>7, <1>8, <1>9 DEF Monitoring

SameEvents == \A a \in Alert : alert'[a].event = alert[a].event /\ alert'[a].replaces = alert[a].replaces

\* The steps that create no alert leave every event with its alert.
LEMMA NoneCreated ==
  ASSUME TypeInv, NEW w \in Worker, Acts(w), call[w].phase \notin {"replace", "insert"}
  PROVE  /\ SameEvents
         /\ ~Executed(w) /\ ~CancelWrite(w) => \A a \in Alert : alert'[a].state = alert[a].state
<1>1. ASSUME NEW a \in Alert
      PROVE  alert'[a] = alert[a] \/ Moved(w, a)
  BY <1>1, AlertHistory DEF Created, Replace, Insert, At
<1>2. \A a \in Alert : ~Replace(w, a)
  BY DEF Replace, At
<1>3. QED
  BY <1>1, <1>2 DEF SameEvents, Moved, SameSignal

\* An event that has come stays, and whatever a delivery does to an event it
\* does to its own.
LEMMA EventHistory ==
  ASSUME TypeInv, NEW w \in Worker, Acts(w)
  PROVE  \/ UNCHANGED event
         \/ \E e \in Event : CreateEvent(w, e)
         \/ /\ call[w].phase \in SignalPhase \ {"receive"} /\ call'[w].phase = "idle" /\ UNCHANGED alert
            /\ \E st \in {"SKIPPED", "MONITORING"} : event' = [event EXCEPT ![call[w].event] = st]
         \/ /\ call[w].phase \in {"replace", "skip", "report"}
            /\ \E st \in {"REPLACED", "SKIPPED", "JOB_CREATED"} :
                 event' = [event EXCEPT ![alert[call[w].alert].event] = st]
            /\ call[w].phase # "replace" => UNCHANGED alert
<1>0. call \in [Worker -> CallState]
  BY DEF TypeInv, TypeOK
<1>1. ASSUME Return(w)
      PROVE  call'[w].phase = "idle"
  BY <1>0, <1>1 DEF Return, NoCall
<1>2. ASSUME Delivery(w)
      PROVE  \/ UNCHANGED event
             \/ \E e \in Event : CreateEvent(w, e)
             \/ /\ call[w].phase \in {"precheck", "find", "watch"} /\ Return(w) /\ UNCHANGED alert
                /\ \E st \in {"SKIPPED", "MONITORING"} : event' = [event EXCEPT ![call[w].event] = st]
             \/ /\ call[w].phase = "replace"
                /\ event' = [event EXCEPT ![alert[call[w].alert].event] = "REPLACED"]
  <2>1. ASSUME NEW s \in Side, NEW p \in Price, Receive(w, s, p)
        PROVE  UNCHANGED event
    BY <2>1 DEF Receive
  <2>2. ASSUME NEW a \in Alert, Insert(w, a)
        PROVE  UNCHANGED event
    BY <2>2 DEF Insert
  <2>3. ASSUME NEW a \in Alert, Replace(w, a)
        PROVE  /\ call[w].phase = "replace"
               /\ event' = [event EXCEPT ![alert[call[w].alert].event] = "REPLACED"]
    BY <2>3 DEF Replace, At
  <2>4. ASSUME Precheck(w) \/ Find(w) \/ Watch(w)
        PROVE  \/ UNCHANGED event
               \/ /\ call[w].phase \in {"precheck", "find", "watch"} /\ Return(w) /\ UNCHANGED alert
                  /\ \E st \in {"SKIPPED", "MONITORING"} : event' = [event EXCEPT ![call[w].event] = st]
    BY <2>4 DEF Precheck, Find, Watch, Skip, At
  <2>5. QED
    BY <1>2, <2>1, <2>2, <2>3, <2>4 DEF Delivery
<1>3. ASSUME Monitoring(w)
      PROVE  \/ UNCHANGED event
             \/ /\ call[w].phase \in {"skip", "report"} /\ UNCHANGED alert
                /\ \E st \in {"SKIPPED", "JOB_CREATED"} :
                     event' = [event EXCEPT ![alert[call[w].alert].event] = st]
  <2>1. PassStarts(w) => UNCHANGED event
    BY DEF PassStarts
  <2>2. ASSUME NEW a \in Alert, CancelRequest(w, a) \/ PriceMissing(w, a)
        PROVE  UNCHANGED event
    BY <2>2 DEF CancelRequest, PriceMissing
  <2>3. ASSUME NEW a \in Alert, NEW p \in Price, PriceRead(w, a, p)
        PROVE  UNCHANGED event
    BY <2>3 DEF PriceRead
  <2>4. ASSUME PriceWrite(w) \/ CancelRead(w) \/ CancelWrite(w) \/ ExecuteRead(w) \/ CreateJobs(w)
               \/ CreateNoJobs(w) \/ Executed(w) \/ Enqueue(w)
        PROVE  UNCHANGED event
    BY <2>4 DEF PriceWrite, CancelRead, CancelWrite, ExecuteRead, CreateJobs, CreateNoJobs, Executed, Enqueue
  <2>5. ASSUME SkipEvent(w) \/ Report(w)
        PROVE  /\ call[w].phase \in {"skip", "report"} /\ UNCHANGED alert
               /\ \E st \in {"SKIPPED", "JOB_CREATED"} :
                    event' = [event EXCEPT ![alert[call[w].alert].event] = st]
    BY <2>5 DEF SkipEvent, Report, At
  <2>6. QED
    BY <1>3, <2>1, <2>2, <2>3, <2>4, <2>5 DEF Monitoring
<1>4. ASSUME CallFails(w) \/ Crash(w)
      PROVE  \/ UNCHANGED event
             \/ /\ call[w].phase \in SignalPhase \ {"receive"} /\ Return(w) /\ UNCHANGED alert
                /\ event' = [event EXCEPT ![call[w].event] = "SKIPPED"]
  BY <1>4 DEF CallFails, Crash, Skip
<1>5. {"precheck", "find", "watch"} \subseteq SignalPhase \ {"receive"}
  BY DEF SignalPhase
<1>6. QED
  BY <1>1, <1>2, <1>3, <1>4, <1>5 DEF Acts

\* A delivery keeps its event until it is over, and gets one only by creating
\* it.
LEMMA SignalGoes ==
  ASSUME TypeInv, NEW w \in Worker, Acts(w), call'[w].phase \in SignalPhase \ {"receive"}
  PROVE  \/ \E e \in Event : CreateEvent(w, e) /\ call'[w].event = e
         \/ /\ call[w].phase \in {"precheck", "find", "replace", "insert"}
            /\ call'[w].event = call[w].event
            /\ call'[w].phase # "watch" => UNCHANGED alert
<1> DEFINE c == call[w]
<1>0. call \in [Worker -> CallState] /\ c \in CallState
  BY DEF TypeInv, TypeOK
<1>1. ASSUME Return(w) PROVE FALSE
  BY <1>0, <1>1 DEF Return, NoCall, SignalPhase
<1>2. ASSUME NEW phase, Step(w, phase)
      PROVE  call'[w].event = c.event /\ call'[w].phase = phase
  BY <1>0, <1>2 DEF Step, CallState
<1>3. ~Monitoring(w)
  BY MonitoringBy
<1>4. ASSUME CallFails(w) \/ Crash(w) PROVE FALSE
  <2>1. CASE Proceed(w)
    <3>1. call' = [call EXCEPT ![w] = Rest(w, c.todo)]
      BY <1>0, <2>1 DEF Proceed
    <3>2. QED
      BY <1>0, <3>1 DEF Rest, NoCall, SignalPhase
  <2>2. QED
    BY <1>1, <1>2, <1>4, <2>1 DEF CallFails, Crash, Skip, SignalPhase
<1>5. ASSUME NEW s \in Side, NEW p \in Price, Receive(w, s, p) PROVE FALSE
  BY <1>0, <1>5 DEF Receive, NoCall
<1>6. ASSUME NEW e \in Event, CreateEvent(w, e)
      PROVE  call'[w].event = e
  BY <1>0, <1>6 DEF CreateEvent, CallState
<1>7. ASSUME Precheck(w)
      PROVE  c.phase = "precheck" /\ UNCHANGED alert /\ call'[w].event = c.event
  BY <1>1, <1>2, <1>7 DEF Precheck, Skip, At
<1>8. ASSUME Find(w)
      PROVE  c.phase = "find" /\ UNCHANGED alert /\ call'[w].event = c.event
  <2>1. CASE \E phase \in {"watch", "insert"} : Step(w, phase)
    BY <1>2, <1>8, <2>1 DEF Find, At
  <2>2. CASE \E a \in Alert : call' = [call EXCEPT ![w].phase = "replace", ![w].alert = a]
    <3>1. call'[w].event = c.event
      BY <1>0, <2>2 DEF CallState
    <3>2. QED
      BY <1>8, <3>1 DEF Find, At
  <2>3. QED
    BY <1>1, <1>8, <2>1, <2>2 DEF Find, Skip
<1>9. ASSUME NEW a \in Alert, Replace(w, a)
      PROVE  c.phase = "replace" /\ call'[w].event = c.event /\ call'[w].phase = "watch"
  BY <1>0, <1>9 DEF Replace, At, CallState
<1>10. ASSUME NEW a \in Alert, Insert(w, a)
       PROVE  c.phase = "insert" /\ call'[w].event = c.event /\ call'[w].phase = "watch"
  BY <1>2, <1>10 DEF Insert, At
<1>11. ~Watch(w)
  BY <1>1 DEF Watch
<1>12. Delivery(w)
  BY <1>3, <1>4 DEF Acts
<1>13. QED
  BY <1>5, <1>6, <1>7, <1>8, <1>9, <1>10, <1>11, <1>12 DEF Delivery

\* A delivery has an event of its own; the alert it replaces has another.
LEMMA OwnEvent ==
  ASSUME DeskInv, NEW w \in Worker, call[w].phase \in SignalPhase \ {"receive"}
  PROVE  /\ call[w].event \in Event /\ event[call[w].event] = "RECEIVED"
         /\ call[w].phase # "watch" => Unwatched(call[w].event)
<1>1. CallOK(w) /\ EventsOwned
  BY DEF DeskInv, SerialInv, OneAlertInv, TypeInv
<1>2. QED
  BY <1>1 DEF CallOK, EventsOwned, Unwatched, SignalPhase

\* The alert of a new event is new.
LEMMA EventsFresh ==
  ASSUME DeskInv, NEW w \in Worker, Acts(w), NEW a \in Alert
  PROVE  \/ alert'[a].event = alert[a].event
         \/ /\ alert[a].state = "NONE" /\ alert'[a].event = call[w].event
            /\ call[w].phase \in {"replace", "insert"}
            /\ Replace(w, a) \/ Insert(w, a)
<1>1. TypeInv
  BY DEF DeskInv, SerialInv, OneAlertInv
<1>2. ASSUME Created(w, a)
      PROVE  /\ alert[a].state = "NONE" /\ alert'[a].event = call[w].event
             /\ call[w].phase \in {"replace", "insert"}
             /\ Replace(w, a) \/ Insert(w, a)
  BY <1>2 DEF Created, Replace, Insert, At, NewAlert
<1>3. QED
  BY <1>1, <1>2, AlertHistory DEF Moved, SameSignal

\* Only one alert is created at a time.
LEMMA OneCreated ==
  ASSUME NEW w \in Worker, NEW a \in Alert, NEW b \in Alert,
         Replace(w, a) \/ Insert(w, a), Replace(w, b) \/ Insert(w, b)
  PROVE  a = b
<1>1. Unused(a) /\ Unused(b)
  BY DEF Replace, Insert
<1>2. a \in Nat /\ b \in Nat
  BY AlertsAssumption DEF Alert
<1>3. a < b \/ b < a \/ a = b
  BY <1>2
<1>4. QED
  BY <1>1, <1>3 DEF Unused

\* The steps of a worker leave every event with one alert at most.
LEMMA EventsStep ==
  ASSUME OneCaller, DeskInv, NEW w \in Worker, Acts(w)
  PROVE  EventsOwned'
<1> DEFINE c == call[w]
<1>0. /\ TypeInv /\ EventsOwned /\ Sure(w) /\ CallOK(w)
      /\ event \in [Event -> EventStatus] /\ alert \in [Alert -> AlertRow \cup {NoAlert}]
  BY DEF DeskInv, SerialInv, OneAlertInv, TypeInv, TypeOK
<1>1. \A a \in Alert : \/ alert'[a].event = alert[a].event
                       \/ /\ alert'[a].event = c.event /\ c.phase \in {"replace", "insert"}
                          /\ Replace(w, a) \/ Insert(w, a)
  BY EventsFresh
<1>2. c.phase \in {"replace", "insert"} =>
        c.event \in Event /\ event[c.event] = "RECEIVED" /\ Unwatched(c.event)
  BY OwnEvent DEF SignalPhase
<1>3. \A a, b \in Alert : alert'[a].event # None /\ alert'[a].event = alert'[b].event => a = b
  BY <1>0, <1>1, <1>2, OneCreated DEF EventsOwned, Unwatched
<1>4. \* Events do not go away.
      \A e \in Event : event[e] # "NONE" => event'[e] # "NONE"
  <2>1. CASE \E e \in Event, st \in EventStatus \ {"NONE"} : event' = [event EXCEPT ![e] = st]
    BY <1>0, <2>1
  <2>2. CASE \E st \in EventStatus \ {"NONE"} : event' = [event EXCEPT ![c.event] = st]
    BY <1>0, <2>2
  <2>3. CASE \E st \in EventStatus \ {"NONE"} : event' = [event EXCEPT ![alert[c.alert].event] = st]
    BY <1>0, <2>3
  <2>4. \A e \in Event : CreateEvent(w, e) => event' = [event EXCEPT ![e] = "RECEIVED"]
    BY DEF CreateEvent
  <2>5. {"RECEIVED", "REPLACED", "SKIPPED", "JOB_CREATED", "MONITORING"} \subseteq EventStatus \ {"NONE"}
    BY DEF EventStatus
  <2>6. QED
    BY <1>0, <2>1, <2>2, <2>3, <2>4, <2>5, EventHistory
<1>5. \A a \in Alert : alert[a].event \in Event \cup {None}
  BY <1>0 DEF AlertRow, NoAlert
<1>6. \A a \in Alert : alert'[a].event # None => event'[alert'[a].event] # "NONE"
  BY <1>0, <1>1, <1>2, <1>4, <1>5 DEF EventsOwned
<1>7. \A v \in Worker : v = w
  BY DEF OneCaller
<1>8. ASSUME call'[w].phase \in SignalPhase \ {"receive"}
      PROVE  /\ event'[call'[w].event] = "RECEIVED"
             /\ call'[w].phase # "watch" => \A a \in Alert : alert'[a].event # call'[w].event
  <2>1. ASSUME NEW e \in Event, CreateEvent(w, e), call'[w].event = e
        PROVE  event'[e] = "RECEIVED" /\ \A a \in Alert : alert'[a].event # e
    <3>1. event[e] = "NONE" /\ event' = [event EXCEPT ![e] = "RECEIVED"] /\ alert' = alert
      BY <2>1 DEF CreateEvent
    <3>2. e # None
      BY AlertsAssumption
    <3>3. QED
      BY <1>0, <3>1, <3>2 DEF EventsOwned
  <2>2. CASE /\ c.phase \in {"precheck", "find", "replace", "insert"}
             /\ call'[w].event = c.event
             /\ call'[w].phase # "watch" => UNCHANGED alert
    <3>1. c.event \in Event /\ event[c.event] = "RECEIVED" /\ Unwatched(c.event)
      BY <2>2, OwnEvent DEF SignalPhase
    <3>2. event'[c.event] = "RECEIVED"
      <4>1. CASE c.phase = "replace" /\ \E st : event' = [event EXCEPT ![alert[c.alert].event] = st]
        <5>1. alert[c.alert].event # c.event
          BY <1>0, <3>1, <4>1 DEF CallOK, Unwatched
        <5>2. QED
          BY <1>0, <3>1, <4>1, <5>1
      <4>2. \A e \in Event : ~CreateEvent(w, e)
        BY <2>2 DEF CreateEvent, At
      <4>3. c.phase \notin {"skip", "report"} /\ call'[w].phase # "idle"
        BY <1>8, <2>2 DEF SignalPhase
      <4>4. QED
        BY <1>0, <3>1, <4>1, <4>2, <4>3, EventHistory
    <3>3. QED
      BY <2>2, <3>1, <3>2 DEF Unwatched
  <2>3. QED
    BY <1>0, <1>8, <2>1, <2>2, SignalGoes
<1>9. QED
  BY <1>3, <1>6, <1>7, <1>8 DEF EventsOwned, SignalPhase

\* What says the fate of an alert stays.
LEMMA AlertFateKept ==
  ASSUME NEW a \in Alert, alert'[a].state = alert[a].state, IsReplaced(a)' <=> IsReplaced(a)
  PROVE  FateOfAlert(a)' = FateOfAlert(a)
BY DEF FateOfAlert, Active

\* An event that no alert has keeps its fate.
LEMMA UnwatchedKept ==
  ASSUME FatesSay, FatesSay', NEW e \in Event, Unwatched(e), Unwatched(e)', Ignored(e)' <=> Ignored(e)
  PROVE  FateOf(e)' = FateOf(e)
<1>1. FateSaid(e) /\ FateSaid(e)'
  BY DEF FatesSay
<1>2. (Ignored(e) => FateOf(e) = "dropped") /\ (~Ignored(e) => FateOf(e) = "new")
  BY <1>1 DEF FateSaid
<1>3. (Ignored(e)' => FateOf(e)' = "dropped") /\ (~Ignored(e)' => FateOf(e)' = "new")
  BY <1>1 DEF FateSaid
<1>4. QED
  BY <1>2, <1>3

\* An event whose alert is the same one keeps its fate with it.
LEMMA WatchedKept ==
  ASSUME FatesSay, FatesSay', NEW e \in Event, NEW a \in Alert,
         alert[a].event = e, alert'[a].event = e,
         alert'[a].state = alert[a].state, IsReplaced(a)' <=> IsReplaced(a)
  PROVE  FateOf(e)' = FateOf(e)
<1>1. FateSaid(e) /\ FateSaid(e)'
  BY DEF FatesSay
<1>2. FateOf(e) = FateOfAlert(a) /\ FateOf(e)' = FateOfAlert(a)'
  BY <1>1 DEF FateSaid
<1>3. QED
  BY <1>2, AlertFateKept

\* While no alert comes and none changes its state, only an event without
\* alert can have another fate.
LEMMA FateKept ==
  ASSUME FatesSay, FatesSay', SameEvents, NEW e \in Event,
         \A a \in Alert : alert[a].event = e => alert'[a].state = alert[a].state,
         Unwatched(e) => (Ignored(e)' <=> Ignored(e))
  PROVE  FateOf(e)' = FateOf(e)
<1>1. CASE Unwatched(e)
  <2>1. Unwatched(e)'
    BY <1>1 DEF Unwatched, SameEvents
  <2>2. QED
    BY <1>1, <2>1, UnwatchedKept
<1>2. CASE ~Unwatched(e)
  <2>1. PICK a \in Alert : alert[a].event = e
    BY <1>2 DEF Unwatched
  <2>2. alert'[a].event = e /\ alert'[a].state = alert[a].state
    BY <2>1 DEF SameEvents
  <2>3. IsReplaced(a)' <=> IsReplaced(a)
    BY DEF IsReplaced, SameEvents
  <2>4. QED
    BY <2>1, <2>2, <2>3, WatchedKept
<1>3. QED
  BY <1>1, <1>2

DeskMoves == [Desk!Next]_([e \in Event |-> FateOf(e)])

\* A step that leaves every fate alone is invisible to the desk.
LEMMA DeskRests ==
  ASSUME \A e \in Event : FateOf(e)' = FateOf(e)
  PROVE  DeskMoves
BY DEF DeskMoves

\* A step that leaves the alerts as they are, but for prices: a delivery may
\* drop its event.
LEMMA QuietStep ==
  ASSUME DeskInv, FatesSay, FatesSay', NEW w \in Worker, Acts(w), SameEvents,
         \A a \in Alert : alert'[a].state = alert[a].state,
         \A a \in Alert : ~Replace(w, a)
  PROVE  DeskMoves
<1> DEFINE c == call[w]
<1>0. TypeInv /\ CallOK(w) /\ EventsOwned /\ event \in [Event -> EventStatus]
  BY DEF DeskInv, SerialInv, OneAlertInv, TypeInv, TypeOK
<1>1. ASSUME \A e \in Event : Unwatched(e) => (Ignored(e)' <=> Ignored(e))
      PROVE  DeskMoves
  BY <1>1, FateKept, DeskRests
<1>2. CASE UNCHANGED event
  BY <1>1, <1>2 DEF Ignored
<1>3. CASE \E e \in Event : CreateEvent(w, e)
  BY <1>0, <1>1, <1>3 DEF Ignored, CreateEvent
<1>4. CASE /\ c.phase \in SignalPhase \ {"receive"}
           /\ \E st \in {"SKIPPED", "MONITORING"} : event' = [event EXCEPT ![c.event] = st]
  <2>1. PICK e \in Event : e = c.event /\ event[e] = "RECEIVED"
    BY <1>4, OwnEvent
  <2>2. Ignored(e)' /\ ~Ignored(e) /\ \A t \in Event \ {e} : Ignored(t)' <=> Ignored(t)
    BY <1>0, <1>4, <2>1 DEF Ignored
  <2>3. CASE Unwatched(e)
    <3>1. Unwatched(e)'
      BY <2>3 DEF Unwatched, SameEvents
    <3>2. FateSaid(e) /\ FateSaid(e)'
      BY DEF FatesSay
    <3>3. FateOf(e) = "new"
      BY <2>2, <2>3, <3>2 DEF FateSaid
    <3>4. FateOf(e)' = "dropped"
      BY <2>2, <3>1, <3>2 DEF FateSaid
    <3>5. \A t \in Event \ {e} : FateOf(t)' = FateOf(t)
      BY <2>2, FateKept
    <3>6. Desk!Drop(e)
      BY <3>3, <3>4, <3>5, DeskDrops
    <3>7. QED
      BY <3>6 DEF DeskMoves, Desk!Next
  <2>4. CASE ~Unwatched(e)
    BY <1>1, <2>2, <2>4
  <2>5. QED
    BY <2>3, <2>4
<1>5. CASE /\ c.phase \in {"replace", "skip", "report"}
           /\ \E st \in {"REPLACED", "SKIPPED", "JOB_CREATED"} :
                event' = [event EXCEPT ![alert[c.alert].event] = st]
  <2>1. c.alert \in Alert
    BY <1>0, <1>5 DEF CallOK, AlertPhase
  <2>2. \A e \in Event : Unwatched(e) => e # alert[c.alert].event
    BY <2>1 DEF Unwatched
  <2>3. QED
    BY <1>0, <1>1, <1>5, <2>2 DEF Ignored
<1>6. QED
  BY <1>0, <1>2, <1>3, <1>4, <1>5, EventHistory

\* The alert that is executed, or cancelled, is the watched one.
LEMMA EndStep ==
  ASSUME DeskInv, FatesSay, FatesSay', NEW w \in Worker, Acts(w), Executed(w) \/ CancelWrite(w)
  PROVE  DeskMoves
<1>0. /\ TypeInv /\ CallOK(w) /\ Sure(w) /\ ReplacedStays /\ UNCHANGED event
      /\ alert \in [Alert -> AlertRow \cup {NoAlert}]
      /\ call[w].phase \in {"executed", "cancelled"}
  BY DEF DeskInv, SerialInv, OneAlertInv, TypeInv, TypeOK, Executed, CancelWrite, At
<1>1. PICK r \in Alert, e \in Event :
        /\ r = call[w].alert /\ Active(r)
        /\ alert[r] \in AlertRow /\ alert[r].event = e
  <2> DEFINE r == call[w].alert
  <2>1. r \in Alert /\ Active(r)
    BY <1>0 DEF CallOK, Sure, AlertPhase
  <2>2. alert[r] \in AlertRow /\ alert[r].event \in Event
    BY <1>0, <2>1, RowType DEF Active, AlertRow
  <2>3. QED
    BY <2>1, <2>2
<1>2. SameEvents
  BY <1>0, NoneCreated
<1>3. \A a \in Alert \ {r} : alert'[a] = alert[a]
  BY <1>0, <1>1 DEF Executed, Finished, CancelWrite
<1>4. \A t \in Event \ {e} : FateOf(t)' = FateOf(t)
  BY <1>0, <1>1, <1>2, <1>3, FateKept DEF Ignored
<1>5. FateOf(e) = FateOfAlert(r) /\ FateOf(e)' = FateOfAlert(r)'
  <2>1. FateSaid(e) /\ FateSaid(e)'
    BY <1>1 DEF FatesSay
  <2>2. alert'[r].event = e
    BY <1>1, <1>2 DEF SameEvents
  <2>3. QED
    BY <1>1, <2>1, <2>2 DEF FateSaid
<1>6. FateOf(e) = "watched"
  BY <1>1, <1>5 DEF FateOfAlert
<1>7. CASE Executed(w)
  <2>1. alert'[r].state = "EXECUTED"
    BY <1>0, <1>1, <1>7 DEF Executed, Finished, AlertRow, AlertState
  <2>2. FateOf(e)' = "acted"
    BY <1>5, <2>1 DEF FateOfAlert, Active
  <2>3. QED
    BY <1>1, <1>4, <1>6, <2>2, DeskActs DEF DeskMoves, Desk!Next
<1>8. CASE CancelWrite(w)
  <2>1. alert'[r].state = "CANCELLED"
    BY <1>0, <1>1, <1>8 DEF CancelWrite, AlertRow, AlertState
  <2>2. ~IsReplaced(r)'
    <3>1. r # None
      BY <1>1, AlertsAssumption
    <3>2. ~IsReplaced(r)
      BY <1>0, <1>1, <3>1 DEF IsReplaced, ReplacedStays, Active
    <3>3. QED
      BY <1>2, <3>2 DEF IsReplaced, SameEvents
  <2>3. FateOf(e)' = "dropped"
    BY <1>5, <2>1, <2>2 DEF FateOfAlert, Active
  <2>4. QED
    BY <1>1, <1>4, <1>6, <2>3, DeskDrops DEF DeskMoves, Desk!Next
<1>9. QED
  BY <1>7, <1>8

\* A new alert: its signal is watched, and takes the place of the one that was.
LEMMA ComeStep ==
  ASSUME DeskInv, FatesSay, FatesSay', NEW w \in Worker, Acts(w), NEW a \in Alert,
         Replace(w, a) \/ Insert(w, a)
  PROVE  DeskMoves
<1> DEFINE c == call[w]
<1>0. /\ TypeInv /\ CallOK(w) /\ Sure(w) /\ ReplacedStays /\ SignalsAlone
      /\ event \in [Event -> EventStatus]
      /\ alert \in [Alert -> AlertRow \cup {NoAlert}]
      /\ c.phase \in {"replace", "insert"} /\ None \notin Event
  BY AlertsAssumption DEF DeskInv, SerialInv, OneAlertInv, TypeInv, TypeOK, Replace, Insert, At
<1>1. PICK e \in Event : e = c.event /\ event[e] = "RECEIVED" /\ Unwatched(e)
  BY <1>0, OwnEvent DEF SignalPhase
<1>2. /\ alert[a] = NoAlert
      /\ alert'[a].event = e /\ alert'[a].state = "MONITORING"
      /\ \A b \in Alert \ {a} : alert'[b].event = alert[b].event /\ alert'[b].replaces = alert[b].replaces
  <2>1. alert[a].state = "NONE"
    BY DEF Replace, Insert, Unused
  <2>2. \A b \in Alert \ {a} : ~Created(w, b)
    BY OneCreated DEF Created
  <2>3. Created(w, a)
    <3>1. CASE Insert(w, a)
      <4>1. alert'[a] = NewAlert(w, None)
        BY <1>0, <3>1 DEF Insert
      <4>2. QED
        BY <2>1, <3>1, <4>1 DEF Created
    <3>2. CASE Replace(w, a)
      <4>1. c.alert # a /\ alert' = [alert EXCEPT ![a] = NewAlert(w, c.alert), ![c.alert].state = "CANCELLED"]
        BY <1>0, <2>1, <3>2 DEF CallOK, Replace, Replaced, At
      <4>2. alert'[a] = NewAlert(w, c.alert)
        BY <1>0, <4>1
      <4>3. QED
        BY <2>1, <3>2, <4>2 DEF Created
    <3>3. QED
      BY <3>1, <3>2
  <2>4. QED
    BY <1>0, <1>1, <2>1, <2>2, <2>3, AlertHistory DEF Created, NewAlert, AlertRow, AlertState, Moved, SameSignal
<1>3. FateOf(e) = "new"
  <2>1. FateSaid(e)
    BY DEF FatesSay
  <2>2. QED
    BY <1>1, <2>1 DEF FateSaid, Ignored
<1>4. FateOf(e)' = "watched"
  <2>1. FateSaid(e)'
    BY DEF FatesSay
  <2>2. FateOf(e)' = FateOfAlert(a)'
    BY <1>2, <2>1 DEF FateSaid
  <2>3. QED
    BY <1>2, <2>2 DEF FateOfAlert, Active
<1>5. \* The alerts that stay as they are.
      ASSUME NEW t \in Event \ {e}, NEW b \in Alert, alert[b].event = t, ~Active(b),
             alert'[b].state = alert[b].state, IsReplaced(b)' <=> IsReplaced(b)
      PROVE  FateOf(t)' = FateOf(t) /\ FateOf(t) # "watched"
  <2>1. b # a
    BY <1>0, <1>2, <1>5 DEF NoAlert
  <2>2. FateOf(t)' = FateOf(t)
    BY <1>2, <1>5, <2>1, WatchedKept
  <2>3. FateSaid(t)
    BY DEF FatesSay
  <2>4. FateOf(t) = FateOfAlert(b)
    BY <1>5, <2>3 DEF FateSaid
  <2>5. QED
    BY <1>5, <2>2, <2>4 DEF FateOfAlert
<1>6. ASSUME NEW t \in Event \ {e}, Unwatched(t), Ignored(t)' <=> Ignored(t)
      PROVE  FateOf(t)' = FateOf(t) /\ FateOf(t) # "watched"
  <2>1. Unwatched(t)'
    BY <1>2, <1>6 DEF Unwatched
  <2>2. FateOf(t)' = FateOf(t)
    BY <1>6, <2>1, UnwatchedKept
  <2>3. FateSaid(t)
    BY DEF FatesSay
  <2>4. FateOf(t) \in {"dropped", "new"}
    BY <1>6, <2>3 DEF FateSaid
  <2>5. QED
    BY <2>2, <2>4
<1>7. CASE Insert(w, a)
  <2>1. /\ alert' = [alert EXCEPT ![a] = NewAlert(w, None)] /\ UNCHANGED event
        /\ \A b \in Alert : ~Active(b)
    BY <1>0, <1>7 DEF Insert, At, SignalsAlone
  <2>2. \A b \in Alert \ {a} : alert'[b] = alert[b] /\ (IsReplaced(b)' <=> IsReplaced(b))
    <3>1. alert'[a].replaces = None /\ alert[a].replaces = None
      BY <1>0, <1>2, <2>1 DEF NewAlert, NoAlert
    <3>2. \A b \in Alert : b # None
      BY AlertsAssumption
    <3>3. QED
      BY <1>0, <1>2, <2>1, <3>1, <3>2 DEF IsReplaced
  <2>3. ASSUME NEW t \in Event \ {e}
        PROVE  FateOf(t)' = FateOf(t) /\ FateOf(t) # "watched"
    <3>1. CASE Unwatched(t)
      BY <1>6, <2>1, <3>1 DEF Ignored
    <3>2. CASE ~Unwatched(t)
      <4>1. PICK b \in Alert : alert[b].event = t
        BY <3>2 DEF Unwatched
      <4>2. b # a
        BY <1>0, <1>2, <4>1 DEF NoAlert
      <4>3. QED
        BY <1>5, <2>1, <2>2, <4>1, <4>2
    <3>3. QED
      BY <3>1, <3>2
  <2>4. Desk!Watch(e)
    BY <1>3, <1>4, <2>3, DeskWatches
  <2>5. QED
    BY <2>4 DEF DeskMoves, Desk!Next
<1>8. CASE Replace(w, a)
  <2>1. PICK r \in Alert, f \in Event : r = c.alert /\ Active(r) /\ alert[r] \in AlertRow /\ alert[r].event = f
    <3>1. c.phase = "replace"
      BY <1>8 DEF Replace, At
    <3>2. c.alert \in Alert /\ Active(c.alert)
      BY <1>0, <3>1 DEF CallOK, Sure
    <3>3. alert[c.alert] \in AlertRow /\ alert[c.alert].event \in Event
      BY <1>0, <3>2, RowType DEF Active, AlertRow
    <3>4. QED
      BY <3>2, <3>3
  <2>2. /\ alert' = [alert EXCEPT ![a] = NewAlert(w, r), ![r].state = "CANCELLED"]
        /\ event' = [event EXCEPT ![f] = "REPLACED"]
        /\ \A b \in Alert : Active(b) => b = r
    BY <1>0, <1>8, <2>1 DEF Replace, Replaced, At, SignalsAlone
  <2>3. r # a /\ r # None
    BY <1>2, <2>1, AlertsAssumption DEF Active, NoAlert
  <2>4. /\ alert'[r].state = "CANCELLED" /\ alert'[r].event = f /\ IsReplaced(r)'
        /\ alert'[a].replaces = r
    <3>1. alert'[r] = [alert[r] EXCEPT !.state = "CANCELLED"] /\ alert'[a] = NewAlert(w, r)
      BY <1>0, <2>1, <2>2, <2>3
    <3>2. alert'[r].state = "CANCELLED" /\ alert'[r].event = f /\ alert'[a].replaces = r
      BY <2>1, <3>1 DEF AlertRow, NewAlert
    <3>3. QED
      BY <3>2 DEF IsReplaced
  <2>5. \A b \in Alert \ {a, r} : alert'[b] = alert[b] /\ (IsReplaced(b)' <=> IsReplaced(b))
    <3>1. alert[a].replaces = None /\ \A b \in Alert : b # None
      BY <1>2, AlertsAssumption DEF NoAlert
    <3>2. QED
      BY <1>0, <1>2, <2>2, <2>4, <3>1 DEF IsReplaced
  <2>6. f # e
    BY <1>1, <2>1 DEF Unwatched
  <2>7. FateOf(f) = "watched" /\ FateOf(f)' = "replaced"
    <3>1. FateSaid(f) /\ FateSaid(f)'
      BY DEF FatesSay
    <3>2. FateOf(f) = FateOfAlert(r) /\ FateOf(f)' = FateOfAlert(r)'
      BY <2>1, <2>4, <3>1 DEF FateSaid
    <3>3. FateOfAlert(r) = "watched"
      BY <2>1 DEF FateOfAlert
    <3>4. FateOfAlert(r)' = "replaced"
      BY <2>4 DEF FateOfAlert, Active
    <3>5. QED
      BY <3>2, <3>3, <3>4
  <2>8. ASSUME NEW t \in Event \ {e, f}
        PROVE  FateOf(t)' = FateOf(t) /\ FateOf(t) # "watched"
    <3>1. CASE Unwatched(t)
      BY <1>0, <1>6, <2>2, <3>1 DEF Ignored
    <3>2. CASE ~Unwatched(t)
      <4>1. PICK b \in Alert : alert[b].event = t
        BY <3>2 DEF Unwatched
      <4>2. b # a /\ b # r
        BY <1>0, <1>2, <2>1, <4>1 DEF NoAlert
      <4>3. QED
        BY <1>5, <2>2, <2>5, <4>1, <4>2
    <3>3. QED
      BY <3>1, <3>2
  <2>9. Desk!Watch(e)
    BY <1>3, <1>4, <2>7, <2>8, DeskWatches
  <2>10. QED
    BY <2>9 DEF DeskMoves, Desk!Next
<1>9. QED
  BY <1>7, <1>8

\* Every step is one of the desk, or invisible to it.
LEMMA DeskStep ==
  ASSUME OneCaller, DeskInv, DeskInv', [Next]_vars
  PROVE  DeskMoves
<1>0. TypeInv
  BY DEF DeskInv, SerialInv, OneAlertInv
<1>1. FatesSay /\ FatesSay'
  BY FatesKnown, FatesKnownNext DEF DeskInv
<1>2. ASSUME NEW w \in Worker, Acts(w)
      PROVE  DeskMoves
  <2>1. CASE \E a \in Alert : Replace(w, a) \/ Insert(w, a)
    BY <1>1, <1>2, <2>1, ComeStep
  <2>2. CASE Executed(w) \/ CancelWrite(w)
    BY <1>1, <1>2, <2>2, EndStep
  <2>3. CASE /\ ~\E a \in Alert : Replace(w, a) \/ Insert(w, a)
             /\ ~Executed(w) /\ ~CancelWrite(w)
    <3>1. \A a \in Alert : alert'[a] = alert[a] \/ (Moved(w, a) /\ PriceWrite(w))
      BY <1>0, <1>2, <2>3, AlertHistory DEF Created, Moved
    <3>2. SameEvents /\ \A a \in Alert : alert'[a].state = alert[a].state
      BY <2>3, <3>1 DEF SameEvents, Moved, SameSignal
    <3>3. QED
      BY <1>1, <1>2, <2>3, <3>2, QuietStep
  <2>4. QED
    BY <2>1, <2>2, <2>3
<1>3. ASSUME Time
      PROVE  DeskMoves
  <2>1. UNCHANGED <<alert, event>>
    BY <1>3, TimeKeeps
  <2>2. \A e \in Event : FateOf(e)' = FateOf(e)
    BY <2>1 DEF FateOf, FateOfAlert, Active, IsReplaced
  <2>3. QED
    BY <2>2, DeskRests
<1>4. QED
  BY <1>2, <1>3, WhoActs

\* Every step keeps what the refinement needs.
LEMMA DeskInvStep ==
  ASSUME OneCaller, DeskInv, [Next]_vars
  PROVE  DeskInv'
<1>1. SerialInv'
  BY SerialStep DEF DeskInv
<1>2. ASSUME Time
      PROVE  EventsOwned'
  <2>1. UNCHANGED <<alert, event, call>>
    BY <1>2, TimeKeeps
  <2>2. QED
    BY <2>1 DEF DeskInv, EventsOwned
<1>3. QED
  BY <1>1, <1>2, EventsStep, WhoActs DEF DeskInv

\* At first no signal has been looked at.
LEMMA DeskInit == Init => DeskInv /\ Desk!Init
<1> SUFFICES ASSUME Init PROVE DeskInv /\ Desk!Init
  OBVIOUS
<1>1. /\ \A a \in Alert : alert[a].event = None
      /\ \A e \in Event : event[e] = "NONE"
      /\ \A w \in Worker : call[w].phase = "idle"
  BY DEF Init, NoAlert, NoCall
<1>2. EventsOwned
  BY <1>1 DEF EventsOwned, SignalPhase
<1>3. DeskInv
  BY <1>2, SerialInit DEF DeskInv
<1>4. ASSUME NEW e \in Event
      PROVE  FateOf(e) = "new"
  <2>1. FateSaid(e)
    BY <1>2, FatesKnown DEF FatesSay
  <2>2. Unwatched(e) /\ ~Ignored(e)
    BY <1>1, AlertsAssumption DEF Unwatched, Ignored
  <2>3. QED
    BY <2>1, <2>2 DEF FateSaid
<1>5. QED
  BY <1>3, <1>4 DEF Desk!Init

\* When calls do not overlap, the alerts keep the promise of SignalDesk: one
\* signal at a time is watched, a better one takes its place, and only the one
\* that is watched is ever acted upon, once; wherever calls fail or die.
THEOREM AlertsImplementDesk == ASSUME OneCaller PROVE Spec => ImplementsSignalDesk
<1>1. DeskInv /\ [Next]_vars => DeskInv'
  BY DeskInvStep
<1>2. DeskInv /\ DeskInv' /\ [Next]_vars => DeskMoves
  BY DeskStep
<1>3. QED
  BY <1>1, <1>2, DeskInit, PTL DEF Spec, ImplementsSignalDesk, Desk!Spec, DeskMoves
=============================================================================
