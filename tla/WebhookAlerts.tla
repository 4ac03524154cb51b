---------------------------- MODULE WebhookAlerts ----------------------------
(***************************************************************************)
(* The alerts of one webhook source, symbol and trade mode.  A signal does *)
(* not buy or sell at once: it becomes an alert, which follows the price   *)
(* until it turns and then creates the trade_jobs.  Requests that deliver  *)
(* signals, the monitor's passes and requests to cancel an alert run side  *)
(* by side and share nothing but the rows of the database.                 *)
(*                                                                         *)
(* Each action is one statement with the reads that lead to it, except     *)
(* that createOrUpdateAlert reads in one and writes, all at once, in       *)
(* another: its transaction is ReadCommitted and locks nothing it read.    *)
(*                                                                         *)
(* Abstracted: the reports of an alert (trend, snapshots, savings), the    *)
(* jobs of one execution (several accounts, several positions: created or  *)
(* not), the event of a source without monitoring, event_uid (it contains  *)
(* the time and no two deliveries share it).                               *)
(***************************************************************************)
EXTENDS Naturals

CONSTANTS
  Event,          \* webhook_events that may come to exist
  MaxAlert,       \* bound: alerts that may come to exist
  Worker,         \* requests and passes that may run at a time
  Side,           \* what the source sends: "BUY", "SELL"
  Price,
  LateralPct,     \* lateral_tolerance_pct
  LateralCycles,  \* lateral_cycles_min, 0 when it is disabled
  TurnPct,        \* rise_trigger_pct of a BUY, sell_fall_trigger_pct of a SELL
  TurnCycles,     \* rise_cycles_min, sell_fall_cycles_min, 0 when disabled
  MaxFallPct,     \* max_fall_pct
  Enabled,        \* features and failures a run allows
  None

Feature ==
  { "MAX_FALL",      \* max_fall_enabled
    "MAX_TIME",      \* max_monitoring_time_enabled
    "NO_JOBS",       \* an execution that finds nothing to do
    "CALL_FAILS",    \* a statement fails
    "CRASH",         \* a process dies
    "TWO_SIGNALS",   \* signals are delivered at the same time
    "TWO_PASSES" }   \* passes of the monitor overlap

Alert == 1..MaxAlert

ASSUME AlertsAssumption ==
  /\ MaxAlert \in Nat
  /\ Side \subseteq {"BUY", "SELL"}
  /\ Price \subseteq Nat \ {0}
  /\ LateralPct \in Nat /\ LateralCycles \in Nat
  /\ TurnPct \in Nat /\ TurnCycles \in Nat
  /\ MaxFallPct \in Nat
  /\ Enabled \subseteq Feature
  /\ None \notin Alert /\ None \notin Event /\ None \notin Price /\ None \notin Side

VARIABLES
  alert,   \* webhook_monitor_alerts
  event,   \* status of the webhook_events
  recent,  \* sides of the events of the last 30 seconds
  aged,    \* alerts older than max_monitoring_time_min
  fresh,   \* executed alerts whose cooldown is running
  jobs,    \* executions of an alert that created jobs, counted to 2
  queued,  \* alerts whose jobs are in the execution queue
  call     \* what each worker is doing

vars == <<alert, event, recent, aged, fresh, jobs, queued, call>>

AlertState  == {"MONITORING", "EXECUTED", "CANCELLED"}
EventStatus == {"NONE", "RECEIVED", "MONITORING", "REPLACED", "SKIPPED", "JOB_CREATED"}

Larger(m, n)  == IF m > n THEN m ELSE n
Smaller(m, n) == IF m < n THEN m ELSE n
EnoughCycles == Larger(LateralCycles, TurnCycles)  \* bound: cycles are counted so far

\* extreme is price_minimum of a BUY and price_maximum of a SELL alert, cycles
\* the passes since it was reached, replaces the replaced_alert_id.
AlertRow == [state: AlertState, side: Side, price: Price, extreme: Price,
             cycles: 0..EnoughCycles, event: Event, replaces: Alert \cup {None}]
NoAlert  == [state |-> "NONE", side |-> None, price |-> None, extreme |-> None,
             cycles |-> 0, event |-> None, replaces |-> None]

SignalPhase == {"receive", "precheck", "find", "replace", "insert", "watch"}
AlertPhase  == {"pass", "priced", "cancel", "cancelled", "skip", "execute", "jobs",
                "executed", "report", "enqueue"}
Verdict == {"wait", "execute", "cancel"}

\* side and price are those of the signal; extreme and cycles what a pass is
\* about to write; todo the alerts it has listed and not looked at.
CallState == [phase: {"idle"} \cup SignalPhase \cup AlertPhase, by: {"nobody", "webhook", "user", "pass"},
              event: Event \cup {None}, side: Side \cup {None}, price: Price \cup {None},
              alert: Alert \cup {None}, todo: SUBSET Alert, extreme: Price \cup {None},
              cycles: 0..EnoughCycles, verdict: Verdict]
NoCall == [phase |-> "idle", by |-> "nobody", event |-> None, side |-> None, price |-> None,
           alert |-> None, todo |-> {}, extreme |-> None, cycles |-> 0, verdict |-> "wait"]

TypeOK ==
  /\ alert \in [Alert -> AlertRow \cup {NoAlert}]
  /\ event \in [Event -> EventStatus]
  /\ recent \subseteq Side
  /\ aged \subseteq Alert
  /\ fresh \subseteq Alert
  /\ jobs \in [Alert -> 0..2]
  /\ queued \subseteq Alert
  /\ call \in [Worker -> CallState]

\* A call has what its phase needs: a signal its event, a pass its alert.
CallOK(w) ==
  LET c == call[w]
  IN /\ c.by = "webhook" <=> c.phase \in SignalPhase
     /\ c.phase \in SignalPhase => c.side \in Side /\ c.price \in Price
     /\ c.phase \in SignalPhase \ {"receive"} => c.event \in Event
     /\ c.phase \in {"replace"} \cup (AlertPhase \ {"pass"}) =>
          c.alert \in Alert /\ alert[c.alert].state # "NONE"
     /\ c.phase = "priced" => c.extreme \in Price

Init ==
  /\ alert = [a \in Alert |-> NoAlert]
  /\ event = [e \in Event |-> "NONE"]
  /\ recent = {}
  /\ aged = {}
  /\ fresh = {}
  /\ jobs = [a \in Alert |-> 0]
  /\ queued = {}
  /\ call = [w \in Worker |-> NoCall]

Active(a) == alert[a].state = "MONITORING"
Newest(a) == Active(a) /\ \A b \in Alert : Active(b) => b <= a

Idle(w) == call[w].phase = "idle"
At(w, phase) == call[w].phase = phase
Step(w, phase) == call' = [call EXCEPT ![w].phase = phase]
Return(w) == call' = [call EXCEPT ![w] = NoCall]

(***************************************************************************)
(* A signal is delivered: createEvent and createOrUpdateAlert              *)
(***************************************************************************)

\* A signal of the same side in the last 30 seconds makes this one a duplicate.
Receive(w, s, p) ==
  /\ Idle(w)
  /\ "TWO_SIGNALS" \in Enabled \/ \A v \in Worker : call[v].by # "webhook"
  /\ s \notin recent
  /\ call' = [call EXCEPT ![w] = [NoCall EXCEPT !.phase = "receive", !.by = "webhook",
                                                !.side = s, !.price = p]]
  /\ UNCHANGED <<alert, event, recent, aged, fresh, jobs, queued>>

CreateEvent(w, e) ==
  /\ At(w, "receive")
  /\ event[e] = "NONE"
  /\ event' = [event EXCEPT ![e] = "RECEIVED"]
  /\ recent' = recent \cup {call[w].side}
  /\ call' = [call EXCEPT ![w].phase = "precheck", ![w].event = e]
  /\ UNCHANGED <<alert, aged, fresh, jobs, queued>>

\* As good as the best price the alert has seen: lower for a BUY, higher for a
\* SELL, or the same.
Improves(s, p, best) == IF s = "BUY" THEN p <= best ELSE p >= best
ImprovesFirst(w, a) == Improves(call[w].side, call[w].price, alert[a].price)  \* mutant

Better(w, a) == Improves(call[w].side, call[w].price, alert[a].extreme)
SameSide(w, a) == alert[a].side = call[w].side

Skip(w) == event' = [event EXCEPT ![call[w].event] = "SKIPPED"] /\ Return(w)

\* getActiveAlert takes any active alert.
Precheck(w) ==
  /\ At(w, "precheck")
  /\ \/ /\ \/ \A a \in Alert : ~Active(a)
           \/ \E a \in Alert : Active(a) /\ (SameSide(w, a) => Better(w, a))
        /\ Step(w, "find")
        /\ UNCHANGED event
     \/ /\ \E a \in Alert : Active(a) /\ SameSide(w, a) /\ ~Better(w, a)
        /\ Skip(w)
  /\ UNCHANGED <<alert, recent, aged, fresh, jobs, queued>>

NeverCooling(s) == FALSE  \* mutant

Cooling(s) == \E a \in fresh : alert[a].state = "EXECUTED" /\ alert[a].side = s

\* createOrUpdateAlert reads the newest active alert, and if there is none the
\* recent executions.  An alert it does not replace stays, of whichever side.
Find(w) ==
  /\ At(w, "find")
  /\ \/ \E a \in Alert :
          /\ Newest(a)
          /\ IF SameSide(w, a) /\ Better(w, a)
             THEN call' = [call EXCEPT ![w].phase = "replace", ![w].alert = a]
             ELSE Step(w, "watch")
          /\ UNCHANGED event
     \/ /\ \A a \in Alert : ~Active(a)
        /\ IF Cooling(call[w].side) THEN Skip(w) ELSE Step(w, "insert") /\ UNCHANGED event
  /\ UNCHANGED <<alert, recent, aged, fresh, jobs, queued>>

NoBestPrice(w, replaced) ==  \* mutant
  [state |-> "MONITORING", side |-> call[w].side, price |-> call[w].price,
   extreme |-> None, cycles |-> 0, event |-> call[w].event, replaces |-> replaced]

NewAlert(w, replaced) ==
  [state |-> "MONITORING", side |-> call[w].side, price |-> call[w].price,
   extreme |-> call[w].price, cycles |-> 0, event |-> call[w].event, replaces |-> replaced]

Unused(a) == /\ alert[a].state = "NONE"
             /\ \A b \in Alert : b < a => alert[b].state # "NONE"

KeepOld(w, a) == [alert EXCEPT ![a] = NewAlert(w, call[w].alert)]  \* mutant

Replaced(w, a) ==
  [alert EXCEPT ![a] = NewAlert(w, call[w].alert), ![call[w].alert].state = "CANCELLED"]

\* Whatever has become of the alert that was read, it is CANCELLED and its
\* event REPLACED.
Replace(w, a) ==
  /\ At(w, "replace")
  /\ Unused(a)
  /\ alert' = Replaced(w, a)
  /\ event' = [event EXCEPT ![alert[call[w].alert].event] = "REPLACED"]
  /\ call' = [call EXCEPT ![w].phase = "watch", ![w].alert = None]
  /\ UNCHANGED <<recent, aged, fresh, jobs, queued>>

Insert(w, a) ==
  /\ At(w, "insert")
  /\ Unused(a)
  /\ alert' = [alert EXCEPT ![a] = NewAlert(w, None)]
  /\ Step(w, "watch")
  /\ UNCHANGED <<event, recent, aged, fresh, jobs, queued>>

Watch(w) ==
  /\ At(w, "watch")
  /\ event' = [event EXCEPT ![call[w].event] = "MONITORING"]
  /\ Return(w)
  /\ UNCHANGED <<alert, recent, aged, fresh, jobs, queued>>

\* 30 seconds, longer than a delivery takes.
RecentEnds(s) ==
  /\ s \in recent
  /\ \A w \in Worker : call[w].side # s
  /\ recent' = recent \ {s}
  /\ UNCHANGED <<alert, event, aged, fresh, jobs, queued, call>>

(***************************************************************************)
(* The monitor: every 30 seconds, one alert after another                  *)
(***************************************************************************)
PassStarts(w) ==
  /\ Idle(w)
  /\ "TWO_PASSES" \in Enabled \/ \A v \in Worker : call[v].by # "pass"
  /\ \E a \in Alert : Active(a)
  /\ call' = [call EXCEPT ![w] = [NoCall EXCEPT !.phase = "pass", !.by = "pass",
                                                !.todo = {a \in Alert : Active(a)}]]
  /\ UNCHANGED <<alert, event, recent, aged, fresh, jobs, queued>>

\* To the next alert of the pass; a request is over.
Rest(w, todo) ==
  IF todo = {} THEN NoCall ELSE [NoCall EXCEPT !.phase = "pass", !.by = "pass", !.todo = todo]
Proceed(w) == call' = [call EXCEPT ![w] = Rest(w, @.todo)]

\* How far price p is from the extreme x, in hundreds of percents of x.
Away(p, x) == 100 * (IF p > x THEN p - x ELSE x - p)

\* The price has turned: it stays near the extreme for some cycles, or leaves
\* it clearly.
Turned(p, x, n) ==
  IF Away(p, x) <= LateralPct * x THEN n >= LateralCycles
                                  ELSE Away(p, x) >= TurnPct * x /\ n >= TurnCycles

NewExtreme(s, p, x) == IF s = "BUY" THEN p < x ELSE p > x

\* The lowest price x of a BUY is max_fall_pct below the price of its signal.
FellTooFar(a, x) ==
  /\ "MAX_FALL" \in Enabled /\ alert[a].side = "BUY"
  /\ x < alert[a].price
  /\ 100 * (alert[a].price - x) > MaxFallPct * alert[a].price

CanExecute(a, p, x, n) == ~NewExtreme(alert[a].side, p, alert[a].extreme) /\ Turned(p, x, n)

VerdictNow(a, p, x, n) ==  \* mutant: the price of this pass instead of the lowest one
  IF FellTooFar(a, p) \/ a \in aged THEN "cancel"
  ELSE IF CanExecute(a, p, x, n) THEN "execute" ELSE "wait"

VerdictForever(a, p, x, n) ==  \* mutant: no maximum time
  IF FellTooFar(a, x) THEN "cancel"
  ELSE IF CanExecute(a, p, x, n) THEN "execute" ELSE "wait"

VerdictFor(a, p, x, n) ==
  IF FellTooFar(a, x) \/ a \in aged THEN "cancel"
  ELSE IF CanExecute(a, p, x, n) THEN "execute" ELSE "wait"

\* updatePriceMonitoring reads the alert and refuses one that is not active.
PriceRead(w, a, p) ==
  /\ At(w, "pass")
  /\ a \in call[w].todo
  /\ LET todo == call[w].todo \ {a}
         new  == NewExtreme(alert[a].side, p, alert[a].extreme)
         x    == IF new THEN p ELSE alert[a].extreme
         n    == IF new THEN 0 ELSE Smaller(alert[a].cycles + 1, EnoughCycles)
     IN call' = [call EXCEPT ![w] =
          IF Active(a)
          THEN [@ EXCEPT !.phase = "priced", !.alert = a, !.todo = todo, !.extreme = x,
                         !.cycles = n, !.verdict = VerdictFor(a, p, x, n)]
          ELSE Rest(w, todo)]
  /\ UNCHANGED <<alert, event, recent, aged, fresh, jobs, queued>>

PriceMissing(w, a) ==
  /\ At(w, "pass")
  /\ a \in call[w].todo
  /\ call' = [call EXCEPT ![w] = Rest(w, @.todo \ {a})]
  /\ UNCHANGED <<alert, event, recent, aged, fresh, jobs, queued>>

\* The row is written whatever its state is by now; updated_at is from where
\* the cooldown counts.
PriceWrite(w) ==
  /\ At(w, "priced")
  /\ LET a == call[w].alert
     IN /\ alert' = [alert EXCEPT ![a].extreme = call[w].extreme, ![a].cycles = call[w].cycles]
        /\ fresh' = IF alert[a].state = "EXECUTED" THEN fresh \cup {a} ELSE fresh
  /\ call' = [call EXCEPT ![w] =
       IF @.verdict = "wait" THEN Rest(w, @.todo)
       ELSE [NoCall EXCEPT !.phase = call[w].verdict, !.by = "pass", !.alert = call[w].alert,
                           !.todo = call[w].todo]]
  /\ UNCHANGED <<event, recent, aged, jobs, queued>>

\* cancelAlert, of the monitor or of a user.
CancelRequest(w, a) ==
  /\ Idle(w)
  /\ Active(a)
  /\ call' = [call EXCEPT ![w] = [NoCall EXCEPT !.phase = "cancelled", !.by = "user", !.alert = a]]
  /\ UNCHANGED <<alert, event, recent, aged, fresh, jobs, queued>>

CancelRead(w) ==
  /\ At(w, "cancel")
  /\ IF Active(call[w].alert) THEN Step(w, "cancelled") ELSE Proceed(w)
  /\ UNCHANGED <<alert, event, recent, aged, fresh, jobs, queued>>

CancelWrite(w) ==
  /\ At(w, "cancelled")
  /\ alert' = [alert EXCEPT ![call[w].alert].state = "CANCELLED"]
  /\ Step(w, "skip")
  /\ UNCHANGED <<event, recent, aged, fresh, jobs, queued>>

SkipEvent(w) ==
  /\ At(w, "skip")
  /\ event' = [event EXCEPT ![alert[call[w].alert].event] = "SKIPPED"]
  /\ Proceed(w)
  /\ UNCHANGED <<alert, recent, aged, fresh, jobs, queued>>

ExecuteRead(w) ==
  /\ At(w, "execute")
  /\ IF Active(call[w].alert) THEN Step(w, "jobs") ELSE Proceed(w)
  /\ UNCHANGED <<alert, event, recent, aged, fresh, jobs, queued>>

CreateJobs(w) ==
  /\ At(w, "jobs")
  /\ jobs' = [jobs EXCEPT ![call[w].alert] = Smaller(@ + 1, 2)]
  /\ Step(w, "executed")
  /\ UNCHANGED <<alert, event, recent, aged, fresh, queued>>

\* A SELL that finds no position is cancelled, a BUY that creates no job is an error.
WithoutJobs(w) == IF alert[call[w].alert].side = "SELL" THEN Step(w, "cancel") ELSE Proceed(w)

CreateNoJobs(w) ==
  /\ "NO_JOBS" \in Enabled
  /\ At(w, "jobs")
  /\ WithoutJobs(w)
  /\ UNCHANGED <<alert, event, recent, aged, fresh, jobs, queued>>

StillActive(a) == alert  \* mutant

Finished(a) == [alert EXCEPT ![a].state = "EXECUTED"]

\* The state is written without looking at it again.
Executed(w) ==
  /\ At(w, "executed")
  /\ alert' = Finished(call[w].alert)
  /\ fresh' = fresh \cup {call[w].alert}
  /\ Step(w, "report")
  /\ UNCHANGED <<event, recent, aged, jobs, queued>>

Report(w) ==
  /\ At(w, "report")
  /\ event' = [event EXCEPT ![alert[call[w].alert].event] = "JOB_CREATED"]
  /\ Step(w, "enqueue")
  /\ UNCHANGED <<alert, recent, aged, fresh, jobs, queued>>

Enqueue(w) ==
  /\ At(w, "enqueue")
  /\ queued' = queued \cup {call[w].alert}
  /\ Proceed(w)
  /\ UNCHANGED <<alert, event, recent, aged, fresh, jobs>>

(***************************************************************************)
(* Time and failures                                                       *)
(***************************************************************************)
AlertAges(a) ==
  /\ "MAX_TIME" \in Enabled
  /\ Active(a) /\ a \notin aged
  /\ aged' = aged \cup {a}
  /\ UNCHANGED <<alert, event, recent, fresh, jobs, queued, call>>

CooldownEnds(a) ==
  /\ a \in fresh
  /\ fresh' = fresh \ {a}
  /\ UNCHANGED <<alert, event, recent, aged, jobs, queued, call>>

\* An error: a delivery leaves its event SKIPPED, or as it is before it looks
\* for alerts; the monitor goes on with the next alert.  An event that could
\* not be told of the jobs does not keep them from the queue, nor does a snapshot
\* that fails: createSnapshot logs its own errors (1735).
CallFails(w) ==
  /\ "CALL_FAILS" \in Enabled
  /\ \/ call[w].phase \in SignalPhase \ {"receive"} /\ Skip(w)
     \/ call[w].phase \in {"receive", "precheck"} /\ Return(w) /\ UNCHANGED event
     \/ call[w].phase \in AlertPhase \ {"pass", "report"} /\ Proceed(w) /\ UNCHANGED event
     \/ At(w, "report") /\ Step(w, "enqueue") /\ UNCHANGED event
  /\ UNCHANGED <<alert, recent, aged, fresh, jobs, queued>>

Crash(w) ==
  /\ "CRASH" \in Enabled
  /\ ~Idle(w)
  /\ Return(w)
  /\ UNCHANGED <<alert, event, recent, aged, fresh, jobs, queued>>

-----------------------------------------------------------------------------
Continue(w) ==
  \/ \E e \in Event : CreateEvent(w, e)
  \/ Precheck(w)
  \/ Find(w)
  \/ \E a \in Alert : Replace(w, a) \/ Insert(w, a)
  \/ Watch(w)
  \/ \E a \in Alert : PriceMissing(w, a) \/ \E p \in Price : PriceRead(w, a, p)
  \/ PriceWrite(w)
  \/ CancelRead(w)
  \/ CancelWrite(w)
  \/ SkipEvent(w)
  \/ ExecuteRead(w)
  \/ CreateJobs(w)
  \/ CreateNoJobs(w)
  \/ Executed(w)
  \/ Report(w)
  \/ Enqueue(w)

Next ==
  \/ \E w \in Worker :
       \/ \E s \in Side, p \in Price : Receive(w, s, p)
       \/ PassStarts(w)
       \/ \E a \in Alert : CancelRequest(w, a)
       \/ Continue(w)
       \/ CallFails(w)
       \/ Crash(w)
  \/ \E s \in Side : RecentEnds(s)
  \/ \E a \in Alert : AlertAges(a) \/ CooldownEnds(a)

Spec == Init /\ [][Next]_vars

(***************************************************************************)
(* Properties                                                              *)
(***************************************************************************)

\* "Máximo 1 alerta ativo": a source follows one alert per symbol and mode,
\* also while the monitor and users work on the alert a signal replaces.
OneActiveAlert == \A a, b \in Alert : Active(a) /\ Active(b) => a = b

\* One signal is delivered at a time, and what it has read still holds when it
\* writes: there is no active alert, or only the one it replaces.
SignalsAlone ==
  /\ \A v, w \in Worker : call[v].by = "webhook" /\ call[w].by = "webhook" => v = w
  /\ \A w \in Worker, a \in Alert :
       Active(a) => call[w].phase # "insert" /\ (At(w, "replace") => call[w].alert = a)

\* An alert buys or sells once, whatever signals and users do to it while the
\* monitor executes it.
JobsOnce == \A a \in Alert : jobs[a] <= 1

\* During the cooldown after an execution no alert of that side is followed.
CooldownRespected ==
  \A a, b \in Alert : Active(a) /\ b \in fresh /\ alert[b].state = "EXECUTED"
                        => alert[a].side # alert[b].side

\* An alert is only replaced by one at least as good as the best price that
\* was seen before (createOrUpdateAlert: "substituir se novo preço é menor ou
\* igual").
ReplacementIsNoWorse ==
  \A a \in Alert : alert[a].replaces # None =>
    Improves(alert[a].side, alert[a].price, alert[alert[a].replaces].extreme)

\* What docs/WEBHOOK_MONITOR.md (56, 67) says instead: an alert of the same price
\* is ignored ("mais caro ou igual: Ignora o novo alerta").
ReplacementIsBetter ==
  \A a \in Alert : alert[a].replaces # None =>
    LET best == alert[alert[a].replaces].extreme
    IN  alert[a].price # best /\ Improves(alert[a].side, alert[a].price, best)

\* A BUY that fell further than max_fall_pct at any time is never executed,
\* although the price has recovered when the monitor, after an error or a
\* restart, looks again.
NoBuyAfterFreeFall ==
  \A a \in Alert : alert[a].state = "EXECUTED" => ~FellTooFar(a, alert[a].extreme)

\* The fate of a signal.  One that is ignored has no alert, whichever status
\* its event was given.
IsReplaced(a) == \E b \in Alert : alert[b].replaces = a

FateOfAlert(a) ==
  IF Active(a) THEN "watched"
  ELSE IF alert[a].state = "EXECUTED" THEN "acted"
  ELSE IF IsReplaced(a) THEN "replaced" ELSE "dropped"

FateOf(e) ==
  IF \E a \in Alert : alert[a].event = e
  THEN FateOfAlert(CHOOSE a \in Alert : alert[a].event = e)
  ELSE IF event[e] \in {"SKIPPED", "MONITORING"} THEN "dropped" ELSE "new"

Desk == INSTANCE SignalDesk WITH Signal <- Event, fate <- [e \in Event |-> FateOf(e)]

\* When calls do not overlap, the alerts do with the signals what SignalDesk
\* says: every step of a delivery, a pass or a cancellation is a step of the
\* desk or invisible to it, also when it fails or the process dies.
ImplementsSignalDesk == Desk!Spec

\* A CANCELLED alert has created no jobs.
CancelledHasNoJobs == \A a \in Alert : alert[a].state = "CANCELLED" => jobs[a] = 0

\* An event is in MONITORING because an alert follows the price for it.
MonitoringHasAlert ==
  \A e \in Event : event[e] = "MONITORING" => \E a \in Alert : alert[a].event = e

(***************************************************************************)
(* Fairness: what has started goes on, the monitor runs again and again    *)
(* and does not miss the price of the same alert for ever; time passes.    *)
(***************************************************************************)
FairSpec ==
  /\ Spec
  /\ \A w \in Worker : WF_vars(Continue(w))
  /\ SF_vars(\E w \in Worker : PassStarts(w))
  /\ \A a \in Alert : /\ SF_vars(\E w \in Worker, p \in Price : PriceRead(w, a, p))
                       /\ WF_vars(AlertAges(a))

\* With a maximum time, every alert is executed, replaced or cancelled in the
\* end, whatever the price does: it blocks every signal of the other side.
AlertEnds == \A a \in Alert : Active(a) ~> ~Active(a)

\* The jobs of an EXECUTED alert reach the execution queue: nothing else would
\* put them there.
ExecutedIsQueued == \A a \in Alert : (alert[a].state = "EXECUTED") ~> (a \in queued)
=============================================================================
