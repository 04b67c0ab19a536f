---------------------------- MODULE LifecycleProofs ----------------------------
(***************************************************************************)
(* Theorems about Lifecycle and the Scheduler it extends, for every set of *)
(* jobs, intervals, requests and endpoints, both commands, and with or     *)
(* without the watcher.                                                    *)
(***************************************************************************)
EXTENDS Lifecycle, TLAPS

USE SchedulerAssumption, LifecycleAssumption DEF SchedulerAssumption, LifecycleAssumption

(* An endpoint that Send is not done with has attempts left, one it has    *)
(* given up has none, and one it refused has no request.                   *)
AttemptsLeft ==
    \A e \in Endpoints : /\ result[e] = "todo" => tried[e] < MaxAttempts
                         /\ result[e] = "failed" => tried[e] = MaxAttempts
                         /\ result[e] = "refused" =>
                              e \in Malformed \/ phase \notin {"scan", "send"}

TypeInv == TypeOK /\ AttemptsLeft

LEMMA AdvanceTyped ==
    ASSUME SchedTypeOK, NEW S \in SUBSET Jobs, Advance(S)
    PROVE  /\ enabled' \in [Jobs -> BOOLEAN]
           /\ nextRun' \in [Jobs -> Nat]
BY DEF SchedTypeOK, Advance

(* Steps of the scheduler.                                                 *)
LEMMA SchedTyped ==
    ASSUME SchedTypeOK, LoopStep \/ JobStart \/ JobEnd \/ Elapse
    PROVE  SchedTypeOK'
<1>1. CASE LoopInit
  <2>1. Advance({j \in Jobs : enabled[j]})
    BY <1>1 DEF LoopInit
  <2>2. enabled' \in [Jobs -> BOOLEAN] /\ nextRun' \in [Jobs -> Nat]
    BY <2>1, AdvanceTyped
  <2> QED BY <1>1, <2>2 DEF LoopInit, SchedTypeOK
<1>2. CASE Pick
  <2>1. Advance({j \in Jobs : enabled[j] /\ nextRun[j] <= now})
    BY <1>2 DEF Pick
  <2>2. enabled' \in [Jobs -> BOOLEAN] /\ nextRun' \in [Jobs -> Nat]
    BY <2>1, AdvanceTyped
  <2>3. due' \subseteq Jobs /\ picked' \in [Jobs -> Nat] /\ loop' = "run"
    BY <1>2 DEF Pick, SchedTypeOK
  <2> QED BY <1>2, <2>2, <2>3 DEF Pick, SchedTypeOK
<1>3. CASE LoopWake \/ LoopEnd \/ TickDone
  BY <1>3 DEF LoopWake, LoopEnd, TickDone, SchedTypeOK
<1>4. CASE JobStart
  BY <1>4 DEF JobStart, SchedTypeOK
<1>5. CASE JobEnd
  BY <1>5 DEF JobEnd, SchedTypeOK
<1>6. CASE Elapse
  BY <1>6 DEF Elapse, SchedTypeOK
<1> QED BY <1>1, <1>2, <1>3, <1>4, <1>5, <1>6 DEF LoopStep

(* Actions of the process that leave the scheduler and the alert alone.    *)
LEMMA ProcTyped ==
    ASSUME TypeInv, UNCHANGED <<sched, alert>>
    PROVE  /\ SchedTypeOK' /\ AttemptsLeft' /\ phase' \in {"idle", "scan", "send", "unfit"}
           /\ tried' \in [Endpoints -> 0..MaxAttempts]
           /\ result' \in [Endpoints -> {"todo", "sent", "failed", "cancelled", "refused"}]
<1>1. SchedTypeOK'
  BY DEF sched, TypeInv, TypeOK, SchedTypeOK
<1> QED BY <1>1 DEF alert, TypeInv, TypeOK, AttemptsLeft

LEMMA MainTyped ==
    ASSUME TypeInv, Signal \/ MainStep \/ ListenFails
    PROVE  TypeInv'
<1> USE DEF TypeInv, TypeOK
<1>1. CASE GatewayStart
  <2>1. SchedTypeOK'
    BY <1>1 DEF GatewayStart, CronStart, SchedTypeOK
  <2> QED BY <1>1, <2>1 DEF GatewayStart, alert, AttemptsLeft
<1>2. CASE Signal
  BY <1>2, ProcTyped DEF Signal
<1>3. CASE Listen
  BY <1>3, ProcTyped DEF Listen
<1>4. CASE ListenFails
  BY <1>4, ProcTyped DEF ListenFails
<1>5. CASE ServeEnds
  BY <1>5, ProcTyped DEF ServeEnds
<1>6. CASE CommandEnds
  BY <1>6, ProcTyped DEF CommandEnds
<1> QED BY <1>1, <1>2, <1>3, <1>4, <1>5, <1>6 DEF MainStep

LEMMA RequestTyped ==
    ASSUME TypeInv, NEW r \in Requests, Accept(r) \/ Respond(r)
    PROVE  TypeInv'
<1>1. SchedTypeOK'
  BY DEF Accept, Respond, sched, TypeInv, TypeOK, SchedTypeOK
<1> QED BY <1>1 DEF Accept, Respond, alert, TypeInv, TypeOK, AttemptsLeft

LEMMA ShutTyped ==
    ASSUME TypeInv, ShutStep
    PROVE  TypeInv'
<1> USE DEF TypeInv, TypeOK, ShutTo
<1>1. CASE SchedulerClose
  <2>1. SchedTypeOK'
    BY <1>1 DEF SchedulerClose, CronClose, SchedTypeOK
  <2> QED BY <1>1, <2>1 DEF SchedulerClose, alert, AttemptsLeft
<1>2. CASE ShutdownBegin
  BY <1>2, ProcTyped DEF ShutdownBegin, CloseListener
<1>3. CASE Drained
  BY <1>3, ProcTyped DEF Drained
<1>4. CASE WatcherClose
  BY <1>4, ProcTyped DEF WatcherClose
<1>5. CASE WatcherStopped
  BY <1>5, ProcTyped DEF WatcherStopped
<1>6. CASE SchedulerStopped
  BY <1>6, ProcTyped DEF SchedulerStopped
<1>7. CASE CloseDatabase
  BY <1>7, ProcTyped DEF CloseDatabase
<1> QED BY <1>1, <1>2, <1>3, <1>4, <1>5, <1>6, <1>7 DEF ShutStep

LEMMA NotifierTyped ==
    ASSUME TypeInv, NotifierStep
    PROVE  TypeInv'
<1> USE DEF TypeInv, TypeOK, AttemptsLeft
<1>1. CASE NotifierStart
  <2>1. SchedTypeOK'
    BY <1>1, SchedTyped DEF NotifierStart
  <2> QED BY <1>1, <2>1 DEF NotifierStart, proc
<1>2. CASE NothingToSend \/ NotifierEnd
  <2>1. SchedTypeOK'
    BY <1>2, SchedTyped DEF NothingToSend, NotifierEnd
  <2> QED BY <1>2, <2>1 DEF NothingToSend, NotifierEnd, proc
<1>3. CASE Notify
  BY <1>3 DEF Notify, sched, proc, SchedTypeOK
<1>4. ASSUME NEW e \in Endpoints, Attempt(e)
      PROVE  TypeInv'
  <2>1. tried[e] \in 0..MaxAttempts /\ tried[e] < MaxAttempts
    BY <1>4 DEF Attempt, Turn
  <2>2. tried' \in [Endpoints -> 0..MaxAttempts]
    BY <1>4, <2>1 DEF Attempt
  <2>3. result' \in [Endpoints -> {"todo", "sent", "failed", "cancelled", "refused"}]
    BY <1>4 DEF Attempt
  <2>4. AttemptsLeft'
    BY <1>4, <2>1 DEF Attempt, LastAttempt
  <2>5. UNCHANGED <<sched, proc>> /\ phase' = phase
    BY <1>4 DEF Attempt
  <2> QED BY <2>2, <2>3, <2>4, <2>5 DEF sched, proc, SchedTypeOK
<1>5. ASSUME NEW e \in Endpoints, BackOffCancelled(e)
      PROVE  TypeInv'
  BY <1>5 DEF BackOffCancelled, sched, proc, SchedTypeOK
<1>6. ASSUME NEW e \in Endpoints, Refused(e)
      PROVE  TypeInv'
  BY <1>6 DEF Refused, Sending, NoRequest, sched, proc, SchedTypeOK
<1> QED BY <1>1, <1>2, <1>3, <1>4, <1>5, <1>6 DEF NotifierStep

LEMMA StepTyped == TypeInv /\ [Next]_vars => TypeInv'
<1> SUFFICES ASSUME TypeInv, [Next]_vars PROVE TypeInv'
  OBVIOUS
<1>1. CASE WatchReload \/ WatchReloaded \/ WatchEnd
  <2> USE DEF TypeInv, TypeOK, WatchTo
  <2>1. CASE WatchReload
    BY <2>1, ProcTyped DEF WatchReload
  <2>2. CASE WatchReloaded
    BY <2>2, ProcTyped DEF WatchReloaded
  <2>3. CASE WatchEnd
    BY <2>3, ProcTyped DEF WatchEnd
  <2> QED BY <1>1, <2>1, <2>2, <2>3
<1>2. CASE SchedulerStep
  <2>1. SchedTypeOK'
    BY <1>2, SchedTyped DEF SchedulerStep, TypeInv, TypeOK
  <2> QED BY <1>2, <2>1 DEF SchedulerStep, proc, alert, TypeInv, TypeOK, AttemptsLeft
<1>3. CASE Clock
  <2>1. SchedTypeOK'
    BY <1>3, SchedTyped DEF Clock, TypeInv, TypeOK
  <2> QED BY <1>3, <2>1 DEF Clock, proc, alert, TypeInv, TypeOK, AttemptsLeft
<1>4. CASE UNCHANGED vars
  BY <1>4 DEF vars, sched, proc, alert, TypeInv, TypeOK, SchedTypeOK, AttemptsLeft
<1> QED BY <1>1, <1>2, <1>3, <1>4, MainTyped, RequestTyped, ShutTyped, NotifierTyped
        DEF Next, Gone

LEMMA InitTyped == Init => TypeInv
<1> SUFFICES ASSUME Init PROVE TypeInv
  OBVIOUS
<1>1. SchedTypeOK
  <2>1. NotScheduled \in Nat /\ 0 \in 0..MaxTime
    OBVIOUS
  <2>2. enabled \in [Jobs -> BOOLEAN]
    BY DEF Init, SchedInit
  <2>3. nextRun \in [Jobs -> Nat] /\ picked \in [Jobs -> Nat]
    BY <2>1 DEF Init, SchedInit
  <2> QED BY <2>1, <2>2, <2>3 DEF Init, SchedInit, SchedTypeOK
<1>2. AttemptsLeft /\ tried \in [Endpoints -> 0..MaxAttempts]
  BY DEF Init, AttemptsLeft
<1> QED BY <1>1, <1>2 DEF Init, TypeInv, TypeOK

(* Every variable of the process keeps its type.                           *)
THEOREM TypeCorrect == Spec => []TypeOK
<1>1. TypeInv => TypeOK
  BY DEF TypeInv
<1> QED BY <1>1, InitTyped, StepTyped, PTL DEF Spec
-----------------------------------------------------------------------------
(* The runs of a job                                                       *)

(* The next run of a job is at least its interval after its last one.      *)
Spaced ==
    \A j \in Jobs : picked[j] # NotScheduled =>
        /\ picked[j] <= now
        /\ enabled[j] => nextRun[j] >= picked[j] + Interval[j]

LEMMA SpacedStep ==
    ASSUME SchedTypeOK, Spaced, LoopStep \/ JobStart \/ JobEnd \/ Elapse
    PROVE  Spaced'
<1> USE DEF Spaced, SchedTypeOK
<1>1. CASE LoopInit
  BY <1>1 DEF LoopInit, Advance
<1>2. CASE Pick
  <2> DEFINE chosen == {j \in Jobs : enabled[j] /\ nextRun[j] <= now}
  <2>1. /\ Advance(chosen) /\ now' = now
        /\ picked' = [j \in Jobs |-> IF j \in chosen THEN now ELSE picked[j]]
    BY <1>2 DEF Pick
  <2> QED BY <2>1 DEF Advance
<1>3. CASE LoopWake \/ LoopEnd \/ TickDone \/ JobStart \/ JobEnd
  BY <1>3 DEF LoopWake, LoopEnd, TickDone, JobStart, JobEnd
<1>4. CASE Elapse
  BY <1>4 DEF Elapse
<1> QED BY <1>1, <1>2, <1>3, <1>4 DEF LoopStep

(* What the actions of the process leave of the scheduler's variables.     *)
LEMMA SchedulerFrame ==
    ASSUME Next
    PROVE  \/ LoopStep \/ JobStart \/ JobEnd \/ Elapse
           \/ UNCHANGED <<now, enabled, nextRun, due, busy, picked>>
<1>1. CASE Signal \/ MainStep \/ ListenFails
  BY <1>1 DEF Signal, MainStep, GatewayStart, Listen, ServeEnds, CommandEnds, ListenFails, sched
<1>2. ASSUME NEW r \in Requests, Accept(r) \/ Respond(r)
      PROVE  UNCHANGED <<now, enabled, nextRun, due, busy, picked>>
  BY <1>2 DEF Accept, Respond, sched
<1>3. CASE ShutStep
  BY <1>3 DEF ShutStep, ShutdownBegin, Drained, WatcherClose, WatcherStopped,
              SchedulerClose, SchedulerStopped, CloseDatabase, sched
<1>4. CASE WatchReload \/ WatchReloaded \/ WatchEnd
  BY <1>4 DEF WatchReload, WatchReloaded, WatchEnd, WatchTo, sched
<1>5. CASE SchedulerStep \/ Clock
  BY <1>5 DEF SchedulerStep, Clock
<1>6. CASE NotifierStart \/ NothingToSend \/ NotifierEnd
  BY <1>6 DEF NotifierStart, NothingToSend, NotifierEnd
<1>7. CASE Notify
  BY <1>7 DEF Notify, sched
<1>8. ASSUME NEW e \in Endpoints, Refused(e) \/ Attempt(e) \/ BackOffCancelled(e)
      PROVE  UNCHANGED <<now, enabled, nextRun, due, busy, picked>>
  BY <1>8 DEF Refused, Attempt, BackOffCancelled, sched
<1>9. CASE Gone
  BY <1>9 DEF Gone, vars, sched
<1> QED BY <1>1, <1>2, <1>3, <1>4, <1>5, <1>6, <1>7, <1>8, <1>9 DEF Next, NotifierStep

LEMMA SpacedNext ==
    ASSUME TypeInv, Spaced, [Next]_vars
    PROVE  /\ Spaced'
           /\ \A j \in Jobs : picked'[j] # picked[j] /\ picked[j] # NotScheduled
                => picked'[j] >= picked[j] + Interval[j]
<1> USE DEF TypeInv, TypeOK
<1>1. CASE LoopStep \/ JobStart \/ JobEnd \/ Elapse
  <2>1. Spaced'
    BY <1>1, SpacedStep
  <2>2. CASE Pick
    BY <2>1, <2>2 DEF Pick, Spaced, SchedTypeOK
  <2>3. CASE picked' = picked
    BY <2>1, <2>3
  <2> QED BY <1>1, <2>2, <2>3 DEF LoopStep, LoopInit, LoopWake, LoopEnd, TickDone, JobStart,
                JobEnd, Elapse
<1>2. CASE UNCHANGED <<now, enabled, nextRun, due, busy, picked>>
  BY <1>2 DEF Spaced
<1>3. CASE UNCHANGED vars
  BY <1>3, <1>2 DEF vars, sched
<1> QED BY <1>1, <1>2, <1>3, SchedulerFrame

(* Two picks of a job are at least its interval apart, whatever the jobs   *)
(* take and however late the goroutine wakes (Job.advanceNextRun).         *)
THEOREM RunsAreSpacedCorrect == Spec => RunsAreSpaced
<1>1. Init => Spaced
  BY DEF Init, SchedInit, Spaced
<1>2. TypeInv /\ Spaced /\ [Next]_vars
        => [\A j \in Jobs : picked'[j] # picked[j] /\ picked[j] # NotScheduled
              => picked'[j] >= picked[j] + Interval[j]]_sched
  BY SpacedNext
<1>3. TypeInv /\ Spaced /\ [Next]_vars => Spaced'
  BY SpacedNext
<1> QED BY <1>1, <1>2, <1>3, InitTyped, StepTyped, PTL DEF Spec, RunsAreSpaced

-----------------------------------------------------------------------------
(* The alert                                                               *)

(* Send returns only when each endpoint for which there is a request has   *)
(* the alert, was tried as often as the code allows, or the job's time was *)
(* over; one without a request delays nobody (outbound.Manager.Send).      *)
THEOREM EveryEndpointTriedCorrect == Spec => EveryEndpointTried
<1>1. TypeInv /\ [Next]_vars
        => [Sending /\ phase' = "idle" =>
              \A e \in Endpoints : \/ NoRequest(e)
                                   \/ result[e] \in {"sent", "cancelled"}
                                   \/ tried[e] = MaxAttempts]_vars
  <2> SUFFICES ASSUME TypeInv, Next, Sending, phase' = "idle", NEW e \in Endpoints,
                      ~NoRequest(e)
               PROVE  result[e] \in {"sent", "cancelled"} \/ tried[e] = MaxAttempts
    BY DEF vars
  <2>1. NotifierEnd
    <3>1. phase' # phase
      BY DEF Sending
    <3>2. NotifierStep
      BY <3>1 DEF Next, alert, vars, Gone, Signal, MainStep, GatewayStart, Listen, ServeEnds,
         CommandEnds, ListenFails, Accept, Respond, ShutStep, ShutdownBegin, Drained,
         WatcherClose, WatcherStopped, SchedulerClose, SchedulerStopped, CloseDatabase,
         WatchReload, WatchReloaded, WatchEnd, WatchTo, SchedulerStep, Clock
    <3> QED BY <3>1, <3>2 DEF NotifierStep, NotifierStart, NothingToSend, Notify, Refused,
               Attempt, BackOffCancelled, Sending
  <2>2. result[e] # "todo"
    BY <2>1 DEF NotifierEnd, AllDone
  <2>3. result[e] # "refused"
    BY DEF TypeInv, AttemptsLeft, NoRequest, Sending
  <2> QED BY <2>2, <2>3 DEF TypeInv, TypeOK, AttemptsLeft
<1> QED BY <1>1, InitTyped, StepTyped, PTL DEF Spec, EveryEndpointTried
-----------------------------------------------------------------------------
(* The order of the shutdown                                               *)

WatcherGone == watch = IF HotReload THEN "ended" ELSE "off"

(* Before Gateway.Start nothing runs, and then the scheduler does until it *)
(* is told to stop.                                                        *)
Started ==
    /\ main = "boot" => watch = "off" /\ loop = "off" /\ ~running /\ ~stopClosed
    /\ main # "boot" => (running \/ stopClosed) /\ (HotReload => watch # "off")
    /\ ~HotReload => watch = "off"

(* Jobs run while the goroutine is in a tick.                              *)
TickOnly == loop # "run" => busy = NoJob /\ due = {}

(* Requests are served once the server has listened.                       *)
Listening ==
    /\ main \in {"boot", "listen"} => open = {}
    /\ command = "server" => main # "return" /\ (shut # "waiting" => closing)

(* Where Shutdown has come to, what it has stopped is stopped.             *)
InOrder ==
    /\ stopClosed => shut \in {"cron_wait", "close", "done"}
    /\ shut = "cron_wait" => stopClosed
    /\ shut \in {"cron", "cron_wait"} /\ main # "boot" => WatcherGone
    /\ shut \in {"close", "done"} /\ stopClosed => loop = "ended" /\ WatcherGone
    /\ command = "server" /\ shut \in {"close", "done"} /\ ~stopClosed => main # "serving"

OrderInv == Started /\ TickOnly /\ Listening /\ InOrder

LEMMA OrderMain ==
    ASSUME TypeInv, OrderInv, Signal \/ MainStep \/ ListenFails
    PROVE  OrderInv'
<1> USE DEF TypeInv, TypeOK, OrderInv, Started, TickOnly, Listening, InOrder, WatcherGone
<1>1. CASE GatewayStart
  BY <1>1 DEF GatewayStart, GatewayFree, CronStart
<1>2. CASE Signal
  BY <1>2 DEF Signal, sched
<1>3. CASE Listen
  BY <1>3 DEF Listen, sched
<1>4. CASE ListenFails
  BY <1>4 DEF ListenFails, sched
<1>5. CASE ServeEnds
  BY <1>5 DEF ServeEnds, sched
<1>6. CASE CommandEnds
  BY <1>6 DEF CommandEnds, sched
<1> QED BY <1>1, <1>2, <1>3, <1>4, <1>5, <1>6 DEF MainStep

LEMMA OrderRequest ==
    ASSUME OrderInv, NEW r \in Requests, Accept(r) \/ Respond(r)
    PROVE  OrderInv'
<1> USE DEF OrderInv, Started, TickOnly, Listening, InOrder, WatcherGone
<1>1. CASE Accept(r)
  BY <1>1 DEF Accept, sched
<1>2. CASE Respond(r)
  BY <1>2 DEF Respond, sched
<1> QED BY <1>1, <1>2

LEMMA OrderShut ==
    ASSUME TypeInv, OrderInv, ShutStep
    PROVE  OrderInv'
<1> USE DEF TypeInv, TypeOK, OrderInv, Started, TickOnly, Listening, InOrder, WatcherGone,
            ShutTo
<1>1. CASE ShutdownBegin
  BY <1>1 DEF ShutdownBegin, CloseListener, sched
<1>2. CASE Drained
  BY <1>2 DEF Drained, sched
<1>3. CASE WatcherClose
  BY <1>3 DEF WatcherClose, sched
<1>4. CASE WatcherStopped
  BY <1>4 DEF WatcherStopped, sched
<1>5. CASE SchedulerClose
  BY <1>5 DEF SchedulerClose, CronClose
<1>6. CASE SchedulerStopped
  BY <1>6 DEF SchedulerStopped, CronStopped, sched
<1>7. CASE CloseDatabase
  BY <1>7 DEF CloseDatabase, sched
<1> QED BY <1>1, <1>2, <1>3, <1>4, <1>5, <1>6, <1>7 DEF ShutStep

LEMMA OrderWatch ==
    ASSUME OrderInv, WatchReload \/ WatchReloaded \/ WatchEnd
    PROVE  OrderInv'
BY DEF WatchReload, WatchReloaded, WatchEnd, WatchTo, sched,
       OrderInv, Started, TickOnly, Listening, InOrder, WatcherGone

(* Steps of the scheduler, with or without the notifier's.                 *)
LEMMA OrderScheduler ==
    ASSUME TypeInv, OrderInv, UNCHANGED proc, LoopStep \/ JobStart \/ JobEnd \/ Elapse
    PROVE  OrderInv'
<1>1. /\ running' = running /\ stopClosed' = stopClosed
      /\ loop = "off" => loop' = "off"
      /\ loop = "ended" => loop' = "ended"
  BY DEF LoopStep, LoopInit, LoopWake, LoopEnd, Pick, TickDone, JobStart, JobEnd, Elapse,
         OrderInv, TickOnly
<1>2. TickOnly'
  BY DEF LoopStep, LoopInit, LoopWake, LoopEnd, Pick, TickDone, JobStart, JobEnd, Elapse,
         OrderInv, TickOnly
<1> QED BY <1>1, <1>2 DEF proc, OrderInv, Started, Listening, InOrder, WatcherGone

LEMMA OrderNext == TypeInv /\ OrderInv /\ [Next]_vars => OrderInv'
<1> SUFFICES ASSUME TypeInv, OrderInv, [Next]_vars PROVE OrderInv'
  OBVIOUS
<1>1. CASE SchedulerStep \/ Clock
  BY <1>1, OrderScheduler DEF SchedulerStep, Clock
<1>2. CASE NotifierStart \/ NothingToSend \/ NotifierEnd
  BY <1>2, OrderScheduler DEF NotifierStart, NothingToSend, NotifierEnd
<1>3. ASSUME UNCHANGED <<sched, proc>> PROVE OrderInv'
  BY <1>3 DEF sched, proc, OrderInv, Started, TickOnly, Listening, InOrder, WatcherGone
<1>4. CASE Notify
  BY <1>3, <1>4 DEF Notify
<1>5. ASSUME NEW e \in Endpoints, Refused(e) \/ Attempt(e) \/ BackOffCancelled(e)
      PROVE  OrderInv'
  BY <1>3, <1>5 DEF Refused, Attempt, BackOffCancelled
<1>6. CASE UNCHANGED vars
  BY <1>3, <1>6 DEF vars
<1> QED BY <1>1, <1>2, <1>4, <1>5, <1>6, OrderMain, OrderRequest, OrderShut, OrderWatch
        DEF Next, NotifierStep, Gone

(* When Shutdown closes the database nothing that uses it is left: the     *)
(* scheduler and the watcher have ended and no request was accepted since, *)
(* or the server never served one (app.Server.Shutdown).                   *)
THEOREM DatabaseClosedLastCorrect == Spec => DatabaseClosedLast
<1>1. Init => OrderInv
  BY DEF Init, SchedInit, OrderInv, Started, TickOnly, Listening, InOrder, WatcherGone
<1>2. TypeInv /\ OrderInv /\ [Next]_vars
        => [command = "server" /\ db' # db
              => /\ closing
                 /\ \/ /\ loop = "ended" /\ busy = NoJob /\ due = {}
                       /\ watch = IF HotReload THEN "ended" ELSE "off"
                    \/ main \in {"boot", "listen"} /\ ~stopClosed /\ open = {}]_vars
  <2> SUFFICES ASSUME TypeInv, OrderInv, Next, command = "server", db' # db
               PROVE  /\ closing
                      /\ \/ /\ loop = "ended" /\ busy = NoJob /\ due = {} /\ WatcherGone
                         \/ main \in {"boot", "listen"} /\ ~stopClosed /\ open = {}
    BY DEF vars, WatcherGone
  <2>1. CloseDatabase \/ CommandEnds
    BY DEF Next, proc, vars, Gone, Signal, MainStep, GatewayStart, Listen, ServeEnds,
       ListenFails, Accept, Respond, ShutStep, ShutdownBegin, Drained,
       WatcherClose, WatcherStopped, SchedulerClose, SchedulerStopped,
       WatchReload, WatchReloaded, WatchEnd, WatchTo, SchedulerStep, Clock, NotifierStep,
       NotifierStart, NothingToSend, NotifierEnd, Notify, Refused, Attempt, BackOffCancelled
  <2>2. main # "return"
    BY DEF OrderInv, Listening
  <2>3. shut = "close" /\ main \notin {"exited", "failed"}
    BY <2>1, <2>2 DEF CloseDatabase, CommandEnds, Alive
  <2>4. CASE stopClosed
    BY <2>3, <2>4 DEF OrderInv, Listening, InOrder, TickOnly
  <2>5. CASE ~stopClosed
    BY <2>2, <2>3, <2>5 DEF OrderInv, Listening, InOrder, TypeInv, TypeOK
  <2> QED BY <2>4, <2>5 DEF TypeInv, TypeOK
<1> QED BY <1>1, <1>2, OrderNext, InitTyped, StepTyped, PTL DEF Spec, DatabaseClosedLast
=============================================================================
