------------------------------- MODULE Lifecycle -------------------------------
(***************************************************************************)
(* The server process from its start to its exit: main, the goroutine that *)
(* waits for a signal and shuts down, the HTTP requests, the scheduler     *)
(* with the expiry notifier it runs, the configuration watcher and the     *)
(* database handle they share (cmd/server, internal/cli, internal/app,     *)
(* pkg/server, internal/gateway, internal/integration/cron,                *)
(* internal/outbound).                                                     *)
(*                                                                         *)
(* Abstractions.  A request is open or not; what it does to the tables is  *)
(* in Inventory and Catalog, what a reload does in ConfigStore.  Timeouts  *)
(* may pass at any moment.                                                 *)
(***************************************************************************)
EXTENDS Scheduler

CONSTANTS
    Commands,     \* subcommands that may be run: "server", "gateway"
    Requests,     \* HTTP connections
    Endpoints,    \* enabled outbound endpoints
    Malformed,    \* those whose URL does not parse
    MaxAttempts,  \* attempts of HTTPEndpoint.Send
    HotReload     \* server.hot_reload

ASSUME LifecycleAssumption ==
    /\ Commands \subseteq {"server", "gateway"}
    /\ IsFiniteSet(Requests) /\ IsFiniteSet(Endpoints) /\ Malformed \subseteq Endpoints
    /\ MaxAttempts \in Nat \ {0} /\ HotReload \in BOOLEAN

VARIABLES
    command,   \* the subcommand
    main,      \* what main is about to do
    signalled, \* SIGINT or SIGTERM has arrived
    closing,   \* http.Server is in Shutdown
    shut,      \* what the goroutine that shuts down is about to do
    open,      \* requests being served
    watch,     \* the watcher's goroutine
    stopWatch, \* Watcher.stopChan is closed
    db,        \* the database handle
    phase,     \* what the notifier is about to do
    tried,     \* attempts made for each endpoint
    result     \* what became of each

proc == <<command, main, signalled, closing, shut, open, watch, stopWatch, db>>
alert == <<phase, tried, result>>
vars == <<sched, proc, alert>>

Alive == main \notin {"exited", "failed"}

-----------------------------------------------------------------------------
(* main *)

Signal ==
    /\ Alive /\ ~signalled /\ signalled' = TRUE
    /\ UNCHANGED <<sched, alert, command, main, closing, shut, open, watch, stopWatch, db>>

\* Gateway.Stop holds the gateway's mutex from its first step to its last.
GatewayFree == shut \notin {"watch_wait", "cron", "cron_wait"}

GatewayStart ==
    /\ main = "boot" /\ GatewayFree
    /\ CronStart
    /\ watch' = IF HotReload THEN "poll" ELSE "off"
    /\ main' = IF command = "server" THEN "listen" ELSE "return"
    /\ UNCHANGED <<now, enabled, nextRun, due, busy, picked, alert, command, signalled,
                   closing, shut, open, stopWatch, db>>

\* ListenAndServe after Shutdown returns at once.
Listen ==
    /\ main = "listen"
    /\ main' = IF closing THEN "exited" ELSE "serving"
    /\ UNCHANGED <<sched, alert, command, signalled, closing, shut, open, watch, stopWatch, db>>

ListenFails ==
    /\ main = "listen" /\ ~closing /\ main' = "failed"
    /\ UNCHANGED <<sched, alert, command, signalled, closing, shut, open, watch, stopWatch, db>>

\* ListenAndServe returns as soon as Shutdown closes the listener.
ServeEnds ==
    /\ main = "serving" /\ closing /\ main' = "exited"
    /\ UNCHANGED <<sched, alert, command, signalled, closing, shut, open, watch, stopWatch, db>>

\* The gateway command: nothing blocks, and the deferred Close runs.
CommandEnds ==
    /\ main = "return" /\ main' = "exited" /\ db' = "closed"
    /\ UNCHANGED <<sched, alert, command, signalled, closing, shut, open, watch, stopWatch>>

-----------------------------------------------------------------------------
(* HTTP requests *)

Accept(r) ==
    /\ main = "serving" /\ ~closing /\ r \notin open
    /\ open' = open \cup {r}
    /\ UNCHANGED <<sched, alert, command, main, signalled, closing, shut, watch, stopWatch, db>>

Respond(r) ==
    /\ Alive /\ r \in open
    /\ open' = open \ {r}
    /\ UNCHANGED <<sched, alert, command, main, signalled, closing, shut, watch, stopWatch, db>>

-----------------------------------------------------------------------------
(* The goroutine that shuts down: app.Server.Shutdown, or Gateway.Stop     *)

ShutTo(point) == shut' = point

\* Mutant: only a server that already listens is closed.
CloseIfServing == closing' = (closing \/ main = "serving")

CloseListener == closing' = TRUE

ShutdownBegin ==
    /\ Alive /\ shut = "waiting" /\ signalled
    /\ IF command = "server" THEN CloseListener /\ ShutTo("drain")
                             ELSE UNCHANGED closing /\ ShutTo("watch")
    /\ UNCHANGED <<sched, alert, command, main, signalled, open, watch, stopWatch, db>>

\* No request is open, or five seconds have passed.
Drained ==
    /\ Alive /\ shut = "drain" /\ ShutTo("watch")
    /\ UNCHANGED <<sched, alert, command, main, signalled, closing, open, watch, stopWatch, db>>

WatcherClose ==
    /\ Alive /\ shut = "watch"
    /\ IF watch = "off" THEN UNCHANGED stopWatch /\ ShutTo("cron")
                        ELSE stopWatch' = TRUE /\ ShutTo("watch_wait")
    /\ UNCHANGED <<sched, alert, command, main, signalled, closing, open, watch, db>>

WatcherStopped ==
    /\ Alive /\ shut = "watch_wait" /\ watch = "ended" /\ ShutTo("cron")
    /\ UNCHANGED <<sched, alert, command, main, signalled, closing, open, watch, stopWatch, db>>

SchedulerClose ==
    /\ Alive /\ shut = "cron"
    /\ IF running THEN CronClose /\ ShutTo("cron_wait")
                  ELSE UNCHANGED <<running, stopClosed>> /\ ShutTo("close")
    /\ UNCHANGED <<now, loop, enabled, nextRun, due, busy, picked, alert,
                   command, main, signalled, closing, open, watch, stopWatch, db>>

SchedulerStopped ==
    /\ Alive /\ shut = "cron_wait" /\ CronStopped /\ ShutTo("close")
    /\ UNCHANGED <<sched, alert, command, main, signalled, closing, open, watch, stopWatch, db>>

CloseDatabase ==
    /\ Alive /\ shut = "close" /\ ShutTo("done")
    /\ db' = IF command = "server" THEN "closed" ELSE db
    /\ UNCHANGED <<sched, alert, command, main, signalled, closing, open, watch, stopWatch>>

ShutStep ==
    \/ ShutdownBegin \/ Drained \/ WatcherClose \/ WatcherStopped
    \/ SchedulerClose \/ SchedulerStopped \/ CloseDatabase

-----------------------------------------------------------------------------
(* The watcher's goroutine *)

WatchTo(point) ==
    /\ watch' = point
    /\ UNCHANGED <<sched, alert, command, main, signalled, closing, shut, open, stopWatch, db>>

WatchReload == Alive /\ watch = "poll" /\ WatchTo("reload")
WatchReloaded == Alive /\ watch = "reload" /\ WatchTo("poll")
WatchEnd == Alive /\ watch = "poll" /\ stopWatch /\ WatchTo("ended")

-----------------------------------------------------------------------------
(* The notifier, run by the scheduler as its job *)

SchedulerStep == Alive /\ LoopStep /\ UNCHANGED <<proc, alert>>

NotifierStart ==
    /\ Alive /\ JobStart
    /\ phase' = "scan"
    /\ tried' = [e \in Endpoints |-> 0] /\ result' = [e \in Endpoints |-> "todo"]
    /\ UNCHANGED proc

\* The scan failed or found nothing, or notification is off at this hour.
NothingToSend ==
    /\ Alive /\ phase = "scan" /\ phase' = "idle"
    /\ JobEnd
    /\ UNCHANGED <<proc, tried, result>>

\* The event is composed; JSON cannot express one with an infinite quantity.
Notify ==
    /\ Alive /\ phase = "scan" /\ db = "open" /\ phase' \in {"send", "unfit"}
    /\ UNCHANGED <<sched, proc, tried, result>>

\* Manager.Send is at work.
Sending == phase \in {"send", "unfit"}

\* There is no request to send to the endpoint.
NoRequest(e) == phase = "unfit" \/ e \in Malformed

\* Manager.Send turns to another endpoint when it is done with one.
Turn(e) ==
    /\ result[e] = "todo"
    /\ \A f \in Endpoints \ {e} : tried[f] > 0 => result[f] # "todo"

\* Mutant: the attempts are counted from zero.
LastFromZero(e) == tried[e] = MaxAttempts

LastAttempt(e) == tried[e] + 1 = MaxAttempts

\* HTTPEndpoint.Send returns without an attempt.
Refused(e) ==
    /\ Alive /\ Sending /\ Turn(e) /\ NoRequest(e)
    /\ result' = [result EXCEPT ![e] = "refused"]
    /\ UNCHANGED <<sched, proc, phase, tried>>

\* One attempt: answered, or not, and then the endpoint may have it anyway.
Attempt(e) ==
    /\ Alive /\ Sending /\ Turn(e) /\ ~NoRequest(e)
    /\ tried' = [tried EXCEPT ![e] = @ + 1]
    /\ \/ result' = [result EXCEPT ![e] = "sent"]
       \/ result' = [result EXCEPT ![e] = IF LastAttempt(e) THEN "failed" ELSE "todo"]
    /\ UNCHANGED <<sched, proc, phase>>

\* The job's ten minutes are over while the endpoint backs off.
BackOffCancelled(e) ==
    /\ Alive /\ Sending /\ Turn(e) /\ tried[e] > 0
    /\ result' = [result EXCEPT ![e] = "cancelled"]
    /\ UNCHANGED <<sched, proc, phase, tried>>

\* Mutant: the first endpoint that fails ends the dispatch.
SomeFailed == \E e \in Endpoints : result[e] # "todo"

AllDone == \A e \in Endpoints : result[e] # "todo"

NotifierEnd ==
    /\ Alive /\ Sending /\ AllDone /\ phase' = "idle"
    /\ JobEnd
    /\ UNCHANGED <<proc, tried, result>>

NotifierStep ==
    \/ NotifierStart \/ NothingToSend \/ Notify \/ NotifierEnd
    \/ \E e \in Endpoints : Refused(e) \/ Attempt(e) \/ BackOffCancelled(e)

Clock == Alive /\ Elapse /\ UNCHANGED <<proc, alert>>

Gone == ~Alive /\ UNCHANGED vars

-----------------------------------------------------------------------------
Init ==
    /\ SchedInit
    /\ command \in Commands
    /\ main = "boot" /\ signalled = FALSE /\ closing = FALSE /\ shut = "waiting"
    /\ open = {} /\ watch = "off" /\ stopWatch = FALSE /\ db = "open"
    /\ phase = "idle"
    /\ tried = [e \in Endpoints |-> 0] /\ result = [e \in Endpoints |-> "todo"]

MainStep == GatewayStart \/ Listen \/ ServeEnds \/ CommandEnds

Next ==
    \/ Signal \/ MainStep \/ ListenFails
    \/ \E r \in Requests : Accept(r) \/ Respond(r)
    \/ ShutStep
    \/ WatchReload \/ WatchReloaded \/ WatchEnd
    \/ SchedulerStep \/ NotifierStep
    \/ Clock \/ Gone

Spec == Init /\ [][Next]_vars

\* Goroutines go on; nothing makes a signal, a request or a change of the
\* file come, and the watcher's select may favour its ticker for a while but
\* not for ever.
FairSpec ==
    /\ Spec
    /\ WF_vars(MainStep) /\ WF_vars(ShutStep)
    /\ WF_vars(SchedulerStep) /\ WF_vars(NotifierStep)
    /\ WF_vars(WatchReloaded) /\ SF_vars(WatchEnd)

-----------------------------------------------------------------------------
(* Every variable keeps its type: the scheduler's, the flags and channels  *)
(* of the server and the gateway, the locals of Send.                      *)
TypeOK ==
    /\ SchedTypeOK
    /\ command \in Commands
    /\ main \in {"boot", "listen", "serving", "return", "exited", "failed"}
    /\ signalled \in BOOLEAN /\ closing \in BOOLEAN /\ stopWatch \in BOOLEAN
    /\ shut \in {"waiting", "drain", "watch", "watch_wait", "cron", "cron_wait",
                 "close", "done"}
    /\ open \subseteq Requests
    /\ watch \in {"off", "poll", "reload", "ended"} /\ db \in {"open", "closed"}
    /\ phase \in {"idle", "scan", "send", "unfit"}
    /\ tried \in [Endpoints -> 0..MaxAttempts]
    /\ result \in [Endpoints -> {"todo", "sent", "failed", "cancelled", "refused"}]

(* The database is closed after what uses it (app.Server.Shutdown: "HTTP   *)
(* server, gateway, database"): at that moment the scheduler and the       *)
(* watcher have ended, no job runs or waits to, and no further request is  *)
(* accepted, though a job may have been picked or started while Stop       *)
(* waited.  A signal that came before the gateway had started finds        *)
(* nothing to stop, but then no request was accepted at all.               *)
DatabaseClosedLast ==
    [][command = "server" /\ db' # db
         => /\ closing
            /\ \/ /\ loop = "ended" /\ busy = NoJob /\ due = {}
                  /\ watch = IF HotReload THEN "ended" ELSE "off"
               \/ main \in {"boot", "listen"} /\ ~stopClosed /\ open = {}]_vars

(* In the server a job that is due is started, however long the job before *)
(* it takes and whatever becomes of its alert, unless a signal comes or    *)
(* the listener fails.                                                     *)
DueJobsRun ==
    \A j \in Jobs :
        (command = "server" /\ loop # "off" /\ enabled[j] /\ nextRun[j] <= now)
            ~> (busy = j \/ signalled \/ main = "failed")

(* One endpoint that does not answer, or that cannot even be asked, does   *)
(* not deprive the others of the alert: when Send returns, each endpoint   *)
(* for which there is a request has acknowledged it, was tried as often as *)
(* the code allows, or the job's time was over.                            *)
EveryEndpointTried ==
    [][Sending /\ phase' = "idle" =>
          \A e \in Endpoints : \/ NoRequest(e)
                               \/ result[e] \in {"sent", "cancelled"}
                               \/ tried[e] = MaxAttempts]_vars

(* A signal ends the process whenever it comes, before the gateway has     *)
(* started, between its start and the listener's, or while a job hangs in  *)
(* its retries.                                                            *)
SignalEndsProcess == signalled ~> ~Alive

(* "Shutdown gracefully stops all subsystems in reverse dependency order": *)
(* when the process exits after a signal, Shutdown is over.                *)
ExitIsGraceful == command = "server" /\ main = "exited" => shut = "done"

(* "Starts the HomeStock gateway subsystem ... cron scheduler, and         *)
(* hot-reload watcher ... Gracefully shuts down on SIGINT/SIGTERM": the    *)
(* gateway command goes on until a signal ends it.                         *)
HeadlessUntilSignalled == command = "gateway" /\ main = "exited" => signalled
=============================================================================
