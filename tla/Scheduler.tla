------------------------------- MODULE Scheduler -------------------------------
(***************************************************************************)
(* The cron service (pkg/cron): one goroutine that sleeps until the next   *)
(* job is due, picks the jobs that are due and runs them one after the     *)
(* other.  How a job runs is left to the module that extends this one.     *)
(*                                                                         *)
(* Abstractions.  Time is a counter that advances on its own, up to        *)
(* MaxTime; a step of the goroutine takes any time.  A scheduler without   *)
(* scheduled jobs sleeps for good: its hourly tick finds nothing to do.    *)
(* Nothing in the program calls Job.Enable or Service.notify.              *)
(***************************************************************************)
EXTENDS Naturals, FiniteSets, FiniteSetsExt

CONSTANTS
    Jobs,        \* the registered jobs, numbered in the order of registration
    Interval,    \* ScheduleDef.Interval of each
    MaxTime,     \* bound: the last instant
    NotScheduled \* the zero time.Time: no next run

ASSUME SchedulerAssumption ==
    /\ IsFiniteSet(Jobs) /\ Jobs \subseteq Nat \ {0}
    /\ Interval \in [Jobs -> Nat]
    /\ MaxTime \in Nat /\ NotScheduled \in Nat
    /\ \A j \in Jobs : NotScheduled > MaxTime + Interval[j]

NoJob == 0

VARIABLES
    now,         \* the clock
    running,     \* Service.running
    stopClosed,  \* Service.stopChan is closed
    loop,        \* what runLoop is doing
    enabled,     \* Job.enabled
    nextRun,     \* Job.nextRun
    due,         \* the jobs tick has yet to execute
    busy,        \* the job executeJob is running
    picked       \* history: when tick last picked each job

sched == <<now, running, stopClosed, loop, enabled, nextRun, due, busy, picked>>

-----------------------------------------------------------------------------
(* Service.Start and Stop *)

CronStart ==
    IF running
    THEN UNCHANGED <<running, stopClosed, loop>>
    ELSE running' = TRUE /\ stopClosed' = FALSE /\ loop' = "init"

CronClose == running' = FALSE /\ stopClosed' = TRUE

\* Mutant: Stop does not wait for the goroutine.
CronStoppedAtOnce == TRUE

\* wg.Wait returns.
CronStopped == loop = "ended"

-----------------------------------------------------------------------------
(* runLoop *)

\* Mutant: the next run is counted from the time the job was due.
AdvanceFromDue(chosen) ==
    /\ enabled' = [j \in Jobs |-> enabled[j] /\ (j \in chosen => Interval[j] > 0)]
    /\ nextRun' = [j \in Jobs |->
          IF j \notin chosen THEN nextRun[j]
          ELSE IF Interval[j] = 0 THEN NotScheduled
          ELSE IF nextRun[j] = NotScheduled THEN now + Interval[j] ELSE nextRun[j] + Interval[j]]

\* Job.advanceNextRun: a job without interval is disabled.
Advance(chosen) ==
    /\ enabled' = [j \in Jobs |-> enabled[j] /\ (j \in chosen => Interval[j] > 0)]
    /\ nextRun' = [j \in Jobs |->
          IF j \notin chosen THEN nextRun[j]
          ELSE IF Interval[j] = 0 THEN NotScheduled ELSE now + Interval[j]]

LoopInit ==
    /\ loop = "init"
    /\ Advance({j \in Jobs : enabled[j]})
    /\ loop' = "wait"
    /\ UNCHANGED <<now, running, stopClosed, due, busy, picked>>

\* Mutant: the latest of the next runs.
LatestWake == Max({nextRun[j] : j \in {k \in Jobs : enabled[k]}} \cup {0})

\* nextWakeTime
NextWake == Min({nextRun[j] : j \in {k \in Jobs : enabled[k]}} \cup {NotScheduled})

LoopWake ==
    /\ loop = "wait" /\ NextWake <= now
    /\ loop' = "pick"
    /\ UNCHANGED <<now, running, stopClosed, enabled, nextRun, due, busy, picked>>

LoopEnd ==
    /\ loop = "wait" /\ stopClosed
    /\ loop' = "ended"
    /\ UNCHANGED <<now, running, stopClosed, enabled, nextRun, due, busy, picked>>

Pick ==
    LET chosen == {j \in Jobs : enabled[j] /\ nextRun[j] <= now}
    IN  /\ loop = "pick"
        /\ Advance(chosen)
        /\ due' = chosen
        /\ picked' = [j \in Jobs |-> IF j \in chosen THEN now ELSE picked[j]]
        /\ loop' = "run"
        /\ UNCHANGED <<now, running, stopClosed, busy>>

JobStart ==
    /\ loop = "run" /\ busy = NoJob
    /\ \E j \in due : /\ \A k \in due : j <= k
                      /\ busy' = j /\ due' = due \ {j}
    /\ UNCHANGED <<now, running, stopClosed, loop, enabled, nextRun, picked>>

\* The task returned, with or without an error, or panicked.
JobEnd ==
    /\ busy # NoJob /\ busy' = NoJob
    /\ UNCHANGED <<now, running, stopClosed, loop, enabled, nextRun, due, picked>>

TickDone ==
    /\ loop = "run" /\ busy = NoJob /\ due = {}
    /\ loop' = "wait"
    /\ UNCHANGED <<now, running, stopClosed, enabled, nextRun, due, busy, picked>>

LoopStep == LoopInit \/ LoopWake \/ LoopEnd \/ Pick \/ TickDone

Elapse ==
    /\ now < MaxTime /\ now' = now + 1
    /\ UNCHANGED <<running, stopClosed, loop, enabled, nextRun, due, busy, picked>>

SchedInit ==
    /\ now = 0 /\ running = FALSE /\ stopClosed = FALSE /\ loop = "off"
    /\ enabled = [j \in Jobs |-> TRUE]
    /\ nextRun = [j \in Jobs |-> NotScheduled]
    /\ due = {} /\ busy = NoJob
    /\ picked = [j \in Jobs |-> NotScheduled]

-----------------------------------------------------------------------------
SchedTypeOK ==
    /\ now \in 0..MaxTime /\ running \in BOOLEAN /\ stopClosed \in BOOLEAN
    /\ loop \in {"off", "init", "wait", "pick", "run", "ended"}
    /\ enabled \in [Jobs -> BOOLEAN]
    /\ nextRun \in [Jobs -> Nat] /\ picked \in [Jobs -> Nat]
    /\ due \subseteq Jobs /\ busy \in Jobs \cup {NoJob}

(* However long a job runs and however late the goroutine wakes, two picks *)
(* of a job are at least its interval apart: the runs that were missed are *)
(* not made up for in a burst (Job.advanceNextRun from the present).       *)
RunsAreSpaced ==
    [][\A j \in Jobs : picked'[j] # picked[j] /\ picked[j] # NotScheduled
          => picked'[j] >= picked[j] + Interval[j]]_sched
=============================================================================
