------------------------------ MODULE ConfigStore ------------------------------
(***************************************************************************)
(* config.json and its copy in memory (pkg/config): the handlers that save *)
(* it, the watcher and the /reload endpoint that load it again through the *)
(* hot-reload orchestrator, the process that loads it when it starts, and  *)
(* the administrator who edits the file.                                   *)
(*                                                                         *)
(* Abstractions.  A configuration gives each setting of Fields a value.    *)
(* file holds what config.json decodes to; Encoded is what a configuration *)
(* decodes to once it is written.  mtime counts the writes to the file: no *)
(* two writes have the same modification time and size.                    *)
(***************************************************************************)
EXTENDS Naturals

CONSTANTS
    Savers,        \* handlers that save a setting
    Reloaders,     \* handlers of POST /reload
    Fields,        \* settings
    Saved,         \* those the handlers save: API keys, outbound endpoints
    Omitempty,     \* those left out of the JSON when zero
    Values,        \* values a setting has in the file
    Zero,          \* the zero value
    Default,       \* defaultConfig()
    Env,           \* environment: field -> override, or NoEnv
    EnvValues,     \* values the environment gives
    Edits,         \* configurations the administrator writes
    FirstFiles,    \* what config.json may hold before the first start
    HotReload,     \* server.hot_reload
    EarlyChanges,  \* the file also changes between main's Load and the watcher's first look
    MaxSaves, MaxReloads, MaxEdits, MaxCrashes,   \* bounds
    NoEnv, NoCfg, Nobody, Torn, Absent

Config == [Fields -> Values]
InMemory == [Fields -> Values \cup EnvValues]

ASSUME ConfigAssumption ==
    /\ Default \in Config /\ Zero \in Values
    /\ Saved \subseteq Fields /\ \A f \in Saved : Default[f] = Zero
    /\ Env \in [Fields -> EnvValues \cup {NoEnv}] /\ NoEnv \notin EnvValues
    /\ EnvValues \cap Values = {}
    /\ Edits \subseteq Config /\ FirstFiles \subseteq Config \cup {Absent}
    /\ HotReload \in BOOLEAN /\ EarlyChanges \in BOOLEAN
    /\ {MaxSaves, MaxReloads, MaxEdits, MaxCrashes} \subseteq Nat
    /\ Torn \notin InMemory /\ Absent \notin InMemory /\ Torn # Absent
    /\ Savers \cap Reloaders = {}
    /\ {"main", "watcher", Nobody} \cap (Savers \cup Reloaders) = {}
    /\ Nobody \notin {"main", "watcher"}

VARIABLES
    file,       \* config.json: a configuration, half of one, or no file
    mtime,      \* its modification time
    editing,    \* an editor is writing the file in place
    current,    \* config.current
    mu,         \* the saver that holds config.mu
    pc,         \* what each goroutine is about to do
    held,       \* the Config a goroutine holds
    reloading,  \* Orchestrator.reloading
    lastCfg,    \* Orchestrator.lastCfg
    lastMod,    \* the watcher's lastModTime
    seenMod,    \* the watcher's currentModTime
    wrote,      \* history: what the last Save gave each field, if no edit followed
                \*   and no reload that created the file
    left        \* saves, reloads, edits and crashes still to come

vars == <<file, mtime, editing, current, mu, pc, held, reloading, lastCfg,
          lastMod, seenMod, wrote, left>>
watch == <<lastMod, seenMod>>

Goroutines == Savers \cup Reloaders \cup {"main", "watcher"}

\* Load and Save apply the environment to the copy they keep in memory.
Overlay(cfg) == [f \in Fields |-> IF Env[f] = NoEnv THEN cfg[f] ELSE Env[f]]

\* A setting left out of the file decodes to its default.
Encoded(cfg) ==
    [f \in Fields |-> IF f \in Omitempty /\ cfg[f] = Zero THEN Default[f] ELSE cfg[f]]

\* A new process: main in Load, nothing else running.
AtStart == [g \in Goroutines |-> CASE g = "main" -> "read" [] g = "watcher" -> "off"
                                    [] OTHER -> "idle"]

Goto(g, point) == pc' = [pc EXCEPT ![g] = point]
Spend(what) == left[what] > 0 /\ left' = [left EXCEPT ![what] = @ - 1]

Write(content) == file' = content /\ mtime' = mtime + 1

\* Between main's Load and the watcher's first look at the file.
Unwatched ==
    HotReload /\ pc["main"] \notin {"read", "failed"} /\ pc["watcher"] \in {"off", "baseline"}
MayChange == EarlyChanges \/ ~Unwatched

-----------------------------------------------------------------------------
(* Load, as main, the watcher and /reload call it.  The file is read       *)
(* without config.mu.                                                      *)

LoadRead(g) ==
    /\ pc[g] = "read" /\ file # Torn
    /\ held' = [held EXCEPT ![g] = IF file = Absent THEN Default ELSE file]
    /\ Goto(g, "stat")
    /\ UNCHANGED <<file, mtime, editing, current, mu, reloading, lastCfg, watch, wrote, left>>

\* Mutant: a reload that fails ends the watcher's goroutine.
AfterErrorExits(g) == IF g = "main" THEN "failed" ELSE "idle"

\* What becomes of a Load that returned an error.
AfterError(g) == CASE g = "main" -> "failed" [] g = "watcher" -> "polled" [] OTHER -> "idle"

LoadFails(g) ==
    /\ pc[g] = "read" /\ file = Torn
    /\ Goto(g, AfterError(g))
    /\ reloading' = IF g = "main" THEN reloading ELSE FALSE
    /\ UNCHANGED <<file, mtime, editing, current, mu, held, lastCfg, watch, wrote, left>>

LoadStat(g) ==
    /\ pc[g] = "stat"
    /\ Goto(g, IF file = Absent THEN "create" ELSE "install")
    /\ UNCHANGED <<file, mtime, editing, current, mu, held, reloading, lastCfg, watch, wrote, left>>

\* MkdirAll or WriteFile may fail, and Load goes on without a file or with
\* half of one.  A reload that makes up for it may write over a Save.
LoadCreate(g) ==
    /\ pc[g] = "create"
    /\ Write(held[g]) \/ Write(Torn) \/ UNCHANGED <<file, mtime>>
    /\ wrote' = IF g = "main" \/ file' = file THEN wrote ELSE [f \in Saved |-> NoEnv]
    /\ Goto(g, "install")
    /\ UNCHANGED <<editing, current, mu, held, reloading, lastCfg, watch, left>>

\* Mutant: the environment is not applied to what is kept in memory.
LoadBare(g) ==
    /\ pc[g] = "install" /\ mu = Nobody
    /\ current' = held[g]
    /\ held' = [held EXCEPT ![g] = held[g]]
    /\ Goto(g, "apply")
    /\ UNCHANGED <<file, mtime, editing, mu, reloading, lastCfg, watch, wrote, left>>

LoadInstall(g) ==
    /\ pc[g] = "install" /\ mu = Nobody
    /\ current' = Overlay(held[g])
    /\ held' = [held EXCEPT ![g] = Overlay(held[g])]
    /\ Goto(g, "apply")
    /\ UNCHANGED <<file, mtime, editing, mu, reloading, lastCfg, watch, wrote, left>>

(* NewOrchestrator and Gateway.Start, after main's Load *)
Start ==
    /\ pc["main"] = "apply"
    /\ lastCfg' = current
    /\ pc' = [pc EXCEPT !["main"] = "serving",
                        !["watcher"] = IF HotReload THEN "baseline" ELSE "off"]
    /\ held' = [held EXCEPT !["main"] = NoCfg]
    /\ UNCHANGED <<file, mtime, editing, current, mu, reloading, watch, wrote, left>>

(* Orchestrator.Reload around Load *)

ReloadEnter(g) ==
    /\ pc[g] = "enter" /\ ~reloading
    /\ reloading' = TRUE
    /\ Goto(g, "read")
    /\ UNCHANGED <<file, mtime, editing, current, mu, held, lastCfg, watch, wrote, left>>

ReloadSkipped(g) ==
    /\ pc[g] = "enter" /\ reloading
    /\ Goto(g, AfterError(g))
    /\ UNCHANGED <<file, mtime, editing, current, mu, held, reloading, lastCfg, watch, wrote, left>>

ReloadApply(g) ==
    /\ pc[g] = "apply" /\ g # "main"
    /\ lastCfg' = held[g]
    /\ reloading' = FALSE
    /\ held' = [held EXCEPT ![g] = NoCfg]
    /\ Goto(g, AfterError(g))
    /\ UNCHANGED <<file, mtime, editing, current, mu, watch, wrote, left>>

\* POST /reload
ReloadRequest(g) ==
    /\ g \in Reloaders /\ pc[g] = "idle" /\ pc["main"] = "serving"
    /\ Spend("reload")
    /\ Goto(g, "enter")
    /\ UNCHANGED <<file, mtime, editing, current, mu, held, reloading, lastCfg, watch, wrote>>

(* Watcher.Start's goroutine *)

WatchBaseline ==
    /\ pc["watcher"] = "baseline"
    /\ lastMod' = mtime
    /\ Goto("watcher", "tick")
    /\ UNCHANGED <<file, mtime, editing, current, mu, held, reloading, lastCfg, seenMod, wrote, left>>

WatchTick ==
    /\ pc["watcher"] = "tick" /\ mtime > lastMod
    /\ seenMod' = mtime
    /\ Goto("watcher", "enter")
    /\ UNCHANGED <<file, mtime, editing, current, mu, held, reloading, lastCfg, lastMod, wrote, left>>

\* Mutant: the modification time is read again after the reload.
WatchPolledLate ==
    /\ pc["watcher"] = "polled"
    /\ lastMod' = mtime
    /\ Goto("watcher", "tick")
    /\ UNCHANGED <<file, mtime, editing, current, mu, held, reloading, lastCfg, seenMod, wrote, left>>

\* The time seen before the reload, also when the reload failed.
WatchPolled ==
    /\ pc["watcher"] = "polled"
    /\ lastMod' = seenMod
    /\ Goto("watcher", "tick")
    /\ UNCHANGED <<file, mtime, editing, current, mu, held, reloading, lastCfg, seenMod, wrote, left>>

-----------------------------------------------------------------------------
(* Save, as the cron, outbound and API key handlers call it                *)

\* Mutant: what is saved is what is in memory.
SourceInMemory == current

\* What Save reads before it calls fn.
Source == IF file = Absent THEN Default ELSE file

\* Mutant: config.mu is not held.
LockFreeEnter(s) == UNCHANGED mu

LockEnter(s) == mu = Nobody /\ mu' = s

SaveRead(s) ==
    /\ pc[s] = "idle" /\ pc["main"] = "serving" /\ MayChange
    /\ Spend("save")
    /\ LockEnter(s)
    /\ file # Torn
    /\ \E f \in Saved, v \in Values :
          held' = [held EXCEPT ![s] = [cfg |-> [Source EXCEPT ![f] = v], field |-> f]]
    /\ Goto(s, "rename")
    /\ UNCHANGED <<file, mtime, editing, current, reloading, lastCfg, watch, wrote>>

\* The file cannot be parsed: Save returns with nothing changed.
SaveRefused(s) ==
    /\ pc[s] = "idle" /\ pc["main"] = "serving" /\ mu = Nobody /\ file = Torn
    /\ Spend("save")
    /\ UNCHANGED <<file, mtime, editing, current, mu, pc, held, reloading, lastCfg, watch, wrote>>

SaveRename(s) ==
    LET f == held[s].field
    IN  /\ pc[s] = "rename"
        /\ Write(Encoded(held[s].cfg))
        /\ wrote' = [wrote EXCEPT ![f] = held[s].cfg[f]]
        /\ Goto(s, "publish")
        /\ UNCHANGED <<editing, current, mu, held, reloading, lastCfg, watch, left>>

\* The temporary file cannot be written or renamed.
SaveFails(s) ==
    /\ pc[s] = "rename"
    /\ mu' = Nobody
    /\ held' = [held EXCEPT ![s] = NoCfg]
    /\ Goto(s, "idle")
    /\ UNCHANGED <<file, mtime, editing, current, reloading, lastCfg, watch, wrote, left>>

SavePublish(s) ==
    /\ pc[s] = "publish"
    /\ current' = Overlay(held[s].cfg)
    /\ mu' = Nobody
    /\ held' = [held EXCEPT ![s] = NoCfg]
    /\ Goto(s, "idle")
    /\ UNCHANGED <<file, mtime, editing, reloading, lastCfg, watch, wrote, left>>

-----------------------------------------------------------------------------
(* The administrator's editor replaces the file, or rewrites it in place,  *)
(* and a reader may then find half of it.                                  *)

Edited(content) ==
    /\ Write(content)
    /\ wrote' = [f \in Saved |-> NoEnv]
    /\ UNCHANGED <<current, mu, pc, held, reloading, lastCfg, watch>>

EditReplace ==
    /\ MayChange /\ ~editing /\ Spend("edit")
    /\ \E c \in Edits : c # file /\ Edited(c)
    /\ UNCHANGED editing

EditBegin ==
    /\ MayChange /\ ~editing /\ Spend("edit")
    /\ Edited(Torn) /\ editing' = TRUE

EditEnd ==
    /\ MayChange /\ editing
    /\ \E c \in Edits : Edited(c)
    /\ editing' = FALSE
    /\ UNCHANGED left

\* The process stops and is started again; a Load may leave half of the file
\* it creates.
Crash ==
    /\ Spend("crash")
    /\ \/ UNCHANGED <<file, mtime>>
       \/ (\E g \in Goroutines : pc[g] = "create") /\ Write(Torn)
    /\ pc' = AtStart
    /\ held' = [g \in Goroutines |-> NoCfg]
    /\ current' = NoCfg /\ lastCfg' = NoCfg /\ mu' = Nobody /\ reloading' = FALSE
    /\ UNCHANGED <<editing, watch, wrote>>

AtRest ==
    /\ \A g \in Savers \cup Reloaders : pc[g] = "idle"
    /\ pc["main"] \in {"serving", "failed"}
    /\ pc["watcher"] = "off" \/ (pc["watcher"] = "tick" /\ mtime = lastMod)
    /\ ~editing
    /\ UNCHANGED vars

-----------------------------------------------------------------------------
Init ==
    /\ file \in FirstFiles
    /\ mtime = 0 /\ editing = FALSE
    /\ current = NoCfg /\ lastCfg = NoCfg
    /\ mu = Nobody /\ reloading = FALSE
    /\ pc = AtStart
    /\ held = [g \in Goroutines |-> NoCfg]
    /\ lastMod = 0 /\ seenMod = 0
    /\ wrote = [f \in Saved |-> NoEnv]
    /\ left = [save |-> MaxSaves, reload |-> MaxReloads,
               edit |-> MaxEdits, crash |-> MaxCrashes]

LoadStep(g) == LoadRead(g) \/ LoadFails(g) \/ LoadStat(g) \/ LoadCreate(g) \/ LoadInstall(g)
ReloadStep(g) == ReloadEnter(g) \/ ReloadSkipped(g) \/ ReloadApply(g)
Step(g) == LoadStep(g) \/ ReloadStep(g)
WatchStep == WatchBaseline \/ WatchTick \/ WatchPolled
SaveStep(s) == SaveRename(s) \/ SavePublish(s)

Next ==
    \/ \E g \in Goroutines \ Savers : Step(g)
    \/ Start \/ WatchStep
    \/ \E g \in Reloaders : ReloadRequest(g)
    \/ \E s \in Savers : SaveRead(s) \/ SaveRefused(s) \/ SaveStep(s) \/ SaveFails(s)
    \/ EditReplace \/ EditBegin \/ EditEnd
    \/ Crash \/ AtRest

Spec == Init /\ [][Next]_vars

\* The ticker keeps ticking, and a goroutine that is inside Load, Save or
\* Reload goes on; nobody has to save, edit or reload.
FairSpec ==
    /\ Spec
    /\ WF_vars(WatchStep) /\ WF_vars(Start)
    /\ \A g \in Goroutines \ Savers : WF_vars(Step(g))
    /\ \A s \in Savers : WF_vars(SaveStep(s))

-----------------------------------------------------------------------------
(* Every variable keeps its type: the package variables of config.go, the  *)
(* fields of Orchestrator and Watcher, the locals of their methods, and    *)
(* where each kind of goroutine can be.                                    *)
Saving == [cfg : InMemory, field : Saved]
LoadPoints == {"read", "stat", "create", "install", "apply"}
PointsOf(g) ==
    CASE g = "main" -> LoadPoints \cup {"serving", "failed"}
      [] g = "watcher" -> LoadPoints \cup {"off", "baseline", "tick", "enter", "polled"}
      [] g \in Reloaders -> LoadPoints \cup {"idle", "enter"}
      [] OTHER -> {"idle", "rename", "publish"}

TypeOK ==
    /\ file \in InMemory \cup {Torn, Absent}
    /\ mtime \in Nat /\ lastMod \in Nat /\ seenMod \in Nat
    /\ editing \in BOOLEAN /\ reloading \in BOOLEAN
    /\ current \in InMemory \cup {NoCfg} /\ lastCfg \in InMemory \cup {NoCfg}
    /\ mu \in Savers \cup {Nobody}
    /\ DOMAIN pc = Goroutines /\ \A g \in Goroutines : pc[g] \in PointsOf(g)
    /\ held \in [Goroutines -> InMemory \cup Saving \cup {NoCfg}]
    /\ wrote \in [Saved -> Values \cup EnvValues \cup {NoEnv}]
    /\ left \in [{"save", "reload", "edit", "crash"} -> Nat]

Parses == file \notin {Torn, Absent}

(* A setting saved from one page survives the saves of the others: since   *)
(* the last edit by hand (or the creation of the file by a reload, when    *)
(* the first run had failed to) the file holds, for every setting, what    *)
(* the last Save of it wrote, although each Save rewrites the whole file   *)
(* from a copy it read earlier, and the process may stop half-way through. *)
SavesAreKept == Parses => \A f \in Saved : wrote[f] # NoEnv => file[f] = wrote[f]

(* "config.json is the only source of truth, environment variables only    *)
(* override a few settings at run time" (README): no value of the          *)
(* environment ever reaches the file, although memory holds both merged.   *)
EnvironmentStaysOut == Parses => \A f \in Fields : file[f] \notin EnvValues

(* A change of config.json, whoever makes it and whatever else is going    *)
(* on, is detected and applied: in the end memory holds the file's         *)
(* settings with the environment on top, unless the file cannot be parsed  *)
(* (ServerConfig.HotReload: "changes to config.json are detected").  The   *)
(* exception: the watcher gives a change up when it finds another reload   *)
(* under way, which may have read the file before the change.              *)
FollowsFile == Parses /\ pc["main"] = "serving" => current = Overlay(file)
Collides == pc["watcher"] = "enter" /\ reloading
ChangesAreApplied == <>Collides \/ <>[]FollowsFile
=============================================================================
