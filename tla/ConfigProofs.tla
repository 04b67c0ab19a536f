----------------------------- MODULE ConfigProofs -----------------------------
(***************************************************************************)
(* Theorems about ConfigStore, for every set of settings, handlers and     *)
(* goroutines, and with or without the watcher.                            *)
(***************************************************************************)
EXTENDS ConfigStore, TLAPS

(* What a goroutine carries between two steps of Load or of Save.          *)
HeldOK ==
    /\ \A g \in Goroutines \ Savers :
          pc[g] \in {"stat", "create", "install", "apply"} => held[g] \in InMemory
    /\ \A s \in Savers : pc[s] \in {"rename", "publish"} => held[s] \in Saving

TypeInv == TypeOK /\ HeldOK

USE ConfigAssumption DEF ConfigAssumption, Config, InMemory

LEMMA OverlayTyped ==
    ASSUME NEW c \in InMemory
    PROVE  Overlay(c) \in InMemory
BY DEF Overlay

LEMMA EncodedTyped ==
    /\ \A c \in InMemory : Encoded(c) \in InMemory
    /\ \A c \in Config : Encoded(c) \in Config
    /\ \A c \in InMemory, f \in Saved : Encoded(c)[f] = c[f]
BY DEF Encoded

LEMMA MoveTyped ==
    ASSUME TypeOK, NEW g \in Goroutines, NEW point \in PointsOf(g), Goto(g, point)
    PROVE  /\ DOMAIN pc' = Goroutines /\ \A h \in Goroutines : pc'[h] \in PointsOf(h)
           /\ pc'[g] = point /\ \A h \in Goroutines \ {g} : pc'[h] = pc[h]
BY DEF TypeOK, Goto

(* Main, the watcher and /reload go from one point of Load or Reload to    *)
(* the next, and only their own copy of the configuration changes.         *)
LEMMA LoadMoveTyped ==
    ASSUME TypeInv, NEW g \in Goroutines \ Savers, NEW point \in PointsOf(g), Goto(g, point),
           held' \in [Goroutines -> InMemory \cup Saving \cup {NoCfg}],
           \A h \in Goroutines \ {g} : held'[h] = held[h],
           point \in {"stat", "create", "install", "apply"} => held'[g] \in InMemory,
           file' \in InMemory \cup {Torn, Absent}, mtime' \in Nat,
           lastMod' \in Nat, seenMod' \in Nat,
           reloading' \in BOOLEAN, current' \in InMemory \cup {NoCfg},
           lastCfg' \in InMemory \cup {NoCfg},
           left' \in [{"save", "reload", "edit", "crash"} -> Nat],
           wrote' \in [Saved -> Values \cup EnvValues \cup {NoEnv}],
           UNCHANGED <<editing, mu>>
    PROVE  TypeInv'
<1>1. TypeOK'
  <2>1. DOMAIN pc' = Goroutines /\ \A h \in Goroutines : pc'[h] \in PointsOf(h)
    BY MoveTyped DEF TypeInv
  <2> QED BY <2>1 DEF TypeInv, TypeOK
<1>2. HeldOK'
  <2>1. pc'[g] = point /\ \A h \in Goroutines \ {g} : pc'[h] = pc[h]
    BY MoveTyped DEF TypeInv
  <2> QED BY <2>1 DEF TypeInv, HeldOK, Goroutines
<1> QED BY <1>1, <1>2 DEF TypeInv

LEMMA SaveMoveTyped ==
    ASSUME TypeInv, NEW s \in Savers, NEW point \in PointsOf(s), Goto(s, point),
           held' \in [Goroutines -> InMemory \cup Saving \cup {NoCfg}],
           \A h \in Goroutines \ {s} : held'[h] = held[h],
           point \in {"rename", "publish"} => held'[s] \in Saving,
           file' \in InMemory \cup {Torn, Absent}, mtime' \in Nat,
           mu' \in Savers \cup {Nobody}, current' \in InMemory \cup {NoCfg},
           wrote' \in [Saved -> Values \cup EnvValues \cup {NoEnv}],
           left' \in [{"save", "reload", "edit", "crash"} -> Nat],
           UNCHANGED <<editing, reloading, lastCfg, watch>>
    PROVE  TypeInv'
<1>1. TypeOK'
  <2>1. DOMAIN pc' = Goroutines /\ \A h \in Goroutines : pc'[h] \in PointsOf(h)
    BY MoveTyped DEF TypeInv, Goroutines
  <2> QED BY <2>1 DEF TypeInv, TypeOK, watch
<1>2. HeldOK'
  <2>1. pc'[s] = point /\ \A h \in Goroutines \ {s} : pc'[h] = pc[h]
    BY MoveTyped DEF TypeInv, Goroutines
  <2> QED BY <2>1 DEF TypeInv, HeldOK, Goroutines
<1> QED BY <1>1, <1>2 DEF TypeInv

LEMMA LoadStepTyped ==
    ASSUME TypeInv, NEW g \in Goroutines \ Savers, LoadStep(g)
    PROVE  TypeInv'
<1> USE DEF TypeInv, watch
<1>1. LoadPoints \cup {AfterError(g)} \subseteq PointsOf(g)
  BY DEF PointsOf, AfterError, Goroutines
<1>2. CASE LoadRead(g)
  <2>1. held'[g] \in InMemory /\ held' \in [Goroutines -> InMemory \cup Saving \cup {NoCfg}]
    BY <1>2 DEF LoadRead, TypeOK
  <2> QED BY <1>1, <1>2, <2>1, LoadMoveTyped DEF LoadRead, TypeOK, LoadPoints
<1>3. CASE LoadFails(g)
  BY <1>1, <1>3, LoadMoveTyped DEF LoadFails, TypeOK, AfterError
<1>4. CASE LoadStat(g)
  BY <1>1, <1>4, LoadMoveTyped DEF LoadStat, TypeOK, HeldOK, LoadPoints
<1>5. CASE LoadCreate(g)
  BY <1>1, <1>5, LoadMoveTyped DEF LoadCreate, Write, TypeOK, HeldOK, LoadPoints
<1>6. CASE LoadInstall(g)
  <2>1. Overlay(held[g]) \in InMemory
    BY <1>6, OverlayTyped DEF LoadInstall, HeldOK
  <2> QED BY <1>1, <1>6, <2>1, LoadMoveTyped DEF LoadInstall, TypeOK, LoadPoints
<1> QED BY <1>2, <1>3, <1>4, <1>5, <1>6 DEF LoadStep

LEMMA ReloadStepTyped ==
    ASSUME TypeInv, NEW g \in Goroutines \ Savers, ReloadStep(g)
    PROVE  TypeInv'
<1> USE DEF TypeInv, watch
<1>1. LoadPoints \cup {AfterError(g)} \subseteq PointsOf(g) /\ "apply" # AfterError(g)
  BY DEF PointsOf, AfterError, Goroutines
<1>2. CASE ReloadEnter(g)
  BY <1>1, <1>2, LoadMoveTyped DEF ReloadEnter, TypeOK, LoadPoints
<1>3. CASE ReloadSkipped(g)
  BY <1>1, <1>3, LoadMoveTyped DEF ReloadSkipped, TypeOK, AfterError
<1>4. CASE ReloadApply(g)
  <2>1. held[g] \in InMemory /\ held' \in [Goroutines -> InMemory \cup Saving \cup {NoCfg}]
    BY <1>4 DEF ReloadApply, TypeOK, HeldOK
  <2> QED BY <1>1, <1>4, <2>1, LoadMoveTyped DEF ReloadApply, TypeOK, AfterError
<1> QED BY <1>2, <1>3, <1>4 DEF ReloadStep

LEMMA SaverTyped ==
    ASSUME TypeInv, NEW s \in Savers,
           SaveRead(s) \/ SaveRefused(s) \/ SaveStep(s) \/ SaveFails(s)
    PROVE  TypeInv'
<1> USE DEF TypeInv
<1>1. PointsOf(s) = {"idle", "rename", "publish"} /\ s \in Goroutines
  BY DEF PointsOf, Goroutines
<1>2. CASE SaveRead(s)
  <2> PICK f \in Saved, v \in Values :
        held' = [held EXCEPT ![s] = [cfg |-> [Source EXCEPT ![f] = v], field |-> f]]
    BY <1>2 DEF SaveRead
  <2>1. Source \in InMemory
    BY <1>2 DEF SaveRead, Source, TypeOK
  <2>2. held'[s] \in Saving /\ held' \in [Goroutines -> InMemory \cup Saving \cup {NoCfg}]
    BY <1>1, <2>1 DEF Saving, TypeOK
  <2> QED BY <1>1, <1>2, <2>2, SaveMoveTyped DEF SaveRead, Spend, LockEnter, TypeOK
<1>3. CASE SaveRefused(s)
  BY <1>3 DEF SaveRefused, Spend, TypeOK, HeldOK, watch
<1>4. CASE SaveRename(s)
  <2>1. held[s] \in Saving
    BY <1>4 DEF SaveRename, HeldOK
  <2>2. wrote' \in [Saved -> Values \cup EnvValues \cup {NoEnv}]
    BY <1>4, <2>1 DEF SaveRename, Saving, TypeOK
  <2> QED BY <1>1, <1>4, <2>1, <2>2, EncodedTyped, SaveMoveTyped DEF SaveRename, Write, Saving, TypeOK
<1>5. CASE SavePublish(s)
  <2>1. held[s] \in Saving
    BY <1>5 DEF SavePublish, HeldOK
  <2>2. Overlay(held[s].cfg) \in InMemory
    BY <2>1, OverlayTyped DEF Saving
  <2> QED BY <1>1, <1>5, <2>2, SaveMoveTyped DEF SavePublish, TypeOK
<1>6. CASE SaveFails(s)
  BY <1>1, <1>6, SaveMoveTyped DEF SaveFails, TypeOK
<1> QED BY <1>2, <1>3, <1>4, <1>5, <1>6 DEF SaveStep

LEMMA StartTyped == TypeInv /\ Start => TypeInv'
<1> SUFFICES ASSUME TypeInv, Start PROVE TypeInv'
  OBVIOUS
<1> USE DEF TypeInv, Start, watch
<1>1. pc' = [pc EXCEPT !["main"] = "serving",
                       !["watcher"] = IF HotReload THEN "baseline" ELSE "off"]
  OBVIOUS
<1>2. PointsOf("main") = LoadPoints \cup {"serving", "failed"}
  BY DEF PointsOf
<1>3. PointsOf("watcher") = LoadPoints \cup {"off", "baseline", "tick", "enter", "polled"}
  BY DEF PointsOf
<1>4. TypeOK'
  BY <1>2, <1>3 DEF TypeOK, Goroutines
<1>5. HeldOK'
  BY DEF HeldOK, TypeOK, Goroutines
<1> QED BY <1>4, <1>5

LEMMA WatchTyped == TypeInv /\ WatchStep => TypeInv'
<1> SUFFICES ASSUME TypeInv, WatchStep PROVE TypeInv'
  OBVIOUS
<1> USE DEF TypeInv, watch
<1>1. {"tick", "enter"} \subseteq PointsOf("watcher") /\ "watcher" \in Goroutines \ Savers
  BY DEF PointsOf, Goroutines
<1>2. CASE WatchBaseline
  BY <1>1, <1>2, LoadMoveTyped DEF WatchBaseline, TypeOK
<1>3. CASE WatchTick
  BY <1>1, <1>3, LoadMoveTyped DEF WatchTick, TypeOK
<1>4. CASE WatchPolled
  BY <1>1, <1>4, LoadMoveTyped DEF WatchPolled, TypeOK
<1> QED BY <1>2, <1>3, <1>4 DEF WatchStep

LEMMA RequestTyped ==
    ASSUME TypeInv, NEW g \in Reloaders, ReloadRequest(g)
    PROVE  TypeInv'
<1>1. "enter" \in PointsOf(g) /\ g \in Goroutines \ Savers
  BY DEF PointsOf, Goroutines
<1> QED BY <1>1, LoadMoveTyped DEF ReloadRequest, Spend, TypeInv, TypeOK, watch

LEMMA EditTyped == TypeInv /\ (EditReplace \/ EditBegin \/ EditEnd) => TypeInv'
<1> SUFFICES ASSUME TypeInv, EditReplace \/ EditBegin \/ EditEnd PROVE TypeInv'
  OBVIOUS
<1>1. /\ file' \in InMemory \cup {Torn, Absent} /\ mtime' = mtime + 1
      /\ wrote' = [f \in Saved |-> NoEnv]
      /\ UNCHANGED <<current, mu, pc, held, reloading, lastCfg, watch>>
  BY DEF EditReplace, EditBegin, EditEnd, Edited, Write
<1>2. editing' \in BOOLEAN /\ (left' = left \/ Spend("edit"))
  BY DEF EditReplace, EditBegin, EditEnd, TypeInv, TypeOK
<1>3. left' \in [{"save", "reload", "edit", "crash"} -> Nat]
  BY <1>2 DEF Spend, TypeInv, TypeOK
<1> QED BY <1>1, <1>2, <1>3 DEF TypeInv, TypeOK, HeldOK, watch

(* Where a new process starts: main in Load, nothing else running.         *)
LEMMA FreshTyped ==
    /\ DOMAIN AtStart = Goroutines /\ \A g \in Goroutines : AtStart[g] \in PointsOf(g)
    /\ AtStart["main"] = "read" /\ AtStart["watcher"] = "off"
    /\ \A g \in Savers \cup Reloaders : AtStart[g] = "idle"
<1>1. AtStart["main"] = "read" /\ AtStart["watcher"] = "off" /\ DOMAIN AtStart = Goroutines
  BY Zenon DEF AtStart, Goroutines
<1>2. ASSUME NEW g \in Savers \cup Reloaders PROVE AtStart[g] = "idle" /\ "idle" \in PointsOf(g)
  <2>1. g # "main" /\ g # "watcher" /\ g \in Goroutines
    BY DEF Goroutines
  <2> QED BY <2>1, Zenon DEF AtStart, PointsOf
<1>3. "read" \in PointsOf("main") /\ "off" \in PointsOf("watcher")
  BY DEF PointsOf, LoadPoints
<1> QED BY <1>1, <1>2, <1>3 DEF Goroutines

LEMMA CrashTyped == TypeInv /\ Crash => TypeInv'
<1> SUFFICES ASSUME TypeInv, Crash PROVE TypeInv'
  OBVIOUS
<1>1. file' \in InMemory \cup {Torn, Absent} /\ mtime' \in Nat
  BY DEF Crash, Write, TypeInv, TypeOK
<1>2. left' \in [{"save", "reload", "edit", "crash"} -> Nat]
  BY DEF Crash, Spend, TypeInv, TypeOK
<1>3. TypeOK'
  BY <1>1, <1>2, FreshTyped DEF Crash, TypeInv, TypeOK, watch
<1>4. HeldOK'
  BY FreshTyped DEF Crash, HeldOK, Goroutines
<1> QED BY <1>3, <1>4 DEF TypeInv

LEMMA StepTyped == TypeInv /\ [Next]_vars => TypeInv'
<1> SUFFICES ASSUME TypeInv, [Next]_vars PROVE TypeInv'
  OBVIOUS
<1>1. ASSUME NEW g \in Goroutines \ Savers, Step(g) PROVE TypeInv'
  BY <1>1, LoadStepTyped, ReloadStepTyped DEF Step
<1>2. CASE UNCHANGED vars
  BY <1>2 DEF vars, watch, TypeInv, TypeOK, HeldOK
<1>3. CASE AtRest
  BY <1>2, <1>3 DEF AtRest
<1> QED
  BY <1>1, <1>2, <1>3, StartTyped, WatchTyped, RequestTyped, SaverTyped, EditTyped, CrashTyped
  DEF Next

LEMMA InitTyped == Init => TypeInv
<1> SUFFICES ASSUME Init PROVE TypeInv
  OBVIOUS
<1>1. left \in [{"save", "reload", "edit", "crash"} -> Nat]
  BY DEF Init
<1>2. file \in InMemory \cup {Torn, Absent}
  BY DEF Init
<1>3. /\ mtime \in Nat /\ lastMod \in Nat /\ seenMod \in Nat
      /\ editing \in BOOLEAN /\ reloading \in BOOLEAN
  BY DEF Init
<1>4. TypeOK
  BY <1>1, <1>2, <1>3, FreshTyped DEF Init, TypeOK
<1>5. HeldOK
  BY FreshTyped DEF Init, HeldOK, Goroutines
<1> QED BY <1>4, <1>5 DEF TypeInv

(* Every variable of the configuration model keeps its type, and each kind *)
(* of goroutine stays in its own code.                                     *)
THEOREM TypeCorrect == Spec => []TypeOK
<1>1. TypeInv => TypeOK
  BY DEF TypeInv
<1> QED BY <1>1, InitTyped, StepTyped, PTL DEF Spec

-----------------------------------------------------------------------------
(* What is written to the file comes from the file.                        *)
FromFile ==
    /\ Parses => file \in Config
    /\ \A g \in Goroutines \ Savers : pc[g] \in {"stat", "create"} => held[g] \in Config
    /\ \A s \in Savers : pc[s] = "rename" => held[s].cfg \in Config

EnvInv == TypeInv /\ FromFile

LEMMA LoadFromFile ==
    ASSUME EnvInv, NEW g \in Goroutines \ Savers, Step(g)
    PROVE  FromFile'
<1> USE DEF EnvInv, TypeInv, FromFile
<1>1. g \in Goroutines /\ g \notin Savers /\ Savers \subseteq Goroutines
  BY DEF Goroutines
<1>2. CASE LoadRead(g)
  BY <1>1, <1>2 DEF LoadRead, Goto, TypeOK, Parses
<1>3. CASE LoadFails(g)
  BY <1>1, <1>3 DEF LoadFails, Goto, TypeOK, AfterError, Parses
<1>4. CASE LoadStat(g)
  BY <1>1, <1>4 DEF LoadStat, Goto, TypeOK, Parses
<1>5. CASE LoadCreate(g)
  BY <1>1, <1>5 DEF LoadCreate, Write, Goto, TypeOK, Parses
<1>6. CASE LoadInstall(g)
  BY <1>1, <1>6 DEF LoadInstall, Goto, TypeOK, Parses
<1>7. CASE ReloadEnter(g)
  BY <1>1, <1>7 DEF ReloadEnter, Goto, TypeOK, Parses
<1>8. AfterError(g) \notin {"stat", "create", "rename"}
  BY DEF AfterError
<1>9. CASE ReloadSkipped(g)
  BY <1>1, <1>8, <1>9 DEF ReloadSkipped, Goto, TypeOK, Parses
<1>10. CASE ReloadApply(g)
  BY <1>1, <1>8, <1>10 DEF ReloadApply, Goto, TypeOK, Parses
<1> QED
  BY <1>2, <1>3, <1>4, <1>5, <1>6, <1>7, <1>9, <1>10 DEF Step, LoadStep, ReloadStep

LEMMA SaveFromFile ==
    ASSUME EnvInv, NEW s \in Savers,
           SaveRead(s) \/ SaveRefused(s) \/ SaveStep(s) \/ SaveFails(s)
    PROVE  FromFile'
<1> USE DEF EnvInv, TypeInv, FromFile
<1>1. s \in Goroutines /\ Savers \subseteq Goroutines
  BY DEF Goroutines
<1>2. CASE SaveRead(s)
  <2> PICK f \in Saved, v \in Values :
        held' = [held EXCEPT ![s] = [cfg |-> [Source EXCEPT ![f] = v], field |-> f]]
    BY <1>2 DEF SaveRead
  <2>1. Source \in Config
    BY <1>2 DEF SaveRead, Source, Parses
  <2>2. held'[s].cfg \in Config
    BY <1>1, <2>1 DEF TypeOK
  <2> QED BY <1>1, <1>2, <2>2 DEF SaveRead, Goto, TypeOK, Parses
<1>3. CASE SaveRefused(s)
  BY <1>3 DEF SaveRefused, Parses
<1>4. CASE SaveRename(s)
  BY <1>1, <1>4, EncodedTyped DEF SaveRename, Write, Goto, TypeOK, Parses
<1>5. CASE SavePublish(s) \/ SaveFails(s)
  BY <1>1, <1>5 DEF SavePublish, SaveFails, Goto, TypeOK, Parses
<1> QED BY <1>2, <1>3, <1>4, <1>5 DEF SaveStep

LEMMA FromFileKept == EnvInv /\ [Next]_vars => EnvInv'
<1> SUFFICES ASSUME EnvInv, [Next]_vars PROVE FromFile'
  BY StepTyped DEF EnvInv
<1> USE DEF EnvInv, TypeInv, FromFile
<1>1. CASE Start
  BY <1>1 DEF Start, TypeOK, Goroutines, Parses
<1>2. CASE WatchStep
  BY <1>2 DEF WatchStep, WatchBaseline, WatchTick, WatchPolled, Goto, TypeOK, Goroutines, Parses
<1>3. ASSUME NEW g \in Reloaders, ReloadRequest(g) PROVE FromFile'
  BY <1>3 DEF ReloadRequest, Goto, TypeOK, Goroutines, Parses
<1>4. CASE EditReplace \/ EditBegin \/ EditEnd
  BY <1>4 DEF EditReplace, EditBegin, EditEnd, Edited, Write, Parses
<1>5. CASE Crash
  BY <1>5, FreshTyped DEF Crash, Write, Goroutines, Parses
<1>6. CASE AtRest \/ UNCHANGED vars
  BY <1>6 DEF AtRest, vars, Parses
<1> QED BY <1>1, <1>2, <1>3, <1>4, <1>5, <1>6, LoadFromFile, SaveFromFile DEF Next

(* Memory holds the file's settings with the environment on top, and Save  *)
(* writes the whole configuration; still no value of the environment ever  *)
(* reaches config.json, because Save starts from the file and Load creates *)
(* the file before it applies the environment.                             *)
THEOREM EnvironmentStaysOutCorrect == Spec => []EnvironmentStaysOut
<1>1. Init => EnvInv
  <2> SUFFICES ASSUME Init PROVE EnvInv
    OBVIOUS
  <2>1. TypeInv
    BY InitTyped
  <2>2. FromFile
    BY FreshTyped DEF Init, FromFile, Goroutines, Parses
  <2> QED BY <2>1, <2>2 DEF EnvInv
<1>2. EnvInv => EnvironmentStaysOut
  BY DEF EnvInv, FromFile, EnvironmentStaysOut, Parses
<1> QED BY <1>1, <1>2, FromFileKept, PTL DEF Spec

-----------------------------------------------------------------------------
(* Why a Save cannot undo another.  A saver between its read and its       *)
(* rename holds config.mu, so the copy it writes back is still what the    *)
(* others saved; and main creates the file only before anything is served. *)
Exclusive == \A s \in Savers : pc[s] \in {"rename", "publish"} => mu = s
ServedAfterLoad ==
    pc["main"] # "serving" =>
        pc["watcher"] = "off" /\ \A g \in Savers \cup Reloaders : pc[g] = "idle"
FirstRun ==
    /\ file = Absent \/ pc["main"] = "create" => \A f \in Saved : wrote[f] = NoEnv
CopyCurrent ==
    \A s \in Savers : pc[s] = "rename" =>
        \A f \in Saved \ {held[s].field} : wrote[f] # NoEnv => held[s].cfg[f] = wrote[f]

KeptInv ==
    TypeInv /\ Exclusive /\ ServedAfterLoad /\ FirstRun /\ CopyCurrent /\ SavesAreKept

LEMMA LoadKept ==
    ASSUME KeptInv, NEW g \in Goroutines \ Savers, Step(g)
    PROVE  KeptInv'
<1> USE DEF KeptInv
<1>1. TypeInv'
  BY StepTyped DEF Next
<1>2. /\ g \in Goroutines /\ g \notin Savers /\ Savers \subseteq Goroutines
      /\ "main" \in Goroutines \ Savers /\ "watcher" \in Goroutines \ Savers
      /\ \A h \in Goroutines \ Savers : h \in Reloaders \/ h = "main" \/ h = "watcher"
  BY DEF Goroutines
<1>3. /\ AfterError(g) \notin {"create", "serving", "rename", "publish"}
      /\ g = "main" => AfterError(g) = "failed"
  BY DEF AfterError
<1>4. /\ \E point \in {"read", "stat", "create", "install", "apply", AfterError(g)} : Goto(g, point)
      /\ UNCHANGED mu /\ \A s \in Savers : held'[s] = held[s]
      /\ wrote' = wrote \/ wrote' = [f \in Saved |-> NoEnv]
      /\ pc[g] \notin {"serving", "idle", "off"}
  BY ZenonT(60), <1>2
     DEF Step, LoadStep, ReloadStep, LoadRead, LoadFails, LoadStat, LoadCreate, LoadInstall,
              ReloadEnter, ReloadSkipped, ReloadApply, TypeInv, TypeOK
<1>5. /\ \A h \in Goroutines \ {g} : pc'[h] = pc[h]
      /\ pc'[g] \in {"read", "stat", "create", "install", "apply", AfterError(g)}
  BY <1>4 DEF Goto, TypeInv, TypeOK
<1>6. Exclusive' /\ CopyCurrent'
  BY <1>2, <1>4, <1>5 DEF Exclusive, CopyCurrent
<1>7. g # "main" => pc["main"] = "serving"
  BY <1>2, <1>4 DEF ServedAfterLoad
<1>8. ServedAfterLoad'
  <2>1. CASE g = "main"
    BY <1>4, <1>5, <2>1 DEF ServedAfterLoad, Goroutines
  <2>2. CASE g # "main"
    BY <1>2, <1>5, <1>7, <2>2 DEF ServedAfterLoad
  <2> QED BY <2>1, <2>2
<1>9. CASE LoadStat(g)
  <2>1. UNCHANGED <<file, wrote>> /\ pc'[g] = IF file = Absent THEN "create" ELSE "install"
    BY <1>2, <1>9 DEF LoadStat, Goto, TypeInv, TypeOK
  <2>2. FirstRun'
    BY <1>2, <1>5, <2>1 DEF FirstRun
  <2> QED BY <1>1, <1>6, <1>8, <2>1, <2>2 DEF SavesAreKept, Parses
<1>10. CASE LoadCreate(g)
  <2>1. pc[g] = "create" /\ pc'[g] = "install"
    BY <1>2, <1>10 DEF LoadCreate, Goto, TypeInv, TypeOK
  <2>2. CASE \A f \in Saved : wrote'[f] = NoEnv
    BY <1>1, <1>6, <1>8, <2>2 DEF FirstRun, SavesAreKept
  <2>3. CASE g = "main"
    <3>1. wrote' = wrote /\ \A f \in Saved : wrote[f] = NoEnv
      BY <1>10, <2>1, <2>3 DEF LoadCreate, FirstRun
    <3> QED BY <2>2, <3>1
  <2>4. CASE g # "main" /\ file' = file
    <3>1. wrote' = wrote /\ pc["main"] = "serving" /\ pc'["main"] = "serving"
      BY <1>2, <1>5, <1>7, <1>10, <2>4 DEF LoadCreate
    <3> QED BY <1>1, <1>6, <1>8, <2>4, <3>1 DEF FirstRun, SavesAreKept, Parses
  <2> QED BY <1>10, <2>2, <2>3, <2>4 DEF LoadCreate
<1>11. CASE ~LoadStat(g) /\ ~LoadCreate(g)
  <2>1. /\ UNCHANGED <<file, wrote>>
        /\ pc'[g] \in {"read", "stat", "install", "apply", AfterError(g)}
    BY ZenonT(60), <1>2, <1>11
                   DEF Step, LoadStep, ReloadStep, LoadRead, LoadFails, LoadInstall, ReloadEnter,
                       ReloadSkipped, ReloadApply, Goto, TypeInv, TypeOK
  <2>2. FirstRun'
    BY <1>2, <1>3, <1>5, <2>1 DEF FirstRun
  <2> QED BY <1>1, <1>6, <1>8, <2>1, <2>2 DEF SavesAreKept, Parses
<1> QED BY <1>9, <1>10, <1>11

LEMMA SaveKept ==
    ASSUME KeptInv, NEW s \in Savers,
           SaveRead(s) \/ SaveRefused(s) \/ SaveStep(s) \/ SaveFails(s)
    PROVE  KeptInv'
<1> USE DEF KeptInv
<1>1. TypeInv'
  BY StepTyped DEF Next
<1>2. /\ s \in Goroutines /\ Savers \subseteq Goroutines
      /\ "main" \in Goroutines \ Savers /\ "watcher" \in Goroutines \ Savers
  BY DEF Goroutines
<1>3. pc["main"] = "serving"
  BY DEF ServedAfterLoad, SaveRead, SaveRefused, SaveStep, SaveRename, SavePublish,
         SaveFails
<1>4. /\ \A h \in Goroutines \ {s} : pc'[h] = pc[h] /\ held'[h] = held[h]
      /\ pc'[s] \in {"idle", "rename", "publish"}
  BY <1>2 DEF SaveRead, SaveRefused, SaveStep, SaveRename, SavePublish, SaveFails, Goto,
              TypeInv, TypeOK
<1>5. ServedAfterLoad'
  BY <1>2, <1>3, <1>4 DEF ServedAfterLoad
<1>6. (file' # Absent \/ UNCHANGED <<file, wrote>>) => FirstRun'
  BY <1>2, <1>3, <1>4 DEF FirstRun
<1>7. CASE SaveRead(s)
  <2> PICK f \in Saved, v \in Values :
        held' = [held EXCEPT ![s] = [cfg |-> [Source EXCEPT ![f] = v], field |-> f]]
    BY <1>7 DEF SaveRead
  <2>1. UNCHANGED <<file, wrote>> /\ mu = Nobody /\ mu' = s /\ file # Torn
    BY <1>7 DEF SaveRead, LockEnter
  <2>2. /\ held'[s].field = f
        /\ \A x \in Fields \ {f} : held'[s].cfg[x] = Source[x]
    <3>1. Source \in InMemory
      BY <2>1 DEF TypeInv, TypeOK, Source
    <3> QED BY <1>2, <3>1 DEF TypeInv, TypeOK
  <2>3. Exclusive'
    BY <1>2, <1>4, <2>1 DEF Exclusive
  <2>4. \A r \in Savers \ {s} : pc[r] # "rename"
    BY <2>1 DEF Exclusive
  <2>5. CopyCurrent'
    <3>1. \A x \in Saved : wrote[x] # NoEnv => Source[x] = wrote[x]
      BY <2>1 DEF FirstRun, SavesAreKept, Parses, Source
    <3> QED BY <1>2, <1>4, <2>1, <2>2, <2>4, <3>1, Saved \subseteq Fields DEF CopyCurrent
  <2> QED BY <1>1, <1>3, <1>5, <1>6, <2>1, <2>3, <2>5 DEF SavesAreKept, Parses
<1>8. CASE SaveRefused(s)
  BY <1>1, <1>5, <1>8
  DEF SaveRefused, Exclusive, FirstRun, CopyCurrent, SavesAreKept, Parses
<1>9. CASE SaveRename(s)
  <2> DEFINE f == held[s].field
  <2>1. /\ held[s] \in Saving /\ held' = held /\ file' = Encoded(held[s].cfg) /\ mu' = mu /\ mu = s
        /\ wrote' = [wrote EXCEPT ![f] = held[s].cfg[f]] /\ pc[s] = "rename" /\ pc'[s] = "publish"
    BY <1>2, <1>9 DEF SaveRename, Write, Goto, TypeInv, TypeOK, HeldOK, Exclusive
  <2>2. \A r \in Savers \ {s} : pc[r] \notin {"rename", "publish"}
    BY <2>1 DEF Exclusive
  <2>3. Exclusive' /\ CopyCurrent'
    BY <1>2, <1>4, <2>1, <2>2 DEF Exclusive, CopyCurrent
  <2>4. file' # Absent
    BY <2>1, EncodedTyped DEF Saving
  <2>5. SavesAreKept'
    <3>1. held[s].cfg \in InMemory /\ f \in Saved
      BY <2>1 DEF Saving
    <3> QED BY <2>1, <3>1, EncodedTyped DEF CopyCurrent, SavesAreKept, TypeInv, TypeOK
  <2> QED BY <1>1, <1>5, <1>6, <2>3, <2>4, <2>5
<1>10. CASE SavePublish(s) \/ SaveFails(s)
  <2>1. UNCHANGED <<file, wrote>> /\ pc[s] \in {"rename", "publish"} /\ pc'[s] = "idle"
    BY <1>2, <1>10 DEF SavePublish, SaveFails, Goto, TypeInv, TypeOK
  <2>2. \A r \in Savers \ {s} : pc[r] \notin {"rename", "publish"}
    BY <2>1 DEF Exclusive
  <2>3. Exclusive' /\ CopyCurrent'
    BY <1>2, <1>4, <2>1, <2>2 DEF Exclusive, CopyCurrent
  <2> QED BY <1>1, <1>3, <1>5, <1>6, <2>1, <2>3 DEF SavesAreKept, Parses
<1> QED BY <1>7, <1>8, <1>9, <1>10 DEF SaveStep

LEMMA KeptStep == KeptInv /\ [Next]_vars => KeptInv'
<1> SUFFICES ASSUME KeptInv, [Next]_vars PROVE KeptInv'
  OBVIOUS
<1> USE DEF KeptInv
<1>1. TypeInv'
  BY StepTyped
<1>2. CASE Start
  BY <1>1, <1>2 DEF Start, TypeInv, TypeOK, Goroutines, Exclusive, ServedAfterLoad, FirstRun,
                    CopyCurrent, SavesAreKept, Parses
<1>3. CASE WatchStep
  <2>1. /\ UNCHANGED <<file, mu, held, wrote>> /\ pc["main"] = "serving"
        /\ \A h \in Goroutines \ {"watcher"} : pc'[h] = pc[h]
        /\ pc'["watcher"] \in {"tick", "enter"}
    BY <1>3 DEF WatchStep, WatchBaseline, WatchTick, WatchPolled, Goto, TypeInv, TypeOK,
                Goroutines, ServedAfterLoad
  <2> QED BY <1>1, <2>1 DEF Goroutines, Exclusive, ServedAfterLoad, FirstRun, CopyCurrent,
                            SavesAreKept, Parses
<1>4. ASSUME NEW g \in Reloaders, ReloadRequest(g) PROVE KeptInv'
  <2>1. /\ UNCHANGED <<file, mu, held, wrote>> /\ pc["main"] = "serving"
        /\ \A h \in Goroutines \ {g} : pc'[h] = pc[h]
        /\ pc'[g] = "enter" /\ g \in Goroutines \ Savers /\ g # "main"
    BY <1>4 DEF ReloadRequest, Goto, TypeInv, TypeOK, Goroutines
  <2> QED BY <1>1, <2>1 DEF Goroutines, Exclusive, ServedAfterLoad, FirstRun, CopyCurrent,
                            SavesAreKept, Parses
<1>5. CASE EditReplace \/ EditBegin \/ EditEnd
  <2>1. /\ file' # Absent /\ wrote' = [f \in Saved |-> NoEnv] /\ UNCHANGED <<pc, held, mu>>
    BY <1>5 DEF EditReplace, EditBegin, EditEnd, Edited, Write
  <2> QED BY <1>1, <2>1 DEF Exclusive, ServedAfterLoad, FirstRun, CopyCurrent, SavesAreKept
<1>6. CASE Crash
  <2>1. pc' = AtStart /\ UNCHANGED wrote /\ (file' = file \/ file' = Torn)
    BY <1>6 DEF Crash, Write
  <2> QED BY <1>1, <2>1, FreshTyped DEF Goroutines, Exclusive, ServedAfterLoad, FirstRun,
                                        CopyCurrent, SavesAreKept, Parses
<1>7. CASE AtRest \/ UNCHANGED vars
  BY <1>1, <1>7 DEF AtRest, vars, Exclusive, ServedAfterLoad, FirstRun, CopyCurrent,
                    SavesAreKept, Parses
<1> QED BY <1>2, <1>3, <1>4, <1>5, <1>6, <1>7, LoadKept, SaveKept DEF Next

(* A setting saved by one handler is never undone by another's Save, by    *)
(* the first run or by a crash: only an edit of the file by hand replaces  *)
(* it, or a reload that creates the file.                                  *)
THEOREM SavesAreKeptCorrect == Spec => []SavesAreKept
<1>1. Init => KeptInv
  <2> SUFFICES ASSUME Init PROVE KeptInv
    OBVIOUS
  <2>1. Exclusive /\ ServedAfterLoad /\ FirstRun /\ CopyCurrent
    BY FreshTyped DEF Init, Exclusive, ServedAfterLoad, FirstRun, CopyCurrent, Goroutines
  <2>2. SavesAreKept
    BY DEF Init, SavesAreKept
  <2> QED BY <2>1, <2>2, InitTyped DEF KeptInv
<1>2. KeptInv => SavesAreKept
  BY DEF KeptInv
<1> QED BY <1>1, <1>2, KeptStep, PTL DEF Spec
=============================================================================
