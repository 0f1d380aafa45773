---------------------------- MODULE PlcRun_proofs ----------------------------
(***************************************************************************)
(* Proofs about PlcRun for every set of callers, of operations and of      *)
(* programs: its types whatever the environment does, and for a patient    *)
(* client that makes one call at a time (Env = {}) the safety properties   *)
(* and the refinement of PlcControl.                                       *)
(***************************************************************************)
EXTENDS PlcRun, TLAPS

-----------------------------------------------------------------------------
(* The inductive invariant of the patient client.  Its parts are what a    *)
(* thread may rely on at each statement, and the account of the token of   *)
(* sem_plc_run that plc_set_start and plc_set_stop hand to and fro.        *)

\* One thread at a time uses the services, and no caller while a reload is
\* requested.
Serial ==
    /\ \A t, u \in Managers : at[t] # Home(t) /\ at[u] # Home(u) => t = u
    /\ reload_plc_file = 1 => \A c \in Callers : at[c] = "idle"

\* The statements at which the calling thread has seen to it that plc_run = 0.
StoppedLabels ==
    {"start_set", "stop_take", "stopped", "unload_check", "unload_clear",
     "unload_free", "load_read", "load_link", "load_set", "erase_free",
     "erase_clear", "newplc_stop", "newplc_file", "newplc_reload"}

\* ... that plc_initialized = 1, and = 0.
LoadedLabels ==
    {"start_running", "start_set", "start_give", "stop_clear", "stop_take"}

UnloadedLabels == {"unload_free", "load_read", "load_link", "load_set"}

\* What a thread relies on where it is.
AtInv ==
    \A t \in Managers :
        /\ at[t] \in StoppedLabels => plc_run = 0
        /\ at[t] \in {"start_give", "stop_clear"} => plc_run = 1
        /\ at[t] \in LoadedLabels => plc_initialized = 1
        /\ at[t] \in UnloadedLabels => plc_initialized = 0
        /\ at[t] = "load_link" => elf_buffer # NoProgram
        /\ at[t] = "load_set" => mod # NoProgram
        /\ at[t] # "stop_reset"

\* Where a call that continues in its caller can be.
RetInv ==
    \A t \in Managers :
        /\ ret[t] = "erase_free" =>
              at[t] \in {"stop_running", "stop_clear", "stop_take", "stopped"}
        /\ ret[t] = "load_read" =>
              at[t] \in {"unload_check", "unload_clear", "unload_free"}
        /\ ret[t] \in {"reload_done", "autostart"} =>
              at[t] \in {"load_read", "load_link", "load_set"}

\* The token is in the semaphore or with plc_main, not both; it exists from the
\* give of a start to the take of the stop.
TokenInv ==
    /\ ~(sem_plc_run = 1 /\ Active)
    /\ (sem_plc_run = 1 \/ Active) <=>
          \/ plc_run = 1 /\ \A t \in Managers : at[t] # "start_give"
          \/ \E t \in Managers : at[t] = "stop_take"

\* The module of a PLC that runs or may be started is in place.
ModuleInv ==
    /\ plc_run = 1 => plc_initialized = 1
    /\ plc_initialized = 1 =>
          \/ mod # NoProgram /\ ptr = mod
          \/ \E t \in Managers : at[t] = "erase_clear"
    /\ at[Main] \notin {"wait", "init_io", "config_init"} => inited

\* plc_main leaves its loop only for a stop, and resets the pins on its way.
EndInv ==
    /\ at[Main] \in {"read_last", "drive_last", "give"} => plc_run = 0
    /\ at[Main] = "drive_last" => arg = 0
    /\ at[Main] \in {"give", "wait"} => ~outputs

SerialInv ==
    TypeOK /\ Serial /\ AtInv /\ RetInv /\ TokenInv /\ ModuleInv /\ EndInv
-----------------------------------------------------------------------------
(* Types, whatever the environment does.                                   *)

\* The statements of plc_main_task preserve the types.
LEMMA TypeMain ==
    ASSUME TypeOK, MainStep
    PROVE  TypeOK'
<1> USE ThreadsAssumption
    DEF TypeOK, Managers, Threads, MainLabels, ServiceLabels, CallerLabels,
        LoaderLabels, flags, module, semaphore, control
<1>1. CASE MainWait
  BY <1>1 DEF MainWait, SemTake
<1>2. CASE MainInitIo
  BY <1>2 DEF MainInitIo, Goto
<1>3. CASE MainConfigInit
  BY <1>3 DEF MainConfigInit, Goto
<1>4. CASE MainConfigRun
  BY <1>4 DEF MainConfigRun, Goto
<1>5. CASE MainReadRun
  BY <1>5 DEF MainReadRun, Goto
<1>6. CASE MainDrive
  BY <1>6 DEF MainDrive, Goto
<1>7. CASE MainSleep
  BY <1>7 DEF MainSleep, Goto
<1>8. CASE MainGive
  BY <1>8 DEF MainGive, SemGive, Woken
<1> QED
  BY <1>1, <1>2, <1>3, <1>4, <1>5, <1>6, <1>7, <1>8 DEF MainStep

\* So do the services of plc_loader.c,
LEMMA TypeService ==
    ASSUME TypeOK, NEW t \in Managers, ServiceStep(t)
    PROVE  TypeOK'
<1> USE ThreadsAssumption
    DEF TypeOK, Managers, Threads, MainLabels, ServiceLabels, CallerLabels,
        LoaderLabels, flags, module, semaphore, control
<1>1. CASE StartInitialized(t)
  BY <1>1 DEF StartInitialized, Return, Home
<1>2. CASE StartRunning(t)
  BY <1>2 DEF StartRunning, Return, Home
<1>3. CASE StartSet(t)
  BY <1>3 DEF StartSet, Goto
<1>4. CASE StartGive(t)
  BY <1>4 DEF StartGive, SemGive, Woken, Home
<1>5. CASE StopRunning(t)
  BY <1>5 DEF StopRunning, Return, Home
<1>6. CASE StopClear(t)
  BY <1>6 DEF StopClear, Goto
<1>7. CASE StopTake(t)
  BY <1>7 DEF StopTake, SemTake
<1>8. CASE StopTimeout(t)
  BY <1>8 DEF StopTimeout, Goto
<1>9. CASE StopReset(t)
  BY <1>9 DEF StopReset, SemReset, Home
<1>10. CASE Stopped(t)
  BY <1>10 DEF Stopped, Return, Home
<1>11. CASE UnloadCheck(t)
  BY <1>11 DEF UnloadCheck, Return, Home
<1>12. CASE UnloadClear(t)
  BY <1>12 DEF UnloadClear, Goto
<1>13. CASE UnloadFree(t)
  BY <1>13 DEF UnloadFree, Return, Home
<1>14. CASE LoadRead(t)
  BY <1>14 DEF LoadRead, LoadFails, Return, Home
<1>15. CASE LoadLink(t)
  BY <1>15 DEF LoadLink, LoadFails, Return, Home
<1>16. CASE LoadSet(t)
  <2>1. /\ plc_run' \in {0, 1} /\ plc_initialized' \in {0, 1} /\ reload_plc_file' \in {0, 1}
        /\ sem_plc_run' \in {0, 1} /\ (pending # {} => sem_plc_run = 0)'
        /\ arg' \in {0, 1}
    BY <1>16 DEF LoadSet
  <2>2. {mod', ptr', file', elf_buffer', uploaded'} \subseteq Programs \cup {NoProgram}
    BY <1>16 DEF LoadSet
  <2>3. outputs' \in BOOLEAN /\ inited' \in BOOLEAN
    BY <1>16 DEF LoadSet
  <2>4. /\ pending' \subseteq {x \in Threads : at'[x] \in {"wait", "stop_take"}}
        /\ at' \in [Threads -> MainLabels \cup ServiceLabels \cup CallerLabels \cup LoaderLabels]
        /\ at'[Main] \in MainLabels
        /\ at'[Loader] \in LoaderLabels \cup ServiceLabels
        /\ \A c \in Callers : at'[c] \in CallerLabels \cup ServiceLabels
    BY <1>16 DEF LoadSet, Return, Home
  <2>5. /\ ret' \in [Managers -> {"idle", "erase_free", "poll", "autostart",
                                  "load_read", "reload_done"}]
        /\ \A c \in Callers : ret'[c] \in {"idle", "erase_free"}
        /\ ret'[Loader] \notin {"idle", "erase_free"}
    BY <1>16 DEF LoadSet, Return, Home
  <2> QED
    BY <2>1, <2>2, <2>3, <2>4, <2>5
<1> QED
  BY <1>1, <1>2, <1>3, <1>4, <1>5, <1>6, <1>7, <1>8, <1>9,
     <1>10, <1>11, <1>12, <1>13, <1>14, <1>15, <1>16 DEF ServiceStep

\* the operations of the callers,
LEMMA TypeCaller ==
    ASSUME TypeOK, NEW c \in Callers, CallerStep(c)
    PROVE  TypeOK'
<1> USE ThreadsAssumption
    DEF TypeOK, Managers, Threads, MainLabels, ServiceLabels, CallerLabels,
        LoaderLabels, flags, module, semaphore, control
<1>1. CASE EraseInitialized(c)
  BY <1>1 DEF EraseInitialized, Goto
<1>2. CASE EraseRunning(c)
  BY <1>2 DEF EraseRunning
<1>3. CASE EraseFree(c)
  BY <1>3 DEF EraseFree, Goto
<1>4. CASE EraseClear(c)
  BY <1>4 DEF EraseClear, Goto
<1>5. CASE EraseFiles(c)
  BY <1>5 DEF EraseFiles, Goto
<1>6. CASE UnloadInitialized(c)
  BY <1>6 DEF UnloadInitialized, Goto
<1>7. CASE UnloadRunning(c)
  BY <1>7 DEF UnloadRunning, Goto
<1>8. CASE NewPlcStop(c)
  BY <1>8 DEF NewPlcStop, Goto
<1>9. CASE NewPlcFile(c)
  BY <1>9 DEF NewPlcFile, Goto
<1>10. CASE NewPlcReload(c)
  BY <1>10 DEF NewPlcReload, Goto
<1> QED
  BY <1>1, <1>2, <1>3, <1>4, <1>5, <1>6, <1>7, <1>8, <1>9, <1>10 DEF CallerStep

\* and plc_loader_task.
LEMMA TypeLoader ==
    ASSUME TypeOK, LoaderStep
    PROVE  TypeOK'
<1> USE ThreadsAssumption
    DEF TypeOK, Managers, Threads, MainLabels, ServiceLabels, CallerLabels,
        LoaderLabels, flags, module, semaphore, control
<1>1. CASE LoaderAutostart
  BY <1>1 DEF LoaderAutostart, Goto
<1>2. CASE LoaderPoll
  BY <1>2 DEF LoaderPoll, Goto
<1>3. CASE LoaderReloadRunning
  BY <1>3 DEF LoaderReloadRunning
<1>4. CASE LoaderReloadDone
  BY <1>4 DEF LoaderReloadDone, Goto
<1> QED
  BY <1>1, <1>2, <1>3, <1>4 DEF LoaderStep

\* The types hold at boot.
LEMMA TypeInit == ASSUME Init PROVE TypeOK
<1>1. PICK autostart \in BOOLEAN : Boot(autostart)
  BY DEF Init
<1> QED
  BY <1>1, ThreadsAssumption DEF Init, Boot, TypeOK, Managers, Threads, MainLabels,
     ServiceLabels, CallerLabels, LoaderLabels

\* The types hold in every state, for every environment: the semaphore stays
\* binary, only a thread at a take is pended on it, and only while it is empty.
THEOREM TypeCorrect == Spec => []TypeOK
<1>1. Init => TypeOK
  BY TypeInit
<1>2. TypeOK /\ [Next]_vars => TypeOK'
  <2> SUFFICES ASSUME TypeOK, [Next]_vars PROVE TypeOK'
    OBVIOUS
  <2>1. CASE MainStep
    BY <2>1, TypeMain
  <2>2. CASE LoaderStep
    BY <2>2, TypeLoader
  <2>3. ASSUME NEW t \in Managers, ServiceStep(t) PROVE TypeOK'
    BY <2>3, TypeService
  <2>4. ASSUME NEW c \in Callers, CallerStep(c) PROVE TypeOK'
    BY <2>4, TypeCaller
  <2>5. ASSUME NEW c \in Callers, NEW op \in OpNames, Call(c, op) PROVE TypeOK'
    BY <2>5, ThreadsAssumption DEF Call, Goto, Entry, OpNames, TypeOK, Managers, Threads,
       MainLabels, ServiceLabels, CallerLabels, LoaderLabels, flags, module, semaphore
  <2>6. CASE UNCHANGED vars
    BY <2>6 DEF vars, flags, module, semaphore, control, TypeOK
  <2> QED
    BY <2>1, <2>2, <2>3, <2>4, <2>5, <2>6 DEF Next
<1> QED
  BY <1>1, <1>2, PTL DEF Spec
\* The statements of plc_main_task preserve the invariant.
LEMMA SerialMain ==
    ASSUME Env = {}, SerialInv, MainStep
    PROVE  SerialInv'
<1> USE ThreadsAssumption, ProgramsAssumption
    DEF SerialInv, TypeOK, Serial, AtInv, RetInv, TokenInv, ModuleInv, EndInv,
        Active, Home, StoppedLabels, LoadedLabels, UnloadedLabels, Managers,
        Threads, flags, module, semaphore, control
<1>0. TypeOK'
  BY TypeMain
<1>1. CASE MainWait
  BY <1>0, <1>1 DEF MainWait, SemTake
<1>2. CASE MainInitIo
  BY <1>0, <1>2 DEF MainInitIo, Goto
<1>3. CASE MainConfigInit
  BY <1>0, <1>3 DEF MainConfigInit, Goto
<1>4. CASE MainConfigRun
  BY <1>0, <1>4 DEF MainConfigRun, Goto
<1>5. CASE MainReadRun
  BY <1>0, <1>5 DEF MainReadRun, Goto
<1>6. CASE MainDrive
  <2>1. Serial'
    BY <1>6 DEF MainDrive, Goto
  <2>2. AtInv'
    BY <1>6 DEF MainDrive, Goto
  <2>3. RetInv'
    BY <1>6 DEF MainDrive, Goto
  <2>4. TokenInv'
    BY <1>6 DEF MainDrive, Goto
  <2>5. ModuleInv'
    BY <1>6 DEF MainDrive, Goto
  <2>6. EndInv'
    BY <1>6 DEF MainDrive, Goto
  <2> QED
    BY <1>0, <2>1, <2>2, <2>3, <2>4, <2>5, <2>6
<1>7. CASE MainSleep
  BY <1>0, <1>7 DEF MainSleep, Goto
<1>8. CASE MainGive
  BY <1>0, <1>8 DEF MainGive, SemGive, Woken
<1> QED
  BY <1>1, <1>2, <1>3, <1>4, <1>5, <1>6, <1>7, <1>8 DEF MainStep

\* So do the services of plc_loader.c,
LEMMA SerialService ==
    ASSUME Env = {}, SerialInv, NEW t \in Managers, ServiceStep(t)
    PROVE  SerialInv'
<1> USE ThreadsAssumption, ProgramsAssumption
    DEF SerialInv, TypeOK, Serial, AtInv, RetInv, TokenInv, ModuleInv, EndInv,
        Active, Home, StoppedLabels, LoadedLabels, UnloadedLabels, Managers,
        Threads, flags, module, semaphore, control
<1>0. TypeOK'
  BY TypeService
<1>1. CASE StartInitialized(t)
  BY <1>0, <1>1 DEF StartInitialized, Return
<1>2. CASE StartRunning(t)
  BY <1>0, <1>2 DEF StartRunning, Return
<1>3. CASE StartSet(t)
  BY <1>0, <1>3 DEF StartSet, Goto
<1>4. CASE StartGive(t)
  BY <1>0, <1>4 DEF StartGive, SemGive, Woken
<1>5. CASE StopRunning(t)
  BY <1>0, <1>5 DEF StopRunning, Return
<1>6. CASE StopClear(t)
  BY <1>0, <1>6 DEF StopClear, Goto
<1>7. CASE StopTake(t)
  BY <1>0, <1>7 DEF StopTake, SemTake
<1>8. CASE StopTimeout(t)
  BY <1>0, <1>8 DEF StopTimeout, Goto
<1>9. CASE StopReset(t)
  BY <1>0, <1>9 DEF StopReset, SemReset
<1>10. CASE Stopped(t)
  BY <1>0, <1>10 DEF Stopped, Return
<1>11. CASE UnloadCheck(t)
  BY <1>0, <1>11 DEF UnloadCheck, Return
<1>12. CASE UnloadClear(t)
  BY <1>0, <1>12 DEF UnloadClear, Goto
<1>13. CASE UnloadFree(t)
  BY <1>0, <1>13 DEF UnloadFree, Return
<1>14. CASE LoadRead(t)
  BY <1>0, <1>14 DEF LoadRead, LoadFails, Return
<1>15. CASE LoadLink(t)
  BY <1>0, <1>15 DEF LoadLink, LoadFails, Return
<1>16. CASE LoadSet(t)
  BY <1>0, <1>16 DEF LoadSet, Return
<1> QED
  BY <1>1, <1>2, <1>3, <1>4, <1>5, <1>6, <1>7, <1>8, <1>9, <1>10, <1>11,
     <1>12, <1>13, <1>14, <1>15, <1>16 DEF ServiceStep

\* the operations of the callers,
LEMMA SerialCaller ==
    ASSUME Env = {}, SerialInv, NEW c \in Callers, CallerStep(c)
    PROVE  SerialInv'
<1> USE ThreadsAssumption, ProgramsAssumption
    DEF SerialInv, TypeOK, Serial, AtInv, RetInv, TokenInv, ModuleInv, EndInv,
        Active, Home, StoppedLabels, LoadedLabels, UnloadedLabels, Managers,
        Threads, flags, module, semaphore, control
<1>0. TypeOK'
  BY TypeCaller
<1>1. CASE EraseInitialized(c)
  BY <1>0, <1>1 DEF EraseInitialized, Goto
<1>2. CASE EraseRunning(c)
  BY <1>0, <1>2 DEF EraseRunning
<1>3. CASE EraseFree(c)
  BY <1>0, <1>3 DEF EraseFree, Goto
<1>4. CASE EraseClear(c)
  BY <1>0, <1>4 DEF EraseClear, Goto
<1>5. CASE EraseFiles(c)
  BY <1>0, <1>5 DEF EraseFiles, Goto
<1>6. CASE UnloadInitialized(c)
  BY <1>0, <1>6 DEF UnloadInitialized, Goto
<1>7. CASE UnloadRunning(c)
  BY <1>0, <1>7 DEF UnloadRunning, Goto
<1>8. CASE NewPlcStop(c)
  BY <1>0, <1>8 DEF NewPlcStop, Goto
<1>9. CASE NewPlcFile(c)
  BY <1>0, <1>9 DEF NewPlcFile, Goto
<1>10. CASE NewPlcReload(c)
  BY <1>0, <1>10 DEF NewPlcReload, Goto
<1> QED
  BY <1>1, <1>2, <1>3, <1>4, <1>5, <1>6, <1>7, <1>8, <1>9, <1>10 DEF CallerStep

\* and plc_loader_task.
LEMMA SerialLoader ==
    ASSUME Env = {}, SerialInv, LoaderStep
    PROVE  SerialInv'
<1> USE ThreadsAssumption, ProgramsAssumption
    DEF SerialInv, TypeOK, Serial, AtInv, RetInv, TokenInv, ModuleInv, EndInv,
        Active, Home, StoppedLabels, LoadedLabels, UnloadedLabels, Managers,
        Threads, flags, module, semaphore, control
<1>0. TypeOK'
  BY TypeLoader
<1>1. CASE LoaderAutostart
  BY <1>0, <1>1 DEF LoaderAutostart, Goto
<1>2. CASE LoaderPoll
  BY <1>0, <1>2 DEF LoaderPoll, Goto
<1>3. CASE LoaderReloadRunning
  BY <1>0, <1>3 DEF LoaderReloadRunning
<1>4. CASE LoaderReloadDone
  BY <1>0, <1>4 DEF LoaderReloadDone, Goto
<1> QED
  BY <1>1, <1>2, <1>3, <1>4 DEF LoaderStep

\* A patient client calls when nothing is under way and no reload requested.
LEMMA SerialCall ==
    ASSUME Env = {}, SerialInv, NEW c \in Callers, NEW op \in OpNames, Call(c, op)
    PROVE  SerialInv'
<1> USE ThreadsAssumption DEF SerialInv, Managers, Threads, flags, module, semaphore
<1>1. /\ \A t \in Callers : at[t] = "idle"
      /\ at[Loader] = "poll" /\ reload_plc_file = 0
      /\ op = "newplc" => plc_run = 0
      /\ op = "load" => plc_initialized = 0
  BY DEF Call, MayCall
<1>2. /\ at' = [at EXCEPT ![c] = Entry[op]]
      /\ UNCHANGED <<flags, module, semaphore, outputs, arg, ret>>
  BY DEF Call, Goto
<1>3. Entry[op] \in {"start_initialized", "stop_running", "erase_initialized",
                     "unload_initialized", "load_read", "newplc_stop"}
      /\ (Entry[op] = "load_read" => op = "load")
      /\ (Entry[op] = "newplc_stop" => op = "newplc")
  BY DEF Entry, OpNames
<1>4. TypeOK'
  BY <1>1, <1>2, <1>3 DEF TypeOK, CallerLabels, ServiceLabels, LoaderLabels, MainLabels
<1>5. Serial'
  BY <1>1, <1>2 DEF Serial, Home, TypeOK
<1>6. AtInv'
  BY <1>1, <1>2, <1>3 DEF AtInv, TypeOK, StoppedLabels, LoadedLabels, UnloadedLabels,
     ModuleInv
<1>7. RetInv' /\ ModuleInv' /\ EndInv'
  BY <1>1, <1>2, <1>3 DEF RetInv, ModuleInv, EndInv, TypeOK
<1>8. TokenInv'
  BY <1>1, <1>2, <1>3 DEF TokenInv, Active, TypeOK
<1> QED
  BY <1>4, <1>5, <1>6, <1>7, <1>8

\* The invariant holds at boot.
LEMMA SerialInit == ASSUME Init PROVE SerialInv
<1>1. PICK autostart \in BOOLEAN : Boot(autostart)
  BY DEF Init
<1>2. TypeOK
  BY TypeInit
<1>3. /\ at[Main] = "wait" /\ at[Loader] \in {"load_read", "poll"}
      /\ \A c \in Callers : at[c] = "idle" /\ ret[c] = "idle"
      /\ ret[Loader] = IF at[Loader] = "load_read" THEN "autostart" ELSE "poll"
  BY <1>1, ThreadsAssumption DEF Boot, Managers, Threads
<1>4. Serial /\ RetInv
  BY <1>3, ThreadsAssumption DEF Init, Serial, RetInv, Home, Managers
<1>5. AtInv
  BY <1>3, ThreadsAssumption DEF Init, AtInv, StoppedLabels, LoadedLabels,
     UnloadedLabels, Managers
<1>6. TokenInv /\ ModuleInv /\ EndInv
  BY <1>3, ThreadsAssumption DEF Init, TokenInv, ModuleInv, EndInv, Active, Managers
<1> QED
  BY <1>2, <1>4, <1>5, <1>6 DEF SerialInv

\* The invariant of the patient client.
LEMMA SerialInvariant == Env = {} => (Spec => []SerialInv)
<1> SUFFICES ASSUME Env = {} PROVE Spec => []SerialInv
  OBVIOUS
<1>1. Init => SerialInv
  BY SerialInit
<1>2. SerialInv /\ [Next]_vars => SerialInv'
  <2> SUFFICES ASSUME SerialInv, [Next]_vars PROVE SerialInv'
    OBVIOUS
  <2>1. CASE MainStep
    BY <2>1, SerialMain
  <2>2. CASE LoaderStep
    BY <2>2, SerialLoader
  <2>3. ASSUME NEW t \in Managers, ServiceStep(t) PROVE SerialInv'
    BY <2>3, SerialService
  <2>4. ASSUME NEW c \in Callers, CallerStep(c) PROVE SerialInv'
    BY <2>4, SerialCaller
  <2>5. ASSUME NEW c \in Callers, NEW op \in OpNames, Call(c, op) PROVE SerialInv'
    BY <2>5, SerialCall
  <2>6. CASE UNCHANGED vars
    BY <2>6 DEF vars, flags, module, semaphore, control, SerialInv, TypeOK, Serial,
       AtInv, RetInv, TokenInv, ModuleInv, EndInv, Active
  <2> QED
    BY <2>1, <2>2, <2>3, <2>4, <2>5, <2>6 DEF Next
<1> QED
  BY <1>1, <1>2, PTL DEF Spec

\* For a patient client: when plc_set_stop reports "stopped plc thread"
\* plc_main is back at its wait, plc_run is 0 and the pins are off.
THEOREM SerialStop == Env = {} => (Spec => []StopMeansStopped)
<1>1. SerialInv => StopMeansStopped
  BY DEF SerialInv, Serial, AtInv, TokenInv, EndInv, Home, StoppedLabels, StopMeansStopped,
     Active, Managers
<1> QED
  BY <1>1, SerialInvariant, PTL

\* For a patient client plc_main executes the code of the module in memory,
\* after its config_init__.
THEOREM SerialCode == Env = {} => (Spec => []NoStaleCode)
<1>1. SerialInv => NoStaleCode
  <2> SUFFICES ASSUME SerialInv, InProgram PROVE NoStaleCode
    BY DEF NoStaleCode
  <2>1. Active
    BY DEF InProgram, Active
  <2>2. plc_initialized = 1 /\ \A t \in Managers : at[t] # "erase_clear"
    BY <2>1 DEF SerialInv, Serial, AtInv, TokenInv, ModuleInv, Home, StoppedLabels,
       LoadedLabels, Managers
  <2> QED
    BY <2>2 DEF SerialInv, ModuleInv, NoStaleCode
<1> QED
  BY <1>1, SerialInvariant, PTL

\* For a patient client the pins are off while plc_main is parked by a stop.
THEOREM SerialOutputs == Env = {} => (Spec => []OutputsOffWhenParked)
<1>1. SerialInv => OutputsOffWhenParked
  BY DEF SerialInv, EndInv, OutputsOffWhenParked, Parked
<1> QED
  BY <1>1, SerialInvariant, PTL

\* For a patient client plc_initialized tells, between calls, whether a module
\* is loaded.
THEOREM SerialLoaderState == Env = {} => (Spec => []LoaderState)
<1>1. SerialInv => LoaderState
  BY DEF SerialInv, ModuleInv, LoaderState, Home, Managers
<1> QED
  BY <1>1, SerialInvariant, PTL

-----------------------------------------------------------------------------
(* Steps: the module and the token.                                        *)

\* In every step the module stays as it is, or the PLC is stopped and stays so.
LEMMA ModuleStep ==
    ASSUME SerialInv, [Next]_vars, mod' # mod
    PROVE  /\ ~Active /\ sem_plc_run = 0 /\ plc_run = 0
           /\ ~Active' /\ sem_plc_run' = 0 /\ plc_run' = 0
<1> USE ThreadsAssumption DEF flags, module, semaphore, control
<1>1. PICK t \in Managers : UnloadFree(t) \/ LoadLink(t) \/ EraseFree(t)
  <2>1. ~MainStep
    BY DEF MainStep, MainWait, MainInitIo, MainConfigInit, MainConfigRun, MainReadRun,
       MainDrive, MainSleep, MainGive
  <2>2. ~LoaderStep
    BY DEF LoaderStep, LoaderAutostart, LoaderPoll, LoaderReloadRunning, LoaderReloadDone
  <2>3. ASSUME NEW t \in Managers, ServiceStep(t) PROVE UnloadFree(t) \/ LoadLink(t)
    BY <2>3 DEF ServiceStep, StartInitialized, StartRunning, StartSet, StartGive,
       StopRunning, StopClear, StopTake, StopTimeout, StopReset, Stopped, UnloadCheck,
       UnloadClear, LoadRead, LoadSet
  <2>4. ASSUME NEW c \in Callers, CallerStep(c) PROVE EraseFree(c)
    BY <2>4 DEF CallerStep, EraseInitialized, EraseRunning, EraseClear, EraseFiles,
       UnloadInitialized, UnloadRunning, NewPlcStop, NewPlcFile, NewPlcReload
  <2>5. ~ \E c \in Callers, op \in OpNames : Call(c, op)
    BY DEF Call
  <2>6. ~UNCHANGED vars
    BY DEF vars
  <2> QED
    BY <2>1, <2>2, <2>3, <2>4, <2>5, <2>6 DEF Next, Managers
<1>2. at[t] \in {"unload_free", "load_link", "erase_free"}
  BY <1>1 DEF UnloadFree, LoadLink, EraseFree, Goto
<1>3. ~Active /\ sem_plc_run = 0 /\ plc_run = 0
  BY <1>2 DEF SerialInv, TypeOK, Serial, AtInv, TokenInv, Home, StoppedLabels, Managers
<1>4. sem_plc_run' = sem_plc_run /\ plc_run' = plc_run
  BY <1>1 DEF UnloadFree, LoadLink, EraseFree
<1>5. at'[Main] = at[Main]
  BY <1>1 DEF UnloadFree, LoadLink, EraseFree, LoadFails, Return, Goto, SerialInv, TypeOK,
     Managers, Threads
<1> QED
  BY <1>3, <1>4, <1>5 DEF Active

\* For a patient client the module is freed or replaced only while plc_main
\* waits and no run is signalled.
THEOREM SerialModule == Env = {} => (Spec => ModuleChangesOnlyStopped)
<1>1. SerialInv /\ [Next]_vars => [mod' # mod => ~Active /\ sem_plc_run = 0]_vars
  BY ModuleStep
<1> QED
  BY <1>1, SerialInvariant, PTL DEF Spec, ModuleChangesOnlyStopped

-----------------------------------------------------------------------------
(* Refinement of PlcControl.                                               *)

\* plc_main leaves its wait on a token that is there or being given.
LEMMA LeaveWait ==
    ASSUME SerialInv, [Next]_vars, ~Active, Active'
    PROVE  plc_run = 1 \/ Stopping
<1> USE ThreadsAssumption DEF Active, Managers, Threads
<1>1. sem_plc_run = 1 => plc_run = 1 \/ Stopping
  BY DEF SerialInv, TokenInv, Stopping
<1>2. CASE MainStep
  <2>1. MainWait
    BY <1>2 DEF MainStep, MainInitIo, MainConfigInit, MainConfigRun, MainReadRun,
       MainDrive, MainSleep, MainGive, Goto
  <2> QED
    BY <2>1, <1>1 DEF MainWait, SemTake, SerialInv, TypeOK
<1>3. CASE LoaderStep
  BY <1>3 DEF LoaderStep, LoaderAutostart, LoaderPoll, LoaderReloadRunning,
     LoaderReloadDone, Goto, SerialInv, TypeOK
<1>4. ASSUME NEW t \in Managers, ServiceStep(t) PROVE plc_run = 1 \/ Stopping
  <2>1. CASE StartGive(t)
    BY <2>1 DEF StartGive, SerialInv, AtInv
  <2>2. ~StopReset(t)
    BY DEF StopReset, SerialInv, AtInv
  <2>3. CASE StopTake(t)
    BY <2>3 DEF StopTake, Stopping
  <2>4. CASE StartInitialized(t) \/ StartRunning(t) \/ StartSet(t)
    BY <2>4 DEF StartInitialized, StartRunning, StartSet, Goto, Return, SerialInv, TypeOK
  <2>5. CASE StopRunning(t) \/ StopClear(t) \/ StopTimeout(t) \/ Stopped(t)
    BY <2>5 DEF StopRunning, StopClear, StopTimeout, Stopped, Goto, Return, SerialInv,
       TypeOK
  <2>6. CASE UnloadCheck(t) \/ UnloadClear(t) \/ UnloadFree(t)
    BY <2>6 DEF UnloadCheck, UnloadClear, UnloadFree, Goto, Return, SerialInv, TypeOK
  <2>7. CASE LoadRead(t) \/ LoadLink(t) \/ LoadSet(t)
    BY <2>7 DEF LoadRead, LoadLink, LoadSet, LoadFails, Return, SerialInv, TypeOK
  <2> QED
    BY <1>4, <2>1, <2>2, <2>3, <2>4, <2>5, <2>6, <2>7 DEF ServiceStep
<1>5. ASSUME NEW c \in Callers, CallerStep(c) PROVE FALSE
  BY <1>5 DEF CallerStep, EraseInitialized, EraseRunning, EraseFree, EraseClear,
     EraseFiles, UnloadInitialized, UnloadRunning, NewPlcStop, NewPlcFile, NewPlcReload,
     Goto, SerialInv, TypeOK
<1>6. ASSUME NEW c \in Callers, NEW op \in OpNames, Call(c, op) PROVE FALSE
  BY <1>6 DEF Call, Goto, SerialInv, TypeOK
<1>7. CASE UNCHANGED vars
  BY <1>7 DEF vars, control
<1> QED
  BY <1>2, <1>3, <1>4, <1>5, <1>6, <1>7 DEF Next

\* Every step is a step of PlcControl or leaves its variables alone.
LEMMA ControlStep ==
    ASSUME SerialInv, SerialInv', [Next]_vars
    PROVE  [Control!Next]_Control!vars
<1> DEFINE started == plc_run = 1 \/ Stopping
<1> USE DEF Control!vars
<1>1. (Active => started) /\ (Active => started)'
  BY DEF SerialInv, TokenInv, Stopping
<1>2. (started => mod # NoProgram)'
  BY DEF SerialInv, ModuleInv, AtInv, Serial, Home, StoppedLabels, LoadedLabels, Managers,
     Stopping
<1>3. CASE mod' # mod
  <2>1. /\ ~Active /\ ~Active' /\ plc_run = 0 /\ plc_run' = 0
        /\ sem_plc_run = 0 /\ sem_plc_run' = 0
    BY <1>3, ModuleStep
  <2>2. ~started /\ ~started'
    BY <2>1 DEF SerialInv, TokenInv, Stopping
  <2>3. mod' \in Programs \cup {NoProgram}
    BY DEF SerialInv, TypeOK
  <2> QED
    BY <2>1, <2>2, <2>3 DEF Control!Next, Control!Replace, Active
<1>4. CASE mod' = mod /\ ~started /\ started'
  <2>1. ~Active'
    BY <1>1, <1>4, LeaveWait
  <2> QED
    BY <1>1, <1>2, <1>4, <2>1 DEF Control!Next, Control!Start, Active
<1>5. CASE mod' = mod /\ started /\ ~started'
  BY <1>1, <1>5 DEF Control!Next, Control!Stop
<1>6. CASE mod' = mod /\ started' = started
  BY <1>1, <1>6 DEF Control!Next, Control!Execute, Active
<1> QED
  BY <1>3, <1>4, <1>5, <1>6

\* For a patient client the code implements PlcControl.
THEOREM SerialControl == Env = {} => (Spec => ImplementsControl)
<1>1. Init => Control!Init
  <2> SUFFICES ASSUME Init PROVE Control!Init
    OBVIOUS
  <2>1. SerialInv /\ plc_run = 0 /\ sem_plc_run = 0 /\ at[Main] = "wait" /\ mod = NoProgram
    BY SerialInit, ThreadsAssumption DEF Init, Boot, Threads
  <2>2. ~Stopping /\ ~Active
    BY <2>1 DEF SerialInv, TokenInv, Stopping, Active
  <2> QED
    BY <2>1, <2>2 DEF Control!Init, Active
<1>2. SerialInv /\ SerialInv' /\ [Next]_vars => [Control!Next]_Control!vars
  BY ControlStep
<1> QED
  BY <1>1, <1>2, SerialInvariant, PTL DEF Spec, ImplementsControl, Control!Spec

-----------------------------------------------------------------------------
(* The reload of an uploaded program.                                      *)

\* While a reload is requested the PLC is stopped, the file is the uploaded
\* one, and plc_loader passes on what it read from it.
ReloadInv ==
    reload_plc_file = 1 =>
        /\ plc_run = 0 /\ file = uploaded
        /\ at[Loader] \in {"unload_check", "unload_clear", "unload_free"} =>
              ret[Loader] = "load_read"
        /\ at[Loader] \in {"load_read", "load_link", "load_set"} =>
              ret[Loader] = "reload_done"
        /\ at[Loader] \in {"poll", "reload_running", "unload_check", "unload_clear",
                           "unload_free", "load_read", "load_link", "load_set",
                           "reload_done"}
        /\ at[Loader] = "load_link" => elf_buffer = file
        /\ at[Loader] = "load_set" => mod = file
        /\ at[Loader] = "reload_done" => plc_initialized = 0 \/ ptr = file

\* Only plc_loader works on a requested reload.
LEMMA ReloadStep ==
    ASSUME Env = {}, SerialInv, ReloadInv, [Next]_vars
    PROVE  ReloadInv'
<1> USE ThreadsAssumption DEF ReloadInv, Managers, Threads, flags, module, semaphore
<1>1. CASE MainStep
  <2>1. CASE MainGive
    BY <2>1 DEF MainGive, SemGive, SerialInv, TypeOK
  <2>2. CASE MainWait
    BY <2>2 DEF MainWait, SemTake, SerialInv, TypeOK
  <2> QED
    BY <1>1, <2>1, <2>2 DEF MainStep, MainInitIo, MainConfigInit, MainConfigRun,
       MainReadRun, MainDrive, MainSleep, Goto, SerialInv, TypeOK
<1>2. CASE LoaderStep
  BY <1>2 DEF LoaderStep, LoaderAutostart, LoaderPoll, LoaderReloadRunning,
     LoaderReloadDone, Goto, SerialInv, TypeOK
<1>3. ASSUME NEW t \in Managers, ServiceStep(t) PROVE ReloadInv'
  <2>1. CASE reload_plc_file = 0
    <3>1. reload_plc_file' = 0
      BY <1>3, <2>1 DEF ServiceStep, StartInitialized, StartRunning, StartSet, StartGive,
         StopRunning, StopClear, StopTake, StopTimeout, StopReset, Stopped, UnloadCheck,
         UnloadClear, UnloadFree, LoadRead, LoadLink, LoadSet
    <3> QED
      BY <3>1
  <2>2. CASE reload_plc_file = 1
    <3>1. t = Loader
      <4>1. at[t] # "idle"
        BY <1>3 DEF ServiceStep, StartInitialized, StartRunning, StartSet, StartGive,
           StopRunning, StopClear, StopTake, StopTimeout, StopReset, Stopped,
           UnloadCheck, UnloadClear, UnloadFree, LoadRead, LoadLink, LoadSet, Goto
      <4> QED
        BY <2>2, <4>1 DEF SerialInv, Serial
    <3>2. \/ UnloadCheck(t) \/ UnloadClear(t) \/ UnloadFree(t)
          \/ LoadRead(t) \/ LoadLink(t) \/ LoadSet(t)
      BY <1>3, <2>2, <3>1 DEF ServiceStep, StartInitialized, StartRunning, StartSet,
         StartGive, StopRunning, StopClear, StopTake, StopTimeout, StopReset, Stopped, Goto
    <3>3. CASE UnloadCheck(t) \/ UnloadClear(t)
      BY <2>2, <3>1, <3>3 DEF UnloadCheck, UnloadClear, Return, Goto, SerialInv, TypeOK
    <3>4. CASE UnloadFree(t)
      BY <2>2, <3>1, <3>4 DEF UnloadFree, Return, SerialInv, TypeOK
    <3>5. CASE LoadRead(t)
      BY <2>2, <3>1, <3>5 DEF LoadRead, LoadFails, Return, SerialInv, TypeOK, AtInv,
         UnloadedLabels
    <3>6. CASE LoadLink(t)
      BY <2>2, <3>1, <3>6 DEF LoadLink, LoadFails, Return, SerialInv, TypeOK, AtInv,
         UnloadedLabels
    <3>7. CASE LoadSet(t)
      BY <2>2, <3>1, <3>7 DEF LoadSet, Return, SerialInv, TypeOK
    <3> QED
      BY <3>2, <3>3, <3>4, <3>5, <3>6, <3>7
  <2> QED
    BY <2>1, <2>2 DEF SerialInv, TypeOK
<1>4. ASSUME NEW c \in Callers, CallerStep(c) PROVE ReloadInv'
  <2>1. at[c] # "idle"
    BY <1>4 DEF CallerStep, EraseInitialized, EraseRunning, EraseFree, EraseClear,
       EraseFiles, UnloadInitialized, UnloadRunning, NewPlcStop, NewPlcFile,
       NewPlcReload, Goto
  <2>2. reload_plc_file = 0 /\ at[Loader] = "poll"
    BY <2>1 DEF SerialInv, Serial, TypeOK, Home
  <2>3. CASE NewPlcReload(c)
    BY <2>2, <2>3 DEF NewPlcReload, Goto, SerialInv, TypeOK, AtInv, StoppedLabels
  <2>4. CASE ~NewPlcReload(c)
    BY <1>4, <2>2, <2>4 DEF CallerStep, EraseInitialized, EraseRunning, EraseFree,
       EraseClear, EraseFiles, UnloadInitialized, UnloadRunning, NewPlcStop, NewPlcFile
  <2> QED
    BY <2>3, <2>4
<1>5. ASSUME NEW c \in Callers, NEW op \in OpNames, Call(c, op) PROVE ReloadInv'
  BY <1>5 DEF Call, MayCall
<1>6. CASE UNCHANGED vars
  BY <1>6 DEF vars, control
<1> QED
  BY <1>1, <1>2, <1>3, <1>4, <1>5, <1>6 DEF Next

\* A reload request is taken back at one statement.
LEMMA ReloadTaken ==
    ASSUME SerialInv, ReloadInv, [Next]_vars, reload_plc_file = 1, reload_plc_file' = 0
    PROVE  plc_initialized = 0 \/ ptr = file
<1> USE DEF flags
<1>1. LoaderStep
  <2>1. ~MainStep
    BY DEF MainStep, MainWait, MainInitIo, MainConfigInit, MainConfigRun, MainReadRun,
       MainDrive, MainSleep, MainGive
  <2>2. ASSUME NEW t \in Managers, ServiceStep(t) PROVE FALSE
    BY <2>2 DEF ServiceStep, StartInitialized, StartRunning, StartSet, StartGive,
       StopRunning, StopClear, StopTake, StopTimeout, StopReset, Stopped, UnloadCheck,
       UnloadClear, UnloadFree, LoadRead, LoadLink, LoadSet
  <2>3. ASSUME NEW c \in Callers, CallerStep(c) PROVE FALSE
    BY <2>3 DEF CallerStep, EraseInitialized, EraseRunning, EraseFree, EraseClear,
       EraseFiles, UnloadInitialized, UnloadRunning, NewPlcStop, NewPlcFile, NewPlcReload
  <2>4. ~ \E c \in Callers, op \in OpNames : Call(c, op)
    BY DEF Call
  <2>5. ~UNCHANGED vars
    BY DEF vars
  <2> QED
    BY <2>1, <2>2, <2>3, <2>4, <2>5 DEF Next
<1>2. LoaderReloadDone
  BY <1>1 DEF LoaderStep, LoaderAutostart, LoaderPoll, LoaderReloadRunning
<1> QED
  BY <1>2 DEF LoaderReloadDone, Goto, ReloadInv

\* For a patient client plc_loader takes a reload request back only when the
\* program the next start will run is the uploaded one, or none is loaded.
THEOREM SerialReload == Env = {} => (Spec => ReloadServed)
<1> SUFFICES ASSUME Env = {} PROVE Spec => ReloadServed
  OBVIOUS
<1>1. Init => ReloadInv
  BY DEF Init, ReloadInv
<1>2. SerialInv /\ ReloadInv /\ [Next]_vars => ReloadInv'
  BY ReloadStep
<1>3. SerialInv /\ ReloadInv /\ [Next]_vars =>
        [reload_plc_file = 1 /\ reload_plc_file' = 0
            => plc_initialized = 0 \/ ptr \in {uploaded, file}]_vars
  BY ReloadTaken
<1>4. Spec => []SerialInv
  BY SerialInvariant
<1> QED
  BY <1>1, <1>2, <1>3, <1>4, PTL DEF Spec, ReloadServed
=============================================================================
