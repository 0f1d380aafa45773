-------------------------------- MODULE PlcRun --------------------------------
(***************************************************************************)
(* The life cycle of the PLC program: the plc_main thread (plc_task.c),    *)
(* the start, stop, load, unload and erase services of plc_loader.c, the   *)
(* plc_loader thread, and the threads that call those services: the RPC    *)
(* server (plc_rpc.c) and the shell.  They share the flags plc_run,        *)
(* plc_initialized and reload_plc_file, the loaded module, and the binary  *)
(* semaphore sem_plc_run.                                                  *)
(*                                                                         *)
(* Each step is one access to the shared state, so that every              *)
(* interleaving of the threads' statements is a behaviour.  A thread whose *)
(* control is at a statement may be anywhere inside it: plc_main is        *)
(* executing program code while it is at "config_init" or "config_run".    *)
(*                                                                         *)
(* What the environment may do beyond a patient client that issues one     *)
(* call at a time is the set Env:                                          *)
(*   "concurrent"      two callers overlap (RPC client and shell user)     *)
(*   "impatient"       a call is made while plc_loader has work to do      *)
(*   "upload_running"  NewPLC is called while plc_run is 1                 *)
(*   "overrun"         a PLC cycle can outlast the second plc_set_stop     *)
(*                     waits for it                                        *)
(*   "load_over"       the shell loads a module over a loaded one          *)
(***************************************************************************)
EXTENDS Naturals

CONSTANTS
    Main,       \* the thread plc_main
    Loader,     \* the thread plc_loader
    Callers,    \* the threads that call the loader's services
    Ops,        \* Ops[c]: the operations caller c may call
    Programs,   \* PLC programs that can be uploaded
    NoProgram,  \* no file, or no module
    Env         \* what the environment may do, see above

OpNames == {"start", "stop", "repair", "unload", "load", "newplc"}

EnvNames == {"concurrent", "impatient", "upload_running", "overrun", "load_over"}

ASSUME ThreadsAssumption ==
    /\ Main # Loader
    /\ Main \notin Callers /\ Loader \notin Callers

ASSUME OpsAssumption == Ops \in [Callers -> SUBSET OpNames]

ASSUME ProgramsAssumption == NoProgram \notin Programs

ASSUME EnvAssumption == Env \subseteq EnvNames

VARIABLES
    plc_run,            \* plc_loader.c: the run flag
    plc_initialized,    \* plc_loader.c: a module is loaded
    reload_plc_file,    \* plc_loader.c: request to plc_loader
    mod,                \* the program the udynlink handle mod holds
    ptr,                \* the program plc_config_init__ ... point into
    file,               \* the program in PLC_BIN_FILE
    elf_buffer,         \* the program read into elf_buffer
    sem_plc_run,        \* count of the semaphore
    pending,            \* threads pended on the semaphore
    outputs,            \* the output pins are driven with the program's QX
    at,                 \* at[t]: the statement thread t is at
    ret,                \* ret[t]: where t continues after the service call
    arg,                \* the argument plc_main passes to plc_update_outputs
    inited,             \* history: config_init__ ran since ptr was set
    uploaded            \* history: the program of the last NewPLC that set
                        \* reload_plc_file

flags == <<plc_run, plc_initialized, reload_plc_file>>
module == <<mod, ptr, file, elf_buffer, inited, uploaded>>
semaphore == <<sem_plc_run, pending>>
control == <<at, ret>>
vars == <<flags, module, semaphore, outputs, arg, control>>

Managers == Callers \cup {Loader}
Threads == Managers \cup {Main}

MainLabels ==
    {"wait", "init_io", "config_init", "config_run", "read_run", "drive",
     "sleep", "read_last", "drive_last", "give"}

ServiceLabels ==
    {"start_initialized", "start_running", "start_set", "start_give",
     "stop_running", "stop_clear", "stop_take", "stop_reset", "stopped",
     "unload_check", "unload_clear", "unload_free",
     "load_read", "load_link", "load_set"}

CallerLabels ==
    {"idle", "erase_initialized", "erase_running", "erase_free",
     "erase_clear", "erase_files", "unload_initialized", "unload_running",
     "newplc_stop", "newplc_file", "newplc_reload"}

LoaderLabels == {"poll", "autostart", "reload_running", "reload_done"}

-----------------------------------------------------------------------------
(* The Zephyr semaphore and the control of the threads.                    *)

Goto(t, from, to) ==
    /\ at[t] = from
    /\ at' = [at EXCEPT ![t] = to]

\* Where a thread is when no service call is under way.
Home(t) == IF t = Loader THEN "poll" ELSE "idle"

\* The service call of t returns to ret[t]; there, plc_loader's reload goes
\* from its unload to its load (lines 183 and 189), every other caller is
\* done with the call.
Return(t) ==
    /\ at' = [at EXCEPT ![t] = ret[t]]
    /\ ret' = [ret EXCEPT ![t] = IF ret[t] = "load_read" THEN "reload_done"
                                                         ELSE Home(t)]

\* Where a pended thread continues when it is handed the token.
Woken(w) == IF w = Main THEN "init_io" ELSE "stopped"

\* Mutant: the give always counts up, a pended thread is not woken.
SemGiveCounts(t, to) ==
    /\ sem_plc_run' = 1
    /\ at' = [at EXCEPT ![t] = to]
    /\ UNCHANGED pending

\* k_sem_give(&sem_plc_run) by t, which goes on to label to: hands the token
\* to a pended thread, or counts up to the limit of 1.
SemGive(t, to) ==
    /\ \/ /\ pending = {}
          /\ sem_plc_run' = 1
          /\ at' = [at EXCEPT ![t] = to]
          /\ UNCHANGED pending
       \/ \E w \in pending :
             /\ pending' = pending \ {w}
             /\ at' = [at EXCEPT ![t] = to, ![w] = Woken(w)]
             /\ UNCHANGED sem_plc_run

\* k_sem_take(&sem_plc_run, ...) by t: takes the token and goes on, or pends.
SemTake(t, to) ==
    \/ /\ sem_plc_run = 1
       /\ sem_plc_run' = 0
       /\ at' = [at EXCEPT ![t] = to]
       /\ UNCHANGED pending
    \/ /\ sem_plc_run = 0
       /\ t \notin pending
       /\ pending' = pending \cup {t}
       /\ UNCHANGED <<sem_plc_run, at>>

\* k_sem_reset(&sem_plc_run) by t: every pended thread wakes with -EAGAIN.
\* plc_main does not look at the result (plc_task.c:83) and goes on.
SemReset(t, to) ==
    /\ sem_plc_run' = 0
    /\ pending' = {}
    /\ at' = [x \in Threads |->
                 IF x = t THEN to
                 ELSE IF x \notin pending THEN at[x]
                 ELSE IF x = Main THEN "init_io" ELSE "stop_reset"]

-----------------------------------------------------------------------------
(* plc_main_task                                                           *)

\* plc_main is inside code of the loaded program.
InProgram == at[Main] \in {"config_init", "config_run"}

\* plc_main is pended and nothing is there to wake it.
Parked == at[Main] = "wait" /\ Main \in pending

\* k_sem_take(&sem_plc_run, K_FOREVER)
MainWait ==
    /\ at[Main] = "wait"
    /\ SemTake(Main, "init_io")
    /\ UNCHANGED <<flags, module, outputs, arg, ret>>

\* plc_init_io: the output pins are configured inactive
MainInitIo ==
    /\ Goto(Main, "init_io", "config_init")
    /\ outputs' = FALSE
    /\ UNCHANGED <<flags, module, semaphore, arg, ret>>

\* config_init__ returns
MainConfigInit ==
    /\ Goto(Main, "config_init", "config_run")
    /\ inited' = TRUE
    /\ UNCHANGED <<flags, mod, ptr, file, elf_buffer, uploaded, semaphore, outputs, arg, ret>>

\* config_run__ returns
MainConfigRun ==
    /\ Goto(Main, "config_run", "read_run")
    /\ UNCHANGED <<flags, module, semaphore, outputs, arg, ret>>

\* Mutant: the outputs are always updated with 1.
MainReadRunOn ==
    /\ \/ Goto(Main, "read_run", "drive")
       \/ Goto(Main, "read_last", "drive_last")
    /\ arg' = 1
    /\ UNCHANGED <<flags, module, semaphore, outputs, ret>>

\* plc_update_outputs(plc_run): the argument is read, then the pins are set
MainReadRun ==
    /\ \/ Goto(Main, "read_run", "drive")
       \/ Goto(Main, "read_last", "drive_last")
    /\ arg' = plc_run
    /\ UNCHANGED <<flags, module, semaphore, outputs, ret>>

MainDrive ==
    /\ \/ Goto(Main, "drive", "sleep")
       \/ Goto(Main, "drive_last", "give")
    /\ outputs' = (arg = 1)
    /\ UNCHANGED <<flags, module, semaphore, arg, ret>>

\* Mutant: the loop is left without the final plc_update_outputs.
MainSleepNoReset ==
    /\ Goto(Main, "sleep", IF plc_run = 1 THEN "config_run" ELSE "give")
    /\ UNCHANGED <<flags, module, semaphore, outputs, arg, ret>>

\* k_msleep ends and the loop condition is evaluated
MainSleep ==
    /\ Goto(Main, "sleep", IF plc_run = 1 THEN "config_run" ELSE "read_last")
    /\ UNCHANGED <<flags, module, semaphore, outputs, arg, ret>>

\* Mutant: plc_main does not acknowledge its stop.
MainGiveForgotten ==
    /\ Goto(Main, "give", "wait")
    /\ UNCHANGED <<flags, module, semaphore, outputs, arg, ret>>

\* k_sem_give(&sem_plc_run)
MainGive ==
    /\ at[Main] = "give"
    /\ SemGive(Main, "wait")
    /\ UNCHANGED <<flags, module, outputs, arg, ret>>

MainStep ==
    \/ MainWait \/ MainInitIo \/ MainConfigInit \/ MainConfigRun
    \/ MainReadRun \/ MainDrive \/ MainSleep \/ MainGive

-----------------------------------------------------------------------------
(* plc_set_start and plc_set_stop                                          *)

\* Mutant: plc_set_start does not look at plc_initialized.
StartUninitialized(t) ==
    /\ Goto(t, "start_initialized", "start_running")
    /\ UNCHANGED <<flags, module, semaphore, outputs, arg, ret>>

StartInitialized(t) ==
    /\ at[t] = "start_initialized"
    /\ IF plc_initialized > 0
       THEN at' = [at EXCEPT ![t] = "start_running"] /\ UNCHANGED ret
       ELSE Return(t)
    /\ UNCHANGED <<flags, module, semaphore, outputs, arg>>

\* Mutant: a running PLC is started once more.
StartAgain(t) ==
    /\ Goto(t, "start_running", "start_set")
    /\ UNCHANGED <<flags, module, semaphore, outputs, arg, ret>>

StartRunning(t) ==
    /\ at[t] = "start_running"
    /\ IF plc_run = 0
       THEN at' = [at EXCEPT ![t] = "start_set"] /\ UNCHANGED ret
       ELSE Return(t)
    /\ UNCHANGED <<flags, module, semaphore, outputs, arg>>

\* Mutant: plc_run is set, the run is not signalled.
StartSetOnly(t) ==
    /\ at[t] = "start_set"
    /\ plc_run' = 1
    /\ Return(t)
    /\ UNCHANGED <<plc_initialized, reload_plc_file, module, semaphore, outputs, arg>>

StartSet(t) ==
    /\ Goto(t, "start_set", "start_give")
    /\ plc_run' = 1
    /\ UNCHANGED <<plc_initialized, reload_plc_file, module, semaphore, outputs, arg, ret>>

StartGive(t) ==
    /\ at[t] = "start_give"
    /\ SemGive(t, ret[t])
    /\ ret' = [ret EXCEPT ![t] = Home(t)]
    /\ UNCHANGED <<flags, module, outputs, arg>>

StopRunning(t) ==
    /\ at[t] = "stop_running"
    /\ IF plc_run = 1
       THEN at' = [at EXCEPT ![t] = "stop_clear"] /\ UNCHANGED ret
       ELSE Return(t)
    /\ UNCHANGED <<flags, module, semaphore, outputs, arg>>

StopClear(t) ==
    /\ Goto(t, "stop_clear", "stop_take")
    /\ plc_run' = 0
    /\ UNCHANGED <<plc_initialized, reload_plc_file, module, semaphore, outputs, arg, ret>>

\* Mutant: the token is not waited for (K_NO_WAIT, result ignored).
StopTakeNoWait(t) ==
    /\ Goto(t, "stop_take", "stopped")
    /\ sem_plc_run' = 0
    /\ UNCHANGED <<flags, module, pending, outputs, arg, ret>>

\* k_sem_take(&sem_plc_run, K_MSEC(1000))
StopTake(t) ==
    /\ at[t] = "stop_take"
    /\ SemTake(t, "stopped")
    /\ UNCHANGED <<flags, module, outputs, arg, ret>>

\* Mutant: the wait never ends (K_FOREVER).
StopTimeoutNever(t) ==
    /\ FALSE
    /\ UNCHANGED vars

\* The wait of one second ends.  plc_main would have given the token by then
\* unless its cycle is that long, it is itself waiting, or plc_run was set
\* again in the meantime.
StopTimeout(t) ==
    /\ t \in pending
    /\ Goto(t, "stop_take", "stop_reset")
    /\ "overrun" \in Env \/ at[Main] = "wait" \/ plc_run = 1
    /\ pending' = pending \ {t}
    /\ UNCHANGED <<flags, module, sem_plc_run, outputs, arg, ret>>

\* k_sem_reset, and the return from plc_set_stop
StopReset(t) ==
    /\ at[t] = "stop_reset"
    /\ SemReset(t, ret[t])
    /\ ret' = [ret EXCEPT ![t] = Home(t)]
    /\ UNCHANGED <<flags, module, outputs, arg>>

\* "stopped plc thread", and the return from plc_set_stop
Stopped(t) ==
    /\ at[t] = "stopped"
    /\ Return(t)
    /\ UNCHANGED <<flags, module, semaphore, outputs, arg>>

-----------------------------------------------------------------------------
(* unload_plc_module and load_plc_module                                   *)

UnloadCheck(t) ==
    /\ at[t] = "unload_check"
    /\ IF plc_run = 0 /\ plc_initialized = 1
       THEN at' = [at EXCEPT ![t] = "unload_clear"] /\ UNCHANGED ret
       ELSE Return(t)
    /\ UNCHANGED <<flags, module, semaphore, outputs, arg>>

UnloadClear(t) ==
    /\ Goto(t, "unload_clear", "unload_free")
    /\ plc_initialized' = 0
    /\ UNCHANGED <<plc_run, reload_plc_file, module, semaphore, outputs, arg, ret>>

\* udynlink_unload_module frees the RAM of the module
UnloadFree(t) ==
    /\ at[t] = "unload_free"
    /\ mod' = NoProgram
    /\ Return(t)
    /\ UNCHANGED <<flags, ptr, file, elf_buffer, inited, uploaded, semaphore, outputs, arg>>

\* plc_loader starts the program it has loaded at boot only when the load
\* succeeded; no other caller looks at the result.
LoadFails(t) ==
    IF ret[t] = "autostart"
    THEN at' = [at EXCEPT ![t] = "poll"] /\ ret' = [ret EXCEPT ![t] = "poll"]
    ELSE Return(t)

\* The file is read into elf_buffer and its CRC is checked.
LoadRead(t) ==
    /\ at[t] = "load_read"
    /\ \/ /\ file # NoProgram
          /\ elf_buffer' = file
          /\ at' = [at EXCEPT ![t] = "load_link"]
          /\ UNCHANGED ret
       \/ LoadFails(t) /\ UNCHANGED elf_buffer
    /\ UNCHANGED <<flags, mod, ptr, file, inited, uploaded, semaphore, outputs, arg>>

\* Mutant: the errors of udynlink_load_module and of the lookups are ignored.
LoadLinkUnchecked(t) ==
    /\ Goto(t, "load_link", "load_set")
    /\ mod' \in {elf_buffer, NoProgram}
    /\ UNCHANGED <<flags, ptr, file, elf_buffer, inited, uploaded, semaphore, outputs, arg, ret>>

\* udynlink_load_module fills mod.  When it fails it leaves the handle empty,
\* the lookup of config_init__ in it finds nothing, and the load fails; the
\* lookups can fail in a module that was linked, too.
LoadLink(t) ==
    /\ at[t] = "load_link"
    /\ \/ mod' = elf_buffer /\ at' = [at EXCEPT ![t] = "load_set"] /\ UNCHANGED ret
       \/ mod' \in {elf_buffer, NoProgram} /\ LoadFails(t)
    /\ UNCHANGED <<flags, ptr, file, elf_buffer, inited, uploaded, semaphore, outputs, arg>>

\* The function pointers are set, and plc_initialized.
LoadSet(t) ==
    /\ at[t] = "load_set"
    /\ ptr' = mod
    /\ inited' = FALSE
    /\ plc_initialized' = 1
    /\ Return(t)
    /\ UNCHANGED <<plc_run, reload_plc_file, mod, file, elf_buffer, uploaded, semaphore, outputs, arg>>

-----------------------------------------------------------------------------
(* The callers: erase_plc_programm_flash (RepairPLC and plc erase),        *)
(* cmd_plc_unload_module, and what NewPLC does to the PLC.                 *)

EraseInitialized(c) ==
    /\ Goto(c, "erase_initialized",
            IF plc_initialized > 0 THEN "erase_running" ELSE "erase_files")
    /\ UNCHANGED <<flags, module, semaphore, outputs, arg, ret>>

\* Mutant: the erase frees the module without stopping the PLC.
EraseRunningOn(c) ==
    /\ Goto(c, "erase_running", "erase_free")
    /\ UNCHANGED <<flags, module, semaphore, outputs, arg, ret>>

EraseRunning(c) ==
    /\ at[c] = "erase_running"
    /\ IF plc_run > 0
       THEN /\ at' = [at EXCEPT ![c] = "stop_running"]
            /\ ret' = [ret EXCEPT ![c] = "erase_free"]
       ELSE at' = [at EXCEPT ![c] = "erase_free"] /\ UNCHANGED ret
    /\ UNCHANGED <<flags, module, semaphore, outputs, arg>>

EraseFree(c) ==
    /\ Goto(c, "erase_free", "erase_clear")
    /\ mod' = NoProgram
    /\ UNCHANGED <<flags, ptr, file, elf_buffer, inited, uploaded, semaphore, outputs, arg, ret>>

EraseClear(c) ==
    /\ Goto(c, "erase_clear", "erase_files")
    /\ plc_initialized' = 0
    /\ UNCHANGED <<plc_run, reload_plc_file, module, semaphore, outputs, arg, ret>>

\* The flash is erased, then the files; an error on the flash ends it before
\* the files, and so does state = 0.
EraseFiles(c) ==
    /\ Goto(c, "erase_files", "idle")
    /\ file' \in {NoProgram, file}
    /\ UNCHANGED <<flags, mod, ptr, elf_buffer, inited, uploaded, semaphore, outputs, arg, ret>>

UnloadInitialized(c) ==
    /\ Goto(c, "unload_initialized",
            IF plc_initialized > 0 THEN "unload_running" ELSE "idle")
    /\ UNCHANGED <<flags, module, semaphore, outputs, arg, ret>>

UnloadRunning(c) ==
    /\ Goto(c, "unload_running", IF plc_run = 1 THEN "idle" ELSE "unload_check")
    /\ UNCHANGED <<flags, module, semaphore, outputs, arg, ret>>

\* plc_run = 0, and nothing waits for plc_main
NewPlcStop(c) ==
    /\ Goto(c, "newplc_stop", "newplc_file")
    /\ plc_run' = 0
    /\ UNCHANGED <<plc_initialized, reload_plc_file, module, semaphore, outputs, arg, ret>>

\* PLC_BIN_FILE is replaced; a failing rename is only logged, a failing step
\* with the extra files or the md5 file ends the call without a reload.
NewPlcFile(c) ==
    /\ \/ Goto(c, "newplc_file", "newplc_reload")
       \/ Goto(c, "newplc_file", "idle")
    /\ file' \in Programs \cup {NoProgram, file}
    /\ UNCHANGED <<flags, mod, ptr, elf_buffer, inited, uploaded, semaphore, outputs, arg, ret>>

NewPlcReload(c) ==
    /\ Goto(c, "newplc_reload", "idle")
    /\ reload_plc_file' = 1
    /\ uploaded' = file
    /\ UNCHANGED <<plc_run, plc_initialized, mod, ptr, file, elf_buffer, inited, semaphore, outputs, arg, ret>>

\* The first statement of each operation.
Entry ==
    [start |-> "start_initialized", stop |-> "stop_running",
     repair |-> "erase_initialized", unload |-> "unload_initialized",
     load |-> "load_read", newplc |-> "newplc_stop"]

\* The calls the environment makes.
MayCall(op) ==
    /\ "concurrent" \in Env \/ \A c \in Callers : at[c] = "idle"
    /\ "impatient" \in Env \/ (at[Loader] = "poll" /\ reload_plc_file = 0)
    /\ op = "newplc" => "upload_running" \in Env \/ plc_run = 0
    /\ op = "load" => "load_over" \in Env \/ plc_initialized = 0

Call(c, op) ==
    /\ op \in Ops[c]
    /\ MayCall(op)
    /\ Goto(c, "idle", Entry[op])
    /\ UNCHANGED <<flags, module, semaphore, outputs, arg, ret>>

-----------------------------------------------------------------------------
(* plc_loader_task: autostart, then the reload poll.                       *)

LoaderAutostart ==
    /\ Goto(Loader, "autostart", "start_initialized")
    /\ UNCHANGED <<flags, module, semaphore, outputs, arg, ret>>

LoaderPoll ==
    /\ Goto(Loader, "poll", "reload_running")
    /\ reload_plc_file = 1
    /\ UNCHANGED <<flags, module, semaphore, outputs, arg, ret>>

\* Mutant: plc_loader reloads only when nothing is loaded.
LoaderReloadUnloaded ==
    /\ at[Loader] = "reload_running"
    /\ IF plc_run = 0 /\ plc_initialized = 0
       THEN /\ at' = [at EXCEPT ![Loader] = "unload_check"]
            /\ ret' = [ret EXCEPT ![Loader] = "load_read"]
       ELSE at' = [at EXCEPT ![Loader] = "reload_done"] /\ UNCHANGED ret
    /\ UNCHANGED <<flags, module, semaphore, outputs, arg>>

LoaderReloadRunning ==
    /\ at[Loader] = "reload_running"
    /\ IF plc_run = 0
       THEN /\ at' = [at EXCEPT ![Loader] = "unload_check"]
            /\ ret' = [ret EXCEPT ![Loader] = "load_read"]
       ELSE at' = [at EXCEPT ![Loader] = "reload_done"] /\ UNCHANGED ret
    /\ UNCHANGED <<flags, module, semaphore, outputs, arg>>

LoaderReloadDone ==
    /\ Goto(Loader, "reload_done", "poll")
    /\ reload_plc_file' = 0
    /\ ret' = [ret EXCEPT ![Loader] = "poll"]
    /\ UNCHANGED <<plc_run, plc_initialized, module, semaphore, outputs, arg>>

LoaderStep ==
    LoaderAutostart \/ LoaderPoll \/ LoaderReloadRunning \/ LoaderReloadDone

-----------------------------------------------------------------------------

\* Steps inside the services of plc_loader.c.
ServiceStep(t) ==
    \/ StartInitialized(t) \/ StartRunning(t) \/ StartSet(t) \/ StartGive(t)
    \/ StopRunning(t) \/ StopClear(t) \/ StopTake(t) \/ StopTimeout(t)
    \/ StopReset(t) \/ Stopped(t)
    \/ UnloadCheck(t) \/ UnloadClear(t) \/ UnloadFree(t)
    \/ LoadRead(t) \/ LoadLink(t) \/ LoadSet(t)

\* Steps of a caller outside them.
CallerStep(c) ==
    \/ EraseInitialized(c) \/ EraseRunning(c) \/ EraseFree(c)
    \/ EraseClear(c) \/ EraseFiles(c)
    \/ UnloadInitialized(c) \/ UnloadRunning(c)
    \/ NewPlcStop(c) \/ NewPlcFile(c) \/ NewPlcReload(c)

\* At boot plc_loader loads PLC_BIN_FILE and starts it when autostart is set.
Boot(autostart) ==
    /\ at = [t \in Threads |->
                IF t = Main THEN "wait"
                ELSE IF t # Loader THEN "idle"
                ELSE IF autostart THEN "load_read" ELSE "poll"]
    /\ ret = [t \in Managers |->
                IF t # Loader THEN "idle"
                ELSE IF autostart THEN "autostart" ELSE "poll"]

Init ==
    /\ plc_run = 0 /\ plc_initialized = 0 /\ reload_plc_file = 0
    /\ mod = NoProgram /\ ptr = NoProgram /\ elf_buffer = NoProgram /\ uploaded = NoProgram
    /\ file \in Programs \cup {NoProgram}
    /\ sem_plc_run = 0 /\ pending = {}
    /\ outputs = FALSE /\ arg = 0 /\ inited = FALSE
    /\ \E autostart \in BOOLEAN : Boot(autostart)

Next ==
    \/ MainStep
    \/ LoaderStep
    \/ \E t \in Managers : ServiceStep(t)
    \/ \E c \in Callers : CallerStep(c)
    \/ \E c \in Callers, op \in OpNames : Call(c, op)

Spec == Init /\ [][Next]_vars

\* plc_main and plc_loader run, a call that was made is carried on, and a
\* timed wait ends; nobody has to make a call.
Fairness ==
    /\ WF_vars(MainStep)
    /\ WF_vars(LoaderStep)
    /\ \A t \in Managers : WF_vars(ServiceStep(t))
    /\ \A c \in Callers : WF_vars(CallerStep(c))

FairSpec == Spec /\ Fairness

-----------------------------------------------------------------------------
(* Properties                                                              *)

\* Every variable stays in its range: the semaphore is binary, a pended thread
\* is at one of the two statements that take it (plc_task.c:83,
\* plc_loader.c:621), and no thread waits while the token is there.
TypeOK ==
    /\ plc_run \in {0, 1} /\ plc_initialized \in {0, 1} /\ reload_plc_file \in {0, 1}
    /\ {mod, ptr, file, elf_buffer, uploaded} \subseteq Programs \cup {NoProgram}
    /\ sem_plc_run \in {0, 1}
    /\ pending \subseteq {t \in Threads : at[t] \in {"wait", "stop_take"}}
    /\ pending # {} => sem_plc_run = 0
    /\ outputs \in BOOLEAN /\ inited \in BOOLEAN /\ arg \in {0, 1}
    /\ at \in [Threads -> MainLabels \cup ServiceLabels \cup CallerLabels \cup LoaderLabels]
    /\ at[Main] \in MainLabels
    /\ at[Loader] \in LoaderLabels \cup ServiceLabels
    /\ \A c \in Callers : at[c] \in CallerLabels \cup ServiceLabels
    /\ ret \in [Managers -> {"idle", "erase_free", "poll", "autostart",
                             "load_read", "reload_done"}]
    /\ \A c \in Callers : ret[c] \in {"idle", "erase_free"}
    /\ ret[Loader] \notin {"idle", "erase_free"}

\* plc_main has left its wait and not returned to it.
Active == at[Main] # "wait"

\* When plc_set_stop reports "stopped plc thread" (plc_loader.c:629), plc_main
\* is back at its wait, nothing has set plc_run again, and the pins are off.
StopMeansStopped ==
    \A t \in Managers :
        at[t] = "stopped" => ~Active /\ plc_run = 0 /\ ~outputs

\* The code plc_main executes is that of the module in memory, and no cycle
\* runs before the module's config_init__ has: neither unload_plc_module nor
\* the erase frees the module, and no load replaces it, under plc_main.
NoStaleCode ==
    InProgram => /\ mod # NoProgram /\ ptr = mod
                 /\ at[Main] = "config_run" => inited

\* The module is freed or replaced only while plc_main waits for the run signal
\* and none is on its way (plc_loader.c:567, "only if plc is stopped").
ModuleChangesOnlyStopped == [][mod' # mod => ~Active /\ sem_plc_run = 0]_vars

\* While plc_main is parked and the PLC is to be stopped the pins are off
\* (plc_task.c:132, "reset outputs").
OutputsOffWhenParked == Parked /\ plc_run = 0 => ~outputs

\* When plc_loader takes a reload request back, the program the next start will
\* run is the uploaded one, or one that replaced it in the file meanwhile,
\* unless loading it failed and there is none (plc_rpc.c:733, "let plc_loader
\* reload plc module").
ReloadServed ==
    [][reload_plc_file = 1 /\ reload_plc_file' = 0
          => plc_initialized = 0 \/ ptr \in {uploaded, file}]_vars

\* While no service call is under way plc_initialized = 1 says that a module is
\* loaded and that the function pointers are its (plc_loader.c:648).
LoaderState ==
    (\A t \in Managers : at[t] = Home(t)) /\ plc_initialized = 1
        => mod # NoProgram /\ ptr = mod

\* Every call of a service returns: plc_set_stop gives up after its timeout,
\* and nothing else waits.
CallsReturn == \A c \in Callers : at[c] # "idle" ~> at[c] = "idle"

\* No two callers are in a service call at the same time.
Serially == \A c, d \in Callers : c # d => at[c] = "idle" \/ at[d] = "idle"

\* With plc_run set for good plc_main keeps running cycles, while the callers do
\* not overlap: no start is lost between the flag and the semaphore, nor by the
\* answer of an earlier stop that comes late.
StartRuns == []Serially => (<>[](plc_run = 1) => []<>(at[Main] = "config_run"))

\* With plc_run cleared for good, however it was cleared, the pins end up off
\* and stay off.
OutputsSettle == <>[](plc_run = 0) => <>[](~outputs)

\* A stop whose token arrives in time brings plc_main back to its wait.
StopParks ==
    \A c \in Callers : at[c] = "stop_clear" ~> at[c] = "stopped" /\ ~Active

-----------------------------------------------------------------------------
\* The life cycle as a client sees it: started from the flag that plc_set_start
\* sets to the token with which plc_set_stop gets its answer.
Stopping == \E t \in Managers : at[t] = "stop_take"

Control == INSTANCE PlcControl WITH
    started <- plc_run = 1 \/ Stopping,
    executing <- Active,
    program <- mod

\* plc_task.c and plc_loader.c implement the life cycle they promise: a start
\* only of a loaded program, execution only while started, a stop that ends
\* with plc_main at its wait, a change of the program only while stopped.
ImplementsControl == Control!Spec
=============================================================================
