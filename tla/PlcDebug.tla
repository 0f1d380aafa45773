------------------------------- MODULE PlcDebug -------------------------------
(***************************************************************************)
(* Online debugging (plc_debug.c): the debug thread that samples the       *)
(* traced variables between two PLC cycles, plc_main's side of the         *)
(* semaphore plc_cycle_start, and the RPC server thread in                 *)
(* SetTraceVariablesList and GetTraceVariables.                            *)
(*                                                                         *)
(* The three threads have the same priority.  Without time slicing         *)
(* (Sliced = FALSE) a thread keeps the processor, cpu, until it blocks or  *)
(* sleeps; with it the threads interleave at every access to shared state. *)
(*                                                                         *)
(* The ring buffer is the sequence of the samples in it; its bytes are     *)
(* left out.  A sample is the trace list it was taken with, and a trace    *)
(* list is the debug token it was set up under.                            *)
(***************************************************************************)
EXTENDS Naturals, Sequences

CONSTANTS
    Main, Debug, Rpc,   \* plc_main, plc_debug_thread, rpc_server
    NoThread,
    Ops,                \* the calls the clients make
    Sliced,             \* time slicing among threads of equal priority
    Wraps,              \* __tick wraps around while the program runs
    MaxToken,           \* bound on the number of SetTraceVariablesList calls
    MaxSamples          \* bound on the samples in the ring buffer

Threads == {Main, Debug, Rpc}

OpNames == {"start", "stop", "set", "get"}

ASSUME DistinctThreads == Main # Debug /\ Main # Rpc /\ Debug # Rpc /\ NoThread \notin Threads

ASSUME DebugBounds ==
    /\ Ops \subseteq OpNames
    /\ Sliced \in BOOLEAN /\ Wraps \in BOOLEAN
    /\ MaxToken \in Nat /\ MaxSamples \in Nat \ {0}

VARIABLES
    plc_run,
    plc_cycle_start,        \* count of the semaphore
    waiting,                \* threads pended on it
    stop_debug_thread,
    debug_thread_state,
    __tick,                 \* where it is: "ahead" of last_trace_timestamp,
                            \* "equal" to it, "behind" it after it wrapped
                            \* around; "zero" when both are 0
    expired,                \* DEBUG_TIMEOUT has passed since the last GetTraceVariables
    __debugtoken,
    traced,                 \* the token under which the trace list was set up
    readable,               \* the program has a value for each variable of the list
    trace_samples,          \* the samples in the ring buffer
    cpu,                    \* the thread that keeps the processor
    at                      \* at[t]: the statement thread t is at

flags == <<plc_run, stop_debug_thread, debug_thread_state>>
semaphore == <<plc_cycle_start, waiting>>
trace == <<__tick, expired, __debugtoken, traced, readable, trace_samples>>
control == <<cpu, at>>
vars == <<flags, semaphore, trace, control>>

MainLabels == {"parked", "init", "tick", "take", "enter", "cycle", "give", "sleep"}

DebugLabels ==
    {"none", "created", "test", "mark", "take", "stop_check", "fresh", "publish",
     "timeout", "give", "sleep", "exit_give", "exit_stop", "exit_last",
     "exit_state", "end"}

RpcLabels ==
    {"idle", "set_state", "set_stop", "set_wait", "set_token", "set_list", "set_run",
     "set_create", "get_sent", "get_run", "get_create", "get_token", "get_wait",
     "get_read"}

\* Where a thread has given up the processor.
Blocking == {"parked", "sleep", "none", "idle", "set_wait", "get_wait"}

-----------------------------------------------------------------------------
(* The scheduler and the semaphore.                                        *)

Runs(t) == Sliced \/ cpu \in {t, NoThread}

Keep(t, blocked) == cpu' = IF Sliced \/ blocked THEN NoThread ELSE t

Goto(t, from, to) ==
    /\ at[t] = from /\ Runs(t)
    /\ at' = [at EXCEPT ![t] = to]
    /\ Keep(t, to \in Blocking)

\* Where a thread goes on when it has taken the token.
Taken(t) == IF t = Main THEN "enter" ELSE "fresh"

\* k_sem_give(&plc_cycle_start) by t, which goes on to label to.
SemGive(t, from, to) ==
    /\ at[t] = from /\ Runs(t)
    /\ Keep(t, to \in Blocking)
    /\ \/ /\ waiting = {}
          /\ plc_cycle_start' = 1
          /\ at' = [at EXCEPT ![t] = to]
          /\ UNCHANGED waiting
       \/ \E w \in waiting :
             /\ waiting' = waiting \ {w}
             /\ at' = [at EXCEPT ![t] = to, ![w] = Taken(w)]
             /\ UNCHANGED plc_cycle_start

\* k_sem_take(&plc_cycle_start, ...) by t
SemTake(t) ==
    /\ at[t] = "take" /\ t \notin waiting /\ Runs(t)
    /\ \/ /\ plc_cycle_start = 1
          /\ plc_cycle_start' = 0
          /\ at' = [at EXCEPT ![t] = Taken(t)]
          /\ Keep(t, FALSE)
          /\ UNCHANGED waiting
       \/ /\ plc_cycle_start = 0
          /\ waiting' = waiting \cup {t}
          /\ Keep(t, TRUE)
          /\ UNCHANGED <<plc_cycle_start, at>>

-----------------------------------------------------------------------------
(* plc_main: from the run signal to the end of the run.                    *)

\* __init_debug gives the semaphore and empties the ring buffer.
MainInitDebug ==
    /\ SemGive(Main, "init", "tick")
    /\ trace_samples' = <<>>
    /\ UNCHANGED <<flags, __tick, expired, __debugtoken, traced, readable>>

MainTick ==
    /\ Goto(Main, "tick", "take")
    /\ \/ __tick # "behind" /\ __tick' = "ahead"
       \/ Wraps /\ __tick' \in {"behind", "equal"}
    /\ UNCHANGED <<flags, semaphore, expired, __debugtoken, traced, readable, trace_samples>>

MainTake == SemTake(Main) /\ UNCHANGED <<flags, trace>>

\* config_run__ is called, and returns
MainEnter == Goto(Main, "enter", "cycle") /\ UNCHANGED <<flags, semaphore, trace>>

MainCycle == Goto(Main, "cycle", "give") /\ UNCHANGED <<flags, semaphore, trace>>

MainGive == SemGive(Main, "give", "sleep") /\ UNCHANGED <<flags, trace>>

MainSleep ==
    /\ Goto(Main, "sleep", IF plc_run = 1 THEN "tick" ELSE "parked")
    /\ UNCHANGED <<flags, semaphore, trace>>

MainStep == MainInitDebug \/ MainTick \/ MainTake \/ MainEnter \/ MainCycle \/ MainGive \/ MainSleep

-----------------------------------------------------------------------------
(* plc_debug_thread                                                        *)

DebugTest ==
    /\ \E l \in {"created", "test"} :
          Goto(Debug, l, IF plc_run = 1 THEN "mark" ELSE "exit_give")
    /\ UNCHANGED <<flags, semaphore, trace>>

DebugMark ==
    /\ Goto(Debug, "mark", "take")
    /\ debug_thread_state' = 1
    /\ UNCHANGED <<plc_run, stop_debug_thread, semaphore, trace>>

DebugTake == SemTake(Debug) /\ UNCHANGED <<flags, trace>>

\* Mutant: -EAGAIN is not looked at.
DebugTakeUnchecked ==
    /\ Debug \in waiting
    /\ waiting' = waiting \ {Debug}
    /\ at' = [at EXCEPT ![Debug] = "fresh"]
    /\ UNCHANGED <<flags, plc_cycle_start, trace, cpu>>

\* The wait of one millisecond ends; the thread is ready but need not run yet.
DebugTakeTimeout ==
    /\ Debug \in waiting
    /\ waiting' = waiting \ {Debug}
    /\ at' = [at EXCEPT ![Debug] = "stop_check"]
    /\ UNCHANGED <<flags, plc_cycle_start, trace, cpu>>

DebugStopCheck ==
    /\ Goto(Debug, "stop_check", IF stop_debug_thread = 1 THEN "exit_give" ELSE "test")
    /\ UNCHANGED <<flags, semaphore, trace>>

\* One sample per tick.
DebugFresh ==
    /\ Goto(Debug, "fresh", IF __tick = "ahead" THEN "publish" ELSE "give")
    /\ __tick' = IF __tick = "ahead" THEN "equal" ELSE __tick
    /\ UNCHANGED <<flags, semaphore, expired, __debugtoken, traced, readable, trace_samples>>

\* Mutant: the space in the buffer is not looked at.
DebugPublishUnchecked ==
    /\ Goto(Debug, "publish", "timeout")
    /\ trace_samples' = Append(trace_samples, traced)
    /\ UNCHANGED <<flags, semaphore, __tick, expired, __debugtoken, traced, readable>>

\* publish_debug; in a full buffer it fails or discards what is oldest.  It fails
\* at a variable that cannot be read, and keeps the bytes before it, which may
\* make up a block with those of earlier failures.
DebugPublish ==
    /\ \/ /\ readable /\ Len(trace_samples) < MaxSamples
          /\ Goto(Debug, "publish", "timeout")
          /\ trace_samples' = Append(trace_samples, traced)
       \/ /\ readable /\ Len(trace_samples) = MaxSamples
          /\ Goto(Debug, "publish", "timeout")
          /\ trace_samples' = Append(Tail(trace_samples), traced)
       \/ /\ Len(trace_samples) = MaxSamples
          /\ Goto(Debug, "publish", "exit_give")
          /\ UNCHANGED trace_samples
       \/ /\ ~readable /\ Len(trace_samples) < MaxSamples
          /\ Goto(Debug, "publish", "exit_give")
          /\ trace_samples' \in {trace_samples, Append(trace_samples, traced)}
       \/ /\ ~readable /\ Len(trace_samples) = MaxSamples
          /\ Goto(Debug, "publish", "exit_give")
          /\ trace_samples' \in {Tail(trace_samples), Append(Tail(trace_samples), traced)}
    /\ UNCHANGED <<flags, semaphore, __tick, expired, __debugtoken, traced, readable>>

\* Mutant: the thread goes on however long nobody has asked for samples.
DebugNoTimeout ==
    /\ Goto(Debug, "timeout", "give")
    /\ UNCHANGED <<flags, semaphore, trace>>

DebugTimeout ==
    /\ Goto(Debug, "timeout", IF expired THEN "exit_give" ELSE "give")
    /\ UNCHANGED <<flags, semaphore, trace>>

DebugGive == SemGive(Debug, "give", "sleep") /\ UNCHANGED <<flags, trace>>

DebugSleep == Goto(Debug, "sleep", "test") /\ UNCHANGED <<flags, semaphore, trace>>

\* Mutant: the thread ends without giving the semaphore.
DebugExitKeep ==
    /\ Goto(Debug, "exit_give", "exit_stop")
    /\ UNCHANGED <<flags, semaphore, trace>>

\* The semaphore is given however the loop was left.
DebugExitGive == SemGive(Debug, "exit_give", "exit_stop") /\ UNCHANGED <<flags, trace>>

DebugExitStop ==
    /\ Goto(Debug, "exit_stop", "exit_last")
    /\ stop_debug_thread' = 0
    /\ UNCHANGED <<plc_run, debug_thread_state, semaphore, trace>>

\* last_trace_timestamp = 0
DebugExitLast ==
    /\ Goto(Debug, "exit_last", "exit_state")
    /\ \/ __tick # "zero" /\ __tick' = "ahead"
       \/ (__tick = "zero" \/ Wraps) /\ __tick' = "zero"
    /\ UNCHANGED <<flags, semaphore, expired, __debugtoken, traced, readable, trace_samples>>

DebugExitState ==
    /\ Goto(Debug, "exit_state", "end")
    /\ debug_thread_state' = 0
    /\ UNCHANGED <<plc_run, stop_debug_thread, semaphore, trace>>

\* The thread function returns.
DebugEnd == Goto(Debug, "end", "none") /\ UNCHANGED <<flags, semaphore, trace>>

DebugStep ==
    \/ DebugTest \/ DebugMark \/ DebugTake \/ DebugTakeTimeout \/ DebugStopCheck
    \/ DebugFresh \/ DebugPublish \/ DebugTimeout \/ DebugGive \/ DebugSleep
    \/ DebugExitGive \/ DebugExitStop \/ DebugExitLast \/ DebugExitState \/ DebugEnd

-----------------------------------------------------------------------------
(* The RPC server thread.                                                  *)

\* Mutant: the thread is created whether or not it is running.
StartDebugThreadAlways(from, to) ==
    /\ at[Rpc] = from /\ Runs(Rpc)
    /\ at' = [at EXCEPT ![Rpc] = to, ![Debug] = "created"]
    /\ Keep(Rpc, to \in Blocking)

\* plc_debug_thread_start from label from, on to label to; k_thread_create
\* starts the thread at its first statement whatever it was doing.
StartDebugThread(from, to) ==
    /\ at[Rpc] = from /\ Runs(Rpc)
    /\ at' = IF debug_thread_state = 0
             THEN [at EXCEPT ![Rpc] = to, ![Debug] = "created"]
             ELSE [at EXCEPT ![Rpc] = to]
    /\ Keep(Rpc, to \in Blocking)

\* The server polls every 10 ms; a thread that was created has run by then.
Call ==
    /\ at[Debug] # "created"
    /\ \/ "set" \in Ops /\ __debugtoken < MaxToken /\ Goto(Rpc, "idle", "set_state")
       \/ "get" \in Ops /\ Goto(Rpc, "idle", "get_sent")
    /\ UNCHANGED <<flags, semaphore, trace>>

\* traced_vars_total_size = 0: a sample has no variables until the list is set up.
SetState ==
    /\ Goto(Rpc, "set_state", IF debug_thread_state = 1 THEN "set_stop" ELSE "set_token")
    /\ readable' = TRUE
    /\ UNCHANGED <<flags, semaphore, __tick, expired, __debugtoken, traced, trace_samples>>

SetStop ==
    /\ Goto(Rpc, "set_stop", "set_wait")
    /\ stop_debug_thread' = 1
    /\ UNCHANGED <<plc_run, debug_thread_state, semaphore, trace>>

SetWait ==
    /\ debug_thread_state = 0
    /\ Goto(Rpc, "set_wait", "set_token")
    /\ UNCHANGED <<flags, semaphore, trace>>

\* Mutant: the ring buffer keeps the samples of the old list.
SetTokenNoReset ==
    /\ \/ Goto(Rpc, "set_token", "set_list")
       \/ Goto(Rpc, "set_token", "idle")
    /\ __debugtoken' = __debugtoken + 1
    /\ UNCHANGED <<flags, semaphore, __tick, expired, traced, readable, trace_samples>>

\* A new token and an empty ring buffer; an empty or too long list ends the call.
SetToken ==
    /\ \/ Goto(Rpc, "set_token", "set_list")
       \/ Goto(Rpc, "set_token", "idle")
    /\ __debugtoken' = __debugtoken + 1
    /\ trace_samples' = <<>>
    /\ readable' = TRUE
    /\ UNCHANGED <<flags, semaphore, __tick, expired, traced>>

\* The list is filled in with variables that could be read; an unknown one ends
\* the call.
SetList ==
    /\ \/ Goto(Rpc, "set_list", "set_run")
       \/ Goto(Rpc, "set_list", "idle")
    /\ traced' = __debugtoken
    /\ readable' = TRUE
    /\ UNCHANGED <<flags, semaphore, __tick, expired, __debugtoken, trace_samples>>

SetRun ==
    /\ Goto(Rpc, "set_run", IF plc_run = 1 THEN "set_create" ELSE "idle")
    /\ UNCHANGED <<flags, semaphore, trace>>

SetCreate == StartDebugThread("set_create", "idle") /\ UNCHANGED <<flags, semaphore, trace>>

\* last_trace_sent_timestamp = k_uptime_get()
GetSent ==
    /\ Goto(Rpc, "get_sent", "get_run")
    /\ expired' = FALSE
    /\ UNCHANGED <<flags, semaphore, __tick, __debugtoken, traced, readable, trace_samples>>

GetRun ==
    /\ Goto(Rpc, "get_run", IF plc_run = 1 THEN "get_create" ELSE "get_token")
    /\ UNCHANGED <<flags, semaphore, trace>>

GetCreate == StartDebugThread("get_create", "get_token") /\ UNCHANGED <<flags, semaphore, trace>>

\* The client's token is that of the trace list, or the answer is Broken.
GetToken ==
    /\ \/ traced = __debugtoken /\ Goto(Rpc, "get_token", "get_wait")
       \/ Goto(Rpc, "get_token", "idle")
    /\ UNCHANGED <<flags, semaphore, trace>>

GetWait ==
    /\ trace_samples # <<>>
    /\ Goto(Rpc, "get_wait", "get_read")
    /\ UNCHANGED <<flags, semaphore, trace>>

\* All samples are sent, or memory is short and none is.
GetRead ==
    /\ Goto(Rpc, "get_read", "idle")
    /\ trace_samples' \in {<<>>, trace_samples}
    /\ UNCHANGED <<flags, semaphore, __tick, expired, __debugtoken, traced, readable>>

RpcStep ==
    \/ SetState \/ SetStop \/ SetWait \/ SetToken \/ SetList \/ SetRun \/ SetCreate
    \/ GetSent \/ GetRun \/ GetCreate \/ GetToken \/ GetWait \/ GetRead

-----------------------------------------------------------------------------
(* Starts and stops from the shell, which PlcRun models, and time.         *)

\* The shell's priority is the lowest.
ShellRuns == Sliced \/ cpu = NoThread

\* Another program may have been loaded since, to which the trace list means
\* nothing.
Start ==
    /\ "start" \in Ops
    /\ ShellRuns
    /\ plc_run = 0 /\ at[Main] = "parked"
    /\ plc_run' = 1
    /\ at' = [at EXCEPT ![Main] = "init"]
    /\ \/ UNCHANGED readable
       \/ 0 < traced /\ traced = __debugtoken /\ readable' \in BOOLEAN
    /\ UNCHANGED <<stop_debug_thread, debug_thread_state, semaphore, __tick, expired,
                   __debugtoken, traced, trace_samples, cpu>>

Stop ==
    /\ "stop" \in Ops
    /\ ShellRuns
    /\ plc_run = 1
    /\ plc_run' = 0
    /\ UNCHANGED <<stop_debug_thread, debug_thread_state, semaphore, trace, control>>

\* DEBUG_TIMEOUT, three seconds, passes; no thread runs, and none that was
\* woken is kept from its first step, for that long.
Expire ==
    /\ ShellRuns /\ at[Main] # "init" /\ at[Debug] # "created"
    /\ expired' = TRUE
    /\ UNCHANGED <<flags, semaphore, __tick, __debugtoken, traced, readable, trace_samples, control>>

Init ==
    /\ plc_run = 0 /\ stop_debug_thread = 0 /\ debug_thread_state = 0
    /\ plc_cycle_start = 0 /\ waiting = {}
    /\ __tick = "zero" /\ expired = FALSE
    /\ __debugtoken = 0 /\ traced = 0 /\ readable = TRUE /\ trace_samples = <<>>
    /\ cpu = NoThread
    /\ at = [t \in Threads |-> IF t = Main THEN "parked"
                              ELSE IF t = Debug THEN "none" ELSE "idle"]

Next == MainStep \/ DebugStep \/ Call \/ RpcStep \/ Start \/ Stop \/ Expire

Spec == Init /\ [][Next]_vars

\* Ready threads of one priority take turns: none is passed over for ever.
\* Time passes.
Fairness ==
    /\ SF_vars(MainStep) /\ SF_vars(DebugStep) /\ SF_vars(RpcStep)
    /\ SF_vars(Expire)

FairSpec == Spec /\ Fairness

-----------------------------------------------------------------------------
(* Properties                                                              *)

\* Every variable stays in its range; a thread that waits is at its take, and
\* nobody waits while the token is there.
TypeOK ==
    /\ plc_run \in {0, 1} /\ stop_debug_thread \in {0, 1} /\ debug_thread_state \in {0, 1}
    /\ plc_cycle_start \in {0, 1}
    /\ waiting \subseteq {t \in {Main, Debug} : at[t] = "take"}
    /\ waiting # {} => plc_cycle_start = 0
    /\ __tick \in {"zero", "behind", "equal", "ahead"} /\ expired \in BOOLEAN
    /\ __debugtoken \in 0 .. MaxToken /\ traced \in 0 .. MaxToken /\ readable \in BOOLEAN
    /\ trace_samples \in Seq(0 .. MaxToken) /\ Len(trace_samples) <= MaxSamples
    /\ cpu \in Threads \cup {NoThread}
    /\ at \in [Threads -> MainLabels \cup DebugLabels \cup RpcLabels]
    /\ at[Main] \in MainLabels /\ at[Debug] \in DebugLabels /\ at[Rpc] \in RpcLabels

\* Variables are sampled between two cycles, never during one (plc_debug.c:116,
\* "Wait for the PLC cycle to end").
CycleExclusion == ~(at[Main] = "cycle" /\ at[Debug] = "publish")

\* k_thread_create is called only when the previous debug thread has ended
\* (plc_debug.c:72, "0 = not running").
OneDebugThread ==
    [][at[Debug] # "created" /\ at'[Debug] = "created" => at[Debug] = "none"]_vars

\* The samples that answer a GetTraceVariables call belong to the trace list
\* whose token the call named.
SamplesMatchToken ==
    at[Rpc] = "get_read" =>
        \A i \in 1 .. Len(trace_samples) : trace_samples[i] = __debugtoken

\* The RPC server gets its thread back: SetTraceVariablesList makes the debug thread
\* stop and returns, and GetTraceVariables returns when it is called while the PLC runs,
\* initialised, and goes on running, and the program can read the variables of the
\* list: then a thread is there to bring the samples it waits for (plc_debug.c:393,
\* "always return 0").  On a stopped PLC, or with the list of another program, none is.
RpcReturns ==
    /\ at[Rpc] = "set_state" ~> at[Rpc] = "idle"
    /\ (at[Rpc] = "get_sent" /\ plc_run = 1 /\ at[Main] \notin {"parked", "init"} /\ readable)
        ~> (at[Rpc] = "idle" \/ plc_run = 0)

\* Debugging does not stop the PLC: while plc_run stays set, cycles go on.
CyclesGoOn == <>[](plc_run = 1) => []<>(at[Main] = "cycle")
=============================================================================
