---------------------------- MODULE PlcDebug_proofs ----------------------------
(***************************************************************************)
(* Proofs about PlcDebug, for every size of the ring buffer and number of  *)
(* trace lists: the types, that sampling and cycles exclude each other     *)
(* while a run goes on and its trace list is not changed, and, without     *)
(* time slicing, that no second debug thread is created and that samples   *)
(* belong to the trace list that is asked for.                             *)
(***************************************************************************)
EXTENDS PlcDebug, SequenceTheorems, TLAPS

-----------------------------------------------------------------------------
(* The inductive invariants.                                               *)

AllLabels == MainLabels \cup DebugLabels \cup RpcLabels

\* Where the threads are,
ControlInv ==
    /\ at \in [Threads -> AllLabels] /\ cpu \in Threads \cup {NoThread}
    /\ at[Main] \in MainLabels /\ at[Debug] \in DebugLabels /\ at[Rpc] \in RpcLabels

\* who waits for the semaphore,
SemInv ==
    /\ plc_cycle_start \in {0, 1} /\ waiting \in SUBSET {Main, Debug}
    /\ \A t \in waiting : at[t] = "take"
    /\ waiting # {} => plc_cycle_start = 0

\* what is traced, with a token left for a call that will take one,
TraceInv ==
    /\ __tick \in {"zero", "behind", "equal", "ahead"} /\ expired \in BOOLEAN
    /\ __debugtoken \in 0 .. MaxToken /\ traced \in 0 .. MaxToken
    /\ trace_samples \in Seq(0 .. MaxToken) /\ Len(trace_samples) <= MaxSamples
    /\ at[Rpc] \in {"set_state", "set_stop", "set_wait", "set_token"} => __debugtoken < MaxToken

\* and that the debug thread is marked as running in its loop, where it can wait.
InLoop == {"take", "stop_check", "fresh", "publish", "timeout", "give", "sleep"}

StateInv ==
    /\ plc_run \in {0, 1} /\ stop_debug_thread \in {0, 1} /\ debug_thread_state \in {0, 1}
    /\ at[Debug] \in InLoop => debug_thread_state = 1

TypeInv == ControlInv /\ SemInv /\ TraceInv /\ StateInv

\* Without time slicing a thread that is not where it gives up the processor, or where
\* another one has put it, has the processor.
DebugHolds ==
    at[Debug] \in {"test", "mark", "take", "publish", "timeout", "give", "exit_give",
                   "exit_stop", "exit_last", "exit_state", "end"} /\ Debug \notin waiting
RpcHolds == at[Rpc] \notin {"idle", "set_wait", "get_wait"}

CpuInv == (DebugHolds => cpu = Debug) /\ (RpcHolds => cpu = Rpc)

\* The samples are those of the trace list, and the list is that of the token while a
\* call waits for samples, and while the list is set up there are none.
SampleInv ==
    /\ \A i \in 1 .. Len(trace_samples) : trace_samples[i] = traced
    /\ at[Rpc] = "set_list" => trace_samples = <<>>
    /\ at[Rpc] \in {"get_wait", "get_read"} => traced = __debugtoken

\* The token of the semaphore is there from the start of the run on, and one of the
\* threads has it or it can be taken.
MainHas == at[Main] \in {"enter", "cycle", "give"}
DebugHas == at[Debug] \in {"fresh", "publish", "timeout", "give", "exit_give"}

TokenInv ==
    /\ ~(MainHas /\ DebugHas) /\ (MainHas \/ DebugHas => plc_cycle_start = 0)
    /\ at[Main] \in {"parked", "init"} => plc_cycle_start = 0 /\ ~DebugHas
    /\ at[Main] \notin {"parked", "init"} => plc_cycle_start = 1 \/ MainHas \/ DebugHas

\* A run that nobody stops, and a trace list that nobody sets.
TracingInv ==
    /\ stop_debug_thread = 0
    /\ at[Rpc] \in {"idle", "get_sent", "get_run", "get_create", "get_token", "get_wait", "get_read"}
    /\ at[Main] # "parked" => plc_run = 1
    /\ at[Debug] # "none" \/ at[Rpc] = "get_create" => plc_run = 1
    /\ at[Debug] \in {"exit_give", "exit_stop", "exit_last", "exit_state"} => debug_thread_state = 1

-----------------------------------------------------------------------------
(* What a step does to the threads.                                        *)

\* The threads are three.
LEMMA ThreadsDiffer ==
    /\ Threads = {Main, Debug, Rpc} /\ Main # Debug /\ Main # Rpc /\ Debug # Rpc
    /\ NoThread # Main /\ NoThread # Debug /\ NoThread # Rpc
BY DistinctThreads DEF Threads

\* Thread t alone moves: it had the processor, or nobody had, and keeps it unless it blocks.
Moves(t) ==
    /\ at' \in [Threads -> AllLabels] /\ \A u \in Threads \ {t} : at'[u] = at[u]
    /\ Sliced \/ cpu \in {t, NoThread}
    /\ cpu' \in {t, NoThread} /\ (~Sliced /\ at'[t] \notin Blocking => cpu' = t)

\* A statement that neither waits for nor gives the semaphore (Goto).
LEMMA Goes ==
    ASSUME at \in [Threads -> AllLabels], NEW t \in Threads, NEW from, NEW to \in AllLabels, Goto(t, from, to)
    PROVE  Moves(t) /\ at[t] = from /\ at'[t] = to
BY DEF Goto, Runs, Keep, Moves

\* A thread that gives the semaphore goes on, and so does the other one if it waited for it.
LEMMA Gives ==
    ASSUME at \in [Threads -> AllLabels], SemInv, NEW t \in {Main, Debug}, NEW o \in {Main, Debug}, o # t,
           NEW from, from # "take", NEW to \in AllLabels, SemGive(t, from, to)
    PROVE  /\ at[t] = from /\ at'[t] = to /\ at'[Rpc] = at[Rpc] /\ at' \in [Threads -> AllLabels]
           /\ Sliced \/ cpu \in {t, NoThread}
           /\ cpu' \in {t, NoThread} /\ (~Sliced /\ to \notin Blocking => cpu' = t)
           /\ t \notin waiting
           /\ \/ waiting = {} /\ waiting' = {} /\ plc_cycle_start' = 1 /\ at'[o] = at[o]
              \/ /\ o \in waiting /\ waiting' = waiting \ {o} /\ at'[o] = Taken(o)
                 /\ plc_cycle_start' = plc_cycle_start
<1> USE ThreadsDiffer DEF SemInv
<1>1. /\ at[t] = from /\ t \notin waiting
      /\ Sliced \/ cpu \in {t, NoThread}
      /\ cpu' \in {t, NoThread} /\ (~Sliced /\ to \notin Blocking => cpu' = t)
  BY DEF SemGive, Runs, Keep
<1>2. CASE waiting = {} /\ plc_cycle_start' = 1 /\ at' = [at EXCEPT ![t] = to] /\ UNCHANGED waiting
  BY <1>1, <1>2
<1>3. ASSUME NEW w \in waiting, waiting' = waiting \ {w}, at' = [at EXCEPT ![t] = to, ![w] = Taken(w)],
             UNCHANGED plc_cycle_start
      PROVE  /\ o \in waiting /\ waiting' = waiting \ {o} /\ at'[o] = Taken(o)
             /\ at'[t] = to /\ at'[Rpc] = at[Rpc] /\ at' \in [Threads -> AllLabels]
  <2>1. w = o
    BY <1>1
  <2>2. Taken(o) \in AllLabels
    BY DEF Taken, AllLabels, MainLabels, DebugLabels
  <2> QED
    BY <1>3, <2>1, <2>2
<1> QED
  BY <1>1, <1>2, <1>3 DEF SemGive

\* A thread takes the token, or waits and gives up the processor.
LEMMA Takes ==
    ASSUME at \in [Threads -> AllLabels], SemInv, NEW t \in {Main, Debug}, SemTake(t)
    PROVE  /\ at[t] = "take" /\ at' \in [Threads -> AllLabels] /\ \A u \in Threads \ {t} : at'[u] = at[u]
           /\ Sliced \/ cpu \in {t, NoThread}
           /\ cpu' \in {t, NoThread} /\ t \notin waiting
           /\ \/ /\ plc_cycle_start = 1 /\ plc_cycle_start' = 0 /\ at'[t] = Taken(t) /\ waiting' = waiting
                 /\ ~Sliced => cpu' = t
              \/ /\ plc_cycle_start = 0 /\ plc_cycle_start' = 0 /\ at' = at /\ waiting' = waiting \cup {t}
<1>1. Taken(t) \in AllLabels
  BY DEF Taken, AllLabels, MainLabels, DebugLabels
<1> QED
  BY <1>1, ThreadsDiffer DEF SemTake, Runs, Keep

-----------------------------------------------------------------------------
(* Every step keeps the invariants.                                        *)

\* What a step keeps: the types always, who has the processor and what is sampled without
\* time slicing, and the token while nobody stops a run or sets a trace list.
Kept ==
    /\ TypeInv'
    /\ ~Sliced /\ CpuInv => CpuInv'
    /\ ~Sliced /\ CpuInv /\ SampleInv => SampleInv'
    /\ Ops \subseteq {"start", "get"} /\ TokenInv /\ TracingInv => TokenInv' /\ TracingInv'

\* plc_main's steps.
LEMMA MainKeeps ==
    ASSUME TypeInv, MainStep
    PROVE  Kept
<1> USE ThreadsDiffer
<1>1. CASE MainInitDebug
  <2>1. /\ at[Main] = "init" /\ at'[Main] = "tick" /\ at'[Rpc] = at[Rpc] /\ at' \in [Threads -> AllLabels]
        /\ Sliced \/ cpu \in {Main, NoThread}
        /\ cpu' \in {Main, NoThread} /\ (~Sliced => cpu' = Main)
        /\ Main \notin waiting
        /\ \/ waiting = {} /\ waiting' = {} /\ plc_cycle_start' = 1 /\ at'[Debug] = at[Debug]
           \/ /\ Debug \in waiting /\ waiting' = waiting \ {Debug} /\ at'[Debug] = "fresh"
              /\ plc_cycle_start' = plc_cycle_start
    <3>1. SemGive(Main, "init", "tick")
      BY <1>1 DEF MainInitDebug
    <3>2. at \in [Threads -> AllLabels] /\ SemInv /\ "tick" \in AllLabels
      BY DEF TypeInv, ControlInv, AllLabels, MainLabels, DebugLabels
    <3> QED
      BY <3>1, <3>2, Gives DEF Taken, Blocking
  <2>2. /\ UNCHANGED <<plc_run, stop_debug_thread, debug_thread_state, __tick, expired,
                       __debugtoken, traced>>
        /\ trace_samples' = <<>>
    BY <1>1 DEF MainInitDebug, flags, trace
  <2>3. TypeInv'
    <3>1. trace_samples' \in Seq(0 .. MaxToken) /\ Len(trace_samples') <= MaxSamples
      BY <2>2, DebugBounds
    <3>2. TraceInv'
      BY <2>1, <2>2, <3>1 DEF TypeInv, TraceInv
    <3> QED
      BY <2>1, <2>2, <3>2 DEF TypeInv, ControlInv, SemInv, StateInv, InLoop, AllLabels,
         MainLabels, DebugLabels, RpcLabels
  <2>4. ~Sliced /\ CpuInv => CpuInv'
    BY <2>1, <2>2 DEF CpuInv, DebugHolds, RpcHolds, Blocking, TypeInv, SemInv
  <2>5. ~Sliced /\ CpuInv /\ SampleInv => SampleInv'
    BY <2>1, <2>2 DEF SampleInv
  <2>6. Ops \subseteq {"start", "get"} /\ TokenInv /\ TracingInv => TokenInv' /\ TracingInv'
    BY <2>1, <2>2 DEF TokenInv, TracingInv, MainHas, DebugHas, TypeInv, ControlInv, SemInv,
       TraceInv, StateInv, InLoop
  <2> QED
    BY <2>3, <2>4, <2>5, <2>6 DEF Kept
<1>2. CASE MainTick
  <2>1. Moves(Main) /\ at[Main] = "tick" /\ at'[Main] = "take"
    BY <1>2, Goes DEF MainTick, TypeInv, ControlInv, AllLabels, MainLabels, DebugLabels, RpcLabels
  <2>2. /\ UNCHANGED <<plc_run, stop_debug_thread, debug_thread_state, plc_cycle_start, waiting,
                       expired, __debugtoken, traced, trace_samples>>
        /\ __tick' \in {"behind", "equal", "ahead"}
    BY <1>2 DEF MainTick, flags, semaphore, trace
  <2>3. TypeInv'
    BY <2>1, <2>2 DEF TypeInv, ControlInv, SemInv, TraceInv, StateInv, Moves, InLoop, AllLabels,
       MainLabels, DebugLabels, RpcLabels
  <2>4. ~Sliced /\ CpuInv => CpuInv'
    BY <2>1, <2>2 DEF CpuInv, DebugHolds, RpcHolds, Moves, Blocking
  <2>5. ~Sliced /\ CpuInv /\ SampleInv => SampleInv'
    BY <2>1, <2>2 DEF SampleInv, Moves
  <2>6. Ops \subseteq {"start", "get"} /\ TokenInv /\ TracingInv => TokenInv' /\ TracingInv'
    BY <2>1, <2>2 DEF TokenInv, TracingInv, MainHas, DebugHas, Moves, TypeInv, ControlInv,
       SemInv, TraceInv, StateInv, InLoop
  <2> QED
    BY <2>3, <2>4, <2>5, <2>6 DEF Kept
<1>3. CASE MainTake
  <2>1. /\ at[Main] = "take" /\ at' \in [Threads -> AllLabels] /\ \A u \in Threads \ {Main} : at'[u] = at[u]
        /\ Sliced \/ cpu \in {Main, NoThread}
        /\ cpu' \in {Main, NoThread} /\ Main \notin waiting
        /\ \/ /\ plc_cycle_start = 1 /\ plc_cycle_start' = 0 /\ at'[Main] = "enter" /\ waiting' = waiting
              /\ ~Sliced => cpu' = Main
           \/ /\ plc_cycle_start = 0 /\ plc_cycle_start' = 0 /\ at' = at /\ waiting' = waiting \cup {Main}
    BY <1>3, Takes DEF MainTake, TypeInv, ControlInv, Taken
  <2>2. UNCHANGED <<plc_run, stop_debug_thread, debug_thread_state, __tick, expired, __debugtoken,
                    traced, trace_samples>>
    BY <1>3 DEF MainTake, flags, trace
  <2>3. TypeInv'
    BY <2>1, <2>2 DEF TypeInv, ControlInv, SemInv, TraceInv, StateInv, InLoop, AllLabels,
       MainLabels, DebugLabels, RpcLabels
  <2>4. ~Sliced /\ CpuInv => CpuInv'
    BY <2>1, <2>2 DEF CpuInv, DebugHolds, RpcHolds, Blocking, TypeInv, SemInv
  <2>5. ~Sliced /\ CpuInv /\ SampleInv => SampleInv'
    BY <2>1, <2>2 DEF SampleInv
  <2>6. Ops \subseteq {"start", "get"} /\ TokenInv /\ TracingInv => TokenInv' /\ TracingInv'
    BY <2>1, <2>2 DEF TokenInv, TracingInv, MainHas, DebugHas, TypeInv, ControlInv, SemInv,
       TraceInv, StateInv, InLoop
  <2> QED
    BY <2>3, <2>4, <2>5, <2>6 DEF Kept
<1>4. CASE MainEnter
  <2>1. Moves(Main) /\ at[Main] = "enter" /\ at'[Main] = "cycle"
    BY <1>4, Goes DEF MainEnter, TypeInv, ControlInv, AllLabels, MainLabels, DebugLabels, RpcLabels
  <2>2. UNCHANGED <<plc_run, stop_debug_thread, debug_thread_state, plc_cycle_start, waiting,
                    __tick, expired, __debugtoken, traced, trace_samples>>
    BY <1>4 DEF MainEnter, flags, semaphore, trace
  <2>3. TypeInv'
    BY <2>1, <2>2 DEF TypeInv, ControlInv, SemInv, TraceInv, StateInv, Moves, InLoop, AllLabels,
       MainLabels, DebugLabels, RpcLabels
  <2>4. ~Sliced /\ CpuInv => CpuInv'
    BY <2>1, <2>2 DEF CpuInv, DebugHolds, RpcHolds, Moves, Blocking
  <2>5. ~Sliced /\ CpuInv /\ SampleInv => SampleInv'
    BY <2>1, <2>2 DEF SampleInv, Moves
  <2>6. Ops \subseteq {"start", "get"} /\ TokenInv /\ TracingInv => TokenInv' /\ TracingInv'
    BY <2>1, <2>2 DEF TokenInv, TracingInv, MainHas, DebugHas, Moves, TypeInv, ControlInv,
       SemInv, TraceInv, StateInv, InLoop
  <2> QED
    BY <2>3, <2>4, <2>5, <2>6 DEF Kept
<1>5. CASE MainCycle
  <2>1. Moves(Main) /\ at[Main] = "cycle" /\ at'[Main] = "give"
    BY <1>5, Goes DEF MainCycle, TypeInv, ControlInv, AllLabels, MainLabels, DebugLabels, RpcLabels
  <2>2. UNCHANGED <<plc_run, stop_debug_thread, debug_thread_state, plc_cycle_start, waiting,
                    __tick, expired, __debugtoken, traced, trace_samples>>
    BY <1>5 DEF MainCycle, flags, semaphore, trace
  <2>3. TypeInv'
    BY <2>1, <2>2 DEF TypeInv, ControlInv, SemInv, TraceInv, StateInv, Moves, InLoop, AllLabels,
       MainLabels, DebugLabels, RpcLabels
  <2>4. ~Sliced /\ CpuInv => CpuInv'
    BY <2>1, <2>2 DEF CpuInv, DebugHolds, RpcHolds, Moves, Blocking
  <2>5. ~Sliced /\ CpuInv /\ SampleInv => SampleInv'
    BY <2>1, <2>2 DEF SampleInv, Moves
  <2>6. Ops \subseteq {"start", "get"} /\ TokenInv /\ TracingInv => TokenInv' /\ TracingInv'
    BY <2>1, <2>2 DEF TokenInv, TracingInv, MainHas, DebugHas, Moves, TypeInv, ControlInv,
       SemInv, TraceInv, StateInv, InLoop
  <2> QED
    BY <2>3, <2>4, <2>5, <2>6 DEF Kept
<1>6. CASE MainGive
  <2>1. /\ at[Main] = "give" /\ at'[Main] = "sleep" /\ at'[Rpc] = at[Rpc] /\ at' \in [Threads -> AllLabels]
        /\ Sliced \/ cpu \in {Main, NoThread}
        /\ cpu' \in {Main, NoThread}
        /\ Main \notin waiting
        /\ \/ waiting = {} /\ waiting' = {} /\ plc_cycle_start' = 1 /\ at'[Debug] = at[Debug]
           \/ /\ Debug \in waiting /\ waiting' = waiting \ {Debug} /\ at'[Debug] = "fresh"
              /\ plc_cycle_start' = plc_cycle_start
    <3>1. SemGive(Main, "give", "sleep")
      BY <1>6 DEF MainGive
    <3>2. at \in [Threads -> AllLabels] /\ SemInv /\ "sleep" \in AllLabels
      BY DEF TypeInv, ControlInv, AllLabels, MainLabels, DebugLabels
    <3> QED
      BY <3>1, <3>2, Gives DEF Taken, Blocking
  <2>2. UNCHANGED <<plc_run, stop_debug_thread, debug_thread_state, __tick, expired, __debugtoken,
                    traced, trace_samples>>
    BY <1>6 DEF MainGive, flags, trace
  <2>3. TypeInv'
    BY <2>1, <2>2 DEF TypeInv, ControlInv, SemInv, TraceInv, StateInv, InLoop, AllLabels,
       MainLabels, DebugLabels, RpcLabels
  <2>4. ~Sliced /\ CpuInv => CpuInv'
    BY <2>1, <2>2 DEF CpuInv, DebugHolds, RpcHolds, Blocking, TypeInv, SemInv
  <2>5. ~Sliced /\ CpuInv /\ SampleInv => SampleInv'
    BY <2>1, <2>2 DEF SampleInv
  <2>6. Ops \subseteq {"start", "get"} /\ TokenInv /\ TracingInv => TokenInv' /\ TracingInv'
    BY <2>1, <2>2 DEF TokenInv, TracingInv, MainHas, DebugHas, TypeInv, ControlInv, SemInv,
       TraceInv, StateInv, InLoop
  <2> QED
    BY <2>3, <2>4, <2>5, <2>6 DEF Kept
<1>7. CASE MainSleep
  <2>1. Moves(Main) /\ at[Main] = "sleep" /\ (at'[Main] = IF plc_run = 1 THEN "tick" ELSE "parked")
    BY <1>7, Goes DEF MainSleep, TypeInv, ControlInv, AllLabels, MainLabels, DebugLabels, RpcLabels
  <2>2. UNCHANGED <<plc_run, stop_debug_thread, debug_thread_state, plc_cycle_start, waiting,
                    __tick, expired, __debugtoken, traced, trace_samples>>
    BY <1>7 DEF MainSleep, flags, semaphore, trace
  <2>3. TypeInv'
    BY <2>1, <2>2 DEF TypeInv, ControlInv, SemInv, TraceInv, StateInv, Moves, InLoop, AllLabels,
       MainLabels, DebugLabels, RpcLabels
  <2>4. ~Sliced /\ CpuInv => CpuInv'
    BY <2>1, <2>2 DEF CpuInv, DebugHolds, RpcHolds, Moves, Blocking
  <2>5. ~Sliced /\ CpuInv /\ SampleInv => SampleInv'
    BY <2>1, <2>2 DEF SampleInv, Moves
  <2>6. Ops \subseteq {"start", "get"} /\ TokenInv /\ TracingInv => TokenInv' /\ TracingInv'
    BY <2>1, <2>2 DEF TokenInv, TracingInv, MainHas, DebugHas, Moves, TypeInv, ControlInv,
       SemInv, TraceInv, StateInv, InLoop
  <2> QED
    BY <2>3, <2>4, <2>5, <2>6 DEF Kept
<1> QED
  BY <1>1, <1>2, <1>3, <1>4, <1>5, <1>6, <1>7 DEF MainStep

\* The debug thread's steps.
LEMMA DebugKeeps ==
    ASSUME TypeInv, DebugStep
    PROVE  Kept
<1> USE ThreadsDiffer
<1>1. CASE DebugTest
  <2>1. /\ Moves(Debug) /\ at[Debug] \in {"created", "test"}
        /\ (at'[Debug] = IF plc_run = 1 THEN "mark" ELSE "exit_give")
    BY <1>1, Goes DEF DebugTest, TypeInv, ControlInv, AllLabels, MainLabels, DebugLabels, RpcLabels
  <2>2. UNCHANGED <<plc_run, stop_debug_thread, debug_thread_state, plc_cycle_start, waiting,
                    __tick, expired, __debugtoken, traced, trace_samples>>
    BY <1>1 DEF DebugTest, flags, semaphore, trace
  <2>3. TypeInv'
    BY <2>1, <2>2 DEF TypeInv, ControlInv, SemInv, TraceInv, StateInv, Moves, InLoop, AllLabels,
       MainLabels, DebugLabels, RpcLabels
  <2>4. ~Sliced /\ CpuInv => CpuInv'
    BY <2>1, <2>2 DEF CpuInv, DebugHolds, RpcHolds, Moves, Blocking
  <2>5. ~Sliced /\ CpuInv /\ SampleInv => SampleInv'
    BY <2>1, <2>2 DEF SampleInv, Moves
  <2>6. Ops \subseteq {"start", "get"} /\ TokenInv /\ TracingInv => TokenInv' /\ TracingInv'
    BY <2>1, <2>2 DEF TokenInv, TracingInv, MainHas, DebugHas, Moves, TypeInv, ControlInv,
       SemInv, TraceInv, StateInv, InLoop
  <2> QED
    BY <2>3, <2>4, <2>5, <2>6 DEF Kept
<1>2. CASE DebugMark
  <2>1. Moves(Debug) /\ at[Debug] = "mark" /\ at'[Debug] = "take"
    BY <1>2, Goes DEF DebugMark, TypeInv, ControlInv, AllLabels, MainLabels, DebugLabels, RpcLabels
  <2>2. /\ UNCHANGED <<plc_run, stop_debug_thread, plc_cycle_start, waiting, __tick, expired,
                       __debugtoken, traced, trace_samples>>
        /\ debug_thread_state' = 1
    BY <1>2 DEF DebugMark, flags, semaphore, trace
  <2>3. TypeInv'
    BY <2>1, <2>2 DEF TypeInv, ControlInv, SemInv, TraceInv, StateInv, Moves, InLoop, AllLabels,
       MainLabels, DebugLabels, RpcLabels
  <2>4. ~Sliced /\ CpuInv => CpuInv'
    BY <2>1, <2>2 DEF CpuInv, DebugHolds, RpcHolds, Moves, Blocking
  <2>5. ~Sliced /\ CpuInv /\ SampleInv => SampleInv'
    BY <2>1, <2>2 DEF SampleInv, Moves
  <2>6. Ops \subseteq {"start", "get"} /\ TokenInv /\ TracingInv => TokenInv' /\ TracingInv'
    BY <2>1, <2>2 DEF TokenInv, TracingInv, MainHas, DebugHas, Moves, TypeInv, ControlInv,
       SemInv, TraceInv, StateInv, InLoop
  <2> QED
    BY <2>3, <2>4, <2>5, <2>6 DEF Kept
<1>3. CASE DebugTake
  <2>1. /\ at[Debug] = "take" /\ at' \in [Threads -> AllLabels] /\ \A u \in Threads \ {Debug} : at'[u] = at[u]
        /\ Sliced \/ cpu \in {Debug, NoThread}
        /\ cpu' \in {Debug, NoThread} /\ Debug \notin waiting
        /\ \/ /\ plc_cycle_start = 1 /\ plc_cycle_start' = 0 /\ at'[Debug] = "fresh" /\ waiting' = waiting
              /\ ~Sliced => cpu' = Debug
           \/ /\ plc_cycle_start = 0 /\ plc_cycle_start' = 0 /\ at' = at /\ waiting' = waiting \cup {Debug}
    BY <1>3, Takes DEF DebugTake, TypeInv, ControlInv, Taken
  <2>2. UNCHANGED <<plc_run, stop_debug_thread, debug_thread_state, __tick, expired, __debugtoken,
                    traced, trace_samples>>
    BY <1>3 DEF DebugTake, flags, trace
  <2>3. TypeInv'
    BY <2>1, <2>2 DEF TypeInv, ControlInv, SemInv, TraceInv, StateInv, InLoop, AllLabels,
       MainLabels, DebugLabels, RpcLabels
  <2>4. ~Sliced /\ CpuInv => CpuInv'
    BY <2>1, <2>2 DEF CpuInv, DebugHolds, RpcHolds, Blocking, TypeInv, SemInv
  <2>5. ~Sliced /\ CpuInv /\ SampleInv => SampleInv'
    BY <2>1, <2>2 DEF SampleInv
  <2>6. Ops \subseteq {"start", "get"} /\ TokenInv /\ TracingInv => TokenInv' /\ TracingInv'
    BY <2>1, <2>2 DEF TokenInv, TracingInv, MainHas, DebugHas, TypeInv, ControlInv, SemInv,
       TraceInv, StateInv, InLoop
  <2> QED
    BY <2>3, <2>4, <2>5, <2>6 DEF Kept
<1>4. CASE DebugTakeTimeout
  <2>1. /\ Debug \in waiting /\ waiting' = waiting \ {Debug} /\ cpu' = cpu
        /\ at[Debug] = "take" /\ at'[Debug] = "stop_check" /\ at' \in [Threads -> AllLabels]
        /\ at'[Main] = at[Main] /\ at'[Rpc] = at[Rpc]
    BY <1>4 DEF DebugTakeTimeout, TypeInv, ControlInv, SemInv, AllLabels, DebugLabels
  <2>2. UNCHANGED <<plc_run, stop_debug_thread, debug_thread_state, plc_cycle_start, __tick,
                    expired, __debugtoken, traced, trace_samples>>
    BY <1>4 DEF DebugTakeTimeout, flags, trace
  <2>3. TypeInv'
    BY <2>1, <2>2 DEF TypeInv, ControlInv, SemInv, TraceInv, StateInv, InLoop, AllLabels,
       MainLabels, DebugLabels, RpcLabels
  <2>4. ~Sliced /\ CpuInv => CpuInv'
    BY <2>1, <2>2 DEF CpuInv, DebugHolds, RpcHolds, Blocking, TypeInv, SemInv
  <2>5. ~Sliced /\ CpuInv /\ SampleInv => SampleInv'
    BY <2>1, <2>2 DEF SampleInv
  <2>6. Ops \subseteq {"start", "get"} /\ TokenInv /\ TracingInv => TokenInv' /\ TracingInv'
    BY <2>1, <2>2 DEF TokenInv, TracingInv, MainHas, DebugHas, TypeInv, ControlInv, SemInv,
       TraceInv, StateInv, InLoop
  <2> QED
    BY <2>3, <2>4, <2>5, <2>6 DEF Kept
<1>5. CASE DebugStopCheck
  <2>1. /\ Moves(Debug) /\ at[Debug] = "stop_check"
        /\ (at'[Debug] = IF stop_debug_thread = 1 THEN "exit_give" ELSE "test")
    BY <1>5, Goes DEF DebugStopCheck, TypeInv, ControlInv, AllLabels, MainLabels, DebugLabels,
       RpcLabels
  <2>2. UNCHANGED <<plc_run, stop_debug_thread, debug_thread_state, plc_cycle_start, waiting,
                    __tick, expired, __debugtoken, traced, trace_samples>>
    BY <1>5 DEF DebugStopCheck, flags, semaphore, trace
  <2>3. TypeInv'
    BY <2>1, <2>2 DEF TypeInv, ControlInv, SemInv, TraceInv, StateInv, Moves, InLoop, AllLabels,
       MainLabels, DebugLabels, RpcLabels
  <2>4. ~Sliced /\ CpuInv => CpuInv'
    BY <2>1, <2>2 DEF CpuInv, DebugHolds, RpcHolds, Moves, Blocking
  <2>5. ~Sliced /\ CpuInv /\ SampleInv => SampleInv'
    BY <2>1, <2>2 DEF SampleInv, Moves
  <2>6. Ops \subseteq {"start", "get"} /\ TokenInv /\ TracingInv => TokenInv' /\ TracingInv'
    BY <2>1, <2>2 DEF TokenInv, TracingInv, MainHas, DebugHas, Moves, TypeInv, ControlInv,
       SemInv, TraceInv, StateInv, InLoop
  <2> QED
    BY <2>3, <2>4, <2>5, <2>6 DEF Kept
<1>6. CASE DebugFresh
  <2>1. Moves(Debug) /\ at[Debug] = "fresh" /\ at'[Debug] \in {"publish", "give"}
    BY <1>6, Goes DEF DebugFresh, TypeInv, ControlInv, AllLabels, MainLabels, DebugLabels, RpcLabels
  <2>2. /\ UNCHANGED <<plc_run, stop_debug_thread, debug_thread_state, plc_cycle_start, waiting,
                       expired, __debugtoken, traced, trace_samples>>
        /\ __tick' \in {"equal", __tick}
    BY <1>6 DEF DebugFresh, flags, semaphore, trace
  <2>3. TypeInv'
    BY <2>1, <2>2 DEF TypeInv, ControlInv, SemInv, TraceInv, StateInv, Moves, InLoop, AllLabels,
       MainLabels, DebugLabels, RpcLabels
  <2>4. ~Sliced /\ CpuInv => CpuInv'
    BY <2>1, <2>2 DEF CpuInv, DebugHolds, RpcHolds, Moves, Blocking
  <2>5. ~Sliced /\ CpuInv /\ SampleInv => SampleInv'
    BY <2>1, <2>2 DEF SampleInv, Moves
  <2>6. Ops \subseteq {"start", "get"} /\ TokenInv /\ TracingInv => TokenInv' /\ TracingInv'
    BY <2>1, <2>2 DEF TokenInv, TracingInv, MainHas, DebugHas, Moves, TypeInv, ControlInv,
       SemInv, TraceInv, StateInv, InLoop
  <2> QED
    BY <2>3, <2>4, <2>5, <2>6 DEF Kept
<1>7. CASE DebugPublish
  <2>1. Moves(Debug) /\ at[Debug] = "publish" /\ at'[Debug] \in {"timeout", "exit_give"}
    BY <1>7, Goes DEF DebugPublish, TypeInv, ControlInv, AllLabels, MainLabels, DebugLabels,
       RpcLabels
  <2>2. UNCHANGED <<plc_run, stop_debug_thread, debug_thread_state, plc_cycle_start, waiting,
                    __tick, expired, __debugtoken, traced>>
    BY <1>7 DEF DebugPublish, flags, semaphore, trace
  <2>3. trace_samples' \in {trace_samples, Append(trace_samples, traced),
                             Tail(trace_samples), Append(Tail(trace_samples), traced)}
    BY <1>7 DEF DebugPublish
  <2>4. /\ trace_samples' \in Seq(0 .. MaxToken) /\ Len(trace_samples') <= MaxSamples
        /\ \A i \in 1 .. Len(trace_samples') :
              trace_samples'[i] = traced \/ \E j \in 1 .. Len(trace_samples) : trace_samples'[i] = trace_samples[j]
    <3>1. trace_samples \in Seq(0 .. MaxToken) /\ Len(trace_samples) <= MaxSamples /\ traced \in 0 .. MaxToken
          /\ MaxSamples \in Nat \ {0} /\ Len(trace_samples) \in Nat
      BY DebugBounds, LenProperties DEF TypeInv, TraceInv
    <3>2. CASE trace_samples' = trace_samples
      BY <3>1, <3>2
    <3>3. CASE Len(trace_samples) < MaxSamples /\ trace_samples' = Append(trace_samples, traced)
      <4>1. /\ trace_samples' \in Seq(0 .. MaxToken) /\ Len(trace_samples') = Len(trace_samples) + 1
            /\ \A i \in 1 .. Len(trace_samples) : trace_samples'[i] = trace_samples[i]
            /\ trace_samples'[Len(trace_samples) + 1] = traced
        BY <3>1, <3>3, AppendProperties
      <4> QED
        BY <3>1, <3>3, <4>1
    <3>4. CASE /\ Len(trace_samples) = MaxSamples
               /\ trace_samples' \in {Tail(trace_samples), Append(Tail(trace_samples), traced)}
      <4>1. PICK rest : rest = Tail(trace_samples)
        OBVIOUS
      <4>2. /\ rest \in Seq(0 .. MaxToken) /\ Len(rest) = Len(trace_samples) - 1
            /\ \A i \in 1 .. Len(rest) : rest[i] = trace_samples[i + 1]
        BY <3>1, <3>4, <4>1
      <4>3. CASE trace_samples' = rest
        BY <3>1, <3>4, <4>2, <4>3
      <4>4. CASE trace_samples' = Append(rest, traced)
        <5>1. /\ trace_samples' \in Seq(0 .. MaxToken) /\ Len(trace_samples') = Len(rest) + 1
              /\ \A i \in 1 .. Len(rest) : trace_samples'[i] = rest[i]
              /\ trace_samples'[Len(rest) + 1] = traced
          BY <3>1, <4>2, <4>4, AppendProperties
        <5> QED
          BY <3>1, <3>4, <4>2, <5>1
      <4> QED
        BY <3>4, <4>1, <4>3, <4>4
    <3> QED
      BY <1>7, <3>2, <3>3, <3>4 DEF DebugPublish
  <2>5. TypeInv'
    <3>1. TraceInv'
      BY <2>1, <2>2, <2>4 DEF TypeInv, TraceInv, Moves
    <3> QED
      BY <2>1, <2>2, <3>1 DEF TypeInv, ControlInv, SemInv, StateInv, Moves, InLoop, AllLabels,
         MainLabels, DebugLabels, RpcLabels
  <2>6. ~Sliced /\ CpuInv => CpuInv'
    BY <2>1, <2>2 DEF CpuInv, DebugHolds, RpcHolds, Moves, Blocking
  <2>7. ~Sliced /\ CpuInv /\ SampleInv => SampleInv'
    <3>1. SUFFICES ASSUME ~Sliced, CpuInv, SampleInv
                   PROVE  SampleInv'
      OBVIOUS
    <3>2. \A i \in 1 .. Len(trace_samples') : trace_samples'[i] = traced'
      BY <2>2, <2>4, <3>1 DEF SampleInv
    <3>3. at[Rpc] # "set_list" /\ at'[Rpc] # "set_list"
      BY <2>1, <3>1 DEF CpuInv, RpcHolds, Moves
    <3> QED
      BY <2>1, <2>2, <3>1, <3>2, <3>3 DEF SampleInv, Moves
  <2>8. Ops \subseteq {"start", "get"} /\ TokenInv /\ TracingInv => TokenInv' /\ TracingInv'
    BY <2>1, <2>2 DEF TokenInv, TracingInv, MainHas, DebugHas, Moves, TypeInv, ControlInv,
       SemInv, TraceInv, StateInv, InLoop
  <2> QED
    BY <2>5, <2>6, <2>7, <2>8 DEF Kept
<1>8. CASE DebugTimeout
  <2>1. Moves(Debug) /\ at[Debug] = "timeout" /\ at'[Debug] \in {"give", "exit_give"}
    BY <1>8, Goes DEF DebugTimeout, TypeInv, ControlInv, AllLabels, MainLabels, DebugLabels,
       RpcLabels
  <2>2. UNCHANGED <<plc_run, stop_debug_thread, debug_thread_state, plc_cycle_start, waiting,
                    __tick, expired, __debugtoken, traced, trace_samples>>
    BY <1>8 DEF DebugTimeout, flags, semaphore, trace
  <2>3. TypeInv'
    BY <2>1, <2>2 DEF TypeInv, ControlInv, SemInv, TraceInv, StateInv, Moves, InLoop, AllLabels,
       MainLabels, DebugLabels, RpcLabels
  <2>4. ~Sliced /\ CpuInv => CpuInv'
    BY <2>1, <2>2 DEF CpuInv, DebugHolds, RpcHolds, Moves, Blocking
  <2>5. ~Sliced /\ CpuInv /\ SampleInv => SampleInv'
    BY <2>1, <2>2 DEF SampleInv, Moves
  <2>6. Ops \subseteq {"start", "get"} /\ TokenInv /\ TracingInv => TokenInv' /\ TracingInv'
    BY <2>1, <2>2 DEF TokenInv, TracingInv, MainHas, DebugHas, Moves, TypeInv, ControlInv,
       SemInv, TraceInv, StateInv, InLoop
  <2> QED
    BY <2>3, <2>4, <2>5, <2>6 DEF Kept
<1>9. CASE DebugGive
  <2>1. /\ at[Debug] = "give" /\ at'[Debug] = "sleep" /\ at'[Rpc] = at[Rpc] /\ at' \in [Threads -> AllLabels]
        /\ Sliced \/ cpu \in {Debug, NoThread}
        /\ cpu' \in {Debug, NoThread}
        /\ Debug \notin waiting
        /\ \/ waiting = {} /\ waiting' = {} /\ plc_cycle_start' = 1 /\ at'[Main] = at[Main]
           \/ /\ Main \in waiting /\ waiting' = waiting \ {Main} /\ at'[Main] = "enter"
              /\ plc_cycle_start' = plc_cycle_start
    <3>1. SemGive(Debug, "give", "sleep")
      BY <1>9 DEF DebugGive
    <3>2. at \in [Threads -> AllLabels] /\ SemInv /\ "sleep" \in AllLabels
      BY DEF TypeInv, ControlInv, AllLabels, MainLabels, DebugLabels
    <3> QED
      BY <3>1, <3>2, Gives DEF Taken, Blocking
  <2>2. UNCHANGED <<plc_run, stop_debug_thread, debug_thread_state, __tick, expired, __debugtoken,
                    traced, trace_samples>>
    BY <1>9 DEF DebugGive, flags, trace
  <2>3. TypeInv'
    BY <2>1, <2>2 DEF TypeInv, ControlInv, SemInv, TraceInv, StateInv, InLoop, AllLabels,
       MainLabels, DebugLabels, RpcLabels
  <2>4. ~Sliced /\ CpuInv => CpuInv'
    BY <2>1, <2>2 DEF CpuInv, DebugHolds, RpcHolds, Blocking, TypeInv, SemInv
  <2>5. ~Sliced /\ CpuInv /\ SampleInv => SampleInv'
    BY <2>1, <2>2 DEF SampleInv
  <2>6. Ops \subseteq {"start", "get"} /\ TokenInv /\ TracingInv => TokenInv' /\ TracingInv'
    BY <2>1, <2>2 DEF TokenInv, TracingInv, MainHas, DebugHas, TypeInv, ControlInv, SemInv,
       TraceInv, StateInv, InLoop
  <2> QED
    BY <2>3, <2>4, <2>5, <2>6 DEF Kept
<1>10. CASE DebugSleep
  <2>1. Moves(Debug) /\ at[Debug] = "sleep" /\ at'[Debug] = "test"
    BY <1>10, Goes DEF DebugSleep, TypeInv, ControlInv, AllLabels, MainLabels, DebugLabels,
       RpcLabels
  <2>2. UNCHANGED <<plc_run, stop_debug_thread, debug_thread_state, plc_cycle_start, waiting,
                    __tick, expired, __debugtoken, traced, trace_samples>>
    BY <1>10 DEF DebugSleep, flags, semaphore, trace
  <2>3. TypeInv'
    BY <2>1, <2>2 DEF TypeInv, ControlInv, SemInv, TraceInv, StateInv, Moves, InLoop, AllLabels,
       MainLabels, DebugLabels, RpcLabels
  <2>4. ~Sliced /\ CpuInv => CpuInv'
    BY <2>1, <2>2 DEF CpuInv, DebugHolds, RpcHolds, Moves, Blocking
  <2>5. ~Sliced /\ CpuInv /\ SampleInv => SampleInv'
    BY <2>1, <2>2 DEF SampleInv, Moves
  <2>6. Ops \subseteq {"start", "get"} /\ TokenInv /\ TracingInv => TokenInv' /\ TracingInv'
    BY <2>1, <2>2 DEF TokenInv, TracingInv, MainHas, DebugHas, Moves, TypeInv, ControlInv,
       SemInv, TraceInv, StateInv, InLoop
  <2> QED
    BY <2>3, <2>4, <2>5, <2>6 DEF Kept
<1>11. CASE DebugExitGive
  <2>1. /\ at[Debug] = "exit_give" /\ at'[Debug] = "exit_stop" /\ at'[Rpc] = at[Rpc] /\ at' \in [Threads -> AllLabels]
        /\ Sliced \/ cpu \in {Debug, NoThread}
        /\ cpu' \in {Debug, NoThread} /\ (~Sliced => cpu' = Debug)
        /\ Debug \notin waiting
        /\ \/ waiting = {} /\ waiting' = {} /\ plc_cycle_start' = 1 /\ at'[Main] = at[Main]
           \/ /\ Main \in waiting /\ waiting' = waiting \ {Main} /\ at'[Main] = "enter"
              /\ plc_cycle_start' = plc_cycle_start
    <3>1. SemGive(Debug, "exit_give", "exit_stop")
      BY <1>11 DEF DebugExitGive
    <3>2. at \in [Threads -> AllLabels] /\ SemInv /\ "exit_stop" \in AllLabels
      BY DEF TypeInv, ControlInv, AllLabels, MainLabels, DebugLabels
    <3> QED
      BY <3>1, <3>2, Gives DEF Taken, Blocking
  <2>2. UNCHANGED <<plc_run, stop_debug_thread, debug_thread_state, __tick, expired, __debugtoken,
                    traced, trace_samples>>
    BY <1>11 DEF DebugExitGive, flags, trace
  <2>3. TypeInv'
    BY <2>1, <2>2 DEF TypeInv, ControlInv, SemInv, TraceInv, StateInv, InLoop, AllLabels,
       MainLabels, DebugLabels, RpcLabels
  <2>4. ~Sliced /\ CpuInv => CpuInv'
    BY <2>1, <2>2 DEF CpuInv, DebugHolds, RpcHolds, Blocking, TypeInv, SemInv
  <2>5. ~Sliced /\ CpuInv /\ SampleInv => SampleInv'
    BY <2>1, <2>2 DEF SampleInv
  <2>6. Ops \subseteq {"start", "get"} /\ TokenInv /\ TracingInv => TokenInv' /\ TracingInv'
    BY <2>1, <2>2 DEF TokenInv, TracingInv, MainHas, DebugHas, TypeInv, ControlInv, SemInv,
       TraceInv, StateInv, InLoop
  <2> QED
    BY <2>3, <2>4, <2>5, <2>6 DEF Kept
<1>12. CASE DebugExitStop
  <2>1. Moves(Debug) /\ at[Debug] = "exit_stop" /\ at'[Debug] = "exit_last"
    BY <1>12, Goes DEF DebugExitStop, TypeInv, ControlInv, AllLabels, MainLabels, DebugLabels,
       RpcLabels
  <2>2. /\ UNCHANGED <<plc_run, debug_thread_state, plc_cycle_start, waiting, __tick, expired,
                       __debugtoken, traced, trace_samples>>
        /\ stop_debug_thread' = 0
    BY <1>12 DEF DebugExitStop, flags, semaphore, trace
  <2>3. TypeInv'
    BY <2>1, <2>2 DEF TypeInv, ControlInv, SemInv, TraceInv, StateInv, Moves, InLoop, AllLabels,
       MainLabels, DebugLabels, RpcLabels
  <2>4. ~Sliced /\ CpuInv => CpuInv'
    BY <2>1, <2>2 DEF CpuInv, DebugHolds, RpcHolds, Moves, Blocking
  <2>5. ~Sliced /\ CpuInv /\ SampleInv => SampleInv'
    BY <2>1, <2>2 DEF SampleInv, Moves
  <2>6. Ops \subseteq {"start", "get"} /\ TokenInv /\ TracingInv => TokenInv' /\ TracingInv'
    BY <2>1, <2>2 DEF TokenInv, TracingInv, MainHas, DebugHas, Moves, TypeInv, ControlInv,
       SemInv, TraceInv, StateInv, InLoop
  <2> QED
    BY <2>3, <2>4, <2>5, <2>6 DEF Kept
<1>13. CASE DebugExitLast
  <2>1. Moves(Debug) /\ at[Debug] = "exit_last" /\ at'[Debug] = "exit_state"
    BY <1>13, Goes DEF DebugExitLast, TypeInv, ControlInv, AllLabels, MainLabels, DebugLabels,
       RpcLabels
  <2>2. /\ UNCHANGED <<plc_run, stop_debug_thread, debug_thread_state, plc_cycle_start, waiting,
                       expired, __debugtoken, traced, trace_samples>>
        /\ __tick' \in {"ahead", "zero"}
    BY <1>13 DEF DebugExitLast, flags, semaphore, trace
  <2>3. TypeInv'
    BY <2>1, <2>2 DEF TypeInv, ControlInv, SemInv, TraceInv, StateInv, Moves, InLoop, AllLabels,
       MainLabels, DebugLabels, RpcLabels
  <2>4. ~Sliced /\ CpuInv => CpuInv'
    BY <2>1, <2>2 DEF CpuInv, DebugHolds, RpcHolds, Moves, Blocking
  <2>5. ~Sliced /\ CpuInv /\ SampleInv => SampleInv'
    BY <2>1, <2>2 DEF SampleInv, Moves
  <2>6. Ops \subseteq {"start", "get"} /\ TokenInv /\ TracingInv => TokenInv' /\ TracingInv'
    BY <2>1, <2>2 DEF TokenInv, TracingInv, MainHas, DebugHas, Moves, TypeInv, ControlInv,
       SemInv, TraceInv, StateInv, InLoop
  <2> QED
    BY <2>3, <2>4, <2>5, <2>6 DEF Kept
<1>14. CASE DebugExitState
  <2>1. Moves(Debug) /\ at[Debug] = "exit_state" /\ at'[Debug] = "end"
    BY <1>14, Goes DEF DebugExitState, TypeInv, ControlInv, AllLabels, MainLabels, DebugLabels,
       RpcLabels
  <2>2. /\ UNCHANGED <<plc_run, stop_debug_thread, plc_cycle_start, waiting, __tick, expired,
                       __debugtoken, traced, trace_samples>>
        /\ debug_thread_state' = 0
    BY <1>14 DEF DebugExitState, flags, semaphore, trace
  <2>3. TypeInv'
    BY <2>1, <2>2 DEF TypeInv, ControlInv, SemInv, TraceInv, StateInv, Moves, InLoop, AllLabels,
       MainLabels, DebugLabels, RpcLabels
  <2>4. ~Sliced /\ CpuInv => CpuInv'
    BY <2>1, <2>2 DEF CpuInv, DebugHolds, RpcHolds, Moves, Blocking
  <2>5. ~Sliced /\ CpuInv /\ SampleInv => SampleInv'
    BY <2>1, <2>2 DEF SampleInv, Moves
  <2>6. Ops \subseteq {"start", "get"} /\ TokenInv /\ TracingInv => TokenInv' /\ TracingInv'
    BY <2>1, <2>2 DEF TokenInv, TracingInv, MainHas, DebugHas, Moves, TypeInv, ControlInv,
       SemInv, TraceInv, StateInv, InLoop
  <2> QED
    BY <2>3, <2>4, <2>5, <2>6 DEF Kept
<1>15. CASE DebugEnd
  <2>1. Moves(Debug) /\ at[Debug] = "end" /\ at'[Debug] = "none"
    BY <1>15, Goes DEF DebugEnd, TypeInv, ControlInv, AllLabels, MainLabels, DebugLabels, RpcLabels
  <2>2. UNCHANGED <<plc_run, stop_debug_thread, debug_thread_state, plc_cycle_start, waiting,
                    __tick, expired, __debugtoken, traced, trace_samples>>
    BY <1>15 DEF DebugEnd, flags, semaphore, trace
  <2>3. TypeInv'
    BY <2>1, <2>2 DEF TypeInv, ControlInv, SemInv, TraceInv, StateInv, Moves, InLoop, AllLabels,
       MainLabels, DebugLabels, RpcLabels
  <2>4. ~Sliced /\ CpuInv => CpuInv'
    BY <2>1, <2>2 DEF CpuInv, DebugHolds, RpcHolds, Moves, Blocking
  <2>5. ~Sliced /\ CpuInv /\ SampleInv => SampleInv'
    BY <2>1, <2>2 DEF SampleInv, Moves
  <2>6. Ops \subseteq {"start", "get"} /\ TokenInv /\ TracingInv => TokenInv' /\ TracingInv'
    BY <2>1, <2>2 DEF TokenInv, TracingInv, MainHas, DebugHas, Moves, TypeInv, ControlInv,
       SemInv, TraceInv, StateInv, InLoop
  <2> QED
    BY <2>3, <2>4, <2>5, <2>6 DEF Kept
<1> QED
  BY <1>1, <1>2, <1>3, <1>4, <1>5, <1>6, <1>7, <1>8, <1>9, <1>10, <1>11, <1>12, <1>13, <1>14,
     <1>15 DEF DebugStep

\* The RPC server's steps.
LEMMA RpcKeeps ==
    ASSUME TypeInv, Call \/ RpcStep
    PROVE  Kept
<1> USE ThreadsDiffer
<1>1. CASE Call
  <2>1. /\ Moves(Rpc) /\ at[Rpc] = "idle"
        /\ ((at'[Rpc] = "set_state" /\ "set" \in Ops /\ __debugtoken < MaxToken) \/ at'[Rpc] = "get_sent")
    BY <1>1, Goes DEF Call, TypeInv, ControlInv, AllLabels, MainLabels, DebugLabels, RpcLabels
  <2>2. /\ UNCHANGED <<plc_run, stop_debug_thread, debug_thread_state, plc_cycle_start, waiting,
                       __tick, expired, __debugtoken, traced, trace_samples>>
        /\ at[Debug] # "created"
    BY <1>1 DEF Call, flags, semaphore, trace
  <2>3. TypeInv'
    BY <2>1, <2>2 DEF TypeInv, ControlInv, SemInv, TraceInv, StateInv, Moves, InLoop, AllLabels,
       MainLabels, DebugLabels, RpcLabels
  <2>4. ~Sliced /\ CpuInv => CpuInv'
    BY <2>1, <2>2 DEF CpuInv, DebugHolds, RpcHolds, Moves, Blocking
  <2>5. ~Sliced /\ CpuInv /\ SampleInv => SampleInv'
    BY <2>1, <2>2 DEF SampleInv, Moves
  <2>6. Ops \subseteq {"start", "get"} /\ TokenInv /\ TracingInv => TokenInv' /\ TracingInv'
    BY <2>1, <2>2 DEF TokenInv, TracingInv, MainHas, DebugHas, Moves, TypeInv, ControlInv,
       SemInv, TraceInv, StateInv, InLoop
  <2> QED
    BY <2>3, <2>4, <2>5, <2>6 DEF Kept
<1>2. CASE SetState
  <2>1. Moves(Rpc) /\ at[Rpc] = "set_state" /\ at'[Rpc] \in {"set_stop", "set_token"}
    BY <1>2, Goes DEF SetState, TypeInv, ControlInv, AllLabels, MainLabels, DebugLabels, RpcLabels
  <2>2. UNCHANGED <<plc_run, stop_debug_thread, debug_thread_state, plc_cycle_start, waiting,
                    __tick, expired, __debugtoken, traced, trace_samples>>
    BY <1>2 DEF SetState, flags, semaphore, trace
  <2>3. TypeInv'
    BY <2>1, <2>2 DEF TypeInv, ControlInv, SemInv, TraceInv, StateInv, Moves, InLoop, AllLabels,
       MainLabels, DebugLabels, RpcLabels
  <2>4. ~Sliced /\ CpuInv => CpuInv'
    BY <2>1, <2>2 DEF CpuInv, DebugHolds, RpcHolds, Moves, Blocking
  <2>5. ~Sliced /\ CpuInv /\ SampleInv => SampleInv'
    BY <2>1, <2>2 DEF SampleInv, Moves
  <2>6. Ops \subseteq {"start", "get"} /\ TokenInv /\ TracingInv => TokenInv' /\ TracingInv'
    BY <2>1, <2>2 DEF TokenInv, TracingInv, MainHas, DebugHas, Moves, TypeInv, ControlInv,
       SemInv, TraceInv, StateInv, InLoop
  <2> QED
    BY <2>3, <2>4, <2>5, <2>6 DEF Kept
<1>3. CASE SetStop
  <2>1. Moves(Rpc) /\ at[Rpc] = "set_stop" /\ at'[Rpc] = "set_wait"
    BY <1>3, Goes DEF SetStop, TypeInv, ControlInv, AllLabels, MainLabels, DebugLabels, RpcLabels
  <2>2. /\ UNCHANGED <<plc_run, debug_thread_state, plc_cycle_start, waiting, __tick, expired,
                       __debugtoken, traced, trace_samples>>
        /\ stop_debug_thread' = 1
    BY <1>3 DEF SetStop, flags, semaphore, trace
  <2>3. TypeInv'
    BY <2>1, <2>2 DEF TypeInv, ControlInv, SemInv, TraceInv, StateInv, Moves, InLoop, AllLabels,
       MainLabels, DebugLabels, RpcLabels
  <2>4. ~Sliced /\ CpuInv => CpuInv'
    BY <2>1, <2>2 DEF CpuInv, DebugHolds, RpcHolds, Moves, Blocking
  <2>5. ~Sliced /\ CpuInv /\ SampleInv => SampleInv'
    BY <2>1, <2>2 DEF SampleInv, Moves
  <2>6. Ops \subseteq {"start", "get"} /\ TokenInv /\ TracingInv => TokenInv' /\ TracingInv'
    BY <2>1, <2>2 DEF TokenInv, TracingInv, MainHas, DebugHas, Moves, TypeInv, ControlInv,
       SemInv, TraceInv, StateInv, InLoop
  <2> QED
    BY <2>3, <2>4, <2>5, <2>6 DEF Kept
<1>4. CASE SetWait
  <2>1. Moves(Rpc) /\ at[Rpc] = "set_wait" /\ at'[Rpc] = "set_token"
    BY <1>4, Goes DEF SetWait, TypeInv, ControlInv, AllLabels, MainLabels, DebugLabels, RpcLabels
  <2>2. UNCHANGED <<plc_run, stop_debug_thread, debug_thread_state, plc_cycle_start, waiting,
                    __tick, expired, __debugtoken, traced, trace_samples>>
    BY <1>4 DEF SetWait, flags, semaphore, trace
  <2>3. TypeInv'
    BY <2>1, <2>2 DEF TypeInv, ControlInv, SemInv, TraceInv, StateInv, Moves, InLoop, AllLabels,
       MainLabels, DebugLabels, RpcLabels
  <2>4. ~Sliced /\ CpuInv => CpuInv'
    BY <2>1, <2>2 DEF CpuInv, DebugHolds, RpcHolds, Moves, Blocking
  <2>5. ~Sliced /\ CpuInv /\ SampleInv => SampleInv'
    BY <2>1, <2>2 DEF SampleInv, Moves
  <2>6. Ops \subseteq {"start", "get"} /\ TokenInv /\ TracingInv => TokenInv' /\ TracingInv'
    BY <2>1, <2>2 DEF TokenInv, TracingInv, MainHas, DebugHas, Moves, TypeInv, ControlInv,
       SemInv, TraceInv, StateInv, InLoop
  <2> QED
    BY <2>3, <2>4, <2>5, <2>6 DEF Kept
<1>5. CASE SetToken
  <2>1. Moves(Rpc) /\ at[Rpc] = "set_token" /\ at'[Rpc] \in {"set_list", "idle"}
    BY <1>5, Goes DEF SetToken, TypeInv, ControlInv, AllLabels, MainLabels, DebugLabels, RpcLabels
  <2>2. /\ UNCHANGED <<plc_run, stop_debug_thread, debug_thread_state, plc_cycle_start, waiting,
                       __tick, expired, traced>>
        /\ __debugtoken' = __debugtoken + 1 /\ trace_samples' = <<>>
    BY <1>5 DEF SetToken, flags, semaphore, trace
  <2>3. TypeInv'
    <3>1. __debugtoken' \in 0 .. MaxToken /\ trace_samples' \in Seq(0 .. MaxToken) /\ Len(trace_samples') <= MaxSamples
      <4>1. __debugtoken \in 0 .. MaxToken /\ __debugtoken < MaxToken
        BY <2>1 DEF TypeInv, TraceInv
      <4>2. <<>> \in Seq(0 .. MaxToken) /\ Len(<<>>) <= MaxSamples
        BY DebugBounds
      <4> QED
        BY <2>2, <4>1, <4>2, DebugBounds
    <3>2. TraceInv'
      BY <2>1, <2>2, <3>1 DEF TypeInv, TraceInv, Moves
    <3> QED
      BY <2>1, <2>2, <3>2 DEF TypeInv, ControlInv, SemInv, TraceInv, StateInv, Moves, InLoop,
         AllLabels, MainLabels, DebugLabels, RpcLabels
  <2>4. ~Sliced /\ CpuInv => CpuInv'
    BY <2>1, <2>2 DEF CpuInv, DebugHolds, RpcHolds, Moves, Blocking
  <2>5. ~Sliced /\ CpuInv /\ SampleInv => SampleInv'
    BY <2>1, <2>2 DEF SampleInv, Moves
  <2>6. Ops \subseteq {"start", "get"} /\ TokenInv /\ TracingInv => TokenInv' /\ TracingInv'
    BY <2>1, <2>2 DEF TokenInv, TracingInv, MainHas, DebugHas, Moves, TypeInv, ControlInv,
       SemInv, TraceInv, StateInv, InLoop
  <2> QED
    BY <2>3, <2>4, <2>5, <2>6 DEF Kept
<1>6. CASE SetList
  <2>1. Moves(Rpc) /\ at[Rpc] = "set_list" /\ at'[Rpc] \in {"set_run", "idle"}
    BY <1>6, Goes DEF SetList, TypeInv, ControlInv, AllLabels, MainLabels, DebugLabels, RpcLabels
  <2>2. /\ UNCHANGED <<plc_run, stop_debug_thread, debug_thread_state, plc_cycle_start, waiting,
                       __tick, expired, __debugtoken, trace_samples>>
        /\ traced' = __debugtoken
    BY <1>6 DEF SetList, flags, semaphore, trace
  <2>3. TypeInv'
    <3>1. TraceInv'
      BY <2>1, <2>2 DEF TypeInv, TraceInv, Moves
    <3> QED
      BY <2>1, <2>2, <3>1 DEF TypeInv, ControlInv, SemInv, StateInv, Moves, InLoop, AllLabels,
         MainLabels, DebugLabels, RpcLabels
  <2>4. ~Sliced /\ CpuInv => CpuInv'
    BY <2>1, <2>2 DEF CpuInv, DebugHolds, RpcHolds, Moves, Blocking
  <2>5. ~Sliced /\ CpuInv /\ SampleInv => SampleInv'
    BY <2>1, <2>2 DEF SampleInv, Moves
  <2>6. Ops \subseteq {"start", "get"} /\ TokenInv /\ TracingInv => TokenInv' /\ TracingInv'
    BY <2>1, <2>2 DEF TokenInv, TracingInv, MainHas, DebugHas, Moves, TypeInv, ControlInv,
       SemInv, TraceInv, StateInv, InLoop
  <2> QED
    BY <2>3, <2>4, <2>5, <2>6 DEF Kept
<1>7. CASE SetRun
  <2>1. /\ Moves(Rpc) /\ at[Rpc] = "set_run"
        /\ (at'[Rpc] = IF plc_run = 1 THEN "set_create" ELSE "idle")
    BY <1>7, Goes DEF SetRun, TypeInv, ControlInv, AllLabels, MainLabels, DebugLabels, RpcLabels
  <2>2. UNCHANGED <<plc_run, stop_debug_thread, debug_thread_state, plc_cycle_start, waiting,
                    __tick, expired, __debugtoken, traced, trace_samples>>
    BY <1>7 DEF SetRun, flags, semaphore, trace
  <2>3. TypeInv'
    BY <2>1, <2>2 DEF TypeInv, ControlInv, SemInv, TraceInv, StateInv, Moves, InLoop, AllLabels,
       MainLabels, DebugLabels, RpcLabels
  <2>4. ~Sliced /\ CpuInv => CpuInv'
    BY <2>1, <2>2 DEF CpuInv, DebugHolds, RpcHolds, Moves, Blocking
  <2>5. ~Sliced /\ CpuInv /\ SampleInv => SampleInv'
    BY <2>1, <2>2 DEF SampleInv, Moves
  <2>6. Ops \subseteq {"start", "get"} /\ TokenInv /\ TracingInv => TokenInv' /\ TracingInv'
    BY <2>1, <2>2 DEF TokenInv, TracingInv, MainHas, DebugHas, Moves, TypeInv, ControlInv,
       SemInv, TraceInv, StateInv, InLoop
  <2> QED
    BY <2>3, <2>4, <2>5, <2>6 DEF Kept
<1>8. CASE SetCreate
  <2>1. /\ at[Rpc] = "set_create" /\ at'[Rpc] = "idle" /\ at'[Main] = at[Main] /\ at' \in [Threads -> AllLabels]
        /\ at'[Debug] = at[Debug] \/ (debug_thread_state = 0 /\ at'[Debug] = "created")
        /\ Sliced \/ cpu \in {Rpc, NoThread}
        /\ cpu' \in {Rpc, NoThread}
    BY <1>8 DEF SetCreate, StartDebugThread, Runs, Keep, Blocking, TypeInv, ControlInv,
       AllLabels, DebugLabels, RpcLabels
  <2>2. UNCHANGED <<plc_run, stop_debug_thread, debug_thread_state, plc_cycle_start, waiting,
                    __tick, expired, __debugtoken, traced, trace_samples>>
    BY <1>8 DEF SetCreate, flags, semaphore, trace
  <2>3. TypeInv'
    BY <2>1, <2>2 DEF TypeInv, ControlInv, SemInv, TraceInv, StateInv, InLoop, AllLabels,
       MainLabels, DebugLabels, RpcLabels
  <2>4. ~Sliced /\ CpuInv => CpuInv'
    BY <2>1, <2>2 DEF CpuInv, DebugHolds, RpcHolds, Blocking, TypeInv, SemInv
  <2>5. ~Sliced /\ CpuInv /\ SampleInv => SampleInv'
    BY <2>1, <2>2 DEF SampleInv
  <2>6. Ops \subseteq {"start", "get"} /\ TokenInv /\ TracingInv => TokenInv' /\ TracingInv'
    BY <2>1, <2>2 DEF TokenInv, TracingInv, MainHas, DebugHas, TypeInv, ControlInv, SemInv,
       TraceInv, StateInv, InLoop
  <2> QED
    BY <2>3, <2>4, <2>5, <2>6 DEF Kept
<1>9. CASE GetSent
  <2>1. Moves(Rpc) /\ at[Rpc] = "get_sent" /\ at'[Rpc] = "get_run"
    BY <1>9, Goes DEF GetSent, TypeInv, ControlInv, AllLabels, MainLabels, DebugLabels, RpcLabels
  <2>2. /\ UNCHANGED <<plc_run, stop_debug_thread, debug_thread_state, plc_cycle_start, waiting,
                       __tick, __debugtoken, traced, trace_samples>>
        /\ expired' = FALSE
    BY <1>9 DEF GetSent, flags, semaphore, trace
  <2>3. TypeInv'
    <3>1. TraceInv'
      BY <2>1, <2>2 DEF TypeInv, TraceInv, Moves
    <3> QED
      BY <2>1, <2>2, <3>1 DEF TypeInv, ControlInv, SemInv, StateInv, Moves, InLoop, AllLabels,
         MainLabels, DebugLabels, RpcLabels
  <2>4. ~Sliced /\ CpuInv => CpuInv'
    BY <2>1, <2>2 DEF CpuInv, DebugHolds, RpcHolds, Moves, Blocking
  <2>5. ~Sliced /\ CpuInv /\ SampleInv => SampleInv'
    BY <2>1, <2>2 DEF SampleInv, Moves
  <2>6. Ops \subseteq {"start", "get"} /\ TokenInv /\ TracingInv => TokenInv' /\ TracingInv'
    BY <2>1, <2>2 DEF TokenInv, TracingInv, MainHas, DebugHas, Moves, TypeInv, ControlInv,
       SemInv, TraceInv, StateInv, InLoop
  <2> QED
    BY <2>3, <2>4, <2>5, <2>6 DEF Kept
<1>10. CASE GetRun
  <2>1. /\ Moves(Rpc) /\ at[Rpc] = "get_run"
        /\ (at'[Rpc] = IF plc_run = 1 THEN "get_create" ELSE "get_token")
    BY <1>10, Goes DEF GetRun, TypeInv, ControlInv, AllLabels, MainLabels, DebugLabels, RpcLabels
  <2>2. UNCHANGED <<plc_run, stop_debug_thread, debug_thread_state, plc_cycle_start, waiting,
                    __tick, expired, __debugtoken, traced, trace_samples>>
    BY <1>10 DEF GetRun, flags, semaphore, trace
  <2>3. TypeInv'
    BY <2>1, <2>2 DEF TypeInv, ControlInv, SemInv, TraceInv, StateInv, Moves, InLoop, AllLabels,
       MainLabels, DebugLabels, RpcLabels
  <2>4. ~Sliced /\ CpuInv => CpuInv'
    BY <2>1, <2>2 DEF CpuInv, DebugHolds, RpcHolds, Moves, Blocking
  <2>5. ~Sliced /\ CpuInv /\ SampleInv => SampleInv'
    BY <2>1, <2>2 DEF SampleInv, Moves
  <2>6. Ops \subseteq {"start", "get"} /\ TokenInv /\ TracingInv => TokenInv' /\ TracingInv'
    BY <2>1, <2>2 DEF TokenInv, TracingInv, MainHas, DebugHas, Moves, TypeInv, ControlInv,
       SemInv, TraceInv, StateInv, InLoop
  <2> QED
    BY <2>3, <2>4, <2>5, <2>6 DEF Kept
<1>11. CASE GetCreate
  <2>1. /\ at[Rpc] = "get_create" /\ at'[Rpc] = "get_token" /\ at'[Main] = at[Main] /\ at' \in [Threads -> AllLabels]
        /\ at'[Debug] = at[Debug] \/ (debug_thread_state = 0 /\ at'[Debug] = "created")
        /\ Sliced \/ cpu \in {Rpc, NoThread}
        /\ cpu' \in {Rpc, NoThread} /\ (~Sliced => cpu' = Rpc)
    BY <1>11 DEF GetCreate, StartDebugThread, Runs, Keep, Blocking, TypeInv, ControlInv,
       AllLabels, DebugLabels, RpcLabels
  <2>2. UNCHANGED <<plc_run, stop_debug_thread, debug_thread_state, plc_cycle_start, waiting,
                    __tick, expired, __debugtoken, traced, trace_samples>>
    BY <1>11 DEF GetCreate, flags, semaphore, trace
  <2>3. TypeInv'
    BY <2>1, <2>2 DEF TypeInv, ControlInv, SemInv, TraceInv, StateInv, InLoop, AllLabels,
       MainLabels, DebugLabels, RpcLabels
  <2>4. ~Sliced /\ CpuInv => CpuInv'
    BY <2>1, <2>2 DEF CpuInv, DebugHolds, RpcHolds, Blocking, TypeInv, SemInv
  <2>5. ~Sliced /\ CpuInv /\ SampleInv => SampleInv'
    BY <2>1, <2>2 DEF SampleInv
  <2>6. Ops \subseteq {"start", "get"} /\ TokenInv /\ TracingInv => TokenInv' /\ TracingInv'
    BY <2>1, <2>2 DEF TokenInv, TracingInv, MainHas, DebugHas, TypeInv, ControlInv, SemInv,
       TraceInv, StateInv, InLoop
  <2> QED
    BY <2>3, <2>4, <2>5, <2>6 DEF Kept
<1>12. CASE GetToken
  <2>1. /\ Moves(Rpc) /\ at[Rpc] = "get_token"
        /\ ((at'[Rpc] = "get_wait" /\ traced = __debugtoken) \/ at'[Rpc] = "idle")
    BY <1>12, Goes DEF GetToken, TypeInv, ControlInv, AllLabels, MainLabels, DebugLabels, RpcLabels
  <2>2. UNCHANGED <<plc_run, stop_debug_thread, debug_thread_state, plc_cycle_start, waiting,
                    __tick, expired, __debugtoken, traced, trace_samples>>
    BY <1>12 DEF GetToken, flags, semaphore, trace
  <2>3. TypeInv'
    BY <2>1, <2>2 DEF TypeInv, ControlInv, SemInv, TraceInv, StateInv, Moves, InLoop, AllLabels,
       MainLabels, DebugLabels, RpcLabels
  <2>4. ~Sliced /\ CpuInv => CpuInv'
    BY <2>1, <2>2 DEF CpuInv, DebugHolds, RpcHolds, Moves, Blocking
  <2>5. ~Sliced /\ CpuInv /\ SampleInv => SampleInv'
    BY <2>1, <2>2 DEF SampleInv, Moves
  <2>6. Ops \subseteq {"start", "get"} /\ TokenInv /\ TracingInv => TokenInv' /\ TracingInv'
    BY <2>1, <2>2 DEF TokenInv, TracingInv, MainHas, DebugHas, Moves, TypeInv, ControlInv,
       SemInv, TraceInv, StateInv, InLoop
  <2> QED
    BY <2>3, <2>4, <2>5, <2>6 DEF Kept
<1>13. CASE GetWait
  <2>1. Moves(Rpc) /\ at[Rpc] = "get_wait" /\ at'[Rpc] = "get_read"
    BY <1>13, Goes DEF GetWait, TypeInv, ControlInv, AllLabels, MainLabels, DebugLabels, RpcLabels
  <2>2. UNCHANGED <<plc_run, stop_debug_thread, debug_thread_state, plc_cycle_start, waiting,
                    __tick, expired, __debugtoken, traced, trace_samples>>
    BY <1>13 DEF GetWait, flags, semaphore, trace
  <2>3. TypeInv'
    BY <2>1, <2>2 DEF TypeInv, ControlInv, SemInv, TraceInv, StateInv, Moves, InLoop, AllLabels,
       MainLabels, DebugLabels, RpcLabels
  <2>4. ~Sliced /\ CpuInv => CpuInv'
    BY <2>1, <2>2 DEF CpuInv, DebugHolds, RpcHolds, Moves, Blocking
  <2>5. ~Sliced /\ CpuInv /\ SampleInv => SampleInv'
    BY <2>1, <2>2 DEF SampleInv, Moves
  <2>6. Ops \subseteq {"start", "get"} /\ TokenInv /\ TracingInv => TokenInv' /\ TracingInv'
    BY <2>1, <2>2 DEF TokenInv, TracingInv, MainHas, DebugHas, Moves, TypeInv, ControlInv,
       SemInv, TraceInv, StateInv, InLoop
  <2> QED
    BY <2>3, <2>4, <2>5, <2>6 DEF Kept
<1>14. CASE GetRead
  <2>1. Moves(Rpc) /\ at[Rpc] = "get_read" /\ at'[Rpc] = "idle"
    BY <1>14, Goes DEF GetRead, TypeInv, ControlInv, AllLabels, MainLabels, DebugLabels, RpcLabels
  <2>2. /\ UNCHANGED <<plc_run, stop_debug_thread, debug_thread_state, plc_cycle_start, waiting,
                       __tick, expired, __debugtoken, traced>>
        /\ trace_samples' \in {<<>>, trace_samples}
    BY <1>14 DEF GetRead, flags, semaphore, trace
  <2>3. TypeInv'
    <3>1. trace_samples' \in Seq(0 .. MaxToken) /\ Len(trace_samples') <= MaxSamples
      <4>1. <<>> \in Seq(0 .. MaxToken) /\ Len(<<>>) <= MaxSamples
        BY DebugBounds
      <4> QED
        BY <2>2, <4>1 DEF TypeInv, TraceInv
    <3>2. TraceInv'
      BY <2>1, <2>2, <3>1 DEF TypeInv, TraceInv, Moves
    <3> QED
      BY <2>1, <2>2, <3>2 DEF TypeInv, ControlInv, SemInv, StateInv, Moves, InLoop, AllLabels,
         MainLabels, DebugLabels, RpcLabels
  <2>4. ~Sliced /\ CpuInv => CpuInv'
    BY <2>1, <2>2 DEF CpuInv, DebugHolds, RpcHolds, Moves, Blocking
  <2>5. ~Sliced /\ CpuInv /\ SampleInv => SampleInv'
    BY <2>1, <2>2 DEF SampleInv, Moves
  <2>6. Ops \subseteq {"start", "get"} /\ TokenInv /\ TracingInv => TokenInv' /\ TracingInv'
    BY <2>1, <2>2 DEF TokenInv, TracingInv, MainHas, DebugHas, Moves, TypeInv, ControlInv,
       SemInv, TraceInv, StateInv, InLoop
  <2> QED
    BY <2>3, <2>4, <2>5, <2>6 DEF Kept
<1> QED
  BY <1>1, <1>2, <1>3, <1>4, <1>5, <1>6, <1>7, <1>8, <1>9, <1>10, <1>11, <1>12, <1>13, <1>14 DEF
     RpcStep

\* The shell's steps, and time.
LEMMA ShellKeeps ==
    ASSUME TypeInv, Start \/ Stop \/ Expire \/ UNCHANGED vars
    PROVE  Kept
<1> USE ThreadsDiffer
<1>1. CASE Start
  <2>1. /\ at[Main] = "parked" /\ at'[Main] = "init" /\ \A u \in Threads \ {Main} : at'[u] = at[u]
        /\ at' \in [Threads -> AllLabels] /\ cpu' = cpu /\ (Sliced \/ cpu = NoThread)
    BY <1>1 DEF Start, ShellRuns, control, TypeInv, ControlInv, AllLabels, MainLabels
  <2>2. /\ UNCHANGED <<stop_debug_thread, debug_thread_state, plc_cycle_start, waiting, __tick,
                       expired, __debugtoken, traced, trace_samples>>
        /\ plc_run' = 1
    BY <1>1 DEF Start, flags, semaphore, trace
  <2>3. TypeInv'
    BY <2>1, <2>2 DEF TypeInv, ControlInv, SemInv, TraceInv, StateInv, InLoop, AllLabels,
       MainLabels, DebugLabels, RpcLabels
  <2>4. ~Sliced /\ CpuInv => CpuInv'
    BY <2>1, <2>2 DEF CpuInv, DebugHolds, RpcHolds, Blocking, TypeInv, SemInv
  <2>5. ~Sliced /\ CpuInv /\ SampleInv => SampleInv'
    BY <2>1, <2>2 DEF SampleInv
  <2>6. Ops \subseteq {"start", "get"} /\ TokenInv /\ TracingInv => TokenInv' /\ TracingInv'
    BY <2>1, <2>2 DEF TokenInv, TracingInv, MainHas, DebugHas, TypeInv, ControlInv, SemInv,
       TraceInv, StateInv, InLoop
  <2> QED
    BY <2>3, <2>4, <2>5, <2>6 DEF Kept
<1>2. CASE Stop
  <2>1. at' = at /\ cpu' = cpu /\ "stop" \in Ops
    BY <1>2 DEF Stop, ShellRuns, control
  <2>2. /\ UNCHANGED <<stop_debug_thread, debug_thread_state, plc_cycle_start, waiting, __tick,
                       expired, __debugtoken, traced, trace_samples>>
        /\ plc_run' = 0
    BY <1>2 DEF Stop, flags, semaphore, trace
  <2>3. TypeInv'
    BY <2>1, <2>2 DEF TypeInv, ControlInv, SemInv, TraceInv, StateInv, InLoop, AllLabels,
       MainLabels, DebugLabels, RpcLabels
  <2>4. ~Sliced /\ CpuInv => CpuInv'
    BY <2>1, <2>2 DEF CpuInv, DebugHolds, RpcHolds, Blocking, TypeInv, SemInv
  <2>5. ~Sliced /\ CpuInv /\ SampleInv => SampleInv'
    BY <2>1, <2>2 DEF SampleInv
  <2>6. Ops \subseteq {"start", "get"} /\ TokenInv /\ TracingInv => TokenInv' /\ TracingInv'
    BY <2>1, <2>2 DEF TokenInv, TracingInv, MainHas, DebugHas, TypeInv, ControlInv, SemInv,
       TraceInv, StateInv, InLoop
  <2> QED
    BY <2>3, <2>4, <2>5, <2>6 DEF Kept
<1>3. CASE Expire
  <2>1. at' = at /\ cpu' = cpu
    BY <1>3 DEF Expire, ShellRuns, control
  <2>2. /\ UNCHANGED <<plc_run, stop_debug_thread, debug_thread_state, plc_cycle_start, waiting,
                       __tick, __debugtoken, traced, trace_samples>>
        /\ expired' = TRUE
    BY <1>3 DEF Expire, flags, semaphore, trace
  <2>3. TypeInv'
    BY <2>1, <2>2 DEF TypeInv, ControlInv, SemInv, TraceInv, StateInv, InLoop, AllLabels,
       MainLabels, DebugLabels, RpcLabels
  <2>4. ~Sliced /\ CpuInv => CpuInv'
    BY <2>1, <2>2 DEF CpuInv, DebugHolds, RpcHolds, Blocking, TypeInv, SemInv
  <2>5. ~Sliced /\ CpuInv /\ SampleInv => SampleInv'
    BY <2>1, <2>2 DEF SampleInv
  <2>6. Ops \subseteq {"start", "get"} /\ TokenInv /\ TracingInv => TokenInv' /\ TracingInv'
    BY <2>1, <2>2 DEF TokenInv, TracingInv, MainHas, DebugHas, TypeInv, ControlInv, SemInv,
       TraceInv, StateInv, InLoop
  <2> QED
    BY <2>3, <2>4, <2>5, <2>6 DEF Kept
<1>4. CASE UNCHANGED vars
  <2>1. at' = at /\ cpu' = cpu
    BY <1>4 DEF vars, control
  <2>2. UNCHANGED <<plc_run, stop_debug_thread, debug_thread_state, plc_cycle_start, waiting,
                    __tick, expired, __debugtoken, traced, trace_samples>>
    BY <1>4 DEF vars, flags, semaphore, trace
  <2>3. TypeInv'
    BY <2>1, <2>2 DEF TypeInv, ControlInv, SemInv, TraceInv, StateInv, InLoop, AllLabels,
       MainLabels, DebugLabels, RpcLabels
  <2>4. ~Sliced /\ CpuInv => CpuInv'
    BY <2>1, <2>2 DEF CpuInv, DebugHolds, RpcHolds, Blocking, TypeInv, SemInv
  <2>5. ~Sliced /\ CpuInv /\ SampleInv => SampleInv'
    BY <2>1, <2>2 DEF SampleInv
  <2>6. Ops \subseteq {"start", "get"} /\ TokenInv /\ TracingInv => TokenInv' /\ TracingInv'
    BY <2>1, <2>2 DEF TokenInv, TracingInv, MainHas, DebugHas, TypeInv, ControlInv, SemInv,
       TraceInv, StateInv, InLoop
  <2> QED
    BY <2>3, <2>4, <2>5, <2>6 DEF Kept
<1> QED
  BY <1>1, <1>2, <1>3, <1>4

-----------------------------------------------------------------------------
(* The theorems.                                                           *)

\* The program starts with the types right,
LEMMA StartTyped ==
    ASSUME Init
    PROVE  TypeInv
<1>1. /\ at[Main] = "parked" /\ at[Debug] = "none" /\ at[Rpc] = "idle"
      /\ at \in [Threads -> AllLabels] /\ cpu = NoThread
  BY ThreadsDiffer DEF Init, AllLabels, MainLabels, DebugLabels, RpcLabels
<1>2. /\ 0 \in 0 .. MaxToken /\ <<>> \in Seq(0 .. MaxToken) /\ Len(<<>>) <= MaxSamples
      /\ __debugtoken = 0 /\ traced = 0 /\ trace_samples = <<>> /\ __tick = "zero" /\ expired = FALSE
  BY DebugBounds DEF Init
<1>3. TraceInv
  BY <1>1, <1>2 DEF TraceInv
<1>4. ControlInv /\ SemInv /\ StateInv
  BY <1>1 DEF Init, ControlInv, SemInv, StateInv, InLoop, MainLabels, DebugLabels, RpcLabels
<1> QED
  BY <1>3, <1>4 DEF TypeInv

\* and with nothing sampled and nobody holding processor or token.
LEMMA StartIdle ==
    ASSUME Init
    PROVE  CpuInv /\ SampleInv /\ TokenInv /\ TracingInv
<1>1. at[Main] = "parked" /\ at[Debug] = "none" /\ at[Rpc] = "idle"
  BY ThreadsDiffer DEF Init
<1>2. trace_samples = <<>> /\ Len(trace_samples) = 0 /\ plc_cycle_start = 0 /\ stop_debug_thread = 0
  BY DEF Init
<1> QED
  BY <1>1, <1>2 DEF CpuInv, DebugHolds, RpcHolds, SampleInv, TokenInv, MainHas, DebugHas, TracingInv

\* Every step keeps what it should.
LEMMA StepKeeps ==
    ASSUME TypeInv, [Next]_vars
    PROVE  Kept
BY MainKeeps, DebugKeeps, RpcKeeps, ShellKeeps DEF Next

\* The trace list can be read or not.
ReadInv == readable \in BOOLEAN

LEMMA ReadableTyped ==
    ASSUME ReadInv, [Next]_vars
    PROVE  ReadInv'
<1> USE DEF ReadInv
<1>1. CASE MainStep
  BY <1>1 DEF MainStep, MainInitDebug, MainTick, MainTake, MainEnter, MainCycle, MainGive, MainSleep, trace
<1>2. CASE DebugStep
  BY <1>2 DEF DebugStep, DebugTest, DebugMark, DebugTake, DebugTakeTimeout, DebugStopCheck, DebugFresh,
              DebugPublish, DebugTimeout, DebugGive, DebugSleep, DebugExitGive, DebugExitStop, DebugExitLast,
              DebugExitState, DebugEnd, trace
<1>3. CASE RpcStep
  BY <1>3 DEF RpcStep, SetState, SetStop, SetWait, SetToken, SetList, SetRun, SetCreate,
              GetSent, GetRun, GetCreate, GetToken, GetWait, GetRead, trace
<1>4. CASE Call \/ Start \/ Stop \/ Expire \/ UNCHANGED vars
  BY <1>4 DEF Call, Start, Stop, Expire, trace, vars
<1> QED
  BY <1>1, <1>2, <1>3, <1>4 DEF Next

\* Every variable stays in its range, and a thread waits only at its take, while the
\* token is gone (k_sem_take and k_sem_give of plc_cycle_start): whatever calls the clients
\* make, with time slicing or without, for every number of tokens and samples.
THEOREM TypesKept == Spec => []TypeOK
<1>1. TypeInv /\ ReadInv => TypeOK
  BY DEF TypeInv, ReadInv, ControlInv, SemInv, TraceInv, StateInv, TypeOK, AllLabels
<1>2. TypeInv /\ ReadInv /\ [Next]_vars => TypeInv' /\ ReadInv'
  BY StepKeeps, ReadableTyped DEF Kept
<1>3. Init => TypeInv /\ ReadInv
  BY StartTyped DEF Init, ReadInv
<1> QED
  BY <1>1, <1>2, <1>3, PTL DEF Spec

\* Without time slicing k_thread_create never reuses the stack of a debug thread that has
\* not ended (plc_debug_thread_start): the thread is where debug_thread_state says it is
\* whenever another thread reads it, as it gives up the processor only in its loop.
THEOREM OneThreadAtATime ==
    ASSUME ~Sliced
    PROVE  Spec => OneDebugThread
<1>1. ASSUME TypeInv, CpuInv, [Next]_vars, at[Debug] # "created", at'[Debug] = "created"
      PROVE  at[Debug] = "none"
  <2>1. /\ at[Rpc] \in {"set_create", "get_create"} /\ cpu \in {Rpc, NoThread}
        /\ debug_thread_state = 0
    <3> USE ThreadsDiffer DEF TypeInv, ControlInv
    <3>1. CASE UNCHANGED vars
      BY <1>1, <3>1 DEF vars, control
    <3>2. CASE Start \/ Stop \/ Expire
      BY <1>1, <3>2 DEF Start, Stop, Expire, control
    <3>3. CASE MainStep
      <4>1. CASE MainInitDebug \/ MainGive \/ MainTake
        BY <1>1, <4>1 DEF MainInitDebug, MainGive, MainTake, SemGive, SemTake, SemInv, Taken
      <4>2. CASE MainTick \/ MainEnter \/ MainCycle \/ MainSleep
        BY <1>1, <4>2 DEF MainTick, MainEnter, MainCycle, MainSleep, Goto
      <4> QED
        BY <3>3, <4>1, <4>2 DEF MainStep
    <3>4. CASE DebugStep
      <4>1. CASE DebugGive \/ DebugExitGive \/ DebugTake \/ DebugTakeTimeout
        BY <1>1, <4>1 DEF DebugGive, DebugExitGive, DebugTake, DebugTakeTimeout, SemGive, SemTake, SemInv, Taken
      <4>2. CASE DebugTest \/ DebugMark \/ DebugStopCheck \/ DebugFresh \/ DebugPublish
        BY <1>1, <4>2 DEF DebugTest, DebugMark, DebugStopCheck, DebugFresh, DebugPublish, Goto
      <4>3. CASE DebugTimeout \/ DebugSleep \/ DebugExitStop \/ DebugExitLast \/ DebugExitState \/ DebugEnd
        BY <1>1, <4>3 DEF DebugTimeout, DebugSleep, DebugExitStop, DebugExitLast, DebugExitState, DebugEnd, Goto
      <4> QED
        BY <3>4, <4>1, <4>2, <4>3 DEF DebugStep
    <3>5. CASE Call \/ RpcStep
      <4>1. CASE SetCreate \/ GetCreate
        BY <1>1, <4>1 DEF SetCreate, GetCreate, StartDebugThread, Runs
      <4>2. CASE Call \/ SetState \/ SetStop \/ SetWait \/ SetToken \/ SetList \/ SetRun
        BY <1>1, <4>2 DEF Call, SetState, SetStop, SetWait, SetToken, SetList, SetRun, Goto
      <4>3. CASE GetSent \/ GetRun \/ GetToken \/ GetWait \/ GetRead
        BY <1>1, <4>3 DEF GetSent, GetRun, GetToken, GetWait, GetRead, Goto
      <4> QED
        BY <3>5, <4>1, <4>2, <4>3 DEF RpcStep
    <3> QED
      BY <1>1, <3>1, <3>2, <3>3, <3>4, <3>5 DEF Next
  <2>2. at[Debug] \in DebugLabels \ {"test", "mark", "publish", "timeout", "give", "exit_give",
                   "exit_stop", "exit_last", "exit_state", "end"} \/ Debug \in waiting
    BY <1>1, <2>1, ThreadsDiffer DEF CpuInv, RpcHolds, DebugHolds, TypeInv, ControlInv
  <2>3. at[Debug] \notin InLoop /\ Debug \notin waiting
    BY <1>1, <2>1 DEF TypeInv, StateInv, SemInv, InLoop
  <2> QED
    BY <1>1, <2>2, <2>3 DEF InLoop, DebugLabels
<1>2. TypeInv /\ CpuInv /\ [Next]_vars => (TypeInv /\ CpuInv)'
  BY StepKeeps DEF Kept
<1>3. TypeInv /\ CpuInv /\ [Next]_vars => [at[Debug] # "created" /\ at'[Debug] = "created" => at[Debug] = "none"]_vars
  BY <1>1
<1> QED
  BY StartTyped, StartIdle, <1>2, <1>3, PTL DEF Spec, OneDebugThread

\* Without time slicing the samples GetTraceVariables copies are all of the trace list its
\* token names (plc_debug.c, GetTraceVariables and publish_debug): a list is set up in one
\* go, after the ring buffer was emptied.
THEOREM SamplesAreOfTheToken ==
    ASSUME ~Sliced
    PROVE  Spec => []SamplesMatchToken
<1>1. SampleInv => SamplesMatchToken
  BY DEF SampleInv, SamplesMatchToken
<1>2. TypeInv /\ CpuInv /\ SampleInv /\ [Next]_vars => (TypeInv /\ CpuInv /\ SampleInv)'
  BY StepKeeps DEF Kept
<1> QED
  BY StartTyped, StartIdle, <1>1, <1>2, PTL DEF Spec

\* While no run is stopped and no trace list set, variables are never sampled during a PLC
\* cycle, with time slicing or without: plc_cycle_start holds one token, which plc_main or
\* the debug thread has from the start of the run on.
THEOREM CyclesExcludeSampling ==
    ASSUME Ops \subseteq {"start", "get"}
    PROVE  Spec => []CycleExclusion
<1>1. TokenInv => CycleExclusion
  BY DEF TokenInv, MainHas, DebugHas, CycleExclusion
<1>2. TypeInv /\ TokenInv /\ TracingInv /\ [Next]_vars => (TypeInv /\ TokenInv /\ TracingInv)'
  BY StepKeeps DEF Kept
<1> QED
  BY StartTyped, StartIdle, <1>1, <1>2, PTL DEF Spec
=============================================================================
