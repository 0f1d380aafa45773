--------------------------------- MODULE RteLog ---------------------------------
(***************************************************************************)
(* The log of the PLC program, plc_rte_log.c: the messages in plc.log,     *)
(* numbered within their level, the counters of each level, and the copy   *)
(* of the counters in logstate.log.                                        *)
(*                                                                         *)
(* plc_main, which runs the program, resets the log when it starts and     *)
(* then logs; the RPC server reads messages and resets the log, for        *)
(* ResetLogCount and for RepairPLC; a shell that was built with the test   *)
(* commands resets it as well.  Each may lose the processor wherever a     *)
(* file is touched.  A message is the number of the call that logged it.   *)
(* The backup by a timer is switched off (BACKUP_PERIOD_SEC is 0).         *)
(***************************************************************************)
EXTENDS Integers, Sequences, FiniteSets

CONSTANTS
    Levels,         \* LOG_LEVELS
    Program,        \* the thread that runs the PLC program
    Reader,         \* the thread of the RPC server
    Shells,         \* the threads of the shells that have plc reset_log
    Wrap,           \* the number of values of a counter: 2^32
    MaxCalls        \* bound: calls made of the log and, in Boot, of the shell

ASSUME LogAssumption ==
    /\ Program # Reader /\ Program \notin Shells /\ Reader \notin Shells
    /\ Wrap \in Nat \ {0} /\ MaxCalls \in Nat

NoState == [idx |-> <<>>, cnt |-> <<>>]
NoLine == [level |-> 0, id |-> 0, msg |-> 0]
Lost == 0

VARIABLES
    messageIndexes, plc_logCounts,
    logFile,        \* plc.log: its lines; there is no difference between none and an empty one
    logState,       \* logstate.log
    logAt,          \* of each thread: its statement, and what its call is about
    calls,          \* bound: number of calls made
    ready,          \* plc_main has initialised the log
    logged,         \* history: the messages of each level since the counters were zeroed
    reads,          \* history: the messages of each level that were found since then
    overlapped,     \* history: another call and the last reset of the log overlapped
    left            \* history: the lines that this reset left in plc.log

counters == <<messageIndexes, plc_logCounts>>
files == <<logFile, logState>>
history == <<logged, reads, overlapped, left>>
logVars == <<counters, files, logAt, calls, ready, history>>

LogThreads == {Program, Reader} \cup Shells
Mod(n) == n % Wrap
Zero == [l \in Levels |-> 0]

LogIdle == [at |-> "idle", then |-> "idle", line |-> NoLine, gone |-> FALSE]
LogIs(t, at) == logAt[t].at = at
LogGoto(t, at) == logAt' = [logAt EXCEPT ![t].at = at]
LogReturn(t) == logAt' = [logAt EXCEPT ![t] = [LogIdle EXCEPT !.at = logAt[t].then]]

LogInit ==
    /\ messageIndexes = Zero /\ plc_logCounts = Zero
    /\ logFile = <<>> /\ logState = NoState
    /\ logAt = [t \in LogThreads |-> LogIdle]
    /\ calls = 0 /\ ready = FALSE
    /\ logged = [l \in Levels |-> <<>>] /\ reads = Zero /\ overlapped = FALSE /\ left = 0

Called == calls < MaxCalls /\ calls' = calls + 1

-----------------------------------------------------------------------------
(* LogMessage *)

Logging(t) == logAt[t].at \in {"index", "write", "count"}

LogOpen(l) ==
    /\ ready /\ LogIs(Program, "idle") /\ Called
    /\ logAt' = [logAt EXCEPT ![Program] = [LogIdle EXCEPT !.at = "index", !.line.level = l, !.line.msg = calls + 1]]
    /\ overlapped' = (overlapped \/ \E t \in LogThreads : LogIs(t, "zero"))
    /\ UNCHANGED <<counters, files, ready, logged, reads, left>>

LogIndex ==
    /\ LogIs(Program, "index")
    /\ LET line == logAt[Program].line
       IN  /\ messageIndexes' = [messageIndexes EXCEPT ![line.level] = Mod(@ + 1)]
           /\ logAt' = [logAt EXCEPT ![Program].at = "write", ![Program].line.id = messageIndexes[line.level]]
           /\ logged' = [logged EXCEPT ![line.level] = Append(@, line.msg)]
    /\ UNCHANGED <<plc_logCounts, files, calls, ready, reads, overlapped, left>>

\* fprintf and fclose, whose results nobody looks at: the line is written, unless its file
\* has been unlinked or the disk fails.
LogWrite ==
    /\ LogIs(Program, "write")
    /\ LET line == logAt[Program].line
       IN  \/ /\ ~logAt[Program].gone
              /\ logFile' = Append(logFile, line)
              /\ UNCHANGED logged
           \/ /\ logged' = [logged EXCEPT ![line.level] =
                                [i \in DOMAIN @ |-> IF @[i] = line.msg THEN Lost ELSE @[i]]]
              /\ UNCHANGED logFile
    /\ LogGoto(Program, "count")
    /\ UNCHANGED <<counters, logState, calls, ready, reads, overlapped, left>>

LogCount ==
    /\ LogIs(Program, "count")
    /\ plc_logCounts' = [plc_logCounts EXCEPT ![logAt[Program].line.level] = Mod(@ + 1)]
    /\ LogReturn(Program)
    /\ UNCHANGED <<messageIndexes, files, calls, ready, history>>

LogMessage == (\E l \in Levels : LogOpen(l)) \/ LogIndex \/ LogWrite \/ LogCount

-----------------------------------------------------------------------------
(* GetLogMessage *)

\* The first line of the level with the number, or NoLine.
Find(l, id) ==
    LET hits == {i \in DOMAIN logFile : logFile[i].level = l /\ logFile[i].id = id}
    IN  IF hits = {} THEN NoLine ELSE logFile[CHOOSE i \in hits : \A j \in hits : i <= j]

\* Also a message that is there is not found when there is no memory for it.
GetRead(l, id) ==
    /\ LogIs(Reader, "idle") /\ Called
    /\ \E line \in {Find(l, id), NoLine} :
        logAt' = [logAt EXCEPT ![Reader] = [LogIdle EXCEPT !.at = "get_count", !.line = line]]
    /\ UNCHANGED <<counters, files, ready, history>>

\* Mutant: the counter is signed.
GetCountSigned ==
    /\ LogIs(Reader, "get_count")
    /\ LET line == logAt[Reader].line
       IN  IF line = NoLine THEN UNCHANGED <<plc_logCounts, reads>>
           ELSE /\ plc_logCounts' = [plc_logCounts EXCEPT ![line.level] = @ - 1]
                /\ reads' = [reads EXCEPT ![line.level] = @ + 1]
    /\ LogReturn(Reader)
    /\ UNCHANGED <<messageIndexes, files, calls, ready, logged, overlapped, left>>

GetCount ==
    /\ LogIs(Reader, "get_count")
    /\ LET line == logAt[Reader].line
       IN  IF line = NoLine THEN UNCHANGED <<plc_logCounts, reads>>
           ELSE /\ plc_logCounts' = [plc_logCounts EXCEPT ![line.level] = Mod(@ - 1)]
                /\ reads' = [reads EXCEPT ![line.level] = @ + 1]
    /\ LogReturn(Reader)
    /\ UNCHANGED <<messageIndexes, files, calls, ready, logged, overlapped, left>>

GetLogMessage == (\E l \in Levels, id \in 0 .. MaxCalls : GetRead(l, id)) \/ GetCount

-----------------------------------------------------------------------------
(* ResetLogCount *)

\* Called by anyone but the program.
ResetCall(t) ==
    /\ t # Program /\ LogIs(t, "idle") /\ Called
    /\ LogGoto(t, "unlink")
    /\ UNCHANGED <<counters, files, ready, history>>

\* Each of the files is removed, or left there with an entry in the system's log.  A thread
\* that has plc.log open goes on with a file nobody sees.
ResetUnlink(t) ==
    /\ LogIs(t, "unlink")
    /\ \/ /\ logFile' = <<>>
          /\ logAt' = [u \in LogThreads |-> IF u = t THEN [logAt[u] EXCEPT !.at = "zero"]
                                            ELSE [logAt[u] EXCEPT !.gone = Logging(u)]]
       \/ UNCHANGED logFile /\ LogGoto(t, "zero")
    /\ logState' \in {NoState, logState}
    /\ left' = Len(logFile')
    /\ overlapped' = \E u \in LogThreads : Logging(u) \/ LogIs(u, "get_count")
    /\ UNCHANGED <<counters, calls, ready, logged, reads>>

\* Mutant: the numbers go on.
ResetZeroCounts(t) ==
    /\ LogIs(t, "zero")
    /\ plc_logCounts' = Zero
    /\ logged' = [l \in Levels |-> <<>>] /\ reads' = Zero
    /\ LogGoto(t, "save")
    /\ UNCHANGED <<messageIndexes, files, calls, ready, overlapped, left>>

ResetZero(t) ==
    /\ LogIs(t, "zero")
    /\ plc_logCounts' = Zero /\ messageIndexes' = Zero
    /\ logged' = [l \in Levels |-> <<>>] /\ reads' = Zero
    /\ LogGoto(t, "save")
    /\ UNCHANGED <<files, calls, ready, overlapped, left>>

\* SaveLogState, which may fail.
ResetSave(t) ==
    /\ LogIs(t, "save")
    /\ logState' = [idx |-> messageIndexes, cnt |-> plc_logCounts] \/ UNCHANGED logState
    /\ LogReturn(t)
    /\ UNCHANGED <<counters, logFile, calls, ready, history>>

ResetLogCount == \E t \in LogThreads : ResetCall(t) \/ ResetUnlink(t) \/ ResetZero(t) \/ ResetSave(t)

-----------------------------------------------------------------------------
(* The start of plc_main: initialize_logging and another ResetLogCount *)

InitializeLogging ==
    /\ ~ready /\ LogIs(Program, "idle")
    /\ logAt' = [logAt EXCEPT ![Program].at = "unlink", ![Program].then = "load"]
    /\ UNCHANGED <<counters, files, calls, ready, history>>

LoadLogState ==
    /\ LogIs(Program, "load")
    /\ IF logState = NoState THEN UNCHANGED counters
       ELSE messageIndexes' = logState.idx /\ plc_logCounts' = logState.cnt
    /\ logAt' = [logAt EXCEPT ![Program].at = "unlink", ![Program].then = "ready"]
    /\ UNCHANGED <<files, calls, ready, history>>

LogReady ==
    /\ LogIs(Program, "ready")
    /\ logAt' = [logAt EXCEPT ![Program] = LogIdle]
    /\ ready' = TRUE
    /\ UNCHANGED <<counters, files, calls, history>>

LogStart == InitializeLogging \/ LoadLogState \/ LogReady

RteLogNext == LogStart \/ LogMessage \/ GetLogMessage \/ ResetLogCount

-----------------------------------------------------------------------------
(* Properties *)

LogTypeOK ==
    /\ messageIndexes \in [Levels -> 0 .. Wrap - 1]
    /\ plc_logCounts \in [Levels -> 0 .. Wrap - 1]
    /\ \A t \in LogThreads : logAt[t].at \in
        {"idle", "index", "write", "count", "get_count", "unlink", "zero", "save", "load", "ready"}
    /\ calls \in 0 .. MaxCalls /\ ready \in BOOLEAN /\ overlapped \in BOOLEAN
    /\ logged \in [Levels -> Seq(0 .. MaxCalls)] /\ left \in 0 .. Len(logFile)

\* The line holds what was logged under its number since the last reset.
Current(line) ==
    LET known == logged[line.level]
    IN  line.id + 1 \in DOMAIN known /\ known[line.id + 1] = line.msg

\* Message i of level l is in the file under its number, among the lines that are new.
InFile(l, i) ==
    \E j \in (left + 1) .. Len(logFile) : logFile[j] = [level |-> l, id |-> i - 1, msg |-> logged[l][i]]

\* A number names one message: after a reset that no other call overlapped every line but
\* those it could not remove is one logged since then, under its own number, no message
\* that was written is missing, and the counter is the number of messages logged less the
\* times one was found.  GetLogMessage answers with the message of that number if the
\* reset has removed the file; the lines it left keep numbers that are given out again
\* (plc_rte_log.c:188, 270 and 293 to 316).
LogFaithful ==
    ready /\ ~overlapped =>
        /\ \A i \in (left + 1) .. Len(logFile) :
              /\ Current(logFile[i])
              /\ \A j \in (left + 1) .. Len(logFile) :
                    logFile[i].level = logFile[j].level /\ logFile[i].id = logFile[j].id => i = j
        /\ left = 0 /\ LogIs(Reader, "get_count") /\ logAt[Reader].line # NoLine => Current(logAt[Reader].line)
        /\ (\A t \in LogThreads : LogIs(t, "idle")) =>
            \A l \in Levels :
                /\ messageIndexes[l] = Len(logged[l])
                /\ plc_logCounts[l] = Mod(Len(logged[l]) - reads[l])
                /\ \A i \in DOMAIN logged[l] : logged[l][i] # Lost =>
                      /\ InFile(l, i)
                      /\ left = 0 => Find(l, i - 1).msg = logged[l][i]
=============================================================================
