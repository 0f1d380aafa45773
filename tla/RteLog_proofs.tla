----------------------------- MODULE RteLog_proofs -----------------------------
(***************************************************************************)
(* What each step of the log preserves, for every set of levels, number of *)
(* values of the counters and bound: the lemmas that Boot_proofs needs for *)
(* the specification in which the log runs.                                *)
(***************************************************************************)
EXTENDS RteLog, SequenceTheorems, WellFoundedInduction, TLAPS

-----------------------------------------------------------------------------
(* The inductive invariants.                                               *)

\* The types of what is in the log and its files, which LogTypeOK leaves open.
LogLabels == {"idle", "index", "write", "count", "get_count", "unlink", "zero", "save", "load", "ready"}
Line == [level : Levels, id : 0 .. Wrap - 1, msg : 1 .. MaxCalls]

Lines == [level : Levels \cup {0}, id : 0 .. Wrap - 1, msg : 0 .. MaxCalls]
ThreadStates == [at : LogLabels, then : {"idle", "load", "ready"}, line : Lines, gone : BOOLEAN]

LogTypes ==
    /\ logAt \in [LogThreads -> ThreadStates]
    /\ reads \in [Levels -> Nat]
    /\ logFile \in Seq(Line)
    /\ logState # NoState =>
          logState \in [idx : [Levels -> 0 .. Wrap - 1], cnt : [Levels -> 0 .. Wrap - 1]]

\* Where a thread can be, where its call continues, and what it carries.
LogAtInv ==
    /\ \A u \in LogThreads \ {Program} :
          logAt[u].at \in {"idle", "get_count", "unlink", "zero", "save"} /\ logAt[u].then = "idle"
    /\ \A u \in Shells : ~LogIs(u, "get_count")
    /\ LogIs(Reader, "get_count") => logAt[Reader].line = NoLine \/ logAt[Reader].line \in Line
    /\ ready => logAt[Program].at \in {"idle", "index", "write", "count"} /\ logAt[Program].then = "idle"
    /\ ~ready => \/ logAt[Program].at \in {"idle", "load", "ready"}
                 \/ logAt[Program].at \in {"unlink", "zero", "save"} /\ logAt[Program].then \in {"load", "ready"}
    /\ Logging(Program) => logAt[Program].line \in Line

\* The last reset of the start of the log has zeroed the counters, and the last
\* reset of all is over and no other call was there while it went on.
Settled ==
    ready \/ LogIs(Program, "ready") \/ (LogIs(Program, "save") /\ logAt[Program].then = "ready")

Zeroing == \E t \in LogThreads : LogIs(t, "zero")
Quiet == Settled /\ ~overlapped /\ ~Zeroing

\* No message comes from a later call,
AgeInv ==
    /\ \A i \in DOMAIN logFile : logFile[i].msg <= calls
    /\ \A l \in Levels : \A i \in DOMAIN logged[l] : logged[l][i] <= calls
    /\ LogIs(Reader, "get_count") => logAt[Reader].line.msg <= calls
    /\ Logging(Program) => logAt[Program].line.msg <= calls

\* and the one that is being logged is younger than all that are in the file,
\* numbered or read.
FreshInv ==
    logAt[Program].at \in {"index", "write"} =>
        LET line == logAt[Program].line
        IN  /\ \A i \in DOMAIN logFile : logFile[i].msg < line.msg
            /\ LogIs(Reader, "get_count") => logAt[Reader].line.msg < line.msg
            /\ \A l \in Levels : \A i \in DOMAIN logged[l] :
                  \/ logged[l][i] < line.msg
                  \/ LogIs(Program, "write") /\ l = line.level /\ i = line.id + 1

\* Each message and each read is a call of its own: the counters do not wrap
\* while MaxCalls < Wrap.
IndexInv ==
    /\ \A l \in Levels : Len(logged[l]) <= calls
    /\ LogIs(Program, "index") => \A l \in Levels : Len(logged[l]) < calls
    /\ Settled => \A l \in Levels : messageIndexes[l] = Len(logged[l])

ReadsInv == \A l \in Levels : reads[l] + (IF LogIs(Reader, "get_count") THEN 1 ELSE 0) <= calls

\* The counter of a level, less a message that has its number and is not counted yet.
Uncounted(l) == IF logAt[Program].at \in {"write", "count"} /\ logAt[Program].line.level = l THEN 1 ELSE 0

CountInv ==
    Quiet => \A l \in Levels : plc_logCounts[l] = Mod(Len(logged[l]) - reads[l] - Uncounted(l))

\* Between the unlink and the zeroing of a reset that no call overlaps there is
\* no line but those that it could not remove, and nobody has another one in hand.
ZeroInv ==
    Zeroing /\ ~overlapped =>
        /\ Len(logFile) = left /\ ~Logging(Program)
        /\ left = 0 /\ LogIs(Reader, "get_count") => logAt[Reader].line = NoLine

\* What LogFaithful says of the new lines in the file, and in the hands of the threads,
NewLines == (left + 1) .. Len(logFile)

LineInv == Quiet => \A i \in NewLines : Current(logFile[i])

UniqueInv ==
    Quiet => \A i, j \in NewLines : logFile[i].level = logFile[j].level /\ logFile[i].id = logFile[j].id => i = j

HandsInv ==
    Quiet =>
        /\ left = 0 /\ LogIs(Reader, "get_count") /\ logAt[Reader].line # NoLine => Current(logAt[Reader].line)
        /\ LogIs(Program, "write") => Current(logAt[Program].line)

\* and what it says of the messages: each is lost, in the file, or about to be written.
MessageInv ==
    Quiet => \A l \in Levels : \A i \in DOMAIN logged[l] :
        \/ logged[l][i] = Lost \/ InFile(l, i)
        \/ LogIs(Program, "write") /\ logAt[Program].line.level = l /\ logAt[Program].line.id = i - 1

LogTypeInv == LogTypeOK /\ LogTypes /\ LogAtInv
Bookkeeping ==
    /\ AgeInv /\ FreshInv /\ IndexInv /\ ReadsInv /\ CountInv
    /\ ZeroInv /\ LineInv /\ UniqueInv /\ HandsInv /\ MessageInv
LogInv == LogTypeInv /\ Bookkeeping

-----------------------------------------------------------------------------
(* Arithmetic, sequences and the search of a line.                         *)

\* A count that is at most Wrap away from zero.
LEMMA ModSmall ==
    ASSUME NEW n \in Int, - Wrap <= n, n < Wrap
    PROVE  Mod(n) = IF n >= 0 THEN n ELSE n + Wrap
BY LogAssumption DEF Mod

\* A count of one more or less may be kept in a counter all along.
LEMMA ModUp ==
    ASSUME NEW n \in Int, - Wrap <= n, n + 1 < Wrap
    PROVE  Mod(Mod(n) + 1) = Mod(n + 1)
<1> USE LogAssumption
<1>1. Mod(n) = IF n >= 0 THEN n ELSE n + Wrap
  BY ModSmall
<1>2. CASE n = -1
  <2>1. Mod(Wrap) = 0 /\ Mod(0) = 0
    BY DEF Mod
  <2> QED
    BY <1>1, <1>2, <2>1
<1>3. CASE n >= 0
  BY <1>1, <1>3
<1>4. CASE n < -1
  <2>1. Mod(n + Wrap + 1) = n + Wrap + 1
    BY <1>4, ModSmall
  <2>2. Mod(n + 1) = n + 1 + Wrap
    BY <1>4, ModSmall
  <2> QED
    BY <1>1, <1>4, <2>1, <2>2
<1> QED
  BY <1>2, <1>3, <1>4

LEMMA ModDown ==
    ASSUME NEW n \in Int, - Wrap <= n - 1, n < Wrap
    PROVE  Mod(Mod(n) - 1) = Mod(n - 1)
<1> USE LogAssumption
<1>1. Mod(n) = IF n >= 0 THEN n ELSE n + Wrap
  BY ModSmall
<1>2. CASE n >= 0
  BY <1>1, <1>2
<1>3. CASE n < 0
  <2>1. Mod(n + Wrap - 1) = n + Wrap - 1
    BY <1>3, ModSmall
  <2>2. Mod(n - 1) = n - 1 + Wrap
    BY <1>3, ModSmall
  <2> QED
    BY <1>1, <1>3, <2>1, <2>2
<1> QED
  BY <1>2, <1>3

\* Every counter has one of its Wrap values.
LEMMA ModRange ==
    ASSUME NEW n \in Int
    PROVE  Mod(n) \in 0 .. Wrap - 1
BY LogAssumption DEF Mod

\* A set of numbers that is not empty has a least one.
LEMMA LeastOfNumbers ==
    ASSUME NEW S \in SUBSET Nat, S # {}
    PROVE  \E i \in S : \A j \in S : i <= j
<1>1. PICK i \in S : \A j \in S : ~(<<j, i>> \in OpToRel(<, Nat))
  BY NatLessThanWellFounded, WFMin, Zenon
<1>2. \A j \in S : ~(j < i)
  BY <1>1 DEF OpToRel
<1> QED
  BY <1>2

\* Find answers with a line of the level and number, if there is one.
LEMMA FindLine ==
    ASSUME logFile \in Seq(Line), NEW l, NEW id
    PROVE  \/ \E i \in DOMAIN logFile : Find(l, id) = logFile[i] /\ logFile[i].level = l /\ logFile[i].id = id
           \/ Find(l, id) = NoLine /\ \A i \in DOMAIN logFile : ~(logFile[i].level = l /\ logFile[i].id = id)
<1> DEFINE hits == {i \in DOMAIN logFile : logFile[i].level = l /\ logFile[i].id = id}
<1>1. CASE hits = {}
  BY <1>1 DEF Find
<1>2. CASE hits # {}
  <2>1. hits \in SUBSET Nat
    BY LenProperties
  <2>2. \E i \in hits : \A j \in hits : i <= j
    BY <1>2, <2>1, LeastOfNumbers, Zenon
  <2>3. (CHOOSE i \in hits : \A j \in hits : i <= j) \in hits
    BY <2>2
  <2> QED
    BY <1>2, <2>3 DEF Find
<1> QED
  BY <1>1, <1>2

\* A message that is lost leaves the number of messages, and the others, as they are.
LEMMA LoseOne ==
    ASSUME NEW S, Lost \in S, NEW s \in Seq(S), NEW m
    PROVE  LET t == [i \in DOMAIN s |-> IF s[i] = m THEN Lost ELSE s[i]]
           IN  t \in Seq(S) /\ Len(t) = Len(s) /\ DOMAIN t = DOMAIN s
<1> DEFINE t == [i \in DOMAIN s |-> IF s[i] = m THEN Lost ELSE s[i]]
<1>1. Len(s) \in Nat /\ DOMAIN s = 1 .. Len(s) /\ \A i \in 1 .. Len(s) : s[i] \in S
  BY LenProperties, ElementOfSeq
<1>2. t \in [1 .. Len(s) -> S]
  BY <1>1
<1>3. t \in Seq(S)
  BY <1>1, <1>2, SeqDef
<1>4. Len(t) = Len(s)
  BY <1>1, <1>2, <1>3, LenProperties
<1> QED
  BY <1>1, <1>3, <1>4

-----------------------------------------------------------------------------
(* What the steps do to the statements of the threads.                     *)

\* The threads of the log are different ones.
LEMMA Threads ==
    /\ Program # Reader /\ Program \notin Shells /\ Reader \notin Shells
    /\ LogThreads = {Program, Reader} \cup Shells /\ Program \in LogThreads /\ Reader \in LogThreads
    /\ LogTypes => /\ \A u \in LogThreads : logAt[u] \in ThreadStates
                   /\ logAt[Program] \in ThreadStates /\ logAt[Reader] \in ThreadStates
                   /\ DOMAIN logAt = LogThreads
BY LogAssumption DEF LogThreads, LogTypes

\* A thread that is not in a call is in one of the states of a thread.
LEMMA NoLineTyped == NoLine \in Lines /\ LogIdle \in ThreadStates
<1>1. 0 \in 0 .. Wrap - 1 /\ 0 \in 0 .. MaxCalls
  BY LogAssumption
<1> QED
  BY <1>1 DEF NoLine, LogIdle, Lines, ThreadStates, LogLabels

\* LogMessage takes the level and the number of the call,
LEMMA LogOpenAt ==
    ASSUME LogTypeInv, NEW l \in Levels, LogOpen(l)
    PROVE  /\ logAt' \in [LogThreads -> ThreadStates] /\ logAt'[Reader] = logAt[Reader]
           /\ \A u \in LogThreads \ {Program} : logAt'[u] = logAt[u]
           /\ logAt'[Program].at = "index" /\ logAt'[Program].then = "idle"
           /\ logAt'[Program].line.level = l /\ logAt'[Program].line.msg = calls + 1 /\ logAt'[Program].line \in Line
<1> USE Threads DEF LogTypeInv, LogAtInv, LogIs, Logging, LogOpen, LogIdle, NoLine, Called
<1>1. /\ logAt'[Reader] = logAt[Reader] /\ \A u \in LogThreads \ {Program} : logAt'[u] = logAt[u]
      /\ logAt'[Program].at = "index" /\ logAt'[Program].then = "idle"
      /\ logAt'[Program].line = [level |-> l, id |-> 0, msg |-> calls + 1]
  BY DEF ThreadStates, Lines, Line
<1>2. logAt' \in [LogThreads -> ThreadStates]
  <2>1. calls + 1 \in 0 .. MaxCalls /\ 0 \in 0 .. Wrap - 1
    BY LogAssumption DEF LogTypeOK
  <2>2. [LogIdle EXCEPT !.at = "index", !.line.level = l, !.line.msg = calls + 1] \in ThreadStates
    BY <2>1 DEF ThreadStates, Lines, LogLabels
  <2> QED
    BY <2>2 DEF LogTypes
<1>3. calls + 1 \in 1 .. MaxCalls /\ 0 \in 0 .. Wrap - 1
  BY LogAssumption DEF LogTypeOK
<1>4. [level |-> l, id |-> 0, msg |-> calls + 1] \in Line
  BY <1>3 DEF Line
<1>5. logAt'[Program].line.level = l /\ logAt'[Program].line.msg = calls + 1
  BY <1>1, <1>3
<1> QED
  BY <1>1, <1>2, <1>4, <1>5

\* takes a number for the line,
LEMMA LogIndexAt ==
    ASSUME LogTypeInv, LogIndex
    PROVE  /\ logAt' \in [LogThreads -> ThreadStates] /\ logAt'[Reader] = logAt[Reader]
           /\ \A u \in LogThreads \ {Program} : logAt'[u] = logAt[u]
           /\ logAt'[Program].at = "write" /\ logAt'[Program].then = logAt[Program].then
           /\ logAt'[Program].line = [level |-> logAt[Program].line.level, id |-> messageIndexes[logAt[Program].line.level], msg |-> logAt[Program].line.msg] /\ logAt'[Program].gone = logAt[Program].gone
<1> USE Threads DEF LogTypeInv, LogAtInv, LogIs, Logging, LogIndex
<1>1. /\ logAt'[Reader] = logAt[Reader] /\ \A u \in LogThreads \ {Program} : logAt'[u] = logAt[u]
      /\ logAt'[Program].at = "write" /\ logAt'[Program].then = logAt[Program].then
      /\ logAt'[Program].line = [level |-> logAt[Program].line.level, id |-> messageIndexes[logAt[Program].line.level], msg |-> logAt[Program].line.msg] /\ logAt'[Program].gone = logAt[Program].gone
  BY DEF ThreadStates, Lines, Line
<1>2. logAt' \in [LogThreads -> ThreadStates]
  <2>1. logAt[Program].line \in Line
    OBVIOUS
  <2>2. messageIndexes[logAt[Program].line.level] \in 0 .. Wrap - 1
    BY <2>1 DEF Line, LogTypeOK
  <2>3. logAt'[Program].line \in Lines
    BY <1>1, <2>1, <2>2, LogAssumption DEF Line, Lines
  <2>4. logAt'[Program] \in ThreadStates
    BY <1>1, <2>3 DEF ThreadStates, LogLabels, LogTypes
  <2> QED
    BY <2>4 DEF LogTypes
<1> QED
  BY <1>1, <1>2

\* writes,
LEMMA LogWriteAt ==
    ASSUME LogTypeInv, LogWrite
    PROVE  /\ logAt' \in [LogThreads -> ThreadStates] /\ logAt'[Reader] = logAt[Reader]
           /\ \A u \in LogThreads \ {Program} : logAt'[u] = logAt[u]
           /\ logAt'[Program].at = "count" /\ logAt'[Program].then = logAt[Program].then
           /\ logAt'[Program].line = logAt[Program].line /\ logAt'[Program].gone = logAt[Program].gone
<1> USE Threads DEF LogTypeInv, LogAtInv, LogIs, Logging, LogWrite, LogGoto
<1>1. /\ logAt'[Reader] = logAt[Reader] /\ \A u \in LogThreads \ {Program} : logAt'[u] = logAt[u]
      /\ logAt'[Program].at = "count" /\ logAt'[Program].then = logAt[Program].then
      /\ logAt'[Program].line = logAt[Program].line /\ logAt'[Program].gone = logAt[Program].gone
  BY DEF ThreadStates, Lines, Line
<1>2. logAt' \in [LogThreads -> ThreadStates]
  BY DEF ThreadStates, Lines, Line, LogLabels, LogTypeOK, LogTypes
<1> QED
  BY <1>1, <1>2

\* and returns.
LEMMA LogCountAt ==
    ASSUME LogTypeInv, LogCount
    PROVE  /\ logAt' \in [LogThreads -> ThreadStates] /\ logAt'[Reader] = logAt[Reader]
           /\ \A u \in LogThreads \ {Program} : logAt'[u] = logAt[u]
           /\ logAt'[Program].at = "idle" /\ logAt'[Program].then = "idle"
           /\ logAt'[Program].line = NoLine /\ logAt'[Program].gone = FALSE
<1> USE Threads DEF LogTypeInv, LogAtInv, LogIs, Logging, LogCount, LogReturn, LogIdle
<1>1. /\ logAt'[Reader] = logAt[Reader] /\ \A u \in LogThreads \ {Program} : logAt'[u] = logAt[u]
      /\ logAt'[Program].at = "idle" /\ logAt'[Program].then = "idle"
      /\ logAt'[Program].line = NoLine /\ logAt'[Program].gone = FALSE
  BY DEF ThreadStates, Lines, Line
<1>2. logAt' \in [LogThreads -> ThreadStates]
  <2>1. logAt[Program].then \in LogLabels
    BY DEF ThreadStates, LogLabels
  <2>2. [LogIdle EXCEPT !.at = logAt[Program].then] \in ThreadStates
    BY <2>1, NoLineTyped DEF ThreadStates
  <2> QED
    BY <2>2 DEF LogTypes
<1> QED
  BY <1>1, <1>2

\* GetLogMessage returns, and leaves the other thread where it is.
LEMMA GetCountAt ==
    ASSUME LogTypeInv, GetCount
    PROVE  /\ logAt' \in [LogThreads -> ThreadStates] /\ logAt'[Program] = logAt[Program]
           /\ \A u \in LogThreads \ {Reader} : logAt'[u] = logAt[u]
           /\ logAt'[Reader].at = "idle" /\ logAt'[Reader].then = "idle"
           /\ logAt'[Reader].line = NoLine /\ logAt'[Reader].gone = FALSE
<1> USE Threads DEF LogTypeInv, LogAtInv, LogIs, Logging, GetCount, LogReturn, LogIdle
<1>1. /\ logAt'[Program] = logAt[Program] /\ \A u \in LogThreads \ {Reader} : logAt'[u] = logAt[u]
      /\ logAt'[Reader].at = "idle" /\ logAt'[Reader].then = "idle"
      /\ logAt'[Reader].line = NoLine /\ logAt'[Reader].gone = FALSE
  BY DEF ThreadStates, Lines, Line
<1>2. logAt' \in [LogThreads -> ThreadStates]
  <2>1. logAt[Reader].then \in LogLabels
    BY DEF ThreadStates, LogLabels
  <2>2. [LogIdle EXCEPT !.at = logAt[Reader].then] \in ThreadStates
    BY <2>1, NoLineTyped DEF ThreadStates
  <2> QED
    BY <2>2 DEF LogTypes
<1> QED
  BY <1>1, <1>2

\* ResetLogCount is called by the server or a shell,
LEMMA ResetCallAt ==
    ASSUME LogTypeInv, NEW t \in LogThreads, ResetCall(t)
    PROVE  /\ logAt' \in [LogThreads -> ThreadStates] /\ logAt'[Program] = logAt[Program] /\ t # Program
           /\ \A u \in LogThreads :
                 /\ logAt'[u].at = IF u = t THEN "unlink" ELSE logAt[u].at
                 /\ logAt'[u].then = logAt[u].then /\ logAt'[u].line = logAt[u].line
<1>1. \A u \in LogThreads : logAt[u] \in ThreadStates
  BY DEF LogTypeInv, LogTypes
<1>2. \A u \in LogThreads :
        /\ logAt'[u] \in ThreadStates
        /\ logAt'[u].at = IF u = t THEN "unlink" ELSE logAt[u].at
        /\ logAt'[u].then = logAt[u].then /\ logAt'[u].line = logAt[u].line
  BY <1>1 DEF ResetCall, LogGoto, ThreadStates, LogLabels, LogTypeInv, LogTypes
<1> QED
  BY <1>2, Threads DEF ResetCall, LogGoto, LogTypeInv, LogTypes

\* and twice by plc_main when it starts, before
LEMMA InitializeLoggingAt ==
    ASSUME LogTypeInv, InitializeLogging
    PROVE  /\ logAt' \in [LogThreads -> ThreadStates] /\ logAt'[Reader] = logAt[Reader]
           /\ \A u \in LogThreads \ {Program} : logAt'[u] = logAt[u]
           /\ logAt'[Program].at = "unlink" /\ logAt'[Program].then = "load"
           /\ logAt'[Program].line = logAt[Program].line /\ logAt'[Program].gone = logAt[Program].gone
<1> USE Threads DEF LogTypeInv, LogAtInv, LogIs, Logging, InitializeLogging
<1>1. /\ logAt'[Reader] = logAt[Reader] /\ \A u \in LogThreads \ {Program} : logAt'[u] = logAt[u]
      /\ logAt'[Program].at = "unlink" /\ logAt'[Program].then = "load"
      /\ logAt'[Program].line = logAt[Program].line /\ logAt'[Program].gone = logAt[Program].gone
  BY DEF ThreadStates, Lines, Line
<1>2. logAt' \in [LogThreads -> ThreadStates]
  BY DEF ThreadStates, Lines, Line, LogLabels, LogTypeOK, LogTypes
<1> QED
  BY <1>1, <1>2

\* and after it loads the counters,
LEMMA LoadLogStateAt ==
    ASSUME LogTypeInv, LoadLogState
    PROVE  /\ logAt' \in [LogThreads -> ThreadStates] /\ logAt'[Reader] = logAt[Reader]
           /\ \A u \in LogThreads \ {Program} : logAt'[u] = logAt[u]
           /\ logAt'[Program].at = "unlink" /\ logAt'[Program].then = "ready"
           /\ logAt'[Program].line = logAt[Program].line /\ logAt'[Program].gone = logAt[Program].gone
<1> USE Threads DEF LogTypeInv, LogAtInv, LogIs, Logging, LoadLogState
<1>1. /\ logAt'[Reader] = logAt[Reader] /\ \A u \in LogThreads \ {Program} : logAt'[u] = logAt[u]
      /\ logAt'[Program].at = "unlink" /\ logAt'[Program].then = "ready"
      /\ logAt'[Program].line = logAt[Program].line /\ logAt'[Program].gone = logAt[Program].gone
  BY DEF ThreadStates, Lines, Line
<1>2. logAt' \in [LogThreads -> ThreadStates]
  BY DEF ThreadStates, Lines, Line, LogLabels, LogTypeOK, LogTypes
<1> QED
  BY <1>1, <1>2

\* until the log can be used.
LEMMA LogReadyAt ==
    ASSUME LogTypeInv, LogReady
    PROVE  /\ logAt' \in [LogThreads -> ThreadStates] /\ logAt'[Reader] = logAt[Reader]
           /\ \A u \in LogThreads \ {Program} : logAt'[u] = logAt[u]
           /\ logAt'[Program].at = "idle" /\ logAt'[Program].then = "idle"
           /\ logAt'[Program].line = NoLine /\ logAt'[Program].gone = FALSE
<1> USE Threads DEF LogTypeInv, LogAtInv, LogIs, Logging, LogReady, LogIdle
<1>1. /\ logAt'[Reader] = logAt[Reader] /\ \A u \in LogThreads \ {Program} : logAt'[u] = logAt[u]
      /\ logAt'[Program].at = "idle" /\ logAt'[Program].then = "idle"
      /\ logAt'[Program].line = NoLine /\ logAt'[Program].gone = FALSE
  BY DEF ThreadStates, Lines, Line
<1>2. logAt' \in [LogThreads -> ThreadStates]
  BY NoLineTyped DEF LogTypes
<1> QED
  BY <1>1, <1>2

\* GetLogMessage has a line of the file in hand, or none.
LEMMA GetReadAt ==
    ASSUME LogTypeInv, NEW l, NEW id, GetRead(l, id)
    PROVE  /\ logAt' \in [LogThreads -> ThreadStates] /\ logAt'[Program] = logAt[Program]
           /\ \A u \in LogThreads \ {Reader} : logAt'[u] = logAt[u]
           /\ logAt'[Reader].at = "get_count" /\ logAt'[Reader].then = "idle" /\ logAt'[Reader].gone = FALSE
           /\ logAt'[Reader].line \in {Find(l, id), NoLine}
           /\ Find(l, id) = NoLine \/ \E i \in DOMAIN logFile : Find(l, id) = logFile[i]
<1>1. PICK line \in {Find(l, id), NoLine} :
          logAt' = [logAt EXCEPT ![Reader] = [LogIdle EXCEPT !.at = "get_count", !.line = line]]
  BY DEF GetRead
<1>2. Find(l, id) = NoLine \/ \E i \in DOMAIN logFile : Find(l, id) = logFile[i]
  BY FindLine DEF LogTypeInv, LogTypes
<1>3. line \in Lines
  <2>1. \A i \in DOMAIN logFile : logFile[i] \in Line
    BY LenProperties, ElementOfSeq DEF LogTypeInv, LogTypes
  <2>2. Line \subseteq Lines
    BY LogAssumption DEF Line, Lines
  <2> QED
    BY <1>1, <1>2, <2>1, <2>2, NoLineTyped
<1> DEFINE found == [LogIdle EXCEPT !.at = "get_count", !.line = line]
<1>4. found.at = "get_count" /\ found.then = "idle" /\ found.line = line /\ found.gone = FALSE
  BY DEF LogIdle
<1>5. found \in ThreadStates
  BY <1>3, NoLineTyped DEF ThreadStates, LogLabels
<1> QED
  BY <1>1, <1>2, <1>4, <1>5, Threads DEF LogTypeInv, LogTypes

\* ResetLogCount takes the file from a thread that is logging,
LEMMA ResetUnlinkAt ==
    ASSUME LogTypeInv, NEW t \in LogThreads, ResetUnlink(t)
    PROVE  /\ logAt' \in [LogThreads -> ThreadStates]
           /\ \A u \in LogThreads :
                 /\ logAt'[u].at = IF u = t THEN "zero" ELSE logAt[u].at
                 /\ logAt'[u].then = logAt[u].then /\ logAt'[u].line = logAt[u].line
<1>1. \A u \in LogThreads : logAt[u] \in ThreadStates /\ Logging(u) \in BOOLEAN
  BY DEF LogTypeInv, LogTypes, Logging
<1>g. DOMAIN logAt = LogThreads
  BY DEF LogTypeInv, LogTypes
<1>2. ASSUME NEW u \in LogThreads
      PROVE  /\ logAt'[u] \in ThreadStates
             /\ logAt'[u].at = IF u = t THEN "zero" ELSE logAt[u].at
             /\ logAt'[u].then = logAt[u].then /\ logAt'[u].line = logAt[u].line
  <2>1. CASE logAt' = [w \in LogThreads |-> IF w = t THEN [logAt[w] EXCEPT !.at = "zero"]
                                            ELSE [logAt[w] EXCEPT !.gone = Logging(w)]]
    BY <1>1, <2>1 DEF ThreadStates, LogLabels
  <2>2. CASE LogGoto(t, "zero")
    BY <1>1, <1>g, <2>2 DEF LogGoto, ThreadStates, LogLabels
  <2> QED
    BY <2>1, <2>2 DEF ResetUnlink
<1>3. logAt' \in [LogThreads -> ThreadStates]
  BY <1>2, <1>g DEF ResetUnlink, LogGoto
<1> QED
  BY <1>2, <1>3

\* goes on to save the counters it has zeroed,
LEMMA ResetZeroAt ==
    ASSUME LogTypeInv, NEW t \in LogThreads, ResetZero(t)
    PROVE  /\ logAt' \in [LogThreads -> ThreadStates]
           /\ \A u \in LogThreads :
                 /\ logAt'[u].at = IF u = t THEN "save" ELSE logAt[u].at
                 /\ logAt'[u].then = logAt[u].then /\ logAt'[u].line = logAt[u].line
<1>1. \A u \in LogThreads : logAt[u] \in ThreadStates
  BY DEF LogTypeInv, LogTypes
<1>2. \A u \in LogThreads :
        /\ logAt'[u] \in ThreadStates
        /\ logAt'[u].at = IF u = t THEN "save" ELSE logAt[u].at
        /\ logAt'[u].then = logAt[u].then /\ logAt'[u].line = logAt[u].line
  BY <1>1 DEF ResetZero, LogGoto, ThreadStates, LogLabels, LogTypeInv, LogTypes
<1> QED
  BY <1>2 DEF ResetZero, LogGoto, LogTypeInv, LogTypes

\* and returns to where it was called.
LEMMA ResetSaveAt ==
    ASSUME LogTypeInv, NEW t \in LogThreads, ResetSave(t)
    PROVE  /\ logAt' \in [LogThreads -> ThreadStates]
           /\ logAt'[t].at = logAt[t].then /\ logAt'[t].then = "idle" /\ logAt'[t].line = NoLine
           /\ \A u \in LogThreads \ {t} : logAt'[u] = logAt[u]
<1>1. logAt[t] \in ThreadStates /\ logAt[t].then \in LogLabels
  BY DEF LogTypeInv, LogTypes, ThreadStates, LogLabels
<1> DEFINE back == [LogIdle EXCEPT !.at = logAt[t].then]
<1>2. back.at = logAt[t].then /\ back.then = "idle" /\ back.line = NoLine
  BY DEF LogIdle
<1>3. back \in ThreadStates
  BY <1>1, NoLineTyped DEF ThreadStates, LogLabels
<1> QED
  BY <1>1, <1>2, <1>3 DEF ResetSave, LogReturn, LogTypeInv, LogTypes

-----------------------------------------------------------------------------
(* Types.                                                                 *)

\* The variables of the log keep their types, and each thread is where it can be.
LEMMA LogTypesKept ==
    ASSUME LogTypeInv, RteLogNext
    PROVE  LogTypeInv'
<1> USE Threads DEF counters, files, history
<1>0. LogTypeOK /\ LogTypes /\ LogAtInv /\ \A u \in LogThreads : logAt[u] \in ThreadStates
  BY DEF LogTypeInv, LogTypes
<1>1. ASSUME NEW l \in Levels, LogOpen(l)  PROVE LogTypeInv'
  <2>1. LogTypes'
    BY <1>0, <1>1, LogOpenAt DEF LogTypeInv, LogTypeOK, LogTypes, LogAtInv, LogOpen, Called
  <2>2. LogAtInv'
    <3>1. [level |-> l, id |-> 0, msg |-> calls + 1] \in Line
      BY <1>0, <1>1, LogAssumption DEF LogOpen, Called, Line, LogTypeOK
    <3> QED
      BY <3>1, <1>0, <1>1, LogOpenAt DEF LogTypeInv, LogAtInv, LogIs, Logging, LogOpen
  <2>3. LogTypeOK'
    <3>1. \A u \in LogThreads : logAt'[u].at \in LogLabels
      BY <2>1 DEF LogTypes, ThreadStates
    <3>2. messageIndexes' \in [Levels -> 0 .. Wrap - 1] /\ plc_logCounts' \in [Levels -> 0 .. Wrap - 1]
      BY <1>0, <1>1 DEF LogTypeOK, LogOpen, Called
    <3>3. logged' \in [Levels -> Seq(0 .. MaxCalls)]
      BY <1>0, <1>1 DEF LogTypeOK, LogOpen, Called
    <3>4. calls' \in 0 .. MaxCalls /\ ready' \in BOOLEAN /\ overlapped' \in BOOLEAN
      BY <1>0, <1>1, LogAssumption DEF LogTypeOK, LogIs, Logging, LogOpen, Called
    <3>5. left' \in 0 .. Len(logFile')
      BY <1>0, <1>1 DEF LogTypeOK, LogOpen
    <3> QED
      BY <3>1, <3>2, <3>3, <3>4, <3>5 DEF LogTypeOK, LogLabels
  <2> QED
    BY <2>1, <2>2, <2>3 DEF LogTypeInv
<1>2. CASE LogIndex
  <2>1. LogTypes'
    BY <1>0, <1>2, LogIndexAt DEF LogTypeInv, LogTypeOK, LogTypes, LogAtInv, LogIndex
  <2>2. LogAtInv'
    BY SMTT(30), <1>0, <1>2, LogIndexAt DEF LogTypeInv, LogAtInv, LogTypeOK, LogIs, Logging, Line, LogIndex
  <2>3. LogTypeOK'
    <3>1. \A u \in LogThreads : logAt'[u].at \in LogLabels
      BY <2>1 DEF LogTypes, ThreadStates
    <3>2. messageIndexes' \in [Levels -> 0 .. Wrap - 1] /\ plc_logCounts' \in [Levels -> 0 .. Wrap - 1]
      <4>1. messageIndexes[logAt[Program].line.level] + 1 \in Int
        BY <1>0, <1>2 DEF LogTypeOK, LogAtInv, LogIndex, LogIs, Logging, Line
      <4> QED
        BY <4>1, <1>0, <1>2, ModRange DEF LogTypeOK, LogIndex
    <3>3. logged' \in [Levels -> Seq(0 .. MaxCalls)]
      <4> DEFINE line == logAt[Program].line
      <4>1. line.level \in Levels /\ line.msg \in 0 .. MaxCalls
        BY <1>0, <1>2 DEF LogAtInv, LogIndex, LogIs, Logging, Line
      <4>2. logged[line.level] \in Seq(0 .. MaxCalls)
        BY <1>0, <4>1 DEF LogTypeOK
      <4>3. Append(logged[line.level], line.msg) \in Seq(0 .. MaxCalls)
        BY <4>1, <4>2, AppendProperties
      <4> QED
        BY <4>1, <4>3, <1>0, <1>2 DEF LogTypeOK, LogIndex
    <3>4. calls' \in 0 .. MaxCalls /\ ready' \in BOOLEAN /\ overlapped' \in BOOLEAN
      BY <1>0, <1>2, LogAssumption DEF LogTypeOK, LogIs, Logging, LogIndex
    <3>5. left' \in 0 .. Len(logFile')
      BY <1>0, <1>2 DEF LogTypeOK, LogIndex
    <3> QED
      BY <3>1, <3>2, <3>3, <3>4, <3>5 DEF LogTypeOK, LogLabels
  <2> QED
    BY <2>1, <2>2, <2>3 DEF LogTypeInv
<1>3. CASE LogWrite
  <2>1. LogTypes'
    <3>1. logAt[Program].line \in Line
      BY <1>0, <1>3 DEF LogAtInv, LogWrite, LogIs, Logging
    <3>2. Append(logFile, logAt[Program].line) \in Seq(Line)
      BY <3>1, <1>0, AppendProperties DEF LogTypes
    <3> QED
      BY <3>2, <1>0, <1>3, LogWriteAt DEF LogTypeInv, LogTypes, LogWrite
  <2>2. LogAtInv'
    BY <1>0, <1>3, LogWriteAt DEF LogAtInv, LogIs, Logging, LogWrite
  <2>3. LogTypeOK'
    <3>1. \A u \in LogThreads : logAt'[u].at \in LogLabels
      BY <2>1 DEF LogTypes, ThreadStates
    <3>2. messageIndexes' \in [Levels -> 0 .. Wrap - 1] /\ plc_logCounts' \in [Levels -> 0 .. Wrap - 1]
      BY <1>0, <1>3 DEF LogTypeOK, LogWrite
    <3>3. logged' \in [Levels -> Seq(0 .. MaxCalls)]
      <4> DEFINE line == logAt[Program].line
                less == [i \in DOMAIN logged[line.level] |->
                            IF logged[line.level][i] = line.msg THEN Lost ELSE logged[line.level][i]]
      <4>1. line.level \in Levels /\ Lost \in 0 .. MaxCalls
        BY <1>0, <1>3, LogAssumption DEF LogAtInv, LogWrite, LogIs, Logging, Line, Lost
      <4>2. logged[line.level] \in Seq(0 .. MaxCalls)
        BY <1>0, <4>1 DEF LogTypeOK
      <4>3. less \in Seq(0 .. MaxCalls)
        BY ONLY <4>1, <4>2, LoseOne
      <4>4. logged' = logged \/ logged' = [logged EXCEPT ![line.level] = less]
        BY <1>3 DEF LogWrite
      <4> QED
        BY <4>1, <4>3, <4>4, <1>0 DEF LogTypeOK
    <3>4. calls' \in 0 .. MaxCalls /\ ready' \in BOOLEAN /\ overlapped' \in BOOLEAN
      BY <1>0, <1>3, LogAssumption DEF LogTypeOK, LogIs, Logging, LogWrite
    <3>5. left' \in 0 .. Len(logFile')
      <4>1. logFile' = logFile \/ logFile' = Append(logFile, logAt[Program].line)
        BY <1>3 DEF LogWrite
      <4>2. Len(logFile') >= Len(logFile) /\ Len(logFile') \in Nat /\ Len(logFile) \in Nat
        BY <1>0, <2>1, <4>1, AppendProperties, LenProperties DEF LogTypes, LogAtInv, LogWrite, LogIs, Logging
      <4> QED
        BY <4>2, <1>0, <1>3 DEF LogTypeOK, LogWrite
    <3> QED
      BY <3>1, <3>2, <3>3, <3>4, <3>5 DEF LogTypeOK, LogLabels
  <2> QED
    BY <2>1, <2>2, <2>3 DEF LogTypeInv
<1>4. CASE LogCount
  <2>1. LogTypes'
    BY <1>0, <1>4, LogCountAt DEF LogTypeInv, LogTypeOK, LogTypes, LogAtInv, LogCount
  <2>2. LogAtInv'
    BY ZenonT(40), <1>0, <1>4, LogCountAt DEF LogTypeInv, LogAtInv, LogTypeOK, LogIs, Logging, Line, LogCount
  <2>3. LogTypeOK'
    <3>1. \A u \in LogThreads : logAt'[u].at \in LogLabels
      BY <2>1 DEF LogTypes, ThreadStates
    <3>2. messageIndexes' \in [Levels -> 0 .. Wrap - 1] /\ plc_logCounts' \in [Levels -> 0 .. Wrap - 1]
      <4>1. plc_logCounts[logAt[Program].line.level] + 1 \in Int
        BY <1>0, <1>4 DEF LogTypeOK, LogAtInv, LogCount, LogIs, Logging, Line
      <4> QED
        BY <4>1, <1>0, <1>4, ModRange DEF LogTypeOK, LogCount
    <3>3. logged' \in [Levels -> Seq(0 .. MaxCalls)]
      BY <1>0, <1>4 DEF LogTypeOK, LogCount
    <3>4. calls' \in 0 .. MaxCalls /\ ready' \in BOOLEAN /\ overlapped' \in BOOLEAN
      BY <1>0, <1>4, LogAssumption DEF LogTypeOK, LogIs, Logging, LogCount
    <3>5. left' \in 0 .. Len(logFile')
      BY <1>0, <1>4 DEF LogTypeOK, LogCount
    <3> QED
      BY <3>1, <3>2, <3>3, <3>4, <3>5 DEF LogTypeOK, LogLabels
  <2> QED
    BY <2>1, <2>2, <2>3 DEF LogTypeInv
<1>5. ASSUME NEW l \in Levels, NEW id \in 0 .. MaxCalls, GetRead(l, id)  PROVE LogTypeInv'
  <2>1. LogTypes'
    <3>1. UNCHANGED <<reads, logFile, logState>>
      BY <1>5 DEF GetRead
    <3> QED
      BY <3>1, <1>0, <1>5, GetReadAt DEF LogTypes
  <2>2. LogAtInv'
    <3>1. \A i \in DOMAIN logFile : logFile[i] \in Line
      BY <1>0, LenProperties, ElementOfSeq DEF LogTypes
    <3>2. UNCHANGED ready
      BY <1>5 DEF GetRead
    <3> QED
      BY ZenonT(40), <3>1, <3>2, <1>0, <1>5, GetReadAt DEF LogTypeInv, LogAtInv, LogIs, Logging
  <2>3. LogTypeOK'
    <3>1. \A u \in LogThreads : logAt'[u].at \in LogLabels
      BY <2>1 DEF LogTypes, ThreadStates
    <3>2. messageIndexes' \in [Levels -> 0 .. Wrap - 1] /\ plc_logCounts' \in [Levels -> 0 .. Wrap - 1]
      BY <1>0, <1>5 DEF LogTypeOK, GetRead
    <3>3. logged' \in [Levels -> Seq(0 .. MaxCalls)]
      BY <1>0, <1>5 DEF LogTypeOK, GetRead, Called
    <3>4. calls' \in 0 .. MaxCalls /\ ready' \in BOOLEAN /\ overlapped' \in BOOLEAN
      BY <1>0, <1>5, LogAssumption DEF LogTypeOK, LogIs, Logging, GetRead, Called
    <3>5. left' \in 0 .. Len(logFile')
      BY <1>0, <1>5 DEF LogTypeOK, GetRead
    <3> QED
      BY <3>1, <3>2, <3>3, <3>4, <3>5 DEF LogTypeOK, LogLabels
  <2> QED
    BY <2>1, <2>2, <2>3 DEF LogTypeInv
<1>6. CASE GetCount
  <2>1. LogTypes'
    <3>1. logAt[Reader].line # NoLine => logAt[Reader].line.level \in Levels
      BY <1>0, <1>6 DEF LogAtInv, GetCount, LogIs, Line
    <3>2. reads' \in [Levels -> Nat]
      BY <3>1, <1>0, <1>6 DEF LogTypes, GetCount
    <3> QED
      BY <3>2, <1>0, <1>6, GetCountAt DEF LogTypeInv, LogTypes, GetCount
  <2>2. LogAtInv'
    BY <1>0, <1>6, GetCountAt DEF LogAtInv, LogIs, Logging, GetCount
  <2>3. LogTypeOK'
    <3>1. \A u \in LogThreads : logAt'[u].at \in LogLabels
      BY <2>1 DEF LogTypes, ThreadStates
    <3>2. messageIndexes' \in [Levels -> 0 .. Wrap - 1] /\ plc_logCounts' \in [Levels -> 0 .. Wrap - 1]
      <4>1. logAt[Reader].line # NoLine => plc_logCounts[logAt[Reader].line.level] - 1 \in Int
        BY <1>0, <1>6 DEF LogTypeOK, LogAtInv, GetCount, LogIs, Line
      <4> QED
        BY <4>1, <1>0, <1>6, ModRange DEF LogTypeOK, GetCount
    <3>3. logged' \in [Levels -> Seq(0 .. MaxCalls)]
      BY <1>0, <1>6 DEF LogTypeOK, GetCount
    <3>4. calls' \in 0 .. MaxCalls /\ ready' \in BOOLEAN /\ overlapped' \in BOOLEAN
      BY <1>0, <1>6, LogAssumption DEF LogTypeOK, LogIs, Logging, GetCount
    <3>5. left' \in 0 .. Len(logFile')
      BY <1>0, <1>6 DEF LogTypeOK, GetCount
    <3> QED
      BY <3>1, <3>2, <3>3, <3>4, <3>5 DEF LogTypeOK, LogLabels
  <2> QED
    BY <2>1, <2>2, <2>3 DEF LogTypeInv
<1>7. ASSUME NEW t \in LogThreads, ResetCall(t)  PROVE LogTypeInv'
  <2>1. LogTypes'
    BY <1>0, <1>7, ResetCallAt DEF LogTypeInv, LogTypeOK, LogTypes, LogAtInv, ResetCall, Called
  <2>2. LogAtInv'
    BY <1>0, <1>7, ResetCallAt DEF LogAtInv, LogIs, Logging, ResetCall
  <2>3. LogTypeOK'
    <3>1. \A u \in LogThreads : logAt'[u].at \in LogLabels
      BY <2>1 DEF LogTypes, ThreadStates
    <3>2. messageIndexes' \in [Levels -> 0 .. Wrap - 1] /\ plc_logCounts' \in [Levels -> 0 .. Wrap - 1]
      BY <1>0, <1>7 DEF LogTypeOK, ResetCall, Called
    <3>3. logged' \in [Levels -> Seq(0 .. MaxCalls)]
      BY <1>0, <1>7 DEF LogTypeOK, ResetCall, Called
    <3>4. calls' \in 0 .. MaxCalls /\ ready' \in BOOLEAN /\ overlapped' \in BOOLEAN
      BY <1>0, <1>7, LogAssumption DEF LogTypeOK, LogIs, Logging, ResetCall, Called
    <3>5. left' \in 0 .. Len(logFile')
      BY <1>0, <1>7 DEF LogTypeOK, ResetCall
    <3> QED
      BY <3>1, <3>2, <3>3, <3>4, <3>5 DEF LogTypeOK, LogLabels
  <2> QED
    BY <2>1, <2>2, <2>3 DEF LogTypeInv
<1>8. ASSUME NEW t \in LogThreads, ResetUnlink(t)  PROVE LogTypeInv'
  <2>1. LogTypes'
    <3>1. reads' = reads /\ logFile' \in {<<>>, logFile} /\ logState' \in {NoState, logState}
      BY <1>8 DEF ResetUnlink
    <3>2. logAt' \in [LogThreads -> ThreadStates]
      BY <1>0, <1>8, ResetUnlinkAt DEF LogTypeInv
    <3>3. logFile' \in Seq(Line)
      BY <3>1, <1>0, EmptySeq DEF LogTypes
    <3> QED
      BY <3>1, <3>2, <3>3, <1>0 DEF LogTypes
  <2>2. LogAtInv'
    <3>1. logAt[t].at = "unlink" /\ ready' = ready
      BY <1>8 DEF ResetUnlink, LogIs
    <3>2. \A u \in LogThreads :
            /\ logAt'[u].at = IF u = t THEN "zero" ELSE logAt[u].at
            /\ logAt'[u].then = logAt[u].then /\ logAt'[u].line = logAt[u].line
      BY <1>0, <1>8, ResetUnlinkAt
    <3> QED
      BY <3>1, <3>2, <1>0 DEF LogAtInv, LogIs, Logging
  <2>3. LogTypeOK'
    <3>1. \A u \in LogThreads : logAt'[u].at \in LogLabels
      BY <2>1 DEF LogTypes, ThreadStates
    <3>2. messageIndexes' \in [Levels -> 0 .. Wrap - 1] /\ plc_logCounts' \in [Levels -> 0 .. Wrap - 1]
      BY <1>0, <1>8 DEF LogTypeOK, ResetUnlink
    <3>3. logged' \in [Levels -> Seq(0 .. MaxCalls)]
      BY <1>0, <1>8 DEF LogTypeOK, ResetUnlink
    <3>4. calls' \in 0 .. MaxCalls /\ ready' \in BOOLEAN /\ overlapped' \in BOOLEAN
      BY <1>0, <1>8, LogAssumption DEF LogTypeOK, LogIs, Logging, ResetUnlink
    <3>5. left' \in 0 .. Len(logFile')
      BY <2>1, <1>8, LenProperties DEF LogTypes, ResetUnlink
    <3> QED
      BY <3>1, <3>2, <3>3, <3>4, <3>5 DEF LogTypeOK, LogLabels
  <2> QED
    BY <2>1, <2>2, <2>3 DEF LogTypeInv
<1>9. ASSUME NEW t \in LogThreads, ResetZero(t)  PROVE LogTypeInv'
  <2>1. LogTypes'
    BY <1>0, <1>9, ResetZeroAt DEF LogTypeInv, LogTypeOK, LogTypes, LogAtInv, ResetZero, Zero
  <2>2. LogAtInv'
    BY <1>0, <1>9, ResetZeroAt DEF LogAtInv, LogIs, Logging, ResetZero
  <2>3. LogTypeOK'
    <3>1. \A u \in LogThreads : logAt'[u].at \in LogLabels
      BY <2>1 DEF LogTypes, ThreadStates
    <3>2. messageIndexes' \in [Levels -> 0 .. Wrap - 1] /\ plc_logCounts' \in [Levels -> 0 .. Wrap - 1]
      BY LogAssumption, <1>9 DEF ResetZero, Zero
    <3>3. logged' \in [Levels -> Seq(0 .. MaxCalls)]
      BY EmptySeq, <1>9 DEF ResetZero
    <3>4. calls' \in 0 .. MaxCalls /\ ready' \in BOOLEAN /\ overlapped' \in BOOLEAN
      BY <1>0, <1>9, LogAssumption DEF LogTypeOK, LogIs, Logging, ResetZero, Zero
    <3>5. left' \in 0 .. Len(logFile')
      BY <1>0, <1>9 DEF LogTypeOK, ResetZero
    <3> QED
      BY <3>1, <3>2, <3>3, <3>4, <3>5 DEF LogTypeOK, LogLabels
  <2> QED
    BY <2>1, <2>2, <2>3 DEF LogTypeInv
<1>10. ASSUME NEW t \in LogThreads, ResetSave(t)  PROVE LogTypeInv'
  <2>1. LogTypes'
    <3>1. reads' = reads /\ logFile' = logFile /\ logState' \in {[idx |-> messageIndexes, cnt |-> plc_logCounts], logState}
      BY <1>10 DEF ResetSave
    <3>2. logAt' \in [LogThreads -> ThreadStates]
      BY <1>0, <1>10, ResetSaveAt DEF LogTypeInv
    <3> QED
      BY SMTT(30), <3>1, <3>2, <1>0 DEF LogTypes, LogTypeOK
  <2>2. LogAtInv'
    BY <1>0, <1>10, ResetSaveAt DEF LogAtInv, LogIs, Logging, ResetSave
  <2>3. LogTypeOK'
    <3>1. \A u \in LogThreads : logAt'[u].at \in LogLabels
      BY <2>1 DEF LogTypes, ThreadStates
    <3>2. messageIndexes' \in [Levels -> 0 .. Wrap - 1] /\ plc_logCounts' \in [Levels -> 0 .. Wrap - 1]
      BY <1>0, <1>10 DEF LogTypeOK, ResetSave, NoState
    <3>3. logged' \in [Levels -> Seq(0 .. MaxCalls)]
      BY <1>0, <1>10 DEF LogTypeOK, ResetSave, NoState
    <3>4. calls' \in 0 .. MaxCalls /\ ready' \in BOOLEAN /\ overlapped' \in BOOLEAN
      BY <1>0, <1>10, LogAssumption DEF LogTypeOK, LogIs, Logging, ResetSave, NoState
    <3>5. left' \in 0 .. Len(logFile')
      BY <1>0, <1>10 DEF LogTypeOK, ResetSave
    <3> QED
      BY <3>1, <3>2, <3>3, <3>4, <3>5 DEF LogTypeOK, LogLabels
  <2> QED
    BY <2>1, <2>2, <2>3 DEF LogTypeInv
<1>11. CASE InitializeLogging
  <2>1. LogTypes'
    BY <1>0, <1>11, InitializeLoggingAt DEF LogTypeInv, LogTypeOK, LogTypes, LogAtInv, InitializeLogging
  <2>2. LogAtInv'
    BY <1>0, <1>11, InitializeLoggingAt DEF LogTypeInv, LogAtInv, LogTypeOK, LogIs, Logging, Line, InitializeLogging
  <2>3. LogTypeOK'
    <3>1. \A u \in LogThreads : logAt'[u].at \in LogLabels
      BY <2>1 DEF LogTypes, ThreadStates
    <3>2. messageIndexes' \in [Levels -> 0 .. Wrap - 1] /\ plc_logCounts' \in [Levels -> 0 .. Wrap - 1]
      BY <1>0, <1>11 DEF LogTypeOK, InitializeLogging
    <3>3. logged' \in [Levels -> Seq(0 .. MaxCalls)]
      BY <1>0, <1>11 DEF LogTypeOK, InitializeLogging
    <3>4. calls' \in 0 .. MaxCalls /\ ready' \in BOOLEAN /\ overlapped' \in BOOLEAN
      BY <1>0, <1>11, LogAssumption DEF LogTypeOK, LogIs, Logging, InitializeLogging
    <3>5. left' \in 0 .. Len(logFile')
      BY <1>0, <1>11 DEF LogTypeOK, InitializeLogging
    <3> QED
      BY <3>1, <3>2, <3>3, <3>4, <3>5 DEF LogTypeOK, LogLabels
  <2> QED
    BY <2>1, <2>2, <2>3 DEF LogTypeInv
<1>12. CASE LoadLogState
  <2>1. LogTypes'
    BY <1>0, <1>12, LoadLogStateAt DEF LogTypeInv, LogTypeOK, LogTypes, LogAtInv, LoadLogState, NoState
  <2>2. LogAtInv'
    BY <1>0, <1>12, LoadLogStateAt DEF LogTypeInv, LogAtInv, LogTypeOK, LogIs, Logging, Line, LoadLogState, NoState
  <2>3. LogTypeOK'
    <3>1. \A u \in LogThreads : logAt'[u].at \in LogLabels
      BY <2>1 DEF LogTypes, ThreadStates
    <3>2. messageIndexes' \in [Levels -> 0 .. Wrap - 1] /\ plc_logCounts' \in [Levels -> 0 .. Wrap - 1]
      BY <1>0, <1>12 DEF LogTypeOK, LogTypes, LoadLogState
    <3>3. logged' \in [Levels -> Seq(0 .. MaxCalls)]
      BY <1>0, <1>12 DEF LogTypeOK, LoadLogState, NoState
    <3>4. calls' \in 0 .. MaxCalls /\ ready' \in BOOLEAN /\ overlapped' \in BOOLEAN
      BY <1>0, <1>12, LogAssumption DEF LogTypeOK, LogIs, Logging, LoadLogState, NoState
    <3>5. left' \in 0 .. Len(logFile')
      BY <1>0, <1>12 DEF LogTypeOK, LoadLogState
    <3> QED
      BY <3>1, <3>2, <3>3, <3>4, <3>5 DEF LogTypeOK, LogLabels
  <2> QED
    BY <2>1, <2>2, <2>3 DEF LogTypeInv
<1>13. CASE LogReady
  <2>1. LogTypes'
    BY <1>0, <1>13, LogReadyAt DEF LogTypeInv, LogTypeOK, LogTypes, LogAtInv, LogReady
  <2>2. LogAtInv'
    BY <1>0, <1>13, LogReadyAt DEF LogTypeInv, LogAtInv, LogTypeOK, LogIs, Logging, Line, LogReady
  <2>3. LogTypeOK'
    <3>1. \A u \in LogThreads : logAt'[u].at \in LogLabels
      BY <2>1 DEF LogTypes, ThreadStates
    <3>2. messageIndexes' \in [Levels -> 0 .. Wrap - 1] /\ plc_logCounts' \in [Levels -> 0 .. Wrap - 1]
      BY <1>0, <1>13 DEF LogTypeOK, LogReady
    <3>3. logged' \in [Levels -> Seq(0 .. MaxCalls)]
      BY <1>0, <1>13 DEF LogTypeOK, LogReady
    <3>4. calls' \in 0 .. MaxCalls /\ ready' \in BOOLEAN /\ overlapped' \in BOOLEAN
      BY <1>0, <1>13, LogAssumption DEF LogTypeOK, LogIs, Logging, LogReady
    <3>5. left' \in 0 .. Len(logFile')
      BY <1>0, <1>13 DEF LogTypeOK, LogReady
    <3> QED
      BY <3>1, <3>2, <3>3, <3>4, <3>5 DEF LogTypeOK, LogLabels
  <2> QED
    BY <2>1, <2>2, <2>3 DEF LogTypeInv
<1> QED
  BY <1>1, <1>2, <1>3, <1>4, <1>5, <1>6, <1>7, <1>8, <1>9, <1>10, <1>11, <1>12, <1>13
     DEF RteLogNext, LogStart, LogMessage, GetLogMessage, ResetLogCount

-----------------------------------------------------------------------------
(* Bookkeeping.                                                           *)

\* What the types say of the numbers that the bookkeeping compares: the number of calls.
LEMMA CallNumbers ==
    ASSUME LogTypeInv
    PROVE  calls \in Int /\ calls >= 0 /\ calls <= MaxCalls
BY LogAssumption DEF LogTypeInv, LogTypeOK

\* What a thread has in hand: its line, of which the message is a call.
LEMMA HandNumbers ==
    ASSUME LogTypeInv
    PROVE  /\ logAt[Program].line.msg \in Int /\ logAt[Reader].line.msg \in Int
           /\ logAt[Program].line.id \in Nat /\ logAt[Reader].line.id \in Nat
           /\ Logging(Program) => logAt[Program].line \in Line /\ logAt[Program].line.msg \in 1 .. MaxCalls
                                /\ logAt[Program].line.level \in Levels
           /\ LogIs(Reader, "get_count") /\ logAt[Reader].line # NoLine =>
                   logAt[Reader].line \in Line /\ logAt[Reader].line.level \in Levels
<1>1. logAt[Program].line \in Lines /\ logAt[Reader].line \in Lines
  BY Threads DEF LogTypeInv, ThreadStates
<1>2. Logging(Program) => logAt[Program].line \in Line
  BY DEF LogTypeInv, LogAtInv
<1>3. LogIs(Reader, "get_count") /\ logAt[Reader].line # NoLine => logAt[Reader].line \in Line
  BY DEF LogTypeInv, LogAtInv
<1> QED
  BY <1>1, <1>2, <1>3 DEF Lines, Line

\* The lines of the file, the new ones among them.
LEMMA FileNumbers ==
    ASSUME LogTypeInv
    PROVE  /\ Len(logFile) \in Nat /\ DOMAIN logFile = 1 .. Len(logFile)
           /\ left \in Nat /\ left <= Len(logFile) /\ NewLines \subseteq DOMAIN logFile
           /\ \A i \in DOMAIN logFile : /\ logFile[i] \in Line /\ logFile[i].msg \in Int /\ logFile[i].msg > 0
                                        /\ logFile[i].level \in Levels /\ logFile[i].id \in Nat
<1>1. logFile \in Seq(Line) /\ Len(logFile) \in Nat /\ DOMAIN logFile = 1 .. Len(logFile)
  BY LenProperties DEF LogTypeInv, LogTypes
<1>2. \A i \in DOMAIN logFile : logFile[i] \in Line
  BY <1>1, ElementOfSeq
<1>3. left \in Nat /\ left <= Len(logFile) /\ NewLines \subseteq DOMAIN logFile
  BY <1>1 DEF LogTypeInv, LogTypeOK, NewLines
<1> QED
  BY <1>1, <1>2, <1>3 DEF Line

\* The messages and counters of a level.
LEMMA LevelNumbers ==
    ASSUME LogTypeInv, NEW l \in Levels
    PROVE  /\ reads[l] \in Nat /\ messageIndexes[l] \in 0 .. Wrap - 1 /\ plc_logCounts[l] \in 0 .. Wrap - 1
           /\ Len(logged[l]) \in Nat /\ DOMAIN logged[l] = 1 .. Len(logged[l])
           /\ \A i \in DOMAIN logged[l] : logged[l][i] \in 0 .. MaxCalls
<1>1. logged[l] \in Seq(0 .. MaxCalls)
  BY DEF LogTypeInv, LogTypeOK
<1>2. Len(logged[l]) \in Nat /\ DOMAIN logged[l] = 1 .. Len(logged[l])
  BY <1>1, LenProperties
<1>3. \A i \in DOMAIN logged[l] : logged[l][i] \in 0 .. MaxCalls
  BY <1>1, <1>2, ElementOfSeq
<1> QED
  BY <1>1, <1>2, <1>3 DEF LogTypeInv, LogTypes, LogTypeOK

\* LogMessage takes the next call: its message is younger than all there are.
LEMMA LogOpenBooks ==
    ASSUME LogInv, NEW l \in Levels, LogOpen(l), MaxCalls < Wrap
    PROVE  Bookkeeping'
<1> USE LogAssumption
<1>0. /\ LogTypeInv /\ LogAtInv /\ AgeInv /\ FreshInv /\ IndexInv /\ ReadsInv /\ CountInv
      /\ ZeroInv /\ LineInv /\ UniqueInv /\ HandsInv /\ MessageInv
  BY DEF LogInv, LogTypeInv, Bookkeeping
<1>u. /\ ready /\ LogIs(Program, "idle") /\ calls' = calls + 1 /\ overlapped' = (overlapped \/ Zeroing)
      /\ UNCHANGED <<messageIndexes, plc_logCounts, logFile, logState, ready, logged, reads, left>>
  BY <1>0, Threads DEF counters, files, history, LogAtInv, LogIs, LogOpen, Called, Zeroing
<1>q. Quiet' => Quiet
  BY <1>0, <1>u, LogOpenAt, Threads DEF Quiet, Settled, Zeroing, LogAtInv, LogIs
<1>1. AgeInv'
  <2>1. /\ logAt'[Program].line.msg = calls + 1 /\ logAt'[Reader] = logAt[Reader]
    BY <1>0, LogOpenAt
  <2> QED
    BY SMTT(30), <1>0, <1>u, <2>1, CallNumbers, HandNumbers, FileNumbers, LevelNumbers DEF AgeInv, LogIs, Logging
<1>2. FreshInv'
  <2>1. /\ logAt'[Program].line.msg = calls + 1 /\ logAt'[Reader] = logAt[Reader] /\ logAt'[Program].at = "index"
    BY <1>0, LogOpenAt
  <2> QED
    BY SMTT(30), <1>0, <1>u, <2>1, CallNumbers, HandNumbers, FileNumbers, LevelNumbers DEF AgeInv, FreshInv, LogIs
<1>3. IndexInv'
  BY <1>0, <1>u, <1>q, Threads, CallNumbers, HandNumbers, FileNumbers, LevelNumbers, LogOpenAt DEF IndexInv, LogAtInv, LogIs, Logging, Settled
<1>4. ReadsInv'
  BY <1>0, <1>u, <1>q, Threads, CallNumbers, HandNumbers, FileNumbers, LevelNumbers, LogOpenAt DEF ReadsInv, LogAtInv, LogIs
<1>5. CountInv'
  BY <1>0, <1>u, <1>q, Threads, CallNumbers, HandNumbers, FileNumbers, LevelNumbers, LogOpenAt DEF CountInv, LogAtInv, LogIs, Uncounted, Logging
<1>6. ZeroInv'
  BY <1>0, <1>u, <1>q, Threads, CallNumbers, HandNumbers, FileNumbers, LevelNumbers, LogOpenAt DEF ZeroInv, LogAtInv, LogIs, Logging, Zeroing
<1>7. LineInv'
  BY <1>0, <1>u, <1>q DEF LineInv, NewLines, Current
<1>8. UniqueInv'
  BY <1>0, <1>u, <1>q DEF UniqueInv, NewLines
<1>9. HandsInv'
  BY <1>0, <1>u, <1>q, Threads, CallNumbers, HandNumbers, FileNumbers, LevelNumbers, LogOpenAt DEF HandsInv, LogAtInv, LogIs, Current
<1>10. MessageInv'
  BY <1>0, <1>u, <1>q, Threads, CallNumbers, HandNumbers, FileNumbers, LevelNumbers, LogOpenAt DEF MessageInv, LogAtInv, LogIs, InFile
<1> QED
  BY <1>1, <1>2, <1>3, <1>4, <1>5, <1>6, <1>7, <1>8, <1>9, <1>10 DEF Bookkeeping

\* The message gets the next number of its level, which no line has.
LEMMA LogIndexBooks ==
    ASSUME LogInv, LogIndex, MaxCalls < Wrap
    PROVE  Bookkeeping'
<1> USE LogAssumption
<1>0. /\ LogTypeInv /\ LogAtInv /\ AgeInv /\ FreshInv /\ IndexInv /\ ReadsInv /\ CountInv
      /\ ZeroInv /\ LineInv /\ UniqueInv /\ HandsInv /\ MessageInv
  BY DEF LogInv, LogTypeInv, Bookkeeping
<1>u. /\ LogIs(Program, "index") /\ ready /\ logAt[Program].line \in Line
      /\ messageIndexes' = [messageIndexes EXCEPT ![logAt[Program].line.level] = Mod(@ + 1)]
      /\ logged' = [logged EXCEPT ![logAt[Program].line.level] = Append(@, logAt[Program].line.msg)]
      /\ UNCHANGED <<plc_logCounts, logFile, logState, calls, ready, reads, overlapped, left>>
  BY <1>0, Threads DEF counters, files, history, LogAtInv, LogIs, Logging, LogIndex
<1>n. PICK lev \in Levels, msg \in 1 .. MaxCalls, n \in Nat :
        /\ lev = logAt[Program].line.level /\ msg = logAt[Program].line.msg
        /\ n = Len(logged[lev]) /\ n < calls /\ messageIndexes[lev] = n
  <2>1. Logging(Program) /\ Settled
    BY <1>u DEF Logging, LogIs, Settled
  <2>2. logAt[Program].line.level \in Levels /\ logAt[Program].line.msg \in 1 .. MaxCalls
    BY <1>0, <2>1, HandNumbers
  <2> QED
    BY <1>0, <1>u, <2>1, <2>2, LevelNumbers DEF IndexInv
<1>c. calls \in Int /\ n < calls /\ calls < Wrap
  BY <1>n, <1>0, CallNumbers
<1>d. logged[lev] \in Seq(0 .. MaxCalls) /\ DOMAIN logged = Levels /\ DOMAIN logged[lev] = 1 .. n
  BY <1>0, <1>n, LenProperties DEF LogTypeInv, LogTypeOK
<1>s. PICK s : s = Append(logged[lev], msg)
  OBVIOUS
<1>t. Len(s) = n + 1 /\ DOMAIN s = 1 .. n + 1 /\ s[n + 1] = msg /\ \A i \in 1 .. n : s[i] = logged[lev][i]
  <2>1. msg \in 0 .. MaxCalls /\ n = Len(logged[lev])
    BY <1>n
  <2>2. s \in Seq(0 .. MaxCalls) /\ Len(s) = n + 1 /\ s[n + 1] = msg /\ \A i \in 1 .. n : s[i] = logged[lev][i]
    BY <1>d, <1>s, <2>1, AppendProperties
  <2> QED
    BY <2>2, LenProperties
<1>v. logged' = [logged EXCEPT ![lev] = s]
  BY <1>u, <1>n, <1>s
<1>w. \A l \in Levels : logged'[l] = IF l = lev THEN s ELSE logged[l]
  BY <1>v, <1>d
<1>e. /\ \A l \in Levels : l # lev => Len(logged'[l]) = Len(logged[l])
      /\ Len(logged'[lev]) = n + 1
  BY <1>t, <1>w
<1>l. ASSUME NEW l \in Levels, NEW i \in DOMAIN logged'[l]
      PROVE  \/ l = lev /\ i = n + 1 /\ logged'[l][i] = msg
             \/ i \in DOMAIN logged[l] /\ logged'[l][i] = logged[l][i]
  <2>1. CASE l = lev
    <3>1. i \in 1 .. n + 1 /\ logged'[l] = s
      BY <2>1, <1>t, <1>w
    <3>2. i = n + 1 \/ i \in 1 .. n
      BY <3>1
    <3> QED
      BY <2>1, <3>1, <3>2, <1>t, <1>d
  <2>2. CASE l # lev
    BY <2>2, <1>w
  <2> QED
    BY <2>1, <2>2
<1>k. ASSUME NEW l \in Levels, NEW i \in DOMAIN logged[l]
      PROVE  i \in DOMAIN logged'[l] /\ logged'[l][i] = logged[l][i]
  <2>1. CASE l = lev
    BY <2>1, <1>t, <1>w, <1>d
  <2>2. CASE l # lev
    BY <2>2, <1>w
  <2> QED
    BY <2>1, <2>2
<1>m. messageIndexes' = [messageIndexes EXCEPT ![lev] = n + 1]
  <2>1. Mod(n + 1) = n + 1
    BY <1>c, ModSmall
  <2> QED
    BY <2>1, <1>n, <1>u
<1>a. /\ logAt'[Reader] = logAt[Reader] /\ logAt'[Program].at = "write"
      /\ \A u \in LogThreads \ {Program} : logAt'[u] = logAt[u]
      /\ logAt'[Program].line.level = lev /\ logAt'[Program].line.id = n /\ logAt'[Program].line.msg = msg
  BY <1>0, <1>u, <1>n, LogIndexAt
<1>b. logAt[Program].at = "index" /\ calls' = calls /\ reads' = reads /\ plc_logCounts' = plc_logCounts
      /\ logFile' = logFile /\ left' = left /\ NewLines' = NewLines
  BY <1>u DEF LogIs, NewLines
<1>f. /\ \A i \in DOMAIN logFile : logFile[i].msg < msg
      /\ LogIs(Reader, "get_count") => logAt[Reader].line.msg < msg
      /\ \A l \in Levels : \A i \in DOMAIN logged[l] : logged[l][i] < msg
      /\ msg <= calls
  BY <1>0, <1>b, <1>n DEF FreshInv, AgeInv, LogIs, Logging
<1>q. Quiet' => Quiet
  BY <1>0, <1>u, Threads, <1>a DEF Quiet, Settled, Zeroing, LogAtInv, LogIs
<1>1. AgeInv'
  <2>1. ASSUME NEW l \in Levels, NEW i \in DOMAIN logged'[l]
        PROVE  logged'[l][i] <= calls'
    BY <1>0, <1>b, <1>f, <1>l DEF AgeInv
  <2> QED
    BY <2>1, <1>0, <1>b, <1>f, <1>a DEF AgeInv, LogIs
<1>2. FreshInv'
  <2>1. ASSUME NEW l \in Levels, NEW i \in DOMAIN logged'[l]
        PROVE  logged'[l][i] < msg \/ (l = lev /\ i = n + 1)
    BY <1>f, <1>l
  <2> QED
    BY <2>1, <1>b, <1>f, <1>a DEF FreshInv, LogIs
<1>3. IndexInv'
  <2>1. ASSUME NEW l \in Levels
        PROVE  Len(logged'[l]) <= calls' /\ messageIndexes'[l] = Len(logged'[l])
    <3>1. Len(logged[l]) <= calls /\ messageIndexes[l] = Len(logged[l])
      BY <1>0, <1>u DEF IndexInv, Settled
    <3>2. CASE l = lev
      <4>1. messageIndexes'[l] = n + 1
        BY <3>2, <1>0, <1>m DEF LogTypeInv, LogTypeOK
      <4> QED
        BY <3>2, <4>1, <1>e, <1>c, <1>b
    <3>3. CASE l # lev
      <4>1. messageIndexes'[l] = messageIndexes[l]
        BY <3>3, <1>0, <1>m DEF LogTypeInv, LogTypeOK
      <4> QED
        BY <3>1, <3>3, <4>1, <1>e, <1>b
    <3> QED
      BY <3>2, <3>3
  <2> QED
    BY <2>1, <1>a DEF IndexInv, LogIs
<1>4. ReadsInv'
  BY <1>0, <1>u, <1>q, Threads, CallNumbers, HandNumbers, FileNumbers, LevelNumbers, LogIndexAt DEF ReadsInv, LogAtInv, LogIs
<1>5. CountInv'
  <2> SUFFICES ASSUME Quiet', NEW l \in Levels
               PROVE  plc_logCounts'[l] = Mod(Len(logged'[l]) - reads'[l] - Uncounted(l)')
    BY DEF CountInv
  <2>1. Uncounted(l) = 0 /\ plc_logCounts[l] = Mod(Len(logged[l]) - reads[l] - Uncounted(l))
    BY <1>0, <1>q, <1>b DEF CountInv, Uncounted
  <2>2. Uncounted(l)' = IF l = lev THEN 1 ELSE 0
    BY <1>a DEF Uncounted
  <2>3. Len(logged[l]) \in Nat /\ reads[l] \in Nat
    BY <1>0, LevelNumbers
  <2>4. CASE l = lev
    <3>1. Len(logged'[l]) = Len(logged[l]) + 1
      BY <2>4, <1>e, <1>n
    <3>2. Len(logged'[l]) - reads'[l] - Uncounted(l)' = Len(logged[l]) - reads[l] - Uncounted(l)
      BY <2>1, <2>2, <2>3, <2>4, <3>1, <1>b
    <3> QED
      BY <2>1, <3>2, <1>b
  <2>5. CASE l # lev
    BY <2>1, <2>2, <2>5, <1>e, <1>b
  <2> QED
    BY <2>4, <2>5
<1>6. ZeroInv'
  BY <1>0, <1>u, <1>q, Threads, CallNumbers, HandNumbers, FileNumbers, LevelNumbers, LogIndexAt DEF ZeroInv, LogAtInv, LogIs, Logging, Zeroing
<1>7. LineInv'
  <2> SUFFICES ASSUME Quiet', NEW i \in NewLines'
               PROVE  Current(logFile[i])'
    BY DEF LineInv
  <2>1. Current(logFile[i]) /\ logFile[i].level \in Levels
    BY <1>0, <1>q, <1>b, FileNumbers DEF LineInv
  <2> QED
    BY <2>1, <1>b, <1>k DEF Current
<1>8. UniqueInv'
  BY <1>0, <1>u, <1>q DEF UniqueInv, NewLines
<1>9. HandsInv'
  <2>1. ASSUME Quiet, left = 0, LogIs(Reader, "get_count"), logAt[Reader].line # NoLine
        PROVE  Current(logAt[Reader].line)'
    <3>1. Current(logAt[Reader].line) /\ logAt[Reader].line.level \in Levels
      BY <2>1, <1>0, HandNumbers DEF HandsInv
    <3> QED
      BY <3>1, <1>a, <1>k DEF Current
  <2>2. Current(logAt[Program].line)'
    <3>1. n + 1 \in DOMAIN logged'[lev] /\ logged'[lev][n + 1] = msg
      BY <1>t, <1>w
    <3> QED
      BY <3>1, <1>a DEF Current
  <2> QED
    BY <2>1, <2>2, <1>q, <1>a, <1>b DEF HandsInv, LogIs
<1>10. MessageInv'
  <2> SUFFICES ASSUME Quiet', NEW l \in Levels, NEW i \in DOMAIN logged'[l]
               PROVE  \/ logged'[l][i] = Lost \/ InFile(l, i)'
                      \/ LogIs(Program, "write")' /\ logAt'[Program].line.level = l /\ logAt'[Program].line.id = i - 1
    BY DEF MessageInv
  <2>1. CASE l = lev /\ i = n + 1
    BY <2>1, <1>a DEF LogIs
  <2>2. CASE i \in DOMAIN logged[l] /\ logged'[l][i] = logged[l][i]
    <3>1. logged[l][i] = Lost \/ InFile(l, i)
      BY <2>2, <1>0, <1>q, <1>b DEF MessageInv, LogIs
    <3>2. InFile(l, i) => InFile(l, i)'
      BY <2>2, <1>b DEF InFile
    <3> QED
      BY <2>2, <3>1, <3>2
  <2> QED
    BY <2>1, <2>2, <1>l
<1> QED
  BY <1>1, <1>2, <1>3, <1>4, <1>5, <1>6, <1>7, <1>8, <1>9, <1>10 DEF Bookkeeping

\* The line is in the file, last and under its own number, or its message is lost.
LEMMA LogWriteBooks ==
    ASSUME LogInv, LogWrite, MaxCalls < Wrap
    PROVE  Bookkeeping'
<1> USE LogAssumption
<1>0. /\ LogTypeInv /\ LogAtInv /\ AgeInv /\ FreshInv /\ IndexInv /\ ReadsInv /\ CountInv
      /\ ZeroInv /\ LineInv /\ UniqueInv /\ HandsInv /\ MessageInv
  BY DEF LogInv, LogTypeInv, Bookkeeping
<1>u. /\ LogIs(Program, "write") /\ ready /\ logAt[Program].line \in Line
      /\ LET line == logAt[Program].line
         IN  \/ logFile' = Append(logFile, line) /\ UNCHANGED logged
             \/ /\ logged' = [logged EXCEPT ![line.level] = [i \in DOMAIN @ |-> IF @[i] = line.msg THEN Lost ELSE @[i]]]
                /\ UNCHANGED logFile
      /\ UNCHANGED <<messageIndexes, plc_logCounts, logState, calls, ready, reads, overlapped, left>>
  BY <1>0, Threads DEF counters, files, history, LogAtInv, LogIs, Logging, LogWrite
<1>n. PICK lev \in Levels, msg \in 1 .. MaxCalls, id \in Nat :
        /\ lev = logAt[Program].line.level /\ msg = logAt[Program].line.msg /\ id = logAt[Program].line.id
        /\ \A i \in DOMAIN logFile : logFile[i].msg < msg
        /\ LogIs(Reader, "get_count") => logAt[Reader].line.msg < msg
        /\ Quiet => id + 1 \in DOMAIN logged[lev] /\ logged[lev][id + 1] = msg
        /\ msg <= calls
  BY SMTT(60), <1>0, <1>u, CallNumbers, HandNumbers, FileNumbers, LevelNumbers DEF Line, FreshInv, AgeInv, HandsInv, Current, LogIs, Logging
<1>l. ASSUME NEW l \in Levels
      PROVE  /\ Len(logged'[l]) = Len(logged[l]) /\ DOMAIN logged'[l] = DOMAIN logged[l]
             /\ \A i \in DOMAIN logged[l] : /\ logged[l][i] # msg => logged'[l][i] = logged[l][i]
                                            /\ logged'[l][i] \in {logged[l][i], Lost}
  <2> DEFINE t == [i \in DOMAIN logged[lev] |-> IF logged[lev][i] = msg THEN Lost ELSE logged[lev][i]]
  <2>1. logged[lev] \in Seq(0 .. MaxCalls) /\ Lost \in 0 .. MaxCalls /\ DOMAIN logged = Levels
    BY <1>0 DEF Lost, LogTypeInv, LogTypeOK
  <2>s. PICK s : s = t
    OBVIOUS
  <2>2. Len(s) = Len(logged[lev]) /\ DOMAIN s = DOMAIN logged[lev]
    BY <2>1, <2>s, LoseOne
  <2>3. logged' = logged \/ logged' = [logged EXCEPT ![lev] = s]
    BY <1>u, <1>n, <2>s
  <2>r. \A i \in DOMAIN logged[lev] : /\ logged[lev][i] # msg => s[i] = logged[lev][i]
                                      /\ s[i] \in {logged[lev][i], Lost}
    BY <2>s
  <2> HIDE DEF t
  <2>d. DOMAIN logged = Levels
    BY <2>1
  <2>4. logged'[l] = logged[l] \/ (l = lev /\ logged'[l] = s)
    <3>1. CASE logged' = logged
      BY <3>1
    <3>2. CASE logged' = [logged EXCEPT ![lev] = s]
      BY <2>d, <3>2
    <3> QED
      BY <2>3, <3>1, <3>2
  <2>5. CASE l = lev /\ logged'[l] = s
    BY <2>2, <2>5, <2>r
  <2> QED
    BY <2>4, <2>5
<1>f. /\ \A i \in DOMAIN logFile : i \in DOMAIN logFile' /\ logFile'[i] = logFile[i]
      /\ \A i \in DOMAIN logFile' :
            \/ i \in DOMAIN logFile /\ logFile'[i] = logFile[i]
            \/ i = Len(logFile) + 1 /\ logFile'[i] = logAt[Program].line /\ logged' = logged
      /\ \A i \in NewLines : i \in NewLines'
      /\ \A i \in NewLines' : i \in DOMAIN logFile => i \in NewLines
      /\ \A i \in NewLines' : i \in DOMAIN logFile'
      /\ \/ logged' = logged /\ \E i \in NewLines' : logFile'[i] = logAt[Program].line
         \/ \A i \in DOMAIN logged[lev] : logged[lev][i] = msg => logged'[lev][i] = Lost
  <2>1. CASE logFile' = Append(logFile, logAt[Program].line) /\ logged' = logged
    <3>0. logFile \in Seq(Line) /\ logAt[Program].line \in Line
      BY <1>0, <1>u DEF LogTypeInv, LogTypes
    <3>1. /\ logFile' \in Seq(Line) /\ Len(logFile') = Len(logFile) + 1
          /\ \A i \in 1 .. Len(logFile) : logFile'[i] = logFile[i]
          /\ logFile'[Len(logFile) + 1] = logAt[Program].line
      BY <2>1, <3>0, AppendProperties
    <3>2. DOMAIN logFile' = 1 .. Len(logFile) + 1 /\ DOMAIN logFile = 1 .. Len(logFile) /\ Len(logFile) \in Nat
      BY <3>1, <1>0, FileNumbers, LenProperties
    <3>3. /\ NewLines = (left + 1) .. Len(logFile) /\ NewLines' = (left + 1) .. Len(logFile) + 1
          /\ left \in Nat /\ left <= Len(logFile)
      BY <3>1, <1>0, <1>u, FileNumbers DEF NewLines
    <3>4. Len(logFile) + 1 \in NewLines'
      BY <3>2, <3>3
    <3> QED
      BY <2>1, <3>1, <3>2, <3>3, <3>4
  <2>2. CASE /\ logFile' = logFile
             /\ logged' = [logged EXCEPT ![lev] = [i \in DOMAIN @ |-> IF @[i] = msg THEN Lost ELSE @[i]]]
    <3>1. NewLines' = NewLines /\ NewLines \subseteq DOMAIN logFile
      BY <2>2, <1>0, <1>u, FileNumbers DEF NewLines
    <3> QED
      BY <2>2, <3>1, <1>0 DEF LogTypeInv, LogTypeOK
  <2> QED
    BY <2>1, <2>2, <1>u, <1>n
<1>a. /\ logAt'[Reader] = logAt[Reader] /\ logAt'[Program].at = "count"
      /\ \A u \in LogThreads \ {Program} : logAt'[u] = logAt[u]
      /\ logAt'[Program].line = logAt[Program].line
  BY <1>0, <1>u, LogWriteAt
<1>q. Quiet' => Quiet
  BY <1>0, <1>u, Threads, <1>a DEF Quiet, Settled, Zeroing, LogAtInv, LogIs
<1>1. AgeInv'
  <2>1. ASSUME NEW l \in Levels, NEW i \in DOMAIN logged'[l]
        PROVE  logged'[l][i] <= calls'
    <3>1. i \in DOMAIN logged[l] /\ logged'[l][i] \in {logged[l][i], Lost}
      BY <1>l
    <3> QED
      BY <3>1, <1>0, <1>u, CallNumbers DEF AgeInv, Lost
  <2>2. ASSUME NEW i \in DOMAIN logFile'
        PROVE  logFile'[i].msg <= calls'
    BY <1>0, <1>n, <1>f, <1>u DEF AgeInv
  <2> QED
    BY <2>1, <2>2, <1>0, <1>u, <1>n, <1>a DEF AgeInv, LogIs
<1>2. FreshInv'
  BY <1>0, <1>u, <1>q, Threads, CallNumbers, HandNumbers, FileNumbers, LevelNumbers, <1>n, <1>l, <1>f, <1>a DEF FreshInv, LogAtInv, LogIs, Logging
<1>3. IndexInv'
  BY <1>0, <1>u, <1>l, <1>a DEF IndexInv, LogIs, Settled
<1>4. ReadsInv'
  BY <1>0, <1>u, <1>q, Threads, CallNumbers, HandNumbers, FileNumbers, LevelNumbers, <1>n, <1>l, <1>f, <1>a DEF ReadsInv, LogAtInv, LogIs
<1>5. CountInv'
  <2> SUFFICES ASSUME Quiet', NEW l \in Levels
               PROVE  plc_logCounts'[l] = Mod(Len(logged'[l]) - reads'[l] - Uncounted(l)')
    BY DEF CountInv
  <2>1. Uncounted(l)' = Uncounted(l)
    BY <1>u, <1>a DEF Uncounted, LogIs
  <2> QED
    BY <2>1, <1>0, <1>q, <1>u, <1>l DEF CountInv
<1>6. ZeroInv'
  BY <1>0, <1>u, <1>q, Threads, CallNumbers, HandNumbers, FileNumbers, LevelNumbers, <1>n, <1>l, <1>f, <1>a DEF ZeroInv, LogAtInv, LogIs, Logging, Zeroing
<1>7. LineInv'
  <2> SUFFICES ASSUME Quiet', NEW i \in NewLines'
               PROVE  Current(logFile[i])'
    BY DEF LineInv
  <2>1. CASE i \in NewLines /\ logFile'[i] = logFile[i]
    <3>1. Current(logFile[i]) /\ logFile[i].msg # msg /\ logFile[i].level \in Levels
      BY <2>1, <1>0, <1>q, <1>n, FileNumbers DEF LineInv
    <3> QED
      BY <2>1, <3>1, <1>l DEF Current
  <2>2. CASE logFile'[i] = logAt[Program].line /\ logged' = logged
    BY <2>2, <1>q, <1>n DEF Current
  <2> QED
    BY <2>1, <2>2, <1>f
<1>8. UniqueInv'
  <2>1. ASSUME Quiet, NEW i \in NewLines
        PROVE  ~(logFile[i].level = lev /\ logFile[i].id = id)
    <3>1. logged[logFile[i].level][logFile[i].id + 1] = logFile[i].msg /\ logFile[i].msg < msg /\ logFile[i].msg \in Int
      BY <2>1, <1>0, <1>n, FileNumbers DEF LineInv, Current
    <3>2. logged[lev][id + 1] = msg
      BY <2>1, <1>n
    <3> QED
      BY <3>1, <3>2
  <2> QED
    BY <2>1, <1>0, <1>q, <1>n, <1>f DEF UniqueInv
<1>9. HandsInv'
  <2> SUFFICES ASSUME Quiet', left = 0, LogIs(Reader, "get_count"), logAt[Reader].line # NoLine
               PROVE  Current(logAt[Reader].line)'
    BY <1>u, <1>a DEF HandsInv, LogIs
  <2>1. Current(logAt[Reader].line) /\ logAt[Reader].line.msg # msg /\ logAt[Reader].line.level \in Levels
    BY SMTT(30), <1>0, <1>q, <1>n, CallNumbers, HandNumbers, FileNumbers, LevelNumbers DEF HandsInv, LogAtInv, Line
  <2> QED
    BY <2>1, <1>l, <1>a DEF Current
<1>10. MessageInv'
  <2> SUFFICES ASSUME Quiet', NEW l \in Levels, NEW i \in DOMAIN logged'[l], logged'[l][i] # Lost
               PROVE  InFile(l, i)'
    BY DEF MessageInv
  <2>0. i \in DOMAIN logged[l] /\ logged'[l][i] = logged[l][i] /\ logged[l][i] # Lost
    BY <1>l
  <2>1. CASE InFile(l, i)
    BY <2>0, <2>1, <1>0, <1>f, FileNumbers DEF InFile, NewLines
  <2>2. CASE l = lev /\ id = i - 1
    <3>1. logged[l][i] = msg
      BY SMTT(30), <2>0, <2>2, <1>q, <1>n, <1>0, CallNumbers, HandNumbers, FileNumbers, LevelNumbers
    <3>2. logged' = logged /\ \E j \in NewLines' : logFile'[j] = logAt[Program].line
      BY <2>0, <2>2, <3>1, <1>f
    <3>3. logAt[Program].line = [level |-> l, id |-> i - 1, msg |-> logged[l][i]]
      BY <2>2, <3>1, <1>u, <1>n DEF Line
    <3> QED
      BY <3>2, <3>3 DEF InFile, NewLines
  <2> QED
    BY <2>0, <2>1, <2>2, <1>0, <1>q, <1>n DEF MessageInv
<1> QED
  BY <1>1, <1>2, <1>3, <1>4, <1>5, <1>6, <1>7, <1>8, <1>9, <1>10 DEF Bookkeeping

\* The message is counted, as the last that was not.
LEMMA LogCountBooks ==
    ASSUME LogInv, LogCount, MaxCalls < Wrap
    PROVE  Bookkeeping'
<1> USE LogAssumption
<1>0. /\ LogTypeInv /\ LogAtInv /\ AgeInv /\ FreshInv /\ IndexInv /\ ReadsInv /\ CountInv
      /\ ZeroInv /\ LineInv /\ UniqueInv /\ HandsInv /\ MessageInv
  BY DEF LogInv, LogTypeInv, Bookkeeping
<1>u. /\ LogIs(Program, "count") /\ ready /\ logAt[Program].line \in Line
      /\ plc_logCounts' = [plc_logCounts EXCEPT ![logAt[Program].line.level] = Mod(@ + 1)]
      /\ UNCHANGED <<messageIndexes, logFile, logState, calls, ready, logged, reads, overlapped, left>>
  BY <1>0, Threads DEF counters, files, history, LogAtInv, LogIs, Logging, LogCount
<1>q. Quiet' => Quiet
  BY <1>0, <1>u, LogCountAt, Threads DEF Quiet, Settled, Zeroing, LogAtInv, LogIs
<1>1. AgeInv'
  BY <1>0, <1>u, <1>q, Threads, CallNumbers, HandNumbers, FileNumbers, LevelNumbers, LogCountAt DEF AgeInv, LogAtInv, LogIs, Logging
<1>2. FreshInv'
  BY <1>0, <1>u, <1>q, Threads, CallNumbers, HandNumbers, FileNumbers, LevelNumbers, LogCountAt DEF FreshInv, LogAtInv, LogIs, Logging
<1>3. IndexInv'
  BY <1>0, <1>u, <1>q, Threads, CallNumbers, HandNumbers, FileNumbers, LevelNumbers, LogCountAt DEF IndexInv, LogAtInv, LogIs, Logging, Settled
<1>4. ReadsInv'
  BY <1>0, <1>u, <1>q, Threads, CallNumbers, HandNumbers, FileNumbers, LevelNumbers, LogCountAt DEF ReadsInv, LogAtInv, LogIs
<1>5. CountInv'
  <2> SUFFICES ASSUME Quiet', NEW l \in Levels
               PROVE  plc_logCounts'[l] = Mod(Len(logged'[l]) - reads'[l] - Uncounted(l)')
    BY DEF CountInv
  <2>1. Uncounted(l)' = 0 /\ Uncounted(l) = IF l = logAt[Program].line.level THEN 1 ELSE 0
    BY <1>0, <1>u, LogCountAt DEF Uncounted, LogIs
  <2>2. /\ Len(logged[l]) \in Nat /\ reads[l] \in Nat /\ calls \in Int
        /\ Len(logged[l]) <= calls /\ reads[l] <= calls /\ calls < Wrap
    BY <1>0, CallNumbers, LevelNumbers DEF IndexInv, ReadsInv
  <2>3. PICK n \in Int : n = Len(logged[l]) - reads[l] - Uncounted(l)
    BY <2>1, <2>2
  <2>4. n \in Int /\ - Wrap <= n /\ (l = logAt[Program].line.level => n + 1 < Wrap)
    BY <2>1, <2>2, <2>3
  <2>5. plc_logCounts[l] = Mod(n)
    BY <2>3, <1>0, <1>q DEF CountInv
  <2>6. CASE l = logAt[Program].line.level
    <3>1. plc_logCounts'[l] = Mod(Mod(n) + 1)
      BY <2>5, <2>6, <1>0, <1>u DEF LogTypeInv, LogTypeOK
    <3>2. Len(logged'[l]) - reads'[l] - Uncounted(l)' = n + 1
      BY <2>1, <2>2, <2>3, <2>6, <1>u
    <3> QED
      BY <3>1, <3>2, <2>4, <2>6, ModUp
  <2>7. CASE l # logAt[Program].line.level
    BY <2>1, <2>3, <2>5, <2>7, <1>0, <1>u DEF LogTypeInv, LogTypeOK
  <2> QED
    BY <2>6, <2>7
<1>6. ZeroInv'
  BY <1>0, <1>u, <1>q, Threads, CallNumbers, HandNumbers, FileNumbers, LevelNumbers, LogCountAt DEF ZeroInv, LogAtInv, LogIs, Logging, Zeroing
<1>7. LineInv'
  BY <1>0, <1>u, <1>q DEF LineInv, NewLines, Current
<1>8. UniqueInv'
  BY <1>0, <1>u, <1>q DEF UniqueInv, NewLines
<1>9. HandsInv'
  BY <1>0, <1>u, <1>q, Threads, CallNumbers, HandNumbers, FileNumbers, LevelNumbers, LogCountAt DEF HandsInv, LogAtInv, LogIs, Current
<1>10. MessageInv'
  BY <1>0, <1>u, <1>q, Threads, CallNumbers, HandNumbers, FileNumbers, LevelNumbers, LogCountAt DEF MessageInv, LogAtInv, LogIs, InFile
<1> QED
  BY <1>1, <1>2, <1>3, <1>4, <1>5, <1>6, <1>7, <1>8, <1>9, <1>10 DEF Bookkeeping

\* A line that was found is one of the file.
LEMMA GetReadBooks ==
    ASSUME LogInv, NEW l \in Levels, NEW id, GetRead(l, id), MaxCalls < Wrap
    PROVE  Bookkeeping'
<1> USE LogAssumption
<1>0. /\ LogTypeInv /\ LogAtInv /\ AgeInv /\ FreshInv /\ IndexInv /\ ReadsInv /\ CountInv
      /\ ZeroInv /\ LineInv /\ UniqueInv /\ HandsInv /\ MessageInv
  BY DEF LogInv, LogTypeInv, Bookkeeping
<1>u. /\ LogIs(Reader, "idle") /\ calls' = calls + 1
      /\ \A u \in LogThreads \ {Reader} : logAt'[u] = logAt[u]
      /\ logAt'[Program] = logAt[Program] /\ logAt'[Reader].at = "get_count" /\ logAt'[Reader].then = "idle"
      /\ logAt'[Reader].line = NoLine \/ \E i \in DOMAIN logFile : logAt'[Reader].line = logFile[i]
      /\ UNCHANGED <<messageIndexes, plc_logCounts, logFile, logState, ready, logged, reads, overlapped, left>>
  <2>1. /\ LogIs(Reader, "idle") /\ calls' = calls + 1
        /\ UNCHANGED <<messageIndexes, plc_logCounts, logFile, logState, ready, logged, reads, overlapped, left>>
    BY DEF GetRead, Called, counters, files, history
  <2> QED
    BY <2>1, <1>0, GetReadAt
<1>q. Quiet' => Quiet
  BY <1>0, <1>u, Threads, GetReadAt DEF Quiet, Settled, Zeroing, LogAtInv, LogIs
<1>1. AgeInv'
  <2>1. NoLine.msg = 0
    BY DEF NoLine
  <2>2. logAt'[Reader].line.msg <= calls
    BY <1>0, <1>u, <2>1, CallNumbers DEF AgeInv
  <2>3. calls \in Int /\ calls' = calls + 1
    BY <1>0, <1>u, CallNumbers
  <2>4. \A k \in Levels : \A i \in DOMAIN logged[k] : logged[k][i] \in Int
    BY <1>0, LevelNumbers
  <2>5. \A i \in DOMAIN logFile : logFile[i].msg \in Int
    BY <1>0, FileNumbers
  <2>6. logAt[Program].line.msg \in Int /\ logAt'[Reader].line.msg \in Int
    BY <1>0, <1>u, <2>1, <2>5, HandNumbers
  <2> QED
    BY <1>0, <1>u, <2>2, <2>3, <2>4, <2>5, <2>6 DEF AgeInv, LogIs, Logging
<1>2. FreshInv'
  <2>1. NoLine.msg = 0 /\ (logAt[Program].at \in {"index", "write"} => logAt[Program].line.msg > 0)
    BY <1>0, HandNumbers DEF Logging, NoLine
  <2> QED
    BY <1>0, <1>u, <2>1 DEF FreshInv, LogIs
<1>3. IndexInv'
  BY SMTT(30), <1>0, <1>u, <1>q, Threads, CallNumbers, HandNumbers, FileNumbers, LevelNumbers DEF IndexInv, LogAtInv, LogIs, Logging, Settled
<1>4. ReadsInv'
  BY <1>0, <1>u, <1>q, Threads, CallNumbers, HandNumbers, FileNumbers, LevelNumbers DEF ReadsInv, LogAtInv, LogIs
<1>5. CountInv'
  BY <1>0, <1>u, <1>q, Threads, CallNumbers, HandNumbers, FileNumbers, LevelNumbers DEF CountInv, LogAtInv, LogIs, Uncounted, Logging
<1>6. ZeroInv'
  <2>1. Zeroing' => Zeroing
    BY <1>u, Threads DEF Zeroing, LogIs
  <2> QED
    <3>1. left = 0 /\ Zeroing /\ ~overlapped => DOMAIN logFile = {}
      BY <1>0, FileNumbers DEF ZeroInv
    <3> QED
      BY <1>0, <1>u, <2>1, <3>1 DEF ZeroInv, LogIs, Logging
<1>7. LineInv'
  BY <1>0, <1>u, <1>q DEF LineInv, NewLines, Current
<1>8. UniqueInv'
  BY <1>0, <1>u, <1>q DEF UniqueInv, NewLines
<1>9. HandsInv'
  <2> SUFFICES ASSUME Quiet'  PROVE HandsInv'
    BY DEF HandsInv
  <2>1. ASSUME left = 0, NEW i \in DOMAIN logFile
        PROVE  Current(logFile[i])'
    <3>1. i \in NewLines
      BY <2>1, <1>0, FileNumbers DEF NewLines
    <3> QED
      BY <3>1, <1>0, <1>u, <1>q DEF LineInv, Current
  <2>2. LogIs(Program, "write")' => Current(logAt[Program].line)'
    BY <1>0, <1>u, <1>q DEF HandsInv, LogIs, Current
  <2> QED
    BY <2>1, <2>2, <1>u DEF HandsInv
<1>10. MessageInv'
  <2>1. \A k, i : InFile(k, i)' <=> InFile(k, i)
    BY <1>u DEF InFile
  <2> QED
    BY <1>0, <1>u, <1>q, <2>1, Threads DEF MessageInv, LogAtInv, LogIs
<1> QED
  BY <1>1, <1>2, <1>3, <1>4, <1>5, <1>6, <1>7, <1>8, <1>9, <1>10 DEF Bookkeeping

\* A message that was found is taken off the counter of its level.
LEMMA GetCountBooks ==
    ASSUME LogInv, GetCount, MaxCalls < Wrap
    PROVE  Bookkeeping'
<1> USE LogAssumption
<1>0. /\ LogTypeInv /\ LogAtInv /\ AgeInv /\ FreshInv /\ IndexInv /\ ReadsInv /\ CountInv
      /\ ZeroInv /\ LineInv /\ UniqueInv /\ HandsInv /\ MessageInv
  BY DEF LogInv, LogTypeInv, Bookkeeping
<1>u. /\ LogIs(Reader, "get_count")
      /\ LET line == logAt[Reader].line
         IN  \/ line = NoLine /\ UNCHANGED <<plc_logCounts, reads>>
             \/ /\ line # NoLine /\ line \in Line
                /\ plc_logCounts' = [plc_logCounts EXCEPT ![line.level] = Mod(@ - 1)]
                /\ reads' = [reads EXCEPT ![line.level] = @ + 1]
      /\ UNCHANGED <<messageIndexes, logFile, logState, calls, ready, logged, overlapped, left>>
  BY <1>0, Threads DEF counters, files, history, LogAtInv, LogIs, Logging, GetCount
<1>q. Quiet' => Quiet
  BY <1>0, <1>u, GetCountAt, Threads DEF Quiet, Settled, Zeroing, LogAtInv, LogIs
<1>1. AgeInv'
  BY <1>0, <1>u, <1>q, Threads, CallNumbers, HandNumbers, FileNumbers, LevelNumbers, GetCountAt DEF AgeInv, LogAtInv, LogIs, Logging
<1>2. FreshInv'
  BY SMTT(30), <1>0, <1>u, <1>q, Threads, CallNumbers, HandNumbers, FileNumbers, LevelNumbers, GetCountAt DEF FreshInv, LogAtInv, LogIs, Logging
<1>3. IndexInv'
  BY <1>0, <1>u, <1>q, Threads, CallNumbers, HandNumbers, FileNumbers, LevelNumbers, GetCountAt DEF IndexInv, LogAtInv, LogIs, Logging, Settled
<1>4. ReadsInv'
  <2> SUFFICES ASSUME NEW l \in Levels
               PROVE  reads'[l] + (IF LogIs(Reader, "get_count")' THEN 1 ELSE 0) <= calls'
    BY DEF ReadsInv
  <2>1. reads[l] \in Nat /\ calls \in Int /\ reads[l] + 1 <= calls
    BY <1>0, <1>u, CallNumbers, LevelNumbers DEF ReadsInv
  <2>2. reads'[l] \in {reads[l], reads[l] + 1} /\ calls' = calls /\ ~LogIs(Reader, "get_count")'
    BY <1>0, <1>u, GetCountAt DEF LogTypeInv, LogTypes, LogIs
  <2> QED
    BY <2>1, <2>2
<1>5. CountInv'
  <2> SUFFICES ASSUME Quiet', NEW l \in Levels
               PROVE  plc_logCounts'[l] = Mod(Len(logged'[l]) - reads'[l] - Uncounted(l)')
    BY DEF CountInv
  <2>1. Uncounted(l)' = Uncounted(l) /\ Uncounted(l) \in {0, 1}
    BY <1>0, <1>u, GetCountAt DEF Uncounted
  <2>2. /\ Len(logged[l]) \in Nat /\ reads[l] \in Nat /\ calls \in Int
        /\ Len(logged[l]) <= calls /\ reads[l] + 1 <= calls /\ calls < Wrap
    BY <1>0, <1>u, CallNumbers, LevelNumbers DEF IndexInv, ReadsInv
  <2>3. PICK n \in Int : n = Len(logged[l]) - reads[l] - Uncounted(l)
    BY <2>1, <2>2
  <2>4. n \in Int /\ - Wrap <= n - 1 /\ n < Wrap
    BY <2>1, <2>2, <2>3
  <2>5. plc_logCounts[l] = Mod(n)
    BY <2>3, <1>0, <1>q DEF CountInv
  <2>6. CASE logAt[Reader].line # NoLine /\ l = logAt[Reader].line.level
    <3>1. plc_logCounts'[l] = Mod(Mod(n) - 1) /\ reads'[l] = reads[l] + 1
      BY <2>5, <2>6, <1>0, <1>u DEF LogTypeInv, LogTypeOK, LogTypes
    <3>2. Len(logged'[l]) - reads'[l] - Uncounted(l)' = n - 1
      BY SMTT(30), <2>1, <2>2, <2>3, <3>1, <1>u
    <3> QED
      BY <3>1, <3>2, <2>4, ModDown
  <2>7. CASE ~(logAt[Reader].line # NoLine /\ l = logAt[Reader].line.level)
    <3>1. plc_logCounts'[l] = plc_logCounts[l] /\ reads'[l] = reads[l]
      BY <2>7, <1>0, <1>u DEF LogTypeInv, LogTypeOK, LogTypes
    <3> QED
      BY <2>1, <2>3, <2>5, <3>1, <1>u
  <2> QED
    BY <2>6, <2>7
<1>6. ZeroInv'
  BY <1>0, <1>u, <1>q, Threads, CallNumbers, HandNumbers, FileNumbers, LevelNumbers, GetCountAt DEF ZeroInv, LogAtInv, LogIs, Logging, Zeroing
<1>7. LineInv'
  BY <1>0, <1>u, <1>q DEF LineInv, NewLines, Current
<1>8. UniqueInv'
  BY <1>0, <1>u, <1>q DEF UniqueInv, NewLines
<1>9. HandsInv'
  BY <1>0, <1>u, <1>q, Threads, CallNumbers, HandNumbers, FileNumbers, LevelNumbers, GetCountAt DEF HandsInv, LogAtInv, LogIs, Current
<1>10. MessageInv'
  BY SMTT(30), <1>0, <1>u, <1>q, Threads, CallNumbers, HandNumbers, FileNumbers, LevelNumbers, GetCountAt DEF MessageInv, LogAtInv, LogIs, InFile
<1> QED
  BY <1>1, <1>2, <1>3, <1>4, <1>5, <1>6, <1>7, <1>8, <1>9, <1>10 DEF Bookkeeping

\* A reset that is called changes nothing yet.
LEMMA ResetCallBooks ==
    ASSUME LogInv, NEW t \in LogThreads, ResetCall(t), MaxCalls < Wrap
    PROVE  Bookkeeping'
<1> USE LogAssumption
<1>0. /\ LogTypeInv /\ LogAtInv /\ AgeInv /\ FreshInv /\ IndexInv /\ ReadsInv /\ CountInv
      /\ ZeroInv /\ LineInv /\ UniqueInv /\ HandsInv /\ MessageInv
  BY DEF LogInv, LogTypeInv, Bookkeeping
<1>u. /\ LogIs(t, "idle") /\ calls' = calls + 1
      /\ UNCHANGED <<messageIndexes, plc_logCounts, logFile, logState, ready, logged, reads, overlapped, left>>
  BY <1>0, Threads DEF counters, files, history, LogAtInv, LogIs, ResetCall, Called
<1>q. Quiet' => Quiet
  BY <1>0, <1>u, ResetCallAt, Threads DEF Quiet, Settled, Zeroing, LogAtInv, LogIs
<1>1. AgeInv'
  BY SMTT(30), <1>0, <1>u, <1>q, Threads, CallNumbers, HandNumbers, FileNumbers, LevelNumbers, ResetCallAt DEF AgeInv, LogAtInv, LogIs, Logging
<1>2. FreshInv'
  BY SMTT(30), <1>0, <1>u, <1>q, Threads, CallNumbers, HandNumbers, FileNumbers, LevelNumbers, ResetCallAt DEF FreshInv, LogAtInv, LogIs, Logging
<1>3. IndexInv'
  BY <1>0, <1>u, <1>q, Threads, CallNumbers, HandNumbers, FileNumbers, LevelNumbers, ResetCallAt DEF IndexInv, LogAtInv, LogIs, Logging, Settled
<1>4. ReadsInv'
  BY <1>0, <1>u, <1>q, Threads, CallNumbers, HandNumbers, FileNumbers, LevelNumbers, ResetCallAt DEF ReadsInv, LogAtInv, LogIs
<1>5. CountInv'
  BY <1>0, <1>u, <1>q, Threads, CallNumbers, HandNumbers, FileNumbers, LevelNumbers, ResetCallAt DEF CountInv, LogAtInv, LogIs, Uncounted, Logging
<1>6. ZeroInv'
  <2>1. \A u \in LogThreads :
          logAt'[u].at = (IF u = t THEN "unlink" ELSE logAt[u].at) /\ logAt'[u].line = logAt[u].line
    BY <1>0, ResetCallAt
  <2>2. Zeroing' => Zeroing
    BY <2>1 DEF Zeroing, LogIs
  <2>3. /\ Logging(Program)' => Logging(Program)
        /\ LogIs(Reader, "get_count")' => LogIs(Reader, "get_count")
        /\ logAt'[Reader].line = logAt[Reader].line
    BY <2>1, Threads DEF Logging, LogIs
  <2> QED
    BY <2>2, <2>3, <1>0, <1>u DEF ZeroInv
<1>7. LineInv'
  BY <1>0, <1>u, <1>q DEF LineInv, NewLines, Current
<1>8. UniqueInv'
  BY <1>0, <1>u, <1>q DEF UniqueInv, NewLines
<1>9. HandsInv'
  <2>1. /\ LogIs(Reader, "get_count")' => LogIs(Reader, "get_count") /\ logAt'[Reader].line = logAt[Reader].line
        /\ LogIs(Program, "write")' => LogIs(Program, "write") /\ logAt'[Program].line = logAt[Program].line
    BY <1>0, <1>u, ResetCallAt, Threads DEF LogAtInv, LogIs
  <2> QED
    BY ONLY <1>0, <1>u, <1>q, <2>1 DEF HandsInv, Current
<1>10. MessageInv'
  <2>1. \A l, i : InFile(l, i)' <=> InFile(l, i)
    BY <1>u DEF InFile
  <2> QED
    BY <1>0, <1>u, <1>q, <2>1, Threads, ResetCallAt DEF MessageInv, LogAtInv, LogIs
<1> QED
  BY <1>1, <1>2, <1>3, <1>4, <1>5, <1>6, <1>7, <1>8, <1>9, <1>10 DEF Bookkeeping

\* There is no new line any more, and a call that still has one overlaps the reset.
LEMMA ResetUnlinkBooks ==
    ASSUME LogInv, NEW t \in LogThreads, ResetUnlink(t), MaxCalls < Wrap
    PROVE  Bookkeeping'
<1> USE LogAssumption
<1>0. /\ LogTypeInv /\ LogAtInv /\ AgeInv /\ FreshInv /\ IndexInv /\ ReadsInv /\ CountInv
      /\ ZeroInv /\ LineInv /\ UniqueInv /\ HandsInv /\ MessageInv
  BY DEF LogInv, LogTypeInv, Bookkeeping
<1>u. /\ LogIs(t, "unlink")
      /\ logFile' \in {<<>>, logFile} /\ left' = Len(logFile')
      /\ UNCHANGED <<messageIndexes, plc_logCounts, calls, ready, logged, reads>>
      /\ overlapped' = \E u \in LogThreads : Logging(u) \/ LogIs(u, "get_count")
  BY <1>0, Threads DEF counters, files, history, LogAtInv, LogIs, Logging, ResetUnlink
<1>q. ~Quiet'
  BY <1>u, ResetUnlinkAt, <1>0, Threads DEF Quiet, Zeroing, LogIs
<1>1. AgeInv'
  BY <1>0, <1>u, <1>q, Threads, CallNumbers, HandNumbers, FileNumbers, LevelNumbers, ResetUnlinkAt DEF AgeInv, LogAtInv, LogIs, Logging
<1>2. FreshInv'
  <2> SUFFICES ASSUME logAt'[Program].at \in {"index", "write"}  PROVE FreshInv'
    BY DEF FreshInv
  <2>1. t # Program
    BY ResetUnlinkAt, <1>0, Threads
  <2>2. /\ logAt'[Program].at = logAt[Program].at /\ logAt'[Program].line = logAt[Program].line
        /\ logAt'[Reader].line = logAt[Reader].line /\ (logAt'[Reader].at = "get_count" => logAt[Reader].at = "get_count")
    BY <2>1, ResetUnlinkAt, <1>0, Threads
  <2> QED
    BY <2>2, <1>0, <1>u DEF FreshInv, LogIs
<1>3. IndexInv'
  BY <1>0, <1>u, <1>q, Threads, CallNumbers, HandNumbers, FileNumbers, LevelNumbers, ResetUnlinkAt DEF IndexInv, LogAtInv, LogIs, Logging, Settled
<1>4. ReadsInv'
  BY <1>0, <1>u, <1>q, Threads, CallNumbers, HandNumbers, FileNumbers, LevelNumbers, ResetUnlinkAt DEF ReadsInv, LogAtInv, LogIs
<1>5. CountInv'
  BY <1>0, <1>u, <1>q, Threads, CallNumbers, HandNumbers, FileNumbers, LevelNumbers, ResetUnlinkAt DEF CountInv, LogAtInv, LogIs, Uncounted, Logging
<1>6. ZeroInv'
  BY <1>0, <1>u, <1>q, Threads, CallNumbers, HandNumbers, FileNumbers, LevelNumbers, ResetUnlinkAt DEF ZeroInv, LogAtInv, LogIs, Logging, Zeroing
<1>7. LineInv'
  BY <1>0, <1>u, <1>q DEF LineInv, NewLines, Current
<1>8. UniqueInv'
  BY <1>0, <1>u, <1>q DEF UniqueInv, NewLines
<1>9. HandsInv'
  BY <1>0, <1>u, <1>q, Threads, CallNumbers, HandNumbers, FileNumbers, LevelNumbers, ResetUnlinkAt DEF HandsInv, LogAtInv, LogIs, Current
<1>10. MessageInv'
  BY <1>0, <1>u, <1>q, Threads, CallNumbers, HandNumbers, FileNumbers, LevelNumbers, ResetUnlinkAt DEF MessageInv, LogAtInv, LogIs, InFile
<1> QED
  BY <1>1, <1>2, <1>3, <1>4, <1>5, <1>6, <1>7, <1>8, <1>9, <1>10 DEF Bookkeeping

\* The counters, and with them the numbers, begin again.
LEMMA ResetZeroBooks ==
    ASSUME LogInv, NEW t \in LogThreads, ResetZero(t), MaxCalls < Wrap
    PROVE  Bookkeeping'
<1> USE LogAssumption
<1>0. /\ LogTypeInv /\ LogAtInv /\ AgeInv /\ FreshInv /\ IndexInv /\ ReadsInv /\ CountInv
      /\ ZeroInv /\ LineInv /\ UniqueInv /\ HandsInv /\ MessageInv
  BY DEF LogInv, LogTypeInv, Bookkeeping
<1>u. /\ LogIs(t, "zero")
      /\ messageIndexes' = Zero /\ plc_logCounts' = Zero /\ logged' = [l \in Levels |-> <<>>] /\ reads' = Zero
      /\ UNCHANGED <<logFile, logState, calls, ready, overlapped, left>>
  BY <1>0, Threads DEF counters, files, history, LogAtInv, LogIs, Logging, ResetZero
<1>a. /\ logAt'[t].at = "save"
      /\ \A u \in LogThreads : /\ logAt'[u].at \in {logAt[u].at, "save"}
                               /\ logAt'[u].line = logAt[u].line /\ logAt'[u].then = logAt[u].then
  BY <1>0, ResetZeroAt
<1>l. \A l \in Levels : logged'[l] = <<>> /\ Len(logged'[l]) = 0 /\ DOMAIN logged'[l] = {} /\ reads'[l] = 0
                       /\ messageIndexes'[l] = 0 /\ plc_logCounts'[l] = 0
  BY <1>u DEF Zero
<1>z. ~overlapped => /\ NewLines' = {} /\ logAt'[Program].at \notin {"index", "write", "count"}
                     /\ left' = 0 /\ LogIs(Reader, "get_count")' => logAt'[Reader].line = NoLine
  <2>1. ~overlapped => /\ Len(logFile) = left /\ ~Logging(Program)
                       /\ left = 0 /\ LogIs(Reader, "get_count") => logAt[Reader].line = NoLine
    BY <1>0, <1>u, Threads DEF ZeroInv, Zeroing
  <2>2. Len(logFile) = left => NewLines' = {}
    BY <1>0, <1>u, FileNumbers DEF NewLines
  <2> QED
    BY <2>1, <2>2, <1>u, <1>a, Threads DEF LogIs, Logging
<1>q. Quiet' => ~overlapped
  BY <1>u DEF Quiet
<1>1. AgeInv'
  BY <1>0, <1>u, <1>q, Threads, CallNumbers, HandNumbers, FileNumbers, LevelNumbers, ResetZeroAt DEF AgeInv, LogAtInv, LogIs, Logging
<1>2. FreshInv'
  BY <1>0, <1>u, <1>q, Threads, CallNumbers, HandNumbers, FileNumbers, LevelNumbers, ResetZeroAt DEF FreshInv, LogAtInv, LogIs, Logging
<1>3. IndexInv'
  <2>1. ASSUME NEW l \in Levels
        PROVE  Len(logged'[l]) <= calls' /\ (LogIs(Program, "index")' => Len(logged'[l]) < calls')
    <3>1. LogIs(Program, "index")' => LogIs(Program, "index")
      BY <1>a, Threads DEF LogIs
    <3>2. Len(logged[l]) \in Nat /\ calls \in Int /\ calls >= 0 /\ (LogIs(Program, "index") => Len(logged[l]) < calls)
      BY <1>0, CallNumbers, LevelNumbers DEF IndexInv
    <3>3. Len(logged'[l]) = 0 /\ calls' = calls
      BY <1>l, <1>u
    <3> QED
      BY <3>1, <3>2, <3>3
  <2> QED
    BY <2>1, <1>l DEF IndexInv
<1>4. ReadsInv'
  <2> SUFFICES ASSUME NEW l \in Levels
               PROVE  reads'[l] + (IF LogIs(Reader, "get_count")' THEN 1 ELSE 0) <= calls'
    BY DEF ReadsInv
  <2>1. reads[l] \in Nat /\ calls \in Int /\ reads[l] + (IF LogIs(Reader, "get_count") THEN 1 ELSE 0) <= calls
    BY <1>0, CallNumbers, LevelNumbers DEF ReadsInv
  <2>2. LogIs(Reader, "get_count")' => LogIs(Reader, "get_count")
    BY <1>a, Threads DEF LogIs
  <2> QED
    BY <2>1, <2>2, <1>l, <1>u
<1>5. CountInv'
  <2> SUFFICES ASSUME Quiet', NEW l \in Levels
               PROVE  plc_logCounts'[l] = Mod(Len(logged'[l]) - reads'[l] - Uncounted(l)')
    BY DEF CountInv
  <2>1. Uncounted(l)' = 0
    BY <1>q, <1>z DEF Uncounted
  <2>2. Mod(0) = 0
    BY DEF Mod
  <2> QED
    BY <2>1, <2>2, <1>l
<1>6. ZeroInv'
  BY <1>0, <1>u, <1>q, Threads, CallNumbers, HandNumbers, FileNumbers, LevelNumbers, ResetZeroAt DEF ZeroInv, LogAtInv, LogIs, Logging, Zeroing
<1>7. LineInv'
  BY <1>q, <1>z DEF LineInv
<1>8. UniqueInv'
  BY <1>q, <1>z DEF UniqueInv
<1>9. HandsInv'
  BY <1>q, <1>z DEF HandsInv, LogIs
<1>10. MessageInv'
  BY <1>l DEF MessageInv
<1> QED
  BY <1>1, <1>2, <1>3, <1>4, <1>5, <1>6, <1>7, <1>8, <1>9, <1>10 DEF Bookkeeping

\* A reset is over, with its counters saved or not.
LEMMA ResetSaveBooks ==
    ASSUME LogInv, NEW t \in LogThreads, ResetSave(t), MaxCalls < Wrap
    PROVE  Bookkeeping'
<1> USE LogAssumption
<1>0. /\ LogTypeInv /\ LogAtInv /\ AgeInv /\ FreshInv /\ IndexInv /\ ReadsInv /\ CountInv
      /\ ZeroInv /\ LineInv /\ UniqueInv /\ HandsInv /\ MessageInv
  BY DEF LogInv, LogTypeInv, Bookkeeping
<1>u. /\ LogIs(t, "save")
      /\ UNCHANGED <<messageIndexes, plc_logCounts, logFile, calls, ready, logged, reads, overlapped, left>>
  BY <1>0, Threads DEF counters, files, history, LogAtInv, LogIs, ResetSave
<1>q. Quiet' => Quiet
  BY <1>0, <1>u, ResetSaveAt, Threads DEF Quiet, Settled, Zeroing, LogAtInv, LogIs
<1>1. AgeInv'
  BY <1>0, <1>u, <1>q, Threads, CallNumbers, HandNumbers, FileNumbers, LevelNumbers, ResetSaveAt DEF AgeInv, LogAtInv, LogIs, Logging
<1>2. FreshInv'
  BY SMTT(30), <1>0, <1>u, <1>q, Threads, CallNumbers, HandNumbers, FileNumbers, LevelNumbers, ResetSaveAt DEF FreshInv, LogAtInv, LogIs, Logging
<1>3. IndexInv'
  BY <1>0, <1>u, <1>q, Threads, CallNumbers, HandNumbers, FileNumbers, LevelNumbers, ResetSaveAt DEF IndexInv, LogAtInv, LogIs, Logging, Settled
<1>4. ReadsInv'
  BY SMTT(30), <1>0, <1>u, <1>q, Threads, CallNumbers, HandNumbers, FileNumbers, LevelNumbers, ResetSaveAt DEF ReadsInv, LogAtInv, LogIs
<1>5. CountInv'
  <2>1. logAt[Program].at \notin {"write", "count"} <=> logAt'[Program].at \notin {"write", "count"}
    BY <1>0, <1>u, ResetSaveAt, Threads DEF LogAtInv, LogIs
  <2>2. logAt[Program].at \in {"write", "count"} => logAt'[Program] = logAt[Program]
    <3>1. t = Program => logAt[Program].at = "save"
      BY <1>u DEF LogIs
    <3>2. t # Program => logAt'[Program] = logAt[Program]
      BY <1>0, ResetSaveAt, Threads
    <3> QED
      BY ONLY <3>1, <3>2
  <2>3. \A l \in Levels : Uncounted(l)' = Uncounted(l)
    BY <2>1, <2>2 DEF Uncounted
  <2> QED
    BY ONLY <1>0, <1>u, <1>q, <2>3 DEF CountInv, Quiet, Settled
<1>6. ZeroInv'
  BY <1>0, <1>u, <1>q, Threads, CallNumbers, HandNumbers, FileNumbers, LevelNumbers, ResetSaveAt DEF ZeroInv, LogAtInv, LogIs, Logging, Zeroing
<1>7. LineInv'
  BY <1>0, <1>u, <1>q DEF LineInv, NewLines, Current
<1>8. UniqueInv'
  BY <1>0, <1>u, <1>q DEF UniqueInv, NewLines
<1>9. HandsInv'
  <2>1. /\ LogIs(Reader, "get_count")' => LogIs(Reader, "get_count") /\ logAt'[Reader].line = logAt[Reader].line
        /\ LogIs(Program, "write")' => LogIs(Program, "write") /\ logAt'[Program].line = logAt[Program].line
    BY <1>0, <1>u, ResetSaveAt, Threads DEF LogAtInv, LogIs
  <2> QED
    BY ONLY <1>0, <1>u, <1>q, <2>1 DEF HandsInv, Current
<1>10. MessageInv'
  <2>1. \A l, i : InFile(l, i)' <=> InFile(l, i)
    BY <1>u DEF InFile
  <2> QED
    BY <1>0, <1>u, <1>q, <2>1, Threads, ResetSaveAt DEF MessageInv, LogAtInv, LogIs
<1> QED
  BY <1>1, <1>2, <1>3, <1>4, <1>5, <1>6, <1>7, <1>8, <1>9, <1>10 DEF Bookkeeping

\* The start of the log changes nothing yet,
LEMMA InitializeLoggingBooks ==
    ASSUME LogInv, InitializeLogging, MaxCalls < Wrap
    PROVE  Bookkeeping'
<1> USE LogAssumption
<1>0. /\ LogTypeInv /\ LogAtInv /\ AgeInv /\ FreshInv /\ IndexInv /\ ReadsInv /\ CountInv
      /\ ZeroInv /\ LineInv /\ UniqueInv /\ HandsInv /\ MessageInv
  BY DEF LogInv, LogTypeInv, Bookkeeping
<1>u. /\ ~ready /\ LogIs(Program, "idle")
      /\ UNCHANGED <<messageIndexes, plc_logCounts, logFile, logState, calls, ready, logged, reads, overlapped, left>>
  BY <1>0, Threads DEF counters, files, history, LogAtInv, LogIs, InitializeLogging
<1>q. Quiet' => Quiet
  BY <1>0, <1>u, InitializeLoggingAt, Threads DEF Quiet, Settled, Zeroing, LogAtInv, LogIs
<1>1. AgeInv'
  BY <1>0, <1>u, <1>q, Threads, CallNumbers, HandNumbers, FileNumbers, LevelNumbers, InitializeLoggingAt DEF AgeInv, LogAtInv, LogIs, Logging
<1>2. FreshInv'
  BY <1>0, <1>u, <1>q, Threads, CallNumbers, HandNumbers, FileNumbers, LevelNumbers, InitializeLoggingAt DEF FreshInv, LogAtInv, LogIs, Logging
<1>3. IndexInv'
  BY <1>0, <1>u, <1>q, Threads, CallNumbers, HandNumbers, FileNumbers, LevelNumbers, InitializeLoggingAt DEF IndexInv, LogAtInv, LogIs, Logging, Settled
<1>4. ReadsInv'
  BY <1>0, <1>u, <1>q, Threads, CallNumbers, HandNumbers, FileNumbers, LevelNumbers, InitializeLoggingAt DEF ReadsInv, LogAtInv, LogIs
<1>5. CountInv'
  BY <1>0, <1>u, <1>q, Threads, CallNumbers, HandNumbers, FileNumbers, LevelNumbers, InitializeLoggingAt DEF CountInv, LogAtInv, LogIs, Uncounted, Logging
<1>6. ZeroInv'
  BY <1>0, <1>u, <1>q, Threads, CallNumbers, HandNumbers, FileNumbers, LevelNumbers, InitializeLoggingAt DEF ZeroInv, LogAtInv, LogIs, Logging, Zeroing
<1>7. LineInv'
  BY <1>0, <1>u, <1>q DEF LineInv, NewLines, Current
<1>8. UniqueInv'
  BY <1>0, <1>u, <1>q DEF UniqueInv, NewLines
<1>9. HandsInv'
  BY <1>0, <1>u, <1>q, Threads, CallNumbers, HandNumbers, FileNumbers, LevelNumbers, InitializeLoggingAt DEF HandsInv, LogAtInv, LogIs, Current
<1>10. MessageInv'
  BY <1>0, <1>u, <1>q, Threads, CallNumbers, HandNumbers, FileNumbers, LevelNumbers, InitializeLoggingAt DEF MessageInv, LogAtInv, LogIs, InFile
<1> QED
  BY <1>1, <1>2, <1>3, <1>4, <1>5, <1>6, <1>7, <1>8, <1>9, <1>10 DEF Bookkeeping

\* what it loads is reset before the log is used,
LEMMA LoadLogStateBooks ==
    ASSUME LogInv, LoadLogState, MaxCalls < Wrap
    PROVE  Bookkeeping'
<1> USE LogAssumption
<1>0. /\ LogTypeInv /\ LogAtInv /\ AgeInv /\ FreshInv /\ IndexInv /\ ReadsInv /\ CountInv
      /\ ZeroInv /\ LineInv /\ UniqueInv /\ HandsInv /\ MessageInv
  BY DEF LogInv, LogTypeInv, Bookkeeping
<1>u. /\ ~ready /\ LogIs(Program, "load")
      /\ UNCHANGED <<logFile, logState, calls, ready, logged, reads, overlapped, left>>
  BY <1>0, Threads DEF counters, files, history, LogAtInv, LogIs, LoadLogState
<1>q. ~Quiet'
  BY <1>0, <1>u, LoadLogStateAt DEF Quiet, Settled, LogIs
<1>1. AgeInv'
  BY <1>0, <1>u, <1>q, Threads, CallNumbers, HandNumbers, FileNumbers, LevelNumbers, LoadLogStateAt DEF AgeInv, LogAtInv, LogIs, Logging
<1>2. FreshInv'
  BY <1>0, <1>u, <1>q, Threads, CallNumbers, HandNumbers, FileNumbers, LevelNumbers, LoadLogStateAt DEF FreshInv, LogAtInv, LogIs, Logging
<1>3. IndexInv'
  BY <1>0, <1>u, <1>q, Threads, CallNumbers, HandNumbers, FileNumbers, LevelNumbers, LoadLogStateAt DEF IndexInv, LogAtInv, LogIs, Logging, Settled
<1>4. ReadsInv'
  BY <1>0, <1>u, <1>q, Threads, CallNumbers, HandNumbers, FileNumbers, LevelNumbers, LoadLogStateAt DEF ReadsInv, LogAtInv, LogIs
<1>5. CountInv'
  BY <1>0, <1>u, <1>q, Threads, CallNumbers, HandNumbers, FileNumbers, LevelNumbers, LoadLogStateAt DEF CountInv, LogAtInv, LogIs, Uncounted, Logging
<1>6. ZeroInv'
  BY <1>0, <1>u, <1>q, Threads, CallNumbers, HandNumbers, FileNumbers, LevelNumbers, LoadLogStateAt DEF ZeroInv, LogAtInv, LogIs, Logging, Zeroing
<1>7. LineInv'
  BY <1>0, <1>u, <1>q DEF LineInv, NewLines, Current
<1>8. UniqueInv'
  BY <1>0, <1>u, <1>q DEF UniqueInv, NewLines
<1>9. HandsInv'
  BY <1>0, <1>u, <1>q, Threads, CallNumbers, HandNumbers, FileNumbers, LevelNumbers, LoadLogStateAt DEF HandsInv, LogAtInv, LogIs, Current
<1>10. MessageInv'
  BY <1>0, <1>u, <1>q, Threads, CallNumbers, HandNumbers, FileNumbers, LevelNumbers, LoadLogStateAt DEF MessageInv, LogAtInv, LogIs, InFile
<1> QED
  BY <1>1, <1>2, <1>3, <1>4, <1>5, <1>6, <1>7, <1>8, <1>9, <1>10 DEF Bookkeeping

\* and then the log is as the last reset has left it.
LEMMA LogReadyBooks ==
    ASSUME LogInv, LogReady, MaxCalls < Wrap
    PROVE  Bookkeeping'
<1> USE LogAssumption
<1>0. /\ LogTypeInv /\ LogAtInv /\ AgeInv /\ FreshInv /\ IndexInv /\ ReadsInv /\ CountInv
      /\ ZeroInv /\ LineInv /\ UniqueInv /\ HandsInv /\ MessageInv
  BY DEF LogInv, LogTypeInv, Bookkeeping
<1>u. /\ LogIs(Program, "ready") /\ ready'
      /\ UNCHANGED <<messageIndexes, plc_logCounts, logFile, logState, calls, logged, reads, overlapped, left>>
  BY <1>0, Threads DEF counters, files, history, LogAtInv, LogIs, LogReady
<1>q. Quiet' => Quiet
  BY <1>0, <1>u, LogReadyAt, Threads DEF Quiet, Settled, Zeroing, LogAtInv, LogIs
<1>1. AgeInv'
  BY <1>0, <1>u, <1>q, Threads, CallNumbers, HandNumbers, FileNumbers, LevelNumbers, LogReadyAt DEF AgeInv, LogAtInv, LogIs, Logging
<1>2. FreshInv'
  BY <1>0, <1>u, <1>q, Threads, CallNumbers, HandNumbers, FileNumbers, LevelNumbers, LogReadyAt DEF FreshInv, LogAtInv, LogIs, Logging
<1>3. IndexInv'
  BY <1>0, <1>u, <1>q, Threads, CallNumbers, HandNumbers, FileNumbers, LevelNumbers, LogReadyAt DEF IndexInv, LogAtInv, LogIs, Logging, Settled
<1>4. ReadsInv'
  BY <1>0, <1>u, <1>q, Threads, CallNumbers, HandNumbers, FileNumbers, LevelNumbers, LogReadyAt DEF ReadsInv, LogAtInv, LogIs
<1>5. CountInv'
  BY <1>0, <1>u, <1>q, Threads, CallNumbers, HandNumbers, FileNumbers, LevelNumbers, LogReadyAt DEF CountInv, LogAtInv, LogIs, Uncounted, Logging
<1>6. ZeroInv'
  BY <1>0, <1>u, <1>q, Threads, CallNumbers, HandNumbers, FileNumbers, LevelNumbers, LogReadyAt DEF ZeroInv, LogAtInv, LogIs, Logging, Zeroing
<1>7. LineInv'
  BY <1>0, <1>u, <1>q DEF LineInv, NewLines, Current
<1>8. UniqueInv'
  BY <1>0, <1>u, <1>q DEF UniqueInv, NewLines
<1>9. HandsInv'
  BY <1>0, <1>u, <1>q, Threads, CallNumbers, HandNumbers, FileNumbers, LevelNumbers, LogReadyAt DEF HandsInv, LogAtInv, LogIs, Current
<1>10. MessageInv'
  BY <1>0, <1>u, <1>q, Threads, CallNumbers, HandNumbers, FileNumbers, LevelNumbers, LogReadyAt DEF MessageInv, LogAtInv, LogIs, InFile
<1> QED
  BY <1>1, <1>2, <1>3, <1>4, <1>5, <1>6, <1>7, <1>8, <1>9, <1>10 DEF Bookkeeping

-----------------------------------------------------------------------------
(* The log as a whole.                                                     *)

\* It begins empty,
LEMMA LogStarts ==
    ASSUME LogInit
    PROVE  LogInv
<1> USE LogAssumption, Threads DEF LogInit
<1>1. LogTypeOK
  <2>1. 0 \in 0 .. Wrap - 1 /\ 0 \in 0 .. MaxCalls
    OBVIOUS
  <2>2. Zero \in [Levels -> 0 .. Wrap - 1]
    BY <2>1 DEF Zero
  <2>3. \A t \in LogThreads : logAt[t].at = "idle"
    BY DEF LogIdle
  <2>4. \A l \in Levels : logged[l] \in Seq(0 .. MaxCalls)
    BY EmptySeq
  <2>5. left \in 0 .. Len(logFile)
    OBVIOUS
  <2> QED
    BY <2>1, <2>2, <2>3, <2>4, <2>5 DEF LogTypeOK
<1>2. LogTypes
  BY NoLineTyped, EmptySeq DEF LogTypes, Zero
<1>3. LogAtInv
  BY DEF LogAtInv, LogIdle, LogIs, Logging
<1>4. \A l \in Levels : Len(logged[l]) = 0 /\ DOMAIN logged[l] = {} /\ reads[l] = 0
  BY DEF Zero
<1>5. /\ DOMAIN logFile = {} /\ Len(logFile) = 0 /\ left = 0 /\ calls = 0 /\ ~Settled
      /\ \A t \in LogThreads : LogIs(t, "idle")
  BY DEF LogIdle, LogIs, Settled
<1>6. Bookkeeping
  BY <1>4, <1>5 DEF Bookkeeping, AgeInv, FreshInv, IndexInv, ReadsInv, CountInv, ZeroInv,
                    LineInv, UniqueInv, HandsInv, MessageInv, Quiet, LogIs, Logging, Zeroing
<1> QED
  BY <1>1, <1>2, <1>3, <1>6 DEF LogInv, LogTypeInv

\* every step of it keeps the invariant, as long as no counter can wrap,
LEMMA LogKept ==
    ASSUME LogInv, RteLogNext, MaxCalls < Wrap
    PROVE  LogInv'
<1>1. LogTypeInv'
  BY LogTypesKept DEF LogInv
<1>2. Bookkeeping'
  BY LogOpenBooks, LogIndexBooks, LogWriteBooks, LogCountBooks, GetReadBooks, GetCountBooks,
     ResetCallBooks, ResetUnlinkBooks, ResetZeroBooks, ResetSaveBooks,
     InitializeLoggingBooks, LoadLogStateBooks, LogReadyBooks
     DEF RteLogNext, LogStart, LogMessage, GetLogMessage, ResetLogCount
<1> QED
  BY <1>1, <1>2 DEF LogInv

\* and it is what LogFaithful says of a log that is ready.
LEMMA LogIsFaithful ==
    ASSUME LogInv
    PROVE  LogFaithful
<1>0. /\ LogTypeInv /\ LogAtInv /\ IndexInv /\ CountInv
      /\ ZeroInv /\ LineInv /\ UniqueInv /\ HandsInv /\ MessageInv
  BY DEF LogInv, LogTypeInv, Bookkeeping
<1> SUFFICES ASSUME ready, ~overlapped  PROVE LogFaithful
  BY DEF LogFaithful
<1>s. Settled
  BY DEF Settled
<1>1. CASE Zeroing
  <2>1. NewLines = {}
    BY <1>0, <1>1, FileNumbers DEF ZeroInv, NewLines
  <2>2. left = 0 /\ LogIs(Reader, "get_count") => logAt[Reader].line = NoLine
    BY <1>0, <1>1 DEF ZeroInv
  <2>3. ~ \A t \in LogThreads : LogIs(t, "idle")
    BY <1>1 DEF Zeroing, LogIs
  <2> QED
    BY <2>1, <2>2, <2>3 DEF LogFaithful, NewLines
<1>2. CASE ~Zeroing
  <2>q. Quiet
    BY <1>2, <1>s DEF Quiet
  <2>1. \A i \in NewLines : Current(logFile[i])
    BY <1>0, <2>q DEF LineInv
  <2>2. left = 0 /\ LogIs(Reader, "get_count") /\ logAt[Reader].line # NoLine => Current(logAt[Reader].line)
    BY <1>0, <2>q DEF HandsInv
  <2>3. ASSUME LogIs(Program, "idle"), NEW l \in Levels
        PROVE  /\ messageIndexes[l] = Len(logged[l])
               /\ plc_logCounts[l] = Mod(Len(logged[l]) - reads[l])
    <3>1. Uncounted(l) = 0
      BY <2>3 DEF Uncounted, LogIs
    <3>2. Len(logged[l]) \in Int /\ reads[l] \in Int
      BY <1>0, LevelNumbers
    <3>3. Len(logged[l]) - reads[l] - 0 = Len(logged[l]) - reads[l]
      BY <3>2
    <3> QED
      BY <1>0, <1>s, <2>q, <3>1, <3>3 DEF IndexInv, CountInv
  <2>4. ASSUME LogIs(Program, "idle"), NEW l \in Levels, NEW i \in DOMAIN logged[l], logged[l][i] # Lost
        PROVE  InFile(l, i) /\ (left = 0 => Find(l, i - 1).msg = logged[l][i])
    <3>1. InFile(l, i)
      BY <1>0, <2>4, <2>q DEF MessageInv, LogIs
    <3> SUFFICES ASSUME left = 0  PROVE Find(l, i - 1).msg = logged[l][i]
      BY <3>1
    <3>0. NewLines = DOMAIN logFile
      BY <1>0, FileNumbers DEF NewLines
    <3>2. PICK j \in DOMAIN logFile : logFile[j].level = l /\ logFile[j].id = i - 1 /\ logFile[j].msg = logged[l][i]
      BY <3>0, <3>1 DEF InFile, NewLines
    <3>3. logFile \in Seq(Line)
      BY <1>0 DEF LogTypeInv, LogTypes
    <3>4. PICK k \in DOMAIN logFile : Find(l, i - 1) = logFile[k] /\ logFile[k].level = l /\ logFile[k].id = i - 1
      BY <3>2, <3>3, FindLine
    <3>5. k = j
      BY <1>0, <2>q, <3>0, <3>2, <3>4 DEF UniqueInv
    <3> QED
      BY <3>2, <3>4, <3>5
  <2>5. \A i, j \in NewLines : logFile[i].level = logFile[j].level /\ logFile[i].id = logFile[j].id => i = j
    BY <1>0, <2>q DEF UniqueInv
  <2>6. (\A t \in LogThreads : LogIs(t, "idle")) => LogIs(Program, "idle")
    BY Threads
  <2> QED
    BY <2>1, <2>2, <2>3, <2>4, <2>5, <2>6 DEF LogFaithful, NewLines
<1> QED
  BY <1>1, <1>2
=============================================================================
