------------------------------ MODULE Boot_proofs ------------------------------
(***************************************************************************)
(* Proofs about Boot, and NetStart and RteLog in it, for every number of   *)
(* slices, set of levels and bound: the types, what the wait for the       *)
(* network reports, the settings that a boot finds, and that a number of   *)
(* the log names one message as long as the counters do not wrap.          *)
(***************************************************************************)
EXTENDS Boot, RteLog_proofs, TLAPS

-----------------------------------------------------------------------------
(* The inductive invariants.                                               *)

\* Before the wait nothing is counted, and it can only be heard too early.
EarlyInv ==
    /\ net.at \in {"check", "register", "sem_init"} => net.count = Slices
    /\ net.at \in {"off", "check", "register"} => told = "never" /\ ~registered
    /\ NetAt("sem_init") => told \in {"never", "early"}
    /\ NetAt("done") => ~registered

\* The wait: counter is zeroed exactly when the wait has heard of the interface,
WaitInv ==
    net.at \in {"wait", "pend"} =>
        /\ net.count >= 0
        /\ counter = 1 => told \in {"never", "early"}
        /\ counter = 0 => told \in {"in_time", "late"}
        /\ told = "in_time" => net.count > 0
        /\ told = "late" => net.count = 0

\* and when the wait is over count tells why.
SetupInv ==
    NetAt("setup") =>
        /\ net.count >= 0 => told \notin {"never", "early"}
        /\ net.count < 0 => told \in {"never", "early", "late"}

NetInv == NetTypeOK /\ EarlyInv /\ WaitInv /\ SetupInv /\ NetReport

\* The settings file, and what a boot has loaded of it; the autostart is never found.
SavedNames == {"mount_sd_card", "start_plc_at_boot"}
Saved == [SettingNames -> BOOLEAN \cup {NoValue}]

SettingsInv ==
    /\ ini # NoIni => ini \in Saved /\ ini["plc_autostart"] = NoValue
    /\ ini = NoIni \/ ini["mount_sd_card"] = NoValue => TRUE \in kept.mount_sd_card
    /\ ini # NoIni /\ ini["mount_sd_card"] # NoValue => ini["mount_sd_card"] \in kept.mount_sd_card
    /\ save \in [Savers -> Seq(SavedNames)]
    /\ boot # "loop" => asked = NoValue /\ plc_autostart = TRUE /\ \A t \in Savers : save[t] = <<>>
    /\ boot \in {"filesys", "files", "settings_init"} => mount_sd_card = TRUE
    /\ boot \in {"settings_load", "network"} /\ mounted => mount_sd_card \in kept.mount_sd_card
    /\ boot = "loop" /\ asked = NoValue => (plc_autostart <=> cause # "watchdog")
    /\ boot = "loop" /\ asked # NoValue => plc_autostart = asked

\* The types of the variables of Boot itself.
KeptValues == [{"mount_sd_card", "plc_autostart"} -> SUBSET BOOLEAN]

BootTypes ==
    /\ boot \in {"filesys", "files", "settings_init", "settings_load", "network", "cause", "loop"}
    /\ cause \in Causes
    /\ mounted \in BOOLEAN /\ mount_sd_card \in BOOLEAN /\ plc_autostart \in BOOLEAN
    /\ autostart \in {"none", "start", "skip"}
    /\ resets \in 0 .. MaxResets /\ kept \in KeptValues /\ asked \in BOOLEAN \cup {NoValue}

MainInv == BootTypes /\ SettingsInv
BootInv == NetInv /\ LogTypeInv /\ MainInv

-----------------------------------------------------------------------------
(* The network.                                                            *)

\* What the variable net can hold.
NetStates ==
    [at : {"off", "check", "register", "sem_init", "wait", "pend", "setup", "done"},
     count : -1 .. Slices, ret : {"none", "ok", "ENOENT", "ENETDOWN"}]

\* A boot starts with the invariant, whether or not the interface is up,
LEMMA NetStarts ==
    ASSUME NetInit
    PROVE  NetInv
<1> USE SlicesAssumption DEF NetInit, NetAt
<1>1. net \in NetStates
  BY DEF NetStates
<1>2. NetTypeOK
  BY <1>1 DEF NetTypeOK, NetStates
<1>3. EarlyInv /\ WaitInv /\ SetupInv /\ NetReport
  BY DEF EarlyInv, WaitInv, SetupInv, NetReport
<1> QED
  BY <1>2, <1>3 DEF NetInv

\* as does every later one,
LEMMA NetRestarts ==
    ASSUME NEW link \in BOOLEAN, NetRestart(link)
    PROVE  NetInv'
<1> USE SlicesAssumption DEF NetRestart, NetAt
<1>1. net' \in NetStates
  BY DEF NetStates
<1>2. NetTypeOK'
  BY <1>1 DEF NetTypeOK, NetStates
<1>3. EarlyInv' /\ WaitInv' /\ SetupInv' /\ NetReport'
  BY DEF EarlyInv, WaitInv, SetupInv, NetReport
<1> QED
  BY <1>2, <1>3 DEF NetInv

\* a step of initialize_network preserves it,
LEMMA NetWaits ==
    ASSUME NetInv, InitializeNetwork
    PROVE  NetInv'
<1> USE SlicesAssumption DEF NetAt, NetGoto
<1>0. NetTypeOK /\ EarlyInv /\ WaitInv /\ SetupInv /\ NetReport /\ net \in NetStates
  BY DEF NetInv, NetTypeOK, NetStates
<1>t. net.count \in Int /\ counter \in {0, 1}
  <2>1. net.count \in Int
    BY <1>0 DEF NetStates
  <2>2. counter \in {0, 1}
    BY <1>0 DEF NetTypeOK
  <2> QED
    BY <2>1, <2>2
<1>00. Slices \in -1 .. Slices /\ \A n \in 0 .. Slices : n - 1 \in -1 .. Slices
  OBVIOUS
<1>1. CASE NetBegin
  <2>1. net' \in NetStates
    BY <1>0, <1>t, <1>00, <1>1 DEF NetBegin, EarlyInv, WaitInv, NetStates
  <2>2. NetTypeOK'
    BY <2>1, <1>0, <1>t, <1>1 DEF NetBegin, NetTypeOK, NetStates
  <2>3. WaitInv'
    BY <2>1, <1>0, <1>t, <1>1 DEF NetBegin, EarlyInv, WaitInv, NetTypeOK, NetStates
  <2>4. SetupInv'
    BY <2>1, <1>0, <1>t, <1>1 DEF NetBegin, EarlyInv, SetupInv, WaitInv, NetTypeOK, NetStates
  <2>5. EarlyInv' /\ NetReport'
    BY <2>1, <1>0, <1>t, <1>1 DEF NetBegin, EarlyInv, NetReport, SetupInv, NetTypeOK, NetStates
  <2> QED
    BY <2>2, <2>3, <2>4, <2>5 DEF NetInv
<1>2. CASE CheckInterface
  <2>1. net' \in NetStates
    BY <1>0, <1>t, <1>00, <1>2 DEF CheckInterface, EarlyInv, WaitInv, NetStates
  <2>2. NetTypeOK'
    BY <2>1, <1>0, <1>t, <1>2 DEF CheckInterface, NetTypeOK, NetStates
  <2>3. WaitInv'
    BY <2>1, <1>0, <1>t, <1>2 DEF CheckInterface, EarlyInv, WaitInv, NetTypeOK, NetStates
  <2>4. SetupInv'
    BY <2>1, <1>0, <1>t, <1>2 DEF CheckInterface, EarlyInv, SetupInv, WaitInv, NetTypeOK, NetStates
  <2>5. EarlyInv' /\ NetReport'
    BY <2>1, <1>0, <1>t, <1>2 DEF CheckInterface, EarlyInv, NetReport, SetupInv, NetTypeOK, NetStates
  <2> QED
    BY <2>2, <2>3, <2>4, <2>5 DEF NetInv
<1>3. CASE Register
  <2>1. net' \in NetStates
    BY <1>0, <1>t, <1>00, <1>3 DEF Register, EarlyInv, WaitInv, NetStates
  <2>2. NetTypeOK'
    BY <2>1, <1>0, <1>t, <1>3 DEF Register, NetTypeOK, NetStates
  <2>3. WaitInv'
    BY <2>1, <1>0, <1>t, <1>3 DEF Register, EarlyInv, WaitInv, NetTypeOK, NetStates
  <2>4. SetupInv'
    BY <2>1, <1>0, <1>t, <1>3 DEF Register, EarlyInv, SetupInv, WaitInv, NetTypeOK, NetStates
  <2>5. EarlyInv' /\ NetReport'
    BY <2>1, <1>0, <1>t, <1>3 DEF Register, EarlyInv, NetReport, SetupInv, NetTypeOK, NetStates
  <2> QED
    BY <2>2, <2>3, <2>4, <2>5 DEF NetInv
<1>4. CASE SemInit
  <2>1. net' \in NetStates
    BY <1>0, <1>t, <1>00, <1>4 DEF SemInit, EarlyInv, WaitInv, NetStates
  <2>2. NetTypeOK'
    BY <2>1, <1>0, <1>t, <1>4 DEF SemInit, NetTypeOK, NetStates
  <2>3. WaitInv'
    <3>1. told' \in {"never", "early"} /\ net.count = Slices
      BY <1>0, <1>4 DEF SemInit, EarlyInv
    <3>2. counter' = 1 /\ net'.count = Slices
      BY <1>0, <1>4, <3>1 DEF SemInit, NetStates
    <3> QED
      BY <3>1, <3>2 DEF WaitInv
  <2>4. SetupInv'
    BY <2>1, <1>0, <1>t, <1>4 DEF SemInit, EarlyInv, SetupInv, WaitInv, NetTypeOK, NetStates
  <2>5. EarlyInv' /\ NetReport'
    BY <2>1, <1>0, <1>t, <1>4 DEF SemInit, EarlyInv, NetReport, SetupInv, NetTypeOK, NetStates
  <2> QED
    BY <2>2, <2>3, <2>4, <2>5 DEF NetInv
<1>5. CASE WaitLoop
  <2>0. /\ net.at = "wait" /\ net.count >= 0
        /\ counter = 1 => told \in {"never", "early"}
        /\ counter = 0 => told \in {"in_time", "late"}
        /\ told = "in_time" => net.count > 0
        /\ told = "late" => net.count = 0
    BY <1>0, <1>5 DEF WaitLoop, WaitInv
  <2>1. /\ net'.count = net.count - 1 /\ net'.ret = net.ret
        /\ net'.at = IF net.count = 0 \/ counter = 0 THEN "setup" ELSE IF waiter = 1 THEN "wait" ELSE "pend"
        /\ UNCHANGED <<up, event, registered, counter, services, told>>
        /\ waiter' \in {0, waiter}
    BY <1>0, <1>5 DEF WaitLoop, NetStates
  <2>2. net.count \in 0 .. Slices /\ net'.count \in -1 .. Slices /\ net'.count \in Int
    BY <1>0, <1>t, <2>0, <2>1 DEF NetStates
  <2>3. net' \in NetStates
    <3>1. net' = [at |-> net'.at, count |-> net'.count, ret |-> net.ret]
      BY <1>0, <1>5 DEF WaitLoop, NetStates
    <3>2. net'.at \in {"setup", "wait", "pend"} /\ net.ret \in {"none", "ok", "ENOENT", "ENETDOWN"}
      BY <1>0, <2>1 DEF NetStates
    <3> QED
      BY <3>1, <3>2, <2>2 DEF NetStates
  <2>4. NetTypeOK'
    BY <2>1, <2>3, <1>0 DEF NetTypeOK, NetStates
  <2>5. WaitInv'
    <3> SUFFICES ASSUME net'.at \in {"wait", "pend"}  PROVE WaitInv'
      BY DEF WaitInv
    <3>1. net.count > 0 /\ counter = 1
      BY <1>t, <2>0, <2>1
    <3>2. net'.count >= 0 /\ counter' = 1 /\ told' \in {"never", "early"}
      BY <1>t, <2>0, <2>1, <2>2, <3>1
    <3> QED
      BY <3>2 DEF WaitInv
  <2>6. SetupInv'
    <3>1. CASE counter = 0
      BY <3>1, <1>t, <2>0, <2>1, <2>2 DEF SetupInv
    <3>2. CASE counter = 1 /\ net'.at = "setup"
      <4>1. net'.count < 0 /\ ~(net'.count >= 0) /\ told' \in {"never", "early"}
        BY <3>2, <1>t, <2>0, <2>1, <2>2
      <4> QED
        BY <4>1 DEF SetupInv
    <3> QED
      BY <3>1, <3>2, <1>t DEF SetupInv
  <2>7. EarlyInv' /\ NetReport'
    BY <2>1, <1>0 DEF EarlyInv, NetReport
  <2> QED
    BY <2>4, <2>5, <2>6, <2>7 DEF NetInv
<1>6. CASE SliceOver
  <2>1. net' \in NetStates
    BY <1>0, <1>t, <1>00, <1>6 DEF SliceOver, EarlyInv, WaitInv, NetStates
  <2>2. NetTypeOK'
    BY <2>1, <1>0, <1>t, <1>6 DEF SliceOver, NetTypeOK, NetStates
  <2>3. WaitInv'
    BY <2>1, <1>0, <1>t, <1>6 DEF SliceOver, EarlyInv, WaitInv, NetTypeOK, NetStates
  <2>4. SetupInv'
    <3>1. /\ counter = 0 => told \in {"in_time", "late"}
          /\ net.count >= 0
      BY <1>0, <1>6 DEF SliceOver, WaitInv
    <3>2. /\ net'.count = net.count /\ UNCHANGED <<up, told>>
          /\ net'.at = "setup" => counter = 0
      BY <1>0, <1>6 DEF SliceOver, NetStates
    <3> QED
      BY <3>1, <3>2, <1>t DEF SetupInv
  <2>5. EarlyInv' /\ NetReport'
    BY <2>1, <1>0, <1>t, <1>6 DEF SliceOver, EarlyInv, NetReport, SetupInv, NetTypeOK, NetStates
  <2> QED
    BY <2>2, <2>3, <2>4, <2>5 DEF NetInv
<1>7. CASE Setup
  <2>1. net' \in NetStates
    BY <1>0, <1>t, <1>00, <1>7 DEF Setup, EarlyInv, WaitInv, NetStates
  <2>2. NetTypeOK'
    BY <2>1, <1>0, <1>t, <1>7 DEF Setup, NetTypeOK, NetStates
  <2>3. WaitInv'
    BY <2>1, <1>0, <1>t, <1>7 DEF Setup, EarlyInv, WaitInv, NetTypeOK, NetStates
  <2>4. SetupInv'
    BY <2>1, <1>0, <1>t, <1>7 DEF Setup, EarlyInv, SetupInv, WaitInv, NetTypeOK, NetStates
  <2>5. EarlyInv' /\ NetReport'
    <3>1. /\ net.count >= 0 => told \notin {"never", "early"}
          /\ net.count < 0 => told \in {"never", "early", "late"}
      BY <1>0, <1>7 DEF Setup, SetupInv
    <3>2. /\ net'.at = "done" /\ net'.ret = IF net.count < 0 THEN "ENETDOWN" ELSE "ok"
          /\ UNCHANGED <<up, event, told>> /\ ~registered' /\ services'
      BY <1>0, <1>7 DEF Setup, NetStates, NetTypeOK
    <3>3. NetReport'
      BY <3>1, <3>2, <1>t DEF NetReport
    <3> QED
      BY <3>2, <3>3, <1>0 DEF EarlyInv
  <2> QED
    BY <2>2, <2>3, <2>4, <2>5 DEF NetInv
<1> QED
  BY <1>1, <1>2, <1>3, <1>4, <1>5, <1>6, <1>7 DEF InitializeNetwork

\* and so does what the link and the handler of its event do in between.
LEMMA NetHears ==
    ASSUME NetInv, NetMgmt
    PROVE  NetInv'
<1> USE SlicesAssumption DEF NetAt, NetGoto
<1>0. NetTypeOK /\ EarlyInv /\ WaitInv /\ SetupInv /\ NetReport /\ net \in NetStates
  BY DEF NetInv, NetTypeOK, NetStates
<1>t. net.count \in Int /\ counter \in {0, 1}
  <2>1. net.count \in Int
    BY <1>0 DEF NetStates
  <2>2. counter \in {0, 1}
    BY <1>0 DEF NetTypeOK
  <2> QED
    BY <2>1, <2>2
<1>00. Slices \in -1 .. Slices /\ \A n \in 0 .. Slices : n - 1 \in -1 .. Slices
  OBVIOUS
<1>1. CASE LinkUp
  <2>1. net' \in NetStates
    BY <1>0, <1>t, <1>00, <1>1 DEF LinkUp, EarlyInv, WaitInv, NetStates
  <2>2. NetTypeOK'
    BY <2>1, <1>0, <1>t, <1>1 DEF LinkUp, NetTypeOK, NetStates
  <2>3. WaitInv'
    BY <2>1, <1>0, <1>t, <1>1 DEF LinkUp, EarlyInv, WaitInv, NetTypeOK, NetStates
  <2>4. SetupInv'
    BY <2>1, <1>0, <1>t, <1>1 DEF LinkUp, EarlyInv, SetupInv, WaitInv, NetTypeOK, NetStates
  <2>5. EarlyInv' /\ NetReport'
    BY <2>1, <1>0, <1>t, <1>1 DEF LinkUp, EarlyInv, NetReport, SetupInv, NetTypeOK, NetStates
  <2> QED
    BY <2>2, <2>3, <2>4, <2>5 DEF NetInv
<1>2. CASE HandlerReset
  <2>1. net' \in NetStates
    BY <1>0, <1>t, <1>00, <1>2 DEF HandlerReset, When, EarlyInv, WaitInv, NetStates
  <2>2. NetTypeOK'
    BY <2>1, <1>0, <1>t, <1>2 DEF HandlerReset, When, NetTypeOK, NetStates
  <2>3. WaitInv'
    <3> SUFFICES ASSUME net.at \in {"wait", "pend"}, registered  PROVE WaitInv'
      BY <1>0, <1>2 DEF HandlerReset, WaitInv
    <3>1. /\ counter' = 0 /\ UNCHANGED net
          /\ told' = IF told \in {"never", "early"} THEN (IF net.count > 0 THEN "in_time" ELSE "late") ELSE told
      BY <1>0, <1>2 DEF HandlerReset, When
    <3>2. told \in {"never", "early", "in_time", "late"}
      BY <1>0, <1>t DEF WaitInv
    <3> QED
      BY <3>1, <3>2, <1>0, <1>t DEF WaitInv
  <2>4. SetupInv'
    BY <2>1, <1>0, <1>t, <1>2 DEF HandlerReset, When, EarlyInv, SetupInv, WaitInv, NetTypeOK, NetStates
  <2>5. EarlyInv' /\ NetReport'
    BY <2>1, <1>0, <1>t, <1>2 DEF HandlerReset, When, EarlyInv, NetReport, SetupInv, NetTypeOK, NetStates
  <2> QED
    BY <2>2, <2>3, <2>4, <2>5 DEF NetInv
<1>3. CASE HandlerGive
  <2>1. net' \in NetStates
    BY <1>0, <1>t, <1>00, <1>3 DEF HandlerGive, EarlyInv, WaitInv, NetStates
  <2>2. NetTypeOK'
    BY <2>1, <1>0, <1>t, <1>3 DEF HandlerGive, NetTypeOK, NetStates
  <2>3. WaitInv'
    BY <2>1, <1>0, <1>t, <1>3 DEF HandlerGive, EarlyInv, WaitInv, NetTypeOK, NetStates
  <2>4. SetupInv'
    BY <2>1, <1>0, <1>t, <1>3 DEF HandlerGive, EarlyInv, SetupInv, WaitInv, NetTypeOK, NetStates
  <2>5. EarlyInv' /\ NetReport'
    BY <2>1, <1>0, <1>t, <1>3 DEF HandlerGive, EarlyInv, NetReport, SetupInv, NetTypeOK, NetStates
  <2> QED
    BY <2>2, <2>3, <2>4, <2>5 DEF NetInv
<1>4. CASE LinkDown
  <2>1. net' \in NetStates
    BY <1>0, <1>t, <1>00, <1>4 DEF LinkDown, EarlyInv, WaitInv, NetStates
  <2>2. NetTypeOK'
    BY <2>1, <1>0, <1>t, <1>4 DEF LinkDown, NetTypeOK, NetStates
  <2>3. WaitInv'
    BY <2>1, <1>0, <1>t, <1>4 DEF LinkDown, EarlyInv, WaitInv, NetTypeOK, NetStates
  <2>4. SetupInv'
    BY <2>1, <1>0, <1>t, <1>4 DEF LinkDown, EarlyInv, SetupInv, WaitInv, NetTypeOK, NetStates
  <2>5. EarlyInv' /\ NetReport'
    BY <2>1, <1>0, <1>t, <1>4 DEF LinkDown, EarlyInv, NetReport, SetupInv, NetTypeOK, NetStates
  <2> QED
    BY <2>2, <2>3, <2>4, <2>5 DEF NetInv
<1> QED
  BY <1>1, <1>2, <1>3, <1>4 DEF NetMgmt

-----------------------------------------------------------------------------
(* The settings.                                                           *)

\* What settings_export writes are the names that are found again,
LEMMA ExportedNames ==
    Exported \in Seq(SavedNames) /\ Exported \o Exported \in Seq(SavedNames)
<1>1. Exported \in Seq(SavedNames)
  BY DEF Exported, SavedNames
<1> QED
  BY <1>1, ConcatProperties

\* and saving is over when nothing is left to save.
LEMMA SaversIdle ==
    [t \in Savers |-> <<>>] \in [Savers -> Seq(SavedNames)]
BY EmptySeq

\* What the saving of a value adds to the values that may be found,
LEMMA MayFindMore ==
    ASSUME kept \in KeptValues, NEW name \in {"mount_sd_card", "plc_autostart"}, NEW v \in BOOLEAN,
           MayFind(name, v)
    PROVE  /\ kept' \in KeptValues /\ kept.mount_sd_card \subseteq kept'.mount_sd_card
           /\ name # "mount_sd_card" => kept'.mount_sd_card = kept.mount_sd_card
BY DEF MayFind, KeptValues

\* and what is left of them when it is saved.
LEMMA KeptAlone ==
    ASSUME kept \in KeptValues, NEW val \in BOOLEAN
    PROVE  /\ [kept EXCEPT !.mount_sd_card = {val}] \in KeptValues
           /\ [kept EXCEPT !.mount_sd_card = {val}].mount_sd_card = {val}
           /\ [kept EXCEPT !.plc_autostart = {val}] \in KeptValues
           /\ [kept EXCEPT !.plc_autostart = {val}].mount_sd_card = kept.mount_sd_card
BY DEF KeptValues

\* No step of the start, of main or of plc_loader breaks the invariant,
LEMMA MainRuns ==
    ASSUME MainInv, PreAppSetup \/ ResetCause \/ LoaderDecides
    PROVE  MainInv'
<1> USE BootAssumption DEF MainInv, settings
<1>1. CASE InitFilesys
  <2>1. BootTypes'
    BY <1>1 DEF InitFilesys, BootGoto, BootTypes
  <2>2. SettingsInv'
    BY <1>1 DEF InitFilesys, BootGoto, SettingsInv
  <2> QED
    BY <2>1, <2>2
<1>2. CASE CheckFiles
  <2>1. BootTypes'
    BY <1>2 DEF CheckFiles, BootGoto, BootTypes
  <2>2. Empty \in Saved /\ Empty["plc_autostart"] = NoValue /\ Empty["mount_sd_card"] = NoValue
    BY DEF Empty, Saved, SettingNames
  <2>3. (ini' = Empty /\ ini = NoIni) \/ ini' = ini
    BY <1>2 DEF CheckFiles
  <2>4. SettingsInv'
    BY <1>2, <2>2, <2>3 DEF CheckFiles, BootGoto, SettingsInv
  <2> QED
    BY <2>1, <2>4
<1>3. CASE LoadSettings
  <2>1. /\ \/ mount_sd_card' = mount_sd_card
           \/ mounted /\ ini # NoIni /\ ini["mount_sd_card"] # NoValue /\ mount_sd_card' = ini["mount_sd_card"]
        /\ mounted /\ ini # NoIni /\ ini["mount_sd_card"] # NoValue => mount_sd_card' = ini["mount_sd_card"]
        /\ plc_autostart' = plc_autostart
    BY <1>3 DEF LoadSettings, SettingsLoad, SettingsInv
  <2>2. ini # NoIni => ini["mount_sd_card"] \in BOOLEAN \cup {NoValue}
    BY DEF SettingsInv, Saved, SettingNames
  <2>3. /\ \/ boot = "settings_init" /\ boot' = "settings_load"
           \/ boot = "settings_load" /\ boot' = "network"
        /\ UNCHANGED <<cause, mounted, ini, save, autostart, resets, kept, asked>>
    BY <1>3 DEF LoadSettings, BootGoto
  <2>4. BootTypes'
    BY <2>1, <2>2, <2>3 DEF BootTypes
  <2>5. SettingsInv'
    BY <2>1, <2>3 DEF SettingsInv
  <2> QED
    BY <2>4, <2>5
<1>4. CASE ResetCause
  <2>0. kept' \in KeptValues /\ kept'.mount_sd_card = kept.mount_sd_card
    BY <1>4, MayFindMore DEF ResetCause, BootTypes
  <2>1. BootTypes'
    BY <1>4, <2>0 DEF ResetCause, BootGoto, BootTypes
  <2>2. save' \in [Savers -> Seq(SavedNames)]
    BY <1>4, ExportedNames DEF ResetCause, SettingsInv
  <2>3. /\ boot = "cause" /\ boot' = "loop" /\ asked = NoValue
        /\ plc_autostart' <=> cause # "watchdog"
        /\ UNCHANGED <<cause, mounted, mount_sd_card, ini, asked>>
    BY <1>4 DEF ResetCause, BootGoto, SettingsInv
  <2>4. SettingsInv'
    BY <2>0, <2>2, <2>3 DEF SettingsInv
  <2> QED
    BY <2>1, <2>4
<1>5. CASE LoaderDecides
  <2>1. BootTypes'
    BY <1>5 DEF LoaderDecides, BootTypes
  <2>2. SettingsInv'
    BY <1>5 DEF LoaderDecides, SettingsInv
  <2> QED
    BY <2>1, <2>2
<1> QED
  BY <1>1, <1>2, <1>3, <1>4, <1>5 DEF PreAppSetup

\* nor does a value that is written to the file,
LEMMA SettingsSave ==
    ASSUME MainInv, NEW t \in Savers, SettingsExport(t)
    PROVE  MainInv'
<1> USE BootAssumption DEF MainInv, settings
<1>1. save[t] \in Seq(SavedNames) /\ save[t] # <<>> /\ boot = "loop"
  BY DEF SettingsExport, SettingsInv
<1>2. PICK name \in SavedNames : name = Head(save[t])
  BY <1>1, HeadTailProperties
<1>3. save' \in [Savers -> Seq(SavedNames)]
  <2>1. Tail(save[t]) \in Seq(SavedNames)
    BY <1>1, HeadTailProperties
  <2> QED
    BY <2>1 DEF SettingsExport, SettingsInv
<1>4. PICK val \in BOOLEAN :
        /\ IF mounted THEN /\ ini' = [(IF ini = NoIni THEN Empty ELSE ini) EXCEPT ![name] = val]
                           /\ kept'.mount_sd_card = IF name = "mount_sd_card" THEN {val} ELSE kept.mount_sd_card
           ELSE UNCHANGED <<ini, kept>>
        /\ kept' \in KeptValues
        /\ UNCHANGED <<boot, cause, mounted, mount_sd_card, plc_autostart, autostart, resets, asked>>
  <2>1. PICK val \in BOOLEAN :
          /\ IF mounted THEN /\ ini' = [(IF ini = NoIni THEN Empty ELSE ini) EXCEPT ![name] = val]
                             /\ kept' = IF name = "mount_sd_card" THEN [kept EXCEPT !.mount_sd_card = {val}]
                                        ELSE [kept EXCEPT !.plc_autostart = {val}]
             ELSE UNCHANGED <<ini, kept>>
          /\ UNCHANGED <<boot, cause, mounted, mount_sd_card, plc_autostart, autostart, resets, asked>>
    BY <1>2 DEF SettingsExport, BootTypes
  <2>2. kept \in KeptValues
    BY DEF BootTypes
  <2> QED
    BY <2>1, <2>2, KeptAlone
<1>5. BootTypes'
  BY <1>4 DEF BootTypes
<1>s. /\ boot' = "loop" /\ asked' = NoValue => (plc_autostart' <=> cause' # "watchdog")
      /\ boot' = "loop" /\ asked' # NoValue => plc_autostart' = asked'
  BY <1>4 DEF SettingsInv
<1>6. CASE ~mounted
  <2>1. /\ ini' # NoIni => ini' \in Saved /\ ini'["plc_autostart"] = NoValue
        /\ ini' = NoIni \/ ini'["mount_sd_card"] = NoValue => TRUE \in kept'.mount_sd_card
        /\ ini' # NoIni /\ ini'["mount_sd_card"] # NoValue => ini'["mount_sd_card"] \in kept'.mount_sd_card
    <3>1. ini' = ini /\ kept' = kept
      BY <1>4, <1>6
    <3> QED
      BY <3>1 DEF SettingsInv
  <2>2. boot' = "loop"
    BY <1>1, <1>4
  <2> QED
    BY <1>3, <1>5, <1>s, <2>1, <2>2 DEF SettingsInv
<1>7. CASE mounted
  <2>1. PICK old \in Saved :
          /\ ini' = [old EXCEPT ![name] = val] /\ old["plc_autostart"] = NoValue
          /\ old["mount_sd_card"] = NoValue => TRUE \in kept.mount_sd_card
          /\ old["mount_sd_card"] # NoValue => old["mount_sd_card"] \in kept.mount_sd_card
    <3>1. Empty \in Saved /\ Empty["plc_autostart"] = NoValue /\ Empty["mount_sd_card"] = NoValue
      BY DEF Empty, Saved, SettingNames
    <3>2. CASE ini = NoIni
      BY <1>4, <1>7, <3>1, <3>2 DEF SettingsInv
    <3>3. CASE ini # NoIni
      BY <1>4, <1>7, <3>3 DEF SettingsInv
    <3> QED
      BY <3>2, <3>3
  <2>2. /\ ini' \in Saved /\ ini'[name] = val
        /\ \A n \in SettingNames \ {name} : ini'[n] = old[n]
    BY <1>2, <2>1 DEF Saved, SavedNames, SettingNames
  <2>3. ini' # NoIni
    <3>1. DOMAIN ini' = SettingNames /\ DOMAIN NoIni = {}
      BY <2>2 DEF Saved, NoIni
    <3> QED
      BY <3>1 DEF SettingNames
  <2>4. ini'["plc_autostart"] = NoValue
    BY <1>2, <2>1, <2>2 DEF SavedNames, SettingNames
  <2>b. boot' = "loop"
    BY <1>1, <1>4
  <2>5. CASE name = "mount_sd_card"
    <3>1. ini'["mount_sd_card"] = val /\ kept'.mount_sd_card = {val} /\ val # NoValue
      BY <1>4, <1>7, <2>2, <2>5
    <3> QED
      BY <1>3, <1>5, <1>s, <2>b, <2>2, <2>3, <2>4, <3>1 DEF SettingsInv
  <2>6. CASE name # "mount_sd_card"
    <3>1. ini'["mount_sd_card"] = old["mount_sd_card"] /\ kept'.mount_sd_card = kept.mount_sd_card
      BY <1>4, <1>7, <2>2, <2>6 DEF SettingNames
    <3>2. /\ old["mount_sd_card"] = NoValue => TRUE \in kept.mount_sd_card
          /\ old["mount_sd_card"] # NoValue => old["mount_sd_card"] \in kept.mount_sd_card
      BY <2>1
    <3> QED
      BY <1>3, <1>5, <1>s, <2>b, <2>2, <2>3, <2>4, <3>1, <3>2 DEF SettingsInv
  <2> QED
    BY <2>5, <2>6
<1> QED
  BY <1>6, <1>7

\* or what the shell says.
LEMMA ShellSets ==
    ASSUME MainInv, NEW v \in BOOLEAN, ShellSet(v)
    PROVE  MainInv'
<1> USE BootAssumption DEF MainInv, settings
<1>0. kept \in KeptValues
  BY DEF BootTypes
<1>k. kept' \in KeptValues /\ kept.mount_sd_card \subseteq kept'.mount_sd_card
      /\ (mount_sd_card' = v \/ mount_sd_card' = mount_sd_card)
  <2>1. \/ MayFind("mount_sd_card", v) /\ mount_sd_card' = v
        \/ MayFind("plc_autostart", v) /\ mount_sd_card' = mount_sd_card
    BY DEF ShellSet
  <2> QED
    BY <1>0, <2>1, MayFindMore
<1>1. BootTypes'
  BY <1>k DEF ShellSet, BootTypes
<1>2. save' \in [Savers -> Seq(SavedNames)]
  BY ExportedNames DEF ShellSet, SettingsInv
<1>3. /\ boot = "loop" /\ boot' = "loop" /\ kept.mount_sd_card \subseteq kept'.mount_sd_card /\ UNCHANGED <<ini, cause, mounted>>
      /\ \/ plc_autostart' = plc_autostart /\ asked' = asked
         \/ plc_autostart' = v /\ asked' = v /\ v # NoValue
  BY <1>k DEF ShellSet, BootAt
<1>4. SettingsInv'
  <2>1. /\ boot' = "loop" /\ asked' = NoValue => (plc_autostart' <=> cause' # "watchdog")
        /\ boot' = "loop" /\ asked' # NoValue => plc_autostart' = asked'
    BY <1>3 DEF SettingsInv
  <2>2. /\ ini' # NoIni => ini' \in Saved /\ ini'["plc_autostart"] = NoValue
        /\ ini' = NoIni \/ ini'["mount_sd_card"] = NoValue => TRUE \in kept'.mount_sd_card
        /\ ini' # NoIni /\ ini'["mount_sd_card"] # NoValue => ini'["mount_sd_card"] \in kept'.mount_sd_card
    BY <1>3 DEF SettingsInv
  <2> QED
    BY <1>2, <1>3, <2>1, <2>2 DEF SettingsInv
<1> QED
  BY <1>1, <1>4

-----------------------------------------------------------------------------
(* The log in Boot: a reset, and the calls of the shell.                   *)

\* The first step after a reset finds a log without counters; its files are as they were.
LEMMA LogRestarts ==
    ASSUME LogTypeInv, NEW why \in Causes, Reset(why)
    PROVE  LogTypeInv' /\ (Bookkeeping => Bookkeeping')
<1> USE LogAssumption, Threads DEF files
<1>0. LogTypeOK /\ LogTypes
  BY DEF LogTypeInv
<1>u. /\ messageIndexes' = Zero /\ plc_logCounts' = Zero /\ logAt' = [t \in LogThreads |-> LogIdle]
      /\ ready' = FALSE /\ overlapped' = FALSE /\ logged' = [l \in Levels |-> <<>>] /\ reads' = Zero
      /\ logFile' = logFile /\ logState' = logState /\ calls' = calls /\ left' = 0
  BY DEF Reset
<1>1. LogTypeOK'
  <2>1. Zero \in [Levels -> 0 .. Wrap - 1]
    BY DEF Zero
  <2>2. \A t \in LogThreads : logAt'[t].at = "idle"
    BY <1>u DEF LogIdle
  <2>3. \A l \in Levels : logged'[l] \in Seq(0 .. MaxCalls)
    BY <1>u, EmptySeq
  <2>4. left' \in 0 .. Len(logFile')
    BY <1>0, <1>u, LenProperties DEF LogTypes
  <2> QED
    BY <1>0, <1>u, <2>1, <2>2, <2>3, <2>4 DEF LogTypeOK
<1>2. LogTypes'
  BY <1>0, <1>u, NoLineTyped DEF LogTypes, Zero
<1>3. LogAtInv'
  BY <1>u DEF LogAtInv, LogIdle, LogIs, Logging
<1>4. \A l \in Levels : Len(logged'[l]) = 0 /\ DOMAIN logged'[l] = {} /\ reads'[l] = 0
  BY <1>u DEF Zero
<1>5. ~Settled' /\ \A t \in LogThreads : logAt'[t].at = "idle" /\ ~LogIs(t, "zero")'
  BY <1>u DEF LogIdle, LogIs, Settled
<1>6. calls \in Int /\ calls >= 0
  BY <1>0 DEF LogTypeOK
<1>7. ASSUME Bookkeeping  PROVE Bookkeeping'
  <2>1. \A i \in DOMAIN logFile : logFile[i].msg <= calls
    BY <1>7 DEF Bookkeeping, AgeInv
  <2> QED
    BY <1>u, <1>4, <1>5, <1>6, <2>1 DEF Bookkeeping, AgeInv, FreshInv, IndexInv, ReadsInv, CountInv, ZeroInv,
           LineInv, UniqueInv, HandsInv, MessageInv, Quiet, LogIs, Logging, Zeroing
<1> QED
  BY <1>1, <1>2, <1>3, <1>7 DEF LogTypeInv

\* A command of the shell only makes the messages older.
LEMMA LogUnderShell ==
    ASSUME LogTypeInv, NEW v \in BOOLEAN, ShellSet(v),
           UNCHANGED <<counters, files, logAt, ready, history>>
    PROVE  LogTypeInv' /\ (Bookkeeping => Bookkeeping')
<1>0. LogTypeOK /\ LogTypes /\ LogAtInv
  BY DEF LogTypeInv
<1>u. /\ UNCHANGED <<messageIndexes, plc_logCounts, logFile, logState, logAt, ready, logged, reads, overlapped, left>>
      /\ calls' = calls + 1 /\ calls < MaxCalls
  BY DEF counters, files, history, ShellSet, Called
<1>n. /\ calls \in Int /\ logAt[Program].line.msg \in Int /\ logAt[Reader].line.msg \in Int
      /\ \A i \in DOMAIN logFile : logFile[i].msg \in Int
      /\ \A l \in Levels : /\ reads[l] \in Int /\ Len(logged[l]) \in Int
                           /\ \A i \in DOMAIN logged[l] : logged[l][i] \in Int
  BY CallNumbers, HandNumbers, FileNumbers, LevelNumbers
<1>1. LogTypeOK'
  BY <1>0, <1>u, LogAssumption DEF LogTypeOK
<1>2. LogTypes' /\ LogAtInv'
  BY <1>0, <1>u DEF LogTypes, LogAtInv, LogIs, Logging
<1>3. ASSUME Bookkeeping  PROVE Bookkeeping'
  <2>1. AgeInv'
    BY <1>u, <1>n, <1>3 DEF Bookkeeping, AgeInv, LogIs, Logging
  <2>2. IndexInv'
    BY <1>u, <1>n, <1>3 DEF Bookkeeping, IndexInv, LogIs, Settled
  <2>3. ReadsInv'
    BY <1>u, <1>n, <1>3 DEF Bookkeeping, ReadsInv, LogIs
  <2>4. FreshInv' /\ CountInv' /\ ZeroInv'
    BY <1>u, <1>3 DEF Bookkeeping, FreshInv, CountInv, ZeroInv, Quiet, Settled, Zeroing, LogIs, Logging, Uncounted
  <2>5. LineInv' /\ UniqueInv' /\ HandsInv' /\ MessageInv'
    BY <1>u, <1>3 DEF Bookkeeping, LineInv, UniqueInv, HandsInv, MessageInv, Quiet, Settled, Zeroing, LogIs,
                      Current, InFile, NewLines
  <2> QED
    BY <2>1, <2>2, <2>3, <2>4, <2>5 DEF Bookkeeping
<1> QED
  BY <1>1, <1>2, <1>3 DEF LogTypeInv

\* What does not touch the log leaves its invariants alone,
LEMMA LogUntouched ==
    ASSUME UNCHANGED logVars
    PROVE  (LogTypeInv => LogTypeInv') /\ (Bookkeeping => Bookkeeping')
<1>u. UNCHANGED <<messageIndexes, plc_logCounts, logFile, logState, logAt, calls, ready, logged, reads, overlapped, left>>
  BY DEF logVars, counters, files, history
<1>1. LogTypeInv => LogTypeInv'
  BY <1>u DEF LogTypeInv, LogTypeOK, LogTypes, LogAtInv, LogIs, Logging
<1>2. (AgeInv => AgeInv') /\ (IndexInv => IndexInv') /\ (ReadsInv => ReadsInv')
  BY <1>u DEF AgeInv, IndexInv, ReadsInv, LogIs, Logging, Settled
<1>3. (FreshInv => FreshInv') /\ (CountInv => CountInv') /\ (ZeroInv => ZeroInv')
  BY <1>u DEF FreshInv, CountInv, ZeroInv, Quiet, Settled, Zeroing, LogIs, Logging, Uncounted
<1>4. (LineInv => LineInv') /\ (UniqueInv => UniqueInv') /\ (HandsInv => HandsInv') /\ (MessageInv => MessageInv')
  BY <1>u DEF LineInv, UniqueInv, HandsInv, MessageInv, Quiet, Settled, Zeroing, LogIs, Current, InFile, NewLines
<1> QED
  BY <1>1, <1>2, <1>3, <1>4 DEF Bookkeeping

\* as is the network, and what main does.
LEMMA NetUntouched ==
    ASSUME UNCHANGED netVars, NetInv
    PROVE  NetInv'
BY DEF netVars, NetInv, NetTypeOK, EarlyInv, WaitInv, SetupInv, NetReport, NetAt

LEMMA MainUntouched ==
    ASSUME UNCHANGED bootVars, MainInv
    PROVE  MainInv'
BY ZenonT(40) DEF bootVars, settings, MainInv, BootTypes, SettingsInv

-----------------------------------------------------------------------------
(* The specification.                                                      *)

\* A boot begins as main finds it,
LEMMA MainStarts ==
    ASSUME boot = "filesys", cause \in Causes, mounted = FALSE, mount_sd_card = TRUE, plc_autostart = TRUE,
           save = [t \in Savers |-> <<>>], autostart = "none", asked = NoValue,
           resets \in 0 .. MaxResets, kept \in KeptValues, ini = NoIni, TRUE \in kept.mount_sd_card
    PROVE  MainInv
<1>1. BootTypes
  BY DEF BootTypes
<1>2. SettingsInv
  BY SaversIdle DEF SettingsInv
<1> QED
  BY <1>1, <1>2 DEF MainInv

\* and so does each that follows a reset, whatever the settings file holds.
LEMMA MainRestarts ==
    ASSUME MainInv, NEW why \in Causes, Reset(why)
    PROVE  MainInv'
<1>u. /\ boot' = "filesys" /\ cause' \in Causes /\ mounted' = FALSE /\ mount_sd_card' = TRUE /\ plc_autostart' = TRUE
      /\ save' = [t \in Savers |-> <<>>] /\ autostart' = "none" /\ asked' = NoValue
      /\ resets' = resets + 1 /\ resets < MaxResets /\ ini' = ini /\ kept' = kept
  BY DEF Reset
<1>1. BootTypes'
  <2>1. resets' \in 0 .. MaxResets
    BY <1>u, BootAssumption DEF MainInv, BootTypes
  <2>2. kept' \in KeptValues
    BY <1>u DEF MainInv, BootTypes
  <2> QED
    BY <1>u, <2>1, <2>2 DEF BootTypes
<1>2. SettingsInv'
  BY <1>u, SaversIdle DEF MainInv, SettingsInv
<1> QED
  BY <1>1, <1>2 DEF MainInv

\* The invariant holds at the first boot, with that of the log,
LEMMA BootStarts ==
    ASSUME Init
    PROVE  BootInv /\ Bookkeeping
<1>1. MainInv
  <2>1. 0 \in 0 .. MaxResets /\ "power" \in Causes
    BY BootAssumption DEF Causes
  <2>2. kept \in KeptValues /\ TRUE \in kept.mount_sd_card
    BY DEF Init, KeptValues
  <2> QED
    BY <2>1, <2>2, MainStarts DEF Init
<1> QED
  BY <1>1, NetStarts, LogStarts DEF Init, BootInv, LogInv

\* and every step keeps it, and keeps that of the log if no counter can wrap.
LEMMA BootKept ==
    ASSUME BootInv, [Next]_vars
    PROVE  BootInv' /\ (MaxCalls < Wrap /\ Bookkeeping => Bookkeeping')
<1> USE DEF BootInv
<1>1. ASSUME BootAt("network"), InitializeNetwork \/ NetMgmt, UNCHANGED <<logVars, bootVars>>
      PROVE  BootInv' /\ (Bookkeeping => Bookkeeping')
  BY <1>1, NetWaits, NetHears, LogUntouched, MainUntouched
<1>2. CASE NetworkDone
  <2>1. MainInv'
    <3>1. BootTypes'
      BY <1>2 DEF NetworkDone, BootGoto, settings, MainInv, BootTypes
    <3>2. SettingsInv'
      BY <1>2 DEF NetworkDone, BootGoto, settings, MainInv, SettingsInv
    <3> QED
      BY <3>1, <3>2 DEF MainInv
  <2>2. NetInv'
    BY <1>2, NetRestarts DEF NetworkDone
  <2> QED
    BY <1>2, <2>1, <2>2, LogUntouched DEF NetworkDone
<1>3. CASE Log
  <2>1. LogTypeInv'
    BY <1>3, LogTypesKept DEF Log
  <2>2. MaxCalls < Wrap /\ Bookkeeping => Bookkeeping'
    BY <1>3, LogKept DEF Log, LogInv
  <2> QED
    BY <1>3, <2>1, <2>2, NetUntouched, MainUntouched DEF Log
<1>4. CASE System
  <2>1. MainInv'
    BY <1>4, MainRuns, SettingsSave DEF System
  <2> QED
    BY <1>4, <2>1, LogUntouched, NetUntouched DEF System
<1>5. CASE Shell
  <2>1. PICK v \in BOOLEAN : ShellSet(v)
    BY <1>5 DEF Shell
  <2> QED
    BY <1>5, <2>1, ShellSets, LogUnderShell, NetUntouched DEF Shell
<1>6. ASSUME NEW why \in Causes, Reset(why)
      PROVE  BootInv' /\ (Bookkeeping => Bookkeeping')
  <2>1. NetInv'
    BY <1>6, NetRestarts DEF Reset
  <2> QED
    BY <1>6, <2>1, LogRestarts, MainRestarts
<1>7. CASE UNCHANGED vars
  BY <1>7, NetUntouched, LogUntouched, MainUntouched DEF vars
<1> QED
  BY <1>1, <1>2, <1>3, <1>4, <1>5, <1>6, <1>7 DEF Next, Network

\* TypeOK follows from the invariant.
LEMMA BootTyped ==
    ASSUME BootInv
    PROVE  TypeOK
<1>1. NetTypeOK /\ LogTypeOK /\ BootTypes /\ SettingsInv
  BY DEF BootInv, NetInv, LogTypeInv, MainInv
<1>2. save \in [Savers -> Seq(SettingNames)]
  <2>1. \A s \in Seq(SavedNames) : s \in Seq(SettingNames)
    <3>1. SavedNames \subseteq SettingNames
      BY DEF SavedNames, SettingNames
    <3> TAKE s \in Seq(SavedNames)
    <3>2. /\ s \in [1 .. Len(s) -> SavedNames] /\ Len(s) \in Nat
      BY LenProperties
    <3>3. s \in [1 .. Len(s) -> SettingNames]
      BY <3>1, <3>2
    <3> QED
      BY <3>2, <3>3, SeqDef
  <2> QED
    BY <1>1, <2>1 DEF SettingsInv
<1>3. ini # NoIni => \A n \in SettingNames : ini[n] \in BOOLEAN \cup {NoValue}
  BY <1>1 DEF SettingsInv, Saved
<1>4. settings \in BOOLEAN \X BOOLEAN
  BY <1>1 DEF BootTypes, settings
<1> QED
  BY <1>1, <1>2, <1>3, <1>4 DEF TypeOK, BootTypes, KeptValues

\* From one reset to the next every variable keeps its type.
THEOREM TypesKept == Spec => []TypeOK
<1>1. Init => BootInv
  BY BootStarts
<1>2. BootInv /\ [Next]_vars => BootInv'
  BY BootKept
<1>3. BootInv => TypeOK
  BY BootTyped
<1> QED
  BY <1>1, <1>2, <1>3, PTL DEF Spec

\* The result of the wait for the network says what the wait has heard, however many
\* slices it has: "ok" only with an address, for an interface that was up when it was
\* checked or heard of in the wait, and ENETDOWN only when nothing was heard before its
\* last slice, however often the link comes and goes.
THEOREM NetworkReported == Spec => []NetReport
<1>1. Init => BootInv
  BY BootStarts
<1>2. BootInv /\ [Next]_vars => BootInv'
  BY BootKept
<1>3. BootInv => NetReport
  BY DEF BootInv, NetInv
<1> QED
  BY <1>1, <1>2, <1>3, PTL DEF Spec

\* A number of the log names one message among the lines that are new since the last reset
\* that no other call overlapped, over any number of resets of the log and of the processor,
\* for any set of levels and of shells, as long as there are fewer calls than values of a
\* counter.
THEOREM NumbersName ==
    ASSUME MaxCalls < Wrap
    PROVE  Spec => []LogFaithful
<1> DEFINE NumberInv == BootInv /\ Bookkeeping
<1>1. Init => NumberInv
  BY BootStarts
<1>2. NumberInv /\ [Next]_vars => NumberInv'
  BY BootKept
<1>3. NumberInv => LogFaithful
  BY LogIsFaithful DEF BootInv, LogInv
<1> HIDE DEF NumberInv
<1> QED
  BY <1>1, <1>2, <1>3, PTL DEF Spec

\* A boot finds mount_sd_card as it was set last, or as before if its saving was cut
\* short; plc_loader does what the shell has said in this boot, and without that starts
\* a PLC that was never switched off, except in a boot that the watchdog caused.
THEOREM SettingsFound == Spec => SettingsAtBoot
<1>1. Init => BootInv
  BY BootStarts
<1>2. BootInv /\ [Next]_vars => BootInv'
  BY BootKept
<1>3. ASSUME BootInv, [Next]_vars
      PROVE  [/\ boot' = "network" /\ mounted => mount_sd_card' \in kept.mount_sd_card
              /\ autostart = "none" /\ autostart' # "none" =>
                    /\ asked # NoValue => (autostart' = "start" <=> asked)
                    /\ asked = NoValue /\ cause = "watchdog" => autostart' = "skip"
                    /\ asked = NoValue /\ cause # "watchdog" /\ FALSE \notin kept.plc_autostart =>
                          autostart' = "start"]_vars
  <2>0. MainInv /\ BootTypes /\ SettingsInv /\ SettingsInv'
    BY <1>3, BootKept DEF BootInv, MainInv
  <2>1. boot' = "network" => mounted' = mounted /\ kept' = kept
    BY <1>3, <2>0 DEF Next, Network, NetworkDone, Log, System, Shell, Reset, PreAppSetup, InitFilesys, CheckFiles,
        LoadSettings, ResetCause, LoaderDecides, SettingsExport, ShellSet, BootGoto, BootAt, SettingsInv,
        vars, bootVars
  <2>2. boot' = "network" /\ mounted => mount_sd_card' \in kept.mount_sd_card
    BY <2>0, <2>1 DEF SettingsInv
  <2>3. ASSUME autostart = "none", autostart' # "none"
        PROVE  LoaderDecides
    BY <1>3, <2>3 DEF Next, Network, NetworkDone, Log, System, Shell, Reset, PreAppSetup, InitFilesys, CheckFiles,
        LoadSettings, ResetCause, SettingsExport, ShellSet, vars, bootVars
  <2>4. ASSUME autostart = "none", autostart' # "none"
        PROVE  /\ asked # NoValue => (autostart' = "start" <=> asked)
               /\ asked = NoValue /\ cause = "watchdog" => autostart' = "skip"
               /\ asked = NoValue /\ cause # "watchdog" => autostart' = "start"
    BY <2>0, <2>3, <2>4 DEF LoaderDecides, BootAt, SettingsInv, BootTypes
  <2> QED
    BY <2>2, <2>4
<1> QED
  BY <1>1, <1>2, <1>3, PTL DEF Spec, SettingsAtBoot
=============================================================================
