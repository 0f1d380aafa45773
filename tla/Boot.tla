---------------------------------- MODULE Boot ----------------------------------
(***************************************************************************)
(* From one reset of the processor to the next: pre_app_setup of           *)
(* sys_init.c, main of main.c, the settings of plc_settings.c with the     *)
(* files they are kept in, the network of NetStart, the decision of        *)
(* plc_loader to start the PLC, and the log of RteLog, which keeps its     *)
(* files over a reset and loses its counters.                              *)
(*                                                                         *)
(* Of the settings the two are told apart that the shell can change; the   *)
(* others are saved as "network/..." and found by nobody, as the autostart *)
(* is, which is saved under another name than it is loaded.                *)
(***************************************************************************)
EXTENDS NetStart, RteLog

CONSTANTS
    NoValue,        \* of a setting that is not in the file
    MaxResets       \* bound: resets of the processor

ASSUME BootAssumption == MaxResets \in Nat /\ NoValue \notin BOOLEAN

Causes == {"power", "watchdog"}     \* any other, and RESET_WATCHDOG | RESET_PIN

SettingNames == {"mount_sd_card", "start_plc_at_boot", "plc_autostart"}
NoIni == <<>>

VARIABLES
    boot,               \* the statement of the main thread
    cause,              \* hwinfo_get_reset_cause
    mounted,            \* /lfs: is there
    ini,                \* the settings file: the value of each name
    mount_sd_card, plc_autostart,
    save,               \* of each thread: the values it has still to save
    autostart,          \* what plc_loader decided: "none", "start" or "skip"
    resets,             \* bound: resets so far
    kept,               \* history: the values of the settings a boot may find
    asked               \* history: what the shell last set the autostart to in this boot

settings == <<mount_sd_card, plc_autostart>>
bootVars == <<boot, cause, mounted, ini, settings, save, autostart, resets, kept, asked>>
vars == <<netVars, logVars, bootVars>>

Savers == {"main", "shell"}
Empty == [n \in SettingNames |-> NoValue]

BootAt(at) == boot = at

-----------------------------------------------------------------------------
(* Settings *)

\* settings_load: settings_set of every name that is saved.
SettingsLoad ==
    IF mounted /\ ini # NoIni
    THEN /\ mount_sd_card' = IF ini["mount_sd_card"] # NoValue THEN ini["mount_sd_card"] ELSE mount_sd_card
         /\ plc_autostart' = IF ini["plc_autostart"] # NoValue THEN ini["plc_autostart"] ELSE plc_autostart
    ELSE UNCHANGED settings

\* settings_save: settings_export writes one value after the other; nobody else saves in
\* between.
Exported == <<"mount_sd_card", "start_plc_at_boot">>

SettingsExport(t) ==
    /\ save[t] # <<>> /\ \A u \in Savers \ {t} : Len(save[u]) % Len(Exported) = 0
    /\ save' = [save EXCEPT ![t] = Tail(@)]
    /\ LET name == Head(save[t])
           val == IF name = "mount_sd_card" THEN mount_sd_card ELSE plc_autostart
       IN  IF mounted
           THEN /\ ini' = [(IF ini = NoIni THEN Empty ELSE ini) EXCEPT ![name] = val]
                /\ kept' = IF name = "mount_sd_card" THEN [kept EXCEPT !.mount_sd_card = {val}]
                           ELSE [kept EXCEPT !.plc_autostart = {val}]
           ELSE UNCHANGED <<ini, kept>>
    /\ UNCHANGED <<boot, cause, mounted, settings, autostart, resets, asked>>

\* The saving of v begins, or cannot.
MayFind(name, v) == kept' = IF mounted THEN [kept EXCEPT ![name] = @ \cup {v}] ELSE kept

\* The command settings of the shell: the setter assigns and saves, the command saves again.
ShellSet(v) ==
    /\ BootAt("loop") /\ save["shell"] = <<>> /\ Called
    /\ \/ mount_sd_card' = v /\ MayFind("mount_sd_card", v) /\ UNCHANGED <<plc_autostart, asked>>
       \/ plc_autostart' = v /\ asked' = v /\ MayFind("plc_autostart", v) /\ UNCHANGED mount_sd_card
    /\ save' = [save EXCEPT !["shell"] = Exported \o Exported]
    /\ UNCHANGED <<boot, cause, mounted, ini, autostart, resets>>

-----------------------------------------------------------------------------
(* pre_app_setup *)

BootGoto(from, to) == boot = from /\ boot' = to

\* The system time comes from the RTC; whether /lfs: could be mounted is seen in init_plc_filesys.
InitFilesys ==
    /\ BootGoto("filesys", "files")
    /\ mounted' \in BOOLEAN
    /\ UNCHANGED <<cause, ini, settings, save, autostart, resets, kept, asked>>

\* The directories are there or created, the settings file is created empty.
CheckFiles ==
    /\ BootGoto("files", "settings_init")
    /\ IF mounted /\ ini = NoIni THEN ini' = Empty ELSE UNCHANGED ini
    /\ UNCHANGED <<cause, mounted, settings, save, autostart, resets, kept, asked>>

\* plc_settings_init, which loads, and plc_settings_load.
LoadSettings ==
    /\ BootGoto("settings_init", "settings_load") \/ BootGoto("settings_load", "network")
    /\ SettingsLoad
    /\ UNCHANGED <<cause, mounted, ini, save, autostart, resets, kept, asked>>

\* network_init after initialize_network, whatever that returned: the system time comes from
\* SNTP or again from the RTC.  Nobody looks at the variables of the wait any more.
NetworkDone ==
    /\ BootGoto("network", "cause") /\ NetAt("done")
    /\ NetRestart(TRUE)
    /\ UNCHANGED <<logVars, cause, mounted, ini, settings, save, autostart, resets, kept, asked>>

PreAppSetup == InitFilesys \/ CheckFiles \/ LoadSettings

-----------------------------------------------------------------------------
(* main and plc_loader *)

\* Mutant: the main loop is entered before the setting is changed, by a plain save.
ResetCauseSaves ==
    /\ BootGoto("cause", "loop")
    /\ IF cause = "watchdog" THEN save' = [save EXCEPT !["main"] = Exported] ELSE UNCHANGED save
    /\ UNCHANGED <<settings, cause, mounted, ini, autostart, resets, kept, asked>>

ResetCause ==
    /\ BootGoto("cause", "loop")
    /\ IF cause = "watchdog"
       THEN /\ plc_autostart' = FALSE /\ MayFind("plc_autostart", FALSE)
            /\ save' = [save EXCEPT !["main"] = Exported] /\ UNCHANGED mount_sd_card
       ELSE UNCHANGED <<settings, save, kept>>
    /\ UNCHANGED <<cause, mounted, ini, autostart, resets, asked>>

\* plc_loader starts when its delay is over, main having taken its first steps by then.
LoaderDecides ==
    /\ BootAt("loop") /\ autostart = "none"
    /\ autostart' = IF plc_autostart THEN "start" ELSE "skip"
    /\ UNCHANGED <<boot, cause, mounted, ini, settings, save, resets, kept, asked>>

-----------------------------------------------------------------------------

\* A reset: the RAM has its initial values again, the files are as they were left, a
\* write that was under way included, and a message under way is in plc.log or not.
Reset(why) ==
    /\ resets < MaxResets /\ resets' = resets + 1
    /\ cause' = why
    /\ boot' = "filesys" /\ mounted' = FALSE
    /\ mount_sd_card' = TRUE /\ plc_autostart' = TRUE
    /\ save' = [t \in Savers |-> <<>>]
    /\ autostart' = "none" /\ asked' = NoValue
    /\ messageIndexes' = Zero /\ plc_logCounts' = Zero
    /\ logAt' = [t \in LogThreads |-> LogIdle]
    /\ ready' = FALSE
    /\ logged' = [l \in Levels |-> <<>>] /\ reads' = Zero /\ overlapped' = FALSE /\ left' = 0
    /\ \E link \in BOOLEAN : NetRestart(link)
    /\ UNCHANGED <<ini, kept, files, calls>>

Init ==
    /\ NetInit /\ LogInit
    /\ boot = "filesys" /\ cause = "power" /\ mounted = FALSE
    /\ ini = NoIni /\ mount_sd_card = TRUE /\ plc_autostart = TRUE
    /\ save = [t \in Savers |-> <<>>] /\ autostart = "none"
    /\ resets = 0 /\ kept = [n \in {"mount_sd_card", "plc_autostart"} |-> {TRUE}] /\ asked = NoValue

Network ==
    \/ BootAt("network") /\ (InitializeNetwork \/ NetMgmt) /\ UNCHANGED <<logVars, bootVars>>
    \/ NetworkDone

Log == BootAt("loop") /\ mounted /\ RteLogNext /\ UNCHANGED <<netVars, bootVars>>

\* The steps that touch the settings and the way of the main thread.
System ==
    /\ PreAppSetup \/ ResetCause \/ LoaderDecides \/ \E t \in Savers : SettingsExport(t)
    /\ UNCHANGED <<netVars, logVars>>

Shell ==
    /\ \E v \in BOOLEAN : ShellSet(v)
    /\ UNCHANGED <<netVars, counters, files, logAt, ready, history>>

Next == Network \/ Log \/ System \/ Shell \/ \E why \in Causes : Reset(why)

Spec == Init /\ [][Next]_vars

-----------------------------------------------------------------------------
(* Properties *)

\* The variables have their types.
TypeOK ==
    /\ NetTypeOK /\ LogTypeOK
    /\ boot \in {"filesys", "files", "settings_init", "settings_load", "network", "cause", "loop"}
    /\ cause \in Causes
    /\ mounted \in BOOLEAN /\ settings \in BOOLEAN \X BOOLEAN
    /\ ini # NoIni => \A n \in SettingNames : ini[n] \in BOOLEAN \cup {NoValue}
    /\ save \in [Savers -> Seq(SettingNames)]
    /\ autostart \in {"none", "start", "skip"}
    /\ resets \in 0 .. MaxResets /\ asked \in BOOLEAN \cup {NoValue}
    /\ kept \in [{"mount_sd_card", "plc_autostart"} -> SUBSET BOOLEAN]

\* A boot finds mount_sd_card as it was set last, or as before if its saving was cut
\* short (plc_settings.c:60, 129), and plc_loader does with the PLC what the shell has
\* said in this boot; if that was nothing, it starts one that was never switched off, and
\* not in the boot that the watchdog caused (main.c:75 to 78, plc_loader.c:153).
SettingsAtBoot ==
    [][/\ boot' = "network" /\ mounted => mount_sd_card' \in kept.mount_sd_card
       /\ autostart = "none" /\ autostart' # "none" =>
             /\ asked # NoValue => (autostart' = "start" <=> asked)
             /\ asked = NoValue /\ cause = "watchdog" => autostart' = "skip"
             /\ asked = NoValue /\ cause # "watchdog" /\ FALSE \notin kept.plc_autostart => autostart' = "start"]_vars

\* An autostart that was switched off and saved stays off until the settings switch it on
\* (main.c:77, "To re-enable autostart, please reactivate it in the settings").  It does
\* not: it is saved as start_plc_at_boot and looked for as plc_autostart.
AutostartStaysOff ==
    [][autostart = "none" /\ autostart' = "start" =>
          asked = TRUE \/ ~mounted \/ TRUE \in kept.plc_autostart]_vars
=============================================================================
