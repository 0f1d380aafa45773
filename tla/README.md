# Verification of Beremiz4uC

Beremiz4uC runs IEC 61131-3 programs, compiled by the Beremiz IDE into a
relocatable module, on an STM32F4 under Zephyr 3.6. This directory holds TLA+
modules that model the runtime, TLC configurations that check them, and TLAPS
proofs. All paths below are relative to `src/`.

## 1. Inventory

| Component | State it keeps | Operations | Talks to |
|---|---|---|---|
| plc_main thread (`app/src/plc_task.c`, `plc_io.c`) | tick, current time, the output pins | wait for the run signal, init, cycle, end of run | `sem_plc_run`, `plc_run`, the module's code, `plc_cycle_start` |
| loader services (`plc_loader.c`) | `plc_run`, `plc_initialized`, `mod`, `elf_buffer`, function pointers | `plc_set_start`, `plc_set_stop`, `load_plc_module`, `unload_plc_module`, `erase_plc_programm_flash`, shell commands | plc_main through `sem_plc_run`, udynlink, files, flash |
| plc_loader thread (`plc_loader.c`) | `reload_plc_file` | autostart, poll of the reload request | loader services |
| debug thread and trace RPCs (`plc_debug.c`) | trace list, token, ring buffer, `stop_debug_thread`, `debug_thread_state` | `SetTraceVariablesList`, `GetTraceVariables`, `plc_debug_thread`, `publish_debug` | plc_main through `plc_cycle_start`, the module's variables |
| RPC service (`plc_rpc.c`) | blob table, MD5 context, temporary files | `SeedBlob`, `AppendChunkToBlob`, `PurgeBlobs`, `NewPLC`, `MatchMD5`, `GetPLCstatus`, Start/Stop/Repair | file system, loader services, `reload_plc_file` |
| RPC server loop (`plc_rpc.c`) | transport, server, service handles | init, poll, restart | network, the shims |
| eRPC shims (`app/erpc`) | the structs of a call | decode, invoke the handler, encode, free | RPC server loop, all the RPC handlers |
| PLC log (`plc_rte_log.c`) | `messageIndexes`, `plc_logCounts`, `plc.log`, `logstate.log` | `LogMessage`, `GetLogMessage`, `ResetLogCount`, save/restore | the module, RPC |
| dynamic linker (`app/udynlink/udynlink.c`) | module table, RAM of modules | load, unload, lookup | loader services |
| HTTP/WebSocket server (`plc_http.c`) | `client_fd`, `websocket_client_fd`, `websocket_connected`, websocket thread | accept, request, upgrade, frames, status | network, files |
| settings (`plc_settings.c`, `plc_cli.c`) | 15 settings, their file | set, save, load | shell, main(), plc_loader |
| network (`plc_network.c`) | `counter`, `waiter`, `services_flags` | wait for the interface, static address (DHCP is not in the build) | main(), net_mgmt |
| file system (`plc_filesys.c`) | mounts | mount, card detection, create paths | everything that opens files |
| time (`plc_time_rtc.c`) | RTC, system time | set, read, add TimeSpecs, DST | plc_main, log |
| boot (`main.c`, `sys_init.c`) | reset cause, heartbeat | order of initialisation | all |

Threads: `plc_main`, `plc_loader`, `rpc_server`, `plc_http` and the debug and
websocket threads have the same preemptive priority 5; the shell has the
lowest. With equal priorities Zephyr switches at blocking calls, and between any
two statements when time slicing is configured; the shell and interrupts are
preempted or preempt anywhere. The models interleave single accesses to shared
state, so a property that holds in them holds for either configuration; for each
finding section 5 says which kind of switch it needs.

What is hard here, and what the modules are about:

* one binary semaphore `sem_plc_run` carries two signals in opposite
  directions: "run" from `plc_set_start` and "I stopped" from plc_main;
* code of a loaded module runs in plc_main (and in the debug thread) while
  other threads may free or replace the module;
* requests through polled flags (`plc_run`, `reload_plc_file`,
  `stop_debug_thread`) that another thread may overwrite before they are seen;
* a timeout (one second in `plc_set_stop`) that races a late answer;
* uploads in several calls over tables and files, with failures between the
  steps and restarts of the client;
* generated code that frees what a call allocated, on every way out of it, with
  handlers that may have set a part of it only;
* two threads that close descriptors whose numbers are given out again;
* a log whose messages are found by a number that a reset starts again, while
  another thread logs or reads;
* what survives a reset: files, but no counter and no flag.

`PROJECT.json` lists every hazard at its line with the properties that cover it.

## 2. Plan

| Order | Module | What | State |
|---|---|---|---|
| 1 | `PlcControl` | abstract life cycle: start, execute, stop, replace | done |
| 2 | `PlcRun`, `MCPlcRun` | plc_main, loader services, plc_loader, RPC and shell callers; implements `PlcControl` | done |
| 3 | `PlcRun_proofs` | types, inductive invariant, seven properties incl. the refinement | done |
| 4 | `PlcDebug`, `MCPlcDebug` | debug thread, `plc_cycle_start`, trace RPCs | done |
| 5 | `PlcUpload`, `MCPlcUpload` | blob table, NewPLC's files, MD5, power loss | done |
| 6 | `Udynlink`, `MCUdynlink` | copy, relocation and release of a program, from file and flash | done |
| 7 | `RpcServer`, `MCRpcServer` | server loop, shims and client of every RPC method | done |
| 8 | `HttpServer`, `MCHttpServer` | who owns which descriptor, both HTTP threads | done |
| 9 | `NetStart`, `RteLog`, composed in `Boot`, `MCBoot` | wait for the network, log, settings, and resets | done |
| 10 | `HttpServer_proofs` | types, who owns a descriptor | done |
| 11 | `PlcDebug_proofs` | types, one debug thread, samples and their token, cycles exclude sampling | done |
| 12 | `RteLog_proofs`, `Boot_proofs` | the log's lemmas; types, numbers of the log, report of the network, settings at boot | done |
| 13 | `PlcUpload_proofs` | types, four safety and action properties of the upload | done |
| 14 | `Udynlink_proofs` | types, the linked program, its RAM, its pointers | done |
| 15 | `RpcServer_proofs` | types, arguments and results, what is freed, what is kept | done |
| 16 | `Time` | RTC, system time and the time stamps of the log | later |
| 17 | `TraceBuffer` | the bytes of `publish_debug` and of the reader in the ring buffer | later |

`PlcRun` and `PlcControl` compose by refinement, `Boot` EXTENDS `NetStart` and
`RteLog` and adds the reset that all three share; the other modules keep their
components apart and take what they need of a neighbour as an environment.

What is proved is in section 6: with it every safety property the runs check is a
theorem, under the assumptions named there; liveness stays with TLC.
Modules are written for both tools: no RECURSIVE operators, constants
with named assumptions, one action per statement or operation.

## 3. Modules

### PlcRun (plc_task.c, plc_loader.c, plc_rpc.c, plc_io.c)

`at[t]` is the statement a thread is at. A label belongs to one access to the
shared state: `stop_running` is the test of `plc_run` in `plc_set_stop`,
`stop_clear` the assignment, `stop_take` the wait, `stopped` the report. The
services are procedures, so `ret[t]` says where the caller continues: nowhere
(`Home`), in the erase (`erase_free`), in plc_loader's reload (`load_read`,
`reload_done`), or in its autostart. plc_main is inside the program while it is
at `config_init` or `config_run`.

* `sem_plc_run`, `pending`: Zephyr hands a given token to a pended thread and
  counts to 1 when there is none; a reset wakes every pended thread with
  -EAGAIN, which plc_main ignores (plc_task.c:83).
* `mod`, `ptr`, `elf_buffer`, `file`: which program the udynlink handle, the
  function pointers, the buffer and `PLC_BIN_FILE` hold. Programs are model
  values; a load may fail at each stage (file, CRC, link, lookup of a symbol).
* `outputs`: whether the pins are driven; `arg` is the argument of
  `plc_update_outputs`, read before the pins are written.
* History: `inited` (config_init__ ran since the pointers were set) and
  `uploaded` (the program of the last upload that requested a reload).

`Env` names what the environment may do beyond a patient client (one call at a
time, and none while plc_loader is at work): `concurrent`, `impatient`,
`upload_running`, `overrun`, `load_over`, described at the head of the module.
The code guards against none of these; the passing runs say what holds with
which of them, the violation runs what breaks.

The timeout of `plc_set_stop` may fire (`StopTimeout`) when plc_main could not
have answered in time: it is at its wait, `plc_run` was set again, or cycles
may be long (`overrun`). Without `overrun` a cycle is taken to end within the
second; typical cycles take some 10 ms.

### PlcControl

What a client may rely on: a program is started only when loaded, plc_main
executes only while started, a stop ends with plc_main at its wait, the program
changes only while stopped. `PlcRun` implements it with
`started <- plc_run = 1 \/ (a thread is in the wait of plc_set_stop)`,
`executing <- plc_main is outside its wait`, `program <- mod`. (`ImplementsControl`.)

### PlcDebug (plc_debug.c, plc_task.c, plc_rpc.c, plc_loader.c)

Three threads, each with its own label: plc_main (only its side of
`plc_cycle_start`), the debug thread, and the RPC server that runs one call at
a time. Statement by statement are `plc_debug_thread`,
`SetTraceVariablesList`, `GetTraceVariables` and the start of the debug thread;
`StartPLC` and `StopPLC` are taken whole, and are allowed when plc_main can
follow them, since their interplay is `PlcRun`'s. `__debugtoken` counts the trace
lists set, `traced` is the token of the one in place, and `trace_samples` holds
for each sample the list it was taken with. `readable` says whether the program
that runs has the variables of the list: `SetTraceVariablesList` has read them
once, but another program may be started later, and then `publish_debug` fails
at the first it cannot read, keeps the bytes before it, and the thread ends
(plc_debug.c:255 to 287). Time is whether DEBUG_TIMEOUT has passed (`Expire`).

`Sliced = FALSE` is the build's configuration: a thread keeps the processor to
its next blocking call (`Goto` says which calls block). `Sliced = TRUE` switches
at every access. `Wraps` lets `__tick` wrap around.

What the model brings out: the debug thread looks at `stop_debug_thread` only
when its 1 ms take times out, so a set of the list usually ends it through
DEBUG_TIMEOUT only (the TODO at plc_debug.c:316 asks for a better way); and the
give at its end (line 152) is unconditional, so with time slicing, when lists
change or the PLC restarts, a sample may be taken during a cycle.

### PlcUpload (plc_rpc.c)

The client sends an optional extra file and then the program in chunks:
PurgeBlobs, then SeedBlob and AppendChunkToBlob for each file, then NewPLC.
The state of the server is the table `file_uploads` with `num_uploads`, the MD5
context `complete_ctx`, and which FILEs are `open`; on disk are the temporary
files, `PLC_BIN_FILE`, the extra file and the program whose sum is in
`PLC_MD5_FILE`. A blob ID, the MD5 of what was sent of a file, is
`[file |-> f, sent |-> k]`; the sums of different contents are taken to differ.
The RPC calls before NewPLC are one action each, the server being the only
thread that uses this state; NewPLC is split at each change of a file, since
the power may fail there. A rename or a removal is atomic. A closed FILE that
is written to may by then belong to any open file. An open file may or may not
be removed by PurgeBlobs. `Faults` says what fails: the connection, the power, a
write, each of the renames, the file of the sum.

A file on disk is the sequence of its chunks. `fwrite` only fills the buffer of
the FILE (stdio is newlib's), so a write fails in one of two ways: `fwrite`
reports it (`"write"`), and the call fails; or the `fflush` of line 624 or a
later `fclose` loses the data, whose results nobody looks at (`"flush"`): `Kept`
then leaves `Missing` for any of the chunks, while the sums, which are those of
what came in, agree. The sum of `PLC_MD5_FILE` can be lost in the same way.

### Udynlink (udynlink.c, plc_loader.c)

One word of a program at a time: a program is a header, its relocations, its
symbols, code and data, and its layout is that of `udynlink_get_*_pointer` with
every name and number one word long and the header one word. `mem[r]` holds the
words of the buffer, the flash, and each allocated block. A word tells where it
comes from (`<<"image", program, offset>>`, cleared data `<<"bss", ...>>`) or,
once relocated, what it points to (`<<"ptr", region, offset>>`), so "the word at
this address is the one the compiler meant" can be stated without numbers.
`LoadFile` and `LoadFlash` are the two ways `load_plc_module` takes, `Setup`,
`Copy` and `Relocate` (one pair per step) are `udynlink_load_module`,
`LoadFails` its error exit, `LookupSymbols` the rest of `load_plc_module`, which
a failed load reaches too: its result is still -1, which line 512 of
plc_loader.c takes for true, so the lookup is done in a module whose header is NULL. What a
read of address 0 gives is the board's: nothing is found, or a fault, which is
`Reset`. The mode COPY_CODE and RAM given by the caller are left out: the loader
never asks for them. The PLC is stopped throughout; loads against a running one
are `PlcRun`'s. `Linkable` says what the compiler delivers (a relocation for every
slot at most once, inside the LOT or the data, symbols inside the program, the
names the loader looks up): the theorems assume it, and `MCUdynlink` has TLC check
that the programs of the run satisfy it.

### RpcServer (plc_rpc.c, app/erpc)

`task` is the statement of `rpc_server_task`: the four steps of the set-up, the
poll, and inside the poll the phases every generated shim has: `Receive` (the
structs of the arguments are allocated), `ReadField` and `ReadList` (one field
of the request each), `Decoded` (the structs of the results are allocated),
`Invoke` (the handler), `Encode`, `Release`, `Send`. The methods differ only in
their layouts, so each shim is a record: what is allocated before, what is read
in which order, what is allocated after, what is written, what is freed. The
four places that write a type's layout down (read and write, at the server and
at the client) are four definitions, so that they can disagree. The value of a
field is the path of the datum it carries, which makes "every member arrives
where it belongs" a comparison of sets. Strings are copied even when empty, binaries
only when they are not, as in the code.

`mem` has the pointers that exist and whether they are unset, NULL or live.
`handle` operators (`SeedBlob_sets`, `GetLogMessage_faults`, ...) say which
results a handler sets, and which it leaves when it fails. `Failing` is the set
of `<<method, site>>` that may fail; `MCRpcServer` names those the code is not
prepared for (section 5). Codec, transport and message buffers are the eRPC
library's; of them only the result of a read or a send is here.

### HttpServer (plc_http.c)

`fd[f]` is what descriptor f stands for: a connection, a file, something of
another thread, or nothing; `accept` and `open` give the lowest free number, so
a number closed too early is soon somebody else's. `http` and `ws` are the two
threads, each with its statement and its own copy of `client_fd`; `serves` is
history, which connection each was given. The answers of `process_request` are
`Reject`, `HandleStatusRequest`, `OpenFile` with `SendFile`, the handshake, and
`BadRequest`, which alone leaves without a close (plc_http.c:828 to 832).
`websocket_thread` closes its descriptor and `plc_websocket_server` closes the
same number again (`WsClose`, `WsCloseAgain`). `websocket_client_fd = 0` stands
for -1. "status" means the requests the code recognises, those for `status` without
a slash. Of a frame the model has that there is one: a
close frame is answered, and the connection is kept until the client closes it.

### NetStart (plc_network.c)

`initialize_network` statement by statement, with `counter` and `waiter` as the
two semaphores, against `iface_up_handler` in the thread of net_mgmt, which
resets the one and then gives the other. `net.count` is the C variable `count`,
whose value after the loop decides the result. Without a default interface, or
with one that is not to be started, it returns at once. The link may be found
and lost again at any time (`LinkUp`, `LinkDown`); of a loss nobody is told.
`told` is history: at what point the handler reached the wait. The build has a valid static address and no DHCP,
so `setup_ipv4` makes the services ready and the second wait is not entered. The
length of a slice is not modelled: it may end at any time (`SliceOver`).

### RteLog (plc_rte_log.c)

`Program` (plc_main) resets the log as it starts and then logs, `Reader` (the RPC
server) reads, and resets for ResetLogCount and RepairPLC, `Shells` reset. The
shell's `plc reset_log` is compiled if PLC_SHELL_TEST_COMMANDS is defined
(plc_loader.c:961, 1004), which no file of the repository does: prj.conf:17 sets
CONFIG_PLC_SHELL_TEST_COMMANDS, another name. `Shells` is therefore empty in
the build, and one thread in the run, whose resets overlap those of the others. A call is
split where a file is touched, which is where a thread may lose the processor.
`logFile` holds the lines of `plc.log`; a message is the number of the call that
logged it, so two messages are never confused. A thread that has the file open
while a reset unlinks it writes to a file nobody sees (`gone`). Each of the two
files may also stay: `ResetLogCount` only writes an error to the system's log when
`fs_unlink` fails, and zeroes the counters over the old lines (plc_rte_log.c:296
to 316); `left` is history, how many lines the last reset left. The search in
the file is one step and finds the first line with that level and number.
Counters wrap at `Wrap`. The backup timer is compiled out
(BACKUP_PERIOD_SEC is 0).

### Boot (sys_init.c, main.c, plc_settings.c, plc_loader.c, plc_rte_log.c)

`boot` is the statement of the main thread: `init_plc_filesys`, the files and
directories, the settings (loaded twice), the network of `NetStart`, the reset
cause, the loop. plc_main starts 100 ms and plc_loader 200 ms after that
(`LoaderDecides`), when main has handled the reset cause. A `Reset` may come at any moment and
sets every variable that is RAM to its initial value; `ini`, `logFile` and
`logState` stay as they were, in the middle of a save too. A save writes one value
after another (`SettingsExport`, under the lock of the settings subsystem) and
the shell's command saves twice, in the setter and after it.

* `kept` is history: the values of each setting that a boot may find, one value
  when it was saved whole, more while a save was under way or cut short.
* `mounted` is any: with the file system prj.conf chooses, `init_plc_filesys`
  first unmounts a mount that was never made, and may then find `/lfs:` or not.
* `mount_sd_card` is stored and shown, and read by nobody else.
* Once `initialize_network` is over its variables are reset, as nobody reads them.
* The watchdog is installed but never armed (`wdt_setup` is commented out,
  main.c:108), so the cause "watchdog" stands for boards where something else arms it.

## 4. Runs

| Run | Instance | Shows |
|---|---|---|
| run_serial | RPC server and shell with all their operations, two programs, `Env = {}` | types, four safety invariants, two action properties, refinement, stops reach plc_main, pins end up off |
| run_overlap | start, stop and upload from two callers, long cycles, uploads while running, loads over | every call returns in any interleaving; while the callers do not overlap, a started PLC keeps running |
| debug_all | every call, starts and stops, programs that lack the variables listed, no slicing | types, an answer never mixes lists, one debug thread, calls return while the PLC runs and the variables can be read, cycles go on |
| debug_sliced | slicing, `__tick` wraps, one list, no restart | a sample is never taken during a cycle |
| upload_faults | two programs, three transfers with up to two files of two chunks, two FILEs, every fault but the rename of the program | types, the program file is one program or absent and success means installed, but for chunks lost in an unchecked flush, no FILE misused, an abandoned transfer blocks the next only by the file it leaves open |
| rpc_calls | every method, lists of up to two, full and empty buffers, two faults | types, arguments and results arrive as they were sent and set, frees are sound, nothing is kept, the server comes back |
| http_served | two connections, three descriptors, a third party, `Env = {bad_request}` | types, every descriptor has one owner, clients are served |
| boots | two log levels, a shell that resets the log, up to three boots, three calls, two slices | types, the network's report is what the wait heard, a number names one message, what a boot finds and decides |
| udynlink_loads | 21 programs, from file and flash, two heap blocks, `Env = {}` | types, every relocation right, function pointers into the loaded program, no RAM lost, no write outside the RAM |

Bounds of PlcRun: two callers are enough, since the services have no state per
caller and the invariant of the proofs is quantified over any set of callers;
two programs are the fewest that tell "the old program" from "the uploaded one".

Bounds of PlcDebug: two lists tell a stale sample from a new one; the buffer
holds as many samples as make a second publish meet the first.

Bounds of PlcUpload: two chunks tell a file without its end from a whole one;
the third transfer meets what two abandoned ones left, and with `MaxOpen = 2`
finds no FILE free. The table has 6 entries (20 in the code), enough for the
three transfers; `upload_table` is about a full one.

Bounds of Udynlink: two words of code and of data tell a wrong base from a wrong
offset; a LOT of two and relocations of its last word and of the first of the
data meet at the boundary `Location` tests; one cleared word follows the data.
Each relocation occurs alone, and three together. The heap has one
block more than a loader that loses nothing can use; the blocks are symmetric.

Bounds of RpcServer: two elements tell a list's member from its neighbour's; two
faults are a failure of the call and one of the set-up that follows it. The
client makes any number of calls, one at a time, as the server serves one
connection.

Bounds of HttpServer: two connections, as one may be served while the other is
in its websocket; three descriptors are these and one for a file, so the table
is full as soon as the third party holds one.

Bounds of Boot: two levels tell the counter of one from that of the other; three
calls are two messages and a reset or a read, or one of each, and with
`Wrap = 4` a count that goes below zero shows; two slices are one that is not
the last and one that is; with two resets a boot finds what the boot before
left after it had itself found something. The levels are symmetric: they are
model values, no definition picks one of them, and the properties quantify over
them or are action properties about the settings. The network and the log take no step
in each other's phase of a boot, so their states add up and do not multiply.

Fairness of PlcRun: weak, for plc_main, plc_loader, each running service call
and each caller's call. These are threads of equal priority that all sleep or
wait in their loops (`k_msleep`, `k_sem_take`), so each gets the processor again
and again. A timed wait ends (`StopTimeout` belongs to the fair `ServiceStep`).
Making a call is never fair: nobody has to use the PLC. Fairness of PlcDebug:
strong for each of the three threads, as one that is ready again and again
while others hold the processor in between gets its turn (equal priorities are
served in order), and for `Expire`, as time passes. Fairness of RpcServer: weak
for the server's thread, and for a client that connects when it can; faults are
bounded, so the server is left in peace in the end. Fairness of HttpServer: weak
for its threads, for the status interval and for a client that has connected to
ask; strong for accepting a given connection, as the queue of a listening socket
is first come, first served. NetStart, RteLog and Boot state no liveness.

TLC checks deadlock in the passing runs: a thread pending with no caller is not
one as a caller can always call. `upload_faults` ends its transfers with
`PowerLoss` still possible; `upload_table` stops at its bound of transfers, so
deadlock is off there; `boots` ends every behaviour at its bounds of calls and
resets, and does not check it either.

Each property of a passing run has a mutant: an operator next to the definition
it replaces, named in `PROJECT.json`, that makes TLC find it violated.

## 5. Findings

Three runs expect a violation of what a comment or a message says:

| Run | What the code does | Needs |
|---|---|---|
| run_upload | NewPLC on a running PLC: plc_loader unloads the module under plc_main | blocking points only |
| upload_table | `num_uploads` is never reset: with the table full in the middle of a transfer NewPLC installs the extra file as the program | 20 files uploaded since boot |
| boot_autostart | the autostart is saved as `start_plc_at_boot` and loaded only as `plc_autostart`: switched off by the user, or by main() after a watchdog reset, it is on again after the next reset, though main.c:77 says "To re-enable autostart, please reactivate it in the settings" | two resets |

What the passing runs exclude or their properties exempt, and what it breaks
when it is not. Of PlcRun:

* `impatient`: a start before plc_loader polls makes it drop the reload request,
  though NewPLC reported success (`ReloadServed`, plc_loader.c:194), and one that
  overlaps the autostart can lose a start as two callers can (`StartRuns`);
  run_overlap leaves `impatient` out for that and for the number of its states;
* `load_over`: a failed load over a loaded module leaves `plc_initialized = 1`
  and no module (`LoaderState`);
* `overrun`: stop, timeout, start, stop with a cycle over one second: the last
  stop reports success while plc_main runs (`StopMeansStopped`);
* `concurrent`: a stop is handed the token of another caller's start
  (`StopMeansStopped`), and with slicing a start between the loop's end and the
  last output update leaves the pins driven (`OutputsSettle`).

In any of its runs plc_main may take its own "stopped" token back, before a
caller of lower priority does, and enter the program once more with
`plc_run = 0`; the stop is then answered by the second token. No property says
this does not happen.

Of PlcDebug: GetTraceVariables waits for samples, so on a stopped PLC it never
returns, and the RPC server with it (`RpcReturns` asks for a running PLC). After
`__tick` wraps (`Wraps`), `__tick > last_trace_timestamp` is false, no sample is
taken and DEBUG_TIMEOUT is not looked at (`RpcReturns`). When the program that
runs lacks a variable of the trace list, the debug thread ends at its first
sample, and a GetTraceVariables that waits (plc_debug.c:426) has nobody to wake
it, as the thread is only created before the wait; with it the RPC server hangs
(`RpcReturns` exempts this with `readable`).

Of PlcUpload and Udynlink:

* `flush`: a disk that is full or fails when the buffer of a FILE is written
  shows in the `fflush` or `fclose` whose result is dropped: the chunk is reported
  written, the sums agree, and NewPLC installs a program with holes and reports
  success (plc_rpc.c:624, 431). `BinIsProgram` and `SuccessMeansInstalled` allow
  the chunks lost in this way, and nothing else;
* NewPLC that fails, or loses power, after it replaced the program leaves the old
  sum in `PLC_MD5_FILE`, which MatchMD5 confirms (a sum that describes the
  program is no property of `PlcUpload` for that reason);
* `rename_bin`: NewPLC only logs that the rename of the program failed, and
  reports success with no program in place (`SuccessMeansInstalled`);
* `load_over` in `Udynlink`: a load over a loaded program loses its RAM
  (`HeapIsModule`); so does a program that lacks a name the loader looks up, which
  is linked and then neither used nor freed;
* `corrupt`: only the file's path checks the CRC; a damaged program in the flash
  is linked and started (`PointersLive`).

Of RpcServer (`NotHandled`):

* handlers that run out of memory, and GetLogMessage without its file, return 0
  with results they did not set, which are encoded and freed (`FreesAreSound`,
  `CallsFaithful`); the comment of GetLogMessage says "1 on failure" (plc_rte_log.c:209);
* AppendChunkToBlob and SeedBlob allocate the result before the request is known to be
  whole; when it is not, its `data` is freed unset (`FreesAreSound`); so are the
  elements of a list whose array could not be allocated, for NewPLC and
  SetTraceVariablesList;
* NewPLC loses the block it allocates for each extra file (plc_rpc.c:682 to 690),
  which `NothingKept` exempts.

Also seen, and not the subject of a property: a reply has 1024 bytes
(erpc_config.h:112) and the samples up to 8192, so a long answer of
GetTraceVariables tears the server down and its samples are lost; StopPLC sets
`*success` before it calls `plc_set_stop`; the set-up is retried without a pause.

Of HttpServer: the connections of bad requests are never closed and in the end
no file can be opened (`DescriptorsOwned` exempts them as `LeftOpen`);
`second_upgrade`: the websocket's thread is created over the live one, whose
connection nobody closes; `preempted`: the second close of a descriptor closes
what has been given the number since (both `DescriptorsOwned`); `silent`: a
client that sends nothing holds the server up (`ClientsServed`).

Of RteLog: a reset that overlaps a message, a read or another reset leaves old
numbers in the new log, which `overlapped` marks, until the next reset; a reset
that cannot remove `plc.log` starts the numbers anew over the old lines, so a read finds
the old message of a number (`LogFaithful` then speaks of the new lines only, by
`left`). GetLogMessage counts
down on every read, so `plc_logCounts`, which the client takes for the number of
messages, is less, and wraps below zero when messages are read again.

Of NetStart: an event between the registration of the handler and `k_sem_init`
is wiped out, and one in the last slice comes too late: a timeout is reported
with the interface up (`told` is "early" or "late"). A result of 0 does not mean
that the interface is still up. The comment of
`initialize_network` says that a negative timeout waits indefinitely; it does
not wait at all.

Of Boot: `SettingsAtBoot` is about the boot itself: what `mount_sd_card` it finds, and
that plc_loader follows the shell, the cause of this reset, or an autostart that
was never switched off. It leaves open what follows when the autostart was
switched off before this boot; that is `AutostartStaysOff`, which is violated.
Settings saved as `network/...` are never loaded.

## 6. Proofs

`PlcRun_proofs` proves for every set of callers, operations and programs:

* `TypeCorrect`: `Spec => []TypeOK` whatever `Env` allows;
* for `Env = {}`: `SerialStop`, `SerialCode`, `SerialOutputs`,
  `SerialLoaderState`, `SerialModule`, `SerialControl` (the refinement) and
  `SerialReload`.

None of those properties is inductive. `SerialInv` strengthens them with
`Serial` (one thread at a time uses the services, and no caller while a reload
is requested), `AtInv` (what a thread relies on at each statement, e.g.
`plc_run = 0` from the test to the free of an unload), `RetInv` (where a call
that continues in its caller can be), `TokenInv`, `ModuleInv` and `EndInv`.
The heart is `TokenInv`: the token is in the semaphore or with plc_main, never
both, and it exists exactly from the give of a start to the take of the stop.
So a stop that waits always finds plc_main active, its timeout cannot fire, the
token it takes is its answer, and no module changes while the token exists.
With overlapping callers or long cycles `TokenInv` breaks (section 5). `SerialReload` needs one more
invariant, `ReloadInv`, that follows the uploaded program from the file through
the buffer and the handle to the pointers. The assumptions are the
named ones of the constants (threads are distinct, `NoProgram` is not a
program).

`HttpServer_proofs`, for every set of clients and of descriptors. `TypesKept`
(`TypeOK`) assumes that no second websocket is asked for: without that
`websocket_connected` does not say where the websocket's thread is (`HandOver`).
`OwnersKept` (`DescriptorsOwned`) assumes moreover that nobody runs between the
two closes of the websocket thread (`"preempted" \notin Env`). `OwnInv` says what
each label of a thread implies for the descriptor it holds (`Owned`), that
nothing open is without an owner (`NoneLost`), that a connection has one socket
(`OneSocket`), and, through the answer a client has had, which thread serves it (`Answers`).
That the lowest free number exists is an induction over the numbers, from
the library's fact that `<` is well founded.

`PlcDebug_proofs`, for every number of lists and samples. `TypesKept` holds with
slicing and without. `OneThreadAtATime` and `SamplesAreOfTheToken` assume
`~Sliced`, the build's configuration: `CpuInv` says that a thread that is not at
a blocking call has the processor, so the accesses between two blocking calls are one
step to the others, and `SampleInv` that while the list is set up there are no
samples and while a call waits the list is that of its token.
`CyclesExcludeSampling` assumes calls that start runs and read samples
(`Ops \subseteq {"start", "get"}`), slicing included: `TokenInv` is the token of
`plc_cycle_start`, at one of the two threads or in the semaphore from the start
of the run on, and `TracingInv` that nobody ends what is going on.

`RteLog_proofs` are the lemmas of the log, for every set of levels and of shells; `Boot_proofs`
has the theorems, in which the log, the network and the settings live through
any number of resets. `TypesKept`, `NetworkReported` and `SettingsFound` assume nothing:
`NetInv` relates the semaphore `counter`, `count` and the moment the handler
came at each statement of the wait; `SettingsInv` relates the file, the variable
and the values a save that was cut short may have left. `NumbersName`
(`LogFaithful`) assumes fewer calls than a counter has values (`MaxCalls < Wrap`),
as a counter that comes round gives a number again. It says what `LogFaithful` says:
of the lines that are new since the last reset no other call overlapped, whichever
of the files could be removed, saved or written. Its invariant follows a message from the call to the
counter, the file (`NewLines`) and the reader, with what a reset in between leaves of each.

`PlcUpload_proofs`, for every set of programs, number of chunks, open files and
every set of faults. All assume `Room`, i.e. `2 * MaxTransfers <= MAX_FILE_UPLOADS`: a transfer
takes up to two entries and `num_uploads` is never reset (`upload_table` shows
what a full table does). `UploadInv` has what the client is at (`ClientInv`),
the entries that are left for its transfer (`RoomInv`) and the names
(`NamesInv`: fewer names in use than there are, by cardinality, so that a fresh one exists),
what each entry, temporary file and FILE is at each step of
the transfer (`EntriesInv`, `DiskInv`, `TableInv`), and what is in place after each step of
NewPLC (`PlaceInv`). `ProgramStored` (`BinIsProgram`) and `SuccessInstalls`
(`SuccessMeansInstalled`) speak of `Stored` files: every chunk is in its place or, if
`"flush"` is among the faults, was lost in an fflush or fclose; without that
fault they say that the program is whole. `SuccessInstalls` also assumes that the
rename of the program does not fail, which NewPLC only logs. From `UploadInv` follow
these two, `TypesKept`, `FilesUsedOpen`, and the action property `RefusedOnlyWhenFull`
(`ChunksAccepted`).

`Udynlink_proofs`, for every set of programs of any size and every heap.
`Deployment` is `Env = {}` and programs that are `Linkable`. `LoaderInv` follows
a program through a load: `Source` (the buffer or the flash holds it), `HasRam`
(the block has the size `get_ram_size` computes), `InPlace` (code copied, or
executed where it is), `DataCopied` and `BssCleared`, and `Relocated` (the first
k relocations are in their slots). The step that matters is the k-th relocation:
its slot is inside the block, was not written by an earlier relocation, still
holds the offset the compiler left there, and is not part of what the loader
reads later. So `WritesFit`, `NothingLeaks`, `PointersKept` and `RelocatedRight` hold for every
layout, not only for those of the run; `TypesKept` is part of the invariant.

`RpcServer_proofs`, for lists of every length, all fourteen methods and any number of
faults. `TypesKept` assumes nothing. `CallsKept` (`CallsFaithful`) assumes that the
handlers themselves succeed (`HandlersSucceed`), and nothing of allocation, buffers or
connection. `FaithInv` says that while the request is sound, what the shim has
decoded and what is still in the request are together the call's arguments: `Ahead`
relates the fields the shim still expects, its list not yet unfolded, to those that
are in the request; after the handler, what it has set, what is written and what
the client will read are one set of paths. `FreesSound` (`FreesAreSound`) and
`MemoryGivenBack` (`NothingKept`) assume `Prepared`, i.e. that nothing of `NotHandled`
fails. `MemInv` gives the memory by phase: every parameter has its block (`Block`: its
struct, if there is one what it points to, and the elements its list counts), there is
nothing else but what NewPLC loses, and what is unset is still to be read
(`Reading`) or the handler's to set (`Using`); with `Prepared`, only the request of a
method without results in structs can fail to be decoded (`Sure`), so no result is freed unset. So what a
shim passes to `erpc_free` is the union of the blocks, in some order, each once.
Both arguments need what a flattened sequence contains. That is an
induction over its length, which the module makes once, over the set of
numbers for which the claim holds (`NumbersByInduction`), from the library's fact that `<` is
well founded: `FlattenElements`, `RowsJoin` and `InjectiveFlatten` are its results. The
layouts of the shims, which the theorems compare, are constants and are evaluated one by one
(`ReadsGood`, `MessagesSame`, `ShimsFit`, `FreesFitAll`).

The assumptions on constants are the named ones of the modules and those
above, each of which section 5 shows to be needed or the code to provide
(`Linkable`, by the compiler). The inductive invariants were checked with TLC as
invariants of the instances before they were proved, except for the parts of `FaithInv`
that quantify over sequences of fields.

Only model-checked: the liveness properties (fairness and ENABLED are out of the
prover's reach) and the environments that the assumptions above exclude.

## 7. Not modelled

* The layout of the flash partition and how it is written in pages (`Udynlink`
  has its content); the values of the process image; the bytes of HTTP requests,
  frames and JSON, of log lines and of the samples in the ring buffer.
* The eRPC library, Zephyr's kernel, network stack and file systems: external,
  modelled as the code uses them.
* Time: conversions between the RTC and the system clock, time zone and daylight
  saving; they compute and change no state the rest depends on. A later module.
* What the build leaves out: DHCP, the card detection, the log's backup timer.
* Settings nobody changes, with their getters and setters.
* The shell's file commands, the stack monitor, the USB console and the texts of
  the status: thin wrappers or pure output.
* Boards and build files.
