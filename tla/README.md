# Verification of the ATS terminal simulator

ATS runs the firmware of a payment terminal (FreeRTOS on an ARM board) inside
QEMU and plays the terminal's devices on the PC. The firmware reaches the PC
through an RPC over the UARTs of the emulated board, which QEMU connects to the
PC by TCP. This directory holds TLA+ models of that system, TLC configurations
that check them on small instances, and proofs that TLAPS checks for instances
of every size.

The order of this text: the inventory of the system, the modules and what they
stand for in the code, the runs, the fairness, the proofs, the disagreements
found between the code and what it says of itself, what is left out, the plan.

## 1. Inventory

### The core: one remote call

    firmware task -> ats_rpc_request -> UART -> QEMU -> TCP -> RpcSerialServer
                                                                    |
                                              RpcFrameProcessor (worker thread)
                                                |                   |
                                        device services       RpcNetWorker
                                                |              (network thread)
    firmware task <- semaphore <- rpc_task <- UART <- QEMU <- TCP <-+

| Component | State it keeps | Operations | Talks to | What is hard | What makes it correct |
|---|---|---|---|---|---|
| Firmware RPC engine, `sdk/ats_rpc.c` | `s_pending` (table of outstanding requests with a semaphore each), `s_request_id_counter`, `s_pending_mutex`, a tx mutex per channel, the UART's control register | `ats_rpc_request`, `ats_rpc_send_event`, `ats_rpc_send_crash_event`, `rpc_task` (`recv_frame`, `ats_rpc_dispatch`) | tasks by calls, host by frames, fault handler by the crash event | several tasks and several `rpc_task`s on one table; a time-out crosses the answer; 8-bit ids wrap; the slot is filled outside the mutex | a slot has one owner; an answer goes to its own call or nobody; every call returns; frames stay whole |
| Firmware start and fault handler, `sdk/ats_main.c` | none of its own | start-up; `FaultHandler` | RPC engine | the report is written past every lock | the report arrives |
| QEMU controller, `core/QemuController.cpp` | process, QMP connection, flags of the dialogue and the shutdown | start, stop with its three waits, end of the process | channels (by their connections), main window by signals | exit at any moment, also inside a wait; restart before the old connection is gone | no session hears another one; a stop comes to its end |
| Host RPC server, `core/RpcSerialServer.cpp`, `RpcProtocol.cpp` | per channel: one client, `rxBuffer` | accept, read, extract frames, write frames, disconnect | TCP, dispatch by queued signals | a stream cut at arbitrary places | the frames extracted are the frames sent |
| Host dispatch, `core/RpcFrameProcessor.cpp`, `RpcNetWorker.cpp` | `m_currentRequestId`, event queues of the worker and the network thread | one handler per service and command; connect and recv handed over to the network thread | server, device services | one id variable for answers that are given much later | every answer bears its request's id; no request is lost between threads |
| Network service, `ATS_app/sdk/ats_net.c` | `s_net_ctx`: table of sockets, no lock | create, connect, send, recv, close | worker, network thread, OS | a connect that failed for the caller may succeed afterwards; handles are reused | a socket is connected to what its owner was told |

### Around the core

| Component | State, operations | What is hard | What makes it correct |
|---|---|---|---|
| Firmware system services, `sdk/ats_sys.c`, over `FreeRTOS/timers.c` | clock (`s_timestamp`, `s_timestamp_tick`), timers with a context each, the timer task's two lists and its queue; threads, locks | the clock's two words are written without a lock; tick arithmetic in 32 bits; the tick count wraps; a timer's context is freed while its deletion is only queued | a reading is right until the ticks wrap; a timer fires, never early; a callback finds its memory |
| Codec, `sdk/ats_rle.c`, `ats_lcd.c`, `ats_printer.c`, `build_frame` | none | 16-bit sizes on one side only | the host shows what was drawn, or nothing |
| Firmware reader, file and audio proxies | none | time limits equal to the host's | an answer within the limit is taken |
| Host audio, `ATS_app/sdk/ats_audio.c` | queue, semaphore, player thread | shutdown while a push is under way | what is queued is played in order or dropped whole |
| Host printer and display | list of printing operations, bitmap | calls in any order, in the middle of a receipt | a receipt holds the operations since open |
| Host card reader, `ATS_app/sdk/ats_reader.c` | card state over PC/SC | polling holds the worker | a command goes to an activated card |
| Host files and system | file table, thread registry | handles given back | no handle of a closed file is served |
| Test runner, `core/TestRunner.cpp`, `TestCase.h`, `lua/` | list of cases, running flag, stop flag, a worker thread for each run | stop, a new run before the old thread is gone, signals that come late | cases of two runs never run together; the panel is unlocked after every run |
| Application thread, `core/AppThread.cpp` | a flag and a thread | start twice, an end of its own | one thread at a time |
| User interface, `ui/MainWindow.cpp`, `ui/TestCasesPanel.cpp` | buttons, statuses, whether the window is closing | closing while QEMU is being stopped or a run is in progress; a crash report meanwhile | closing ends the program; a verdict reaches the list |
| Log, address resolver | presentation | - | - |
| EMV kernel, `emv_lib/core` (and its near copy under `ATS_ArmAppBuilder/`) | the session (candidates, TVR, TSI, verification result), the TLV store that outlives a step | each step leaves its results to the next in two places; a card withdrawn, an answer lost, a PIN mistyped, no host | no approval that was not earned; nothing of one transaction in the next; every step returns |
| FreeRTOS, mbedTLS, Lua, MQTT | third-party | - | used as external |

`PROJECT.json` lists each with its sources and its state in this project, and
the hazards of the code line by line with the properties that watch them.

## 2. Modules

| Module | Models | Checked by | Proved |
|---|---|---|---|
| `AtsRpc` | `ats_rpc_request` and `ats_rpc_dispatch` over the pending table | `rpc_late`, `rpc_calm`, `rpc_own` | `AtsRpc_proofs` |
| `SyncCall` | abstract: what `ats_rpc_request` promises its caller | `rpc_calm` (refinement) | `AtsRpc_proofs` (refinement) |
| `AtsUplink` | one channel, firmware to host, byte by byte, with crashes and restarts | `uplink` | `AtsServices_proofs` |
| `AtsDownlink` | one channel, host to firmware, byte by byte, with the UART's control register | `services` | `AtsServices_proofs` |
| `AtsClock` | the firmware's clock, set and read by tasks that cross | `services` | `AtsServices_proofs` |
| `AtsLcd` | a bitmap from `ats_lcd` through both encoders and `send_frame` to the host's decoder | `services` | `AtsServices_proofs` |
| `AtsServices` | the four above side by side | `services`, `uplink` | `AtsServices_proofs` |
| `AtsNet` | network service over the host's two threads | `net` | `AtsNet_proofs` |
| `AtsAudio` | the host's audio queue, its player, start and shutdown | `audio` | `AtsAudio_proofs` |
| `AtsTimer` | timers of the firmware with the FreeRTOS timer task | `timer` | `AtsTimer_proofs` |
| `AtsHost` | main window, test runs, QEMU and application thread | `host`, `host_names` | `AtsHost_proofs` |
| `EmvKernel` | a transaction from begin to end, and the next | `emv`, `emv_sort` | `EmvKernel_proofs` |
| `SequenceFacts` | lemmas on `Append`, `Tail` and updates of sequences of anything | | itself |

`AtsRpc`, `AtsUplink`, `AtsDownlink` and `AtsNet` are layers. `AtsUplink` and
`AtsDownlink` justify what `AtsRpc` and `AtsNet` assume of a channel: frames
arrive whole, in order, or not at all. `AtsNet` keeps of `AtsRpc` how an answer
finds its call: ids that repeat and slots that keep the id of their last call, so
that the mistake `rpc_own` shows happens in `AtsNet`, too. `AtsHost` is around
them: it starts and ends the process whose sessions `AtsUplink` and `AtsNet` see
come and go. The two directions of a channel, the clock and the display share no
variable, so `AtsServices` lets a behaviour be one of the four that starts;
`Services` says which a run allows. The remaining
modules stand alone.

Before a mapped definition there may be one labelled `Mutant`: the same
definition with a plausible mistake. Putting it in the other's place makes TLC
find the property violated that `PROJECT.json` names with it; this is how each
property has been shown to say something about the code.

### AtsRpc

One task is at one of the program points of `ats_rpc_request` (`pc`), with its
locals `slot` and `rid`; one `rpc_task` per channel is in `recv_frame` or in
`ats_rpc_dispatch` (`handling`).

| Action | Code (`ats_rpc.c`) |
|---|---|
| `Allocate`, `AllocateFails` | the first critical section: draw the id, take the first free slot, or fail with the id spent |
| `FillBuffer`, `FillResult`, `FillId` | the fields of the slot, written after the mutex is released, the id last; the three writes for the buffer (address, size, pointer to the length) are one step |
| `Send`, `SendFails` | `send_frame`, which allocates the frame and may fail |
| `Wake`, `Expire` | `xSemaphoreTake` returns true or false; FreeRTOS looks at the count again before it gives up |
| `ReturnSendFailed`, `ReturnTimeout`, `ReturnResult` | the three ways out, each gives the slot back under the mutex |
| `Receive`, `Match`, `Discard` | `rpc_task` has a frame; the search for the slot under the mutex |
| `TooLarge`, `Copy`, `SetResult`, `Give` | the writes of the dispatch, one by one, since callers fill slots outside the mutex at the same time |
| `Answer`, `Ignore` | the host: any order, any delay, or never |

A critical section that touches nothing that is written outside it is one step.
`service`, `command` and `sequence` are stored by the code and never read, so
they are left out. `call`, `content`, `stray`, `answered` and `ret` are history:
no guard of an action that models the firmware reads them, except that the
buffer pointer of a slot is named by the number of the call it belongs to.

Two conditions are stated as action constraints. `InTime`: a call gives up only
on a request that the host will not answer any more. `FreshId`: a new call draws
no id that a slot still records. Under both, a call is the synchronous call
`SyncCall` describes; without them it is not, as `rpc_own` shows. `CalmSpec` is
`Spec` under both: what the run checks and the proofs assume is the same.

### AtsUplink

Tasks write a frame's bytes under the tx mutex; the bytes queue on the
connection of their session; the host reads some (`Chunks`) or all of them
(`ReadyRead`) and cuts frames off with the code's rules for resynchronisation,
one in each step (`ExtractFrame`), while the firmware goes on and no other
handler of the host runs (`extracting`). `Crash` writes the report at once, past
the mutex (a hard fault has priority over every task and interrupt, so nothing
comes between its bytes). `Boot`, `Exit`, `Accept` and `Disconnected` come in
any order the sockets allow: a new session may connect before the disconnection
of the old one is handled, and is then turned away. Numbers and bytes are real
(length in two bytes, start bytes A5 5A); a payload that looks like a frame
start is among the payloads.

### AtsDownlink

The host writes whole frames; `recv_frame` is the automaton of its loops
(`Synchronise`, `ReadHeader`, `ReadPayload`, `NoMemory`). Both directions switch
their half of the UART on by a read and a write of one register without a lock:
`TxReadCtrl`/`TxWriteCtrl` and `RxReadCtrl`/`RxWriteCtrl` are separate steps.

### AtsNet

Three actors: the tasks of the firmware with a socket each, the host's worker
with its event queue `inbox`, the network thread with its queue `jobs`. The
table `s_net_ctx` belongs to nobody. `os` is the operating system: every socket
ever opened, its peer and whether data wait on it. Each step of the network
thread reads the table anew, as the code does after a name resolution of any
length. `GiveUp` is a call of the firmware that timed out, `Restart` a new run
of it, of which the host takes no notice. Time limits of 0 (none) and TLS
contexts are not in the model.

| Action | Code |
|---|---|
| `Begin` | `ats_rpc_request`: the next id (from `MaxRequestId` on again with 1), the first free slot, or none |
| `Create` .. `Close` (`Ask`), `SendFails` | the slot's id is written, the request is sent, or not |
| `Deliver` | `writeFrame`, and `ats_rpc_dispatch`: the first slot in use that bears the response's id, whosever it is |
| `WakeEarly` | a call whose slot was matched before its request was sent wakes up by that |
| `ReturnWith` | how a caller reads what it is given: the number of words, the result, the socket |
| `GiveUp`, `Restart` | no answer in time; a new run, whose ids begin with 1 again |
| `DispatchCreate`, `DispatchSend`, `DispatchClose`, `DispatchJob`, `DispatchFinished` | the worker (`RpcFrameProcessor`), with what it calls of `ats_net.c`; `socket()` may fail |
| `TakeJob`, `Resolve`, `Select`, `StartRecv`, `EndRecv` | the network thread (`RpcNetWorker`), from one use of the table to the next |

A call is named by its number in `asked`, its request travels as this number, a
response names the call it is the answer to (`n`) besides its id. `mistaken` is
history: the calls that returned with the answer to another one, and to which.
What a caller makes of such an answer is in the model: the task of a create that
gets another's answer holds whatever number is in it.

### AtsAudio

| Actor | Code (`ats_audio.c`) | Program points |
|---|---|---|
| `Callers` | whoever calls `ats_audio_play_file`: the RPC worker, the threads of a firmware that runs on the host | `idle`, inside `ats_audio_init` (`create_sem` .. `undo`), inside `queue_push` (`check`, `link`, `release`) |
| `UI` | the status panel's timer, and main when the event loop has ended | `idle`, `ats_audio_init`, `look`, inside `ats_audio_shutdown` (`wake` .. `delete_cs`), `gone` |
| `Players` | every thread of `audio_thread_func` ever created | `loop`, `wait`, `pop`, `have`, `open`, `playing`, `done` |

Every use of a variable that another thread writes without the critical section
is a step: the test of `s_audio_running`, the length before it is entered, the
creation and the closing of each object. A critical section is one step. To enter
a critical section that is not there, to delete one that is not there, or to
close a semaphore somebody waits for has no defined outcome: `undefined` becomes
true and the behaviour ends. `overfull`, `abandoned` and `orphaned` are history
that says which of the component's own conditions has been broken: the queue's
limit, a shutdown that saw its player end, a queue with a player to come.
`Join` is `WaitForSingleObject` with its limit of a second; it can end without
the player's end only if something keeps the player (`Lingers`): a command to
MCI, an empty semaphore, or a new start.

### AtsClock, AtsLcd

A task sets the clock, asks the host for the time or reads the clock; the two
words are written one after the other (`SampleTick`, `StoreTick`,
`StoreTimestamp`) and read one after the other (`ReadTimestamp`, `Add`), each a
step, while ticks pass. `TickGet` cuts the product to the word before it
divides. `ref` is history: the time the last synchronisation set and what it
cost, which `ReadsRight` compares readings with. A reading that crosses a
synchronisation may combine old and new words; the property is about the others.

`AtsLcd` has a variable for every 16-bit size of the code, cut where the code
cuts it; the encoder's blocks and the decoder's pixels are sequences. `room` is
what was allocated; an encoder that writes past it, as it does when header and
worst case together do not fit 16 bits, ends the drawing as `undefined`. So does
`SendFrame` when the event with the 8 bytes of a frame's own header
(`ATS_RPC_HEADER_SIZE`) does not: the frame's length, and with it the memory
taken for it, is cut to 16 bits, what is copied into it is not. `Fits` says of a
bitmap that 16 bits hold the frame in the worst case.

### AtsTimer

| Action | Code |
|---|---|
| `Create`, `Start`/`SendStart`, `Stop`, `Delete`/`FreeContext` | the `ats_timer_` calls (`ats_sys.c`): a start reads the tick count, then sends; a deletion frees the context after its command is sent |
| `Look`, `Wait`, `WakeUp` | `prvProcessTimerOrBlockTask` with `prvSampleTimeNow` (`timers.c`) |
| `Expire`, `Reload`, `Call`, `Return` | `prvProcessExpiredTimer`, `prvReloadTimer`, `_timer_entry` and the callback |
| `Switch` | `prvSwitchTimerLists`, for a look or inside a command (`switching`) |
| `Receive`, `HandleStart`, `HandleStop`, `HandleDelete`, `NoMoreCommands` | `prvProcessReceivedCommands` |
| `Insert`, `ProcessNow` | `prvInsertTimerInActiveList` |
| `Tick` | the tick interrupt, unless the timer task would be more than `MaxLate` ticks late |

Which owner runs when follows the priorities: the timer task has the highest, so
other tasks run while it waits or its callback blocks; owners of its own priority
(`Peers`) share the processor with it. `left` is history: the ticks to the next
expiry by the caller's reckoning, against which the lists are held. `timers.c` is
third-party, but its source is in the repository in the configuration the
firmware is built with, and what `ats_sys.c` promises rests on it.

### AtsHost

The UI thread runs one handler at a time (`ui` is `idle` between two) and blocks
where the code waits: for the last run's thread (`Join`), for the process
(`stop`, three waits in turn), in the destructor. While it blocks, workers go on
and the process may end; what they signal is in `queue`, in order. A run is an
element of `workers` with a program point, its list of cases and its place in
it. `RunScripts`, `StopRequested`, `StartApp`, `StartQemu`, `Stop`, `CloseClicked`
and `ImportElf` are the user's; `OnTestStarted`, `OnTestFinished`, `OnAllDone`,
`OnProcessFinished` and `OnCrashMessage` the handlers of signals. `CloseFirst` and
`CloseNow` are the two turns of `closeEvent`. `verdict` is history: what the last
run of a case returned. Names count: `Base` gives the name a case has itself,
`Items` holds the name in the list.

### EmvKernel

| Action | Code (`emv_lib/core`) |
|---|---|
| `Begin`, `End`, `Deinit` | `emv_api.c`: begin, end, and the reset of the session |
| `Detect`, `FromPse`, `FromTerminal`, `Choose`, `SortedList` | `emv_app_selection.c`: directory, list of AIDs, order, choice |
| `InitApplication` | `emv_app_init.c` |
| `Authenticate`, `Method` | `emv_offline_auth.c`: the method is chosen by card and terminal, its outcome is the card's genuineness |
| `ProcessRestrictions`, `DatedBits`, `NeededRights` | `emv_process_restrictions.c` |
| `StartCvm`, `TryEntry`, `ReadTries`, `InputPin`, `VerifyPin`, `CvmFails`, `CvmSucceeds` | `emv_cardholder_verify.c`: a step for each command to the card and each answer of the cardholder |
| `ManageRisk`, `VelocityBits` | `emv_risk_management.c` |
| `AnalyseAction`, `RequestedAc`, `Matches` | `emv_action_analysis.c`, the first GENERATE AC |
| `GoOnline`, `ExternalAuthenticate`, `FirstScript`, `SecondGenerate`, `SecondScript` | the host, and `emv_online_complete.c` |

`present` is whether the card is there: `Withdraw` may come between any two
steps, and every command has an answer (`Answered`) or none (`Lost`). The session
(`tvr`, `tsi`, `cvmr`, `aip`, ...) and what has been saved to the TLV store (`tlv`)
are separate, as in the code, where each step saves its results at its end: that
they agree where the next step reads the store is `SavedIsCurrent`. Bits are
members of sets named as the fields are; cryptography is an outcome; the TLV
coding and the DOLs are left out, but for what becomes of a step that cannot
build one. Two loops of the code without a bound are in one step each: SELECT
next, until the card has no more applications of a name
(`emv_app_selection.c:307`), and the repetition of a command the card answers
with 6C or 61 (`emv_cmd.c:49`). A card that goes on for ever in one of them keeps
the kernel for ever, which the model does not show. Offline PINs with a signature
are those without, as in the code, which does nothing about the signature.

## 3. Runs

| Run | Instance | States | Question |
|---|---|---|---|
| `rpc_late` | 2 tasks, 1 channel, 2 slots, ids wrap after 2, 3 calls | 97 131 | What holds whatever the host does: `TypeOK`, `SlotOwnership`, `DeliveryTargetHeld`, `SlotIntact`, `IdsRepeatLate`, `AwaitedAnswerIsDelivered`, and that calls return (`CallReturns`) |
| `rpc_calm` | 3 tasks, one without time limit, 2 channels, 2 slots, 3 ids, payloads of 0 and 1, 4 calls | 741 169 | With answers in time and fresh ids: `AnswerIsOwn`, `TokenMeansAnswer`, and `AtsRpc` implements `SyncCall` |
| `rpc_own` | 2 tasks, 2 channels, 2 slots, 3 calls | to the violation | `AnswerIsOwn` without the conditions: violated |
| `uplink` | 2 tasks, 2 frames a session, 2 sessions | 2.45 million | `FramesIntact`, `NothingLeftBehind` |
| `services` | 3 frames; 2 tasks at a clock of 9 values, 6 ticks; bitmaps of eleven sizes, 5-bit sizes | 591 868 | `FramesComeThrough`, `StaysListening`, `EverythingIsRead`; `ClockIsTrue`; `ImageArrives` |
| `net` | 2 tasks, 2 servers, 2 entries, 2 slots, 3 ids, 4 calls, 1 call lost or 1 restart | 664 228 | `AnswerIsForCall`, `TableHoldsSockets`, `ConnectedIfPatient`, `RequestsInOnePlace` |
| `audio` | 2 callers, the panel, a queue of 2, 3 files, 2 player threads in all | 227 583 | `OnePlayer`, `NoneStranded`, `ShutdownWakes`, `PlayedInOrder`, `EveryFileIsTaken` |
| `timer` | a one-shot timer of 2 ticks whose callback may block, an auto-reload one of 1 tick with an owner of the timer task's priority; ticks modulo 5, a queue of 2, a timer task 1 tick late | 368 282 | `NotEarly`, `ItemsAreDue`, `NoDanglingTimer`, `ContextWindow`, `ArmedTimerFires` |
| `host` | 2 cases, 2 runs, 2 starts of QEMU, 1 crash report | 279 890 | `CasesRunAlone`, `PanelUnlocks`, `CloseCompletes` |
| `host_names` | display names that are not the scripts' | to the violation | `VerdictIsShown`: violated |
| `emv` | 8 cards, 3 terminals, 4 requests, 3 hosts, 2 tries, 1 lost command | 56 204 | `SavedIsCurrent`, `ApprovalIsEarned`, `CvmVerdict`, `PinNotBeyondTries`, `ArcIsFromHost`, `ProcessReturns` |
| `emv_sort` | the same | to the violation | `SortedByPriority`: violated |

Why the bounds are enough. A slot is disputed between at most its old owner, its
new owner and a dispatch, so two tasks, two slots and three calls reach every
crossing, and ids that wrap after two or three calls make the 255th call happen
early. `rpc_late` has one channel because the liveness check is costly; the
crossing of two `rpc_task`s is in `rpc_calm`, and the proofs cover every number
of channels. In `rpc_calm` more callers than slots reach the refusal
(`AllocateFails`), and the two payload sizes reach an answer that is too large.
In `uplink` two frames and reads of three bytes put every boundary (start bytes,
header, payload, next frame) inside and between reads; two sessions are what one
session can disturb. In `net` four calls are the fewest that reuse a handle
while a connect to it is still under way: create, connect given up, close,
create. With three ids the fourth call repeats the first one's, as the code's
256th does. Two slots are as many as there are tasks: one that has been given up
on leaves its slot, and the id in it, to the next that begins, while the other
task's slot decides who is matched first. One loss at a time (a call given up,
one that cannot be sent, or a restart, which gives up all that are under way)
reaches an answer taken for another call's of the same run, of an earlier one,
and by an id used twice; what several losses together do is left to the proofs,
which do not bound them. In `audio` two callers and the panel are three threads
that may start the player at once, two callers at a queue of two push it past
its limit, and a second player thread is one that a start during or after a
shutdown creates.

In `services` the clock's word of 9 with 2 ticks to a second wraps within the 6
ticks and is no multiple of them, as 2^32 is none of 1000; so readings before
and after the wrap of the product are both there. The sizes of bitmaps include those that fill 5 bits just so, that wrap the buffer's
size, the worst case, and the number of pixels; every picture of two colours is
drawn on the small ones. With a header of 2 and 3 bytes for a frame a bitmap of
11 pixels just fits, and the frame of one of 12 can be too long while nothing
else is. In `timer` a word of 5 is the least for which a period
of 2 and a lateness of 1 leave the order of ticks unambiguous; both timers pass
the wrap again and again, since the tick count is not bounded. A queue of 2 is
full with one command of each owner or two of one. In `host` two runs are an old
thread and a new one, two starts a process and its successor. In `emv` every field
of card, terminal and request that the kernel looks at has at least two values;
transactions follow each other without bound, so any may leave something to any.

Bounds in guards: `MaxCalls` (calls begun), `MaxFrames` (frames of a run),
`MaxPerSession` (those of a session), `MaxSessions` (runs of the firmware
in `AtsUplink`), `MaxLosses` (calls given up or not sent and restarts, in `AtsNet`),
`MaxThreads` (players ever created), `MaxFiles` (a file is begun only below it,
so one per caller may come beyond), `MaxNow` (ticks of the clock), `MaxRuns`,
`MaxStarts`, `MaxCrashes` (test runs, starts of QEMU, crash reports), `MaxGlitches`
(commands lost in a transaction), `MaxLate` (how late the timer task may be,
which is not a bound on a behaviour's length).

Deadlock is checked in `rpc_late`, where `Finished` is the only state in which
the system may stop, in `services`, `timer` and `emv`. `host` ends when the program
does; the others stop at their bounds.

Symmetry: tasks with a time limit among each other, channels, servers. Runs with
liveness properties use none.

## 4. Fairness

`AtsRpc!FairSpec` asks weak fairness of every task inside a call and of every
`rpc_task`: FreeRTOS slices time between tasks of one priority, and
`xSemaphoreTake` with a time limit ends. Nothing is asked of the host, so
`CallReturns` holds although the host may never answer; a call with no time limit
(`Forever`) is excluded, as it should be. Since the calls of a behaviour are
bounded, the property does not speak of a mutex that others take for ever.

`AtsServices!AllSpec` asks weak fairness of the `rpc_task`, which polls with a
delay of one tick. `AtsAudio!FairSpec` asks it of every thread inside an operation
and of every player: Windows schedules every thread, a file that plays comes to
its end, and no thread has to begin anything.

`AtsTimer!FairSpec` asks it of time, of the timer task, which has the highest
priority and whose callbacks return, and of an owner that has begun to start a
timer. That is not enough for `ArmedTimerFires`: an owner of the timer task's
priority that sends command after command keeps the timer task at its queue,
which it empties before it looks at the lists. The property therefore assumes
that such owners are quiet in the end (`PeersAreQuiet`).

`AtsHost!FairSpec` asks it of every worker, so a script ends, of the event loop's
handlers, of the ends of the waits, and of a process that has been killed.
Nothing is asked of the user, nor of a QEMU that is only asked to quit.
`EmvKernel!FairSpec` asks it of the kernel's own steps (`Process`, `Complete`),
which contain the card's answers and the cardholder's: both have time limits.
The card need not stay and the host need not be reached. `ProcessReturns` rests on
two more things, which are bounds of the model and not fairness: at most
`MaxGlitches` commands of a transaction are lost while the card is there, so that
the loop which asks for the PIN again after every failed VERIFY
(`emv_cardholder_verify.c:304`) is left by the card's counter, a right PIN or the
cardholder; and the loops `while (1)` of SELECT next and of 61xx/6Cxx, being part
of one step, end. The property is about the loops over entries and PINs.

`AtsUplink` and `AtsNet` have no fairness and no liveness property.

## 5. Proofs

Every theorem holds for all values of the constants that meet the module's
assumption, which TLC evaluates in the runs: `ConstantsAssumption` (positive
numbers, `None` no member of the sets and no job; of the audio module also that
the panel's thread is none of the finitely many callers; of `AtsDownlink` that a
payload's length has 16 bits and that the frames of a run have ids of their own),
`TimerAssumption` (a period and twice the lateness are below the word),
`EmvAssumption` (a card's list of rules is a sequence of rules),
`UplinkAssumption` (numbers of frames and sessions, reads of at least a byte, `None`
is no task), `ClockAssumption` (a positive word and tick rate; times are numbers),
`LcdAssumption` (a bitmap has pixels, as the code demands, and as many as its sizes
say; a block holds at least 3, in the code 128).

| Module | Theorem | States |
|---|---|---|
| `AtsRpc_proofs` | `TypeCorrect` | `Spec => []TypeOK` |
| | `SlotsAreOwned` | `Spec => []SlotOwnership` |
| | `DeliveryIsSafe` | `Spec => []DeliveryTargetHeld` |
| | `SlotsStayIntact` | `Spec => []SlotIntact` |
| | `IdsDoRepeatLate` | `Spec => []IdsRepeatLate` |
| | `AnswersAreDelivered` | `Spec => AwaitedAnswerIsDelivered` (an action property) |
| | `AnswersAreOwn` | `CalmSpec => []AnswerIsOwn` |
| | `TokensMeanAnswers` | `CalmSpec => []TokenMeansAnswer` |
| | `CallsAreSynchronous` | `CalmSpec => ImplementsSyncCall` (the refinement of `SyncCall`) |
| `AtsAudio_proofs` | `ThereIsOnePlayer` | `Spec => []OnePlayer` |
| | `FilesArePlayedInOrder` | `Spec => PlayedInOrder` (an action property) |
| | `NoFileIsStranded` | `Spec => []NoneStranded` |
| | `AShutdownWakes` | `Spec => []ShutdownWakes` |
| `AtsNet_proofs` | `AnswersAreForCalls` | `Spec => []AnswerIsForCall` |
| | `TableAlwaysHoldsSockets` | `Spec => []TableHoldsSockets` |
| | `RequestsAlwaysInOnePlace` | `Spec => []RequestsInOnePlace` |
| | `PatientTasksAreConnected` | `Spec => []ConnectedIfPatient` |
| `AtsTimer_proofs` | `TimersDoNotDangle` | `Spec => []NoDanglingTimer` |
| | `ContextsGoLast` | `Spec => []ContextWindow` |
| | `TimersAreNotEarly` | `Spec => []NotEarly` |
| | `TimerListsAreInStep` | `Spec => []ItemsAreDue` |
| `AtsHost_proofs` | `CasesAlwaysRunAlone` | `Spec => []CasesRunAlone` |
| `AtsServices_proofs` | `ListeningIsForGood` | `Spec => StaysListening` (an action property) |
| | `FramesArriveWhole` | `Spec => []FramesComeThrough` |
| | `ServicesKeepTheChannel` | `AllSpec => StaysListening /\ []FramesComeThrough` |
| | `FramesStayIntact` | `AllSpec => []FramesIntact` |
| | `NothingStaysBehind` | `AllSpec => []NothingLeftBehind` |
| | `ImagesArrive` | `AllSpec => []ImageArrives` |
| | `ClockStaysTrue` | `AllSpec => ClockIsTrue` (an action property) |
| `EmvKernel_proofs` | `SavedStaysCurrent` | `Spec => []SavedIsCurrent` |
| | `ApprovalsAreEarned` | `Spec => []ApprovalIsEarned` |
| | `CvmVerdictHolds` | `Spec => []CvmVerdict` |
| | `PinStaysWithinTries` | `Spec => []PinNotBeyondTries` |
| | `ArcStaysTheHosts` | `Spec => []ArcIsFromHost` |

The arguments.

*Calls.* `SlotInv` joins the type, the ownership of slots, the dispatch's
hold on its slot and the contents of slots. None of the last three is inductive
alone: that a dispatch's slot stays in use needs that only a holder releases it
and only with the mutex free, which needs ownership; that contents stay needs
that no two holders share a slot. `IdInv` says that two calls are as far apart
in ids as in number, modulo one turn of the counter; `IdsRepeatLate` alone says
nothing of the counter. `FrameInv` says that a frame of a call in progress, on
its way or being handled, carries that call's id; with `SlotIntact` it gives that
the waiting call's slot matches, hence `AwaitedAnswerIsDelivered`. One lemma per
action and invariant, split where the action disturbs it.

*Calm calls.* `AnswerIsOwn` speaks of calls that are over; `CalmInv` says what makes
it come true. `IdsApart`: the id of a call in progress is no other call's and is
recorded in no other slot, so the first slot with a frame's id is the right one;
this is where `FreshId` is used. `Once`: every frame, wherever it is, is the only
one of its call, and that call waits and has been told nothing; this is where
`InTime` is used. `Delivery`: what a dispatch has written so far is in the slot and
the buffer of that call. `Told`: a call has its token, or has woken, only with its
answer, and whoever waits for nothing any more has nothing in its buffer; so no
token outlives its call. The refinement needs the same invariant: a time-out maps
to a return of `SyncCall` only because the call has no answer, and the host's
answer to one of its steps only because the call is in progress and has none yet.
Without the conditions `CalmInv` fails where `rpc_own` does, at `IdsApart`.

*Audio.* `OnePlayer` is not inductive: nothing in it keeps a second thread from
starting while a first one does. `PlayerInv` adds what does. The critical section
marks the component's life (`NothingWithoutSection`): as long as nothing undefined
has happened, a start begins only without it, so one thread at a time is inside
`ats_audio_init` (`OneStarter`), none while main clears up (`ClearingIsAlone`),
and a player that lives is the one whose handle shutdown will wait for
(`ThePlayerIsKnown`). `OrderInv` numbers the files as they are queued: those in
the queue rise and come after the one in the player's hand, which comes after the
last one started; that a push or a player's step keeps this needs that there is
one player, so the invariant rests on `PlayerInv`. `NoneStranded` counts tokens:
`TokenInv` says that while the component runs every file of the queue is matched
by a token, by a thread about to give one, or by the player about to take the
file (`Covered`). It holds as long as nothing undefined or beyond the limit has
happened; it needs that the queue is within the semaphore's limit, so that no
token is refused, that the semaphore exists while anyone uses it, and that a
start finds queue and count empty; the last because `ats_audio_shutdown` drains
both. `WakeInv` adds to `ShutdownWakes` where main is once the player is given up.

*Network.* `AnswerIsForCall` lets a call take the answer to another one only if
that one was given up, is of an earlier run, had itself returned with the answer
to another, or shared its id with a second call of its run; each of these happens
in the code, and the proof is that nothing else does. `SlotInv`: who is in a call
has a slot of its own, which bears the call's id once it is sent. `TagInv` says
what an id found in any other slot can be: that of a call that could not be sent,
or of a call of this run that waits with no other slot. `PlacedInv`: a response
carries the id of its call. `OverInv`: a call whose answer is still to come is
waited for, unless it is one of the exceptions. So when a response is matched by a
slot whose task waits for something else, its call and the task's have the same
id in one run, or the response is to a call that is over in one of the ways
excepted; the same holds of what a call finds before it is sent (`EarlyInv`), and
the exceptions, once true, stay (`HistoryGrows`, `AnswerInv`). `AskedInv` says that
a task waits for a call of the run that is on.
`TableInv` puts `TableHoldsSockets` without cardinalities: an entry in use names a
socket that was opened and is open, two entries name two, an entry not in use
names none, an open socket has an entry; the two sets are then in bijection. It
needs `JobInv` - the network thread works on a handle of the table and receives on
a socket that exists - because the thread writes sockets it looked up earlier,
and gets from it that it never opens or closes one. `OneInv` says of each call
that it is in the inbox, among the jobs, in work or answered, in one of these
only and in a queue once; each hand-over takes it out of one and puts it into
another in the same step.
`ConnectedIfPatient` is about a socket two hand-overs away, in behaviours in which
every call has returned with its own answer (what a task makes of another's can
be any handle, so nothing holds beyond). `LinkInv` follows the
entry of the table: in the first run it belongs to the task that holds its
handle, to one request to close it, or to the one response that it was created,
never to two of them (`OwnInv`); that is false after a restart, whose tasks may be
handed an entry that an old request still closes. As long as no connect was given
up or tried twice (`Patient`), a socket no task has connected has no peer, and a
peer changes only where the network thread resolves a connect that has no answer
yet and whose task waits for it; so the peer is the server the answer confirms
(`PeerInv`). That the answer is this connect's is what `mistaken = {}` says. `HeldInv` and `QueueInv` tie a task's handle and the queues to the
call that is open. Each of the exceptions the property names is one this
invariant really needs.

*Timers.* `NoDanglingTimer` follows from `TimerInv`, of five parts. `Messages`: what
is under way is a command for a timer. `LastWords`: nothing follows a deletion in
the queue. `Owned`: a timer whose owner has no handle any more, and only such a
one, has a deletion under way. `Allocated`: whatever is in a list, in the queue or
in work exists. `Apart`: the timer of the command in work is in no list and is not
the one whose callback runs. Freeing a timer then disturbs nothing: its command was
its last (`LastWords`), it is in no list (`Apart`), and its owner is gone
(`Owned`). `ContextWindow` is `Owned` read for the timer that is being called.
Time is read modulo a word, so `TimeInv` ties every reading to what is really
left of a timer (`left`). A start that is still to be carried out is at most
`MaxLate` ticks old (`RecentStarts`); an item of the current list is the tick count
plus what is left, one of the overflow list that less a word (`ListsAreDue`), where
`Shift` adds a word once the count has wrapped and the lists are not exchanged yet; the timer task has looked at the clock since any timer was last started or
reloaded, so that the count has not made a whole turn unseen (`ClockIsRead`,
`OneTurn`). `InHandIsDue` and `CallIsDue` carry this from the list to the callback,
which gives `NotEarly`; `ItemsAreDue` is `ListsAreDue` read modulo the word.
A few lemmas say how distances modulo a word add up; with them the steps are
linear arithmetic. This is where the assumption that a period and twice the
lateness are below the word is used.

*Host.* `RunInv` ties the runner's flag, which a signal resets long after the fact,
to the threads: while a worker has cases left the flag is up, or its last signal
is still queued; so `executeList` finds at most threads that have none left.

*Control register.* `Listening` is what its own steps preserve; the proof shows
that no crossing of the two read-modify-writes loses the bit.

*Bytes to the firmware.* `FramesComeThrough` compares two sequences of frames and
says nothing of bytes. `ReadInv` places them: there are positions at which the
frames sent lie one behind the other up to the end of the stream (`Laid`), and the
reader is after byte c of frame k, with exactly these bytes in `header` and
`payload` - or with none, because frame k was given up and its payload is being
passed over (`Reading`). What was dispatched are the frames before k that were
not given up (`Counts`). Each byte moves all positions by one. A payload passed
over must hold no SOF0 byte, which is the property's hypothesis: without it the
reader may be anywhere, and the invariant claims nothing. No induction over the
length of a payload is needed, because the reader takes one byte in a step.

*Bytes to the host.* Here the reader takes bytes in any portions, a fault cuts the
stream, and sessions follow each other, so the invariant speaks of the bytes the
host has not extracted yet: what is in `rxBuffer` and what is on the connection,
one behind the other. `Complete`: after k extracted frames these are the frames
k + 1 to `whole`, each at the place where the one before ends (`Lay`), and then
that part of the frame in hand which the task has not to write any more (`Part`).
The mutex enters as `FirmInv`: a frame is begun only where none is in hand. After a
crash in the middle of a frame only `Sound` is claimed, the whole frames without
what follows; that is why frames before the crash survive it and why the property
excepts those after. Of the buffer alone `Rests` says that outside the loop it
holds less than the next frame, which gives `NothingLeftBehind`. `Sessionwise` keeps
sessions apart: a session to come has no byte on its connection, and the channel
has one client, so what an old client holds is never counted to the new session.
A buffer that begins with a frame start is in step (`InStep`), so the search for
the first one finds position 1 and no start inside a payload is ever looked at.
A round of the loop takes one frame, so the number of frames in a read needs
no induction.

*Clock.* `ats_timestamp_get` adds a difference of two tick readings, each a
product cut to a word and divided, to a time of the host. `TicksPassed` is the
arithmetic: as long as the product has the same quotient by the word, the difference
is the number of ticks, whatever the word, also one that is no multiple of the tick
rate; `QuotientsDiffer` bounds what is lost where the host's seconds and the
ticks' do not begin together. `ClockInv` says whose pair is in the two words.
`ClockAlone`: a call nobody has crossed is the only one under way. `ClockSettled`:
with no synchronisation under way the pair is that of the last one, if it was
alone; `ClockHeld` says what a call alone holds before that. `ClockOrder` puts the
host's answer between the begin and the end of a synchronisation, which bounds its
age by the time the call took.

*Bitmaps.* Two things have to be true of the encoder at once. Its blocks cover what
it has passed: `Covers` says that there are places at which the blocks begin, each
where the one before ends, and that every block decodes to the pixels between its
place and the next (`Stretch`). So the decoder, which drops a block as it appends its
pixels, has the first pixels of the bitmap before it and blocks that cover the others.
And it has been thrifty: a literal block costs a byte more than its pixels, a run of
two or more nothing. `Thrifty` says that there is a byte for every three pixels
passed at most, but for the two pixels that may be missing after literals that end
before a block is full; those end before a run of at least two, which makes good for
them, or at the end of the pixels, where the worst case rounds up. That a block may
cost a byte more requires blocks of three or more. The encoder's counts are the
greatest numbers with a property. That they exist is an induction, taken from the
library as the well-foundedness of the natural numbers (`LeastOf`, `GreatestOf`).
Being thrifty, the encoding is no longer than the worst case, so a bitmap that
`Fits` has a frame whose length `send_frame` does not cut.

*EMV.* `SavedInv` says at which points of the program session and store agree, and
that steps in between do not end the transaction as a success. `TriesInv` bounds
the card's counter wherever a PIN is asked for. `ArcInv` says that a transaction
begins without a response code and takes one from its host only. `CvmInv` carries
through the loop over the rules which entries have been tried, whether one has
been met, and what the result will be. `FactsInv` says of each point of the
program which of the facts (dates, rights, amount, method) the TVR already
contains, step by step, so that nothing found is lost on the way to the first
GENERATE AC; `EarnedInv` carries the approval, or the host's, over the scripts to
the points where the caller is told. `OnlineInv` says that the caller goes online
only with a cryptogram that is no approval, which a second answer without a type
would leave standing.

Out of the prover's reach and left to TLC: liveness under fairness (`CallReturns`,
`EverythingIsRead`, `EveryFileIsTaken`, `ArmedTimerFires`, `PanelUnlocks`,
`CloseCompletes`, `ProcessReturns`). Every invariant and every action property of a
run that holds is the statement of a theorem.

## 6. Where the code and its documentation part

1. `rpc_own`. `ats_rpc.c` matches answers "exactly by request_id", but a slot
   keeps its last owner's id until the new owner has filled it, outside the
   mutex: a late answer in that window is taken for the new owner's, which
   returns `ATS_EC_OK` with another call's data.
2. `emv_sort`. The candidate list is said to be sorted by priority; the sort
   reads the priority of position i once and compares with it after it has
   swapped the position: 3, 1, 2 becomes 2, 1, 3.
3. `host_names`. The runner's signals carry the name of a case's script, the
   panel looks for the name that is displayed: with names as in the shipped
   configuration no verdict ever appears in the list.

Each is a run that TLC finds violated. `rpc_calm` is the first one's counterpart
that holds, `host` uses names for which the third does not arise.

Visible in the models, and stated in a property as the case it excepts:

- A call's token may be given after it has stopped waiting, and wakes the slot's
  next owner at once (`ats_rpc.c:611`; `TokenMeansAnswer` needs `InTime`).
- The crash report is written at whatever place the stream is; inside a
  half-sent frame the host counts it as that frame's payload and reports nothing
  (`ats_rpc.c:539`; `FramesIntact` is about the tasks' frames).
- `ats_sock_connect` takes a writable socket for a successful connection although
  `connect` itself failed because an earlier, given-up connect has meanwhile
  succeeded: the caller talks to the old server (`ats_net.c:275`;
  `ConnectedIfPatient` excepts it).
- The host owes answers to a channel, not to a run of the firmware: after a
  restart, whose ids begin at 1 again, an old answer is taken by a new call
  (`RpcFrameProcessor.cpp:126`); and what `rpc_own` shows reaches the sockets: the
  answer to a call that was given up, or whose id has come round, is taken by
  another call, a connect for instance, which then reports success
  (`ats_rpc.c:567`, `:579`; the exceptions of `AnswerIsForCall`, and
  `mistaken = {}` in `ConnectedIfPatient`).
- `queue_push` is said to be thread-safe, but nothing keeps the critical section
  alive between the caller's test of `s_audio_running` and its entry
  (`ats_audio.c:192`; `undefined`). Two callers that both find room for the last
  file lose a token (`overfull`). `ats_audio.h` lets shutdown wait for the file
  that is being played; the code stops it.
- A transmission that read the control register before the `rpc_task` first
  enabled the receiver switches it off again (`StaysListening` starts after it);
  a session that connects before the old one's end is handled stays without a
  client.
- The clock's two words, written by calls that cross, may stay a mixed pair for
  good; after about 71 minutes the product of ticks wraps (`ClockIsTrue`).
- A bitmap whose number of pixels does not fit 16 bits is encoded in part and
  refused by the host, silently; the buffer's capacity may wrap as well, and a
  payload of more than 65527 bytes, which a 1-bit bitmap of some 49 140 bytes can
  have, wraps the length of its frame, which is then built past its memory
  (`ats_rpc.c:324`; `ImageArrives` is about the sizes that fit).

Seen while reading, with no comment or test of the repository that says otherwise:
a run that was stopped is logged as one in which all cases passed
(`TestRunner.cpp:57`); the connection to QMP is tried once, right after the start
(`QemuController.cpp:356`); starting the application without firmware marks it
started for good; cases created for a run are never deleted; the crash report
sends 0 for the high byte of UFSR (`ats_rpc.c:508`). In the EMV kernel, a card that
answers ARQC to a request for approval ends the first step with `EMV_OK` and
`need_online` false (`emv_action_analysis.c:148`); a dynamic signature found wrong
after GENERATE AC only sets its bit and leaves the approval (`:122`;
`ApprovalIsEarned` is about the facts of the data, not about this, the cardholder's
verification or the card's counters); a second cryptogram that is a refusal
is returned as `EMV_OK`, to be told apart by its type (`emv_online_complete.c:179`).

## 7. Not modelled

- The decoders of single services, `send_event` payloads and log printing: data,
  without control. Conversion of dates, random numbers, volume: single calls.
- TLS sockets, Wi-Fi and cellular settings: `ats_net.c` frees a TLS context under
  the network thread, a crossing like those of the socket table, in mbedTLS's
  terms; time limits of 0.
- Host printer, files, card reader: calls of the operating system, or drawing,
  one after the other on one thread.
- TLV coding and the building of DOLs, the cryptography of the kernel: functions of
  long byte strings, of which TLC could only try a few.
- Log and address resolver: presentation, and one call of an external tool.
- Third-party code: FreeRTOS but for its timers, mbedTLS (twice in the tree), Lua,
  MQTT, the compiler's headers. They are most of the tree: of some 463 000
  lines only a small part is the program's own, so the share of all lines that
  the map covers stays small whatever is modelled. What this code uses of it
  (semaphore, mutex, socket, UART) is marked external in the map.

## 8. Plan

1. TLS contexts and time limits of 0 in `AtsNet`, with liveness of calls.
2. Printer operations in the middle of a receipt; the card reader on the blocked
   worker.
3. The TLV store as a module of its own under `EmvKernel`.
