------------------------------ MODULE AtsHost ------------------------------
(***************************************************************************)
(* The host program around the RPC server: the main window and its test    *)
(* case panel on the UI thread, the TestRunner with a worker thread for    *)
(* each run, the QemuController with its QEMU process and QMP connection,  *)
(* and the AppThread.  The worker reaches the window only by queued        *)
(* signals; the UI thread blocks where the code waits for a thread or for  *)
(* the process.                                                            *)
(***************************************************************************)
EXTENDS Integers, Sequences, SequencesExt, FiniteSets

CONSTANTS
  Items,      (* the configured cases, by the name shown in the list       *)
  Base,       (* of each its script's base name, the name of its TestCase  *)
  Verdicts,   (* what scripts may return: "PASS", "FAIL"                   *)
  MaxRuns,    (* bound on test runs                                        *)
  MaxStarts,  (* bound on starts of QEMU                                   *)
  MaxCrashes  (* bound on crash reports                                    *)

VARIABLES
  ui,            (* where the UI thread is                                 *)
  (* TestCasesPanel and the signals queued for the UI thread               *)
  btnRun, btnStop, shown, queue,
  (* TestRunner                                                            *)
  running, stopRequest, selected, workerThread, workers,
  (* QemuController, its process and its QMP socket                        *)
  process, asked, qmp, negotiated, shuttingDown,
  (* MainWindow and AppThread                                              *)
  elf, appStarted, appThread, enabled, closePending, closePosted,
  (* history *)
  verdict,       (* of each case what its last run returned                *)
  starts, crashes

panel  == <<btnRun, btnStop, shown>>
runner == <<running, stopRequest, selected, workerThread, workers>>
tests  == <<panel, queue, runner, verdict>>
qemu   == <<process, asked, qmp, negotiated, shuttingDown>>
window == <<elf, appStarted, appThread, enabled, closePending, closePosted>>
vars   == <<ui, tests, qemu, window, starts, crashes>>

Init ==
  /\ ui = "idle"
  /\ btnRun = TRUE /\ btnStop = FALSE
  /\ shown = [i \in Items |-> "-"]
  /\ queue = <<>>
  /\ running = FALSE /\ stopRequest = FALSE
  /\ selected = <<>>
  /\ workerThread = 0 /\ workers = <<>>
  /\ process = "off" /\ asked = "-"
  /\ qmp = "closed" /\ negotiated = FALSE /\ shuttingDown = FALSE
  /\ elf = FALSE /\ appStarted = FALSE /\ appThread = FALSE
  /\ enabled = TRUE /\ closePending = FALSE /\ closePosted = FALSE
  /\ verdict = [i \in Items |-> "-"]
  /\ starts = 0 /\ crashes = 0

Alive == ui \notin {"closed", "aborted"}

-----------------------------------------------------------------------------
(* TestRunner on the UI thread.                                            *)

(* The rest of executeList: a new worker in a new thread.                  *)
StartWorker(list) ==
  /\ workers' = Append(workers, [pc |-> "loop", list |-> list, at |-> 1,
                                 quit |-> FALSE])
  /\ workerThread' = Len(workers) + 1
  /\ ui' = "idle"

(* runScriptsRequested, runScripts and executeList, up to the wait for the *)
(* thread of the previous run.  The cases come in the order of a QMap.     *)
RunScripts(S) ==
  /\ ui = "idle" /\ enabled /\ btnRun
  /\ Len(workers) < MaxRuns
  /\ btnRun' = FALSE /\ btnStop' = TRUE
  /\ IF running
     THEN UNCHANGED <<ui, runner>>
     ELSE /\ running' = TRUE /\ stopRequest' = FALSE
          /\ selected' = SetToSeq(S)
          /\ IF workerThread = 0
             THEN StartWorker(SetToSeq(S))
             ELSE /\ workers' = [workers EXCEPT ![workerThread].quit = TRUE]
                  /\ ui' = "join"
                  /\ UNCHANGED workerThread
  /\ UNCHANGED <<shown, queue, verdict, qemu, window, starts, crashes>>

Join ==
  /\ ui = "join"
  /\ workers[workerThread].pc = "ended"
  /\ StartWorker(selected)
  /\ UNCHANGED <<panel, queue, running, stopRequest, selected, verdict,
                 qemu, window, starts, crashes>>

(* The wait of 3 s is over, which takes a case: Qt ends a program that     *)
(* deletes a running thread.  So it is in the destructor of TestRunner.    *)
JoinFails ==
  /\ ui \in {"join", "destroy"}
  /\ workerThread # 0
  /\ workers[workerThread].pc = "case"
  /\ ui' = "aborted"
  /\ UNCHANGED <<tests, qemu, window, starts, crashes>>

(* Mutant: stopping counts as the end of the run.                          *)
StopRequestedEnds ==
  /\ ui = "idle" /\ enabled /\ btnStop
  /\ btnStop' = FALSE /\ btnRun' = TRUE
  /\ stopRequest' = TRUE /\ running' = FALSE
  /\ UNCHANGED <<ui, shown, queue, selected, workerThread, workers,
                 verdict, qemu, window, starts, crashes>>

StopRequested ==
  /\ ui = "idle" /\ enabled /\ btnStop
  /\ btnStop' = FALSE
  /\ stopRequest' = TRUE
  /\ UNCHANGED <<ui, btnRun, shown, queue, running, selected, workerThread,
                 workers, verdict, qemu, window, starts, crashes>>

-----------------------------------------------------------------------------
(* TestWorker::execute in the worker's thread.                             *)

WorkerStep(w, pc, next) ==
  /\ Alive
  /\ workers[w].pc = pc
  /\ workers' = [workers EXCEPT ![w] = next]
  /\ UNCHANGED <<ui, panel, running, selected, workerThread,
                 qemu, window, starts, crashes>>

StartCase(w) ==
  LET me == workers[w] IN
  /\ WorkerStep(w, "loop", [me EXCEPT !.pc = "case"])
  /\ ~stopRequest /\ me.at <= Len(me.list)
  /\ queue' = Append(queue, [signal |-> "testStarted",
                             name |-> Base[me.list[me.at]]])
  /\ UNCHANGED <<stopRequest, verdict>>

(* The script has come to its end, by itself or by an error.               *)
FinishCase(w) ==
  LET me == workers[w] IN
  /\ WorkerStep(w, "case", [me EXCEPT !.pc = "loop", !.at = @ + 1])
  /\ \E v \in Verdicts :
       /\ queue' = Append(queue, [signal |-> "testFinished",
                                  name |-> Base[me.list[me.at]],
                                  verdict |-> v])
       /\ verdict' = [verdict EXCEPT ![me.list[me.at]] = v]
  /\ UNCHANGED stopRequest

AllDone(w) ==
  LET me == workers[w] IN
  /\ WorkerStep(w, "loop", [me EXCEPT !.pc = "returned"])
  /\ stopRequest \/ me.at > Len(me.list)
  /\ queue' = Append(queue, [signal |-> "allDone"])
  /\ UNCHANGED <<stopRequest, verdict>>

(* The thread leaves its event loop.                                       *)
EndThread(w) ==
  /\ workers[w].quit
  /\ WorkerStep(w, "returned", [workers[w] EXCEPT !.pc = "ended"])
  /\ UNCHANGED <<queue, stopRequest, verdict>>

Worker(w) == StartCase(w) \/ FinishCase(w) \/ AllDone(w) \/ EndThread(w)

-----------------------------------------------------------------------------
(* The signals at the UI thread.                                           *)

(* updateStatus looks for the item whose shown name is the case's name.    *)
UpdateStatus(name, status) ==
  shown' = [i \in Items |-> IF i = name THEN status ELSE shown[i]]

Signal(s) ==
  /\ ui = "idle" /\ queue # <<>>
  /\ Head(queue).signal = s
  /\ queue' = Tail(queue)
  /\ UNCHANGED <<ui, stopRequest, selected, workerThread, verdict,
                 qemu, window, starts, crashes>>

OnTestStarted ==
  /\ Signal("testStarted")
  /\ UpdateStatus(Head(queue).name, "Running")
  /\ UNCHANGED <<btnRun, btnStop, running, workers>>

OnTestFinished ==
  /\ Signal("testFinished")
  /\ UpdateStatus(Head(queue).name, Head(queue).verdict)
  /\ UNCHANGED <<btnRun, btnStop, running, workers>>

(* Mutant: a stopped run is not unlocked.                                  *)
OnAllDoneUnlessStopped ==
  /\ Signal("allDone")
  /\ running' = FALSE
  /\ btnRun' = ~stopRequest /\ btnStop' = FALSE
  /\ workers' = [workers EXCEPT ![workerThread].quit = TRUE]
  /\ UNCHANGED shown

(* The handler in executeList, and onAllTestsFinished.                     *)
OnAllDone ==
  /\ Signal("allDone")
  /\ running' = FALSE
  /\ btnRun' = TRUE /\ btnStop' = FALSE
  /\ workers' = [workers EXCEPT ![workerThread].quit = TRUE]
  /\ UNCHANGED shown

OnSignal == OnTestStarted \/ OnTestFinished \/ OnAllDone

-----------------------------------------------------------------------------
(* QemuController.                                                         *)

IsRunning == process # "off"

(* stop() up to its first wait: quit by QMP, or terminate.                 *)
Stop ==
  IF qmp = "open" /\ negotiated /\ ~shuttingDown
  THEN shuttingDown' = TRUE /\ asked' = "quit" /\ ui' = "quit"
  ELSE asked' = "terminate" /\ ui' = "terminate" /\ UNCHANGED shuttingDown

(* A wait of stop() is over without the process having ended.              *)
StopTimeout ==
  /\ process = "on"
  /\ \/ /\ ui = "quit"
        /\ ui' = "terminate" /\ asked' = "terminate"
     \/ /\ ui = "terminate"
        /\ ui' = "kill" /\ asked' = "kill"
     \/ /\ ui = "kill"
        /\ ui' = "idle" /\ UNCHANGED asked
  /\ UNCHANGED <<tests, process, qmp, negotiated, shuttingDown, window,
                 starts, crashes>>

(* Mutant: the window forgets that it is to close.                         *)
OnProcessFinishedForgets ==
  /\ process = "dead"
  /\ ui \in {"idle", "quit", "terminate", "kill"}
  /\ ui' = "idle" /\ process' = "off" /\ asked' = "-"
  /\ appStarted' = FALSE
  /\ closePending' = FALSE
  /\ qmp' = IF qmp = "closed" THEN qmp ELSE "lost"
  /\ UNCHANGED <<tests, negotiated, shuttingDown, elf, appThread, enabled,
                 closePosted, starts, crashes>>

(* The end of the process is noticed by the event loop or by a wait of     *)
(* stop(), which returns; onProcessFinished and the window's handler of    *)
(* stopped.  The QMP connection has been lost with the process.            *)
OnProcessFinished ==
  /\ process = "dead"
  /\ ui \in {"idle", "quit", "terminate", "kill"}
  /\ ui' = "idle" /\ process' = "off" /\ asked' = "-"
  /\ appStarted' = FALSE
  /\ closePending' = FALSE
  /\ closePosted' = (closePosted \/ closePending)
  /\ qmp' = IF qmp = "closed" THEN qmp ELSE "lost"
  /\ UNCHANGED <<tests, negotiated, shuttingDown, elf, appThread, enabled,
                 starts, crashes>>

(* The process ends by itself, as it was asked to, or killed.              *)
ProcessEnds ==
  /\ Alive /\ process = "on"
  /\ process' = "dead"
  /\ UNCHANGED <<ui, tests, asked, qmp, negotiated, shuttingDown, window,
                 starts, crashes>>

(* The QMP connection is tried once: QEMU may not listen yet.  A greeting  *)
(* is answered by qmp_capabilities, any return is taken for its success.   *)
QmpEvent ==
  /\ ui = "idle"
  /\ \/ /\ qmp = "connecting" /\ qmp' \in {"open", "closed"}
        /\ UNCHANGED negotiated
     \/ /\ qmp = "open" /\ process = "on"
        /\ negotiated' = TRUE /\ UNCHANGED qmp
     \/ /\ qmp = "lost"
        /\ qmp' = "closed" /\ negotiated' = FALSE
  /\ UNCHANGED <<ui, tests, process, asked, shuttingDown, window,
                 starts, crashes>>

-----------------------------------------------------------------------------
(* MainWindow.                                                             *)

(* onImportElf, its dialog included.                                       *)
ImportElf ==
  /\ ui = "idle" /\ enabled
  /\ ~appStarted /\ ~IsRunning
  /\ elf' = TRUE
  /\ UNCHANGED <<ui, tests, qemu, appStarted, appThread, enabled,
                 closePending, closePosted, starts, crashes>>

(* startAppRequested without a firmware: AppThread::startApp.              *)
StartApp ==
  /\ ui = "idle" /\ enabled
  /\ ~appStarted /\ ~elf
  /\ appStarted' = TRUE
  /\ appThread' = TRUE
  /\ UNCHANGED <<ui, tests, qemu, elf, enabled, closePending, closePosted,
                 starts, crashes>>

(* ats_main returns; nobody is told.                                       *)
AppExits ==
  /\ Alive /\ appThread
  /\ appThread' = FALSE
  /\ UNCHANGED <<ui, tests, qemu, elf, appStarted, enabled, closePending,
                 closePosted, starts, crashes>>

(* startQemuWithImportedElf and QemuController::start; the executable may  *)
(* be missing or fail to start.  A socket still in use is not connected    *)
(* again.                                                                  *)
StartQemu ==
  /\ ui = "idle" /\ enabled
  /\ ~appStarted /\ elf /\ ~IsRunning
  /\ starts < MaxStarts /\ starts' = starts + 1
  /\ negotiated' = FALSE /\ shuttingDown' = FALSE
  /\ \/ /\ process' = "on" /\ appStarted' = TRUE
        /\ qmp' = IF qmp = "closed" THEN "connecting" ELSE qmp
     \/ UNCHANGED <<process, appStarted, qmp>>
  /\ UNCHANGED <<ui, tests, asked, elf, appThread, enabled, closePending,
                 closePosted, crashes>>

(* A crash report of the firmware.                                         *)
OnCrashMessage ==
  /\ ui = "idle" /\ IsRunning
  /\ crashes < MaxCrashes /\ crashes' = crashes + 1
  /\ Stop
  /\ UNCHANGED <<tests, process, qmp, negotiated, window, starts>>

(* closeEvent: QEMU is stopped first and the event ignored; the window is  *)
(* closed again when the process has ended.                                *)
CloseFirst ==
  /\ IsRunning /\ ~closePending
  /\ closePending' = TRUE /\ enabled' = FALSE
  /\ Stop
  /\ UNCHANGED <<tests, process, qmp, negotiated, elf, appStarted,
                 appThread, starts, crashes>>

(* The event loop ends; the destructors of the window and of TestRunner.   *)
CloseNow ==
  /\ ~IsRunning
  /\ ui' = "destroy"
  /\ enabled' = TRUE
  /\ stopRequest' = TRUE
  /\ workers' = IF workerThread = 0 THEN workers
                ELSE [workers EXCEPT ![workerThread].quit = TRUE]
  /\ UNCHANGED <<panel, queue, running, selected, workerThread, verdict,
                 qemu, elf, appStarted, appThread, closePending, starts,
                 crashes>>

CloseClicked ==
  /\ ui = "idle" /\ UNCHANGED closePosted
  /\ CloseFirst \/ CloseNow

PostedClose ==
  /\ ui = "idle" /\ closePosted /\ closePosted' = FALSE
  /\ CloseFirst \/ CloseNow

Destroyed ==
  /\ ui = "destroy"
  /\ workerThread # 0 => workers[workerThread].pc = "ended"
  /\ ui' = "closed"
  /\ UNCHANGED <<tests, qemu, window, starts, crashes>>

-----------------------------------------------------------------------------
User == \/ \E S \in SUBSET Items \ {{}} : RunScripts(S)
        \/ StopRequested \/ ImportElf \/ StartApp \/ StartQemu \/ CloseClicked

EventLoop == OnSignal \/ OnProcessFinished \/ QmpEvent \/ PostedClose

Blocked == Join \/ JoinFails \/ StopTimeout \/ Destroyed

Next == \/ User \/ EventLoop \/ Blocked \/ OnCrashMessage
        \/ \E w \in 1 .. Len(workers) : Worker(w)
        \/ ProcessEnds \/ AppExits

Spec == Init /\ [][Next]_vars

(* Scripts come to an end, threads and the event loop go on, waits end,    *)
(* and a killed process dies.                                              *)
FairSpec ==
  /\ Spec
  /\ \A w \in 1 .. MaxRuns : WF_vars(w <= Len(workers) /\ Worker(w))
  /\ WF_vars(OnSignal) /\ WF_vars(OnProcessFinished) /\ WF_vars(PostedClose)
  /\ WF_vars(Blocked)
  /\ WF_vars(asked = "kill" /\ ProcessEnds)

-----------------------------------------------------------------------------
(* Cases of two runs never run at the same time although every run has a   *)
(* thread of its own and running is reset by a signal: where executeList   *)
(* waits for the thread of the last run, that has no case left to run, so  *)
(* that its 3 s always suffice.                                            *)
CasesRunAlone ==
  /\ \A v, w \in 1 .. Len(workers) :
       {workers[v].pc, workers[w].pc} \subseteq {"loop", "case"} => v = w
  /\ ui = "join" => workers[workerThread].pc \in {"returned", "ended"}

Gone == ~Alive

(* The buttons that start a run are unlocked after every run, stopped or   *)
(* not, unless the program ends.                                           *)
PanelUnlocks == ~btnRun ~> btnRun \/ Gone

(* A window closed while QEMU runs does close, once stop() or the kill it  *)
(* ends with has taken effect, whether the process ends within a wait of   *)
(* stop() or after it.                                                     *)
CloseCompletes == closePending ~> Gone

(* When the signals of a run are handled the list shows of each case what  *)
(* its last run returned: TestRunner.h promises the window the progress    *)
(* and the results, "发出进度/结果信号给 UI".                                *)
VerdictIsShown ==
  ~running /\ queue = <<>> =>
    \A i \in Items : verdict[i] # "-" => shown[i] = verdict[i]
=============================================================================
