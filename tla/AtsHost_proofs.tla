--------------------------- MODULE AtsHost_proofs ---------------------------
(***************************************************************************)
(* Proofs about AtsHost for every set of cases and every bound.            *)
(***************************************************************************)
EXTENDS AtsHost, SequenceFacts, TLAPS

-----------------------------------------------------------------------------
IsWorker(r) ==
  \E pc \in {"loop", "case", "returned", "ended"}, quit \in BOOLEAN :
    \E list, at : r = [pc |-> pc, list |-> list, at |-> at, quit |-> quit]

(* A worker moves on.                                                      *)
LEMMA WorkerMoves ==
  ASSUME NEW r, IsWorker(r), NEW pc \in {"loop", "case", "returned", "ended"},
         NEW u, u = [r EXCEPT !.pc = pc]
  PROVE  IsWorker(u) /\ u.pc = pc
<1>1. PICK p \in {"loop", "case", "returned", "ended"}, q \in BOOLEAN :
         \E l, a : r = [pc |-> p, list |-> l, at |-> a, quit |-> q]
  BY DEF IsWorker
<1>2. PICK l, a : r = [pc |-> p, list |-> l, at |-> a, quit |-> q]
  BY <1>1
<1>3. u = [pc |-> pc, list |-> l, at |-> a, quit |-> q]
  BY <1>2
<1>4. IsWorker(u)
  BY <1>2, <1>3 DEF IsWorker
<1> QED
  BY <1>3, <1>4

(* A worker goes on to the next case.                                      *)
LEMMA WorkerGoesOn ==
  ASSUME NEW r, IsWorker(r),
         NEW u, u = [r EXCEPT !.pc = "loop", !.at = @ + 1]
  PROVE  IsWorker(u) /\ u.pc = "loop"
<1>1. PICK p \in {"loop", "case", "returned", "ended"}, q \in BOOLEAN :
         \E l, a : r = [pc |-> p, list |-> l, at |-> a, quit |-> q]
  BY DEF IsWorker
<1>2. PICK l, a : r = [pc |-> p, list |-> l, at |-> a, quit |-> q]
  BY <1>1
<1>3. PICK next : next = r.at + 1
  OBVIOUS
<1>4. u = [[r EXCEPT !.pc = "loop"] EXCEPT !.at = next]
  BY <1>2, <1>3
<1>5. u = [pc |-> "loop", list |-> l, at |-> next, quit |-> q]
  BY <1>2, <1>4
<1>6. IsWorker(u)
  BY <1>2, <1>5 DEF IsWorker
<1> QED
  BY <1>5, <1>6

(* A worker's thread is told to quit.                                      *)
LEMMA WorkerQuits ==
  ASSUME NEW r, IsWorker(r), NEW quit \in BOOLEAN,
         NEW u, u = [r EXCEPT !.quit = quit]
  PROVE  IsWorker(u) /\ u.pc = r.pc
<1>1. PICK p \in {"loop", "case", "returned", "ended"}, q \in BOOLEAN :
         \E l, a : r = [pc |-> p, list |-> l, at |-> a, quit |-> q]
  BY DEF IsWorker
<1>2. PICK l, a : r = [pc |-> p, list |-> l, at |-> a, quit |-> q]
  BY <1>1
<1>3. u = [pc |-> p, list |-> l, at |-> a, quit |-> quit]
  BY <1>2
<1>4. IsWorker(u)
  BY <1>2, <1>3 DEF IsWorker
<1> QED
  BY <1>2, <1>3, <1>4

Active(w) == workers[w].pc \in {"loop", "case"}

AllDoneAt(i) == i \in 1 .. Len(queue) /\ queue[i].signal = "allDone"

(* A worker with cases left is the last one and belongs to a run; it has   *)
(* not said yet that it is done, which is said once in a run and heard     *)
(* before the next.                                                        *)
RunInv ==
  /\ IsSeq(workers) /\ \A w \in 1 .. Len(workers) : IsWorker(workers[w])
  /\ IsSeq(queue)
  /\ workerThread \in 0 .. Len(workers)
  /\ \A w \in 1 .. Len(workers) : Active(w) => running /\ w = workerThread
  /\ \A i : AllDoneAt(i) => /\ running /\ workerThread # 0
                            /\ ~Active(workerThread)
  /\ \A i, j : AllDoneAt(i) /\ AllDoneAt(j) => i = j
  /\ ui = "join" => /\ running /\ workerThread # 0 /\ ~Active(workerThread)
                    /\ \A i : ~AllDoneAt(i)

(* Telling a worker's thread to quit leaves its worker alone.              *)
LEMMA QuitKeeps ==
  ASSUME RunInv, workerThread # 0,
         workers' = [workers EXCEPT ![workerThread].quit = TRUE]
  PROVE  /\ IsSeq(workers') /\ Len(workers') = Len(workers)
         /\ \A w \in 1 .. Len(workers) :
              /\ IsWorker(workers'[w]) /\ workers'[w].pc = workers[w].pc
<1>1. /\ IsSeq(workers) /\ workerThread \in 1 .. Len(workers)
      /\ \A w \in 1 .. Len(workers) : IsWorker(workers[w])
  BY DEF RunInv
<1>q. PICK quit \in BOOLEAN : quit = TRUE
  OBVIOUS
<1>2. PICK r : r = [workers[workerThread] EXCEPT !.quit = quit]
  OBVIOUS
<1>3. IsWorker(r) /\ r.pc = workers[workerThread].pc
  BY <1>1, <1>2, WorkerQuits
<1>4. IsUpdate(workers', workers, workerThread, r)
  BY <1>q, <1>2 DEF IsUpdate
<1>5. IsSeq(workers')
  BY <1>1, <1>4, ExceptOfSeq
<1>6. Len(workers') = Len(workers)
  BY <1>1, <1>4, ExceptOfSeq
<1>7. workers'[workerThread] = r
  BY <1>1, <1>4, ExceptOfSeq
<1>8. \A w \in 1 .. Len(workers) : w # workerThread => workers'[w] = workers[w]
  BY <1>1, <1>4, ExceptOfSeq
<1> QED
  BY <1>1, <1>3, <1>5, <1>6, <1>7, <1>8

(* A new worker, when there is no run whose end is still to be heard of.   *)
LEMMA StartKeeps ==
  ASSUME RunInv, NEW list, StartWorker(list), running',
         \A w \in 1 .. Len(workers) : ~Active(w), \A i : ~AllDoneAt(i),
         UNCHANGED queue
  PROVE  RunInv'
<1> DEFINE r == [pc |-> "loop", list |-> list, at |-> 1, quit |-> FALSE]
<1>1. workers' = Append(workers, r) /\ workerThread' = Len(workers) + 1
      /\ ui' = "idle"
  BY DEF StartWorker
<1>2. IsWorker(r)
  BY DEF IsWorker
<1> HIDE DEF r
<1>3. /\ IsSeq(workers') /\ Len(workers) \in Nat
      /\ Len(workers') = Len(workers) + 1
      /\ \A w \in 1 .. Len(workers) : workers'[w] = workers[w]
      /\ workers'[Len(workers) + 1] = r
  BY <1>1, AppendToSeq DEF RunInv
<1>4. \A w \in 1 .. Len(workers') : Active(w)' => w = workerThread'
  BY <1>1, <1>3 DEF Active
<1>5. \A i : ~AllDoneAt(i)'
  BY DEF AllDoneAt
<1>6. \A w \in 1 .. Len(workers') : IsWorker(workers'[w])
  BY <1>2, <1>3 DEF RunInv
<1>7. IsSeq(queue')
  BY DEF RunInv
<1> QED
  BY <1>1, <1>3, <1>4, <1>5, <1>6, <1>7 DEF RunInv

(* Steps that leave the runs alone.                                        *)
LEMMA RunApart ==
  ASSUME RunInv, UNCHANGED <<workers, queue, workerThread, running>>,
         ui' = "join" => ui = "join"
  PROVE  RunInv'
BY DEF RunInv, Active, AllDoneAt

(* The inductive step of RunInv.                                           *)
LEMMA RunStep == RunInv /\ [Next]_vars => RunInv'
<1> SUFFICES ASSUME RunInv, [Next]_vars PROVE RunInv'
  OBVIOUS
<1>1. ASSUME NEW S, RunScripts(S) PROVE RunInv'
  <2>1. CASE running
    BY <1>1, <2>1, RunApart DEF RunScripts, runner
  <2>2. CASE ~running
    <3>1. /\ \A w \in 1 .. Len(workers) : ~Active(w)
          /\ \A i : ~AllDoneAt(i)
          /\ running' /\ UNCHANGED queue
      BY <1>1, <2>2 DEF RunScripts, RunInv
    <3>2. CASE workerThread = 0
      BY <1>1, <2>2, <3>1, <3>2, StartKeeps DEF RunScripts
    <3>3. CASE workerThread # 0
      <4>1. /\ workers' = [workers EXCEPT ![workerThread].quit = TRUE]
            /\ workerThread' = workerThread
        BY <1>1, <2>2, <3>3 DEF RunScripts
      <4>2. /\ IsSeq(workers') /\ Len(workers') = Len(workers)
            /\ \A w \in 1 .. Len(workers) :
                 IsWorker(workers'[w]) /\ workers'[w].pc = workers[w].pc
        BY <3>3, <4>1, QuitKeeps
      <4>3. \A w \in 1 .. Len(workers') : ~Active(w)'
        BY <3>1, <4>2 DEF Active
      <4>4. \A i : ~AllDoneAt(i)'
        BY <3>1 DEF AllDoneAt
      <4>5. \A w \in 1 .. Len(workers') : IsWorker(workers'[w])
        BY <4>2
      <4>6. workerThread \in 1 .. Len(workers')
        BY <3>3, <4>2 DEF RunInv
      <4>7. ~Active(workerThread)'
        BY <4>1, <4>3, <4>6
      <4>8. IsSeq(queue')
        BY <3>1 DEF RunInv
      <4> QED
        BY <3>1, <3>3, <4>1, <4>2, <4>3, <4>4, <4>5, <4>6, <4>7, <4>8
        DEF RunInv
    <3> QED
      BY <3>2, <3>3
  <2> QED
    BY <2>1, <2>2
<1>2. CASE Join
  <2>1. /\ \A w \in 1 .. Len(workers) : ~Active(w)
        /\ \A i : ~AllDoneAt(i)
        /\ running' /\ UNCHANGED queue
    BY <1>2 DEF Join, RunInv
  <2> QED
    BY <1>2, <2>1, StartKeeps DEF Join
<1>3. CASE JoinFails \/ StopRequested \/ ImportElf \/ StartApp \/ StartQemu
  BY <1>3, RunApart DEF JoinFails, StopRequested, ImportElf, StartApp,
                        StartQemu, tests, runner
<1>4. CASE StopTimeout \/ OnCrashMessage \/ Destroyed \/ ProcessEnds
           \/ AppExits \/ QmpEvent
  BY <1>4, RunApart DEF StopTimeout, OnCrashMessage, Stop, Destroyed,
                        ProcessEnds, AppExits, QmpEvent, tests, runner
<1>5. CASE OnProcessFinished
  BY <1>5, RunApart DEF OnProcessFinished, tests, runner
<1>6. CASE CloseClicked \/ PostedClose
  <2>1. CASE CloseFirst
    BY <2>1, RunApart DEF CloseFirst, Stop, tests, runner
  <2>2. CASE CloseNow /\ workerThread = 0
    BY <2>2, RunApart DEF CloseNow
  <2>3. CASE CloseNow /\ workerThread # 0
    <3>1. /\ IsSeq(workers') /\ Len(workers') = Len(workers)
          /\ \A w \in 1 .. Len(workers) :
               IsWorker(workers'[w]) /\ workers'[w].pc = workers[w].pc
      BY <2>3, QuitKeeps DEF CloseNow
    <3>2. /\ UNCHANGED <<queue, workerThread, running>>
          /\ ui' = "destroy"
      BY <2>3 DEF CloseNow
    <3> QED
      BY <3>1, <3>2 DEF RunInv, Active, AllDoneAt
  <2> QED
    BY <1>6, <2>1, <2>2, <2>3 DEF CloseClicked, PostedClose
<1>7. CASE OnTestStarted \/ OnTestFinished
  <2>1. /\ queue # <<>> /\ queue' = Tail(queue) /\ ui' = ui
        /\ UNCHANGED <<workers, workerThread, running>>
    BY <1>7 DEF OnTestStarted, OnTestFinished, Signal
  <2>2. \A i : AllDoneAt(i)' => AllDoneAt(i + 1) /\ i \in Nat
    BY <2>1, TailOfSeq DEF RunInv, AllDoneAt
  <2>3. IsSeq(queue')
    BY <2>1, TailOfSeq DEF RunInv
  <2>4. \A i, j : AllDoneAt(i)' /\ AllDoneAt(j)' => i = j
    <3> SUFFICES ASSUME NEW i, NEW j, AllDoneAt(i)', AllDoneAt(j)'
                 PROVE  i = j
      OBVIOUS
    <3>1. i + 1 = j + 1 /\ i \in Nat /\ j \in Nat
      BY <2>2 DEF RunInv
    <3> QED
      BY <3>1
  <2> QED
    BY <2>1, <2>2, <2>3, <2>4 DEF RunInv, Active
<1>8. CASE OnAllDone
  <2>1. /\ queue # <<>> /\ queue' = Tail(queue) /\ ui' = "idle"
        /\ Head(queue).signal = "allDone" /\ UNCHANGED workerThread
    BY <1>8 DEF OnAllDone, Signal
  <2>2. AllDoneAt(1)
    BY <2>1, TailOfSeq DEF RunInv, AllDoneAt
  <2>3. \A i : ~AllDoneAt(i)'
    <3> SUFFICES ASSUME NEW i, AllDoneAt(i)' PROVE FALSE
      OBVIOUS
    <3>1. AllDoneAt(i + 1) /\ i \in Nat \ {0}
      BY <2>1, TailOfSeq DEF RunInv, AllDoneAt
    <3>2. i + 1 = 1
      BY <2>2, <3>1 DEF RunInv
    <3> QED
      BY <3>1, <3>2
  <2>4. workerThread # 0 /\ \A w \in 1 .. Len(workers) : ~Active(w)
    BY <2>2 DEF RunInv
  <2>5. /\ IsSeq(workers') /\ Len(workers') = Len(workers)
        /\ \A w \in 1 .. Len(workers) :
             IsWorker(workers'[w]) /\ workers'[w].pc = workers[w].pc
    BY <1>8, <2>4, QuitKeeps DEF OnAllDone
  <2>6. IsSeq(queue')
    BY <2>1, TailOfSeq DEF RunInv
  <2> QED
    BY <2>1, <2>3, <2>4, <2>5, <2>6 DEF RunInv, Active
<1>9. ASSUME NEW w \in 1 .. Len(workers), Worker(w) PROVE RunInv'
  <2>w. ASSUME NEW pc, NEW r, WorkerStep(w, pc, r)
        PROVE  /\ workers[w].pc = pc
               /\ UNCHANGED <<ui, workerThread, running>>
               /\ IsSeq(workers') /\ Len(workers') = Len(workers)
               /\ workers'[w] = r
               /\ \A v \in 1 .. Len(workers) :
                    v # w => workers'[v] = workers[v]
    <3>1. /\ workers[w].pc = pc
          /\ UNCHANGED <<ui, workerThread, running>>
          /\ IsUpdate(workers', workers, w, r)
      BY <2>w DEF WorkerStep, IsUpdate
    <3>2. IsSeq(workers)
      BY DEF RunInv
    <3>3. IsSeq(workers')
      BY <3>1, <3>2, ExceptOfSeq
    <3>4. Len(workers') = Len(workers)
      BY <3>1, <3>2, ExceptOfSeq
    <3>6. workers'[w] = r
      BY <3>1, <3>2, ExceptOfSeq
    <3>5. \A v \in 1 .. Len(workers) :
            v # w => workers'[v] = workers[v]
      BY <3>1, <3>2, ExceptOfSeq
    <3> QED
      BY <3>1, <3>3, <3>4, <3>5, <3>6
  <2>i. IsWorker(workers[w])
    BY DEF RunInv
  <2>1. ASSUME NEW e, queue' = Append(queue, e), e.signal # "allDone"
        PROVE  IsSeq(queue') /\ \A i : AllDoneAt(i)' => AllDoneAt(i)
    BY <2>1, AppendToSeq DEF RunInv, AllDoneAt
  <2>2. CASE StartCase(w)
    <3> DEFINE r == [workers[w] EXCEPT !.pc = "case"]
    <3>1. WorkerStep(w, "loop", r)
      BY <2>2 DEF StartCase
    <3>2. r = [workers[w] EXCEPT !.pc = "case"]
      OBVIOUS
    <3> HIDE DEF r
    <3>r. IsWorker(r) /\ r.pc = "case"
      BY <2>i, <3>2, WorkerMoves
    <3>3. IsSeq(queue') /\ \A i : AllDoneAt(i)' => AllDoneAt(i)
      BY <2>1, <2>2 DEF StartCase
    <3> QED
      BY <3>1, <3>r, <3>3, <2>w DEF RunInv, Active
  <2>3. CASE FinishCase(w)
    <3> DEFINE r == [workers[w] EXCEPT !.pc = "loop", !.at = @ + 1]
    <3>1. WorkerStep(w, "case", r)
      BY <2>3 DEF FinishCase
    <3>2. r = [workers[w] EXCEPT !.pc = "loop", !.at = @ + 1]
      OBVIOUS
    <3> HIDE DEF r
    <3>r. IsWorker(r) /\ r.pc = "loop"
      BY <2>i, <3>2, WorkerGoesOn
    <3>3. IsSeq(queue') /\ \A i : AllDoneAt(i)' => AllDoneAt(i)
      <4>1. PICK v \in Verdicts :
              queue' = Append(queue,
                         [signal |-> "testFinished",
                          name |-> Base[workers[w].list[workers[w].at]],
                          verdict |-> v])
        BY <2>3 DEF FinishCase
      <4> QED
        BY <2>1, <4>1
    <3> QED
      BY <3>1, <3>r, <3>3, <2>w DEF RunInv, Active
  <2>4. CASE AllDone(w)
    <3> DEFINE r == [workers[w] EXCEPT !.pc = "returned"]
    <3>1. WorkerStep(w, "loop", r)
      BY <2>4 DEF AllDone
    <3>2. r = [workers[w] EXCEPT !.pc = "returned"]
      OBVIOUS
    <3> HIDE DEF r
    <3>r. IsWorker(r) /\ r.pc = "returned"
      BY <2>i, <3>2, WorkerMoves
    <3>3. /\ Active(w) /\ running /\ w = workerThread /\ workerThread # 0
          /\ \A i : ~AllDoneAt(i)
      BY <3>1, <2>w DEF Active, RunInv
    <3>4. IsSeq(queue') /\ \A i : AllDoneAt(i)' => i = Len(queue) + 1
      BY <2>4, <3>3, AppendToSeq DEF AllDone, RunInv, AllDoneAt
    <3>5. ui' # "join"
      BY <3>1, <3>3, <2>w DEF RunInv
    <3>6. /\ IsSeq(workers') /\ Len(workers') = Len(workers)
          /\ \A v \in 1 .. Len(workers') : IsWorker(workers'[v])
          /\ UNCHANGED <<workerThread, running>>
      BY <3>1, <3>r, <2>w DEF RunInv
    <3>7. \A v \in 1 .. Len(workers') : ~Active(v)'
      BY <3>1, <3>r, <3>3, <2>w DEF RunInv, Active
    <3>8. \A i, j : AllDoneAt(i)' /\ AllDoneAt(j)' => i = j
      BY <3>4
    <3> QED
      BY <3>3, <3>4, <3>5, <3>6, <3>7, <3>8 DEF RunInv
  <2>5. CASE EndThread(w)
    <3> DEFINE r == [workers[w] EXCEPT !.pc = "ended"]
    <3>1. WorkerStep(w, "returned", r) /\ UNCHANGED queue
      BY <2>5 DEF EndThread
    <3>2. r = [workers[w] EXCEPT !.pc = "ended"]
      OBVIOUS
    <3> HIDE DEF r
    <3>r. IsWorker(r) /\ r.pc = "ended"
      BY <2>i, <3>2, WorkerMoves
    <3> QED
      BY <3>1, <3>r, <2>w DEF RunInv, Active, AllDoneAt
  <2> QED
    BY <1>9, <2>2, <2>3, <2>4, <2>5 DEF Worker
<1>10. CASE UNCHANGED vars
  BY <1>10, RunApart DEF vars, tests, runner
<1> QED
  BY <1>1, <1>2, <1>3, <1>4, <1>5, <1>6, <1>7, <1>8, <1>9, <1>10
  DEF Next, User, EventLoop, Blocked, OnSignal

(* Cases of two runs never run at the same time, and where executeList     *)
(* waits for the thread of the last run, that has no case left.            *)
THEOREM CasesAlwaysRunAlone == Spec => []CasesRunAlone
<1>1. Init => RunInv
  <2> SUFFICES ASSUME Init PROVE RunInv
    OBVIOUS
  <2>1. IsSeq(<<>>)
    BY <<>> \in Seq({}) DEF IsSeq
  <2> QED
    BY <2>1 DEF Init, RunInv, AllDoneAt
<1>2. RunInv => CasesRunAlone
  <2> SUFFICES ASSUME RunInv PROVE CasesRunAlone
    OBVIOUS
  <2>1. ASSUME NEW v \in 1 .. Len(workers), NEW w \in 1 .. Len(workers),
               {workers[v].pc, workers[w].pc} \subseteq {"loop", "case"}
        PROVE  v = w
    BY <2>1 DEF RunInv, Active
  <2>2. ASSUME ui = "join"
        PROVE  workers[workerThread].pc \in {"returned", "ended"}
    <3>1. ~Active(workerThread) /\ IsWorker(workers[workerThread])
      BY <2>2 DEF RunInv
    <3> QED
      BY <3>1 DEF Active, IsWorker
  <2> QED
    BY <2>1, <2>2 DEF CasesRunAlone
<1> QED
  BY <1>1, <1>2, RunStep, PTL DEF Spec
=============================================================================
