------------------------------ MODULE AtsAudio ------------------------------
(***************************************************************************)
(* The host's audio player (ATS_app/sdk/ats_audio.c): a queue of files     *)
(* that any thread may add to, and one thread that plays them.  The player *)
(* is started by the first use, whichever thread makes it: a caller of     *)
(* ats_audio_play_file (the RPC worker, or the threads of a firmware that  *)
(* runs on the host) or the status panel, which asks for the length of the *)
(* queue twice a second.  When the event loop ends, main shuts the player  *)
(* down, while the callers may still run.                                  *)
(*                                                                         *)
(* To use a critical section or semaphore that does not exist, to create   *)
(* one that does, or to close one that is waited for has no defined        *)
(* outcome; a behaviour of the model ends there.                           *)
(***************************************************************************)
EXTENDS Integers, Sequences, FiniteSets

CONSTANTS
  Callers,             (* threads that call ats_audio_play_file            *)
  UI,                  (* the thread of main and the status panel          *)
  ATS_AUDIO_QUEUE_MAX, (* limit of the queue                               *)
  MaxThreads,          (* bound on the player threads ever created         *)
  MaxFiles,            (* bound on the files queued, one per caller beyond *)
  None

ASSUME ConstantsAssumption ==
  /\ UI \notin Callers /\ IsFiniteSet(Callers)
  /\ ATS_AUDIO_QUEUE_MAX \in Nat \ {0}
  /\ MaxThreads \in Nat \ {0} /\ MaxFiles \in Nat
  /\ None \notin Nat

Threads == Callers \cup {UI}
Players == 1 .. MaxThreads

VARIABLES
  s_audio_running,
  s_audio_thread,  (* the player that shutdown waits for                   *)
  g_audio_cs,      (* whether the critical section exists                  *)
  s_queue_sem,     (* the semaphore's count, None if there is none         *)
  queue,           (* files, by the order they were queued in              *)
  pc,              (* where the threads are                                *)
  player, holds,   (* where the players are; the file each has in hand     *)
  (* history *)
  queued,          (* the last file queued                                 *)
  started,         (* the last file played                                 *)
  undefined,       (* an object was used that does not exist               *)
  overfull,        (* the queue has been longer than its limit             *)
  abandoned,       (* a shutdown went on without the end of its player     *)
  orphaned         (* a file was queued, or left, when no player would come*)

objects == <<s_audio_running, s_audio_thread, g_audio_cs, s_queue_sem>>
players == <<player, holds, started>>
past    == <<undefined, overfull, abandoned, orphaned>>
vars    == <<objects, queue, queued, pc, players, past>>

Init ==
  /\ s_audio_running = FALSE /\ s_audio_thread = None
  /\ g_audio_cs = FALSE /\ s_queue_sem = None
  /\ queue = <<>> /\ queued = 0
  /\ pc = [t \in Threads |-> "idle"]
  /\ player = [p \in Players |-> "none"]
  /\ holds = [p \in Players |-> 0] /\ started = 0
  /\ undefined = FALSE /\ overfull = FALSE
  /\ abandoned = FALSE /\ orphaned = FALSE

(* A step of a thread; none is defined after what is undefined.            *)
Goto(t, from, to) ==
  /\ ~undefined
  /\ pc[t] = from
  /\ pc' = [pc EXCEPT ![t] = to]

(* EnterCriticalSection; what is done inside is part of the same step.     *)
Enter == undefined' = ~g_audio_cs

(* ReleaseSemaphore fails without a semaphore and at its maximum.          *)
Released == IF s_queue_sem \in 0 .. ATS_AUDIO_QUEUE_MAX - 1
            THEN s_queue_sem + 1 ELSE s_queue_sem

(* Closing it: a player at "wait" may wait for it already, or not yet.     *)
CloseSem(wrong) ==
  /\ s_queue_sem' = None
  /\ undefined' \in {wrong, wrong \/ (s_queue_sem # None
                       /\ \E p \in Players : player[p] = "wait")}

-----------------------------------------------------------------------------
(* ats_audio_init, called by whoever finds the player not running.         *)

AfterInit(t) == IF t = UI THEN "look" ELSE "check"

Use(t) ==
  /\ s_audio_running
  /\ Goto(t, "idle", AfterInit(t))
  /\ t # UI => queued < MaxFiles
  /\ UNCHANGED <<objects, queue, queued, players, past>>

Initialise(t) ==
  /\ ~s_audio_running
  /\ \E p \in Players : player[p] = "none"
  /\ t # UI => queued < MaxFiles
  /\ Goto(t, "idle", "create_sem")
  /\ undefined' = g_audio_cs
  /\ g_audio_cs' = TRUE
  /\ UNCHANGED <<s_audio_running, s_audio_thread, s_queue_sem, queue, queued,
                 players, overfull, abandoned, orphaned>>

CreateSemaphore(t) ==
  /\ Goto(t, "create_sem", "set_running")
  /\ s_queue_sem' = 0
  /\ UNCHANGED <<s_audio_running, s_audio_thread, g_audio_cs, queue, queued,
                 players, past>>

(* The critical section stays.                                             *)
CreateSemaphoreFails(t) ==
  /\ Goto(t, "create_sem", "idle")
  /\ s_queue_sem' = None
  /\ UNCHANGED <<s_audio_running, s_audio_thread, g_audio_cs, queue, queued,
                 players, past>>

SetRunning(t) ==
  /\ Goto(t, "set_running", "create_thread")
  /\ s_audio_running' = TRUE
  /\ UNCHANGED <<s_audio_thread, g_audio_cs, s_queue_sem, queue, queued,
                 players, past>>

CreateThread(t) ==
  /\ Goto(t, "create_thread", AfterInit(t))
  /\ \E p \in Players :
       /\ player[p] = "none"
       /\ \A q \in Players : q < p => player[q] # "none"
       /\ player' = [player EXCEPT ![p] = "loop"]
       /\ s_audio_thread' = p
  /\ UNCHANGED <<s_audio_running, g_audio_cs, s_queue_sem, queue, queued,
                 holds, started, past>>

CreateThreadFails(t) ==
  /\ Goto(t, "create_thread", "undo")
  /\ s_audio_thread' = None
  /\ s_audio_running' = FALSE
  /\ UNCHANGED <<g_audio_cs, s_queue_sem, queue, queued, players, past>>

Undo(t) ==
  /\ Goto(t, "undo", "idle")
  /\ CloseSem(~g_audio_cs)
  /\ g_audio_cs' = FALSE
  /\ orphaned' = (orphaned \/ queue # <<>>)
  /\ UNCHANGED <<s_audio_running, s_audio_thread, queue, queued, players,
                 overfull, abandoned>>

-----------------------------------------------------------------------------
(* queue_push.  The length is looked at before the critical section.       *)
Check(t) ==
  /\ Len(queue) < ATS_AUDIO_QUEUE_MAX
  /\ Goto(t, "check", "link")
  /\ UNCHANGED <<objects, queue, queued, players, past>>

(* The queue is full, or there is no such path, or no memory.              *)
Refuse(t) ==
  /\ Goto(t, "check", "idle")
  /\ UNCHANGED <<objects, queue, queued, players, past>>

Link(t) ==
  /\ Goto(t, "link", "release")
  /\ Enter
  /\ queued' = queued + 1
  /\ queue' = Append(queue, queued')
  /\ overfull' = (overfull \/ Len(queue') > ATS_AUDIO_QUEUE_MAX)
  /\ orphaned' = (orphaned \/ ~s_audio_running)
  /\ UNCHANGED <<objects, players, abandoned>>

(* Mutant: no token for a file behind another one.                         *)
ReleaseFirst(t) ==
  /\ Goto(t, "release", "idle")
  /\ s_queue_sem' = IF Len(queue) > 1 THEN s_queue_sem ELSE Released
  /\ UNCHANGED <<s_audio_running, s_audio_thread, g_audio_cs, queue, queued,
                 players, past>>

Release(t) ==
  /\ Goto(t, "release", "idle")
  /\ s_queue_sem' = Released
  /\ UNCHANGED <<s_audio_running, s_audio_thread, g_audio_cs, queue, queued,
                 players, past>>

(* ats_audio_get_queue_count, ats_audio_is_playing.                        *)
Look ==
  /\ Goto(UI, "look", "idle")
  /\ Enter
  /\ UNCHANGED <<objects, queue, queued, players, overfull, abandoned,
                 orphaned>>

-----------------------------------------------------------------------------
(* audio_thread_func, with queue_pop and play_one.                         *)
Move(p, from, to) ==
  /\ ~undefined
  /\ player[p] = from
  /\ player' = [player EXCEPT ![p] = to]

Loop(p) ==
  /\ Move(p, "loop", IF s_audio_running THEN "wait" ELSE "done")
  /\ UNCHANGED <<objects, queue, queued, pc, holds, started, past>>

(* WaitForSingleObject returns with a token, or at once without semaphore. *)
Wait(p) ==
  /\ s_queue_sem # 0
  /\ Move(p, "wait", "pop")
  /\ s_queue_sem' = IF s_queue_sem = None THEN None ELSE s_queue_sem - 1
  /\ UNCHANGED <<s_audio_running, s_audio_thread, g_audio_cs, queue, queued,
                 pc, holds, started, past>>

(* Mutant: the newest file first.                                          *)
PopLast(p) ==
  /\ queue # <<>>
  /\ Move(p, "pop", "have")
  /\ Enter
  /\ holds' = [holds EXCEPT ![p] = queue[Len(queue)]]
  /\ queue' = SubSeq(queue, 1, Len(queue) - 1)
  /\ UNCHANGED <<objects, queued, pc, started, overfull, abandoned, orphaned>>

Pop(p) ==
  /\ queue # <<>>
  /\ Move(p, "pop", "have")
  /\ Enter
  /\ holds' = [holds EXCEPT ![p] = Head(queue)]
  /\ queue' = Tail(queue)
  /\ UNCHANGED <<objects, queued, pc, started, overfull, abandoned, orphaned>>

PopNothing(p) ==
  /\ queue = <<>>
  /\ Move(p, "pop", "loop")
  /\ Enter
  /\ UNCHANGED <<objects, queue, queued, pc, holds, started, overfull,
                 abandoned, orphaned>>

(* The file is freed unplayed if the player has been shut down meanwhile.  *)
Have(p) ==
  /\ Move(p, "have", IF s_audio_running THEN "open" ELSE "done")
  /\ holds' = IF s_audio_running THEN holds ELSE [holds EXCEPT ![p] = 0]
  /\ UNCHANGED <<objects, queue, queued, pc, started, past>>

Open(p) ==
  /\ Move(p, "open", "playing")
  /\ started' = holds[p]
  /\ UNCHANGED <<objects, queue, queued, pc, holds, past>>

(* Mutant: the player ends.                                                *)
OpenFailsEnds(p) ==
  /\ Move(p, "open", "done")
  /\ holds' = [holds EXCEPT ![p] = 0]
  /\ UNCHANGED <<objects, queue, queued, pc, started, past>>

(* MCI cannot open the file.                                               *)
OpenFails(p) ==
  /\ Move(p, "open", "loop")
  /\ holds' = [holds EXCEPT ![p] = 0]
  /\ UNCHANGED <<objects, queue, queued, pc, started, past>>

(* At the end of the file, or when the player is shut down.                *)
EndOfFile(p) ==
  /\ Move(p, "playing", "loop")
  /\ holds' = [holds EXCEPT ![p] = 0]
  /\ UNCHANGED <<objects, queue, queued, pc, started, past>>

-----------------------------------------------------------------------------
(* ats_audio_shutdown.                                                     *)
Shutdown ==
  /\ s_audio_running
  /\ Goto(UI, "idle", "wake")
  /\ s_audio_running' = FALSE
  /\ UNCHANGED <<s_audio_thread, g_audio_cs, s_queue_sem, queue, queued,
                 players, past>>

NothingToShutDown ==
  /\ ~s_audio_running
  /\ Goto(UI, "idle", "gone")
  /\ UNCHANGED <<objects, queue, queued, players, past>>

(* Mutant: the player is not woken.                                        *)
WakeNobody ==
  /\ Goto(UI, "wake", "join")
  /\ UNCHANGED <<objects, queue, queued, players, past>>

Wake ==
  /\ Goto(UI, "wake", "join")
  /\ s_queue_sem' = Released
  /\ UNCHANGED <<s_audio_running, s_audio_thread, g_audio_cs, queue, queued,
                 players, past>>

(* Mutant: the thread's end is not waited for.                             *)
JoinNobody ==
  /\ Goto(UI, "join", "close_sem")
  /\ s_audio_thread' = None
  /\ abandoned' = (abandoned \/ s_audio_thread = None)
  /\ UNCHANGED <<s_audio_running, g_audio_cs, s_queue_sem, queue, queued,
                 players, undefined, overfull, orphaned>>

(* What can keep a player for the second that shutdown waits for its       *)
(* thread: a command to MCI, an empty semaphore, or that it runs again.    *)
Lingers(p) ==
  \/ player[p] \in {"open", "playing"}
  \/ player[p] = "wait" /\ s_queue_sem = 0
  \/ player[p] # "done" /\ s_audio_running

(* There is no thread yet if it is being created.                          *)
Join ==
  /\ Goto(UI, "join", "close_sem")
  /\ s_audio_thread # None =>
       player[s_audio_thread] = "done" \/ Lingers(s_audio_thread)
  /\ s_audio_thread' = None
  /\ abandoned' = (abandoned \/ s_audio_thread = None
                   \/ player[s_audio_thread] # "done")
  /\ UNCHANGED <<s_audio_running, g_audio_cs, s_queue_sem, queue, queued,
                 players, undefined, overfull, orphaned>>

CloseSemaphore ==
  /\ Goto(UI, "close_sem", "drain")
  /\ CloseSem(FALSE)
  /\ UNCHANGED <<s_audio_running, s_audio_thread, g_audio_cs, queue, queued,
                 players, overfull, abandoned, orphaned>>

Drain ==
  /\ Goto(UI, "drain", "delete_cs")
  /\ Enter
  /\ queue' = <<>>
  /\ UNCHANGED <<objects, queued, players, overfull, abandoned, orphaned>>

DeleteCriticalSection ==
  /\ Goto(UI, "delete_cs", "gone")
  /\ undefined' = ~g_audio_cs
  /\ g_audio_cs' = FALSE
  /\ UNCHANGED <<s_audio_running, s_audio_thread, s_queue_sem, queue, queued,
                 players, overfull, abandoned, orphaned>>

-----------------------------------------------------------------------------
(* What a thread does once it has begun.                                   *)
Proceed(t) ==
  \/ CreateSemaphore(t) \/ CreateSemaphoreFails(t) \/ SetRunning(t)
  \/ CreateThread(t) \/ CreateThreadFails(t) \/ Undo(t)
  \/ Check(t) \/ Refuse(t) \/ Link(t) \/ Release(t)

ProceedUI ==
  \/ Look \/ Wake \/ Join \/ CloseSemaphore \/ Drain \/ DeleteCriticalSection

Player(p) ==
  \/ Loop(p) \/ Wait(p) \/ Pop(p) \/ PopNothing(p)
  \/ Have(p) \/ Open(p) \/ OpenFails(p) \/ EndOfFile(p)

Next ==
  \/ \E t \in Threads : Use(t) \/ Initialise(t) \/ Proceed(t)
  \/ Shutdown \/ NothingToShutDown \/ ProceedUI
  \/ \E p \in Players : Player(p)

Spec == Init /\ [][Next]_vars

(* Every thread is scheduled and files end; nobody has to use the player.  *)
Fairness ==
  /\ \A t \in Threads : WF_vars(Proceed(t))
  /\ WF_vars(ProceedUI)
  /\ \A p \in Players : WF_vars(Player(p))

FairSpec == Spec /\ Fairness

-----------------------------------------------------------------------------
(* A player thread that has been created and has not ended.                *)
Alive(p) == player[p] \notin {"none", "done"}

(* "One background thread consumes the queue": whoever starts the player,  *)
(* and however often it is shut down and started again, there is one, as   *)
(* long as every shutdown has seen the end of the player it stopped.       *)
OnePlayer ==
  ~abandoned => \A p, q \in Players : Alive(p) /\ Alive(q) => p = q

(* The files are played in the order they were queued in, none twice.      *)
PlayedInOrder ==
  [][started' # started /\ ~abandoned => started' > started]_vars

(* For every file in the queue there is a token in the semaphore, a player *)
(* that has taken one, or a caller about to give it; else the last files   *)
(* would wait for the next caller.  What may upset this is a queue beyond  *)
(* its limit, whose tokens the semaphore does not hold, files queued while *)
(* nobody plays, and a shutdown that did not see its player's end.         *)
NoneStranded ==
  s_audio_running /\ ~(overfull \/ orphaned \/ abandoned \/ undefined) =>
    Len(queue) <= (IF s_queue_sem = None THEN 0 ELSE s_queue_sem)
                    + Cardinality({p \in Players : player[p] = "pop"})
                    + Cardinality({t \in Threads : pc[t] = "release"})

(* A file that is queued leaves the queue: it is played, or dropped by a   *)
(* shutdown.                                                               *)
EveryFileIsTaken ==
  \A f \in 1 .. MaxFiles :
    (\E i \in 1 .. Len(queue) : queue[i] = f)
      ~> \/ \A i \in 1 .. Len(queue) : queue[i] # f
         \/ undefined \/ overfull \/ orphaned \/ abandoned

(* A shutdown wakes the player it waits for: it does not sit out its       *)
(* second because the player sleeps on the semaphore, whatever files and   *)
(* tokens there are.                                                       *)
ShutdownWakes ==
  /\ pc[UI] = "join" /\ s_audio_thread # None
  /\ ~s_audio_running /\ ~undefined
  => ~(player[s_audio_thread] = "wait" /\ s_queue_sem = 0)
=============================================================================
