-------------------------- MODULE AtsAudio_proofs --------------------------
(***************************************************************************)
(* Proofs for AtsAudio: for any number of callers and of player threads    *)
(* there is one player at a time, it plays the files in the order they     *)
(* were queued in, no file is left without a token, and a shutdown wakes   *)
(* the player it waits for.                                                *)
(***************************************************************************)
EXTENDS AtsAudio, FiniteSetTheorems, TLAPS

CallerPoints ==
  {"idle", "create_sem", "set_running", "create_thread", "undo", "check",
   "link", "release", "look", "wake", "join", "close_sem", "drain",
   "delete_cs", "gone"}

PlayerPoints ==
  {"none", "loop", "wait", "pop", "have", "open", "playing", "done"}

TypeInv ==
  /\ s_audio_running \in BOOLEAN /\ g_audio_cs \in BOOLEAN
  /\ s_audio_thread \in Players \cup {None}
  /\ undefined \in BOOLEAN /\ abandoned \in BOOLEAN
  /\ pc \in [Threads -> CallerPoints]
  /\ player \in [Players -> PlayerPoints]
  /\ holds \in [Players -> Nat]
  /\ queue \in Seq(Nat) /\ queued \in Nat /\ started \in Nat

(* A thread inside ats_audio_init.                                         *)
Starting(t) ==
  pc[t] \in {"create_sem", "set_running", "create_thread", "undo"}

(* main has seen the end of the player and is clearing up.                 *)
Clearing == pc[UI] \in {"close_sem", "drain", "delete_cs"}

NoPlayer == s_audio_thread = None /\ \A p \in Players : ~Alive(p)

Stopped == NoPlayer /\ ~s_audio_running

OneStarter ==
  \A t \in Threads : Starting(t) =>
    /\ \A u \in Threads : Starting(u) => t = u
    /\ g_audio_cs
    /\ NoPlayer
    /\ pc[t] # "create_thread" => ~s_audio_running

NothingWithoutSection ==
  ~g_audio_cs => Stopped /\ \A t \in Threads : ~Starting(t)

ClearingIsAlone ==
  Clearing => /\ g_audio_cs
              /\ Stopped
              /\ \A t \in Threads : ~Starting(t)

ThePlayerIsKnown ==
  /\ \A p \in Players : Alive(p) => s_audio_thread = p
  /\ s_audio_thread # None /\ s_audio_running => Alive(s_audio_thread)

PlayerInv ==
  /\ TypeInv
  /\ ~undefined /\ ~abandoned =>
       /\ OneStarter
       /\ NothingWithoutSection
       /\ ClearingIsAlone
       /\ ThePlayerIsKnown

(* Files are numbered as they are queued; what is to be played is later    *)
(* than what has been, in the queue and in the player's hand.              *)
Ordered ==
  /\ started <= queued
  /\ \A i \in 1 .. Len(queue) : started < queue[i] /\ queue[i] <= queued
  /\ \A i, j \in 1 .. Len(queue) : i < j => queue[i] < queue[j]

InHand ==
  \A p \in Players : player[p] \in {"have", "open"} =>
    /\ started < holds[p] /\ holds[p] <= queued
    /\ \A i \in 1 .. Len(queue) : holds[p] < queue[i]

OrderInv == ~undefined /\ ~abandoned => Ordered /\ InHand

-----------------------------------------------------------------------------
(* Every step keeps the types.                                             *)
LEMMA TypeStep == TypeInv /\ [Next]_vars => TypeInv'
<1> SUFFICES ASSUME TypeInv, [Next]_vars PROVE TypeInv'
  OBVIOUS
<1> USE ConstantsAssumption
    DEF TypeInv, CallerPoints, PlayerPoints, Threads, Players, objects,
        players, past
<1>1. ASSUME NEW t \in Threads, Use(t) PROVE TypeInv'
  BY <1>1 DEF Use, Goto, AfterInit
<1>2. ASSUME NEW t \in Threads, Initialise(t) PROVE TypeInv'
  BY <1>2 DEF Initialise, Goto
<1>3. ASSUME NEW t \in Threads, CreateSemaphore(t) PROVE TypeInv'
  BY <1>3 DEF CreateSemaphore, Goto
<1>4. ASSUME NEW t \in Threads, CreateSemaphoreFails(t) PROVE TypeInv'
  BY <1>4 DEF CreateSemaphoreFails, Goto
<1>5. ASSUME NEW t \in Threads, SetRunning(t) PROVE TypeInv'
  BY <1>5 DEF SetRunning, Goto
<1>6. ASSUME NEW t \in Threads, CreateThread(t) PROVE TypeInv'
  BY <1>6 DEF CreateThread, Goto, AfterInit
<1>7. ASSUME NEW t \in Threads, CreateThreadFails(t) PROVE TypeInv'
  BY <1>7 DEF CreateThreadFails, Goto
<1>8. ASSUME NEW t \in Threads, Undo(t) PROVE TypeInv'
  BY <1>8 DEF Undo, Goto, CloseSem
<1>9. ASSUME NEW t \in Threads, Check(t) PROVE TypeInv'
  BY <1>9 DEF Check, Goto
<1>10. ASSUME NEW t \in Threads, Refuse(t) PROVE TypeInv'
  BY <1>10 DEF Refuse, Goto
<1>11. ASSUME NEW t \in Threads, Link(t) PROVE TypeInv'
  BY <1>11 DEF Link, Goto, Enter
<1>12. ASSUME NEW t \in Threads, Release(t) PROVE TypeInv'
  BY <1>12 DEF Release, Goto
<1>13. CASE Look
  BY <1>13 DEF Look, Goto, Enter
<1>14. CASE Wake
  BY <1>14 DEF Wake, Goto
<1>15. CASE Join
  BY <1>15 DEF Join, Goto, Lingers
<1>16. CASE CloseSemaphore
  BY <1>16 DEF CloseSemaphore, Goto, CloseSem
<1>17. CASE Drain
  BY <1>17 DEF Drain, Goto, Enter
<1>18. CASE DeleteCriticalSection
  BY <1>18 DEF DeleteCriticalSection, Goto
<1>19. CASE Shutdown
  BY <1>19 DEF Shutdown, Goto
<1>20. CASE NothingToShutDown
  BY <1>20 DEF NothingToShutDown, Goto
<1>21. ASSUME NEW p \in Players, Loop(p) PROVE TypeInv'
  BY <1>21 DEF Loop, Move
<1>22. ASSUME NEW p \in Players, Wait(p) PROVE TypeInv'
  BY <1>22 DEF Wait, Move
<1>23. ASSUME NEW p \in Players, Pop(p) PROVE TypeInv'
  BY <1>23 DEF Pop, Move, Enter
<1>24. ASSUME NEW p \in Players, PopNothing(p) PROVE TypeInv'
  BY <1>24 DEF PopNothing, Move, Enter
<1>25. ASSUME NEW p \in Players, Have(p) PROVE TypeInv'
  BY <1>25 DEF Have, Move
<1>26. ASSUME NEW p \in Players, Open(p) PROVE TypeInv'
  BY <1>26 DEF Open, Move
<1>27. ASSUME NEW p \in Players, OpenFails(p) PROVE TypeInv'
  BY <1>27 DEF OpenFails, Move
<1>28. ASSUME NEW p \in Players, EndOfFile(p) PROVE TypeInv'
  BY <1>28 DEF EndOfFile, Move
<1>29. CASE UNCHANGED vars
  BY <1>29 DEF vars
<1>30. QED
  BY <1>1, <1>2, <1>3, <1>4, <1>5, <1>6, <1>7, <1>8, <1>9, <1>10,
     <1>11, <1>12, <1>13, <1>14, <1>15, <1>16, <1>17, <1>18, <1>19,
     <1>20, <1>21, <1>22, <1>23, <1>24, <1>25, <1>26, <1>27, <1>28,
     <1>29
  DEF Next, Proceed, ProceedUI, Player

(* Every step keeps what makes the player the only one: a thread starts    *)
(* one only when there is none, for it alone has created the critical      *)
(* section, which is gone only when the last player is.                    *)
LEMMA PlayerStep == PlayerInv /\ [Next]_vars => PlayerInv'
<1> DEFINE Safe == /\ OneStarter /\ NothingWithoutSection
                   /\ ClearingIsAlone /\ ThePlayerIsKnown
<1> SUFFICES ASSUME PlayerInv, [Next]_vars, ~undefined', ~abandoned'
             PROVE  Safe'
  BY TypeStep DEF PlayerInv
<1> USE ConstantsAssumption
    DEF PlayerInv, TypeInv, CallerPoints, PlayerPoints, Threads, Players,
        objects, players, past, Starting, Clearing, NoPlayer, Stopped, Alive,
        OneStarter, NothingWithoutSection, ClearingIsAlone, ThePlayerIsKnown
<1>1. ASSUME NEW t \in Threads, Use(t) PROVE Safe'
  BY <1>1 DEF Use, Goto, AfterInit
<1>2. ASSUME NEW t \in Threads, Initialise(t) PROVE Safe'
  BY <1>2 DEF Initialise, Goto
<1>3. ASSUME NEW t \in Threads, CreateSemaphore(t) PROVE Safe'
  BY <1>3 DEF CreateSemaphore, Goto
<1>4. ASSUME NEW t \in Threads, CreateSemaphoreFails(t) PROVE Safe'
  BY <1>4 DEF CreateSemaphoreFails, Goto
<1>5. ASSUME NEW t \in Threads, SetRunning(t) PROVE Safe'
  BY <1>5 DEF SetRunning, Goto
<1>6. ASSUME NEW t \in Threads, CreateThread(t) PROVE Safe'
  BY <1>6 DEF CreateThread, Goto, AfterInit
<1>7. ASSUME NEW t \in Threads, CreateThreadFails(t) PROVE Safe'
  BY <1>7 DEF CreateThreadFails, Goto
<1>8. ASSUME NEW t \in Threads, Undo(t) PROVE Safe'
  BY <1>8 DEF Undo, Goto, CloseSem
<1>9. ASSUME NEW t \in Threads, Check(t) PROVE Safe'
  BY <1>9 DEF Check, Goto
<1>10. ASSUME NEW t \in Threads, Refuse(t) PROVE Safe'
  BY <1>10 DEF Refuse, Goto
<1>11. ASSUME NEW t \in Threads, Link(t) PROVE Safe'
  BY <1>11 DEF Link, Goto, Enter
<1>12. ASSUME NEW t \in Threads, Release(t) PROVE Safe'
  BY <1>12 DEF Release, Goto
<1>13. CASE Look
  BY <1>13 DEF Look, Goto, Enter
<1>14. CASE Wake
  BY <1>14 DEF Wake, Goto
<1>15. CASE Join
  BY <1>15 DEF Join, Goto, Lingers
<1>16. CASE CloseSemaphore
  BY <1>16 DEF CloseSemaphore, Goto, CloseSem
<1>17. CASE Drain
  BY <1>17 DEF Drain, Goto, Enter
<1>18. CASE DeleteCriticalSection
  BY <1>18 DEF DeleteCriticalSection, Goto
<1>19. CASE Shutdown
  BY <1>19 DEF Shutdown, Goto
<1>20. CASE NothingToShutDown
  BY <1>20 DEF NothingToShutDown, Goto
<1>21. ASSUME NEW p \in Players, Loop(p) PROVE Safe'
  BY <1>21 DEF Loop, Move
<1>22. ASSUME NEW p \in Players, Wait(p) PROVE Safe'
  BY <1>22 DEF Wait, Move
<1>23. ASSUME NEW p \in Players, Pop(p) PROVE Safe'
  BY <1>23 DEF Pop, Move, Enter
<1>24. ASSUME NEW p \in Players, PopNothing(p) PROVE Safe'
  BY <1>24 DEF PopNothing, Move, Enter
<1>25. ASSUME NEW p \in Players, Have(p) PROVE Safe'
  BY <1>25 DEF Have, Move
<1>26. ASSUME NEW p \in Players, Open(p) PROVE Safe'
  BY <1>26 DEF Open, Move
<1>27. ASSUME NEW p \in Players, OpenFails(p) PROVE Safe'
  BY <1>27 DEF OpenFails, Move
<1>28. ASSUME NEW p \in Players, EndOfFile(p) PROVE Safe'
  BY <1>28 DEF EndOfFile, Move
<1>29. CASE UNCHANGED vars
  BY <1>29 DEF vars
<1>30. QED
  BY <1>1, <1>2, <1>3, <1>4, <1>5, <1>6, <1>7, <1>8, <1>9, <1>10,
     <1>11, <1>12, <1>13, <1>14, <1>15, <1>16, <1>17, <1>18, <1>19,
     <1>20, <1>21, <1>22, <1>23, <1>24, <1>25, <1>26, <1>27, <1>28,
     <1>29
  DEF Next, Proceed, ProceedUI, Player

(* PlayerInv holds in every state.                                         *)
LEMMA PlayerInvariant == Spec => []PlayerInv
<1>1. ASSUME Init PROVE PlayerInv
  <2>1. TypeInv
    <3>1. /\ pc \in [Threads -> CallerPoints]
          /\ player \in [Players -> PlayerPoints]
          /\ holds \in [Players -> Nat]
      BY <1>1 DEF Init, CallerPoints, PlayerPoints
    <3>2. queue \in Seq(Nat) /\ queued \in Nat /\ started \in Nat
      BY <1>1 DEF Init
    <3>3. QED
      BY <1>1, <3>1, <3>2 DEF Init, TypeInv
  <2>2. /\ NoPlayer /\ ~s_audio_running
        /\ \A t \in Threads : ~Starting(t)
        /\ ~Clearing
    BY <1>1 DEF Init, NoPlayer, Alive, Starting, Clearing, Threads
  <2>3. QED
    BY <2>1, <2>2
    DEF PlayerInv, OneStarter, NothingWithoutSection, Stopped, NoPlayer,
        ClearingIsAlone, ThePlayerIsKnown
<1>2. QED
  BY <1>1, PlayerStep, PTL DEF Spec

(* Steps whose outcome is undefined start no player either.                *)
LEMMA OnePlayerStep == PlayerInv /\ OnePlayer /\ [Next]_vars => OnePlayer'
<1> SUFFICES ASSUME PlayerInv, OnePlayer, [Next]_vars, ~abandoned'
             PROVE  \A p, q \in Players : Alive(p)' /\ Alive(q)' => p = q
  BY DEF OnePlayer
<1> DEFINE Single == \A p, q \in Players : Alive(p) /\ Alive(q) => p = q
<1> USE DEF OnePlayer, Alive, PlayerInv, TypeInv, Players, Threads, objects,
            players, past, OneStarter, Starting, NoPlayer
<1>1. ASSUME NEW t \in Threads, Use(t) PROVE Single'
  BY <1>1 DEF Use, Goto, AfterInit
<1>2. ASSUME NEW t \in Threads, Initialise(t) PROVE Single'
  BY <1>2 DEF Initialise, Goto
<1>3. ASSUME NEW t \in Threads, CreateSemaphore(t) PROVE Single'
  BY <1>3 DEF CreateSemaphore, Goto
<1>4. ASSUME NEW t \in Threads, CreateSemaphoreFails(t) PROVE Single'
  BY <1>4 DEF CreateSemaphoreFails, Goto
<1>5. ASSUME NEW t \in Threads, SetRunning(t) PROVE Single'
  BY <1>5 DEF SetRunning, Goto
<1>6. ASSUME NEW t \in Threads, CreateThread(t) PROVE Single'
  BY <1>6 DEF CreateThread, Goto, AfterInit
<1>7. ASSUME NEW t \in Threads, CreateThreadFails(t) PROVE Single'
  BY <1>7 DEF CreateThreadFails, Goto
<1>8. ASSUME NEW t \in Threads, Undo(t) PROVE Single'
  BY <1>8 DEF Undo, Goto, CloseSem
<1>9. ASSUME NEW t \in Threads, Check(t) PROVE Single'
  BY <1>9 DEF Check, Goto
<1>10. ASSUME NEW t \in Threads, Refuse(t) PROVE Single'
  BY <1>10 DEF Refuse, Goto
<1>11. ASSUME NEW t \in Threads, Link(t) PROVE Single'
  BY <1>11 DEF Link, Goto, Enter
<1>12. ASSUME NEW t \in Threads, Release(t) PROVE Single'
  BY <1>12 DEF Release, Goto
<1>13. CASE Look
  BY <1>13 DEF Look, Goto, Enter
<1>14. CASE Wake
  BY <1>14 DEF Wake, Goto
<1>15. CASE Join
  BY <1>15 DEF Join, Goto, Lingers
<1>16. CASE CloseSemaphore
  BY <1>16 DEF CloseSemaphore, Goto, CloseSem
<1>17. CASE Drain
  BY <1>17 DEF Drain, Goto, Enter
<1>18. CASE DeleteCriticalSection
  BY <1>18 DEF DeleteCriticalSection, Goto
<1>19. CASE Shutdown
  BY <1>19 DEF Shutdown, Goto
<1>20. CASE NothingToShutDown
  BY <1>20 DEF NothingToShutDown, Goto
<1>21. ASSUME NEW p \in Players, Loop(p) PROVE Single'
  BY <1>21 DEF Loop, Move
<1>22. ASSUME NEW p \in Players, Wait(p) PROVE Single'
  BY <1>22 DEF Wait, Move
<1>23. ASSUME NEW p \in Players, Pop(p) PROVE Single'
  BY <1>23 DEF Pop, Move, Enter
<1>24. ASSUME NEW p \in Players, PopNothing(p) PROVE Single'
  BY <1>24 DEF PopNothing, Move, Enter
<1>25. ASSUME NEW p \in Players, Have(p) PROVE Single'
  BY <1>25 DEF Have, Move
<1>26. ASSUME NEW p \in Players, Open(p) PROVE Single'
  BY <1>26 DEF Open, Move
<1>27. ASSUME NEW p \in Players, OpenFails(p) PROVE Single'
  BY <1>27 DEF OpenFails, Move
<1>28. ASSUME NEW p \in Players, EndOfFile(p) PROVE Single'
  BY <1>28 DEF EndOfFile, Move
<1>29. CASE UNCHANGED vars
  BY <1>29 DEF vars
<1>30. QED
  BY <1>1, <1>2, <1>3, <1>4, <1>5, <1>6, <1>7, <1>8, <1>9, <1>10,
     <1>11, <1>12, <1>13, <1>14, <1>15, <1>16, <1>17, <1>18, <1>19,
     <1>20, <1>21, <1>22, <1>23, <1>24, <1>25, <1>26, <1>27, <1>28,
     <1>29
  DEF Next, Proceed, ProceedUI, Player

(* Whoever starts the player, and however often it is shut down and        *)
(* started again, there is one at a time.                                  *)
THEOREM ThereIsOnePlayer == Spec => []OnePlayer
<1>1. Init => OnePlayer
  BY DEF Init, OnePlayer, Alive
<1>2. QED
  BY <1>1, PlayerInvariant, OnePlayerStep, PTL DEF Spec

-----------------------------------------------------------------------------
(* Every step keeps the files in order: they are queued behind the others  *)
(* and taken from the front, by the only player.                           *)
LEMMA OrderStep == PlayerInv /\ OrderInv /\ [Next]_vars => OrderInv'
<1> DEFINE InOrder == Ordered /\ InHand
<1> SUFFICES ASSUME PlayerInv, OrderInv, [Next]_vars, ~undefined', ~abandoned'
             PROVE  InOrder'
  BY DEF OrderInv
<1> USE ConstantsAssumption
    DEF OrderInv, Ordered, InHand, PlayerInv, TypeInv, PlayerPoints, Players,
        objects, players, past, ThePlayerIsKnown, Alive
<1>1. ASSUME NEW t \in Threads, Use(t) PROVE InOrder'
  BY <1>1 DEF Use, Goto, AfterInit
<1>2. ASSUME NEW t \in Threads, Initialise(t) PROVE InOrder'
  BY <1>2 DEF Initialise, Goto
<1>3. ASSUME NEW t \in Threads, CreateSemaphore(t) PROVE InOrder'
  BY <1>3 DEF CreateSemaphore, Goto
<1>4. ASSUME NEW t \in Threads, CreateSemaphoreFails(t) PROVE InOrder'
  BY <1>4 DEF CreateSemaphoreFails, Goto
<1>5. ASSUME NEW t \in Threads, SetRunning(t) PROVE InOrder'
  BY <1>5 DEF SetRunning, Goto
<1>6. ASSUME NEW t \in Threads, CreateThread(t) PROVE InOrder'
  BY <1>6 DEF CreateThread, Goto, AfterInit
<1>7. ASSUME NEW t \in Threads, CreateThreadFails(t) PROVE InOrder'
  BY <1>7 DEF CreateThreadFails, Goto
<1>8. ASSUME NEW t \in Threads, Undo(t) PROVE InOrder'
  BY <1>8 DEF Undo, Goto, CloseSem
<1>9. ASSUME NEW t \in Threads, Check(t) PROVE InOrder'
  BY <1>9 DEF Check, Goto
<1>10. ASSUME NEW t \in Threads, Refuse(t) PROVE InOrder'
  BY <1>10 DEF Refuse, Goto
<1>11. ASSUME NEW t \in Threads, Link(t) PROVE InOrder'
  <2> USE <1>11 DEF Link, Goto, Enter
  <2>1. /\ Len(queue) \in Nat /\ Len(queue') = Len(queue) + 1
        /\ \A i \in 1 .. Len(queue) : queue'[i] = queue[i]
        /\ queue'[Len(queue')] = queued'
        /\ queued' = queued + 1
    OBVIOUS
  <2>2. UNCHANGED <<started, holds, player>>
    OBVIOUS
  <2>3. \A i \in 1 .. Len(queue') :
          i # Len(queue') => i \in 1 .. Len(queue) /\ queue[i] \in Nat
    BY <2>1
  <2>4. Ordered'
    <3>1. started <= queued'
      OBVIOUS
    <3>2. ASSUME NEW i \in 1 .. Len(queue')
          PROVE  started < queue'[i] /\ queue'[i] <= queued'
      BY <2>1, <2>3, <3>1
    <3>3. ASSUME NEW i \in 1 .. Len(queue'), NEW j \in 1 .. Len(queue'), i < j
          PROVE  queue'[i] < queue'[j]
      <4>1. i # Len(queue') /\ i \in 1 .. Len(queue) /\ queue[i] <= queued
        BY <2>1, <2>3, <3>3
      <4>2. CASE j = Len(queue')
        BY <2>1, <4>1, <4>2
      <4>3. CASE j # Len(queue')
        BY <2>1, <2>3, <3>3, <4>1, <4>3
      <4>4. QED
        BY <4>2, <4>3
    <3>4. QED
      BY <2>2, <3>1, <3>2, <3>3
  <2>5. InHand'
    <3> SUFFICES ASSUME NEW p \in Players, player[p] \in {"have", "open"}
                 PROVE  /\ started < holds[p] /\ holds[p] <= queued'
                        /\ \A i \in 1 .. Len(queue') : holds[p] < queue'[i]
      BY <2>2
    <3>1. /\ holds[p] \in Nat /\ started < holds[p] /\ holds[p] <= queued
          /\ \A i \in 1 .. Len(queue) : holds[p] < queue[i]
      OBVIOUS
    <3>2. QED
      BY <2>1, <2>3, <3>1
  <2>6. QED
    BY <2>4, <2>5
<1>12. ASSUME NEW t \in Threads, Release(t) PROVE InOrder'
  BY <1>12 DEF Release, Goto
<1>13. CASE Look
  BY <1>13 DEF Look, Goto, Enter
<1>14. CASE Wake
  BY <1>14 DEF Wake, Goto
<1>15. CASE Join
  BY <1>15 DEF Join, Goto, Lingers
<1>16. CASE CloseSemaphore
  BY <1>16 DEF CloseSemaphore, Goto, CloseSem
<1>17. CASE Drain
  BY <1>17 DEF Drain, Goto, Enter
<1>18. CASE DeleteCriticalSection
  BY <1>18 DEF DeleteCriticalSection, Goto
<1>19. CASE Shutdown
  BY <1>19 DEF Shutdown, Goto
<1>20. CASE NothingToShutDown
  BY <1>20 DEF NothingToShutDown, Goto
<1>21. ASSUME NEW p \in Players, Loop(p) PROVE InOrder'
  BY <1>21 DEF Loop, Move
<1>22. ASSUME NEW p \in Players, Wait(p) PROVE InOrder'
  BY <1>22 DEF Wait, Move
<1>23. ASSUME NEW p \in Players, Pop(p) PROVE InOrder'
  <2> USE <1>23 DEF Pop, Move, Enter
  <2>1. /\ Head(queue) = queue[1] /\ Len(queue) \in Nat \ {0}
        /\ Len(queue') = Len(queue) - 1
        /\ \A i \in 1 .. Len(queue') : queue'[i] = queue[i + 1]
    OBVIOUS
  <2>2. \A i \in 1 .. Len(queue') :
          i + 1 \in 1 .. Len(queue) /\ queue[1] < queue'[i]
    BY <2>1
  <2>3. Ordered'
    <3>1. \A i \in 1 .. Len(queue') : started < queue'[i] /\ queue'[i] <= queued
      BY <2>1, <2>2
    <3>2. ASSUME NEW i \in 1 .. Len(queue'), NEW j \in 1 .. Len(queue'), i < j
          PROVE  queue'[i] < queue'[j]
      BY <2>1, <2>2, <3>2
    <3>3. QED
      BY <3>1, <3>2
  <2>4. started < Head(queue) /\ Head(queue) <= queued
    BY <2>1
  <2>5. \A q \in Players : player'[q] \in {"have", "open"} => q = p
    OBVIOUS
  <2>6. InHand'
    BY <2>1, <2>2, <2>4, <2>5
  <2>7. QED
    BY <2>3, <2>6
<1>24. ASSUME NEW p \in Players, PopNothing(p) PROVE InOrder'
  BY <1>24 DEF PopNothing, Move, Enter
<1>25. ASSUME NEW p \in Players, Have(p) PROVE InOrder'
  BY <1>25 DEF Have, Move
<1>26. ASSUME NEW p \in Players, Open(p) PROVE InOrder'
  BY <1>26 DEF Open, Move
<1>27. ASSUME NEW p \in Players, OpenFails(p) PROVE InOrder'
  BY <1>27 DEF OpenFails, Move
<1>28. ASSUME NEW p \in Players, EndOfFile(p) PROVE InOrder'
  BY <1>28 DEF EndOfFile, Move
<1>29. CASE UNCHANGED vars
  BY <1>29 DEF vars
<1>30. QED
  BY <1>1, <1>2, <1>3, <1>4, <1>5, <1>6, <1>7, <1>8, <1>9, <1>10,
     <1>11, <1>12, <1>13, <1>14, <1>15, <1>16, <1>17, <1>18, <1>19,
     <1>20, <1>21, <1>22, <1>23, <1>24, <1>25, <1>26, <1>27, <1>28,
     <1>29
  DEF Next, Proceed, ProceedUI, Player

(* OrderInv holds in every state.                                          *)
LEMMA OrderInvariant == Spec => []OrderInv
<1>1. Init => OrderInv
  BY DEF Init, OrderInv, Ordered, InHand
<1>2. QED
  BY <1>1, PlayerInvariant, OrderStep, PTL DEF Spec

(* The files are played in the order they were queued in, none twice.      *)
THEOREM FilesArePlayedInOrder == Spec => PlayedInOrder
<1>1. ASSUME PlayerInv, OrderInv, [Next]_vars
      PROVE  [started' # started /\ ~abandoned => started' > started]_vars
  <2> SUFFICES ASSUME started' # started, ~abandoned PROVE started' > started
    OBVIOUS
  <2>1. PICK p \in Players : Open(p)
    BY <1>1
    DEF Next, Proceed, ProceedUI, Player, Use, Initialise, CreateSemaphore,
        CreateSemaphoreFails, SetRunning, CreateThread, CreateThreadFails,
        Undo, Check, Refuse, Link, Release, Look, Wake, Join, CloseSemaphore,
        Drain, DeleteCriticalSection, Shutdown, NothingToShutDown, Loop, Wait,
        Pop, PopNothing, Have, OpenFails, EndOfFile, players, vars
  <2>2. QED
    BY <1>1, <2>1 DEF Open, Move, OrderInv, InHand, PlayerInv, TypeInv
<1>2. QED
  BY <1>1, PlayerInvariant, OrderInvariant, PTL DEF Spec, PlayedInOrder

-----------------------------------------------------------------------------
(* Nothing has happened that a file may be stranded by.                    *)
Untroubled == ~undefined /\ ~abandoned /\ ~overfull /\ ~orphaned

SemaphoreInv ==
  /\ s_queue_sem \in 0 .. ATS_AUDIO_QUEUE_MAX \cup {None}
  /\ overfull \in BOOLEAN /\ orphaned \in BOOLEAN

(* There is a semaphore while there may be a player.                       *)
HasSemaphore ==
  s_audio_running \/ (\E t \in Threads : pc[t] = "set_running")
    => s_queue_sem # None

(* A player that is started finds no files.                                *)
StartsEmpty ==
  /\ ~g_audio_cs => queue = <<>>
  /\ \A t \in Threads : pc[t] \in {"create_sem", "set_running"} => queue = <<>>
  /\ pc[UI] = "delete_cs" => queue = <<>>

Having(A, f, v) == {y \in A : f[y] = v}

Popping   == Having(Players, player, "pop")
Releasing == Having(Threads, pc, "release")

Covered ==
  s_audio_running =>
    Len(queue) <= s_queue_sem + Cardinality(Popping) + Cardinality(Releasing)

TokenInv ==
  /\ SemaphoreInv
  /\ Untroubled => /\ Len(queue) <= ATS_AUDIO_QUEUE_MAX
                   /\ HasSemaphore /\ StartsEmpty /\ Covered

(* After its shutdown main has no use for the player again.                *)
WakeInv ==
  /\ abandoned => pc[UI] \in {"close_sem", "drain", "delete_cs", "gone"}
  /\ ShutdownWakes

-----------------------------------------------------------------------------
(* Counting.                                                               *)

(* One more element has the value v.                                       *)
LEMMA CountEnters ==
  ASSUME NEW A, IsFiniteSet(A), NEW f, NEW g, NEW x \in A, NEW v,
         f[x] # v, g[x] = v, \A y \in A : y # x => g[y] = f[y]
  PROVE  Cardinality(Having(A, g, v)) = Cardinality(Having(A, f, v)) + 1
<1> DEFINE F == Having(A, f, v)
<1>1. Having(A, g, v) = F \cup {x}
  BY DEF Having
<1>2. IsFiniteSet(F) /\ x \notin F
  BY FS_Subset DEF Having
<1> QED
  BY <1>1, <1>2, FS_AddElement

(* One less does.                                                          *)
LEMMA CountLeaves ==
  ASSUME NEW A, IsFiniteSet(A), NEW f, NEW g, NEW x \in A, NEW v,
         f[x] = v, g[x] # v, \A y \in A : y # x => g[y] = f[y]
  PROVE  Cardinality(Having(A, g, v)) = Cardinality(Having(A, f, v)) - 1
<1> DEFINE F == Having(A, f, v)
<1>1. Having(A, g, v) = F \ {x}
  BY DEF Having
<1>2. IsFiniteSet(F) /\ x \in F
  BY FS_Subset DEF Having
<1> QED
  BY <1>1, <1>2, FS_RemoveElement

(* A count is a number.                                                    *)
LEMMA CountIsNumber ==
  ASSUME NEW A, IsFiniteSet(A), NEW f, NEW v
  PROVE  Cardinality(Having(A, f, v)) \in Nat
BY FS_Subset, FS_CardinalityType DEF Having

(* Threads and players can be counted.                                     *)
LEMMA CountsAreNumbers ==
  /\ IsFiniteSet(Threads) /\ IsFiniteSet(Players)
  /\ Cardinality(Popping) \in Nat /\ Cardinality(Releasing) \in Nat
<1>1. IsFiniteSet(Threads)
  BY ConstantsAssumption, FS_AddElement DEF Threads
<1>2. IsFiniteSet(Players)
  BY ConstantsAssumption, FS_Interval DEF Players
<1> QED
  BY <1>1, <1>2, CountIsNumber DEF Popping, Releasing

(* A player that goes from one place to another.                           *)
LEMMA PlayerCounts ==
  ASSUME TypeInv, NEW p \in Players, NEW from, NEW to, Move(p, from, to)
  PROVE  /\ from # "pop" /\ to # "pop" => Popping' = Popping
         /\ from # "pop" /\ to = "pop" =>
              Cardinality(Popping') = Cardinality(Popping) + 1
         /\ from = "pop" /\ to # "pop" =>
              Cardinality(Popping') = Cardinality(Popping) - 1
<1>1. /\ player[p] = from /\ player'[p] = to
      /\ \A q \in Players : q # p => player'[q] = player[q]
  BY DEF Move, TypeInv
<1>2. from # "pop" /\ to # "pop" => Popping' = Popping
  BY <1>1 DEF Popping, Having
<1>3. from # "pop" /\ to = "pop" =>
        Cardinality(Popping') = Cardinality(Popping) + 1
  BY <1>1, CountsAreNumbers, CountEnters DEF Popping
<1>4. from = "pop" /\ to # "pop" =>
        Cardinality(Popping') = Cardinality(Popping) - 1
  BY <1>1, CountsAreNumbers, CountLeaves DEF Popping
<1> QED
  BY <1>2, <1>3, <1>4

(* A thread that does.                                                     *)
LEMMA ThreadCounts ==
  ASSUME TypeInv, NEW t \in Threads, NEW from, NEW to, Goto(t, from, to)
  PROVE  /\ from # "release" /\ to # "release" => Releasing' = Releasing
         /\ from # "release" /\ to = "release" =>
              Cardinality(Releasing') = Cardinality(Releasing) + 1
         /\ from = "release" /\ to # "release" =>
              Cardinality(Releasing') = Cardinality(Releasing) - 1
<1>1. /\ pc[t] = from /\ pc'[t] = to
      /\ \A u \in Threads : u # t => pc'[u] = pc[u]
  BY DEF Goto, TypeInv
<1>2. from # "release" /\ to # "release" => Releasing' = Releasing
  BY <1>1 DEF Releasing, Having
<1>3. from # "release" /\ to = "release" =>
        Cardinality(Releasing') = Cardinality(Releasing) + 1
  BY <1>1, CountsAreNumbers, CountEnters DEF Releasing
<1>4. from = "release" /\ to # "release" =>
        Cardinality(Releasing') = Cardinality(Releasing) - 1
  BY <1>1, CountsAreNumbers, CountLeaves DEF Releasing
<1> QED
  BY <1>2, <1>3, <1>4

(* A release keeps the count within its limits.                            *)
LEMMA ReleasedIsCount ==
  ASSUME s_queue_sem \in 0 .. ATS_AUDIO_QUEUE_MAX \cup {None}
  PROVE  Released \in 0 .. ATS_AUDIO_QUEUE_MAX \cup {None}
BY ConstantsAssumption DEF Released

(* So does every step.                                                     *)
LEMMA SemaphoreStep == SemaphoreInv /\ [Next]_vars => SemaphoreInv'
<1> SUFFICES ASSUME SemaphoreInv, [Next]_vars PROVE SemaphoreInv'
  OBVIOUS
<1> DEFINE Counts == 0 .. ATS_AUDIO_QUEUE_MAX \cup {None}
<1>1. 0 \in Counts /\ None \in Counts
  BY ConstantsAssumption
<1>2. s_queue_sem' \in Counts /\ overfull' \in BOOLEAN /\ orphaned' \in BOOLEAN
      => SemaphoreInv'
  BY DEF SemaphoreInv
<1>3. s_queue_sem \in Counts /\ overfull \in BOOLEAN /\ orphaned \in BOOLEAN
      /\ Released \in Counts
  BY ReleasedIsCount DEF SemaphoreInv
<1>4. ASSUME NEW p \in Players, Wait(p) PROVE SemaphoreInv'
  BY <1>4, ConstantsAssumption DEF Wait, past, SemaphoreInv
<1> HIDE DEF Counts
<1> USE <1>1, <1>2, <1>3 DEF objects, past
<1>5. ASSUME NEW t \in Threads, Use(t) \/ Initialise(t) \/ Proceed(t)
      PROVE  SemaphoreInv'
  <2>1. CASE Use(t) \/ Initialise(t) \/ SetRunning(t) \/ CreateThread(t)
             \/ CreateThreadFails(t) \/ Check(t) \/ Refuse(t)
    BY <2>1 DEF Use, Initialise, SetRunning, CreateThread, CreateThreadFails,
                Check, Refuse
  <2>2. CASE CreateSemaphore(t) \/ CreateSemaphoreFails(t)
    BY <2>2 DEF CreateSemaphore, CreateSemaphoreFails
  <2>3. CASE Undo(t)
    BY <2>3, Zenon DEF Undo, CloseSem
  <2>4. CASE Link(t)
    BY <2>4, Zenon DEF Link
  <2>5. CASE Release(t)
    BY <2>5, Zenon DEF Release
  <2> QED
    BY <1>5, <2>1, <2>2, <2>3, <2>4, <2>5, Zenon DEF Proceed
<1>6. CASE Shutdown \/ NothingToShutDown \/ Look \/ Join \/ Drain
           \/ DeleteCriticalSection
  BY <1>6 DEF Shutdown, NothingToShutDown, Look, Join, Drain,
              DeleteCriticalSection
<1>7. CASE Wake \/ CloseSemaphore
  BY <1>7, Zenon DEF Wake, CloseSemaphore, CloseSem
<1>8. ASSUME NEW p \in Players, Player(p), ~Wait(p) PROVE SemaphoreInv'
  BY <1>8 DEF Player, Loop, Pop, PopNothing, Have, Open, OpenFails, EndOfFile
<1>9. CASE UNCHANGED vars
  BY <1>9 DEF vars
<1> QED
  BY <1>4, <1>5, <1>6, <1>7, <1>8, <1>9, Zenon DEF Next, ProceedUI

(* No step is defined after what is undefined, and trouble stays.          *)
LEMMA TroubleStays ==
  ASSUME TypeInv, SemaphoreInv, [Next]_vars, Untroubled'
  PROVE  Untroubled
<1> USE DEF Untroubled, past, TypeInv, SemaphoreInv
<1>1. ASSUME NEW t \in Threads, Use(t) \/ Initialise(t) \/ Proceed(t)
      PROVE  Untroubled
  BY <1>1 DEF Proceed, Use, Initialise, CreateSemaphore, CreateSemaphoreFails,
              SetRunning, CreateThread, CreateThreadFails, Undo, Check, Refuse,
              Link, Release, Goto
<1>2. CASE Shutdown \/ NothingToShutDown \/ ProceedUI
  BY <1>2 DEF Shutdown, NothingToShutDown, ProceedUI, Look, Wake, Join,
              CloseSemaphore, Drain, DeleteCriticalSection, Goto
<1>3. ASSUME NEW p \in Players, Player(p) PROVE Untroubled
  BY <1>3 DEF Player, Loop, Wait, Pop, PopNothing, Have, Open, OpenFails,
              EndOfFile, Move
<1>4. CASE UNCHANGED vars
  BY <1>4 DEF vars
<1> QED
  BY <1>1, <1>2, <1>3, <1>4 DEF Next

(* What PlayerInv says of a state without trouble.                         *)
LEMMA PlayerInvSafe ==
  ASSUME PlayerInv, Untroubled
  PROVE  /\ TypeInv /\ OneStarter /\ NothingWithoutSection
         /\ ClearingIsAlone /\ ThePlayerIsKnown
BY DEF PlayerInv, Untroubled

(* The semaphore is there before the player is, and goes after it.         *)
LEMMA HasSemaphoreStep ==
  ASSUME PlayerInv, TokenInv, [Next]_vars, Untroubled, Untroubled'
  PROVE  HasSemaphore'
<1>0. /\ TypeInv /\ OneStarter /\ NothingWithoutSection
      /\ ClearingIsAlone /\ ThePlayerIsKnown /\ HasSemaphore
      /\ SemaphoreInv
  BY PlayerInvSafe DEF TokenInv
<1> USE <1>0, ConstantsAssumption
    DEF TypeInv, CallerPoints, HasSemaphore, SemaphoreInv, OneStarter,
        Starting, ClearingIsAlone, Clearing, Stopped, objects, past
<1>1. ASSUME NEW t \in Threads, Use(t) \/ Initialise(t) \/ Proceed(t)
      PROVE  HasSemaphore'
  <2>1. CASE Use(t) \/ Initialise(t) \/ Check(t) \/ Refuse(t) \/ Link(t)
    BY <2>1 DEF Use, Initialise, Check, Refuse, Link, Goto, AfterInit
  <2>2. CASE CreateSemaphore(t)
    BY <2>2 DEF CreateSemaphore, Goto
  <2>3. CASE CreateSemaphoreFails(t)
    BY <2>3 DEF CreateSemaphoreFails, Goto
  <2>4. CASE SetRunning(t)
    BY <2>4 DEF SetRunning, Goto
  <2>5. CASE CreateThread(t) \/ CreateThreadFails(t)
    BY <2>5 DEF CreateThread, CreateThreadFails, Goto, AfterInit
  <2>6. CASE Undo(t)
    BY <2>6 DEF Undo, Goto, CloseSem
  <2>7. CASE Release(t)
    BY <2>7 DEF Release, Released, Goto
  <2> QED
    BY <1>1, <2>1, <2>2, <2>3, <2>4, <2>5, <2>6, <2>7 DEF Proceed
<1>2. CASE Shutdown \/ NothingToShutDown \/ Look \/ Join \/ Drain
           \/ DeleteCriticalSection
  BY <1>2 DEF Shutdown, NothingToShutDown, Look, Join, Drain,
              DeleteCriticalSection, Goto
<1>3. CASE Wake
  BY <1>3 DEF Wake, Released, Goto
<1>4. CASE CloseSemaphore
  <2>1. UI \in Threads
    BY DEF Threads
  <2> QED
    BY <1>4, <2>1 DEF CloseSemaphore, CloseSem, Goto
<1>5. ASSUME NEW p \in Players, Player(p) PROVE HasSemaphore'
  <2>1. CASE Wait(p)
    BY <2>1 DEF Wait
  <2> QED
    BY <1>5, <2>1 DEF Player, Loop, Pop, PopNothing, Have, Open, OpenFails,
                      EndOfFile
<1>6. CASE UNCHANGED vars
  BY <1>6 DEF vars
<1> QED
  BY <1>1, <1>2, <1>3, <1>4, <1>5, <1>6 DEF Next, ProceedUI

(* What TokenInv says of a state without trouble.                          *)
LEMMA TokenInvSafe ==
  ASSUME TokenInv, Untroubled
  PROVE  /\ SemaphoreInv /\ Len(queue) <= ATS_AUDIO_QUEUE_MAX
         /\ HasSemaphore /\ StartsEmpty /\ Covered
BY DEF TokenInv

(* The queue is within its limit unless that is noted.                     *)
LEMMA LengthStep ==
  ASSUME PlayerInv, TokenInv, [Next]_vars, Untroubled, Untroubled'
  PROVE  Len(queue') <= ATS_AUDIO_QUEUE_MAX
<1>0. /\ TypeInv /\ Len(queue) <= ATS_AUDIO_QUEUE_MAX /\ Len(queue) \in Nat
      /\ queue' \in Seq(Nat)
  BY TypeStep, PlayerInvSafe, TokenInvSafe DEF TypeInv
<1> USE <1>0, ConstantsAssumption
<1>1. ASSUME NEW t \in Threads, Use(t) \/ Initialise(t) \/ Proceed(t)
      PROVE  Len(queue') <= ATS_AUDIO_QUEUE_MAX
  <2>1. CASE Link(t)
    <3>1. ~overfull' /\ overfull' = (overfull \/ Len(queue')
                                                  > ATS_AUDIO_QUEUE_MAX)
      BY <2>1 DEF Link, Untroubled
    <3>2. ~(Len(queue') > ATS_AUDIO_QUEUE_MAX)
      BY <3>1, Zenon
    <3> QED
      BY <3>2
  <2> QED
    BY <1>1, <2>1 DEF Proceed, Use, Initialise, CreateSemaphore,
       CreateSemaphoreFails, SetRunning, CreateThread, CreateThreadFails,
       Undo, Check, Refuse, Release
<1>2. CASE Drain
  BY <1>2 DEF Drain
<1>3. CASE Shutdown \/ NothingToShutDown \/ Look \/ Wake \/ Join
           \/ CloseSemaphore \/ DeleteCriticalSection
  BY <1>3 DEF Shutdown, NothingToShutDown, Look, Wake, Join, CloseSemaphore,
              DeleteCriticalSection
<1>4. ASSUME NEW p \in Players, Player(p)
      PROVE  Len(queue') <= ATS_AUDIO_QUEUE_MAX
  <2>1. CASE Pop(p)
    BY <2>1 DEF Pop, TypeInv
  <2> QED
    BY <1>4, <2>1 DEF Player, Loop, Wait, PopNothing, Have, Open, OpenFails,
                      EndOfFile
<1>5. CASE UNCHANGED vars
  BY <1>5 DEF vars
<1> QED
  BY <1>1, <1>2, <1>3, <1>4, <1>5 DEF Next, ProceedUI

(* A player that is started finds no files: what is queued while nobody    *)
(* plays is noted, and the queue goes before its critical section does.    *)
LEMMA StartsEmptyStep ==
  ASSUME PlayerInv, TokenInv, [Next]_vars, Untroubled, Untroubled'
  PROVE  StartsEmpty'
<1>0. /\ TypeInv /\ OneStarter /\ NothingWithoutSection
      /\ ClearingIsAlone /\ ThePlayerIsKnown /\ StartsEmpty /\ UI \in Threads
  BY PlayerInvSafe, TokenInvSafe DEF Threads
<1> USE <1>0, ConstantsAssumption
    DEF TypeInv, CallerPoints, StartsEmpty, OneStarter, Starting,
        ClearingIsAlone, Clearing, Stopped, objects, past
<1>1. ASSUME NEW t \in Threads, Use(t) \/ Initialise(t) \/ Proceed(t)
      PROVE  StartsEmpty'
  <2>1. CASE Use(t) \/ Check(t) \/ Refuse(t)
    BY <2>1 DEF Use, Check, Refuse, Goto, AfterInit
  <2>2. CASE Initialise(t)
    <3>1. ~g_audio_cs
      BY <2>2 DEF Initialise, Untroubled
    <3> QED
      BY <2>2, <3>1 DEF Initialise, Goto
  <2>3. CASE CreateSemaphore(t) \/ CreateSemaphoreFails(t) \/ SetRunning(t)
    BY <2>3 DEF CreateSemaphore, CreateSemaphoreFails, SetRunning, Goto
  <2>4. CASE CreateThread(t) \/ CreateThreadFails(t)
    BY <2>4 DEF CreateThread, CreateThreadFails, Goto, AfterInit
  <2>5. CASE Undo(t)
    <3>1. queue = <<>>
      BY <2>5, Zenon DEF Undo, Untroubled
    <3> QED
      BY <2>5, <3>1 DEF Undo, Goto
  <2>6. CASE Link(t)
    <3>1. g_audio_cs
      BY <2>6 DEF Link, Enter, Untroubled
    <3>2. s_audio_running
      BY <2>6, Zenon DEF Link, Untroubled
    <3> QED
      BY <2>6, <3>1, <3>2 DEF Link, Goto
  <2>7. CASE Release(t)
    BY <2>7 DEF Release, Goto
  <2> QED
    BY <1>1, <2>1, <2>2, <2>3, <2>4, <2>5, <2>6, <2>7 DEF Proceed
<1>2. CASE Shutdown \/ NothingToShutDown \/ Look \/ Wake \/ Join
           \/ CloseSemaphore
  BY <1>2 DEF Shutdown, NothingToShutDown, Look, Wake, Join, CloseSemaphore,
              Goto
<1>3. CASE Drain
  BY <1>3 DEF Drain, Goto
<1>4. CASE DeleteCriticalSection
  BY <1>4 DEF DeleteCriticalSection, Goto
<1>5. ASSUME NEW p \in Players, Player(p) PROVE StartsEmpty'
  <2>1. CASE Pop(p)
    <3>1. queue # <<>> /\ UNCHANGED <<g_audio_cs, pc>>
      BY <2>1 DEF Pop
    <3> QED
      BY <3>1
  <2> QED
    BY <1>5, <2>1 DEF Player, Loop, Wait, PopNothing, Have, Open, OpenFails,
                      EndOfFile
<1>6. CASE UNCHANGED vars
  BY <1>6 DEF vars
<1> QED
  BY <1>1, <1>2, <1>3, <1>4, <1>5, <1>6 DEF Next, ProceedUI

(* A file comes with a caller that will release a token, which a player    *)
(* takes before it takes the file.                                         *)
LEMMA CoveredStep ==
  ASSUME PlayerInv, TokenInv, [Next]_vars, Untroubled, Untroubled'
  PROVE  Covered'
<1> DEFINE P == Cardinality(Popping)
           R == Cardinality(Releasing)
           N == Len(queue)
<1>0. /\ TypeInv /\ OneStarter /\ NothingWithoutSection
      /\ ClearingIsAlone /\ ThePlayerIsKnown /\ HasSemaphore /\ StartsEmpty
      /\ SemaphoreInv /\ N <= ATS_AUDIO_QUEUE_MAX
  BY PlayerInvSafe, TokenInvSafe
<1>1. TypeInv' /\ SemaphoreInv' /\ HasSemaphore'
  BY TypeStep, SemaphoreStep, HasSemaphoreStep DEF PlayerInv, TokenInv
<1>2. /\ P \in Nat /\ R \in Nat /\ N \in Nat
      /\ P' \in Nat /\ R' \in Nat /\ N' \in Nat
  BY <1>0, <1>1, CountsAreNumbers, CountIsNumber
  DEF TypeInv, Popping, Releasing
<1>3. s_audio_running => s_queue_sem \in Nat /\ N <= s_queue_sem + P + R
  BY <1>0, TokenInvSafe DEF HasSemaphore, Covered, SemaphoreInv
<1>4. s_audio_running' => s_queue_sem' \in Nat
  BY <1>1 DEF HasSemaphore, SemaphoreInv
<1>5. (s_audio_running' => N' <= s_queue_sem' + P' + R') => Covered'
  BY DEF Covered
<1>6. UNCHANGED pc => R' = R
  BY DEF Releasing
<1>7. UNCHANGED player => P' = P
  BY DEF Popping
<1> HIDE DEF P, R
<1>8. ASSUME NEW t \in Threads, Use(t) \/ Initialise(t) \/ Proceed(t)
      PROVE  Covered'
  <2>1. CASE Use(t) \/ Initialise(t) \/ Check(t) \/ Refuse(t)
    <3>1. /\ UNCHANGED <<s_audio_running, s_queue_sem, queue, player>>
          /\ \/ Goto(t, "idle", AfterInit(t)) \/ Goto(t, "idle", "create_sem")
             \/ Goto(t, "check", "link") \/ Goto(t, "check", "idle")
      BY <2>1 DEF Use, Initialise, Check, Refuse, objects, players
    <3>2. R' = R
      BY <1>0, <3>1, ThreadCounts DEF R, AfterInit
    <3> QED
      BY <1>2, <1>3, <1>5, <1>7, <3>1, <3>2
  <2>2. CASE CreateSemaphore(t) \/ CreateSemaphoreFails(t) \/ Undo(t)
    <3>1. ~s_audio_running /\ UNCHANGED s_audio_running
      BY <1>0, <2>2 DEF CreateSemaphore, CreateSemaphoreFails, Undo, Goto,
                        OneStarter, Starting
    <3> QED
      BY <1>5, <3>1
  <2>3. CASE SetRunning(t)
    <3>1. queue = <<>> /\ UNCHANGED queue
      BY <1>0, <2>3 DEF SetRunning, Goto, StartsEmpty
    <3> QED
      BY <1>2, <1>4, <1>5, <3>1
  <2>4. CASE CreateThread(t)
    <3>1. /\ UNCHANGED <<s_audio_running, s_queue_sem, queue>>
          /\ Goto(t, "create_thread", AfterInit(t))
      BY <2>4 DEF CreateThread
    <3>2. R' = R
      BY <1>0, <3>1, ThreadCounts DEF R, AfterInit
    <3>3. PICK p \in Players : Move(p, "none", "loop")
      BY <2>4 DEF CreateThread, Move, Goto
    <3>4. P' = P
      BY <1>0, <3>3, PlayerCounts DEF P
    <3> QED
      BY <1>2, <1>3, <1>5, <3>1, <3>2, <3>4
  <2>5. CASE CreateThreadFails(t)
    BY <1>5, <2>5 DEF CreateThreadFails
  <2>6. CASE Link(t)
    <3>1. /\ UNCHANGED <<s_audio_running, s_queue_sem, player>>
          /\ Goto(t, "link", "release")
      BY <2>6 DEF Link, objects, players
    <3>2. R' = R + 1
      BY <1>0, <3>1, ThreadCounts DEF R
    <3>3. N' = N + 1
      BY <1>0, <2>6 DEF Link, TypeInv
    <3> QED
      BY <1>2, <1>3, <1>5, <1>7, <3>1, <3>2, <3>3
  <2>7. CASE Release(t)
    <3>1. /\ UNCHANGED <<s_audio_running, queue, player>>
          /\ Goto(t, "release", "idle") /\ s_queue_sem' = Released
      BY <2>7 DEF Release, players
    <3>2. R' = R - 1
      BY <1>0, <3>1, ThreadCounts DEF R
    <3>3. s_audio_running => \/ s_queue_sem' = s_queue_sem + 1
                             \/ s_queue_sem' = ATS_AUDIO_QUEUE_MAX
      BY <1>0, <1>3, <3>1, ConstantsAssumption DEF Released, SemaphoreInv
    <3> QED
      BY <1>0, <1>2, <1>3, <1>5, <1>7, <3>1, <3>2, <3>3, ConstantsAssumption
  <2> QED
    BY <1>8, <2>1, <2>2, <2>3, <2>4, <2>5, <2>6, <2>7 DEF Proceed
<1>9. CASE Shutdown \/ NothingToShutDown \/ ProceedUI
  <2>1. CASE Shutdown \/ NothingToShutDown \/ CloseSemaphore \/ Drain
    <3>1. ~s_audio_running'
      BY <1>0, <2>1 DEF Shutdown, NothingToShutDown, CloseSemaphore, Drain,
         objects, Goto, ClearingIsAlone, Clearing, Stopped
    <3> QED
      BY <1>5, <3>1
  <2>2. CASE Look \/ Join \/ DeleteCriticalSection
    <3>1. /\ UNCHANGED <<s_audio_running, s_queue_sem, queue, player>>
          /\ \/ Goto(UI, "look", "idle") \/ Goto(UI, "join", "close_sem")
             \/ Goto(UI, "delete_cs", "gone")
      BY <2>2 DEF Look, Join, DeleteCriticalSection, objects, players
    <3>2. R' = R
      BY <1>0, <3>1, ThreadCounts DEF R, Threads
    <3> QED
      BY <1>2, <1>3, <1>5, <1>7, <3>1, <3>2
  <2>3. CASE Wake
    <3>1. /\ UNCHANGED <<s_audio_running, queue, player>>
          /\ Goto(UI, "wake", "join") /\ s_queue_sem' = Released
      BY <2>3 DEF Wake, players
    <3>2. R' = R
      BY <1>0, <3>1, ThreadCounts DEF R, Threads
    <3>3. s_audio_running =>
            s_queue_sem' \in Nat /\ s_queue_sem' >= s_queue_sem
      BY <1>3, <3>1 DEF Released
    <3> QED
      BY <1>2, <1>3, <1>5, <1>7, <3>1, <3>2, <3>3
  <2> QED
    BY <1>9, <2>1, <2>2, <2>3 DEF ProceedUI
<1>10. ASSUME NEW p \in Players, Player(p) PROVE Covered'
  <2>0. UNCHANGED <<s_audio_running, pc>>
    BY <1>10 DEF Player, Loop, Wait, Pop, PopNothing, Have, Open, OpenFails,
                 EndOfFile, objects
  <2>1. CASE Wait(p)
    <3>1. UNCHANGED queue /\ Move(p, "wait", "pop")
      BY <2>1 DEF Wait
    <3>2. P' = P + 1
      BY <1>0, <3>1, PlayerCounts DEF P
    <3>3. s_audio_running => s_queue_sem' = s_queue_sem - 1
      BY <1>3, <2>1, ConstantsAssumption DEF Wait
    <3> QED
      BY <1>2, <1>3, <1>5, <1>6, <2>0, <3>1, <3>2, <3>3
  <2>2. CASE Pop(p)
    <3>1. UNCHANGED s_queue_sem /\ Move(p, "pop", "have")
      BY <2>2 DEF Pop, objects
    <3>2. P' = P - 1
      BY <1>0, <3>1, PlayerCounts DEF P
    <3>3. N' = N - 1
      BY <1>0, <2>2 DEF Pop, TypeInv
    <3> QED
      BY <1>2, <1>3, <1>5, <1>6, <2>0, <3>1, <3>2, <3>3
  <2>3. CASE PopNothing(p)
    <3>1. queue = <<>> /\ UNCHANGED queue
      BY <2>3 DEF PopNothing
    <3> QED
      BY <1>2, <1>4, <1>5, <3>1
  <2>4. CASE Loop(p) \/ Have(p) \/ Open(p) \/ OpenFails(p) \/ EndOfFile(p)
    <3>1. /\ UNCHANGED <<s_queue_sem, queue>>
          /\ \/ Move(p, "loop", IF s_audio_running THEN "wait" ELSE "done")
             \/ Move(p, "have", IF s_audio_running THEN "open" ELSE "done")
             \/ Move(p, "open", "playing") \/ Move(p, "open", "loop")
             \/ Move(p, "playing", "loop")
      BY <2>4 DEF Loop, Have, Open, OpenFails, EndOfFile, objects
    <3>2. P' = P
      BY <1>0, <3>1, PlayerCounts DEF P
    <3> QED
      BY <1>2, <1>3, <1>5, <1>6, <2>0, <3>1, <3>2
  <2> QED
    BY <1>10, <2>1, <2>2, <2>3, <2>4 DEF Player
<1>11. CASE UNCHANGED vars
  BY <1>2, <1>3, <1>5, <1>6, <1>7, <1>11 DEF vars, objects, players
<1> QED
  BY <1>8, <1>9, <1>10, <1>11 DEF Next

(* TokenInv holds in every state.                                          *)
LEMMA TokenInvariant == Spec => []TokenInv
<1>1. Init => TokenInv
  <2> SUFFICES ASSUME Init PROVE TokenInv
    OBVIOUS
  <2> USE ConstantsAssumption DEF Init
  <2>1. SemaphoreInv
    BY DEF SemaphoreInv
  <2>2. Len(queue) <= ATS_AUDIO_QUEUE_MAX
    OBVIOUS
  <2>3. HasSemaphore
    BY DEF HasSemaphore
  <2>4. StartsEmpty /\ Covered
    BY DEF StartsEmpty, Covered
  <2> QED
    BY <2>1, <2>2, <2>3, <2>4 DEF TokenInv
<1>2. PlayerInv /\ TokenInv /\ [Next]_vars => TokenInv'
  <2> SUFFICES ASSUME PlayerInv, TokenInv, [Next]_vars PROVE TokenInv'
    OBVIOUS
  <2>1. SemaphoreInv'
    BY SemaphoreStep DEF TokenInv
  <2>2. ASSUME Untroubled'
        PROVE  /\ Len(queue') <= ATS_AUDIO_QUEUE_MAX
               /\ HasSemaphore' /\ StartsEmpty' /\ Covered'
    <3>1. Untroubled
      BY <2>2, TroubleStays DEF PlayerInv, TokenInv
    <3> QED
      BY <2>2, <3>1, LengthStep, HasSemaphoreStep, StartsEmptyStep,
         CoveredStep
  <2> QED
    BY <2>1, <2>2 DEF TokenInv
<1> QED
  BY <1>1, <1>2, PlayerInvariant, PTL DEF Spec

(* Every file in the queue has its token: none waits for the next caller.  *)
THEOREM NoFileIsStranded == Spec => []NoneStranded
<1>1. PlayerInv /\ TokenInv => NoneStranded
  <2> SUFFICES ASSUME TokenInv, PlayerInv, s_audio_running,
                      ~(overfull \/ orphaned \/ abandoned \/ undefined)
               PROVE  Len(queue) <=
                        (IF s_queue_sem = None THEN 0 ELSE s_queue_sem)
                          + Cardinality({p \in Players : player[p] = "pop"})
                          + Cardinality({t \in Threads : pc[t] = "release"})
    BY DEF NoneStranded
  <2>1. HasSemaphore /\ Covered
    BY TokenInvSafe DEF Untroubled
  <2>2. s_queue_sem # None
    BY <2>1 DEF HasSemaphore
  <2> QED
    BY <2>1, <2>2 DEF Covered, Popping, Releasing, Having
<1> QED
  BY <1>1, PlayerInvariant, TokenInvariant, PTL

-----------------------------------------------------------------------------
(* A release leaves no empty semaphore.                                    *)
LEMMA ReleasedIsNotEmpty == SemaphoreInv => Released # 0
BY ConstantsAssumption DEF SemaphoreInv, Released

(* main wakes the player before it waits for it; nobody else takes the     *)
(* token, and the player sleeps again only while it is to run.             *)
LEMMA WakeStep ==
  PlayerInv /\ TokenInv /\ WakeInv /\ [Next]_vars => WakeInv'
<1> SUFFICES ASSUME PlayerInv, TokenInv, WakeInv, [Next]_vars PROVE WakeInv'
  OBVIOUS
<1> DEFINE After == {"close_sem", "drain", "delete_cs", "gone"}
<1>0. /\ TypeInv /\ SemaphoreInv /\ UI \in Threads
      /\ abandoned => pc[UI] \in After
      /\ ShutdownWakes
      /\ ~undefined /\ ~abandoned => OneStarter /\ ThePlayerIsKnown
  BY DEF PlayerInv, TokenInv, WakeInv, Threads
<1>1. (abandoned' => pc'[UI] \in After) /\ ShutdownWakes' => WakeInv'
  BY DEF WakeInv
<1> USE <1>0, <1>1, ConstantsAssumption
    DEF TypeInv, CallerPoints, PlayerPoints, ShutdownWakes, objects, players,
        past
<1>2. ASSUME NEW t \in Threads, Use(t) \/ Initialise(t) \/ Proceed(t)
      PROVE  WakeInv'
  <2>1. CASE Use(t) \/ Initialise(t) \/ Check(t) \/ Refuse(t) \/ Link(t)
    BY <2>1 DEF Use, Initialise, Check, Refuse, Link, Goto, AfterInit
  <2>2. CASE CreateSemaphore(t)
    <3>1. ~abandoned => s_audio_thread = None
      BY <2>2 DEF CreateSemaphore, Goto, OneStarter, Starting, NoPlayer
    <3> QED
      BY <2>2, <3>1 DEF CreateSemaphore, Goto
  <2>3. CASE CreateSemaphoreFails(t) \/ SetRunning(t) \/ CreateThreadFails(t)
    BY <2>3 DEF CreateSemaphoreFails, SetRunning, CreateThreadFails, Goto
  <2>4. CASE CreateThread(t)
    BY <2>4 DEF CreateThread, Goto, AfterInit
  <2>5. CASE Undo(t)
    BY <2>5 DEF Undo, Goto, CloseSem
  <2>6. CASE Release(t)
    BY <2>6, ReleasedIsNotEmpty DEF Release, Goto
  <2> QED
    BY <1>2, <2>1, <2>2, <2>3, <2>4, <2>5, <2>6 DEF Proceed
<1>3. CASE Shutdown \/ NothingToShutDown \/ Look \/ Drain
           \/ DeleteCriticalSection
  BY <1>3 DEF Shutdown, NothingToShutDown, Look, Drain,
              DeleteCriticalSection, Goto
<1>4. CASE Wake
  BY <1>4, ReleasedIsNotEmpty DEF Wake, Goto
<1>5. CASE Join \/ CloseSemaphore
  BY <1>5 DEF Join, CloseSemaphore, Goto
<1>6. ASSUME NEW p \in Players, Player(p) PROVE WakeInv'
  <2>0. UNCHANGED <<pc, abandoned, s_audio_running, s_audio_thread>>
    BY <1>6 DEF Player, Loop, Wait, Pop, PopNothing, Have, Open, OpenFails,
                EndOfFile
  <2>1. CASE Wait(p)
    <3>1. ~undefined /\ player[p] = "wait" /\ player'[p] = "pop"
      BY <2>1 DEF Wait, Move
    <3>2. ~abandoned => s_audio_thread = p
      BY <3>1 DEF ThePlayerIsKnown, Alive
    <3> QED
      BY <2>0, <3>1, <3>2
  <2>2. CASE Loop(p)
    BY <2>0, <2>2 DEF Loop, Move
  <2>3. CASE Pop(p) \/ PopNothing(p) \/ Have(p) \/ Open(p) \/ OpenFails(p)
             \/ EndOfFile(p)
    <3>1. /\ ~undefined /\ UNCHANGED s_queue_sem
          /\ \E at \in PlayerPoints \ {"wait"} :
               player' = [player EXCEPT ![p] = at]
      BY <2>3 DEF Pop, PopNothing, Have, Open, OpenFails, EndOfFile, Move
    <3> QED
      BY <2>0, <3>1
  <2> QED
    BY <1>6, <2>1, <2>2, <2>3 DEF Player
<1>7. CASE UNCHANGED vars
  BY <1>7 DEF vars
<1> QED
  BY <1>2, <1>3, <1>4, <1>5, <1>6, <1>7 DEF Next, ProceedUI

(* A shutdown never waits for a player that sleeps on an empty semaphore.  *)
THEOREM AShutdownWakes == Spec => []ShutdownWakes
<1>1. Init => WakeInv
  BY DEF Init, WakeInv, ShutdownWakes, Threads
<1>2. WakeInv => ShutdownWakes
  BY DEF WakeInv
<1> QED
  BY <1>1, <1>2, PlayerInvariant, TokenInvariant, WakeStep, PTL DEF Spec
=============================================================================
