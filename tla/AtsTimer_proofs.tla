--------------------------- MODULE AtsTimer_proofs ---------------------------
(***************************************************************************)
(* Proofs about AtsTimer for all timers, periods, word sizes and queues:   *)
(* a timer that is freed is used nowhere, a callback's context outlives    *)
(* all but a deletion under way, no timer fires early, and the items in    *)
(* the lists are the ticks of the next expiries.                           *)
(***************************************************************************)
EXTENDS AtsTimer, SequenceFacts, TLAPS

Sent == 1 .. Len(xTimerQueue)

IsMessage(m) == m.id \in {"START", "STOP", "DELETE"} /\ m.timer \in Timers

Deletes(m, t) == m.id = "DELETE" /\ m.timer = t

(* The owner has no handle any more, or has just sent its last command.    *)
Gone(t) == t \notin context \/ pc[t] = "free"

Pending(t) ==
  \/ \E i \in Sent : Deletes(xTimerQueue[i], t)
  \/ InWork /\ Deletes(xMessage, t)

(* The commands that are under way.                                        *)
Messages ==
  /\ IsSeq(xTimerQueue) /\ Len(xTimerQueue) \in Nat
  /\ \A i \in Sent : IsMessage(xTimerQueue[i])
  /\ InWork => IsMessage(xMessage)

(* Nothing is sent for a timer after the command to delete it.             *)
LastWords ==
  /\ \A i, j \in Sent : i < j /\ xTimerQueue[i].id = "DELETE" =>
       xTimerQueue[j].timer # xTimerQueue[i].timer
  /\ InWork /\ xMessage.id = "DELETE" =>
       \A i \in Sent : xTimerQueue[i].timer # xMessage.timer

(* A handle is of a timer that exists, and a timer without one is about to *)
(* be deleted.                                                             *)
Owned ==
  /\ pc \in [Timers -> {"idle", "start", "free"}]
  /\ \A t \in Timers : t \in exists => (Gone(t) <=> Pending(t))
  /\ \A t \in Timers : ~Gone(t) => t \in exists
  /\ \A t \in Timers : pc[t] = "start" => t \in context

(* All that the timer task can come upon is allocated.                     *)
Allocated ==
  /\ Listed \subseteq Timers /\ Listed \subseteq exists
  /\ \A i \in Sent : xTimerQueue[i].timer \in exists
  /\ pxTimer # None => pxTimer \in exists /\ pxTimer \in Timers
  /\ InWork => xMessage.timer \in exists

(* The timer of the command in work is in no list and is not being called. *)
Apart ==
  /\ InWork => xMessage.timer \notin Listed /\ xMessage.timer # pxTimer
  /\ pxTimer = None <=>
       daemon \in {"commands", "look", "blocked", "handle", "switch"}
  /\ daemon \in {"commands", "look", "blocked", "handle"} => switching = "no"
  /\ daemon = "switch" => switching # "no"
  /\ switching \in {"no", "look", "handle"}

TimerInv == Messages /\ LastWords /\ Owned /\ Allocated /\ Apart

USE DEF InWork

-----------------------------------------------------------------------------
(* The owners.                                                             *)

(* What sending does to the queue.                                         *)
LEMMA SendAdds ==
  ASSUME Messages, NEW t \in Timers, NEW command, NEW value,
         Send(t, command, value), command \in {"START", "STOP", "DELETE"}
  PROVE  /\ IsSeq(xTimerQueue') /\ Len(xTimerQueue') = Len(xTimerQueue) + 1
         /\ Len(xTimerQueue) \in Nat
         /\ \A i \in Sent : xTimerQueue'[i] = xTimerQueue[i]
         /\ xTimerQueue'[Len(xTimerQueue) + 1].id = command
         /\ xTimerQueue'[Len(xTimerQueue) + 1].timer = t
         /\ \A i \in Sent' : i \in Sent \/ i = Len(xTimerQueue) + 1
<1>1. PICK m : m = [id |-> command, timer |-> t, value |-> value]
  OBVIOUS
<1>2. m.id = command /\ m.timer = t /\ xTimerQueue' = Append(xTimerQueue, m)
  BY <1>1 DEF Send
<1>3. IsSeq(xTimerQueue)
  BY DEF Messages
<1>4. /\ IsSeq(xTimerQueue') /\ Len(xTimerQueue') = Len(xTimerQueue) + 1
      /\ Len(xTimerQueue) \in Nat
      /\ \A i \in Sent : xTimerQueue'[i] = xTimerQueue[i]
      /\ xTimerQueue'[Len(xTimerQueue) + 1] = m
  BY <1>2, <1>3, AppendToSeq DEF Sent
<1> QED
  BY <1>2, <1>4 DEF Sent

(* A command of an owner that has a handle.                                *)
LEMMA SendKeeps ==
  ASSUME TimerInv, NEW t \in Timers, NEW command, NEW value,
         Send(t, command, value), command \in {"START", "STOP", "DELETE"},
         ~Gone(t), UNCHANGED <<memory, lists, locals, daemon>>,
         pc' \in [Timers -> {"idle", "start", "free"}],
         \A u \in Timers : u # t => pc'[u] = pc[u],
         pc'[t] = IF command = "DELETE" THEN "free" ELSE "idle"
  PROVE  TimerInv'
<1>1. /\ IsSeq(xTimerQueue') /\ Len(xTimerQueue') = Len(xTimerQueue) + 1
      /\ Len(xTimerQueue) \in Nat
      /\ \A i \in Sent : xTimerQueue'[i] = xTimerQueue[i]
      /\ xTimerQueue'[Len(xTimerQueue) + 1].id = command
      /\ xTimerQueue'[Len(xTimerQueue) + 1].timer = t
      /\ \A i \in Sent' : i \in Sent \/ i = Len(xTimerQueue) + 1
  BY SendAdds DEF TimerInv
<1>2. Sent \subseteq Sent' /\ Len(xTimerQueue) + 1 \in Sent'
  BY <1>1 DEF Sent
<1>3. t \in exists /\ ~Pending(t) /\ t \in context
  BY DEF TimerInv, Owned, Gone
<1>4. UNCHANGED <<exists, context, pxCurrentTimerList, pxOverflowTimerList,
                  pxTimer, xMessage, switching, daemon>>
  BY DEF memory, lists, locals
<1>5. Messages'
  BY <1>1, <1>4 DEF TimerInv, Messages, IsMessage
<1>6. LastWords'
  <2>1. ASSUME NEW i \in Sent', NEW j \in Sent', i < j,
               xTimerQueue'[i].id = "DELETE"
        PROVE  xTimerQueue'[j].timer # xTimerQueue'[i].timer
    <3>1. i \in Sent
      BY <1>1, <2>1 DEF Sent
    <3>2. CASE j \in Sent
      BY <1>1, <2>1, <3>1, <3>2 DEF TimerInv, LastWords
    <3>3. CASE j = Len(xTimerQueue) + 1
      BY <1>1, <1>3, <2>1, <3>1, <3>3 DEF Pending, Deletes
    <3> QED
      BY <1>1, <3>2, <3>3
  <2>2. ASSUME InWork, xMessage.id = "DELETE", NEW i \in Sent'
        PROVE  xTimerQueue'[i].timer # xMessage.timer
    <3>1. CASE i \in Sent
      BY <1>1, <2>2, <3>1 DEF TimerInv, LastWords
    <3>2. CASE i = Len(xTimerQueue) + 1
      BY <1>1, <1>3, <2>2, <3>2 DEF Pending, Deletes
    <3> QED
      BY <1>1, <3>1, <3>2
  <2> QED
    BY <1>4, <2>1, <2>2 DEF LastWords
<1>7. Owned'
  <2>1. \A u \in Timers \ {t} : Pending(u)' <=> Pending(u)
    BY <1>1, <1>2, <1>4 DEF Pending, Deletes
  <2>2. \A u \in Timers \ {t} : Gone(u)' <=> Gone(u)
    BY <1>4 DEF Gone
  <2>3. Pending(t)' <=> command = "DELETE"
    BY <1>1, <1>2, <1>3, <1>4 DEF Pending, Deletes
  <2>4. Gone(t)' <=> command = "DELETE"
    BY <1>3, <1>4 DEF Gone
  <2> QED
    BY <1>3, <1>4, <2>1, <2>2, <2>3, <2>4 DEF TimerInv, Owned
<1>8. Allocated'
  BY <1>1, <1>3, <1>4 DEF TimerInv, Allocated, Listed
<1>9. Apart'
  BY <1>4 DEF TimerInv, Apart, Listed
<1> QED
  BY <1>5, <1>6, <1>7, <1>8, <1>9 DEF TimerInv

(* The commands and the timers stay as they are.                           *)
LEMMA OwnedStays ==
  ASSUME TimerInv, UNCHANGED <<xTimerQueue, memory, pc, xMessage>>,
         InWork' <=> InWork
  PROVE  /\ Messages' /\ LastWords' /\ Owned'
         /\ \A i \in Sent' : xTimerQueue'[i].timer \in exists'
         /\ InWork' => xMessage'.timer \in exists'
<1> USE DEF TimerInv, memory
<1>1. Messages' /\ LastWords'
  BY DEF Messages, LastWords, Sent
<1>2. Owned'
  BY DEF Owned, Gone, Pending, Sent
<1> QED
  BY <1>1, <1>2 DEF Allocated, Sent

(* The calls of an owner.                                                  *)
LEMMA OwnerKeeps ==
  ASSUME TimerInv, NEW t \in Timers, Owner(t)
  PROVE  TimerInv'
<1>1. CASE Create(t)
  <2>1. /\ t \notin exists /\ t \notin context /\ pc[t] = "idle"
        /\ exists' = exists \cup {t} /\ context' = context \cup {t}
        /\ UNCHANGED <<pc, xTimerQueue, pxCurrentTimerList,
                       pxOverflowTimerList, pxTimer, xMessage, switching,
                       daemon>>
    BY <1>1 DEF Create, owners, lists, locals
  <2>2. /\ ~Pending(t) /\ ~Gone(t)'
        /\ \A u \in Timers : Pending(u)' <=> Pending(u)
    BY <2>1 DEF Pending, Deletes, TimerInv, Allocated, Gone, Sent
  <2>3. Messages' /\ LastWords'
    BY <2>1 DEF TimerInv, Messages, LastWords, Sent
  <2>4. Owned'
    BY <2>1, <2>2 DEF TimerInv, Owned, Gone
  <2>5. Allocated' /\ Apart'
    BY <2>1 DEF TimerInv, Allocated, Apart, Listed, Sent
  <2> QED
    BY <2>3, <2>4, <2>5 DEF TimerInv
<1>2. CASE Start(t)
  <2>1. /\ pc[t] = "idle" /\ t \in context /\ pc' = [pc EXCEPT ![t] = "start"]
        /\ UNCHANGED <<exists, context, xTimerQueue, pxCurrentTimerList,
                       pxOverflowTimerList, pxTimer, xMessage, switching,
                       daemon>>
    BY <1>2 DEF Start, Ready, memory, lists, locals
  <2>2. \A u \in Timers : /\ Pending(u)' <=> Pending(u)
                          /\ Gone(u)' <=> Gone(u)
    BY <2>1 DEF Pending, Gone, TimerInv, Owned, Sent
  <2>3. Messages' /\ LastWords'
    BY <2>1 DEF TimerInv, Messages, LastWords, Sent
  <2>4. Owned'
    BY <2>1, <2>2 DEF TimerInv, Owned
  <2>5. Allocated' /\ Apart'
    BY <2>1 DEF TimerInv, Allocated, Apart, Listed, Sent
  <2> QED
    BY <2>3, <2>4, <2>5 DEF TimerInv
<1>3. CASE SendStart(t)
  <2>1. /\ pc[t] = "start" /\ pc' = [pc EXCEPT ![t] = "idle"]
        /\ UNCHANGED <<memory, lists, locals, daemon>>
    BY <1>3 DEF SendStart
  <2>2. ~Gone(t)
    BY <2>1 DEF Gone, TimerInv, Owned
  <2>3. CASE Send(t, "START", sentAt[t])
    BY <2>1, <2>2, <2>3, SendKeeps DEF TimerInv, Owned
  <2>4. CASE xTimerQueue' = xTimerQueue
    <3>1. UNCHANGED <<exists, context, pxCurrentTimerList,
                      pxOverflowTimerList, pxTimer, xMessage, switching>>
      BY <2>1 DEF memory, lists, locals
    <3>2. \A u \in Timers : /\ Pending(u)' <=> Pending(u)
                            /\ Gone(u)' <=> Gone(u)
      BY <2>1, <2>4, <3>1 DEF Pending, Gone, TimerInv, Owned, Sent
    <3>3. Messages' /\ LastWords'
      BY <2>1, <2>4, <3>1 DEF TimerInv, Messages, LastWords, Sent
    <3>4. Owned'
      BY <2>1, <3>1, <3>2 DEF TimerInv, Owned
    <3>5. Allocated' /\ Apart'
      BY <2>1, <2>4, <3>1 DEF TimerInv, Allocated, Apart, Listed, Sent
    <3> QED
      BY <3>3, <3>4, <3>5 DEF TimerInv
  <2> QED
    BY <1>3, <2>3, <2>4 DEF SendStart
<1>4. CASE Stop(t)
  <2>1. /\ pc[t] = "idle" /\ t \in context /\ pc' = pc
        /\ UNCHANGED <<memory, lists, locals, daemon>>
        /\ Send(t, "STOP", 0)
    BY <1>4 DEF Stop, Ready, owners
  <2>2. ~Gone(t)
    BY <2>1 DEF Gone
  <2> QED
    BY <2>1, <2>2, SendKeeps DEF TimerInv, Owned
<1>5. CASE Delete(t)
  <2>1. /\ pc[t] = "idle" /\ t \in context /\ pc' = [pc EXCEPT ![t] = "free"]
        /\ UNCHANGED <<memory, lists, locals, daemon>>
        /\ Send(t, "DELETE", 0)
    BY <1>5 DEF Delete, Ready
  <2>2. ~Gone(t)
    BY <2>1 DEF Gone
  <2> QED
    BY <2>1, <2>2, SendKeeps DEF TimerInv, Owned
<1>6. CASE FreeContext(t)
  <2>1. /\ pc[t] = "free" /\ context' = context \ {t}
        /\ pc' = [pc EXCEPT ![t] = "idle"]
        /\ UNCHANGED <<exists, xTimerQueue, pxCurrentTimerList,
                       pxOverflowTimerList, pxTimer, xMessage, switching,
                       daemon>>
    BY <1>6 DEF FreeContext, lists, locals
  <2>2. \A u \in Timers : /\ Pending(u)' <=> Pending(u)
                          /\ Gone(u)' <=> Gone(u)
    BY <2>1 DEF Pending, Gone, TimerInv, Owned, Sent
  <2>3. Messages' /\ LastWords'
    BY <2>1 DEF TimerInv, Messages, LastWords, Sent
  <2>4. Owned'
    BY <2>1, <2>2 DEF TimerInv, Owned
  <2>5. Allocated' /\ Apart'
    BY <2>1 DEF TimerInv, Allocated, Apart, Listed, Sent
  <2> QED
    BY <2>3, <2>4, <2>5 DEF TimerInv
<1> QED
  BY <1>1, <1>2, <1>3, <1>4, <1>5, <1>6 DEF Owner

-----------------------------------------------------------------------------
(* The timer task.                                                         *)

(* A step that only calls, reloads or waits.                               *)
LEMMA DaemonStays ==
  ASSUME TimerInv, UNCHANGED <<xTimerQueue, memory, pc, xMessage>>,
         InWork' <=> InWork,
         Listed' \subseteq Listed \cup ({pxTimer} \ {None}),
         pxTimer' \in {None, pxTimer} \cup Listed,
         Apart'
  PROVE  TimerInv'
<1>1. /\ Messages' /\ LastWords' /\ Owned'
      /\ \A i \in Sent' : xTimerQueue'[i].timer \in exists'
      /\ InWork' => xMessage'.timer \in exists'
  BY OwnedStays
<1>2. Allocated'
  BY <1>1 DEF TimerInv, Allocated, memory
<1> QED
  BY <1>1, <1>2 DEF TimerInv

(* A timer that is inserted is in a list.                                  *)
LEMMA InsertLists ==
  ASSUME NEW t, NEW next, NEW now, Insert(t, next, now)
  PROVE  Listed' = Listed \cup {t}
BY DEF Insert, Listed

(* An expired timer leaves its list and is the one in work.                *)
LEMMA ExpireTakes ==
  ASSUME TimerInv, NEW t \in Timers, IsHead(t), Expire(t)
  PROVE  /\ Listed' \subseteq Listed /\ t \in Listed /\ t # None
         /\ pxTimer' = t /\ daemon' \in {"reload", "call"}
BY TimerAssumption DEF IsHead, Expire, Listed

(* The steps of the timer task.                                            *)
LEMMA LookKeeps ==
  ASSUME TimerInv, Look
  PROVE  TimerInv'
<1>1. /\ UNCHANGED <<xTimerQueue, memory, pc>> /\ daemon = "look"
      /\ pxTimer = None /\ switching = "no"
  BY DEF Look, TimerInv, Apart, owners
<1>2. CASE Wrapped
  <2>1. /\ daemon' = "switch" /\ switching' = "look" /\ Listed' = Listed
        /\ UNCHANGED <<pxTimer, xMessage>>
    BY <1>2 DEF Look, lists, Listed
  <2>2. Apart'
    BY <1>1, <2>1 DEF TimerInv, Apart
  <2> QED
    BY <1>1, <2>1, <2>2, DaemonStays
<1>3. ASSUME NEW t \in Timers, IsHead(t), Expire(t),
             UNCHANGED <<xMessage, switching>>
      PROVE  TimerInv'
  <2>1. /\ Listed' \subseteq Listed /\ t \in Listed /\ t # None
        /\ pxTimer' = t /\ daemon' \in {"reload", "call"}
    BY <1>3, ExpireTakes
  <2>2. Apart'
    BY <1>1, <1>3, <2>1 DEF TimerInv, Apart
  <2> QED
    BY <1>1, <1>3, <2>1, <2>2, DaemonStays
<1>4. CASE Wait
  <2>1. /\ daemon' = "blocked" /\ Listed' = Listed
        /\ UNCHANGED <<pxTimer, xMessage, switching>>
    BY <1>4 DEF Wait, lists, locals, Listed
  <2>2. Apart'
    BY <1>1, <2>1 DEF TimerInv, Apart
  <2> QED
    BY <1>1, <2>1, <2>2, DaemonStays
<1> QED
  BY <1>2, <1>3, <1>4 DEF Look

(* The lists are exchanged once the current one is empty.                  *)
LEMMA SwitchKeeps ==
  ASSUME TimerInv, Switch
  PROVE  TimerInv'
<1>1. /\ UNCHANGED <<xTimerQueue, memory, pc, xMessage>> /\ daemon = "switch"
      /\ pxTimer = None /\ switching \in {"look", "handle"}
  BY DEF Switch, TimerInv, Apart, owners
<1>2. ASSUME NEW t \in Timers, IsHead(t), Expire(t), UNCHANGED switching
      PROVE  TimerInv'
  <2>1. /\ Listed' \subseteq Listed /\ t \in Listed /\ t # None
        /\ pxTimer' = t /\ daemon' \in {"reload", "call"}
    BY <1>2, ExpireTakes
  <2>2. Apart'
    BY <1>1, <1>2, <2>1 DEF TimerInv, Apart
  <2> QED
    BY <1>1, <1>2, <2>1, <2>2, DaemonStays
<1>3. CASE /\ pxCurrentTimerList = {}
           /\ pxCurrentTimerList' = pxOverflowTimerList
           /\ pxOverflowTimerList' = {}
           /\ daemon' = IF switching = "look" THEN "commands" ELSE "handle"
           /\ switching' = "no"
           /\ UNCHANGED pxTimer
  <2>1. Listed' = Listed
    BY <1>3 DEF Listed
  <2>2. Apart'
    BY <1>1, <1>3, <2>1 DEF TimerInv, Apart
  <2>3. InWork' <=> InWork
    BY <1>1, <1>3
  <2>4. UNCHANGED <<xTimerQueue, memory, pc, xMessage>>
    BY <1>1
  <2>5. pxTimer' \in {None, pxTimer} \cup Listed
    BY <1>3
  <2> QED
    BY <2>1, <2>2, <2>3, <2>4, <2>5, DaemonStays
<1> QED
  BY <1>2, <1>3 DEF Switch

(* A timer is put back into a list, or is due again at once.               *)
LEMMA ReloadKeeps ==
  ASSUME TimerInv, Reload
  PROVE  TimerInv'
<1>1. /\ UNCHANGED <<xTimerQueue, memory, pc, xMessage, switching, pxTimer>>
      /\ daemon = "reload" /\ pxTimer # None
      /\ daemon' \in {"call", "callAgain"}
  BY DEF Reload, TimerInv, Apart, owners
<1>2. Listed' \subseteq Listed \cup {pxTimer}
  BY InsertLists DEF Reload, lists, Listed
<1>3. Apart'
  BY <1>1, <1>2 DEF TimerInv, Apart
<1> QED
  BY <1>1, <1>2, <1>3, DaemonStays

(* The callbacks, the waits, and time.                                     *)
LEMMA CallKeeps ==
  ASSUME TimerInv, Call \/ Return \/ WakeUp \/ NoMoreCommands \/ Tick
  PROVE  TimerInv'
<1>1. UNCHANGED <<xTimerQueue, memory, pc, xMessage, switching>>
      /\ Listed' = Listed
  BY DEF Call, Return, WakeUp, NoMoreCommands, Tick, owners, locals, lists,
         Listed
<1>2. pxTimer' \in {None, pxTimer} /\ Apart'
  <2>1. CASE Call
    BY <1>1, <2>1 DEF Call, TimerInv, Apart, locals
  <2>2. CASE Return
    <3>1. InWork => xMessage.timer # None
      BY TimerAssumption DEF TimerInv, Messages, IsMessage
    <3>2. CASE daemon = "inAgain"
      BY <1>1, <2>2, <3>2 DEF Return, TimerInv, Apart
    <3>3. CASE daemon = "in"
      BY <1>1, <2>2, <3>1, <3>3 DEF Return, TimerInv, Apart
    <3> QED
      BY <2>2, <3>2, <3>3 DEF Return
  <2>3. CASE WakeUp \/ NoMoreCommands
    BY <1>1, <2>3 DEF WakeUp, NoMoreCommands, TimerInv, Apart, locals
  <2>4. CASE Tick
    BY <1>1, <2>4 DEF Tick, TimerInv, Apart, locals
  <2> QED
    BY <2>1, <2>2, <2>3, <2>4
<1>3. InWork' <=> InWork
  BY <1>1 DEF Call, Return, WakeUp, NoMoreCommands, Tick, TimerInv, Apart
<1> QED
  BY <1>1, <1>2, <1>3, DaemonStays

(* The next command leaves the queue.                                      *)
LEMMA ReceiveKeeps ==
  ASSUME TimerInv, Receive
  PROVE  TimerInv'
<1> DEFINE m == Head(xTimerQueue)
<1>1. /\ xTimerQueue # <<>> /\ xTimerQueue' = Tail(xTimerQueue)
      /\ xMessage' = m /\ daemon = "commands"
      /\ UNCHANGED <<memory, pc, pxTimer>>
      /\ Listed' = Listed \ {m.timer}
      /\ \/ daemon' = "switch" /\ switching' = "handle"
         \/ daemon' = "handle" /\ switching' = switching
  BY DEF Receive, owners, Listed
<1>2. pxTimer = None /\ switching = "no"
  BY <1>1 DEF TimerInv, Apart
<1>3. /\ IsSeq(xTimerQueue') /\ Len(xTimerQueue) \in Nat \ {0}
      /\ Len(xTimerQueue') = Len(xTimerQueue) - 1 /\ m = xTimerQueue[1]
      /\ \A i \in 1 .. Len(xTimerQueue) - 1 :
           xTimerQueue'[i] = xTimerQueue[i + 1]
  BY <1>1, TailOfSeq DEF TimerInv, Messages
<1>4. 1 \in Sent /\ \A i \in Sent' : i + 1 \in Sent /\ i \in Nat /\ 1 < i + 1
                                     /\ xTimerQueue'[i] = xTimerQueue[i + 1]
  BY <1>3 DEF Sent
<1>5. IsMessage(m) /\ m.timer \in exists
  BY <1>3, <1>4 DEF TimerInv, Messages, Allocated
<1> HIDE DEF m
<1>6. Messages'
  <2>1. \A i \in Sent' : IsMessage(xTimerQueue'[i])
    BY <1>4 DEF TimerInv, Messages
  <2>2. Len(xTimerQueue') \in Nat
    BY <1>3
  <2>3. IsMessage(xMessage')
    BY <1>1, <1>5
  <2> QED
    BY <1>3, <2>1, <2>2, <2>3 DEF Messages, IsMessage
<1>7. LastWords'
  <2>1. ASSUME NEW i \in Sent', NEW j \in Sent', i < j,
               xTimerQueue'[i].id = "DELETE"
        PROVE  xTimerQueue'[j].timer # xTimerQueue'[i].timer
    <3>1. i + 1 < j + 1
      BY <1>4, <2>1
    <3> QED
      BY <1>4, <2>1, <3>1 DEF TimerInv, LastWords
  <2>2. ASSUME m.id = "DELETE", NEW i \in Sent'
        PROVE  xTimerQueue'[i].timer # m.timer
    <3>1. xTimerQueue[1].id = "DELETE" /\ 1 < i + 1
      BY <1>3, <1>4, <2>2
    <3>2. xTimerQueue[i + 1].timer # xTimerQueue[1].timer
      BY <1>4, <3>1 DEF TimerInv, LastWords
    <3> QED
      BY <1>3, <1>4, <3>2
  <2> QED
    BY <1>1, <2>1, <2>2 DEF LastWords
<1>8. \A t \in Timers : /\ Pending(t)' <=> Pending(t)
                        /\ Gone(t)' <=> Gone(t)
  <2> SUFFICES ASSUME NEW t \in Timers
               PROVE  /\ Pending(t)' <=> Pending(t)
                      /\ Gone(t)' <=> Gone(t)
    OBVIOUS
  <2>1. ASSUME Pending(t)' PROVE Pending(t)
    BY <1>1, <1>3, <1>4, <2>1 DEF Pending, Deletes
  <2>2. ASSUME Pending(t) PROVE Pending(t)'
    <3>1. PICK i \in Sent : Deletes(xTimerQueue[i], t)
      BY <1>1, <1>2, <2>2 DEF Pending
    <3>2. CASE i = 1
      BY <1>1, <1>3, <3>1, <3>2 DEF Pending, Deletes
    <3>3. CASE i # 1
      <4>1. i - 1 \in Sent' /\ (i - 1) + 1 = i
        BY <1>3, <3>3 DEF Sent
      <4>2. xTimerQueue'[i - 1] = xTimerQueue[i]
        BY <1>4, <4>1
      <4> QED
        BY <3>1, <4>1, <4>2 DEF Pending
    <3> QED
      BY <3>2, <3>3
  <2> QED
    BY <1>1, <2>1, <2>2 DEF Gone, memory
<1>9. Owned'
  BY <1>1, <1>8 DEF TimerInv, Owned, memory
<1>10. Allocated'
  BY <1>1, <1>2, <1>4, <1>5 DEF TimerInv, Allocated, memory
<1>11. Apart'
  <2>1. m.timer # None
    BY <1>5, TimerAssumption DEF IsMessage
  <2>2. xMessage'.timer \notin Listed' /\ xMessage'.timer # pxTimer'
    BY <1>1, <1>2, <2>1
  <2> QED
    BY <1>1, <1>2, <2>2 DEF Apart
<1> QED
  BY <1>6, <1>7, <1>9, <1>10, <1>11 DEF TimerInv

(* A command that is not to delete is carried out.                         *)
LEMMA HandleStays ==
  ASSUME TimerInv, daemon = "handle", xMessage.id # "DELETE",
         UNCHANGED <<xTimerQueue, memory, pc, switching>>,
         daemon' # "handle",
         Listed' \subseteq Listed \cup {xMessage.timer},
         pxTimer' \in {None, xMessage.timer}, Apart'
  PROVE  TimerInv'
<1>1. /\ switching = "no"
      /\ xMessage.timer \in exists /\ xMessage.timer \in Timers
  BY DEF TimerInv, Apart, Allocated, Messages, IsMessage
<1>2. \A t \in Timers : /\ Pending(t)' <=> Pending(t)
                        /\ Gone(t)' <=> Gone(t)
  BY <1>1 DEF Pending, Deletes, Gone, memory, Sent
<1>3. Messages' /\ LastWords'
  BY <1>1 DEF TimerInv, Messages, LastWords, Sent
<1>4. Owned'
  BY <1>2 DEF TimerInv, Owned, memory
<1>5. Allocated'
  BY <1>1 DEF TimerInv, Allocated, memory, Sent
<1> QED
  BY <1>3, <1>4, <1>5 DEF TimerInv

(* The command to start a timer.                                           *)
LEMMA HandleStartKeeps ==
  ASSUME TimerInv, HandleStart
  PROVE  TimerInv'
<1>1. /\ daemon = "handle" /\ xMessage.id = "START"
      /\ UNCHANGED <<xTimerQueue, memory, pc, switching>>
  BY DEF HandleStart, owners
<1>2. /\ xMessage.timer # None /\ pxTimer = None /\ switching = "no"
  BY <1>1, TimerAssumption DEF TimerInv, Apart, Messages, IsMessage
<1>3. \/ /\ pxTimer' = xMessage.timer /\ Listed' = Listed
         /\ daemon' \in {"reload", "call"}
      \/ /\ pxTimer' = pxTimer /\ Listed' = Listed \cup {xMessage.timer}
         /\ daemon' = "commands"
  BY InsertLists DEF HandleStart, lists, Listed
<1>4. Apart'
  BY <1>1, <1>2, <1>3 DEF TimerInv, Apart
<1> QED
  BY <1>1, <1>2, <1>3, <1>4, HandleStays

(* The command to stop a timer.                                            *)
LEMMA HandleStopKeeps ==
  ASSUME TimerInv, HandleStop
  PROVE  TimerInv'
<1>1. /\ daemon = "handle" /\ xMessage.id = "STOP"
      /\ UNCHANGED <<xTimerQueue, memory, pc, switching, pxTimer>>
      /\ daemon' = "commands" /\ Listed' = Listed
  BY DEF HandleStop, owners, lists, Listed
<1>2. pxTimer = None /\ switching = "no"
  BY <1>1 DEF TimerInv, Apart
<1>3. Apart'
  BY <1>1, <1>2 DEF TimerInv, Apart
<1> QED
  BY <1>1, <1>2, <1>3, HandleStays

(* The memory of a timer is freed.                                         *)
LEMMA HandleDeleteKeeps ==
  ASSUME TimerInv, HandleDelete
  PROVE  TimerInv'
<1> DEFINE t == xMessage.timer
<1>1. /\ daemon = "handle" /\ xMessage.id = "DELETE"
      /\ UNCHANGED <<xTimerQueue, context, pc, switching, pxTimer>>
      /\ exists' = exists \ {t}
      /\ daemon' = "commands" /\ Listed' = Listed
  BY DEF HandleDelete, owners, lists, Listed
<1>2. /\ pxTimer = None /\ switching = "no"
      /\ t \notin Listed /\ t \in Timers /\ t \in exists
  BY <1>1 DEF TimerInv, Apart, Messages, IsMessage, Allocated
<1>3. \A i \in Sent : xTimerQueue[i].timer # t
  BY <1>1, <1>2 DEF TimerInv, LastWords
<1>4. \A u \in Timers : /\ u # t => (Pending(u)' <=> Pending(u))
                        /\ Gone(u)' <=> Gone(u)
  BY <1>1, <1>2 DEF Pending, Deletes, Gone, Sent
<1>5. Gone(t)
  BY <1>1, <1>2 DEF TimerInv, Owned, Pending, Deletes
<1>6. Messages' /\ LastWords'
  BY <1>1, <1>2 DEF TimerInv, Messages, LastWords, Sent
<1>7. Owned'
  BY <1>1, <1>4, <1>5 DEF TimerInv, Owned
<1>8. Allocated'
  BY <1>1, <1>2, <1>3 DEF TimerInv, Allocated, Sent
<1>9. Apart'
  BY <1>1, <1>2 DEF TimerInv, Apart
<1> QED
  BY <1>6, <1>7, <1>8, <1>9 DEF TimerInv

-----------------------------------------------------------------------------
(* TimerInv holds in every state.                                          *)
LEMMA TimerInvariant == Spec => []TimerInv
<1>1. Init => TimerInv
  <2> SUFFICES ASSUME Init PROVE TimerInv
    OBVIOUS
  <2>1. IsSeq(<<>>)
    BY <<>> \in Seq({}) DEF IsSeq
  <2>2. Sent = {}
    BY DEF Init, Sent
  <2> QED
    BY <2>1, <2>2 DEF Init, TimerInv, Messages, LastWords, Owned, Gone,
                      Pending, Allocated, Apart, Listed
<1>2. TimerInv /\ [Next]_vars => TimerInv'
  <2> SUFFICES ASSUME TimerInv, [Next]_vars PROVE TimerInv'
    OBVIOUS
  <2>1. CASE UNCHANGED vars
    <3>1. Listed' = Listed
      BY <2>1 DEF vars, lists, Listed
    <3>2. Apart'
      BY <2>1, <3>1 DEF vars, locals, TimerInv, Apart
    <3> QED
      BY <2>1, <3>1, <3>2, DaemonStays DEF vars, locals, owners
  <2> QED
    BY <2>1, OwnerKeeps, LookKeeps, SwitchKeeps, ReloadKeeps, CallKeeps,
       ReceiveKeeps, HandleStartKeeps, HandleStopKeeps, HandleDeleteKeeps
    DEF Next, Daemon
<1> QED
  BY <1>1, <1>2, PTL DEF Spec

(* The memory of a timer is not used after it has been freed.              *)
THEOREM TimersDoNotDangle == Spec => []NoDanglingTimer
<1>1. TimerInv => NoDanglingTimer
  BY DEF TimerInv, Allocated, NoDanglingTimer, Sent
<1> QED
  BY <1>1, TimerInvariant, PTL

(* A callback's context is gone only while the command to delete the timer *)
(* is still on its way to the timer task.                                  *)
THEOREM ContextsGoLast == Spec => []ContextWindow
<1>1. TimerInv => ContextWindow
  <2> SUFFICES ASSUME TimerInv, daemon \in {"call", "callAgain"},
                      pxTimer \notin context
               PROVE  \E i \in Sent : Deletes(xTimerQueue[i], pxTimer)
    BY DEF ContextWindow, Deletes, Sent
  <2>1. pxTimer # None /\ pxTimer \in exists /\ pxTimer \in Timers
    BY DEF TimerInv, Apart, Allocated
  <2>2. Pending(pxTimer)
    BY <2>1 DEF TimerInv, Owned, Gone
  <2> QED
    BY <2>2 DEF Pending, Deletes, TimerInv, Apart
<1> QED
  BY <1>1, TimerInvariant, PTL
-----------------------------------------------------------------------------
(* Time.                                                                   *)

(* The timer in work whose expiry, xExpiredTime, is not yet in a list.     *)
InHand == daemon \in {"reload", "callAgain", "inAgain"}

(* The ticks from that expiry: while a callback of it is due, to the next. *)
InHandLeft ==
  IF daemon = "callAgain" THEN left[pxTimer] + Period[pxTimer]
                          ELSE left[pxTimer]

(* The tick count has wrapped since the current list became current.       *)
Behind == switching # "no" \/ Wrapped
Shift  == IF Behind THEN Word ELSE 0

TickTypes ==
  /\ xTickCount \in Ticks /\ xLastTime \in Ticks /\ xTimeNow \in Ticks
  /\ item \in [Timers -> Ticks] /\ left \in [Timers -> Int]
  /\ sentAt \in [Timers -> Ticks]

(* Nobody waits for longer than MaxLate to have a start carried out.       *)
Recent(v) == v \in Ticks /\ Minus(xTickCount, v) <= MaxLate

RecentStarts ==
  /\ \A t \in Timers : pc[t] = "start" => Recent(sentAt[t])
  /\ \A i \in Sent : xTimerQueue[i].id = "START" =>
       Recent(xTimerQueue[i].value)
  /\ InWork /\ xMessage.id = "START" =>
       /\ Recent(xMessage.value)
       /\ Minus(xTickCount, xMessage.value) =
            Minus(xTickCount, xTimeNow) + Minus(xTimeNow, xMessage.value)

(* The lists hold expiries of two turns of the tick count, the current one *)
(* those of the turn of xLastTime.                                         *)
ListsAreDue ==
  /\ \A t \in Listed : - MaxLate <= left[t]
  /\ \A t \in pxCurrentTimerList :
       item[t] = xTickCount + Upcoming(t) + Shift
  /\ \A t \in pxOverflowTimerList :
       /\ item[t] = xTickCount + Upcoming(t) + Shift - Word
       /\ item[t] < Period[t]

(* The timer task has looked at the clock since a timer was last started   *)
(* or reloaded; so the count has not made a whole turn meanwhile.          *)
ClockIsRead ==
  switching = "no" =>
    /\ \A t \in Listed :
         Upcoming(t) + Minus(xTickCount, xLastTime) <= Period[t]
    /\ InHand \/ daemon = "handle" => xLastTime = xTimeNow

(* While the lists are exchanged the count does not wrap again.            *)
OneTurn ==
  switching # "no" /\ (Listed # {} \/ InHand) => xTimeNow <= xTickCount

InHandIsDue ==
  InHand =>
    /\ pxTimer \notin Listed /\ pxTimer \in AutoReload
    /\ xExpiredTime \in Ticks
    /\ - MaxLate <= left[pxTimer] /\ InHandLeft <= 0
    /\ IF switching = "no"
       THEN Minus(xTimeNow, xExpiredTime) + Minus(xTickCount, xTimeNow)
              = - InHandLeft
       ELSE xExpiredTime = xTickCount + InHandLeft + Word

CallIsDue ==
  daemon = "call" => /\ left[pxTimer] <= 0
                     /\ pxTimer \notin AutoReload => pxTimer \notin Listed

TimeInv ==
  /\ TickTypes /\ RecentStarts /\ ListsAreDue /\ ClockIsRead /\ OneTurn
  /\ InHandIsDue /\ CallIsDue

-----------------------------------------------------------------------------
(* The arithmetic of the tick count.                                       *)

(* A remainder is known by what is left of the quotient.                   *)
LEMMA Remainder ==
  ASSUME NEW n \in Int, NEW w \in Nat \ {0}
  PROVE  /\ 0 <= n /\ n < w => n % w = n
         /\ w <= n /\ n < w + w => n % w = n - w
         /\ - w <= n /\ n < 0 => n % w = n + w
<1>1. n = w * (n \div w) + (n % w) /\ n % w \in 0 .. w - 1
  OBVIOUS
<1> QED
  BY <1>1

(* The constants.                                                          *)
LEMMA TimerFacts ==
  ASSUME NEW t \in Timers
  PROVE  /\ Word \in Nat \ {0} /\ MaxLate \in Nat \ {0}
         /\ Period[t] \in Nat \ {0} /\ Period[t] + MaxLate + MaxLate < Word
<1>1. /\ Word \in Nat /\ MaxLate \in Nat \ {0} /\ Period[t] \in Nat \ {0}
      /\ Period[t] + 2 * MaxLate < Word
  BY TimerAssumption
<1> QED
  BY <1>1

(* The ticks from b to a.                                                  *)
LEMMA MinusTicks ==
  ASSUME NEW a \in Ticks, NEW b \in Ticks
  PROVE  /\ Minus(a, b) = IF b <= a THEN a - b ELSE a - b + Word
         /\ Minus(a, b) \in Ticks
<1>1. Word \in Nat \ {0} /\ a - b \in Int
  BY TimerAssumption DEF Ticks
<1>2. a \in Int /\ b \in Int /\ 0 <= a /\ a < Word /\ 0 <= b /\ b < Word
  BY <1>1 DEF Ticks
<1>3. CASE b <= a
  <2>1. 0 <= a - b /\ a - b < Word
    BY <1>1, <1>2, <1>3
  <2>2. (a - b) % Word = a - b
    BY <1>1, <2>1, Remainder
  <2> QED
    BY <1>1, <1>2, <1>3, <2>1, <2>2 DEF Minus, Ticks
<1>4. CASE ~(b <= a)
  <2>1. - Word <= a - b /\ a - b < 0
    BY <1>1, <1>2, <1>4
  <2>2. (a - b) % Word = (a - b) + Word
    BY <1>1, <2>1, Remainder
  <2> QED
    BY <1>1, <1>2, <1>4, <2>1, <2>2 DEF Minus, Ticks
<1> QED
  BY <1>3, <1>4

(* The tick p ticks after a.                                               *)
LEMMA PlusTicks ==
  ASSUME NEW a \in Ticks, NEW p \in Nat, p < Word
  PROVE  /\ Plus(a, p) = IF a + p < Word THEN a + p ELSE a + p - Word
         /\ Plus(a, p) \in Ticks
<1>1. Word \in Nat \ {0} /\ a + p \in Int
  BY TimerAssumption DEF Ticks
<1>2. a \in Int /\ 0 <= a /\ a < Word
  BY <1>1 DEF Ticks
<1>3. CASE a + p < Word
  <2>0. 0 <= a + p
    BY <1>1, <1>2
  <2>1. (a + p) % Word = a + p
    BY <1>1, <1>3, <2>0, Remainder
  <2> QED
    BY <1>1, <1>2, <1>3, <2>1 DEF Plus, Ticks
<1>4. CASE ~(a + p < Word)
  <2>1. Word <= a + p /\ a + p < Word + Word
    BY <1>1, <1>2, <1>4
  <2>2. (a + p) % Word = (a + p) - Word
    BY <1>1, <2>1, Remainder
  <2> QED
    BY <1>1, <1>2, <1>4, <2>1, <2>2 DEF Plus, Ticks
<1> QED
  BY <1>3, <1>4

(* What prvInsertTimerInActiveList compares tells whether the period has   *)
(* passed, wherever the count has wrapped.                                 *)
LEMMA ProcessNowIsExpiry ==
  ASSUME NEW t \in Timers, NEW c \in Ticks, NEW n \in Ticks
  PROVE  ProcessNow(t, Plus(c, Period[t]), n, c) <=> Minus(n, c) >= Period[t]
<1> DEFINE p == Period[t]
           next == Plus(c, p)
           d == Minus(n, c)
<1>1. Word \in Nat \ {0} /\ p \in Nat \ {0} /\ p < Word
  BY TimerFacts
<1>2. d = IF c <= n THEN n - c ELSE n - c + Word
  BY MinusTicks
<1>3. next = IF c + p < Word THEN c + p ELSE c + p - Word
  BY <1>1, PlusTicks
<1>4. ProcessNow(t, next, n, c) <=>
        IF next <= n THEN d >= p ELSE n < c /\ next >= c
  BY DEF ProcessNow
<1>5. c \in Nat /\ n \in Nat /\ c < Word /\ n < Word
  BY <1>1 DEF Ticks
<1> HIDE DEF p, next, d
<1>6. (IF next <= n THEN d >= p ELSE n < c /\ next >= c) <=> d >= p
  BY <1>1, <1>2, <1>3, <1>5
<1> QED
  BY <1>4, <1>6 DEF p, next, d

(* Where a timer goes whose expiry is a period after c; n is the last tick *)
(* count that the timer task has read, now the present one.                *)
LEMMA Placed ==
  ASSUME NEW t \in Timers, NEW c \in Ticks, NEW n \in Ticks,
         NEW now \in Ticks, Minus(n, c) + Minus(now, n) <= MaxLate,
         NEW next, next = Plus(c, Period[t]),
         NEW u, u = Period[t] - Minus(n, c) - Minus(now, n),
         NEW shift, shift = IF now < n THEN Word ELSE 0
  PROVE  /\ next \in Ticks /\ u \in Int
         /\ - MaxLate <= u /\ u + Minus(now, n) <= Period[t]
         /\ ProcessNow(t, next, n, c) =>
              u <= 0 /\ Minus(n, next) + Minus(now, n) = - u
         /\ ~ProcessNow(t, next, n, c) /\ ~(next <= n) =>
              next = now + u + shift
         /\ ~ProcessNow(t, next, n, c) /\ next <= n =>
              next = now + u + shift - Word /\ next < Period[t]
<1> DEFINE p == Period[t]
           d == Minus(n, c)
           e == Minus(now, n)
           m == Minus(n, next)
<1>1. /\ Word \in Nat \ {0} /\ p \in Nat \ {0} /\ MaxLate \in Nat
      /\ p + MaxLate + MaxLate < Word /\ p < Word
  BY TimerFacts
<1>2. d = (IF c <= n THEN n - c ELSE n - c + Word) /\ d \in Ticks
  BY MinusTicks
<1>3. e = (IF n <= now THEN now - n ELSE now - n + Word) /\ e \in Ticks
  BY MinusTicks
<1>4. next = (IF c + p < Word THEN c + p ELSE c + p - Word) /\ next \in Ticks
  BY <1>1, PlusTicks
<1>5. ProcessNow(t, next, n, c) <=> d >= p
  BY ProcessNowIsExpiry
<1>6. m = IF next <= n THEN n - next ELSE n - next + Word
  BY <1>4, MinusTicks
<1>7. c \in Nat /\ n \in Nat /\ now \in Nat /\ c < Word /\ n < Word
      /\ now < Word /\ d \in Nat /\ e \in Nat /\ next \in Nat
  BY <1>1, <1>2, <1>3, <1>4 DEF Ticks
<1>8. d + e <= MaxLate /\ u = p - d - e
  OBVIOUS
<1> HIDE DEF p, d, e, m
<1>9. u \in Int /\ - MaxLate <= u /\ u + e <= p
  BY <1>1, <1>7, <1>8
<1>10. d >= p => u <= 0 /\ m + e = - u
  <2>1. ASSUME d >= p PROVE m = d - p
    <3>1. CASE c <= n
      <4>1. d = n - c /\ c + p <= n
        BY <1>1, <1>2, <1>7, <2>1, <3>1
      <4>2. next = c + p
        BY <1>1, <1>4, <1>7, <4>1
      <4> QED
        BY <1>1, <1>6, <1>7, <4>1, <4>2
    <3>2. CASE ~(c <= n) /\ c + p < Word
      <4>1. next = c + p /\ ~(next <= n) /\ d = n - c + Word
        BY <1>1, <1>2, <1>4, <1>7, <3>2
      <4> QED
        BY <1>1, <1>6, <1>7, <4>1
    <3>3. CASE ~(c <= n) /\ ~(c + p < Word)
      <4>1. next = c + p - Word /\ next <= n /\ d = n - c + Word
        BY <1>1, <1>2, <1>4, <1>7, <2>1, <3>3
      <4> QED
        BY <1>1, <1>6, <1>7, <4>1
    <3> QED
      BY <3>1, <3>2, <3>3
  <2> QED
    BY <1>1, <1>7, <1>8, <2>1
<1>11. ~(d >= p) /\ ~(next <= n) => next = now + u + shift
  BY <1>1, <1>2, <1>3, <1>4, <1>7, <1>8
<1>12. ~(d >= p) /\ next <= n => next = now + u + shift - Word /\ next < p
  BY <1>1, <1>2, <1>3, <1>4, <1>7, <1>8
<1> QED
  BY <1>4, <1>5, <1>9, <1>10, <1>11, <1>12 DEF p, d, e, m

(* A tick later.                                                           *)
LEMMA OneMoreTick ==
  ASSUME NEW a \in Ticks, NEW b \in Ticks, Minus(a, b) + 1 < Word
  PROVE  /\ Plus(a, 1) \in Ticks
         /\ Plus(a, 1) = IF a = Word - 1 THEN 0 ELSE a + 1
         /\ Minus(Plus(a, 1), b) = Minus(a, b) + 1
<1>1. Word \in Nat /\ 0 <= a /\ a < Word /\ 0 <= b /\ b < Word
      /\ a \in Int /\ b \in Int
  BY TimerAssumption DEF Ticks
<1>2. Minus(a, b) = IF b <= a THEN a - b ELSE a - b + Word
  BY MinusTicks
<1>3. 1 < Word
  BY <1>1, <1>2
<1>4. /\ Plus(a, 1) = IF a + 1 < Word THEN a + 1 ELSE a + 1 - Word
      /\ Plus(a, 1) \in Ticks
  BY <1>3, PlusTicks
<1>5. Minus(Plus(a, 1), b) = IF b <= Plus(a, 1) THEN Plus(a, 1) - b
                                               ELSE Plus(a, 1) - b + Word
  BY <1>4, MinusTicks
<1> QED
  BY <1>1, <1>2, <1>4, <1>5

-----------------------------------------------------------------------------
(* The owners' calls take no time.                                         *)

(* The clock, the timer task and its lists stay as they are.               *)
LEMMA ClockStays ==
  ASSUME TimeInv, RecentStarts', sentAt' \in [Timers -> Ticks],
         UNCHANGED <<xTickCount, lists, daemon, xLastTime, locals, left>>
  PROVE  TimeInv'
<1>1. UNCHANGED <<pxCurrentTimerList, pxOverflowTimerList, item, pxTimer,
                  xExpiredTime, xTimeNow, switching>>
  BY DEF lists, locals
<1>2. /\ Listed' = Listed /\ Shift' = Shift /\ InHand' = InHand
      /\ InHandLeft' = InHandLeft
      /\ \A t : Upcoming(t)' = Upcoming(t)
  BY <1>1 DEF Listed, Shift, Behind, Wrapped, InHand, InHandLeft, Upcoming
<1>3. TickTypes'
  BY <1>1 DEF TimeInv, TickTypes
<1>4. ListsAreDue'
  BY <1>1, <1>2 DEF TimeInv, ListsAreDue
<1>5. ClockIsRead' /\ OneTurn'
  BY <1>1, <1>2 DEF TimeInv, ClockIsRead, OneTurn
<1>6. InHandIsDue' /\ CallIsDue'
  BY <1>1, <1>2 DEF TimeInv, InHandIsDue, CallIsDue
<1> QED
  BY <1>3, <1>4, <1>5, <1>6 DEF TimeInv

(* The command that is sent is a recent one too.                           *)
LEMMA SendIsRecent ==
  ASSUME TimerInv, RecentStarts, NEW t \in Timers, NEW command, NEW value,
         Send(t, command, value), command \in {"START", "STOP", "DELETE"},
         command = "START" => Recent(value),
         UNCHANGED <<xTickCount, locals, daemon>>,
         \A u \in Timers : pc'[u] = "start" => Recent(sentAt'[u])
  PROVE  RecentStarts'
<1>1. PICK m : m = [id |-> command, timer |-> t, value |-> value]
  OBVIOUS
<1>2. /\ m.id = command /\ m.value = value
      /\ xTimerQueue' = Append(xTimerQueue, m)
  BY <1>1 DEF Send
<1>3. /\ Len(xTimerQueue') = Len(xTimerQueue) + 1 /\ Len(xTimerQueue) \in Nat
      /\ \A i \in Sent : xTimerQueue'[i] = xTimerQueue[i]
      /\ xTimerQueue'[Len(xTimerQueue) + 1] = m
  BY <1>2, AppendToSeq DEF Sent, TimerInv, Messages
<1>4. \A i \in Sent' : i \in Sent \/ i = Len(xTimerQueue) + 1
  BY <1>3 DEF Sent
<1>5. \A v : Recent(v)' <=> Recent(v)
  BY DEF Recent
<1>6. \A i \in Sent' : xTimerQueue'[i].id = "START" =>
        Recent(xTimerQueue'[i].value)
  BY <1>2, <1>3, <1>4 DEF RecentStarts
<1>7. InWork' /\ xMessage'.id = "START" =>
        /\ Recent(xMessage'.value)
        /\ Minus(xTickCount', xMessage'.value) =
             Minus(xTickCount', xTimeNow') + Minus(xTimeNow', xMessage'.value)
  BY DEF RecentStarts, locals
<1> QED
  BY <1>5, <1>6, <1>7 DEF RecentStarts

(* The queue stays as well.                                                *)
LEMMA StartsStayRecent ==
  ASSUME RecentStarts, UNCHANGED <<xTickCount, xTimerQueue, locals, daemon>>,
         \A u \in Timers : pc'[u] = "start" => Recent(sentAt'[u])
  PROVE  RecentStarts'
<1>1. \A v : Recent(v)' <=> Recent(v)
  BY DEF Recent
<1> QED
  BY <1>1 DEF RecentStarts, Sent, locals

(* A call reads the tick count that it sends.                              *)
LEMMA OwnerInTime ==
  ASSUME TimerInv, TimeInv, NEW t \in Timers, Owner(t)
  PROVE  TimeInv'
<1>0. /\ TickTypes /\ RecentStarts /\ xTickCount \in Ticks
      /\ pc \in [Timers -> {"idle", "start", "free"}]
      /\ sentAt \in [Timers -> Ticks]
      /\ 0 \in Ticks
  BY TimerAssumption DEF TimeInv, TickTypes, TimerInv, Owned, Ticks
<1>1. UNCHANGED <<xTickCount, lists, daemon, xLastTime, locals, left>>
  BY DEF Owner, Create, Start, SendStart, Stop, Delete, FreeContext
<1>2. Recent(xTickCount)
  <2>1. Minus(xTickCount, xTickCount) = xTickCount - xTickCount
    BY <1>0, MinusTicks DEF Ticks
  <2>2. xTickCount - xTickCount = 0 /\ MaxLate \in Nat
    BY <1>0, TimerFacts DEF Ticks
  <2> QED
    BY <1>0, <2>1, <2>2 DEF Recent
<1>3. \A u \in Timers : pc[u] = "start" => Recent(sentAt[u])
  BY <1>0 DEF RecentStarts
<1>4. CASE Create(t) \/ FreeContext(t)
  <2>1. /\ UNCHANGED <<xTimerQueue, sentAt>>
        /\ \A u \in Timers : pc'[u] = "start" => pc[u] = "start"
    BY <1>0, <1>4 DEF Create, FreeContext, owners
  <2>2. RecentStarts'
    BY <1>0, <1>1, <1>3, <2>1, StartsStayRecent
  <2> QED
    BY <1>0, <1>1, <2>1, <2>2, ClockStays
<1>5. CASE Start(t)
  <2>1. /\ UNCHANGED xTimerQueue /\ sentAt' = [sentAt EXCEPT ![t] = xTickCount]
        /\ pc' = [pc EXCEPT ![t] = "start"]
    BY <1>5 DEF Start
  <2>2. \A u \in Timers : pc'[u] = "start" => Recent(sentAt'[u])
    BY <1>0, <1>2, <1>3, <2>1
  <2>3. RecentStarts'
    BY <1>0, <1>1, <2>1, <2>2, StartsStayRecent
  <2> QED
    BY <1>0, <1>1, <2>1, <2>3, ClockStays
<1>6. CASE SendStart(t)
  <2>1. /\ pc[t] = "start" /\ pc' = [pc EXCEPT ![t] = "idle"]
        /\ sentAt' = [sentAt EXCEPT ![t] = 0]
    BY <1>6 DEF SendStart
  <2>2. \A u \in Timers : pc'[u] = "start" => Recent(sentAt'[u])
    BY <1>0, <1>3, <2>1
  <2>3. CASE Send(t, "START", sentAt[t])
    <3>1. RecentStarts'
      BY <1>0, <1>1, <1>3, <2>1, <2>2, <2>3, SendIsRecent
    <3> QED
      BY <1>0, <1>1, <2>1, <3>1, ClockStays
  <2>4. CASE UNCHANGED xTimerQueue
    <3>1. RecentStarts'
      BY <1>0, <1>1, <2>2, <2>4, StartsStayRecent
    <3> QED
      BY <1>0, <1>1, <2>1, <3>1, ClockStays
  <2> QED
    BY <1>6, <2>3, <2>4 DEF SendStart
<1>7. CASE Stop(t) \/ Delete(t)
  <2>1. /\ UNCHANGED sentAt
        /\ Send(t, "STOP", 0) \/ Send(t, "DELETE", 0)
        /\ \A u \in Timers : pc'[u] = "start" => pc[u] = "start"
    BY <1>0, <1>7 DEF Stop, Delete, owners
  <2>2. RecentStarts'
    BY <1>0, <1>1, <1>3, <2>1, SendIsRecent
  <2> QED
    BY <1>0, <1>1, <2>1, <2>2, ClockStays
<1> QED
  BY <1>4, <1>5, <1>6, <1>7 DEF Owner

-----------------------------------------------------------------------------
(* The timer task's steps take no time either; only Tick does.             *)

(* The starts that are under way wait no longer.                           *)
LEMMA StartsGoOn ==
  ASSUME RecentStarts, UNCHANGED <<xTickCount, xTimerQueue, pc, sentAt>>,
         InWork' => InWork /\ UNCHANGED <<xMessage, xTimeNow>>
  PROVE  RecentStarts'
<1>1. \A v : Recent(v)' <=> Recent(v)
  BY DEF Recent
<1> QED
  BY <1>1 DEF RecentStarts, Sent

(* No timer is put into a list.                                            *)
LEMMA ListsStayDue ==
  ASSUME ListsAreDue, UNCHANGED xTickCount, Shift' = Shift,
         pxCurrentTimerList' \subseteq pxCurrentTimerList,
         pxOverflowTimerList' \subseteq pxOverflowTimerList,
         \A t \in Listed' : /\ item'[t] = item[t] /\ left'[t] >= - MaxLate
                            /\ Upcoming(t)' = Upcoming(t)
  PROVE  ListsAreDue'
<1>1. Listed' \subseteq Listed
  BY DEF Listed
<1>2. \A t \in Listed' : - MaxLate <= left'[t]
  BY DEF ListsAreDue
<1>3. \A t \in pxCurrentTimerList' :
        item'[t] = xTickCount' + Upcoming(t)' + Shift'
  BY DEF ListsAreDue, Listed
<1>4. \A t \in pxOverflowTimerList' :
        /\ item'[t] = xTickCount' + Upcoming(t)' + Shift' - Word
        /\ item'[t] < Period[t]
  BY DEF ListsAreDue, Listed
<1> QED
  BY <1>2, <1>3, <1>4 DEF ListsAreDue

(* A timer is in one list; what is in a list can be counted with.          *)
LEMMA ListedFacts ==
  ASSUME TimerInv, TimeInv, NEW t \in Listed
  PROVE  /\ t \in Timers /\ left[t] \in Int /\ Upcoming(t) \in Int
         /\ item[t] \in Nat /\ item[t] < Word
         /\ Word \in Nat \ {0} /\ MaxLate \in Nat \ {0}
         /\ Period[t] \in Nat \ {0} /\ Period[t] + MaxLate + MaxLate < Word
         /\ - MaxLate <= left[t]
         /\ Shift \in {0, Word}
         /\ t \in pxCurrentTimerList => t \notin pxOverflowTimerList
<1>1. t \in Timers
  BY DEF TimerInv, Allocated
<1>2. /\ Word \in Nat \ {0} /\ MaxLate \in Nat \ {0}
      /\ Period[t] \in Nat \ {0} /\ Period[t] + MaxLate + MaxLate < Word
  BY <1>1, TimerFacts
<1>3. left[t] \in Int /\ item[t] \in Ticks
  BY <1>1 DEF TimeInv, TickTypes
<1>4. Upcoming(t) \in Int
  BY <1>2, <1>3 DEF Upcoming
<1>5. item[t] \in Nat /\ item[t] < Word
  BY <1>2, <1>3 DEF Ticks
<1>6. - MaxLate <= left[t]
  BY DEF TimeInv, ListsAreDue
<1>7. Shift \in {0, Word}
  BY DEF Shift
<1>8. ASSUME t \in pxCurrentTimerList, t \in pxOverflowTimerList
      PROVE  FALSE
  <2>1. /\ item[t] = xTickCount + Upcoming(t) + Shift
        /\ item[t] = xTickCount + Upcoming(t) + Shift - Word
    BY <1>8 DEF TimeInv, ListsAreDue
  <2>2. xTickCount \in Int
    BY <1>2 DEF TimeInv, TickTypes, Ticks
  <2> QED
    BY <1>2, <1>4, <1>7, <2>1, <2>2
<1> QED
  BY <1>1, <1>2, <1>3, <1>4, <1>5, <1>6, <1>7, <1>8

(* The head of the current list leaves it.                                 *)
LEMMA ExpireInTime ==
  ASSUME TimerInv, TimeInv, NEW t \in Timers, IsHead(t), Expire(t),
         daemon # "call", UNCHANGED xTickCount, Shift' = Shift
  PROVE  /\ ListsAreDue' /\ (left[t] <= 0 => CallIsDue')
         /\ t \notin Listed' /\ Listed' \subseteq Listed
         /\ pxTimer' = t /\ left' = left
         /\ item' \in [Timers -> Ticks]
         /\ item[t] = xTickCount + left[t] + Shift
         /\ \A u : Upcoming(u) = left[u]
         /\ \A u \in Listed' : Upcoming(u)' = Upcoming(u)
         /\ daemon' = IF t \in AutoReload THEN "reload" ELSE "call"
         /\ t \in AutoReload => xExpiredTime' = item[t]
<1>1. /\ pxTimer' = t /\ left' = left /\ item' = [item EXCEPT ![t] = 0]
      /\ pxCurrentTimerList' = pxCurrentTimerList \ {t}
      /\ pxOverflowTimerList' = pxOverflowTimerList
      /\ daemon' = IF t \in AutoReload THEN "reload" ELSE "call"
      /\ t \in AutoReload => xExpiredTime' = item[t]
  BY DEF Expire
<1>2. t \in pxCurrentTimerList /\ t \in Listed
  BY DEF IsHead, Listed
<1>3. t \notin Listed' /\ Listed' \subseteq Listed
  BY <1>1, <1>2, ListedFacts DEF Listed
<1>4. \A u : Upcoming(u) = left[u]
  BY DEF Upcoming
<1>5. \A u \in Listed' : Upcoming(u)' = Upcoming(u)
  BY <1>1, <1>3, <1>4 DEF Upcoming
<1>6. item[t] = xTickCount + left[t] + Shift
  BY <1>2, <1>4 DEF TimeInv, ListsAreDue
<1>7. item' \in [Timers -> Ticks] /\ \A u \in Listed' : item'[u] = item[u]
  <2>1. item \in [Timers -> Ticks] /\ 0 \in Ticks
    BY TimerFacts DEF TimeInv, TickTypes, Ticks
  <2>2. \A u \in Listed' : u # t /\ u \in Timers
    BY <1>3 DEF TimerInv, Allocated
  <2> QED
    BY <1>1, <2>1, <2>2
<1>8. \A u \in Listed' : left'[u] >= - MaxLate
  BY <1>1, <1>3, ListedFacts
<1>9. ListsAreDue'
  BY <1>1, <1>5, <1>7, <1>8, ListsStayDue DEF TimeInv
<1>10. left[t] <= 0 => CallIsDue'
  BY <1>1, <1>2, <1>3, ListedFacts DEF CallIsDue
<1> QED
  BY <1>1, <1>3, <1>4, <1>5, <1>6, <1>7, <1>9, <1>10

(* What all steps of the timer task rely on.                               *)
LEMMA TimeFacts ==
  ASSUME TimeInv
  PROVE  /\ xTickCount \in Ticks /\ xLastTime \in Ticks /\ xTimeNow \in Ticks
         /\ item \in [Timers -> Ticks] /\ left \in [Timers -> Int]
         /\ sentAt \in [Timers -> Ticks]
         /\ RecentStarts /\ ListsAreDue /\ ClockIsRead /\ OneTurn
         /\ Word \in Nat \ {0} /\ xTickCount \in Nat /\ xLastTime \in Nat
         /\ xTimeNow \in Nat /\ xTickCount < Word /\ xLastTime < Word
         /\ xTimeNow < Word /\ 0 \in Ticks
BY TimerAssumption DEF TimeInv, TickTypes, Ticks

(* The timer task looks for a timer that has expired.                      *)
LEMMA LookInTime ==
  ASSUME TimerInv, TimeInv, Look
  PROVE  TimeInv'
<1>0. /\ daemon = "look" /\ pxTimer = None /\ switching = "no" /\ ~InWork
      /\ UNCHANGED <<xTickCount, xTimerQueue, pc, sentAt>>
  BY DEF Look, TimerInv, Apart, owners
<1>1. /\ xTickCount \in Ticks /\ xLastTime \in Ticks /\ xTimeNow \in Ticks
      /\ item \in [Timers -> Ticks] /\ left \in [Timers -> Int]
      /\ sentAt \in [Timers -> Ticks]
      /\ RecentStarts /\ ListsAreDue /\ ClockIsRead /\ OneTurn
      /\ Word \in Nat \ {0} /\ xTickCount \in Nat
  BY TimeFacts
<1>2. CASE /\ Wrapped
           /\ daemon' = "switch" /\ switching' = "look"
           /\ xTimeNow' = xTickCount
           /\ UNCHANGED <<lists, active, xLastTime, pxTimer, xExpiredTime,
                          xMessage, wake, left>>
  <2>1. /\ UNCHANGED <<pxCurrentTimerList, pxOverflowTimerList, item>>
        /\ Listed' = Listed
    BY <1>2 DEF lists, Listed
  <2>2. Shift' = Shift
    BY <1>2 DEF Shift, Behind
  <2>3. \A t : Upcoming(t)' = Upcoming(t)
    BY <1>0, <1>2 DEF Upcoming
  <2>4. TickTypes'
    BY <1>0, <1>1, <1>2, <2>1 DEF TickTypes
  <2>5. RecentStarts'
    BY <1>0, <1>1, <1>2, StartsGoOn
  <2>6. \A t \in Listed' : left'[t] >= - MaxLate
    BY <1>2, <2>1, ListedFacts
  <2>7. ListsAreDue'
    BY <1>0, <1>1, <1>2, <2>1, <2>2, <2>3, <2>6, ListsStayDue
  <2>8. ClockIsRead' /\ OneTurn'
    BY <1>0, <1>1, <1>2 DEF ClockIsRead, OneTurn
  <2>9. InHandIsDue' /\ CallIsDue'
    BY <1>2 DEF InHandIsDue, CallIsDue, InHand
  <2> QED
    BY <2>4, <2>5, <2>7, <2>8, <2>9 DEF TimeInv
<1>3. ASSUME ~Wrapped, xLastTime' = xTickCount, UNCHANGED switching
      PROVE  /\ Shift' = Shift /\ Shift = 0
             /\ Minus(xTickCount', xLastTime') = 0
             /\ \A t \in Listed : Upcoming(t) <= Period[t]
  <2>1. Shift' = Shift /\ Shift = 0
    BY <1>0, <1>1, <1>3 DEF Shift, Behind, Wrapped
  <2>2. Minus(xTickCount', xLastTime') = 0
    BY <1>0, <1>1, <1>3, MinusTicks
  <2>3. ASSUME NEW t \in Listed PROVE Upcoming(t) <= Period[t]
    <3>1. Upcoming(t) + Minus(xTickCount, xLastTime) <= Period[t]
      BY <1>0, <1>1 DEF ClockIsRead
    <3>2. Minus(xTickCount, xLastTime) \in Nat
      BY <1>1, MinusTicks DEF Ticks
    <3> QED
      BY <3>1, <3>2, ListedFacts
  <2> QED
    BY <2>1, <2>2, <2>3
<1>4. ASSUME NEW t \in Timers, ~Wrapped, IsHead(t), item[t] <= xTickCount,
             Expire(t), xTimeNow' = xTickCount, xLastTime' = xTickCount,
             UNCHANGED <<xMessage, switching, wake>>
      PROVE  TimeInv'
  <2>1. /\ Shift' = Shift /\ Shift = 0
        /\ Minus(xTickCount', xLastTime') = 0
        /\ \A u \in Listed : Upcoming(u) <= Period[u]
    BY <1>3, <1>4
  <2>2. /\ ListsAreDue' /\ (left[t] <= 0 => CallIsDue')
        /\ t \notin Listed' /\ Listed' \subseteq Listed
        /\ pxTimer' = t /\ left' = left
        /\ item' \in [Timers -> Ticks]
        /\ item[t] = xTickCount + left[t] + Shift
        /\ \A u : Upcoming(u) = left[u]
        /\ \A u \in Listed' : Upcoming(u)' = Upcoming(u)
        /\ daemon' = IF t \in AutoReload THEN "reload" ELSE "call"
        /\ t \in AutoReload => xExpiredTime' = item[t]
    BY <1>0, <1>4, <2>1, ExpireInTime
  <2>3. /\ left[t] \in Int /\ - MaxLate <= left[t] /\ MaxLate \in Nat
        /\ item[t] \in Ticks /\ item[t] \in Nat
    BY <1>1, <1>4, ListedFacts DEF IsHead, Listed
  <2>4. left[t] <= 0
    BY <1>1, <1>4, <2>1, <2>2, <2>3
  <2>5. TickTypes'
    BY <1>0, <1>1, <1>4, <2>2 DEF TickTypes
  <2>6. ~InWork'
    BY <1>0, <1>4, <2>2
  <2>7. RecentStarts'
    BY <1>0, <1>1, <2>6, StartsGoOn
  <2>8. ClockIsRead'
    <3>1. \A u \in Listed' : Upcoming(u)' + 0 <= Period[u]
      BY <2>1, <2>2, ListedFacts
    <3> QED
      BY <1>4, <2>1, <3>1 DEF ClockIsRead
  <2>9. OneTurn'
    BY <1>0, <1>4 DEF OneTurn
  <2>10. InHandIsDue'
    <3> SUFFICES ASSUME InHand' PROVE InHandIsDue'
      BY DEF InHandIsDue
    <3>1. t \in AutoReload /\ daemon' = "reload" /\ xExpiredTime' = item[t]
      BY <2>2 DEF InHand
    <3>2. InHandLeft' = left[t]
      BY <2>2, <3>1 DEF InHandLeft
    <3>3. Minus(xTickCount, item[t]) = xTickCount - item[t]
      BY <1>1, <1>4, <2>3, MinusTicks
    <3>4. Minus(xTickCount, item[t]) + 0 = - left[t]
      BY <1>1, <2>1, <2>2, <2>3, <3>3
    <3>5. /\ Minus(xTimeNow', xExpiredTime') + Minus(xTickCount', xTimeNow')
               = - InHandLeft'
          /\ - MaxLate <= left'[pxTimer'] /\ InHandLeft' <= 0
          /\ xExpiredTime' \in Ticks
      BY <1>0, <1>4, <2>1, <2>2, <2>3, <2>4, <3>1, <3>2, <3>4
    <3> QED
      BY <1>0, <1>4, <2>2, <3>1, <3>5 DEF InHandIsDue
  <2>11. CallIsDue'
    BY <2>2, <2>3, <2>4
  <2> QED
    BY <2>2, <2>5, <2>7, <2>8, <2>9, <2>10, <2>11 DEF TimeInv
<1>5. CASE ~Wrapped /\ Wait
  <2>1. /\ UNCHANGED <<pxCurrentTimerList, pxOverflowTimerList, item, pxTimer,
                       xTimeNow, xMessage, switching, left>>
        /\ xLastTime' = xTickCount /\ daemon' = "blocked"
        /\ Listed' = Listed
    BY <1>5 DEF Wait, lists, locals, Listed
  <2>2. /\ Shift' = Shift
        /\ Minus(xTickCount', xLastTime') = 0
        /\ \A u \in Listed : Upcoming(u) <= Period[u]
    BY <1>3, <1>5, <2>1
  <2>3. \A t : Upcoming(t)' = Upcoming(t)
    BY <1>0, <2>1 DEF Upcoming
  <2>4. TickTypes'
    BY <1>0, <1>1, <2>1 DEF TickTypes
  <2>5. RecentStarts'
    BY <1>0, <1>1, <2>1, StartsGoOn
  <2>6. \A t \in Listed' : left'[t] >= - MaxLate
    BY <2>1, ListedFacts
  <2>7. ListsAreDue'
    BY <1>0, <1>1, <2>1, <2>2, <2>3, <2>6, ListsStayDue
  <2>8. ClockIsRead' /\ OneTurn'
    <3>1. \A u \in Listed' : Upcoming(u)' + 0 <= Period[u]
      BY <2>1, <2>2, <2>3, ListedFacts
    <3> QED
      BY <1>0, <2>1, <2>2, <3>1 DEF ClockIsRead, OneTurn, InHand
  <2>9. InHandIsDue' /\ CallIsDue'
    BY <2>1 DEF InHandIsDue, CallIsDue, InHand
  <2> QED
    BY <2>4, <2>5, <2>7, <2>8, <2>9 DEF TimeInv
<1> QED
  BY <1>2, <1>4, <1>5 DEF Look

(* The timers of the last turn expire, then the lists are exchanged.       *)
LEMMA SwitchInTime ==
  ASSUME TimerInv, TimeInv, Switch
  PROVE  TimeInv'
<1>0. /\ daemon = "switch" /\ pxTimer = None /\ switching # "no"
      /\ UNCHANGED <<xTickCount, xTimerQueue, pc, sentAt, xTimeNow, xMessage>>
  BY DEF Switch, TimerInv, Apart, owners
<1>1. /\ xTickCount \in Ticks /\ xLastTime \in Ticks /\ xTimeNow \in Ticks
      /\ item \in [Timers -> Ticks] /\ left \in [Timers -> Int]
      /\ sentAt \in [Timers -> Ticks]
      /\ RecentStarts /\ ListsAreDue /\ ClockIsRead /\ OneTurn
      /\ Word \in Nat \ {0} /\ xTickCount \in Nat /\ xTimeNow \in Nat
  BY TimeFacts
<1>2. Shift = Word
  BY <1>0 DEF Shift, Behind
<1>3. ASSUME NEW t \in Timers, IsHead(t), Expire(t),
             UNCHANGED <<xLastTime, switching>>
      PROVE  TimeInv'
  <2>1. Shift' = Shift
    BY <1>0, <1>3 DEF Shift, Behind
  <2>2. /\ ListsAreDue' /\ (left[t] <= 0 => CallIsDue')
        /\ t \notin Listed' /\ Listed' \subseteq Listed
        /\ pxTimer' = t /\ left' = left
        /\ item' \in [Timers -> Ticks]
        /\ item[t] = xTickCount + left[t] + Shift
        /\ \A u : Upcoming(u) = left[u]
        /\ \A u \in Listed' : Upcoming(u)' = Upcoming(u)
        /\ daemon' = IF t \in AutoReload THEN "reload" ELSE "call"
        /\ t \in AutoReload => xExpiredTime' = item[t]
    BY <1>0, <1>3, <2>1, ExpireInTime
  <2>3. /\ left[t] \in Int /\ - MaxLate <= left[t] /\ t \in Listed
        /\ item[t] \in Ticks /\ item[t] \in Nat /\ item[t] < Word
    BY <1>1, <1>3, ListedFacts DEF IsHead, Listed
  <2>4. left[t] <= 0
    BY <1>1, <1>2, <2>2, <2>3
  <2>5. TickTypes'
    BY <1>0, <1>1, <1>3, <2>2 DEF TickTypes
  <2>6. RecentStarts'
    BY <1>0, <1>1, <1>3, <2>2, StartsGoOn
  <2>7. ClockIsRead'
    BY <1>0, <1>3 DEF ClockIsRead
  <2>8. OneTurn'
    BY <1>0, <1>1, <2>3 DEF OneTurn
  <2>9. InHandIsDue'
    <3> SUFFICES ASSUME InHand' PROVE InHandIsDue'
      BY DEF InHandIsDue
    <3>1. t \in AutoReload /\ daemon' = "reload" /\ xExpiredTime' = item[t]
      BY <2>2 DEF InHand
    <3>2. InHandLeft' = left[t]
      BY <2>2, <3>1 DEF InHandLeft
    <3> QED
      BY <1>0, <1>2, <1>3, <2>2, <2>3, <2>4, <3>1, <3>2 DEF InHandIsDue
  <2>10. CallIsDue'
    BY <2>2, <2>3, <2>4
  <2> QED
    BY <2>2, <2>5, <2>6, <2>7, <2>8, <2>9, <2>10 DEF TimeInv
<1>4. CASE /\ pxCurrentTimerList = {}
           /\ pxCurrentTimerList' = pxOverflowTimerList
           /\ pxOverflowTimerList' = {}
           /\ xLastTime' = xTimeNow
           /\ daemon' = IF switching = "look" THEN "commands" ELSE "handle"
           /\ switching' = "no"
           /\ UNCHANGED <<item, active, pxTimer, xExpiredTime, left>>
  <2>1. Listed' = Listed /\ Listed = pxOverflowTimerList
    BY <1>4 DEF Listed
  <2>2. \A t : Upcoming(t)' = Upcoming(t)
    BY <1>0, <1>4 DEF Upcoming
  <2>3. Listed # {} => xTimeNow <= xTickCount
    BY <1>0, <1>1 DEF OneTurn
  <2>4. Listed # {} => Shift' = 0
    BY <1>0, <1>1, <1>4, <2>3 DEF Shift, Behind, Wrapped
  <2>5. TickTypes'
    BY <1>0, <1>1, <1>4 DEF TickTypes
  <2>6. InWork' => InWork
    BY <1>0, <1>4 DEF TimerInv, Apart
  <2>7. RecentStarts'
    BY <1>0, <1>1, <2>6, StartsGoOn
  <2>8. ASSUME NEW t \in Listed
        PROVE  /\ item[t] = xTickCount + Upcoming(t)
               /\ item[t] < Period[t]
               /\ Upcoming(t) + Minus(xTickCount, xTimeNow) <= Period[t]
    <3>1. /\ item[t] = xTickCount + Upcoming(t) + Shift - Word
          /\ item[t] < Period[t]
      BY <1>1, <2>1 DEF ListsAreDue
    <3>2. /\ item[t] \in Nat /\ Upcoming(t) \in Int
          /\ Period[t] \in Nat \ {0}
      BY ListedFacts
    <3>3. Minus(xTickCount, xTimeNow) = xTickCount - xTimeNow
      BY <1>1, <2>3, MinusTicks
    <3> QED
      BY <1>1, <1>2, <3>1, <3>2, <3>3
  <2>9. ListsAreDue'
    <3>1. \A t \in Listed' : - MaxLate <= left'[t]
      BY <1>4, <2>1, ListedFacts
    <3>2. ASSUME NEW t \in pxCurrentTimerList'
          PROVE  item'[t] = xTickCount' + Upcoming(t)' + Shift'
      <4>1. t \in Listed /\ Shift' = 0 /\ Upcoming(t) \in Int
        BY <1>4, <2>1, <2>4, <3>2, ListedFacts
      <4>2. item[t] = xTickCount + Upcoming(t) + 0
        BY <1>1, <2>8, <4>1
      <4> QED
        BY <1>0, <1>4, <2>2, <4>1, <4>2
    <3> QED
      BY <1>4, <3>1, <3>2 DEF ListsAreDue
  <2>10. ClockIsRead'
    BY <1>0, <1>4, <2>1, <2>2, <2>8 DEF ClockIsRead
  <2>11. OneTurn' /\ CallIsDue' /\ InHandIsDue'
    BY <1>4 DEF OneTurn, CallIsDue, InHandIsDue, InHand
  <2> QED
    BY <2>5, <2>7, <2>9, <2>10, <2>11 DEF TimeInv
<1> QED
  BY <1>3, <1>4 DEF Switch

(* The callbacks begin and end; the timer task waits no longer, or takes   *)
(* no more commands.                                                       *)
LEMMA CallInTime ==
  ASSUME TimerInv, TimeInv, Call
  PROVE  TimeInv'
<1>0. /\ daemon \in {"call", "callAgain"}
      /\ daemon' = IF daemon = "call" THEN "in" ELSE "inAgain"
      /\ pxTimer # None /\ pxTimer \in Timers
      /\ UNCHANGED <<xTickCount, xTimerQueue, pc, sentAt, pxCurrentTimerList,
                     pxOverflowTimerList, item, xLastTime, pxTimer,
                     xExpiredTime, xTimeNow, xMessage, switching>>
      /\ Listed' = Listed /\ Shift' = Shift
  BY DEF Call, TimerInv, Apart, Allocated, owners, lists, locals, Listed,
         Shift, Behind, Wrapped
<1>1. /\ item \in [Timers -> Ticks] /\ left \in [Timers -> Int]
      /\ RecentStarts /\ ListsAreDue /\ ClockIsRead /\ OneTurn
      /\ InHandIsDue /\ CallIsDue /\ TickTypes
  BY TimeFacts DEF TimeInv
<1>2. left' = [left EXCEPT ![pxTimer] =
                 IF pxTimer \in AutoReload THEN left[pxTimer] + Period[pxTimer]
                                           ELSE 0]
  BY DEF Call
<1>3. Period[pxTimer] \in Nat \ {0} /\ left[pxTimer] \in Int /\ MaxLate \in Nat
  BY <1>0, <1>1, TimerFacts
<1>4. left' \in [Timers -> Int]
  BY <1>0, <1>1, <1>2, <1>3
<1>5. pxTimer \in Listed => daemon = "call" /\ pxTimer \in AutoReload
  BY <1>0, <1>1 DEF InHandIsDue, CallIsDue, InHand
<1>6. \A t \in Listed : /\ left'[t] >= - MaxLate
                        /\ Upcoming(t)' = Upcoming(t)
  <2> SUFFICES ASSUME NEW t \in Listed
               PROVE  left'[t] >= - MaxLate /\ Upcoming(t)' = Upcoming(t)
    OBVIOUS
  <2>1. t \in Timers /\ left[t] \in Int /\ left[t] >= - MaxLate
    BY ListedFacts
  <2>2. CASE t = pxTimer
    BY <1>0, <1>1, <1>2, <1>3, <1>5, <2>1, <2>2 DEF Upcoming
  <2>3. CASE t # pxTimer
    BY <1>0, <1>1, <1>2, <2>1, <2>3 DEF Upcoming
  <2> QED
    BY <2>2, <2>3
<1>7. TickTypes'
  BY <1>0, <1>1, <1>4 DEF TickTypes
<1>8. RecentStarts'
  BY <1>0, <1>1, StartsGoOn
<1>9. ListsAreDue'
  BY <1>0, <1>1, <1>6, ListsStayDue
<1>10. ClockIsRead'
  BY <1>0, <1>1, <1>6 DEF ClockIsRead, InHand
<1>11. OneTurn'
  BY <1>0, <1>1 DEF OneTurn, InHand
<1>12. InHandIsDue' /\ CallIsDue'
  <2>1. CASE daemon = "call"
    BY <1>0, <2>1 DEF InHandIsDue, CallIsDue, InHand
  <2>2. CASE daemon = "callAgain"
    <3>1. InHand /\ InHand' /\ InHandLeft = left[pxTimer] + Period[pxTimer]
      BY <1>0, <2>2 DEF InHand, InHandLeft
    <3>2. pxTimer \in AutoReload
      BY <1>1, <3>1 DEF InHandIsDue
    <3>3. InHandLeft' = InHandLeft /\ left'[pxTimer'] >= - MaxLate
      BY <1>0, <1>1, <1>2, <1>3, <2>2, <3>1, <3>2 DEF InHandLeft, InHandIsDue
    <3> QED
      BY <1>0, <1>1, <2>2, <3>1, <3>3 DEF InHandIsDue, CallIsDue
  <2> QED
    BY <1>0, <2>1, <2>2
<1> QED
  BY <1>7, <1>8, <1>9, <1>10, <1>11, <1>12 DEF TimeInv

(* The timer task goes on.                                                 *)
LEMMA GoesOnInTime ==
  ASSUME TimerInv, TimeInv, Return \/ WakeUp \/ NoMoreCommands
  PROVE  TimeInv'
<1>0. /\ UNCHANGED <<xTickCount, xTimerQueue, pc, sentAt, pxCurrentTimerList,
                     pxOverflowTimerList, item, left, xLastTime,
                     xExpiredTime, xMessage, switching>>
      /\ Listed' = Listed /\ Shift' = Shift
      /\ daemon' # "call" /\ daemon # "call" /\ daemon' # "handle"
      /\ 0 \in Ticks
  BY TimeFacts DEF Return, WakeUp, NoMoreCommands, owners, lists, locals,
         Listed, Shift, Behind, Wrapped
<1>1. /\ RecentStarts /\ ListsAreDue /\ ClockIsRead /\ OneTurn
      /\ InHandIsDue /\ TickTypes
  BY DEF TimeInv
<1>2. \/ UNCHANGED xTimeNow
      \/ xTimeNow' = 0 /\ switching = "no" /\ daemon' = "look"
  BY DEF Return, WakeUp, NoMoreCommands, TimerInv, Apart, locals
<1>3. InHand' => InHand /\ InHandLeft' = InHandLeft
                 /\ UNCHANGED <<pxTimer, xTimeNow>>
  BY DEF Return, WakeUp, NoMoreCommands, InHand, InHandLeft
<1>4. \A t : Upcoming(t)' = Upcoming(t)
  BY <1>0 DEF Upcoming
<1>5. TickTypes'
  BY <1>0, <1>1, <1>2 DEF TickTypes
<1>6. InWork' => InWork /\ UNCHANGED <<xMessage, xTimeNow>>
  BY <1>0, <1>2
<1>7. RecentStarts'
  BY <1>0, <1>1, <1>6, StartsGoOn
<1>8. \A t \in Listed' : left'[t] >= - MaxLate
  BY <1>0, ListedFacts
<1>9. ListsAreDue'
  BY <1>0, <1>1, <1>4, <1>8, ListsStayDue
<1>10. ClockIsRead' /\ OneTurn'
  BY <1>0, <1>1, <1>2, <1>3, <1>4 DEF ClockIsRead, OneTurn
<1>11. InHandIsDue' /\ CallIsDue'
  BY <1>0, <1>1, <1>3 DEF InHandIsDue, CallIsDue
<1> QED
  BY <1>5, <1>7, <1>9, <1>10, <1>11 DEF TimeInv

(* A timer that is stopped or deleted is in no list any more.              *)
LEMMA HandleInTime ==
  ASSUME TimerInv, TimeInv, HandleStop \/ HandleDelete
  PROVE  TimeInv'
<1>0. /\ daemon = "handle" /\ daemon' = "commands" /\ switching = "no"
      /\ left' = [left EXCEPT ![xMessage.timer] = 0]
      /\ UNCHANGED <<xTickCount, xTimerQueue, pc, sentAt, pxCurrentTimerList,
                     pxOverflowTimerList, item, xLastTime, xTimeNow,
                     switching>>
      /\ Listed' = Listed /\ Shift' = Shift
      /\ xMessage.timer \notin Listed
  BY DEF HandleStop, HandleDelete, TimerInv, Apart, owners, lists, Listed,
         Shift, Behind, Wrapped
<1>1. /\ left \in [Timers -> Int] /\ TickTypes
      /\ RecentStarts /\ ListsAreDue /\ ClockIsRead
  BY TimeFacts DEF TimeInv
<1>2. \A t \in Listed : /\ left'[t] >= - MaxLate
                        /\ Upcoming(t)' = Upcoming(t)
  <2> SUFFICES ASSUME NEW t \in Listed
               PROVE  left'[t] >= - MaxLate /\ Upcoming(t)' = Upcoming(t)
    OBVIOUS
  <2>1. t \in Timers /\ left[t] >= - MaxLate /\ t # xMessage.timer
    BY <1>0, ListedFacts
  <2>2. left'[t] = left[t]
    BY <1>0, <1>1, <2>1
  <2> QED
    BY <1>0, <2>1, <2>2 DEF Upcoming
<1>3. TickTypes'
  <2>1. xMessage.timer \in Timers
    BY <1>0 DEF TimerInv, Messages, IsMessage
  <2>2. left' \in [Timers -> Int]
    BY <1>0, <1>1, <2>1
  <2> QED
    BY <1>0, <1>1, <2>2 DEF TickTypes
<1>4. RecentStarts'
  BY <1>0, <1>1, StartsGoOn
<1>5. ListsAreDue'
  BY <1>0, <1>1, <1>2, ListsStayDue
<1>6. ClockIsRead'
  BY <1>0, <1>1, <1>2 DEF ClockIsRead, InHand
<1>7. OneTurn' /\ InHandIsDue' /\ CallIsDue'
  BY <1>0 DEF OneTurn, InHandIsDue, CallIsDue, InHand
<1> QED
  BY <1>3, <1>4, <1>5, <1>6, <1>7 DEF TimeInv

(* The next command leaves the queue and its timer the lists.              *)
LEMMA ReceiveInTime ==
  ASSUME TimerInv, TimeInv, Receive
  PROVE  TimeInv'
<1> DEFINE m == Head(xTimerQueue)
<1>0. /\ daemon = "commands" /\ switching = "no" /\ pxTimer = None
      /\ xTimerQueue # <<>> /\ xTimerQueue' = Tail(xTimerQueue)
      /\ xMessage' = m /\ xTimeNow' = xTickCount
      /\ UNCHANGED <<xTickCount, pc, sentAt, left, pxTimer>>
      /\ pxCurrentTimerList' = pxCurrentTimerList \ {m.timer}
      /\ pxOverflowTimerList' = pxOverflowTimerList \ {m.timer}
      /\ item' = [item EXCEPT ![m.timer] = 0]
      /\ \/ /\ Wrapped /\ daemon' = "switch" /\ switching' = "handle"
            /\ UNCHANGED xLastTime
         \/ /\ ~Wrapped /\ daemon' = "handle" /\ switching' = "no"
            /\ xLastTime' = xTickCount
  BY DEF Receive, owners, TimerInv, Apart
<1>1. /\ TickTypes /\ RecentStarts /\ ListsAreDue /\ ClockIsRead
      /\ item \in [Timers -> Ticks] /\ xTickCount \in Ticks
      /\ xLastTime \in Ticks /\ 0 \in Ticks
  BY TimeFacts DEF TimeInv
<1>2. Listed' = Listed \ {m.timer}
  BY <1>0 DEF Listed
<1>3. /\ Len(xTimerQueue) \in Nat \ {0}
      /\ Len(xTimerQueue') = Len(xTimerQueue) - 1 /\ m = xTimerQueue[1]
      /\ \A i \in 1 .. Len(xTimerQueue) - 1 :
           xTimerQueue'[i] = xTimerQueue[i + 1]
  BY <1>0, TailOfSeq DEF TimerInv, Messages
<1>4. 1 \in Sent /\ \A i \in Sent' : i + 1 \in Sent
                                     /\ xTimerQueue'[i] = xTimerQueue[i + 1]
  BY <1>3 DEF Sent
<1> HIDE DEF m
<1>5. Minus(xTickCount, xTickCount) = 0 /\ xTickCount \in Nat
  BY <1>1, MinusTicks DEF Ticks
<1>6. Shift' = Shift
  <2>1. Wrapped /\ switching' = "handle" => Shift' = Shift
    BY DEF Shift, Behind
  <2>2. ~Wrapped /\ switching' = "no" /\ xLastTime' = xTickCount
          => Shift' = Shift
    BY <1>0, <1>5 DEF Shift, Behind, Wrapped
  <2> QED
    BY <1>0, <2>1, <2>2
<1>7. \A t \in Listed' : /\ left'[t] >= - MaxLate /\ item'[t] = item[t]
                         /\ Upcoming(t)' = Upcoming(t) /\ t \in Listed
  BY <1>0, <1>1, <1>2, ListedFacts DEF Upcoming
<1>8. TickTypes'
  BY <1>0, <1>1 DEF TickTypes
<1>9. RecentStarts'
  <2>1. \A v : Recent(v)' <=> Recent(v)
    BY <1>0 DEF Recent
  <2>2. \A i \in Sent' : xTimerQueue'[i].id = "START" =>
          Recent(xTimerQueue'[i].value)
    BY <1>1, <1>4 DEF RecentStarts
  <2>3. m.id = "START" => Recent(m.value)
    BY <1>1, <1>3, <1>4 DEF RecentStarts
  <2>4. m.id = "START" =>
          Minus(xTickCount, m.value) =
            Minus(xTickCount, xTickCount) + Minus(xTickCount, m.value)
    <3> SUFFICES ASSUME m.id = "START"
                 PROVE  Minus(xTickCount, m.value) =
                          Minus(xTickCount, xTickCount)
                            + Minus(xTickCount, m.value)
      OBVIOUS
    <3>1. Minus(xTickCount, m.value) \in Ticks
      BY <1>1, <2>3, MinusTicks DEF Recent
    <3>2. Minus(xTickCount, m.value) \in Int
      BY <3>1 DEF Ticks
    <3> QED
      BY <1>5, <3>2
  <2>5. \A t \in Timers : pc'[t] = "start" => Recent(sentAt'[t])
    BY <1>0, <1>1 DEF RecentStarts
  <2> QED
    BY <1>0, <2>1, <2>2, <2>3, <2>4, <2>5 DEF RecentStarts
<1>10. ListsAreDue'
  BY <1>0, <1>1, <1>6, <1>7, ListsStayDue
<1>11. ClockIsRead'
  <2> SUFFICES ASSUME switching' = "no", NEW t \in Listed'
               PROVE  Upcoming(t)' + Minus(xTickCount', xLastTime')
                        <= Period[t]
    BY <1>0 DEF ClockIsRead, InHand
  <2>1. Upcoming(t) + Minus(xTickCount, xLastTime) <= Period[t]
    BY <1>0, <1>1, <1>7 DEF ClockIsRead
  <2>2. Minus(xTickCount, xLastTime) \in Nat
    BY <1>1, MinusTicks DEF Ticks
  <2>3. Upcoming(t) \in Int /\ Period[t] \in Nat
    BY <1>7, ListedFacts
  <2> QED
    BY <1>0, <1>5, <1>7, <2>1, <2>2, <2>3
<1>12. OneTurn'
  BY <1>0, <1>5 DEF OneTurn
<1>13. InHandIsDue' /\ CallIsDue'
  BY <1>0 DEF InHandIsDue, CallIsDue, InHand
<1> QED
  BY <1>8, <1>9, <1>10, <1>11, <1>12, <1>13 DEF TimeInv

(* A timer is put into the list of the turn that its expiry falls into.    *)
LEMMA InsertInTime ==
  ASSUME TimerInv, TimeInv, NEW t \in Timers, NEW next \in Ticks, NEW n,
         NEW u \in Int, Insert(t, next, n), t \notin Listed,
         UNCHANGED xTickCount, Shift' = Shift,
         \A x \in Listed : /\ left'[x] >= - MaxLate
                           /\ Upcoming(x)' = Upcoming(x),
         left'[t] >= - MaxLate, Upcoming(t)' = u,
         ~(next <= n) => next = xTickCount + u + Shift,
         next <= n => next = xTickCount + u + Shift - Word /\ next < Period[t]
  PROVE  /\ ListsAreDue' /\ Listed' = Listed \cup {t}
         /\ item' \in [Timers -> Ticks]
<1>0. ListsAreDue /\ item \in [Timers -> Ticks] /\ Listed \subseteq Timers
  BY TimeFacts DEF TimerInv, Allocated
<1>1. /\ item' = [item EXCEPT ![t] = next]
      /\ Listed' = Listed \cup {t}
      /\ pxCurrentTimerList' =
           pxCurrentTimerList \cup (IF next <= n THEN {} ELSE {t})
      /\ pxOverflowTimerList' =
           pxOverflowTimerList \cup (IF next <= n THEN {t} ELSE {})
  BY DEF Insert, Listed
<1>2. /\ item' \in [Timers -> Ticks] /\ item'[t] = next
      /\ \A x \in Listed : item'[x] = item[x]
  BY <1>0, <1>1
<1>3. \A x \in Listed' : - MaxLate <= left'[x]
  BY <1>1
<1>4. ASSUME NEW x \in pxCurrentTimerList'
      PROVE  item'[x] = xTickCount' + Upcoming(x)' + Shift'
  <2>1. CASE x \in pxCurrentTimerList
    <3>1. x \in Listed /\ item[x] = xTickCount + Upcoming(x) + Shift
      BY <1>0, <2>1 DEF ListsAreDue, Listed
    <3> QED
      BY <1>2, <3>1
  <2>2. CASE x = t /\ ~(next <= n)
    BY <1>2, <2>2
  <2> QED
    BY <1>1, <2>1, <2>2
<1>5. ASSUME NEW x \in pxOverflowTimerList'
      PROVE  /\ item'[x] = xTickCount' + Upcoming(x)' + Shift' - Word
             /\ item'[x] < Period[x]
  <2>1. CASE x \in pxOverflowTimerList
    <3>1. /\ x \in Listed
          /\ item[x] = xTickCount + Upcoming(x) + Shift - Word
          /\ item[x] < Period[x]
      BY <1>0, <2>1 DEF ListsAreDue, Listed
    <3> QED
      BY <1>2, <3>1
  <2>2. CASE x = t /\ next <= n
    BY <1>2, <2>2
  <2> QED
    BY <1>1, <2>1, <2>2
<1> QED
  BY <1>1, <1>2, <1>3, <1>4, <1>5 DEF ListsAreDue

(* The timer of a start is put into a list, or has expired already.        *)
LEMMA HandleStartInTime ==
  ASSUME TimerInv, TimeInv, HandleStart
  PROVE  TimeInv'
<1>a. PICK t, c : t = xMessage.timer /\ c = xMessage.value
  OBVIOUS
<1>b. PICK next, u :
        /\ next = Plus(c, Period[t])
        /\ u = Period[t] - Minus(xTimeNow, c) - Minus(xTickCount, xTimeNow)
  OBVIOUS
<1>0. /\ daemon = "handle" /\ switching = "no" /\ pxTimer = None
      /\ xMessage.id = "START" /\ t \in Timers /\ t \notin Listed
      /\ UNCHANGED <<xTickCount, xTimerQueue, pc, sentAt, xLastTime, xTimeNow,
                     switching>>
      /\ Shift' = Shift
  BY <1>a DEF HandleStart, TimerInv, Apart, Messages, IsMessage, owners,
              Shift, Behind, Wrapped
<1>1. /\ TickTypes /\ RecentStarts /\ ListsAreDue /\ ClockIsRead
      /\ item \in [Timers -> Ticks] /\ left \in [Timers -> Int]
      /\ xTickCount \in Ticks /\ xTimeNow \in Ticks /\ xLastTime = xTimeNow
  BY <1>0, TimeFacts DEF TimeInv, ClockIsRead
<1>2. /\ c \in Ticks
      /\ Minus(xTickCount, c) = Minus(xTickCount, xTimeNow)
                                  + Minus(xTimeNow, c)
      /\ Minus(xTickCount, c) <= MaxLate
  BY <1>a, <1>0, <1>1 DEF RecentStarts, Recent
<1>3. /\ Minus(xTickCount, xTimeNow) \in Nat /\ Minus(xTimeNow, c) \in Nat
      /\ Minus(xTickCount, c) \in Nat
      /\ Period[t] \in Nat \ {0} /\ MaxLate \in Nat /\ Word \in Nat
  <2>1. /\ Minus(xTickCount, xTimeNow) \in Ticks
        /\ Minus(xTimeNow, c) \in Ticks
        /\ Minus(xTickCount, c) \in Ticks
    BY <1>1, <1>2, MinusTicks
  <2>2. Period[t] \in Nat \ {0} /\ MaxLate \in Nat /\ Word \in Nat
    BY <1>0, TimerFacts
  <2> QED
    BY <2>1, <2>2 DEF Ticks
<1>4. /\ left' = [left EXCEPT ![t] = Period[t] - Minus(xTickCount, c)]
      /\ IF ProcessNow(t, next, xTimeNow, c)
         THEN /\ pxTimer' = t
              /\ IF t \in AutoReload
                 THEN /\ daemon' = "reload" /\ xExpiredTime' = next
                 ELSE /\ daemon' = "call"
              /\ UNCHANGED lists
         ELSE /\ Insert(t, next, xTimeNow)
              /\ daemon' = "commands"
              /\ UNCHANGED <<pxTimer, xExpiredTime>>
  BY <1>a, <1>b DEF HandleStart
<1>5. Period[t] - Minus(xTickCount, c) = u /\ u \in Int
  BY <1>b, <1>2, <1>3
<1>6. /\ left' \in [Timers -> Int] /\ left'[t] = u
      /\ \A x \in Timers : x # t => left'[x] = left[x]
  BY <1>0, <1>1, <1>4, <1>5
<1>7. Shift = IF xTickCount < xTimeNow THEN Word ELSE 0
  BY <1>0, <1>1 DEF Shift, Behind, Wrapped
<1>8. Minus(xTimeNow, c) + Minus(xTickCount, xTimeNow) <= MaxLate
  BY <1>2, <1>3
<1>9. /\ next \in Ticks
      /\ - MaxLate <= u /\ u + Minus(xTickCount, xTimeNow) <= Period[t]
      /\ ProcessNow(t, next, xTimeNow, c) =>
           u <= 0 /\ Minus(xTimeNow, next) + Minus(xTickCount, xTimeNow) = - u
      /\ ~ProcessNow(t, next, xTimeNow, c) /\ ~(next <= xTimeNow) =>
           next = xTickCount + u + Shift
      /\ ~ProcessNow(t, next, xTimeNow, c) /\ next <= xTimeNow =>
           next = xTickCount + u + Shift - Word /\ next < Period[t]
  BY <1>b, <1>0, <1>1, <1>2, <1>7, <1>8, Placed
<1>10. \A x \in Listed : /\ left'[x] >= - MaxLate /\ left'[x] = left[x]
                         /\ Upcoming(x) = left[x] /\ x # t
  BY <1>0, <1>6, ListedFacts DEF Upcoming
<1>11. RecentStarts'
  BY <1>0, <1>1, <1>4, StartsGoOn
<1>12. CASE ProcessNow(t, next, xTimeNow, c)
  <2>1. /\ pxTimer' = t /\ daemon' \in {"reload", "call"}
        /\ daemon' = "reload" <=> t \in AutoReload
        /\ daemon' = "reload" => xExpiredTime' = next
        /\ UNCHANGED <<pxCurrentTimerList, pxOverflowTimerList, item>>
        /\ Listed' = Listed
    BY <1>4, <1>12 DEF lists, Listed
  <2>2. \A x \in Listed : Upcoming(x)' = Upcoming(x)
    BY <1>10, <2>1 DEF Upcoming
  <2>3. ListsAreDue'
    BY <1>0, <1>1, <1>10, <2>1, <2>2, ListsStayDue
  <2>4. TickTypes'
    BY <1>0, <1>1, <1>6, <2>1 DEF TickTypes
  <2>5. ClockIsRead' /\ OneTurn'
    BY <1>0, <1>1, <2>1, <2>2 DEF ClockIsRead, OneTurn
  <2>6. CallIsDue'
    BY <1>0, <1>6, <1>9, <1>12, <2>1 DEF CallIsDue
  <2>7. InHandIsDue'
    <3> SUFFICES ASSUME daemon' = "reload" PROVE InHandIsDue'
      BY <2>1 DEF InHandIsDue, InHand
    <3>1. InHandLeft' = u
      BY <1>6, <2>1 DEF InHandLeft
    <3> QED
      BY <1>0, <1>6, <1>9, <1>12, <2>1, <3>1 DEF InHandIsDue
  <2> QED
    BY <1>11, <2>3, <2>4, <2>5, <2>6, <2>7 DEF TimeInv
<1>13. CASE ~ProcessNow(t, next, xTimeNow, c)
  <2>1. /\ Insert(t, next, xTimeNow) /\ daemon' = "commands"
        /\ UNCHANGED pxTimer
    BY <1>4, <1>13
  <2>2. /\ \A x \in Listed : Upcoming(x)' = Upcoming(x)
        /\ Upcoming(t)' = u
    BY <1>6, <1>10, <2>1 DEF Upcoming
  <2>3. /\ ListsAreDue' /\ Listed' = Listed \cup {t}
        /\ item' \in [Timers -> Ticks]
    BY <1>0, <1>5, <1>6, <1>9, <1>10, <1>13, <2>1, <2>2, InsertInTime
  <2>4. TickTypes'
    BY <1>0, <1>1, <1>6, <2>3 DEF TickTypes
  <2>5. ClockIsRead'
    <3>1. \A x \in Listed :
            Upcoming(x)' + Minus(xTickCount', xLastTime') <= Period[x]
      BY <1>0, <1>1, <2>2 DEF ClockIsRead
    <3>2. Upcoming(t)' + Minus(xTickCount', xLastTime') <= Period[t]
      BY <1>0, <1>1, <1>9, <2>2
    <3> QED
      BY <2>1, <2>3, <3>1, <3>2 DEF ClockIsRead, InHand
  <2>6. OneTurn' /\ InHandIsDue' /\ CallIsDue'
    BY <1>0, <2>1 DEF OneTurn, InHandIsDue, CallIsDue, InHand
  <2> QED
    BY <1>11, <2>3, <2>4, <2>5, <2>6 DEF TimeInv
<1> QED
  BY <1>12, <1>13

(* The next expiry of a periodic timer is in a list, or has passed too.    *)
LEMMA ReloadInTime ==
  ASSUME TimerInv, TimeInv, Reload
  PROVE  TimeInv'
<1>a. PICK t, c : t = pxTimer /\ c = xExpiredTime
  OBVIOUS
<1>b. PICK n : n = IF switching = "no" THEN xTimeNow ELSE Word - 1
  OBVIOUS
<1>c. PICK next, u : next = Plus(c, Period[t]) /\ u = left[t] + Period[t]
  OBVIOUS
<1>0. /\ daemon = "reload" /\ InHand /\ t # None /\ t \in Timers
      /\ UNCHANGED <<xTickCount, xTimerQueue, pc, sentAt, xLastTime, xTimeNow,
                     xMessage, switching, left, pxTimer>>
      /\ Shift' = Shift
  BY <1>a DEF Reload, InHand, TimerInv, Apart, Allocated, owners, Shift,
              Behind, Wrapped
<1>1. /\ TickTypes /\ RecentStarts /\ ListsAreDue /\ ClockIsRead /\ OneTurn
      /\ item \in [Timers -> Ticks] /\ left \in [Timers -> Int]
      /\ xTickCount \in Ticks /\ xTimeNow \in Ticks
      /\ Word \in Nat \ {0} /\ xTickCount \in Nat
  BY TimeFacts DEF TimeInv
<1>2. /\ t \notin Listed /\ t \in AutoReload /\ c \in Ticks
      /\ - MaxLate <= left[t] /\ left[t] <= 0
      /\ switching = "no" =>
           Minus(xTimeNow, c) + Minus(xTickCount, xTimeNow) = - left[t]
      /\ switching # "no" => c = xTickCount + left[t] + Word
  BY <1>a, <1>0 DEF TimeInv, InHandIsDue, InHandLeft
<1>3. /\ Period[t] \in Nat \ {0} /\ Period[t] < Word /\ MaxLate \in Nat
      /\ left[t] \in Int /\ u \in Int /\ c \in Nat
  <2>1. Period[t] \in Nat \ {0} /\ Period[t] < Word /\ MaxLate \in Nat
    BY <1>0, TimerFacts
  <2>2. left[t] \in Int
    BY <1>0, <1>1
  <2> QED
    BY <1>c, <1>2, <2>1, <2>2 DEF Ticks
<1>4. IF ProcessNow(t, next, n, c)
      THEN /\ daemon' = "callAgain" /\ xExpiredTime' = next
           /\ UNCHANGED lists
      ELSE /\ daemon' = "call" /\ Insert(t, next, n)
  BY <1>a, <1>b, <1>c DEF Reload
<1>5. /\ next \in Ticks
      /\ ProcessNow(t, next, n, c) =>
           /\ u <= 0
           /\ switching = "no" =>
                Minus(xTimeNow, next) + Minus(xTickCount, xTimeNow) = - u
           /\ switching # "no" => next = xTickCount + u + Word
      /\ ~ProcessNow(t, next, n, c) /\ ~(next <= n) =>
           next = xTickCount + u + Shift
      /\ ~ProcessNow(t, next, n, c) /\ next <= n =>
           next = xTickCount + u + Shift - Word /\ next < Period[t]
      /\ switching = "no" => u + Minus(xTickCount, xTimeNow) <= Period[t]
  <2>1. CASE switching = "no"
    <3>1. n = xTimeNow /\ xLastTime = xTimeNow
      BY <1>b, <1>0, <1>1, <2>1 DEF ClockIsRead
    <3>2. Shift = IF xTickCount < n THEN Word ELSE 0
      BY <2>1, <3>1 DEF Shift, Behind, Wrapped
    <3>3. Minus(n, c) \in Int /\ Minus(xTickCount, n) \in Int
      BY <1>1, <1>2, <3>1, MinusTicks DEF Ticks
    <3>4. /\ Minus(n, c) + Minus(xTickCount, n) <= MaxLate
          /\ u = Period[t] - Minus(n, c) - Minus(xTickCount, n)
      BY <1>c, <1>2, <1>3, <2>1, <3>1, <3>3
    <3>5. /\ next \in Ticks /\ u + Minus(xTickCount, n) <= Period[t]
          /\ ProcessNow(t, next, n, c) =>
               u <= 0 /\ Minus(n, next) + Minus(xTickCount, n) = - u
          /\ ~ProcessNow(t, next, n, c) /\ ~(next <= n) =>
               next = xTickCount + u + Shift
          /\ ~ProcessNow(t, next, n, c) /\ next <= n =>
               next = xTickCount + u + Shift - Word /\ next < Period[t]
      BY <1>c, <1>0, <1>1, <1>2, <3>1, <3>2, <3>4, Placed
    <3> QED
      BY <2>1, <3>1, <3>5
  <2>2. CASE switching # "no"
    <3>1. n = Word - 1 /\ n \in Ticks /\ Shift = Word
      BY <1>b, <1>1, <2>2 DEF Ticks, Shift, Behind
    <3>2. c <= n /\ c < Word
      BY <1>1, <1>2, <3>1 DEF Ticks
    <3>3. Minus(n, c) = Word - 1 - c
      BY <1>2, <3>1, <3>2, MinusTicks
    <3>4. ProcessNow(t, next, n, c) <=> Word - 1 - c >= Period[t]
      BY <1>c, <1>0, <1>2, <3>1, <3>3, ProcessNowIsExpiry
    <3>5. /\ next = IF c + Period[t] < Word THEN c + Period[t]
                                            ELSE c + Period[t] - Word
          /\ next \in Ticks
      BY <1>c, <1>2, <1>3, PlusTicks
    <3>6. next <= n
      BY <1>1, <3>1, <3>5 DEF Ticks
    <3>7. c = xTickCount + left[t] + Word /\ u = left[t] + Period[t]
      BY <1>c, <1>2, <2>2
    <3>8. ASSUME ProcessNow(t, next, n, c)
          PROVE  u <= 0 /\ next = xTickCount + u + Word
      <4>1. c + Period[t] < Word /\ next = c + Period[t]
        BY <1>1, <1>3, <3>4, <3>5, <3>8
      <4> QED
        BY <1>1, <1>3, <3>7, <4>1
    <3>9. ASSUME ~ProcessNow(t, next, n, c)
          PROVE  next = xTickCount + u + Shift - Word /\ next < Period[t]
      <4>1. ~(c + Period[t] < Word) /\ next = c + Period[t] - Word
        BY <1>1, <1>3, <3>4, <3>5, <3>9
      <4> QED
        BY <1>1, <1>3, <3>1, <3>2, <3>7, <4>1
    <3> QED
      BY <2>2, <3>5, <3>6, <3>8, <3>9
  <2> QED
    BY <2>1, <2>2
<1>6. RecentStarts'
  BY <1>0, <1>1, <1>4, StartsGoOn
<1>7. \A x \in Listed : /\ left'[x] >= - MaxLate /\ x # t
                        /\ Upcoming(x) = left[x]
  BY <1>0, <1>2, ListedFacts DEF Upcoming
<1>8. CASE ProcessNow(t, next, n, c)
  <2>1. /\ daemon' = "callAgain" /\ xExpiredTime' = next
        /\ UNCHANGED <<pxCurrentTimerList, pxOverflowTimerList, item>>
        /\ Listed' = Listed
    BY <1>4, <1>8 DEF lists, Listed
  <2>2. \A x \in Listed : Upcoming(x)' = Upcoming(x)
    BY <1>0, <1>7, <2>1 DEF Upcoming
  <2>3. ListsAreDue'
    BY <1>0, <1>1, <1>7, <2>1, <2>2, ListsStayDue
  <2>4. TickTypes'
    BY <1>0, <1>1, <2>1 DEF TickTypes
  <2>5. ClockIsRead' /\ OneTurn' /\ CallIsDue'
    BY <1>0, <1>1, <2>1, <2>2 DEF ClockIsRead, OneTurn, CallIsDue
  <2>6. InHandIsDue'
    <3>1. InHandLeft' = u
      BY <1>a, <1>c, <1>0, <2>1 DEF InHandLeft
    <3> QED
      BY <1>a, <1>0, <1>2, <1>5, <1>8, <2>1, <3>1 DEF InHandIsDue
  <2> QED
    BY <1>6, <2>3, <2>4, <2>5, <2>6 DEF TimeInv
<1>9. CASE ~ProcessNow(t, next, n, c)
  <2>1. daemon' = "call" /\ Insert(t, next, n)
    BY <1>4, <1>9
  <2>2. /\ \A x \in Listed : Upcoming(x)' = Upcoming(x)
        /\ Upcoming(t)' = u /\ left'[t] >= - MaxLate
    BY <1>a, <1>c, <1>0, <1>2, <1>7, <2>1 DEF Upcoming
  <2>3. /\ ListsAreDue' /\ Listed' = Listed \cup {t}
        /\ item' \in [Timers -> Ticks]
    BY <1>0, <1>2, <1>3, <1>5, <1>7, <1>9, <2>1, <2>2, InsertInTime
  <2>4. TickTypes'
    BY <1>0, <1>1, <2>3 DEF TickTypes
  <2>5. ClockIsRead'
    <3> SUFFICES ASSUME switching = "no"
                 PROVE  \A x \in Listed' :
                          Upcoming(x)' + Minus(xTickCount', xLastTime')
                            <= Period[x]
      BY <1>0, <2>1 DEF ClockIsRead, InHand
    <3>1. \A x \in Listed :
            Upcoming(x)' + Minus(xTickCount', xLastTime') <= Period[x]
      BY <1>0, <1>1, <2>2 DEF ClockIsRead
    <3>2. xLastTime' = xTimeNow
      BY <1>0, <1>1 DEF ClockIsRead
    <3>3. Upcoming(t)' + Minus(xTickCount', xLastTime') <= Period[t]
      BY <1>0, <1>5, <2>2, <3>2
    <3> QED
      BY <2>3, <3>1, <3>3
  <2>6. OneTurn'
    BY <1>0, <1>1 DEF OneTurn
  <2>7. InHandIsDue' /\ CallIsDue'
    BY <1>a, <1>0, <1>2, <2>1 DEF InHandIsDue, CallIsDue, InHand
  <2> QED
    BY <1>6, <2>3, <2>4, <2>5, <2>6, <2>7 DEF TimeInv
<1> QED
  BY <1>8, <1>9

-----------------------------------------------------------------------------
(* Time passes.                                                            *)

(* A start that waits less than MaxLate is recent a tick later.            *)
LEMMA RecentLater ==
  ASSUME NEW t \in Timers, NEW v \in Ticks, xTickCount \in Ticks,
         Minus(xTickCount, v) < MaxLate, xTickCount' = Plus(xTickCount, 1)
  PROVE  Recent(v)' /\ Minus(xTickCount', v) = Minus(xTickCount, v) + 1
<1>1. Minus(xTickCount, v) \in Ticks
  BY MinusTicks
<1>2. Minus(xTickCount, v) + 1 < Word /\ Minus(xTickCount, v) + 1 <= MaxLate
  BY <1>1, TimerFacts DEF Ticks
<1>3. Minus(xTickCount', v) = Minus(xTickCount, v) + 1
  BY <1>2, OneMoreTick
<1> QED
  BY <1>2, <1>3 DEF Recent

(* While a timer is in a list the tick count does not make a whole turn    *)
(* unseen.                                                                 *)
LEMMA ListedTick ==
  ASSUME TimerInv, TimeInv, Tick, NEW t \in Listed
  PROVE  /\ xTickCount' + Shift' = xTickCount + Shift + 1
         /\ switching = "no" =>
              Minus(xTickCount', xLastTime) = Minus(xTickCount, xLastTime) + 1
         /\ switching # "no" => xTickCount' = xTickCount + 1
<1>1. /\ t \in Timers /\ left[t] \in Int /\ Upcoming(t) \in Int
      /\ item[t] \in Nat /\ item[t] < Word
      /\ Word \in Nat \ {0} /\ MaxLate \in Nat \ {0}
      /\ Period[t] \in Nat \ {0} /\ Period[t] + MaxLate + MaxLate < Word
  BY ListedFacts
<1>2. /\ left[t] > - MaxLate /\ xTickCount' = Plus(xTickCount, 1)
      /\ UNCHANGED <<switching, xLastTime>>
  BY <1>1 DEF Tick, Armed, locals
<1>3. Upcoming(t) >= left[t]
  BY <1>1 DEF Upcoming
<1>4. /\ xTickCount \in Ticks /\ xLastTime \in Ticks
      /\ xTickCount \in Nat /\ xTickCount < Word
      /\ xLastTime \in Nat /\ xLastTime < Word
      /\ ListsAreDue /\ ClockIsRead
  BY TimeFacts
<1>5. CASE switching = "no"
  <2>1. Upcoming(t) + Minus(xTickCount, xLastTime) <= Period[t]
    BY <1>4, <1>5 DEF ClockIsRead
  <2>2. Minus(xTickCount, xLastTime) \in Nat
    BY <1>4, MinusTicks DEF Ticks
  <2>3. Minus(xTickCount, xLastTime) + 1 < Word
    BY <1>1, <1>2, <1>3, <2>1, <2>2
  <2>4. /\ xTickCount' \in Ticks
        /\ xTickCount' = IF xTickCount = Word - 1 THEN 0 ELSE xTickCount + 1
        /\ Minus(xTickCount', xLastTime) = Minus(xTickCount, xLastTime) + 1
    BY <1>2, <1>4, <2>3, OneMoreTick
  <2>5. xTickCount' # xLastTime
    <3> SUFFICES ASSUME xTickCount' = xLastTime PROVE FALSE
      OBVIOUS
    <3>1. Minus(xTickCount', xLastTime) = xLastTime - xLastTime
      BY <1>4, MinusTicks
    <3> QED
      BY <1>4, <2>2, <2>4, <3>1
  <2>6. /\ Shift = IF xTickCount < xLastTime THEN Word ELSE 0
        /\ Shift' = IF xTickCount' < xLastTime THEN Word ELSE 0
    BY <1>2, <1>5 DEF Shift, Behind, Wrapped
  <2>7. xTickCount' + Shift' = xTickCount + Shift + 1
    <3>1. CASE xTickCount = Word - 1
      <4>1. xTickCount' = 0 /\ Shift = 0
        BY <1>1, <1>4, <2>4, <2>6, <3>1
      <4>2. Shift' = Word
        BY <1>4, <2>5, <2>6, <4>1
      <4> QED
        BY <1>1, <3>1, <4>1, <4>2
    <3>2. CASE xTickCount # Word - 1
      <4>1. xTickCount' = xTickCount + 1
        BY <2>4, <3>2
      <4>2. Shift' = Shift
        BY <1>4, <2>5, <2>6, <4>1
      <4>3. Shift \in Nat
        BY <1>1, <2>6
      <4> QED
        BY <1>4, <4>1, <4>2, <4>3
    <3> QED
      BY <3>1, <3>2
  <2> QED
    BY <1>5, <2>4, <2>7
<1>6. CASE switching # "no"
  <2>1. Shift = Word /\ Shift' = Word
    BY <1>2, <1>6 DEF Shift, Behind
  <2>2. xTickCount # Word - 1
    <3>1. CASE t \in pxCurrentTimerList
      <4>1. item[t] = xTickCount + Upcoming(t) + Word
        BY <1>4, <2>1, <3>1 DEF ListsAreDue
      <4> QED
        BY <1>1, <1>2, <1>3, <1>4, <4>1
    <3>2. CASE t \in pxOverflowTimerList
      <4>1. /\ item[t] = xTickCount + Upcoming(t) + Word - Word
            /\ item[t] < Period[t]
        BY <1>4, <2>1, <3>2 DEF ListsAreDue
      <4> QED
        BY <1>1, <1>2, <1>3, <1>4, <4>1
    <3> QED
      BY <3>1, <3>2 DEF Listed
  <2>3. xTickCount' = xTickCount + 1
    <3>1. Plus(xTickCount, 1) = IF xTickCount + 1 < Word THEN xTickCount + 1
                                ELSE xTickCount + 1 - Word
      BY <1>1, <1>4, PlusTicks
    <3> QED
      BY <1>1, <1>2, <1>4, <2>2, <3>1
  <2> QED
    BY <1>1, <1>4, <1>6, <2>1, <2>3
<1> QED
  BY <1>5, <1>6

(* Nor while an expiry is in hand.                                         *)
LEMMA InHandTick ==
  ASSUME TimerInv, TimeInv, Tick, InHand
  PROVE  InHandIsDue' /\ (switching # "no" => xTickCount' = xTickCount + 1)
<1>1. /\ pxTimer # None /\ pxTimer \in Timers /\ daemon # "blocked"
  BY DEF TimerInv, Apart, Allocated, InHand
<1>2. /\ Armed(pxTimer) /\ xTickCount' = Plus(xTickCount, 1)
      /\ left[pxTimer] > - MaxLate
      /\ left' = [t \in Timers |-> IF Armed(t) THEN left[t] - 1 ELSE left[t]]
      /\ UNCHANGED <<switching, xLastTime, pxTimer, xExpiredTime, xTimeNow,
                     daemon, pxCurrentTimerList, pxOverflowTimerList>>
  BY <1>1 DEF Tick, Armed, InHand, locals, lists
<1>3. /\ xTickCount \in Ticks /\ xTimeNow \in Ticks /\ left \in [Timers -> Int]
      /\ xTickCount \in Nat /\ xTickCount < Word /\ Word \in Nat \ {0}
      /\ xTimeNow \in Nat
  BY TimeFacts
<1>4. /\ pxTimer \notin Listed /\ pxTimer \in AutoReload
      /\ xExpiredTime \in Ticks /\ InHandLeft <= 0
      /\ switching = "no" =>
           Minus(xTimeNow, xExpiredTime) + Minus(xTickCount, xTimeNow)
             = - InHandLeft
      /\ switching # "no" => xExpiredTime = xTickCount + InHandLeft + Word
  BY DEF TimeInv, InHandIsDue
<1>5. /\ left[pxTimer] \in Int /\ left'[pxTimer] = left[pxTimer] - 1
      /\ Period[pxTimer] \in Nat \ {0} /\ MaxLate \in Nat \ {0}
      /\ Period[pxTimer] + MaxLate + MaxLate < Word
  BY <1>1, <1>2, <1>3, TimerFacts
<1>6. /\ InHandLeft \in Int /\ InHandLeft' = InHandLeft - 1
      /\ InHandLeft >= left[pxTimer]
  BY <1>2, <1>5 DEF InHandLeft
<1>7. - MaxLate <= left'[pxTimer'] /\ InHandLeft' <= 0
  BY <1>2, <1>4, <1>5, <1>6
<1>8. CASE switching = "no"
  <2>1. /\ Minus(xTickCount, xTimeNow) \in Nat
        /\ Minus(xTimeNow, xExpiredTime) \in Nat
    <3>1. /\ Minus(xTickCount, xTimeNow) \in Ticks
          /\ Minus(xTimeNow, xExpiredTime) \in Ticks
      BY <1>3, <1>4, MinusTicks
    <3> QED
      BY <3>1 DEF Ticks
  <2>2. Minus(xTickCount, xTimeNow) + 1 < Word
    <3>1. PICK d \in Nat, e \in Nat :
            /\ d = Minus(xTimeNow, xExpiredTime)
            /\ e = Minus(xTickCount, xTimeNow)
      BY <2>1
    <3>2. d + e = - InHandLeft
      BY <1>4, <1>8, <3>1
    <3>3. e < MaxLate
      BY <1>2, <1>5, <1>6, <3>2
    <3> QED
      BY <1>3, <1>5, <3>1, <3>3
  <2>3. Minus(xTickCount', xTimeNow) = Minus(xTickCount, xTimeNow) + 1
    BY <1>2, <1>3, <2>2, OneMoreTick
  <2>4. Minus(xTimeNow, xExpiredTime) + Minus(xTickCount', xTimeNow)
          = - InHandLeft'
    BY <1>4, <1>6, <1>8, <2>1, <2>3
  <2> QED
    BY <1>2, <1>4, <1>7, <1>8, <2>4 DEF InHandIsDue, Listed
<1>9. CASE switching # "no"
  <2>1. xExpiredTime \in Nat /\ xExpiredTime < Word
    BY <1>3, <1>4 DEF Ticks
  <2>2. xTickCount # Word - 1
    BY <1>2, <1>3, <1>4, <1>5, <1>6, <1>9, <2>1
  <2>3. xTickCount' = xTickCount + 1
    <3>1. Plus(xTickCount, 1) = IF xTickCount + 1 < Word THEN xTickCount + 1
                                ELSE xTickCount + 1 - Word
      BY <1>3, <1>5, PlusTicks
    <3> QED
      BY <1>2, <1>3, <2>2, <3>1
  <2>4. xExpiredTime = xTickCount' + InHandLeft' + Word
    BY <1>3, <1>4, <1>6, <1>9, <2>3
  <2> QED
    BY <1>2, <1>4, <1>7, <1>9, <2>3, <2>4 DEF InHandIsDue, Listed
<1> QED
  BY <1>8, <1>9

(* The lists stay in step with the clock.                                  *)
LEMMA TickInTime ==
  ASSUME TimerInv, TimeInv, Tick
  PROVE  TimeInv'
<1>1. /\ xTickCount' = Plus(xTickCount, 1)
      /\ left' = [t \in Timers |-> IF Armed(t) THEN left[t] - 1 ELSE left[t]]
      /\ \A t \in Timers : Armed(t) => left[t] > - MaxLate
      /\ UNCHANGED <<xTimerQueue, pxCurrentTimerList, pxOverflowTimerList,
                     item, pc, sentAt, xLastTime, pxTimer, xExpiredTime,
                     xTimeNow, xMessage, switching>>
      /\ \/ daemon' = daemon
         \/ daemon = "blocked" /\ daemon' = "commands"
      /\ Listed' = Listed
  BY DEF Tick, lists, owners, locals, Listed
<1>2. /\ xTickCount \in Ticks /\ left \in [Timers -> Int] /\ TickTypes
      /\ sentAt \in [Timers -> Ticks] /\ xTimeNow \in Ticks
      /\ RecentStarts /\ ListsAreDue /\ ClockIsRead /\ OneTurn
      /\ xTickCount \in Nat /\ xTimeNow \in Nat /\ Word \in Nat \ {0}
  BY TimeFacts DEF TimeInv
<1>3. /\ InHand' <=> InHand
      /\ InWork' <=> InWork
      /\ daemon' = "call" <=> daemon = "call"
  BY <1>1 DEF InHand
<1>4. TickTypes'
  <2>1. left' \in [Timers -> Int]
    BY <1>1, <1>2
  <2>2. xTickCount' \in Ticks
    <3>1. CASE Word = 1
      <4>1. Plus(xTickCount, 1) = 0
        <5>1. xTickCount = 0
          BY <1>2, <3>1 DEF Ticks
        <5>2. 1 % Word = 1 - Word
          BY <3>1, Remainder
        <5> QED
          BY <3>1, <5>1, <5>2 DEF Plus
      <4> QED
        BY <1>1, <3>1, <4>1 DEF Ticks
    <3>2. CASE Word # 1
      <4>1. 1 < Word
        BY <1>2, <3>2
      <4> QED
        BY <1>1, <1>2, <4>1, PlusTicks
    <3> QED
      BY <3>1, <3>2
  <2> QED
    BY <1>1, <1>2, <2>1, <2>2 DEF TickTypes
<1>5. ASSUME NEW t \in Listed
      PROVE  /\ left'[t] >= - MaxLate /\ Upcoming(t) \in Int
             /\ Upcoming(t)' = Upcoming(t) - 1
  <2>1. t \in Timers /\ Armed(t) /\ left[t] \in Int /\ MaxLate \in Nat
        /\ Period[t] \in Nat \ {0} /\ Upcoming(t) \in Int
    BY ListedFacts DEF Armed
  <2>2. left'[t] = left[t] - 1 /\ left[t] > - MaxLate
    BY <1>1, <2>1
  <2> QED
    BY <1>1, <1>3, <2>1, <2>2 DEF Upcoming
<1>6. RecentStarts'
  <2>1. ASSUME NEW t \in Timers, pc'[t] = "start" PROVE Recent(sentAt[t])'
    <3>1. sentAt[t] \in Ticks /\ Minus(xTickCount, sentAt[t]) < MaxLate
      BY <1>1, <1>2, <2>1 DEF Tick
    <3>2. PICK v : v = sentAt[t]
      OBVIOUS
    <3>3. Recent(v)'
      BY <1>1, <1>2, <3>1, <3>2, RecentLater
    <3> QED
      BY <1>1, <3>2, <3>3 DEF Recent
  <2>2. ASSUME NEW i \in Sent', xTimerQueue'[i].id = "START"
        PROVE  Recent(xTimerQueue[i].value)'
    <3>1. PICK v : v = xTimerQueue[i].value
      OBVIOUS
    <3>2. /\ v \in Ticks /\ Minus(xTickCount, v) < MaxLate
          /\ xTimerQueue[i].timer \in Timers
      BY <1>1, <1>2, <2>2, <3>1 DEF Tick, RecentStarts, Recent, Sent,
                                    TimerInv, Messages, IsMessage
    <3>3. Recent(v)'
      BY <1>1, <1>2, <3>2, RecentLater
    <3> QED
      BY <1>1, <3>1, <3>3 DEF Recent
  <2>3. ASSUME InWork', xMessage'.id = "START"
        PROVE  /\ Recent(xMessage.value)'
               /\ Minus(xTickCount', xMessage'.value) =
                    Minus(xTickCount', xTimeNow')
                      + Minus(xTimeNow', xMessage'.value)
    <3>1. PICK v : v = xMessage.value
      OBVIOUS
    <3>2. /\ v \in Ticks /\ Minus(xTickCount, v) < MaxLate
          /\ Minus(xTickCount, v) =
               Minus(xTickCount, xTimeNow) + Minus(xTimeNow, v)
          /\ xMessage.timer \in Timers
      BY <1>1, <1>2, <1>3, <2>3, <3>1 DEF Tick, RecentStarts, Recent,
                                    TimerInv, Messages, IsMessage
    <3>3. Recent(v)' /\ Minus(xTickCount', v) = Minus(xTickCount, v) + 1
      BY <1>1, <1>2, <3>2, RecentLater
    <3>4. /\ Minus(xTickCount, xTimeNow) \in Nat /\ Minus(xTimeNow, v) \in Nat
          /\ Minus(xTickCount, v) \in Nat
      BY <1>2, <3>2, MinusTicks DEF Ticks
    <3>5. Minus(xTickCount, xTimeNow) < MaxLate
      BY <3>2, <3>4, TimerFacts
    <3>6. Minus(xTickCount', xTimeNow) = Minus(xTickCount, xTimeNow) + 1
      BY <1>1, <1>2, <3>2, <3>5, RecentLater
    <3>7. Minus(xTickCount', v) =
            Minus(xTickCount', xTimeNow) + Minus(xTimeNow, v)
      BY <3>2, <3>3, <3>4, <3>6
    <3> QED
      BY <1>1, <3>1, <3>3, <3>7 DEF Recent
  <2> QED
    BY <2>1, <2>2, <2>3 DEF RecentStarts, Recent
<1>7. ListsAreDue'
  <2>1. \A t \in Listed' : - MaxLate <= left'[t]
    BY <1>1, <1>5
  <2>2. ASSUME NEW t \in Listed, t \in pxCurrentTimerList
        PROVE  item'[t] = xTickCount' + Upcoming(t)' + Shift'
    <3>1. item[t] = xTickCount + Upcoming(t) + Shift
      BY <1>2, <2>2 DEF ListsAreDue
    <3>2. xTickCount' + Shift' = xTickCount + Shift + 1
      BY ListedTick
    <3>3. Shift \in Int /\ Shift' \in Int /\ xTickCount' \in Int
      BY <1>2, <1>4 DEF Shift, TickTypes, Ticks
    <3>4. item'[t] = item[t] /\ Upcoming(t)' = Upcoming(t) - 1
      BY <1>1, <1>5
    <3>5. /\ Upcoming(t) \in Int /\ xTickCount \in Int /\ Word \in Int
      BY <1>2, <1>5
    <3>6. PICK x \in Int, u \in Int, w \in Int, x2 \in Int, w2 \in Int :
            /\ x = xTickCount /\ u = Upcoming(t) /\ w = Shift
            /\ x2 = xTickCount' /\ w2 = Shift'
      BY <3>3, <3>5
    <3>7. Upcoming(t)' = u - 1 /\ x2 + w2 = x + w + 1
      BY <3>2, <3>4, <3>6
    <3>8. item'[t] = x + u + w
      BY <3>1, <3>4, <3>6
    <3>9. x + u + w = x2 + (u - 1) + w2
      BY <3>5, <3>7
    <3> QED
      BY <3>1, <3>4, <3>6, <3>7, <3>8, <3>9
  <2>3. ASSUME NEW t \in Listed, t \in pxOverflowTimerList
        PROVE  /\ item'[t] = xTickCount' + Upcoming(t)' + Shift' - Word
               /\ item'[t] < Period[t]
    <3>1. /\ item[t] = xTickCount + Upcoming(t) + Shift - Word
          /\ item[t] < Period[t]
      BY <1>2, <2>3 DEF ListsAreDue
    <3>2. xTickCount' + Shift' = xTickCount + Shift + 1
      BY ListedTick
    <3>3. Shift \in Int /\ Shift' \in Int /\ xTickCount' \in Int
      BY <1>2, <1>4 DEF Shift, TickTypes, Ticks
    <3>4. item'[t] = item[t] /\ Upcoming(t)' = Upcoming(t) - 1
      BY <1>1, <1>5
    <3>5. /\ Upcoming(t) \in Int /\ xTickCount \in Int /\ Word \in Int
      BY <1>2, <1>5
    <3>6. PICK x \in Int, u \in Int, w \in Int, x2 \in Int, w2 \in Int :
            /\ x = xTickCount /\ u = Upcoming(t) /\ w = Shift
            /\ x2 = xTickCount' /\ w2 = Shift'
      BY <3>3, <3>5
    <3>7. Upcoming(t)' = u - 1 /\ x2 + w2 = x + w + 1
      BY <3>2, <3>4, <3>6
    <3>8. item'[t] = x + u + w - Word
      BY <3>1, <3>4, <3>6
    <3>9. x + u + w - Word = x2 + (u - 1) + w2 - Word
      BY <3>5, <3>7
    <3> QED
      BY <3>1, <3>4, <3>6, <3>7, <3>8, <3>9
  <2>4. /\ pxCurrentTimerList \subseteq Listed
        /\ pxOverflowTimerList \subseteq Listed
    BY DEF Listed
  <2> QED
    BY <1>1, <2>1, <2>2, <2>3, <2>4 DEF ListsAreDue
<1>8. ClockIsRead'
  <2>1. ASSUME switching = "no", NEW t \in Listed
        PROVE  Upcoming(t)' + Minus(xTickCount', xLastTime) <= Period[t]
    <3>1. Upcoming(t) + Minus(xTickCount, xLastTime) <= Period[t]
      BY <1>2, <2>1 DEF ClockIsRead
    <3>2. Minus(xTickCount', xLastTime) = Minus(xTickCount, xLastTime) + 1
      BY <2>1, ListedTick
    <3>3. Minus(xTickCount, xLastTime) \in Int
      BY <1>2, TimeFacts, MinusTicks DEF Ticks
    <3> QED
      BY <1>5, <3>1, <3>2, <3>3
  <2>2. (daemon' = "handle" <=> daemon = "handle")
    BY <1>1
  <2> QED
    BY <1>1, <1>2, <1>3, <2>1, <2>2 DEF ClockIsRead
<1>9. OneTurn'
  <2> SUFFICES ASSUME switching # "no", Listed # {} \/ InHand
               PROVE  xTimeNow <= xTickCount'
    BY <1>1, <1>3 DEF OneTurn
  <2>1. xTickCount' = xTickCount + 1
    BY ListedTick, InHandTick
  <2>2. xTimeNow <= xTickCount
    BY <1>2 DEF OneTurn
  <2> QED
    BY <1>2, <2>1, <2>2
<1>10. InHandIsDue'
  BY <1>3, InHandTick DEF InHandIsDue
<1>11. CallIsDue'
  <2> SUFFICES ASSUME daemon = "call"
               PROVE  left'[pxTimer] <= 0
    BY <1>1, <1>3 DEF CallIsDue, TimeInv
  <2>1. pxTimer \in Timers /\ left[pxTimer] <= 0
    BY DEF TimerInv, Apart, Allocated, TimeInv, CallIsDue
  <2> QED
    BY <1>1, <1>2, <2>1
<1> QED
  BY <1>4, <1>6, <1>7, <1>8, <1>9, <1>10, <1>11 DEF TimeInv

-----------------------------------------------------------------------------
(* TimeInv holds in every state.                                           *)
LEMMA TimeInvariant == Spec => []TimeInv
<1>1. Init => TimeInv
  <2> SUFFICES ASSUME Init PROVE TimeInv
    OBVIOUS
  <2>1. 0 \in Ticks
    BY TimerAssumption DEF Init, Ticks
  <2>2. Listed = {} /\ ~InHand /\ ~InWork /\ Sent = {}
    BY DEF Init, Listed, InHand, Sent
  <2>3. TickTypes
    BY <2>1 DEF Init, TickTypes
  <2>4. RecentStarts
    BY <2>2 DEF Init, RecentStarts
  <2>5. ListsAreDue /\ ClockIsRead /\ OneTurn
    BY <2>2 DEF Init, Listed, ListsAreDue, ClockIsRead, OneTurn
  <2>6. InHandIsDue /\ CallIsDue
    BY <2>2 DEF Init, InHandIsDue, CallIsDue
  <2> QED
    BY <2>3, <2>4, <2>5, <2>6 DEF TimeInv
<1>2. TimerInv /\ TimeInv /\ [Next]_vars => TimeInv'
  <2> SUFFICES ASSUME TimerInv, TimeInv, [Next]_vars PROVE TimeInv'
    OBVIOUS
  <2>1. CASE UNCHANGED vars
    <3>1. UNCHANGED <<xTickCount, xTimerQueue, lists, pc, sentAt, daemon,
                      xLastTime, locals, left>>
      BY <2>1 DEF vars, owners
    <3>2. RecentStarts' /\ sentAt' \in [Timers -> Ticks]
      BY <3>1, TimeFacts, StartsGoOn DEF locals
    <3> QED
      BY <3>1, <3>2, ClockStays
  <2> QED
    BY <2>1, OwnerInTime, LookInTime, SwitchInTime, ReloadInTime, CallInTime,
       GoesOnInTime, ReceiveInTime, HandleStartInTime, HandleInTime,
       TickInTime
    DEF Next, Daemon
<1> QED
  BY <1>1, <1>2, TimerInvariant, PTL DEF Spec

(* No timer fires before its period has passed.                            *)
THEOREM TimersAreNotEarly == Spec => []NotEarly
<1>1. TimerInv /\ TimeInv => NotEarly
  <2> SUFFICES ASSUME TimerInv, TimeInv, daemon \in {"call", "callAgain"}
               PROVE  left[pxTimer] <= 0
    BY DEF NotEarly
  <2>1. pxTimer \in Timers
    BY DEF TimerInv, Apart, Allocated
  <2>2. Period[pxTimer] \in Nat /\ left[pxTimer] \in Int
    BY <2>1, TimerFacts, TimeFacts
  <2>3. CASE daemon = "call"
    BY <2>3 DEF TimeInv, CallIsDue
  <2>4. CASE daemon = "callAgain"
    <3>1. left[pxTimer] + Period[pxTimer] <= 0
      BY <2>4 DEF TimeInv, InHandIsDue, InHand, InHandLeft
    <3> QED
      BY <2>2, <3>1
  <2> QED
    BY <2>3, <2>4
<1> QED
  BY <1>1, TimerInvariant, TimeInvariant, PTL

(* The item of a timer in a list is the tick of its next expiry, wherever  *)
(* the tick count has wrapped.                                             *)
THEOREM TimerListsAreInStep == Spec => []ItemsAreDue
<1>1. TimerInv /\ TimeInv => ItemsAreDue
  <2> SUFFICES ASSUME TimerInv, TimeInv, NEW t \in Listed
               PROVE  item[t] = Plus(xTickCount, Upcoming(t))
    BY DEF ItemsAreDue
  <2> DEFINE n == xTickCount + Upcoming(t)
  <2>1. /\ item[t] \in Nat /\ item[t] < Word /\ Upcoming(t) \in Int
        /\ Word \in Nat \ {0} /\ Shift \in {0, Word} /\ xTickCount \in Nat
    BY ListedFacts, TimeFacts
  <2>2. item[t] = n + Shift \/ item[t] = n + Shift - Word
    BY DEF TimeInv, ListsAreDue, Listed
  <2>3. n \in Int
    BY <2>1
  <2> HIDE DEF n
  <2>4. item[t] \in {n, n + Word, n - Word}
    BY <2>1, <2>2, <2>3
  <2>5. n % Word = item[t]
    <3>1. CASE item[t] = n
      BY <2>1, <2>3, <3>1, Remainder
    <3>2. CASE item[t] = n + Word
      <4>1. - Word <= n /\ n < 0
        BY <2>1, <2>3, <3>2
      <4> QED
        BY <2>1, <2>3, <3>2, <4>1, Remainder
    <3>3. CASE item[t] = n - Word
      <4>1. Word <= n /\ n < Word + Word
        BY <2>1, <2>3, <3>3
      <4> QED
        BY <2>1, <2>3, <3>3, <4>1, Remainder
    <3> QED
      BY <2>4, <3>1, <3>2, <3>3
  <2> QED
    BY <2>5 DEF Plus, n
<1> QED
  BY <1>1, TimerInvariant, TimeInvariant, PTL
===============================================================================
