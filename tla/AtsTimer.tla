------------------------------ MODULE AtsTimer ------------------------------
(***************************************************************************)
(* The firmware's timers: the calls of sdk/ats_sys.c and the timer task    *)
(* they send commands to, FreeRTOS/timers.c in the configuration of the    *)
(* project.  The tick count wraps; a timer whose next expiry lies beyond   *)
(* the wrap waits in the overflow list, and the lists are exchanged when   *)
(* the timer task finds that the count has wrapped.                        *)
(*                                                                         *)
(* A timer has one owner, whose calls come one after the other.  The timer *)
(* task has the highest priority: other tasks run when it waits for a      *)
(* command or when a callback blocks, except the owners in Peers, of the   *)
(* same priority, which share the processor with it.  What a callback does *)
(* with its own handle a peer could do at that moment.                     *)
(***************************************************************************)
EXTENDS Integers, Sequences, FiniteSets

CONSTANTS
  Timers,
  Period,      (* xTimerPeriodInTicks of every timer                       *)
  AutoReload,  (* the timers created with ATS_TIMER_PERIODIC               *)
  Peers,       (* the timers whose owners have the timer task's priority   *)
  Blocking,    (* the timers whose callbacks may block                     *)
  Word,        (* the tick count is taken modulo Word                      *)
  configTIMER_QUEUE_LENGTH,
  MaxLate,     (* bound on how late, in ticks, the timer task may be       *)
  None

ASSUME TimerAssumption ==
  /\ MaxLate \in Nat \ {0} /\ Word \in Nat
  /\ Period \in [Timers -> Nat \ {0}]
  /\ \A t \in Timers : Period[t] + 2 * MaxLate < Word
  /\ AutoReload \subseteq Timers /\ Peers \subseteq Timers
  /\ Blocking \subseteq Timers
  /\ configTIMER_QUEUE_LENGTH \in Nat \ {0}
  /\ None \notin Timers /\ None \notin Nat

Ticks == 0 .. Word - 1

VARIABLES
  xTickCount,
  xTimerQueue,          (* the commands on their way to the timer task     *)
  pxCurrentTimerList, pxOverflowTimerList,  (* timers, by their expiry in: *)
  item,                 (* value of every timer's list item, 0 in no list  *)
  active,               (* tmrSTATUS_IS_ACTIVE                             *)
  exists,               (* the timers whose memory is allocated            *)
  context,              (* the timers whose context is allocated           *)
  pc, sentAt,           (* the owners, and the tick count each has read    *)
  daemon,               (* where the timer task is                         *)
  xLastTime,            (* the last tick count that it has read            *)
  pxTimer, xExpiredTime, xTimeNow, xMessage,  (* its local variables       *)
  switching,            (* who has called prvSwitchTimerLists, if anybody  *)
  wake,                 (* the tick count that ends its wait, or None      *)
  left                  (* history: ticks left to the next expiry          *)

lists  == <<pxCurrentTimerList, pxOverflowTimerList, item>>
memory == <<exists, context>>
owners == <<pc, sentAt>>
locals == <<pxTimer, xExpiredTime, xTimeNow, xMessage, switching>>
vars   == <<xTickCount, xTimerQueue, lists, active, memory, owners, daemon,
            xLastTime, locals, wake, left>>

Listed == pxCurrentTimerList \cup pxOverflowTimerList

Plus(a, b)  == (a + b) % Word
Minus(a, b) == (a - b) % Word

Init ==
  /\ xTickCount \in Ticks /\ xLastTime = xTickCount
  /\ xTimerQueue = <<>>
  /\ pxCurrentTimerList = {} /\ pxOverflowTimerList = {}
  /\ item = [t \in Timers |-> 0] /\ active = {}
  /\ exists = {} /\ context = {}
  /\ pc = [t \in Timers |-> "idle"] /\ sentAt = [t \in Timers |-> 0]
  /\ daemon = "blocked" /\ wake = None
  /\ pxTimer = None /\ xExpiredTime = 0 /\ xTimeNow = 0
  /\ xMessage = None /\ switching = "no"
  /\ left = [t \in Timers |-> 0]

-----------------------------------------------------------------------------
(* The calls of the owners.                                                *)

(* The timer task waits, or its callback does.                             *)
Idle == \/ daemon = "blocked" /\ xTimerQueue = <<>>
        \/ daemon \in {"in", "inAgain"} /\ pxTimer \in Blocking

MayRun(t) == t \in Peers \/ Idle

(* ats_timer_create; if memory is short, what was allocated is given back. *)
Create(t) ==
  /\ MayRun(t) /\ pc[t] = "idle" /\ t \notin exists /\ t \notin context
  /\ exists' = exists \cup {t} /\ context' = context \cup {t}
  /\ UNCHANGED <<xTickCount, xTimerQueue, lists, active, owners, daemon,
                 xLastTime, locals, wake, left>>

(* The owner has a handle.                                                 *)
Ready(t) == MayRun(t) /\ pc[t] = "idle" /\ t \in context

(* ats_timer_start, ats_timer_reset: the tick count is read first.         *)
Start(t) ==
  /\ Ready(t)
  /\ pc' = [pc EXCEPT ![t] = "start"]
  /\ sentAt' = [sentAt EXCEPT ![t] = xTickCount]
  /\ UNCHANGED <<xTickCount, xTimerQueue, lists, active, memory, daemon,
                 xLastTime, locals, wake, left>>

(* xQueueSendToBack without a time limit: fails if the queue is full.      *)
Send(t, command, value) ==
  /\ Len(xTimerQueue) < configTIMER_QUEUE_LENGTH
  /\ xTimerQueue' =
       Append(xTimerQueue, [id |-> command, timer |-> t, value |-> value])

SendStart(t) ==
  /\ MayRun(t) /\ pc[t] = "start"
  /\ \/ Send(t, "START", sentAt[t])
     \/ /\ Len(xTimerQueue) = configTIMER_QUEUE_LENGTH
        /\ UNCHANGED xTimerQueue
  /\ pc' = [pc EXCEPT ![t] = "idle"]
  /\ sentAt' = [sentAt EXCEPT ![t] = 0]
  /\ UNCHANGED <<xTickCount, lists, active, memory, daemon, xLastTime, locals,
                 wake, left>>

Stop(t) ==
  /\ Ready(t)
  /\ Send(t, "STOP", 0)
  /\ UNCHANGED <<xTickCount, lists, active, memory, owners, daemon, xLastTime,
                 locals, wake, left>>

(* Mutant: what xTimerDelete returns is not looked at.                     *)
DeleteUnsent(t) ==
  /\ Ready(t)
  /\ \/ Send(t, "DELETE", 0)
     \/ /\ Len(xTimerQueue) = configTIMER_QUEUE_LENGTH
        /\ UNCHANGED xTimerQueue
  /\ pc' = [pc EXCEPT ![t] = "free"]
  /\ UNCHANGED <<xTickCount, lists, active, memory, sentAt, daemon, xLastTime,
                 locals, wake, left>>

Delete(t) ==
  /\ Ready(t)
  /\ Send(t, "DELETE", 0)
  /\ pc' = [pc EXCEPT ![t] = "free"]
  /\ UNCHANGED <<xTickCount, lists, active, memory, sentAt, daemon, xLastTime,
                 locals, wake, left>>

FreeContext(t) ==
  /\ MayRun(t) /\ pc[t] = "free"
  /\ context' = context \ {t}
  /\ pc' = [pc EXCEPT ![t] = "idle"]
  /\ UNCHANGED <<xTickCount, xTimerQueue, lists, active, exists, sentAt,
                 daemon, xLastTime, locals, wake, left>>

-----------------------------------------------------------------------------
(* prvInsertTimerInActiveList.                                             *)

(* The expiry has passed before the timer is in a list.                    *)
ProcessNow(t, next, now, commanded) ==
  IF next <= now THEN Minus(now, commanded) >= Period[t]
                 ELSE now < commanded /\ next >= commanded

(* Mutant: there is one list.                                              *)
InsertCurrent(t, next, now) ==
  /\ item' = [item EXCEPT ![t] = next]
  /\ pxCurrentTimerList' = pxCurrentTimerList \cup {t}
  /\ UNCHANGED pxOverflowTimerList

Insert(t, next, now) ==
  /\ item' = [item EXCEPT ![t] = next]
  /\ IF next <= now
     THEN /\ pxOverflowTimerList' = pxOverflowTimerList \cup {t}
          /\ UNCHANGED pxCurrentTimerList
     ELSE /\ pxCurrentTimerList' = pxCurrentTimerList \cup {t}
          /\ UNCHANGED pxOverflowTimerList

(* A head of the current list; timers that expire together in any order.   *)
IsHead(t) ==
  /\ t \in pxCurrentTimerList
  /\ \A u \in pxCurrentTimerList : item[t] <= item[u]

(* prvProcessExpiredTimer up to its callback.                              *)
Expire(t) ==
  /\ pxTimer' = t
  /\ pxCurrentTimerList' = pxCurrentTimerList \ {t}
  /\ IF t \in AutoReload
     THEN daemon' = "reload" /\ xExpiredTime' = item[t] /\ UNCHANGED active
     ELSE /\ daemon' = "call" /\ active' = active \ {t}
          /\ UNCHANGED xExpiredTime
  /\ item' = [item EXCEPT ![t] = 0]
  /\ UNCHANGED <<pxOverflowTimerList, left>>

(* prvProcessTimerOrBlockTask, with prvGetNextExpireTime.                  *)
Wrapped == xTickCount < xLastTime

(* Mutant: the overflow list is not waited for.                            *)
WaitForCurrent ==
  /\ daemon' = "blocked"
  /\ wake' = IF pxCurrentTimerList # {}
             THEN CHOOSE v \in Ticks : \E t \in Timers :
                                         IsHead(t) /\ v = item[t]
             ELSE None
  /\ xLastTime' = xTickCount
  /\ UNCHANGED <<lists, active, locals, left>>

Wait ==
  /\ daemon' = "blocked"
  /\ wake' = IF pxCurrentTimerList # {}
             THEN CHOOSE v \in Ticks : \E t \in Timers :
                                         IsHead(t) /\ v = item[t]
             ELSE IF pxOverflowTimerList # {} THEN 0 ELSE None
  /\ xLastTime' = xTickCount
  /\ UNCHANGED <<lists, active, locals, left>>

Look ==
  /\ daemon = "look"
  /\ \/ /\ Wrapped
        /\ daemon' = "switch" /\ switching' = "look" /\ xTimeNow' = xTickCount
        /\ UNCHANGED <<lists, active, xLastTime, pxTimer, xExpiredTime,
                       xMessage, wake, left>>
     \/ \E t \in Timers :
          /\ ~Wrapped /\ IsHead(t) /\ item[t] <= xTickCount
          /\ Expire(t)
          /\ xTimeNow' = xTickCount /\ xLastTime' = xTickCount
          /\ UNCHANGED <<xMessage, switching, wake>>
     \/ /\ ~Wrapped
        /\ \A t \in pxCurrentTimerList : item[t] > xTickCount
        /\ Wait
  /\ UNCHANGED <<xTickCount, xTimerQueue, memory, owners>>

WakeUp ==
  /\ daemon = "blocked" /\ xTimerQueue # <<>>
  /\ daemon' = "commands" /\ wake' = None
  /\ UNCHANGED <<xTickCount, xTimerQueue, lists, active, memory, owners,
                 xLastTime, locals, left>>

(* prvSwitchTimerLists: what is left in the current list has expired.      *)
Switch ==
  /\ daemon = "switch"
  /\ \/ \E t \in Timers :
          /\ IsHead(t)
          /\ Expire(t)
          /\ UNCHANGED <<xLastTime, switching>>
     \/ /\ pxCurrentTimerList = {}
        /\ pxCurrentTimerList' = pxOverflowTimerList
        /\ pxOverflowTimerList' = {}
        /\ xLastTime' = xTimeNow
        /\ daemon' = IF switching = "look" THEN "commands" ELSE "handle"
        /\ switching' = "no"
        /\ UNCHANGED <<item, active, pxTimer, xExpiredTime, left>>
  /\ UNCHANGED <<xTickCount, xTimerQueue, memory, owners, xTimeNow, xMessage,
                 wake>>

(* Mutant: the period is counted from now.                                 *)
ReloadDrift ==
  LET now  == IF switching = "no" THEN xTimeNow ELSE Word - 1
      next == Plus(now, Period[pxTimer])
  IN
  /\ daemon = "reload"
  /\ daemon' = "call" /\ xExpiredTime' = 0
  /\ Insert(pxTimer, next, now)
  /\ UNCHANGED <<xTickCount, xTimerQueue, active, memory, owners, xLastTime,
                 pxTimer, xTimeNow, xMessage, switching, wake, left>>

(* prvReloadTimer: one turn of its loop.  While the lists are switched, it *)
(* works with the last tick count before the wrap.                         *)
Reload ==
  LET now  == IF switching = "no" THEN xTimeNow ELSE Word - 1
      next == Plus(xExpiredTime, Period[pxTimer])
  IN
  /\ daemon = "reload"
  /\ IF ProcessNow(pxTimer, next, now, xExpiredTime)
     THEN /\ daemon' = "callAgain" /\ xExpiredTime' = next
          /\ UNCHANGED lists
     ELSE /\ daemon' = "call" /\ xExpiredTime' = 0
          /\ Insert(pxTimer, next, now)
  /\ UNCHANGED <<xTickCount, xTimerQueue, active, memory, owners, xLastTime,
                 pxTimer, xTimeNow, xMessage, switching, wake, left>>

(* _timer_entry, which reads the context, and the callback.                *)
Call ==
  /\ daemon \in {"call", "callAgain"}
  /\ daemon' = IF daemon = "call" THEN "in" ELSE "inAgain"
  /\ left' = [left EXCEPT ![pxTimer] =
                IF pxTimer \in AutoReload THEN @ + Period[pxTimer] ELSE 0]
  /\ UNCHANGED <<xTickCount, xTimerQueue, lists, active, memory, owners,
                 xLastTime, locals, wake>>

Return ==
  /\ daemon \in {"in", "inAgain"}
  /\ IF daemon = "inAgain"
     THEN daemon' = "reload" /\ UNCHANGED pxTimer
     ELSE /\ daemon' = IF switching = "no" THEN "commands" ELSE "switch"
          /\ pxTimer' = None
  /\ UNCHANGED <<xTickCount, xTimerQueue, lists, active, memory, owners,
                 xLastTime, xExpiredTime, xTimeNow, xMessage, switching, wake,
                 left>>

(* Mutant: only the current list is searched.                              *)
ReceiveCurrent ==
  LET t == Head(xTimerQueue).timer IN
  /\ daemon = "commands" /\ xTimerQueue # <<>>
  /\ xMessage' = Head(xTimerQueue) /\ xTimerQueue' = Tail(xTimerQueue)
  /\ pxCurrentTimerList' = pxCurrentTimerList \ {t}
  /\ xTimeNow' = xTickCount
  /\ IF Wrapped
     THEN daemon' = "switch" /\ switching' = "handle" /\ UNCHANGED xLastTime
     ELSE /\ daemon' = "handle" /\ xLastTime' = xTickCount
          /\ UNCHANGED switching
  /\ UNCHANGED <<xTickCount, pxOverflowTimerList, item, active, memory, owners,
                 pxTimer, xExpiredTime, wake, left>>

(* prvProcessReceivedCommands: the timer leaves its list, then the time is *)
(* taken, then the command is carried out.                                 *)
Receive ==
  LET t == Head(xTimerQueue).timer IN
  /\ daemon = "commands" /\ xTimerQueue # <<>>
  /\ xMessage' = Head(xTimerQueue) /\ xTimerQueue' = Tail(xTimerQueue)
  /\ pxCurrentTimerList' = pxCurrentTimerList \ {t}
  /\ pxOverflowTimerList' = pxOverflowTimerList \ {t}
  /\ item' = [item EXCEPT ![t] = 0]
  /\ xTimeNow' = xTickCount
  /\ IF Wrapped
     THEN daemon' = "switch" /\ switching' = "handle" /\ UNCHANGED xLastTime
     ELSE /\ daemon' = "handle" /\ xLastTime' = xTickCount
          /\ UNCHANGED switching
  /\ UNCHANGED <<xTickCount, active, memory, owners, pxTimer,
                 xExpiredTime, wake, left>>

NoMoreCommands ==
  /\ daemon = "commands" /\ xTimerQueue = <<>>
  /\ daemon' = "look" /\ xTimeNow' = 0
  /\ UNCHANGED <<xTickCount, xTimerQueue, lists, active, memory, owners,
                 xLastTime, pxTimer, xExpiredTime, xMessage, switching, wake,
                 left>>

HandleStart ==
  LET t    == xMessage.timer
      next == Plus(xMessage.value, Period[t])
  IN
  /\ daemon = "handle" /\ xMessage.id = "START"
  /\ left' = [left EXCEPT ![t] =
                Period[t] - Minus(xTickCount, xMessage.value)]
  /\ IF ProcessNow(t, next, xTimeNow, xMessage.value)
     THEN /\ pxTimer' = t
          /\ IF t \in AutoReload
             THEN /\ daemon' = "reload" /\ xExpiredTime' = next
                  /\ active' = active \cup {t}
             ELSE /\ daemon' = "call" /\ active' = active \ {t}
                  /\ UNCHANGED xExpiredTime
          /\ UNCHANGED lists
     ELSE /\ Insert(t, next, xTimeNow)
          /\ active' = active \cup {t}
          /\ daemon' = "commands"
          /\ UNCHANGED <<pxTimer, xExpiredTime>>
  /\ xMessage' = None
  /\ UNCHANGED <<xTickCount, xTimerQueue, memory, owners, xLastTime, xTimeNow,
                 switching, wake>>

HandleStop ==
  /\ daemon = "handle" /\ xMessage.id = "STOP"
  /\ active' = active \ {xMessage.timer}
  /\ left' = [left EXCEPT ![xMessage.timer] = 0]
  /\ daemon' = "commands" /\ xMessage' = None
  /\ UNCHANGED <<xTickCount, xTimerQueue, lists, memory, owners, xLastTime,
                 pxTimer, xExpiredTime, xTimeNow, switching, wake>>

HandleDelete ==
  /\ daemon = "handle" /\ xMessage.id = "DELETE"
  /\ active' = active \ {xMessage.timer}
  /\ exists' = exists \ {xMessage.timer}
  /\ left' = [left EXCEPT ![xMessage.timer] = 0]
  /\ daemon' = "commands" /\ xMessage' = None
  /\ UNCHANGED <<xTickCount, xTimerQueue, lists, context, owners, xLastTime,
                 pxTimer, xExpiredTime, xTimeNow, switching, wake>>

-----------------------------------------------------------------------------
(* The timers whose next expiry is fixed.                                  *)
Armed(t) ==
  \/ t \in Listed
  \/ pxTimer = t /\ daemon \in {"reload", "call", "callAgain", "inAgain"}

(* The timer task works on a command, xMessage.                            *)
InWork == daemon = "handle" \/ switching = "handle"

(* The timer task is not later than MaxLate.                               *)
Tick ==
  /\ \A t \in Timers :
       /\ Armed(t) => left[t] > - MaxLate
       /\ pc[t] = "start" => Minus(xTickCount, sentAt[t]) < MaxLate
  /\ \A i \in 1 .. Len(xTimerQueue) : xTimerQueue[i].id = "START" =>
       Minus(xTickCount, xTimerQueue[i].value) < MaxLate
  /\ InWork /\ xMessage.id = "START" =>
       Minus(xTickCount, xMessage.value) < MaxLate
  /\ xTickCount' = Plus(xTickCount, 1)
  /\ left' = [t \in Timers |-> IF Armed(t) THEN left[t] - 1 ELSE left[t]]
  /\ IF daemon = "blocked" /\ wake \in {xTickCount, xTickCount'}
     THEN daemon' = "commands" /\ wake' = None
     ELSE UNCHANGED <<daemon, wake>>
  /\ UNCHANGED <<xTimerQueue, lists, active, memory, owners, xLastTime,
                 locals>>

Owner(t) ==
  \/ Create(t) \/ Start(t) \/ SendStart(t) \/ Stop(t) \/ Delete(t)
  \/ FreeContext(t)

Daemon ==
  \/ Look \/ WakeUp \/ Switch \/ Reload \/ Call \/ Return \/ Receive
  \/ NoMoreCommands \/ HandleStart \/ HandleStop \/ HandleDelete

Next == (\E t \in Timers : Owner(t)) \/ Daemon \/ Tick

Spec == Init /\ [][Next]_vars

(* Time passes, the timer task is scheduled first, callbacks return, and   *)
(* an owner finishes the call it has begun.                                *)
FairSpec ==
  /\ Spec
  /\ WF_vars(Tick) /\ WF_vars(Daemon)
  /\ \A t \in Timers : WF_vars(SendStart(t))

-----------------------------------------------------------------------------
(* No timer fires before its period has passed since the call that started *)
(* it, or since its last expiry, wherever the tick count wraps.            *)
NotEarly == daemon \in {"call", "callAgain"} => left[pxTimer] <= 0

(* The lists are in step with the clock: the item of a timer in a list is  *)
(* the tick of its next expiry, also when an auto-reload timer was started *)
(* late, was reloaded several times at once, or was reloaded around a wrap *)
(* (while its callback is still to be called, that of the expiry after).   *)
Upcoming(t) ==
  IF pxTimer = t /\ daemon = "call" THEN left[t] + Period[t] ELSE left[t]

ItemsAreDue == \A t \in Listed : item[t] = Plus(xTickCount, Upcoming(t))

(* The callback's context is gone only while the command to delete the     *)
(* timer is still on its way to the timer task.                            *)
ContextWindow ==
  /\ daemon \in {"call", "callAgain"} /\ pxTimer \notin context
  => \E i \in 1 .. Len(xTimerQueue) :
        xTimerQueue[i].id = "DELETE" /\ xTimerQueue[i].timer = pxTimer

(* The memory of a timer is not used after it has been freed.              *)
NoDanglingTimer ==
  /\ \A t \in Listed : t \in exists
  /\ \A i \in 1 .. Len(xTimerQueue) : xTimerQueue[i].timer \in exists
  /\ pxTimer # None => pxTimer \in exists

(* A timer in a list, and one that ats_timer_is_running reports while the  *)
(* timer task waits, fires, unless its owner sends another command, if the *)
(* owners of the timer task's priority stop sending commands in the end:   *)
(* while they do, the timer task does not get beyond its queue.            *)
PeersAreQuiet == <>[][~ \E t \in Peers : Owner(t)]_vars

ArmedTimerFires ==
  PeersAreQuiet => \A t \in Timers :
    (t \in Listed \/ (daemon = "blocked" /\ t \in active))
      ~> \/ pxTimer = t /\ daemon \in {"in", "inAgain"}
         \/ \E i \in 1 .. Len(xTimerQueue) : xTimerQueue[i].timer = t
=============================================================================
