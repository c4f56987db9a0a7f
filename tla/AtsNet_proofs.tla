---------------------------- MODULE AtsNet_proofs ----------------------------
(***************************************************************************)
(* Proofs about AtsNet for all tasks, servers, slots, ids, table sizes and *)
(* bounds: whose answer a call can return with, the table holds the open   *)
(* sockets, a request is in one place until it is answered, and, as long   *)
(* as connects are waited for and not tried again and no call returns with *)
(* the answer to another, a task is connected to the server it has been    *)
(* told.                                                                   *)
(***************************************************************************)
EXTENDS AtsNet, SequenceFacts, FiniteSetTheorems, TLAPS

Calls == 1 .. Len(asked)

-----------------------------------------------------------------------------
(* Who asked.                                                              *)

(* A task waits for a call of this run only, and has then no id left over. *)
AskedInv ==
  /\ IsSeq(asked) /\ Len(asked) \in Nat
  /\ session \in Nat
  /\ \A n \in Calls :
       /\ asked[n].id # 0 /\ asked[n].run \in Nat
       /\ asked[n].run <= session
  /\ waiting \in [Tasks -> Nat]
  /\ rid = [t \in Tasks |-> rid[t]]
  /\ \A t \in Tasks : waiting[t] # 0 =>
       rid[t] = 0 /\ waiting[t] \in Calls /\ asked[waiting[t]].run = session

(* What a call does before it is sent, or instead.                         *)
NotSent(t) == Begin(t) \/ SendFails(t)

(* Until then nobody else takes notice of it.                              *)
LEMMA NotSentYet ==
  ASSUME NEW t \in Tasks, NotSent(t)
  PROVE  /\ UNCHANGED <<waiting, handle, target, session, mistaken, inbox>>
         /\ UNCHANGED <<currentId, jobs, job, outbox, s_net_ctx, os>>
         /\ UNCHANGED <<asked, gaveUp, answered>>
BY DEF NotSent, Begin, SendFails, sockets, returns, network, table, history

(* A call is added to those asked before.                                  *)
LEMMA AskAdds ==
  ASSUME AskedInv, NEW t \in Tasks, NEW op, NEW server, Ask(t, op, server)
  PROVE  /\ IsSeq(asked') /\ Len(asked') = Len(asked) + 1
         /\ Len(asked) \in Nat /\ Len(asked') \in Nat
         /\ \A n \in Calls : asked'[n] = asked[n]
         /\ asked'[Len(asked')].id = rid[t]
         /\ asked'[Len(asked')].run = session
<1> DEFINE c == [id |-> rid[t], run |-> session, op |-> op,
                 task |-> t, sock |-> handle[t], server |-> server]
<1>1. asked' = Append(asked, c)
  BY DEF Ask
<1>2. c.id = rid[t] /\ c.run = session
  OBVIOUS
<1> HIDE DEF c
<1>3. IsSeq(asked)
  BY DEF AskedInv
<1> QED
  BY <1>1, <1>2, <1>3, AppendToSeq DEF Calls

(* What a task asks for keeps the invariant.                               *)
LEMMA AskKeeps ==
  ASSUME AskedInv, NEW t \in Tasks, NEW op, NEW server, Ask(t, op, server)
  PROVE  AskedInv'
<1>1. /\ IsSeq(asked') /\ Len(asked') = Len(asked) + 1
      /\ Len(asked) \in Nat /\ Len(asked') \in Nat
      /\ \A n \in Calls : asked'[n] = asked[n]
      /\ asked'[Len(asked')].id = rid[t]
      /\ asked'[Len(asked')].run = session
  BY AskAdds
<1>2. /\ session' = session /\ rid[t] # 0
      /\ waiting' = [waiting EXCEPT ![t] = Len(asked')]
      /\ rid' = [rid EXCEPT ![t] = 0]
  BY DEF Ask, FillId
<1>3. \A n \in Calls' : n \in Calls \/ n = Len(asked')
  BY <1>1 DEF Calls
<1>4. ASSUME NEW n \in Calls'
      PROVE  /\ asked'[n].id # 0 /\ asked'[n].run \in Nat
             /\ asked'[n].run <= session'
  <2>1. CASE n \in Calls
    <3>1. asked'[n] = asked[n]
      BY <1>1, <2>1
    <3> QED
      BY <1>2, <2>1, <3>1 DEF AskedInv
  <2>2. CASE n = Len(asked')
    BY <1>1, <1>2, <2>2 DEF AskedInv
  <2> QED
    BY <1>3, <2>1, <2>2
<1>5. waiting' \in [Tasks -> Nat]
  BY <1>1, <1>2 DEF AskedInv
<1>6. rid' = [u \in Tasks |-> rid'[u]]
  <2>1. PICK f : f = rid
    OBVIOUS
  <2>2. f = [u \in Tasks |-> f[u]] /\ rid' = [f EXCEPT ![t] = 0]
    BY <1>2, <2>1 DEF AskedInv
  <2> QED
    BY <2>2
<1>7. ASSUME NEW u \in Tasks, waiting'[u] # 0
      PROVE  /\ rid'[u] = 0
             /\ waiting'[u] \in Calls' /\ asked'[waiting'[u]].run = session'
  <2>1. CASE u = t
    <3>1. rid'[u] = 0 /\ waiting'[u] = Len(asked')
      BY <1>2, <2>1 DEF AskedInv
    <3> QED
      BY <1>1, <1>2, <2>1, <3>1 DEF Calls
  <2>2. CASE u # t
    <3>1. waiting'[u] = waiting[u] /\ rid'[u] = rid[u]
      BY <1>2, <2>2 DEF AskedInv
    <3> QED
      BY <1>1, <1>2, <1>7, <3>1 DEF AskedInv, Calls
  <2> QED
    BY <2>1, <2>2
<1>8. session' \in Nat
  BY <1>2 DEF AskedInv
<1> QED
  BY <1>1, <1>4, <1>5, <1>6, <1>7, <1>8 DEF AskedInv

(* An id is drawn, or given up again.                                      *)
LEMMA NotSentKeeps ==
  ASSUME AskedInv, NEW t \in Tasks, NotSent(t)
  PROVE  AskedInv'
<1>1. UNCHANGED <<waiting, session, asked>>
  BY NotSentYet
<1>2. PICK f, x : f = rid /\ x = NextId
  OBVIOUS
<1>3. f = [u \in Tasks |-> f[u]]
  BY <1>2 DEF AskedInv
<1>4. CASE Begin(t)
  <2>1. rid' = f \/ rid' = [f EXCEPT ![t] = x]
    BY <1>2, <1>4 DEF Begin
  <2>2. waiting[t] = 0
    BY <1>4 DEF Begin
  <2>3. /\ rid' = [u \in Tasks |-> rid'[u]]
        /\ \A u \in Tasks : u # t => rid'[u] = rid[u]
    BY <1>2, <1>3, <2>1
  <2> QED
    BY <1>1, <2>2, <2>3 DEF AskedInv, Calls
<1>5. CASE SendFails(t)
  <2>1. rid' = [f EXCEPT ![t] = 0]
    BY <1>2, <1>5 DEF SendFails, FillId
  <2>2. /\ rid' = [u \in Tasks |-> rid'[u]] /\ rid'[t] = 0
        /\ \A u \in Tasks : u # t => rid'[u] = rid[u]
    BY <1>2, <1>3, <2>1
  <2> QED
    BY <1>1, <2>2 DEF AskedInv, Calls
<1> QED
  BY <1>4, <1>5 DEF NotSent

(* Who has stopped to wait.                                                *)
LEMMA WaitLess ==
  ASSUME AskedInv, UNCHANGED <<asked, rid, session>>,
         waiting' \in [Tasks -> Nat],
         \A t \in Tasks : waiting'[t] \in {0, waiting[t]}
  PROVE  AskedInv'
BY DEF AskedInv, Calls

(* A task leaves its call.                                                 *)
LEMMA LeaveKeeps ==
  ASSUME AskedInv, NEW t \in Tasks, Leave(t), UNCHANGED <<asked, rid, session>>
  PROVE  AskedInv'
<1>1. waiting' = [waiting EXCEPT ![t] = 0]
  BY DEF Leave
<1>2. /\ waiting' \in [Tasks -> Nat]
      /\ \A u \in Tasks : waiting'[u] \in {0, waiting[u]}
  BY <1>1 DEF AskedInv
<1> QED
  BY <1>2, WaitLess

(* Ids begin anew in a run of their own.                                   *)
LEMMA RestartKeeps ==
  ASSUME AskedInv, Restart
  PROVE  AskedInv'
<1>1. /\ session' = session + 1 /\ asked' = asked
      /\ rid' = [t \in Tasks |-> 0] /\ waiting' = [t \in Tasks |-> 0]
  BY DEF Restart
<1>2. \A n \in Calls : asked'[n].run <= session'
  BY <1>1 DEF AskedInv
<1>3. /\ rid' = [t \in Tasks |-> rid'[t]] /\ waiting' \in [Tasks -> Nat]
      /\ \A t \in Tasks : waiting'[t] = 0
  BY <1>1
<1> QED
  BY <1>1, <1>2, <1>3 DEF AskedInv, Calls

(* A delivery ends the wait of the task that takes the response, if one    *)
(* waits for one with its id; otherwise a call that is not yet sent may    *)
(* find it later.                                                          *)
Takes(t) == waiting[t] # 0 /\ Taker(t, Head(outbox).id)
TakesEarly(t) ==
  /\ waiting[t] = 0 /\ Taker(t, Head(outbox).id)
  /\ early' = [early EXCEPT ![t] = Head(outbox)]

Swallowed ==
  /\ UNCHANGED <<waiting, handle, target, slot, mistaken>>
  /\ early' = early \/ \E t \in Tasks : TakesEarly(t)
  /\ \/ \A t \in Tasks : ~Taker(t, Head(outbox).id)
     \/ \E t \in Tasks : Taker(t, Head(outbox).id) /\ waiting[t] = 0

(* What a delivery does.                                                   *)
LEMMA DeliverDoes ==
  ASSUME Deliver
  PROVE  /\ outbox # <<>> /\ outbox' = Tail(outbox)
         /\ UNCHANGED <<session, rid, s_pending, unsent>>
         /\ UNCHANGED <<inbox, jobs, job, s_net_ctx, os>>
         /\ UNCHANGED <<asked, gaveUp, answered>>
         /\ \/ \E t \in Tasks : Takes(t) /\ ReturnWith(t, Head(outbox))
            \/ Swallowed
<1>1. /\ outbox # <<>> /\ outbox' = Tail(outbox)
      /\ UNCHANGED <<session, rid, s_pending, unsent>>
      /\ UNCHANGED <<inbox, jobs, job, s_net_ctx, os>>
      /\ UNCHANGED <<asked, gaveUp, answered>>
  BY DEF Deliver, network, table, history
<1>2. ASSUME NEW t \in Tasks, Taker(t, Head(outbox).id), waiting[t] = 0,
             early' \in {early, [early EXCEPT ![t] = Head(outbox)]},
             UNCHANGED <<waiting, handle, target, slot, mistaken>>
      PROVE  Swallowed
  BY <1>2 DEF Swallowed, TakesEarly
<1>3. ASSUME UNCHANGED <<waiting, handle, target, slot, early, mistaken>>,
             \A t \in Tasks : ~Taker(t, Head(outbox).id)
      PROVE  Swallowed
  BY <1>3 DEF Swallowed
<1>4. \/ \E t \in Tasks : Takes(t) /\ ReturnWith(t, Head(outbox))
      \/ Swallowed
  BY <1>2, <1>3 DEF Deliver, Takes
<1> QED
  BY <1>1, <1>4

(* What an early answer does.                                              *)
LEMMA WakeEarlyDoes ==
  ASSUME NEW t \in Tasks, WakeEarly(t)
  PROVE  /\ waiting[t] # 0 /\ early[t] # None /\ ReturnWith(t, early[t])
         /\ UNCHANGED <<session, rid, s_pending, unsent>>
         /\ UNCHANGED <<inbox, jobs, job, outbox, s_net_ctx, os>>
         /\ UNCHANGED <<asked, gaveUp, answered>>
BY DEF WakeEarly, network, table, history

(* Steps of a task that ask for nothing.                                   *)
Quiet(t) == Begin(t) \/ SendFails(t) \/ GiveUp(t) \/ WakeEarly(t)

(* The host takes no notice of them.                                       *)
LEMMA QuietSteps ==
  ASSUME NEW t \in Tasks, Quiet(t)
  PROVE  /\ UNCHANGED <<session, asked, answered>>
         /\ UNCHANGED <<inbox, jobs, job, outbox, s_net_ctx, os>>
BY DEF Quiet, Begin, SendFails, GiveUp, WakeEarly, sockets, network, table,
       history

(* The inductive step of AskedInv.                                         *)
LEMMA AskedStep == AskedInv /\ [Next]_vars => AskedInv'
<1> SUFFICES ASSUME AskedInv, [Next]_vars PROVE AskedInv'
  OBVIOUS
<1>1. ASSUME NEW t \in Tasks,
             \/ Create(t) \/ Send(t) \/ Recv(t) \/ Close(t)
             \/ \E s \in Servers : Connect(t, s)
      PROVE  AskedInv'
  BY <1>1, AskKeeps DEF Create, Send, Recv, Close, Connect
<1>2. ASSUME UNCHANGED <<asked, rid, session, waiting>>
      PROVE  AskedInv'
  BY <1>2 DEF AskedInv, Calls
<1>3. CASE Worker
  BY <1>2, <1>3 DEF Worker, DispatchCreate, DispatchSend, DispatchClose,
                    DispatchJob, DispatchFinished, Dispatch, firmware
<1>4. CASE NetThread
  BY <1>2, <1>4 DEF NetThread, TakeJob, Resolve, Select, StartRecv, EndRecv,
                    NetStep, firmware, history
<1>5. ASSUME NEW k, DataArrives(k) PROVE AskedInv'
  BY <1>2, <1>5 DEF DataArrives, firmware, history
<1>6. CASE UNCHANGED vars
  BY <1>2, <1>6 DEF vars, firmware, history
<1>7. ASSUME NEW t \in Tasks, GiveUp(t) \/ WakeEarly(t) PROVE AskedInv'
  <2>1. Leave(t) /\ UNCHANGED <<asked, rid, session>>
    BY <1>7, WakeEarlyDoes DEF GiveUp, ReturnWith
  <2> QED
    BY <2>1, LeaveKeeps
<1>8. CASE Deliver
  <2>1. UNCHANGED <<asked, rid, session>>
    BY <1>8, DeliverDoes
  <2>2. CASE Swallowed
    BY <1>2, <2>1, <2>2 DEF Swallowed
  <2>3. ASSUME NEW t \in Tasks, ReturnWith(t, Head(outbox))
        PROVE  AskedInv'
    <3>1. Leave(t)
      BY <2>3 DEF ReturnWith
    <3> QED
      BY <2>1, <3>1, LeaveKeeps
  <2> QED
    BY <1>8, <2>2, <2>3, DeliverDoes
<1>9. ASSUME NEW t \in Tasks, Begin(t) \/ SendFails(t) PROVE AskedInv'
  BY <1>9, NotSentKeeps DEF NotSent
<1> QED
  BY <1>1, <1>3, <1>4, <1>5, <1>6, <1>7, <1>8, <1>9, RestartKeeps DEF Next

-----------------------------------------------------------------------------
(* The slots.                                                              *)

(* Each task that is in a call has a slot of its own, which bears the id   *)
(* of the call once it is sent.                                            *)
SlotInv ==
  /\ slot = [t \in Tasks |-> slot[t]]
  /\ early = [t \in Tasks |-> early[t]]
  /\ s_pending = [s \in Slots |-> s_pending[s]]
  /\ \A t \in Tasks : slot[t] \in Slots \cup {None}
  /\ \A t \in Tasks : slot[t] = None => waiting[t] = 0 /\ rid[t] = 0
  /\ \A t, u \in Tasks : slot[t] # None /\ slot[t] = slot[u] => t = u
  /\ \A t \in Tasks : waiting[t] # 0 =>
       s_pending[slot[t]] = asked[waiting[t]].id

(* Whose id a slot bears: that of a call that could not be sent, or of one *)
(* that nobody waits for with another slot.                                *)
Owner(s, k) ==
  /\ asked[k].run = session /\ asked[k].id = s_pending[s]
  /\ \A u \in Tasks : waiting[u] = k => slot[u] = s

TagInv ==
  \A s \in Slots : \/ s_pending[s] = 0
                   \/ <<session, s_pending[s]>> \in unsent
                   \/ \E k \in Calls : Owner(s, k)

(* A slot is no value for none.                                            *)
LEMMA SlotsAreNot == None \notin Slots
BY ConstantsAssumption DEF Slots

(* What a task writes into its slot.                                       *)
LEMMA SlotFilled ==
  ASSUME SlotInv, NEW t \in Tasks, rid[t] # 0, FillId(t)
  PROVE  /\ slot[t] \in Slots
         /\ s_pending' = [s \in Slots |-> s_pending'[s]]
         /\ s_pending'[slot[t]] = rid[t]
         /\ \A s \in Slots : s # slot[t] => s_pending'[s] = s_pending[s]
         /\ \A u \in Tasks : u # t => rid'[u] = rid[u]
<1>1. slot[t] \in Slots
  BY DEF SlotInv
<1>2. PICK f, g, s, x : f = s_pending /\ g = rid /\ s = slot[t] /\ x = rid[t]
  OBVIOUS
<1>3. /\ f = [i \in Slots |-> f[i]] /\ s \in Slots
      /\ s_pending' = [f EXCEPT ![s] = x] /\ rid' = [g EXCEPT ![t] = 0]
  BY <1>1, <1>2 DEF FillId, SlotInv
<1>4. /\ s_pending' = [i \in Slots |-> s_pending'[i]]
      /\ s_pending'[s] = x
      /\ \A i \in Slots : i # s => s_pending'[i] = f[i]
  BY <1>3
<1>5. \A u \in Tasks : u # t => rid'[u] = g[u]
  BY <1>3
<1> QED
  BY <1>1, <1>2, <1>4, <1>5

(* What a task has left.                                                   *)
LEMMA SlotLeft ==
  ASSUME SlotInv, NEW t \in Tasks,
         slot' = [slot EXCEPT ![t] = None], early' = [early EXCEPT ![t] = None]
  PROVE  /\ slot' = [u \in Tasks |-> slot'[u]] /\ slot'[t] = None
         /\ \A u \in Tasks : u # t => slot'[u] = slot[u]
         /\ early' = [u \in Tasks |-> early'[u]] /\ early'[t] = None
         /\ \A u \in Tasks : u # t => early'[u] = early[u]
<1>1. PICK f, g : f = slot /\ g = early
  OBVIOUS
<1>2. /\ f = [u \in Tasks |-> f[u]] /\ g = [u \in Tasks |-> g[u]]
      /\ slot' = [f EXCEPT ![t] = None] /\ early' = [g EXCEPT ![t] = None]
  BY <1>1 DEF SlotInv
<1>3. /\ slot' = [u \in Tasks |-> slot'[u]] /\ slot'[t] = None
      /\ \A u \in Tasks : u # t => slot'[u] = f[u]
  BY <1>2
<1>4. /\ early' = [u \in Tasks |-> early'[u]] /\ early'[t] = None
      /\ \A u \in Tasks : u # t => early'[u] = g[u]
  BY <1>2
<1> QED
  BY <1>1, <1>3, <1>4

(* A call is sent.                                                         *)
LEMMA AskSlots ==
  ASSUME AskedInv, SlotInv, TagInv, NEW t \in Tasks, NEW op, NEW server,
         Ask(t, op, server)
  PROVE  SlotInv' /\ TagInv'
<1>1. /\ Len(asked') = Len(asked) + 1 /\ Len(asked) \in Nat
      /\ \A n \in Calls : asked'[n] = asked[n]
      /\ asked'[Len(asked')].id = rid[t]
      /\ asked'[Len(asked')].run = session
  BY AskAdds
<1>2. /\ Calls \subseteq Calls' /\ Len(asked') \in Calls'
      /\ Len(asked') \notin Calls /\ Len(asked') # 0
  BY <1>1 DEF Calls
<1>3. /\ rid[t] # 0 /\ FillId(t)
      /\ UNCHANGED <<session, slot, early, unsent>>
      /\ waiting' = [waiting EXCEPT ![t] = Len(asked')]
      /\ rid' = [rid EXCEPT ![t] = 0]
  BY DEF Ask, FillId, returns
<1>4. /\ waiting'[t] = Len(asked')
      /\ \A u \in Tasks : u # t => waiting'[u] = waiting[u]
  BY <1>3 DEF AskedInv
<1>5. /\ slot[t] \in Slots
      /\ s_pending' = [s \in Slots |-> s_pending'[s]]
      /\ s_pending'[slot[t]] = rid[t]
      /\ \A s \in Slots : s # slot[t] => s_pending'[s] = s_pending[s]
      /\ \A u \in Tasks : u # t => rid'[u] = rid[u]
  BY <1>3, SlotFilled
<1>6. slot[t] # None
  BY <1>5, SlotsAreNot
<1>7. ASSUME NEW u \in Tasks, u # t, waiting[u] # 0
      PROVE  s_pending'[slot[u]] = asked'[waiting[u]].id
  <2>1. slot[u] \in Slots /\ slot[u] # slot[t]
    BY <1>6, <1>7 DEF SlotInv
  <2>2. waiting[u] \in Calls
    BY <1>7 DEF AskedInv
  <2> QED
    BY <1>1, <1>5, <1>7, <2>1, <2>2 DEF SlotInv
<1>8. SlotInv'
  <2>1. \A u \in Tasks : waiting'[u] # 0 =>
          s_pending'[slot[u]] = asked'[waiting'[u]].id
    BY <1>1, <1>4, <1>5, <1>7
  <2>2. \A u \in Tasks : slot[u] = None => waiting'[u] = 0 /\ rid'[u] = 0
    BY <1>4, <1>5, <1>6 DEF SlotInv
  <2> QED
    BY <1>3, <1>5, <2>1, <2>2 DEF SlotInv
<1>9. ASSUME NEW s \in Slots
      PROVE  \/ s_pending'[s] = 0
             \/ <<session', s_pending'[s]>> \in unsent'
             \/ \E k \in Calls' : Owner(s, k)'
  <2>1. CASE s = slot[t]
    <3>1. \A u \in Tasks : waiting'[u] = Len(asked') => u = t
      BY <1>2, <1>4 DEF AskedInv
    <3>2. PICK c : c = Len(asked')
      OBVIOUS
    <3>3. Owner(s, c)'
      BY <1>1, <1>3, <1>5, <2>1, <3>1, <3>2 DEF Owner
    <3> QED
      BY <1>2, <3>2, <3>3
  <2>2. CASE s # slot[t]
    <3>1. s_pending'[s] = s_pending[s]
      BY <1>5, <2>2
    <3>2. ASSUME NEW k \in Calls, Owner(s, k) PROVE Owner(s, k)'
      <4>1. \A u \in Tasks : waiting'[u] = k => waiting[u] = k
        BY <1>2, <1>4
      <4> QED
        BY <1>1, <1>3, <3>1, <3>2, <4>1 DEF Owner
    <3> QED
      BY <1>2, <1>3, <3>1, <3>2 DEF TagInv
  <2> QED
    BY <2>1, <2>2
<1>10. TagInv'
  BY <1>9 DEF TagInv
<1> QED
  BY <1>8, <1>10

(* Whose id a slot bears changes when it is written only.                  *)
LEMMA TagKept ==
  ASSUME TagInv, UNCHANGED <<session, s_pending, asked>>,
         unsent \subseteq unsent',
         \A u \in Tasks : waiting'[u] # 0 =>
           waiting'[u] = waiting[u] /\ slot'[u] = slot[u]
  PROVE  TagInv'
<1>1. \A s, k : 0 # k /\ Owner(s, k) => Owner(s, k)'
  BY DEF Owner
<1>2. Calls' = Calls /\ 0 \notin Calls
  BY DEF Calls
<1> QED
  BY <1>1, <1>2 DEF TagInv

(* A task leaves its call.                                                 *)
LEMMA LeaveSlots ==
  ASSUME AskedInv, SlotInv, TagInv, NEW t \in Tasks, waiting[t] # 0, Leave(t),
         UNCHANGED <<session, rid, s_pending, unsent, asked>>
  PROVE  SlotInv' /\ TagInv'
<1>1. /\ waiting' = [waiting EXCEPT ![t] = 0]
      /\ slot' = [slot EXCEPT ![t] = None]
      /\ early' = [early EXCEPT ![t] = None]
  BY DEF Leave
<1>2. /\ slot' = [u \in Tasks |-> slot'[u]] /\ slot'[t] = None
      /\ \A u \in Tasks : u # t => slot'[u] = slot[u]
      /\ early' = [u \in Tasks |-> early'[u]]
  BY <1>1, SlotLeft
<1>3. /\ waiting'[t] = 0 /\ rid[t] = 0
      /\ \A u \in Tasks : u # t => waiting'[u] = waiting[u]
  BY <1>1 DEF AskedInv
<1>4. SlotInv'
  BY <1>2, <1>3 DEF SlotInv
<1>5. TagInv'
  BY <1>2, <1>3, TagKept
<1> QED
  BY <1>4, <1>5

(* A call takes a slot.                                                    *)
LEMMA BeginSlots ==
  ASSUME AskedInv, SlotInv, TagInv, NEW t \in Tasks, Begin(t)
  PROVE  SlotInv' /\ TagInv'
<1>1. /\ waiting[t] = 0 /\ rid[t] = 0
      /\ UNCHANGED <<waiting, session, s_pending, early, unsent, asked>>
  BY DEF Begin, sockets, returns, history
<1>2. CASE UNCHANGED <<rid, slot>>
  <2>1. SlotInv'
    BY <1>1, <1>2 DEF SlotInv
  <2> QED
    BY <1>1, <1>2, <2>1, TagKept
<1>3. CASE ~UNCHANGED <<rid, slot>>
  <2>1. PICK s \in FreeSlots : slot' = [slot EXCEPT ![t] = s]
    BY <1>3 DEF Begin
  <2>2. rid' = [rid EXCEPT ![t] = NextId]
    BY <1>3 DEF Begin
  <2>3. s \in Slots /\ \A u \in Tasks : slot[u] # s
    BY DEF FreeSlots
  <2>4. s # None
    BY <2>3, SlotsAreNot
  <2>5. PICK f, g, x : f = slot /\ g = rid /\ x = NextId
    OBVIOUS
  <2>6. f = [u \in Tasks |-> f[u]] /\ slot' = [f EXCEPT ![t] = s]
    BY <2>1, <2>5 DEF SlotInv
  <2>7. /\ slot' = [u \in Tasks |-> slot'[u]] /\ slot'[t] = s
        /\ \A u \in Tasks : u # t => slot'[u] = f[u]
    BY <2>6
  <2>8. rid' = [g EXCEPT ![t] = x]
    BY <2>2, <2>5
  <2>9. \A u \in Tasks : u # t => rid'[u] = g[u]
    <3>1. g = [u \in Tasks |-> g[u]]
      BY <2>5 DEF AskedInv
    <3> QED
      BY <2>8, <3>1
  <2>10. SlotInv'
    <3>1. \A u \in Tasks : slot'[u] \in Slots \cup {None}
      BY <2>3, <2>5, <2>7 DEF SlotInv
    <3>2. \A u \in Tasks : slot'[u] = None => waiting'[u] = 0 /\ rid'[u] = 0
      BY <1>1, <2>4, <2>5, <2>7, <2>9 DEF SlotInv
    <3>3. \A u, v \in Tasks : slot'[u] # None /\ slot'[u] = slot'[v] => u = v
      BY <2>3, <2>5, <2>7 DEF SlotInv
    <3>4. \A u \in Tasks : waiting'[u] # 0 =>
            s_pending'[slot'[u]] = asked'[waiting'[u]].id
      BY <1>1, <2>5, <2>7 DEF SlotInv
    <3>5. /\ early' = [u \in Tasks |-> early'[u]]
          /\ s_pending' = [i \in Slots |-> s_pending'[i]]
      BY <1>1 DEF SlotInv
    <3> QED
      BY <2>7, <3>1, <3>2, <3>3, <3>4, <3>5 DEF SlotInv
  <2>11. \A u \in Tasks : waiting'[u] # 0 => slot'[u] = slot[u]
    BY <1>1, <2>5, <2>7
  <2> QED
    BY <1>1, <2>10, <2>11, TagKept
<1> QED
  BY <1>2, <1>3

(* A call cannot be sent.                                                  *)
LEMMA SendFailsSlots ==
  ASSUME AskedInv, SlotInv, TagInv, NEW t \in Tasks, SendFails(t)
  PROVE  SlotInv' /\ TagInv'
<1>1. /\ rid[t] # 0 /\ FillId(t) /\ UNCHANGED <<waiting, session, asked>>
      /\ unsent' = unsent \cup {<<session, rid[t]>>}
      /\ slot' = [slot EXCEPT ![t] = None]
      /\ early' = [early EXCEPT ![t] = None]
      /\ rid' = [rid EXCEPT ![t] = 0]
  BY DEF SendFails, FillId, sockets, history
<1>2. waiting[t] = 0
  BY <1>1 DEF AskedInv
<1>3. /\ slot[t] \in Slots
      /\ s_pending' = [s \in Slots |-> s_pending'[s]]
      /\ s_pending'[slot[t]] = rid[t]
      /\ \A s \in Slots : s # slot[t] => s_pending'[s] = s_pending[s]
      /\ \A u \in Tasks : u # t => rid'[u] = rid[u]
  BY <1>1, SlotFilled
<1>4. /\ slot' = [u \in Tasks |-> slot'[u]] /\ slot'[t] = None
      /\ \A u \in Tasks : u # t => slot'[u] = slot[u]
      /\ early' = [u \in Tasks |-> early'[u]]
  BY <1>1, SlotLeft
<1>5. rid'[t] = 0
  <2>1. rid = [u \in Tasks |-> rid[u]]
    BY DEF AskedInv
  <2>2. PICK g : g = rid
    OBVIOUS
  <2>3. g = [u \in Tasks |-> g[u]] /\ rid' = [g EXCEPT ![t] = 0]
    BY <1>1, <2>1, <2>2
  <2> QED
    BY <2>3
<1>6. SlotInv'
  <2>1. ASSUME NEW u \in Tasks, waiting[u] # 0
        PROVE  s_pending'[slot'[u]] = asked[waiting[u]].id
    <3>1. u # t /\ slot'[u] = slot[u] /\ slot[u] # None
      BY <1>2, <1>4, <2>1 DEF SlotInv
    <3>2. slot[u] \in Slots /\ slot[u] # slot[t]
      BY <3>1 DEF SlotInv
    <3> QED
      BY <1>3, <2>1, <3>1, <3>2 DEF SlotInv
  <2>2. \A u \in Tasks : slot'[u] = None => waiting[u] = 0 /\ rid'[u] = 0
    BY <1>2, <1>3, <1>4, <1>5 DEF SlotInv
  <2> QED
    BY <1>1, <1>3, <1>4, <2>1, <2>2 DEF SlotInv
<1>7. ASSUME NEW s \in Slots
      PROVE  \/ s_pending'[s] = 0
             \/ <<session', s_pending'[s]>> \in unsent'
             \/ \E k \in Calls' : Owner(s, k)'
  <2>1. CASE s = slot[t]
    BY <1>1, <1>3, <2>1
  <2>2. CASE s # slot[t]
    <3>1. s_pending'[s] = s_pending[s]
      BY <1>3, <2>2
    <3>2. ASSUME NEW k \in Calls, Owner(s, k) PROVE Owner(s, k)'
      <4>1. \A u \in Tasks : waiting'[u] = k => slot'[u] = s
        BY <1>1, <1>2, <1>4, <3>2 DEF Owner, Calls
      <4> QED
        BY <1>1, <3>1, <3>2, <4>1 DEF Owner
    <3>3. Calls' = Calls
      BY <1>1 DEF Calls
    <3> QED
      BY <1>1, <3>1, <3>2, <3>3 DEF TagInv
  <2> QED
    BY <2>1, <2>2
<1> QED
  BY <1>6, <1>7 DEF TagInv

(* A call that is not yet sent is given an answer.                         *)
LEMMA SwallowedSlots ==
  ASSUME SlotInv, TagInv, Swallowed, UNCHANGED <<asked, session>>,
         UNCHANGED <<rid, s_pending, unsent>>
  PROVE  SlotInv' /\ TagInv'
<1>1. UNCHANGED <<waiting, slot>>
  BY DEF Swallowed
<1>2. early' = [t \in Tasks |-> early'[t]]
  <2>1. PICK f, r : f = early /\ r = Head(outbox)
    OBVIOUS
  <2>2. f = [t \in Tasks |-> f[t]]
    BY <2>1 DEF SlotInv
  <2>3. early' = f \/ \E t \in Tasks : early' = [f EXCEPT ![t] = r]
    BY <2>1 DEF Swallowed, TakesEarly
  <2> QED
    BY <2>2, <2>3
<1>3. SlotInv'
  BY <1>1, <1>2 DEF SlotInv
<1> QED
  BY <1>1, <1>3, TagKept

(* All slots are free again.                                               *)
LEMMA RestartSlots ==
  ASSUME Restart
  PROVE  SlotInv' /\ TagInv'
<1>1. /\ rid' = [t \in Tasks |-> 0] /\ waiting' = [t \in Tasks |-> 0]
      /\ slot' = [t \in Tasks |-> None] /\ early' = [t \in Tasks |-> None]
      /\ s_pending' = [s \in Slots |-> 0]
  BY DEF Restart
<1> QED
  BY <1>1 DEF SlotInv, TagInv

(* The inductive step of both.                                             *)
LEMMA SlotStep ==
  AskedInv /\ SlotInv /\ TagInv /\ [Next]_vars => SlotInv' /\ TagInv'
<1> SUFFICES ASSUME AskedInv, SlotInv, TagInv, [Next]_vars
             PROVE  SlotInv' /\ TagInv'
  OBVIOUS
<1>1. ASSUME NEW t \in Tasks,
             \/ Create(t) \/ Send(t) \/ Recv(t) \/ Close(t)
             \/ \E s \in Servers : Connect(t, s)
      PROVE  SlotInv' /\ TagInv'
  BY <1>1, AskSlots DEF Create, Send, Recv, Close, Connect
<1>2. ASSUME UNCHANGED <<firmware, asked>>
      PROVE  SlotInv' /\ TagInv'
  <2>1. /\ UNCHANGED <<rid, waiting, slot, early, s_pending, asked>>
        /\ UNCHANGED <<session, unsent>>
    BY <1>2 DEF firmware
  <2>2. SlotInv'
    BY <2>1 DEF SlotInv
  <2> QED
    BY <2>1, <2>2, TagKept
<1>3. CASE Worker
  BY <1>2, <1>3 DEF Worker, DispatchCreate, DispatchSend, DispatchClose,
                    DispatchJob, DispatchFinished, Dispatch
<1>4. CASE NetThread
  BY <1>2, <1>4 DEF NetThread, TakeJob, Resolve, Select, StartRecv, EndRecv,
                    NetStep, history
<1>5. ASSUME NEW k, DataArrives(k) PROVE SlotInv' /\ TagInv'
  BY <1>2, <1>5 DEF DataArrives, history
<1>6. CASE UNCHANGED vars
  BY <1>2, <1>6 DEF vars, history
<1>7. ASSUME NEW t \in Tasks, GiveUp(t) \/ WakeEarly(t)
      PROVE  SlotInv' /\ TagInv'
  <2>1. /\ waiting[t] # 0 /\ Leave(t)
        /\ UNCHANGED <<session, rid, s_pending, unsent, asked>>
    BY <1>7, WakeEarlyDoes DEF GiveUp, ReturnWith, returns
  <2> QED
    BY <2>1, LeaveSlots
<1>8. CASE Deliver
  <2>1. UNCHANGED <<session, rid, s_pending, unsent, asked>>
    BY <1>8, DeliverDoes
  <2>2. CASE Swallowed
    BY <2>1, <2>2, SwallowedSlots
  <2>3. ASSUME NEW t \in Tasks, Takes(t), ReturnWith(t, Head(outbox))
        PROVE  SlotInv' /\ TagInv'
    <3>1. waiting[t] # 0 /\ Leave(t)
      BY <2>3 DEF Takes, ReturnWith
    <3> QED
      BY <2>1, <3>1, LeaveSlots
  <2> QED
    BY <1>8, <2>2, <2>3, DeliverDoes
<1> QED
  BY <1>1, <1>3, <1>4, <1>5, <1>6, <1>7, <1>8, RestartSlots, BeginSlots,
     SendFailsSlots DEF Next

-----------------------------------------------------------------------------
(* Where the calls are.                                                    *)

(* Whatever is queued or in work is a call that was asked, and a response  *)
(* carries the id of its call.                                             *)
PlacedInv ==
  /\ IsSeq(inbox) /\ \A i \in 1 .. Len(inbox) : inbox[i].n \in Calls
  /\ IsSeq(jobs) /\ \A i \in 1 .. Len(jobs) : jobs[i] \in Calls
  /\ job # None => job.n \in Calls
  /\ IsSeq(outbox)
  /\ \A i \in 1 .. Len(outbox) :
       /\ outbox[i].n \in Calls
       /\ outbox[i].id = asked[outbox[i].n].id

(* A queue that only holds calls.                                          *)
LEMMA TailPlaced ==
  ASSUME NEW q, IsSeq(q), q # <<>>
  PROVE  /\ IsSeq(Tail(q)) /\ 1 \in 1 .. Len(q) /\ Head(q) = q[1]
         /\ \A i \in 1 .. Len(Tail(q)) :
              \E j \in 1 .. Len(q) : Tail(q)[i] = q[j]
<1>1. /\ IsSeq(Tail(q)) /\ Len(q) \in Nat \ {0}
      /\ Len(Tail(q)) = Len(q) - 1 /\ Head(q) = q[1]
      /\ \A i \in 1 .. Len(q) - 1 : Tail(q)[i] = q[i + 1]
  BY TailOfSeq
<1>2. ASSUME NEW i \in 1 .. Len(Tail(q))
      PROVE  \E j \in 1 .. Len(q) : Tail(q)[i] = q[j]
  <2>1. i + 1 \in 1 .. Len(q) /\ Tail(q)[i] = q[i + 1]
    BY <1>1
  <2> QED
    BY <2>1
<1> QED
  BY <1>1, <1>2

(* What is in a queue after an Append was in it or is the new element.     *)
LEMMA AppendPlaced ==
  ASSUME NEW q, IsSeq(q), NEW e
  PROVE  /\ IsSeq(Append(q, e))
         /\ \A i \in 1 .. Len(Append(q, e)) :
              \/ Append(q, e)[i] = e
              \/ i \in 1 .. Len(q) /\ Append(q, e)[i] = q[i]
BY AppendToSeq

(* The queue of the worker loses its head.                                 *)
LEMMA InboxShorter ==
  ASSUME PlacedInv, inbox # <<>>, inbox' = Tail(inbox), UNCHANGED asked
  PROVE  /\ IsSeq(inbox') /\ \A i \in 1 .. Len(inbox') : inbox'[i].n \in Calls'
         /\ Head(inbox).n \in Calls
BY TailPlaced DEF PlacedInv, Calls

(* The queue of the worker gets what the network thread has finished.      *)
LEMMA InboxLonger ==
  ASSUME PlacedInv, NEW e, e.n \in Calls, inbox' = Append(inbox, e),
         UNCHANGED asked
  PROVE  /\ IsSeq(inbox')
         /\ \A i \in 1 .. Len(inbox') : inbox'[i].n \in Calls'
BY AppendPlaced DEF PlacedInv, Calls

(* A response with its call's id is posted.                                *)
LEMMA PostKeeps ==
  ASSUME PlacedInv, NEW n \in Calls, NEW id, id = asked[n].id, NEW sock,
         NEW ret, Post(n, id, sock, ret), UNCHANGED asked
  PROVE  /\ IsSeq(outbox')
         /\ \A i \in 1 .. Len(outbox') :
              /\ outbox'[i].n \in Calls'
              /\ outbox'[i].id = asked'[outbox'[i].n].id
<1>1. PICK e : e = [n |-> n, id |-> id, sock |-> sock, ret |-> ret]
  OBVIOUS
<1>2. e.n = n /\ e.id = id
  BY <1>1
<1>3. outbox' = Append(outbox, e)
  BY <1>1 DEF Post
<1> QED
  BY <1>2, <1>3, AppendPlaced DEF PlacedInv, Calls

(* A new call is in the queue of the worker.                               *)
LEMMA AskPlaces ==
  ASSUME AskedInv, PlacedInv, NEW t \in Tasks, NEW op, NEW server,
         Ask(t, op, server)
  PROVE  PlacedInv'
<1>1. /\ Len(asked') = Len(asked) + 1 /\ Len(asked) \in Nat
      /\ \A n \in Calls : asked'[n] = asked[n]
  BY AskAdds
<1>2. Calls \subseteq Calls' /\ Len(asked') \in Calls'
  BY <1>1 DEF Calls
<1>3. UNCHANGED <<jobs, job, outbox>>
  BY DEF Ask, network
<1>4. PICK e : e = [kind |-> "request", n |-> Len(asked')]
  OBVIOUS
<1>5. e.n = Len(asked') /\ inbox' = Append(inbox, e)
  BY <1>4 DEF Ask
<1>6. IsSeq(inbox') /\ \A i \in 1 .. Len(inbox') : inbox'[i].n \in Calls'
  BY <1>2, <1>5, AppendPlaced DEF PlacedInv
<1> QED
  BY <1>1, <1>2, <1>3, <1>6 DEF PlacedInv

(* The inductive step of PlacedInv.                                        *)
LEMMA PlacedStep == AskedInv /\ PlacedInv /\ [Next]_vars => PlacedInv'
<1> SUFFICES ASSUME AskedInv, PlacedInv, [Next]_vars PROVE PlacedInv'
  OBVIOUS
<1>1. ASSUME NEW t \in Tasks,
             \/ Create(t) \/ Send(t) \/ Recv(t) \/ Close(t)
             \/ \E s \in Servers : Connect(t, s)
      PROVE  PlacedInv'
  BY <1>1, AskPlaces DEF Create, Send, Recv, Close, Connect
<1>2. ASSUME UNCHANGED <<asked, inbox, jobs, job, outbox>>
      PROVE  PlacedInv'
  BY <1>2 DEF PlacedInv, Calls
<1>3. ASSUME NEW t \in Tasks, Quiet(t) PROVE PlacedInv'
  BY <1>2, <1>3, QuietSteps
<1>4. CASE Restart
  BY <1>2, <1>4 DEF Restart, network
<1>5. CASE Deliver
  <2>1. outbox # <<>> /\ outbox' = Tail(outbox)
        /\ UNCHANGED <<asked, inbox, jobs, job>>
    BY <1>5, DeliverDoes
  <2> QED
    BY <2>1, TailPlaced DEF PlacedInv, Calls
<1>6. ASSUME NEW op, Dispatch(op)
      PROVE  /\ inbox # <<>> /\ inbox' = Tail(inbox)
             /\ UNCHANGED <<asked, job>>
             /\ currentId' = asked[Head(inbox).n].id
  BY <1>6 DEF Dispatch
<1>7. CASE DispatchCreate \/ DispatchSend \/ DispatchClose
  <2>1. /\ inbox # <<>> /\ inbox' = Tail(inbox)
        /\ UNCHANGED <<asked, job, jobs>>
        /\ currentId' = asked[Head(inbox).n].id
    BY <1>6, <1>7 DEF DispatchCreate, DispatchSend, DispatchClose
  <2>2. \E sock, ret : Post(Head(inbox).n, currentId', sock, ret)
    BY <1>7 DEF DispatchCreate, DispatchSend, DispatchClose
  <2> QED
    BY <2>1, <2>2, InboxShorter, PostKeeps DEF PlacedInv, Calls
<1>8. CASE DispatchJob
  <2>1. /\ inbox # <<>> /\ inbox' = Tail(inbox)
        /\ UNCHANGED <<asked, job, outbox>>
        /\ jobs' = Append(jobs, Head(inbox).n)
    BY <1>6, <1>8 DEF DispatchJob
  <2> QED
    BY <2>1, InboxShorter, AppendPlaced DEF PlacedInv, Calls
<1>9. CASE DispatchFinished
  <2>1. /\ inbox # <<>> /\ inbox' = Tail(inbox)
        /\ UNCHANGED <<asked, job, jobs>>
        /\ currentId' = asked[Head(inbox).n].id
    BY <1>9 DEF DispatchFinished, FinishedId, network
  <2>2. \E sock, ret : Post(Head(inbox).n, currentId', sock, ret)
    BY <1>9 DEF DispatchFinished
  <2> QED
    BY <2>1, <2>2, InboxShorter, PostKeeps DEF PlacedInv, Calls
<1>10. CASE TakeJob
  <2>1. jobs # <<>> /\ jobs' = Tail(jobs) /\ UNCHANGED <<asked, outbox>>
    BY <1>10 DEF TakeJob, history
  <2>2. Head(jobs) \in Calls
    BY <2>1, TailPlaced DEF PlacedInv
  <2>3. IsSeq(jobs') /\ \A i \in 1 .. Len(jobs') : jobs'[i] \in Calls'
    BY <2>1, TailPlaced DEF PlacedInv, Calls
  <2>4. CASE HasCtx(asked[Head(jobs)].sock)
    <3>1. job'.n = Head(jobs) /\ inbox' = inbox
      BY <1>10, <2>4 DEF TakeJob
    <3> QED
      BY <2>1, <2>2, <2>3, <3>1 DEF PlacedInv, Calls
  <2>5. CASE ~HasCtx(asked[Head(jobs)].sock)
    <3>1. PICK e : e = [kind |-> "finished", n |-> Head(jobs), ret |-> -1]
      OBVIOUS
    <3>2. e.n = Head(jobs) /\ inbox' = Append(inbox, e) /\ job' = job
      BY <1>10, <2>5, <3>1 DEF TakeJob
    <3>3. /\ IsSeq(inbox')
          /\ \A i \in 1 .. Len(inbox') : inbox'[i].n \in Calls'
      BY <2>1, <2>2, <3>2, InboxLonger
    <3> QED
      BY <2>1, <2>3, <3>2, <3>3 DEF PlacedInv, Calls
  <2> QED
    BY <2>4, <2>5
<1>11. CASE Resolve \/ Select \/ StartRecv \/ EndRecv
  <2>1. job # None /\ UNCHANGED <<asked, outbox, jobs>>
    BY <1>11 DEF Resolve, Select, StartRecv, EndRecv, NetStep, history
  <2>2. ASSUME NEW ret, Finish(ret) PROVE PlacedInv'
    <3>1. PICK e : e = [kind |-> "finished", n |-> job.n, ret |-> ret]
      OBVIOUS
    <3>2. e.n = job.n /\ inbox' = Append(inbox, e) /\ job' = None
      BY <2>2, <3>1 DEF Finish
    <3>3. job.n \in Calls
      BY <2>1 DEF PlacedInv
    <3>4. /\ IsSeq(inbox')
          /\ \A i \in 1 .. Len(inbox') : inbox'[i].n \in Calls'
      BY <2>1, <3>2, <3>3, InboxLonger
    <3> QED
      BY <2>1, <3>2, <3>4 DEF PlacedInv, Calls
  <2>3. ASSUME inbox' = inbox, job'.n = job.n PROVE PlacedInv'
    BY <2>1, <2>3 DEF PlacedInv, Calls
  <2>4. ASSUME NEW pc, job' = [job EXCEPT !.pc = pc] PROVE job'.n = job.n
    BY <2>4
  <2>5. ASSUME NEW pc, NEW raw, job' = [job EXCEPT !.pc = pc, !.raw = raw]
        PROVE  job'.n = job.n
    BY <2>5
  <2>6. CASE Resolve
    BY <2>2, <2>3, <2>4, <2>6 DEF Resolve
  <2>7. CASE Select \/ EndRecv
    BY <2>2, <2>7 DEF Select, EndRecv
  <2>8. CASE StartRecv
    BY <2>2, <2>3, <2>5, <2>8 DEF StartRecv
  <2> QED
    BY <1>11, <2>6, <2>7, <2>8
<1>12. ASSUME NEW k, DataArrives(k) PROVE PlacedInv'
  BY <1>2, <1>12 DEF DataArrives, network, history
<1>13. CASE UNCHANGED vars
  BY <1>2, <1>13 DEF vars, network, history
<1> QED
  BY <1>1, <1>3, <1>4, <1>5, <1>7, <1>8, <1>9, <1>10, <1>11, <1>12, <1>13
  DEF Next, Quiet, Worker, NetThread

-----------------------------------------------------------------------------
(* The table of sockets.                                                   *)

IsSocket(s) ==
  \E o, p, d : s = [open |-> o, peer |-> p, data |-> d]

(* The entries in use and the open sockets are one to one.                 *)
TableInv ==
  /\ s_net_ctx \in [Handles -> [in_use : BOOLEAN, raw_sock : Nat]]
  /\ IsSeq(os) /\ \A k \in 1 .. Len(os) : IsSocket(os[k])
  /\ \A h \in Handles : s_net_ctx[h].in_use =>
       /\ s_net_ctx[h].raw_sock \in 1 .. Len(os)
       /\ os[s_net_ctx[h].raw_sock].open
  /\ \A h \in Handles : ~s_net_ctx[h].in_use => s_net_ctx[h].raw_sock = 0
  /\ \A g, h \in Handles :
       /\ s_net_ctx[g].in_use /\ s_net_ctx[h].in_use
       /\ s_net_ctx[g].raw_sock = s_net_ctx[h].raw_sock
       => g = h
  /\ \A k \in 1 .. Len(os) : os[k].open =>
       \E h \in Handles : s_net_ctx[h].in_use /\ s_net_ctx[h].raw_sock = k

(* The network thread works on a handle of the table, and receives on a    *)
(* socket that was opened.                                                 *)
JobInv ==
  /\ job \in Job \cup {None}
  /\ job # None => asked[job.n].sock \in Handles
  /\ job # None /\ job.pc = "receiving" => job.raw \in 1 .. Len(os)

(* A record of a socket's fields is a socket.                              *)
LEMMA SocketIs ==
  ASSUME NEW o, NEW p, NEW d, NEW e, e = [open |-> o, peer |-> p, data |-> d]
  PROVE  IsSocket(e) /\ e.open = o
<1>1. IsSocket(e)
  BY Zenon DEF IsSocket
<1>2. e.open = o
  OBVIOUS
<1> QED
  BY <1>1, <1>2

(* Closing a socket changes that field.                                    *)
LEMMA SocketOpen ==
  ASSUME NEW k, NEW o, NEW p, NEW d,
         os[k] = [open |-> o, peer |-> p, data |-> d],
         NEW y, NEW e, e = [open |-> y, peer |-> p, data |-> d]
  PROVE  [os[k] EXCEPT !.open = y] = e
OBVIOUS

(* It replaces the socket by another.                                      *)
LEMMA SocketReplaced ==
  ASSUME NEW k, NEW y, NEW e, [os[k] EXCEPT !.open = y] = e,
         os' = [os EXCEPT ![k].open = y]
  PROVE  os' = [os EXCEPT ![k] = e]
OBVIOUS

(* A step that opens and closes nothing leaves the table as it is.         *)
LEMMA SocketWritten ==
  ASSUME TableInv, NEW k \in 1 .. Len(os), NEW e, IsSocket(e),
         e.open = os[k].open, os' = [os EXCEPT ![k] = e],
         s_net_ctx' = s_net_ctx
  PROVE  TableInv' /\ Len(os') = Len(os)
<1>1. /\ IsSeq(os') /\ Len(os') = Len(os)
      /\ os'[k] = e /\ \A i \in 1 .. Len(os) : i # k => os'[i] = os[i]
  <2>1. IsUpdate(os', os, k, e)
    BY DEF IsUpdate
  <2> QED
    BY <2>1, ExceptOfSeq DEF TableInv
<1>2. /\ \A i \in 1 .. Len(os) : os'[i].open = os[i].open
      /\ \A i \in 1 .. Len(os) : IsSocket(os'[i])
  BY <1>1 DEF TableInv
<1>3. \A i \in 1 .. Len(os) : IsSocket(os[i])'
  BY <1>1, <1>2 DEF IsSocket
<1> QED
  BY <1>1, <1>2, <1>3 DEF TableInv

(* Peer and data of a socket may change.                                   *)
LEMMA SocketFields ==
  ASSUME TableInv, NEW k \in 1 .. Len(os), NEW x,
         \/ os' = [os EXCEPT ![k].peer = x]
         \/ os' = [os EXCEPT ![k].data = x],
         s_net_ctx' = s_net_ctx
  PROVE  TableInv' /\ Len(os') = Len(os)
<1>1. PICK o, p, d : os[k] = [open |-> o, peer |-> p, data |-> d]
  BY DEF TableInv, IsSocket
<1>2. CASE os' = [os EXCEPT ![k].peer = x]
  <2>1. PICK e : e = [open |-> o, peer |-> x, data |-> d]
    OBVIOUS
  <2>2. os' = [os EXCEPT ![k] = e]
    <3>1. [os[k] EXCEPT !.peer = x] = e
      BY <1>1, <2>1
    <3> QED
      BY <1>2, <3>1
  <2>3. IsSocket(e) /\ e.open = os[k].open
    BY <1>1, <2>1, SocketIs
  <2> QED
    BY <2>2, <2>3, SocketWritten
<1>3. CASE os' = [os EXCEPT ![k].data = x]
  <2>1. PICK e : e = [open |-> o, peer |-> p, data |-> x]
    OBVIOUS
  <2>2. os' = [os EXCEPT ![k] = e]
    <3>1. [os[k] EXCEPT !.data = x] = e
      BY <1>1, <2>1
    <3> QED
      BY <1>3, <3>1
  <2>3. IsSocket(e) /\ e.open = os[k].open
    BY <1>1, <2>1, SocketIs
  <2> QED
    BY <2>2, <2>3, SocketWritten
<1> QED
  BY <1>2, <1>3

(* A socket is created in a free entry.                                    *)
LEMMA CreateKeepsTable ==
  ASSUME TableInv, DispatchCreate
  PROVE  TableInv' /\ Len(os') >= Len(os)
<1>0. Len(os) \in Nat
  BY AppendToSeq DEF TableInv
<1>1. CASE UNCHANGED table
  BY <1>0, <1>1 DEF table, TableInv
<1>2. CASE ~UNCHANGED table
  <2>1. PICK h \in Free :
          /\ os' = Append(os, [open |-> TRUE, peer |-> None, data |-> FALSE])
          /\ s_net_ctx' = [s_net_ctx EXCEPT
                             ![h] = [in_use |-> TRUE, raw_sock |-> Len(os')]]
    BY <1>2 DEF DispatchCreate
  <2>2. PICK e : e = [open |-> TRUE, peer |-> None, data |-> FALSE]
    OBVIOUS
  <2>3. /\ IsSeq(os') /\ Len(os') = Len(os) + 1
        /\ \A i \in 1 .. Len(os) : os'[i] = os[i]
        /\ os'[Len(os')] = e
    BY <2>1, <2>2, AppendToSeq DEF TableInv
  <2>4. e.open /\ IsSocket(e)
    BY <2>2 DEF IsSocket
  <2>5. /\ \A i \in 1 .. Len(os') : i \in 1 .. Len(os) \/ i = Len(os')
        /\ Len(os') \in 1 .. Len(os') /\ Len(os') \notin 1 .. Len(os)
        /\ Len(os') \in Nat
    BY <1>0, <2>3
  <2>6. \A i \in 1 .. Len(os') : IsSocket(os[i])'
    <3>1. \A i \in 1 .. Len(os') : IsSocket(os'[i])
      BY <2>3, <2>4, <2>5 DEF TableInv
    <3> QED
      BY <3>1 DEF IsSocket
  <2>7. h \in Handles /\ ~s_net_ctx[h].in_use
    BY DEF Free
  <2>8. /\ s_net_ctx' \in [Handles -> [in_use : BOOLEAN, raw_sock : Nat]]
        /\ s_net_ctx'[h].in_use /\ s_net_ctx'[h].raw_sock = Len(os')
        /\ \A g \in Handles : g # h => s_net_ctx'[g] = s_net_ctx[g]
    BY <2>1, <2>5, <2>7 DEF TableInv
  <2>9. \A g \in Handles : s_net_ctx'[g].in_use =>
          /\ s_net_ctx'[g].raw_sock \in 1 .. Len(os')
          /\ os'[s_net_ctx'[g].raw_sock].open
    <3> SUFFICES ASSUME NEW g \in Handles, s_net_ctx'[g].in_use
                 PROVE  /\ s_net_ctx'[g].raw_sock \in 1 .. Len(os')
                        /\ os'[s_net_ctx'[g].raw_sock].open
      OBVIOUS
    <3>1. CASE g = h
      BY <2>3, <2>4, <2>5, <2>8, <3>1
    <3>2. CASE g # h
      <4> DEFINE k == s_net_ctx[g].raw_sock
      <4>1. s_net_ctx'[g] = s_net_ctx[g]
        BY <2>8, <3>2
      <4>2. k \in 1 .. Len(os) /\ os[k].open
        BY <4>1 DEF TableInv
      <4>3. k \in 1 .. Len(os') /\ os'[k] = os[k]
        BY <1>0, <2>3, <4>2
      <4> QED
        BY <4>1, <4>2, <4>3
    <3> QED
      BY <3>1, <3>2
  <2>10. \A f, g \in Handles :
           /\ s_net_ctx'[f].in_use /\ s_net_ctx'[g].in_use
           /\ s_net_ctx'[f].raw_sock = s_net_ctx'[g].raw_sock
           => f = g
    <3>1. \A g \in Handles : g # h /\ s_net_ctx'[g].in_use =>
            /\ s_net_ctx[g].in_use
            /\ s_net_ctx'[g].raw_sock = s_net_ctx[g].raw_sock
            /\ s_net_ctx[g].raw_sock \in 1 .. Len(os)
      BY <2>8 DEF TableInv
    <3>2. \A g \in Handles :
            g # h /\ s_net_ctx'[g].in_use
              => s_net_ctx'[g].raw_sock # s_net_ctx'[h].raw_sock
      BY <2>5, <2>8, <3>1
    <3> QED
      BY <3>1, <3>2 DEF TableInv
  <2>11. ASSUME NEW k \in 1 .. Len(os'), os'[k].open
         PROVE  \E g \in Handles : s_net_ctx'[g].in_use
                                   /\ s_net_ctx'[g].raw_sock = k
    <3>1. CASE k = Len(os')
      BY <2>7, <2>8, <3>1
    <3>2. CASE k \in 1 .. Len(os)
      <4>1. PICK g \in Handles : s_net_ctx[g].in_use
                                 /\ s_net_ctx[g].raw_sock = k
        BY <2>3, <2>11, <3>2 DEF TableInv
      <4> QED
        BY <2>7, <2>8, <4>1
    <3> QED
      BY <2>5, <3>1, <3>2
  <2>12. \A g \in Handles : ~s_net_ctx'[g].in_use
                             => s_net_ctx'[g].raw_sock = 0
    BY <2>8 DEF TableInv
  <2> QED
    BY <1>0, <2>3, <2>6, <2>8, <2>9, <2>10, <2>11, <2>12 DEF TableInv
<1> QED
  BY <1>1, <1>2

(* A socket is closed and its entry given back.                            *)
LEMMA CloseKeepsTable ==
  ASSUME TableInv, DispatchClose
  PROVE  TableInv' /\ Len(os') = Len(os)
<1>1. CASE UNCHANGED table
  BY <1>1 DEF table, TableInv
<1>2. CASE ~UNCHANGED table
  <2> DEFINE h == asked[Head(inbox).n].sock
             k == s_net_ctx[h].raw_sock
  <2>1. /\ HasCtx(h)
        /\ os' = [os EXCEPT ![k].open = FALSE]
        /\ s_net_ctx' = [s_net_ctx EXCEPT
             ![h] = [in_use |-> FALSE, raw_sock |-> INVALID_SOCKET]]
    BY <1>2 DEF DispatchClose
  <2>2. /\ h \in Handles /\ s_net_ctx[h].in_use
        /\ k \in 1 .. Len(os) /\ IsSocket(os[k])
    BY <2>1 DEF HasCtx, TableInv
  <2> HIDE DEF h
  <2>3. PICK o, p, d :
          os[k] = [open |-> o, peer |-> p, data |-> d]
    BY <2>2 DEF IsSocket
  <2>4. PICK y : ~y /\ os' = [os EXCEPT ![k].open = y]
    BY <2>1, Zenon
  <2> DEFINE e == [open |-> y, peer |-> p, data |-> d]
  <2>14. IsSocket(e) /\ ~e.open
    <3>1. IsSocket(e)
      BY Zenon DEF IsSocket
    <3>2. e.open = y
      OBVIOUS
    <3> QED
      BY <2>4, <3>1, <3>2, Zenon
  <2>15. [os[k] EXCEPT !.open = y] = e
    BY <2>3, SocketOpen
  <2> HIDE DEF e
  <2>5. os' = [os EXCEPT ![k] = e] /\ IsSocket(e) /\ ~e.open
    BY <2>4, <2>14, <2>15, SocketReplaced
  <2>6. /\ IsSeq(os') /\ Len(os') = Len(os)
        /\ os'[k] = e /\ \A i \in 1 .. Len(os) : i # k => os'[i] = os[i]
    <3>1. IsUpdate(os', os, k, e)
      BY <2>5 DEF IsUpdate
    <3> QED
      BY <2>2, <3>1, ExceptOfSeq DEF TableInv
  <2>7. \A i \in 1 .. Len(os') : IsSocket(os[i])'
    <3>1. \A i \in 1 .. Len(os') : IsSocket(os'[i])
      BY <2>5, <2>6 DEF TableInv
    <3> QED
      BY <3>1 DEF IsSocket
  <2>8. /\ s_net_ctx' \in [Handles -> [in_use : BOOLEAN, raw_sock : Nat]]
        /\ ~s_net_ctx'[h].in_use /\ s_net_ctx'[h].raw_sock = 0
        /\ \A g \in Handles : g # h => s_net_ctx'[g] = s_net_ctx[g]
    BY <2>1, <2>2 DEF TableInv, INVALID_SOCKET
  <2>9. \A g \in Handles : s_net_ctx'[g].in_use =>
          /\ g # h /\ s_net_ctx[g].in_use
          /\ s_net_ctx'[g].raw_sock = s_net_ctx[g].raw_sock
          /\ s_net_ctx[g].raw_sock # k
    BY <2>2, <2>8 DEF TableInv
  <2>10. \A g \in Handles : s_net_ctx'[g].in_use =>
           /\ s_net_ctx'[g].raw_sock \in 1 .. Len(os')
           /\ os'[s_net_ctx'[g].raw_sock].open
    BY <2>6, <2>9 DEF TableInv
  <2>11. \A f, g \in Handles :
           /\ s_net_ctx'[f].in_use /\ s_net_ctx'[g].in_use
           /\ s_net_ctx'[f].raw_sock = s_net_ctx'[g].raw_sock
           => f = g
    BY <2>9 DEF TableInv
  <2>12. \A i \in 1 .. Len(os') : os'[i].open =>
           \E g \in Handles : s_net_ctx'[g].in_use
                              /\ s_net_ctx'[g].raw_sock = i
    <3> SUFFICES ASSUME NEW i \in 1 .. Len(os'), os'[i].open
                 PROVE  \E g \in Handles : s_net_ctx'[g].in_use
                                           /\ s_net_ctx'[g].raw_sock = i
      OBVIOUS
    <3>1. i # k /\ os[i].open
      BY <2>5, <2>6
    <3>2. PICK g \in Handles : s_net_ctx[g].in_use
                               /\ s_net_ctx[g].raw_sock = i
      BY <2>6, <3>1 DEF TableInv
    <3> QED
      BY <2>8, <3>1, <3>2
  <2>13. \A g \in Handles : ~s_net_ctx'[g].in_use
                             => s_net_ctx'[g].raw_sock = 0
    BY <2>8 DEF TableInv
  <2> QED
    BY <2>6, <2>7, <2>8, <2>10, <2>11, <2>12, <2>13 DEF TableInv
<1> QED
  BY <1>1, <1>2

(* What a step of the network thread does to the table.                    *)
LEMMA NetThreadKeepsTable ==
  ASSUME TableInv, JobInv, NetThread
  PROVE  TableInv' /\ Len(os') = Len(os)
<1>1. ASSUME UNCHANGED table PROVE TableInv' /\ Len(os') = Len(os)
  BY <1>1 DEF table, TableInv
<1>2. CASE TakeJob \/ Select \/ StartRecv
  BY <1>1, <1>2 DEF TakeJob, Select, StartRecv, NetStep, table
<1>3. CASE Resolve
  <2>1. job # None /\ s_net_ctx' = s_net_ctx
    BY <1>3 DEF Resolve, NetStep
  <2>2. RawSock # 0 => RawSock \in 1 .. Len(os)
    BY <2>1 DEF RawSock, JobInv, TableInv
  <2>3. CASE os' = os
    BY <1>1, <2>1, <2>3 DEF table
  <2>4. CASE os' # os
    <3>1. /\ RawSock # 0
          /\ os' = [os EXCEPT ![RawSock].peer = asked[job.n].server]
      BY <1>3, <2>4 DEF Resolve, INVALID_SOCKET
    <3> QED
      BY <2>1, <2>2, <3>1, SocketFields
  <2> QED
    BY <2>3, <2>4
<1>4. CASE EndRecv
  <2>1. job # None /\ job.pc = "receiving" /\ s_net_ctx' = s_net_ctx
    BY <1>4 DEF EndRecv, NetStep
  <2>2. job.raw \in 1 .. Len(os)
    BY <2>1 DEF JobInv
  <2>3. CASE os' = os
    BY <1>1, <2>1, <2>3 DEF table
  <2>4. CASE os' = [os EXCEPT ![job.raw].data = FALSE]
    BY <2>1, <2>2, <2>4, SocketFields
  <2> QED
    BY <1>4, <2>3, <2>4 DEF EndRecv
<1> QED
  BY <1>2, <1>3, <1>4 DEF NetThread

(* The inductive step of TableInv; no step takes a socket away.            *)
LEMMA TableStep ==
  ASSUME TableInv, JobInv, [Next]_vars
  PROVE  TableInv' /\ Len(os') >= Len(os)
<1>0. Len(os) \in Nat
  BY AppendToSeq DEF TableInv
<1>1. ASSUME UNCHANGED table PROVE TableInv' /\ Len(os') = Len(os)
  BY <1>1 DEF table, TableInv
<1>2. ASSUME NEW t \in Tasks,
             \/ Create(t) \/ Send(t) \/ Recv(t) \/ Close(t)
             \/ \E s \in Servers : Connect(t, s)
             \/ Quiet(t)
      PROVE  UNCHANGED table
  BY <1>2, QuietSteps DEF Create, Send, Recv, Close, Connect, Ask, table
<1>3. CASE Deliver \/ Restart \/ UNCHANGED vars
  BY <1>0, <1>1, <1>3 DEF Deliver, Restart, vars
<1>4. CASE DispatchSend \/ DispatchJob \/ DispatchFinished
  BY <1>0, <1>1, <1>4 DEF DispatchSend, DispatchJob, DispatchFinished
<1>5. ASSUME NEW k \in DOMAIN os, DataArrives(k)
      PROVE  TableInv' /\ Len(os') = Len(os)
  <2>1. k \in 1 .. Len(os)
    BY DEF TableInv, IsSeq
  <2> QED
    BY <1>5, <2>1, SocketFields DEF DataArrives
<1> QED
  BY <1>0, <1>1, <1>2, <1>3, <1>4, <1>5, CreateKeepsTable, CloseKeepsTable,
     NetThreadKeepsTable DEF Next, Quiet, Worker

-----------------------------------------------------------------------------
(* One place for each request.                                             *)

InInbox(n) == \E i \in 1 .. Len(inbox) : inbox[i].n = n
InJobs(n)  == \E i \in 1 .. Len(jobs) : jobs[i] = n
InWork(n)  == job # None /\ job.n = n

(* A call that is not answered is in one of the three places, once; one    *)
(* that is answered is in none.                                            *)
OneInv ==
  /\ \A i, j \in 1 .. Len(inbox) : inbox[i].n = inbox[j].n => i = j
  /\ \A i, j \in 1 .. Len(jobs) : jobs[i] = jobs[j] => i = j
  /\ \A n \in Calls :
       InInbox(n) => ~InJobs(n) /\ ~InWork(n) /\ n \notin answered
  /\ \A n \in Calls : InJobs(n) => ~InWork(n) /\ n \notin answered
  /\ \A n \in Calls : InWork(n) => n \notin answered
  /\ \A n \in Calls : InInbox(n) \/ InJobs(n) \/ InWork(n) \/ n \in answered
  /\ answered \subseteq Calls

(* The worker takes its oldest event.                                      *)
LEMMA InboxTaken ==
  ASSUME PlacedInv, OneInv, inbox # <<>>, inbox' = Tail(inbox)
  PROVE  /\ Head(inbox).n \in Calls /\ InInbox(Head(inbox).n)
         /\ \A n : InInbox(n)' <=> InInbox(n) /\ n # Head(inbox).n
         /\ \A i, j \in 1 .. Len(inbox') : inbox'[i].n = inbox'[j].n => i = j
<1>1. /\ Len(inbox) \in Nat \ {0} /\ Len(inbox') = Len(inbox) - 1
      /\ Head(inbox) = inbox[1]
      /\ \A i \in 1 .. Len(inbox') : inbox'[i] = inbox[i + 1]
  BY TailOfSeq DEF PlacedInv
<1>2. InInbox(Head(inbox).n) /\ Head(inbox).n \in Calls
  BY <1>1 DEF InInbox, PlacedInv
<1>3. \A i, j \in 1 .. Len(inbox') : inbox'[i].n = inbox'[j].n => i = j
  <2> TAKE i, j \in 1 .. Len(inbox')
  <2>1. i + 1 \in 1 .. Len(inbox) /\ j + 1 \in 1 .. Len(inbox)
    BY <1>1
  <2>2. inbox'[i].n = inbox'[j].n => i + 1 = j + 1
    BY <1>1, <2>1 DEF OneInv
  <2> QED
    BY <1>1, <2>2
<1>4. ASSUME NEW n, InInbox(n)' PROVE InInbox(n) /\ n # Head(inbox).n
  <2>1. PICK i \in 1 .. Len(inbox') : inbox'[i].n = n
    BY <1>4 DEF InInbox
  <2>2. i + 1 \in 2 .. Len(inbox) /\ inbox[i + 1].n = n
    BY <1>1, <2>1
  <2>3. inbox[i + 1].n # inbox[1].n
    BY <1>1, <2>2 DEF OneInv
  <2> QED
    BY <1>1, <2>2, <2>3 DEF InInbox
<1>5. ASSUME NEW n, InInbox(n), n # Head(inbox).n PROVE InInbox(n)'
  <2>1. PICK i \in 1 .. Len(inbox) : inbox[i].n = n
    BY <1>5 DEF InInbox
  <2>2. i - 1 \in 1 .. Len(inbox') /\ inbox'[i - 1] = inbox[(i - 1) + 1]
    BY <1>1, <1>5, <2>1
  <2>3. (i - 1) + 1 = i
    BY <1>1, <2>1
  <2> QED
    BY <2>1, <2>2, <2>3 DEF InInbox
<1> QED
  BY <1>2, <1>3, <1>4, <1>5

(* The worker gets an event.                                               *)
LEMMA InboxGiven ==
  ASSUME PlacedInv, OneInv, NEW e, ~InInbox(e.n), inbox' = Append(inbox, e)
  PROVE  /\ \A n : InInbox(n)' <=> InInbox(n) \/ n = e.n
         /\ \A i, j \in 1 .. Len(inbox') : inbox'[i].n = inbox'[j].n => i = j
<1>1. /\ Len(inbox) \in Nat /\ Len(inbox') = Len(inbox) + 1
      /\ \A i \in 1 .. Len(inbox) : inbox'[i] = inbox[i]
      /\ inbox'[Len(inbox')] = e
  BY AppendToSeq DEF PlacedInv
<1>2. \A i \in 1 .. Len(inbox') : i \in 1 .. Len(inbox) \/ i = Len(inbox')
  BY <1>1
<1>3. \A i \in 1 .. Len(inbox) : inbox[i].n # e.n
  BY DEF InInbox
<1>4. ASSUME NEW n PROVE InInbox(n)' <=> InInbox(n) \/ n = e.n
  <2>1. InInbox(n)' => InInbox(n) \/ n = e.n
    BY <1>1, <1>2 DEF InInbox
  <2>2. InInbox(n) => InInbox(n)'
    BY <1>1 DEF InInbox
  <2>3. n = e.n => InInbox(n)'
    <3>1. Len(inbox') \in 1 .. Len(inbox')
      BY <1>1
    <3> QED
      BY <1>1, <3>1 DEF InInbox
  <2> QED
    BY <2>1, <2>2, <2>3
<1>5. \A i, j \in 1 .. Len(inbox') : inbox'[i].n = inbox'[j].n => i = j
  BY <1>1, <1>2, <1>3 DEF OneInv
<1> QED
  BY <1>4, <1>5

(* The network thread takes its oldest job.                                *)
LEMMA JobTaken ==
  ASSUME PlacedInv, OneInv, jobs # <<>>, jobs' = Tail(jobs)
  PROVE  /\ Head(jobs) \in Calls /\ InJobs(Head(jobs))
         /\ \A n : InJobs(n)' <=> InJobs(n) /\ n # Head(jobs)
         /\ \A i, j \in 1 .. Len(jobs') : jobs'[i] = jobs'[j] => i = j
<1>1. /\ Len(jobs) \in Nat \ {0} /\ Len(jobs') = Len(jobs) - 1
      /\ Head(jobs) = jobs[1]
      /\ \A i \in 1 .. Len(jobs') : jobs'[i] = jobs[i + 1]
  BY TailOfSeq DEF PlacedInv
<1>2. InJobs(Head(jobs)) /\ Head(jobs) \in Calls
  BY <1>1 DEF InJobs, PlacedInv
<1>3. \A i, j \in 1 .. Len(jobs') : jobs'[i] = jobs'[j] => i = j
  <2> TAKE i, j \in 1 .. Len(jobs')
  <2>1. i + 1 \in 1 .. Len(jobs) /\ j + 1 \in 1 .. Len(jobs)
    BY <1>1
  <2>2. jobs'[i] = jobs'[j] => i + 1 = j + 1
    BY <1>1, <2>1 DEF OneInv
  <2> QED
    BY <1>1, <2>2
<1>4. ASSUME NEW n, InJobs(n)' PROVE InJobs(n) /\ n # Head(jobs)
  <2>1. PICK i \in 1 .. Len(jobs') : jobs'[i] = n
    BY <1>4 DEF InJobs
  <2>2. i + 1 \in 2 .. Len(jobs) /\ jobs[i + 1] = n
    BY <1>1, <2>1
  <2>3. jobs[i + 1] # jobs[1]
    BY <1>1, <2>2 DEF OneInv
  <2> QED
    BY <1>1, <2>2, <2>3 DEF InJobs
<1>5. ASSUME NEW n, InJobs(n), n # Head(jobs) PROVE InJobs(n)'
  <2>1. PICK i \in 1 .. Len(jobs) : jobs[i] = n
    BY <1>5 DEF InJobs
  <2>2. i - 1 \in 1 .. Len(jobs') /\ jobs'[i - 1] = jobs[(i - 1) + 1]
    BY <1>1, <1>5, <2>1
  <2>3. (i - 1) + 1 = i
    BY <1>1, <2>1
  <2> QED
    BY <2>1, <2>2, <2>3 DEF InJobs
<1> QED
  BY <1>2, <1>3, <1>4, <1>5

(* The network thread gets a job.                                          *)
LEMMA JobGiven ==
  ASSUME PlacedInv, OneInv, NEW c, ~InJobs(c), jobs' = Append(jobs, c)
  PROVE  /\ \A n : InJobs(n)' <=> InJobs(n) \/ n = c
         /\ \A i, j \in 1 .. Len(jobs') : jobs'[i] = jobs'[j] => i = j
<1>1. /\ Len(jobs) \in Nat /\ Len(jobs') = Len(jobs) + 1
      /\ \A i \in 1 .. Len(jobs) : jobs'[i] = jobs[i]
      /\ jobs'[Len(jobs')] = c
  BY AppendToSeq DEF PlacedInv
<1>2. /\ \A i \in 1 .. Len(jobs') : i \in 1 .. Len(jobs) \/ i = Len(jobs')
      /\ Len(jobs') \in 1 .. Len(jobs')
  BY <1>1
<1>3. \A i \in 1 .. Len(jobs) : jobs[i] # c
  BY DEF InJobs
<1>4. \A n : InJobs(n)' <=> InJobs(n) \/ n = c
  BY <1>1, <1>2 DEF InJobs
<1>5. \A i, j \in 1 .. Len(jobs') : jobs'[i] = jobs'[j] => i = j
  BY <1>1, <1>2, <1>3 DEF OneInv
<1> QED
  BY <1>4, <1>5
-----------------------------------------------------------------------------
(* What the network thread is at.                                          *)

(* A step that leaves the job alone.                                       *)
LEMMA JobKept ==
  ASSUME PlacedInv, JobInv, job' = job, Len(os) \in Nat, Len(os') \in Nat,
         Len(os') >= Len(os), \A n \in Calls : asked'[n] = asked[n]
  PROVE  JobInv'
<1>1. job # None => asked'[job.n] = asked[job.n]
  BY DEF PlacedInv
<1> QED
  BY <1>1 DEF JobInv

(* The inductive step of JobInv.                                           *)
LEMMA JobStep ==
  ASSUME AskedInv, PlacedInv, TableInv, JobInv, [Next]_vars
  PROVE  JobInv'
<1>0. TableInv' /\ Len(os') >= Len(os)
  BY TableStep
<1>1. Len(os) \in Nat /\ Len(os') \in Nat
  BY <1>0, AppendToSeq DEF TableInv
<1>2. ASSUME job' = job, asked' = asked PROVE JobInv'
  BY <1>0, <1>1, <1>2, JobKept
<1>3. ASSUME NEW t \in Tasks,
             \/ Create(t) \/ Send(t) \/ Recv(t) \/ Close(t)
             \/ \E s \in Servers : Connect(t, s)
      PROVE  JobInv'
  <2>1. PICK op, server : Ask(t, op, server)
    BY <1>3 DEF Create, Send, Recv, Close, Connect
  <2>2. job' = job
    BY <2>1 DEF Ask, network
  <2> QED
    BY <1>0, <1>1, <2>1, <2>2, AskAdds, JobKept
<1>4. ASSUME NEW t \in Tasks, Quiet(t) PROVE JobInv'
  BY <1>2, <1>4, QuietSteps
<1>5. CASE Deliver \/ Restart \/ UNCHANGED vars
  BY <1>2, <1>5 DEF Deliver, Restart, vars, network, history
<1>6. CASE Worker
  BY <1>2, <1>6 DEF Worker, DispatchCreate, DispatchSend, DispatchClose,
                    DispatchJob, DispatchFinished, Dispatch, network
<1>7. ASSUME NEW k, DataArrives(k) PROVE JobInv'
  BY <1>2, <1>7 DEF DataArrives, network, history
<1>8. CASE TakeJob
  <2>1. jobs # <<>> /\ asked' = asked /\ os' = os
    BY <1>8 DEF TakeJob, table, history
  <2>2. CASE HasCtx(asked[Head(jobs)].sock)
    <3>1. job' = [n |-> Head(jobs), raw |-> INVALID_SOCKET,
                  pc |-> IF asked[Head(jobs)].op = "connect"
                         THEN "resolve" ELSE "recv"]
      BY <1>8, <2>2 DEF TakeJob
    <3>2. Head(jobs) \in Nat
      BY <2>1, TailPlaced DEF PlacedInv, Calls
    <3>3. job' \in Job /\ job'.n = Head(jobs) /\ job'.pc # "receiving"
      BY <3>1, <3>2 DEF Job, INVALID_SOCKET
    <3> QED
      BY <2>1, <2>2, <3>3 DEF JobInv, HasCtx
  <2>3. CASE ~HasCtx(asked[Head(jobs)].sock)
    BY <1>2, <1>8, <2>1, <2>3 DEF TakeJob
  <2> QED
    BY <2>2, <2>3
<1>9. CASE Resolve \/ Select \/ StartRecv \/ EndRecv
  <2>1. job # None /\ asked' = asked
    BY <1>9 DEF Resolve, Select, StartRecv, EndRecv, NetStep, history
  <2>2. job \in Job /\ asked[job.n].sock \in Handles
    BY <2>1 DEF JobInv
  <2>3. ASSUME NEW ret, Finish(ret) PROVE JobInv'
    BY <2>3 DEF Finish, JobInv
  <2>4. CASE job' = [job EXCEPT !.pc = "select"]
    <3>1. job' \in Job /\ job'.n = job.n /\ job'.pc # "receiving"
      BY <2>2, <2>4 DEF Job
    <3> QED
      BY <2>1, <2>2, <3>1 DEF JobInv
  <2>5. CASE Resolve
    BY <2>3, <2>4, <2>5 DEF Resolve
  <2>6. CASE Select \/ EndRecv
    BY <2>3, <2>6 DEF Select, EndRecv
  <2>7. CASE StartRecv
    <3>1. RawSock \in Nat /\ (RawSock # 0 => RawSock \in 1 .. Len(os))
      BY <2>2 DEF RawSock, TableInv
    <3>2. CASE RawSock = INVALID_SOCKET
      BY <2>3, <2>7, <3>2 DEF StartRecv
    <3>3. CASE RawSock # INVALID_SOCKET
      <4> DEFINE r == RawSock
      <4>1. job' = [job EXCEPT !.pc = "receiving", !.raw = r] /\ os' = os
        BY <2>7, <3>3 DEF StartRecv
      <4>2. r \in Nat /\ r \in 1 .. Len(os)
        BY <3>1, <3>3 DEF INVALID_SOCKET
      <4> HIDE DEF r
      <4>3. job' \in Job /\ job'.n = job.n /\ job'.raw = r
        BY <2>2, <4>1, <4>2 DEF Job
      <4> QED
        BY <2>1, <2>2, <4>1, <4>2, <4>3 DEF JobInv
    <3> QED
      BY <3>2, <3>3
  <2> QED
    BY <1>9, <2>5, <2>6, <2>7
<1> QED
  BY <1>3, <1>4, <1>5, <1>6, <1>7, <1>8, <1>9 DEF Next, Quiet, NetThread

-----------------------------------------------------------------------------
(* How a request moves.                                                    *)

(* A call is asked for: it is in the inbox.                                *)
LEMMA OneAsked ==
  ASSUME AskedInv, PlacedInv, OneInv, NEW t \in Tasks, NEW op, NEW server,
         Ask(t, op, server)
  PROVE  OneInv'
<1> DEFINE c == Len(asked')
<1>1. Calls' = Calls \cup {c} /\ c \notin Calls
  BY AskAdds DEF Calls
<1>2. ~InInbox(c) /\ ~InJobs(c) /\ ~InWork(c) /\ c \notin answered
  BY <1>1 DEF InInbox, InJobs, InWork, PlacedInv, OneInv
<1>3. UNCHANGED <<jobs, job, answered>>
  BY DEF Ask, network
<1>4. PICK e : e = [kind |-> "request", n |-> c]
  OBVIOUS
<1>5. e.n = c /\ inbox' = Append(inbox, e)
  BY <1>4 DEF Ask
<1> HIDE DEF c
<1>6. /\ \A n : InInbox(n)' <=> InInbox(n) \/ n = c
      /\ \A i, j \in 1 .. Len(inbox') : inbox'[i].n = inbox'[j].n => i = j
  BY <1>2, <1>5, InboxGiven
<1>7. \A n : (InJobs(n)' <=> InJobs(n)) /\ (InWork(n)' <=> InWork(n))
  BY <1>3 DEF InJobs, InWork
<1> QED
  BY <1>1, <1>2, <1>3, <1>6, <1>7 DEF OneInv

(* An event is answered.                                                   *)
LEMMA OneAnswered ==
  ASSUME PlacedInv, OneInv, inbox # <<>>, inbox' = Tail(inbox),
         answered' = answered \cup {Head(inbox).n},
         UNCHANGED <<asked, jobs, job>>
  PROVE  OneInv'
<1> DEFINE c == Head(inbox).n
<1>1. /\ c \in Calls /\ InInbox(c)
      /\ \A n : InInbox(n)' <=> InInbox(n) /\ n # c
      /\ \A i, j \in 1 .. Len(inbox') : inbox'[i].n = inbox'[j].n => i = j
  BY InboxTaken
<1>2. \A n : (InJobs(n)' <=> InJobs(n)) /\ (InWork(n)' <=> InWork(n))
  BY DEF InJobs, InWork
<1>3. Calls' = Calls /\ answered' = answered \cup {c}
  BY DEF Calls
<1> HIDE DEF c
<1> QED
  BY <1>1, <1>2, <1>3 DEF OneInv

(* A request becomes a job.                                                *)
LEMMA OneQueued ==
  ASSUME PlacedInv, OneInv, DispatchJob
  PROVE  OneInv'
<1> DEFINE c == Head(inbox).n
<1>1. /\ inbox # <<>> /\ inbox' = Tail(inbox) /\ jobs' = Append(jobs, c)
      /\ UNCHANGED <<asked, job, answered>>
  BY DEF DispatchJob, Dispatch
<1>2. /\ c \in Calls /\ InInbox(c)
      /\ \A n : InInbox(n)' <=> InInbox(n) /\ n # c
      /\ \A i, j \in 1 .. Len(inbox') : inbox'[i].n = inbox'[j].n => i = j
  BY <1>1, InboxTaken
<1> HIDE DEF c
<1>3. ~InJobs(c) /\ ~InWork(c) /\ c \notin answered
  BY <1>2 DEF OneInv
<1>4. /\ \A n : InJobs(n)' <=> InJobs(n) \/ n = c
      /\ \A i, j \in 1 .. Len(jobs') : jobs'[i] = jobs'[j] => i = j
  BY <1>1, <1>3, JobGiven
<1>5. (\A n : InWork(n)' <=> InWork(n)) /\ Calls' = Calls
  BY <1>1 DEF InWork, Calls
<1> QED
  BY <1>1, <1>2, <1>3, <1>4, <1>5 DEF OneInv

(* The network thread takes a job, or sends it back.                       *)
LEMMA OneTaken ==
  ASSUME PlacedInv, JobInv, OneInv, TakeJob, JobInv'
  PROVE  OneInv'
<1> DEFINE c == Head(jobs)
<1>1. /\ job = None /\ jobs # <<>> /\ jobs' = Tail(jobs)
      /\ UNCHANGED <<asked, answered>>
  BY DEF TakeJob, history
<1>2. /\ c \in Calls /\ InJobs(c)
      /\ \A n : InJobs(n)' <=> InJobs(n) /\ n # c
      /\ \A i, j \in 1 .. Len(jobs') : jobs'[i] = jobs'[j] => i = j
  BY <1>1, JobTaken
<1>3. ~InInbox(c) /\ c \notin answered /\ Calls' = Calls
  BY <1>1, <1>2 DEF OneInv, Calls
<1>4. \A n : ~InWork(n)
  BY <1>1 DEF InWork
<1>5. CASE HasCtx(asked[c].sock)
  <2>1. inbox' = inbox /\ job' = [n |-> c, raw |-> INVALID_SOCKET,
          pc |-> IF asked[c].op = "connect" THEN "resolve" ELSE "recv"]
    BY <1>5 DEF TakeJob
  <2>2. job' \in Job /\ job'.n = c
    BY <1>2, <2>1 DEF Calls, Job, INVALID_SOCKET
  <2> HIDE DEF c
  <2>3. \A n : InWork(n)' <=> n = c
    BY <2>2, ConstantsAssumption DEF InWork
  <2>4. /\ \A n : InInbox(n)' <=> InInbox(n)
        /\ \A i, j \in 1 .. Len(inbox') : inbox'[i].n = inbox'[j].n => i = j
    BY <2>1 DEF InInbox, OneInv
  <2> QED
    BY <1>1, <1>2, <1>3, <1>4, <2>3, <2>4 DEF OneInv
<1>6. CASE ~HasCtx(asked[c].sock)
  <2>1. PICK e : e = [kind |-> "finished", n |-> c, ret |-> -1]
    OBVIOUS
  <2>2. e.n = c /\ inbox' = Append(inbox, e) /\ job' = job
    BY <1>6, <2>1 DEF TakeJob
  <2> HIDE DEF c
  <2>3. /\ \A n : InInbox(n)' <=> InInbox(n) \/ n = c
        /\ \A i, j \in 1 .. Len(inbox') : inbox'[i].n = inbox'[j].n => i = j
    BY <1>3, <2>2, InboxGiven
  <2>4. \A n : ~InWork(n)'
    BY <1>1, <2>2 DEF InWork
  <2> QED
    BY <1>1, <1>2, <1>3, <1>4, <2>3, <2>4 DEF OneInv
<1> QED
  BY <1>5, <1>6

(* The network thread is done with its job.                                *)
LEMMA OneFinished ==
  ASSUME PlacedInv, OneInv, job # None, NEW ret, Finish(ret),
         UNCHANGED <<asked, jobs, answered>>
  PROVE  OneInv'
<1> DEFINE c == job.n
<1>1. PICK e : e = [kind |-> "finished", n |-> c, ret |-> ret]
  OBVIOUS
<1>2. e.n = c /\ inbox' = Append(inbox, e) /\ job' = None
  BY <1>1 DEF Finish
<1>3. c \in Calls /\ \A n : InWork(n) <=> n = c
  BY DEF PlacedInv, InWork
<1> HIDE DEF c
<1>4. ~InInbox(c) /\ ~InJobs(c) /\ c \notin answered
  BY <1>3 DEF OneInv
<1>5. /\ \A n : InInbox(n)' <=> InInbox(n) \/ n = c
      /\ \A i, j \in 1 .. Len(inbox') : inbox'[i].n = inbox'[j].n => i = j
  BY <1>2, <1>4, InboxGiven
<1>6. \A n : ~InWork(n)' /\ (InJobs(n)' <=> InJobs(n))
  BY <1>2 DEF InWork, InJobs
<1>7. Calls' = Calls
  BY DEF Calls
<1> QED
  BY <1>3, <1>4, <1>5, <1>6, <1>7 DEF OneInv

(* A step that moves no request.                                           *)
LEMMA OneKept ==
  ASSUME OneInv, UNCHANGED <<asked, inbox, jobs, answered>>,
         \A n : InWork(n)' <=> InWork(n)
  PROVE  OneInv'
<1>1. \A n : (InInbox(n)' <=> InInbox(n)) /\ (InJobs(n)' <=> InJobs(n))
  BY DEF InInbox, InJobs
<1>2. Calls' = Calls
  BY DEF Calls
<1> QED
  BY <1>1, <1>2 DEF OneInv

(* The inductive step of OneInv.                                           *)
LEMMA OneStep ==
  ASSUME AskedInv, PlacedInv, TableInv, JobInv, OneInv, [Next]_vars, JobInv'
  PROVE  OneInv'
<1>1. ASSUME UNCHANGED <<asked, inbox, jobs, job, answered>> PROVE OneInv'
  BY <1>1, OneKept DEF InWork
<1>2. ASSUME NEW t \in Tasks,
             \/ Create(t) \/ Send(t) \/ Recv(t) \/ Close(t)
             \/ \E s \in Servers : Connect(t, s)
      PROVE  OneInv'
  BY <1>2, OneAsked DEF Create, Send, Recv, Close, Connect
<1>3. ASSUME NEW t \in Tasks, Quiet(t) PROVE OneInv'
  BY <1>1, <1>3, QuietSteps
<1>4. CASE Deliver \/ Restart \/ UNCHANGED vars
  BY <1>1, <1>4 DEF Deliver, Restart, vars, network, history
<1>5. CASE DispatchCreate \/ DispatchSend \/ DispatchClose
  <2>1. /\ inbox # <<>> /\ inbox' = Tail(inbox)
        /\ UNCHANGED <<asked, job, jobs>>
    BY <1>5 DEF DispatchCreate, DispatchSend, DispatchClose, Dispatch
  <2>2. \E sock, ret : Post(Head(inbox).n, currentId', sock, ret)
    BY <1>5 DEF DispatchCreate, DispatchSend, DispatchClose
  <2> QED
    BY <2>1, <2>2, OneAnswered DEF Post
<1>6. CASE DispatchFinished
  <2>1. /\ inbox # <<>> /\ inbox' = Tail(inbox)
        /\ UNCHANGED <<asked, job, jobs>>
        /\ answered' = answered \cup {Head(inbox).n}
    BY <1>6 DEF DispatchFinished, network, Post
  <2> QED
    BY <2>1, OneAnswered
<1>7. CASE Resolve \/ Select \/ StartRecv \/ EndRecv
  <2>1. job # None /\ UNCHANGED <<asked, jobs, answered>>
    BY <1>7 DEF Resolve, Select, StartRecv, EndRecv, NetStep, history
  <2>2. ASSUME NEW ret, Finish(ret) PROVE OneInv'
    BY <2>1, <2>2, OneFinished
  <2>3. ASSUME inbox' = inbox, job' \in Job, job'.n = job.n PROVE OneInv'
    <3>1. \A n : InWork(n)' <=> InWork(n)
      BY <2>1, <2>3, ConstantsAssumption DEF InWork
    <3> QED
      BY <2>1, <2>3, <3>1, OneKept
  <2>4. job \in Job
    BY <2>1 DEF JobInv
  <2>5. CASE Resolve
    <3>1. CASE inbox' = inbox /\ job' = [job EXCEPT !.pc = "select"]
      <4>1. job' \in Job /\ job'.n = job.n
        BY <2>4, <3>1 DEF Job
      <4> QED
        BY <2>3, <3>1, <4>1
    <3> QED
      BY <2>2, <2>5, <3>1 DEF Resolve
  <2>6. CASE Select \/ EndRecv
    BY <2>2, <2>6 DEF Select, EndRecv
  <2>7. CASE StartRecv
    <3>1. CASE RawSock = INVALID_SOCKET
      BY <2>2, <2>7, <3>1 DEF StartRecv
    <3>2. CASE RawSock # INVALID_SOCKET
      <4> DEFINE r == RawSock
      <4>1. /\ inbox' = inbox
            /\ job' = [job EXCEPT !.pc = "receiving", !.raw = r]
        BY <2>7, <3>2 DEF StartRecv
      <4>2. r \in Nat
        BY <2>1 DEF RawSock, TableInv, JobInv
      <4> HIDE DEF r
      <4>3. job' \in Job /\ job'.n = job.n
        BY <2>4, <4>1, <4>2 DEF Job
      <4> QED
        BY <2>3, <4>1, <4>3
    <3> QED
      BY <3>1, <3>2
  <2> QED
    BY <1>7, <2>5, <2>6, <2>7
<1>8. ASSUME NEW k, DataArrives(k) PROVE OneInv'
  BY <1>1, <1>8 DEF DataArrives, network, history
<1> QED
  BY <1>2, <1>3, <1>4, <1>5, <1>6, <1>7, <1>8, OneQueued, OneTaken
  DEF Next, Quiet, Worker, NetThread
-----------------------------------------------------------------------------
(* All of it.                                                              *)

NetInv ==
  /\ AskedInv /\ SlotInv /\ TagInv
  /\ PlacedInv /\ TableInv /\ JobInv /\ OneInv

(* The invariant holds.                                                    *)
LEMMA NetInvariant == Spec => []NetInv
<1>1. Init => NetInv
  <2> SUFFICES ASSUME Init PROVE NetInv
    OBVIOUS
  <2>1. IsSeq(<<>>)
    BY <<>> \in Seq({}) DEF IsSeq
  <2>2. AskedInv /\ PlacedInv
    BY <2>1 DEF Init, AskedInv, PlacedInv, Calls
  <2>3. TableInv
    BY <2>1 DEF Init, TableInv, INVALID_SOCKET
  <2>4. JobInv /\ OneInv
    BY DEF Init, JobInv, OneInv, Calls, InInbox, InJobs, InWork
  <2>5. SlotInv /\ TagInv
    BY DEF Init, SlotInv, TagInv
  <2> QED
    BY <2>2, <2>3, <2>4, <2>5 DEF NetInv
<1>2. NetInv /\ [Next]_vars => NetInv'
  BY AskedStep, SlotStep, PlacedStep, TableStep, JobStep, OneStep DEF NetInv
<1> QED
  BY <1>1, <1>2, PTL DEF Spec

(* The entries in use and the open sockets are one to one.                 *)
LEMMA TableCounts ==
  ASSUME TableInv
  PROVE  TableHoldsSockets
<1> DEFINE used == {h \in Handles : s_net_ctx[h].in_use}
           opened == {k \in DOMAIN os : os[k].open}
           f == [h \in used |-> s_net_ctx[h].raw_sock]
<1>1. DOMAIN os = 1 .. Len(os)
  BY DEF TableInv, IsSeq
<1>2. {s_net_ctx[h].raw_sock : h \in used} = opened
  BY <1>1 DEF TableInv
<1>3. IsFiniteSet(used)
  <2>1. IsFiniteSet(Handles)
    BY ConstantsAssumption, FS_Interval DEF Handles
  <2> QED
    BY <2>1, FS_Subset
<1>4. f \in Bijection(used, opened)
  <2>1. f \in [used -> opened]
    BY <1>2
  <2>2. \A g, h \in used : f[g] = f[h] => g = h
    BY DEF TableInv
  <2>3. \A k \in opened : \E h \in used : f[h] = k
    BY <1>2
  <2> HIDE DEF used, opened, f
  <2> QED
    BY <2>1, <2>2, <2>3 DEF Bijection, Injection, Surjection, IsInjective
<1>5. Cardinality(used) = Cardinality(opened)
  BY <1>3, <1>4, FS_Bijection DEF ExistsBijection
<1> QED
  BY <1>2, <1>5 DEF TableHoldsSockets

(* The entries in use hold different sockets, each open, and no socket     *)
(* stays open without an entry.                                            *)
THEOREM TableAlwaysHoldsSockets == Spec => []TableHoldsSockets
<1>1. NetInv => TableHoldsSockets
  BY TableCounts DEF NetInv
<1> QED
  BY <1>1, NetInvariant, PTL

(* The places of a call.                                                   *)
LEMMA CallPlaces ==
  ASSUME PlacedInv, OneInv, NEW n \in Calls
  PROVE  Cardinality(Places(n)) = IF n \in answered THEN 0 ELSE 1
<1>1. DOMAIN inbox = 1 .. Len(inbox) /\ DOMAIN jobs = 1 .. Len(jobs)
  BY DEF PlacedInv, IsSeq
<1>2. ASSUME NEW p
      PROVE  p \in Places(n) <=>
               \/ \E i \in 1 .. Len(inbox) :
                    inbox[i].n = n /\ p = <<"inbox", i>>
               \/ \E i \in 1 .. Len(jobs) : jobs[i] = n /\ p = <<"jobs", i>>
               \/ InWork(n) /\ p = <<"job", 1>>
  BY <1>1, Zenon DEF Places, InWork
<1>3. CASE n \in answered
  <2>1. ~InInbox(n) /\ ~InJobs(n) /\ ~InWork(n)
    BY <1>3 DEF OneInv
  <2>2. Places(n) = {}
    BY <1>2, <2>1, Zenon DEF InInbox, InJobs
  <2> QED
    BY <1>3, <2>2, FS_EmptySet
<1>4. CASE n \notin answered
  <2>1. ASSUME NEW p, Places(n) = {p} PROVE Cardinality(Places(n)) = 1
    BY <2>1, FS_Singleton
  <2>2. CASE InInbox(n)
    <3>1. PICK i \in 1 .. Len(inbox) : inbox[i].n = n
      BY <2>2 DEF InInbox
    <3>2. \A j \in 1 .. Len(inbox) : inbox[j].n = n => j = i
      BY <3>1 DEF OneInv
    <3>3. ~InJobs(n) /\ ~InWork(n)
      BY <2>2 DEF OneInv
    <3>4. Places(n) = {<<"inbox", i>>}
      BY <1>2, <3>1, <3>2, <3>3, Zenon DEF InJobs
    <3> QED
      BY <1>4, <2>1, <3>4
  <2>3. CASE InJobs(n)
    <3>1. PICK i \in 1 .. Len(jobs) : jobs[i] = n
      BY <2>3 DEF InJobs
    <3>2. \A j \in 1 .. Len(jobs) : jobs[j] = n => j = i
      BY <3>1 DEF OneInv
    <3>3. ~InInbox(n) /\ ~InWork(n)
      BY <2>3 DEF OneInv
    <3>4. Places(n) = {<<"jobs", i>>}
      BY <1>2, <3>1, <3>2, <3>3, Zenon DEF InInbox
    <3> QED
      BY <1>4, <2>1, <3>4
  <2>4. CASE InWork(n)
    <3>1. ~InInbox(n) /\ ~InJobs(n)
      BY <2>4 DEF OneInv
    <3>2. Places(n) = {<<"job", 1>>}
      BY <1>2, <2>4, <3>1, Zenon DEF InInbox, InJobs
    <3> QED
      BY <1>4, <2>1, <3>2
  <2> QED
    BY <1>4, <2>2, <2>3, <2>4 DEF OneInv
<1> QED
  BY <1>3, <1>4

(* One that is not answered is in exactly one place.                       *)
THEOREM RequestsAlwaysInOnePlace == Spec => []RequestsInOnePlace
<1>1. NetInv => RequestsInOnePlace
  <2> SUFFICES ASSUME NetInv PROVE RequestsInOnePlace
    OBVIOUS
  <2>1. DOMAIN asked = Calls
    BY DEF NetInv, AskedInv, IsSeq, Calls
  <2> QED
    BY <2>1, CallPlaces DEF RequestsInOnePlace, NetInv
<1> QED
  BY <1>1, NetInvariant, PTL
-----------------------------------------------------------------------------
(* What a task is connected to.                                            *)

Elements(q) == {q[i] : i \in 1 .. Len(q)}

(* A task waits for a call of its own, on the handle it holds.             *)
HeldInv ==
  /\ handle = [t \in Tasks |-> handle[t]]
  /\ target = [t \in Tasks |-> target[t]]
  /\ \A t \in Tasks : handle[t] = None => target[t] = None
  /\ \A t \in Tasks : waiting[t] # 0 =>
       LET c == asked[waiting[t]] IN
       /\ c.task = t /\ c.sock = handle[t]
       /\ c.op = "create" => handle[t] = None
       /\ c.op = "connect" => handle[t] # None /\ target[t] = None
  /\ \A n \in Calls : asked[n].run # 0 /\ asked[n].task \in Tasks
  /\ session # 0

NetOps == {"connect", "recv"}

(* Only what the network thread does is finished later, and a call has at  *)
(* most one response.                                                      *)
QueueInv ==
  /\ \A e \in Elements(inbox) :
       e.kind = "finished" => asked[e.n].op \in NetOps
  /\ \A n \in Elements(jobs) : asked[n].op \in NetOps
  /\ job # None =>
       /\ asked[job.n].op \in NetOps
       /\ job.pc \in {"resolve", "select"} => asked[job.n].op = "connect"
  /\ \A r \in Elements(outbox) : r.n \in answered
  /\ \A i, j \in 1 .. Len(outbox) : outbox[i].n = outbox[j].n => i = j

(* A task holds the entry of its handle until it asks to close it.  An     *)
(* entry is on its way while a request to close it, or the response that   *)
(* it was created, is.                                                     *)
Holds(t)   == handle[t] # None /\ ~Closing(t)
Closes(n)  == n \notin answered /\ asked[n].op = "close"
Created(r) == r.ret = 0 /\ asked[r.n].op = "create"

OnItsWay(n, h) ==
  \/ Closes(n) /\ asked[n].sock = h
  \/ \E r \in Elements(outbox) : r.n = n /\ Created(r) /\ r.sock = h

(* Nobody else has that entry.                                             *)
OwnInv ==
  /\ \A t \in Tasks : Holds(t) => HasCtx(handle[t])
  /\ \A n \in Calls : Closes(n) => HasCtx(asked[n].sock)
  /\ \A r \in Elements(outbox) : Created(r) => HasCtx(r.sock)
  /\ \A t, u \in Tasks :
       Holds(t) /\ Holds(u) /\ handle[t] = handle[u] => t = u
  /\ \A t \in Tasks, n \in Calls : Holds(t) => ~OnItsWay(n, handle[t])
  /\ \A m, n \in Calls, h \in Handles :
       OnItsWay(m, h) /\ OnItsWay(n, h) => m = n

Peer(h) == os[s_net_ctx[h].raw_sock].peer

(* No connect was asked for since the last create.                         *)
Fresh(t) ==
  \A n \in Calls : asked[n].task = t /\ asked[n].op = "connect" =>
    \E k \in Calls : k > n /\ asked[k].task = t /\ asked[k].op = "create"

Connecting(t) == waiting[t] # 0 /\ asked[waiting[t]].op = "connect"

Unresolved(n) ==
  \/ \E e \in Elements(inbox) : e.kind = "request" /\ e.n = n
  \/ InJobs(n)
  \/ InWork(n) /\ job.pc = "resolve"

Succeeded(n) ==
  \/ \E e \in Elements(inbox) : e.kind = "finished" /\ e.n = n /\ e.ret = 0
  \/ \E r \in Elements(outbox) : r.n = n /\ r.ret = 0

(* The socket that a task connects has no peer until it is resolved.       *)
Linked(t) ==
  LET n == waiting[t]
      p == Peer(handle[t])
  IN
  /\ ~Fresh(t)
  /\ Unresolved(n) => p = None
  /\ InWork(n) => p \in {None, asked[n].server}
  /\ Succeeded(n) => p = asked[n].server

(* The socket of a task has a peer from the first connect on, and it is    *)
(* the server that was asked for if the connect succeeded.                 *)
PeerInv ==
  /\ \A t \in Tasks : Holds(t) /\ target[t] # None =>
       Peer(handle[t]) = target[t]
  /\ \A t \in Tasks : Holds(t) /\ Fresh(t) => Peer(handle[t]) = None
  /\ \A r \in Elements(outbox) : Created(r) => Peer(r.sock) = None
  /\ \A t \in Tasks : Connecting(t) => Linked(t)
  /\ \A n \in Calls : n \notin answered /\ asked[n].op = "connect" =>
       waiting[asked[n].task] = n

Patient ==
  session = 1 /\ ~GivenUp("connect") /\ ~Retried /\ mistaken = {}

-----------------------------------------------------------------------------
(* What is in a queue.                                                     *)

(* An Append adds an element.                                              *)
LEMMA ElementsOfAppend ==
  ASSUME NEW q, IsSeq(q), NEW x
  PROVE  Elements(Append(q, x)) = Elements(q) \cup {x}
<1>1. /\ Len(q) \in Nat /\ Len(Append(q, x)) = Len(q) + 1
      /\ \A i \in 1 .. Len(q) : Append(q, x)[i] = q[i]
      /\ Append(q, x)[Len(q) + 1] = x
  BY AppendToSeq
<1>2. 1 .. Len(q) + 1 = (1 .. Len(q)) \cup {Len(q) + 1}
  BY <1>1
<1> DEFINE p == Append(q, x)
<1>3. /\ Len(p) = Len(q) + 1 /\ \A i \in 1 .. Len(q) : p[i] = q[i]
      /\ p[Len(q) + 1] = x
  BY <1>1
<1> HIDE DEF p
<1>4. Elements(p) = Elements(q) \cup {x}
  BY <1>2, <1>3 DEF Elements
<1> QED
  BY <1>4 DEF p

(* A Tail leaves the head out.                                             *)
LEMMA ElementsOfTail ==
  ASSUME NEW q, IsSeq(q), q # <<>>
  PROVE  Elements(q) = Elements(Tail(q)) \cup {Head(q)}
<1> DEFINE p == Tail(q)
<1>1. /\ Len(q) \in Nat \ {0} /\ Len(p) = Len(q) - 1 /\ Head(q) = q[1]
      /\ \A i \in 1 .. Len(q) - 1 : p[i] = q[i + 1]
  BY TailOfSeq
<1> HIDE DEF p
<1>2. Head(q) \in Elements(q) /\ Elements(p) \subseteq Elements(q)
  <2>1. \A i \in 1 .. Len(p) : i + 1 \in 1 .. Len(q) /\ p[i] = q[i + 1]
    BY <1>1
  <2>2. 1 \in 1 .. Len(q)
    BY <1>1
  <2> QED
    BY <1>1, <2>1, <2>2 DEF Elements
<1>3. ASSUME NEW e \in Elements(q), e # Head(q) PROVE e \in Elements(p)
  <2>1. PICK i \in 1 .. Len(q) : e = q[i]
    BY DEF Elements
  <2>2. i # 1
    BY <1>1, <1>3, <2>1
  <2>3. PICK j : j = i - 1
    OBVIOUS
  <2>4. j \in 1 .. Len(p) /\ j + 1 = i /\ j \in 1 .. Len(q) - 1
    BY <1>1, <2>2, <2>3
  <2>5. p[j] = e
    BY <1>1, <2>1, <2>4
  <2> QED
    BY <2>4, <2>5 DEF Elements
<1>4. Elements(q) = Elements(p) \cup {Head(q)}
  BY <1>2, <1>3
<1> QED
  BY <1>4 DEF p

(* What is queued are calls.                                               *)
LEMMA ElementsAreCalls ==
  ASSUME PlacedInv
  PROVE  /\ \A e \in Elements(inbox) : e.n \in Calls /\ InInbox(e.n)
         /\ \A n \in Elements(jobs) : n \in Calls /\ InJobs(n)
         /\ \A n : InJobs(n) => n \in Elements(jobs)
         /\ \A r \in Elements(outbox) :
              r.n \in Calls /\ r.id = asked[r.n].id
         /\ inbox # <<>> => Head(inbox) \in Elements(inbox)
         /\ jobs # <<>> => Head(jobs) \in Elements(jobs)
         /\ outbox # <<>> => Head(outbox) \in Elements(outbox)
<1>1. /\ inbox # <<>> => Head(inbox) \in Elements(inbox)
      /\ jobs # <<>> => Head(jobs) \in Elements(jobs)
      /\ outbox # <<>> => Head(outbox) \in Elements(outbox)
  BY ElementsOfTail DEF PlacedInv
<1> QED
  BY <1>1 DEF PlacedInv, Elements, InInbox, InJobs

(* A queue without its head does not have the head's call again.           *)
LEMMA NotAgain ==
  ASSUME NEW q, IsSeq(q), q # <<>>,
         \A i, j \in 1 .. Len(q) : q[i].n = q[j].n => i = j
  PROVE  /\ \A e \in Elements(Tail(q)) : e.n # Head(q).n
         /\ \A i, j \in 1 .. Len(Tail(q)) :
              Tail(q)[i].n = Tail(q)[j].n => i = j
<1> DEFINE p == Tail(q)
<1>1. /\ Len(q) \in Nat \ {0} /\ Len(p) = Len(q) - 1 /\ Head(q) = q[1]
      /\ \A i \in 1 .. Len(q) - 1 : p[i] = q[i + 1]
  BY TailOfSeq
<1> HIDE DEF p
<1>2. ASSUME NEW i \in 1 .. Len(p)
      PROVE  /\ i + 1 \in 1 .. Len(q) /\ 1 \in 1 .. Len(q) /\ i + 1 # 1
             /\ p[i] = q[i + 1]
  BY <1>1
<1>3. \A i \in 1 .. Len(p) : p[i].n # Head(q).n
  BY <1>1, <1>2
<1>4. \A i, j \in 1 .. Len(p) : p[i].n = p[j].n => i = j
  <2> SUFFICES ASSUME NEW i \in 1 .. Len(p), NEW j \in 1 .. Len(p),
                      p[i].n = p[j].n
               PROVE  i = j
    OBVIOUS
  <2>1. i + 1 = j + 1
    BY <1>2
  <2> QED
    BY <2>1
<1> QED
  BY <1>3, <1>4 DEF p, Elements

-----------------------------------------------------------------------------
(* Who holds what.                                                         *)

(* What is known of a new call.                                            *)
LEMMA AskNames ==
  ASSUME AskedInv, NEW t \in Tasks, NEW op, NEW server, Ask(t, op, server)
  PROVE  /\ asked'[Len(asked')].op = op
         /\ asked'[Len(asked')].task = t
         /\ asked'[Len(asked')].sock = handle[t]
         /\ asked'[Len(asked')].server = server
         /\ Calls' = Calls \cup {Len(asked')} /\ Len(asked') \notin Calls
         /\ Len(asked') \in Nat \ {0} /\ \A n \in Calls : n < Len(asked')
         /\ waiting[t] = 0 /\ waiting' = [waiting EXCEPT ![t] = Len(asked')]
         /\ UNCHANGED <<handle, target>>
<1> DEFINE c == [id |-> rid[t], run |-> session, op |-> op,
                 task |-> t, sock |-> handle[t], server |-> server]
<1>1. asked' = Append(asked, c)
  BY DEF Ask
<1>2. /\ c.op = op /\ c.task = t /\ c.sock = handle[t]
      /\ c.server = server
  OBVIOUS
<1> HIDE DEF c
<1>3. asked'[Len(asked')] = c
  BY <1>1, AppendToSeq DEF AskedInv
<1>4. Len(asked') = Len(asked) + 1 /\ Len(asked) \in Nat
  BY AskAdds
<1>5. waiting[t] = 0
  BY DEF AskedInv, Ask
<1> QED
  BY <1>2, <1>3, <1>4, <1>5 DEF Calls, Ask

(* A call is asked for.                                                    *)
LEMMA AskHolds ==
  ASSUME AskedInv, HeldInv, NEW t \in Tasks, NEW op, NEW server,
         Ask(t, op, server), op = "create" => handle[t] = None,
         op = "connect" => handle[t] # None /\ target[t] = None
  PROVE  HeldInv'
<1>1. /\ asked'[Len(asked')].run = session /\ Len(asked') \in Nat
      /\ \A n \in Calls : asked'[n] = asked[n]
      /\ session \in Nat
  BY AskAdds DEF AskedInv
<1>2. /\ asked'[Len(asked')].op = op /\ asked'[Len(asked')].task = t
      /\ asked'[Len(asked')].sock = handle[t]
      /\ Calls' = Calls \cup {Len(asked')} /\ Len(asked') \in Nat \ {0}
      /\ waiting' = [waiting EXCEPT ![t] = Len(asked')]
      /\ UNCHANGED <<handle, target>>
  BY AskNames
<1>3. session' = session /\ waiting \in [Tasks -> Nat]
  BY DEF Ask, AskedInv
<1>4. \A n \in Calls' : asked'[n].run # 0 /\ asked'[n].task \in Tasks
  BY <1>1, <1>2 DEF HeldInv
<1>5. ASSUME NEW u \in Tasks, waiting'[u] # 0
      PROVE  LET c == asked'[waiting'[u]] IN
             /\ c.task = u /\ c.sock = handle[u]
             /\ c.op = "create" => handle[u] = None
             /\ c.op = "connect" => handle[u] # None /\ target[u] = None
  <2>1. CASE u = t
    <3>1. waiting'[u] = Len(asked')
      BY <1>2, <1>3, <2>1
    <3> QED
      BY <1>2, <2>1, <3>1
  <2>2. CASE u # t
    <3>1. waiting'[u] = waiting[u] /\ waiting[u] \in Calls
      BY <1>2, <1>3, <1>5, <2>2 DEF AskedInv
    <3>2. asked'[waiting'[u]] = asked[waiting[u]]
      BY <1>1, <3>1
    <3> QED
      BY <1>5, <3>1, <3>2 DEF HeldInv
  <2> QED
    BY <2>1, <2>2
<1> QED
  BY <1>2, <1>3, <1>4, <1>5 DEF HeldInv

(* Who stops to wait may have a new handle or target.                      *)
LEMMA HoldsLess ==
  ASSUME HeldInv, UNCHANGED asked, session' # 0,
         handle' = [t \in Tasks |-> handle'[t]],
         target' = [t \in Tasks |-> target'[t]],
         \A t \in Tasks : handle'[t] = None => target'[t] = None,
         \A t \in Tasks :
           \/ waiting'[t] = 0
           \/ /\ waiting'[t] = waiting[t] /\ handle'[t] = handle[t]
              /\ target'[t] = target[t]
  PROVE  HeldInv'
<1>1. \A n \in Calls' : asked'[n].run # 0 /\ asked'[n].task \in Tasks
  BY DEF HeldInv, Calls
<1>2. ASSUME NEW u \in Tasks, waiting'[u] # 0
      PROVE  LET c == asked'[waiting'[u]] IN
             /\ c.task = u /\ c.sock = handle'[u]
             /\ c.op = "create" => handle'[u] = None
             /\ c.op = "connect" => handle'[u] # None /\ target'[u] = None
  BY <1>2 DEF HeldInv
<1> QED
  BY <1>1, <1>2 DEF HeldInv

(* What Forgets does.                                                      *)
LEMMA Forgotten ==
  ASSUME HeldInv, NEW t \in Tasks, NEW n, Forgets(t, n)
  PROVE  /\ handle' = [u \in Tasks |-> handle'[u]]
         /\ target' = [u \in Tasks |-> target'[u]]
         /\ \A u \in Tasks : u # t =>
              handle'[u] = handle[u] /\ target'[u] = target[u]
         /\ \/ asked[n].op = "close" /\ handle'[t] = None /\ target'[t] = None
            \/ /\ asked[n].op # "close"
               /\ handle'[t] = handle[t] /\ target'[t] = target[t]
<1>1. PICK f, g : f = handle /\ g = target
  OBVIOUS
<1>2. f = [u \in Tasks |-> f[u]] /\ g = [u \in Tasks |-> g[u]]
  BY <1>1 DEF HeldInv
<1>3. CASE asked[n].op = "close"
  <2>1. handle' = [f EXCEPT ![t] = None] /\ target' = [g EXCEPT ![t] = None]
    BY <1>1, <1>3 DEF Forgets
  <2> QED
    BY <1>1, <1>2, <1>3, <2>1
<1>4. CASE asked[n].op # "close"
  <2>1. handle' = handle /\ target' = target
    BY <1>4 DEF Forgets
  <2> QED
    BY <1>1, <1>2, <1>4, <2>1
<1> QED
  BY <1>3, <1>4

(* A call is given up.                                                     *)
LEMMA GiveUpHolds ==
  ASSUME AskedInv, HeldInv, NEW t \in Tasks, GiveUp(t)
  PROVE  HeldInv'
<1>1. /\ waiting' = [waiting EXCEPT ![t] = 0] /\ Forgets(t, waiting[t])
      /\ asked' = asked /\ session' = session /\ waiting \in [Tasks -> Nat]
  BY DEF GiveUp, Leave, AskedInv
<1>2. \A u \in Tasks : u # t => waiting'[u] = waiting[u]
  BY <1>1
<1>3. waiting'[t] = 0
  BY <1>1
<1> QED
  BY <1>1, <1>2, <1>3, Forgotten, HoldsLess DEF HeldInv

(* What becomes of the handle and target of a task that returns with a     *)
(* response.                                                               *)
Returned(t, r) ==
  LET c == asked[waiting[t]] IN
  \/ /\ c.op = "create" /\ TwoWords(r) /\ Word1(r) = 0
     /\ handle'[t] = Word2(r) /\ target'[t] = target[t]
  \/ /\ c.op = "connect" /\ TwoWords(r) /\ Word2(r) = 0
     /\ handle'[t] = handle[t] /\ target'[t] = c.server
  \/ /\ c.op = "close"
     /\ handle'[t] = None /\ target'[t] = None
  \/ /\ c.op # "close"
     /\ handle'[t] = handle[t] /\ target'[t] = target[t]

OthersKeep(t) ==
  \A u \in Tasks : u # t =>
    handle'[u] = handle[u] /\ target'[u] = target[u]

(* A call returns with a response.                                         *)
LEMMA ReturnTaken ==
  ASSUME AskedInv, HeldInv, NEW t \in Tasks, NEW r, ReturnWith(t, r)
  PROVE  /\ handle' = [u \in Tasks |-> handle'[u]]
         /\ target' = [u \in Tasks |-> target'[u]]
         /\ waiting'[t] = 0
         /\ \A u \in Tasks : u # t => waiting'[u] = waiting[u]
         /\ Returned(t, r) /\ OthersKeep(t)
         /\ waiting[t] = r.n \/ <<waiting[t], r.n>> \in mistaken'
<1> DEFINE c == asked[waiting[t]]
<1>1. /\ waiting' = [waiting EXCEPT ![t] = 0] /\ waiting \in [Tasks -> Nat]
      /\ mistaken' = mistaken \cup ({<<waiting[t], r.n>>} \ {<<r.n, r.n>>})
  BY DEF ReturnWith, Leave, AskedInv
<1>2. waiting'[t] = 0 /\ \A u \in Tasks : u # t => waiting'[u] = waiting[u]
  BY <1>1
<1>3. waiting[t] = r.n \/ <<waiting[t], r.n>> \in mistaken'
  <2>1. waiting[t] # r.n => <<waiting[t], r.n>> # <<r.n, r.n>>
    OBVIOUS
  <2> QED
    BY <1>1, <2>1
<1>4. PICK f, g : f = handle /\ g = target
  OBVIOUS
<1>5. f = [u \in Tasks |-> f[u]] /\ g = [u \in Tasks |-> g[u]]
  BY <1>4 DEF HeldInv
<1>6. PICK w, v : w = Word2(r) /\ v = c.server
  OBVIOUS
<1>7. CASE c.op = "create" /\ TwoWords(r) /\ Word1(r) = 0
  <2>1. handle' = [f EXCEPT ![t] = w] /\ target' = g
    BY <1>4, <1>6, <1>7 DEF ReturnWith
  <2>2. /\ handle' = [u \in Tasks |-> handle'[u]]
        /\ target' = [u \in Tasks |-> target'[u]]
        /\ handle'[t] = w /\ target'[t] = g[t]
        /\ \A u \in Tasks : u # t => handle'[u] = f[u] /\ target'[u] = g[u]
    BY <1>5, <2>1
  <2> QED
    BY <1>2, <1>3, <1>4, <1>6, <1>7, <2>2 DEF Returned, OthersKeep
<1>8. CASE c.op = "connect" /\ TwoWords(r) /\ Word2(r) = 0
  <2>1. handle' = f /\ target' = [g EXCEPT ![t] = v]
    BY <1>4, <1>6, <1>8 DEF ReturnWith
  <2>2. /\ handle' = [u \in Tasks |-> handle'[u]]
        /\ target' = [u \in Tasks |-> target'[u]]
        /\ handle'[t] = f[t] /\ target'[t] = v
        /\ \A u \in Tasks : u # t => handle'[u] = f[u] /\ target'[u] = g[u]
    BY <1>5, <2>1
  <2> QED
    BY <1>2, <1>3, <1>4, <1>6, <1>8, <2>2 DEF Returned, OthersKeep
<1>9. CASE ~(c.op = "create" /\ TwoWords(r) /\ Word1(r) = 0)
           /\ ~(c.op = "connect" /\ TwoWords(r) /\ Word2(r) = 0)
  <2>1. Forgets(t, waiting[t])
    BY <1>9 DEF ReturnWith
  <2> QED
    BY <1>2, <1>3, <2>1, Forgotten DEF Returned, OthersKeep
<1> QED
  BY <1>7, <1>8, <1>9

(* It leaves what is held in order.                                        *)
LEMMA ReturnHolds ==
  ASSUME AskedInv, HeldInv, NEW t \in Tasks, waiting[t] # 0, NEW r,
         ReturnWith(t, r), UNCHANGED <<asked, session>>
  PROVE  HeldInv'
<1>1. handle'[t] = None => target'[t] = None
  <2> DEFINE c == asked[waiting[t]]
  <2>1. /\ c.op = "create" => handle[t] = None
        /\ c.op = "connect" => handle[t] # None
        /\ handle[t] = None => target[t] = None
    BY DEF HeldInv
  <2>2. Returned(t, r)
    BY ReturnTaken
  <2>3. \/ c.op = "create" /\ target'[t] = target[t]
        \/ c.op = "connect" /\ handle'[t] = handle[t]
        \/ target'[t] = None
        \/ handle'[t] = handle[t] /\ target'[t] = target[t]
    BY <2>2 DEF Returned
  <2> HIDE DEF c
  <2> QED
    BY <2>1, <2>3
<1>2. \A u \in Tasks : handle'[u] = None => target'[u] = None
  BY <1>1, ReturnTaken DEF OthersKeep, HeldInv
<1>3. \A u \in Tasks :
         \/ waiting'[u] = 0
         \/ /\ waiting'[u] = waiting[u] /\ handle'[u] = handle[u]
            /\ target'[u] = target[u]
  BY ReturnTaken DEF OthersKeep
<1> QED
  BY <1>2, <1>3, ReturnTaken, HoldsLess DEF HeldInv

(* No two tasks can take a response.                                       *)
LEMMA OneTaker ==
  ASSUME SlotInv, NEW id, NEW t \in Tasks, NEW u \in Tasks,
         Taker(t, id), Taker(u, id)
  PROVE  t = u
<1>1. PICK a, b : a = slot[t] /\ b = slot[u]
  OBVIOUS
<1>2. a \in Nat /\ b \in Nat /\ a # None
  BY <1>1, ConstantsAssumption DEF SlotInv, Taker, Slots
<1>3. a <= b /\ b <= a
  BY <1>1 DEF Taker
<1>4. a = b
  BY <1>2, <1>3
<1> QED
  BY <1>1, <1>2, <1>4 DEF SlotInv

(* What a delivery does.                                                   *)
LEMMA DeliverTaken ==
  ASSUME AskedInv, SlotInv, HeldInv, Deliver
  PROVE  /\ handle' = [t \in Tasks |-> handle'[t]]
         /\ target' = [t \in Tasks |-> target'[t]]
         /\ \A u \in Tasks :
              waiting'[u] = IF Takes(u) THEN 0 ELSE waiting[u]
         /\ \/ /\ UNCHANGED <<handle, target>>
               /\ \A u \in Tasks : ~Takes(u)
            \/ \E t \in Tasks :
                 /\ Takes(t) /\ Returned(t, Head(outbox)) /\ OthersKeep(t)
                 /\ \/ waiting[t] = Head(outbox).n
                    \/ <<waiting[t], Head(outbox).n>> \in mistaken'
<1>1. CASE Swallowed
  <2>1. \A u \in Tasks : ~Takes(u)
    BY <1>1, OneTaker DEF Swallowed, Takes
  <2>2. UNCHANGED <<waiting, handle, target>>
    BY <1>1 DEF Swallowed
  <2> QED
    BY <2>1, <2>2 DEF HeldInv
<1>2. ASSUME NEW t \in Tasks, Takes(t), ReturnWith(t, Head(outbox))
      PROVE  /\ handle' = [u \in Tasks |-> handle'[u]]
             /\ target' = [u \in Tasks |-> target'[u]]
             /\ \A u \in Tasks :
                  waiting'[u] = IF Takes(u) THEN 0 ELSE waiting[u]
             /\ Returned(t, Head(outbox)) /\ OthersKeep(t)
             /\ \/ waiting[t] = Head(outbox).n
                \/ <<waiting[t], Head(outbox).n>> \in mistaken'
  <2>1. \A u \in Tasks : Takes(u) => u = t
    BY <1>2, OneTaker DEF Takes
  <2> QED
    BY <1>2, <2>1, ReturnTaken
<1> QED
  BY <1>1, <1>2, DeliverDoes

(* What becomes of the handle and target of a task whose call has its own  *)
(* answer.                                                                 *)
Taken(t) ==
  LET r == Head(outbox)
      c == asked[waiting[t]]
  IN
  \/ /\ c.op = "create" /\ r.ret = 0
     /\ handle'[t] = r.sock /\ target'[t] = target[t]
  \/ /\ c.op = "connect" /\ r.ret = 0
     /\ handle'[t] = handle[t] /\ target'[t] = c.server
  \/ /\ c.op = "close"
     /\ handle'[t] = None /\ target'[t] = None
  \/ /\ c.op # "close"
     /\ handle'[t] = handle[t] /\ target'[t] = target[t]

(* It reads it as it was meant.                                            *)
LEMMA OwnTaken ==
  ASSUME NEW t \in Tasks, waiting[t] = Head(outbox).n,
         Returned(t, Head(outbox))
  PROVE  Taken(t)
BY DEF Taken, Returned, TwoWords, Word1, Word2

(* What a delivery does as long as no call has the answer to another.      *)
LEMMA DeliverOwn ==
  ASSUME AskedInv, SlotInv, HeldInv, Deliver, mistaken' = {}
  PROVE  \/ /\ UNCHANGED <<handle, target>>
            /\ \A u \in Tasks : ~Takes(u)
         \/ \E t \in Tasks :
              /\ Takes(t) /\ Taken(t) /\ waiting[t] = Head(outbox).n
              /\ OthersKeep(t)
BY DeliverTaken, OwnTaken

(* A delivery.                                                             *)
LEMMA DeliverHolds ==
  ASSUME AskedInv, HeldInv, Deliver
  PROVE  HeldInv'
<1>1. UNCHANGED <<asked, session>>
  BY DeliverDoes
<1>2. CASE Swallowed
  BY <1>1, <1>2 DEF Swallowed, HeldInv, Calls
<1>3. ASSUME NEW t \in Tasks, Takes(t), ReturnWith(t, Head(outbox))
      PROVE  HeldInv'
  BY <1>1, <1>3, ReturnHolds DEF Takes
<1> QED
  BY <1>2, <1>3, DeliverDoes

(* The inductive step of HeldInv.                                          *)
LEMMA HeldStep ==
  ASSUME AskedInv, HeldInv, [Next]_vars
  PROVE  HeldInv'
<1>1. ASSUME UNCHANGED <<asked, session, waiting, handle, target>>
      PROVE  HeldInv'
  BY <1>1 DEF HeldInv, Calls
<1>2. ASSUME NEW t \in Tasks,
             \/ Create(t) \/ Send(t) \/ Recv(t) \/ Close(t)
             \/ \E s \in Servers : Connect(t, s)
      PROVE  HeldInv'
  BY <1>2, AskHolds DEF Create, Send, Recv, Close, Connect
<1>3. CASE Restart
  <2>1. /\ asked' = asked /\ session' = session + 1
        /\ waiting' = [t \in Tasks |-> 0]
        /\ handle' = [t \in Tasks |-> None]
        /\ target' = [t \in Tasks |-> None]
    BY <1>3 DEF Restart
  <2>2. session' # 0
    BY <2>1 DEF AskedInv
  <2>3. \A t \in Tasks :
          waiting'[t] = 0 /\ handle'[t] = None /\ target'[t] = None
    BY <2>1
  <2>4. /\ handle' = [t \in Tasks |-> handle'[t]]
        /\ target' = [t \in Tasks |-> target'[t]]
    BY <2>1, <2>3
  <2> QED
    BY <2>1, <2>2, <2>3, <2>4, HoldsLess
<1>4. CASE Worker
  BY <1>1, <1>4 DEF Worker, DispatchCreate, DispatchSend, DispatchClose,
                    DispatchJob, DispatchFinished, Dispatch, firmware
<1>5. CASE NetThread
  BY <1>1, <1>5 DEF NetThread, TakeJob, Resolve, Select, StartRecv, EndRecv,
                    NetStep, firmware, history
<1>6. ASSUME NEW k, DataArrives(k) PROVE HeldInv'
  BY <1>1, <1>6 DEF DataArrives, firmware, history
<1>7. CASE UNCHANGED vars
  BY <1>1, <1>7 DEF vars, firmware, history
<1>8. ASSUME NEW t \in Tasks, Begin(t) \/ SendFails(t) PROVE HeldInv'
  BY <1>1, <1>8, NotSentYet DEF NotSent
<1>9. ASSUME NEW t \in Tasks, WakeEarly(t) PROVE HeldInv'
  BY <1>9, WakeEarlyDoes, ReturnHolds
<1> QED
  BY <1>2, <1>3, <1>4, <1>5, <1>6, <1>7, <1>8, <1>9, GiveUpHolds,
     DeliverHolds DEF Next

-----------------------------------------------------------------------------
(* The queues of the host.                                                 *)

(* A request is queued.                                                    *)
LEMMA AskQueues ==
  ASSUME PlacedInv, NEW t, NEW op, NEW server, Ask(t, op, server)
  PROVE  /\ \E e : /\ e.kind = "request" /\ e.n = Len(asked')
                   /\ Elements(inbox') = Elements(inbox) \cup {e}
         /\ UNCHANGED <<jobs, job, outbox, answered, s_net_ctx, os, session,
                        gaveUp>>
<1>1. PICK e : e = [kind |-> "request", n |-> Len(asked')]
  OBVIOUS
<1>2. inbox' = Append(inbox, e) /\ e.kind = "request" /\ e.n = Len(asked')
  BY <1>1 DEF Ask
<1>3. Elements(inbox') = Elements(inbox) \cup {e}
  BY <1>2, ElementsOfAppend DEF PlacedInv
<1> QED
  BY <1>2, <1>3 DEF Ask, network, table

(* A response is queued, the first to its call.                            *)
LEMMA PostQueues ==
  ASSUME PlacedInv, QueueInv, NEW n, n \notin answered, NEW id, NEW sock,
         NEW ret, Post(n, id, sock, ret)
  PROVE  /\ \E r : /\ r.n = n /\ r.sock = sock /\ r.ret = ret
                   /\ Elements(outbox') = Elements(outbox) \cup {r}
         /\ answered' = answered \cup {n}
         /\ \A r \in Elements(outbox') : r.n \in answered'
         /\ \A i, j \in 1 .. Len(outbox') :
              outbox'[i].n = outbox'[j].n => i = j
<1>1. PICK r : r = [n |-> n, id |-> id, sock |-> sock, ret |-> ret]
  OBVIOUS
<1>2. r.n = n /\ r.sock = sock /\ r.ret = ret
  BY <1>1
<1>3. outbox' = Append(outbox, r) /\ answered' = answered \cup {n}
  BY <1>1 DEF Post
<1>4. Elements(outbox') = Elements(outbox) \cup {r}
  BY <1>3, ElementsOfAppend DEF PlacedInv
<1>5. \A q \in Elements(outbox') : q.n \in answered'
  BY <1>2, <1>3, <1>4 DEF QueueInv
<1>6. /\ Len(outbox) \in Nat /\ Len(outbox') = Len(outbox) + 1
      /\ \A i \in 1 .. Len(outbox) : outbox'[i] = outbox[i]
      /\ outbox'[Len(outbox')] = r
  BY <1>3, AppendToSeq DEF PlacedInv
<1>7. \A i \in 1 .. Len(outbox) : outbox[i].n # n
  <2>1. \A q \in Elements(outbox) : q.n # n
    BY DEF QueueInv
  <2> QED
    BY <2>1 DEF Elements
<1>8. \A i \in 1 .. Len(outbox') : i \in 1 .. Len(outbox) \/ i = Len(outbox')
  BY <1>6
<1>9. \A i, j \in 1 .. Len(outbox') : outbox'[i].n = outbox'[j].n => i = j
  <2> SUFFICES ASSUME NEW i \in 1 .. Len(outbox'), NEW j \in 1 .. Len(outbox'),
                      outbox'[i].n = outbox'[j].n
               PROVE  i = j
    OBVIOUS
  <2>1. CASE i \in 1 .. Len(outbox) /\ j \in 1 .. Len(outbox)
    BY <1>6, <2>1 DEF QueueInv
  <2>2. CASE i \notin 1 .. Len(outbox) \/ j \notin 1 .. Len(outbox)
    BY <1>2, <1>6, <1>7, <1>8, <2>2
  <2> QED
    BY <2>1, <2>2
<1> QED
  BY <1>2, <1>3, <1>4, <1>5, <1>9

(* The worker takes an event, of a call not yet answered.                  *)
LEMMA WorkerTakes ==
  ASSUME PlacedInv, OneInv, inbox # <<>>, inbox' = Tail(inbox)
  PROVE  /\ Head(inbox) \in Elements(inbox)
         /\ Elements(inbox') \subseteq Elements(inbox)
         /\ \A e \in Elements(inbox') : e.n # Head(inbox).n
         /\ Head(inbox).n \in Calls /\ Head(inbox).n \notin answered
         /\ ~InJobs(Head(inbox).n) /\ ~InWork(Head(inbox).n)
<1>1. Elements(inbox) = Elements(inbox') \cup {Head(inbox)}
  BY ElementsOfTail DEF PlacedInv
<1>2. \A e \in Elements(inbox') : e.n # Head(inbox).n
  BY NotAgain DEF PlacedInv, OneInv
<1>3. Head(inbox).n \in Calls /\ InInbox(Head(inbox).n)
  BY InboxTaken
<1> QED
  BY <1>1, <1>2, <1>3 DEF OneInv

(* The network thread has finished.                                        *)
LEMMA FinishQueues ==
  ASSUME PlacedInv, NEW ret, Finish(ret)
  PROVE  /\ job' = None
         /\ \E e : /\ e.kind = "finished" /\ e.n = job.n /\ e.ret = ret
                   /\ Elements(inbox') = Elements(inbox) \cup {e}
<1>1. PICK e : e = [kind |-> "finished", n |-> job.n, ret |-> ret]
  OBVIOUS
<1>2. /\ e.kind = "finished" /\ e.n = job.n /\ e.ret = ret
      /\ inbox' = Append(inbox, e)
  BY <1>1 DEF Finish
<1>3. Elements(inbox') = Elements(inbox) \cup {e}
  BY <1>2, ElementsOfAppend DEF PlacedInv
<1> QED
  BY <1>2, <1>3 DEF Finish

(* It takes a job.                                                         *)
LEMMA JobTakes ==
  ASSUME PlacedInv, OneInv, TakeJob
  PROVE  /\ job = None /\ Head(jobs) \in Calls /\ Head(jobs) \notin answered
         /\ Head(jobs) \in Elements(jobs) /\ InJobs(Head(jobs))
         /\ ~InInbox(Head(jobs))
         /\ Elements(jobs') \subseteq Elements(jobs)
         /\ \A n : InJobs(n)' <=> InJobs(n) /\ n # Head(jobs)
         /\ UNCHANGED <<asked, outbox, answered, s_net_ctx, os>>
         /\ \/ /\ HasCtx(asked[Head(jobs)].sock)
               /\ inbox' = inbox
               /\ job' # None => job'.n = Head(jobs)
               /\ job'.pc = IF asked[Head(jobs)].op = "connect"
                            THEN "resolve" ELSE "recv"
            \/ /\ job' = None
               /\ \E e : /\ e.kind = "finished" /\ e.n = Head(jobs)
                         /\ e.ret # 0
                         /\ Elements(inbox') = Elements(inbox) \cup {e}
<1> DEFINE n == Head(jobs)
<1>1. /\ job = None /\ jobs # <<>> /\ jobs' = Tail(jobs)
      /\ UNCHANGED <<asked, outbox, answered, s_net_ctx, os>>
  BY DEF TakeJob, table, history
<1>2. /\ n \in Calls /\ InJobs(n)
      /\ \A m : InJobs(m)' <=> InJobs(m) /\ m # n
  BY <1>1, JobTaken
<1>3. n \notin answered /\ ~InInbox(n)
  BY <1>2 DEF OneInv
<1>4. Elements(jobs) = Elements(jobs') \cup {n}
  BY <1>1, ElementsOfTail DEF PlacedInv
<1>5. CASE HasCtx(asked[n].sock)
  <2>1. inbox' = inbox /\ job' = [n |-> n, raw |-> INVALID_SOCKET,
          pc |-> IF asked[n].op = "connect" THEN "resolve" ELSE "recv"]
    BY <1>5 DEF TakeJob
  <2> QED
    BY <1>1, <1>2, <1>3, <1>4, <1>5, <2>1
<1>6. CASE ~HasCtx(asked[n].sock)
  <2>1. PICK e : e = [kind |-> "finished", n |-> n, ret |-> -1]
    OBVIOUS
  <2>2. /\ e.kind = "finished" /\ e.n = n /\ e.ret # 0 /\ job' = None
        /\ inbox' = Append(inbox, e)
    BY <1>1, <1>6, <2>1 DEF TakeJob
  <2>3. Elements(inbox') = Elements(inbox) \cup {e}
    BY <2>2, ElementsOfAppend DEF PlacedInv
  <2> QED
    BY <1>1, <1>2, <1>3, <1>4, <2>2, <2>3
<1> QED
  BY <1>5, <1>6

(* What it does with the job.                                              *)
LEMMA JobWorked ==
  ASSUME PlacedInv, TableInv, JobInv, Resolve \/ Select \/ StartRecv \/ EndRecv
  PROVE  /\ job # None /\ job.n \in Calls /\ InWork(job.n)
         /\ UNCHANGED <<asked, outbox, answered, jobs, s_net_ctx>>
         /\ \/ /\ inbox' = inbox /\ job'.n = job.n
               /\ job.pc = "resolve" /\ job'.pc = "select"
            \/ /\ inbox' = inbox /\ job'.n = job.n
               /\ job'.pc = "receiving"
            \/ /\ job' = None
               /\ \E e : /\ e.kind = "finished" /\ e.n = job.n
                         /\ Elements(inbox') = Elements(inbox) \cup {e}
                         /\ e.ret = 0 => job.pc = "select"
<1>1. /\ job # None /\ UNCHANGED <<asked, outbox, answered, jobs, s_net_ctx>>
  BY DEF Resolve, Select, StartRecv, EndRecv, NetStep, history
<1>2. job \in Job /\ job.n \in Calls
  BY <1>1 DEF JobInv, PlacedInv
<1>3. ASSUME NEW ret, Finish(ret), ret # 0 \/ job.pc = "select"
      PROVE  /\ job' = None
             /\ \E e : /\ e.kind = "finished" /\ e.n = job.n
                       /\ Elements(inbox') = Elements(inbox) \cup {e}
                       /\ e.ret = 0 => job.pc = "select"
  BY <1>3, FinishQueues
<1>4. CASE Resolve
  <2>1. ASSUME job' = [job EXCEPT !.pc = "select"]
        PROVE  job'.n = job.n /\ job'.pc = "select"
    BY <1>2, <2>1 DEF Job
  <2> QED
    BY <1>1, <1>2, <1>3, <1>4, <2>1 DEF Resolve, NetStep, InWork
<1>5. CASE Select \/ EndRecv
  BY <1>1, <1>2, <1>3, <1>5 DEF Select, EndRecv, NetStep, InWork
<1>6. CASE StartRecv
  <2>1. CASE RawSock = INVALID_SOCKET
    BY <1>1, <1>2, <1>3, <1>6, <2>1 DEF StartRecv, InWork
  <2>2. CASE RawSock # INVALID_SOCKET
    <3> DEFINE s == RawSock
    <3>1. inbox' = inbox /\ job' = [job EXCEPT !.pc = "receiving", !.raw = s]
      BY <1>6, <2>2 DEF StartRecv
    <3> HIDE DEF s
    <3>2. job'.n = job.n /\ job'.pc = "receiving"
      BY <1>2, <3>1 DEF Job
    <3> QED
      BY <1>1, <1>2, <3>1, <3>2 DEF InWork
  <2> QED
    BY <2>1, <2>2
<1> QED
  BY <1>4, <1>5, <1>6

(* What the worker does with an event.                                     *)
LEMMA WorkerDoes ==
  ASSUME PlacedInv, OneInv, QueueInv, Worker
  PROVE  LET n == Head(inbox).n
             k == Head(inbox).kind
         IN
         /\ Head(inbox) \in Elements(inbox) /\ n \in Calls
         /\ n \notin answered /\ ~InJobs(n) /\ ~InWork(n)
         /\ Elements(inbox') \subseteq Elements(inbox)
         /\ \A e \in Elements(inbox') : e.n # n
         /\ UNCHANGED <<sockets, job, asked, gaveUp>>
         /\ UNCHANGED <<slot, s_pending, early, unsent, mistaken>>
         /\ \/ /\ k = "request" /\ asked[n].op \in NetOps
               /\ Elements(jobs') = Elements(jobs) \cup {n}
               /\ \A m : InJobs(m)' <=> InJobs(m) \/ m = n
               /\ UNCHANGED <<outbox, answered, table>>
            \/ /\ UNCHANGED jobs /\ answered' = answered \cup {n}
               /\ \A q \in Elements(outbox') : q.n \in answered'
               /\ \A i, j \in 1 .. Len(outbox') :
                    outbox'[i].n = outbox'[j].n => i = j
               /\ \E r : /\ r.n = n
                         /\ Elements(outbox') = Elements(outbox) \cup {r}
                         /\ \/ /\ k = "finished" /\ r.ret = Head(inbox).ret
                               /\ UNCHANGED table
                            \/ DispatchCreate /\ asked[n].op = "create"
                            \/ asked[n].op = "send" /\ UNCHANGED table
                            \/ DispatchClose /\ asked[n].op = "close"
<1> DEFINE n == Head(inbox).n
<1>1. inbox # <<>> /\ inbox' = Tail(inbox)
      /\ UNCHANGED <<sockets, job, asked, gaveUp>>
      /\ UNCHANGED <<slot, s_pending, early, unsent, mistaken>>
  BY DEF Worker, DispatchCreate, DispatchSend, DispatchClose, DispatchJob,
         DispatchFinished, Dispatch, network, firmware, sockets
<1>2. /\ Head(inbox) \in Elements(inbox) /\ n \in Calls
      /\ n \notin answered /\ ~InJobs(n) /\ ~InWork(n)
      /\ Elements(inbox') \subseteq Elements(inbox)
      /\ \A e \in Elements(inbox') : e.n # n
  BY <1>1, WorkerTakes
<1>3. CASE DispatchJob
  <2>1. /\ Head(inbox).kind = "request" /\ asked[n].op \in NetOps
        /\ jobs' = Append(jobs, n)
        /\ UNCHANGED <<outbox, answered, table>>
    BY <1>3 DEF DispatchJob, Dispatch, NetOps
  <2> HIDE DEF n
  <2>2. Elements(jobs') = Elements(jobs) \cup {n}
    BY <2>1, ElementsOfAppend DEF PlacedInv
  <2>3. \A m : InJobs(m)' <=> InJobs(m) \/ m = n
    BY <1>2, <2>1, JobGiven
  <2> QED
    BY <1>1, <1>2, <2>1, <2>2, <2>3 DEF n
<1>4. ASSUME NEW id, NEW sock, NEW ret, Post(n, id, sock, ret)
      PROVE  /\ answered' = answered \cup {n}
             /\ \A q \in Elements(outbox') : q.n \in answered'
             /\ \A i, j \in 1 .. Len(outbox') :
                  outbox'[i].n = outbox'[j].n => i = j
             /\ \E r : /\ r.n = n /\ r.sock = sock /\ r.ret = ret
                       /\ Elements(outbox') = Elements(outbox) \cup {r}
  <2> HIDE DEF n
  <2> QED
    BY <1>2, <1>4, PostQueues
<1>5. CASE DispatchFinished
  <2>1. /\ Head(inbox).kind = "finished" /\ UNCHANGED <<jobs, table>>
        /\ Post(n, currentId', asked[n].sock, Head(inbox).ret)
    BY <1>5 DEF DispatchFinished, network
  <2> QED
    BY <1>1, <1>2, <1>4, <2>1
<1>6. CASE DispatchCreate
  <2>1. asked[n].op = "create" /\ UNCHANGED jobs
        /\ \E sock, ret : Post(n, currentId', sock, ret)
    BY <1>6 DEF DispatchCreate, Dispatch
  <2> QED
    BY <1>1, <1>2, <1>4, <1>6, <2>1
<1>7. CASE DispatchSend
  <2>1. asked[n].op = "send" /\ UNCHANGED <<jobs, table>>
        /\ \E sock, ret : Post(n, currentId', sock, ret)
    BY <1>7 DEF DispatchSend, Dispatch
  <2> QED
    BY <1>1, <1>2, <1>4, <2>1
<1>8. CASE DispatchClose
  <2>1. asked[n].op = "close" /\ UNCHANGED jobs
        /\ \E sock, ret : Post(n, currentId', sock, ret)
    BY <1>8 DEF DispatchClose, Dispatch
  <2> QED
    BY <1>1, <1>2, <1>4, <1>8, <2>1
<1> QED
  BY <1>3, <1>5, <1>6, <1>7, <1>8 DEF Worker

(* The inductive step of QueueInv.                                         *)
LEMMA QueueStep ==
  ASSUME AskedInv, PlacedInv, TableInv, JobInv, OneInv, QueueInv, [Next]_vars
  PROVE  QueueInv'
<1>1. ASSUME UNCHANGED <<asked, inbox, jobs, job, outbox, answered>>
      PROVE  QueueInv'
  BY <1>1 DEF QueueInv, Elements
<1>2. ASSUME NEW t \in Tasks,
             \/ Create(t) \/ Send(t) \/ Recv(t) \/ Close(t)
             \/ \E s \in Servers : Connect(t, s)
      PROVE  QueueInv'
  <2>1. PICK op, server : Ask(t, op, server)
    BY <1>2 DEF Create, Send, Recv, Close, Connect
  <2>2. \A n \in Calls : asked'[n] = asked[n]
    BY <2>1, AskAdds
  <2>3. PICK e : /\ e.kind = "request" /\ e.n = Len(asked')
                 /\ Elements(inbox') = Elements(inbox) \cup {e}
    BY <2>1, AskQueues
  <2>4. UNCHANGED <<jobs, job, outbox, answered>>
    BY <2>1, AskQueues
  <2>5. \A f \in Elements(inbox') :
          f.kind = "finished" => asked'[f.n].op \in NetOps
    BY <2>2, <2>3, ElementsAreCalls DEF QueueInv
  <2>6. \A n \in Elements(jobs) : asked'[n].op \in NetOps
    BY <2>2, ElementsAreCalls DEF QueueInv
  <2>7. job # None => job.n \in Calls /\ asked'[job.n] = asked[job.n]
    BY <2>2 DEF PlacedInv
  <2>8. /\ Elements(jobs)' = Elements(jobs)
        /\ Elements(outbox)' = Elements(outbox)
    BY <2>4 DEF Elements
  <2> QED
    BY <2>4, <2>5, <2>6, <2>7, <2>8 DEF QueueInv
<1>3. ASSUME NEW t \in Tasks, Quiet(t) PROVE QueueInv'
  BY <1>1, <1>3, QuietSteps
<1>4. CASE Restart \/ UNCHANGED vars
  BY <1>1, <1>4 DEF Restart, vars, network, history
<1>5. CASE Deliver
  <2>1. /\ outbox # <<>> /\ outbox' = Tail(outbox)
        /\ UNCHANGED <<asked, inbox, jobs, job, answered>>
    BY <1>5, DeliverDoes
  <2>2. /\ Elements(outbox) = Elements(outbox') \cup {Head(outbox)}
        /\ \A i, j \in 1 .. Len(outbox') : outbox'[i].n = outbox'[j].n => i = j
    BY <2>1, ElementsOfTail, NotAgain DEF PlacedInv, QueueInv
  <2>3. /\ Elements(inbox)' = Elements(inbox)
        /\ Elements(jobs)' = Elements(jobs)
        /\ Elements(outbox)' = Elements(outbox')
    BY <2>1 DEF Elements
  <2> QED
    BY <2>1, <2>2, <2>3 DEF QueueInv
<1>6. CASE Worker
  <2>1. /\ UNCHANGED <<job, asked>>
        /\ Elements(inbox)' \subseteq Elements(inbox)
    BY <1>6, WorkerDoes DEF Elements
  <2>2. /\ Elements(jobs)' \subseteq Elements(jobs) \cup {Head(inbox).n}
        /\ \/ Elements(jobs)' = Elements(jobs)
           \/ asked[Head(inbox).n].op \in NetOps
    <3>1. Elements(jobs)' = Elements(jobs')
      BY DEF Elements
    <3>2. \/ jobs' = jobs
          \/ /\ asked[Head(inbox).n].op \in NetOps
             /\ Elements(jobs') = Elements(jobs) \cup {Head(inbox).n}
      BY <1>6, WorkerDoes
    <3> QED
      BY <3>1, <3>2
  <2>3. /\ \A r \in Elements(outbox)' : r.n \in answered'
        /\ \A i, j \in 1 .. Len(outbox') :
             outbox'[i].n = outbox'[j].n => i = j
    <3>1. CASE UNCHANGED <<outbox, answered>>
      BY <3>1 DEF QueueInv, Elements
    <3> QED
      BY <1>6, <3>1, WorkerDoes DEF Elements
  <2> QED
    BY <2>1, <2>2, <2>3 DEF QueueInv
<1>7. CASE TakeJob
  <2>1. /\ UNCHANGED <<asked, outbox, answered>>
        /\ Elements(jobs)' \subseteq Elements(jobs)
        /\ asked[Head(jobs)].op \in NetOps
    BY <1>7, JobTakes DEF QueueInv, Elements
  <2>2. \A e \in Elements(inbox)' :
          e.kind = "finished" => asked[e.n].op \in NetOps
    <3>1. \A e \in Elements(inbox') : e \in Elements(inbox) \/ e.n = Head(jobs)
      BY <1>7, JobTakes
    <3> QED
      BY <2>1, <3>1 DEF QueueInv, Elements
  <2>3. job' # None =>
          /\ asked[job'.n].op \in NetOps
          /\ job'.pc \in {"resolve", "select"} => asked[job'.n].op = "connect"
    BY <1>7, <2>1, JobTakes
  <2>4. Elements(outbox)' = Elements(outbox)
    BY <2>1 DEF Elements
  <2> QED
    BY <2>1, <2>2, <2>3, <2>4 DEF QueueInv
<1>8. CASE Resolve \/ Select \/ StartRecv \/ EndRecv
  <2>1. /\ job # None /\ UNCHANGED <<asked, outbox, answered, jobs>>
        /\ asked[job.n].op \in NetOps
    BY <1>8, JobWorked DEF QueueInv
  <2>2. \A e \in Elements(inbox)' :
          e.kind = "finished" => asked[e.n].op \in NetOps
    <3>1. \A e \in Elements(inbox') : e \in Elements(inbox) \/ e.n = job.n
      BY <1>8, JobWorked
    <3> QED
      BY <2>1, <3>1 DEF QueueInv, Elements
  <2>3. job' # None =>
          /\ asked[job'.n].op \in NetOps
          /\ job'.pc \in {"resolve", "select"} => asked[job'.n].op = "connect"
    BY <1>8, <2>1, JobWorked DEF QueueInv
  <2>4. /\ Elements(outbox)' = Elements(outbox)
        /\ Elements(jobs)' = Elements(jobs)
    BY <2>1 DEF Elements
  <2> QED
    BY <2>1, <2>2, <2>3, <2>4 DEF QueueInv
<1>9. ASSUME NEW k, DataArrives(k) PROVE QueueInv'
  BY <1>1, <1>9 DEF DataArrives, network, history
<1> QED
  BY <1>2, <1>3, <1>4, <1>5, <1>6, <1>7, <1>8, <1>9
  DEF Next, NetThread, Quiet

-----------------------------------------------------------------------------
(* Whose answer a call can return with.                                    *)

Waits(m)   == \E t \in Tasks : waiting[t] = m
Pending(m) == m \notin answered \/ \E r \in Elements(outbox) : r.n = m

(* A call whose answer is still to come is waited for, or will never be.   *)
OverInv ==
  \A m \in Calls : Pending(m) =>
    \/ Waits(m) \/ m \in gaveUp \/ Mistaken(m)
    \/ asked[m].run < session

(* Whose answer another call can take for its own.                         *)
Astray(m) ==
  \/ asked[m].run < session
  \/ m \in gaveUp \/ Mistaken(m) \/ IdRepeated(m)

(* What a call finds before it is sent is not its own answer.              *)
EarlyInv ==
  \A t \in Tasks : early[t] # None =>
    early[t].n \in Calls /\ Astray(early[t].n) /\ early[t].n # waiting[t]

Strayed(n, m) ==
  \/ asked[m].run < asked[n].run
  \/ m \in gaveUp \/ Mistaken(m) \/ IdRepeated(m)

AnswerInv ==
  \A n, m : <<n, m>> \in mistaken =>
    n \in Calls /\ m \in Calls /\ Strayed(n, m)

(* What has happened stays so.                                             *)
Grows ==
  /\ session \in Nat /\ session' \in Nat /\ session <= session'
  /\ Calls \subseteq Calls'
  /\ DOMAIN asked = Calls /\ DOMAIN asked' = Calls'
  /\ \A n \in Calls : asked'[n] = asked[n] /\ asked[n].run \in Nat
  /\ gaveUp \subseteq gaveUp' /\ mistaken \subseteq mistaken'
  /\ unsent \subseteq unsent'

(* No step takes anything of it back.                                      *)
LEMMA HistoryGrows ==
  ASSUME AskedInv, [Next]_vars
  PROVE  Grows
<1>1. AskedInv'
  BY AskedStep
<1>2. /\ session \in Nat /\ session' \in Nat
      /\ DOMAIN asked = Calls /\ DOMAIN asked' = Calls'
      /\ \A n \in Calls : asked[n].run \in Nat
  BY <1>1 DEF AskedInv, IsSeq, Calls
<1>3. ASSUME UNCHANGED <<session, asked>>, gaveUp \subseteq gaveUp',
             mistaken \subseteq mistaken', unsent \subseteq unsent'
      PROVE  Grows
  BY <1>2, <1>3 DEF Grows, Calls
<1>4. ASSUME NEW t \in Tasks,
             \/ Create(t) \/ Send(t) \/ Recv(t) \/ Close(t)
             \/ \E s \in Servers : Connect(t, s)
      PROVE  Grows
  <2>1. PICK op, server : Ask(t, op, server)
    BY <1>4 DEF Create, Send, Recv, Close, Connect
  <2>2. UNCHANGED <<session, gaveUp, mistaken, unsent>>
    BY <2>1 DEF Ask, returns
  <2>3. /\ Len(asked') = Len(asked) + 1 /\ Len(asked) \in Nat
        /\ \A n \in Calls : asked'[n] = asked[n]
    BY <2>1, AskAdds
  <2>4. Calls \subseteq Calls'
    BY <2>3 DEF Calls
  <2> QED
    BY <1>2, <2>2, <2>3, <2>4 DEF Grows
<1>5. ASSUME NEW t \in Tasks, Begin(t) \/ SendFails(t) \/ GiveUp(t)
      PROVE  Grows
  BY <1>3, <1>5 DEF Begin, SendFails, GiveUp, sockets, returns, history
<1>6. ASSUME NEW t \in Tasks, WakeEarly(t) PROVE Grows
  BY <1>3, <1>6, WakeEarlyDoes DEF ReturnWith
<1>7. CASE Deliver
  BY <1>3, <1>7, DeliverDoes DEF ReturnWith, Swallowed
<1>8. CASE Restart
  <2>1. /\ session' = session + 1 /\ gaveUp \subseteq gaveUp'
        /\ UNCHANGED <<asked, mistaken, unsent>>
    BY <1>8 DEF Restart, returns
  <2> QED
    BY <1>2, <2>1 DEF Grows, Calls
<1>9. CASE Worker
  BY <1>3, <1>9 DEF Worker, DispatchCreate, DispatchSend, DispatchClose,
                    DispatchJob, DispatchFinished, Dispatch, firmware
<1>10. CASE NetThread
  BY <1>3, <1>10 DEF NetThread, TakeJob, Resolve, Select, StartRecv, EndRecv,
                     NetStep, firmware, history
<1>11. ASSUME NEW k, DataArrives(k) PROVE Grows
  BY <1>3, <1>11 DEF DataArrives, firmware, history
<1>12. CASE UNCHANGED vars
  BY <1>3, <1>12 DEF vars, firmware, history
<1> QED
  BY <1>4, <1>5, <1>6, <1>7, <1>8, <1>9, <1>10, <1>11, <1>12 DEF Next

(* An id that is repeated stays so, and a call that was mistaken.          *)
LEMMA RepeatedOn ==
  ASSUME Grows, NEW m \in Calls
  PROVE  /\ IdRepeated(m) => IdRepeated(m)'
         /\ Mistaken(m) => Mistaken(m)'
         /\ m \in Calls' /\ asked'[m] = asked[m]
<1>1. ASSUME IdRepeated(m) PROVE IdRepeated(m)'
  <2>1. CASE <<asked[m].run, asked[m].id>> \in unsent
    BY <2>1 DEF Grows, IdRepeated
  <2>2. CASE \E k \in Calls : /\ k # m /\ asked[k].run = asked[m].run
                              /\ asked[k].id = asked[m].id
    <3>1. PICK k \in Calls : /\ k # m /\ asked[k].run = asked[m].run
                             /\ asked[k].id = asked[m].id
      BY <2>2
    <3>2. /\ k \in DOMAIN asked' /\ asked'[k].run = asked'[m].run
          /\ asked'[k].id = asked'[m].id
      BY <3>1 DEF Grows
    <3> QED
      BY <3>1, <3>2 DEF IdRepeated
  <2> QED
    BY <1>1, <2>1, <2>2 DEF IdRepeated, Grows
<1>2. ASSUME Mistaken(m) PROVE Mistaken(m)'
  BY <1>2 DEF Mistaken, Grows
<1> QED
  BY <1>1, <1>2 DEF Grows

(* An answer that is astray stays so.                                      *)
LEMMA AstrayOn ==
  ASSUME Grows, NEW m \in Calls, Astray(m)
  PROVE  m \in Calls' /\ Astray(m)'
<1>1. asked[m].run < session => asked'[m].run < session'
  <2>1. PICK a, b, c : a = asked[m].run /\ b = session /\ c = session'
    OBVIOUS
  <2>2. a \in Nat /\ b \in Nat /\ c \in Nat /\ b <= c
    BY <2>1 DEF Grows
  <2>3. a < b => a < c
    BY <2>2
  <2> QED
    BY <2>1, <2>3, RepeatedOn
<1> QED
  BY <1>1, RepeatedOn DEF Astray, Grows

(* A response that waits at the host is of a call.                         *)
LEMMA HeadIs ==
  ASSUME AskedInv, PlacedInv, outbox # <<>>
  PROVE  /\ Head(outbox) \in Elements(outbox)
         /\ Head(outbox).n \in Calls /\ Pending(Head(outbox).n)
         /\ Head(outbox).id = asked[Head(outbox).n].id
         /\ Head(outbox).id # 0
BY ElementsAreCalls DEF AskedInv, Pending

(* Who takes the answer to another call and has sent its own.              *)
LEMMA WaitingTakes ==
  ASSUME AskedInv, SlotInv, PlacedInv, outbox # <<>>,
         NEW t \in Tasks, Takes(t), waiting[t] # Head(outbox).n
  PROVE  Astray(Head(outbox).n)
<1> DEFINE n == waiting[t]
           m == Head(outbox).n
<1>1. m \in Calls /\ Head(outbox).id = asked[m].id
  BY HeadIs
<1>2. n \in Calls /\ asked[n].run = session
  BY DEF Takes, AskedInv
<1>3. asked[n].id = asked[m].id
  BY <1>1 DEF Takes, Taker, SlotInv
<1>4. Calls = DOMAIN asked
  BY DEF AskedInv, IsSeq, Calls
<1>5. asked[m].run < session \/ asked[m].run = session
  BY <1>1 DEF AskedInv
<1> QED
  BY <1>1, <1>2, <1>3, <1>4, <1>5 DEF Astray, IdRepeated

(* Who takes it and has not.                                               *)
LEMMA EarlyTakes ==
  ASSUME AskedInv, SlotInv, TagInv, PlacedInv, OverInv, outbox # <<>>,
         NEW t \in Tasks, TakesEarly(t)
  PROVE  Astray(Head(outbox).n)
<1> DEFINE m == Head(outbox).n
           s == slot[t]
<1>1. /\ m \in Calls /\ asked[m].id # 0 /\ s_pending[s] = asked[m].id
      /\ Pending(m) /\ s \in Slots /\ s # None /\ waiting[t] = 0
  BY HeadIs DEF TakesEarly, Taker, SlotInv
<1>2. Calls = DOMAIN asked
  BY DEF AskedInv, IsSeq, Calls
<1>3. asked[m].run < session \/ asked[m].run = session
  BY <1>1 DEF AskedInv
<1>4. CASE <<session, s_pending[s]>> \in unsent
  BY <1>1, <1>3, <1>4 DEF Astray, IdRepeated
<1>5. ASSUME NEW k \in Calls, Owner(s, k) PROVE Astray(m)
  <2>1. CASE k # m
    BY <1>1, <1>2, <1>3, <1>5, <2>1 DEF Astray, IdRepeated, Owner
  <2>2. CASE k = m
    <3>1. ~Waits(m)
      <4> SUFFICES ASSUME NEW u \in Tasks, waiting[u] = m PROVE FALSE
        BY DEF Waits
      <4>1. slot[u] = s
        BY <1>5, <2>2 DEF Owner
      <4>2. u = t
        BY <1>1, <4>1 DEF SlotInv
      <4> QED
        BY <1>1, <4>2 DEF Calls
    <3> QED
      BY <1>1, <3>1 DEF OverInv, Astray
  <2> QED
    BY <2>1, <2>2
<1> QED
  BY <1>1, <1>4, <1>5 DEF TagInv

(* A task leaves its call.                                                 *)
LEMMA WaitLeft ==
  ASSUME AskedInv, NEW t \in Tasks, Leave(t)
  PROVE  /\ waiting'[t] = 0
         /\ \A u \in Tasks : u # t => waiting'[u] = waiting[u]
BY DEF Leave, AskedInv

-----------------------------------------------------------------------------
(* The steps of these invariants.                                          *)

(* A call that returns with the answer to another is mistaken.             *)
LEMMA ReturnMistakes ==
  ASSUME Grows, NEW t \in Tasks, NEW r, ReturnWith(t, r),
         r.n # waiting[t], r.n \in Calls, NEW m, m = waiting[t]
  PROVE  Mistaken(m)'
<1>1. mistaken' = mistaken \cup ({<<waiting[t], r.n>>} \ {<<r.n, r.n>>})
  BY DEF ReturnWith
<1>2. <<m, r.n>> \in mistaken'
  BY <1>1
<1>3. r.n \in DOMAIN asked'
  BY DEF Grows
<1> QED
  BY <1>2, <1>3 DEF Mistaken

(* A call that is no longer waited for has its answer, or never will.      *)
LEMMA OverReturn ==
  ASSUME AskedInv, OverInv, Grows, NEW t \in Tasks, NEW r, ReturnWith(t, r),
         r.n \in Calls, UNCHANGED <<asked, session, gaveUp, answered>>,
         Elements(outbox') \subseteq Elements(outbox),
         r.n = waiting[t] => \A q \in Elements(outbox') : q.n # r.n,
         r.n = waiting[t] => r.n \in answered
  PROVE  OverInv'
<1>1. Leave(t)
  BY DEF ReturnWith
<1> SUFFICES ASSUME NEW m \in Calls', Pending(m)'
             PROVE  \/ Waits(m)' \/ m \in gaveUp' \/ Mistaken(m)'
                    \/ asked'[m].run < session'
  BY DEF OverInv
<1>2. m \in Calls /\ Pending(m)
  BY DEF Calls, Pending, Elements
<1>3. CASE m = waiting[t]
  <2>1. r.n # m
    BY <1>3 DEF Pending, Elements
  <2> QED
    BY <1>3, <2>1, ReturnMistakes
<1>4. CASE m # waiting[t]
  <2>1. Waits(m) => Waits(m)'
    BY <1>1, <1>4, WaitLeft DEF Waits
  <2> QED
    BY <1>2, <2>1, RepeatedOn DEF OverInv
<1> QED
  BY <1>3, <1>4

(* Where nobody stops to wait and nothing is new.                          *)
LEMMA OverKept ==
  ASSUME OverInv, Grows, Calls' = Calls, waiting' = waiting,
         \A m \in Calls : Pending(m)' => Pending(m)
  PROVE  OverInv'
<1> SUFFICES ASSUME NEW m \in Calls', Pending(m)'
             PROVE  \/ Waits(m)' \/ m \in gaveUp' \/ Mistaken(m)'
                    \/ asked'[m].run < session'
  BY DEF OverInv
<1>1. m \in Calls /\ Pending(m)
  OBVIOUS
<1>2. Waits(m) => Waits(m)'
  BY DEF Waits
<1>3. asked[m].run < session => asked'[m].run < session'
  <2>1. PICK a, b, c : a = asked[m].run /\ b = session /\ c = session'
    OBVIOUS
  <2>2. a \in Nat /\ b \in Nat /\ c \in Nat /\ b <= c
    BY <1>1, <2>1 DEF Grows
  <2>3. a < b => a < c
    BY <2>2
  <2> QED
    BY <1>1, <2>1, <2>3, RepeatedOn
<1> QED
  BY <1>1, <1>2, <1>3, RepeatedOn DEF OverInv, Grows

(* The inductive step of OverInv.                                          *)
LEMMA OverStep ==
  ASSUME AskedInv, SlotInv, PlacedInv, OneInv, QueueInv, OverInv, EarlyInv,
         [Next]_vars
  PROVE  OverInv'
<1>1. Grows
  BY HistoryGrows
<1>2. ASSUME UNCHANGED <<asked, waiting, outbox, answered>>
      PROVE  OverInv'
  BY <1>1, <1>2, OverKept DEF Calls, Pending, Elements
<1>3. ASSUME NEW t \in Tasks,
             \/ Create(t) \/ Send(t) \/ Recv(t) \/ Close(t)
             \/ \E s \in Servers : Connect(t, s)
      PROVE  OverInv'
  <2>1. PICK op, server : Ask(t, op, server)
    BY <1>3 DEF Create, Send, Recv, Close, Connect
  <2>2. /\ Calls' = Calls \cup {Len(asked')} /\ waiting[t] = 0
        /\ waiting' = [waiting EXCEPT ![t] = Len(asked')]
        /\ waiting \in [Tasks -> Nat]
    BY <2>1, AskNames DEF AskedInv
  <2>3. UNCHANGED <<outbox, answered, session>>
    BY <2>1 DEF Ask
  <2> SUFFICES ASSUME NEW m \in Calls', Pending(m)'
               PROVE  \/ Waits(m)' \/ m \in gaveUp' \/ Mistaken(m)'
                      \/ asked'[m].run < session'
    BY DEF OverInv
  <2>4. CASE m = Len(asked')
    <3>1. waiting'[t] = m
      BY <2>2, <2>4
    <3> QED
      BY <3>1 DEF Waits
  <2>5. CASE m \in Calls
    <3>1. Pending(m)
      BY <2>3 DEF Pending, Elements
    <3>2. Waits(m) => Waits(m)'
      <4> SUFFICES ASSUME NEW u \in Tasks, waiting[u] = m PROVE Waits(m)'
        BY DEF Waits
      <4>1. u # t
        BY <2>2, <2>5 DEF Calls
      <4>2. waiting'[u] = m
        BY <2>2, <4>1
      <4> QED
        BY <4>2 DEF Waits
    <3>3. asked'[m] = asked[m]
      BY <1>1, <2>5 DEF Grows
    <3> QED
      BY <1>1, <2>3, <2>5, <3>1, <3>2, <3>3, RepeatedOn DEF OverInv, Grows
  <2> QED
    BY <2>2, <2>4, <2>5
<1>4. ASSUME NEW t \in Tasks, Begin(t) \/ SendFails(t) PROVE OverInv'
  BY <1>2, <1>4, NotSentYet DEF NotSent
<1>5. ASSUME NEW t \in Tasks, GiveUp(t) PROVE OverInv'
  <2>1. /\ gaveUp' = gaveUp \cup {waiting[t]} /\ Leave(t)
        /\ UNCHANGED <<asked, session, outbox, answered>>
    BY <1>5 DEF GiveUp
  <2>2. \A u \in Tasks : u # t => waiting'[u] = waiting[u]
    BY <2>1, WaitLeft
  <2> SUFFICES ASSUME NEW m \in Calls', Pending(m)'
               PROVE  \/ Waits(m)' \/ m \in gaveUp' \/ Mistaken(m)'
                      \/ asked'[m].run < session'
    BY DEF OverInv
  <2>3. m \in Calls /\ Pending(m)
    BY <2>1 DEF Calls, Pending, Elements
  <2>4. Waits(m) => Waits(m)' \/ m \in gaveUp'
    BY <2>1, <2>2 DEF Waits
  <2> QED
    BY <1>1, <2>1, <2>3, <2>4, RepeatedOn DEF OverInv
<1>6. ASSUME NEW t \in Tasks, WakeEarly(t) PROVE OverInv'
  <2>1. PICK r : r = early[t]
    OBVIOUS
  <2>2. r.n # waiting[t] /\ r.n \in Calls /\ ReturnWith(t, r)
    BY <1>6, <2>1, WakeEarlyDoes DEF EarlyInv
  <2>3. UNCHANGED <<asked, session, gaveUp, answered, outbox>>
    BY <1>6, WakeEarlyDoes
  <2> QED
    BY <1>1, <2>2, <2>3, OverReturn DEF Elements
<1>7. CASE Deliver
  <2>1. /\ outbox # <<>> /\ outbox' = Tail(outbox)
        /\ UNCHANGED <<asked, session, gaveUp, answered>>
    BY <1>7, DeliverDoes
  <2>2. /\ Elements(outbox') \subseteq Elements(outbox)
        /\ \A q \in Elements(outbox') : q.n # Head(outbox).n
    BY <2>1, ElementsOfTail, NotAgain DEF PlacedInv, QueueInv
  <2>3. Head(outbox).n \in Calls /\ Head(outbox).n \in answered
    BY <2>1, HeadIs DEF QueueInv
  <2>4. ASSUME NEW t \in Tasks, Takes(t), ReturnWith(t, Head(outbox))
        PROVE  OverInv'
    <3>1. PICK r : r = Head(outbox)
      OBVIOUS
    <3> QED
      BY <1>1, <2>1, <2>2, <2>3, <2>4, <3>1, OverReturn
  <2>5. CASE Swallowed
    <3>1. waiting' = waiting
      BY <2>5 DEF Swallowed
    <3>2. \A m \in Calls : Pending(m)' => Pending(m)
      BY <2>1, <2>2 DEF Pending, Elements
    <3> QED
      BY <1>1, <2>1, <3>1, <3>2, OverKept DEF Calls
  <2> QED
    BY <1>7, <2>4, <2>5, DeliverDoes
<1>8. CASE Restart
  <2>1. session' = session + 1 /\ asked' = asked
    BY <1>8 DEF Restart
  <2>2. \A m \in Calls' : asked'[m].run < session'
    BY <2>1 DEF AskedInv, Calls
  <2> QED
    BY <2>2 DEF OverInv
<1>9. CASE Worker
  <2> DEFINE n == Head(inbox).n
  <2>1. /\ n \in Calls /\ n \notin answered
        /\ UNCHANGED <<asked, waiting>>
        /\ \/ UNCHANGED <<outbox, answered>>
           \/ /\ answered' = answered \cup {n}
              /\ \E r : /\ r.n = n
                        /\ Elements(outbox') = Elements(outbox) \cup {r}
    BY <1>9, WorkerDoes DEF sockets
  <2> HIDE DEF n
  <2>2. \A m \in Calls : Pending(m)' => Pending(m)
    <3>1. CASE UNCHANGED <<outbox, answered>>
      BY <3>1 DEF Pending, Elements
    <3>2. CASE /\ answered' = answered \cup {n}
               /\ \E r : /\ r.n = n
                         /\ Elements(outbox') = Elements(outbox) \cup {r}
      <4>1. \A m : (\E r \in Elements(outbox)' : r.n = m) =>
                     m = n \/ \E r \in Elements(outbox) : r.n = m
        BY <3>2 DEF Elements
      <4> QED
        BY <2>1, <3>2, <4>1 DEF Pending
    <3> QED
      BY <2>1, <3>1, <3>2
  <2> QED
    BY <1>1, <2>1, <2>2, OverKept DEF Calls
<1>10. CASE NetThread
  BY <1>2, <1>10 DEF NetThread, TakeJob, Resolve, Select, StartRecv, EndRecv,
                     NetStep, firmware, history
<1>11. ASSUME NEW k, DataArrives(k) PROVE OverInv'
  BY <1>2, <1>11 DEF DataArrives, firmware, history
<1>12. CASE UNCHANGED vars
  BY <1>2, <1>12 DEF vars, firmware, history
<1> QED
  BY <1>3, <1>4, <1>5, <1>6, <1>7, <1>8, <1>9, <1>10, <1>11, <1>12 DEF Next

(* The inductive step of EarlyInv.                                         *)
LEMMA EarlyStep ==
  ASSUME AskedInv, SlotInv, TagInv, PlacedInv, OneInv, QueueInv, OverInv,
         EarlyInv, [Next]_vars
  PROVE  EarlyInv'
<1>1. Grows
  BY HistoryGrows
<1>2. ASSUME \A u \in Tasks :
               \/ early'[u] = None
               \/ /\ early'[u] = early[u]
                  /\ waiting'[u] = waiting[u] \/ waiting'[u] \notin Calls
      PROVE  EarlyInv'
  <2> SUFFICES ASSUME NEW u \in Tasks, early'[u] # None
               PROVE  /\ early'[u].n \in Calls' /\ Astray(early[u].n)'
                      /\ early'[u].n # waiting'[u]
    BY DEF EarlyInv
  <2>1. PICK m : m = early[u].n
    OBVIOUS
  <2>2. /\ early'[u].n = m /\ m \in Calls /\ Astray(m) /\ m # waiting'[u]
    BY <1>2, <2>1 DEF EarlyInv
  <2>3. m \in Calls' /\ Astray(m)'
    BY <1>1, <2>2, AstrayOn
  <2> QED
    BY <2>2, <2>3 DEF Astray, IdRepeated, Mistaken
<1>3. ASSUME UNCHANGED <<early, waiting>> PROVE EarlyInv'
  BY <1>2, <1>3
<1>4. ASSUME NEW t \in Tasks,
             \/ Create(t) \/ Send(t) \/ Recv(t) \/ Close(t)
             \/ \E s \in Servers : Connect(t, s)
      PROVE  EarlyInv'
  <2>1. PICK op, server : Ask(t, op, server)
    BY <1>4 DEF Create, Send, Recv, Close, Connect
  <2>2. /\ Len(asked') \notin Calls /\ early' = early
        /\ waiting' = [waiting EXCEPT ![t] = Len(asked')]
        /\ waiting \in [Tasks -> Nat]
    BY <2>1, AskNames DEF Ask, AskedInv
  <2>3. \A u \in Tasks : waiting'[u] = waiting[u] \/ waiting'[u] \notin Calls
    BY <2>2
  <2> QED
    BY <1>2, <2>2, <2>3
<1>5. ASSUME NEW t \in Tasks, Begin(t) PROVE EarlyInv'
  BY <1>3, <1>5 DEF Begin, sockets
<1>6. ASSUME NEW t \in Tasks, SendFails(t) PROVE EarlyInv'
  <2>1. /\ slot' = [slot EXCEPT ![t] = None]
        /\ early' = [early EXCEPT ![t] = None] /\ waiting' = waiting
    BY <1>6 DEF SendFails, sockets
  <2>2. early'[t] = None /\ \A u \in Tasks : u # t => early'[u] = early[u]
    BY <2>1, SlotLeft
  <2> QED
    BY <1>2, <2>1, <2>2
<1>7. ASSUME NEW t \in Tasks, Leave(t) PROVE EarlyInv'
  <2>1. /\ slot' = [slot EXCEPT ![t] = None]
        /\ early' = [early EXCEPT ![t] = None]
    BY <1>7 DEF Leave
  <2>2. early'[t] = None /\ \A u \in Tasks : u # t => early'[u] = early[u]
    BY <2>1, SlotLeft
  <2> QED
    BY <1>2, <1>7, <2>2, WaitLeft
<1>8. ASSUME NEW t \in Tasks, GiveUp(t) \/ WakeEarly(t) PROVE EarlyInv'
  BY <1>7, <1>8 DEF GiveUp, WakeEarly, ReturnWith
<1>9. CASE Deliver
  <2>1. outbox # <<>>
    BY <1>9, DeliverDoes
  <2>2. ASSUME NEW t \in Tasks, ReturnWith(t, Head(outbox)) PROVE EarlyInv'
    BY <1>7, <2>2 DEF ReturnWith
  <2>3. CASE Swallowed /\ early' = early
    BY <1>3, <2>3 DEF Swallowed
  <2>4. ASSUME Swallowed, NEW t \in Tasks, TakesEarly(t) PROVE EarlyInv'
    <3>1. PICK m : m = Head(outbox).n
      OBVIOUS
    <3>2. m \in Calls /\ Astray(m)
      BY <2>1, <2>4, <3>1, HeadIs, EarlyTakes
    <3>3. m \in Calls' /\ Astray(m)'
      BY <1>1, <3>2, AstrayOn
    <3>4. waiting' = waiting /\ waiting[t] = 0
      BY <2>4 DEF Swallowed, TakesEarly
    <3>5. early'[t].n = m /\ \A u \in Tasks : u # t => early'[u] = early[u]
      <4>1. PICK f, r : f = early /\ r = Head(outbox)
        OBVIOUS
      <4>2. f = [u \in Tasks |-> f[u]] /\ early' = [f EXCEPT ![t] = r]
        BY <2>4, <4>1 DEF SlotInv, TakesEarly
      <4>3. early'[t] = r /\ \A u \in Tasks : u # t => early'[u] = f[u]
        BY <4>2
      <4> QED
        BY <3>1, <4>1, <4>3
    <3> SUFFICES ASSUME NEW u \in Tasks, early'[u] # None
                 PROVE  /\ early'[u].n \in Calls' /\ Astray(early[u].n)'
                        /\ early'[u].n # waiting'[u]
      BY DEF EarlyInv
    <3>6. CASE u = t
      <4>1. early'[u].n = m /\ waiting'[u] = 0
        BY <3>4, <3>5, <3>6
      <4>2. m # 0
        BY <3>2 DEF Calls
      <4>3. Astray(early[u].n)'
        BY <3>3, <4>1 DEF Astray, IdRepeated, Mistaken
      <4> QED
        BY <3>3, <4>1, <4>2, <4>3
    <3>7. CASE u # t
      <4>1. PICK k : k = early[u].n
        OBVIOUS
      <4>2. /\ early'[u].n = k /\ k \in Calls /\ Astray(k)
            /\ k # waiting'[u]
        BY <3>4, <3>5, <3>7, <4>1 DEF EarlyInv
      <4>3. k \in Calls' /\ Astray(k)'
        BY <1>1, <4>2, AstrayOn
      <4> QED
        BY <4>2, <4>3 DEF Astray, IdRepeated, Mistaken
    <3> QED
      BY <3>6, <3>7
  <2> QED
    BY <1>9, <2>2, <2>3, <2>4, DeliverDoes DEF Swallowed
<1>10. CASE Restart
  BY <1>2, <1>10 DEF Restart
<1>11. CASE Worker
  BY <1>3, <1>11, WorkerDoes DEF sockets
<1>12. CASE NetThread
  BY <1>3, <1>12 DEF NetThread, TakeJob, Resolve, Select, StartRecv, EndRecv,
                     NetStep, firmware, history
<1>13. ASSUME NEW k, DataArrives(k) PROVE EarlyInv'
  BY <1>3, <1>13 DEF DataArrives, firmware, history
<1>14. CASE UNCHANGED vars
  BY <1>3, <1>14 DEF vars, firmware, history
<1> QED
  BY <1>4, <1>5, <1>6, <1>8, <1>9, <1>10, <1>11, <1>12, <1>13, <1>14 DEF Next

(* A call returns with its own answer or with one that is astray.          *)
LEMMA AnswerReturn ==
  ASSUME AskedInv, AnswerInv, Grows, NEW t \in Tasks, waiting[t] # 0,
         NEW r, ReturnWith(t, r), UNCHANGED <<asked, session>>,
         r.n \in Calls, r.n # waiting[t] => Astray(r.n)
  PROVE  AnswerInv'
<1> SUFFICES ASSUME NEW n, NEW m, <<n, m>> \in mistaken'
             PROVE  n \in Calls' /\ m \in Calls' /\ Strayed(n, m)'
  BY DEF AnswerInv
<1>1. mistaken' = mistaken \cup ({<<waiting[t], r.n>>} \ {<<r.n, r.n>>})
  BY DEF ReturnWith
<1>2. CASE <<n, m>> \in mistaken
  <2>1. n \in Calls /\ m \in Calls /\ Strayed(n, m)
    BY <1>2 DEF AnswerInv
  <2> QED
    BY <2>1, RepeatedOn DEF Strayed, Grows
<1>3. CASE n = waiting[t] /\ m = r.n /\ n # m
  <2>1. n \in Calls /\ asked[n].run = session /\ m \in Calls /\ Astray(m)
    BY <1>3 DEF AskedInv
  <2>2. Astray(m)' /\ m \in Calls' /\ n \in Calls'
    BY <2>1, AstrayOn, RepeatedOn
  <2>3. asked'[n].run = session'
    BY <2>1
  <2> QED
    BY <2>2, <2>3 DEF Strayed, Astray
<1> QED
  BY <1>1, <1>2, <1>3

(* The inductive step of AnswerInv.                                        *)
LEMMA AnswerStep ==
  ASSUME AskedInv, SlotInv, TagInv, PlacedInv, OneInv, QueueInv, OverInv,
         EarlyInv, AnswerInv, [Next]_vars
  PROVE  AnswerInv'
<1>1. Grows
  BY HistoryGrows
<1>2. ASSUME UNCHANGED mistaken PROVE AnswerInv'
  <2> SUFFICES ASSUME NEW n, NEW m, <<n, m>> \in mistaken'
               PROVE  n \in Calls' /\ m \in Calls' /\ Strayed(n, m)'
    BY DEF AnswerInv
  <2>1. n \in Calls /\ m \in Calls /\ Strayed(n, m)
    BY <1>2 DEF AnswerInv
  <2> QED
    BY <1>1, <2>1, RepeatedOn DEF Strayed, Grows
<1>3. ASSUME NEW t \in Tasks,
             \/ Create(t) \/ Send(t) \/ Recv(t) \/ Close(t)
             \/ \E s \in Servers : Connect(t, s)
      PROVE  AnswerInv'
  BY <1>2, <1>3 DEF Create, Send, Recv, Close, Connect, Ask, returns
<1>4. ASSUME NEW t \in Tasks, Begin(t) \/ SendFails(t) \/ GiveUp(t)
      PROVE  AnswerInv'
  BY <1>2, <1>4 DEF Begin, SendFails, GiveUp, returns
<1>5. ASSUME NEW t \in Tasks, WakeEarly(t) PROVE AnswerInv'
  <2>1. PICK r : r = early[t]
    OBVIOUS
  <2>2. r.n \in Calls /\ Astray(r.n)
    BY <1>5, <2>1, WakeEarlyDoes DEF EarlyInv
  <2> QED
    BY <1>1, <1>5, <2>1, <2>2, WakeEarlyDoes, AnswerReturn
<1>6. CASE Deliver
  <2>1. outbox # <<>> /\ UNCHANGED <<asked, session>>
    BY <1>6, DeliverDoes
  <2>2. CASE Swallowed
    BY <1>2, <2>2 DEF Swallowed
  <2>3. ASSUME NEW t \in Tasks, Takes(t), ReturnWith(t, Head(outbox))
        PROVE  AnswerInv'
    <3>1. PICK r : r = Head(outbox)
      OBVIOUS
    <3>2. r.n \in Calls /\ waiting[t] # 0
      BY <2>1, <2>3, <3>1, HeadIs DEF Takes
    <3>3. r.n # waiting[t] => Astray(r.n)
      BY <2>1, <2>3, <3>1, WaitingTakes
    <3> QED
      BY <1>1, <2>1, <2>3, <3>1, <3>2, <3>3, AnswerReturn
  <2> QED
    BY <1>6, <2>2, <2>3, DeliverDoes
<1>7. CASE Restart
  BY <1>2, <1>7 DEF Restart, returns
<1>8. CASE Worker
  BY <1>2, <1>8, WorkerDoes
<1>9. CASE NetThread
  BY <1>2, <1>9 DEF NetThread, TakeJob, Resolve, Select, StartRecv, EndRecv,
                    NetStep, firmware
<1>10. ASSUME NEW k, DataArrives(k) PROVE AnswerInv'
  BY <1>2, <1>10 DEF DataArrives, firmware
<1>11. CASE UNCHANGED vars
  BY <1>2, <1>11 DEF vars, firmware
<1> QED
  BY <1>3, <1>4, <1>5, <1>6, <1>7, <1>8, <1>9, <1>10, <1>11 DEF Next

(* All of it.                                                              *)
CallInv == OverInv /\ EarlyInv /\ AnswerInv

(* The inductive step.                                                     *)
LEMMA CallStep ==
  ASSUME NetInv, QueueInv, CallInv, [Next]_vars
  PROVE  CallInv'
BY OverStep, EarlyStep, AnswerStep DEF NetInv, CallInv

-----------------------------------------------------------------------------
(* Who has an entry of the table.                                          *)

(* Where nobody gets an entry, the others are apart as before.             *)
LEMMA OwnLess ==
  ASSUME PlacedInv, OwnInv,
         \A t \in Tasks : Holds(t)' =>
           /\ Holds(t) /\ handle'[t] = handle[t] /\ HasCtx(handle[t])',
         \A n \in Calls' : Closes(n)' =>
           /\ n \in Calls /\ Closes(n) /\ asked'[n].sock = asked[n].sock
           /\ HasCtx(asked[n].sock)',
         \A r \in Elements(outbox') : Created(r)' =>
           r \in Elements(outbox) /\ Created(r) /\ HasCtx(r.sock)'
  PROVE  OwnInv'
<1>1. ASSUME NEW n \in Calls', NEW h, OnItsWay(n, h)'
      PROVE  n \in Calls /\ OnItsWay(n, h)
  <2>1. CASE Closes(n)' /\ asked'[n].sock = h
    BY <2>1 DEF OnItsWay
  <2>2. CASE ~(Closes(n)' /\ asked'[n].sock = h)
    <3>1. PICK r \in Elements(outbox') : r.n = n /\ Created(r)' /\ r.sock = h
      BY <1>1, <2>2 DEF OnItsWay, Elements, Created
    <3> QED
      BY <3>1, ElementsAreCalls DEF OnItsWay
  <2> QED
    BY <2>1, <2>2
<1>2. \A r \in Elements(outbox)' : Created(r)' => HasCtx(r.sock)'
  BY DEF Elements
<1>3. \A t \in Tasks, n \in Calls' : Holds(t)' => ~OnItsWay(n, handle[t])'
  <2> SUFFICES ASSUME NEW t \in Tasks, NEW n \in Calls', Holds(t)',
                      OnItsWay(n, handle[t])'
               PROVE  FALSE
    OBVIOUS
  <2>1. PICK h : h = handle'[t]
    OBVIOUS
  <2>2. OnItsWay(n, h)'
    BY <2>1 DEF OnItsWay
  <2>3. n \in Calls /\ OnItsWay(n, h)
    BY <1>1, <2>2
  <2>4. Holds(t) /\ h = handle[t]
    BY <2>1
  <2> QED
    BY <2>3, <2>4 DEF OwnInv
<1>4. \A m, n \in Calls', h \in Handles :
        OnItsWay(m, h)' /\ OnItsWay(n, h)' => m = n
  BY <1>1 DEF OwnInv
<1>5. \A t, u \in Tasks :
        Holds(t)' /\ Holds(u)' /\ handle'[t] = handle'[u] => t = u
  BY DEF OwnInv
<1> QED
  BY <1>2, <1>3, <1>4, <1>5 DEF OwnInv

(* An entry in use has a socket.                                           *)
LEMMA EntryIs ==
  ASSUME TableInv, NEW h, HasCtx(h)
  PROVE  h \in Handles /\ s_net_ctx[h].raw_sock \in 1 .. Len(os)
BY DEF TableInv, HasCtx

(* What the worker does to create a socket.                                *)
LEMMA CreateDoes ==
  ASSUME PlacedInv, OneInv, QueueInv, TableInv, DispatchCreate
  PROVE  /\ asked[Head(inbox).n].op = "create" /\ Head(inbox).n \in Calls
         /\ Head(inbox).n \notin answered
         /\ answered' = answered \cup {Head(inbox).n}
         /\ UNCHANGED <<sockets, job, jobs, asked, gaveUp>>
         /\ Elements(inbox') \subseteq Elements(inbox)
         /\ \E r :
              /\ r.n = Head(inbox).n
              /\ Elements(outbox') = Elements(outbox) \cup {r}
              /\ \/ r.ret # 0 /\ UNCHANGED table
                 \/ /\ r.ret = 0 /\ r.sock \in Handles /\ ~HasCtx(r.sock)
                    /\ HasCtx(r.sock)' /\ Peer(r.sock)' = None
                    /\ \A g : HasCtx(g) => HasCtx(g)' /\ Peer(g)' = Peer(g)
<1> DEFINE n == Head(inbox).n
<1>1. /\ inbox # <<>> /\ inbox' = Tail(inbox) /\ asked[n].op = "create"
      /\ UNCHANGED <<sockets, job, jobs, asked, gaveUp>>
  BY DEF DispatchCreate, Dispatch, firmware, sockets
<1>2. /\ n \in Calls /\ n \notin answered
      /\ Elements(inbox') \subseteq Elements(inbox)
  BY <1>1, WorkerTakes
<1>3. ASSUME NEW sock, NEW ret, Post(n, currentId', sock, ret)
      PROVE  /\ answered' = answered \cup {n}
             /\ \E r : /\ r.n = n /\ r.sock = sock /\ r.ret = ret
                       /\ Elements(outbox') = Elements(outbox) \cup {r}
  <2> HIDE DEF n
  <2> QED
    BY <1>2, <1>3, PostQueues
<1> DEFINE Made(h) ==
             /\ os' = Append(os, [open |-> TRUE, peer |-> None,
                                  data |-> FALSE])
             /\ s_net_ctx' = [s_net_ctx EXCEPT
                                ![h] = [in_use |-> TRUE,
                                        raw_sock |-> Len(os')]]
             /\ Post(n, currentId', h, 0)
<1>4. CASE Post(n, currentId', None, -1) /\ UNCHANGED table
  <2>2. -1 # 0
    OBVIOUS
  <2> QED
    BY <1>1, <1>2, <1>3, <1>4, <2>2
<1>5. CASE \E h \in Free : Made(h)
  <2>1. PICK h \in Free : Made(h)
    BY <1>5
  <2>2. PICK e : e = [open |-> TRUE, peer |-> None, data |-> FALSE]
    OBVIOUS
  <2>3. e.peer = None /\ os' = Append(os, e)
    BY <2>1, <2>2
  <2>4. /\ Len(os) \in Nat /\ Len(os') = Len(os) + 1
        /\ \A i \in 1 .. Len(os) : os'[i] = os[i]
        /\ os'[Len(os')] = e
    BY <2>3, AppendToSeq DEF TableInv
  <2>5. h \in Handles /\ ~HasCtx(h)
    BY DEF Free, HasCtx
  <2>6. /\ s_net_ctx'[h].in_use /\ s_net_ctx'[h].raw_sock = Len(os')
        /\ \A g \in Handles : g # h => s_net_ctx'[g] = s_net_ctx[g]
    BY <2>1, <2>5 DEF TableInv
  <2>7. HasCtx(h)' /\ Peer(h)' = None
    BY <2>3, <2>4, <2>5, <2>6 DEF HasCtx, Peer, Handles
  <2>8. ASSUME NEW g, HasCtx(g) PROVE HasCtx(g)' /\ Peer(g)' = Peer(g)
    <3>1. g # h /\ g \in Handles /\ s_net_ctx[g].raw_sock \in 1 .. Len(os)
      BY <2>5, <2>8, EntryIs
    <3>2. s_net_ctx'[g] = s_net_ctx[g]
      BY <2>6, <3>1
    <3> QED
      BY <2>4, <2>8, <3>1, <3>2 DEF HasCtx, Peer, Handles
  <2> HIDE DEF n
  <2>9. PICK r : /\ r.n = n /\ r.sock = h /\ r.ret = 0
                 /\ Elements(outbox') = Elements(outbox) \cup {r}
    BY <1>3, <2>1
  <2>10. HasCtx(r.sock)' /\ Peer(r.sock)' = None
    BY <2>7, <2>9
  <2> QED
    BY <1>1, <1>2, <1>3, <2>1, <2>5, <2>8, <2>9, <2>10 DEF n
<1>6. \/ Post(n, currentId', None, -1) /\ UNCHANGED table
      \/ \E h \in Free : Made(h)
  BY DEF DispatchCreate
<1> QED
  BY <1>4, <1>5, <1>6

(* What it does to close one.                                              *)
LEMMA CloseDoes ==
  ASSUME TableInv, DispatchClose
  PROVE  \A g : HasCtx(g) /\ g # asked[Head(inbox).n].sock =>
           HasCtx(g)' /\ Peer(g)' = Peer(g)
<1> DEFINE h == asked[Head(inbox).n].sock
<1> SUFFICES ASSUME NEW g, HasCtx(g), g # h
             PROVE  HasCtx(g)' /\ Peer(g)' = Peer(g)
  OBVIOUS
<1>1. CASE ~HasCtx(h)
  <2>1. UNCHANGED <<os, s_net_ctx>>
    BY <1>1 DEF DispatchClose, table
  <2> QED
    BY <2>1 DEF HasCtx, Peer
<1>2. CASE HasCtx(h)
  <2> DEFINE k == s_net_ctx[h].raw_sock
  <2>1. /\ os' = [os EXCEPT ![k].open = FALSE]
        /\ s_net_ctx' = [s_net_ctx EXCEPT
             ![h] = [in_use |-> FALSE, raw_sock |-> INVALID_SOCKET]]
    BY <1>2 DEF DispatchClose
  <2>2. k \in 1 .. Len(os) /\ h \in Handles
    BY <1>2, EntryIs
  <2>3. g \in Handles /\ s_net_ctx[g].raw_sock \in 1 .. Len(os)
    BY EntryIs
  <2>4. s_net_ctx'[g] = s_net_ctx[g]
    BY <2>1, <2>2, <2>3 DEF TableInv
  <2>5. s_net_ctx[g].raw_sock # k
    BY <1>2, <2>3 DEF TableInv, HasCtx
  <2> HIDE DEF k, h
  <2>6. os'[s_net_ctx[g].raw_sock] = os[s_net_ctx[g].raw_sock]
    BY <2>1, <2>2, <2>3, <2>5 DEF TableInv, IsSeq
  <2> QED
    BY <2>3, <2>4, <2>6 DEF HasCtx, Peer, Handles
<1> QED
  BY <1>1, <1>2

(* Nobody gets an entry, and the table loses none.                         *)
LEMMA OwnKept ==
  ASSUME PlacedInv, OwnInv,
         \A t \in Tasks : Holds(t)' => Holds(t) /\ handle'[t] = handle[t],
         \A n \in Calls' : Closes(n)' =>
           n \in Calls /\ Closes(n) /\ asked'[n].sock = asked[n].sock,
         \A r \in Elements(outbox') : Created(r)' =>
           r \in Elements(outbox) /\ Created(r),
         s_net_ctx' = s_net_ctx
  PROVE  OwnInv'
<1>1. \A t \in Tasks : Holds(t)' => HasCtx(handle[t])'
  BY DEF HasCtx, OwnInv
<1>2. \A n \in Calls' : Closes(n)' => HasCtx(asked[n].sock)'
  BY DEF HasCtx, OwnInv
<1>3. \A r \in Elements(outbox') : Created(r)' => HasCtx(r.sock)'
  BY DEF HasCtx, OwnInv
<1> QED
  BY <1>1, <1>2, <1>3, OwnLess

(* The close moves the entry from the task to the request.                 *)
LEMMA CloseAskOwns ==
  ASSUME AskedInv, PlacedInv, OneInv, HeldInv, OwnInv, NEW t \in Tasks,
         Close(t)
  PROVE  OwnInv'
<1>0. PICK c : c = Len(asked')
  OBVIOUS
<1>1. Ask(t, "close", None) /\ handle[t] # None /\ waiting[t] = 0
  BY AskNames DEF Close
<1>2. /\ asked'[c].op = "close" /\ asked'[c].sock = handle[t]
      /\ Calls' = Calls \cup {c} /\ c \notin Calls /\ c # 0
      /\ waiting' = [waiting EXCEPT ![t] = c]
      /\ UNCHANGED handle
  BY <1>0, <1>1, AskNames
<1>3. \A n \in Calls : asked'[n] = asked[n]
  BY <1>1, AskAdds
<1>4. UNCHANGED <<outbox, answered, s_net_ctx>>
  BY <1>1, AskQueues
<1>5. Holds(t)
  BY <1>1 DEF Holds, Closing
<1>6. ~Holds(t)'
  <2>1. waiting'[t] = c
    BY <1>2 DEF AskedInv
  <2> QED
    BY <1>2, <2>1 DEF Holds, Closing
<1>7. ASSUME NEW u \in Tasks, u # t PROVE Holds(u)' <=> Holds(u)
  <2>1. waiting'[u] = waiting[u] /\ waiting[u] \in Nat
    BY <1>2, <1>7 DEF AskedInv
  <2>2. waiting[u] # 0 => asked'[waiting[u]] = asked[waiting[u]]
    BY <1>3 DEF AskedInv
  <2> QED
    BY <1>2, <2>1, <2>2 DEF Holds, Closing
<1>8. /\ \A n \in Calls : Closes(n)' <=> Closes(n)
      /\ \A r \in Elements(outbox) : Created(r)' <=> Created(r)
      /\ Elements(outbox)' = Elements(outbox)
      /\ \A h : HasCtx(h)' <=> HasCtx(h)
  BY <1>3, <1>4, ElementsAreCalls DEF Closes, Created, HasCtx, Elements
<1>9. \A n \in Calls : \A h : OnItsWay(n, h)' <=> OnItsWay(n, h)
  BY <1>3, <1>8 DEF OnItsWay
<1>10. \A h : OnItsWay(c, h)' => h = handle[t]
  <2>1. \A r \in Elements(outbox) : r.n # c
    BY <1>2, ElementsAreCalls
  <2> QED
    BY <1>2, <1>8, <2>1 DEF OnItsWay
<1>11. \A u \in Tasks : Holds(u)' => HasCtx(handle[u])'
  BY <1>2, <1>4, <1>6, <1>7 DEF OwnInv, HasCtx
<1>12. \A n \in Calls' : Closes(n)' => HasCtx(asked[n].sock)'
  BY <1>2, <1>3, <1>4, <1>5, <1>8 DEF OwnInv, HasCtx
<1>13. \A r \in Elements(outbox)' : Created(r)' => HasCtx(r.sock)'
  BY <1>8 DEF OwnInv
<1>14. \A u, v \in Tasks :
         Holds(u)' /\ Holds(v)' /\ handle'[u] = handle'[v] => u = v
  BY <1>2, <1>6, <1>7 DEF OwnInv
<1>15. \A u \in Tasks, n \in Calls' :
         Holds(u)' => ~OnItsWay(n, handle[u])'
  <2> SUFFICES ASSUME NEW u \in Tasks, NEW n \in Calls', Holds(u)',
                      OnItsWay(n, handle[u])'
               PROVE  FALSE
    OBVIOUS
  <2>1. PICK h : h = handle[u]
    OBVIOUS
  <2>2. OnItsWay(n, h)'
    BY <1>2, <2>1 DEF OnItsWay
  <2>3. Holds(u) /\ u # t
    BY <1>6, <1>7
  <2>4. CASE n \in Calls
    BY <1>9, <2>1, <2>2, <2>3, <2>4 DEF OwnInv
  <2>5. CASE n = c
    BY <1>5, <1>10, <2>1, <2>2, <2>3, <2>5 DEF OwnInv
  <2> QED
    BY <1>2, <2>4, <2>5
<1>16. \A m, n \in Calls', h \in Handles :
         OnItsWay(m, h)' /\ OnItsWay(n, h)' => m = n
  BY <1>2, <1>5, <1>9, <1>10 DEF OwnInv
<1> QED
  BY <1>11, <1>12, <1>13, <1>14, <1>15, <1>16 DEF OwnInv

(* Where no call has the answer to another, a response finds the task that *)
(* waits for it.                                                           *)
LEMMA DeliverOne ==
  ASSUME AskedInv, SlotInv, PlacedInv, HeldInv, Deliver, mistaken' = {}
  PROVE  /\ outbox # <<>> /\ outbox' = Tail(outbox)
         /\ Head(outbox) \in Elements(outbox)
         /\ Elements(outbox') \subseteq Elements(outbox)
         /\ \A t \in Tasks : Takes(t) =>
              /\ waiting[t] = Head(outbox).n
              /\ asked[Head(outbox).n].task = t
<1>1. outbox # <<>> /\ outbox' = Tail(outbox)
  BY DeliverDoes
<1>2. Elements(outbox) = Elements(outbox') \cup {Head(outbox)}
  BY <1>1, ElementsOfTail DEF PlacedInv
<1>3. ASSUME NEW t \in Tasks, Takes(t)
      PROVE  waiting[t] = Head(outbox).n /\ asked[Head(outbox).n].task = t
  <2>1. PICK u \in Tasks : Takes(u) /\ waiting[u] = Head(outbox).n
    BY <1>3, DeliverOwn
  <2>2. t = u
    BY <1>3, <2>1, OneTaker DEF Takes
  <2> QED
    BY <1>3, <2>1, <2>2 DEF Takes, HeldInv
<1> QED
  BY <1>1, <1>2, <1>3

(* Nor does a call find the answer to another before it is sent.           *)
LEMMA NoneEarly ==
  ASSUME EarlyInv, mistaken' = {}, NEW t \in Tasks, WakeEarly(t)
  PROVE  FALSE
<1>1. early[t].n # waiting[t] /\ ReturnWith(t, early[t])
  BY WakeEarlyDoes DEF EarlyInv
<1>2. PICK n, m : n = waiting[t] /\ m = early[t].n
  OBVIOUS
<1>3. mistaken' = mistaken \cup ({<<n, m>>} \ {<<m, m>>}) /\ n # m
  BY <1>1, <1>2 DEF ReturnWith
<1>4. <<n, m>> # <<m, m>>
  BY <1>3
<1>5. PICK x, y : x = <<n, m>> /\ y = <<m, m>>
  OBVIOUS
<1>6. x # y /\ {} = mistaken \cup ({x} \ {y})
  BY <1>3, <1>4, <1>5
<1> QED
  BY <1>6

(* The task gets the entry of the response.                                *)
LEMMA DeliverOwns ==
  ASSUME AskedInv, SlotInv, PlacedInv, OneInv, HeldInv, QueueInv, OwnInv,
         Deliver, mistaken' = {}
  PROVE  OwnInv'
<1> DEFINE r == Head(outbox)
<1>1. /\ outbox # <<>> /\ outbox' = Tail(outbox) /\ r \in Elements(outbox)
      /\ Elements(outbox') \subseteq Elements(outbox)
      /\ UNCHANGED <<asked, answered, s_net_ctx>>
  BY DeliverOne, DeliverDoes
<1>2. \A q \in Elements(outbox') : q.n # r.n
  BY <1>1, NotAgain DEF PlacedInv, QueueInv
<1>3. /\ Calls' = Calls /\ \A n : Closes(n)' <=> Closes(n)
      /\ \A q : Created(q)' <=> Created(q)
      /\ \A h : HasCtx(h)' <=> HasCtx(h)
  BY <1>1 DEF Calls, Closes, Created, HasCtx
<1>4. ASSUME NEW u \in Tasks, ~Takes(u), handle'[u] = handle[u]
      PROVE  Holds(u)' <=> Holds(u)
  <2>1. waiting'[u] = waiting[u]
    BY <1>4, DeliverTaken
  <2> QED
    BY <1>1, <1>4, <2>1 DEF Holds, Closing
<1>5. CASE UNCHANGED <<handle, target>> /\ \A u \in Tasks : ~Takes(u)
  BY <1>1, <1>3, <1>4, <1>5, OwnKept
<1>6. ASSUME NEW t \in Tasks, Takes(t), Taken(t), OthersKeep(t)
      PROVE  OwnInv'
  <2>0. \A u \in Tasks : u # t => handle'[u] = handle[u]
    BY <1>6 DEF OthersKeep
  <2>1. /\ waiting[t] = r.n /\ r.n \in Calls /\ waiting[t] # 0
        /\ \A u \in Tasks : u # t => ~Takes(u)
    BY <1>1, <1>6, DeliverOne, ElementsAreCalls DEF Takes
  <2>2. waiting'[t] = 0
    BY <1>6, DeliverTaken
  <2>3. \A u \in Tasks : u # t => (Holds(u)' <=> Holds(u))
    BY <1>4, <2>0, <2>1
  <2>4. CASE handle'[t] = handle[t] /\ asked[r.n].op # "close"
    <3>1. Holds(t)' => Holds(t)
      BY <2>1, <2>2, <2>4 DEF Holds, Closing
    <3> QED
      BY <1>1, <1>3, <2>0, <2>3, <2>4, <3>1, OwnKept
  <2>5. CASE handle'[t] = None
    <3>1. ~Holds(t)'
      BY <2>5 DEF Holds
    <3> QED
      BY <1>1, <1>3, <2>0, <2>3, <3>1, OwnKept
  <2>6. CASE asked[r.n].op = "create" /\ r.ret = 0 /\ handle'[t] = r.sock
    <3>1. Created(r) /\ HasCtx(r.sock) /\ ~Closes(r.n)
      BY <1>1, <2>6 DEF Created, OwnInv, Closes
    <3> HIDE DEF r
    <3>2. r.sock \in Handles /\ OnItsWay(r.n, r.sock)
      BY <1>1, <3>1 DEF HasCtx, OnItsWay
    <3>3. \A n \in Calls : \A h : OnItsWay(n, h)' => OnItsWay(n, h) /\ n # r.n
      <4>1. \A q \in Elements(outbox)' : q \in Elements(outbox) /\ q.n # r.n
        BY <1>1, <1>2 DEF Elements
      <4> QED
        BY <1>1, <1>3, <3>1, <4>1 DEF OnItsWay
    <3>4. \A u \in Tasks : Holds(u)' => HasCtx(handle[u])'
      <4>1. \A u \in Tasks : Holds(u)' => HasCtx(handle'[u])
        BY <2>0, <2>3, <2>6, <3>1 DEF OwnInv
      <4> QED
        BY <1>1, <4>1 DEF HasCtx
    <3>5. \A n \in Calls' : Closes(n)' => HasCtx(asked[n].sock)'
      BY <1>1, <1>3 DEF OwnInv, HasCtx
    <3>6. \A q \in Elements(outbox)' : Created(q)' => HasCtx(q.sock)'
      BY <1>1, <1>3 DEF OwnInv, Elements
    <3>7. \A u, v \in Tasks :
            Holds(u)' /\ Holds(v)' /\ handle'[u] = handle'[v] => u = v
      BY <2>0, <2>1, <2>3, <2>6, <3>2 DEF OwnInv
    <3>8. \A u \in Tasks, n \in Calls' : Holds(u)' => ~OnItsWay(n, handle[u])'
      <4> SUFFICES ASSUME NEW u \in Tasks, NEW n \in Calls, Holds(u)',
                          OnItsWay(n, handle[u])'
                   PROVE  FALSE
        BY <1>3
      <4>1. PICK h : h = handle'[u]
        OBVIOUS
      <4>2. OnItsWay(n, h)'
        BY <4>1 DEF OnItsWay
      <4>3. OnItsWay(n, h) /\ n # r.n
        BY <3>3, <4>2
      <4> QED
        BY <2>0, <2>1, <2>3, <2>6, <3>2, <4>1, <4>3 DEF OwnInv
    <3>9. \A m, n \in Calls', h \in Handles :
            OnItsWay(m, h)' /\ OnItsWay(n, h)' => m = n
      BY <1>3, <3>3 DEF OwnInv
    <3> QED
      BY <3>4, <3>5, <3>6, <3>7, <3>8, <3>9 DEF OwnInv
  <2> QED
    BY <1>6, <2>1, <2>4, <2>5, <2>6 DEF Taken
<1> QED
  BY <1>5, <1>6, DeliverOwn

(* A call that closes nothing moves no entry.                              *)
LEMMA AskOwns ==
  ASSUME AskedInv, PlacedInv, OneInv, HeldInv, OwnInv, NEW t \in Tasks,
         NEW op, NEW server, Ask(t, op, server), op # "close"
  PROVE  /\ OwnInv'
         /\ \A u \in Tasks : Holds(u)' <=> Holds(u)
         /\ \A u \in Tasks : u # t => waiting'[u] = waiting[u]
         /\ waiting'[t] = Len(asked')
<1>1. PICK c : c = Len(asked')
  OBVIOUS
<1>2. /\ asked'[c].op = op /\ waiting[t] = 0
      /\ Calls' = Calls \cup {c} /\ c \notin Calls
      /\ waiting' = [waiting EXCEPT ![t] = c]
      /\ UNCHANGED handle
  BY <1>1, AskNames
<1>3. \A n \in Calls : asked'[n] = asked[n]
  BY AskAdds
<1>4. UNCHANGED <<outbox, answered, s_net_ctx>>
  BY AskQueues
<1>5. waiting'[t] = c /\ \A u \in Tasks : u # t => waiting'[u] = waiting[u]
  BY <1>2 DEF AskedInv
<1>6. ASSUME NEW u \in Tasks PROVE Holds(u)' <=> Holds(u)
  <2>1. CASE u = t
    BY <1>2, <1>5, <2>1 DEF Holds, Closing
  <2>2. CASE u # t
    <3>1. waiting[u] # 0 => asked'[waiting[u]] = asked[waiting[u]]
      BY <1>3 DEF AskedInv
    <3> QED
      BY <1>2, <1>5, <2>2, <3>1 DEF Holds, Closing
  <2> QED
    BY <2>1, <2>2
<1>7. \A n \in Calls' : Closes(n)' =>
        n \in Calls /\ Closes(n) /\ asked'[n].sock = asked[n].sock
  BY <1>2, <1>3, <1>4 DEF Closes
<1>8. \A r \in Elements(outbox') : Created(r)' =>
        r \in Elements(outbox) /\ Created(r)
  BY <1>3, <1>4, ElementsAreCalls DEF Created
<1> QED
  BY <1>1, <1>2, <1>4, <1>5, <1>6, <1>7, <1>8, OwnKept

(* Who gives up to close has let go before.                                *)
LEMMA GiveUpOwns ==
  ASSUME AskedInv, PlacedInv, HeldInv, OwnInv, NEW t \in Tasks, GiveUp(t)
  PROVE  /\ OwnInv'
         /\ \A u \in Tasks : Holds(u)' =>
              /\ Holds(u) /\ handle'[u] = handle[u]
              /\ target'[u] = target[u]
<1>1. /\ waiting[t] # 0 /\ waiting' = [waiting EXCEPT ![t] = 0]
      /\ Forgets(t, waiting[t])
      /\ UNCHANGED <<asked, outbox, answered, s_net_ctx>>
  BY DEF GiveUp, Leave, table
<1>2. waiting'[t] = 0 /\ \A u \in Tasks : u # t => waiting'[u] = waiting[u]
  BY <1>1 DEF AskedInv
<1>3. ASSUME NEW u \in Tasks, Holds(u)'
      PROVE  /\ Holds(u) /\ handle'[u] = handle[u]
             /\ target'[u] = target[u]
  <2>1. CASE u = t
    BY <1>1, <1>2, <1>3, <2>1, Forgotten DEF Holds, Closing
  <2>2. CASE u # t
    BY <1>1, <1>2, <1>3, <2>2, Forgotten DEF Holds, Closing
  <2> QED
    BY <2>1, <2>2
<1>4. /\ \A n \in Calls' : Closes(n)' =>
           n \in Calls /\ Closes(n) /\ asked'[n].sock = asked[n].sock
      /\ \A r \in Elements(outbox') : Created(r)' =>
           r \in Elements(outbox) /\ Created(r)
  BY <1>1 DEF Calls, Closes, Created
<1> QED
  BY <1>1, <1>3, <1>4, OwnKept

(* Steps of the host leave the tasks alone.                                *)
LEMMA HostHolds ==
  ASSUME UNCHANGED <<sockets, asked>>
  PROVE  /\ \A t \in Tasks : Holds(t)' <=> Holds(t)
         /\ Calls' = Calls /\ handle' = handle
         /\ \A r : Created(r)' <=> Created(r)
BY DEF firmware, sockets, Holds, Closing, Calls, Created

(* A new entry is nobody's yet.                                            *)
LEMMA CreateOwns ==
  ASSUME PlacedInv, OneInv, QueueInv, TableInv, OwnInv, DispatchCreate
  PROVE  OwnInv'
<1>1. /\ asked[Head(inbox).n].op = "create" /\ Head(inbox).n \in Calls
      /\ Head(inbox).n \notin answered
      /\ answered' = answered \cup {Head(inbox).n}
      /\ UNCHANGED <<sockets, asked>>
  BY CreateDoes
<1>2. PICK r :
        /\ r.n = Head(inbox).n
        /\ Elements(outbox') = Elements(outbox) \cup {r}
        /\ \/ r.ret # 0 /\ UNCHANGED table
           \/ /\ r.ret = 0 /\ r.sock \in Handles /\ ~HasCtx(r.sock)
              /\ HasCtx(r.sock)' /\ Peer(r.sock)' = None
              /\ \A g : HasCtx(g) => HasCtx(g)' /\ Peer(g)' = Peer(g)
  BY CreateDoes
<1>3. /\ \A t \in Tasks : Holds(t)' <=> Holds(t)
      /\ Calls' = Calls /\ handle' = handle
      /\ \A q : Created(q)' <=> Created(q)
  BY <1>1, HostHolds
<1>4. \A n \in Calls : Closes(n)' <=> Closes(n)
  BY <1>1 DEF Closes
<1>5. CASE ~Created(r)
  <2>1. UNCHANGED s_net_ctx
    BY <1>1, <1>2, <1>5 DEF Created, table
  <2>2. \A n \in Calls' : Closes(n)' =>
          n \in Calls /\ Closes(n) /\ asked'[n].sock = asked[n].sock
    BY <1>1, <1>3, <1>4
  <2>3. \A q \in Elements(outbox') : Created(q)' =>
          q \in Elements(outbox) /\ Created(q)
    BY <1>2, <1>3, <1>5
  <2> QED
    BY <1>3, <2>1, <2>2, <2>3, OwnKept
<1>6. CASE Created(r)
  <2>1. /\ r.sock \in Handles /\ ~HasCtx(r.sock) /\ HasCtx(r.sock)'
        /\ \A g : HasCtx(g) => HasCtx(g)'
    BY <1>2, <1>6 DEF Created
  <2>2. /\ \A t \in Tasks : Holds(t) => handle[t] # r.sock
        /\ \A n \in Calls : ~OnItsWay(n, r.sock)
    BY <2>1 DEF OwnInv, OnItsWay
  <2>3. \A n \in Calls : \A h :
          OnItsWay(n, h)' => OnItsWay(n, h) \/ (n = r.n /\ h = r.sock)
    <3>1. \A q \in Elements(outbox)' : q \in Elements(outbox) \/ q = r
      BY <1>2 DEF Elements
    <3> QED
      BY <1>1, <1>3, <1>4, <3>1 DEF OnItsWay
  <2>4. \A h : HasCtx(h) => HasCtx(h)'
    BY <2>1
  <2>5. \A t \in Tasks : Holds(t)' => HasCtx(handle[t])'
    <3>1. \A t \in Tasks : \A h : Holds(t)' /\ h = handle[t] => HasCtx(h)'
      BY <1>3, <2>4 DEF OwnInv
    <3> QED
      BY <1>3, <3>1 DEF HasCtx
  <2>6. \A n \in Calls' : Closes(n)' => HasCtx(asked[n].sock)'
    <3>1. \A n \in Calls : \A h :
            Closes(n)' /\ h = asked[n].sock => HasCtx(h)'
      BY <1>4, <2>4 DEF OwnInv
    <3> QED
      BY <1>1, <1>3, <3>1 DEF HasCtx
  <2>7. \A q \in Elements(outbox)' : Created(q)' => HasCtx(q.sock)'
    BY <1>2, <1>3, <2>1 DEF OwnInv, Elements
  <2>8. \A t, u \in Tasks :
          Holds(t)' /\ Holds(u)' /\ handle'[t] = handle'[u] => t = u
    BY <1>3 DEF OwnInv
  <2>9. \A t \in Tasks, n \in Calls' : Holds(t)' => ~OnItsWay(n, handle[t])'
    <3> SUFFICES ASSUME NEW t \in Tasks, NEW n \in Calls, Holds(t)',
                        OnItsWay(n, handle[t])'
                 PROVE  FALSE
      BY <1>3
    <3>1. PICK h : h = handle[t]
      OBVIOUS
    <3>2. OnItsWay(n, h)'
      BY <1>3, <3>1 DEF OnItsWay
    <3> QED
      BY <1>3, <2>2, <2>3, <3>1, <3>2 DEF OwnInv
  <2>10. \A m, n \in Calls', h \in Handles :
           OnItsWay(m, h)' /\ OnItsWay(n, h)' => m = n
    BY <1>3, <2>2, <2>3 DEF OwnInv
  <2> QED
    BY <2>5, <2>6, <2>7, <2>8, <2>9, <2>10 DEF OwnInv
<1> QED
  BY <1>5, <1>6

(* The worker closes what the request alone had.                           *)
LEMMA CloseOwns ==
  ASSUME PlacedInv, OneInv, QueueInv, TableInv, OwnInv, DispatchClose
  PROVE  /\ OwnInv'
         /\ \A t \in Tasks : Holds(t) => handle[t] # asked[Head(inbox).n].sock
         /\ \A r \in Elements(outbox) : Created(r) =>
              r.sock # asked[Head(inbox).n].sock
         /\ \A r \in Elements(outbox') : Created(r)' =>
              r \in Elements(outbox) /\ Created(r)
<1> DEFINE n == Head(inbox).n
<1>1. /\ n \in Calls /\ n \notin answered /\ asked[n].op = "close"
      /\ UNCHANGED <<sockets, asked>>
  BY WorkerDoes DEF Worker, DispatchClose, Dispatch
<1>2. \E r : r.n = n /\ Elements(outbox') = Elements(outbox) \cup {r}
  BY WorkerDoes, <1>1 DEF Worker, NetOps
<1>3. answered' = answered \cup {n}
  BY DEF DispatchClose, Post
<1>4. /\ \A t \in Tasks : Holds(t)' <=> Holds(t)
      /\ Calls' = Calls /\ handle' = handle
      /\ \A q : Created(q)' <=> Created(q)
  BY <1>1, HostHolds
<1>5. \A g : HasCtx(g) /\ g # asked[n].sock => HasCtx(g)'
  BY CloseDoes
<1> HIDE DEF n
<1>6. OnItsWay(n, asked[n].sock) /\ HasCtx(asked[n].sock)
  BY <1>1 DEF OnItsWay, Closes, OwnInv
<1>7. asked[n].sock \in Handles
  BY <1>6 DEF HasCtx
<1>8. /\ \A t \in Tasks : Holds(t) => handle[t] # asked[n].sock
      /\ \A r \in Elements(outbox) : Created(r) => r.sock # asked[n].sock
      /\ \A m \in Calls : Closes(m) /\ m # n => asked[m].sock # asked[n].sock
  <2>1. \A r \in Elements(outbox) : Created(r) =>
          r.n # n /\ r.n \in Calls /\ OnItsWay(r.n, r.sock)
    BY <1>1, ElementsAreCalls DEF Created, OnItsWay
  <2>2. \A m \in Calls : Closes(m) => OnItsWay(m, asked[m].sock)
    BY DEF OnItsWay
  <2> QED
    BY <1>1, <1>6, <1>7, <2>1, <2>2 DEF OwnInv
<1>9. \A r \in Elements(outbox') : Created(r)' =>
        r \in Elements(outbox) /\ Created(r)
  BY <1>1, <1>2, <1>4 DEF Created
<1>10. \A m \in Calls : Closes(m)' => Closes(m) /\ m # n
  BY <1>1, <1>3 DEF Closes
<1>11. \A t \in Tasks : Holds(t)' => HasCtx(handle[t])'
  <2>1. \A t \in Tasks : \A h : Holds(t)' /\ h = handle[t] => HasCtx(h)'
    BY <1>4, <1>5, <1>8 DEF OwnInv
  <2> QED
    BY <1>4, <2>1 DEF HasCtx
<1>12. \A m \in Calls' : Closes(m)' => HasCtx(asked[m].sock)'
  <2>1. \A m \in Calls : \A h :
          Closes(m)' /\ h = asked[m].sock => HasCtx(h)'
    BY <1>5, <1>8, <1>10 DEF OwnInv
  <2> QED
    BY <1>1, <1>4, <2>1 DEF HasCtx
<1>13. \A r \in Elements(outbox') : Created(r)' => HasCtx(r.sock)'
  BY <1>5, <1>8, <1>9 DEF OwnInv
<1>14. OwnInv'
  <2>1. \A t \in Tasks : Holds(t)' =>
          Holds(t) /\ handle'[t] = handle[t] /\ HasCtx(handle[t])'
    BY <1>4, <1>11
  <2>2. \A m \in Calls' : Closes(m)' =>
          /\ m \in Calls /\ Closes(m) /\ asked'[m].sock = asked[m].sock
          /\ HasCtx(asked[m].sock)'
    BY <1>1, <1>4, <1>10, <1>12
  <2> QED
    BY <1>9, <1>13, <2>1, <2>2, OwnLess
<1> QED
  BY <1>8, <1>9, <1>14 DEF n

(* The inductive step of OwnInv, in the first run of the firmware.         *)
LEMMA OwnStep ==
  ASSUME NetInv, HeldInv, QueueInv, EarlyInv, OwnInv, [Next]_vars,
         session = 1, session' = 1, mistaken' = {}
  PROVE  OwnInv'
<1>0. /\ AskedInv /\ SlotInv /\ PlacedInv /\ TableInv /\ JobInv
      /\ OneInv
  BY DEF NetInv
<1>1. ASSUME UNCHANGED <<sockets, asked, outbox, answered, s_net_ctx>>
      PROVE  OwnInv'
  <2>1. /\ \A t \in Tasks : Holds(t)' <=> Holds(t)
        /\ Calls' = Calls /\ handle' = handle
        /\ \A q : Created(q)' <=> Created(q)
    BY <1>1, HostHolds
  <2>2. \A n : Closes(n)' <=> Closes(n)
    BY <1>1 DEF Closes
  <2> QED
    BY <1>0, <1>1, <2>1, <2>2, OwnKept
<1>2. ASSUME NEW t \in Tasks,
             \/ Create(t) \/ Send(t) \/ Recv(t)
             \/ \E s \in Servers : Connect(t, s)
      PROVE  OwnInv'
  <2>1. PICK op, server : Ask(t, op, server) /\ op # "close"
    BY <1>2 DEF Create, Send, Recv, Connect
  <2> QED
    BY <1>0, <2>1, AskOwns
<1>3. ASSUME NEW t \in Tasks, Close(t) PROVE OwnInv'
  BY <1>0, <1>3, CloseAskOwns
<1>4. ASSUME NEW t \in Tasks, GiveUp(t) PROVE OwnInv'
  BY <1>0, <1>4, GiveUpOwns
<1>5. CASE Deliver
  BY <1>0, <1>5, DeliverOwns
<1>6. CASE Restart
  BY <1>6 DEF Restart
<1>7. CASE DispatchCreate
  BY <1>0, <1>7, CreateOwns
<1>8. CASE DispatchClose
  BY <1>0, <1>8, CloseOwns
<1>9. CASE Worker /\ ~DispatchCreate /\ ~DispatchClose
  <2> DEFINE n == Head(inbox).n
             k == Head(inbox).kind
  <2>1. UNCHANGED <<sockets, asked>> /\ n \in Calls
    BY <1>0, <1>9, WorkerDoes
  <2>2. /\ s_net_ctx' = s_net_ctx
        /\ answered \subseteq answered'
        /\ \/ outbox' = outbox
           \/ \E r : /\ r.n = n
                     /\ Elements(outbox') = Elements(outbox) \cup {r}
                     /\ asked[n].op # "create"
    <3>1. Head(inbox) \in Elements(inbox)
      BY <1>0, <1>9, WorkerDoes
    <3>2. k = "finished" => asked[n].op \in NetOps
      BY <3>1 DEF QueueInv
    <3>3. CASE UNCHANGED <<outbox, answered, table>>
      BY <3>3 DEF table
    <3>4. CASE ~UNCHANGED <<outbox, answered, table>>
      <4>1. answered' = answered \cup {n} /\ \E r :
              /\ r.n = n /\ Elements(outbox') = Elements(outbox) \cup {r}
              /\ \/ k = "finished" /\ UNCHANGED table
                 \/ asked[n].op = "send" /\ UNCHANGED table
        BY <1>0, <1>9, <3>4, WorkerDoes
      <4>2. "create" \notin NetOps
        BY DEF NetOps
      <4> HIDE DEF n, k
      <4> QED
        BY <3>2, <4>1, <4>2 DEF table
    <3> QED
      BY <3>3, <3>4
  <2> HIDE DEF n
  <2>3. /\ \A t \in Tasks : Holds(t)' <=> Holds(t)
        /\ Calls' = Calls /\ handle' = handle
        /\ \A q : Created(q)' <=> Created(q)
    BY <2>1, HostHolds
  <2>4. \A m : Closes(m)' => Closes(m)
    BY <2>1, <2>2 DEF Closes
  <2>5. \A r \in Elements(outbox') : Created(r)' =>
          r \in Elements(outbox) /\ Created(r)
    <3>1. CASE outbox' = outbox
      BY <2>3, <3>1
    <3>2. CASE outbox' # outbox
      BY <2>2, <2>3, <3>2 DEF Created
    <3> QED
      BY <3>1, <3>2
  <2> QED
    BY <1>0, <2>1, <2>2, <2>3, <2>4, <2>5, OwnKept
<1>10. CASE NetThread
  <2>1. UNCHANGED <<sockets, asked, outbox, answered, s_net_ctx>>
    BY <1>10 DEF NetThread, TakeJob, Resolve, Select, StartRecv, EndRecv,
                 NetStep, firmware, sockets, history, table
  <2> QED
    BY <1>1, <2>1
<1>11. ASSUME NEW k, DataArrives(k) PROVE OwnInv'
  BY <1>1, <1>11 DEF DataArrives, firmware, sockets, history
<1>12. CASE UNCHANGED vars
  BY <1>1, <1>12 DEF vars, firmware, sockets, history, table
<1>13. ASSUME NEW t \in Tasks, Begin(t) \/ SendFails(t) PROVE OwnInv'
  BY <1>1, <1>13, NotSentYet DEF NotSent, sockets
<1>14. ASSUME NEW t \in Tasks, WakeEarly(t) PROVE FALSE
  BY <1>14, NoneEarly
<1> QED
  BY <1>2, <1>3, <1>4, <1>5, <1>6, <1>7, <1>8, <1>9, <1>10, <1>11, <1>12,
     <1>13, <1>14
  DEF Next, Worker

-----------------------------------------------------------------------------
(* Who is connected to whom.                                               *)

(* Calls are only added.                                                   *)
LEMMA AskedGrows ==
  ASSUME AskedInv, [Next]_vars
  PROVE  Calls \subseteq Calls' /\ \A n \in Calls : asked'[n] = asked[n]
BY HistoryGrows DEF Grows

(* What is given up is added, too, and was asked.                          *)
LEMMA GaveUpGrows ==
  ASSUME AskedInv, gaveUp \subseteq Calls, [Next]_vars
  PROVE  gaveUp \subseteq gaveUp' /\ gaveUp' \subseteq Calls'
<1>0. Calls \subseteq Calls'
  BY AskedGrows
<1>1. ASSUME gaveUp' = gaveUp
      PROVE  gaveUp \subseteq gaveUp' /\ gaveUp' \subseteq Calls'
  BY <1>0, <1>1
<1>2. ASSUME NEW t \in Tasks,
             \/ Create(t) \/ Send(t) \/ Recv(t) \/ Close(t)
             \/ \E s \in Servers : Connect(t, s)
      PROVE  gaveUp' = gaveUp
  BY <1>2 DEF Create, Send, Recv, Close, Connect, Ask
<1>3. ASSUME NEW t \in Tasks, GiveUp(t)
      PROVE  gaveUp \subseteq gaveUp' /\ gaveUp' \subseteq Calls'
  <2>1. gaveUp' = gaveUp \cup {waiting[t]} /\ waiting[t] \in Calls
    BY <1>3 DEF GiveUp, AskedInv
  <2> QED
    BY <1>0, <2>1
<1>4. CASE Restart
  <2>1. gaveUp' = gaveUp \cup ({waiting[t] : t \in Tasks} \ {0})
    BY <1>4 DEF Restart
  <2> QED
    BY <1>0, <2>1 DEF AskedInv
<1>5. CASE Deliver \/ UNCHANGED vars
  BY <1>1, <1>5, DeliverDoes DEF vars, history
<1>6. CASE Worker
  BY <1>1, <1>6 DEF Worker, DispatchCreate, DispatchSend, DispatchClose,
                    DispatchJob, DispatchFinished, Dispatch
<1>7. CASE NetThread
  BY <1>1, <1>7 DEF NetThread, TakeJob, Resolve, Select, StartRecv, EndRecv,
                    NetStep, history
<1>8. ASSUME NEW k, DataArrives(k) PROVE gaveUp' = gaveUp
  BY <1>8 DEF DataArrives, history
<1>9. ASSUME NEW t \in Tasks, Begin(t) \/ SendFails(t) \/ WakeEarly(t)
      PROVE  gaveUp' = gaveUp
  BY <1>9, NotSentYet, WakeEarlyDoes DEF NotSent
<1> QED
  BY <1>1, <1>2, <1>3, <1>4, <1>5, <1>6, <1>7, <1>8, <1>9 DEF Next

(* Runs of the firmware are counted.                                       *)
LEMMA SessionGrows ==
  ASSUME AskedInv, HeldInv, [Next]_vars, session' = 1
  PROVE  session = 1 /\ ~Restart
<1>1. session \in Nat \ {0}
  BY DEF AskedInv, HeldInv
<1>2. ~Restart
  BY <1>1 DEF Restart
<1>3. session' = session
  <2>1. ASSUME NEW t \in Tasks,
               \/ Create(t) \/ Send(t) \/ Recv(t) \/ Close(t)
               \/ \E s \in Servers : Connect(t, s)
               \/ Quiet(t)
        PROVE  session' = session
    BY <2>1, QuietSteps DEF Create, Send, Recv, Close, Connect, Ask
  <2>2. CASE Deliver \/ UNCHANGED vars
    BY <2>2, DeliverDoes DEF vars, firmware, sockets
  <2>3. CASE Worker
    BY <2>3 DEF Worker, DispatchCreate, DispatchSend, DispatchClose,
                DispatchJob, DispatchFinished, Dispatch, firmware, sockets
  <2>4. CASE NetThread
    BY <2>4 DEF NetThread, TakeJob, Resolve, Select, StartRecv, EndRecv,
                NetStep, firmware, sockets
  <2>5. ASSUME NEW k, DataArrives(k) PROVE session' = session
    BY <2>5 DEF DataArrives, firmware, sockets
  <2> QED
    BY <1>2, <2>1, <2>2, <2>3, <2>4, <2>5 DEF Next, Quiet
<1> QED
  BY <1>2, <1>3

(* Impatience is never undone.                                             *)
LEMMA PatientBefore ==
  ASSUME AskedInv, HeldInv, gaveUp \subseteq Calls, [Next]_vars, Patient',
         AskedInv'
  PROVE  Patient
<1>1. Calls \subseteq Calls' /\ \A n \in Calls : asked'[n] = asked[n]
  BY AskedGrows
<1>2. session = 1
  BY SessionGrows DEF Patient
<1>3. ~GivenUp("connect")
  BY <1>1, GaveUpGrows DEF Patient, GivenUp
<1>4. ~Retried
  <2> SUFFICES ASSUME Retried PROVE FALSE
    OBVIOUS
  <2>1. DOMAIN asked = Calls /\ DOMAIN asked' = Calls'
    BY DEF AskedInv, IsSeq, Calls
  <2>2. PICK m \in Calls, n \in Calls :
          /\ m < n /\ asked[m].task = asked[n].task
          /\ asked[m].op = "connect" /\ asked[n].op = "connect"
          /\ \A k \in m .. n :
               asked[k].task = asked[m].task => asked[k].op # "create"
    BY <2>1 DEF Retried
  <2>3. m .. n \subseteq Calls
    BY DEF Calls, AskedInv
  <2>4. \A k \in m .. n :
          asked'[k].task = asked'[m].task => asked'[k].op # "create"
    BY <1>1, <2>2, <2>3
  <2>5. Retried'
    BY <1>1, <2>1, <2>2, <2>4 DEF Retried
  <2> QED
    BY <2>5 DEF Patient
<1>5. mistaken = {}
  BY HistoryGrows DEF Grows, Patient
<1> QED
  BY <1>2, <1>3, <1>4, <1>5 DEF Patient

(* The first connect on a socket.                                          *)
LEMMA ConnectIsFirst ==
  ASSUME AskedInv, AskedInv', NEW t \in Tasks, NEW server,
         Ask(t, "connect", server), ~Retried'
  PROVE  Fresh(t) /\ ~Fresh(t)'
<1>1. PICK c : c = Len(asked')
  OBVIOUS
<1>2. /\ asked'[c].op = "connect" /\ asked'[c].task = t
      /\ Calls' = Calls \cup {c} /\ c \in Nat /\ \A n \in Calls : n < c
  BY <1>1, AskNames
<1>3. \A n \in Calls : asked'[n] = asked[n]
  BY AskAdds
<1>4. \A n \in Calls : n \in Nat
  BY DEF Calls
<1>5. ~Fresh(t)'
  BY <1>2, <1>4 DEF Fresh
<1>6. ASSUME NEW n \in Calls, asked[n].task = t, asked[n].op = "connect",
             \A k \in Calls :
               ~(k > n /\ asked[k].task = t /\ asked[k].op = "create")
      PROVE  FALSE
  <2>1. DOMAIN asked' = Calls'
    BY DEF AskedInv, IsSeq, Calls
  <2>2. \A k \in n .. c : k = n \/ k = c \/ (k \in Calls /\ k > n)
    BY <1>1, <1>4, AskAdds DEF Calls
  <2>3. \A k \in n .. c : asked'[k].task = t => asked'[k].op # "create"
    BY <1>2, <1>3, <1>6, <2>2
  <2>4. Retried'
    BY <1>2, <1>3, <1>6, <2>1, <2>3 DEF Retried
  <2> QED
    BY <2>4
<1> QED
  BY <1>5, <1>6 DEF Fresh

(* Only a create of its own makes a task's socket fresh.                   *)
LEMMA FreshBefore ==
  ASSUME AskedInv, NEW t \in Tasks, NEW op, NEW server, Ask(t, op, server),
         NEW u \in Tasks, u # t \/ op # "create", Fresh(u)'
  PROVE  Fresh(u)
<1>1. PICK c : c = Len(asked')
  OBVIOUS
<1>2. /\ asked'[c].op = op /\ asked'[c].task = t
      /\ Calls' = Calls \cup {c}
  BY <1>1, AskNames
<1>3. \A n \in Calls : asked'[n] = asked[n]
  BY AskAdds
<1> QED
  BY <1>2, <1>3 DEF Fresh

(* What keeps the peers of the tasks.                                      *)
LEMMA PeerLess ==
  ASSUME PeerInv,
         \A t \in Tasks : Holds(t)' =>
           \/ /\ Holds(t) /\ Peer(handle[t])' = Peer(handle[t])
              /\ target'[t] \in {None, target[t], Peer(handle[t])}
              /\ Fresh(t)' => Fresh(t)
           \/ target'[t] = None /\ (Fresh(t)' => Peer(handle[t])' = None),
         \A r \in Elements(outbox') : Created(r)' =>
           \/ /\ r \in Elements(outbox) /\ Created(r)
              /\ Peer(r.sock)' = Peer(r.sock)
           \/ Peer(r.sock)' = None,
         \A t \in Tasks : Connecting(t)' => Linked(t)',
         \A n \in Calls' : n \notin answered' /\ asked'[n].op = "connect" =>
           waiting'[asked'[n].task] = n
  PROVE  PeerInv'
<1>1. ASSUME NEW t \in Tasks, Holds(t)', target'[t] # None
      PROVE  Peer(handle[t])' = target'[t]
  BY <1>1 DEF PeerInv
<1>2. ASSUME NEW t \in Tasks, Holds(t)', Fresh(t)'
      PROVE  Peer(handle[t])' = None
  BY <1>2 DEF PeerInv
<1>3. ASSUME NEW r \in Elements(outbox'), Created(r)'
      PROVE  Peer(r.sock)' = None
  BY <1>3 DEF PeerInv
<1>4. Elements(outbox') = Elements(outbox)'
  BY DEF Elements
<1> QED
  BY <1>1, <1>2, <1>3, <1>4 DEF PeerInv

(* What keeps a task linked.                                               *)
LEMMA LinkLess ==
  ASSUME PeerInv, NEW t \in Tasks, NEW n, n = waiting[t], Connecting(t),
         waiting'[t] = n, asked'[n] = asked[n], Fresh(t)' => Fresh(t),
         Peer(handle[t])' = Peer(handle[t]),
         Unresolved(n)' => Unresolved(n),
         InWork(n)' => InWork(n) \/ Unresolved(n),
         Succeeded(n)' => Succeeded(n) \/ Peer(handle[t]) = asked[n].server
  PROVE  Linked(t)'
<1>1. Linked(t)
  BY DEF PeerInv
<1>2. /\ ~Fresh(t)
      /\ Unresolved(n) => Peer(handle[t]) = None
      /\ InWork(n) => Peer(handle[t]) \in {None, asked[n].server}
      /\ Succeeded(n) => Peer(handle[t]) = asked[n].server
  BY <1>1 DEF Linked
<1>3. /\ ~Fresh(t)'
      /\ Unresolved(n)' => Peer(handle[t])' = None
      /\ InWork(n)' => Peer(handle[t])' \in {None, asked[n].server}
      /\ Succeeded(n)' => Peer(handle[t])' = asked[n].server
  BY <1>2
<1>4. ASSUME NEW m, m = waiting'[t]
      PROVE  m = n
  BY <1>4
<1> QED
  BY <1>3 DEF Linked

(* A task that connects holds its entry.                                   *)
LEMMA ConnectingHolds ==
  ASSUME HeldInv, NEW t \in Tasks, Connecting(t)
  PROVE  /\ Holds(t) /\ target[t] = None
         /\ asked[waiting[t]].task = t /\ asked[waiting[t]].sock = handle[t]
BY DEF HeldInv, Holds, Closing, Connecting

(* A step of the host that gives no task another peer.                     *)
LEMMA HostPeers ==
  ASSUME PeerInv, HeldInv, UNCHANGED <<sockets, asked>>,
         answered \subseteq answered',
         \A t \in Tasks : Holds(t) => Peer(handle[t])' = Peer(handle[t]),
         \A r \in Elements(outbox') : Created(r)' =>
           \/ /\ r \in Elements(outbox) /\ Created(r)
              /\ Peer(r.sock)' = Peer(r.sock)
           \/ Peer(r.sock)' = None,
         \A n : asked[n].op = "connect" /\ n \in Calls =>
           /\ Unresolved(n)' => Unresolved(n)
           /\ InWork(n)' => InWork(n) \/ Unresolved(n)
           /\ \/ Succeeded(n)' => Succeeded(n)
              \/ InWork(n) /\ Peer(asked[n].sock) # None,
         \A t \in Tasks : Connecting(t) => waiting[t] \in Calls
  PROVE  PeerInv'
<1>1. /\ \A t \in Tasks : Holds(t)' <=> Holds(t)
      /\ \A t \in Tasks : Fresh(t)' <=> Fresh(t)
      /\ \A t \in Tasks : Connecting(t)' <=> Connecting(t)
      /\ UNCHANGED <<handle, target, waiting, asked>> /\ Calls' = Calls
  BY HostHolds DEF Fresh, Connecting, firmware, sockets, Calls
<1>2. ASSUME NEW t \in Tasks, Connecting(t) PROVE Linked(t)'
  <2>1. PICK n : n = waiting[t]
    OBVIOUS
  <2>2. /\ n \in Calls /\ asked[n].op = "connect" /\ asked[n].sock = handle[t]
        /\ Holds(t)
    BY <1>2, <2>1, ConnectingHolds DEF Connecting
  <2>3. Succeeded(n)' => Succeeded(n) \/ Peer(handle[t]) = asked[n].server
    <3>1. InWork(n) => Peer(handle[t]) \in {None, asked[n].server}
      BY <1>2, <2>1 DEF PeerInv, Linked
    <3> QED
      BY <2>2, <3>1
  <2>4. waiting'[t] = n /\ asked'[n] = asked[n] /\ (Fresh(t)' => Fresh(t))
    BY <1>1, <2>1
  <2>5. /\ Unresolved(n)' => Unresolved(n)
        /\ InWork(n)' => InWork(n) \/ Unresolved(n)
        /\ Peer(handle[t])' = Peer(handle[t])
    BY <2>2
  <2> QED
    BY <1>2, <2>1, <2>3, <2>4, <2>5, LinkLess
<1>3. \A n \in Calls' : n \notin answered' /\ asked'[n].op = "connect" =>
        waiting'[asked'[n].task] = n
  BY <1>1 DEF PeerInv
<1> QED
  BY <1>1, <1>2, <1>3, PeerLess

(* A call that is asked for changes nothing for the others.                *)
LEMMA AskLinks ==
  ASSUME AskedInv, PlacedInv, HeldInv, PeerInv, NEW t \in Tasks, NEW op,
         NEW server, Ask(t, op, server)
  PROVE  /\ \A u \in Tasks : u # t /\ Connecting(u)' => Linked(u)'
         /\ \A n \in Calls : n \notin answered' /\ asked'[n].op = "connect" =>
              waiting'[asked'[n].task] = n
         /\ \A u \in Tasks : Peer(handle[u])' = Peer(handle[u])
         /\ \A r \in Elements(outbox') : Created(r)' =>
              /\ r \in Elements(outbox) /\ Created(r)
              /\ Peer(r.sock)' = Peer(r.sock)
         /\ \A n \in Calls : Succeeded(n)' => Succeeded(n)
         /\ ~Succeeded(Len(asked))'
<1>1. PICK c : c = Len(asked')
  OBVIOUS
<1>2. /\ Calls' = Calls \cup {c} /\ c \notin Calls
      /\ waiting[t] = 0 /\ waiting' = [waiting EXCEPT ![t] = c]
      /\ UNCHANGED <<handle, target>>
  BY <1>1, AskNames
<1>3. \A n \in Calls : asked'[n] = asked[n]
  BY AskAdds
<1>4. UNCHANGED <<jobs, job, outbox, answered, s_net_ctx, os>>
  BY AskQueues
<1>5. PICK e : /\ e.kind = "request" /\ e.n = c
               /\ Elements(inbox') = Elements(inbox) \cup {e}
  BY <1>1, AskQueues
<1>6. /\ \A i \in Elements(inbox) : i.n \in Calls
      /\ \A r \in Elements(outbox) : r.n \in Calls
  BY ElementsAreCalls
<1>7. /\ Elements(inbox)' = Elements(inbox) \cup {e}
      /\ Elements(outbox)' = Elements(outbox)
  BY <1>4, <1>5 DEF Elements
<1>8. \A u \in Tasks : Peer(handle[u])' = Peer(handle[u])
  BY <1>2, <1>4 DEF Peer
<1>9. ASSUME NEW n \in Calls
      PROVE  /\ Unresolved(n)' => Unresolved(n)
             /\ InWork(n)' => InWork(n)
             /\ Succeeded(n)' => Succeeded(n)
  <2>1. e.n # n /\ e.kind # "finished"
    BY <1>2, <1>5
  <2>2. InJobs(n)' => InJobs(n)
    BY <1>4 DEF InJobs
  <2>3. (InWork(n)' => InWork(n)) /\ job' = job
    BY <1>4 DEF InWork
  <2>4. Unresolved(n)' => Unresolved(n)
    BY <1>7, <2>1, <2>2, <2>3 DEF Unresolved
  <2>5. Succeeded(n)' => Succeeded(n)
    BY <1>7, <2>1 DEF Succeeded
  <2> QED
    BY <2>3, <2>4, <2>5
<1>10. ASSUME NEW u \in Tasks, u # t, Connecting(u)'
       PROVE  Linked(u)'
  <2>1. PICK n : n = waiting[u]
    OBVIOUS
  <2>2. waiting'[u] = n
    BY <1>2, <1>10, <2>1 DEF AskedInv
  <2>3. n # 0
    BY <1>10, <2>2 DEF Connecting
  <2>4. n \in Calls
    BY <2>1, <2>3 DEF AskedInv
  <2>5. asked'[n] = asked[n]
    BY <1>3, <2>4
  <2>6. Connecting(u)
    BY <1>10, <2>1, <2>2, <2>5 DEF Connecting
  <2>7. Fresh(u)' => Fresh(u)
    BY <1>10, FreshBefore
  <2> QED
    BY <1>8, <1>9, <2>1, <2>2, <2>4, <2>5, <2>6, <2>7, LinkLess
<1>11. ASSUME NEW n \in Calls, n \notin answered', asked'[n].op = "connect"
       PROVE  waiting'[asked'[n].task] = n
  <2>1. waiting[asked[n].task] = n /\ asked'[n] = asked[n]
    BY <1>3, <1>4, <1>11 DEF PeerInv
  <2>2. asked[n].task \in Tasks /\ n # 0
    BY <1>11 DEF HeldInv, Calls
  <2>3. asked[n].task # t
    BY <1>2, <2>1, <2>2
  <2> QED
    BY <1>2, <2>1, <2>2, <2>3 DEF AskedInv
<1>12. ASSUME NEW r \in Elements(outbox'), Created(r)'
       PROVE  /\ r \in Elements(outbox) /\ Created(r)
              /\ Peer(r.sock)' = Peer(r.sock)
  <2>1. r \in Elements(outbox) /\ r.n \in Calls
    BY <1>4, <1>6, <1>12
  <2>2. Created(r)
    BY <1>3, <1>12, <2>1 DEF Created
  <2> QED
    BY <1>4, <2>1, <2>2 DEF Peer
<1>13. ~Succeeded(Len(asked))'
  <2>1. \A m : m = c => ~Succeeded(m)'
    BY <1>2, <1>5, <1>6, <1>7 DEF Succeeded
  <2> QED
    BY <1>1, <2>1
<1> QED
  BY <1>8, <1>9, <1>10, <1>11, <1>12, <1>13

(* A call other than connect.                                              *)
LEMMA AskPeers ==
  ASSUME AskedInv, PlacedInv, OneInv, HeldInv, OwnInv, PeerInv,
         NEW t \in Tasks, NEW op, NEW server, Ask(t, op, server),
         op # "connect", op = "create" => handle[t] = None
  PROVE  PeerInv'
<1>1. PICK c : c = Len(asked')
  OBVIOUS
<1>2. /\ asked'[c].op = op /\ asked'[c].task = t
      /\ Calls' = Calls \cup {c}
      /\ waiting[t] = 0 /\ waiting' = [waiting EXCEPT ![t] = c]
      /\ UNCHANGED <<handle, target>>
  BY <1>1, AskNames
<1>3. waiting'[t] = c /\ \A u \in Tasks : u # t => waiting'[u] = waiting[u]
  BY <1>2 DEF AskedInv
<1>4. \A u \in Tasks : Holds(u)' => Holds(u)
  <2>1. Holds(t)' => Holds(t)
    BY <1>2 DEF Holds, Closing
  <2>2. ASSUME NEW u \in Tasks, u # t, Holds(u)' PROVE Holds(u)
    <3>1. waiting[u] # 0 => asked'[waiting[u]] = asked[waiting[u]]
      BY AskAdds DEF AskedInv
    <3>2. Closing(u) => Closing(u)'
      BY <1>3, <2>2, <3>1 DEF Closing
    <3> QED
      BY <1>2, <2>2, <3>2 DEF Holds
  <2> QED
    BY <2>1, <2>2
<1>5. ASSUME NEW u \in Tasks, Holds(u)'
      PROVE  /\ Holds(u) /\ Peer(handle[u])' = Peer(handle[u])
             /\ target'[u] = target[u]
             /\ Fresh(u)' => Fresh(u)
  <2>1. u # t \/ op # "create"
    BY <1>2, <1>5 DEF Holds
  <2> QED
    BY <1>2, <1>4, <1>5, <2>1, FreshBefore, AskLinks
<1>6. ASSUME NEW u \in Tasks, Connecting(u)' PROVE Linked(u)'
  <2>1. u # t
    BY <1>2, <1>3, <1>6 DEF Connecting
  <2> QED
    BY <1>6, <2>1, AskLinks
<1>7. \A n \in Calls' : n \notin answered' /\ asked'[n].op = "connect" =>
        waiting'[asked'[n].task] = n
  BY <1>2, AskLinks
<1>8. \A r \in Elements(outbox') : Created(r)' =>
        /\ r \in Elements(outbox) /\ Created(r)
        /\ Peer(r.sock)' = Peer(r.sock)
  BY AskLinks
<1> QED
  BY <1>5, <1>6, <1>7, <1>8, PeerLess

(* The connect of a task that was patient: its socket has no peer yet.     *)
LEMMA ConnectPeers ==
  ASSUME AskedInv, AskedInv', PlacedInv, OneInv, HeldInv, OwnInv, PeerInv,
         NEW t \in Tasks, NEW server, Ask(t, "connect", server), ~Retried',
         handle[t] # None, target[t] = None
  PROVE  PeerInv'
<1>1. PICK c : c = Len(asked')
  OBVIOUS
<1>2. /\ asked'[c].task = t /\ Calls' = Calls \cup {c}
      /\ waiting[t] = 0 /\ waiting' = [waiting EXCEPT ![t] = c]
      /\ UNCHANGED <<handle, target>>
  BY <1>1, AskNames
<1>3. waiting'[t] = c
  BY <1>2 DEF AskedInv
<1>4. \A u \in Tasks : Holds(u)' => Holds(u)
  BY AskOwns
<1>5. Peer(handle[t]) = None /\ ~Fresh(t)'
  <2>1. Holds(t)
    BY <1>2 DEF Holds, Closing
  <2> QED
    BY <2>1, ConnectIsFirst DEF PeerInv
<1>6. Peer(handle[t])' = None
  BY <1>5, AskLinks
<1>7. ASSUME NEW u \in Tasks, Holds(u)'
      PROVE  /\ Holds(u) /\ Peer(handle[u])' = Peer(handle[u])
             /\ target'[u] = target[u]
             /\ Fresh(u)' => Fresh(u)
  BY <1>2, <1>4, <1>7, FreshBefore, AskLinks
<1>8. ASSUME NEW u \in Tasks, Connecting(u)' PROVE Linked(u)'
  <2>1. CASE u # t
    BY <1>8, <2>1, AskLinks
  <2>2. CASE u = t
    <3>1. ~Succeeded(waiting[t])'
      <4>1. ~Succeeded(Len(asked))'
        BY AskLinks
      <4> QED
        BY <1>1, <1>3, <4>1 DEF Succeeded
    <3> QED
      BY <1>5, <1>6, <2>2, <3>1 DEF Linked
  <2> QED
    BY <2>1, <2>2
<1>9. \A n \in Calls' : n \notin answered' /\ asked'[n].op = "connect" =>
        waiting'[asked'[n].task] = n
  BY <1>2, <1>3, AskLinks
<1>10. \A r \in Elements(outbox') : Created(r)' =>
         /\ r \in Elements(outbox) /\ Created(r)
         /\ Peer(r.sock)' = Peer(r.sock)
  BY AskLinks
<1> QED
  BY <1>7, <1>8, <1>9, <1>10, PeerLess

(* A call other than connect is given up.                                  *)
LEMMA GiveUpPeers ==
  ASSUME AskedInv, PlacedInv, HeldInv, OwnInv, PeerInv, NEW t \in Tasks,
         GiveUp(t), ~GivenUp("connect")'
  PROVE  PeerInv'
<1>1. /\ waiting[t] # 0 /\ waiting' = [waiting EXCEPT ![t] = 0]
      /\ gaveUp' = gaveUp \cup {waiting[t]}
      /\ UNCHANGED <<inbox, jobs, job, outbox, s_net_ctx, os, asked, answered>>
  BY DEF GiveUp, Leave, network, table
<1>2. asked[waiting[t]].op # "connect"
  BY <1>1 DEF GivenUp
<1>3. waiting'[t] = 0 /\ \A u \in Tasks : u # t => waiting'[u] = waiting[u]
  BY <1>1 DEF AskedInv
<1>4. \A u \in Tasks : Fresh(u)' <=> Fresh(u)
  BY <1>1 DEF Fresh, Calls
<1>5. ASSUME NEW u \in Tasks, Holds(u)'
      PROVE  /\ Holds(u) /\ Peer(handle[u])' = Peer(handle[u])
             /\ target'[u] = target[u]
  <2>1. Holds(u) /\ handle'[u] = handle[u] /\ target'[u] = target[u]
    BY <1>5, GiveUpOwns
  <2> QED
    BY <1>1, <2>1 DEF Peer
<1>6. ASSUME NEW u \in Tasks, Connecting(u)' PROVE Linked(u)'
  <2>1. u # t /\ waiting'[u] = waiting[u] /\ Connecting(u)
    BY <1>1, <1>3, <1>6 DEF Connecting
  <2>2. PICK n : n = waiting[u]
    OBVIOUS
  <2>3. handle'[u] = handle[u]
    <3>1. Forgets(t, waiting[t])
      BY DEF GiveUp
    <3> QED
      BY <2>1, <3>1, Forgotten
  <2>4. Peer(handle[u])' = Peer(handle[u])
    BY <1>1, <2>3 DEF Peer
  <2>5. (Unresolved(n)' => Unresolved(n)) /\ (Succeeded(n)' => Succeeded(n))
    BY <1>1 DEF Unresolved, Succeeded, Elements, InJobs, InWork
  <2>6. InWork(n)' => InWork(n)
    BY <1>1 DEF InWork
  <2> QED
    BY <1>1, <1>4, <2>1, <2>2, <2>4, <2>5, <2>6, LinkLess
<1>7. ASSUME NEW n \in Calls', n \notin answered', asked'[n].op = "connect"
      PROVE  waiting'[asked'[n].task] = n
  <2>1. waiting[asked[n].task] = n /\ asked[n].task \in Tasks
    BY <1>1, <1>7 DEF PeerInv, HeldInv, Calls
  <2>2. asked[n].task # t
    BY <1>1, <1>2, <1>7, <2>1
  <2> QED
    BY <1>1, <1>3, <2>1, <2>2
<1>8. \A r \in Elements(outbox') : Created(r)' =>
        /\ r \in Elements(outbox) /\ Created(r)
        /\ Peer(r.sock)' = Peer(r.sock)
  BY <1>1 DEF Created, Peer
<1> QED
  BY <1>4, <1>5, <1>6, <1>7, <1>8, PeerLess

(* The task is told of the peer that its socket has.                       *)
LEMMA DeliverPeers ==
  ASSUME AskedInv, SlotInv, PlacedInv, HeldInv, QueueInv, OwnInv, PeerInv,
         Deliver, mistaken' = {}
  PROVE  PeerInv'
<1>1. UNCHANGED <<inbox, jobs, job, s_net_ctx, os, asked, answered>>
  BY DeliverDoes
<1>2. PICK r : r = Head(outbox)
  OBVIOUS
<1>3. /\ r \in Elements(outbox) /\ Elements(outbox') \subseteq Elements(outbox)
      /\ \A t \in Tasks : Takes(t) =>
           waiting[t] = r.n /\ asked[r.n].task = t
  BY <1>2, DeliverOne
<1>4. /\ \A u \in Tasks : waiting'[u] = IF Takes(u) THEN 0 ELSE waiting[u]
      /\ \A u \in Tasks : ~Takes(u) =>
           handle'[u] = handle[u] /\ target'[u] = target[u]
      /\ \A u \in Tasks : Takes(u) => Taken(u)
  <2>1. \A t, u \in Tasks : Takes(t) /\ Takes(u) => t = u
    BY <1>3
  <2>2. \/ /\ UNCHANGED <<handle, target>>
           /\ \A u \in Tasks : ~Takes(u)
        \/ \E t \in Tasks :
             /\ Takes(t) /\ Taken(t)
             /\ \A u \in Tasks : u # t =>
                  handle'[u] = handle[u] /\ target'[u] = target[u]
    BY DeliverOwn DEF OthersKeep
  <2>3. \A u \in Tasks : waiting'[u] = IF Takes(u) THEN 0 ELSE waiting[u]
    BY DeliverTaken
  <2> QED
    BY <2>1, <2>2, <2>3
<1>5. \A u \in Tasks : Fresh(u)' <=> Fresh(u)
  BY <1>1 DEF Fresh, Calls
<1>6. \A u \in Tasks : handle'[u] = handle[u] =>
        Peer(handle[u])' = Peer(handle[u])
  BY <1>1 DEF Peer
<1>7. ASSUME NEW u \in Tasks, Holds(u)'
      PROVE  \/ /\ Holds(u) /\ Peer(handle[u])' = Peer(handle[u])
                /\ target'[u] \in {None, target[u], Peer(handle[u])}
             \/ target'[u] = None /\ Peer(handle[u])' = None
  <2>1. CASE ~Takes(u)
    <3>1. waiting'[u] = waiting[u] /\ handle'[u] = handle[u]
          /\ target'[u] = target[u]
      BY <1>4, <2>1
    <3>2. Holds(u)
      BY <1>1, <1>7, <3>1 DEF Holds, Closing
    <3> QED
      BY <1>6, <3>1, <3>2
  <2>2. CASE Takes(u)
    <3> DEFINE c == asked[r.n]
    <3>1. waiting[u] = r.n /\ waiting[u] # 0
      BY <1>3, <2>2 DEF Takes
    <3>2. \/ c.op = "create" /\ r.ret = 0
             /\ handle'[u] = r.sock /\ target'[u] = target[u]
          \/ c.op = "connect" /\ r.ret = 0
             /\ handle'[u] = handle[u] /\ target'[u] = c.server
          \/ handle'[u] = None
          \/ c.op # "close"
             /\ handle'[u] = handle[u] /\ target'[u] = target[u]
      BY <1>2, <1>4, <2>2, <3>1 DEF Taken
    <3> HIDE DEF c
    <3>3. CASE /\ c.op = "create" /\ r.ret = 0
               /\ handle'[u] = r.sock /\ target'[u] = target[u]
      <4>1. target[u] = None
        BY <3>1, <3>3 DEF HeldInv, c
      <4>2. Peer(r.sock) = None
        BY <1>3, <3>3 DEF PeerInv, Created, c
      <4>3. Peer(handle[u])' = Peer(r.sock)
        BY <1>1, <3>3 DEF Peer
      <4> QED
        BY <3>3, <4>1, <4>2, <4>3
    <3>4. CASE /\ c.op = "connect" /\ r.ret = 0
               /\ handle'[u] = handle[u] /\ target'[u] = c.server
      <4>1. Connecting(u)
        BY <3>1, <3>4 DEF Connecting, c
      <4>2. Holds(u)
        BY <4>1, ConnectingHolds
      <4>3. Succeeded(waiting[u])
        BY <1>3, <3>1, <3>4 DEF Succeeded
      <4>4. Peer(handle[u]) = c.server
        BY <3>1, <4>1, <4>3 DEF PeerInv, Linked, c
      <4> QED
        BY <1>6, <3>4, <4>2, <4>4
    <3>5. CASE handle'[u] = None
      BY <1>7, <3>5 DEF Holds
    <3>6. CASE /\ c.op # "close"
               /\ handle'[u] = handle[u] /\ target'[u] = target[u]
      <4>1. Holds(u)
        BY <1>7, <3>1, <3>6 DEF Holds, Closing, c
      <4> QED
        BY <1>6, <3>6, <4>1
    <3> QED
      BY <3>2, <3>3, <3>4, <3>5, <3>6
  <2> QED
    BY <2>1, <2>2
<1>8. ASSUME NEW u \in Tasks, Connecting(u)' PROVE Linked(u)'
  <2>1. ~Takes(u) /\ waiting'[u] = waiting[u] /\ handle'[u] = handle[u]
    BY <1>4, <1>8 DEF Connecting
  <2>2. PICK n : n = waiting[u]
    OBVIOUS
  <2>3. Connecting(u)
    BY <1>1, <1>8, <2>1 DEF Connecting
  <2>4. Unresolved(n)' => Unresolved(n)
    BY <1>1 DEF Unresolved, Elements, InJobs, InWork
  <2>5. Succeeded(n)' => Succeeded(n)
    <3>1. Elements(outbox)' \subseteq Elements(outbox)
      BY <1>3 DEF Elements
    <3>2. Elements(inbox)' = Elements(inbox)
      BY <1>1 DEF Elements
    <3> QED
      BY <3>1, <3>2 DEF Succeeded
  <2>6. InWork(n)' => InWork(n)
    BY <1>1 DEF InWork
  <2> QED
    BY <1>1, <1>5, <1>6, <2>1, <2>2, <2>3, <2>4, <2>5, <2>6, LinkLess
<1>9. ASSUME NEW n \in Calls', n \notin answered', asked'[n].op = "connect"
      PROVE  waiting'[asked'[n].task] = n
  <2>1. /\ waiting[asked[n].task] = n /\ asked[n].task \in Tasks
        /\ n \notin answered
    BY <1>1, <1>9 DEF PeerInv, HeldInv, Calls
  <2>2. r.n \in answered
    BY <1>3 DEF QueueInv
  <2>3. ~Takes(asked[n].task)
    BY <1>3, <2>1, <2>2
  <2> QED
    BY <1>1, <1>4, <2>1, <2>3
<1>10. \A q \in Elements(outbox') : Created(q)' =>
         /\ q \in Elements(outbox) /\ Created(q)
         /\ Peer(q.sock)' = Peer(q.sock)
  BY <1>1, <1>3 DEF Created, Peer
<1> QED
  BY <1>5, <1>7, <1>8, <1>9, <1>10, PeerLess

(* What the worker does brings no connect back and makes none succeed.     *)
LEMMA WorkerLinks ==
  ASSUME PlacedInv, OneInv, QueueInv, Worker, NEW m \in Calls,
         asked[m].op = "connect"
  PROVE  /\ Unresolved(m)' => Unresolved(m)
         /\ InWork(m)' => InWork(m)
         /\ Succeeded(m)' => Succeeded(m)
<1> DEFINE n == Head(inbox).n
           k == Head(inbox).kind
<1>1. /\ Head(inbox) \in Elements(inbox) /\ job' = job
      /\ Elements(inbox') \subseteq Elements(inbox)
      /\ \/ /\ k = "request"
            /\ \A i : InJobs(i)' <=> InJobs(i) \/ i = n
            /\ outbox' = outbox
         \/ /\ jobs' = jobs
            /\ \E r : /\ r.n = n
                      /\ Elements(outbox') = Elements(outbox) \cup {r}
                      /\ \/ k = "finished" /\ r.ret = Head(inbox).ret
                         \/ asked[n].op \in {"create", "send", "close"}
  BY WorkerDoes
<1>2. /\ Elements(inbox)' \subseteq Elements(inbox)
      /\ Elements(outbox)' = Elements(outbox')
  BY <1>1 DEF Elements
<1>3. InWork(m)' <=> InWork(m)
  BY <1>1 DEF InWork
<1>4. CASE /\ k = "request"
           /\ \A i : InJobs(i)' <=> InJobs(i) \/ i = n
           /\ outbox' = outbox
  <2>1. InJobs(m)' => InJobs(m) \/ Unresolved(m)
    BY <1>1, <1>4 DEF Unresolved
  <2>2. Unresolved(m)' => Unresolved(m)
    BY <1>1, <1>2, <1>3, <2>1 DEF Unresolved
  <2>3. Elements(outbox)' = Elements(outbox)
    BY <1>4 DEF Elements
  <2>4. Succeeded(m)' => Succeeded(m)
    BY <1>2, <2>3 DEF Succeeded
  <2> QED
    BY <1>3, <2>2, <2>4
<1>5. ASSUME jobs' = jobs,
             NEW r, r.n = n, Elements(outbox') = Elements(outbox) \cup {r},
             \/ k = "finished" /\ r.ret = Head(inbox).ret
             \/ asked[n].op \in {"create", "send", "close"}
      PROVE  /\ Unresolved(m)' => Unresolved(m)
             /\ Succeeded(m)' => Succeeded(m)
  <2>1. InJobs(m)' <=> InJobs(m)
    BY <1>5 DEF InJobs
  <2>2. Unresolved(m)' => Unresolved(m)
    BY <1>1, <1>2, <1>3, <2>1 DEF Unresolved
  <2>3. r.n = m /\ r.ret = 0 => Succeeded(m)
    BY <1>1, <1>5 DEF Succeeded
  <2>4. Succeeded(m)' => Succeeded(m)
    <3>1. Elements(outbox)' = Elements(outbox) \cup {r}
      BY <1>2, <1>5
    <3> QED
      BY <1>2, <2>3, <3>1 DEF Succeeded
  <2> QED
    BY <2>2, <2>4
<1> HIDE DEF n, k
<1> QED
  BY <1>1, <1>3, <1>4, <1>5

(* The worker gives no task another peer.                                  *)
LEMMA WorkerPeers ==
  ASSUME AskedInv, PlacedInv, TableInv, OneInv, HeldInv, QueueInv, OwnInv,
         PeerInv, Worker
  PROVE  PeerInv'
<1> DEFINE n == Head(inbox).n
           k == Head(inbox).kind
<1>1. /\ UNCHANGED <<sockets, asked>> /\ n \in Calls
      /\ Head(inbox) \in Elements(inbox)
      /\ \/ UNCHANGED <<outbox, answered, table>>
         \/ /\ answered' = answered \cup {n}
            /\ \E r : /\ r.n = n
                      /\ Elements(outbox') = Elements(outbox) \cup {r}
                      /\ \/ k = "finished" /\ UNCHANGED table
                         \/ DispatchCreate
                         \/ asked[n].op = "send" /\ UNCHANGED table
                         \/ DispatchClose
  BY WorkerDoes
<1>2. answered \subseteq answered'
  BY <1>1
<1>3. k = "finished" => asked[n].op \in NetOps
  BY <1>1 DEF QueueInv
<1> HIDE DEF n, k
<1>4. /\ \A t \in Tasks : Holds(t) => HasCtx(handle[t])
      /\ \A r \in Elements(outbox) : Created(r) => HasCtx(r.sock)
      /\ handle' = handle /\ \A r : Created(r)' <=> Created(r)
  BY <1>1, HostHolds DEF OwnInv
<1>5. \/ UNCHANGED <<outbox, table>>
      \/ /\ UNCHANGED table
         /\ \E r : /\ Elements(outbox') = Elements(outbox) \cup {r}
                   /\ ~Created(r)
      \/ DispatchCreate
      \/ DispatchClose
  <2>1. \A r :
          r.n = n /\ (k = "finished" \/ asked[n].op = "send") => ~Created(r)
    BY <1>3 DEF Created, NetOps
  <2> QED
    BY <1>1, <2>1
<1>6. /\ \A t \in Tasks : Holds(t) => Peer(handle[t])' = Peer(handle[t])
      /\ \A r \in Elements(outbox') : Created(r)' =>
           \/ /\ r \in Elements(outbox) /\ Created(r)
              /\ Peer(r.sock)' = Peer(r.sock)
           \/ Peer(r.sock)' = None
  <2>1. ASSUME UNCHANGED table, NEW h
        PROVE  Peer(h)' = Peer(h)
    BY <2>1 DEF Peer, table
  <2>2. CASE /\ UNCHANGED table
             /\ \/ outbox' = outbox
                \/ \E r : /\ Elements(outbox') = Elements(outbox) \cup {r}
                          /\ ~Created(r)
    <3>1. \A t \in Tasks : Peer(handle[t])' = Peer(handle[t])
      BY <1>4, <2>2 DEF Peer, table
    <3>2. \A r \in Elements(outbox') : Created(r)' => r \in Elements(outbox)
      BY <1>4, <2>2
    <3> QED
      BY <1>4, <2>1, <2>2, <3>1, <3>2
  <2>3. CASE DispatchCreate
    <3>1. PICK q :
            /\ Elements(outbox') = Elements(outbox) \cup {q}
            /\ \/ q.ret # 0 /\ UNCHANGED table
               \/ /\ Peer(q.sock)' = None
                  /\ \A g : HasCtx(g) => Peer(g)' = Peer(g)
      BY <2>3, CreateDoes
    <3>2. \A g : HasCtx(g) => Peer(g)' = Peer(g)
      BY <2>1, <3>1
    <3>3. \A t \in Tasks : Holds(t) => Peer(handle[t])' = Peer(handle[t])
      <4>1. ASSUME NEW t \in Tasks, Holds(t), NEW h, h = handle[t]
            PROVE  Peer(handle[t])' = Peer(h)
        <5>1. Peer(h)' = Peer(h)
          BY <1>4, <3>2, <4>1
        <5> QED
          BY <1>4, <4>1, <5>1 DEF Peer
      <4> QED
        BY <4>1
    <3>4. Created(q)' => q.ret = 0
      BY <1>4 DEF Created
    <3> QED
      BY <1>4, <3>1, <3>2, <3>3, <3>4
  <2>4. CASE DispatchClose
    <3>1. PICK h : h = asked[Head(inbox).n].sock
      OBVIOUS
    <3>2. /\ \A t \in Tasks : Holds(t) => handle[t] # h
          /\ \A r \in Elements(outbox) : Created(r) => r.sock # h
          /\ \A r \in Elements(outbox') : Created(r)' =>
               r \in Elements(outbox) /\ Created(r)
      BY <2>4, <3>1, CloseOwns
    <3>3. \A g : HasCtx(g) /\ g # h => Peer(g)' = Peer(g)
      BY <2>4, <3>1, CloseDoes
    <3>4. \A t \in Tasks : Holds(t) => Peer(handle[t])' = Peer(handle[t])
      <4>1. ASSUME NEW t \in Tasks, Holds(t), NEW g, g = handle[t]
            PROVE  Peer(handle[t])' = Peer(g)
        <5>1. Peer(g)' = Peer(g)
          BY <1>4, <3>2, <3>3, <4>1
        <5> QED
          BY <1>4, <4>1, <5>1 DEF Peer
      <4> QED
        BY <4>1
    <3> QED
      BY <1>4, <3>2, <3>3, <3>4
  <2> QED
    BY <1>5, <2>2, <2>3, <2>4
<1>7. \A m : asked[m].op = "connect" /\ m \in Calls =>
        /\ Unresolved(m)' => Unresolved(m)
        /\ InWork(m)' => InWork(m)
        /\ Succeeded(m)' => Succeeded(m)
  BY WorkerLinks
<1>8. \A t \in Tasks : Connecting(t) => waiting[t] \in Calls
  BY DEF Connecting, AskedInv
<1> QED
  BY <1>1, <1>2, <1>6, <1>7, <1>8, HostPeers

(* A field of a socket other than its peer changes.                        *)
LEMMA PeersKept ==
  ASSUME TableInv, NEW k \in 1 .. Len(os), NEW x,
         os' = [os EXCEPT ![k].data = x], s_net_ctx' = s_net_ctx
  PROVE  \A g : HasCtx(g) => Peer(g)' = Peer(g)
<1>1. PICK o, p, d : os[k] = [open |-> o, peer |-> p, data |-> d]
  BY DEF TableInv, IsSocket
<1>2. PICK e : e = [open |-> o, peer |-> p, data |-> x]
  OBVIOUS
<1>3. os' = [os EXCEPT ![k] = e]
  <2>1. [os[k] EXCEPT !.data = x] = e
    BY <1>1, <1>2
  <2> QED
    BY <2>1
<1>4. os[k].peer = p /\ e.peer = p
  BY <1>1, <1>2
<1>5. os'[k] = e /\ \A i \in 1 .. Len(os) : i # k => os'[i] = os[i]
  <2>1. IsUpdate(os', os, k, e)
    BY <1>3 DEF IsUpdate
  <2> QED
    BY <2>1, ExceptOfSeq DEF TableInv
<1>6. ASSUME NEW i \in 1 .. Len(os) PROVE os'[i].peer = os[i].peer
  BY <1>4, <1>5
<1> QED
  BY <1>6, EntryIs DEF Peer

(* The peer of a socket changes.                                           *)
LEMMA PeerChanged ==
  ASSUME TableInv, NEW k \in 1 .. Len(os), NEW x,
         os' = [os EXCEPT ![k].peer = x], s_net_ctx' = s_net_ctx,
         NEW h, HasCtx(h), s_net_ctx[h].raw_sock = k
  PROVE  /\ Peer(h)' = x
         /\ \A g : HasCtx(g) /\ g # h => Peer(g)' = Peer(g)
<1>1. PICK o, p, d : os[k] = [open |-> o, peer |-> p, data |-> d]
  BY DEF TableInv, IsSocket
<1>2. PICK e : e = [open |-> o, peer |-> x, data |-> d]
  OBVIOUS
<1>3. os' = [os EXCEPT ![k] = e]
  <2>1. [os[k] EXCEPT !.peer = x] = e
    BY <1>1, <1>2
  <2> QED
    BY <2>1
<1>4. e.peer = x
  BY <1>2
<1>5. os'[k] = e /\ \A i \in 1 .. Len(os) : i # k => os'[i] = os[i]
  <2>1. IsUpdate(os', os, k, e)
    BY <1>3 DEF IsUpdate
  <2> QED
    BY <2>1, ExceptOfSeq DEF TableInv
<1>6. ASSUME NEW g, HasCtx(g), g # h
      PROVE  /\ s_net_ctx[g].raw_sock # k
             /\ s_net_ctx[g].raw_sock \in 1 .. Len(os)
  BY <1>6, EntryIs DEF TableInv, HasCtx
<1> QED
  BY <1>4, <1>5, <1>6 DEF Peer

(* A step of the network thread, or of a server, that connects nothing.    *)
LEMMA NetPeers ==
  ASSUME AskedInv, HeldInv, OwnInv, PeerInv, TableInv,
         UNCHANGED <<sockets, asked, outbox, answered, s_net_ctx>>,
         \A g : HasCtx(g) => Peer(g)' = Peer(g),
         \A m : asked[m].op = "connect" /\ m \in Calls =>
           /\ Unresolved(m)' => Unresolved(m)
           /\ InWork(m)' => InWork(m) \/ Unresolved(m)
           /\ \/ Succeeded(m)' => Succeeded(m)
              \/ InWork(m) /\ Peer(asked[m].sock) # None
  PROVE  PeerInv'
<1>1. /\ \A t \in Tasks : Holds(t) => HasCtx(handle[t])
      /\ \A r \in Elements(outbox) : Created(r) => HasCtx(r.sock)
      /\ handle' = handle /\ \A r : Created(r)' <=> Created(r)
  BY HostHolds DEF OwnInv
<1>2. ASSUME NEW t \in Tasks, Holds(t), NEW g, g = handle[t]
      PROVE  Peer(handle[t])' = Peer(g)
  <2>1. Peer(g)' = Peer(g)
    BY <1>1, <1>2
  <2> QED
    BY <1>1, <1>2, <2>1 DEF Peer
<1>3. \A t \in Tasks : Holds(t) => Peer(handle[t])' = Peer(handle[t])
  BY <1>2
<1>4. \A r \in Elements(outbox') : Created(r)' =>
        /\ r \in Elements(outbox) /\ Created(r)
        /\ Peer(r.sock)' = Peer(r.sock)
  BY <1>1
<1>5. \A t \in Tasks : Connecting(t) => waiting[t] \in Calls
  BY DEF Connecting, AskedInv
<1> QED
  BY <1>3, <1>4, <1>5, HostPeers

(* A job is taken.                                                         *)
LEMMA TakeJobPeers ==
  ASSUME AskedInv, PlacedInv, OneInv, HeldInv, OwnInv, PeerInv, TableInv,
         TakeJob
  PROVE  PeerInv'
<1>1. /\ job = None /\ InJobs(Head(jobs))
      /\ \A n : InJobs(n)' <=> InJobs(n) /\ n # Head(jobs)
      /\ UNCHANGED <<asked, outbox, answered, s_net_ctx, os>>
      /\ \/ inbox' = inbox /\ (job' # None => job'.n = Head(jobs))
         \/ /\ job' = None
            /\ \E e : /\ e.kind = "finished" /\ e.ret # 0
                      /\ Elements(inbox') = Elements(inbox) \cup {e}
  BY JobTakes
<1>2. UNCHANGED sockets
  BY DEF TakeJob, firmware, sockets
<1>3. \A g : HasCtx(g) => Peer(g)' = Peer(g)
  BY <1>1 DEF Peer
<1>4. Elements(outbox)' = Elements(outbox)
  BY <1>1 DEF Elements
<1>5. \/ Elements(inbox)' = Elements(inbox)
      \/ \E e : /\ e.kind = "finished" /\ e.ret # 0
                /\ Elements(inbox)' = Elements(inbox) \cup {e}
  BY <1>1 DEF Elements
<1>6. ASSUME NEW m
      PROVE  /\ Unresolved(m)' => Unresolved(m)
             /\ InWork(m)' => Unresolved(m)
             /\ Succeeded(m)' => Succeeded(m)
  <2>1. InWork(m)' => InJobs(m)
    BY <1>1 DEF InWork
  <2>2. \A e \in Elements(inbox)' : e.kind = "request" => e \in Elements(inbox)
    BY <1>5
  <2>3. \A e \in Elements(inbox)' :
          e.kind = "finished" /\ e.ret = 0 => e \in Elements(inbox)
    BY <1>5
  <2>4. Unresolved(m)' => Unresolved(m)
    BY <1>1, <2>1, <2>2 DEF Unresolved
  <2>5. Succeeded(m)' => Succeeded(m)
    BY <1>4, <2>3 DEF Succeeded
  <2> QED
    BY <2>1, <2>4, <2>5 DEF Unresolved
<1> QED
  BY <1>1, <1>2, <1>3, <1>6, NetPeers

(* A job is worked on without a connection being made.                     *)
LEMMA WorkPeers ==
  ASSUME AskedInv, PlacedInv, OneInv, HeldInv, OwnInv, PeerInv, TableInv,
         JobInv, Resolve \/ Select \/ StartRecv \/ EndRecv,
         \A g : HasCtx(g) => Peer(g)' = Peer(g)
  PROVE  PeerInv'
<1>1. /\ job # None /\ InWork(job.n)
      /\ UNCHANGED <<asked, outbox, answered, jobs, s_net_ctx>>
      /\ \/ /\ inbox' = inbox /\ job'.n = job.n
            /\ job'.pc \in {"select", "receiving"}
         \/ /\ job' = None
            /\ \E e : /\ e.kind = "finished" /\ e.n = job.n
                      /\ Elements(inbox') = Elements(inbox) \cup {e}
                      /\ e.ret = 0 => job.pc = "select"
  BY JobWorked
<1>2. UNCHANGED sockets
  BY DEF Resolve, Select, StartRecv, EndRecv, NetStep, firmware, sockets
<1>3. Elements(outbox)' = Elements(outbox)
  BY <1>1 DEF Elements
<1>4. \A m : InJobs(m)' <=> InJobs(m)
  BY <1>1 DEF InJobs
<1>5. ASSUME NEW m
      PROVE  /\ Unresolved(m)' => Unresolved(m)
             /\ InWork(m)' => InWork(m)
  <2>1. \A e \in Elements(inbox)' : e.kind = "request" => e \in Elements(inbox)
    BY <1>1 DEF Elements
  <2>2. ~(InWork(m)' /\ job'.pc = "resolve")
    BY <1>1 DEF InWork
  <2>3. Unresolved(m)' => Unresolved(m)
    BY <1>4, <2>1, <2>2 DEF Unresolved
  <2>4. InWork(m)' => InWork(m)
    BY <1>1 DEF InWork
  <2> QED
    BY <2>3, <2>4
<1>6. ASSUME NEW m, ~(InWork(m) /\ Peer(asked[m].sock) # None)
      PROVE  Succeeded(m)' => Succeeded(m)
  <2>1. CASE Select
    <3>1. PICK ret : Finish(ret) /\ (ret = 0 => Peer(asked[job.n].sock) # None)
      <4>1. CASE Finish(-1)
        <5>1. -1 # 0
          OBVIOUS
        <5> QED
          BY <4>1, <5>1
      <4>2. CASE ~Finish(-1)
        BY <2>1, <4>2 DEF Select, RawSock, Peer
      <4> QED
        BY <4>1, <4>2
    <3>2. PICK e : /\ e.kind = "finished" /\ e.n = job.n /\ e.ret = ret
                   /\ Elements(inbox') = Elements(inbox) \cup {e}
      BY <3>1, FinishQueues
    <3>3. e.ret = 0 => e.n # m
      BY <1>1, <1>6, <3>1, <3>2 DEF InWork
    <3>4. Elements(inbox)' = Elements(inbox) \cup {e}
      BY <3>2 DEF Elements
    <3> QED
      BY <1>3, <3>3, <3>4 DEF Succeeded
  <2>2. CASE ~Select
    <3>1. job.pc # "select"
      BY <2>2 DEF Resolve, StartRecv, EndRecv, NetStep
    <3>2. \A e \in Elements(inbox)' :
            e.kind = "finished" /\ e.ret = 0 => e \in Elements(inbox)
      BY <1>1, <3>1 DEF Elements
    <3> QED
      BY <1>3, <3>2 DEF Succeeded
  <2> QED
    BY <2>1, <2>2
<1> QED
  BY <1>1, <1>2, <1>5, <1>6, NetPeers

(* The socket of a task that waits to be connected gets its server.        *)
LEMMA ResolvePeers ==
  ASSUME AskedInv, PlacedInv, OneInv, HeldInv, QueueInv, OwnInv, PeerInv,
         TableInv, JobInv, Resolve,
         job' = [job EXCEPT !.pc = "select"], inbox' = inbox,
         RawSock # INVALID_SOCKET,
         os' = [os EXCEPT ![RawSock].peer = asked[job.n].server]
  PROVE  PeerInv'
<1>1. PICK n, h, t, k :
        n = job.n /\ h = asked[n].sock /\ t = asked[n].task /\ k = RawSock
  OBVIOUS
<1>2. /\ job # None /\ job.pc = "resolve"
      /\ UNCHANGED <<sockets, outbox, jobs, s_net_ctx, asked, answered>>
  BY DEF Resolve, NetStep, history, firmware, sockets
<1>3. UNCHANGED <<handle, target, waiting>>
  BY <1>2 DEF firmware, sockets
<1>4. job \in Job /\ n \in Calls /\ InWork(n)
  BY <1>1, <1>2 DEF JobInv, PlacedInv, InWork
<1>5. job'.n = n /\ job'.pc = "select"
  BY <1>1, <1>4 DEF Job
<1>6. HasCtx(h) /\ s_net_ctx[h].raw_sock = k /\ k \in 1 .. Len(os)
  <2>1. h \in Handles /\ k = s_net_ctx[h].raw_sock /\ k # 0
    BY <1>1, <1>2 DEF JobInv, RawSock, INVALID_SOCKET
  <2>2. HasCtx(h)
    BY <2>1 DEF TableInv, HasCtx
  <2> QED
    BY <2>1, <2>2, EntryIs
<1>7. /\ asked[n].op = "connect" /\ n \notin answered
      /\ waiting[t] = n /\ t \in Tasks /\ n # 0
  <2>1. asked[n].op = "connect" /\ n \notin answered
    BY <1>1, <1>2, <1>4 DEF QueueInv, OneInv
  <2> QED
    BY <1>1, <1>4, <2>1 DEF PeerInv, HeldInv, Calls
<1>8. Connecting(t)
  BY <1>7 DEF Connecting
<1>9. Holds(t) /\ handle[t] = h /\ target[t] = None /\ ~Fresh(t)
  BY <1>1, <1>7, <1>8, ConnectingHolds DEF PeerInv, Linked
<1>10. /\ Peer(h)' = asked[n].server
       /\ \A g : HasCtx(g) /\ g # h => Peer(g)' = Peer(g)
  <2>1. PICK x : x = asked[n].server
    OBVIOUS
  <2>2. os' = [os EXCEPT ![k].peer = x]
    BY <1>1, <2>1
  <2>3. s_net_ctx' = s_net_ctx
    BY <1>2
  <2>4. /\ Peer(h)' = x
        /\ \A g : HasCtx(g) /\ g # h => Peer(g)' = Peer(g)
    BY <1>6, <2>2, <2>3, PeerChanged
  <2> QED
    BY <2>1, <2>4
<1>11. /\ \A u \in Tasks : Holds(u)' <=> Holds(u)
       /\ \A u \in Tasks : Fresh(u)' <=> Fresh(u)
       /\ \A u \in Tasks : Connecting(u)' <=> Connecting(u)
       /\ \A r : Created(r)' <=> Created(r)
       /\ Calls' = Calls
  BY <1>2, <1>3, HostHolds DEF Fresh, Connecting, Calls
<1>12. Peer(handle[t])' = asked[n].server
  BY <1>3, <1>9, <1>10 DEF Peer
<1>13. ASSUME NEW u \in Tasks, Holds(u), u # t
       PROVE  Peer(handle[u])' = Peer(handle[u])
  <2>1. PICK g : g = handle[u]
    OBVIOUS
  <2>2. HasCtx(g) /\ g # h
    BY <1>7, <1>9, <1>13, <2>1 DEF OwnInv
  <2>3. Peer(g)' = Peer(g)
    BY <1>10, <2>2
  <2> QED
    BY <1>3, <2>1, <2>3 DEF Peer
<1>14. ASSUME NEW u \in Tasks, Holds(u)'
       PROVE  \/ /\ Holds(u) /\ Peer(handle[u])' = Peer(handle[u])
                 /\ target'[u] = target[u] /\ (Fresh(u)' => Fresh(u))
              \/ target'[u] = None /\ ~Fresh(u)'
  BY <1>3, <1>9, <1>11, <1>13, <1>14
<1>15. ASSUME NEW r \in Elements(outbox'), Created(r)'
       PROVE  /\ r \in Elements(outbox) /\ Created(r)
              /\ Peer(r.sock)' = Peer(r.sock)
  <2>1. r \in Elements(outbox) /\ Created(r)
    BY <1>2, <1>11, <1>15
  <2>2. r.n \in Calls /\ HasCtx(r.sock)
    BY <2>1, ElementsAreCalls DEF OwnInv
  <2>3. r.sock # h
    BY <1>7, <1>9, <2>1, <2>2 DEF OwnInv, OnItsWay
  <2> QED
    BY <1>10, <2>1, <2>2, <2>3
<1>16. /\ Elements(inbox)' = Elements(inbox)
       /\ Elements(outbox)' = Elements(outbox)
       /\ \A m : InJobs(m)' <=> InJobs(m)
       /\ \A m : InWork(m)' => InWork(m)
       /\ \A m : ~(InWork(m)' /\ job'.pc = "resolve")
  BY <1>1, <1>2, <1>5 DEF Elements, InJobs, InWork
<1>17. ASSUME NEW m
       PROVE  /\ Unresolved(m)' => Unresolved(m)
              /\ Succeeded(m)' => Succeeded(m)
  BY <1>16 DEF Unresolved, Succeeded
<1>18. ~Unresolved(n)'
  <2>1. ~InInbox(n) /\ ~InJobs(n)
    BY <1>4 DEF OneInv
  <2>2. \A e \in Elements(inbox) : e.n # n
    BY <2>1, ElementsAreCalls
  <2> QED
    BY <1>16, <2>1, <2>2 DEF Unresolved
<1>19. ASSUME NEW u \in Tasks, Connecting(u)' PROVE Linked(u)'
  <2>1. CASE u = t
    <3>1. ~Unresolved(waiting[t])'
      BY <1>3, <1>7, <1>18 DEF Unresolved, InJobs, InWork
    <3>2. ~Fresh(t)'
      BY <1>7, <1>9, <1>11
    <3>3. Peer(handle[t])' = asked'[waiting'[t]].server
      BY <1>2, <1>3, <1>7, <1>12
    <3> QED
      BY <2>1, <3>1, <3>2, <3>3 DEF Linked
  <2>2. CASE u # t
    <3>1. Connecting(u) /\ Holds(u)
      BY <1>11, <1>19, ConnectingHolds
    <3>2. PICK m : m = waiting[u]
      OBVIOUS
    <3>3. waiting'[u] = m /\ asked'[m] = asked[m] /\ (Fresh(u)' => Fresh(u))
      BY <1>2, <1>3, <1>11, <3>2
    <3>4. Peer(handle[u])' = Peer(handle[u])
      BY <1>13, <2>2, <3>1
    <3> QED
      BY <1>16, <1>17, <3>1, <3>2, <3>3, <3>4, LinkLess
  <2> QED
    BY <2>1, <2>2
<1>20. \A m \in Calls' : m \notin answered' /\ asked'[m].op = "connect" =>
         waiting'[asked'[m].task] = m
  BY <1>2, <1>3, <1>11 DEF PeerInv
<1> QED
  BY <1>14, <1>15, <1>19, <1>20, PeerLess

(* The inductive step of PeerInv, as long as every task is patient.        *)
LEMMA PeerStep ==
  ASSUME NetInv, AskedInv', HeldInv, QueueInv, EarlyInv, OwnInv, PeerInv,
         [Next]_vars, session = 1, session' = 1, ~GivenUp("connect")',
         ~Retried', mistaken' = {}
  PROVE  PeerInv'
<1>0. /\ AskedInv /\ SlotInv /\ PlacedInv /\ TableInv /\ JobInv
      /\ OneInv
  BY DEF NetInv
<1>1. ASSUME NEW t \in Tasks,
             Create(t) \/ Send(t) \/ Recv(t) \/ Close(t)
      PROVE  PeerInv'
  <2>1. PICK op, server :
          /\ Ask(t, op, server) /\ op # "connect"
          /\ op = "create" => handle[t] = None
    BY <1>1 DEF Create, Send, Recv, Close
  <2> QED
    BY <1>0, <2>1, AskPeers
<1>2. ASSUME NEW t \in Tasks, NEW s \in Servers, Connect(t, s) PROVE PeerInv'
  BY <1>0, <1>2, ConnectPeers DEF Connect
<1>3. ASSUME NEW t \in Tasks, GiveUp(t) PROVE PeerInv'
  BY <1>0, <1>3, GiveUpPeers
<1>4. CASE Deliver
  BY <1>0, <1>4, DeliverPeers
<1>5. CASE Restart
  BY <1>5 DEF Restart
<1>6. CASE Worker
  BY <1>0, <1>6, WorkerPeers
<1>7. CASE TakeJob
  BY <1>0, <1>7, TakeJobPeers
<1>8. ASSUME os' = os, Resolve \/ Select \/ StartRecv \/ EndRecv
      PROVE  PeerInv'
  <2>1. s_net_ctx' = s_net_ctx
    BY <1>8 DEF Resolve, Select, StartRecv, EndRecv, NetStep
  <2>2. \A g : HasCtx(g) => Peer(g)' = Peer(g)
    BY <1>8, <2>1 DEF Peer
  <2> QED
    BY <1>0, <1>8, <2>2, WorkPeers
<1>9. CASE Resolve
  <2>1. \/ os' = os
        \/ /\ job' = [job EXCEPT !.pc = "select"] /\ inbox' = inbox
           /\ RawSock # INVALID_SOCKET
           /\ os' = [os EXCEPT ![RawSock].peer = asked[job.n].server]
    BY <1>9 DEF Resolve
  <2> QED
    BY <1>0, <1>8, <1>9, <2>1, ResolvePeers
<1>10. CASE Select \/ StartRecv
  BY <1>8, <1>10 DEF Select, StartRecv
<1>11. CASE EndRecv
  <2>1. CASE os' = os
    BY <1>8, <1>11, <2>1
  <2>2. CASE os' # os
    <3>1. PICK k : k = job.raw
      OBVIOUS
    <3>2. os' = [os EXCEPT ![k].data = FALSE] /\ s_net_ctx' = s_net_ctx
      BY <1>11, <2>2, <3>1 DEF EndRecv, NetStep
    <3>3. k \in 1 .. Len(os)
      BY <1>0, <1>11, <3>1 DEF EndRecv, NetStep, JobInv
    <3>4. \A g : HasCtx(g) => Peer(g)' = Peer(g)
      BY <1>0, <3>2, <3>3, PeersKept
    <3> QED
      BY <1>0, <1>11, <3>4, WorkPeers
  <2> QED
    BY <2>1, <2>2
<1>12. ASSUME UNCHANGED <<sockets, asked, outbox, answered, s_net_ctx, inbox,
                          jobs, job>>,
              \A g : HasCtx(g) => Peer(g)' = Peer(g)
       PROVE  PeerInv'
  <2>1. \A m : /\ Unresolved(m)' => Unresolved(m)
               /\ InWork(m)' => InWork(m)
               /\ Succeeded(m)' => Succeeded(m)
    BY <1>12 DEF Unresolved, InWork, InJobs, Succeeded, Elements
  <2> QED
    BY <1>0, <1>12, <2>1, NetPeers
<1>13. ASSUME NEW k \in DOMAIN os, DataArrives(k) PROVE PeerInv'
  <2>1. /\ os' = [os EXCEPT ![k].data = TRUE]
        /\ UNCHANGED <<sockets, asked, outbox, answered, s_net_ctx, inbox,
                       jobs, job>>
    BY <1>13 DEF DataArrives, history, network, firmware, sockets
  <2>2. k \in 1 .. Len(os)
    BY <1>0, <1>13 DEF TableInv, IsSeq
  <2>3. \A g : HasCtx(g) => Peer(g)' = Peer(g)
    BY <1>0, <2>1, <2>2, PeersKept
  <2> QED
    BY <1>12, <2>1, <2>3
<1>14. CASE UNCHANGED vars
  <2>1. UNCHANGED <<sockets, asked, outbox, answered, s_net_ctx, inbox,
                    jobs, job, os>>
    BY <1>14 DEF vars, history, table, network, firmware, sockets
  <2>2. \A g : HasCtx(g) => Peer(g)' = Peer(g)
    BY <2>1 DEF Peer
  <2> QED
    BY <1>12, <2>1, <2>2
<1>15. ASSUME NEW t \in Tasks, Begin(t) \/ SendFails(t) PROVE PeerInv'
  <2>1. /\ UNCHANGED <<sockets, asked, outbox, answered, s_net_ctx, inbox,
                       jobs, job>>
        /\ os' = os
    BY <1>15, NotSentYet DEF NotSent, sockets
  <2>2. \A g : HasCtx(g) => Peer(g)' = Peer(g)
    BY <2>1 DEF Peer
  <2> QED
    BY <1>12, <2>1, <2>2
<1>16. ASSUME NEW t \in Tasks, WakeEarly(t) PROVE FALSE
  BY <1>16, NoneEarly
<1> QED
  BY <1>1, <1>2, <1>3, <1>4, <1>5, <1>6, <1>7, <1>9, <1>10, <1>11, <1>13,
     <1>14, <1>15, <1>16
  DEF Next, NetThread

-----------------------------------------------------------------------------
(* What is held, queued, owed and, where its conditions hold, connected.   *)
LinkInv ==
  /\ HeldInv /\ QueueInv /\ gaveUp \subseteq Calls /\ CallInv
  /\ session = 1 /\ mistaken = {} => OwnInv
  /\ Patient => PeerInv

(* The inductive step of LinkInv.                                          *)
LEMMA LinkStep ==
  ASSUME NetInv, NetInv', LinkInv, [Next]_vars
  PROVE  LinkInv'
<1>0. /\ AskedInv /\ PlacedInv /\ TableInv /\ JobInv /\ OneInv /\ AskedInv'
      /\ HeldInv /\ QueueInv /\ gaveUp \subseteq Calls
  BY DEF NetInv, LinkInv
<1>1. HeldInv' /\ QueueInv' /\ gaveUp' \subseteq Calls'
  BY <1>0, HeldStep, QueueStep, GaveUpGrows
<1>2. CallInv'
  BY CallStep DEF LinkInv
<1>3. ASSUME session' = 1, mistaken' = {} PROVE OwnInv'
  <2>1. session = 1 /\ mistaken = {}
    BY <1>0, <1>3, SessionGrows, HistoryGrows DEF Grows
  <2> QED
    BY <1>0, <1>3, <2>1, OwnStep DEF LinkInv, CallInv
<1>4. ASSUME Patient' PROVE PeerInv'
  <2>1. Patient
    BY <1>0, <1>4, PatientBefore
  <2>2. /\ session = 1 /\ session' = 1 /\ ~GivenUp("connect")'
        /\ ~Retried' /\ mistaken = {} /\ mistaken' = {}
    BY <1>4, <2>1 DEF Patient
  <2> QED
    BY <1>0, <2>1, <2>2, PeerStep DEF LinkInv, CallInv
<1> QED
  BY <1>1, <1>2, <1>3, <1>4 DEF LinkInv

(* The invariant holds.                                                    *)
LEMMA LinkInvariant == Spec => [](NetInv /\ LinkInv)
<1>1. Init => LinkInv
  <2> SUFFICES ASSUME Init PROVE LinkInv
    OBVIOUS
  <2>1. /\ Elements(inbox) = {} /\ Elements(jobs) = {} /\ Elements(outbox) = {}
        /\ Calls = {}
    BY DEF Init, Elements, Calls
  <2>2. HeldInv
    BY <2>1 DEF Init, HeldInv
  <2>3. QueueInv
    BY <2>1 DEF Init, QueueInv
  <2>4. \A t \in Tasks : ~Holds(t) /\ ~Connecting(t)
    BY DEF Init, Holds, Connecting
  <2>5. OwnInv
    BY <2>1, <2>4 DEF OwnInv
  <2>6. PeerInv
    BY <2>1, <2>4 DEF PeerInv
  <2>7. CallInv
    BY <2>1 DEF Init, CallInv, OverInv, EarlyInv, AnswerInv
  <2> QED
    BY <2>2, <2>3, <2>5, <2>6, <2>7 DEF LinkInv, Init
<1> QED
  BY <1>1, NetInvariant, LinkStep, PTL DEF Spec

(* The answer to another call is taken for its own only if nobody waited   *)
(* for that one to its end, or if its id has been given to a second call   *)
(* of its run.                                                             *)
THEOREM AnswersAreForCalls == Spec => []AnswerIsForCall
<1>1. NetInv /\ LinkInv => AnswerIsForCall
  BY DEF LinkInv, CallInv, AnswerInv, Strayed, AnswerIsForCall
<1> QED
  BY <1>1, LinkInvariant, PTL

(* The server a task has been told it is connected to is the one its       *)
(* socket is connected to, as long as every connect is waited for to its   *)
(* end, none is tried again on the same socket and no call has returned    *)
(* with the answer to another one.                                         *)
THEOREM PatientTasksAreConnected == Spec => []ConnectedIfPatient
<1>1. NetInv /\ LinkInv => ConnectedIfPatient
  <2> SUFFICES ASSUME LinkInv, Patient, NEW t \in Tasks, target[t] # None,
                      ~Closing(t)
               PROVE  /\ s_net_ctx[handle[t]].in_use
                      /\ Peer(handle[t]) = target[t]
    BY DEF ConnectedIfPatient, ConnectedToServer, Patient, Peer
  <2>1. HeldInv /\ OwnInv /\ PeerInv
    BY DEF LinkInv, Patient
  <2>2. Holds(t)
    BY <2>1 DEF HeldInv, Holds
  <2> QED
    BY <2>1, <2>2 DEF OwnInv, PeerInv, HasCtx
<1> QED
  BY <1>1, LinkInvariant, PTL
=============================================================================
