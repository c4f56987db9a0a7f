--------------------------- MODULE AtsRpc_proofs ---------------------------
(***************************************************************************)
(* Proofs about AtsRpc for every number of tasks, channels, slots and ids. *)
(***************************************************************************)
EXTENDS AtsRpc, TLAPS

-----------------------------------------------------------------------------
(* Type correctness.                                                       *)

(* The counter stays within the ids when it is advanced.                   *)
LEMMA NextIdType ==
  ASSUME s_request_id_counter \in Ids
  PROVE  NextId \in Ids
BY ConstantsAssumption DEF NextId, Ids

(* An rpc_task in a delivery keeps its frame and its slot as it moves on.  *)
LEMMA StepType ==
  ASSUME TypeOK, NEW c \in Channels, handling[c].at \in {"copy", "result"},
         NEW to \in {"result", "give"}, Step(c, to)
  PROVE  /\ handling' \in [Channels -> Handling]
         /\ handling[c] \in [at: {"copy", "result", "give"},
                             frame: Response, slot: Slots]
<1>1. handling[c] \in [at: {"copy", "result", "give"}, frame: Response,
                       slot: Slots]
  BY DEF TypeOK, Handling
<1>2. [handling[c] EXCEPT !.at = to]
         \in [at: {"copy", "result", "give"}, frame: Response, slot: Slots]
  BY <1>1
<1>3. [handling[c] EXCEPT !.at = to] \in Handling
  BY <1>2 DEF Handling
<1> QED
  BY <1>1, <1>3 DEF TypeOK, Step

(* A caller's step keeps the types.                                        *)
LEMMA CallerType ==
  ASSUME TypeOK, NEW t \in Tasks, Caller(t)
  PROVE  TypeOK'
<1> USE ConstantsAssumption
<1>0. NextId \in Ids
  BY NextIdType DEF TypeOK
<1>d. ASSUME DrawId(t)
      PROVE  calls' \in Calls /\ call' \in [Tasks -> Calls]
  BY <1>d DEF DrawId, TypeOK, Calls
<1>1. CASE Allocate(t)
  <2>1. calls' \in Calls /\ call' \in [Tasks -> Calls]
    BY <1>1, <1>d DEF Allocate
  <2>2. PICK s \in Slots : s_pending' = [s_pending EXCEPT ![s].in_use = TRUE]
                           /\ slot' = [slot EXCEPT ![t] = s]
    BY <1>1 DEF Allocate, FreeSlots
  <2>e. [s_pending[s] EXCEPT !.in_use = TRUE] \in Pending
    <3>1. s_pending[s] \in Pending
      BY DEF TypeOK
    <3> QED
      BY <3>1 DEF Pending
  <2>3. s_pending' \in [Slots -> Pending]
    BY <2>2, <2>e DEF TypeOK
  <2>4. ret' \in [Tasks -> Returned]
    BY <1>1 DEF Allocate, TypeOK, Returned
  <2>5. pc' \in [Tasks -> {"idle"} \cup Holding]
    BY <1>1 DEF Allocate, Goto, TypeOK, Holding
  <2> QED
    BY <1>0, <1>1, <2>1, <2>2, <2>3, <2>4, <2>5
    DEF Allocate, DrawId, TypeOK, hostVars
<1>2. CASE AllocateFails(t)
  <2>1. calls' \in Calls /\ call' \in [Tasks -> Calls]
    BY <1>2, <1>d DEF AllocateFails
  <2>2. ret' \in [Tasks -> Returned]
    BY <1>2, <2>1 DEF AllocateFails, Return, TypeOK, Returned, Statuses
  <2> QED
    BY <1>0, <1>2, <2>1, <2>2
    DEF AllocateFails, Goto, DrawId, TypeOK, hostVars
<1>f. ASSUME NEW from, NEW to \in Holding, NEW entry \in Pending,
             Fill(t, from, to, entry)
      PROVE  TypeOK'
  <2>1. s_pending' \in [Slots -> Pending]
    BY <1>f DEF Fill, TypeOK
  <2>2. pc' \in [Tasks -> {"idle"} \cup Holding]
    BY <1>f DEF Fill, Goto, TypeOK
  <2> QED
    BY <1>f, <2>1, <2>2 DEF Fill, TypeOK, hostVars
<1>e. s_pending[slot[t]] \in Pending /\ rid[t] \in Ids
  BY DEF TypeOK
<1>3. CASE FillBuffer(t)
  <2>1. PICK size \in Sizes :
          Fill(t, "fill_buf", "fill_result",
               [s_pending[slot[t]] EXCEPT !.response_buf = call[t],
                                          !.response_buf_size = size])
    BY <1>3 DEF FillBuffer
  <2>2. call[t] \in Calls
    BY DEF TypeOK
  <2>3. [s_pending[slot[t]] EXCEPT !.response_buf = call[t],
                                   !.response_buf_size = size] \in Pending
    BY <1>e, <2>2 DEF Pending
  <2> QED
    BY <1>f, <2>1, <2>3 DEF Holding
<1>4. CASE FillResult(t)
  <2>1. [s_pending[slot[t]] EXCEPT !.result = "TIMEOUT"] \in Pending
    BY <1>e DEF Pending, Statuses
  <2> QED
    BY <1>4, <1>f, <2>1 DEF FillResult, Holding
<1>5. CASE FillId(t)
  <2>1. [s_pending[slot[t]] EXCEPT !.request_id = rid[t]] \in Pending
    BY <1>e DEF Pending
  <2> QED
    BY <1>5, <1>f, <2>1 DEF FillId, Holding
<1>6. CASE Send(t)
  <2>1. PICK c \in Channels :
          requests' = requests \cup {[call |-> call[t], id |-> rid[t],
                                      channel |-> c]}
    BY <1>6 DEF Send
  <2>2. requests' \subseteq Request
    BY <2>1 DEF TypeOK, Request
  <2> QED
    BY <1>6, <2>2 DEF Send, Goto, TypeOK, Holding
<1>7. CASE SendFails(t)
  BY <1>7 DEF SendFails, Goto, TypeOK, Holding, hostVars
<1>8. CASE Wake(t)
  BY <1>8 DEF Wake, Goto, TypeOK, Holding, hostVars
<1>9. CASE Expire(t)
  BY <1>9 DEF Expire, Goto, TypeOK, Holding, hostVars
<1>10. ASSUME NEW from, NEW status \in Statuses, Leave(t, from, status)
       PROVE  TypeOK'
  <2>1. ret' \in [Tasks -> Returned]
    BY <1>10 DEF Leave, Return, TypeOK, Returned
  <2>e. [s_pending[slot[t]] EXCEPT !.in_use = FALSE] \in Pending
    <3>1. s_pending[slot[t]] \in Pending
      BY DEF TypeOK
    <3> QED
      BY <3>1 DEF Pending
  <2>2. s_pending' \in [Slots -> Pending]
    BY <1>10, <2>e DEF Leave, TypeOK
  <2>3. 0 \in Slots /\ 0 \in Ids /\ 0 \in Calls
    BY DEF Slots, Ids, Calls
  <2>4. pc' \in [Tasks -> {"idle"} \cup Holding]
    BY <1>10 DEF Leave, Goto, TypeOK
  <2>5. /\ slot' \in [Tasks -> Slots]
        /\ rid' \in [Tasks -> Ids]
        /\ content' \in [Tasks -> Calls]
    BY <1>10, <2>3 DEF Leave, TypeOK
  <2>6. UNCHANGED <<s_pending_mutex, s_request_id_counter, semaphore,
                    call, calls, handling, hostVars>>
    BY <1>10 DEF Leave
  <2> QED
    BY <2>1, <2>2, <2>4, <2>5, <2>6 DEF TypeOK, hostVars
<1>11. CASE ReturnSendFailed(t) \/ ReturnTimeout(t)
  BY <1>10, <1>11 DEF ReturnSendFailed, ReturnTimeout, Statuses
<1>12. CASE ReturnResult(t)
  <2>1. s_pending[slot[t]].result \in Statuses
    BY DEF TypeOK, Pending
  <2> QED
    BY <1>10, <1>12, <2>1 DEF ReturnResult
<1> QED
  BY <1>1, <1>2, <1>3, <1>4, <1>5, <1>6, <1>7, <1>8, <1>9, <1>11, <1>12
  DEF Caller

(* So does a step of an rpc_task.                                          *)
LEMMA RpcTaskType ==
  ASSUME TypeOK, NEW c \in Channels, RpcTask(c)
  PROVE  TypeOK'
<1>r. \A s \in Slots : s_pending[s] \in Pending
  BY DEF TypeOK
<1>1. CASE Receive(c)
  <2>1. PICK r \in responses :
          /\ responses' = responses \ {r}
          /\ handling' = [handling EXCEPT
                            ![c] = [at |-> "dispatch", frame |-> r]]
    BY <1>1 DEF Receive
  <2>2. [at |-> "dispatch", frame |-> r] \in Handling
    BY DEF TypeOK, Handling
  <2> QED
    BY <1>1, <2>1, <2>2 DEF Receive, TypeOK, callerVars
<1>2. CASE Match(c)
  <2>1. PICK s \in Slots :
          handling' = [handling EXCEPT
                         ![c] = [at |-> "copy", slot |-> s,
                                 frame |-> handling[c].frame]]
    BY <1>2 DEF Match, Matching
  <2>2. handling[c] \in [at: {"dispatch"}, frame: Response]
    BY <1>2 DEF Match, TypeOK, Handling
  <2>3. [at |-> "copy", slot |-> s, frame |-> handling[c].frame] \in Handling
    BY <2>2 DEF Handling
  <2> QED
    BY <1>2, <2>1, <2>3 DEF Match, TypeOK, callerVars, hostVars
<1>3. CASE Discard(c)
  <2>1. NoHandling \in Handling
    BY DEF NoHandling, Handling
  <2> QED
    BY <1>3, <2>1 DEF Discard, TypeOK, callerVars, hostVars
<1>4. CASE TooLarge(c)
  <2>1. /\ handling' \in [Channels -> Handling]
        /\ handling[c].slot \in Slots
    BY <1>4, StepType DEF TooLarge
  <2>2. [s_pending[handling[c].slot] EXCEPT !.result = "TOO_LARGE"] \in Pending
    BY <1>r, <2>1 DEF Pending, Statuses
  <2>3. s_pending' \in [Slots -> Pending]
    BY <1>4, <2>1, <2>2 DEF TooLarge, TypeOK
  <2> QED
    BY <1>4, <2>1, <2>3 DEF TooLarge, TypeOK, callerVars, hostVars
<1>5. CASE Copy(c)
  <2>1. /\ handling' \in [Channels -> Handling]
        /\ handling[c].frame.call \in Calls
    BY <1>5, StepType DEF Copy, Response
  <2>2. content' \in [Tasks -> Calls]
    BY <1>5, <2>1 DEF Copy, TypeOK
  <2> QED
    BY <1>5, <2>1, <2>2 DEF Copy, TypeOK, callerVars, hostVars
<1>6. CASE SetResult(c)
  <2>1. /\ handling' \in [Channels -> Handling]
        /\ handling[c].slot \in Slots
    BY <1>6, StepType DEF SetResult
  <2>2. [s_pending[handling[c].slot] EXCEPT !.result = "OK"] \in Pending
    BY <1>r, <2>1 DEF Pending, Statuses
  <2>3. s_pending' \in [Slots -> Pending]
    BY <1>6, <2>1, <2>2 DEF SetResult, TypeOK
  <2> QED
    BY <1>6, <2>1, <2>3 DEF SetResult, TypeOK, callerVars, hostVars
<1>7. CASE Give(c)
  <2>1. NoHandling \in Handling
    BY DEF NoHandling, Handling
  <2> QED
    BY <1>7, <2>1 DEF Give, TypeOK, callerVars, hostVars
<1> QED
  BY <1>1, <1>2, <1>3, <1>4, <1>5, <1>6, <1>7 DEF RpcTask

(* And an answer, or none, of the host.                                    *)
LEMMA HostType ==
  ASSUME TypeOK, Host
  PROVE  TypeOK'
<1>1. PICK q \in requests : Answer(q) \/ Ignore(q)
  BY DEF Host
<1>2. q \in Request
  BY <1>1 DEF TypeOK
<1>3. CASE Answer(q)
  <2>1. PICK n \in Sizes :
          responses' = responses \cup {[call |-> q.call, id |-> q.id,
                                        channel |-> q.channel, length |-> n]}
    BY <1>3 DEF Answer
  <2>2. responses' \subseteq Response /\ answered' \subseteq Calls
    BY <1>2, <1>3, <2>1 DEF Answer, TypeOK, Request, Response
  <2> QED
    BY <1>3, <2>2 DEF Answer, TypeOK, callerVars
<1>4. CASE Ignore(q)
  BY <1>4 DEF Ignore, TypeOK, callerVars
<1> QED
  BY <1>1, <1>3, <1>4

(* The first state has these types ...                                     *)
LEMMA InitType == Init => TypeOK
<1> SUFFICES ASSUME Init PROVE TypeOK
  OBVIOUS
<1>1. s_pending \in [Slots -> Pending]
  BY ConstantsAssumption DEF Init, Pending, Ids, Calls, Statuses
<1>2. handling \in [Channels -> Handling]
  BY DEF Init, NoHandling, Handling
<1>3. ret \in [Tasks -> Returned]
  BY DEF Init, Returned
<1>4. 0 \in Slots /\ 0 \in Ids /\ 0 \in Calls
  BY ConstantsAssumption DEF Slots, Ids, Calls
<1> QED
  BY <1>1, <1>2, <1>3, <1>4 DEF Init, TypeOK, NewSemaphores

(* ... and every step keeps them.                                          *)
LEMMA NextType == TypeOK /\ [Next]_vars => TypeOK'
<1> SUFFICES ASSUME TypeOK, [Next]_vars PROVE TypeOK'
  OBVIOUS
<1>1. CASE UNCHANGED vars
  BY <1>1 DEF TypeOK, vars, callerVars, hostVars
<1>2. CASE Finished
  BY <1>2 DEF Finished, TypeOK, vars, callerVars, hostVars
<1> QED
  BY <1>1, <1>2, CallerType, RpcTaskType, HostType DEF Next

(* Every variable keeps its type: no id, slot or length leaves its range.  *)
THEOREM TypeCorrect == Spec => []TypeOK
BY InitType, NextType, PTL DEF Spec

-----------------------------------------------------------------------------
(* Slots: who owns one, and what a delivery may write to.                  *)

(* The inductive invariant.  Each part is inductive given the ones before: *)
(* what a call stored stays because nobody else holds its slot, and the    *)
(* slot a delivery writes to stays in use because only the holder of the   *)
(* mutex frees one.                                                        *)
SlotInv == TypeOK /\ SlotOwnership /\ DeliveryTargetHeld /\ SlotIntact

(* A caller between its allocation and its return changes only its own     *)
(* slot, and leaves that in use.                                           *)
OwnSlotStep(t) ==
  /\ pc[t] \in Holding /\ pc'[t] \in Holding
  /\ \A u \in Tasks \ {t} : pc'[u] = pc[u]
  /\ slot' = slot /\ handling' = handling
  /\ s_pending_mutex' = s_pending_mutex
  /\ call' = call /\ rid' = rid
  /\ \A s \in Slots : s_pending'[s].in_use = s_pending[s].in_use
  /\ \A s \in Slots \ {slot[t]} : s_pending'[s] = s_pending[s]

(* Between taking its slot and giving it back a call keeps to it.          *)
LEMMA CallerBetween ==
  ASSUME TypeOK, NEW t \in Tasks,
         \/ FillBuffer(t) \/ FillResult(t) \/ FillId(t)
         \/ Send(t) \/ SendFails(t) \/ Wake(t) \/ Expire(t)
  PROVE  OwnSlotStep(t)
<1>1. ASSUME NEW from \in Holding, NEW to \in Holding, Goto(t, from, to)
      PROVE  /\ pc[t] \in Holding /\ pc'[t] \in Holding
             /\ \A u \in Tasks \ {t} : pc'[u] = pc[u]
  BY <1>1 DEF Goto, TypeOK
<1>f. s_pending[slot[t]] \in Pending
  BY DEF TypeOK
<1>2. CASE FillBuffer(t)
  <2>1. PICK size \in Sizes :
          Fill(t, "fill_buf", "fill_result",
               [s_pending[slot[t]] EXCEPT !.response_buf = call[t],
                                          !.response_buf_size = size])
    BY <1>2 DEF FillBuffer
  <2>3. [s_pending[slot[t]] EXCEPT !.response_buf = call[t],
                                   !.response_buf_size = size].in_use
          = s_pending[slot[t]].in_use
    BY <1>f DEF Pending
  <2> QED
    BY <1>1, <2>1, <2>3 DEF Fill, OwnSlotStep, TypeOK, Holding
<1>3. CASE FillResult(t)
  <2>1. [s_pending[slot[t]] EXCEPT !.result = "TIMEOUT"].in_use
          = s_pending[slot[t]].in_use
    BY <1>f DEF Pending
  <2> QED
    BY <1>1, <1>3, <2>1 DEF FillResult, Fill, OwnSlotStep, TypeOK, Holding
<1>5. CASE FillId(t)
  <2>1. [s_pending[slot[t]] EXCEPT !.request_id = rid[t]].in_use
          = s_pending[slot[t]].in_use
    BY <1>f DEF Pending
  <2> QED
    BY <1>1, <1>5, <2>1 DEF FillId, Fill, OwnSlotStep, TypeOK, Holding
<1>4. CASE Send(t) \/ SendFails(t) \/ Wake(t) \/ Expire(t)
  BY <1>1, <1>4 DEF Send, SendFails, Wake, Expire, OwnSlotStep, Holding
<1> QED
  BY <1>2, <1>3, <1>4, <1>5

(* An rpc_task never changes whether a slot is in use, nor what a call     *)
(* stored in it.                                                           *)
DispatchStep ==
  /\ UNCHANGED callerVars
  /\ \A s \in Slots :
       /\ s_pending'[s].in_use = s_pending[s].in_use
       /\ s_pending'[s].response_buf = s_pending[s].response_buf
       /\ s_pending'[s].request_id = s_pending[s].request_id

(* A dispatch neither takes nor frees a slot, nor changes what it is for.  *)
LEMMA RpcTaskKeepsSlots ==
  ASSUME TypeOK, NEW c \in Channels, RpcTask(c)
  PROVE  DispatchStep
<1>1. CASE Receive(c) \/ Match(c) \/ Discard(c) \/ Copy(c) \/ Give(c)
  BY <1>1 DEF Receive, Match, Discard, Copy, Give, DispatchStep
<1>2. ASSUME NEW s \in Slots, NEW r,
             s_pending' = [s_pending EXCEPT ![s].result = r]
      PROVE  \A w \in Slots :
               /\ s_pending'[w].in_use = s_pending[w].in_use
               /\ s_pending'[w].response_buf = s_pending[w].response_buf
               /\ s_pending'[w].request_id = s_pending[w].request_id
  <2>1. \A w \in Slots : s_pending[w] \in Pending
    BY DEF TypeOK
  <2> QED
    BY <1>2, <2>1 DEF TypeOK, Pending
<1>3. CASE TooLarge(c)
  <2>1. handling[c].slot \in Slots
    BY <1>3, StepType DEF TooLarge
  <2> QED
    BY <1>2, <1>3, <2>1 DEF TooLarge, DispatchStep
<1>4. CASE SetResult(c)
  <2>1. handling[c].slot \in Slots
    BY <1>4, StepType DEF SetResult
  <2> QED
    BY <1>2, <1>4, <2>1 DEF SetResult, DispatchStep
<1> QED
  BY <1>1, <1>3, <1>4 DEF RpcTask

(* A new call takes a slot that was free.                                  *)
LEMMA AllocateTakes ==
  ASSUME TypeOK, NEW t \in Tasks, Allocate(t)
  PROVE  /\ pc[t] = "idle" /\ pc'[t] = "fill_buf"
         /\ \A u \in Tasks \ {t} : pc'[u] = pc[u] /\ slot'[u] = slot[u]
                                  /\ call'[u] = call[u] /\ rid'[u] = rid[u]
         /\ slot'[t] \in Slots
         /\ ~s_pending[slot'[t]].in_use /\ s_pending'[slot'[t]].in_use
         /\ \A s \in Slots \ {slot'[t]} : s_pending'[s] = s_pending[s]
         /\ handling' = handling /\ s_pending_mutex' = s_pending_mutex
<1>1. PICK s \in Slots : /\ ~s_pending[s].in_use
                         /\ slot' = [slot EXCEPT ![t] = s]
                         /\ s_pending' = [s_pending EXCEPT ![s].in_use = TRUE]
  BY DEF Allocate, FreeSlots
<1>2. s_pending[s] \in Pending
  BY DEF TypeOK
<1>3. [s_pending[s] EXCEPT !.in_use = TRUE].in_use
  BY <1>2 DEF Pending
<1>4. slot'[t] = s /\ s_pending'[s].in_use
  BY <1>1, <1>3 DEF TypeOK
<1>5. /\ pc[t] = "idle" /\ pc'[t] = "fill_buf"
      /\ \A u \in Tasks \ {t} : pc'[u] = pc[u]
  BY DEF Allocate, Goto, TypeOK
<1>6. /\ \A u \in Tasks \ {t} : call'[u] = call[u] /\ rid'[u] = rid[u]
      /\ handling' = handling /\ s_pending_mutex' = s_pending_mutex
  BY DEF Allocate, DrawId, TypeOK
<1> QED
  BY <1>1, <1>4, <1>5, <1>6 DEF TypeOK

(* A call that returns frees its own slot while no delivery is under way.  *)
Frees(t) ==
  /\ pc[t] \in Holding /\ pc'[t] = "idle" /\ MutexFree
  /\ \A u \in Tasks \ {t} : pc'[u] = pc[u] /\ slot'[u] = slot[u]
                           /\ rid'[u] = rid[u]
  /\ call' = call
  /\ ~s_pending'[slot[t]].in_use
  /\ \A s \in Slots \ {slot[t]} : s_pending'[s] = s_pending[s]
  /\ handling' = handling /\ s_pending_mutex' = s_pending_mutex

(* Each way out of a call frees its slot and no other.                     *)
LEMMA ReturnFrees ==
  ASSUME TypeOK, NEW t \in Tasks,
         ReturnSendFailed(t) \/ ReturnTimeout(t) \/ ReturnResult(t)
  PROVE  Frees(t)
<1>1. ASSUME NEW from \in Holding, NEW status, Leave(t, from, status)
      PROVE  Frees(t)
  <2>1. s_pending[slot[t]] \in Pending /\ slot[t] \in Slots
    BY DEF TypeOK
  <2>2. [s_pending[slot[t]] EXCEPT !.in_use = FALSE].in_use = FALSE
    BY <2>1 DEF Pending
  <2>3. /\ ~s_pending'[slot[t]].in_use
        /\ \A s \in Slots \ {slot[t]} : s_pending'[s] = s_pending[s]
    BY <1>1, <2>1, <2>2 DEF Leave, TypeOK
  <2>4. /\ pc[t] \in Holding /\ pc'[t] = "idle"
        /\ \A u \in Tasks \ {t} : pc'[u] = pc[u]
    BY <1>1 DEF Leave, Goto, TypeOK
  <2>5. \A u \in Tasks \ {t} : slot'[u] = slot[u] /\ rid'[u] = rid[u]
    BY <1>1 DEF Leave, TypeOK
  <2> QED
    BY <1>1, <2>3, <2>4, <2>5 DEF Leave, Frees
<1> QED
  BY <1>1 DEF ReturnSendFailed, ReturnTimeout, ReturnResult, Holding

(* SlotOwnership is kept by every step.                                    *)
LEMMA OwnershipCaller ==
  ASSUME TypeOK, TypeOK', SlotOwnership, NEW t \in Tasks, Caller(t)
  PROVE  SlotOwnership'
<1> USE DEF SlotOwnership
<1>0. "idle" \notin Holding /\ "fill_buf" \in Holding
  BY DEF Holding
<1>1. CASE Allocate(t)
  <2>1. /\ pc[t] = "idle" /\ pc'[t] = "fill_buf"
        /\ \A u \in Tasks \ {t} : pc'[u] = pc[u] /\ slot'[u] = slot[u]
        /\ slot'[t] \in Slots
        /\ ~s_pending[slot'[t]].in_use /\ s_pending'[slot'[t]].in_use
        /\ \A s \in Slots \ {slot'[t]} : s_pending'[s] = s_pending[s]
    BY <1>1, AllocateTakes
  <2>2. \A u \in Tasks \ {t} : pc'[u] \in Holding =>
          /\ pc[u] \in Holding /\ slot'[u] = slot[u] /\ slot[u] \in Slots
          /\ s_pending[slot[u]].in_use /\ slot[u] # slot'[t]
    BY <2>1 DEF TypeOK
  <2>3. \A u \in Tasks : pc'[u] \in Holding => s_pending'[slot'[u]].in_use
    BY <2>1, <2>2
  <2>4. \A u, v \in Tasks : pc'[u] \in Holding /\ pc'[v] \in Holding
                            /\ slot'[u] = slot'[v] => u = v
    BY <2>1, <2>2
  <2>5. \A s \in Slots : s_pending'[s].in_use =>
          \E u \in Tasks : pc'[u] \in Holding /\ slot'[u] = s
    <3>1. TAKE s \in Slots
    <3>2. CASE s = slot'[t]
      BY <1>0, <2>1, <3>2
    <3>3. CASE s # slot'[t]
      BY <1>0, <2>1, <3>3
    <3> QED
      BY <3>2, <3>3
  <2> QED
    BY <2>3, <2>4, <2>5
<1>2. CASE AllocateFails(t)
  BY <1>2 DEF AllocateFails, Goto, TypeOK
<1>3. CASE OwnSlotStep(t)
  BY <1>3 DEF OwnSlotStep, TypeOK
<1>4. CASE Frees(t)
  <2>1. \A u \in Tasks : pc'[u] \in Holding =>
          u # t /\ pc[u] \in Holding /\ slot'[u] = slot[u]
    BY <1>0, <1>4 DEF Frees
  <2>2. \A u \in Tasks : pc'[u] \in Holding =>
          slot[u] # slot[t] /\ slot[u] \in Slots
    BY <1>4, <2>1 DEF Frees, TypeOK
  <2>3. \A u \in Tasks : pc'[u] \in Holding => s_pending'[slot'[u]].in_use
    BY <1>4, <2>1, <2>2 DEF Frees
  <2>4. ASSUME NEW s \in Slots, s_pending'[s].in_use
        PROVE  \E u \in Tasks : pc'[u] \in Holding /\ slot'[u] = s
    <3>1. s # slot[t] /\ s_pending[s].in_use
      BY <1>4, <2>4 DEF Frees
    <3>2. PICK u \in Tasks : pc[u] \in Holding /\ slot[u] = s
      BY <3>1
    <3> QED
      BY <1>4, <3>1, <3>2 DEF Frees
  <2> QED
    BY <2>1, <2>3, <2>4
<1> QED
  BY <1>1, <1>2, <1>3, <1>4, CallerBetween, ReturnFrees DEF Caller

(* So is DeliveryTargetHeld by the callers ...                             *)
LEMMA TargetCaller ==
  ASSUME TypeOK, SlotOwnership, DeliveryTargetHeld, NEW t \in Tasks, Caller(t)
  PROVE  DeliveryTargetHeld'
<1> USE DEF DeliveryTargetHeld
<1>0. \A c \in Channels : handling[c].at \in {"copy", "result", "give"} =>
                           handling[c].slot \in Slots
  BY DEF TypeOK, Handling
<1>1. CASE Allocate(t)
  BY <1>0, <1>1, AllocateTakes
<1>2. CASE AllocateFails(t)
  BY <1>2 DEF AllocateFails, DrawId
<1>3. CASE OwnSlotStep(t)
  BY <1>0, <1>3 DEF OwnSlotStep
<1>4. CASE Frees(t)
  <2>1. \A c \in Channels : handling[c].at \notin {"copy", "result", "give"}
    BY <1>4, ConstantsAssumption DEF Frees, MutexFree
  <2> QED
    BY <1>4, <2>1 DEF Frees
<1> QED
  BY <1>1, <1>2, <1>3, <1>4, CallerBetween, ReturnFrees DEF Caller

(* ... and by the rpc_tasks.                                               *)
LEMMA TargetRpcTask ==
  ASSUME TypeOK, DeliveryTargetHeld, NEW c \in Channels, RpcTask(c)
  PROVE  DeliveryTargetHeld'
<1> DEFINE Delivering(h) == h.at \in {"copy", "result", "give"}
<1>0. \A d \in Channels : Delivering(handling[d]) => handling[d].slot \in Slots
  BY DEF TypeOK, Handling
<1>1. \A s \in Slots : s_pending'[s].in_use = s_pending[s].in_use
  BY RpcTaskKeepsSlots DEF DispatchStep
<1>2. CASE Receive(c)
  BY <1>0, <1>1, <1>2 DEF Receive, DeliveryTargetHeld, TypeOK
<1>3. CASE Match(c)
  <2>1. PICK s \in Slots :
          /\ s_pending[s].in_use
          /\ handling' = [handling EXCEPT
                             ![c] = [at |-> "copy", slot |-> s,
                                     frame |-> handling[c].frame]]
    BY <1>3 DEF Match, Matching
  <2>2. \A d \in Channels : ~Delivering(handling[d])
    BY <1>3, ConstantsAssumption DEF Match, MutexFree, DeliveryTargetHeld
  <2>3. s_pending_mutex' = c
    BY <1>3 DEF Match
  <2> QED
    BY <1>1, <2>1, <2>2, <2>3 DEF DeliveryTargetHeld, TypeOK
<1>4. CASE Discard(c)
  BY <1>0, <1>1, <1>4 DEF Discard, NoHandling, DeliveryTargetHeld, TypeOK
<1>5. CASE TooLarge(c) \/ Copy(c) \/ SetResult(c)
  <2>1. /\ Delivering(handling[c]) /\ s_pending_mutex' = s_pending_mutex
        /\ \E to \in {"result", "give"} : Step(c, to)
    BY <1>5 DEF TooLarge, Copy, SetResult
  <2>2. /\ handling'[c].slot = handling[c].slot
        /\ \A d \in Channels \ {c} : handling'[d] = handling[d]
    <3>1. handling[c] \in [at: {"copy", "result", "give"},
                           frame: Response, slot: Slots]
      BY <2>1 DEF TypeOK, Handling
    <3> QED
      BY <2>1, <3>1 DEF Step, TypeOK
  <2> QED
    BY <1>0, <1>1, <2>1, <2>2 DEF DeliveryTargetHeld
<1>6. CASE Give(c)
  <2>1. \A d \in Channels \ {c} : ~Delivering(handling[d])
    BY <1>6 DEF Give, DeliveryTargetHeld
  <2>2. /\ ~Delivering(handling'[c])
        /\ \A d \in Channels \ {c} : handling'[d] = handling[d]
    BY <1>6 DEF Give, NoHandling, TypeOK
  <2> QED
    BY <2>1, <2>2 DEF DeliveryTargetHeld
<1> QED
  BY <1>2, <1>3, <1>4, <1>5, <1>6 DEF RpcTask

(* What a call stored stays.                                               *)
LEMMA IntactCaller ==
  ASSUME TypeOK, TypeOK', SlotOwnership, SlotIntact,
         NEW t \in Tasks, Caller(t)
  PROVE  SlotIntact'
<1> USE DEF SlotIntact
<1>0. "idle" \notin Holding /\ "fill_buf" \in Holding
  BY DEF Holding
<1>1. CASE Allocate(t)
  BY <1>0, <1>1, AllocateTakes DEF SlotOwnership, TypeOK
<1>2. CASE AllocateFails(t)
  <2>1. /\ \A u \in Tasks : pc'[u] = pc[u]
        /\ \A u \in Tasks \ {t} : call'[u] = call[u]
        /\ pc[t] = "idle"
        /\ UNCHANGED <<s_pending, slot, rid>>
    BY <1>2 DEF AllocateFails, DrawId, Goto, TypeOK
  <2> QED
    BY <1>0, <2>1
<1>3. ASSUME OwnSlotStep(t), \/ FillBuffer(t) \/ FillResult(t) \/ FillId(t)
                             \/ Send(t) \/ SendFails(t) \/ Wake(t) \/ Expire(t)
      PROVE  SlotIntact'
  <2>1. \A u \in Tasks \ {t} : pc[u] \in Holding =>
            s_pending'[slot[u]] = s_pending[slot[u]]
    BY <1>3 DEF OwnSlotStep, SlotOwnership, TypeOK
  <2>2. \A u \in Tasks \ {t} :
          /\ pc'[u] \in Holding \ {"fill_buf"}
               => s_pending'[slot'[u]].response_buf = call'[u]
          /\ pc'[u] \in Holding \ {"fill_buf", "fill_result", "fill_id"}
               => s_pending'[slot'[u]].request_id = rid'[u]
    BY <1>3, <2>1 DEF OwnSlotStep
  <2>3. s_pending[slot[t]] \in Pending /\ slot[t] \in Slots
    BY DEF TypeOK
  <2>4. CASE FillBuffer(t)
    <3>1. PICK size \in Sizes :
            /\ pc' = [pc EXCEPT ![t] = "fill_result"]
            /\ s_pending' = [s_pending EXCEPT ![slot[t]] =
                               [s_pending[slot[t]] EXCEPT
                                  !.response_buf = call[t],
                                  !.response_buf_size = size]]
      BY <2>4 DEF FillBuffer, Fill, Goto
    <3>2. [s_pending[slot[t]] EXCEPT
             !.response_buf = call[t],
             !.response_buf_size = size].response_buf = call[t]
      BY <2>3 DEF Pending
    <3>3. pc'[t] = "fill_result" /\ s_pending'[slot[t]].response_buf = call[t]
      BY <2>3, <3>1, <3>2 DEF TypeOK
    <3> QED
      BY <1>3, <2>2, <3>3 DEF OwnSlotStep
  <2>5. CASE FillResult(t)
    <3>1. [s_pending[slot[t]] EXCEPT !.result = "TIMEOUT"].response_buf
            = s_pending[slot[t]].response_buf
      BY <2>3 DEF Pending
    <3>2. /\ pc[t] = "fill_result" /\ pc'[t] = "fill_id"
          /\ s_pending'[slot[t]].response_buf = s_pending[slot[t]].response_buf
      BY <2>3, <2>5, <3>1 DEF FillResult, Fill, Goto, TypeOK
    <3> QED
      BY <1>3, <2>2, <3>2 DEF OwnSlotStep
  <2>6. CASE FillId(t)
    <3>1. LET e == [s_pending[slot[t]] EXCEPT !.request_id = rid[t]] IN
            /\ e.response_buf = s_pending[slot[t]].response_buf
            /\ e.request_id = rid[t]
      BY <2>3 DEF Pending
    <3>2. /\ pc[t] = "fill_id"
          /\ s_pending'[slot[t]].response_buf = s_pending[slot[t]].response_buf
          /\ s_pending'[slot[t]].request_id = rid[t]
      BY <2>3, <2>6, <3>1 DEF FillId, Fill, Goto, TypeOK
    <3> QED
      BY <1>3, <2>2, <3>2 DEF OwnSlotStep, Holding
  <2>7. CASE Send(t) \/ SendFails(t) \/ Wake(t) \/ Expire(t)
    <3>1. s_pending' = s_pending /\ pc[t] \in {"send", "wait"}
      BY <2>7 DEF Send, SendFails, Wake, Expire, Goto
    <3> QED
      BY <1>3, <2>2, <3>1 DEF OwnSlotStep, Holding
  <2> QED
    BY <1>3, <2>4, <2>5, <2>6, <2>7
<1>4. CASE Frees(t)
  BY <1>0, <1>4 DEF Frees, SlotOwnership, TypeOK
<1> QED
  BY <1>1, <1>2, <1>3, <1>4, CallerBetween, ReturnFrees DEF Caller

(* A slot belongs to one call from its allocation to its return; a         *)
(* delivery writes only to a slot that stays in use; what the call stored  *)
(* in its slot stays there.                                                *)
LEMMA SlotInvariant == Spec => []SlotInv
<1>1. Init => SlotInv
  <2> SUFFICES ASSUME Init PROVE SlotInv
    OBVIOUS
  <2>1. TypeOK
    BY InitType
  <2>2. \A s \in Slots : ~s_pending[s].in_use
    BY DEF Init
  <2>3. \A t \in Tasks : pc[t] \notin Holding
    BY DEF Init, Holding
  <2>4. \A c \in Channels : handling[c].at \notin {"copy", "result", "give"}
    BY DEF Init, NoHandling
  <2> QED
    BY <2>1, <2>2, <2>3, <2>4
    DEF SlotInv, SlotOwnership, DeliveryTargetHeld, SlotIntact
<1>2. SlotInv /\ [Next]_vars => SlotInv'
  <2> SUFFICES ASSUME SlotInv, [Next]_vars PROVE SlotInv'
    OBVIOUS
  <2> USE DEF SlotInv
  <2>0. TypeOK'
    BY NextType
  <2>1. ASSUME UNCHANGED <<s_pending, s_pending_mutex, handling, pc, slot,
                           rid, call>>
        PROVE  SlotInv'
    BY <2>0, <2>1 DEF SlotOwnership, DeliveryTargetHeld, SlotIntact
  <2>2. CASE UNCHANGED vars
    BY <2>1, <2>2 DEF vars, callerVars
  <2>3. CASE Finished
    BY <2>1, <2>3 DEF Finished, vars, callerVars
  <2>4. CASE Host
    BY <2>1, <2>4 DEF Host, Answer, Ignore, callerVars
  <2>5. ASSUME NEW t \in Tasks, Caller(t) PROVE SlotInv'
    BY <2>0, <2>5, OwnershipCaller, TargetCaller, IntactCaller
  <2>6. ASSUME NEW c \in Channels, RpcTask(c) PROVE SlotInv'
    <3>1. DispatchStep
      BY <2>6, RpcTaskKeepsSlots
    <3>2. \A t \in Tasks : slot[t] \in Slots
      BY DEF TypeOK
    <3>3. SlotOwnership'
      BY <3>1, <3>2 DEF DispatchStep, callerVars, SlotOwnership
    <3>4. SlotIntact'
      BY <3>1, <3>2 DEF DispatchStep, callerVars, SlotIntact
    <3> QED
      BY <2>0, <2>6, <3>3, <3>4, TargetRpcTask
  <2> QED
    BY <2>2, <2>3, <2>4, <2>5, <2>6 DEF Next
<1> QED
  BY <1>1, <1>2, PTL DEF Spec

(* No slot is shared, freed by a caller that does not hold it, or leaked:  *)
(* SlotOwnership, for any number of slots and tasks.                       *)
THEOREM SlotsAreOwned == Spec => []SlotOwnership
<1>1. SlotInv => SlotOwnership
  BY DEF SlotInv
<1> QED
  BY <1>1, SlotInvariant, PTL

(* No response is written to a slot whose caller has let go of it.         *)
THEOREM DeliveryIsSafe == Spec => []DeliveryTargetHeld
<1>1. SlotInv => DeliveryTargetHeld
  BY DEF SlotInv
<1> QED
  BY <1>1, SlotInvariant, PTL

(* A slot keeps the buffer and the id of its call while the call lasts.    *)
THEOREM SlotsStayIntact == Spec => []SlotIntact
<1>1. SlotInv => SlotIntact
  BY DEF SlotInv
<1> QED
  BY <1>1, SlotInvariant, PTL

-----------------------------------------------------------------------------
(* Ids: how far apart two equal ones are.                                  *)

Busy(t) == pc[t] # "idle"

(* The distance of two ids is that of their calls, perhaps less one turn.  *)
Apart(later, earlier, n) == later - earlier \in {n, n - MaxRequestId}

(* The inductive invariant: the counter is as far from an id in use as the *)
(* number of calls is from that id's call, and so are two ids in use from  *)
(* each other.                                                             *)
IdInv ==
  /\ calls > 0 => s_request_id_counter # 0
  /\ \A t \in Tasks : Busy(t) =>
       /\ call[t] \in 1 .. calls
       /\ rid[t] \in 1 .. MaxRequestId
       /\ calls - call[t] < MaxRequestId =>
            Apart(s_request_id_counter, rid[t], calls - call[t])
  /\ \A t, u \in Tasks :
       Busy(t) /\ Busy(u) /\ call[t] < call[u]
         /\ call[u] < call[t] + MaxRequestId
           => Apart(rid[u], rid[t], call[u] - call[t])

(* One more id is drawn.                                                   *)
LEMMA DrawApart ==
  ASSUME TypeOK, NEW r \in 1 .. MaxRequestId, NEW d \in Nat,
         Apart(s_request_id_counter, r, d), d + 1 < MaxRequestId
  PROVE  Apart(NextId, r, d + 1)
<1>1. /\ MaxRequestId \in Nat \ {0}
      /\ s_request_id_counter \in 0 .. MaxRequestId
  BY ConstantsAssumption DEF TypeOK, Ids
<1> QED
  BY <1>1 DEF Apart, NextId

(* A call that draws the next id keeps the ids apart.                      *)
LEMMA IdStep ==
  ASSUME TypeOK, IdInv, NEW t \in Tasks, DrawId(t), ~Busy(t),
         \A u \in Tasks \ {t} : pc'[u] = pc[u] /\ rid'[u] = rid[u],
         Busy(t)' => rid'[t] = NextId
  PROVE  IdInv'
<1>1. /\ MaxRequestId \in Nat \ {0} /\ calls \in Nat
      /\ s_request_id_counter \in 0 .. MaxRequestId
      /\ \A u \in Tasks : call[u] \in Nat
  BY ConstantsAssumption DEF TypeOK, Ids, Calls
<1>2. NextId \in 1 .. MaxRequestId
  BY <1>1 DEF NextId
<1>3. /\ calls' = calls + 1 /\ s_request_id_counter' = NextId
      /\ call'[t] = calls + 1
      /\ \A u \in Tasks \ {t} : call'[u] = call[u]
  BY DEF DrawId, TypeOK
<1>4. \A u \in Tasks \ {t} : Busy(u)' =>
        /\ Busy(u) /\ rid'[u] = rid[u] /\ call'[u] = call[u]
        /\ call[u] \in 1 .. calls /\ rid[u] \in 1 .. MaxRequestId
  BY <1>3 DEF IdInv, Busy
<1>5. ASSUME NEW u \in Tasks \ {t}, Busy(u)', calls + 1 - call[u] < MaxRequestId
      PROVE  Apart(NextId, rid[u], calls + 1 - call[u])
  <2>1. /\ calls - call[u] \in Nat /\ calls - call[u] < MaxRequestId
        /\ (calls - call[u]) + 1 = calls + 1 - call[u]
    BY <1>1, <1>4, <1>5
  <2>2. Apart(s_request_id_counter, rid[u], calls - call[u])
    BY <1>4, <1>5, <2>1 DEF IdInv
  <2>3. Apart(NextId, rid[u], (calls - call[u]) + 1)
    BY <1>4, <1>5, <2>1, <2>2, DrawApart
  <2> QED
    BY <2>1, <2>3
<1>6. Apart(NextId, NextId, (calls + 1) - (calls + 1))
  BY <1>1, <1>2 DEF Apart
<1>7. ASSUME NEW u \in Tasks, Busy(u)'
      PROVE  /\ call'[u] \in 1 .. calls'
             /\ rid'[u] \in 1 .. MaxRequestId
             /\ calls' - call'[u] < MaxRequestId =>
                  Apart(s_request_id_counter', rid'[u], calls' - call'[u])
  <2>1. CASE u = t
    BY <1>1, <1>2, <1>3, <1>6, <1>7, <2>1
  <2>2. CASE u # t
    BY <1>1, <1>3, <1>4, <1>5, <1>7, <2>2
  <2> QED
    BY <2>1, <2>2
<1>8. ASSUME NEW u \in Tasks, NEW v \in Tasks, Busy(u)', Busy(v)',
             call'[u] < call'[v], call'[v] < call'[u] + MaxRequestId
      PROVE  Apart(rid'[v], rid'[u], call'[v] - call'[u])
  <2>1. u # t
    BY <1>1, <1>3, <1>4, <1>8
  <2>2. CASE v = t
    BY <1>1, <1>3, <1>4, <1>5, <1>8, <2>1, <2>2
  <2>3. CASE v # t
    BY <1>4, <1>8, <2>1, <2>3 DEF IdInv
  <2> QED
    BY <2>2, <2>3
<1>9. s_request_id_counter' # 0
  BY <1>2, <1>3
<1> QED
  BY <1>7, <1>8, <1>9 DEF IdInv, Apart, Busy

(* Steps that draw no id begin no call.                                    *)
LEMMA IdKept ==
  ASSUME TypeOK, IdInv, UNCHANGED <<calls, call, s_request_id_counter>>,
         \A u \in Tasks : Busy(u)' => Busy(u) /\ rid'[u] = rid[u]
  PROVE  IdInv'
BY DEF IdInv, Apart, Busy

(* IdInv holds in every state.                                             *)
LEMMA IdInvariant == Spec => []IdInv
<1>1. Init => IdInv
  BY DEF Init, IdInv, Busy
<1>2. TypeOK /\ IdInv /\ [Next]_vars => IdInv'
  <2> SUFFICES ASSUME TypeOK, IdInv, [Next]_vars PROVE IdInv'
    OBVIOUS
  <2>1. ASSUME UNCHANGED <<calls, call, s_request_id_counter, pc, rid>>
        PROVE  IdInv'
    BY <2>1, IdKept DEF Busy
  <2>2. CASE \/ UNCHANGED vars \/ Finished \/ Host
             \/ \E c \in Channels : RpcTask(c)
    BY <2>1, <2>2 DEF vars, callerVars, Finished, Host, Answer, Ignore,
                      RpcTask, Receive, Match, Discard, TooLarge, Copy,
                      SetResult, Give
  <2>3. ASSUME NEW t \in Tasks, Caller(t) PROVE IdInv'
    <3>1. CASE Allocate(t)
      BY <3>1, IdStep DEF Allocate, Goto, Busy, TypeOK
    <3>2. CASE AllocateFails(t)
      <4>1. DrawId(t) /\ ~Busy(t) /\ ~Busy(t)' /\ pc' = pc /\ rid' = rid
        BY <3>2 DEF AllocateFails, Goto, Busy, TypeOK
      <4> QED
        BY <4>1, IdStep
    <3>3. CASE \/ FillBuffer(t) \/ FillResult(t) \/ FillId(t)
               \/ Send(t) \/ SendFails(t) \/ Wake(t) \/ Expire(t)
      <4>1. OwnSlotStep(t)
        BY <3>3, CallerBetween
      <4>2. \A u \in Tasks : Busy(u)' => Busy(u) /\ rid'[u] = rid[u]
        BY <4>1 DEF OwnSlotStep, Busy, Holding
      <4>3. UNCHANGED <<calls, call, s_request_id_counter>>
        BY <3>3 DEF FillBuffer, FillResult, FillId, Fill, Send, SendFails,
                    Wake, Expire
      <4> QED
        BY <4>2, <4>3, IdKept
    <3>4. CASE ReturnSendFailed(t) \/ ReturnTimeout(t) \/ ReturnResult(t)
      <4>1. Frees(t)
        BY <3>4, ReturnFrees
      <4>2. \A u \in Tasks : Busy(u)' => Busy(u) /\ rid'[u] = rid[u]
        BY <4>1 DEF Frees, Busy
      <4>3. UNCHANGED <<calls, call, s_request_id_counter>>
        BY <3>4 DEF ReturnSendFailed, ReturnTimeout, ReturnResult, Leave
      <4> QED
        BY <4>2, <4>3, IdKept
    <3> QED
      BY <2>3, <3>1, <3>2, <3>3, <3>4 DEF Caller
  <2> QED
    BY <2>2, <2>3 DEF Next
<1> QED
  BY <1>1, <1>2, TypeCorrect, PTL DEF Spec

(* Two calls in progress have the same id only if at least MaxRequestId    *)
(* calls lie between them, wherever the counter wraps.                     *)
THEOREM IdsDoRepeatLate == Spec => []IdsRepeatLate
<1>1. TypeOK /\ IdInv => IdsRepeatLate
  <2> SUFFICES ASSUME TypeOK, IdInv, NEW t \in Tasks, NEW u \in Tasks,
                      Busy(t), Busy(u)
               PROVE  /\ rid[t] # 0
                      /\ call[t] < call[u] /\ call[u] < call[t] + MaxRequestId
                           => rid[t] # rid[u]
    BY DEF IdsRepeatLate, Busy
  <2>1. /\ MaxRequestId \in Nat \ {0} /\ call[t] \in Nat /\ call[u] \in Nat
        /\ rid[t] \in 1 .. MaxRequestId
    BY ConstantsAssumption DEF TypeOK, Calls, IdInv
  <2>2. call[t] < call[u] /\ call[u] < call[t] + MaxRequestId
          => Apart(rid[u], rid[t], call[u] - call[t])
    BY DEF IdInv
  <2>3. rid[u] - rid[u] = 0
    BY DEF IdInv
  <2> QED
    BY <2>1, <2>2, <2>3 DEF Apart
<1> QED
  BY <1>1, IdInvariant, TypeCorrect, PTL

-----------------------------------------------------------------------------
(* Answers: the frames of a call in progress carry its id.                 *)

(* A frame was sent by a call already made, and if that call is still in   *)
(* progress the frame has its id.                                          *)
FrameOf(f) ==
  /\ f.call <= calls
  /\ \A t \in Tasks : Busy(t) /\ call[t] = f.call => rid[t] = f.id

FrameInv ==
  /\ \A t \in Tasks : call[t] <= calls
  /\ \A t, u \in Tasks :
       Busy(t) /\ Busy(u) /\ call[t] = call[u] => t = u
  /\ \A f \in requests \cup responses : FrameOf(f)
  /\ \A c \in Channels : handling[c].at # "recv" => FrameOf(handling[c].frame)

(* A call that draws its number is younger than every frame.               *)
LEMMA FrameDraw ==
  ASSUME TypeOK, FrameInv, NEW t \in Tasks, DrawId(t), ~Busy(t),
         \A u \in Tasks \ {t} : pc'[u] = pc[u] /\ rid'[u] = rid[u]
  PROVE  FrameInv'
<1>1. /\ calls \in Nat /\ \A u \in Tasks : call[u] \in Nat
  BY ConstantsAssumption DEF TypeOK, Calls
<1>2. /\ calls' = calls + 1 /\ call'[t] = calls + 1
      /\ \A u \in Tasks \ {t} : call'[u] = call[u] /\ (Busy(u)' <=> Busy(u))
      /\ UNCHANGED <<requests, responses, handling>>
  BY DEF DrawId, TypeOK, Busy, hostVars
<1>3. ASSUME NEW f, f.call \in Nat, FrameOf(f)
      PROVE  FrameOf(f)'
  BY <1>1, <1>2, <1>3 DEF FrameOf
<1>4. /\ \A f \in requests \cup responses : f.call \in Nat
      /\ \A c \in Channels : handling[c].at # "recv" =>
                                handling[c].frame.call \in Nat
  BY ConstantsAssumption DEF TypeOK, Request, Response, Handling, Calls
<1>5. /\ \A u \in Tasks : call'[u] <= calls'
      /\ \A u, v \in Tasks :
           Busy(u)' /\ Busy(v)' /\ call'[u] = call'[v] => u = v
  BY <1>1, <1>2 DEF FrameInv
<1>6. /\ \A f \in (requests \cup responses)' : FrameOf(f)'
      /\ \A c \in Channels : handling'[c].at # "recv"
                               => FrameOf(handling[c].frame)'
  BY <1>2, <1>3, <1>4 DEF FrameInv
<1> QED
  BY <1>2, <1>5, <1>6 DEF FrameInv, FrameOf

(* No call begins and every frame was known before, or is new and right.   *)
LEMMA FrameKept ==
  ASSUME FrameInv, UNCHANGED <<calls, call>>,
         \A u \in Tasks : Busy(u)' => Busy(u) /\ rid'[u] = rid[u],
         \A f \in (requests \cup responses)' : FrameOf(f),
         \A c \in Channels : handling'[c].at # "recv"
                              => FrameOf(handling'[c].frame)
  PROVE  FrameInv'
<1>1. ASSUME NEW f, FrameOf(f) PROVE FrameOf(f)'
  BY <1>1 DEF FrameOf
<1>2. \A f \in (requests \cup responses)' : FrameOf(f)'
  BY <1>1
<1>3. \A c \in Channels : handling'[c].at # "recv"
                           => FrameOf(handling[c].frame)'
  <2> SUFFICES ASSUME NEW c \in Channels, handling'[c].at # "recv"
               PROVE  FrameOf(handling[c].frame)'
    OBVIOUS
  <2>1. FrameOf(handling'[c].frame)
    OBVIOUS
  <2> QED
    BY <2>1 DEF FrameOf
<1>4. /\ \A u \in Tasks : call'[u] <= calls'
      /\ \A u, v \in Tasks :
           Busy(u)' /\ Busy(v)' /\ call'[u] = call'[v] => u = v
  BY DEF FrameInv
<1> QED
  BY <1>2, <1>3, <1>4 DEF FrameInv

(* The callers keep FrameInv.                                              *)
LEMMA FrameCaller ==
  ASSUME TypeOK, FrameInv, NEW t \in Tasks, Caller(t)
  PROVE  FrameInv'
<1>1. CASE Allocate(t)
  <2>1. /\ DrawId(t) /\ ~Busy(t)
        /\ \A u \in Tasks \ {t} : pc'[u] = pc[u] /\ rid'[u] = rid[u]
    BY <1>1, AllocateTakes DEF Allocate, Busy
  <2> QED
    BY <2>1, FrameDraw
<1>2. CASE AllocateFails(t)
  <2>1. DrawId(t) /\ ~Busy(t) /\ pc' = pc /\ rid' = rid
    BY <1>2 DEF AllocateFails, Goto, Busy, TypeOK
  <2> QED
    BY <2>1, FrameDraw
<1>3. CASE \/ FillBuffer(t) \/ FillResult(t) \/ FillId(t)
           \/ Send(t) \/ SendFails(t) \/ Wake(t) \/ Expire(t)
  <2>1. OwnSlotStep(t)
    BY <1>3, CallerBetween
  <2>2. \A u \in Tasks : Busy(u)' => Busy(u) /\ rid'[u] = rid[u]
    BY <2>1 DEF OwnSlotStep, Busy, Holding
  <2>3. UNCHANGED <<calls, call, responses, handling>>
    BY <1>3 DEF FillBuffer, FillResult, FillId, Fill, Send, SendFails,
                Wake, Expire, hostVars
  <2>4. CASE requests' = requests
    <3>1. /\ \A f \in (requests \cup responses)' : FrameOf(f)
          /\ \A c \in Channels : handling'[c].at # "recv"
                                  => FrameOf(handling'[c].frame)
      BY <2>3, <2>4 DEF FrameInv
    <3> QED
      BY <2>2, <2>3, <3>1, FrameKept
  <2>5. CASE Send(t)
    <3>d. PICK d \in Channels :
            requests' = requests \cup {[call |-> call[t], id |-> rid[t],
                                        channel |-> d]}
      BY <2>5 DEF Send
    <3> DEFINE f == [call |-> call[t], id |-> rid[t], channel |-> d]
    <3>1. /\ requests' = requests \cup {f}
          /\ f.call = call[t] /\ f.id = rid[t]
      BY <3>d
    <3> HIDE DEF f
    <3>2. Busy(t)
      BY <2>5 DEF Send, Goto, Busy
    <3>3. FrameOf(f)
      BY <3>1, <3>2 DEF FrameOf, FrameInv
    <3>4. /\ \A g \in (requests \cup responses)' : FrameOf(g)
          /\ \A c \in Channels : handling'[c].at # "recv"
                                  => FrameOf(handling'[c].frame)
      BY <2>3, <3>1, <3>3 DEF FrameInv
    <3> QED
      BY <2>2, <2>3, <3>4, FrameKept
  <2> QED
    BY <1>3, <2>4, <2>5 DEF FillBuffer, FillResult, FillId, Fill, SendFails,
                            Wake, Expire, hostVars
<1>4. CASE ReturnSendFailed(t) \/ ReturnTimeout(t) \/ ReturnResult(t)
  <2>1. Frees(t)
    BY <1>4, ReturnFrees
  <2>2. \A u \in Tasks : Busy(u)' => Busy(u) /\ rid'[u] = rid[u]
    BY <2>1 DEF Frees, Busy
  <2>3. UNCHANGED <<calls, call, requests, responses, handling>>
    BY <1>4 DEF ReturnSendFailed, ReturnTimeout, ReturnResult, Leave, hostVars
  <2>4. /\ \A f \in (requests \cup responses)' : FrameOf(f)
        /\ \A c \in Channels : handling'[c].at # "recv"
                                => FrameOf(handling'[c].frame)
    BY <2>3 DEF FrameInv
  <2> QED
    BY <2>2, <2>3, <2>4, FrameKept
<1> QED
  BY <1>1, <1>2, <1>3, <1>4 DEF Caller

(* The dispatches keep FrameInv.                                           *)
LEMMA FrameRpcTask ==
  ASSUME TypeOK, FrameInv, NEW c \in Channels, RpcTask(c)
  PROVE  FrameInv'
<1>1. UNCHANGED callerVars
  BY RpcTaskKeepsSlots DEF DispatchStep
<1>2. (requests \cup responses)' \subseteq requests \cup responses
  BY DEF RpcTask, Receive, Match, Discard, TooLarge, Copy, SetResult, Give,
         hostVars
<1>3. \A f \in (requests \cup responses)' : FrameOf(f)
  BY <1>2 DEF FrameInv
<1>4. \A d \in Channels : handling'[d].at # "recv"
                           => FrameOf(handling'[d].frame)
  <2>1. CASE Receive(c)
    <3>1. PICK r \in responses :
            handling' = [handling EXCEPT
                           ![c] = [at |-> "dispatch", frame |-> r]]
      BY <2>1 DEF Receive
    <3>2. FrameOf(r)
      BY DEF FrameInv
    <3>3. handling'[c].frame = r
      BY <3>1 DEF TypeOK
    <3>4. \A d \in Channels \ {c} : handling'[d] = handling[d]
      BY <3>1 DEF TypeOK
    <3> QED
      BY <3>2, <3>3, <3>4 DEF FrameInv
  <2>2. CASE Match(c)
    <3>1. /\ handling[c].at # "recv" /\ handling'[c].frame = handling[c].frame
          /\ \A d \in Channels \ {c} : handling'[d] = handling[d]
      BY <2>2 DEF Match, TypeOK
    <3> QED
      BY <3>1 DEF FrameInv
  <2>3. CASE Discard(c) \/ Give(c)
    BY <2>3 DEF Discard, Give, NoHandling, FrameInv, TypeOK
  <2>4. CASE TooLarge(c) \/ Copy(c) \/ SetResult(c)
    <3>1. /\ handling[c] \in [at: {"copy", "result", "give"},
                               frame: Response, slot: Slots]
          /\ \E to \in {"result", "give"} : Step(c, to)
      BY <2>4 DEF TooLarge, Copy, SetResult, TypeOK, Handling
    <3>2. /\ handling[c].at # "recv" /\ handling'[c].frame = handling[c].frame
          /\ \A d \in Channels \ {c} : handling'[d] = handling[d]
      BY <3>1 DEF Step, TypeOK
    <3> QED
      BY <3>2 DEF FrameInv
  <2> QED
    BY <2>1, <2>2, <2>3, <2>4 DEF RpcTask
<1> QED
  BY <1>1, <1>3, <1>4, FrameKept DEF callerVars, Busy

(* The host keeps FrameInv.                                                *)
LEMMA FrameHost ==
  ASSUME TypeOK, FrameInv, Host
  PROVE  FrameInv'
<1>1. PICK q \in requests : Answer(q) \/ Ignore(q)
  BY DEF Host
<1>2. UNCHANGED <<callerVars, handling>>
  BY <1>1 DEF Answer, Ignore
<1>3. FrameOf(q)
  BY <1>1 DEF FrameInv
<1>4. \A f \in (requests \cup responses)' :
        f \in requests \cup responses \/ (f.call = q.call /\ f.id = q.id)
  BY <1>1 DEF Answer, Ignore
<1>5. \A f \in (requests \cup responses)' : FrameOf(f)
  BY <1>3, <1>4 DEF FrameOf, FrameInv
<1>6. \A d \in Channels : handling'[d].at # "recv"
                           => FrameOf(handling'[d].frame)
  BY <1>2 DEF FrameInv
<1> QED
  BY <1>2, <1>5, <1>6, FrameKept DEF callerVars, Busy

(* FrameInv holds in every state.                                          *)
LEMMA FrameInvariant == Spec => []FrameInv
<1>1. Init => FrameInv
  BY ConstantsAssumption DEF Init, FrameInv, Busy, NoHandling
<1>2. TypeOK /\ FrameInv /\ [Next]_vars => FrameInv'
  <2> SUFFICES ASSUME TypeOK, FrameInv, [Next]_vars PROVE FrameInv'
    OBVIOUS
  <2>1. ASSUME UNCHANGED vars PROVE FrameInv'
    BY <2>1 DEF vars, callerVars, hostVars, FrameInv, FrameOf, Busy
  <2> QED
    BY <2>1, FrameCaller, FrameRpcTask, FrameHost DEF Next, Finished
<1> QED
  BY <1>1, <1>2, TypeCorrect, PTL DEF Spec

(* The answer to a call that waits is not dropped, and goes to the call's  *)
(* own slot when no other slot in use has that id.                         *)
THEOREM AnswersAreDelivered == Spec => AwaitedAnswerIsDelivered
<1>1. SlotInv /\ FrameInv /\ [Next]_vars =>
        [\A c \in Channels, t \in Tasks :
           /\ handling[c].at = "dispatch" /\ handling'[c] # handling[c]
           /\ pc[t] = "wait" /\ handling[c].frame.call = call[t]
           => /\ handling'[c].at = "copy"
              /\ Matching(rid[t]) = {slot[t]} => handling'[c].slot = slot[t]]_vars
  <2> SUFFICES ASSUME SlotInv, FrameInv, Next,
                      NEW c \in Channels, NEW t \in Tasks,
                      handling[c].at = "dispatch", handling'[c] # handling[c],
                      pc[t] = "wait", handling[c].frame.call = call[t]
               PROVE  /\ handling'[c].at = "copy"
                      /\ Matching(rid[t]) = {slot[t]}
                           => handling'[c].slot = slot[t]
    OBVIOUS
  <2>1. TypeOK /\ handling[c].frame.id = rid[t]
    BY DEF SlotInv, FrameInv, FrameOf, Busy
  <2>2. slot[t] \in Matching(rid[t])
    <3>1. s_pending[slot[t]].in_use /\ s_pending[slot[t]].request_id = rid[t]
      BY DEF SlotInv, SlotOwnership, SlotIntact, Holding
    <3> QED
      BY <2>1, <3>1 DEF Matching, TypeOK
  <2>3. Match(c) \/ Discard(c)
    <3>1. CASE \E u \in Tasks : Caller(u)
      <4>1. handling' = handling
        BY <3>1 DEF Caller, Allocate, AllocateFails, DrawId, FillBuffer,
                    FillResult, FillId, Fill, Send, SendFails, Wake, Expire,
                    ReturnSendFailed, ReturnTimeout, ReturnResult, Leave
      <4> QED
        BY <4>1
    <3>2. CASE \E d \in Channels : RpcTask(d)
      <4>1. PICK d \in Channels : RpcTask(d)
        BY <3>2
      <4>2. \A e \in Channels \ {d} : handling'[e] = handling[e]
        BY <2>1, <4>1 DEF RpcTask, Receive, Match, Discard, TooLarge, Copy,
                          SetResult, Give, Step, TypeOK
      <4> QED
        BY <4>1, <4>2 DEF RpcTask, Receive, TooLarge, Copy, SetResult, Give
    <3>3. CASE Host \/ Finished
      BY <3>3 DEF Host, Answer, Ignore, Finished, vars
    <3> QED
      BY <3>1, <3>2, <3>3 DEF Next
  <2>4. Match(c)
    BY <2>1, <2>2, <2>3 DEF Discard
  <2> QED
    BY <2>1, <2>4 DEF Match, TypeOK
<1> QED
  BY <1>1, SlotInvariant, FrameInvariant, PTL
     DEF Spec, AwaitedAnswerIsDelivered

-----------------------------------------------------------------------------
(* Calm schedules: ids identify requests, and answers are one's own.       *)

(* No id of a call in progress is another one's, or in another slot.       *)
IdsApart ==
  /\ \A t, u \in Tasks : Busy(t) /\ Busy(u) /\ rid[t] = rid[u] => t = u
  /\ \A t \in Tasks, s \in Slots :
       Busy(t) /\ s # slot[t] => s_pending[s].request_id # rid[t]

(* A call waits that has not been told anything yet.                       *)
Untold(t) == pc[t] = "wait" /\ semaphore[slot[t]] = 0
Waits(n)  == \E t \in Tasks : Untold(t) /\ call[t] = n

(* Every frame is of a call that waits, and is the only one of that call.  *)
Once ==
  /\ \A q \in requests : Waits(q.call) /\ q.call \notin answered
  /\ \A p, q \in requests : p.call = q.call => p = q
  /\ \A r \in responses : Waits(r.call) /\ r.call \in answered
  /\ \A p, r \in responses : p.call = r.call => p = r
  /\ \A c \in Channels : handling[c].at # "recv" =>
       /\ Waits(handling[c].frame.call)
       /\ handling[c].frame.call \in answered
       /\ \A r \in responses : r.call # handling[c].frame.call
  /\ \A c, d \in Channels :
       /\ handling[c].at # "recv" /\ handling[d].at # "recv"
       /\ handling[c].frame.call = handling[d].frame.call
       => c = d

(* The call has its answer, or has been told why not.                      *)
Verdict(t) ==
  \/ s_pending[slot[t]].result = "OK" /\ content[t] = call[t]
  \/ s_pending[slot[t]].result = "TOO_LARGE" /\ content[t] = 0

(* A delivery is into the slot of the call the frame is for.               *)
Delivery ==
  \A c \in Channels, t \in Tasks :
    /\ handling[c].at \in {"copy", "result", "give"}
    /\ pc[t] = "wait" /\ call[t] = handling[c].frame.call
    => /\ slot[t] = handling[c].slot
       /\ handling[c].at = "copy" => content[t] = 0
       /\ handling[c].at = "result" => content[t] = call[t]
       /\ handling[c].at = "give" => Verdict(t)

Delivering(n) ==
  \E c \in Channels : /\ handling[c].at \in {"result", "give"}
                      /\ handling[c].frame.call = n

(* What a call has been told by where it is.                               *)
ToldTask(t) ==
  /\ pc[t] = "woken" \/ (pc[t] = "wait" /\ semaphore[slot[t]] = 1)
       => call[t] \in answered /\ Verdict(t)
  /\ pc[t] \notin {"wait", "woken"} => content[t] = 0
  /\ pc[t] \notin {"idle", "wait", "woken"} => call[t] \notin answered
  /\ Untold(t) => content[t] = 0 \/ Delivering(call[t])

Told ==
  /\ \A t \in Tasks : ToldTask(t)
  /\ \A s \in Slots : semaphore[s] = 1 =>
       \E t \in Tasks : pc[t] = "wait" /\ slot[t] = s
  /\ \A n \in answered : n <= calls

CalmInv == IdsApart /\ Once /\ Delivery /\ Told /\ AnswerIsOwn

(* All that is known of a state of a calm behaviour.                       *)
CalmState == SlotInv /\ FrameInv /\ CalmInv

(* A step of another task leaves a call, its slot and its semaphore alone. *)
Untouched(u) ==
  /\ pc'[u] = pc[u] /\ slot'[u] = slot[u] /\ call'[u] = call[u]
  /\ rid'[u] = rid[u] /\ content'[u] = content[u] /\ ret'[u] = ret[u]
  /\ Busy(u) => /\ s_pending'[slot[u]] = s_pending[slot[u]]
                /\ semaphore'[slot[u]] = semaphore[slot[u]]

(* One caller's step changes nothing of another's call, of the responses   *)
(* or of the dispatches.                                                   *)
LEMMA CallerAlone ==
  ASSUME SlotInv, NEW t \in Tasks, Caller(t)
  PROVE  /\ \A u \in Tasks \ {t} : Untouched(u)
         /\ handling' = handling /\ responses' = responses
         /\ answered' = answered /\ s_pending_mutex' = s_pending_mutex
<1> USE DEF SlotInv
<1>0. \A u \in Tasks : Busy(u) =>
        /\ pc[u] \in Holding /\ slot[u] \in Slots
        /\ s_pending[slot[u]].in_use
        /\ \A v \in Tasks \ {u} : Busy(v) => slot[v] # slot[u]
  BY DEF Busy, TypeOK, SlotOwnership, Holding
<1>1. CASE Allocate(t)
  <2>1. /\ \A u \in Tasks \ {t} : ret'[u] = ret[u]
        /\ UNCHANGED <<semaphore, content, responses, answered>>
    BY <1>1 DEF Allocate, DrawId, hostVars, TypeOK
  <2> QED
    BY <1>0, <1>1, <2>1, AllocateTakes DEF Untouched
<1>2. CASE AllocateFails(t)
  <2>1. /\ \A u \in Tasks \ {t} : ret'[u] = ret[u] /\ call'[u] = call[u]
        /\ pc' = pc
        /\ UNCHANGED <<s_pending, slot, rid, s_pending_mutex, semaphore,
                       handling, content, responses, answered>>
    BY <1>2 DEF AllocateFails, Goto, DrawId, Return, hostVars, TypeOK
  <2> QED
    BY <2>1 DEF Untouched
<1>3. CASE \/ FillBuffer(t) \/ FillResult(t) \/ FillId(t)
           \/ Send(t) \/ SendFails(t) \/ Wake(t) \/ Expire(t)
  <2>1. OwnSlotStep(t)
    BY <1>3, CallerBetween
  <2>2. /\ UNCHANGED <<content, ret, responses, answered>>
        /\ \A s \in Slots \ {slot[t]} : semaphore'[s] = semaphore[s]
    BY <1>3 DEF FillBuffer, FillResult, FillId, Fill, Send, SendFails, Wake,
                Expire, hostVars, TypeOK
  <2>3. Busy(t)
    BY <2>1 DEF OwnSlotStep, Busy, Holding
  <2> QED
    BY <1>0, <2>1, <2>2, <2>3 DEF Untouched, OwnSlotStep
<1>4. CASE ReturnSendFailed(t) \/ ReturnTimeout(t) \/ ReturnResult(t)
  <2>1. Frees(t)
    BY <1>4, ReturnFrees
  <2>2. /\ UNCHANGED <<semaphore, responses, answered>>
        /\ \A u \in Tasks \ {t} : content'[u] = content[u] /\ ret'[u] = ret[u]
    BY <1>4 DEF ReturnSendFailed, ReturnTimeout, ReturnResult, Leave, Return,
                hostVars, TypeOK
  <2>3. Busy(t)
    BY <2>1 DEF Frees, Busy, Holding
  <2> QED
    BY <1>0, <2>1, <2>2, <2>3 DEF Untouched, Frees
<1> QED
  BY <1>1, <1>2, <1>3, <1>4 DEF Caller

(* Of a waiting caller two steps can come next, and one step sends.        *)
LEMMA CallerAt ==
  ASSUME SlotInv, NEW t \in Tasks, Caller(t)
  PROVE  /\ pc[t] = "wait" => Wake(t) \/ Expire(t)
         /\ Send(t) \/ requests' = requests
<1>1. CASE Allocate(t) \/ AllocateFails(t)
  BY <1>1 DEF Allocate, AllocateFails, DrawId, Goto, hostVars
<1>2. CASE FillBuffer(t) \/ FillResult(t) \/ FillId(t)
  BY <1>2 DEF FillBuffer, FillResult, FillId, Fill, Goto, hostVars
<1>3. CASE Send(t) \/ SendFails(t) \/ Wake(t) \/ Expire(t)
  BY <1>3 DEF Send, SendFails, Wake, Expire, Goto, hostVars
<1>4. CASE ReturnSendFailed(t) \/ ReturnTimeout(t) \/ ReturnResult(t)
  BY <1>4 DEF ReturnSendFailed, ReturnTimeout, ReturnResult, Leave, Goto,
              hostVars
<1> QED
  BY <1>1, <1>2, <1>3, <1>4 DEF Caller

(* A call still waits, untold, in the next state.                          *)
WaitsNext(n) == \E t \in Tasks : Untold(t)' /\ call'[t] = n

(* Only a call that gives up, or has its token, stops waiting untold; and  *)
(* in a calm schedule none gives up that the host will or did answer.      *)
LEMMA WaitKept ==
  ASSUME CalmState, NEW t \in Tasks, Caller(t), InTime,
         NEW n, n \in answered \cup {q.call : q \in requests}, Waits(n)
  PROVE  WaitsNext(n)
<1>1. PICK u \in Tasks : Untold(u) /\ call[u] = n
  BY DEF Waits
<1>2. CASE u # t
  <2>1. Untouched(u)
    BY <1>2, CallerAlone DEF CalmState
  <2> QED
    BY <1>1, <2>1 DEF Untouched, Untold, WaitsNext, Busy
<1>3. CASE u = t
  <2>1. Expire(t)
    BY <1>1, <1>3, CallerAt DEF Untold, Wake, CalmState
  <2>2. pc[t] = "wait" /\ pc'[t] = "expired"
    BY <2>1 DEF Expire, Goto, CalmState, SlotInv, TypeOK
  <2> QED
    BY <1>1, <1>3, <2>2 DEF InTime
<1> QED
  BY <1>2, <1>3

(* No token lies in the slot of a call that does not wait.                 *)
LEMMA NoToken ==
  ASSUME CalmState, NEW t \in Tasks, Busy(t), pc[t] # "wait"
  PROVE  semaphore[slot[t]] = 0
<1>1. \A u \in Tasks : Busy(u) => pc[u] \in Holding
  BY DEF CalmState, SlotInv, TypeOK, Busy
<1>2. ~ \E u \in Tasks : pc[u] = "wait" /\ slot[u] = slot[t]
  BY <1>1 DEF CalmState, SlotInv, SlotOwnership, Busy
<1> QED
  BY <1>2 DEF CalmState, CalmInv, Told, SlotInv, TypeOK

(* No frame is of a call that has not been sent yet.                       *)
LEMMA NoFrame ==
  ASSUME CalmState, NEW t \in Tasks, Busy(t), pc[t] # "wait"
  PROVE  ~Waits(call[t])
BY DEF CalmState, FrameInv, Waits, Untold, Busy

(* Once in the next state, as it follows from this one.                    *)
LEMMA OnceNext ==
  ASSUME \A q \in requests' : WaitsNext(q.call) /\ q.call \notin answered',
         \A p, q \in requests' : p.call = q.call => p = q,
         \A r \in responses' : WaitsNext(r.call) /\ r.call \in answered',
         \A p, r \in responses' : p.call = r.call => p = r,
         \A c \in Channels : handling'[c].at # "recv" =>
           /\ WaitsNext(handling'[c].frame.call)
           /\ handling'[c].frame.call \in answered'
           /\ \A r \in responses' : r.call # handling'[c].frame.call,
         \A c, d \in Channels :
           /\ handling'[c].at # "recv" /\ handling'[d].at # "recv"
           /\ handling'[c].frame.call = handling'[d].frame.call
           => c = d
  PROVE  Once'
BY DEF Once, Waits, WaitsNext

(* The callers keep every frame's call waiting, and a new frame is the     *)
(* only one of its call.                                                   *)
LEMMA OnceCaller ==
  ASSUME CalmState, NEW t \in Tasks, Caller(t), InTime
  PROVE  Once'
<1> USE DEF CalmState, CalmInv, Once
<1>0. UNCHANGED <<handling, responses, answered>>
  BY CallerAlone
<1>1. /\ \A q \in requests : WaitsNext(q.call)
      /\ \A r \in responses : WaitsNext(r.call)
      /\ \A c \in Channels : handling[c].at # "recv"
                              => WaitsNext(handling[c].frame.call)
  BY WaitKept
<1>2. CASE requests' = requests
  BY <1>0, <1>1, <1>2 DEF WaitsNext, Waits
<1>3. CASE Send(t)
  <2>1. PICK d \in Channels :
          requests' = requests \cup {[call |-> call[t], id |-> rid[t],
                                      channel |-> d]}
    BY <1>3 DEF Send
  <2>2. PICK f : requests' = requests \cup {f} /\ f.call = call[t]
    <3> DEFINE g == [call |-> call[t], id |-> rid[t], channel |-> d]
    <3>1. requests' = requests \cup {g} /\ g.call = call[t]
      BY <2>1
    <3> HIDE DEF g
    <3> QED
      BY <3>1
  <2>3. /\ pc[t] = "send" /\ Busy(t)
        /\ pc'[t] = "wait" /\ UNCHANGED <<call, slot, semaphore>>
    BY <1>3 DEF Send, Goto, Busy, SlotInv, TypeOK
  <2>4. WaitsNext(f.call)
    BY <2>2, <2>3, NoToken DEF WaitsNext, Untold
  <2>5. f.call \notin answered
    BY <2>2, <2>3 DEF Told, ToldTask
  <2>6. \A q \in requests : q.call # f.call
    BY <2>2, <2>3, NoFrame
  <2>7. /\ \A q \in requests' : WaitsNext(q.call) /\ q.call \notin answered
        /\ \A p, q \in requests' : p.call = q.call => p = q
    BY <1>1, <2>2, <2>4, <2>5, <2>6
  <2> QED
    BY <1>0, <1>1, <2>7 DEF WaitsNext, Waits
<1> QED
  BY <1>2, <1>3, CallerAt

(* A fresh id is nobody's, and a call that fills its slot has the id to    *)
(* itself.                                                                 *)
LEMMA IdsApartCaller ==
  ASSUME CalmState, NEW t \in Tasks, Caller(t), FreshId
  PROVE  IdsApart'
<1>0. TypeOK /\ \A u \in Tasks \ {t} : Untouched(u)
  BY CallerAlone DEF CalmState, SlotInv
<1>1. CASE Allocate(t)
  <2>1. /\ pc[t] = "idle" /\ pc'[t] = "fill_buf"
        /\ \A s \in Slots : s_pending'[s].request_id = s_pending[s].request_id
    <3>1. PICK s \in Slots : s_pending' = [s_pending EXCEPT ![s].in_use = TRUE]
      BY <1>1 DEF Allocate, FreeSlots
    <3>2. s_pending[s] \in Pending
      BY <1>0 DEF TypeOK
    <3>3. [s_pending[s] EXCEPT !.in_use = TRUE].request_id
            = s_pending[s].request_id
      BY <3>2 DEF Pending
    <3> QED
      BY <1>0, <1>1, <3>1, <3>3, AllocateTakes DEF TypeOK
  <2>2. rid'[t] \notin HeldIds
    BY <2>1 DEF FreshId
  <2>3. /\ \A u \in Tasks : Busy(u) => rid[u] # rid'[t]
        /\ \A s \in Slots : s_pending[s].request_id # rid'[t]
    BY <2>2 DEF HeldIds, Busy
  <2> QED
    BY <1>0, <2>1, <2>3 DEF Untouched, CalmState, CalmInv, IdsApart, Busy
<1>2. CASE FillId(t)
  <2>1. /\ Busy(t) /\ UNCHANGED <<rid, slot>>
        /\ s_pending'[slot[t]].request_id = rid[t]
        /\ \A s \in Slots \ {slot[t]} : s_pending'[s] = s_pending[s]
        /\ \A u \in Tasks : Busy(u)' <=> Busy(u)
    <3>1. s_pending[slot[t]] \in Pending
      BY <1>0 DEF TypeOK
    <3>2. [s_pending[slot[t]] EXCEPT !.request_id = rid[t]].request_id = rid[t]
      BY <3>1 DEF Pending
    <3> QED
      BY <1>0, <1>2, <3>2 DEF FillId, Fill, Goto, Busy, TypeOK
  <2> QED
    BY <1>0, <2>1 DEF CalmState, CalmInv, IdsApart, TypeOK
<1>3. ASSUME /\ \A u \in Tasks : Busy(u)' => Busy(u) /\ slot'[u] = slot[u]
                                            /\ rid'[u] = rid[u]
             /\ \A s \in Slots :
                  s_pending'[s].request_id = s_pending[s].request_id
      PROVE  IdsApart'
  BY <1>3 DEF CalmState, CalmInv, IdsApart, Busy
<1>4. ASSUME NEW e, e.request_id = s_pending[slot[t]].request_id,
             s_pending' = [s_pending EXCEPT ![slot[t]] = e]
      PROVE  \A s \in Slots :
               s_pending'[s].request_id = s_pending[s].request_id
  BY <1>0, <1>4 DEF TypeOK
<1>5. s_pending[slot[t]] \in Pending
  BY <1>0 DEF TypeOK
<1>6. CASE FillBuffer(t) \/ FillResult(t)
  <2>1. \A s \in Slots : s_pending'[s].request_id = s_pending[s].request_id
    <3>1. CASE FillBuffer(t)
      <4>1. PICK size \in Sizes :
              s_pending' = [s_pending EXCEPT ![slot[t]] =
                              [s_pending[slot[t]] EXCEPT
                                 !.response_buf = call[t],
                                 !.response_buf_size = size]]
        BY <3>1 DEF FillBuffer, Fill
      <4>2. [s_pending[slot[t]] EXCEPT
               !.response_buf = call[t],
               !.response_buf_size = size].request_id
              = s_pending[slot[t]].request_id
        BY <1>5 DEF Pending
      <4> QED
        BY <1>4, <4>1, <4>2
    <3>2. CASE FillResult(t)
      <4>1. [s_pending[slot[t]] EXCEPT !.result = "TIMEOUT"].request_id
              = s_pending[slot[t]].request_id
        BY <1>5 DEF Pending
      <4> QED
        BY <1>4, <3>2, <4>1 DEF FillResult, Fill
    <3> QED
      BY <1>6, <3>1, <3>2
  <2>2. \A u \in Tasks : Busy(u)' => Busy(u) /\ slot'[u] = slot[u]
                                    /\ rid'[u] = rid[u]
    BY <1>0, <1>6 DEF FillBuffer, FillResult, Fill, Goto, Busy, TypeOK
  <2> QED
    BY <1>3, <2>1, <2>2
<1>7. CASE Send(t) \/ SendFails(t) \/ Wake(t) \/ Expire(t)
  BY <1>0, <1>3, <1>7 DEF Send, SendFails, Wake, Expire, Goto, Busy, TypeOK
<1>8. CASE AllocateFails(t)
  BY <1>0, <1>3, <1>8 DEF AllocateFails, Goto, Busy, TypeOK
<1>9. CASE ReturnSendFailed(t) \/ ReturnTimeout(t) \/ ReturnResult(t)
  <2>1. \A s \in Slots : s_pending'[s].request_id = s_pending[s].request_id
    <3>1. [s_pending[slot[t]] EXCEPT !.in_use = FALSE].request_id
            = s_pending[slot[t]].request_id
      BY <1>5 DEF Pending
    <3> QED
      BY <1>4, <1>9, <3>1 DEF ReturnSendFailed, ReturnTimeout, ReturnResult,
                              Leave
  <2> QED
    BY <1>3, <1>9, <2>1, <1>0, ReturnFrees DEF Frees, Busy
<1> QED
  BY <1>1, <1>2, <1>6, <1>7, <1>8, <1>9 DEF Caller

(* A caller disturbs no delivery: not another's, and not its own, which    *)
(* is for a call that waits.                                               *)
LEMMA DeliveryCaller ==
  ASSUME CalmState, NEW t \in Tasks, Caller(t)
  PROVE  Delivery'
<1> USE DEF CalmState, CalmInv
<1>0. handling' = handling /\ \A u \in Tasks \ {t} : Untouched(u)
  BY CallerAlone
<1>1. SUFFICES ASSUME NEW c \in Channels, NEW u \in Tasks,
                      handling[c].at \in {"copy", "result", "give"},
                      pc'[u] = "wait", call'[u] = handling[c].frame.call
               PROVE  /\ slot'[u] = handling[c].slot
                      /\ handling[c].at = "copy" => content'[u] = 0
                      /\ handling[c].at = "result" => content'[u] = call'[u]
                      /\ handling[c].at = "give" => Verdict(u)'
  BY <1>0 DEF Delivery
<1>2. CASE u # t
  BY <1>0, <1>1, <1>2 DEF Untouched, Busy, Verdict, Delivery
<1>3. CASE u = t
  <2>1. Send(t)
    <3>1. CASE Allocate(t) \/ AllocateFails(t)
      BY <1>1, <1>3, <3>1
      DEF Allocate, AllocateFails, Goto, SlotInv, TypeOK
    <3>2. CASE FillBuffer(t) \/ FillResult(t) \/ FillId(t)
      BY <1>1, <1>3, <3>2
      DEF FillBuffer, FillResult, FillId, Fill, Goto, SlotInv, TypeOK
    <3>3. CASE SendFails(t) \/ Wake(t) \/ Expire(t)
      BY <1>1, <1>3, <3>3 DEF SendFails, Wake, Expire, Goto, SlotInv, TypeOK
    <3>4. CASE ReturnSendFailed(t) \/ ReturnTimeout(t) \/ ReturnResult(t)
      BY <1>1, <1>3, <3>4 DEF ReturnSendFailed, ReturnTimeout, ReturnResult,
                              Leave, Goto, SlotInv, TypeOK
    <3> QED
      BY <3>1, <3>2, <3>3, <3>4 DEF Caller
  <2>2. pc[t] = "send" /\ Busy(t) /\ call'[t] = call[t]
    BY <2>1 DEF Send, Goto, Busy
  <2>3. Waits(handling[c].frame.call)
    BY <1>1 DEF Once
  <2> QED
    BY <1>1, <1>3, <2>2, <2>3, NoFrame
<1> QED
  BY <1>2, <1>3

(* What a call is told stays, and it is told no more than it may be: it    *)
(* starts and gives up with nothing, and wakes with its answer.            *)
LEMMA ToldCaller ==
  ASSUME CalmState, NEW t \in Tasks, Caller(t), InTime
  PROVE  Told'
<1> USE DEF CalmState, CalmInv
<1>0. /\ handling' = handling /\ answered' = answered
      /\ \A u \in Tasks \ {t} : Untouched(u)
  BY CallerAlone
<1>t. TypeOK /\ \A u \in Tasks : ToldTask(u)
  BY DEF SlotInv, Told
<1>1. ASSUME NEW u \in Tasks \ {t} PROVE ToldTask(u)'
  BY <1>0, <1>t DEF Untouched, ToldTask, Verdict, Untold, Delivering, Busy
<1>2. /\ calls' \in {calls, calls + 1} /\ calls \in Nat
      /\ \A n \in answered : n \in Nat /\ n <= calls
  <2>1. calls' \in {calls, calls + 1}
    BY DEF Caller, Allocate, AllocateFails, DrawId, FillBuffer, FillResult,
           FillId, Fill, Send, SendFails, Wake, Expire, ReturnSendFailed,
           ReturnTimeout, ReturnResult, Leave
  <2> QED
    BY <1>t, <2>1, ConstantsAssumption DEF Told, TypeOK, Calls
<1>3. \A n \in answered' : n <= calls'
  BY <1>0, <1>2
<1>4. ASSUME NEW s \in Slots, semaphore'[s] = 1
      PROVE  \E u \in Tasks : pc'[u] = "wait" /\ slot'[u] = s
  <2>1. semaphore[s] = 1 /\ (Wake(t) => s # slot[t])
    <3>1. CASE Wake(t)
      BY <1>4, <1>t, <3>1 DEF Wake, TypeOK
    <3>2. CASE semaphore' = semaphore
      BY <1>4, <1>t, <3>2 DEF Wake, TypeOK
    <3> QED
      BY <3>1, <3>2 DEF Caller, Allocate, AllocateFails, DrawId, FillBuffer,
         FillResult, FillId, Fill, Send, SendFails, Expire, ReturnSendFailed,
         ReturnTimeout, ReturnResult, Leave
  <2>2. PICK u \in Tasks : pc[u] = "wait" /\ slot[u] = s
    BY <2>1 DEF Told
  <2>3. CASE u # t
    BY <1>0, <2>2, <2>3 DEF Untouched
  <2>4. CASE u = t
    BY <2>1, <2>2, <2>4, CallerAt DEF Expire
  <2> QED
    BY <2>3, <2>4
<1>5. ToldTask(t)'
  <2>1. ASSUME pc'[t] \notin {"wait", "woken"}, content'[t] = 0,
               pc'[t] = "idle" \/ call'[t] \notin answered
        PROVE  ToldTask(t)'
    BY <1>0, <2>1 DEF ToldTask, Untold
  <2>2. CASE Allocate(t)
    <3>1. /\ pc[t] = "idle" /\ pc'[t] = "fill_buf" /\ content' = content
          /\ call'[t] = calls + 1
      BY <1>t, <2>2 DEF Allocate, DrawId, Goto, TypeOK
    <3> QED
      BY <1>2, <1>t, <2>1, <3>1 DEF ToldTask
  <2>3. CASE AllocateFails(t)
    <3>1. pc[t] = "idle" /\ pc'[t] = "idle" /\ content' = content
      BY <1>t, <2>3 DEF AllocateFails, DrawId, Goto, TypeOK
    <3> QED
      BY <1>t, <2>1, <3>1 DEF ToldTask
  <2>4. CASE FillBuffer(t) \/ FillResult(t) \/ FillId(t) \/ SendFails(t)
    <3>1. /\ pc[t] \notin {"idle", "wait", "woken"}
          /\ pc'[t] \notin {"wait", "woken"}
          /\ UNCHANGED <<content, call>>
      BY <1>t, <2>4 DEF FillBuffer, FillResult, FillId, Fill, SendFails, Goto,
                        TypeOK
    <3> QED
      BY <1>t, <2>1, <3>1 DEF ToldTask
  <2>5. CASE Send(t)
    <3>1. /\ pc[t] = "send" /\ pc'[t] = "wait" /\ Busy(t)
          /\ UNCHANGED <<content, slot, semaphore>>
      BY <1>t, <2>5 DEF Send, Goto, Busy, TypeOK
    <3>2. semaphore[slot[t]] = 0
      BY <3>1, NoToken
    <3> QED
      BY <1>t, <3>1, <3>2 DEF ToldTask
  <2>6. CASE Wake(t)
    <3>1. /\ pc[t] = "wait" /\ pc'[t] = "woken" /\ semaphore[slot[t]] = 1
          /\ UNCHANGED <<content, slot, call, s_pending>>
      BY <1>t, <2>6 DEF Wake, Goto, TypeOK
    <3> QED
      BY <1>0, <1>t, <3>1 DEF ToldTask, Verdict, Untold
  <2>7. CASE Expire(t)
    <3>1. /\ pc[t] = "wait" /\ pc'[t] = "expired" /\ Untold(t)
          /\ UNCHANGED <<content, call>>
      BY <1>t, <2>7 DEF Expire, Goto, Untold, TypeOK
    <3>2. call[t] \notin answered
      BY <3>1 DEF InTime
    <3>3. ~Delivering(call[t])
      BY <3>2 DEF Delivering, Once
    <3> QED
      BY <1>t, <2>1, <3>1, <3>2, <3>3 DEF ToldTask
  <2>8. CASE ReturnSendFailed(t) \/ ReturnTimeout(t) \/ ReturnResult(t)
    BY <1>t, <2>1, <2>8 DEF ReturnSendFailed, ReturnTimeout, ReturnResult,
                            Leave, Goto, TypeOK
  <2> QED
    BY <2>2, <2>3, <2>4, <2>5, <2>6, <2>7, <2>8 DEF Caller
<1>6. \A u \in Tasks : ToldTask(u)'
  BY <1>1, <1>5
<1> QED
  BY <1>3, <1>4, <1>6 DEF Told, ToldTask, Untold, Verdict, Delivering

(* A call that returns ATS_EC_OK has been told so, with its answer.        *)
LEMMA OwnCaller ==
  ASSUME CalmState, NEW t \in Tasks, Caller(t)
  PROVE  AnswerIsOwn'
<1> USE DEF CalmState, CalmInv, AnswerIsOwn
<1>0. TypeOK /\ \A u \in Tasks \ {t} : Untouched(u)
  BY CallerAlone DEF SlotInv
<1>1. SUFFICES ret'[t].status = "OK" => ret'[t].content = ret'[t].call
  BY <1>0 DEF Untouched
<1>2. CASE Allocate(t)
  BY <1>0, <1>2 DEF Allocate, NotReturned, TypeOK
<1>3. CASE AllocateFails(t)
  BY <1>0, <1>3 DEF AllocateFails, Return, TypeOK
<1>4. CASE ret' = ret
  BY <1>4
<1>5. CASE ReturnSendFailed(t) \/ ReturnTimeout(t)
  BY <1>0, <1>5 DEF ReturnSendFailed, ReturnTimeout, Leave, Return, TypeOK
<1>6. CASE ReturnResult(t)
  <2>1. /\ pc[t] = "woken" /\ call'[t] = call[t]
        /\ ret'[t] = [call |-> call[t], status |-> s_pending[slot[t]].result,
                      content |-> content[t]]
    BY <1>0, <1>6 DEF ReturnResult, Leave, Return, Goto, TypeOK
  <2>2. Verdict(t)
    BY <2>1 DEF Told, ToldTask
  <2> QED
    BY <2>1, <2>2 DEF Verdict
<1> QED
  BY <1>2, <1>3, <1>4, <1>5, <1>6 DEF Caller, FillBuffer, FillResult, FillId,
     Fill, Send, SendFails, Wake, Expire

(* The call a dispatch works for waits, untold, and nothing of it is       *)
(* another call's.                                                         *)
LEMMA CallServed ==
  ASSUME CalmState, NEW c \in Channels, handling[c].at # "recv"
  PROVE  \E t \in Tasks :
           /\ Untold(t) /\ Busy(t) /\ slot[t] \in Slots
           /\ call[t] = handling[c].frame.call
           /\ rid[t] = handling[c].frame.id
           /\ s_pending[slot[t]].response_buf = call[t]
           /\ s_pending[slot[t]].in_use
           /\ s_pending[slot[t]].request_id = rid[t]
           /\ handling[c].at \in {"copy", "result", "give"}
                => handling[c].slot = slot[t]
           /\ \A u \in Tasks \ {t} :
                Busy(u) => slot[u] # slot[t] /\ call[u] # call[t]
<1> USE DEF CalmState, CalmInv, SlotInv
<1>1. PICK t \in Tasks : Untold(t) /\ call[t] = handling[c].frame.call
  BY DEF Once, Waits
<1>2. Busy(t) /\ pc[t] = "wait" /\ slot[t] \in Slots
  BY <1>1 DEF Untold, Busy, TypeOK
<1>3. rid[t] = handling[c].frame.id
  BY <1>1, <1>2 DEF FrameInv, FrameOf
<1>4. /\ s_pending[slot[t]].response_buf = call[t]
      /\ s_pending[slot[t]].in_use
      /\ s_pending[slot[t]].request_id = rid[t]
  BY <1>2 DEF SlotIntact, SlotOwnership, Holding
<1>5. handling[c].at \in {"copy", "result", "give"}
        => handling[c].slot = slot[t]
  BY <1>1, <1>2 DEF Delivery
<1>6. \A u \in Tasks \ {t} :
        Busy(u) => slot[u] # slot[t] /\ call[u] # call[t]
  <2>1. \A u \in Tasks : Busy(u) => pc[u] \in Holding
    BY DEF Busy, TypeOK
  <2> QED
    BY <1>2, <2>1 DEF SlotOwnership, FrameInv
<1> QED
  BY <1>1, <1>2, <1>3, <1>4, <1>5, <1>6

(* A dispatch moves its frame on; the call is told only at the end of it.  *)
LEMMA OnceRpcTask ==
  ASSUME CalmState, NEW c \in Channels, RpcTask(c)
  PROVE  Once'
<1> USE DEF CalmState, CalmInv, Once
<1>0. UNCHANGED <<callerVars, requests, answered>> /\ TypeOK
  BY DEF RpcTask, Receive, Match, Discard, TooLarge, Copy, SetResult, Give,
         hostVars, SlotInv
<1>1. ASSUME semaphore' = semaphore, NEW n, Waits(n)
      PROVE  WaitsNext(n)
  BY <1>0, <1>1 DEF Waits, WaitsNext, Untold, callerVars
<1>2. CASE Receive(c)
  <2>1. PICK r \in responses :
          /\ responses' = responses \ {r}
          /\ handling' = [handling EXCEPT
                            ![c] = [at |-> "dispatch", frame |-> r]]
    BY <1>2 DEF Receive
  <2>2. /\ handling[c].at = "recv" /\ semaphore' = semaphore
        /\ handling'[c].at = "dispatch" /\ handling'[c].frame = r
        /\ \A d \in Channels \ {c} : handling'[d] = handling[d]
    BY <1>0, <1>2, <2>1 DEF Receive, TypeOK
  <2> QED
    BY <1>0, <1>1, <2>1, <2>2, OnceNext
<1>3. CASE Discard(c)
  <2>1. /\ semaphore' = semaphore /\ responses' = responses
        /\ handling'[c].at = "recv"
        /\ \A d \in Channels \ {c} : handling'[d] = handling[d]
    BY <1>0, <1>3 DEF Discard, NoHandling, hostVars, TypeOK
  <2> QED
    BY <1>0, <1>1, <2>1, OnceNext
<1>4. CASE Match(c) \/ TooLarge(c) \/ Copy(c) \/ SetResult(c)
  <2>1. /\ semaphore' = semaphore /\ responses' = responses
        /\ handling[c].at # "recv" /\ handling'[c].frame = handling[c].frame
        /\ \A d \in Channels \ {c} : handling'[d] = handling[d]
    <3>1. CASE Match(c)
      BY <1>0, <3>1 DEF Match, hostVars, TypeOK
    <3>2. CASE TooLarge(c) \/ Copy(c) \/ SetResult(c)
      <4>1. /\ handling[c] \in [at: {"copy", "result", "give"},
                                 frame: Response, slot: Slots]
            /\ \E to \in {"result", "give"} : Step(c, to)
            /\ semaphore' = semaphore /\ responses' = responses
        BY <1>0, <3>2 DEF TooLarge, Copy, SetResult, TypeOK, Handling, hostVars
      <4> QED
        BY <1>0, <4>1 DEF Step, TypeOK
    <3> QED
      BY <1>4, <3>1, <3>2
  <2> QED
    BY <1>0, <1>1, <2>1, OnceNext
<1>5. CASE Give(c)
  <2>1. /\ handling[c].at = "give" /\ responses' = responses
        /\ semaphore' = [semaphore EXCEPT ![handling[c].slot] = 1]
        /\ handling'[c].at = "recv"
        /\ \A d \in Channels \ {c} : handling'[d] = handling[d]
    BY <1>0, <1>5 DEF Give, NoHandling, hostVars, TypeOK
  <2>2. PICK t \in Tasks :
          /\ Untold(t) /\ Busy(t) /\ slot[t] \in Slots
          /\ call[t] = handling[c].frame.call
          /\ handling[c].slot = slot[t]
          /\ \A u \in Tasks \ {t} : Busy(u) => slot[u] # slot[t]
    BY <2>1, CallServed
  <2>3. ASSUME NEW n, Waits(n), n # handling[c].frame.call
        PROVE  WaitsNext(n)
    <3>1. PICK u \in Tasks : Untold(u) /\ call[u] = n
      BY <2>3 DEF Waits
    <3>2. u # t /\ Busy(u) /\ slot[u] # slot[t]
      BY <2>2, <2>3, <3>1 DEF Untold, Busy
    <3>3. semaphore'[slot[u]] = semaphore[slot[u]]
      BY <1>0, <2>1, <2>2, <3>2 DEF TypeOK
    <3> QED
      BY <1>0, <3>1, <3>3 DEF Untold, WaitsNext, callerVars
  <2>4. /\ \A q \in requests : q.call # handling[c].frame.call
        /\ \A r \in responses : r.call # handling[c].frame.call
        /\ \A d \in Channels \ {c} : handling[d].at # "recv"
             => handling[d].frame.call # handling[c].frame.call
    BY <2>1
  <2> QED
    BY <1>0, <2>1, <2>3, <2>4, OnceNext
<1> QED
  BY <1>2, <1>3, <1>4, <1>5 DEF RpcTask

(* The first slot with the id of the frame is the slot of its call; what   *)
(* follows is done to that slot and that caller's buffer.                  *)
LEMMA DeliveryRpcTask ==
  ASSUME CalmState, NEW c \in Channels, RpcTask(c)
  PROVE  Delivery'
<1> USE DEF CalmState, CalmInv
<1>0. UNCHANGED <<callerVars>> /\ TypeOK
  BY DEF RpcTask, Receive, Match, Discard, TooLarge, Copy, SetResult, Give,
         SlotInv
<1>m. ASSUME NEW d \in Channels, NEW e \in Channels, d # e,
             handling[d].at \in {"copy", "result", "give"}
      PROVE  /\ handling[e].at \notin {"copy", "result", "give"}
             /\ ~MutexFree
  BY <1>m, ConstantsAssumption DEF SlotInv, DeliveryTargetHeld, MutexFree
<1>1. CASE Receive(c)
  <2>1. /\ handling'[c].at = "dispatch" /\ UNCHANGED <<content, s_pending>>
        /\ \A d \in Channels \ {c} : handling'[d] = handling[d]
    BY <1>0, <1>1 DEF Receive, TypeOK
  <2> QED
    BY <1>0, <2>1 DEF Delivery, Verdict, callerVars
<1>2. CASE Discard(c) \/ Give(c)
  <2>1. /\ handling'[c].at = "recv" /\ UNCHANGED <<content, s_pending>>
        /\ \A d \in Channels \ {c} : handling'[d] = handling[d]
    BY <1>0, <1>2 DEF Discard, Give, NoHandling, TypeOK
  <2> QED
    BY <1>0, <2>1 DEF Delivery, Verdict, callerVars
<1>3. ASSUME handling[c].at # "recv",
             \A d \in Channels \ {c} : handling'[d] = handling[d],
             \A d \in Channels \ {c} :
               handling[d].at \notin {"copy", "result", "give"},
             handling'[c].frame = handling[c].frame,
             \A t \in Tasks :
               /\ Untold(t) /\ Busy(t) /\ call[t] = handling[c].frame.call
               => /\ slot[t] = handling'[c].slot
                  /\ handling'[c].at = "copy" => content'[t] = 0
                  /\ handling'[c].at = "result" => content'[t] = call[t]
                  /\ handling'[c].at = "give" =>
                        \/ /\ s_pending'[slot[t]].result = "OK"
                           /\ content'[t] = call[t]
                        \/ /\ s_pending'[slot[t]].result = "TOO_LARGE"
                           /\ content'[t] = 0
      PROVE  Delivery'
  <2>1. \A t \in Tasks : pc[t] = "wait" /\ call[t] = handling[c].frame.call
                           => Untold(t) /\ Busy(t)
    BY <1>3, CallServed DEF Busy
  <2> QED
    BY <1>0, <1>3, <2>1 DEF Delivery, Verdict, callerVars
<1>4. CASE Match(c)
  <2>1. PICK s \in Matching(handling[c].frame.id) :
          handling' = [handling EXCEPT
                         ![c] = [at |-> "copy", slot |-> s,
                                 frame |-> handling[c].frame]]
    BY <1>4 DEF Match
  <2>2. /\ handling[c].at = "dispatch" /\ UNCHANGED content
        /\ handling'[c].at = "copy" /\ handling'[c].slot = s
        /\ handling'[c].frame = handling[c].frame
        /\ \A d \in Channels \ {c} : handling'[d] = handling[d]
    BY <1>0, <1>4, <2>1 DEF Match, TypeOK
  <2>3. \A d \in Channels : handling[d].at \notin {"copy", "result", "give"}
    BY <1>4, ConstantsAssumption
    DEF Match, SlotInv, DeliveryTargetHeld, MutexFree
  <2>4. ASSUME NEW t \in Tasks, Untold(t), Busy(t),
               call[t] = handling[c].frame.call
        PROVE  slot[t] = s /\ content[t] = 0
    <3>1. rid[t] = handling[c].frame.id
      BY <2>2, <2>4 DEF FrameInv, FrameOf
    <3>2. s \in Slots /\ s_pending[s].request_id = rid[t]
      BY <3>1 DEF Matching
    <3>3. slot[t] = s
      BY <2>4, <3>2 DEF IdsApart
    <3>4. ~Delivering(call[t])
      BY <2>3 DEF Delivering
    <3> QED
      BY <2>4, <3>3, <3>4 DEF Told, ToldTask
  <2> QED
    BY <1>3, <2>2, <2>3, <2>4
<1>s. ASSUME handling[c].at \in {"copy", "result"},
             NEW to \in {"result", "give"}, Step(c, to)
      PROVE  /\ handling'[c].at = to /\ handling'[c].slot = handling[c].slot
             /\ handling'[c].frame = handling[c].frame
             /\ handling[c].slot \in Slots
             /\ handling[c].at # "recv"
             /\ \A d \in Channels \ {c} :
                  /\ handling'[d] = handling[d]
                  /\ handling[d].at \notin {"copy", "result", "give"}
             /\ \A t \in Tasks :
                  Untold(t) /\ Busy(t) /\ call[t] = handling[c].frame.call
                  => /\ slot[t] = handling[c].slot
                     /\ handling[c].at = "copy" => content[t] = 0
                     /\ handling[c].at = "result" => content[t] = call[t]
  <2>1. handling[c] \in [at: {"copy", "result", "give"},
                         frame: Response, slot: Slots]
    BY <1>0, <1>s, StepType
  <2>2. /\ handling'[c].at = to /\ handling'[c].slot = handling[c].slot
        /\ handling'[c].frame = handling[c].frame
        /\ \A d \in Channels \ {c} : handling'[d] = handling[d]
    BY <1>0, <1>s, <2>1 DEF Step, TypeOK
  <2> QED
    BY <1>m, <1>s, <2>1, <2>2 DEF Delivery, Untold
<1>5. CASE TooLarge(c)
  <2>1. /\ handling[c].at = "copy" /\ Step(c, "give") /\ content' = content
        /\ s_pending' = [s_pending EXCEPT
                           ![handling[c].slot].result = "TOO_LARGE"]
    BY <1>5 DEF TooLarge
  <2>2. handling[c].slot \in Slots
    BY <1>s, <2>1
  <2>3. s_pending'[handling[c].slot].result = "TOO_LARGE"
    BY <1>0, <2>1, <2>2 DEF TypeOK, Pending
  <2> QED
    BY <1>3, <1>s, <2>1, <2>3
<1>6. CASE Copy(c)
  <2>1. /\ handling[c].at = "copy" /\ Step(c, "result")
        /\ content' = [t \in Tasks |-> IF t \in Owners(handling[c].slot)
                                       THEN handling[c].frame.call
                                       ELSE content[t]]
    BY <1>6 DEF Copy
  <2>2. ASSUME NEW t \in Tasks, Untold(t), Busy(t),
               call[t] = handling[c].frame.call
        PROVE  content'[t] = call[t]
    <3>1. slot[t] = handling[c].slot
      BY <1>s, <2>1, <2>2
    <3>2. s_pending[slot[t]].response_buf = call[t]
      BY <2>2 DEF SlotInv, SlotIntact, Untold, Holding
    <3>3. t \in Owners(handling[c].slot)
      BY <2>2, <3>1, <3>2 DEF Owners, Busy
    <3> QED
      BY <2>1, <2>2, <3>3
  <2> QED
    BY <1>3, <1>s, <2>1, <2>2
<1>7. CASE SetResult(c)
  <2>1. /\ handling[c].at = "result" /\ Step(c, "give") /\ content' = content
        /\ s_pending' = [s_pending EXCEPT ![handling[c].slot].result = "OK"]
    BY <1>7 DEF SetResult
  <2>2. handling[c].slot \in Slots
    BY <1>s, <2>1
  <2>3. s_pending'[handling[c].slot].result = "OK"
    BY <1>0, <2>1, <2>2 DEF TypeOK, Pending
  <2> QED
    BY <1>3, <1>s, <2>1, <2>3
<1> QED
  BY <1>1, <1>2, <1>4, <1>5, <1>6, <1>7 DEF RpcTask

(* A dispatch tells only the call it is for, and only when it gives the    *)
(* semaphore: by then the verdict and the content are the call's own.      *)
LEMMA ToldRpcTask ==
  ASSUME CalmState, NEW c \in Channels, RpcTask(c)
  PROVE  Told'
<1> USE DEF CalmState, CalmInv
<1> DEFINE DeliveringNext(n) ==
             \E d \in Channels : /\ handling'[d].at \in {"result", "give"}
                                 /\ handling'[d].frame.call = n
<1>0. /\ UNCHANGED <<pc, slot, call, calls, answered>> /\ TypeOK
      /\ \A u \in Tasks : ToldTask(u)
  BY DEF RpcTask, Receive, Match, Discard, TooLarge, Copy, SetResult, Give,
         SlotInv, callerVars, hostVars, Told
<1>1. ASSUME NEW u \in Tasks, content'[u] = content[u],
             Busy(u) => /\ s_pending'[slot[u]] = s_pending[slot[u]]
                        /\ semaphore'[slot[u]] = semaphore[slot[u]],
             Untold(u) /\ Delivering(call[u]) => DeliveringNext(call[u])
      PROVE  ToldTask(u)'
  BY <1>0, <1>1 DEF ToldTask, Verdict, Untold, Delivering, Busy
<1>2. ASSUME \A u \in Tasks : ToldTask(u)',
             \A s \in Slots : semaphore'[s] = 1 =>
               semaphore[s] = 1 \/ \E u \in Tasks : pc[u] = "wait" /\ slot[u] = s
      PROVE  Told'
  BY <1>0, <1>2 DEF Told
<1>3. CASE Receive(c) \/ Match(c) \/ Discard(c)
  <2>1. /\ UNCHANGED <<content, semaphore, s_pending>>
        /\ handling[c].at \in {"recv", "dispatch"}
        /\ \A d \in Channels \ {c} : handling'[d] = handling[d]
    BY <1>0, <1>3 DEF Receive, Match, Discard, TypeOK
  <2>2. \A n : Delivering(n) => DeliveringNext(n)
    BY <2>1 DEF Delivering
  <2> QED
    BY <1>1, <1>2, <2>1, <2>2
<1>4. CASE TooLarge(c) \/ Copy(c) \/ SetResult(c)
  <2>1. /\ handling[c].at \in {"copy", "result"} /\ semaphore' = semaphore
        /\ \E to \in {"result", "give"} : Step(c, to)
    BY <1>4 DEF TooLarge, Copy, SetResult
  <2>2. PICK t \in Tasks :
          /\ Untold(t) /\ Busy(t) /\ slot[t] \in Slots
          /\ call[t] = handling[c].frame.call
          /\ s_pending[slot[t]].response_buf = call[t]
          /\ handling[c].slot = slot[t]
          /\ \A u \in Tasks \ {t} :
               Busy(u) => slot[u] # slot[t] /\ call[u] # call[t]
    BY <2>1, CallServed
  <2>3. /\ handling'[c].at \in {"result", "give"}
        /\ handling'[c].frame = handling[c].frame
        /\ \A d \in Channels \ {c} : handling'[d] = handling[d]
    <3>1. handling[c] \in [at: {"copy", "result", "give"},
                           frame: Response, slot: Slots]
      BY <1>0, <2>1 DEF TypeOK, Handling
    <3> QED
      BY <1>0, <2>1, <3>1 DEF Step, TypeOK
  <2>4. /\ \A n : Delivering(n) => DeliveringNext(n)
        /\ DeliveringNext(call[t])
    BY <2>2, <2>3 DEF Delivering
  <2>5. \A u \in Tasks \ {t} :
          /\ content'[u] = content[u]
          /\ Busy(u) => s_pending'[slot[u]] = s_pending[slot[u]]
    <3>1. CASE TooLarge(c) \/ SetResult(c)
      <4>1. /\ content' = content
            /\ \A s \in Slots \ {slot[t]} : s_pending'[s] = s_pending[s]
        BY <1>0, <2>2, <3>1 DEF TooLarge, SetResult, TypeOK
      <4> QED
        BY <1>0, <2>2, <4>1 DEF TypeOK
    <3>2. CASE Copy(c)
      <4>1. \A u \in Tasks \ {t} : u \notin Owners(handling[c].slot)
        BY <2>2 DEF Owners, Busy
      <4> QED
        BY <3>2, <4>1 DEF Copy
    <3> QED
      BY <1>4, <3>1, <3>2
  <2>6. ToldTask(t)'
    BY <1>0, <2>1, <2>2, <2>4 DEF ToldTask, Untold, Delivering
  <2>7. \A u \in Tasks : ToldTask(u)'
    BY <1>1, <2>1, <2>4, <2>5, <2>6
  <2> QED
    BY <1>2, <2>1, <2>7
<1>5. CASE Give(c)
  <2>1. /\ handling[c].at = "give" /\ UNCHANGED <<content, s_pending>>
        /\ semaphore' = [semaphore EXCEPT ![handling[c].slot] = 1]
        /\ \A d \in Channels \ {c} : handling'[d] = handling[d]
    BY <1>0, <1>5 DEF Give, TypeOK
  <2>2. PICK t \in Tasks :
          /\ Untold(t) /\ Busy(t) /\ slot[t] \in Slots
          /\ call[t] = handling[c].frame.call
          /\ handling[c].slot = slot[t]
          /\ \A u \in Tasks \ {t} :
               Busy(u) => slot[u] # slot[t] /\ call[u] # call[t]
    BY <2>1, CallServed
  <2>3. pc[t] = "wait" /\ call[t] \in answered /\ Verdict(t)
    BY <2>1, <2>2 DEF Untold, Delivery, Once
  <2>4. ToldTask(t)'
    <3>1. semaphore'[slot[t]] = 1
      BY <1>0, <2>1, <2>2 DEF TypeOK
    <3> QED
      BY <1>0, <2>1, <2>3, <3>1 DEF ToldTask, Untold, Verdict
  <2>5. ASSUME NEW u \in Tasks \ {t} PROVE ToldTask(u)'
    <3>1. Busy(u) => /\ semaphore'[slot[u]] = semaphore[slot[u]]
                     /\ s_pending'[slot[u]] = s_pending[slot[u]]
      BY <1>0, <2>1, <2>2 DEF TypeOK
    <3>2. Untold(u) /\ Delivering(call[u]) => DeliveringNext(call[u])
      BY <2>1, <2>2 DEF Untold, Busy, Delivering
    <3> QED
      BY <1>1, <2>1, <3>1, <3>2
  <2>6. \A u \in Tasks : ToldTask(u)'
    BY <2>4, <2>5
  <2>7. ASSUME NEW s \in Slots, semaphore'[s] = 1
        PROVE  semaphore[s] = 1 \/ \E u \in Tasks : pc[u] = "wait" /\ slot[u] = s
    BY <1>0, <2>1, <2>2, <2>3, <2>7 DEF TypeOK
  <2> QED
    BY <1>2, <2>6, <2>7
<1> QED
  BY <1>3, <1>4, <1>5 DEF RpcTask

(* The host answers a request once, and the request is of a call that      *)
(* waits for the answer.                                                   *)
LEMMA CalmHost ==
  ASSUME CalmState, Host
  PROVE  CalmInv'
<1> USE DEF CalmState, CalmInv
<1>1. PICK q \in requests : Answer(q) \/ Ignore(q)
  BY DEF Host
<1>2. /\ UNCHANGED <<s_pending, s_pending_mutex, semaphore, callerVars,
                     handling, content, ret>>
      /\ requests' = requests \ {q}
      /\ answered \subseteq answered'
      /\ answered' \subseteq answered \cup {q.call}
  BY <1>1 DEF Answer, Ignore, hostVars
<1>3. IdsApart' /\ AnswerIsOwn'
  BY <1>2 DEF IdsApart, AnswerIsOwn, Busy, callerVars
<1>4. Delivery'
  BY <1>2 DEF Delivery, Verdict, callerVars
<1>5. PICK t \in Tasks : Untold(t) /\ call[t] = q.call
  BY DEF Once, Waits
<1>6. Told'
  <2>1. \A u \in Tasks \ {t} : Busy(u) => call[u] # q.call
    BY <1>5 DEF FrameInv, Untold, Busy
  <2>2. ASSUME NEW u \in Tasks PROVE ToldTask(u)'
    BY <1>2, <1>5, <2>1 DEF Told, ToldTask, Verdict, Untold, Delivering, Busy,
                            callerVars
  <2>3. \A n \in answered' : n <= calls'
    BY <1>2 DEF Told, FrameInv, FrameOf, callerVars
  <2> QED
    BY <1>2, <2>2, <2>3 DEF Told, callerVars
<1>7. Once'
  <2>1. ASSUME NEW n, Waits(n) PROVE WaitsNext(n)
    BY <1>2, <2>1 DEF Waits, WaitsNext, Untold, callerVars
  <2>2. CASE Ignore(q)
    <3>1. responses' = responses /\ answered' = answered
      BY <2>2 DEF Ignore
    <3> QED
      BY <1>2, <2>1, <3>1, OnceNext DEF Once
  <2>3. CASE Answer(q)
    <3>1. /\ answered' = answered \cup {q.call}
          /\ \E r : responses' = responses \cup {r} /\ r.call = q.call
      <4>1. PICK n \in Sizes :
              responses' = responses \cup
                {[call |-> q.call, id |-> q.id, channel |-> q.channel,
                  length |-> n]}
        BY <2>3 DEF Answer
      <4> DEFINE g == [call |-> q.call, id |-> q.id, channel |-> q.channel,
                       length |-> n]
      <4>2. responses' = responses \cup {g} /\ g.call = q.call
        BY <4>1
      <4> HIDE DEF g
      <4> QED
        BY <2>3, <4>2 DEF Answer
    <3>2. PICK r : responses' = responses \cup {r} /\ r.call = q.call
      BY <3>1
    <3> QED
      BY <1>2, <2>1, <3>1, <3>2, OnceNext DEF Once
  <2> QED
    BY <1>1, <2>2, <2>3
<1> QED
  BY <1>3, <1>4, <1>6, <1>7

(* Calm behaviours are behaviours of the system.                           *)
LEMMA CalmIsSpec == CalmSpec => Spec
<1>1. [Next /\ InTime /\ FreshId]_vars => [Next]_vars
  OBVIOUS
<1> QED
  BY <1>1, PTL DEF CalmSpec, Spec

(* CalmInv holds in every state of a calm behaviour.                       *)
LEMMA CalmInvariant == CalmSpec => []CalmState
<1>1. Init => CalmInv
  BY ConstantsAssumption
  DEF Init, CalmInv, IdsApart, Once, Delivery, Told, ToldTask, Untold,
      AnswerIsOwn, NotReturned, NoHandling, NewSemaphores, Busy
<1>2. CalmState /\ [Next /\ InTime /\ FreshId]_vars => CalmInv'
  <2> SUFFICES ASSUME CalmState, [Next /\ InTime /\ FreshId]_vars
               PROVE  CalmInv'
    OBVIOUS
  <2>1. ASSUME UNCHANGED vars PROVE CalmInv'
    BY <2>1
    DEF CalmState, vars, callerVars, hostVars, CalmInv, IdsApart, Once, Waits,
        Delivery, Told, ToldTask, Untold, Verdict, Delivering, AnswerIsOwn,
        Busy
  <2>2. ASSUME NEW t \in Tasks, Caller(t), InTime, FreshId PROVE CalmInv'
    BY <2>2, IdsApartCaller, OnceCaller, DeliveryCaller, ToldCaller, OwnCaller
    DEF CalmInv
  <2>3. ASSUME NEW c \in Channels, RpcTask(c) PROVE CalmInv'
    <3>1. DispatchStep /\ ret' = ret
      BY <2>3, RpcTaskKeepsSlots
      DEF CalmState, SlotInv, RpcTask, Receive, Match, Discard, TooLarge, Copy,
          SetResult, Give
    <3>2. IdsApart' /\ AnswerIsOwn'
      BY <3>1 DEF CalmState, CalmInv, IdsApart, AnswerIsOwn, DispatchStep,
                  callerVars, Busy
    <3> QED
      BY <2>3, <3>2, OnceRpcTask, DeliveryRpcTask, ToldRpcTask DEF CalmInv
  <2> QED
    BY <2>1, <2>2, <2>3, CalmHost DEF Next, Finished
<1> QED
  BY <1>1, <1>2, CalmIsSpec, SlotInvariant, FrameInvariant, PTL
     DEF CalmSpec, CalmState

(* ATS_EC_OK means one's own answer: AnswerIsOwn, while ids are fresh and  *)
(* no call gives up on an answer that is still to come.                    *)
THEOREM AnswersAreOwn == CalmSpec => []AnswerIsOwn
<1>1. CalmState => AnswerIsOwn
  BY DEF CalmState, CalmInv
<1> QED
  BY <1>1, CalmInvariant, PTL

(* A token in a slot means the answer to the call that waits there.        *)
THEOREM TokensMeanAnswers == CalmSpec => []TokenMeansAnswer
<1>1. CalmState => TokenMeansAnswer
  BY DEF CalmState, CalmInv, Told, ToldTask, TokenMeansAnswer
<1> QED
  BY <1>1, CalmInvariant, PTL

-----------------------------------------------------------------------------
(* The refinement: in a calm schedule ats_rpc_request is the synchronous   *)
(* call of SyncCall.                                                       *)

(* A caller begins, is refused, returns, or is still in the call.          *)
LEMMA SyncCaller ==
  ASSUME CalmState, NEW t \in Tasks, Caller(t)
  PROVE  Sync!Next \/ UNCHANGED Sync!vars
<1> DEFINE busy == [u \in Tasks |-> pc[u] # "idle"]
<1>0. /\ TypeOK /\ ToldTask(t) /\ answered' = answered
  BY CallerAlone DEF CalmState, CalmInv, SlotInv, Told
<1>1. ASSUME NEW b, b = (pc'[t] # "idle"),
             \A u \in Tasks \ {t} : pc'[u] = pc[u]
      PROVE  busy' = [busy EXCEPT ![t] = b]
  BY <1>0, <1>1
<1>2. ASSUME DrawId(t), pc[t] = "idle"
      PROVE  Sync!Number(t)
  BY <1>0, <1>2 DEF DrawId, Sync!Number
<1>3. CASE Allocate(t)
  <2>1. /\ DrawId(t) /\ pc[t] = "idle" /\ pc'[t] = "fill_buf"
        /\ \A u \in Tasks \ {t} : pc'[u] = pc[u]
    BY <1>0, <1>3, AllocateTakes DEF Allocate
  <2>2. busy' = [busy EXCEPT ![t] = TRUE]
    BY <1>1, <2>1
  <2>3. ret' = [ret EXCEPT ![t] = Sync!NotReturned]
    BY <1>3 DEF Allocate, NotReturned, Sync!NotReturned
  <2>4. Sync!Begin(t)
    BY <1>2, <2>1, <2>2, <2>3 DEF Sync!Begin
  <2> QED
    BY <2>4 DEF Sync!Next
<1>4. CASE AllocateFails(t)
  <2>1. /\ DrawId(t) /\ pc[t] = "idle" /\ pc' = pc
        /\ call'[t] = calls + 1 /\ content[t] = 0
    BY <1>0, <1>4 DEF AllocateFails, DrawId, Goto, ToldTask, TypeOK
  <2>2. ret' = [ret EXCEPT ![t] = [call |-> calls + 1, status |-> "NO_MEMORY",
                                   content |-> 0]]
    BY <1>4, <2>1 DEF AllocateFails, Return
  <2>3. Sync!Refuse(t)
    BY <1>2, <2>1, <2>2 DEF Sync!Refuse
  <2> QED
    BY <2>3 DEF Sync!Next
<1>5. CASE \/ FillBuffer(t) \/ FillResult(t) \/ FillId(t)
           \/ Send(t) \/ SendFails(t) \/ Wake(t) \/ Expire(t)
  <2>1. /\ pc[t] # "idle" /\ pc'[t] # "idle" /\ call' = call
        /\ \A u \in Tasks \ {t} : pc'[u] = pc[u]
    BY <1>0, <1>5, CallerBetween DEF OwnSlotStep, Holding
  <2>2. UNCHANGED <<calls, ret>>
    BY <1>5 DEF FillBuffer, FillResult, FillId, Fill, Send, SendFails, Wake,
                Expire
  <2>3. busy' = busy
    BY <2>1
  <2> QED
    BY <1>0, <2>1, <2>2, <2>3 DEF Sync!vars
<1>6. CASE ReturnSendFailed(t) \/ ReturnTimeout(t) \/ ReturnResult(t)
  <2>1. /\ pc[t] # "idle" /\ pc'[t] = "idle" /\ call' = call
        /\ \A u \in Tasks \ {t} : pc'[u] = pc[u]
    BY <1>0, <1>6, ReturnFrees DEF Frees, Holding
  <2>2. busy' = [busy EXCEPT ![t] = FALSE]
    BY <1>1, <2>1
  <2>3. calls' = calls
    BY <1>6 DEF ReturnSendFailed, ReturnTimeout, ReturnResult, Leave
  <2>4. \E r \in Sync!Outcomes(t) : ret' = [ret EXCEPT ![t] = r]
    <3>1. CASE ReturnSendFailed(t)
      <4>1. call[t] \notin answered /\ content[t] = 0
        BY <1>0, <3>1 DEF ReturnSendFailed, Leave, Goto, ToldTask
      <4>2. ret' = [ret EXCEPT ![t] = [call |-> call[t],
                                       status |-> "NO_MEMORY", content |-> 0]]
        BY <2>1, <3>1, <4>1 DEF ReturnSendFailed, Leave, Return
      <4> QED
        BY <4>1, <4>2 DEF Sync!Outcomes
    <3>2. CASE ReturnTimeout(t)
      <4>1. call[t] \notin answered /\ content[t] = 0
        BY <1>0, <3>2 DEF ReturnTimeout, Leave, Goto, ToldTask
      <4>2. ret' = [ret EXCEPT ![t] = [call |-> call[t],
                                       status |-> "TIMEOUT", content |-> 0]]
        BY <2>1, <3>2, <4>1 DEF ReturnTimeout, Leave, Return
      <4> QED
        BY <4>1, <4>2 DEF Sync!Outcomes
    <3>3. CASE ReturnResult(t)
      <4>1. call[t] \in answered /\ Verdict(t)
        BY <1>0, <3>3 DEF ReturnResult, Leave, Goto, ToldTask
      <4>2. ret' = [ret EXCEPT ![t] =
                      [call |-> call[t], status |-> s_pending[slot[t]].result,
                       content |-> content[t]]]
        BY <2>1, <3>3 DEF ReturnResult, Leave, Return
      <4> QED
        BY <4>1, <4>2 DEF Verdict, Sync!Outcomes
    <3> QED
      BY <1>6, <3>1, <3>2, <3>3
  <2>5. Sync!Return(t)
    BY <1>0, <2>1, <2>2, <2>3, <2>4 DEF Sync!Return
  <2> QED
    BY <2>5 DEF Sync!Next
<1> QED
  BY <1>3, <1>4, <1>5, <1>6 DEF Caller

(* An rpc_task's steps are inside the calls; the host answers a call that  *)
(* is in progress and has no answer yet, or does nothing one can see.      *)
LEMMA SyncRest ==
  ASSUME CalmState, Host \/ \E c \in Channels : RpcTask(c)
  PROVE  Sync!Next \/ UNCHANGED Sync!vars
<1>1. ASSUME UNCHANGED <<calls, call, pc, answered, ret>>
      PROVE  UNCHANGED Sync!vars
  BY <1>1 DEF Sync!vars
<1>2. ASSUME NEW c \in Channels, RpcTask(c)
      PROVE  UNCHANGED Sync!vars
  BY <1>1, <1>2 DEF RpcTask, Receive, Match, Discard, TooLarge, Copy,
                    SetResult, Give, callerVars, hostVars
<1>3. ASSUME NEW q \in requests, Ignore(q)
      PROVE  UNCHANGED Sync!vars
  BY <1>1, <1>3 DEF Ignore, callerVars
<1>4. ASSUME NEW q \in requests, Answer(q)
      PROVE  Sync!Next
  <2>1. PICK t \in Tasks : Untold(t) /\ call[t] = q.call
    BY <1>4 DEF CalmState, CalmInv, Once, Waits
  <2>2. pc[t] # "idle" /\ call[t] \notin answered
    BY <1>4, <2>1 DEF Untold, CalmState, CalmInv, Once
  <2>3. /\ UNCHANGED <<calls, call, pc, ret>>
        /\ answered' = answered \cup {call[t]}
    BY <1>4, <2>1 DEF Answer, callerVars
  <2>4. Sync!HostAnswers(t)
    BY <2>2, <2>3 DEF Sync!HostAnswers
  <2> QED
    BY <2>4 DEF Sync!Next
<1> QED
  BY <1>2, <1>3, <1>4 DEF Host

(* In a calm schedule every behaviour of the firmware's RPC engine is one  *)
(* of SyncCall: ImplementsSyncCall, for any number of tasks, slots and     *)
(* channels.                                                               *)
THEOREM CallsAreSynchronous == CalmSpec => ImplementsSyncCall
<1>1. Init => Sync!Init
  BY DEF Init, Sync!Init, NotReturned, Sync!NotReturned
<1>2. CalmState /\ [Next /\ InTime /\ FreshId]_vars => [Sync!Next]_(Sync!vars)
  <2> SUFFICES ASSUME CalmState, [Next /\ InTime /\ FreshId]_vars
               PROVE  Sync!Next \/ UNCHANGED Sync!vars
    OBVIOUS
  <2>1. ASSUME UNCHANGED vars PROVE UNCHANGED Sync!vars
    BY <2>1 DEF vars, callerVars, hostVars, Sync!vars
  <2> QED
    BY <2>1, SyncCaller, SyncRest DEF Next, Finished
<1> QED
  BY <1>1, <1>2, CalmInvariant, PTL DEF CalmSpec, ImplementsSyncCall, Sync!Spec
=============================================================================
