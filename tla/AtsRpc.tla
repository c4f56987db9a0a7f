------------------------------- MODULE AtsRpc -------------------------------
(***************************************************************************)
(* The firmware side of the synchronous RPC of the ATS SDK                 *)
(* (ATS_ArmAppBuilder/sdk/ats_rpc.c): the tasks that call ats_rpc_request, *)
(* the table s_pending of outstanding requests, and the rpc_task of every  *)
(* UART channel, which hands each response frame to the request whose id   *)
(* it carries.  The host is reduced to what a caller can tell of it: it    *)
(* answers a request, late or in time, in any order, or never does.        *)
(*                                                                         *)
(* A critical section that touches only data guarded by s_pending_mutex is *)
(* one step.  What ats_rpc_request writes outside the mutex, and what a    *)
(* dispatch does while such a write may happen, is one step per write; but *)
(* the three writes of the buffer's address, its size and the pointer to   *)
(* its length are one, before which the slot bears an old id as it does    *)
(* after each of them.                                                     *)
(* The history variables call, content, answered and ret are read by no    *)
(* guard of the code: they name whose data is where.                       *)
(***************************************************************************)
EXTENDS Integers

CONSTANTS
  Tasks,               (* application tasks that call ats_rpc_request      *)
  Forever,             (* those that pass timeout_ms = 0: no time limit    *)
  Channels,            (* UART channels, each served by its own rpc_task   *)
  ATS_RPC_MAX_PENDING, (* slots of s_pending                               *)
  MaxRequestId,        (* the largest id, UINT8_MAX in the code            *)
  Sizes,               (* payload lengths the environment chooses from     *)
  MaxCalls,            (* bound on the number of calls of a behaviour      *)
  None                 (* nobody                                           *)

ASSUME ConstantsAssumption ==
  /\ Forever \subseteq Tasks
  /\ ATS_RPC_MAX_PENDING \in Nat \ {0}
  /\ MaxRequestId \in Nat \ {0}
  /\ Sizes \subseteq Nat /\ Sizes # {}
  /\ MaxCalls \in Nat
  /\ None \notin Channels

Slots    == 0 .. ATS_RPC_MAX_PENDING - 1
Ids      == 0 .. MaxRequestId
Calls    == 0 .. MaxCalls                    (* 0: no call                 *)
Statuses == {"OK", "TIMEOUT", "TOO_LARGE", "NO_MEMORY"}

(* The arguments and results of a call a slot records.                     *)
Pending == [in_use: BOOLEAN, request_id: Ids, response_buf: Calls,
            response_buf_size: Sizes \cup {0}, result: Statuses]

Request  == [call: Calls, id: Ids, channel: Channels]
Response == [call: Calls, id: Ids, channel: Channels, length: Sizes]

VARIABLES
  s_pending,            (* the table of outstanding requests               *)
  s_pending_mutex,      (* the rpc_task inside its critical section        *)
  s_request_id_counter, (* the id drawn last                               *)
  semaphore,            (* the binary semaphore of each slot: 0 or 1       *)
  pc, slot, rid,        (* where a caller is; its locals slot and rid      *)
  handling,             (* what each rpc_task is doing                     *)
  requests, responses,  (* frames under way to, and from, the host         *)
  (* history *)
  calls,                (* the number of calls begun so far                *)
  call,                 (* the number of a task's current or last call     *)
  content,              (* the call whose answer is in the caller's buffer *)
  answered,             (* calls the host has answered                     *)
  ret                   (* what a task's last call returned                *)

callerVars == <<pc, slot, rid, call, calls>>
hostVars   == <<requests, responses, answered>>
vars == <<s_pending, s_pending_mutex, s_request_id_counter, semaphore,
          handling, content, ret, callerVars, hostVars>>

(* Program points of ats_rpc_request that hold a slot.                     *)
Holding == {"fill_buf", "fill_result", "fill_id", "send", "send_failed",
            "wait", "expired", "woken"}

NoHandling == [at |-> "recv"]
Handling   == [at: {"recv"}]
                \cup [at: {"dispatch"}, frame: Response]
                \cup [at: {"copy", "result", "give"}, frame: Response,
                      slot: Slots]

(* What a task's last call returned, and whose answer it had by then.      *)
NotReturned == [call |-> 0, status |-> "NONE", content |-> 0]
Returned    == [call: Calls, status: Statuses, content: Calls]
                 \cup {NotReturned}

TypeOK ==
  /\ s_pending \in [Slots -> Pending]
  /\ s_pending_mutex \in Channels \cup {None}
  /\ s_request_id_counter \in Ids
  /\ semaphore \in [Slots -> {0, 1}]
  /\ pc \in [Tasks -> {"idle"} \cup Holding]
  /\ slot \in [Tasks -> Slots]
  /\ rid \in [Tasks -> Ids]
  /\ handling \in [Channels -> Handling]
  /\ requests \subseteq Request
  /\ responses \subseteq Response
  /\ calls \in Calls
  /\ call \in [Tasks -> Calls]
  /\ content \in [Tasks -> Calls]
  /\ answered \subseteq Calls
  /\ ret \in [Tasks -> Returned]

(* The slots' semaphores as ats_rpc_init leaves them: created, and taken.  *)
NewSemaphoresGiven == [s \in Slots |-> 1]    (* mutant: left given        *)
NewSemaphores == [s \in Slots |-> 0]

(* ats_rpc_init: empty slots and no id drawn yet.                          *)
Init ==
  /\ s_pending = [s \in Slots |->
        [in_use |-> FALSE, request_id |-> 0, response_buf |-> 0,
         response_buf_size |-> 0, result |-> "OK"]]
  /\ s_pending_mutex = None
  /\ s_request_id_counter = 0
  /\ semaphore = NewSemaphores
  /\ pc = [t \in Tasks |-> "idle"]
  /\ slot = [t \in Tasks |-> 0]
  /\ rid = [t \in Tasks |-> 0]
  /\ handling = [c \in Channels |-> NoHandling]
  /\ requests = {}
  /\ responses = {}
  /\ calls = 0
  /\ call = [t \in Tasks |-> 0]
  /\ content = [t \in Tasks |-> 0]
  /\ answered = {}
  /\ ret = [t \in Tasks |-> NotReturned]

-----------------------------------------------------------------------------
(* ats_rpc_request, the caller's side.                                     *)

Goto(t, from, to) == pc[t] = from /\ pc' = [pc EXCEPT ![t] = to]

NoMutex == TRUE                    (* mutant: the mutex is not taken *)
MutexFree == s_pending_mutex = None

NextIdUnbounded == s_request_id_counter + 1   (* mutant: no wrap          *)
NextIdZero ==                                 (* mutant: wraps to 0       *)
  IF s_request_id_counter = MaxRequestId THEN 0 ELSE s_request_id_counter + 1

(* Ids run 1, 2, ..., MaxRequestId and round again; 0 is for events.       *)
NextId == IF s_request_id_counter = MaxRequestId THEN 1
          ELSE s_request_id_counter + 1

AnySlot == Slots                   (* mutant: in_use is not tested  *)
FreeSlots == {s \in Slots : ~s_pending[s].in_use}

Return(t, status) ==
  ret' = [ret EXCEPT ![t] = [call |-> call'[t], status |-> status,
                             content |-> content[t]]]

(* What a call does before it looks for a slot.                            *)
DrawId(t) ==
  /\ calls < MaxCalls
  /\ MutexFree
  /\ calls' = calls + 1
  /\ call' = [call EXCEPT ![t] = calls + 1]
  /\ s_request_id_counter' = NextId
  /\ UNCHANGED <<s_pending_mutex, semaphore, handling, content, hostVars>>

(* The id is drawn and the first free slot taken in one critical section;  *)
(* of the slot only in_use is set there.                                   *)
Allocate(t) ==
  /\ Goto(t, "idle", "fill_buf")
  /\ DrawId(t)
  /\ \E s \in FreeSlots :
       /\ \A r \in FreeSlots : s <= r
       /\ slot' = [slot EXCEPT ![t] = s]
       /\ s_pending' = [s_pending EXCEPT ![s].in_use = TRUE]
  /\ rid' = [rid EXCEPT ![t] = NextId]
  /\ ret' = [ret EXCEPT ![t] = NotReturned]

(* With every slot in use the call fails; the id it drew is spent.         *)
AllocateFails(t) ==
  /\ Goto(t, "idle", "idle")
  /\ DrawId(t)
  /\ FreeSlots = {}
  /\ Return(t, "NO_MEMORY")
  /\ UNCHANGED <<s_pending, slot, rid>>

(* The rest of the slot is written after the mutex is released, the id     *)
(* last.  service and command are stored too, and never read.              *)
Fill(t, from, to, entry) ==
  /\ Goto(t, from, to)
  /\ s_pending' = [s_pending EXCEPT ![slot[t]] = entry]
  /\ UNCHANGED <<s_pending_mutex, s_request_id_counter, semaphore, slot, rid,
                 call, calls, handling, content, ret, hostVars>>

FillBuffer(t) ==
  \E size \in Sizes :
    Fill(t, "fill_buf", "fill_result",
         [s_pending[slot[t]] EXCEPT !.response_buf = call[t],
                                    !.response_buf_size = size])

(* Mutant: the id is left unset.                                           *)
FillResultOnly(t) ==
  Fill(t, "fill_result", "send",
       [s_pending[slot[t]] EXCEPT !.result = "TIMEOUT"])

FillResult(t) ==
  Fill(t, "fill_result", "fill_id",
       [s_pending[slot[t]] EXCEPT !.result = "TIMEOUT"])

(* Mutant: the shared counter is read again instead of the local copy.     *)
FillCounter(t) ==
  Fill(t, "fill_id", "send",
       [s_pending[slot[t]] EXCEPT !.request_id = s_request_id_counter])

FillId(t) ==
  Fill(t, "fill_id", "send",
       [s_pending[slot[t]] EXCEPT !.request_id = rid[t]])

(* send_frame puts the request on the channel of its service ...           *)
Send(t) ==
  /\ Goto(t, "send", "wait")
  /\ \E c \in Channels :
       requests' = requests \cup {[call |-> call[t], id |-> rid[t],
                                   channel |-> c]}
  /\ UNCHANGED <<s_pending, s_pending_mutex, s_request_id_counter, semaphore,
                 slot, rid, call, calls, handling, content, ret,
                 responses, answered>>

(* ... or finds no memory for the frame.                                   *)
SendFails(t) ==
  /\ Goto(t, "send", "send_failed")
  /\ UNCHANGED <<s_pending, s_pending_mutex, s_request_id_counter, semaphore,
                 slot, rid, call, calls, handling, content, ret,
                 hostVars>>

(* Mutant: the token is seen and left where it is.                         *)
Peek(t) ==
  /\ Goto(t, "wait", "woken")
  /\ semaphore[slot[t]] = 1
  /\ UNCHANGED <<s_pending, s_pending_mutex, s_request_id_counter, semaphore,
                 slot, rid, call, calls, handling, content, ret,
                 hostVars>>

(* xSemaphoreTake on the slot's semaphore returns pdTRUE ...               *)
Wake(t) ==
  /\ Goto(t, "wait", "woken")
  /\ semaphore[slot[t]] = 1
  /\ semaphore' = [semaphore EXCEPT ![slot[t]] = 0]
  /\ UNCHANGED <<s_pending, s_pending_mutex, s_request_id_counter, slot, rid,
                 call, calls, handling, content, ret, hostVars>>

(* ... or gives up: FreeRTOS looks at the count again before it does.      *)
Expire(t) ==
  /\ Goto(t, "wait", "expired")
  /\ t \notin Forever
  /\ semaphore[slot[t]] = 0
  /\ UNCHANGED <<s_pending, s_pending_mutex, s_request_id_counter, semaphore,
                 slot, rid, call, calls, handling, content, ret,
                 hostVars>>

(* Every way out gives the slot back under the mutex; the locals are gone. *)
Leave(t, from, status) ==
  /\ Goto(t, from, "idle")
  /\ MutexFree
  /\ s_pending' = [s_pending EXCEPT ![slot[t]].in_use = FALSE]
  /\ slot' = [slot EXCEPT ![t] = 0]
  /\ rid' = [rid EXCEPT ![t] = 0]
  /\ content' = [content EXCEPT ![t] = 0]
  /\ UNCHANGED <<s_pending_mutex, s_request_id_counter, semaphore,
                 call, calls, handling, hostVars>>
  /\ Return(t, status)

ReturnSendFailed(t) == Leave(t, "send_failed", "NO_MEMORY")
ReturnTimeout(t)    == Leave(t, "expired", "TIMEOUT")
ReturnResult(t)     == Leave(t, "woken", s_pending[slot[t]].result)

-----------------------------------------------------------------------------
(* rpc_task and ats_rpc_dispatch, for response frames.                     *)

(* recv_frame delivers a frame to the rpc_task of its channel.             *)
Receive(c) ==
  /\ handling[c].at = "recv"
  /\ \E r \in responses :
       /\ r.channel = c
       /\ responses' = responses \ {r}
       /\ handling' = [handling EXCEPT
                         ![c] = [at |-> "dispatch", frame |-> r]]
  /\ UNCHANGED <<s_pending, s_pending_mutex, s_request_id_counter, semaphore,
                 callerVars, content, ret, requests, answered>>

Matching(id) == {s \in Slots : /\ s_pending[s].in_use
                               /\ s_pending[s].request_id = id}

(* Takes the mutex and finds the first slot in use with the frame's id.    *)
Match(c) ==
  /\ handling[c].at = "dispatch"
  /\ MutexFree
  /\ \E s \in Matching(handling[c].frame.id) :
       /\ \A r \in Matching(handling[c].frame.id) : s <= r
       /\ handling' = [handling EXCEPT
                         ![c] = [at |-> "copy", slot |-> s,
                                 frame |-> handling[c].frame]]
  /\ s_pending_mutex' = c
  /\ UNCHANGED <<s_pending, s_request_id_counter, semaphore, callerVars,
                 content, ret, hostVars>>

(* No such slot: the frame is dropped, the mutex given back.               *)
Discard(c) ==
  /\ handling[c].at = "dispatch"
  /\ MutexFree
  /\ Matching(handling[c].frame.id) = {}
  /\ handling' = [handling EXCEPT ![c] = NoHandling]
  /\ UNCHANGED <<s_pending, s_pending_mutex, s_request_id_counter, semaphore,
                 callerVars, content, ret, hostVars>>

Step(c, to) == handling' = [handling EXCEPT ![c].at = to]

(* Mutant: nothing is copied and the call succeeds.                        *)
TooLargeIsOK(c) ==
  /\ handling[c].at = "copy"
  /\ LET s == handling[c].slot IN
       /\ handling[c].frame.length > s_pending[s].response_buf_size
       /\ s_pending' = [s_pending EXCEPT ![s].result = "OK"]
  /\ Step(c, "give")
  /\ UNCHANGED <<s_pending_mutex, s_request_id_counter, semaphore, callerVars,
                 content, ret, hostVars>>

(* A payload longer than the buffer changes only the result.               *)
TooLarge(c) ==
  /\ handling[c].at = "copy"
  /\ LET s == handling[c].slot IN
       /\ handling[c].frame.length > s_pending[s].response_buf_size
       /\ s_pending' = [s_pending EXCEPT ![s].result = "TOO_LARGE"]
  /\ Step(c, "give")
  /\ UNCHANGED <<s_pending_mutex, s_request_id_counter, semaphore, callerVars,
                 content, ret, hostVars>>

(* The caller whose buffer response_buf points to, if it is still inside.  *)
Owners(s) == {t \in Tasks : /\ pc[t] # "idle"
                            /\ call[t] = s_pending[s].response_buf}

(* memcpy to response_buf, and the length through response_len.            *)
Copy(c) ==
  /\ handling[c].at = "copy"
  /\ LET s == handling[c].slot
         r == handling[c].frame IN
       /\ r.length <= s_pending[s].response_buf_size
       /\ content' = [t \in Tasks |-> IF t \in Owners(s) THEN r.call
                                      ELSE content[t]]
  /\ Step(c, "result")
  /\ UNCHANGED <<s_pending, s_pending_mutex, s_request_id_counter, semaphore,
                 callerVars, ret, hostVars>>

SetResult(c) ==
  /\ handling[c].at = "result"
  /\ s_pending' = [s_pending EXCEPT ![handling[c].slot].result = "OK"]
  /\ Step(c, "give")
  /\ UNCHANGED <<s_pending_mutex, s_request_id_counter, semaphore, callerVars,
                 content, ret, hostVars>>

(* Mutant: the mutex is not given back.                                    *)
GiveKeepsMutex(c) ==
  /\ handling[c].at = "give"
  /\ semaphore' = [semaphore EXCEPT ![handling[c].slot] = 1]
  /\ handling' = [handling EXCEPT ![c] = NoHandling]
  /\ UNCHANGED <<s_pending, s_pending_mutex, s_request_id_counter, callerVars,
                 content, ret, hostVars>>

(* xSemaphoreGive: a binary semaphore that is given already stays so.      *)
Give(c) ==
  /\ handling[c].at = "give"
  /\ semaphore' = [semaphore EXCEPT ![handling[c].slot] = 1]
  /\ s_pending_mutex' = None
  /\ handling' = [handling EXCEPT ![c] = NoHandling]
  /\ UNCHANGED <<s_pending, s_request_id_counter, callerVars, content,
                 ret, hostVars>>

-----------------------------------------------------------------------------
(* The host.                                                               *)

Answer(q) ==
  /\ requests' = requests \ {q}
  /\ \E n \in Sizes :
       responses' = responses \cup {[call |-> q.call, id |-> q.id,
                                     channel |-> q.channel, length |-> n]}
  /\ answered' = answered \cup {q.call}
  /\ UNCHANGED <<s_pending, s_pending_mutex, s_request_id_counter, semaphore,
                 callerVars, handling, content, ret>>

(* Frames the host's handlers return from without sending a response, or   *)
(* that find no client connected.                                          *)
Ignore(q) ==
  /\ requests' = requests \ {q}
  /\ UNCHANGED <<s_pending, s_pending_mutex, s_request_id_counter, semaphore,
                 callerVars, handling, content, ret, responses,
                 answered>>

(* All calls made and over: the only state the system may stop in.         *)
Finished ==
  /\ requests = {} /\ responses = {}
  /\ \A c \in Channels : handling[c].at = "recv"
  /\ \A t \in Tasks : \/ pc[t] = "idle" /\ calls = MaxCalls
                      \/ pc[t] = "wait" /\ t \in Forever
  /\ UNCHANGED vars

Caller(t) ==
  \/ Allocate(t) \/ AllocateFails(t)
  \/ FillBuffer(t) \/ FillResult(t) \/ FillId(t)
  \/ Send(t) \/ SendFails(t)
  \/ Wake(t) \/ Expire(t)
  \/ ReturnSendFailed(t) \/ ReturnTimeout(t) \/ ReturnResult(t)

RpcTask(c) ==
  \/ Receive(c) \/ Match(c) \/ Discard(c)
  \/ TooLarge(c) \/ Copy(c) \/ SetResult(c) \/ Give(c)

Host == \E q \in requests : Answer(q) \/ Ignore(q)

Next ==
  \/ \E t \in Tasks : Caller(t)
  \/ \E c \in Channels : RpcTask(c)
  \/ Host
  \/ Finished

Spec == Init /\ [][Next]_vars

(* Every task is scheduled, and a wait with a time limit comes to its end; *)
(* of the host nothing is asked.                                           *)
Fairness ==
  /\ \A t \in Tasks : WF_vars(Caller(t))
  /\ \A c \in Channels : WF_vars(RpcTask(c))

FairSpec == Spec /\ Fairness

(***************************************************************************)
(* The conditions under which ids identify requests.  InTime: a call gives *)
(* up only on a request the host will not answer any more.  FreshId: a new *)
(* call draws an id that no slot records and no call in progress has.      *)
(* (TLC is given Spec with the two as action constraints.)                 *)
(***************************************************************************)
InTime ==
  \A t \in Tasks :
    pc[t] = "wait" /\ pc'[t] = "expired"
      => call[t] \notin answered \cup {q.call : q \in requests}

HeldIds == {s_pending[s].request_id : s \in Slots}
             \cup {rid[t] : t \in {u \in Tasks : pc[u] # "idle"}}

FreshId ==
  \A t \in Tasks :
    pc[t] = "idle" /\ pc'[t] = "fill_buf" => rid'[t] \notin HeldIds

CalmSpec == Init /\ [][Next /\ InTime /\ FreshId]_vars

-----------------------------------------------------------------------------
(* A slot in use belongs to exactly one call in progress and every call    *)
(* past its allocation has one: no slot is shared, given back by a caller  *)
(* that does not hold it, or left in use when its call has returned,       *)
(* whichever of the three ways out of ats_rpc_request was taken.           *)
SlotOwnership ==
  /\ \A t \in Tasks : pc[t] \in Holding => s_pending[slot[t]].in_use
  /\ \A t, u \in Tasks :
       pc[t] \in Holding /\ pc[u] \in Holding /\ slot[t] = slot[u] => t = u
  /\ \A s \in Slots : s_pending[s].in_use =>
       \E t \in Tasks : pc[t] \in Holding /\ slot[t] = s

(* ats_rpc_dispatch writes a response only into a slot that stays in use   *)
(* until its semaphore is given, and two rpc_tasks never write at once,    *)
(* although a caller may time out at any moment of the delivery.           *)
DeliveryTargetHeld ==
  \A c \in Channels :
    handling[c].at \in {"copy", "result", "give"} =>
      /\ s_pending_mutex = c
      /\ s_pending[handling[c].slot].in_use

(* What ats_rpc_request stored outside the mutex stays as it was stored    *)
(* until the call is over: its own buffer, then its own id, whatever other *)
(* callers and late answers do meanwhile.                                  *)
SlotIntact ==
  \A t \in Tasks :
    /\ pc[t] \in Holding \ {"fill_buf"}
         => s_pending[slot[t]].response_buf = call[t]
    /\ pc[t] \in Holding \ {"fill_buf", "fill_result", "fill_id"}
         => s_pending[slot[t]].request_id = rid[t]

(* The answer to a call that still waits is never dropped by the dispatch, *)
(* and if no other slot in use has that id it goes to the call's own slot. *)
AwaitedAnswerIsDelivered ==
  [][\A c \in Channels, t \in Tasks :
       /\ handling[c].at = "dispatch" /\ handling'[c] # handling[c]
       /\ pc[t] = "wait" /\ handling[c].frame.call = call[t]
       => /\ handling'[c].at = "copy"
          /\ Matching(rid[t]) = {slot[t]} => handling'[c].slot = slot[t]]_vars

(* Of any MaxRequestId calls made in a row no two that are in progress     *)
(* have the same id, and none has the id 0 of an event frame: the counter  *)
(* skips 0 when it wraps and repeats nothing early.                        *)
IdsRepeatLate ==
  \A t, u \in Tasks :
    pc[t] # "idle" /\ pc[u] # "idle" =>
      /\ rid[t] # 0
      /\ call[t] < call[u] /\ call[u] < call[t] + MaxRequestId
           => rid[t] # rid[u]

(* A call with a time limit returns, whatever the host does: no caller is  *)
(* left waiting for the mutex, the semaphore or another caller.            *)
CallReturns ==
  \A t \in Tasks \ Forever : pc[t] # "idle" ~> pc[t] = "idle"

(* ATS_EC_OK means that the caller's buffer holds the answer to its own    *)
(* request: "matched exactly by request_id".                               *)
AnswerIsOwn ==
  \A t \in Tasks : ret[t].status = "OK" => ret[t].content = ret[t].call

(* A semaphore is given only while its slot's caller waits for it and the  *)
(* host has answered this very call: no token is left for the slot's next  *)
(* owner, although a time-out can cross the delivery of the answer.        *)
TokenMeansAnswer ==
  \A s \in Slots : semaphore[s] = 1 =>
    \E t \in Tasks : pc[t] = "wait" /\ slot[t] = s /\ call[t] \in answered

(* Under these conditions ats_rpc_request is the synchronous call that     *)
(* SyncCall describes.                                                     *)
Sync == INSTANCE SyncCall WITH busy <- [t \in Tasks |-> pc[t] # "idle"]
ImplementsSyncCall == Sync!Spec
=============================================================================
