------------------------------- MODULE AtsNet -------------------------------
(***************************************************************************)
(* The network service: tasks of the firmware own sockets by handles of    *)
(* the host (sdk/ats_net.c of ATS_ArmAppBuilder); on the host one worker   *)
(* thread (RpcFrameProcessor) takes the requests in turn, does create,     *)
(* send and close itself and hands connect and recv to one network thread  *)
(* (RpcNetWorker); both work on a table of sockets (sdk/ats_net.c of       *)
(* ATS_app) that no lock protects.  The worker answers what the network    *)
(* thread has finished when it comes to it.  Meanwhile a task may give up  *)
(* waiting and the firmware may be restarted, of which the host takes no   *)
(* notice.                                                                 *)
(*                                                                         *)
(* Below the requests is ats_rpc.c, modelled write by write in AtsRpc.  Of *)
(* it this module keeps how an answer finds its call: the ids, which begin *)
(* again when they are used up, and the slots, each of which bears the id  *)
(* of its last call until the next one that takes it has written its own.  *)
(* Left to AtsRpc is where the bytes of an answer go that comes while the  *)
(* caller still writes the slot; what can become of such an answer here is *)
(* that it is lost, or that the call finds it as its own.                  *)
(***************************************************************************)
EXTENDS Integers, Sequences, FiniteSets

CONSTANTS
  Tasks,                (* tasks of the firmware, each with one socket     *)
  Servers,              (* hosts to connect to                             *)
  None,
  ATS_NET_MAX_SOCKETS,  (* entries of the host's table                     *)
  ATS_RPC_MAX_PENDING,  (* slots of s_pending                              *)
  MaxRequestId,         (* the largest request id, UINT8_MAX in the code   *)
  MaxCalls,             (* bound on the calls made                         *)
  MaxLosses             (* bound on the calls given up or not sent and the *)
                        (* restarts of the firmware, taken together        *)

(* What the network thread is doing, for which call.                       *)
Job == [n : Nat, raw : Nat, pc : {"resolve", "select", "recv", "receiving"}]

ASSUME ConstantsAssumption ==
  /\ None \notin Tasks \cup Servers \cup Job \cup Nat
  /\ ATS_NET_MAX_SOCKETS \in Nat \ {0}
  /\ ATS_RPC_MAX_PENDING \in Nat \ {0} /\ MaxRequestId \in Nat \ {0}
  /\ MaxCalls \in Nat /\ MaxLosses \in Nat

Handles == 0 .. ATS_NET_MAX_SOCKETS - 1
INVALID_SOCKET == 0
Slots == 0 .. ATS_RPC_MAX_PENDING - 1

VARIABLES
  (* the firmware                                                          *)
  waiting,    (* the call a task waits for, 0 if none                      *)
  handle,     (* the handle a task holds                                   *)
  target,     (* the server a task has been told it is connected to        *)
  session,
  s_request_id_counter,  (* the id drawn last                              *)
  rid,        (* the id a task has drawn for a call not yet sent, or 0     *)
  slot,       (* the slot a task's call has, if any                        *)
  s_pending,  (* the request_id each slot bears                            *)
  early,      (* an answer a call took before it was sent, if any          *)
  (* the host                                                              *)
  inbox,      (* events queued for the worker                              *)
  currentId,  (* m_currentRequestId                                        *)
  jobs, job,  (* the network thread: queued and current                    *)
  outbox,     (* responses queued for the connection                       *)
  s_net_ctx,  (* the table of sockets                                      *)
  (* the operating system                                                  *)
  os,         (* the sockets ever opened                                   *)
  (* history                                                               *)
  asked,      (* all calls, each with the run of the firmware it is of     *)
  gaveUp,     (* those nobody waited for to the end                        *)
  answered,   (* those a response was posted for                           *)
  unsent,     (* run and id of the calls that could not be sent            *)
  mistaken    (* the calls that returned with the answer to another one    *)

sockets  == <<waiting, handle, target, session>>
returns  == <<unsent, mistaken>>
firmware == <<waiting, handle, target, session, s_request_id_counter, rid,
              slot, s_pending, early, unsent, mistaken>>
network  == <<jobs, job>>
table    == <<s_net_ctx, os>>
history  == <<asked, gaveUp, answered>>
vars == <<firmware, inbox, currentId, network, outbox, table, history>>

Init ==
  /\ waiting = [t \in Tasks |-> 0]
  /\ handle = [t \in Tasks |-> None] /\ target = [t \in Tasks |-> None]
  /\ session = 1
  /\ s_request_id_counter = 0 /\ rid = [t \in Tasks |-> 0]
  /\ slot = [t \in Tasks |-> None] /\ s_pending = [s \in Slots |-> 0]
  /\ early = [t \in Tasks |-> None]
  /\ inbox = <<>> /\ currentId = 0
  /\ jobs = <<>> /\ job = None /\ outbox = <<>>
  /\ s_net_ctx = [h \in Handles |-> [in_use |-> FALSE,
                                     raw_sock |-> INVALID_SOCKET]]
  /\ os = <<>>
  /\ asked = <<>> /\ gaveUp = {} /\ answered = {}
  /\ unsent = {} /\ mistaken = {}

-----------------------------------------------------------------------------
(* The firmware.                                                           *)

(* uint8_t, without 0.                                                     *)
NextId == (s_request_id_counter % MaxRequestId) + 1

FreeSlots == {s \in Slots : \A t \in Tasks : slot[t] # s}

(* The call draws an id and takes the first free slot, which keeps the id  *)
(* of its last call for now; without one it returns ATS_EC_NO_MEMORY.      *)
Begin(t) ==
  /\ waiting[t] = 0 /\ rid[t] = 0
  /\ Len(asked) + Cardinality({u \in Tasks : rid[u] # 0}) < MaxCalls
  /\ s_request_id_counter' = NextId
  /\ IF FreeSlots = {} THEN UNCHANGED <<rid, slot>>
     ELSE /\ rid' = [rid EXCEPT ![t] = NextId]
          /\ \E s \in FreeSlots :
               /\ \A r \in FreeSlots : s <= r
               /\ slot' = [slot EXCEPT ![t] = s]
  /\ UNCHANGED <<sockets, s_pending, early, returns, inbox, currentId,
                 network, outbox, table, history>>

(* The id is written into the slot ...                                     *)
FillId(t) ==
  /\ s_pending' = [s_pending EXCEPT ![slot[t]] = rid[t]]
  /\ rid' = [rid EXCEPT ![t] = 0]

Losses == Cardinality(gaveUp) + Cardinality(unsent) + session - 1

(* ... but send_frame fails.                                               *)
SendFails(t) ==
  /\ rid[t] # 0
  /\ Losses < MaxLosses
  /\ FillId(t)
  /\ slot' = [slot EXCEPT ![t] = None]
  /\ early' = [early EXCEPT ![t] = None]
  /\ unsent' = unsent \cup {<<session, rid[t]>>}
  /\ UNCHANGED <<sockets, s_request_id_counter, mistaken, inbox, currentId,
                 network, outbox, table, history>>

(* ... and the request is sent.  A call is named by its number in asked;   *)
(* its request travels as this number.                                     *)
Ask(t, op, server) ==
  /\ rid[t] # 0
  /\ FillId(t)
  /\ asked' = Append(asked, [id |-> rid[t], run |-> session, op |-> op,
                             task |-> t, sock |-> handle[t], server |-> server])
  /\ waiting' = [waiting EXCEPT ![t] = Len(asked')]
  /\ inbox' = Append(inbox, [kind |-> "request", n |-> Len(asked')])
  /\ UNCHANGED <<handle, target, session, s_request_id_counter, slot, early,
                 returns, currentId, network, outbox, table, gaveUp, answered>>

Create(t) == handle[t] = None /\ Ask(t, "create", None)
Connect(t, s) == handle[t] # None /\ target[t] = None /\ Ask(t, "connect", s)
Send(t) == target[t] # None /\ Ask(t, "send", None)
Recv(t) == target[t] # None /\ Ask(t, "recv", None)
Close(t) == handle[t] # None /\ Ask(t, "close", None)

(* After a close, whatever became of it, the handle is not used again.     *)
Forgets(t, n) ==
  IF asked[n].op = "close"
  THEN /\ handle' = [handle EXCEPT ![t] = None]
       /\ target' = [target EXCEPT ![t] = None]
  ELSE UNCHANGED <<handle, target>>

(* The slot is given back, but for its id.                                 *)
Leave(t) ==
  /\ waiting' = [waiting EXCEPT ![t] = 0]
  /\ slot' = [slot EXCEPT ![t] = None]
  /\ early' = [early EXCEPT ![t] = None]

(* ats_rpc_request returns without an answer.                              *)
GiveUp(t) ==
  /\ waiting[t] # 0
  /\ Losses < MaxLosses
  /\ gaveUp' = gaveUp \cup {waiting[t]}
  /\ Leave(t)
  /\ Forgets(t, waiting[t])
  /\ UNCHANGED <<session, s_request_id_counter, rid, s_pending, returns, inbox,
                 currentId, network, outbox, table, asked, answered>>

(* A response is one or two words: the result of send or close; the result *)
(* of create and the socket, if there is one; the socket and the result of *)
(* connect or recv, without data.  One with data is too large for those    *)
(* who look for two words.                                                 *)
TwoWords(r) ==
  CASE asked[r.n].op = "create" -> r.ret = 0
    [] asked[r.n].op \in {"send", "close"} -> FALSE
    [] OTHER -> r.ret <= 0

Word1(r) == IF asked[r.n].op = "create" THEN r.ret ELSE r.sock
Word2(r) == IF asked[r.n].op = "create" THEN r.sock ELSE r.ret

(* ats_rpc_request returns with a response, which the caller reads as the  *)
(* answer to what it has asked.                                            *)
ReturnWith(t, r) ==
  /\ Leave(t)
  /\ mistaken' = mistaken \cup ({<<waiting[t], r.n>>} \ {<<r.n, r.n>>})
  /\ LET c == asked[waiting[t]] IN
     CASE c.op = "create" /\ TwoWords(r) /\ Word1(r) = 0 ->
            /\ handle' = [handle EXCEPT ![t] = Word2(r)]
            /\ UNCHANGED target
       [] c.op = "connect" /\ TwoWords(r) /\ Word2(r) = 0 ->
            /\ target' = [target EXCEPT ![t] = c.server]
            /\ UNCHANGED handle
       [] OTHER -> Forgets(t, waiting[t])

(* Whose slot, of those in use, is the first that bears the id.            *)
Taker(t, id) ==
  /\ slot[t] # None /\ s_pending[slot[t]] = id
  /\ \A u \in Tasks : slot[u] # None /\ s_pending[slot[u]] = id
                        => slot[t] <= slot[u]

(* writeFrame, and ats_rpc_dispatch in the firmware: the response goes to  *)
(* the first slot in use with its id, if any.  A call that waits returns   *)
(* with it; of one that is still to be sent the result is overwritten, or  *)
(* not.                                                                    *)
Deliver ==
  /\ outbox # <<>>
  /\ outbox' = Tail(outbox)
  /\ LET r == Head(outbox) IN
     \/ /\ \A t \in Tasks : ~Taker(t, r.id)
        /\ UNCHANGED <<waiting, handle, target, slot, early, mistaken>>
     \/ \E t \in Tasks :
          /\ Taker(t, r.id)
          /\ \/ waiting[t] # 0 /\ ReturnWith(t, r)
             \/ /\ waiting[t] = 0
                /\ early' \in {early, [early EXCEPT ![t] = r]}
                /\ UNCHANGED <<waiting, handle, target, slot, mistaken>>
  /\ UNCHANGED <<session, s_request_id_counter, rid, s_pending, unsent,
                 inbox, currentId, network, table, history>>

(* The call wakes up by what came before it was sent.                      *)
WakeEarly(t) ==
  /\ waiting[t] # 0 /\ early[t] # None
  /\ ReturnWith(t, early[t])
  /\ UNCHANGED <<session, s_request_id_counter, rid, s_pending, unsent,
                 inbox, currentId, network, outbox, table, history>>

(* QEMU is stopped and started again.                                      *)
Restart ==
  /\ Losses < MaxLosses
  /\ session' = session + 1
  /\ gaveUp' = gaveUp \cup ({waiting[t] : t \in Tasks} \ {0})
  /\ waiting' = [t \in Tasks |-> 0]
  /\ handle' = [t \in Tasks |-> None] /\ target' = [t \in Tasks |-> None]
  /\ s_request_id_counter' = 0 /\ rid' = [t \in Tasks |-> 0]
  /\ slot' = [t \in Tasks |-> None] /\ s_pending' = [s \in Slots |-> 0]
  /\ early' = [t \in Tasks |-> None]
  /\ UNCHANGED <<returns, inbox, currentId, network, outbox, table, asked,
                 answered>>

-----------------------------------------------------------------------------
(* The host's worker thread.                                               *)
Post(n, id, sock, ret) ==
  /\ outbox' = Append(outbox, [n |-> n, id |-> id, sock |-> sock, ret |-> ret])
  /\ answered' = answered \cup {n}

(* dispatchFrame makes the request's id the current one.                   *)
Dispatch(op) ==
  /\ inbox # <<>> /\ Head(inbox).kind = "request"
  /\ asked[Head(inbox).n].op = op
  /\ inbox' = Tail(inbox)
  /\ currentId' = asked[Head(inbox).n].id
  /\ UNCHANGED <<firmware, job, asked, gaveUp>>

Free == {h \in Handles : ~s_net_ctx[h].in_use}

(* get_net_ctx fails unless the entry is in use.                           *)
HasCtx(h) == h \in Handles /\ s_net_ctx[h].in_use

(* The first free entry; there may be none, or socket() fails, after which *)
(* the entry is given back.                                                *)
DispatchCreate ==
  /\ Dispatch("create")
  /\ LET n == Head(inbox).n IN
     \/ Post(n, currentId', None, -1) /\ UNCHANGED table
     \/ \E h \in Free :
          /\ \A g \in Free : h <= g
          /\ os' = Append(os, [open |-> TRUE, peer |-> None, data |-> FALSE])
          /\ s_net_ctx' = [s_net_ctx EXCEPT
                             ![h] = [in_use |-> TRUE, raw_sock |-> Len(os')]]
          /\ Post(n, currentId', h, 0)
  /\ UNCHANGED jobs

(* The server gets what is sent.                                           *)
DispatchSend ==
  /\ Dispatch("send")
  /\ LET n == Head(inbox).n IN
     Post(n, currentId', asked[n].sock, IF HasCtx(asked[n].sock) THEN 0 ELSE -1)
  /\ UNCHANGED <<jobs, table>>

(* Mutant: the socket is not closed, only the entry given back.            *)
DispatchCloseLeaks ==
  /\ Dispatch("close")
  /\ LET n == Head(inbox).n
         h == asked[n].sock IN
     /\ s_net_ctx' = [g \in Handles |->
          IF g = h THEN [in_use |-> FALSE, raw_sock |-> INVALID_SOCKET]
          ELSE s_net_ctx[g]]
     /\ Post(n, currentId', h, 0)
  /\ UNCHANGED <<jobs, os>>

DispatchClose ==
  /\ Dispatch("close")
  /\ LET n == Head(inbox).n
         h == asked[n].sock IN
     IF ~HasCtx(h)
     THEN Post(n, currentId', h, -1) /\ UNCHANGED table
     ELSE /\ os' = [os EXCEPT ![s_net_ctx[h].raw_sock].open = FALSE]
          /\ s_net_ctx' = [s_net_ctx EXCEPT
               ![h] = [in_use |-> FALSE, raw_sock |-> INVALID_SOCKET]]
          /\ Post(n, currentId', h, 0)
  /\ UNCHANGED jobs

(* Mutant: the request is answered at once, and again when it is done.     *)
DispatchJobAnswers ==
  /\ \E op \in {"connect", "recv"} : Dispatch(op)
  /\ jobs' = Append(jobs, Head(inbox).n)
  /\ Post(Head(inbox).n, currentId', asked[Head(inbox).n].sock, 0)
  /\ UNCHANGED table

(* connect and recv leave the request's id with the job.                   *)
DispatchJob ==
  /\ \E op \in {"connect", "recv"} : Dispatch(op)
  /\ jobs' = Append(jobs, Head(inbox).n)
  /\ UNCHANGED <<outbox, table, answered>>

(* Mutant: the id is what the worker last dispatched.                      *)
FinishedIdStale(n) == currentId

(* onSockConnectFinished, onSockRecvFinished: the id is the job's.         *)
FinishedId(n) == asked[n].id

DispatchFinished ==
  /\ inbox # <<>> /\ Head(inbox).kind = "finished"
  /\ inbox' = Tail(inbox)
  /\ LET e == Head(inbox) IN
     /\ currentId' = FinishedId(e.n)
     /\ Post(e.n, currentId', asked[e.n].sock, e.ret)
  /\ UNCHANGED <<firmware, network, table, asked, gaveUp>>

Worker == \/ DispatchCreate \/ DispatchSend \/ DispatchClose
          \/ DispatchJob \/ DispatchFinished

-----------------------------------------------------------------------------
(* The network thread.  A step reads the entry of the table again.         *)
RawSock == s_net_ctx[asked[job.n].sock].raw_sock

Finish(ret) ==
  /\ inbox' = Append(inbox, [kind |-> "finished", n |-> job.n, ret |-> ret])
  /\ job' = None

NetStep(pc) ==
  /\ job # None /\ job.pc = pc
  /\ UNCHANGED <<firmware, currentId, outbox, jobs, s_net_ctx, history>>

TakeJob ==
  /\ job = None /\ jobs # <<>>
  /\ jobs' = Tail(jobs)
  /\ LET c == asked[Head(jobs)] IN
     IF HasCtx(c.sock)
     THEN /\ job' = [n |-> Head(jobs), raw |-> INVALID_SOCKET,
                     pc |-> IF c.op = "connect" THEN "resolve" ELSE "recv"]
          /\ UNCHANGED inbox
     ELSE /\ inbox' = Append(inbox, [kind |-> "finished", n |-> Head(jobs),
                                     ret |-> -1])
          /\ UNCHANGED job
  /\ UNCHANGED <<firmware, currentId, outbox, table, history>>

(* getaddrinfo, for as long as it takes, and connect: a socket that has a  *)
(* peer keeps it, a server may not answer.                                 *)
Resolve ==
  /\ NetStep("resolve")
  /\ \/ Finish(-1) /\ UNCHANGED os
     \/ /\ job' = [job EXCEPT !.pc = "select"]
        /\ \/ UNCHANGED os
           \/ /\ RawSock # INVALID_SOCKET
              /\ os[RawSock].peer = None
              /\ os' = [os EXCEPT ![RawSock].peer = asked[job.n].server]
        /\ UNCHANGED inbox

(* Mutant: SO_ERROR is not asked for.                                      *)
SelectOnly ==
  /\ NetStep("select")
  /\ Finish(0)
  /\ UNCHANGED os

(* select waits for a connection, or the timeout.  getsockopt may fail     *)
(* since the entry was closed after select; this is ignored, and the step  *)
(* has then ended with 0 before the close.  A datagram socket has its peer *)
(* at once.                                                                *)
Select ==
  /\ NetStep("select")
  /\ \/ Finish(-1)
     \/ /\ RawSock # INVALID_SOCKET
        /\ os[RawSock].peer # None
        /\ Finish(0)
  /\ UNCHANGED os

(* recv is called on the socket the entry has now.                         *)
StartRecv ==
  /\ NetStep("recv")
  /\ IF RawSock = INVALID_SOCKET
     THEN Finish(-2)
     ELSE job' = [job EXCEPT !.pc = "receiving", !.raw = RawSock]
          /\ UNCHANGED inbox
  /\ UNCHANGED os

(* It returns data, or fails: no data in time, the socket is closed.       *)
EndRecv ==
  /\ NetStep("receiving")
  /\ \/ Finish(-2) /\ UNCHANGED os
     \/ /\ os[job.raw].open /\ os[job.raw].data
        /\ os' = [os EXCEPT ![job.raw].data = FALSE]
        /\ Finish(1)

NetThread == TakeJob \/ Resolve \/ Select \/ StartRecv \/ EndRecv

(* A server sends.                                                         *)
DataArrives(k) ==
  /\ os[k].open /\ os[k].peer # None /\ ~os[k].data
  /\ os' = [os EXCEPT ![k].data = TRUE]
  /\ UNCHANGED <<firmware, inbox, currentId, network, outbox, s_net_ctx,
                 history>>

-----------------------------------------------------------------------------
Next ==
  \/ \E t \in Tasks : \/ Begin(t) \/ SendFails(t)
                      \/ Create(t) \/ Send(t) \/ Recv(t) \/ Close(t)
                      \/ \E s \in Servers : Connect(t, s)
                      \/ GiveUp(t) \/ WakeEarly(t)
  \/ Deliver \/ Restart
  \/ Worker \/ NetThread
  \/ \E k \in DOMAIN os : DataArrives(k)

Spec == Init /\ [][Next]_vars

-----------------------------------------------------------------------------
GivenUp(op) == \E n \in gaveUp : asked[n].op = op

(* The entries in use hold different sockets, each open, and no socket     *)
(* stays open without an entry, although the network thread reads the      *)
(* table while the worker changes it.                                      *)
TableHoldsSockets ==
  LET used == {h \in Handles : s_net_ctx[h].in_use} IN
  /\ {s_net_ctx[h].raw_sock : h \in used} = {k \in DOMAIN os : os[k].open}
  /\ Cardinality(used) = Cardinality({k \in DOMAIN os : os[k].open})

Closing(t) == waiting[t] # 0 /\ asked[waiting[t]].op = "close"

(* The server a task has been told it is connected to is the one its       *)
(* socket is connected to.                                                 *)
ConnectedToServer ==
  \A t \in Tasks : target[t] # None /\ ~Closing(t) =>
    /\ s_net_ctx[handle[t]].in_use
    /\ os[s_net_ctx[handle[t]].raw_sock].peer = target[t]

Retried ==
  \E m, n \in DOMAIN asked :
    /\ m < n /\ asked[m].task = asked[n].task
    /\ asked[m].op = "connect" /\ asked[n].op = "connect"
    /\ \A k \in m .. n :
         asked[k].task = asked[m].task => asked[k].op # "create"

(* This holds in the first run of the firmware as long as every connect is *)
(* waited for to its end, no socket is used for a second connect after one *)
(* that failed (what a late or failed connect leaves behind is not undone) *)
(* and every call has returned with its own answer; calls other than       *)
(* connect may be given up.                                                *)
ConnectedIfPatient ==
  session = 1 /\ ~GivenUp("connect") /\ ~Retried /\ mistaken = {}
    => ConnectedToServer

(* The id of a call was that of another call of its run, too.              *)
IdRepeated(m) ==
  \/ \E k \in DOMAIN asked : /\ k # m /\ asked[k].run = asked[m].run
                             /\ asked[k].id = asked[m].id
  \/ <<asked[m].run, asked[m].id>> \in unsent

Mistaken(m) == \E k \in DOMAIN asked : <<m, k>> \in mistaken

(* A call returns with the answer to itself, although the worker keeps one *)
(* current id for all and answers connect and recv long after it has taken *)
(* other requests, and although a slot can be matched by the id of its     *)
(* last call.  The answer to another call is taken for its own only if     *)
(* nobody waited for that one to its end (it was given up, of an earlier   *)
(* run of the firmware, or had itself returned with the answer to another  *)
(* one), or if its id has been given to a second call of its run.          *)
AnswerIsForCall ==
  \A n, m \in DOMAIN asked : <<n, m>> \in mistaken =>
    \/ asked[m].run < asked[n].run
    \/ m \in gaveUp
    \/ Mistaken(m)
    \/ IdRepeated(m)

(* No request is lost between the two threads or taken twice: one that is  *)
(* not answered yet is in exactly one place, so that the call that waits   *)
(* for it, if any, will have its answer.                                   *)
Places(n) ==
  {<<"inbox", i>> : i \in {i \in DOMAIN inbox : inbox[i].n = n}} \cup
  {<<"jobs", i>> : i \in {i \in DOMAIN jobs : jobs[i] = n}} \cup
  {<<"job", 1>> : i \in {i \in {1} : job # None /\ job.n = n}}

RequestsInOnePlace ==
  \A n \in DOMAIN asked :
    Cardinality(Places(n)) = IF n \in answered THEN 0 ELSE 1
=============================================================================
