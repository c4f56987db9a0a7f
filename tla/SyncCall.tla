------------------------------ MODULE SyncCall ------------------------------
(***************************************************************************)
(* What ats_rpc_request promises its callers (ats_rpc.h: "send an RPC      *)
(* request and wait for the synchronous response"): every call returns at  *)
(* most once; it succeeds, or reports an answer too large for its buffer,  *)
(* only if the host has answered that very call; it reports a timeout only *)
(* if the host has not; and its buffer holds its own answer or is left as  *)
(* it was.                                                                 *)
(***************************************************************************)
EXTENDS Integers

CONSTANTS Tasks, MaxCalls

VARIABLES
  calls,     (* the number of calls begun                                  *)
  call,      (* the number of a task's current or last call                *)
  busy,      (* whether a task is in a call                                *)
  answered,  (* the calls the host has answered                            *)
  ret        (* what a task's last call returned, and whose answer it got  *)

vars == <<calls, call, busy, answered, ret>>

NotReturned == [call |-> 0, status |-> "NONE", content |-> 0]

Init ==
  /\ calls = 0
  /\ call = [t \in Tasks |-> 0]
  /\ busy = [t \in Tasks |-> FALSE]
  /\ answered = {}
  /\ ret = [t \in Tasks |-> NotReturned]

Number(t) ==
  /\ ~busy[t]
  /\ calls < MaxCalls
  /\ calls' = calls + 1
  /\ call' = [call EXCEPT ![t] = calls + 1]
  /\ UNCHANGED answered

Begin(t) ==
  /\ Number(t)
  /\ busy' = [busy EXCEPT ![t] = TRUE]
  /\ ret' = [ret EXCEPT ![t] = NotReturned]

(* A call may also be turned away before anything is sent.                 *)
Refuse(t) ==
  /\ Number(t)
  /\ ret' = [ret EXCEPT ![t] = [call |-> calls + 1, status |-> "NO_MEMORY",
                                content |-> 0]]
  /\ UNCHANGED busy

HostAnswers(t) ==
  /\ busy[t]
  /\ call[t] \notin answered
  /\ answered' = answered \cup {call[t]}
  /\ UNCHANGED <<calls, call, busy, ret>>

Outcomes(t) ==
  IF call[t] \in answered
  THEN {[call |-> call[t], status |-> "OK", content |-> call[t]],
        [call |-> call[t], status |-> "TOO_LARGE", content |-> 0]}
  ELSE {[call |-> call[t], status |-> s, content |-> 0] :
           s \in {"TIMEOUT", "NO_MEMORY"}}

Return(t) ==
  /\ busy[t]
  /\ busy' = [busy EXCEPT ![t] = FALSE]
  /\ \E r \in Outcomes(t) : ret' = [ret EXCEPT ![t] = r]
  /\ UNCHANGED <<calls, call, answered>>

Next ==
  \E t \in Tasks : Begin(t) \/ Refuse(t) \/ HostAnswers(t) \/ Return(t)

Spec == Init /\ [][Next]_vars
=============================================================================
