------------------------------ MODULE AtsClock ------------------------------
(***************************************************************************)
(* The firmware's clock (ats_sys.c): the time is asked of the host once    *)
(* and from then on counted by the tick counter.  s_timestamp and          *)
(* s_timestamp_tick are set and read by any task, without a lock and one   *)
(* after the other.                                                        *)
(***************************************************************************)
EXTENDS Integers

CONSTANTS
  Tasks,      (* tasks that use the clock                                  *)
  Word,       (* 2^32: values of an unsigned int                           *)
  Second,     (* 1000: ticks and milliseconds in a second                  *)
  Epoch,      (* seconds since 1970 when the firmware starts               *)
  Timeout,    (* ticks GET_TIMESTAMP is waited for                         *)
  SetTo,      (* times ats_datetime_set is called with                     *)
  MaxNow      (* bound on the ticks                                        *)

VARIABLES
  now,                            (* xTaskGetTickCount                     *)
  s_timestamp, s_timestamp_tick,
  at,                             (* where a task is in its call           *)
  local,                          (* what it holds there                   *)
  (* history *)
  alone,      (* calls no other call has overlapped                        *)
  began,      (* when a call began                                         *)
  served,     (* when the host read its clock for it                       *)
  ref         (* the last synchronisation: the time set, when it was so,   *)
              (* how long the call took, when it ended, if it was alone    *)

clock   == <<s_timestamp, s_timestamp_tick>>
history == <<alone, began, served, ref>>
vars    == <<now, clock, at, local, history>>

Init ==
  /\ now = 0
  /\ s_timestamp = 0 /\ s_timestamp_tick = 0
  /\ at = [t \in Tasks |-> "idle"]
  /\ local = [t \in Tasks |-> 0]
  /\ alone = {}
  /\ began = [t \in Tasks |-> 0] /\ served = [t \in Tasks |-> 0]
  /\ ref = [value |-> 0, at |-> 0, took |-> 0, end |-> 0, alone |-> FALSE]

(* ats_tick_get: the product is cut to 32 bits before the division.        *)
TickGet == ((now * Second) % Word) \div Second

Go(t, from, to) ==
  /\ at[t] = from
  /\ at' = [at EXCEPT ![t] = to]

Hold(t, v) == local' = [local EXCEPT ![t] = v]

(* A call begins; those it finds under way are no longer alone.            *)
Enter(t) ==
  /\ alone' = IF \A u \in Tasks : at[u] = "idle" THEN {t} ELSE {}
  /\ began' = [began EXCEPT ![t] = now]

Tick ==
  /\ now < MaxNow
  /\ now' = now + 1
  /\ UNCHANGED <<clock, at, local, history>>

-----------------------------------------------------------------------------
(* A call ends.                                                            *)
Return(t) ==
  /\ Hold(t, 0)
  /\ began' = [began EXCEPT ![t] = 0] /\ served' = [served EXCEPT ![t] = 0]

(* ats_timestamp_get of a clock that is set: s_timestamp is read again,    *)
(* then the tick count and s_timestamp_tick.                               *)
GetKnown(t) ==
  /\ s_timestamp # 0
  /\ Go(t, "idle", "sum")
  /\ Enter(t)
  /\ UNCHANGED <<now, clock, local, served, ref>>

ReadTimestamp(t) ==
  /\ Go(t, "sum", "add")
  /\ Hold(t, s_timestamp)
  /\ UNCHANGED <<now, clock, history>>

Sum(t) == local[t] + ((TickGet - s_timestamp_tick) % Word) \div Second

Add(t) ==
  /\ Go(t, "add", "idle")
  /\ Return(t)
  /\ UNCHANGED <<now, clock, alone, ref>>

(* Of a clock that is not: GET_TIMESTAMP is sent to the host.              *)
GetUnknown(t) ==
  /\ s_timestamp = 0
  /\ Go(t, "idle", "asked")
  /\ Enter(t)
  /\ UNCHANGED <<now, clock, local, served, ref>>

HostAnswers(t) ==
  /\ Go(t, "asked", "served")
  /\ Hold(t, Epoch + now \div Second)
  /\ served' = [served EXCEPT ![t] = now]
  /\ UNCHANGED <<now, clock, alone, began, ref>>

(* The answer has come in time.                                            *)
StoreTimestamp(t) ==
  /\ Go(t, "served", "sample")
  /\ now <= began[t] + Timeout
  /\ s_timestamp' = local[t]
  /\ UNCHANGED <<now, s_timestamp_tick, local, history>>

(* No answer, or none in time: s_timestamp is returned as it is.           *)
GetFails(t) ==
  /\ \/ Go(t, "asked", "idle")
     \/ Go(t, "served", "idle") /\ now >= began[t] + Timeout
  /\ Return(t)
  /\ UNCHANGED <<now, clock, alone, ref>>

-----------------------------------------------------------------------------
(* ats_datetime_set with the date of v.                                    *)
DatetimeSet(t, v) ==
  /\ Go(t, "idle", "sample")
  /\ Enter(t)
  /\ s_timestamp' = v
  /\ Hold(t, v)
  /\ served' = [served EXCEPT ![t] = now]
  /\ UNCHANGED <<now, s_timestamp_tick, ref>>

(* Mutant: the tick count of the beginning of the call.                    *)
SampleTickEarly(t) ==
  /\ Go(t, "sample", "store")
  /\ Hold(t, ((began[t] * Second) % Word) \div Second)
  /\ ref' = [value |-> local[t], at |-> served[t],
             took |-> now - began[t], end |-> now, alone |-> FALSE]
  /\ UNCHANGED <<now, clock, alone, began, served>>

(* s_timestamp_tick = ats_tick_get() at the end of both: the call, and the *)
(* assignment; ats_timestamp_get then returns s_timestamp.                 *)
SampleTick(t) ==
  /\ Go(t, "sample", "store")
  /\ Hold(t, TickGet)
  /\ ref' = [value |-> local[t], at |-> served[t],
             took |-> now - began[t], end |-> now, alone |-> FALSE]
  /\ UNCHANGED <<now, clock, alone, began, served>>

StoreTick(t) ==
  /\ Go(t, "store", "idle")
  /\ s_timestamp_tick' = local[t]
  /\ ref' = [ref EXCEPT !.alone = t \in alone]
  /\ Return(t)
  /\ UNCHANGED <<now, s_timestamp, alone>>

Next ==
  \/ Tick
  \/ \E t \in Tasks :
       \/ GetKnown(t) \/ ReadTimestamp(t) \/ Add(t)
       \/ GetUnknown(t) \/ HostAnswers(t) \/ StoreTimestamp(t) \/ GetFails(t)
       \/ \E v \in SetTo : DatetimeSet(t, v)
       \/ SampleTick(t) \/ StoreTick(t)

Spec == Init /\ [][Next]_vars

-----------------------------------------------------------------------------
(* The tick count has not started from 0 since the last synchronisation.   *)
NoWrapSince == (now * Second) \div Word = (ref.end * Second) \div Word

(* The time of the clock that was last set from.                           *)
TrueTime == ref.value + (now - ref.at) \div Second

(* A time read without another call under way, from a clock that was set   *)
(* so, is never ahead of the clock it was set by, and behind it by less    *)
(* than a second more than the call took that set it: as long as the tick  *)
(* count does not wrap, 71 minutes after the start.  Of calls that cross,  *)
(* the pair of a time and the tick it was true at may stay mixed for good. *)
ReadsRight ==
  \A t \in Tasks :
    Add(t) /\ t \in alone /\ ref.alone /\ NoWrapSince =>
      Sum(t) \in TrueTime - 1 - ref.took \div Second .. TrueTime
=============================================================================
