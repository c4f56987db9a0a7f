----------------------------- MODULE AtsUplink -----------------------------
(***************************************************************************)
(* One RPC channel from the firmware to the host, byte by byte: the tasks  *)
(* of the firmware that send frames under the channel's tx mutex           *)
(* (ats_rpc.c), the fault handler that writes its report past it, the TCP  *)
(* connection QEMU makes of the UART, and the host's RpcSerialServer,      *)
(* which cuts the stream into frames again (RpcProtocol.cpp).  QEMU may    *)
(* exit at any moment and be started anew; each run of it is a session     *)
(* with a connection of its own.                                           *)
(***************************************************************************)
EXTENDS Integers, Sequences, SequencesExt, FiniteSetsExt

CONSTANTS
  Senders,      (* firmware tasks that send frames                         *)
  Payloads,     (* what they send: sequences of bytes                      *)
  MaxFrames,    (* bound on the frames of a session                        *)
  MaxSessions,  (* bound on the runs of QEMU                               *)
  Chunks,       (* sizes of the reads that do not drain the socket         *)
  None          (* nobody                                                  *)

SOF0 == 165
SOF1 == 90
HeaderSize == 8
Request == 1
Event == 3
ServiceCore == 1
CommandCrash == 2

Sessions == 0 .. MaxSessions        (* 0: before the first boot        *)

VARIABLES
  session,    (* the current or last run of QEMU                           *)
  running,    (* whether it runs                                           *)
  crashed,    (* the firmware is in its fault handler                      *)
  s_tx_mutex, (* the task that holds it                                    *)
  unsent,     (* what the holder has still to write                        *)
  wire,       (* bytes of each session's connection, not read yet          *)
  link,       (* each session's connection as the host sees it             *)
  rxBuffer,   (* bytes read, not yet cut into frames                       *)
  extracting, (* the host is in processIncomingData                        *)
  (* history *)
  framed,     (* frames whose sending began in this session                *)
  whole,      (* how many of them were written to the end                  *)
  cut,        (* the crash came in the middle of a frame                   *)
  received    (* frames extracted since the client was accepted            *)

firmware == <<crashed, s_tx_mutex, unsent, framed, whole, cut>>
host     == <<link, rxBuffer, extracting, received>>
vars     == <<session, running, wire, firmware, host>>

Init ==
  /\ session = 0
  /\ running = FALSE
  /\ crashed = FALSE
  /\ s_tx_mutex = None
  /\ unsent = <<>>
  /\ wire = [s \in Sessions |-> <<>>]
  /\ link = [s \in Sessions |-> "none"]
  /\ rxBuffer = <<>>
  /\ extracting = FALSE
  /\ framed = <<>>
  /\ whole = 0
  /\ cut = FALSE
  /\ received = <<>>

-----------------------------------------------------------------------------
(* The firmware.                                                           *)

Encode(f) ==
  <<SOF0, SOF1, f.type, f.service, f.command, f.id,
    Len(f.payload) % 256, Len(f.payload) \div 256>> \o f.payload

CrashFrame == [type |-> Event, service |-> ServiceCore,
               command |-> CommandCrash, id |-> 0,
               payload |-> [i \in 1 .. 24 |-> 17]]

(* QEMU opens its connection before the firmware runs.                     *)
Boot ==
  /\ ~running /\ session < MaxSessions
  /\ session' = session + 1
  /\ running' = TRUE
  /\ link' = [link EXCEPT ![session + 1] = "pending"]
  /\ crashed' = FALSE
  /\ s_tx_mutex' = None /\ unsent' = <<>>
  /\ framed' = <<>> /\ whole' = 0 /\ cut' = FALSE
  /\ UNCHANGED <<wire, rxBuffer, extracting, received>>

Executing == running /\ ~crashed

(* send_frame builds the frame and takes the channel's mutex.              *)
TakeMutex(t) ==
  /\ Executing
  /\ s_tx_mutex = None
  /\ Len(framed) < MaxFrames
  /\ s_tx_mutex' = t
  /\ \E p \in Payloads :
       LET f == [type |-> Request, service |-> ServiceCore, command |-> 3,
                 id |-> 1 + (Len(framed) % 255), payload |-> p] IN
       /\ framed' = Append(framed, f)
       /\ unsent' = Encode(f)
  /\ UNCHANGED <<session, running, crashed, wire, whole, cut, host>>

(* Bytes for a connection that is gone go nowhere.                         *)
Arrive(bytes) ==
  IF link[session] = "closed" THEN wire
  ELSE [wire EXCEPT ![session] = @ \o bytes]

(* ats_rpc_transport_write: the next byte goes to the UART's data register. *)
WriteByte(t) ==
  /\ Executing
  /\ s_tx_mutex = t /\ unsent # <<>>
  /\ wire' = Arrive(<<Head(unsent)>>)
  /\ unsent' = Tail(unsent)
  /\ whole' = IF Len(unsent) = 1 THEN whole + 1 ELSE whole
  /\ UNCHANGED <<session, running, crashed, s_tx_mutex, framed, cut, host>>

(* Mutant: the mutex is given back after each batch of bytes.              *)
GiveMutexEarly(t) ==
  /\ Executing
  /\ s_tx_mutex = t
  /\ s_tx_mutex' = None
  /\ UNCHANGED <<session, running, crashed, unsent, wire, framed, whole, cut,
                 host>>

GiveMutex(t) ==
  /\ Executing
  /\ s_tx_mutex = t /\ unsent = <<>>
  /\ s_tx_mutex' = None
  /\ UNCHANGED <<session, running, crashed, unsent, wire, framed, whole, cut,
                 host>>

(* A fault, in a task or an interrupt: FaultHandler writes its report past *)
(* the mutex, at whatever place the stream is, and never returns.          *)
Crash ==
  /\ Executing
  /\ crashed' = TRUE
  /\ wire' = Arrive(Encode(CrashFrame))
  /\ cut' = (unsent # <<>> /\ unsent # Encode(Last(framed)))
  /\ IF cut' THEN UNCHANGED <<framed, whole>>
     ELSE /\ framed' = Append(SubSeq(framed, 1, whole), CrashFrame)
          /\ whole' = whole + 1
  /\ UNCHANGED <<session, running, s_tx_mutex, unsent, host>>

(* QEMU ends; what it has written is still on its connection.              *)
Exit ==
  /\ running
  /\ running' = FALSE
  /\ UNCHANGED <<session, wire, firmware, host>>

-----------------------------------------------------------------------------
(* RpcSerialServer.                                                        *)

Client == {s \in Sessions : link[s] = "client"}
Waiting == {s \in Sessions : link[s] = "pending"}

(* onNewConnection: a channel has one client; a second one is turned away. *)
(* Connections are accepted in the order they were made.                   *)
Accept(s) ==
  /\ ~extracting
  /\ s \in Waiting /\ \A r \in Waiting : s <= r
  /\ IF Client # {}
     THEN /\ link' = [link EXCEPT ![s] = "closed"]
          /\ wire' = [wire EXCEPT ![s] = <<>>]
          /\ UNCHANGED <<rxBuffer, received>>
     ELSE /\ link' = [link EXCEPT ![s] = "client"]
          /\ rxBuffer' = <<>>
          /\ received' = <<>>
          /\ UNCHANGED wire
  /\ UNCHANGED <<session, running, firmware, extracting>>

(* tryExtractFrame: drop what precedes the first frame start; a last byte  *)
(* may be half of one.                                                     *)
Synchronised(buffer) ==
  LET starts == {i \in 1 .. Len(buffer) - 1 :
                   buffer[i] = SOF0 /\ buffer[i + 1] = SOF1} IN
  CASE starts # {}   -> SubSeq(buffer, Min(starts), Len(buffer))
    [] buffer = <<>> -> <<>>
    [] OTHER         -> <<Last(buffer)>>

FrameSize(buffer) == HeaderSize + buffer[7] + 256 * buffer[8]

HoldsFrame(buffer) ==
  Len(buffer) >= HeaderSize /\ Len(buffer) >= FrameSize(buffer)

Decode(buffer) ==
  [type |-> buffer[3], service |-> buffer[4], command |-> buffer[5],
   id |-> buffer[6],
   payload |-> SubSeq(buffer, HeaderSize + 1, FrameSize(buffer))]

(* onSocketReadyRead, with the bytes that have arrived by then, up to its  *)
(* call of processIncomingData.                                            *)
ReadyRead(s) ==
  /\ ~extracting
  /\ link[s] = "client"
  /\ \E n \in 1 .. Len(wire[s]) :
       /\ n \in Chunks \cup {Len(wire[s])}
       /\ rxBuffer' = rxBuffer \o SubSeq(wire[s], 1, n)
       /\ wire' = [wire EXCEPT ![s] = SubSeq(@, n + 1, Len(@))]
  /\ extracting' = TRUE
  /\ UNCHANGED <<session, running, firmware, link, received>>

(* Mutant: only one frame is taken off the buffer.                         *)
ExtractOne ==
  /\ extracting
  /\ LET b == Synchronised(rxBuffer) IN
       IF HoldsFrame(b)
       THEN /\ received' = Append(received, Decode(b))
            /\ rxBuffer' = SubSeq(b, FrameSize(b) + 1, Len(b))
       ELSE /\ rxBuffer' = b
            /\ UNCHANGED received
  /\ extracting' = FALSE
  /\ UNCHANGED <<session, running, wire, firmware, link>>

(* processIncomingData: one round of its loop, which ends when the buffer  *)
(* holds no frame.                                                         *)
ExtractFrame ==
  /\ extracting
  /\ LET b == Synchronised(rxBuffer) IN
       IF HoldsFrame(b)
       THEN /\ received' = Append(received, Decode(b))
            /\ rxBuffer' = SubSeq(b, FrameSize(b) + 1, Len(b))
            /\ UNCHANGED extracting
       ELSE /\ rxBuffer' = b /\ extracting' = FALSE
            /\ UNCHANGED received
  /\ UNCHANGED <<session, running, wire, firmware, link>>

(* onSocketDisconnected; what was not read or not a whole frame is lost.   *)
Disconnected(s) ==
  /\ ~extracting
  /\ link[s] = "client"
  /\ s < session \/ ~running
  /\ link' = [link EXCEPT ![s] = "closed"]
  /\ wire' = [wire EXCEPT ![s] = <<>>]
  /\ rxBuffer' = <<>>
  /\ UNCHANGED <<session, running, firmware, extracting, received>>

Next ==
  \/ Boot \/ Exit \/ Crash
  \/ \E t \in Senders : TakeMutex(t) \/ WriteByte(t) \/ GiveMutex(t)
  \/ \E s \in Sessions : Accept(s) \/ ReadyRead(s) \/ Disconnected(s)
  \/ ExtractFrame

Spec == Init /\ [][Next]_vars

-----------------------------------------------------------------------------
(* The host extracts the frames of a session as they were sent: none is    *)
(* split, merged, forged from payload bytes that look like a frame start,  *)
(* or mixed with what an earlier session left behind.  A crash in the      *)
(* middle of a frame spoils no frame sent before it.                       *)
FramesIntact ==
  link[session] = "client" =>
    /\ ~cut => Len(received) <= whole
    /\ \A i \in 1 .. Len(received) : i <= whole => received[i] = framed[i]

(* Nothing written to the end stays behind in rxBuffer: when the host has  *)
(* read all there is, it has extracted every whole frame, a crash report   *)
(* among them if no frame was half-written.                                *)
NothingLeftBehind ==
  link[session] = "client" /\ wire[session] = <<>> /\ ~extracting =>
    Len(received) >= whole
=============================================================================
