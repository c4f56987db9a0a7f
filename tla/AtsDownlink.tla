---------------------------- MODULE AtsDownlink ----------------------------
(***************************************************************************)
(* One RPC channel from the host to the firmware: RpcSerialServer writes   *)
(* whole frames to the connection, QEMU's UART hands over one byte at a    *)
(* time while its receiver is enabled, and the channel's rpc_task puts the *)
(* frames together again in recv_frame (ats_rpc.c).  The same UART         *)
(* transmits: every transmission and every byte read first enable their    *)
(* half of the UART by reading the control register and writing it back.   *)
(***************************************************************************)
EXTENDS Integers, Sequences, FiniteSets

CONSTANTS
  Payloads,   (* payloads the host sends: sequences of bytes               *)
  MaxFrames   (* bound on the frames                                       *)

(* The header has 16 bits for the length of the payload and 8 for the id,   *)
(* which here tells the frames apart.                                      *)
ASSUME ConstantsAssumption ==
  /\ \A p \in Payloads : p \in Seq(0 .. 255) /\ Len(p) < 2 ^ 16
  /\ MaxFrames \in 0 .. 255

SOF0 == 165
SOF1 == 90
HeaderSize == 8
Response == 2

VARIABLES
  ctrl,        (* the halves of the UART that are enabled                  *)
  tx, txCtrl,  (* a transmission: where it is, the control word it read    *)
  rx, rxCtrl,  (* the same of the rpc_task                                 *)
  stream,      (* bytes on the connection, not read yet                    *)
  header,      (* what recv_frame has of the current frame                 *)
  payload,
  (* history *)
  sent,        (* frames the host has written                              *)
  dispatched,  (* frames handed to ats_rpc_dispatch                        *)
  dropped      (* frames there was no memory for                           *)

uart   == <<ctrl, tx, txCtrl>>
reader == <<rx, rxCtrl, header, payload, dispatched, dropped>>
vars   == <<uart, reader, stream, sent>>

Init ==
  /\ ctrl = {}
  /\ tx = "idle" /\ txCtrl = {}
  /\ rx = "init" /\ rxCtrl = {}
  /\ stream = <<>>
  /\ header = <<>> /\ payload = <<>>
  /\ sent = <<>> /\ dispatched = <<>> /\ dropped = <<>>

-----------------------------------------------------------------------------
Encode(f) ==
  <<SOF0, SOF1, f.type, f.service, f.command, f.id,
    Len(f.payload) % 256, Len(f.payload) \div 256>> \o f.payload

(* writeFrame.                                                             *)
WriteFrame ==
  /\ Len(sent) < MaxFrames
  /\ \E p \in Payloads :
       LET f == [type |-> Response, service |-> 1, command |-> 3,
                 id |-> Len(sent) + 1, payload |-> p] IN
       /\ sent' = Append(sent, f)
       /\ stream' = stream \o Encode(f)
  /\ UNCHANGED <<uart, reader>>

-----------------------------------------------------------------------------
(* ats_rpc_transport_write holds the tx mutex, so there is one             *)
(* transmission at a time; what it sends does not matter here.             *)
TxReadCtrl ==
  /\ tx = "idle"
  /\ tx' = "enable" /\ txCtrl' = ctrl
  /\ UNCHANGED <<ctrl, reader, stream, sent>>

(* Mutant: the receiver's bit is not kept.                                 *)
TxWriteOnly ==
  /\ tx = "enable"
  /\ tx' = "idle" /\ txCtrl' = {}
  /\ ctrl' = {"TX"}
  /\ UNCHANGED <<reader, stream, sent>>

TxWriteCtrl ==
  /\ tx = "enable"
  /\ tx' = "idle" /\ txCtrl' = {}
  /\ ctrl' = txCtrl \cup {"TX"}
  /\ UNCHANGED <<reader, stream, sent>>

-----------------------------------------------------------------------------
(* rpc_task: recv_frame reads each byte by ats_rpc_transport_read, which   *)
(* enables the UART once and then polls it without end.                    *)
RxReadCtrl ==
  /\ rx = "init"
  /\ rx' = "enable" /\ rxCtrl' = ctrl
  /\ UNCHANGED <<uart, header, payload, dispatched, dropped, stream, sent>>

RxWriteCtrl ==
  /\ rx = "enable"
  /\ rx' = "poll" /\ rxCtrl' = {}
  /\ ctrl' = rxCtrl \cup {"TX", "RX"}
  /\ UNCHANGED <<tx, txCtrl, header, payload, dispatched, dropped,
                 stream, sent>>

PayloadLength(h) == h[7] + 256 * h[8]

Frame(h, p) == [type |-> h[3], service |-> h[4], command |-> h[5],
                id |-> h[6], payload |-> p]

(* A byte has come; the next one is read from the start.                   *)
GetByte(b) ==
  /\ rx = "poll"
  /\ "RX" \in ctrl
  /\ stream # <<>> /\ b = Head(stream)
  /\ stream' = Tail(stream)
  /\ rx' = "init"
  /\ UNCHANGED <<uart, rxCtrl, sent>>

(* Looking for SOF0, SOF1: a byte that does not fit is thrown away, and    *)
(* with the second one what went before.                                   *)
Synchronise(b) ==
  /\ Len(header) < 2
  /\ GetByte(b)
  /\ header' = IF b = (IF header = <<>> THEN SOF0 ELSE SOF1)
               THEN Append(header, b) ELSE <<>>
  /\ UNCHANGED <<payload, dispatched, dropped>>

(* The rest of the header; a frame without payload is complete with it.    *)
ReadHeader(b) ==
  /\ Len(header) \in 2 .. HeaderSize - 1
  /\ GetByte(b)
  /\ LET h == Append(header, b) IN
       IF Len(h) = HeaderSize /\ PayloadLength(h) = 0
       THEN /\ header' = <<>>
            /\ dispatched' = Append(dispatched, Frame(h, <<>>))
       ELSE /\ header' = h
            /\ UNCHANGED dispatched
  /\ UNCHANGED <<payload, dropped>>

AwaitsPayload == Len(header) = HeaderSize

(* ats_malloc fails: the frame is given up with its payload still to come. *)
NoMemory ==
  /\ AwaitsPayload /\ payload = <<>> /\ rx = "init"
  /\ header' = <<>>
  /\ dropped' = Append(dropped, header[6])
  /\ UNCHANGED <<uart, rx, rxCtrl, payload, dispatched, stream, sent>>

(* Mutant: the last byte of the payload is not waited for.                 *)
ReadPayloadShort(b) ==
  /\ AwaitsPayload
  /\ GetByte(b)
  /\ IF Len(payload) + 2 >= PayloadLength(header)
     THEN /\ header' = <<>> /\ payload' = <<>>
          /\ dispatched' = Append(dispatched, Frame(header, Append(payload, b)))
     ELSE /\ payload' = Append(payload, b)
          /\ UNCHANGED <<header, dispatched>>
  /\ UNCHANGED dropped

ReadPayload(b) ==
  /\ AwaitsPayload
  /\ GetByte(b)
  /\ IF Len(payload) + 1 = PayloadLength(header)
     THEN /\ header' = <<>> /\ payload' = <<>>
          /\ dispatched' = Append(dispatched, Frame(header, Append(payload, b)))
     ELSE /\ payload' = Append(payload, b)
          /\ UNCHANGED <<header, dispatched>>
  /\ UNCHANGED dropped

RpcTask ==
  \/ RxReadCtrl \/ RxWriteCtrl \/ NoMemory
  \/ \E b \in {Head(s) : s \in {stream} \ {<<>>}} :
       Synchronise(b) \/ ReadHeader(b) \/ ReadPayload(b)

Next == WriteFrame \/ TxReadCtrl \/ TxWriteCtrl \/ RpcTask

(* The rpc_task is scheduled: it polls with a delay of one tick.           *)
Spec == Init /\ [][Next]_vars /\ WF_vars(RpcTask)

-----------------------------------------------------------------------------
Mute(p) == \A i \in 1 .. Len(p) : p[i] # SOF0

Lost(m) == \E i \in 1 .. Len(dropped) : dropped[i] = sent[m].id

Kept(m) == {l \in 1 .. m : ~Lost(l)}

(* The frames dispatched are those the host sent, in order, less those     *)
(* there was no memory for: a failed ats_malloc costs one frame, and only  *)
(* if its payload, which is then read as if frames stood in it, holds no   *)
(* SOF0 byte.  As long as memory lasts nothing is lost or forged.          *)
FramesComeThrough ==
  (\A m \in 1 .. Len(sent) : Lost(m) => Mute(sent[m].payload)) =>
    \A i \in 1 .. Len(dispatched) : \E m \in 1 .. Len(sent) :
      ~Lost(m) /\ dispatched[i] = sent[m] /\ i = Cardinality(Kept(m))

(* The receiver is on and no transmission is about to switch it off: one   *)
(* that read the control register before the rpc_task first enabled the    *)
(* receiver would write that old value back.                               *)
Listening == /\ "RX" \in ctrl
             /\ tx = "enable" => "RX" \in txCtrl

(* Transmissions and reads write one control register without a lock, yet  *)
(* a channel that listens goes on listening: of the two updates that cross *)
(* only those of the start, before the first byte is read, can lose one.   *)
StaysListening == [][Listening => Listening']_vars

(* A channel that listens reads all that is sent to it, although it polls  *)
(* in ats_rpc_transport_read without enabling the receiver again.          *)
EverythingIsRead == Listening /\ stream # <<>> ~> stream = <<>>
=============================================================================
