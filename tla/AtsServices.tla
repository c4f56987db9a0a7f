---------------------------- MODULE AtsServices ----------------------------
(***************************************************************************)
(* Four services of the firmware that share no state: the two directions   *)
(* of an RPC channel, the clock and the drawing of bitmaps.  A behaviour   *)
(* is one of the service that starts.                                      *)
(***************************************************************************)
EXTENDS AtsDownlink

CONSTANTS
  Services,   (* those a behaviour may be of                               *)
  Senders, MaxPerSession, MaxSessions, Chunks, None,
  ClockTasks, ClockWord, Second, Epoch, Timeout, SetTo, MaxNow,
  LcdWord, Block, Unit, Header, ATS_RPC_HEADER_SIZE, Sizes, Images

ASSUME UplinkAssumption ==
  /\ MaxPerSession \in Nat /\ MaxSessions \in Nat /\ Chunks \subseteq Nat \ {0}
  /\ None \notin Senders

ASSUME ClockAssumption ==
  /\ ClockWord \in Nat \ {0} /\ Second \in Nat \ {0}
  /\ Epoch \in Int /\ Timeout \in Int /\ MaxNow \in Int
  /\ SetTo \subseteq Int

(* A bitmap without pixels is not drawn; a block holds three or more.      *)
ASSUME LcdAssumption ==
  /\ LcdWord \in Nat \ {0} /\ Header \in Nat /\ Unit \in Nat \ {0}
  /\ ATS_RPC_HEADER_SIZE \in Nat
  /\ Block \in Nat /\ Block >= 3
  /\ Sizes \subseteq (Nat \ {0}) \X (Nat \ {0})
  /\ \A s \in Sizes : Images[s[1] * s[2]] \subseteq [1 .. s[1] * s[2] -> Nat]

VARIABLES
  service,
  session, running, crashed, s_tx_mutex, unsent, wire, link, rxBuffer,
  extracting, framed, whole, cut, received,
  now, s_timestamp, s_timestamp_tick, at, local,
  alone, began, served, ref,
  lcd, width, height, image, count, room, from, to, blocks, pixels

Uplink == INSTANCE AtsUplink WITH MaxFrames <- MaxPerSession

Clock == INSTANCE AtsClock WITH Tasks <- ClockTasks, Word <- ClockWord

Lcd == INSTANCE AtsLcd WITH Word <- LcdWord

channelVars == vars
uplinkVars == <<session, running, crashed, s_tx_mutex, unsent, wire, link,
                rxBuffer, extracting, framed, whole, cut, received>>
clockVars == <<now, s_timestamp, s_timestamp_tick, at, local,
               alone, began, served, ref>>
lcdVars == <<lcd, width, height, image, count, room, from, to, blocks, pixels>>
allVars == <<service, channelVars, uplinkVars, clockVars, lcdVars>>

AllInit ==
  /\ service \in Services
  /\ Init /\ Uplink!Init /\ Clock!Init /\ Lcd!Init

Channel ==
  /\ service = "channel" /\ Next
  /\ UNCHANGED <<service, uplinkVars, clockVars, lcdVars>>

SendFrames ==
  /\ service = "uplink" /\ Uplink!Next
  /\ UNCHANGED <<service, channelVars, clockVars, lcdVars>>

KeepTime ==
  /\ service = "clock" /\ Clock!Next
  /\ UNCHANGED <<service, channelVars, uplinkVars, lcdVars>>

DrawBitmaps ==
  /\ service = "lcd" /\ Lcd!Next
  /\ UNCHANGED <<service, channelVars, uplinkVars, clockVars>>

AllNext == Channel \/ SendFrames \/ KeepTime \/ DrawBitmaps

AllSpec == AllInit /\ [][AllNext]_allVars /\ WF_vars(RpcTask)

(* The host extracts the frames of a session as they were sent, and leaves *)
(* no whole one behind.                                                    *)
FramesIntact == Uplink!FramesIntact
NothingLeftBehind == Uplink!NothingLeftBehind

(* Every reading of the clock by a call that crosses no other is right     *)
(* within a second and the time the last synchronisation took, until the   *)
(* ticks wrap: no task ever meets a time of the future.                    *)
ClockIsTrue == [][Clock!ReadsRight]_allVars

(* The host shows what was drawn or nothing, and every bitmap whose frame  *)
(* 16 bits can measure is encoded and framed within its memory, and shown  *)
(* unless there is no memory for it.                                       *)
ImageArrives == Lcd!ImageArrives
=============================================================================
