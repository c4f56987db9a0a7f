------------------------- MODULE AtsServices_proofs -------------------------
(***************************************************************************)
(* Proofs about AtsServices.  Of a channel, for every set of payloads: the *)
(* receiver stays on, what rpc_task puts together are the frames that were *)
(* written, and so are those the host extracts, over crashes and new       *)
(* sessions, none of them left behind.  Of the clock, for every word, tick *)
(* rate and number of tasks: a reading that crosses no other call is       *)
(* right.  Of bitmaps, for every size and picture: the host shows what was *)
(* drawn, and one whose sizes fit is encoded within its buffer.            *)
(***************************************************************************)
EXTENDS AtsServices, SequenceFacts, FiniteSetTheorems, WellFoundedInduction,
        TLAPS

(* A step changes the control register only by adding to a value that was  *)
(* read while the receiver was on.                                         *)
LEMMA ListeningStep == Listening /\ [Next]_vars => Listening'
<1> SUFFICES ASSUME Listening, [Next]_vars PROVE Listening'
  OBVIOUS
<1> USE DEF Listening
<1>1. CASE WriteFrame
  BY <1>1 DEF WriteFrame, uart
<1>2. CASE TxReadCtrl
  BY <1>2 DEF TxReadCtrl
<1>3. CASE TxWriteCtrl
  BY <1>3 DEF TxWriteCtrl
<1>4. CASE RxReadCtrl \/ NoMemory
  BY <1>4 DEF RxReadCtrl, NoMemory, uart
<1>5. CASE RxWriteCtrl
  BY <1>5 DEF RxWriteCtrl
<1>6. ASSUME NEW b, Synchronise(b) \/ ReadHeader(b) \/ ReadPayload(b)
      PROVE  Listening'
  BY <1>6 DEF Synchronise, ReadHeader, ReadPayload, GetByte, uart
<1>7. CASE UNCHANGED vars
  BY <1>7 DEF vars, uart
<1> QED
  BY <1>1, <1>2, <1>3, <1>4, <1>5, <1>6, <1>7 DEF Next, RpcTask

(* A channel that listens goes on listening, however transmissions and     *)
(* reads interleave on the control register.                               *)
THEOREM ListeningIsForGood == Spec => StaysListening
<1>1. [Next]_vars => [Listening => Listening']_vars
  BY ListeningStep
<1> QED
  BY <1>1, PTL DEF Spec, StaysListening

-----------------------------------------------------------------------------
(* What is on the connection.                                              *)

Size(m) == HeaderSize + Len(sent[m].payload)

(* The host numbers what it sends.                                         *)
StreamInv ==
  /\ IsSeq(sent) /\ IsSeq(stream) /\ IsSeq(dispatched) /\ IsSeq(dropped)
  /\ IsSeq(header) /\ IsSeq(payload)
  /\ \A m \in 1 .. Len(sent) :
       /\ sent[m].payload \in Seq(0 .. 255)
       /\ sent[m] = [type |-> Response, service |-> 1, command |-> 3,
                     id |-> m, payload |-> sent[m].payload]

(* Frame m begins at position b[m] of the stream, of which 1 is the next   *)
(* to be read.                                                             *)
Laid(b) ==
  /\ \A m \in 1 .. Len(sent) + 1 : b[m] \in Int /\ b[m] <= Len(stream) + 1
  /\ \A m \in 1 .. Len(sent) : b[m + 1] = b[m] + Size(m)
  /\ b[Len(sent) + 1] = Len(stream) + 1
  /\ \A m \in 1 .. Len(sent) : \A i \in 1 .. Size(m) :
       b[m] + i > 1 => stream[b[m] + i - 1] = Encode(sent[m])[i]

DropsTo(k) == \A i \in 1 .. Len(dropped) : dropped[i] \in 1 .. k

(* c bytes of frame k have been read, as far as the frame is not lost.     *)
ReadsHeader(k, c) ==
  /\ c \in 0 .. HeaderSize - 1 /\ Len(header) = c /\ payload = <<>>
  /\ \A i \in 1 .. c : header[i] = Encode(sent[k])[i]
  /\ DropsTo(k - 1)

ReadsPayload(k, c) ==
  /\ c >= HeaderSize /\ Len(header) = HeaderSize
  /\ \A i \in 1 .. HeaderSize : header[i] = Encode(sent[k])[i]
  /\ Len(payload) = c - HeaderSize
  /\ \A i \in 1 .. Len(payload) : payload[i] = sent[k].payload[i]
  /\ DropsTo(k - 1)

Skips(k, c) ==
  /\ c >= HeaderSize /\ header = <<>> /\ payload = <<>>
  /\ Lost(k) /\ DropsTo(k)

(* The frames before it were dispatched, or lost.                          *)
Counts(k) ==
  /\ Len(dispatched) = Cardinality(Kept(k - 1))
  /\ \A i \in 1 .. Len(dispatched) : \E m \in 1 .. k - 1 :
       ~Lost(m) /\ dispatched[i] = sent[m] /\ i = Cardinality(Kept(m))

Reading(b, k, c) ==
  /\ Laid(b) /\ b[k] = 1 - c
  /\ k \in 1 .. Len(sent) + 1 /\ c \in Nat
  /\ c # 0 => k <= Len(sent) /\ c < Size(k)
  /\ ReadsHeader(k, c) \/ ReadsPayload(k, c) \/ Skips(k, c)
  /\ Counts(k)

AllMute == \A m \in 1 .. Len(sent) : Lost(m) => Mute(sent[m].payload)

ReadInv == StreamInv /\ (AllMute => \E b, k, c : Reading(b, k, c))

(* Eight bytes are a sequence.                                             *)
LEMMA OctetIs ==
  ASSUME NEW S, NEW b1 \in S, NEW b2 \in S, NEW b3 \in S, NEW b4 \in S,
         NEW b5 \in S, NEW b6 \in S, NEW b7 \in S, NEW b8 \in S
  PROVE  <<b1, b2, b3, b4, b5, b6, b7, b8>> \in Seq(S)
OBVIOUS

(* The bytes of a frame.                                                   *)
Encodes(e, f) ==
  /\ IsSeq(e) /\ Len(f.payload) \in Nat
  /\ Len(e) = HeaderSize + Len(f.payload)
  /\ e[1] = SOF0 /\ e[2] = SOF1 /\ e[3] = f.type /\ e[4] = f.service
  /\ e[5] = f.command /\ e[6] = f.id
  /\ e[7] = Len(f.payload) % 256 /\ e[8] = Len(f.payload) \div 256
  /\ \A i \in 1 .. Len(f.payload) : e[HeaderSize + i] = f.payload[i]

(* Encode returns them.                                                    *)
LEMMA EncodeIs ==
  ASSUME NEW f, f.payload \in Seq(0 .. 255)
  PROVE  Encodes(Encode(f), f)
<1>1. PICK h : h = <<SOF0, SOF1, f.type, f.service, f.command, f.id,
                     Len(f.payload) % 256, Len(f.payload) \div 256>>
  OBVIOUS
<1>2. PICK p : p = f.payload
  OBVIOUS
<1>3. Encode(f) = h \o p
  BY <1>1, <1>2 DEF Encode
<1>4. IsSeq(p) /\ Len(p) \in Nat
  BY <1>2 DEF IsSeq
<1>5. /\ Len(h) = 8 /\ h[1] = SOF0 /\ h[2] = SOF1 /\ h[3] = f.type
      /\ h[4] = f.service /\ h[5] = f.command /\ h[6] = f.id
      /\ h[7] = Len(f.payload) % 256 /\ h[8] = Len(f.payload) \div 256
  BY <1>1
<1>6. IsSeq(h)
  <2>1. PICK x, y : x = Len(f.payload) % 256 /\ y = Len(f.payload) \div 256
    OBVIOUS
  <2> DEFINE S == {SOF0, SOF1, f.type, f.service, f.command, f.id, x, y}
  <2>2. /\ SOF0 \in S /\ SOF1 \in S /\ f.type \in S /\ f.service \in S
        /\ f.command \in S /\ f.id \in S /\ x \in S /\ y \in S
    OBVIOUS
  <2> HIDE DEF S
  <2>3. <<SOF0, SOF1, f.type, f.service, f.command, f.id, x, y>> \in Seq(S)
    BY <2>2, OctetIs
  <2> QED
    BY <1>1, <2>1, <2>3 DEF IsSeq
<1>7. /\ IsSeq(h \o p) /\ Len(h \o p) = Len(h) + Len(p)
      /\ \A i \in 1 .. Len(h) : (h \o p)[i] = h[i]
      /\ \A i \in 1 .. Len(p) : (h \o p)[Len(h) + i] = p[i]
  BY <1>4, <1>6, JoinOfSeqs DEF Joins
<1>8. /\ IsSeq(h \o p) /\ Len(h \o p) = 8 + Len(p)
      /\ \A i \in {1, 2, 3, 4, 5, 6, 7, 8} : (h \o p)[i] = h[i]
      /\ \A i \in 1 .. Len(p) : (h \o p)[8 + i] = p[i]
  BY <1>5, <1>7
<1>9. PICK u : u = h \o p
  OBVIOUS
<1>10. /\ IsSeq(u) /\ Len(u) = 8 + Len(p)
       /\ u[1] = h[1] /\ u[2] = h[2] /\ u[3] = h[3] /\ u[4] = h[4]
       /\ u[5] = h[5] /\ u[6] = h[6] /\ u[7] = h[7] /\ u[8] = h[8]
       /\ \A i \in 1 .. Len(p) : u[8 + i] = p[i]
  BY <1>8, <1>9
<1>11. Encodes(u, f)
  <2>1. /\ IsSeq(u) /\ Len(f.payload) \in Nat
        /\ Len(u) = HeaderSize + Len(f.payload)
        /\ \A i \in 1 .. Len(f.payload) : u[HeaderSize + i] = f.payload[i]
    BY <1>2, <1>4, <1>10 DEF HeaderSize
  <2>2. /\ u[1] = SOF0 /\ u[2] = SOF1 /\ u[3] = f.type /\ u[4] = f.service
        /\ u[5] = f.command /\ u[6] = f.id
        /\ u[7] = Len(f.payload) % 256 /\ u[8] = Len(f.payload) \div 256
    BY <1>5, <1>10, Zenon
  <2> QED
    BY <2>1, <2>2, Zenon DEF Encodes
<1> QED
  BY <1>3, <1>9, <1>11, Zenon

(* Frames of sizes z are laid out up to position l.                        *)
Spans(b, z, n, l) ==
  /\ \A m \in 1 .. n + 1 : b[m] \in Int /\ b[m] <= l + 1
  /\ \A m \in 1 .. n : b[m + 1] = b[m] + z[m]
  /\ b[n + 1] = l + 1

(* All are moved by one.                                                   *)
Moved(d, b, z, n, l) ==
  /\ Spans(d, z, n, l - 1)
  /\ \A m \in 1 .. n + 1 : d[m] = b[m] - 1
  /\ \A m \in 1 .. n : \A i \in 1 .. z[m] :
       /\ d[m] + i - 1 \in Int /\ d[m] + i - 1 <= l - 1
       /\ d[m] + i - 1 + 1 = b[m] + i - 1
       /\ d[m] + i > 1 => b[m] + i > 1

(* Moving them by one does that.                                           *)
LEMMA SpansMove ==
  ASSUME NEW n \in Nat, NEW l \in Int, NEW z, \A m \in 1 .. n : z[m] \in Nat,
         NEW b, Spans(b, z, n, l), NEW d, d = [m \in 1 .. n + 1 |-> b[m] - 1]
  PROVE  Moved(d, b, z, n, l)
<1>1. \A m \in 1 .. n : m \in 1 .. n + 1 /\ m + 1 \in 1 .. n + 1
  OBVIOUS
<1>2. \A m \in 1 .. n + 1 : d[m] = b[m] - 1 /\ b[m] \in Int /\ b[m] <= l + 1
  BY DEF Spans
<1>3. PICK k : k = l - 1
  OBVIOUS
<1>4. k \in Int /\ l = k + 1
  BY <1>3
<1>5. ASSUME NEW m \in 1 .. n + 1
      PROVE  d[m] \in Int /\ d[m] <= k + 1 /\ b[m] = d[m] + 1
  <2>1. PICK x : x = b[m]
    OBVIOUS
  <2>2. x \in Int /\ x <= k + 2 /\ d[m] = x - 1
    BY <1>2, <1>4, <2>1
  <2> QED
    BY <1>4, <2>1, <2>2
<1>6. ASSUME NEW m \in 1 .. n PROVE d[m + 1] = d[m] + z[m]
  <2>1. PICK x, y : x = b[m] /\ y = z[m]
    OBVIOUS
  <2>2. x \in Int /\ y \in Nat /\ d[m] = x - 1 /\ d[m + 1] = b[m + 1] - 1
    BY <1>1, <1>2, <2>1
  <2>3. b[m + 1] = x + y
    BY <2>1 DEF Spans
  <2> QED
    BY <2>1, <2>2, <2>3
<1>7. d[n + 1] = k + 1
  <2>1. n + 1 \in 1 .. n + 1 /\ b[n + 1] = l + 1
    BY DEF Spans
  <2> QED
    BY <1>2, <1>4, <2>1
<1>8. Spans(d, z, n, l - 1)
  BY <1>3, <1>5, <1>6, <1>7 DEF Spans
<1>9. ASSUME NEW m \in 1 .. n, NEW i \in 1 .. z[m]
      PROVE  /\ d[m] + i - 1 \in Int /\ d[m] + i - 1 <= l - 1
             /\ d[m] + i - 1 + 1 = b[m] + i - 1
             /\ d[m] + i > 1 => b[m] + i > 1
  <2>1. PICK x, y, w : x = d[m] /\ y = z[m] /\ w = b[m]
    OBVIOUS
  <2>2. x \in Int /\ w = x + 1
    BY <1>1, <1>5, <2>1
  <2>3. y \in Nat /\ i \in Int /\ i <= y
    BY <2>1
  <2>4. d[m + 1] = x + y /\ d[m + 1] <= k + 1
    BY <1>1, <1>5, <1>6, <2>1
  <2>5. x + y <= k + 1
    BY <2>4
  <2>6. x + i - 1 <= l - 1
    BY <1>4, <2>2, <2>3, <2>5
  <2>7. /\ x + i - 1 \in Int /\ x + i - 1 + 1 = w + i - 1
        /\ x + i > 1 => w + i > 1
    BY <2>2, <2>3
  <2> QED
    BY <2>1, <2>6, <2>7
<1>10. \A m \in 1 .. n + 1 : d[m] = b[m] - 1
  BY <1>2
<1> QED
  BY <1>8, <1>9, <1>10 DEF Moved

(* Reading a byte shortens the stream.                                     *)
LEMMA Advance ==
  ASSUME StreamInv, NEW b, Laid(b), NEW k \in 1 .. Len(sent), NEW c \in Nat,
         b[k] = 1 - c, c < Size(k), stream # <<>>, stream' = Tail(stream),
         sent' = sent
  PROVE  /\ Head(stream) = Encode(sent[k])[c + 1]
         /\ \E d : Laid(d)' /\ d[k] = 1 - (c + 1) /\ d[k + 1] = d[k] + Size(k)
<1>1. PICK n, l : n = Len(sent) /\ l = Len(stream)
  OBVIOUS
<1>2. PICK z : z = [m \in 1 .. n |-> Size(m)]
  OBVIOUS
<1>3. /\ l \in Nat \ {0} /\ Len(stream') = l - 1 /\ Head(stream) = stream[1]
      /\ \A i \in 1 .. l - 1 : stream'[i] = stream[i + 1]
  BY <1>1, TailOfSeq DEF StreamInv
<1>4. n \in Nat /\ k \in 1 .. n /\ l \in Int /\ k \in 1 .. n + 1
      /\ k + 1 \in 1 .. n + 1
  BY <1>1, <1>3 DEF StreamInv, IsSeq
<1>5. \A m \in 1 .. n : z[m] = Size(m) /\ z[m] \in Nat
  BY <1>1, <1>2 DEF StreamInv, Size, HeaderSize
<1>6. Head(stream) = Encode(sent[k])[c + 1]
  <2>1. PICK x : x = Size(k)
    OBVIOUS
  <2>2. x \in Nat /\ c < x
    BY <1>4, <1>5, <2>1
  <2>3. c + 1 \in 1 .. x /\ b[k] + (c + 1) > 1 /\ b[k] + (c + 1) - 1 = 1
    BY <2>2
  <2> QED
    BY <1>3, <2>1, <2>3 DEF Laid
<1>7. PICK d : d = [m \in 1 .. n + 1 |-> b[m] - 1]
  OBVIOUS
<1>8. Spans(b, z, n, l)
  BY <1>1, <1>5 DEF Laid, Spans
<1>9. /\ Spans(d, z, n, l - 1)
      /\ \A m \in 1 .. n + 1 : d[m] = b[m] - 1
      /\ \A m \in 1 .. n : \A i \in 1 .. z[m] :
           /\ d[m] + i - 1 \in Int /\ d[m] + i - 1 <= l - 1
           /\ d[m] + i - 1 + 1 = b[m] + i - 1
           /\ d[m] + i > 1 => b[m] + i > 1
  <2>1. \A m \in 1 .. n : z[m] \in Nat
    BY <1>5
  <2>2. Moved(d, b, z, n, l)
    BY <1>4, <1>7, <1>8, <2>1, SpansMove, Zenon
  <2> QED
    BY <2>2 DEF Moved
<1>10. ASSUME NEW m \in 1 .. n, NEW i \in 1 .. z[m], d[m] + i > 1
       PROVE  stream'[d[m] + i - 1] = Encode(sent[m])[i]
  <2>1. b[m] + i > 1
    BY <1>9, <1>10
  <2>2. stream[b[m] + i - 1] = Encode(sent[m])[i]
    BY <1>1, <1>5, <2>1 DEF Laid
  <2>3. PICK p : p = d[m] + i - 1
    OBVIOUS
  <2>4. p \in 1 .. l - 1
    <3>1. PICK x : x = d[m]
      OBVIOUS
    <3>2. m \in 1 .. n + 1
      BY <1>4
    <3>3. x \in Int
      BY <1>9, <3>1, <3>2 DEF Spans
    <3>4. i \in Int
      BY <1>5
    <3>5. x + i - 1 <= l - 1
      BY <1>9, <3>1
    <3>6. x + i > 1 /\ p = x + i - 1
      BY <1>10, <2>3, <3>1
    <3> QED
      BY <1>4, <3>3, <3>4, <3>5, <3>6
  <2>5. stream'[p] = stream[p + 1] /\ p + 1 = b[m] + i - 1
    BY <1>3, <1>9, <2>3, <2>4
  <2> QED
    BY <2>2, <2>3, <2>5
<1>11. Len(sent') = n /\ \A m : Size(m)' = Size(m)
  BY <1>1 DEF Size
<1>12. Laid(d)'
  <2>1. \A m \in 1 .. n + 1 : d[m] \in Int /\ d[m] <= Len(stream') + 1
    BY <1>3, <1>9 DEF Spans
  <2>2. \A m \in 1 .. n : d[m + 1] = d[m] + Size(m)'
    BY <1>5, <1>9, <1>11 DEF Spans
  <2>3. d[n + 1] = Len(stream') + 1
    BY <1>3, <1>9 DEF Spans
  <2>4. \A m \in 1 .. n : \A i \in 1 .. Size(m)' :
          d[m] + i > 1 => stream'[d[m] + i - 1] = Encode(sent'[m])[i]
    BY <1>5, <1>10, <1>11
  <2> QED
    BY <1>11, <2>1, <2>2, <2>3, <2>4 DEF Laid
<1>13. d[k] = 1 - (c + 1) /\ d[k + 1] = d[k] + Size(k)
  <2>1. d[k] = b[k] - 1
    BY <1>4, <1>9
  <2>2. d[k + 1] = d[k] + z[k]
    BY <1>4, <1>9 DEF Spans
  <2>3. b[k] - 1 = 1 - (c + 1)
    OBVIOUS
  <2> QED
    BY <1>4, <1>5, <2>1, <2>2, <2>3
<1> QED
  BY <1>6, <1>12, <1>13

(* With no frame lost or given up, nothing but sent matters.               *)
LEMMA KeepsMute ==
  ASSUME IsSeq(sent), IsSeq(dropped), Len(sent') \in Nat,
         Len(dropped') \in Nat,
         Len(sent) <= Len(sent'), Len(dropped) <= Len(dropped'),
         \A m \in 1 .. Len(sent) : sent'[m] = sent[m],
         \A i \in 1 .. Len(dropped) : dropped'[i] = dropped[i], AllMute'
  PROVE  AllMute
<1>1. Len(sent) \in Nat /\ Len(dropped) \in Nat
  BY DEF IsSeq
<1>2. SUFFICES ASSUME NEW m \in 1 .. Len(sent), Lost(m)
               PROVE  Mute(sent[m].payload)
  BY DEF AllMute
<1>3. m \in 1 .. Len(sent') /\ sent'[m] = sent[m]
  BY <1>1
<1>4. PICK i \in 1 .. Len(dropped) : dropped[i] = sent[m].id
  BY <1>2 DEF Lost
<1>5. i \in 1 .. Len(dropped') /\ dropped'[i] = sent'[m].id
  BY <1>1, <1>3, <1>4
<1>6. Lost(m)'
  BY <1>5 DEF Lost
<1>7. Mute(sent'[m].payload)
  BY <1>3, <1>6 DEF AllMute
<1> QED
  BY <1>3, <1>7

(* The bytes of the frames the host has sent.                              *)
LEMMA SentIs ==
  ASSUME StreamInv, NEW k \in 1 .. Len(sent)
  PROVE  /\ sent[k].id = k /\ IsSeq(sent[k].payload)
         /\ Len(sent[k].payload) \in Nat
         /\ Size(k) = 8 + Len(sent[k].payload) /\ Size(k) \in Nat
         /\ Encode(sent[k])[1] = SOF0 /\ Encode(sent[k])[2] = SOF1
         /\ Encode(sent[k])[3] = sent[k].type
         /\ Encode(sent[k])[4] = sent[k].service
         /\ Encode(sent[k])[5] = sent[k].command
         /\ Encode(sent[k])[6] = k
         /\ Encode(sent[k])[7] + 256 * Encode(sent[k])[8]
              = Len(sent[k].payload)
         /\ \A i \in 1 .. Len(sent[k].payload) :
              Encode(sent[k])[8 + i] = sent[k].payload[i]
<1>1. /\ sent[k].payload \in Seq(0 .. 255)
      /\ sent[k] = [type |-> Response, service |-> 1, command |-> 3,
                     id |-> k, payload |-> sent[k].payload]
  BY DEF StreamInv
<1>2. PICK f, p : f = sent[k] /\ p = f.payload
  OBVIOUS
<1>3. f = [type |-> Response, service |-> 1, command |-> 3, id |-> k,
           payload |-> p]
  BY <1>1, <1>2
<1>4. f.id = k
  BY <1>3
<1>5. f.payload \in Seq(0 .. 255) /\ IsSeq(p)
  BY <1>1, <1>2 DEF IsSeq
<1>6. PICK l : l = Len(p)
  OBVIOUS
<1>7. l \in Nat /\ (l % 256) + 256 * (l \div 256) = l
  <2>1. l \in Nat
    BY <1>2, <1>5, <1>6
  <2> QED
    BY <2>1
<1>8. /\ Encode(f)[1] = SOF0 /\ Encode(f)[2] = SOF1
      /\ Encode(f)[3] = f.type /\ Encode(f)[4] = f.service
      /\ Encode(f)[5] = f.command /\ Encode(f)[6] = f.id
      /\ Encode(f)[7] = l % 256 /\ Encode(f)[8] = l \div 256
      /\ \A i \in 1 .. l : Encode(f)[8 + i] = p[i]
  <2>1. Encodes(Encode(f), f)
    BY <1>5, EncodeIs
  <2>2. HeaderSize = 8 /\ l = Len(f.payload) /\ p = f.payload
    BY <1>2, <1>6 DEF HeaderSize
  <2> QED
    BY <2>1, <2>2 DEF Encodes
<1>9. Encode(f)[7] + 256 * Encode(f)[8] = l
  BY <1>7, <1>8
<1>10. Size(k) = 8 + l /\ Size(k) \in Nat
  BY <1>2, <1>6, <1>7 DEF Size, HeaderSize
<1>11. IsSeq(f.payload) /\ Len(f.payload) = l
  BY <1>2, <1>5, <1>6
<1>12. Size(k) = 8 + Len(f.payload) /\ Len(f.payload) \in Nat
  BY <1>7, <1>10, <1>11
<1>13. \A i \in 1 .. Len(f.payload) : Encode(f)[8 + i] = f.payload[i]
  BY <1>2, <1>6, <1>8
<1> HIDE <1>3, <1>5
<1> QED
  BY <1>2, <1>4, <1>8, <1>9, <1>10, <1>11, <1>12, <1>13

(* All bytes of a frame.                                                   *)
Whole(h, p, k) ==
  /\ \A i \in 1 .. 8 : h[i] = Encode(sent[k])[i]
  /\ IsSeq(p) /\ Len(p) = Len(sent[k].payload)
  /\ \A i \in 1 .. Len(p) : p[i] = sent[k].payload[i]

(* They make up the frame that was sent.                                   *)
LEMMA FrameIsSent ==
  ASSUME StreamInv, NEW k \in 1 .. Len(sent), NEW h, NEW p, Whole(h, p, k)
  PROVE  PayloadLength(h) = Len(sent[k].payload) /\ Frame(h, p) = sent[k]
<1>1. PICK q, e : q = sent[k].payload /\ e = Encode(sent[k])
  OBVIOUS
<1>2. /\ IsSeq(q) /\ IsSeq(p) /\ Len(p) = Len(q)
      /\ \A i \in 1 .. Len(p) : p[i] = q[i]
  BY <1>1, SentIs DEF Whole
<1>3. p = q
  BY <1>2, SameSeq
<1>4. /\ h[3] = e[3] /\ h[4] = e[4] /\ h[5] = e[5] /\ h[6] = e[6]
      /\ h[7] = e[7] /\ h[8] = e[8]
  BY <1>1 DEF Whole
<1>5. sent[k] = [type |-> Response, service |-> 1, command |-> 3,
                 id |-> k, payload |-> q]
  BY <1>1 DEF StreamInv
<1>6. sent[k].type = Response /\ sent[k].service = 1 /\ sent[k].command = 3
  BY <1>5
<1>7. /\ e[3] = sent[k].type /\ e[4] = sent[k].service
      /\ e[5] = sent[k].command /\ e[6] = k /\ e[7] + 256 * e[8] = Len(q)
  BY <1>1, SentIs
<1>8. h[3] = Response /\ h[4] = 1 /\ h[5] = 3 /\ h[6] = k
  BY <1>4, <1>6, <1>7
<1>9. Frame(h, p) = sent[k]
  BY <1>3, <1>5, <1>8 DEF Frame
<1>10. h[7] + 256 * h[8] = Len(q)
  BY <1>4, <1>7
<1> QED
  BY <1>1, <1>9, <1>10 DEF PayloadLength

(* The frames that come through, one frame on.                             *)
LEMMA KeptGrows ==
  ASSUME NEW k \in Nat \ {0}
  PROVE  /\ Lost(k) => Kept(k) = Kept(k - 1)
         /\ ~Lost(k) => Cardinality(Kept(k)) = Cardinality(Kept(k - 1)) + 1
         /\ Cardinality(Kept(k - 1)) \in Nat
<1>1. Lost(k) => Kept(k) = Kept(k - 1)
  BY DEF Kept
<1>2. IsFiniteSet(Kept(k - 1)) /\ Cardinality(Kept(k - 1)) \in Nat
  <2>1. IsFiniteSet(1 .. k - 1)
    BY FS_Interval
  <2>2. Kept(k - 1) \in SUBSET (1 .. k - 1)
    BY DEF Kept
  <2>3. IsFiniteSet(Kept(k - 1))
    BY <2>1, <2>2, FS_Subset
  <2> QED
    BY <2>3, FS_CardinalityType
<1>3. ASSUME ~Lost(k)
      PROVE  Cardinality(Kept(k)) = Cardinality(Kept(k - 1)) + 1
  <2>1. Kept(k) = Kept(k - 1) \cup {k}
    BY <1>3 DEF Kept
  <2>2. k \notin Kept(k - 1)
    BY DEF Kept
  <2> QED
    BY <1>2, <2>1, <2>2, FS_AddElement
<1> QED
  BY <1>1, <1>2, <1>3

(* A frame that is lost or dispatched has come to its end.                 *)
LEMMA CountsOn ==
  ASSUME StreamInv, NEW k \in 1 .. Len(sent), sent' = sent, dropped' = dropped,
         Counts(k),
         \/ Lost(k) /\ dispatched' = dispatched
         \/ ~Lost(k) /\ dispatched' = Append(dispatched, sent[k])
  PROVE  Counts(k + 1)'
<1>1. k \in Nat \ {0} /\ k \in Int
  BY DEF StreamInv, IsSeq
<1>2. \A m : Lost(m)' = Lost(m) /\ Kept(m)' = Kept(m)
  BY DEF Lost, Kept
<1>3. /\ Len(dispatched) = Cardinality(Kept(k - 1))
      /\ \A i \in 1 .. Len(dispatched) : \E m \in 1 .. k - 1 :
           ~Lost(m) /\ dispatched[i] = sent[m] /\ i = Cardinality(Kept(m))
  BY DEF Counts
<1>4. k + 1 - 1 = k
  BY <1>1
<1>5. SUFFICES
        /\ Len(dispatched') = Cardinality(Kept(k))
        /\ \A i \in 1 .. Len(dispatched') : \E m \in 1 .. k :
             ~Lost(m) /\ dispatched'[i] = sent[m] /\ i = Cardinality(Kept(m))
  BY <1>2, <1>4 DEF Counts
<1>6. \A m \in 1 .. k - 1 : m \in 1 .. k
  BY <1>1
<1>7. CASE Lost(k)
  <2>1. Kept(k) = Kept(k - 1)
    BY <1>1, <1>7, KeptGrows
  <2> QED
    BY <1>3, <1>6, <1>7, <2>1
<1>8. CASE ~Lost(k)
  <2>1. PICK x : x = Cardinality(Kept(k - 1))
    OBVIOUS
  <2>2. x \in Nat /\ Cardinality(Kept(k)) = x + 1
    BY <1>1, <1>8, <2>1, KeptGrows
  <2>3. /\ Len(dispatched') = x + 1 /\ dispatched'[x + 1] = sent[k]
        /\ \A i \in 1 .. x : dispatched'[i] = dispatched[i]
    <3>1. PICK q, e : q = dispatched /\ e = sent[k]
      OBVIOUS
    <3>2. IsSeq(q) /\ Len(q) = x
      BY <1>3, <2>1, <3>1 DEF StreamInv
    <3>3. /\ Len(Append(q, e)) = x + 1 /\ Append(q, e)[x + 1] = e
          /\ \A i \in 1 .. x : Append(q, e)[i] = q[i]
      BY <3>2, AppendToSeq
    <3>4. dispatched' = Append(q, e)
      BY <1>8, <3>1
    <3> QED
      BY <3>1, <3>3, <3>4
  <2>4. ASSUME NEW i \in 1 .. x + 1
        PROVE  \E m \in 1 .. k :
                 ~Lost(m) /\ dispatched'[i] = sent[m]
                 /\ i = Cardinality(Kept(m))
    <3>1. CASE i = x + 1
      <4>1. k \in 1 .. k
        BY <1>1
      <4> QED
        BY <1>8, <2>2, <2>3, <3>1, <4>1
    <3>2. CASE i \in 1 .. x
      <4>1. PICK m \in 1 .. k - 1 :
              ~Lost(m) /\ dispatched[i] = sent[m] /\ i = Cardinality(Kept(m))
        BY <1>3, <2>1, <3>2
      <4> QED
        BY <1>6, <2>3, <3>2, <4>1
    <3> QED
      BY <2>2, <3>1, <3>2
  <2> QED
    BY <2>2, <2>3, <2>4
<1> QED
  BY <1>7, <1>8

(* The next frame is read from its first byte.                             *)
LEMMA FrameEnds ==
  ASSUME StreamInv, NEW k \in 1 .. Len(sent), sent' = sent, dropped' = dropped,
         Counts(k), header' = <<>>, payload' = <<>>, DropsTo(k),
         NEW d, Laid(d)', d[k + 1] = 1,
         \/ Lost(k) /\ dispatched' = dispatched
         \/ ~Lost(k) /\ dispatched' = Append(dispatched, sent[k])
  PROVE  Reading(d, k + 1, 0)'
<1>1. Counts(k + 1)'
  BY CountsOn
<1>2. k \in Nat /\ Len(sent) \in Nat /\ k <= Len(sent)
  BY DEF StreamInv, IsSeq
<1>3. k + 1 - 1 = k /\ k + 1 \in 1 .. Len(sent') + 1 /\ d[k + 1] = 1 - 0
  BY <1>2
<1>4. ReadsHeader(k + 1, 0)'
  <2>1. Len(header') = 0 /\ payload' = <<>>
    OBVIOUS
  <2>2. DropsTo(k)'
    BY DEF DropsTo
  <2> QED
    BY <1>3, <2>1, <2>2 DEF ReadsHeader, HeaderSize
<1> QED
  BY <1>1, <1>3, <1>4 DEF Reading

(* A byte of the connection is the next one of the frame being read.       *)
LEMMA NextByte ==
  ASSUME StreamInv, NEW b, NEW k, NEW c, Reading(b, k, c), stream # <<>>,
         stream' = Tail(stream), sent' = sent
  PROVE  /\ k \in 1 .. Len(sent) /\ c \in Nat /\ c < Size(k)
         /\ Head(stream) = Encode(sent[k])[c + 1]
         /\ \E d : Laid(d)' /\ d[k] = 1 - (c + 1) /\ d[k + 1] = d[k] + Size(k)
<1>1. /\ Laid(b) /\ b[k] = 1 - c /\ k \in 1 .. Len(sent) + 1 /\ c \in Nat
      /\ c # 0 => k <= Len(sent) /\ c < Size(k)
  BY DEF Reading
<1>2. Len(sent) \in Nat /\ Len(stream) \in Nat \ {0}
  BY TailOfSeq DEF StreamInv, IsSeq
<1>3. k # Len(sent) + 1
  <2> SUFFICES ASSUME k = Len(sent) + 1 PROVE FALSE
    OBVIOUS
  <2>1. b[k] = Len(stream) + 1
    BY <1>1 DEF Laid
  <2> QED
    BY <1>1, <1>2, <2>1
<1>4. k \in 1 .. Len(sent)
  BY <1>1, <1>2, <1>3
<1>5. c < Size(k)
  <2>1. Size(k) \in Nat /\ Size(k) >= 8
    BY <1>4, SentIs
  <2> QED
    BY <1>1, <2>1
<1> QED
  BY <1>1, <1>4, <1>5, Advance

(* The frame goes on.                                                      *)
LEMMA FrameGoesOn ==
  ASSUME StreamInv, NEW k \in 1 .. Len(sent), NEW c \in Nat, c + 1 < Size(k),
         UNCHANGED <<sent, dropped, dispatched>>, Counts(k),
         NEW d, Laid(d)', d[k] = 1 - (c + 1),
         (ReadsHeader(k, c + 1) \/ ReadsPayload(k, c + 1) \/ Skips(k, c + 1))'
  PROVE  Reading(d, k, c + 1)'
<1>1. Counts(k)'
  <2>1. \A m : Lost(m)' = Lost(m) /\ Kept(m)' = Kept(m)
    BY DEF Lost, Kept
  <2>2. sent' = sent /\ dispatched' = dispatched
    OBVIOUS
  <2> QED
    BY <2>1, <2>2 DEF Counts
<1>2. Size(k)' = Size(k)
  BY DEF Size
<1>3. k \in 1 .. Len(sent') + 1 /\ k <= Len(sent') /\ c + 1 \in Nat
  BY DEF StreamInv, IsSeq
<1> QED
  BY <1>1, <1>2, <1>3 DEF Reading

(* One more byte of the header.                                            *)
LEMMA HeaderGrows ==
  ASSUME StreamInv, NEW k \in 1 .. Len(sent), NEW c \in Nat, ReadsHeader(k, c),
         NEW h, h = Append(header, Encode(sent[k])[c + 1])
  PROVE  /\ IsSeq(h) /\ Len(h) = c + 1
         /\ \A i \in 1 .. c + 1 : h[i] = Encode(sent[k])[i]
<1>1. PICK q, e : q = header /\ e = Encode(sent[k])
  OBVIOUS
<1>2. IsSeq(q) /\ Len(q) = c /\ \A i \in 1 .. c : q[i] = e[i]
  BY <1>1 DEF StreamInv, ReadsHeader
<1>3. PICK y : y = e[c + 1]
  OBVIOUS
<1>4. /\ IsSeq(Append(q, y)) /\ Len(Append(q, y)) = c + 1
      /\ Append(q, y)[c + 1] = y
      /\ \A i \in 1 .. c : Append(q, y)[i] = q[i]
  BY <1>2, AppendToSeq
<1>5. h = Append(q, y)
  BY <1>1, <1>3
<1>6. \A i \in 1 .. c + 1 : i \in 1 .. c \/ i = c + 1
  OBVIOUS
<1>7. ASSUME NEW i \in 1 .. c + 1 PROVE h[i] = e[i]
  <2>1. CASE i \in 1 .. c
    BY <1>2, <1>4, <1>5, <2>1
  <2>2. CASE i = c + 1
    BY <1>3, <1>4, <1>5, <2>2
  <2> QED
    BY <1>6, <2>1, <2>2
<1> QED
  BY <1>1, <1>4, <1>5, <1>7

(* Looking for a frame finds the one that comes next.                      *)
LEMMA SynchroniseReads ==
  ASSUME StreamInv, AllMute, NEW b, NEW k, NEW c, Reading(b, k, c),
         NEW y, Synchronise(y)
  PROVE  \E d, l, e : Reading(d, l, e)'
<1>1. /\ Len(header) < 2 /\ stream # <<>> /\ y = Head(stream)
      /\ stream' = Tail(stream)
      /\ UNCHANGED <<sent, payload, dispatched, dropped>>
      /\ header' = IF y = (IF header = <<>> THEN SOF0 ELSE SOF1)
                   THEN Append(header, y) ELSE <<>>
  BY DEF Synchronise, GetByte
<1>2. /\ k \in 1 .. Len(sent) /\ c \in Nat /\ c < Size(k)
      /\ Head(stream) = Encode(sent[k])[c + 1]
      /\ \E d : Laid(d)' /\ d[k] = 1 - (c + 1) /\ d[k + 1] = d[k] + Size(k)
  BY <1>1, NextByte
<1>3. PICK d : Laid(d)' /\ d[k] = 1 - (c + 1) /\ d[k + 1] = d[k] + Size(k)
  BY <1>2
<1>4. Counts(k) /\ (ReadsHeader(k, c) \/ ReadsPayload(k, c) \/ Skips(k, c))
  BY DEF Reading
<1>5. /\ Size(k) = 8 + Len(sent[k].payload) /\ Size(k) \in Nat
      /\ Len(sent[k].payload) \in Nat
      /\ Encode(sent[k])[1] = SOF0 /\ Encode(sent[k])[2] = SOF1
      /\ \A i \in 1 .. Len(sent[k].payload) :
              Encode(sent[k])[8 + i] = sent[k].payload[i]
  BY <1>2, SentIs
<1>6. CASE ReadsHeader(k, c)
  <2>1. c \in 0 .. 7 /\ Len(header) = c /\ payload = <<>> /\ DropsTo(k - 1)
    BY <1>6 DEF ReadsHeader, HeaderSize
  <2>2. c \in {0, 1}
    BY <1>1, <2>1
  <2>3. header = <<>> <=> c = 0
    <3>1. header # <<>> => Len(header) \in Nat \ {0}
      BY TailOfSeq DEF StreamInv
    <3> QED
      BY <2>1, <3>1
  <2>4. y = (IF header = <<>> THEN SOF0 ELSE SOF1)
    BY <1>1, <1>2, <1>5, <2>2, <2>3
  <2>5. header' = Append(header, Encode(sent[k])[c + 1])
    BY <1>1, <1>2, <2>4
  <2>6. /\ Len(header') = c + 1
        /\ \A i \in 1 .. c + 1 : header'[i] = Encode(sent[k])[i]
    BY <1>2, <1>6, <2>5, HeaderGrows
  <2>7. DropsTo(k - 1)'
    BY <1>1, <2>1 DEF DropsTo
  <2>8. ReadsHeader(k, c + 1)'
    <3>1. c + 1 \in 0 .. 7 /\ payload' = <<>>
      BY <1>1, <2>1, <2>2
    <3> QED
      BY <1>1, <2>6, <2>7, <3>1 DEF ReadsHeader, HeaderSize
  <2>9. c + 1 < Size(k)
    BY <1>5, <2>2
  <2> QED
    BY <1>1, <1>2, <1>3, <1>4, <2>8, <2>9, FrameGoesOn
<1>7. CASE Skips(k, c)
  <2>1. c >= 8 /\ header = <<>> /\ payload = <<>> /\ Lost(k) /\ DropsTo(k)
    BY <1>7 DEF Skips, HeaderSize
  <2>2. PICK i : i = c + 1 - 8
    OBVIOUS
  <2>3. i \in 1 .. Len(sent[k].payload) /\ 8 + i = c + 1
    BY <1>2, <1>5, <2>1, <2>2
  <2>4. y = sent[k].payload[i]
    BY <1>1, <1>2, <1>5, <2>3
  <2>5. y # SOF0
    BY <1>2, <2>1, <2>3, <2>4 DEF AllMute, Mute
  <2>6. header' = <<>> /\ payload' = <<>>
    BY <1>1, <2>1, <2>5
  <2>7. CASE c + 1 = Size(k)
    <3>1. d[k + 1] = 1
      <4>1. PICK x, m, n : x = Size(k) /\ m = d[k] /\ n = d[k + 1]
        OBVIOUS
      <4>2. /\ x \in Nat /\ c \in Nat /\ c + 1 = x
            /\ m = 1 - (c + 1) /\ n = m + x
        BY <1>2, <1>3, <1>5, <2>7, <4>1
      <4>3. n = 1
        BY <4>2
      <4> QED
        BY <4>1, <4>3
    <3> QED
      BY <1>1, <1>2, <1>3, <1>4, <2>1, <2>6, <3>1, FrameEnds
  <2>8. CASE c + 1 # Size(k)
    <3>1. c + 1 < Size(k) /\ c + 1 >= 8
      <4>1. PICK x : x = Size(k)
        OBVIOUS
      <4>2. x \in Nat /\ c \in Nat /\ c < x /\ c + 1 # x /\ c >= 8
        BY <1>2, <1>5, <2>1, <2>8, <4>1
      <4>3. c + 1 < x /\ c + 1 >= 8
        BY <4>2
      <4> QED
        BY <4>1, <4>3
    <3>2. Lost(k)' /\ DropsTo(k)'
      BY <1>1, <2>1 DEF Lost, DropsTo
    <3>3. Skips(k, c + 1)'
      BY <2>6, <3>1, <3>2 DEF Skips, HeaderSize
    <3> QED
      BY <1>1, <1>2, <1>3, <1>4, <3>1, <3>3, FrameGoesOn
  <2> QED
    BY <2>7, <2>8
<1>8. ~ReadsPayload(k, c)
  BY <1>1 DEF ReadsPayload, HeaderSize
<1> QED
  BY <1>4, <1>6, <1>7, <1>8

(* A frame is not lost before its payload is due.                          *)
LEMMA NotLostYet ==
  ASSUME StreamInv, NEW k \in 1 .. Len(sent), DropsTo(k - 1)
  PROVE  ~Lost(k) /\ DropsTo(k)
<1>1. sent[k].id = k /\ k \in Int
  BY SentIs
<1> QED
  BY <1>1 DEF Lost, DropsTo

(* The header is read to its end; a frame without payload ends with it.    *)
LEMMA ReadHeaderReads ==
  ASSUME StreamInv, AllMute, NEW b, NEW k, NEW c, Reading(b, k, c),
         NEW y, ReadHeader(y)
  PROVE  \E d, l, e : Reading(d, l, e)'
<1>1. /\ Len(header) \in 2 .. 7 /\ stream # <<>> /\ y = Head(stream)
      /\ stream' = Tail(stream) /\ UNCHANGED <<sent, payload, dropped>>
  BY DEF ReadHeader, GetByte, HeaderSize
<1>2. /\ k \in 1 .. Len(sent) /\ c \in Nat /\ c < Size(k)
      /\ Head(stream) = Encode(sent[k])[c + 1]
      /\ \E d : Laid(d)' /\ d[k] = 1 - (c + 1) /\ d[k + 1] = d[k] + Size(k)
  BY <1>1, NextByte
<1>3. PICK d : Laid(d)' /\ d[k] = 1 - (c + 1) /\ d[k + 1] = d[k] + Size(k)
  BY <1>2
<1>4. Counts(k) /\ (ReadsHeader(k, c) \/ ReadsPayload(k, c) \/ Skips(k, c))
  BY DEF Reading
<1>5. /\ Size(k) = 8 + Len(sent[k].payload) /\ IsSeq(sent[k].payload)
      /\ Len(sent[k].payload) \in Nat
  BY <1>2, SentIs
<1>6. ReadsHeader(k, c)
  <2>1. Len(header) # 8 /\ Len(header) # 0
    <3>1. PICK n : n = Len(header)
      OBVIOUS
    <3>2. n \in 2 .. 7
      BY <1>1, <3>1
    <3> HIDE <1>1
    <3>3. n # 8 /\ n # 0
      BY <3>2
    <3> QED
      BY <3>1, <3>3
  <2>2. header # <<>>
    BY <2>1, EmptyIsSeq
  <2> QED
    BY <1>4, <2>1, <2>2 DEF ReadsPayload, Skips, HeaderSize
<1>7. c \in 2 .. 7 /\ Len(header) = c /\ payload = <<>> /\ DropsTo(k - 1)
  BY <1>1, <1>6 DEF ReadsHeader
<1>8. PICK h : h = Append(header, y)
  OBVIOUS
<1>9. /\ IsSeq(h) /\ Len(h) = c + 1
      /\ \A i \in 1 .. c + 1 : h[i] = Encode(sent[k])[i]
  BY <1>1, <1>2, <1>6, <1>8, HeaderGrows
<1>10. ~Lost(k) /\ DropsTo(k)
  BY <1>2, <1>7, NotLostYet
<1>11. DropsTo(k - 1)'
  BY <1>1, <1>7 DEF DropsTo
<1>12. IF Len(h) = 8 /\ PayloadLength(h) = 0
       THEN header' = <<>> /\ dispatched' = Append(dispatched, Frame(h, <<>>))
       ELSE header' = h /\ dispatched' = dispatched
  BY <1>8 DEF ReadHeader, HeaderSize
<1>13. CASE c + 1 < 8
  <2>1. header' = h /\ dispatched' = dispatched
    BY <1>9, <1>12, <1>13
  <2>2. c + 1 \in 0 .. 7 /\ Len(header') = c + 1 /\ payload' = <<>>
    BY <1>1, <1>7, <1>9, <1>13, <2>1
  <2>3. \A i \in 1 .. c + 1 : header'[i] = Encode(sent'[k])[i]
    BY <1>1, <1>9, <2>1
  <2>4. ReadsHeader(k, c + 1)'
    BY <1>11, <2>2, <2>3 DEF ReadsHeader, HeaderSize
  <2>5. c + 1 < Size(k)
    BY <1>2, <1>5, <1>13
  <2> QED
    BY <1>1, <1>2, <1>3, <1>4, <2>1, <2>4, <2>5, FrameGoesOn
<1>14. CASE c + 1 = 8
  <2>1. Len(h) = 8 /\ \A i \in 1 .. 8 : h[i] = Encode(sent[k])[i]
    BY <1>9, <1>14
  <2>2. PayloadLength(h) = Len(sent[k].payload)
    <3>1. Whole(h, sent[k].payload, k)
      BY <1>5, <2>1 DEF Whole
    <3> QED
      BY <1>2, <3>1, FrameIsSent
  <2>3. CASE Len(sent[k].payload) = 0
    <3>1. Whole(h, <<>>, k)
      <4>1. IsSeq(<<>>) /\ Len(<<>>) = 0
        BY EmptyIsSeq
      <4> QED
        BY <2>1, <2>3, <4>1 DEF Whole
    <3>2. Frame(h, <<>>) = sent[k]
      BY <1>2, <3>1, FrameIsSent
    <3>3. header' = <<>> /\ dispatched' = Append(dispatched, sent[k])
      BY <1>12, <2>1, <2>2, <2>3, <3>2
    <3>4. d[k + 1] = 1
      BY <1>3, <1>5, <1>14, <2>3
    <3>5. payload' = <<>>
      BY <1>1, <1>7
    <3> QED
      BY <1>1, <1>2, <1>3, <1>4, <1>10, <3>3, <3>4, <3>5, FrameEnds
  <2>4. CASE Len(sent[k].payload) # 0
    <3>1. header' = h /\ dispatched' = dispatched
      BY <1>12, <2>2, <2>4
    <3>2. c + 1 < Size(k)
      BY <1>2, <1>5, <1>14, <2>4
    <3>3. ReadsPayload(k, c + 1)'
      <4>1. /\ Len(header') = 8 /\ payload' = <<>>
            /\ \A i \in 1 .. 8 : header'[i] = Encode(sent'[k])[i]
        BY <1>1, <1>7, <2>1, <3>1
      <4>2. Len(payload') = c + 1 - 8 /\ c + 1 >= 8
        <5>1. Len(payload') = 0
          BY <4>1, EmptyIsSeq
        <5> QED
          BY <1>7, <1>14, <5>1
      <4>3. \A i \in 1 .. Len(payload') : payload'[i] = sent'[k].payload[i]
        BY <1>7, <1>14, <4>2
      <4> QED
        BY <1>7, <1>11, <4>1, <4>2, <4>3 DEF ReadsPayload, HeaderSize
    <3> QED
      BY <1>1, <1>2, <1>3, <1>4, <3>1, <3>2, <3>3, FrameGoesOn
  <2> QED
    BY <2>3, <2>4
<1> QED
  BY <1>7, <1>13, <1>14

(* The payload is read to its end.                                         *)
LEMMA ReadPayloadReads ==
  ASSUME StreamInv, AllMute, NEW b, NEW k, NEW c, Reading(b, k, c),
         NEW y, ReadPayload(y)
  PROVE  \E d, l, e : Reading(d, l, e)'
<1>1. /\ Len(header) = 8 /\ stream # <<>> /\ y = Head(stream)
      /\ stream' = Tail(stream) /\ UNCHANGED <<sent, dropped>>
      /\ IF Len(payload) + 1 = PayloadLength(header)
         THEN /\ header' = <<>> /\ payload' = <<>>
              /\ dispatched' =
                   Append(dispatched, Frame(header, Append(payload, y)))
         ELSE /\ payload' = Append(payload, y)
              /\ header' = header /\ dispatched' = dispatched
  BY DEF ReadPayload, AwaitsPayload, GetByte, HeaderSize
<1>2. /\ k \in 1 .. Len(sent) /\ c \in Nat /\ c < Size(k)
      /\ Head(stream) = Encode(sent[k])[c + 1]
      /\ \E d : Laid(d)' /\ d[k] = 1 - (c + 1) /\ d[k + 1] = d[k] + Size(k)
  BY <1>1, NextByte
<1>3. PICK d : Laid(d)' /\ d[k] = 1 - (c + 1) /\ d[k + 1] = d[k] + Size(k)
  BY <1>2
<1>4. Counts(k) /\ (ReadsHeader(k, c) \/ ReadsPayload(k, c) \/ Skips(k, c))
  BY DEF Reading
<1>5. PICK q, p : q = sent[k].payload /\ p = payload
  OBVIOUS
<1>6. /\ Size(k) = 8 + Len(q) /\ IsSeq(q) /\ Len(q) \in Nat
      /\ \A i \in 1 .. Len(q) : Encode(sent[k])[8 + i] = q[i]
  BY <1>2, <1>5, SentIs
<1>7. ReadsPayload(k, c)
  <2>1. ~ReadsHeader(k, c) /\ Len(header) # 0
    BY <1>1 DEF ReadsHeader, HeaderSize
  <2>2. header # <<>>
    BY <2>1, EmptyIsSeq
  <2> QED
    BY <1>4, <2>1, <2>2 DEF Skips
<1>8. /\ c >= 8 /\ Len(p) = c - 8 /\ DropsTo(k - 1)
      /\ \A i \in 1 .. 8 : header[i] = Encode(sent[k])[i]
      /\ \A i \in 1 .. Len(p) : p[i] = q[i]
  BY <1>5, <1>7 DEF ReadsPayload, HeaderSize
<1>9. PICK x : x = c - 8
  OBVIOUS
<1>10. x \in Nat /\ c = x + 8 /\ x + 1 \in 1 .. Len(q) /\ c + 1 = 8 + (x + 1)
  BY <1>2, <1>6, <1>8, <1>9
<1>11. y = q[x + 1]
  BY <1>1, <1>2, <1>6, <1>10
<1>12. IsSeq(p)
  BY <1>5 DEF StreamInv
<1>13. PICK r : r = Append(p, y)
  OBVIOUS
<1>14. /\ IsSeq(r) /\ Len(r) = x + 1 /\ r[x + 1] = y
       /\ \A i \in 1 .. x : r[i] = p[i]
  BY <1>8, <1>9, <1>12, <1>13, AppendToSeq
<1>15. ASSUME NEW i \in 1 .. x + 1 PROVE r[i] = q[i]
  <2>1. CASE i \in 1 .. x
    BY <1>8, <1>9, <1>14, <2>1
  <2>2. CASE i = x + 1
    BY <1>11, <1>14, <2>2
  <2> QED
    BY <1>10, <2>1, <2>2
<1>16. ~Lost(k) /\ DropsTo(k)
  BY <1>2, <1>8, NotLostYet
<1>17. DropsTo(k - 1)'
  BY <1>1, <1>8 DEF DropsTo
<1>18. PayloadLength(header) = Len(q)
  <2>1. Whole(header, q, k)
    BY <1>5, <1>6, <1>8 DEF Whole
  <2> QED
    BY <1>2, <1>5, <2>1, FrameIsSent
<1>19. CASE x + 1 = Len(q)
  <2>1. Frame(header, r) = sent[k]
    <3>1. Len(r) = Len(q) /\ \A i \in 1 .. Len(r) : r[i] = q[i]
      BY <1>14, <1>15, <1>19
    <3>2. Whole(header, r, k)
      BY <1>5, <1>8, <1>14, <3>1 DEF Whole
    <3> QED
      BY <1>2, <3>2, FrameIsSent
  <2>2. /\ header' = <<>> /\ payload' = <<>>
        /\ dispatched' = Append(dispatched, sent[k])
    BY <1>1, <1>5, <1>8, <1>9, <1>13, <1>18, <1>19, <2>1
  <2>3. d[k + 1] = 1
    BY <1>3, <1>6, <1>10, <1>19
  <2> QED
    BY <1>1, <1>2, <1>3, <1>4, <1>16, <2>2, <2>3, FrameEnds
<1>20. CASE x + 1 # Len(q)
  <2>1. payload' = r /\ header' = header /\ dispatched' = dispatched
    BY <1>1, <1>5, <1>8, <1>9, <1>13, <1>18, <1>20
  <2>2. c + 1 < Size(k) /\ c + 1 >= 8
    BY <1>6, <1>10, <1>20
  <2>3. ReadsPayload(k, c + 1)'
    <3>1. /\ Len(header') = 8
          /\ \A i \in 1 .. 8 : header'[i] = Encode(sent'[k])[i]
      BY <1>1, <1>8, <2>1
    <3>2. Len(payload') = c + 1 - 8
      BY <1>10, <1>14, <2>1
    <3>3. \A i \in 1 .. Len(payload') : payload'[i] = sent'[k].payload[i]
      <4>1. sent' = sent /\ Len(r) = x + 1
        BY <1>1, <1>14
      <4>2. \A i \in 1 .. Len(r) : r[i] = sent[k].payload[i]
        BY <1>5, <1>15, <4>1
      <4> QED
        BY <2>1, <4>1, <4>2
    <3>4. PICK g : g = c + 1
      OBVIOUS
    <3>5. g >= 8 /\ Len(payload') = g - 8
      BY <1>2, <2>2, <3>2, <3>4
    <3>6. ReadsPayload(k, g)'
      BY <1>17, <3>1, <3>3, <3>5 DEF ReadsPayload, HeaderSize
    <3> QED
      BY <3>4, <3>6
  <2> QED
    BY <1>1, <1>2, <1>3, <1>4, <2>1, <2>2, <2>3, FrameGoesOn
<1> QED
  BY <1>19, <1>20

(* A frame that is given up is read on as if it were not there.            *)
LEMMA NoMemoryReads ==
  ASSUME StreamInv, NEW b, NEW k, NEW c, Reading(b, k, c), NoMemory
  PROVE  \E d, l, e : Reading(d, l, e)'
<1>1. /\ Len(header) = 8 /\ payload = <<>> /\ header' = <<>>
      /\ dropped' = Append(dropped, header[6])
      /\ UNCHANGED <<payload, dispatched, stream, sent>>
  BY DEF NoMemory, AwaitsPayload, HeaderSize, uart
<1>2. /\ Laid(b) /\ b[k] = 1 - c /\ k \in 1 .. Len(sent) + 1 /\ c \in Nat
      /\ c # 0 => k <= Len(sent) /\ c < Size(k)
      /\ Counts(k) /\ (ReadsHeader(k, c) \/ ReadsPayload(k, c) \/ Skips(k, c))
  BY DEF Reading
<1>3. ReadsPayload(k, c)
  <2>1. ~ReadsHeader(k, c) /\ Len(header) # 0
    BY <1>1 DEF ReadsHeader, HeaderSize
  <2>2. header # <<>>
    BY <2>1, EmptyIsSeq
  <2> QED
    BY <1>2, <2>2, <2>1 DEF Skips
<1>4. c = 8 /\ header[6] = Encode(sent[k])[6] /\ DropsTo(k - 1)
  <2>1. Len(payload) = 0
    BY <1>1, EmptyIsSeq
  <2> QED
    BY <1>2, <1>3, <2>1 DEF ReadsPayload, HeaderSize
<1>5. k \in 1 .. Len(sent) /\ Len(sent) \in Nat /\ c < Size(k)
  BY <1>2, <1>4 DEF StreamInv, IsSeq
<1>6. header[6] = k /\ sent[k].id = k
  BY <1>4, <1>5, SentIs
<1>7. PICK q, x : q = dropped /\ x = Len(dropped)
  OBVIOUS
<1>8. /\ x \in Nat /\ Len(dropped') = x + 1 /\ dropped'[x + 1] = k
      /\ \A i \in 1 .. x : dropped'[i] = q[i]
  <2>1. IsSeq(q) /\ Len(q) = x
    BY <1>7 DEF StreamInv
  <2>2. /\ Len(q) \in Nat /\ Len(Append(q, k)) = Len(q) + 1
        /\ Append(q, k)[Len(q) + 1] = k
        /\ \A i \in 1 .. Len(q) : Append(q, k)[i] = q[i]
    BY <2>1, AppendToSeq
  <2>3. dropped' = Append(q, k)
    BY <1>1, <1>6, <1>7
  <2> QED
    BY <2>1, <2>2, <2>3
<1>9. Lost(k)'
  <2>1. x + 1 \in 1 .. Len(dropped') /\ dropped'[x + 1] = sent'[k].id
    BY <1>1, <1>6, <1>8
  <2> QED
    BY <2>1 DEF Lost
<1>10. DropsTo(k)'
  <2>1. ASSUME NEW i \in 1 .. x + 1 PROVE dropped'[i] \in 1 .. k
    <3>1. CASE i = x + 1
      BY <1>5, <1>8, <3>1
    <3>2. CASE i \in 1 .. x
      <4>1. q[i] \in 1 .. k - 1
        BY <1>4, <1>7, <3>2 DEF DropsTo
      <4>2. q[i] \in 1 .. k
        BY <1>5, <4>1
      <4> QED
        BY <1>8, <3>2, <4>2
    <3> QED
      BY <1>8, <3>1, <3>2
  <2> QED
    BY <1>8, <2>1 DEF DropsTo
<1>11. ASSUME NEW m \in 1 .. k - 1 PROVE Lost(m)' = Lost(m)
  <2>1. m \in 1 .. Len(sent) /\ m # k
    BY <1>5
  <2>2. sent[m].id = m /\ sent'[m] = sent[m]
    BY <1>1, <2>1, SentIs
  <2>3. Lost(m)' <=> \E i \in 1 .. x + 1 : dropped'[i] = m
    BY <1>1, <1>8, <2>2 DEF Lost
  <2>4. Lost(m) <=> \E i \in 1 .. x : q[i] = m
    BY <1>7, <2>2 DEF Lost
  <2>5. \A i \in 1 .. x + 1 : i \in 1 .. x \/ i = x + 1
    BY <1>8
  <2>6. \A i \in 1 .. x : i \in 1 .. x + 1
    BY <1>8
  <2>7. (\E i \in 1 .. x + 1 : dropped'[i] = m)
          <=> (\E i \in 1 .. x : q[i] = m)
    BY <1>8, <2>1, <2>5, <2>6
  <2>8. Lost(m)' <=> Lost(m)
    BY <2>3, <2>4, <2>7
  <2> QED
    BY <2>8 DEF Lost
<1>12. \A m \in 0 .. k - 1 : Kept(m)' = Kept(m)
  <2> SUFFICES ASSUME NEW m \in 0 .. k - 1 PROVE Kept(m)' = Kept(m)
    OBVIOUS
  <2>1. \A l \in 1 .. m : l \in 1 .. k - 1
    BY <1>5
  <2>2. \A l \in 1 .. m : Lost(l)' = Lost(l)
    BY <1>11, <2>1
  <2> QED
    BY <2>2 DEF Kept
<1>13. Counts(k)'
  <2>1. /\ Len(dispatched) = Cardinality(Kept(k - 1))
        /\ \A i \in 1 .. Len(dispatched) : \E m \in 1 .. k - 1 :
             ~Lost(m) /\ dispatched[i] = sent[m] /\ i = Cardinality(Kept(m))
    BY <1>2 DEF Counts
  <2>2. k - 1 \in 0 .. k - 1 /\ \A m \in 1 .. k - 1 : m \in 0 .. k - 1
    BY <1>5
  <2>3. Len(dispatched') = Cardinality(Kept(k - 1)')
    BY <1>1, <1>12, <2>1, <2>2
  <2>4. ASSUME NEW i \in 1 .. Len(dispatched')
        PROVE  \E m \in 1 .. k - 1 : /\ ~Lost(m)' /\ dispatched'[i] = sent'[m]
                                     /\ i = Cardinality(Kept(m)')
    <3>1. PICK m \in 1 .. k - 1 :
            ~Lost(m) /\ dispatched[i] = sent[m] /\ i = Cardinality(Kept(m))
      BY <1>1, <2>1
    <3>2. ~Lost(m)'
      BY <1>11, <3>1
    <3>3. Kept(m)' = Kept(m)
      BY <1>12, <2>2
    <3> QED
      BY <1>1, <3>1, <3>2, <3>3
  <2> QED
    BY <2>3, <2>4 DEF Counts
<1>14. Laid(b)' /\ Size(k)' = Size(k)
  BY <1>1, <1>2 DEF Laid, Size
<1>15. Skips(k, c)'
  <2>1. payload' = <<>> /\ header' = <<>> /\ c >= 8
    BY <1>1, <1>4
  <2> QED
    BY <1>9, <1>10, <2>1 DEF Skips, HeaderSize
<1>16. Reading(b, k, c)'
  <2>1. k \in 1 .. Len(sent') + 1 /\ k <= Len(sent') /\ c < Size(k)'
    BY <1>1, <1>2, <1>5, <1>14
  <2> QED
    BY <1>2, <1>13, <1>14, <1>15, <2>1 DEF Reading
<1> QED
  BY <1>16

(* A frame is written behind what is on the connection.                    *)
LEMMA FrameIsLaid ==
  ASSUME StreamInv, NEW b, Laid(b), NEW f, f.payload \in Seq(0 .. 255),
         sent' = Append(sent, f), stream' = stream \o Encode(f),
         NEW n, n = Len(sent),
         NEW d, d = [m \in 1 .. n + 2 |-> IF m <= n + 1 THEN b[m]
                                          ELSE Len(stream') + 1]
  PROVE  Laid(d)'
<1>1. PICK l, e, z, s : /\ l = Len(stream) /\ e = Encode(f)
                        /\ z = Len(f.payload) + 8 /\ s = stream
  OBVIOUS
<1>2. /\ n \in Nat /\ IsSeq(sent') /\ Len(sent') = n + 1 /\ sent'[n + 1] = f
      /\ \A m \in 1 .. n : sent'[m] = sent[m]
  BY <1>1, AppendToSeq DEF StreamInv
<1>3. Encodes(e, f)
  BY <1>1, EncodeIs
<1>4. IsSeq(e) /\ Len(e) = z /\ z \in Nat
  BY <1>1, <1>3 DEF Encodes, HeaderSize
<1>5. /\ IsSeq(s \o e) /\ l \in Nat /\ Len(s \o e) = l + z
      /\ \A i \in 1 .. l : (s \o e)[i] = s[i]
      /\ \A i \in 1 .. z : (s \o e)[l + i] = e[i]
  <2>1. IsSeq(s) /\ Len(s) = l
    BY <1>1 DEF StreamInv
  <2>2. Joins(s \o e, s, e)
    BY <1>4, <2>1, JoinOfSeqs
  <2>3. Len(s) = l /\ Len(e) = z
    BY <1>4, <2>1
  <2> QED
    BY <2>2, <2>3 DEF Joins
<1>6. stream' = s \o e
  BY <1>1
<1>7. /\ \A m \in 1 .. n + 1 : b[m] \in Int /\ b[m] <= l + 1
      /\ \A m \in 1 .. n : b[m + 1] = b[m] + Size(m)
      /\ b[n + 1] = l + 1
      /\ \A m \in 1 .. n : \A i \in 1 .. Size(m) :
           b[m] + i > 1 => s[b[m] + i - 1] = Encode(sent[m])[i]
  BY <1>1 DEF Laid
<1>8. PICK w : w = Len(stream') + 1
  OBVIOUS
<1>9. /\ \A m \in 1 .. n + 1 : d[m] = b[m]
      /\ d[n + 2] = l + z + 1
  <2>1. d = [m \in 1 .. n + 2 |-> IF m <= n + 1 THEN b[m] ELSE w]
    BY <1>8
  <2>2. w = l + z + 1
    BY <1>5, <1>6, <1>8
  <2> QED
    BY <1>2, <2>1, <2>2
<1>10. \A m \in 1 .. n + 2 : m \in 1 .. n + 1 \/ m = n + 2
  BY <1>2
<1>11. /\ \A m \in 1 .. n : Size(m)' = Size(m) /\ Size(m) \in Nat
       /\ Size(n + 1)' = z
  <2>1. \A m \in 1 .. n : Size(m)' = Size(m)
    BY <1>2 DEF Size
  <2>2. \A m \in 1 .. n : Size(m) \in Nat
    BY <1>1, SentIs
  <2>3. Size(n + 1)' = z
    <3>1. Len(f.payload) \in Nat
      BY <1>3 DEF Encodes
    <3> QED
      BY <1>1, <1>2, <3>1 DEF Size, HeaderSize
  <2> QED
    BY <2>1, <2>2, <2>3
<1>12. ASSUME NEW m \in 1 .. n + 2 PROVE d[m] \in Int /\ d[m] <= l + z + 1
  <2>1. CASE m \in 1 .. n + 1
    <3>1. PICK x : x = b[m]
      OBVIOUS
    <3>2. x \in Int /\ x <= l + 1 /\ d[m] = x
      BY <1>7, <1>9, <2>1, <3>1
    <3> QED
      BY <1>4, <1>5, <3>2
  <2>2. CASE m = n + 2
    BY <1>4, <1>5, <1>9, <2>2
  <2> QED
    BY <1>10, <2>1, <2>2
<1>13. ASSUME NEW m \in 1 .. n + 1 PROVE d[m + 1] = d[m] + Size(m)'
  <2>1. CASE m \in 1 .. n
    <3>1. m \in 1 .. n + 1 /\ m + 1 \in 1 .. n + 1
      BY <1>2, <2>1
    <3>2. d[m] = b[m] /\ d[m + 1] = b[m + 1]
      BY <1>9, <3>1
    <3>3. b[m + 1] = b[m] + Size(m)
      BY <1>7, <2>1
    <3> QED
      BY <1>11, <2>1, <3>2, <3>3
  <2>2. CASE m = n + 1
    <3>1. m + 1 = n + 2 /\ n + 1 \in 1 .. n + 1
      BY <1>2, <2>2
    <3>2. d[m] = l + 1 /\ d[m + 1] = l + z + 1
      BY <1>7, <1>9, <2>2, <3>1
    <3> QED
      BY <1>4, <1>5, <1>11, <2>2, <3>2
  <2> QED
    BY <1>2, <2>1, <2>2
<1>14. ASSUME NEW m \in 1 .. n + 1, NEW i \in 1 .. Size(m)', d[m] + i > 1
       PROVE  stream'[d[m] + i - 1] = Encode(sent'[m])[i]
  <2>1. CASE m \in 1 .. n
    <3>1. PICK x, y : x = b[m] /\ y = Size(m)
      OBVIOUS
    <3>2. m \in 1 .. n + 1 /\ m + 1 \in 1 .. n + 1
      BY <1>2, <2>1
    <3>3. /\ x \in Int /\ d[m] = x /\ y \in Nat /\ i \in 1 .. y
          /\ x + y = b[m + 1] /\ b[m + 1] <= l + 1
      BY <1>7, <1>9, <1>11, <2>1, <3>1, <3>2
    <3>4. x + i - 1 \in 1 .. l /\ x + i > 1
      <4>1. x + i > 1
        BY <1>14, <3>3
      <4>2. x + y <= l + 1
        BY <3>3
      <4> QED
        BY <1>5, <3>3, <4>1, <4>2
    <3>5. s[x + i - 1] = Encode(sent[m])[i]
      BY <1>7, <2>1, <3>1, <3>3, <3>4
    <3>6. stream'[x + i - 1] = s[x + i - 1]
      BY <1>5, <1>6, <3>4
    <3> QED
      BY <1>2, <2>1, <3>3, <3>5, <3>6
  <2>2. CASE m = n + 1
    <3>1. d[m] = l + 1 /\ i \in 1 .. z
      BY <1>2, <1>7, <1>9, <1>11, <2>2
    <3>2. d[m] + i - 1 = l + i
      BY <1>5, <3>1
    <3>3. stream'[l + i] = e[i]
      BY <1>5, <1>6, <3>1
    <3> QED
      BY <1>1, <1>2, <2>2, <3>2, <3>3
  <2>3. m \in 1 .. n \/ m = n + 1
    BY <1>2
  <2> QED
    BY <2>1, <2>2, <2>3, Zenon
<1>15. Laid(d)'
  <2>1. n + 1 + 1 = n + 2 /\ Len(stream') + 1 = l + z + 1
    <3>1. Len(stream') = l + z
      BY <1>5, <1>6
    <3>2. n + 1 + 1 = n + 2
      BY <1>2
    <3> QED
      BY <3>1, <3>2
  <2>2. /\ \A m \in 1 .. Len(sent') + 1 :
             d[m] \in Int /\ d[m] <= Len(stream') + 1
        /\ d[Len(sent') + 1] = Len(stream') + 1
    BY <1>2, <1>9, <1>12, <2>1
  <2>3. \A m \in 1 .. Len(sent') : d[m + 1] = d[m] + Size(m)'
    BY <1>2, <1>13
  <2>4. \A m \in 1 .. Len(sent') : \A i \in 1 .. Size(m)' :
          d[m] + i > 1 => stream'[d[m] + i - 1] = Encode(sent'[m])[i]
    BY <1>2, <1>14
  <2> QED
    BY <2>2, <2>3, <2>4 DEF Laid
<1> QED
  BY <1>15

(* It leaves what is being read alone.                                     *)
LEMMA WriteFrameReads ==
  ASSUME StreamInv, NEW b, NEW k, NEW c, Reading(b, k, c), NEW f,
         f.payload \in Seq(0 .. 255),
         sent' = Append(sent, f), stream' = stream \o Encode(f),
         UNCHANGED <<header, payload, dispatched, dropped>>
  PROVE  \E d, l, e : Reading(d, l, e)'
<1>1. /\ Laid(b) /\ b[k] = 1 - c /\ k \in 1 .. Len(sent) + 1 /\ c \in Nat
      /\ c # 0 => k <= Len(sent) /\ c < Size(k)
      /\ Counts(k) /\ (ReadsHeader(k, c) \/ ReadsPayload(k, c) \/ Skips(k, c))
  BY DEF Reading
<1>2. PICK n : n = Len(sent)
  OBVIOUS
<1>3. /\ Len(sent') = n + 1 /\ n \in Nat
      /\ \A m \in 1 .. n : sent'[m] = sent[m]
  BY <1>2, AppendToSeq DEF StreamInv
<1>4. PICK d : Laid(d)' /\ \A m \in 1 .. n + 1 : d[m] = b[m]
  <2>1. PICK d : d = [m \in 1 .. n + 2 |-> IF m <= n + 1 THEN b[m]
                                          ELSE Len(stream') + 1]
    OBVIOUS
  <2>2. Laid(d)'
    BY <1>1, <1>2, <2>1, FrameIsLaid, Zenon
  <2>3. PICK w : w = Len(stream') + 1
    OBVIOUS
  <2>4. d = [m \in 1 .. n + 2 |-> IF m <= n + 1 THEN b[m] ELSE w]
    BY <2>1, <2>3
  <2>5. \A m \in 1 .. n + 1 : d[m] = b[m]
    BY <1>3, <2>4
  <2> QED
    BY <2>2, <2>5
<1>5. k \in 1 .. n + 1 /\ d[k] = 1 - c /\ (c # 0 => k \in 1 .. n)
  BY <1>1, <1>2, <1>3, <1>4
<1>6. \A m \in 1 .. n : Lost(m)' = Lost(m) /\ Size(m)' = Size(m)
  BY <1>3 DEF Lost, Size
<1>7. \A m \in 0 .. n : Kept(m)' = Kept(m)
  <2> SUFFICES ASSUME NEW m \in 0 .. n PROVE Kept(m)' = Kept(m)
    OBVIOUS
  <2>1. \A l \in 1 .. m : l \in 1 .. n
    BY <1>3
  <2>2. \A l \in 1 .. m : Lost(l)' = Lost(l)
    BY <1>6, <2>1
  <2> QED
    BY <2>2 DEF Kept
<1>8. Counts(k)'
  <2>1. /\ Len(dispatched) = Cardinality(Kept(k - 1))
        /\ \A i \in 1 .. Len(dispatched) : \E m \in 1 .. k - 1 :
             ~Lost(m) /\ dispatched[i] = sent[m] /\ i = Cardinality(Kept(m))
    BY <1>1 DEF Counts
  <2>2. k - 1 \in 0 .. n /\ \A m \in 1 .. k - 1 : m \in 0 .. n /\ m \in 1 .. n
    BY <1>3, <1>5
  <2>3. Len(dispatched') = Cardinality(Kept(k - 1)')
    BY <1>7, <2>1, <2>2
  <2>4. ASSUME NEW i \in 1 .. Len(dispatched')
        PROVE  \E m \in 1 .. k - 1 : /\ ~Lost(m)' /\ dispatched'[i] = sent'[m]
                                     /\ i = Cardinality(Kept(m)')
    <3>1. PICK m \in 1 .. k - 1 :
            ~Lost(m) /\ dispatched[i] = sent[m] /\ i = Cardinality(Kept(m))
      BY <2>1
    <3>2. ~Lost(m)' /\ Kept(m)' = Kept(m) /\ sent'[m] = sent[m]
      BY <1>3, <1>6, <1>7, <2>2, <3>1
    <3> QED
      BY <3>1, <3>2
  <2> QED
    BY <2>3, <2>4 DEF Counts
<1>9. (ReadsHeader(k, c) \/ ReadsPayload(k, c) \/ Skips(k, c))'
  <2>1. \A l : DropsTo(l)' = DropsTo(l)
    BY DEF DropsTo
  <2>2. CASE ReadsHeader(k, c)
    <3>1. \A i \in 1 .. c : header[i] = Encode(sent'[k])[i]
      <4>1. CASE c = 0
        BY <4>1
      <4>2. CASE c # 0
        BY <1>3, <1>5, <2>2, <4>2 DEF ReadsHeader
      <4> QED
        BY <4>1, <4>2
    <3> QED
      BY <2>1, <2>2, <3>1 DEF ReadsHeader
  <2>3. CASE ReadsPayload(k, c)
    <3>1. sent'[k] = sent[k]
      <4>1. c # 0
        BY <2>3 DEF ReadsPayload, HeaderSize
      <4> QED
        BY <1>3, <1>5, <4>1
    <3> QED
      BY <2>1, <2>3, <3>1 DEF ReadsPayload
  <2>4. CASE Skips(k, c)
    <3>1. Lost(k)'
      <4>1. c # 0 /\ Lost(k)
        BY <2>4 DEF Skips, HeaderSize
      <4> QED
        BY <1>5, <1>6, <4>1
    <3> QED
      BY <2>1, <2>4, <3>1 DEF Skips
  <2> QED
    BY <1>1, <2>2, <2>3, <2>4
<1>10. /\ k \in 1 .. Len(sent') + 1
       /\ c # 0 => k <= Len(sent') /\ c < Size(k)'
  <2>1. c # 0 => c < Size(k)' /\ k <= Len(sent')
    BY <1>1, <1>3, <1>5, <1>6
  <2> QED
    BY <1>3, <1>5, <2>1
<1>11. Reading(d, k, c)'
  BY <1>1, <1>4, <1>5, <1>8, <1>9, <1>10 DEF Reading
<1> QED
  BY <1>11

(* The host writes numbered frames of bytes.                               *)
LEMMA Writes ==
  ASSUME StreamInv, WriteFrame
  PROVE  \E f : /\ f.payload \in Seq(0 .. 255)
                /\ f = [type |-> Response, service |-> 1, command |-> 3,
                        id |-> Len(sent) + 1, payload |-> f.payload]
                /\ sent' = Append(sent, f) /\ stream' = stream \o Encode(f)
                /\ UNCHANGED <<header, payload, dispatched, dropped>>
<1>1. PICK p \in Payloads :
        LET f == [type |-> Response, service |-> 1, command |-> 3,
                  id |-> Len(sent) + 1, payload |-> p] IN
        sent' = Append(sent, f) /\ stream' = stream \o Encode(f)
  BY DEF WriteFrame
<1>2. PICK f : f = [type |-> Response, service |-> 1, command |-> 3,
                    id |-> Len(sent) + 1, payload |-> p]
  OBVIOUS
<1>3. f.payload = p
  BY <1>2
<1>4. p \in Seq(0 .. 255)
  BY ConstantsAssumption DEF ConstantsAssumption
<1>5. UNCHANGED <<header, payload, dispatched, dropped>>
  BY DEF WriteFrame, reader
<1>6. sent' = Append(sent, f) /\ stream' = stream \o Encode(f)
  BY <1>1, <1>2
<1>7. /\ f.payload \in Seq(0 .. 255)
      /\ f = [type |-> Response, service |-> 1, command |-> 3,
              id |-> Len(sent) + 1, payload |-> f.payload]
  BY <1>2, <1>3, <1>4
<1> QED
  BY <1>5, <1>6, <1>7

(* What is on the connection has been sent.                                *)
LEMMA StreamStep == StreamInv /\ [Next]_vars => StreamInv'
<1> SUFFICES ASSUME StreamInv, [Next]_vars PROVE StreamInv'
  OBVIOUS
<1>1. /\ IsSeq(sent) /\ IsSeq(stream) /\ IsSeq(dispatched) /\ IsSeq(dropped)
      /\ IsSeq(header) /\ IsSeq(payload)
      /\ \A m \in 1 .. Len(sent) :
           /\ sent[m].payload \in Seq(0 .. 255)
           /\ sent[m] = [type |-> Response, service |-> 1, command |-> 3,
                         id |-> m, payload |-> sent[m].payload]
  BY DEF StreamInv
<1>2. IsSeq(<<>>)
  BY EmptyIsSeq
<1>3. CASE WriteFrame
  <2>1. PICK f :
          /\ f.payload \in Seq(0 .. 255)
          /\ f = [type |-> Response, service |-> 1, command |-> 3,
                  id |-> Len(sent) + 1, payload |-> f.payload]
          /\ sent' = Append(sent, f) /\ stream' = stream \o Encode(f)
          /\ UNCHANGED <<header, payload, dispatched, dropped>>
    BY <1>3, Writes
  <2>2. PICK n : n = Len(sent)
    OBVIOUS
  <2>3. /\ n \in Nat /\ IsSeq(sent') /\ Len(sent') = n + 1 /\ sent'[n + 1] = f
        /\ \A m \in 1 .. n : sent'[m] = sent[m]
    BY <1>1, <2>1, <2>2, AppendToSeq
  <2>4. IsSeq(stream')
    <3>1. Encodes(Encode(f), f)
      BY <2>1, EncodeIs
    <3>2. IsSeq(Encode(f))
      BY <3>1 DEF Encodes
    <3>3. Joins(stream \o Encode(f), stream, Encode(f))
      BY <1>1, <3>2, JoinOfSeqs
    <3> QED
      BY <2>1, <3>3 DEF Joins
  <2>5. ASSUME NEW m \in 1 .. Len(sent')
        PROVE  /\ sent'[m].payload \in Seq(0 .. 255)
               /\ sent'[m] = [type |-> Response, service |-> 1, command |-> 3,
                              id |-> m, payload |-> sent'[m].payload]
    <3>1. m \in 1 .. n \/ m = n + 1
      BY <2>3
    <3>2. CASE m \in 1 .. n
      BY <1>1, <2>2, <2>3, <3>2
    <3>3. CASE m = n + 1
      <4>1. sent'[m] = f /\ m = Len(sent) + 1
        BY <2>2, <2>3, <3>3
      <4> QED
        BY <2>1, <4>1
    <3> QED
      BY <3>1, <3>2, <3>3
  <2>6. /\ IsSeq(dispatched') /\ IsSeq(dropped')
        /\ IsSeq(header') /\ IsSeq(payload')
    BY <1>1, <2>1
  <2> QED
    BY <2>3, <2>4, <2>5, <2>6 DEF StreamInv
<1>4. CASE UNCHANGED <<stream, header, payload, sent, dispatched, dropped>>
  BY <1>1, <1>4 DEF StreamInv
<1>5. CASE NoMemory
  <2>1. /\ header' = <<>> /\ dropped' = Append(dropped, header[6])
        /\ UNCHANGED <<payload, dispatched, stream, sent>>
    BY <1>5 DEF NoMemory
  <2>2. IsSeq(header') /\ IsSeq(dropped')
    BY <1>1, <1>2, <2>1, AppendToSeq
  <2> QED
    BY <1>1, <2>1, <2>2 DEF StreamInv
<1>6. ASSUME NEW y, Synchronise(y) \/ ReadHeader(y) \/ ReadPayload(y)
      PROVE  StreamInv'
  <2>1. stream # <<>> /\ stream' = Tail(stream) /\ sent' = sent
    BY <1>6 DEF Synchronise, ReadHeader, ReadPayload, GetByte
  <2>2. IsSeq(stream')
    BY <1>1, <2>1, TailOfSeq
  <2>3. /\ IsSeq(Append(header, y)) /\ IsSeq(Append(payload, y))
        /\ \A e : IsSeq(Append(dispatched, e))
    BY <1>1, AppendToSeq
  <2>4. dropped' = dropped
    BY <1>6 DEF Synchronise, ReadHeader, ReadPayload
  <2>5. header' = <<>> \/ header' = Append(header, y) \/ header' = header
    BY <1>6 DEF Synchronise, ReadHeader, ReadPayload
  <2>6. payload' = <<>> \/ payload' = Append(payload, y) \/ payload' = payload
    BY <1>6 DEF Synchronise, ReadHeader, ReadPayload
  <2>7. dispatched' = dispatched \/ \E e : dispatched' = Append(dispatched, e)
    BY <1>6 DEF Synchronise, ReadHeader, ReadPayload
  <2>8. IsSeq(header') /\ IsSeq(payload') /\ IsSeq(dispatched')
    BY <1>1, <1>2, <2>3, <2>5, <2>6, <2>7
  <2> QED
    BY <1>1, <2>1, <2>2, <2>4, <2>8 DEF StreamInv
<1>7. CASE TxReadCtrl \/ TxWriteCtrl \/ RxReadCtrl \/ RxWriteCtrl
  <2>1. UNCHANGED <<stream, header, payload, sent, dispatched, dropped>>
    BY <1>7 DEF TxReadCtrl, TxWriteCtrl, RxReadCtrl, RxWriteCtrl, reader
  <2> QED
    BY <1>4, <2>1
<1>8. CASE UNCHANGED vars
  <2>1. UNCHANGED <<stream, header, payload, sent, dispatched, dropped>>
    BY <1>8 DEF vars, reader
  <2> QED
    BY <1>4, <2>1
<1> QED
  BY <1>3, <1>5, <1>6, <1>7, <1>8 DEF Next, RpcTask

(* Frames are sent and given up, never unsent.                             *)
LEMMA MuteBefore ==
  ASSUME StreamInv, [Next]_vars, AllMute'
  PROVE  AllMute
<1>1. IsSeq(sent) /\ IsSeq(dropped)
  BY DEF StreamInv
<1>2. sent' = sent \/ \E e : sent' = Append(sent, e)
  BY DEF Next, RpcTask, WriteFrame, TxReadCtrl, TxWriteCtrl, RxReadCtrl,
         RxWriteCtrl, NoMemory, Synchronise, ReadHeader, ReadPayload, GetByte,
         vars
<1>3. dropped' = dropped \/ \E e : dropped' = Append(dropped, e)
  BY DEF Next, RpcTask, WriteFrame, TxReadCtrl, TxWriteCtrl, RxReadCtrl,
         RxWriteCtrl, NoMemory, Synchronise, ReadHeader, ReadPayload, GetByte,
         reader, vars
<1>4. ASSUME NEW s, NEW t, IsSeq(s), t = s \/ \E e : t = Append(s, e)
      PROVE  /\ Len(t) \in Nat /\ Len(s) <= Len(t)
             /\ \A i \in 1 .. Len(s) : t[i] = s[i]
  <2>1. CASE t = s
    <3>1. Len(s) \in Nat
      BY <1>4 DEF IsSeq
    <3> QED
      BY <2>1, <3>1
  <2>2. CASE \E e : t = Append(s, e)
    <3>1. PICK e : t = Append(s, e)
      BY <2>2
    <3>2. /\ Len(s) \in Nat /\ Len(t) = Len(s) + 1
          /\ \A i \in 1 .. Len(s) : t[i] = s[i]
      BY <1>4, <3>1, AppendToSeq
    <3> QED
      BY <3>2
  <2> QED
    BY <1>4, <2>1, <2>2
<1>5. /\ Len(sent') \in Nat /\ Len(sent) <= Len(sent')
      /\ \A i \in 1 .. Len(sent) : sent'[i] = sent[i]
  BY <1>1, <1>2, <1>4
<1>6. /\ Len(dropped') \in Nat /\ Len(dropped) <= Len(dropped')
      /\ \A i \in 1 .. Len(dropped) : dropped'[i] = dropped[i]
  BY <1>1, <1>3, <1>4
<1> QED
  BY <1>1, <1>5, <1>6, KeepsMute

(* Where the reader is in the stream is kept by every step.                *)
LEMMA ReadStep == ReadInv /\ [Next]_vars => ReadInv'
<1> SUFFICES ASSUME ReadInv, [Next]_vars PROVE ReadInv'
  OBVIOUS
<1>1. StreamInv /\ StreamInv'
  BY StreamStep DEF ReadInv
<1>2. SUFFICES ASSUME AllMute' PROVE \E b, k, c : Reading(b, k, c)'
  BY <1>1 DEF ReadInv
<1>3. AllMute
  BY <1>1, <1>2, MuteBefore
<1>4. PICK b, k, c : Reading(b, k, c)
  BY <1>3 DEF ReadInv
<1>5. CASE WriteFrame
  <2>1. PICK f :
          /\ f.payload \in Seq(0 .. 255)
          /\ f = [type |-> Response, service |-> 1, command |-> 3,
                  id |-> Len(sent) + 1, payload |-> f.payload]
          /\ sent' = Append(sent, f) /\ stream' = stream \o Encode(f)
          /\ UNCHANGED <<header, payload, dispatched, dropped>>
    BY <1>1, <1>5, Writes
  <2> QED
    BY <1>1, <1>4, <2>1, WriteFrameReads
<1>6. CASE UNCHANGED <<stream, header, payload, sent, dispatched, dropped>>
  <2>1. \A m : /\ Lost(m)' = Lost(m) /\ Kept(m)' = Kept(m)
               /\ Size(m)' = Size(m) /\ DropsTo(m)' = DropsTo(m)
    BY <1>6 DEF Lost, Kept, Size, DropsTo
  <2>2. Laid(b)' = Laid(b) /\ Counts(k)' = Counts(k)
    BY <1>6, <2>1 DEF Laid, Counts
  <2>3. /\ ReadsHeader(k, c)' = ReadsHeader(k, c)
        /\ ReadsPayload(k, c)' = ReadsPayload(k, c)
        /\ Skips(k, c)' = Skips(k, c)
    BY <1>6, <2>1 DEF ReadsHeader, ReadsPayload, Skips
  <2>4. Reading(b, k, c)'
    BY <1>4, <1>6, <2>1, <2>2, <2>3 DEF Reading
  <2> QED
    BY <2>4
<1>7. CASE NoMemory
  BY <1>1, <1>4, <1>7, NoMemoryReads
<1>8. ASSUME NEW y, Synchronise(y)
      PROVE  \E d, l, e : Reading(d, l, e)'
  BY <1>1, <1>3, <1>4, <1>8, SynchroniseReads
<1>9. ASSUME NEW y, ReadHeader(y)
      PROVE  \E d, l, e : Reading(d, l, e)'
  BY <1>1, <1>3, <1>4, <1>9, ReadHeaderReads
<1>10. ASSUME NEW y, ReadPayload(y)
       PROVE  \E d, l, e : Reading(d, l, e)'
  BY <1>1, <1>3, <1>4, <1>10, ReadPayloadReads
<1>11. CASE TxReadCtrl \/ TxWriteCtrl \/ RxReadCtrl \/ RxWriteCtrl
  <2>1. UNCHANGED <<stream, header, payload, sent, dispatched, dropped>>
    BY <1>11 DEF TxReadCtrl, TxWriteCtrl, RxReadCtrl, RxWriteCtrl, reader
  <2> QED
    BY <1>6, <2>1
<1>12. CASE UNCHANGED vars
  <2>1. UNCHANGED <<stream, header, payload, sent, dispatched, dropped>>
    BY <1>12 DEF vars, reader
  <2> QED
    BY <1>6, <2>1
<1> QED
  BY <1>5, <1>7, <1>8, <1>9, <1>10, <1>11, <1>12 DEF Next, RpcTask

(* At first there is nothing to read.                                      *)
LEMMA ReadInit == Init => ReadInv
<1> SUFFICES ASSUME Init PROVE ReadInv
  OBVIOUS
<1>1. /\ stream = <<>> /\ header = <<>> /\ payload = <<>>
      /\ sent = <<>> /\ dispatched = <<>> /\ dropped = <<>>
  BY DEF Init
<1>2. /\ IsSeq(sent) /\ IsSeq(stream) /\ IsSeq(dispatched) /\ IsSeq(dropped)
      /\ IsSeq(header) /\ IsSeq(payload)
      /\ Len(sent) = 0 /\ Len(stream) = 0 /\ Len(dispatched) = 0
      /\ Len(dropped) = 0 /\ Len(header) = 0
  BY <1>1, EmptyIsSeq
<1>3. StreamInv
  BY <1>2 DEF StreamInv
<1>4. PICK b : b = [m \in {1} |-> 1]
  OBVIOUS
<1>5. Laid(b)
  <2>1. b[1] = 1
    BY <1>4
  <2> QED
    BY <1>2, <2>1 DEF Laid
<1>6. Counts(1)
  <2>1. Kept(0) = {}
    BY DEF Kept
  <2>2. Cardinality(Kept(0)) = 0
    BY <2>1, FS_EmptySet
  <2> QED
    BY <1>2, <2>2 DEF Counts
<1>7. ReadsHeader(1, 0)
  BY <1>1, <1>2 DEF ReadsHeader, DropsTo, HeaderSize
<1>8. Reading(b, 1, 0)
  <2>1. b[1] = 1 - 0 /\ 1 \in 1 .. Len(sent) + 1
    BY <1>2, <1>4
  <2> QED
    BY <1>5, <1>6, <1>7, <2>1 DEF Reading
<1> QED
  BY <1>3, <1>8 DEF ReadInv

(* As long as the frames there was no memory for hold no SOF0 byte, what   *)
(* rpc_task dispatches are the frames the host wrote, in order, less those *)
(* frames, however the bytes arrive.                                       *)
THEOREM FramesArriveWhole == Spec => []FramesComeThrough
<1>1. ReadInv => FramesComeThrough
  <2> SUFFICES ASSUME ReadInv, AllMute
               PROVE  \A i \in 1 .. Len(dispatched) : \E m \in 1 .. Len(sent) :
                 ~Lost(m) /\ dispatched[i] = sent[m]
                 /\ i = Cardinality(Kept(m))
    BY DEF FramesComeThrough, AllMute
  <2>1. PICK b, k, c : Reading(b, k, c)
    BY DEF ReadInv
  <2>2. k \in 1 .. Len(sent) + 1 /\ Counts(k)
    BY <2>1 DEF Reading
  <2>3. Len(sent) \in Nat
    BY DEF ReadInv, StreamInv, IsSeq
  <2>4. \A m \in 1 .. k - 1 : m \in 1 .. Len(sent)
    BY <2>2, <2>3
  <2> QED
    BY <2>2, <2>4 DEF Counts
<1> QED
  BY <1>1, ReadInit, ReadStep, PTL DEF Spec

-----------------------------------------------------------------------------
(* The clock's arithmetic.                                                 *)

(* A number is a multiple of w and a rest smaller than w.                  *)
LEMMA Quotient ==
  ASSUME NEW n \in Int, NEW w \in Nat \ {0}
  PROVE  /\ n \div w \in Int /\ n % w \in 0 .. w - 1
         /\ n = w * (n \div w) + (n % w)
OBVIOUS

(* A quotient is the only one.                                             *)
LEMMA OneQuotient ==
  ASSUME NEW w \in Nat \ {0}, NEW a \in Int, NEW b \in Int,
         NEW r \in 0 .. w - 1, NEW s \in 0 .. w - 1, w * a + r = w * b + s
  PROVE  a = b
<1>1. PICK z : z = a - b
  OBVIOUS
<1>2. z \in Int /\ w * z = w * a - w * b
  BY <1>1
<1>3. PICK m, x, y : m = w * z /\ x = w * a /\ y = w * b
  OBVIOUS
<1>4. m \in Int /\ m < w /\ - w < m
  <2>1. x \in Int /\ y \in Int /\ m = x - y /\ x + r = y + s
    BY <1>2, <1>3
  <2> QED
    BY <2>1
<1>5. ~(z >= 1)
  <2> SUFFICES ASSUME z >= 1 PROVE FALSE
    OBVIOUS
  <2>1. w * z >= w
    BY <1>2
  <2> QED
    BY <1>3, <1>4, <2>1
<1>6. ~(z <= - 1)
  <2> SUFFICES ASSUME z <= - 1 PROVE FALSE
    OBVIOUS
  <2>1. w * z <= - w
    BY <1>2
  <2> QED
    BY <1>3, <1>4, <2>1
<1> QED
  BY <1>1, <1>2, <1>5, <1>6

(* Adding a multiple adds to the quotient.                                 *)
LEMMA QuotientOfSum ==
  ASSUME NEW r \in Int, NEW k \in Int, NEW w \in Nat \ {0}
  PROVE  (r + k * w) \div w = (r \div w) + k
<1>1. PICK q, x, y, p, n : /\ q = r \div w /\ x = r % w /\ n = r + k * w
                           /\ p = n \div w /\ y = n % w
  OBVIOUS
<1>2. q \in Int /\ x \in 0 .. w - 1 /\ r = w * q + x
  BY <1>1, Quotient
<1>3. n \in Int
  BY <1>1
<1>4. p \in Int /\ y \in 0 .. w - 1 /\ n = w * p + y
  BY <1>1, <1>3, Quotient
<1>5. w * (q + k) = w * q + k * w
  BY <1>2
<1>6. w * p + y = w * (q + k) + x
  BY <1>1, <1>2, <1>4, <1>5
<1>7. p = q + k
  BY <1>2, <1>4, <1>6, OneQuotient
<1> QED
  BY <1>1, <1>7

(* A later number has the larger quotient, by what is between them.        *)
LEMMA QuotientsDiffer ==
  ASSUME NEW k \in Nat, NEW j \in Nat, NEW l \in Nat, j <= l,
         NEW w \in Nat \ {0}
  PROVE  /\ k \div w <= (k + j) \div w
         /\ (k + j) \div w <= (k \div w) + (l \div w) + 1
<1>1. PICK q, x : q = k \div w /\ x = k % w
  OBVIOUS
<1>2. PICK p, y : p = (k + j) \div w /\ y = (k + j) % w
  OBVIOUS
<1>3. PICK h, z : h = l \div w /\ z = l % w
  OBVIOUS
<1>4. /\ q \in Int /\ x \in 0 .. w - 1 /\ k = w * q + x
      /\ p \in Int /\ y \in 0 .. w - 1 /\ k + j = w * p + y
      /\ h \in Int /\ z \in 0 .. w - 1 /\ l = w * h + z
  <2>1. q \in Int /\ x \in 0 .. w - 1 /\ k = w * q + x
    BY <1>1, Quotient
  <2>2. p \in Int /\ y \in 0 .. w - 1 /\ k + j = w * p + y
    <3>1. PICK m : m = k + j
      OBVIOUS
    <3>2. m \in Int /\ p = m \div w /\ y = m % w
      BY <1>2, <3>1
    <3>3. p \in Int /\ y \in 0 .. w - 1 /\ m = w * p + y
      BY <3>2, Quotient
    <3> QED
      BY <3>1, <3>3
  <2>3. h \in Int /\ z \in 0 .. w - 1 /\ l = w * h + z
    BY <1>3, Quotient
  <2> QED
    BY <2>1, <2>2, <2>3
<1>5. q <= p
  <2> SUFFICES ASSUME p <= q - 1 PROVE FALSE
    BY <1>4
  <2>1. w * p <= w * (q - 1)
    BY <1>4
  <2>2. w * (q - 1) = w * q - w
    BY <1>4
  <2> QED
    BY <1>4, <2>1, <2>2
<1>6. p <= q + h + 1
  <2> SUFFICES ASSUME p >= q + h + 2 PROVE FALSE
    BY <1>4
  <2>1. w * p >= w * (q + h + 2)
    BY <1>4
  <2>2. w * (q + h + 2) = w * q + w * h + 2 * w
    BY <1>4
  <2> QED
    BY <1>4, <2>1, <2>2
<1> QED
  BY <1>1, <1>2, <1>3, <1>5, <1>6

(* ats_tick_get at tick n.                                                 *)
TickAt(n) == ((n * Second) % ClockWord) \div Second

(* Ticks between two readings, as long as the product has not wrapped.     *)
LEMMA TicksPassed ==
  ASSUME ClockAssumption, NEW e \in Nat, NEW n \in Nat, e <= n,
         (n * Second) \div ClockWord = (e * Second) \div ClockWord
  PROVE  (TickAt(n) - TickAt(e)) % ClockWord = n - e
<1>1. PICK w, s : w = ClockWord /\ s = Second
  OBVIOUS
<1>2. w \in Nat \ {0} /\ s \in Nat \ {0}
  BY <1>1 DEF ClockAssumption
<1>3. PICK x, y, q : /\ x = (e * s) % w /\ y = (n * s) % w
                     /\ q = (e * s) \div w
  OBVIOUS
<1>4. e * s \in Int /\ n * s \in Int
  BY <1>2
<1>5. /\ q \in Int /\ x \in 0 .. w - 1 /\ e * s = w * q + x
      /\ y \in 0 .. w - 1 /\ n * s = w * q + y
  <2>1. PICK a, b : a = e * s /\ b = n * s
    OBVIOUS
  <2>2. /\ a \in Int /\ b \in Int /\ x = a % w /\ y = b % w
        /\ q = a \div w /\ q = b \div w
    BY <1>1, <1>3, <1>4, <2>1
  <2>3. q \in Int /\ x \in 0 .. w - 1 /\ a = w * q + x
    BY <1>2, <2>2, Quotient
  <2>4. y \in 0 .. w - 1 /\ b = w * q + y
    BY <1>2, <2>2, Quotient
  <2> QED
    BY <2>1, <2>3, <2>4
<1>6. PICK k : k = n - e
  OBVIOUS
<1>7. k \in Nat /\ n = e + k
  BY <1>6
<1>8. n * s = e * s + k * s
  BY <1>2, <1>7
<1>9. y = x + k * s
  <2>1. PICK a, b, c, d : a = n * s /\ b = e * s /\ c = k * s /\ d = w * q
    OBVIOUS
  <2>2. /\ a \in Int /\ b \in Int /\ c \in Int /\ d \in Int
    BY <1>2, <1>4, <1>5, <1>7, <2>1
  <2>3. a = b + c /\ b = d + x /\ a = d + y
    BY <1>5, <1>8, <2>1
  <2>4. x \in Int /\ y \in Int
    BY <1>2, <1>5
  <2>5. y = x + c
    BY <2>2, <2>3, <2>4
  <2> QED
    BY <2>1, <2>5
<1>10. y \div s = (x \div s) + k /\ x \div s \in Int
  <2>1. x \in Int /\ k \in Int
    BY <1>2, <1>5, <1>7
  <2>2. (x + k * s) \div s = (x \div s) + k
    BY <1>2, <2>1, QuotientOfSum
  <2>3. x \div s \in Int
    BY <1>2, <2>1, Quotient
  <2> QED
    BY <1>9, <2>2, <2>3
<1>11. k < w
  <2>1. k * s >= k
    BY <1>2, <1>7
  <2> QED
    BY <1>2, <1>5, <1>7, <1>9, <2>1
<1>12. TickAt(n) = y \div s /\ TickAt(e) = x \div s
  BY <1>1, <1>3 DEF TickAt
<1>13. TickAt(n) - TickAt(e) = k
  BY <1>7, <1>10, <1>12
<1>14. k % w = k
  BY <1>2, <1>7, <1>11
<1> QED
  BY <1>1, <1>6, <1>13, <1>14

-----------------------------------------------------------------------------
(* What the clock's tasks know.                                            *)

Places == {"idle", "sum", "add", "asked", "served", "sample", "store"}

ClockTypes ==
  /\ now \in Nat /\ s_timestamp \in Int /\ s_timestamp_tick \in Int
  /\ at \in [ClockTasks -> Places] /\ local \in [ClockTasks -> Int]
  /\ began \in [ClockTasks -> Nat] /\ served \in [ClockTasks -> Nat]
  /\ alone \in SUBSET ClockTasks
  /\ ref \in [value : Int, at : Nat, took : Nat, end : Nat, alone : BOOLEAN]

(* The host reads its clock during the call, which ends later.             *)
ClockOrder ==
  /\ ref.at <= ref.end /\ ref.end <= now /\ ref.end - ref.at <= ref.took
  /\ \A t \in ClockTasks :
       /\ began[t] <= now /\ served[t] <= now
       /\ at[t] \in {"served", "sample"} => began[t] <= served[t]

(* A call that is alone finds and leaves no other under way.               *)
ClockAlone ==
  \A t \in alone : at[t] # "idle" =>
    \A u \in ClockTasks : u # t => at[u] = "idle"

(* The pair is that of the last synchronisation, if that was alone, as     *)
(* long as no other is under way.                                          *)
ClockSettled ==
  ref.alone /\ (\A t \in ClockTasks : at[t] \notin {"sample", "store"}) =>
    s_timestamp = ref.value /\ s_timestamp_tick = TickAt(ref.end)

ClockHeld ==
  \A t \in alone :
    /\ at[t] \in {"sample", "add"} => local[t] = s_timestamp
    /\ at[t] = "store" => s_timestamp = ref.value /\ local[t] = TickAt(ref.end)

ClockInv ==
  ClockTypes /\ ClockOrder /\ ClockAlone /\ ClockSettled /\ ClockHeld

(* ats_tick_get returns a number.                                          *)
LEMMA TickIsInt ==
  ASSUME ClockAssumption, NEW n \in Int
  PROVE  TickAt(n) \in Int
<1>1. PICK w, s : w = ClockWord /\ s = Second
  OBVIOUS
<1>2. w \in Nat \ {0} /\ s \in Nat \ {0}
  BY <1>1 DEF ClockAssumption
<1>3. PICK m : m = n * s
  OBVIOUS
<1>4. m \in Int
  BY <1>2, <1>3
<1>5. PICK r : r = m % w
  OBVIOUS
<1>6. r \in Int
  BY <1>2, <1>4, <1>5, Quotient
<1>7. r \div s \in Int
  BY <1>2, <1>6, Quotient
<1> QED
  BY <1>1, <1>3, <1>5, <1>7 DEF TickAt

(* A tick: what was settled before stays so.                               *)
LEMMA TickStep ==
  ASSUME ClockInv, Clock!Tick
  PROVE  ClockInv'
<1> USE DEF Clock!Tick, Clock!clock, Clock!history
<1>1. ClockTypes /\ ClockOrder /\ ClockAlone /\ ClockSettled /\ ClockHeld
  BY DEF ClockInv
<1>2. ClockTypes'
  BY <1>1 DEF ClockTypes, Places
<1>3. ClockOrder'
  BY <1>1 DEF ClockTypes, ClockOrder, Places
<1>4. ClockAlone'
  BY <1>1 DEF ClockTypes, ClockAlone, Places
<1>5. ClockSettled'
  BY <1>1 DEF ClockTypes, ClockSettled, Places
<1>6. ClockHeld'
  BY <1>1 DEF ClockTypes, ClockHeld, Places
<1> QED
  BY <1>2, <1>3, <1>4, <1>5, <1>6 DEF ClockInv

(* A call begins: it is alone if it finds no other under way.              *)
LEMMA GetKnownStep ==
  ASSUME ClockInv, NEW t \in ClockTasks, Clock!GetKnown(t)
  PROVE  ClockInv'
<1> USE DEF Clock!GetKnown, Clock!Go, Clock!Enter, Clock!clock
<1>1. ClockTypes /\ ClockOrder /\ ClockAlone /\ ClockSettled /\ ClockHeld
  BY DEF ClockInv
<1>2. ClockTypes'
  BY <1>1 DEF ClockTypes, Places
<1>3. ClockOrder'
  BY <1>1 DEF ClockTypes, ClockOrder, Places
<1>4. ClockAlone'
  BY <1>1 DEF ClockTypes, ClockAlone, Places
<1>5. ClockSettled'
  BY <1>1 DEF ClockTypes, ClockSettled, Places
<1>6. ClockHeld'
  BY <1>1 DEF ClockTypes, ClockHeld, Places
<1> QED
  BY <1>2, <1>3, <1>4, <1>5, <1>6 DEF ClockInv

(* A call alone reads the time of the settled pair.                        *)
LEMMA ReadTimestampStep ==
  ASSUME ClockInv, NEW t \in ClockTasks, Clock!ReadTimestamp(t)
  PROVE  ClockInv'
<1> USE DEF Clock!ReadTimestamp, Clock!Go, Clock!Hold, Clock!clock,
            Clock!history
<1>1. ClockTypes /\ ClockOrder /\ ClockAlone /\ ClockSettled /\ ClockHeld
  BY DEF ClockInv
<1>2. ClockTypes'
  BY <1>1 DEF ClockTypes, Places
<1>3. ClockOrder'
  BY <1>1 DEF ClockTypes, ClockOrder, Places
<1>4. ClockAlone'
  BY <1>1 DEF ClockTypes, ClockAlone, Places
<1>5. ClockSettled'
  BY <1>1 DEF ClockTypes, ClockSettled, Places
<1>6. ClockHeld'
  BY <1>1 DEF ClockTypes, ClockHeld, Places
<1> QED
  BY <1>2, <1>3, <1>4, <1>5, <1>6 DEF ClockInv

(* A reading ends and leaves the pair as it is.                            *)
LEMMA AddStep ==
  ASSUME ClockInv, NEW t \in ClockTasks, Clock!Add(t)
  PROVE  ClockInv'
<1> USE DEF Clock!Add, Clock!Go, Clock!Hold, Clock!Return, Clock!clock
<1>1. ClockTypes /\ ClockOrder /\ ClockAlone /\ ClockSettled /\ ClockHeld
  BY DEF ClockInv
<1>2. ClockTypes'
  BY <1>1 DEF ClockTypes, Places
<1>3. ClockOrder'
  BY <1>1 DEF ClockTypes, ClockOrder, Places
<1>4. ClockAlone'
  BY <1>1 DEF ClockTypes, ClockAlone, Places
<1>5. ClockSettled'
  BY <1>1 DEF ClockTypes, ClockSettled, Places
<1>6. ClockHeld'
  BY <1>1 DEF ClockTypes, ClockHeld, Places
<1> QED
  BY <1>2, <1>3, <1>4, <1>5, <1>6 DEF ClockInv

(* The host is asked: the pair is as it was.                               *)
LEMMA GetUnknownStep ==
  ASSUME ClockInv, NEW t \in ClockTasks, Clock!GetUnknown(t)
  PROVE  ClockInv'
<1> USE DEF Clock!GetUnknown, Clock!Go, Clock!Enter, Clock!clock
<1>1. ClockTypes /\ ClockOrder /\ ClockAlone /\ ClockSettled /\ ClockHeld
  BY DEF ClockInv
<1>2. ClockTypes'
  BY <1>1 DEF ClockTypes, Places
<1>3. ClockOrder'
  BY <1>1 DEF ClockTypes, ClockOrder, Places
<1>4. ClockAlone'
  BY <1>1 DEF ClockTypes, ClockAlone, Places
<1>5. ClockSettled'
  BY <1>1 DEF ClockTypes, ClockSettled, Places
<1>6. ClockHeld'
  BY <1>1 DEF ClockTypes, ClockHeld, Places
<1> QED
  BY <1>2, <1>3, <1>4, <1>5, <1>6 DEF ClockInv

(* The host reads its clock after the call began.                          *)
LEMMA HostAnswersStep ==
  ASSUME ClockAssumption, ClockInv, NEW t \in ClockTasks, Clock!HostAnswers(t)
  PROVE  ClockInv'
<1> USE DEF Clock!HostAnswers, Clock!Go, Clock!Hold, Clock!clock
<1>1. ClockTypes /\ ClockOrder /\ ClockAlone /\ ClockSettled /\ ClockHeld
  BY DEF ClockInv
<1>2. ClockTypes'
  <2>1. now \div Second \in Int /\ Epoch \in Int
    BY <1>1, Quotient DEF ClockTypes, ClockAssumption
  <2>2. Epoch + now \div Second \in Int
    BY <2>1
  <2> QED
    BY <1>1, <2>2 DEF ClockTypes, Places
<1>3. ClockOrder'
  BY <1>1 DEF ClockTypes, ClockOrder, Places
<1>4. ClockAlone'
  BY <1>1 DEF ClockTypes, ClockAlone, Places
<1>5. ClockSettled'
  BY <1>1 DEF ClockTypes, ClockSettled, Places
<1>6. ClockHeld'
  BY <1>1 DEF ClockTypes, ClockHeld, Places
<1> QED
  BY <1>2, <1>3, <1>4, <1>5, <1>6 DEF ClockInv

(* From here until the tick is stored too, the pair is mixed.              *)
LEMMA StoreTimestampStep ==
  ASSUME ClockInv, NEW t \in ClockTasks, Clock!StoreTimestamp(t)
  PROVE  ClockInv'
<1> USE DEF Clock!StoreTimestamp, Clock!Go, Clock!history
<1>1. ClockTypes /\ ClockOrder /\ ClockAlone /\ ClockSettled /\ ClockHeld
  BY DEF ClockInv
<1>2. ClockTypes'
  BY <1>1 DEF ClockTypes, Places
<1>3. ClockOrder'
  BY <1>1 DEF ClockTypes, ClockOrder, Places
<1>4. ClockAlone'
  BY <1>1 DEF ClockTypes, ClockAlone, Places
<1>5. ClockSettled'
  BY <1>1 DEF ClockTypes, ClockSettled, Places
<1>6. ClockHeld'
  <2>1. at[t] = "served" /\ at' \in [ClockTasks -> Places] /\ at'[t] = "sample"
        /\ \A u \in ClockTasks : u # t => at'[u] = at[u]
    BY <1>1 DEF ClockTypes, Places
  <2>2. \A u \in alone : u \in ClockTasks /\ (u # t => at[u] = "idle")
    BY <1>1, <2>1 DEF ClockTypes, ClockAlone
  <2>3. ASSUME NEW u \in alone
        PROVE  /\ at'[u] \in {"sample", "add"} => local'[u] = s_timestamp'
               /\ at'[u] # "store"
    <3>1. CASE u = t
      BY <2>1, <3>1
    <3>2. CASE u # t
      BY <2>1, <2>2, <3>2
    <3> QED
      BY <3>1, <3>2
  <2> QED
    BY <2>3 DEF ClockHeld
<1> QED
  BY <1>2, <1>3, <1>4, <1>5, <1>6 DEF ClockInv

(* A call that is not answered leaves the pair as it is.                   *)
LEMMA GetFailsStep ==
  ASSUME ClockInv, NEW t \in ClockTasks, Clock!GetFails(t)
  PROVE  ClockInv'
<1> USE DEF Clock!GetFails, Clock!Go, Clock!Hold, Clock!Return, Clock!clock
<1>1. ClockTypes /\ ClockOrder /\ ClockAlone /\ ClockSettled /\ ClockHeld
  BY DEF ClockInv
<1>2. ClockTypes'
  BY <1>1 DEF ClockTypes, Places
<1>3. ClockOrder'
  BY <1>1 DEF ClockTypes, ClockOrder, Places
<1>4. ClockAlone'
  BY <1>1 DEF ClockTypes, ClockAlone, Places
<1>5. ClockSettled'
  BY <1>1 DEF ClockTypes, ClockSettled, Places
<1>6. ClockHeld'
  BY <1>1 DEF ClockTypes, ClockHeld, Places
<1> QED
  BY <1>2, <1>3, <1>4, <1>5, <1>6 DEF ClockInv

(* The pair is to be the time stored and the tick of this moment.          *)
LEMMA SampleTickStep ==
  ASSUME ClockAssumption, ClockInv, NEW t \in ClockTasks, Clock!SampleTick(t)
  PROVE  ClockInv'
<1> USE DEF Clock!SampleTick, Clock!Go, Clock!Hold, Clock!clock
<1>1. ClockTypes /\ ClockOrder /\ ClockAlone /\ ClockSettled /\ ClockHeld
  BY DEF ClockInv
<1>2. TickAt(now) \in Int /\ Clock!TickGet = TickAt(now)
  BY <1>1, TickIsInt DEF ClockTypes, TickAt, Clock!TickGet
<1>3. ClockTypes'
  <2>1. PICK v, s, b : v = local[t] /\ s = served[t] /\ b = now - began[t]
    OBVIOUS
  <2>2. v \in Int /\ s \in Nat /\ b \in Nat /\ now \in Nat
    BY <1>1, <2>1 DEF ClockTypes, ClockOrder
  <2>3. ref' = [value |-> v, at |-> s, took |-> b, end |-> now,
                alone |-> FALSE]
    BY <2>1
  <2>4. ref' \in [value : Int, at : Nat, took : Nat, end : Nat,
                  alone : BOOLEAN]
    BY <2>2, <2>3
  <2> QED
    BY <1>1, <1>2, <2>4 DEF ClockTypes, Places
<1>4. ClockOrder'
  BY <1>1, <1>2 DEF ClockTypes, ClockOrder, Places
<1>5. ClockAlone'
  BY <1>1, <1>2 DEF ClockTypes, ClockAlone, Places
<1>6. ClockSettled'
  BY <1>1, <1>2 DEF ClockTypes, ClockSettled, Places
<1>7. ClockHeld'
  <2>1. at[t] = "sample" /\ at' \in [ClockTasks -> Places] /\ at'[t] = "store"
        /\ \A u \in ClockTasks : u # t => at'[u] = at[u]
    BY <1>1 DEF ClockTypes, Places
  <2>2. \A u \in alone : u \in ClockTasks /\ (u # t => at[u] = "idle")
    BY <1>1, <2>1 DEF ClockTypes, ClockAlone
  <2>3. t \in alone => local[t] = s_timestamp
    BY <1>1, <2>1 DEF ClockHeld
  <2>4. /\ ref'.value = local[t] /\ ref'.end = now
        /\ local'[t] = Clock!TickGet /\ s_timestamp' = s_timestamp
    BY <1>1 DEF ClockTypes
  <2>5. ASSUME NEW u \in alone
        PROVE  /\ at'[u] \notin {"sample", "add"}
               /\ at'[u] = "store" => /\ s_timestamp' = ref'.value
                                      /\ local'[u] = TickAt(ref'.end)
    <3>1. CASE u = t
      BY <1>2, <2>1, <2>3, <2>4, <3>1
    <3>2. CASE u # t
      BY <2>1, <2>2, <3>2
    <3> QED
      BY <3>1, <3>2
  <2>6. TickAt(ref.end)' = TickAt(ref'.end)
    BY DEF TickAt
  <2> QED
    BY <2>5, <2>6 DEF ClockHeld
<1> QED
  BY <1>3, <1>4, <1>5, <1>6, <1>7 DEF ClockInv

(* The pair is settled again, if no other call was under way.              *)
LEMMA StoreTickStep ==
  ASSUME ClockInv, NEW t \in ClockTasks, Clock!StoreTick(t)
  PROVE  ClockInv'
<1> USE DEF Clock!StoreTick, Clock!Go, Clock!Hold, Clock!Return
<1>1. ClockTypes /\ ClockOrder /\ ClockAlone /\ ClockSettled /\ ClockHeld
  BY DEF ClockInv
<1>2. ClockTypes'
  <2>1. PICK a : a = (t \in alone)
    OBVIOUS
  <2>2. a \in BOOLEAN
    BY <2>1
  <2>3. ref' = [ref EXCEPT !.alone = a]
    BY <2>1
  <2>4. ref \in [value : Int, at : Nat, took : Nat, end : Nat, alone : BOOLEAN]
    BY <1>1 DEF ClockTypes
  <2> HIDE <1>1
  <2>5. ref' \in [value : Int, at : Nat, took : Nat, end : Nat,
                  alone : BOOLEAN]
    BY <2>2, <2>3, <2>4
  <2> QED
    BY <1>1, <2>5 DEF ClockTypes, Places
<1>3. ClockOrder'
  BY <1>1 DEF ClockTypes, ClockOrder, Places
<1>4. ClockAlone'
  BY <1>1 DEF ClockTypes, ClockAlone, Places
<1>5. ClockSettled'
  <2>1. at[t] = "store"
    BY DEF ClockTypes
  <2>2. PICK a : a = (t \in alone)
    OBVIOUS
  <2>3. ref' = [ref EXCEPT !.alone = a]
    BY <2>2
  <2>4. ref'.alone = a /\ ref'.value = ref.value /\ ref'.end = ref.end
    BY <1>1, <2>3 DEF ClockTypes
  <2>5. ref'.alone => t \in alone
    BY <2>2, <2>4, Zenon
  <2>6. t \in alone => s_timestamp = ref.value /\ local[t] = TickAt(ref.end)
    BY <1>1, <2>1 DEF ClockHeld
  <2>7. s_timestamp' = s_timestamp /\ s_timestamp_tick' = local[t]
    OBVIOUS
  <2>8. TickAt(ref.end)' = TickAt(ref'.end)
    BY DEF TickAt
  <2> QED
    BY <2>4, <2>5, <2>6, <2>7, <2>8 DEF ClockSettled
<1>6. ClockHeld'
  BY <1>1 DEF ClockTypes, ClockHeld, Places
<1> QED
  BY <1>2, <1>3, <1>4, <1>5, <1>6 DEF ClockInv

(* The time is set at the start of the call.                               *)
LEMMA DatetimeSetStep ==
  ASSUME ClockAssumption, ClockInv, NEW t \in ClockTasks, NEW v \in SetTo,
         Clock!DatetimeSet(t, v)
  PROVE  ClockInv'
<1> USE DEF Clock!DatetimeSet, Clock!Go, Clock!Enter, Clock!Hold
<1>1. ClockTypes /\ ClockOrder /\ ClockAlone /\ ClockSettled /\ ClockHeld
  BY DEF ClockInv
<1>2. ClockTypes'
  <2>1. v \in Int
    BY DEF ClockAssumption
  <2> QED
    BY <1>1, <2>1 DEF ClockTypes, Places
<1>3. ClockOrder'
  BY <1>1 DEF ClockTypes, ClockOrder, Places
<1>4. ClockAlone'
  BY <1>1 DEF ClockTypes, ClockAlone, Places
<1>5. ClockSettled'
  BY <1>1 DEF ClockTypes, ClockSettled, Places
<1>6. ClockHeld'
  BY <1>1 DEF ClockTypes, ClockHeld, Places
<1> QED
  BY <1>2, <1>3, <1>4, <1>5, <1>6 DEF ClockInv

(* Every step of the clock keeps what is known, and so do the others.      *)
LEMMA ClockInvStep ==
  ClockAssumption /\ ClockInv /\ [AllNext]_allVars => ClockInv'
<1> SUFFICES ASSUME ClockAssumption, ClockInv, [AllNext]_allVars
             PROVE  ClockInv'
  OBVIOUS
<1>1. CASE Clock!Next
  <2>1. ASSUME NEW t \in ClockTasks,
               \/ Clock!GetKnown(t) \/ Clock!ReadTimestamp(t) \/ Clock!Add(t)
               \/ Clock!GetUnknown(t) \/ Clock!HostAnswers(t)
        PROVE  ClockInv'
    BY <2>1, GetKnownStep, ReadTimestampStep, AddStep, GetUnknownStep,
       HostAnswersStep
  <2>2. ASSUME NEW t \in ClockTasks,
               \/ Clock!StoreTimestamp(t) \/ Clock!GetFails(t)
               \/ Clock!SampleTick(t) \/ Clock!StoreTick(t)
        PROVE  ClockInv'
    BY <2>2, StoreTimestampStep, GetFailsStep, SampleTickStep, StoreTickStep
  <2>3. ASSUME NEW t \in ClockTasks, NEW v \in SetTo, Clock!DatetimeSet(t, v)
        PROVE  ClockInv'
    BY <2>3, DatetimeSetStep
  <2>4. CASE Clock!Tick
    BY <2>4, TickStep
  <2> QED
    BY <1>1, <2>1, <2>2, <2>3, <2>4 DEF Clock!Next
<1>2. CASE UNCHANGED clockVars
  BY <1>2 DEF clockVars, ClockInv, ClockTypes, ClockOrder, ClockAlone,
              ClockSettled, ClockHeld, TickAt
<1> QED
  BY <1>1, <1>2 DEF AllNext, Channel, SendFrames, KeepTime, DrawBitmaps,
    allVars

(* The clock starts unset.                                                 *)
LEMMA ClockInvInit == AllInit => ClockInv
<1> SUFFICES ASSUME Clock!Init PROVE ClockInv
  BY DEF AllInit
<1> QED
  BY DEF Clock!Init, ClockInv, ClockTypes, ClockOrder, ClockAlone,
         ClockSettled, ClockHeld, Places

(* A reading that crosses no call, of a clock set by one that crossed none.*)
LEMMA ReadingIsRight ==
  ASSUME ClockAssumption, ClockInv, NEW t \in ClockTasks, Clock!Add(t),
         t \in alone, ref.alone, Clock!NoWrapSince
  PROVE  Clock!Sum(t) \in
           Clock!TrueTime - 1 - ref.took \div Second .. Clock!TrueTime
<1>1. ClockTypes /\ ClockOrder /\ ClockAlone /\ ClockSettled /\ ClockHeld
  BY DEF ClockInv
<1>2. at[t] = "add"
  BY DEF Clock!Add, Clock!Go
<1>3. \A u \in ClockTasks : at[u] \notin {"sample", "store"}
  BY <1>1, <1>2 DEF ClockAlone
<1>4. /\ s_timestamp = ref.value /\ s_timestamp_tick = TickAt(ref.end)
      /\ local[t] = s_timestamp
  BY <1>1, <1>2, <1>3 DEF ClockSettled, ClockHeld
<1>5. PICK v, a, e, l, n, s : /\ v = ref.value /\ a = ref.at /\ e = ref.end
                              /\ l = ref.took /\ n = now /\ s = Second
  OBVIOUS
<1>6. /\ v \in Int /\ a \in Nat /\ e \in Nat /\ l \in Nat /\ n \in Nat
      /\ a <= e /\ e <= n /\ e - a <= l /\ s \in Nat \ {0}
  BY <1>1, <1>5 DEF ClockTypes, ClockOrder, ClockAssumption
<1>7. (n * Second) \div ClockWord = (e * Second) \div ClockWord
  BY <1>5 DEF Clock!NoWrapSince
<1>8. (TickAt(n) - TickAt(e)) % ClockWord = n - e
  BY <1>6, <1>7, TicksPassed
<1>9. Clock!TickGet = TickAt(n)
  BY <1>5 DEF Clock!TickGet, TickAt
<1>10. Clock!Sum(t) = v + ((n - e) \div s)
  BY <1>4, <1>5, <1>8, <1>9 DEF Clock!Sum
<1>11. PICK k, j : k = n - e /\ j = e - a
  OBVIOUS
<1>12. k \in Nat /\ j \in Nat /\ j <= l /\ k + j = n - a /\ k = n - e
  BY <1>6, <1>11
<1>13. /\ k \div s <= (k + j) \div s
       /\ (k + j) \div s <= (k \div s) + (l \div s) + 1
  BY <1>6, <1>12, QuotientsDiffer
<1>14. PICK x, y, z : x = k \div s /\ y = (k + j) \div s /\ z = l \div s
  OBVIOUS
<1>15. x \in Int /\ y \in Int /\ z \in Int
  <2>1. k \in Int /\ l \in Int /\ k + j \in Int
    BY <1>6, <1>12
  <2>2. PICK m : m = k + j
    OBVIOUS
  <2>3. m \div s \in Int
    BY <1>6, <2>1, <2>2, Quotient
  <2> QED
    BY <1>6, <1>14, <2>1, <2>2, <2>3, Quotient
<1>16. v + x \in v + y - 1 - z .. v + y
  BY <1>6, <1>13, <1>14, <1>15
<1>17. (n - e) \div s = x /\ (n - a) \div s = y
  BY <1>12, <1>14
<1>18. Clock!Sum(t) = v + x /\ Clock!TrueTime = v + y
  BY <1>5, <1>10, <1>17 DEF Clock!TrueTime
<1>19. ref.took \div Second = z
  BY <1>5, <1>14
<1>20. PICK h, m, r : /\ h = Clock!TrueTime /\ m = Clock!Sum(t)
                      /\ r = ref.took \div Second
  OBVIOUS
<1>21. m \in h - 1 - r .. h
  BY <1>6, <1>15, <1>16, <1>18, <1>19, <1>20
<1> QED
  BY <1>20, <1>21

(* A task that reads the clock while no other sets or reads it, after it   *)
(* was set by such a call, gets the time, less at most a second and what   *)
(* setting it took, until the product of ticks wraps: for every tick rate, *)
(* width of the word and number of tasks.                                  *)
THEOREM ClockStaysTrue == AllSpec => ClockIsTrue
<1>1. ClockAssumption /\ ClockInv /\ [AllNext]_allVars =>
        [Clock!ReadsRight]_allVars
  <2> SUFFICES ASSUME ClockAssumption, ClockInv
               PROVE  Clock!ReadsRight
    OBVIOUS
  <2> QED
    BY ReadingIsRight DEF Clock!ReadsRight
<1> QED
  BY <1>1, ClockAssumption, ClockInvInit, ClockInvStep, PTL
     DEF AllSpec, ClockIsTrue

-----------------------------------------------------------------------------
(* The channel of AtsServices is that of AtsDownlink.                      *)
LEMMA ServicesHaveTheChannel == AllSpec => Spec
<1>1. AllInit => Init
  BY DEF AllInit
<1>2. [AllNext]_allVars => [Next]_vars
  BY DEF AllNext, Channel, SendFrames, KeepTime, DrawBitmaps, allVars,
    channelVars
<1> QED
  BY <1>1, <1>2, PTL DEF AllSpec, Spec

(* What was proved of the channel is true of it among the services too.    *)
THEOREM ServicesKeepTheChannel ==
  AllSpec => StaysListening /\ []FramesComeThrough
BY ServicesHaveTheChannel, ListeningIsForGood, FramesArriveWhole, PTL

-----------------------------------------------------------------------------
(* Frames to the host.                                                     *)

Octets == Seq(0 .. 255)
Long(f) == 8 + Len(f.payload)

IsFrame(f) ==
  /\ f.payload \in Octets /\ Len(f.payload) < 65536
  /\ {f.type, f.service, f.command, f.id} \subseteq 0 .. 255
  /\ f = [type |-> f.type, service |-> f.service, command |-> f.command,
          id |-> f.id, payload |-> f.payload]

(* e are the bytes of f.                                                   *)
Spells(e, f) ==
  /\ e \in Octets /\ Len(e) = Long(f) /\ Long(f) \in Nat /\ Long(f) >= 8
  /\ e[1] = SOF0 /\ e[2] = SOF1 /\ e[3] = f.type /\ e[4] = f.service
  /\ e[5] = f.command /\ e[6] = f.id
  /\ e[7] + 256 * e[8] = Len(f.payload)
  /\ \A i \in 1 .. Len(f.payload) : e[8 + i] = f.payload[i]

(* The firmware writes the bytes of a frame.                               *)
LEMMA FrameIsSpelt ==
  ASSUME NEW f, IsFrame(f)
  PROVE  Spells(Uplink!Encode(f), f)
<1>1. PICK e, p, l : e = Encode(f) /\ p = f.payload /\ l = Len(p)
  OBVIOUS
<1>2. Uplink!Encode(f) = e
  BY <1>1 DEF Encode, Uplink!Encode, SOF0, SOF1, Uplink!SOF0, Uplink!SOF1
<1>3. p \in Octets /\ l \in Nat /\ l < 65536
  BY <1>1 DEF IsFrame, Octets
<1>4. Encodes(e, f)
  BY <1>1, <1>3, EncodeIs DEF Octets
<1>5. /\ Len(e) = 8 + l /\ e[1] = SOF0 /\ e[2] = SOF1 /\ e[3] = f.type
      /\ e[4] = f.service /\ e[5] = f.command /\ e[6] = f.id
      /\ e[7] = l % 256 /\ e[8] = l \div 256
      /\ \A i \in 1 .. l : e[8 + i] = p[i]
  BY <1>1, <1>4 DEF Encodes, HeaderSize
<1>6. /\ l % 256 \in 0 .. 255 /\ l \div 256 \in 0 .. 255
      /\ (l % 256) + 256 * (l \div 256) = l
  BY <1>3
<1>7. e[7] + 256 * e[8] = l
  BY <1>5, <1>6
<1>8. PICK a, b, c, d, x, y : /\ a = f.type /\ b = f.service /\ c = f.command
                              /\ d = f.id /\ x = l % 256 /\ y = l \div 256
  OBVIOUS
<1>9. /\ {a, b, c, d, x, y} \subseteq 0 .. 255
      /\ SOF0 \in 0 .. 255 /\ SOF1 \in 0 .. 255
  BY <1>6, <1>8 DEF IsFrame, SOF0, SOF1
<1>10. e = <<SOF0, SOF1, a, b, c, d, x, y>> \o p
  BY <1>1, <1>8 DEF Encode
<1>11. <<SOF0, SOF1, a, b, c, d, x, y>> \in Seq(0 .. 255)
  BY <1>9, OctetIs
<1>12. e \in Octets
  BY <1>3, <1>10, <1>11 DEF Octets
<1>13. Long(f) = 8 + l
  BY <1>1 DEF Long
<1> QED
  <2>1. Len(e) = Long(f) /\ Long(f) \in Nat /\ Long(f) >= 8
    BY <1>3, <1>5, <1>13
  <2>2. \A i \in 1 .. Len(f.payload) : e[8 + i] = f.payload[i]
    BY <1>1, <1>5
  <2>3. e[7] + 256 * e[8] = Len(f.payload)
    BY <1>1, <1>7
  <2> QED
    BY <1>2, <1>5, <1>12, <2>1, <2>2, <2>3, Zenon DEF Spells

(* An element of a sequence is one of its set.                             *)
LEMMA ElementOfSeq ==
  ASSUME NEW S, NEW s, s \in Seq(S), NEW i \in 1 .. Len(s)
  PROVE  s[i] \in S
OBVIOUS

(* u are the elements of s from a to b.                                    *)
IsSlice(u, s, S, a, b) ==
  /\ u \in Seq(S) /\ Len(u) = b + 1 - a
  /\ \A i \in 1 .. Len(u) : u[i] = s[a + i - 1]

(* What SubSeq does.                                                       *)
LEMMA SliceOfSeq ==
  ASSUME NEW S, NEW s, s \in Seq(S), NEW a \in Nat, NEW b \in Nat,
         1 <= a, a <= b + 1, b <= Len(s)
  PROVE  IsSlice(SubSeq(s, a, b), s, S, a, b)
<1>1. PICK u : u = SubSeq(s, a, b)
  OBVIOUS
<1>2. u = [i \in 1 .. b + 1 - a |-> s[a + i - 1]]
  BY <1>1
<1>3. b + 1 - a \in Nat
  OBVIOUS
<1>4. \A i \in 1 .. b + 1 - a : s[a + i - 1] \in S
  OBVIOUS
<1>5. PICK n : n = b + 1 - a
  OBVIOUS
<1>6. n \in Nat /\ u = [i \in 1 .. n |-> s[a + i - 1]]
      /\ \A i \in 1 .. n : s[a + i - 1] \in S
  BY <1>2, <1>3, <1>4, <1>5
<1>7. u \in Seq(S) /\ Len(u) = n
  BY <1>6
<1> QED
  BY <1>1, <1>5, <1>6, <1>7 DEF IsSlice

(* A buffer that begins with a frame start is in step.                     *)
LEMMA InStep ==
  ASSUME NEW r \in Octets, Len(r) >= 2 => r[1] = SOF0 /\ r[2] = SOF1
  PROVE  Uplink!Synchronised(r) = r
<1> DEFINE starts == {i \in 1 .. Len(r) - 1 :
                        r[i] = Uplink!SOF0 /\ r[i + 1] = Uplink!SOF1}
<1>1. Len(r) \in Nat
  BY DEF Octets
<1>2. CASE Len(r) >= 2
  <2>1. 1 \in starts /\ starts \subseteq Nat /\ \A i \in starts : 1 <= i
    BY <1>1, <1>2 DEF SOF0, SOF1, Uplink!SOF0, Uplink!SOF1
  <2> HIDE DEF starts
  <2>2. Uplink!Min(starts) \in starts
        /\ \A i \in starts : Uplink!Min(starts) <= i
    BY <2>1 DEF Uplink!Min
  <2>3. Uplink!Min(starts) = 1
    <3>1. PICK m : m = Uplink!Min(starts)
      OBVIOUS
    <3>2. m \in Nat /\ m <= 1 /\ 1 <= m
      BY <2>1, <2>2, <3>1
    <3> QED
      BY <3>1, <3>2
  <2>4. SubSeq(r, 1, Len(r)) = r
    BY <1>1 DEF Octets
  <2> QED
    BY <2>1, <2>3, <2>4 DEF Uplink!Synchronised, starts
<1>3. CASE Len(r) < 2
  <2>1. starts = {}
    BY <1>1, <1>3
  <2>2. CASE r = <<>>
    BY <2>1, <2>2 DEF Uplink!Synchronised
  <2>3. CASE r # <<>>
    <3>1. Len(r) = 1
      <4>1. IsSeq(r)
        BY DEF IsSeq, Octets
      <4>2. Len(r) \in Nat \ {0}
        BY <2>3, <4>1, TailOfSeq
      <4> QED
        BY <1>3, <4>2
    <3>2. r = <<r[1]>>
      BY <3>1 DEF Octets
    <3>3. Uplink!Last(r) = r[1]
      BY <3>1 DEF Uplink!Last
    <3> QED
      BY <2>1, <2>3, <3>2, <3>3 DEF Uplink!Synchronised
  <2> QED
    BY <2>2, <2>3
<1> QED
  BY <1>1, <1>2, <1>3

(* A buffer begins with the bytes e.                                       *)
Begins(r, e) == \A i \in 1 .. Len(r) : i <= Len(e) => r[i] = e[i]

(* What the host makes of a buffer that begins with the bytes of f.        *)
LEMMA FrameIsRead ==
  ASSUME NEW f, IsFrame(f), NEW r \in Octets, NEW e, Spells(e, f), Begins(r, e)
  PROVE  /\ Uplink!Synchronised(r) = r
         /\ Uplink!HoldsFrame(r) <=> Len(r) >= Long(f)
         /\ Uplink!HoldsFrame(r) =>
              Uplink!FrameSize(r) = Long(f) /\ Uplink!Decode(r) = f
<1>1. Spells(e, f) /\ Len(e) = Long(f)
  BY DEF Spells
<1>2. PICK p, l : p = f.payload /\ l = Len(p)
  OBVIOUS
<1>3. p \in Octets /\ l \in Nat /\ Long(f) = 8 + l
  BY <1>2 DEF IsFrame, Long, Octets
<1>4. Len(r) \in Nat
  BY DEF Octets
<1>5. Len(r) >= 2 => r[1] = SOF0 /\ r[2] = SOF1
  BY <1>1, <1>3, <1>4 DEF Spells, Begins
<1>6. Uplink!Synchronised(r) = r
  BY <1>5, InStep
<1>7. Len(r) >= 8 => /\ r[3] = f.type /\ r[4] = f.service /\ r[5] = f.command
                     /\ r[6] = f.id /\ r[7] = e[7] /\ r[8] = e[8]
  BY <1>1, <1>3, <1>4 DEF Spells, Begins
<1>8. e[7] + 256 * e[8] = l /\ e[7] \in 0 .. 255 /\ e[8] \in 0 .. 255
  <2>1. e \in Seq(0 .. 255)
    BY <1>1 DEF Spells, Octets
  <2>2. 7 \in 1 .. Len(e) /\ 8 \in 1 .. Len(e)
    BY <1>1, <1>3
  <2>3. e[7] \in 0 .. 255 /\ e[8] \in 0 .. 255
    BY <2>1, <2>2, ElementOfSeq
  <2> QED
    BY <1>1, <1>2, <2>3 DEF Spells
<1>9. Len(r) >= 8 => Uplink!FrameSize(r) = 8 + l
  <2>1. PICK x, y : x = e[7] /\ y = e[8]
    OBVIOUS
  <2>2. x \in 0 .. 255 /\ y \in 0 .. 255 /\ x + 256 * y = l
    BY <1>8, <2>1
  <2>3. Len(r) >= 8 => Uplink!FrameSize(r) = 8 + x + 256 * y
    <3>1. Len(r) >= 8 => r[7] = x /\ r[8] = y
      BY <1>7, <2>1
    <3> QED
      BY <3>1 DEF Uplink!FrameSize, Uplink!HeaderSize
  <2> QED
    BY <1>3, <2>2, <2>3
<1>10. Uplink!HoldsFrame(r) <=> Len(r) >= Long(f)
  BY <1>3, <1>4, <1>9 DEF Uplink!HoldsFrame, Uplink!HeaderSize
<1>11. ASSUME Len(r) >= 8 + l PROVE Uplink!Decode(r) = f
  <2>1. Uplink!FrameSize(r) = 8 + l
    BY <1>3, <1>4, <1>9, <1>11
  <2>2. PICK q : q = SubSeq(r, 9, 8 + l)
    OBVIOUS
  <2>3. IsSeq(q) /\ Len(q) = l /\ \A i \in 1 .. l : q[i] = r[8 + i]
    <3>1. /\ q \in Seq(0 .. 255) /\ Len(q) = l
          /\ \A i \in 1 .. l : q[i] = r[8 + i]
      <4>1. PICK b : b = 8 + l
        OBVIOUS
      <4>2. b \in Nat /\ 9 <= b + 1 /\ b <= Len(r) /\ q = SubSeq(r, 9, b)
            /\ b + 1 - 9 = l
        <5>1. b \in Nat /\ 9 <= b + 1 /\ b <= Len(r) /\ b + 1 - 9 = l
          BY <1>3, <1>4, <1>11, <4>1
        <5> QED
          BY <2>2, <4>1, <5>1
      <4>3. IsSlice(q, r, 0 .. 255, 9, b)
        <5>1. 9 \in Nat /\ 1 <= 9
          OBVIOUS
        <5>2. r \in Seq(0 .. 255)
          BY DEF Octets
        <5>3. IsSlice(SubSeq(r, 9, b), r, 0 .. 255, 9, b)
          BY <4>2, <5>1, <5>2, SliceOfSeq
        <5> QED
          BY <4>2, <5>3
      <4>4. \A i \in 1 .. l : 9 + i - 1 = 8 + i
        BY <1>3
      <4> QED
        BY <4>2, <4>3, <4>4 DEF IsSlice
    <3> QED
      BY <3>1 DEF IsSeq
  <2>4. \A i \in 1 .. l : q[i] = p[i]
    <3>1. \A i \in 1 .. l : 8 + i \in 1 .. Len(r) /\ 8 + i <= Long(f)
      BY <1>3, <1>4, <1>11
    <3>2. \A i \in 1 .. l : r[8 + i] = e[8 + i]
      BY <1>1, <3>1 DEF Begins
    <3>3. \A i \in 1 .. l : e[8 + i] = p[i]
      BY <1>1, <1>2 DEF Spells
    <3> QED
      BY <2>3, <3>2, <3>3
  <2>5. q = p
    <3>1. IsSeq(p)
      BY <1>3 DEF IsSeq, Octets
    <3> QED
      BY <1>2, <2>3, <2>4, <3>1, SameSeq
  <2>6. /\ r[3] = f.type /\ r[4] = f.service /\ r[5] = f.command /\ r[6] = f.id
    BY <1>3, <1>4, <1>7, <1>11
  <2>7. Uplink!Decode(r) = [type |-> r[3], service |-> r[4], command |-> r[5],
                            id |-> r[6], payload |-> q]
    BY <2>1, <2>2 DEF Uplink!Decode, Uplink!HeaderSize
  <2>8. f = [type |-> f.type, service |-> f.service, command |-> f.command,
             id |-> f.id, payload |-> p]
    BY <1>2 DEF IsFrame
  <2>9. Uplink!Decode(r) = [type |-> f.type, service |-> f.service,
                            command |-> f.command, id |-> f.id,
                            payload |-> p]
    BY <2>5, <2>6, <2>7
  <2> QED
    BY <2>8, <2>9
<1>12. Uplink!HoldsFrame(r) => Len(r) >= 8 + l /\ Len(r) >= 8
  BY <1>3, <1>4, <1>10
<1>13. Uplink!HoldsFrame(r) =>
         Uplink!FrameSize(r) = Long(f) /\ Uplink!Decode(r) = f
  BY <1>3, <1>9, <1>11, <1>12
<1> QED
  BY <1>6, <1>10, <1>13

-----------------------------------------------------------------------------
(* Frame m of F begins at position d[m] of the bytes B, of which the first *)
(* belongs to frame k + 1; the first w frames are there to the end.        *)
Lay(B, F, k, w, d) ==
  /\ \A m \in 1 .. w + 1 : d[m] \in Int /\ d[m] <= Len(B) + 1
  /\ \A m \in 1 .. w : d[m + 1] = d[m] + Long(F[m])
  /\ d[k + 1] = 1
  /\ \A m \in 1 .. w : \A i \in 1 .. Long(F[m]) :
       d[m] + i > 1 => B[d[m] + i - 1] = Uplink!Encode(F[m])[i]

Extends(C, B) ==
  /\ Len(B) \in Nat /\ Len(C) \in Nat /\ Len(B) <= Len(C)
  /\ \A i \in 1 .. Len(B) : C[i] = B[i]

Frames(F, w) == \A m \in 1 .. w : IsFrame(F[m])
SameFrames(G, F, w) == \A m \in 1 .. w : G[m] = F[m]

(* A frame has eight bytes and those of its payload.                       *)
LEMMA LongIs ==
  ASSUME NEW f, IsFrame(f)
  PROVE  Long(f) \in Nat /\ Long(f) >= 8
<1>1. PICK p : p = f.payload
  OBVIOUS
<1>2. p \in Octets
  BY <1>1 DEF IsFrame
<1>3. Len(p) \in Nat
  BY <1>2 DEF Octets
<1> QED
  BY <1>1, <1>3 DEF Long

(* More bytes and other frames behind them do not matter.                  *)
LEMMA LayKeeps ==
  ASSUME NEW w \in Nat, NEW k, NEW d, NEW B, NEW C, Extends(C, B),
         NEW F, NEW G, Frames(F, w), SameFrames(G, F, w), Lay(B, F, k, w, d)
  PROVE  Lay(C, G, k, w, d)
<1>1. PICK l, n : l = Len(B) /\ n = Len(C)
  OBVIOUS
<1>2. /\ l \in Nat /\ n \in Nat /\ l <= n
      /\ \A i \in 1 .. l : C[i] = B[i]
  BY <1>1 DEF Extends
<1>3. /\ \A m \in 1 .. w + 1 : d[m] \in Int /\ d[m] <= l + 1
      /\ \A m \in 1 .. w : d[m + 1] = d[m] + Long(F[m])
      /\ d[k + 1] = 1
      /\ \A m \in 1 .. w : \A i \in 1 .. Long(F[m]) :
           d[m] + i > 1 => B[d[m] + i - 1] = Uplink!Encode(F[m])[i]
  BY <1>1 DEF Lay
<1>4. \A m \in 1 .. w + 1 : d[m] \in Int /\ d[m] <= n + 1
  BY <1>2, <1>3
<1>5. ASSUME NEW m \in 1 .. w
      PROVE  /\ d[m + 1] = d[m] + Long(G[m])
             /\ \A i \in 1 .. Long(G[m]) :
                  d[m] + i > 1 => C[d[m] + i - 1] = Uplink!Encode(G[m])[i]
  <2>1. G[m] = F[m] /\ IsFrame(F[m])
    BY DEF SameFrames, Frames
  <2>2. PICK f, e, x, z : /\ f = F[m] /\ e = Uplink!Encode(f)
                          /\ x = d[m] /\ z = Long(f)
    OBVIOUS
  <2>3. z \in Nat
    BY <2>1, <2>2, LongIs
  <2>4. x \in Int /\ x + z <= l + 1
    <3>1. m \in 1 .. w + 1 /\ m + 1 \in 1 .. w + 1
      OBVIOUS
    <3>2. x \in Int /\ d[m + 1] = x + z /\ d[m + 1] <= l + 1
      BY <1>3, <2>2, <3>1
    <3> QED
      BY <3>2
  <2>5. ASSUME NEW i \in 1 .. z, x + i > 1 PROVE C[x + i - 1] = e[i]
    <3>1. PICK y : y = x + i - 1
      OBVIOUS
    <3>2. y \in 1 .. l
      BY <1>2, <2>3, <2>4, <2>5, <3>1
    <3>3. B[y] = e[i]
      BY <1>3, <2>2, <2>5, <3>1
    <3>4. C[y] = B[y]
      BY <1>2, <3>2
    <3> QED
      BY <3>1, <3>3, <3>4
  <2>6. d[m + 1] = x + z
    BY <1>3, <2>2
  <2> QED
    BY <2>1, <2>2, <2>5, <2>6
<1> QED
  BY <1>1, <1>3, <1>4, <1>5 DEF Lay

(* The next frame is there to the end as well.                             *)
Ends(C, f, a) ==
  /\ Len(C) + 1 = a + Long(f)
  /\ \A i \in 1 .. Long(f) : a + i > 1 => C[a + i - 1] = Uplink!Encode(f)[i]

LEMMA LayGrows ==
  ASSUME NEW w \in Nat, NEW k \in 0 .. w, NEW d, NEW B, NEW C, Extends(C, B),
         NEW F, NEW G, Frames(F, w), SameFrames(G, F, w), Lay(B, F, k, w, d),
         IsFrame(G[w + 1]), Ends(C, G[w + 1], d[w + 1])
  PROVE  \E b : Lay(C, G, k, w + 1, b) /\ b[w + 1 + 1] = Len(C) + 1
<1>1. Lay(C, G, k, w, d)
  BY LayKeeps
<1>2. PICK n, v, a, z : n = Len(C) /\ v = w + 1 /\ a = d[v] /\ z = Long(G[v])
  OBVIOUS
<1>3. n \in Nat /\ v \in Nat /\ z \in Nat /\ v = w + 1
  BY <1>2, LongIs DEF Extends
<1>4. /\ \A m \in 1 .. v : d[m] \in Int /\ d[m] <= n + 1
      /\ \A m \in 1 .. w : d[m + 1] = d[m] + Long(G[m])
      /\ d[k + 1] = 1
      /\ \A m \in 1 .. w : \A i \in 1 .. Long(G[m]) :
           d[m] + i > 1 => C[d[m] + i - 1] = Uplink!Encode(G[m])[i]
  BY <1>1, <1>2 DEF Lay
<1>5. /\ n + 1 = a + z
      /\ \A i \in 1 .. z : a + i > 1 => C[a + i - 1] = Uplink!Encode(G[v])[i]
  BY <1>2 DEF Ends
<1>6. PICK b : b = [m \in 1 .. v + 1 |-> IF m = v + 1 THEN n + 1 ELSE d[m]]
  OBVIOUS
<1>7. b[v + 1] = n + 1 /\ \A m \in 1 .. v : b[m] = d[m]
  BY <1>3, <1>6
<1>8. \A m \in 1 .. v + 1 : b[m] \in Int /\ b[m] <= n + 1
  <2>1. \A m \in 1 .. v + 1 : m = v + 1 \/ m \in 1 .. v
    BY <1>3
  <2> QED
    BY <1>3, <1>4, <1>7, <2>1
<1>9. ASSUME NEW m \in 1 .. v
      PROVE  /\ b[m + 1] = b[m] + Long(G[m])
             /\ \A i \in 1 .. Long(G[m]) :
                  b[m] + i > 1 => C[b[m] + i - 1] = Uplink!Encode(G[m])[i]
  <2>1. b[m] = d[m]
    BY <1>7
  <2>2. CASE m = v
    BY <1>2, <1>5, <1>7, <2>1, <2>2
  <2>3. CASE m # v
    <3>1. m \in 1 .. w /\ m + 1 \in 1 .. v
      BY <1>3, <2>3
    <3>2. b[m + 1] = d[m + 1]
      BY <1>7, <3>1
    <3> QED
      BY <1>4, <2>1, <3>1, <3>2
  <2> QED
    BY <2>2, <2>3
<1>10. b[k + 1] = 1
  <2>1. k + 1 \in 1 .. v
    BY <1>3
  <2> QED
    BY <1>4, <1>7, <2>1
<1>11. Lay(C, G, k, v, b)
  BY <1>2, <1>8, <1>9, <1>10 DEF Lay
<1> QED
  BY <1>2, <1>7, <1>11

(* The first z bytes are taken off.                                        *)
Drops(C, B, z) ==
  /\ Len(B) \in Nat /\ Len(C) \in Nat /\ Len(B) = Len(C) + z
  /\ \A i \in 1 .. Len(C) : C[i] = B[z + i]

LEMMA LayMoves ==
  ASSUME NEW w \in Nat, NEW k \in Nat, k < w, NEW d, NEW B, NEW F,
         Frames(F, w), Lay(B, F, k, w, d), NEW C, Drops(C, B, Long(F[k + 1]))
  PROVE  \E b : /\ Lay(C, F, k + 1, w, b)
                /\ b[w + 1] = d[w + 1] - Long(F[k + 1])
<1>1. PICK l, n, v, z : /\ l = Len(B) /\ n = Len(C) /\ v = w + 1
                        /\ z = Long(F[k + 1])
  OBVIOUS
<1>2. /\ l \in Nat /\ n \in Nat /\ l = n + z
      /\ \A i \in 1 .. n : C[i] = B[z + i]
  BY <1>1 DEF Drops
<1>3. v = w + 1 /\ v \in Nat /\ z \in Nat
  <2>1. k + 1 \in 1 .. w
    OBVIOUS
  <2> QED
    BY <1>1, <2>1, LongIs DEF Frames
<1>4. /\ \A m \in 1 .. v : d[m] \in Int /\ d[m] <= l + 1
      /\ \A m \in 1 .. w : d[m + 1] = d[m] + Long(F[m])
      /\ d[k + 1] = 1
      /\ \A m \in 1 .. w : \A i \in 1 .. Long(F[m]) :
           d[m] + i > 1 => B[d[m] + i - 1] = Uplink!Encode(F[m])[i]
  BY <1>1 DEF Lay
<1>5. PICK b : b = [m \in 1 .. v |-> d[m] - z]
  OBVIOUS
<1>6. ASSUME NEW m \in 1 .. v
      PROVE  b[m] = d[m] - z /\ b[m] \in Int /\ b[m] <= n + 1
  <2>1. PICK x : x = d[m]
    OBVIOUS
  <2>2. x \in Int /\ x <= l + 1
    BY <1>4, <2>1
  <2>3. x - z \in Int /\ x - z <= n + 1
    BY <1>2, <1>3, <2>2
  <2> QED
    BY <1>5, <2>1, <2>3
<1>7. ASSUME NEW m \in 1 .. w
      PROVE  /\ b[m + 1] = b[m] + Long(F[m])
             /\ \A i \in 1 .. Long(F[m]) :
                  b[m] + i > 1 => C[b[m] + i - 1] = Uplink!Encode(F[m])[i]
  <2>1. m \in 1 .. v /\ m + 1 \in 1 .. v
    BY <1>3
  <2>2. PICK x, y, e : x = d[m] /\ y = Long(F[m]) /\ e = Uplink!Encode(F[m])
    OBVIOUS
  <2>3. y \in Nat
    BY <2>2, LongIs DEF Frames
  <2>4. x \in Int /\ d[m + 1] = x + y /\ x + y <= l + 1
    <3>1. x \in Int /\ d[m + 1] = x + y /\ d[m + 1] <= l + 1
      BY <1>4, <2>1, <2>2
    <3> QED
      BY <3>1
  <2>5. b[m] = x - z /\ b[m + 1] = (x + y) - z
    BY <1>6, <2>1, <2>2, <2>4
  <2>6. b[m + 1] = b[m] + y
    BY <1>3, <2>3, <2>4, <2>5
  <2>7. ASSUME NEW i \in 1 .. y, b[m] + i > 1 PROVE C[b[m] + i - 1] = e[i]
    <3>1. PICK c : c = b[m]
      OBVIOUS
    <3>2. c = x - z /\ c + i > 1
      BY <2>5, <2>7, <3>1
    <3>3. PICK p : p = c + i - 1
      OBVIOUS
    <3>4. p \in 1 .. n /\ z + p = x + i - 1 /\ x + i > 1
      BY <1>2, <1>3, <2>3, <2>4, <3>2, <3>3
    <3>5. C[p] = B[z + p]
      BY <1>2, <3>4
    <3>6. B[x + i - 1] = e[i]
      BY <1>4, <2>2, <3>4
    <3> QED
      BY <3>1, <3>3, <3>4, <3>5, <3>6
  <2> QED
    BY <2>2, <2>6, <2>7
<1>8. b[k + 1 + 1] = 1
  <2>1. PICK j : j = k + 1
    OBVIOUS
  <2>2. j \in 1 .. w /\ j + 1 \in 1 .. v
    BY <1>3, <2>1
  <2>3. d[j + 1] = d[j] + Long(F[j]) /\ d[j] = 1 /\ Long(F[j]) = z
    BY <1>1, <1>4, <2>1, <2>2
  <2>4. PICK x, y : x = d[j] /\ y = d[j + 1]
    OBVIOUS
  <2>5. x = 1 /\ y = x + z /\ b[j + 1] = y - z
    BY <1>6, <2>2, <2>3, <2>4
  <2>6. b[j + 1] = 1
    BY <1>3, <2>5
  <2> QED
    BY <2>1, <2>6
<1>9. Lay(C, F, k + 1, w, b)
  BY <1>1, <1>6, <1>7, <1>8 DEF Lay
<1>10. b[v] = d[v] - z
  BY <1>3, <1>6
<1> QED
  BY <1>1, <1>9, <1>10

(* Nothing is there.                                                       *)
LEMMA LayOfNone ==
  ASSUME NEW B, Len(B) \in Nat, NEW F
  PROVE  \E d : Lay(B, F, 0, 0, d) /\ d[0 + 1] = 1
<1>1. PICK d : d = [m \in 1 .. 1 |-> 1]
  OBVIOUS
<1>2. d[1] = 1 /\ 0 + 1 = 1
  BY <1>1
<1>3. Lay(B, F, 0, 0, d)
  BY <1>2 DEF Lay
<1> QED
  BY <1>2, <1>3

-----------------------------------------------------------------------------
(* The bytes e begin at position a of B; what B does not hold of them is U. *)
Part(B, e, a, U) ==
  \E j \in Nat :
    /\ Len(B) + 1 = a + j /\ j + Len(U) = Len(e)
    /\ \A i \in 1 .. j : a + i > 1 => B[a + i - 1] = e[i]
    /\ \A i \in 1 .. Len(U) : U[i] = e[j + i]

(* After the whole frames comes the part of the next one that is not U.    *)
AtEnd(B, a, F, w, U) ==
  /\ Len(U) = 0 => Len(B) + 1 = a
  /\ Len(U) # 0 => Part(B, Uplink!Encode(F[w + 1]), a, U)

(* B are the frames k + 1 to w of F, and what follows.                     *)
Sound(B, k, F, w) ==
  B \in Octets /\ \E d : Lay(B, F, k, w, d)

Complete(B, k, F, w, U) ==
  /\ B \in Octets /\ k <= w
  /\ \E d : Lay(B, F, k, w, d) /\ AtEnd(B, d[w + 1], F, w, U)

(* More bytes behind those of frames.                                      *)
LEMMA SoundKeeps ==
  ASSUME NEW w \in Nat, NEW k \in Nat, NEW B, NEW C, NEW F, NEW G,
         Sound(B, k, F, w), C \in Octets, Extends(C, B),
         Frames(F, w), SameFrames(G, F, w)
  PROVE  Sound(C, k, G, w)
BY LayKeeps DEF Sound

(* A sequence extends itself.                                              *)
LEMMA ExtendsItself ==
  ASSUME NEW B \in Octets
  PROVE  Extends(B, B)
BY DEF Extends, Octets

(* A join extends its first part.                                          *)
LEMMA JoinExtends ==
  ASSUME NEW B \in Octets, NEW x \in Octets
  PROVE  /\ Extends(B \o x, B) /\ B \o x \in Octets
         /\ Joins(B \o x, B, x)
<1>1. IsSeq(B) /\ IsSeq(x)
  BY DEF IsSeq, Octets
<1>2. Joins(B \o x, B, x)
  BY <1>1, JoinOfSeqs
<1>3. B \o x \in Octets
  BY DEF Octets
<1>4. Extends(B \o x, B)
  <2>1. PICK C : C = B \o x
    OBVIOUS
  <2>2. Joins(C, B, x)
    BY <1>2, <2>1
  <2>3. Extends(C, B)
    BY <2>2 DEF Joins, Extends
  <2> QED
    BY <2>1, <2>3
<1> QED
  BY <1>2, <1>3, <1>4

(* A frame is begun of which nothing is written.                           *)
LEMMA FrameBegins ==
  ASSUME NEW w \in Nat, NEW k \in Nat, NEW B, NEW F, NEW G, NEW E,
         Complete(B, k, F, w, E), Len(E) = 0, Frames(F, w),
         SameFrames(G, F, w), IsFrame(G[w + 1])
  PROVE  Complete(B, k, G, w, Uplink!Encode(G[w + 1]))
<1>1. PICK d : Lay(B, F, k, w, d) /\ AtEnd(B, d[w + 1], F, w, E)
  BY DEF Complete
<1>2. B \in Octets /\ k <= w /\ Extends(B, B)
  BY ExtendsItself DEF Complete
<1>3. Lay(B, G, k, w, d)
  BY <1>1, <1>2, LayKeeps
<1>4. PICK e, f, a : f = G[w + 1] /\ e = Uplink!Encode(f) /\ a = d[w + 1]
  OBVIOUS
<1>5. Spells(e, f)
  BY <1>4, FrameIsSpelt
<1>6. Len(e) \in Nat /\ Len(e) # 0
  BY <1>5 DEF Spells
<1>7. Len(B) + 1 = a
  BY <1>1, <1>4 DEF AtEnd
<1>8. a \in Int
  <2>1. Len(B) \in Nat
    BY <1>2 DEF Octets
  <2> QED
    BY <1>7, <2>1
<1>9. Part(B, e, a, e)
  <2>1. /\ 0 \in Nat /\ Len(B) + 1 = a + 0 /\ 0 + Len(e) = Len(e)
        /\ \A i \in 1 .. 0 : a + i > 1 => B[a + i - 1] = e[i]
        /\ \A i \in 1 .. Len(e) : e[i] = e[0 + i]
    BY <1>6, <1>7, <1>8
  <2> QED
    BY <2>1 DEF Part
<1>10. AtEnd(B, a, G, w, e)
  BY <1>4, <1>6, <1>9 DEF AtEnd
<1> QED
  BY <1>2, <1>3, <1>4, <1>10 DEF Complete

(* The last of the bytes of a frame.                                       *)
LEMMA FrameDone ==
  ASSUME NEW w \in Nat, NEW k \in Nat, k <= w, NEW d, NEW B, NEW C,
         Extends(C, B), C \in Octets, NEW F, NEW G, Frames(F, w),
         SameFrames(G, F, w), Lay(B, F, k, w, d), IsFrame(G[w + 1]),
         Ends(C, G[w + 1], d[w + 1]), NEW E, Len(E) = 0
  PROVE  Complete(C, k, G, w + 1, E)
<1>1. PICK b : Lay(C, G, k, w + 1, b) /\ b[w + 1 + 1] = Len(C) + 1
  <2>1. k \in 0 .. w
    OBVIOUS
  <2> QED
    BY <2>1, LayGrows
<1>2. AtEnd(C, b[w + 1 + 1], G, w + 1, E)
  BY <1>1 DEF AtEnd
<1>3. k <= w + 1
  OBVIOUS
<1> QED
  BY <1>1, <1>2, <1>3 DEF Complete

(* A byte of a frame.                                                      *)
LEMMA ByteGrows ==
  ASSUME NEW B \in Octets, NEW U \in Octets, Len(U) # 0, NEW C,
         Joins(C, B, <<U[1]>>), NEW V, IsSeq(V), Len(V) = Len(U) - 1,
         \A i \in 1 .. Len(U) - 1 : V[i] = U[i + 1],
         NEW e, Len(e) \in Nat, NEW a \in Int, Part(B, e, a, U)
  PROVE  Part(C, e, a, V)
<1>1. PICK j \in Nat :
        /\ Len(B) + 1 = a + j /\ j + Len(U) = Len(e)
        /\ \A i \in 1 .. j : a + i > 1 => B[a + i - 1] = e[i]
        /\ \A i \in 1 .. Len(U) : U[i] = e[j + i]
  BY DEF Part
<1>2. PICK l, n, u : l = Len(B) /\ n = Len(U) /\ u = U[1]
  OBVIOUS
<1>3. l \in Nat /\ n \in Nat /\ n # 0 /\ l + 1 = a + j
  BY <1>1, <1>2 DEF Octets
<1>4. /\ Len(C) = l + 1 /\ C[l + 1] = u
      /\ \A i \in 1 .. l : C[i] = B[i]
  <2>1. Joins(C, B, <<u>>)
    BY <1>2
  <2>2. Len(<<u>>) = 1 /\ <<u>>[1] = u
    OBVIOUS
  <2> QED
    BY <1>2, <2>1, <2>2 DEF Joins
<1>5. u = e[j + 1]
  <2>1. 1 \in 1 .. Len(U)
    BY <1>2, <1>3
  <2>2. U[1] = e[j + 1]
    BY <1>1, <2>1
  <2> QED
    BY <1>2, <2>2
<1>6. ASSUME NEW i \in 1 .. j + 1, a + i > 1 PROVE C[a + i - 1] = e[i]
  <2>1. CASE i = j + 1
    <3>1. a + i - 1 = l + 1
      BY <1>3, <2>1
    <3> QED
      BY <1>4, <1>5, <2>1, <3>1
  <2>2. CASE i # j + 1
    <3>1. i \in 1 .. j /\ a + i - 1 \in 1 .. l
      BY <1>3, <1>6, <2>2
    <3>2. B[a + i - 1] = e[i]
      BY <1>1, <1>6, <3>1
    <3> QED
      BY <1>4, <3>1, <3>2
  <2> QED
    BY <2>1, <2>2
<1>7. ASSUME NEW i \in 1 .. Len(V) PROVE V[i] = e[j + 1 + i]
  <2>1. i \in 1 .. n - 1 /\ i + 1 \in 1 .. n /\ j + (i + 1) = j + 1 + i
    BY <1>2, <1>3
  <2>2. V[i] = U[i + 1] /\ U[i + 1] = e[j + (i + 1)]
    BY <1>1, <1>2, <2>1
  <2> QED
    BY <2>1, <2>2
<1>8. j + 1 \in Nat /\ Len(C) + 1 = a + (j + 1) /\ j + 1 + Len(V) = Len(e)
  <2>1. PICK v, m, c : v = Len(V) /\ m = Len(e) /\ c = Len(C)
    OBVIOUS
  <2>2. v = n - 1 /\ j + n = m /\ c = l + 1
    BY <1>1, <1>2, <1>4, <2>1
  <2>3. j + 1 \in Nat /\ c + 1 = a + (j + 1) /\ j + 1 + v = m
    BY <1>3, <2>2
  <2> QED
    BY <2>1, <2>3
<1> QED
  BY <1>6, <1>7, <1>8 DEF Part

(* A byte of a frame is written.                                           *)
LEMMA FrameGrows ==
  ASSUME NEW w \in Nat, NEW k \in Nat, NEW B, NEW F, NEW U \in Octets,
         Complete(B, k, F, w, U), Len(U) # 0, Frames(F, w + 1)
  PROVE  /\ Len(U) # 1 => Complete(B \o <<Head(U)>>, k, F, w, Tail(U))
         /\ Len(U) = 1 => Complete(B \o <<Head(U)>>, k, F, w + 1, Tail(U))
<1>1. PICK d : Lay(B, F, k, w, d) /\ AtEnd(B, d[w + 1], F, w, U)
  BY DEF Complete
<1>2. B \in Octets /\ k <= w
  BY DEF Complete
<1>3. PICK e, f, a, x, C, V :
        /\ f = F[w + 1] /\ e = Uplink!Encode(f) /\ a = d[w + 1]
        /\ x = <<Head(U)>> /\ C = B \o x /\ V = Tail(U)
  OBVIOUS
<1>4. IsFrame(f) /\ Frames(F, w) /\ SameFrames(F, F, w)
  BY <1>3 DEF Frames, SameFrames
<1>5. Spells(e, f) /\ Len(e) = Long(f) /\ Len(e) \in Nat
  <2>1. Spells(e, f)
    BY <1>3, <1>4, FrameIsSpelt
  <2> QED
    BY <2>1 DEF Spells
<1>6. IsSeq(V) /\ Len(U) \in Nat \ {0} /\ Len(V) = Len(U) - 1
      /\ x = <<U[1]>> /\ \A i \in 1 .. Len(U) - 1 : V[i] = U[i + 1]
  <2>1. IsSeq(U) /\ U # <<>>
    BY EmptyIsSeq DEF IsSeq, Octets
  <2> QED
    BY <1>3, <2>1, TailOfSeq
<1>7. x \in Octets
  <2>1. 1 \in 1 .. Len(U) /\ U \in Seq(0 .. 255)
    BY <1>6 DEF Octets
  <2>2. U[1] \in 0 .. 255
    BY <2>1, ElementOfSeq
  <2> QED
    BY <1>6, <2>2 DEF Octets
<1>8. Extends(C, B) /\ C \in Octets /\ Joins(C, B, x)
  BY <1>2, <1>3, <1>7, JoinExtends
<1>9. Part(B, e, a, U)
  BY <1>1, <1>3 DEF AtEnd
<1>10. a \in Int
  BY <1>1, <1>3 DEF Lay
<1>11. Part(C, e, a, V)
  <2>1. Joins(C, B, <<U[1]>>)
    BY <1>6, <1>8
  <2> QED
    BY <1>2, <1>5, <1>6, <1>9, <1>10, <2>1, ByteGrows
<1>12. ASSUME Len(U) # 1 PROVE Complete(C, k, F, w, V)
  <2>1. Len(V) # 0
    BY <1>6, <1>12
  <2>2. AtEnd(C, a, F, w, V)
    BY <1>3, <1>11, <2>1 DEF AtEnd
  <2>3. Lay(C, F, k, w, d)
    BY <1>1, <1>4, <1>8, LayKeeps
  <2> QED
    BY <1>2, <1>3, <1>8, <2>2, <2>3 DEF Complete
<1>13. ASSUME Len(U) = 1 PROVE Complete(C, k, F, w + 1, V)
  <2>1. Len(V) = 0
    BY <1>6, <1>13
  <2>2. PICK j \in Nat :
          /\ Len(C) + 1 = a + j /\ j + Len(V) = Len(e)
          /\ \A i \in 1 .. j : a + i > 1 => C[a + i - 1] = e[i]
    BY <1>11 DEF Part
  <2>3. j = Long(f)
    BY <1>5, <2>1, <2>2
  <2>4. Ends(C, f, a)
    BY <1>3, <2>2, <2>3 DEF Ends
  <2> QED
    BY <1>1, <1>2, <1>3, <1>4, <1>8, <2>1, <2>4, FrameDone
<1> QED
  BY <1>3, <1>12, <1>13

(* The report of a fault is written where a frame may begin.               *)
LEMMA ReportGrows ==
  ASSUME NEW w \in Nat, NEW k \in Nat, NEW B, NEW F, NEW G, NEW U, NEW f,
         Complete(B, k, F, w, U), Frames(F, w), SameFrames(G, F, w),
         IsFrame(f), G[w + 1] = f,
         Len(U) = 0 \/ (U = Uplink!Encode(F[w + 1]) /\ IsFrame(F[w + 1])),
         NEW E, Len(E) = 0
  PROVE  Complete(B \o Uplink!Encode(f), k, G, w + 1, E)
<1>1. PICK d : Lay(B, F, k, w, d) /\ AtEnd(B, d[w + 1], F, w, U)
  BY DEF Complete
<1>2. B \in Octets /\ k <= w
  BY DEF Complete
<1>3. PICK e, a, C : e = Uplink!Encode(f) /\ a = d[w + 1] /\ C = B \o e
  OBVIOUS
<1>4. Spells(e, f) /\ e \in Octets /\ Len(e) = Long(f) /\ Len(e) \in Nat
  <2>1. Spells(e, f)
    BY <1>3, FrameIsSpelt
  <2> QED
    BY <2>1 DEF Spells
<1>5. Extends(C, B) /\ C \in Octets /\ Joins(C, B, e)
  BY <1>2, <1>3, <1>4, JoinExtends
<1>6. a \in Int /\ Len(B) \in Nat
  BY <1>1, <1>2, <1>3 DEF Lay, Octets
<1>7. Len(B) + 1 = a
  <2>1. CASE Len(U) = 0
    BY <1>1, <1>3, <2>1 DEF AtEnd
  <2>2. CASE Len(U) # 0
    <3>1. U = Uplink!Encode(F[w + 1]) /\ Spells(U, F[w + 1])
      BY <2>2, FrameIsSpelt
    <3>2. Len(U) \in Nat
      BY <3>1 DEF Spells
    <3>3. Part(B, U, a, U)
      BY <1>1, <1>3, <2>2, <3>1 DEF AtEnd
    <3>4. PICK j \in Nat : Len(B) + 1 = a + j /\ j + Len(U) = Len(U)
      BY <3>3 DEF Part
    <3> QED
      BY <1>6, <3>2, <3>4
  <2> QED
    BY <2>1, <2>2
<1>8. Ends(C, f, a)
  <2>1. PICK l, n : l = Len(B) /\ n = Len(e)
    OBVIOUS
  <2>2. l \in Nat /\ n \in Nat /\ l + 1 = a /\ n = Long(f) /\ Len(C) = l + n
        /\ \A i \in 1 .. n : C[l + i] = e[i]
    BY <1>4, <1>5, <1>6, <1>7, <2>1 DEF Joins
  <2>3. \A i \in 1 .. n : C[a + i - 1] = e[i]
    <3>1. \A i \in 1 .. n : a + i - 1 = l + i
      BY <2>2
    <3> QED
      BY <2>2, <3>1
  <2>4. Len(C) + 1 = a + n
    BY <1>6, <2>1, <2>2
  <2> QED
    BY <1>3, <2>2, <2>3, <2>4 DEF Ends
<1> QED
  BY <1>1, <1>2, <1>3, <1>5, <1>8, FrameDone

-----------------------------------------------------------------------------
(* What the host makes of its buffer.                                      *)

(* The host reads frame k + 1 when its buffer holds it.                    *)
Reads(q, x, k, f) ==
  /\ Uplink!Synchronised(q) = q
  /\ Uplink!HoldsFrame(q) <=> Len(q) >= Long(f)
  /\ Uplink!HoldsFrame(q) =>
       /\ Uplink!Decode(q) = f
       /\ LET r == SubSeq(q, Uplink!FrameSize(q) + 1, Len(q)) IN
            /\ r \in Octets
            /\ r \o x \in Octets /\ Drops(r \o x, q \o x, Long(f))

(* It does when the bytes are laid out.                                    *)
LEMMA FirstIsRead ==
  ASSUME NEW w \in Nat, NEW k \in Nat, k < w, NEW q \in Octets,
         NEW x \in Octets, NEW F, Frames(F, w), NEW d,
         Lay(q \o x, F, k, w, d)
  PROVE  Reads(q, x, k, F[k + 1])
<1>1. PICK f, e, B, j : /\ j = k + 1 /\ f = F[j] /\ e = Uplink!Encode(f)
                        /\ B = q \o x
  OBVIOUS
<1>2. j \in 1 .. w
  BY <1>1
<1>3. IsFrame(f) /\ Spells(e, f)
  BY <1>1, <1>2, FrameIsSpelt DEF Frames
<1>4. Joins(B, q, x) /\ B \in Octets
  BY <1>1, JoinExtends
<1>5. Len(e) = Long(f) /\ Long(f) \in Nat /\ Long(f) >= 8
  BY <1>3 DEF Spells
<1>6. PICK l, n, z : l = Len(q) /\ n = Len(x) /\ z = Long(f)
  OBVIOUS
<1>7. /\ l \in Nat /\ n \in Nat /\ z \in Nat /\ z >= 8 /\ Len(e) = z
      /\ Len(B) = l + n
      /\ \A i \in 1 .. l : B[i] = q[i]
      /\ \A i \in 1 .. n : B[l + i] = x[i]
  BY <1>4, <1>5, <1>6 DEF Joins
<1>8. \A i \in 1 .. z : B[i] = e[i]
  <2>1. d[j] = 1 /\ \A i \in 1 .. z : 1 + i > 1 => B[1 + i - 1] = e[i]
    BY <1>1, <1>2, <1>6 DEF Lay
  <2>2. \A i \in 1 .. z : 1 + i > 1 /\ 1 + i - 1 = i
    BY <1>7
  <2> QED
    BY <2>1, <2>2
<1>9. Begins(q, e)
  <2>1. \A i \in 1 .. l : i <= z => i \in 1 .. z
    BY <1>7
  <2> QED
    BY <1>6, <1>7, <1>8, <2>1 DEF Begins
<1>10. /\ Uplink!Synchronised(q) = q
       /\ Uplink!HoldsFrame(q) <=> Len(q) >= Long(f)
       /\ Uplink!HoldsFrame(q) =>
            Uplink!FrameSize(q) = Long(f) /\ Uplink!Decode(q) = f
  BY <1>3, <1>9, FrameIsRead
<1>11. ASSUME Len(q) >= z, NEW r, r = SubSeq(q, z + 1, Len(q))
       PROVE  r \in Octets /\ r \o x \in Octets /\ Drops(r \o x, B, z)
  <2>1. IsSlice(r, q, 0 .. 255, z + 1, l)
    <3>1. z + 1 \in Nat /\ 1 <= z + 1 /\ z + 1 <= l + 1 /\ l <= Len(q)
      BY <1>6, <1>7, <1>11
    <3> QED
      BY <1>6, <1>7, <1>11, <3>1, SliceOfSeq DEF Octets
  <2>2. r \in Octets /\ Len(r) = l - z /\ \A i \in 1 .. l - z : r[i] = q[z + i]
    <3>1. r \in Octets /\ Len(r) = l + 1 - (z + 1)
          /\ \A i \in 1 .. Len(r) : r[i] = q[z + 1 + i - 1]
      BY <2>1 DEF IsSlice, Octets
    <3>2. l + 1 - (z + 1) = l - z
      BY <1>7
    <3>3. \A i \in 1 .. l - z : z + 1 + i - 1 = z + i
      BY <1>7
    <3> QED
      BY <3>1, <3>2, <3>3
  <2>3. PICK C, m : C = r \o x /\ m = l - z
    OBVIOUS
  <2>4. C \in Octets /\ Joins(C, r, x)
    BY <2>2, <2>3, JoinExtends
  <2>5. /\ m \in Nat /\ l = z + m /\ Len(C) = m + n
        /\ \A i \in 1 .. m : C[i] = q[z + i]
        /\ \A i \in 1 .. n : C[m + i] = x[i]
    <3>1. m \in Nat /\ l = z + m
      BY <1>6, <1>7, <1>11, <2>3
    <3>2. Len(r) = m /\ \A i \in 1 .. m : r[i] = q[z + i]
      BY <2>2, <2>3
    <3>3. /\ Len(C) = Len(r) + Len(x)
          /\ \A i \in 1 .. Len(r) : C[i] = r[i]
          /\ \A i \in 1 .. Len(x) : C[Len(r) + i] = x[i]
      BY <2>4 DEF Joins
    <3> QED
      BY <1>6, <3>1, <3>2, <3>3
  <2>6. ASSUME NEW i \in 1 .. m + n PROVE C[i] = B[z + i]
    <3>1. CASE i <= m
      <4>1. i \in 1 .. m /\ z + i \in 1 .. l
        BY <1>7, <2>5, <3>1
      <4> QED
        BY <1>7, <2>5, <4>1
    <3>2. CASE i > m
      <4>1. PICK p : p = i - m
        OBVIOUS
      <4>2. p \in 1 .. n /\ m + p = i /\ l + p = z + i
        BY <1>7, <2>5, <3>2, <4>1
      <4>3. C[m + p] = x[p] /\ B[l + p] = x[p]
        BY <1>7, <2>5, <4>2
      <4> QED
        BY <4>2, <4>3
    <3> QED
      BY <2>5, <3>1, <3>2
  <2>7. Len(B) \in Nat /\ Len(C) \in Nat /\ Len(B) = Len(C) + z
    BY <1>7, <2>5
  <2>8. Drops(C, B, z)
    BY <2>5, <2>6, <2>7 DEF Drops
  <2> QED
    BY <2>2, <2>3, <2>4, <2>8
<1>12. ASSUME Uplink!HoldsFrame(q)
       PROVE  LET r == SubSeq(q, Uplink!FrameSize(q) + 1, Len(q)) IN
                r \in Octets /\ r \o x \in Octets /\ Drops(r \o x, B, z)
  <2>1. Len(q) >= z /\ Uplink!FrameSize(q) = z
    BY <1>6, <1>10, <1>12
  <2> QED
    BY <1>11, <2>1
<1>13. Reads(q, x, k, f)
  BY <1>1, <1>6, <1>10, <1>12 DEF Reads
<1> QED
  BY <1>1, <1>13

(* It waits for what is left of frame f, if there is one.                  *)
Waits(q, U, f) ==
  /\ Uplink!Synchronised(q) = q /\ ~Uplink!HoldsFrame(q)
  /\ Len(q) \in Nat
  /\ Len(U) = 0 => Len(q) = 0
  /\ Len(U) # 0 => Len(q) + Len(U) <= Long(f)

(* It waits when there is no whole frame.                                  *)
LEMMA NoneIsRead ==
  ASSUME NEW w \in Nat, NEW F, NEW U, Len(U) \in Nat,
         Len(U) # 0 => IsFrame(F[w + 1]),
         NEW q \in Octets, NEW x \in Octets, Complete(q \o x, w, F, w, U)
  PROVE  Waits(q, U, F[w + 1])
<1>1. PICK B : B = q \o x
  OBVIOUS
<1>2. PICK d : Lay(B, F, w, w, d) /\ AtEnd(B, d[w + 1], F, w, U)
  BY <1>1 DEF Complete
<1>3. AtEnd(B, 1, F, w, U)
  BY <1>2 DEF Lay
<1>4. PICK l, n : l = Len(q) /\ n = Len(x)
  OBVIOUS
<1>5. /\ l \in Nat /\ n \in Nat /\ Len(B) = l + n
      /\ \A i \in 1 .. l : B[i] = q[i]
  BY <1>1, <1>4, JoinExtends DEF Joins
<1>6. CASE Len(U) = 0
  <2>1. Len(q) = 0
    BY <1>3, <1>4, <1>5, <1>6 DEF AtEnd
  <2>2. Uplink!Synchronised(q) = q
    BY <2>1, InStep
  <2>3. ~Uplink!HoldsFrame(q)
    BY <2>1 DEF Uplink!HoldsFrame, Uplink!HeaderSize
  <2> QED
    BY <1>6, <2>1, <2>2, <2>3 DEF Waits
<1>7. CASE Len(U) # 0
  <2>1. PICK f, e, u : f = F[w + 1] /\ e = Uplink!Encode(f) /\ u = Len(U)
    OBVIOUS
  <2>2. IsFrame(f) /\ Spells(e, f)
    BY <1>7, <2>1, FrameIsSpelt
  <2>3. Len(e) = Long(f)
    BY <2>2 DEF Spells
  <2>4. PICK j \in Nat :
          /\ Len(B) + 1 = 1 + j /\ j + u = Len(e)
          /\ \A i \in 1 .. j : 1 + i > 1 => B[1 + i - 1] = e[i]
    BY <1>3, <1>7, <2>1 DEF AtEnd, Part
  <2>5. u \in Nat /\ u # 0 /\ j = l + n
    BY <1>5, <1>7, <2>1, <2>4
  <2>6. Long(f) = j + u /\ l < j + u /\ l + u <= j + u
    BY <1>5, <2>3, <2>4, <2>5
  <2>7. Begins(q, e)
    <3>1. \A i \in 1 .. l : i \in 1 .. j /\ 1 + i > 1 /\ 1 + i - 1 = i
      BY <1>5, <2>5
    <3>2. \A i \in 1 .. l : B[i] = e[i]
      BY <2>4, <3>1
    <3> QED
      BY <1>4, <1>5, <3>2 DEF Begins
  <2>8. /\ Uplink!Synchronised(q) = q
        /\ Uplink!HoldsFrame(q) <=> Len(q) >= Long(f)
    BY <2>2, <2>7, FrameIsRead
  <2>9. ~(Len(q) >= Long(f)) /\ Len(q) + u <= Long(f)
    BY <1>4, <1>5, <2>5, <2>6
  <2> QED
    BY <1>4, <1>5, <1>7, <2>1, <2>8, <2>9 DEF Waits
<1> QED
  BY <1>6, <1>7

(* The frame that was read is taken off.                                   *)
LEMMA FirstIsTaken ==
  ASSUME NEW w \in Nat, NEW k \in Nat, k < w, NEW B, NEW F, Frames(F, w),
         NEW C \in Octets, Drops(C, B, Long(F[k + 1]))
  PROVE  /\ Sound(B, k, F, w) => Sound(C, k + 1, F, w)
         /\ \A U : Complete(B, k, F, w, U) => Complete(C, k + 1, F, w, U)
<1>1. ASSUME Sound(B, k, F, w) PROVE Sound(C, k + 1, F, w)
  BY <1>1, LayMoves DEF Sound
<1>2. ASSUME NEW U, Complete(B, k, F, w, U)
      PROVE  Complete(C, k + 1, F, w, U)
  <2>1. PICK d : Lay(B, F, k, w, d) /\ AtEnd(B, d[w + 1], F, w, U)
    BY <1>2 DEF Complete
  <2>2. PICK b : Lay(C, F, k + 1, w, b) /\ b[w + 1] = d[w + 1] - Long(F[k + 1])
    BY <2>1, LayMoves
  <2>3. PICK l, n, z, a, c : /\ l = Len(B) /\ n = Len(C) /\ z = Long(F[k + 1])
                             /\ a = d[w + 1] /\ c = b[w + 1]
    OBVIOUS
  <2>4. z \in Nat
    <3>1. k + 1 \in 1 .. w
      OBVIOUS
    <3> QED
      BY <2>3, <3>1, LongIs DEF Frames
  <2>5. /\ l \in Nat /\ n \in Nat /\ l = n + z /\ a \in Int /\ c = a - z
        /\ \A i \in 1 .. n : C[i] = B[z + i]
    <3>1. w + 1 \in 1 .. w + 1
      OBVIOUS
    <3>2. a \in Int
      BY <2>1, <2>3, <3>1 DEF Lay
    <3> QED
      BY <2>2, <2>3, <3>2 DEF Drops
  <2>6. AtEnd(C, c, F, w, U)
    <3>1. ASSUME Len(U) = 0 PROVE Len(C) + 1 = c
      <4>1. l + 1 = a
        BY <2>1, <2>3, <3>1 DEF AtEnd
      <4>2. n + 1 = c
        BY <2>4, <2>5, <4>1
      <4> QED
        BY <2>3, <4>2
    <3>2. ASSUME Len(U) # 0 PROVE Part(C, Uplink!Encode(F[w + 1]), c, U)
      <4>1. PICK e : e = Uplink!Encode(F[w + 1])
        OBVIOUS
      <4>2. PICK j \in Nat :
              /\ l + 1 = a + j /\ j + Len(U) = Len(e)
              /\ \A i \in 1 .. j : a + i > 1 => B[a + i - 1] = e[i]
              /\ \A i \in 1 .. Len(U) : U[i] = e[j + i]
        BY <2>1, <2>3, <3>2, <4>1 DEF AtEnd, Part
      <4>3. n + 1 = c + j
        <5>1. /\ n \in Nat /\ a \in Int /\ c = a - z
              /\ (n + z) + 1 = a + j
          BY <2>5, <4>2
        <5> QED
          BY <2>4, <5>1
      <4>4. ASSUME NEW i \in 1 .. j, c + i > 1 PROVE C[c + i - 1] = e[i]
        <5>1. PICK p : p = c + i - 1
          OBVIOUS
        <5>2. p \in 1 .. n /\ z + p = a + i - 1 /\ a + i > 1
          BY <2>4, <2>5, <4>3, <4>4, <5>1
        <5>3. C[p] = B[z + p] /\ B[a + i - 1] = e[i]
          BY <2>5, <4>2, <5>2
        <5> QED
          BY <5>1, <5>2, <5>3
      <4>5. Part(C, e, c, U)
        BY <2>3, <4>2, <4>3, <4>4 DEF Part
      <4> QED
        BY <4>1, <4>5
    <3> QED
      BY <3>1, <3>2 DEF AtEnd
  <2>7. k + 1 <= w
    OBVIOUS
  <2> QED
    BY <2>2, <2>3, <2>6, <2>7 DEF Complete
<1> QED
  BY <1>1, <1>2

(* Nothing is there when the first frame is not begun.                     *)
LEMMA NoneIsComplete ==
  ASSUME NEW F
  PROVE  Complete(<<>>, 0, F, 0, <<>>)
<1>1. PICK B : B = <<>>
  OBVIOUS
<1>2. Len(B) = 0 /\ B \in Octets
  <2>1. <<>> \in Seq(0 .. 255) /\ Len(<<>>) = 0
    OBVIOUS
  <2> QED
    BY <1>1, <2>1 DEF Octets
<1>3. PICK d : Lay(B, F, 0, 0, d) /\ d[0 + 1] = 1
  BY <1>2, LayOfNone
<1>4. AtEnd(B, d[0 + 1], F, 0, B)
  BY <1>2, <1>3 DEF AtEnd
<1>5. Complete(B, 0, F, 0, B)
  BY <1>2, <1>3, <1>4 DEF Complete
<1> QED
  BY <1>1, <1>5

-----------------------------------------------------------------------------
(* The firmware.                                                           *)

(* What a task has still to write, until a fault.                          *)
Rest == IF crashed THEN <<>> ELSE unsent

FirmInv ==
  /\ IsSeq(framed) /\ whole \in Nat /\ whole <= Len(framed)
  /\ Frames(framed, Len(framed))
  /\ unsent \in Octets
  /\ ~crashed =>
       /\ ~cut
       /\ s_tx_mutex = None => unsent = <<>>
       /\ Len(framed) = IF unsent = <<>> THEN whole ELSE whole + 1

(* B is what follows k frames, as far as the crash lets it be known.       *)
Tracks(B, k, c, F, w, U) ==
  /\ ~c => Complete(B, k, F, w, U)
  /\ k < w => Sound(B, k, F, w)

(* Writing y goes on with it.                                              *)
Grows(y, c, F, w, U, e, G, v, V) ==
  \A B : \A k \in Nat :
    Tracks(B, k, c, F, w, U) => Tracks(B \o y, k, e, G, v, V)

(* A host that has taken all frames does not hold the one that ends.       *)
Fits(F, w, U, G) ==
  \A q, x \in Octets :
    Complete(q \o x, w, F, w, U) => Len(q) < Long(G[w + 1])

(* The firmware writes y.                                                  *)
Transmits(y) ==
  /\ y \in Octets
  /\ (y = <<>> /\ wire' = wire) \/ wire' = Uplink!Arrive(y)
  /\ UNCHANGED <<session, link, rxBuffer, extracting, received>>
  /\ Grows(y, cut, framed, whole, Rest, cut', framed', whole', Rest')
  /\ cut => cut'
  /\ whole' # whole =>
       ~cut /\ whole' = whole + 1 /\ Fits(framed, whole, Rest, framed')
  /\ SameFrames(framed', framed, whole)

(* The frames of a sequence, and one more.                                 *)
LEMMA FramesAppend ==
  ASSUME NEW F, IsSeq(F), NEW f, IsFrame(f), Frames(F, Len(F))
  PROVE  /\ IsSeq(Append(F, f)) /\ Len(F) \in Nat
         /\ Len(Append(F, f)) = Len(F) + 1
         /\ Frames(Append(F, f), Len(F) + 1)
         /\ Append(F, f)[Len(F) + 1] = f
         /\ SameFrames(Append(F, f), F, Len(F))
<1>1. PICK G, n : G = Append(F, f) /\ n = Len(F)
  OBVIOUS
<1>2. /\ IsSeq(G) /\ n \in Nat /\ Len(G) = n + 1
      /\ \A i \in 1 .. n : G[i] = F[i]
      /\ G[n + 1] = f
  BY <1>1, AppendToSeq
<1>3. Frames(G, n + 1)
  <2>1. \A m \in 1 .. n + 1 : m \in 1 .. n \/ m = n + 1
    BY <1>2
  <2> QED
    BY <1>1, <1>2, <2>1 DEF Frames
<1>4. SameFrames(G, F, n)
  BY <1>2 DEF SameFrames
<1> QED
  BY <1>1, <1>2, <1>3, <1>4

(* Fewer of the frames.                                                    *)
LEMMA FewerFrames ==
  ASSUME NEW F, NEW n \in Nat, NEW w \in Nat, w <= n
  PROVE  /\ Frames(F, n) => Frames(F, w)
         /\ \A G : SameFrames(G, F, n) => SameFrames(G, F, w)
<1>1. \A m \in 1 .. w : m \in 1 .. n
  OBVIOUS
<1> QED
  BY <1>1 DEF Frames, SameFrames

(* What a task sends is a frame, and so is the report of a fault.          *)
LEMMA RequestIsFrame ==
  ASSUME NEW n \in Nat, NEW p \in Payloads, NEW f,
         f = [type |-> Uplink!Request, service |-> Uplink!ServiceCore,
              command |-> 3, id |-> 1 + (n % 255), payload |-> p]
  PROVE  IsFrame(f)
<1>1. p \in Seq(0 .. 255) /\ Len(p) < 65536
  <2>1. 2 ^ 16 = 65536
    BY SMT
  <2> QED
    BY <2>1, ConstantsAssumption
<1>2. n % 255 \in 0 .. 254
  OBVIOUS
<1>3. 1 + (n % 255) \in 0 .. 255
  BY <1>2
<1>4. /\ f.type = 1 /\ f.service = 1 /\ f.command = 3 /\ f.id = 1 + (n % 255)
      /\ f.payload = p
  BY DEF Uplink!Request, Uplink!ServiceCore
<1>5. f = [type |-> f.type, service |-> f.service, command |-> f.command,
           id |-> f.id, payload |-> f.payload]
  OBVIOUS
<1> QED
  BY <1>1, <1>3, <1>4, <1>5 DEF IsFrame, Octets

LEMMA ReportIsFrame == IsFrame(Uplink!CrashFrame)
<1>1. PICK p : p = [i \in 1 .. 24 |-> 17]
  OBVIOUS
<1>2. p \in Seq(0 .. 255) /\ Len(p) < 65536
  <2>1. p \in [1 .. 24 -> 0 .. 255]
    BY <1>1
  <2>2. p \in Seq(0 .. 255) /\ Len(p) = 24
    BY <1>1, <2>1
  <2> QED
    BY <2>2
<1>3. PICK f : f = Uplink!CrashFrame
  OBVIOUS
<1>4. f = [type |-> 3, service |-> 1, command |-> 2, id |-> 0, payload |-> p]
  BY <1>1, <1>3 DEF Uplink!CrashFrame, Uplink!Event, Uplink!ServiceCore,
    Uplink!CommandCrash
<1>5. /\ f.type = 3 /\ f.service = 1 /\ f.command = 2 /\ f.id = 0
      /\ f.payload = p
      /\ f = [type |-> f.type, service |-> f.service, command |-> f.command,
              id |-> f.id, payload |-> f.payload]
  BY <1>4
<1> QED
  BY <1>2, <1>3, <1>5 DEF IsFrame, Octets

(* Nothing is added.                                                       *)
LEMMA JoinNothing ==
  ASSUME NEW B \in Octets
  PROVE  B \o <<>> = B /\ <<>> \o B = B
<1>1. PICK y : y = <<>>
  OBVIOUS
<1>2. IsSeq(y) /\ Len(y) = 0 /\ IsSeq(B) /\ Len(B) \in Nat
  BY <1>1, EmptyIsSeq DEF IsSeq, Octets
<1>3. Joins(B \o y, B, y) /\ Joins(y \o B, y, B)
  BY <1>2, JoinOfSeqs
<1>4. B \o y = B
  <2>1. PICK C : C = B \o y
    OBVIOUS
  <2>2. IsSeq(C) /\ Len(C) = Len(B) /\ \A i \in 1 .. Len(B) : C[i] = B[i]
    BY <1>2, <1>3, <2>1 DEF Joins
  <2> QED
    BY <1>2, <2>1, <2>2, SameSeq
<1>5. y \o B = B
  <2>1. PICK C : C = y \o B
    OBVIOUS
  <2>2. IsSeq(C) /\ Len(C) = Len(B) /\ \A i \in 1 .. Len(B) : C[0 + i] = B[i]
    BY <1>2, <1>3, <2>1 DEF Joins
  <2>3. \A i \in 1 .. Len(B) : C[i] = B[i]
    BY <1>2, <2>2
  <2> QED
    BY <1>2, <2>1, <2>2, <2>3, SameSeq
<1> QED
  BY <1>1, <1>4, <1>5

(* The same bytes are the same after a frame is begun.                     *)
LEMMA TakeGrows ==
  ASSUME NEW w \in Nat, NEW F, NEW G, Frames(F, w), SameFrames(G, F, w),
         IsFrame(G[w + 1]), NEW c, ~c, NEW E, E = <<>>, NEW U,
         U = Uplink!Encode(G[w + 1])
  PROVE  Grows(<<>>, c, F, w, E, c, G, w, U)
<1> SUFFICES ASSUME NEW B, NEW k \in Nat, Tracks(B, k, c, F, w, E)
             PROVE  Tracks(B \o <<>>, k, c, G, w, U)
  BY DEF Grows
<1>1. Complete(B, k, F, w, E)
  BY DEF Tracks
<1>2. B \in Octets
  BY <1>1 DEF Complete
<1>3. Len(E) = 0
  BY EmptyIsSeq
<1>4. Complete(B, k, G, w, U)
  BY <1>1, <1>3, FrameBegins
<1>5. Sound(B, k, G, w)
  BY <1>4 DEF Complete, Sound
<1>6. Tracks(B, k, c, G, w, U)
  BY <1>4, <1>5 DEF Tracks
<1> QED
  BY <1>2, <1>6, JoinNothing

(* send_frame builds a frame behind those that are written.                *)
LEMMA TakeMutexWrites ==
  ASSUME FirmInv, NEW t \in Senders, Uplink!TakeMutex(t)
  PROVE  FirmInv' /\ Transmits(<<>>)
<1>1. /\ ~crashed /\ s_tx_mutex = None
      /\ s_tx_mutex' = t
      /\ UNCHANGED <<session, crashed, wire, whole, cut, link, rxBuffer,
                     extracting, received>>
  BY DEF Uplink!TakeMutex, Uplink!Executing, Uplink!host
<1>2. PICK f : /\ \E p \in Payloads :
                    f = [type |-> Uplink!Request,
                         service |-> Uplink!ServiceCore, command |-> 3,
                         id |-> 1 + (Len(framed) % 255), payload |-> p]
               /\ framed' = Append(framed, f) /\ unsent' = Uplink!Encode(f)
  BY DEF Uplink!TakeMutex
<1>3. /\ IsSeq(framed) /\ whole \in Nat /\ Frames(framed, whole)
      /\ whole = Len(framed) /\ ~cut /\ unsent = <<>>
  BY <1>1 DEF FirmInv
<1>4. IsFrame(f)
  BY <1>1, <1>2, <1>3, RequestIsFrame
<1>5. /\ IsSeq(framed') /\ Len(framed') = whole + 1
      /\ Frames(framed', whole + 1) /\ framed'[whole + 1] = f
      /\ SameFrames(framed', framed, whole)
  BY <1>2, <1>3, <1>4, FramesAppend
<1>6. unsent' \in Octets /\ unsent' # <<>>
  <2>1. Spells(unsent', f)
    BY <1>2, <1>4, FrameIsSpelt
  <2>2. unsent' \in Octets /\ Len(unsent') >= 8
    BY <2>1 DEF Spells
  <2> QED
    BY <2>2, EmptyIsSeq
<1>7. FirmInv'
  <2>1. t # None
    BY UplinkAssumption
  <2> QED
    BY <1>1, <1>3, <1>5, <1>6, <2>1 DEF FirmInv
<1>8. Rest = <<>> /\ Rest' = Uplink!Encode(f)
  BY <1>1, <1>2, <1>3 DEF Rest
<1>9. Grows(<<>>, cut, framed, whole, Rest, cut', framed', whole', Rest')
  <2>1. /\ IsFrame(framed'[whole + 1])
        /\ Rest' = Uplink!Encode(framed'[whole + 1])
    BY <1>4, <1>5, <1>8
  <2>2. Grows(<<>>, cut, framed, whole, Rest, cut, framed', whole, Rest')
    BY <1>3, <1>5, <1>8, <2>1, TakeGrows
  <2> QED
    BY <1>1, <2>2
<1>10. <<>> \in Octets
  BY DEF Octets
<1> QED
  BY <1>1, <1>3, <1>5, <1>7, <1>9, <1>10 DEF Transmits

(* A byte of the frame in hand is written, and the frame may be whole.     *)
LEMMA ByteIsTracked ==
  ASSUME NEW w \in Nat, NEW F, Frames(F, w + 1), NEW c, ~c, NEW U \in Octets,
         U # <<>>, NEW v, v = IF Len(U) = 1 THEN w + 1 ELSE w
  PROVE  /\ Grows(<<Head(U)>>, c, F, w, U, c, F, v, Tail(U))
         /\ v # w => Fits(F, w, U, F)
<1>1. Len(U) \in Nat /\ Len(U) # 0
  <2>1. IsSeq(U)
    BY DEF IsSeq, Octets
  <2> QED
    BY <2>1, TailOfSeq
<1>2. ASSUME NEW B, NEW k \in Nat, Tracks(B, k, c, F, w, U)
      PROVE  Tracks(B \o <<Head(U)>>, k, c, F, v, Tail(U))
  <2>1. Complete(B, k, F, w, U)
    BY <1>2 DEF Tracks
  <2>2. Complete(B \o <<Head(U)>>, k, F, v, Tail(U))
    BY <1>1, <2>1, FrameGrows
  <2>3. Sound(B \o <<Head(U)>>, k, F, v)
    BY <2>2 DEF Complete, Sound
  <2> QED
    BY <2>2, <2>3 DEF Tracks
<1>3. Grows(<<Head(U)>>, c, F, w, U, c, F, v, Tail(U))
  BY <1>2 DEF Grows
<1>4. ASSUME NEW q \in Octets, NEW x \in Octets, Complete(q \o x, w, F, w, U)
      PROVE  Len(q) < Long(F[w + 1])
  <2>1. IsFrame(F[w + 1])
    BY DEF Frames
  <2>2. Len(q) \in Nat /\ Len(q) + Len(U) <= Long(F[w + 1])
    <3>1. Waits(q, U, F[w + 1])
      BY <1>1, <1>4, <2>1, NoneIsRead
    <3> QED
      BY <1>1, <3>1 DEF Waits
  <2>3. PICK l, u, z : l = Len(q) /\ u = Len(U) /\ z = Long(F[w + 1])
    OBVIOUS
  <2>4. l \in Nat /\ u \in Nat /\ u # 0 /\ z \in Nat /\ l + u <= z
    BY <1>1, <2>1, <2>2, <2>3, LongIs
  <2>5. l < z
    BY <2>4
  <2> QED
    BY <2>3, <2>5
<1>5. Fits(F, w, U, F)
  BY <1>4 DEF Fits
<1> QED
  BY <1>3, <1>5

(* The bytes go out one by one.                                            *)
LEMMA WriteByteWrites ==
  ASSUME FirmInv, NEW t \in Senders, Uplink!WriteByte(t)
  PROVE  FirmInv' /\ \E y : Transmits(y)
<1>1. /\ ~crashed /\ unsent # <<>> /\ unsent' = Tail(unsent)
      /\ s_tx_mutex = t
      /\ wire' = Uplink!Arrive(<<Head(unsent)>>)
      /\ whole' = IF Len(unsent) = 1 THEN whole + 1 ELSE whole
      /\ UNCHANGED <<session, crashed, s_tx_mutex, framed, cut, link, rxBuffer,
                     extracting, received>>
  BY DEF Uplink!WriteByte, Uplink!Executing, Uplink!host
<1>2. /\ IsSeq(framed) /\ whole \in Nat /\ Frames(framed, whole + 1)
      /\ Len(framed) = whole + 1 /\ ~cut /\ unsent \in Octets
  BY <1>1 DEF FirmInv
<1>3. IsSeq(unsent) /\ unsent \in Seq(0 .. 255)
  BY <1>2 DEF IsSeq, Octets
<1>4. /\ Len(unsent) \in Nat \ {0} /\ Head(unsent) = unsent[1]
      /\ IsSeq(Tail(unsent)) /\ Len(Tail(unsent)) = Len(unsent) - 1
  BY <1>1, <1>3, TailOfSeq
<1>5. <<Head(unsent)>> \in Octets
  <2>1. 1 \in 1 .. Len(unsent)
    BY <1>4
  <2>2. unsent[1] \in 0 .. 255
    BY <1>3, <2>1, ElementOfSeq
  <2> QED
    BY <1>4, <2>2 DEF Octets
<1>6. unsent' \in Octets
  BY <1>1, <1>3 DEF Octets
<1>7. unsent' = <<>> <=> Len(unsent) = 1
  <2>1. PICK n, m, v : n = Len(unsent) /\ v = Tail(unsent) /\ m = Len(v)
    OBVIOUS
  <2>2. n \in Nat \ {0} /\ m = n - 1 /\ IsSeq(v)
    BY <1>4, <2>1
  <2>3. v = <<>> => m = 0
    BY <2>1, EmptyIsSeq
  <2>4. v # <<>> => m # 0
    BY <2>1, <2>2, TailOfSeq
  <2>5. v = <<>> <=> n = 1
    BY <2>2, <2>3, <2>4
  <2> QED
    BY <1>1, <2>1, <2>5
<1>8. FirmInv'
  <2>1. whole' \in Nat /\ whole' <= Len(framed')
        /\ Len(framed') = IF unsent' = <<>> THEN whole' ELSE whole' + 1
    BY <1>1, <1>2, <1>7
  <2>2. t # None
    BY UplinkAssumption
  <2>3. IsSeq(framed') /\ Frames(framed', Len(framed'))
    BY <1>1, <1>2
  <2> QED
    BY <1>1, <1>2, <1>6, <2>1, <2>2, <2>3 DEF FirmInv
<1>9. Rest = unsent /\ Rest' = Tail(unsent)
  BY <1>1 DEF Rest
<1>10. /\ Grows(<<Head(unsent)>>, cut, framed, whole, unsent, cut, framed,
               whole', Tail(unsent))
       /\ whole' # whole => Fits(framed, whole, unsent, framed)
  BY <1>1, <1>2, ByteIsTracked
<1>11. Transmits(<<Head(unsent)>>)
  <2>1. /\ Grows(<<Head(unsent)>>, cut, framed, whole, Rest, cut', framed',
                 whole', Rest')
        /\ whole' # whole =>
             ~cut /\ whole' = whole + 1 /\ Fits(framed, whole, Rest, framed')
    BY <1>1, <1>2, <1>9, <1>10
  <2>2. SameFrames(framed', framed, whole)
    BY <1>1 DEF SameFrames
  <2> QED
    BY <1>1, <1>5, <2>1, <2>2 DEF Transmits
<1> QED
  BY <1>8, <1>11

(* The report of a fault in the middle of a frame follows what was whole.  *)
LEMMA ReportIsSound ==
  ASSUME NEW w \in Nat, NEW F, Frames(F, w), NEW c, NEW e, e, NEW U, NEW V,
         NEW y \in Octets
  PROVE  ~c => Grows(y, c, F, w, U, e, F, w, V)
<1> SUFFICES ASSUME ~c, NEW B, NEW k \in Nat, Tracks(B, k, c, F, w, U)
             PROVE  Tracks(B \o y, k, e, F, w, V)
  BY DEF Grows
<1>1. Complete(B, k, F, w, U)
  BY DEF Tracks
<1>2. B \in Octets /\ Sound(B, k, F, w)
  BY <1>1 DEF Complete, Sound
<1>3. Extends(B \o y, B) /\ B \o y \in Octets
  BY <1>2, JoinExtends
<1>4. SameFrames(F, F, w)
  BY DEF SameFrames
<1>5. Sound(B \o y, k, F, w)
  BY <1>2, <1>3, <1>4, SoundKeeps
<1> QED
  BY <1>5 DEF Tracks

(* Between two frames it is one of them.                                   *)
LEMMA ReportIsTracked ==
  ASSUME NEW w \in Nat, NEW F, NEW G, Frames(F, w), SameFrames(G, F, w),
         NEW f, IsFrame(f), G[w + 1] = f, NEW c, ~c, NEW e, ~e,
         NEW U \in Octets,
         Len(U) = 0 \/ (U = Uplink!Encode(F[w + 1]) /\ IsFrame(F[w + 1])),
         NEW E, E = <<>>
  PROVE  /\ Grows(Uplink!Encode(f), c, F, w, U, e, G, w + 1, E)
         /\ Fits(F, w, U, G)
<1>1. ASSUME NEW B, NEW k \in Nat, Tracks(B, k, c, F, w, U)
      PROVE  Tracks(B \o Uplink!Encode(f), k, e, G, w + 1, E)
  <2>1. Complete(B, k, F, w, U)
    BY <1>1 DEF Tracks
  <2>2. Len(E) = 0
    BY EmptyIsSeq
  <2>3. Complete(B \o Uplink!Encode(f), k, G, w + 1, E)
    BY <2>1, <2>2, ReportGrows
  <2>4. Sound(B \o Uplink!Encode(f), k, G, w + 1)
    BY <2>3 DEF Complete, Sound
  <2> QED
    BY <2>3, <2>4 DEF Tracks
<1>2. Grows(Uplink!Encode(f), c, F, w, U, e, G, w + 1, E)
  BY <1>1 DEF Grows
<1>3. ASSUME NEW q \in Octets, NEW x \in Octets, Complete(q \o x, w, F, w, U)
      PROVE  Len(q) < Long(G[w + 1])
  <2>1. Len(U) \in Nat
    BY DEF Octets
  <2>2. /\ Len(q) \in Nat
        /\ Len(U) = 0 => Len(q) = 0
        /\ Len(U) # 0 => Len(q) + Len(U) <= Long(F[w + 1])
    <3>1. Len(U) # 0 => IsFrame(F[w + 1])
      OBVIOUS
    <3>2. Waits(q, U, F[w + 1])
      BY <1>3, <2>1, <3>1, NoneIsRead
    <3> QED
      BY <3>2 DEF Waits
  <2>3. ASSUME Len(U) # 0 PROVE Len(q) = 0
    <3>1. Spells(U, F[w + 1])
      BY <2>3, FrameIsSpelt
    <3>2. PICK l, u : l = Len(q) /\ u = Len(U)
      OBVIOUS
    <3>3. l \in Nat /\ u \in Nat /\ l + u <= u
      BY <2>1, <2>2, <2>3, <3>1, <3>2 DEF Spells
    <3> QED
      BY <3>2, <3>3
  <2>4. Len(q) = 0
    BY <2>2, <2>3
  <2>5. Long(G[w + 1]) \in Nat /\ Long(G[w + 1]) >= 8
    BY LongIs
  <2> QED
    BY <2>4, <2>5
<1>4. Fits(F, w, U, G)
  BY <1>3 DEF Fits
<1> QED
  BY <1>2, <1>4

(* The first frames of a sequence.                                         *)
LEMMA FirstFrames ==
  ASSUME NEW F, IsSeq(F), NEW w \in Nat, w <= Len(F), Frames(F, Len(F))
  PROVE  /\ IsSeq(SubSeq(F, 1, w)) /\ Len(SubSeq(F, 1, w)) = w
         /\ Frames(SubSeq(F, 1, w), w) /\ SameFrames(SubSeq(F, 1, w), F, w)
<1>1. PICK S : F \in Seq(S)
  BY DEF IsSeq
<1>2. PICK G : G = SubSeq(F, 1, w)
  OBVIOUS
<1>3. IsSlice(G, F, S, 1, w)
  <2>1. 1 \in Nat /\ 1 <= 1 /\ 1 <= w + 1
    OBVIOUS
  <2> QED
    BY <1>1, <1>2, <2>1, SliceOfSeq
<1>4. G \in Seq(S) /\ Len(G) = w /\ \A i \in 1 .. w : G[i] = F[i]
  <2>1. w + 1 - 1 = w /\ \A i \in 1 .. w : 1 + i - 1 = i
    OBVIOUS
  <2> QED
    BY <1>3, <2>1 DEF IsSlice
<1>5. Frames(F, w)
  <2>1. Len(F) \in Nat
    BY <1>1
  <2> QED
    BY <2>1, FewerFrames
<1> QED
  BY <1>2, <1>4, <1>5 DEF IsSeq, Frames, SameFrames

(* The fault handler writes its report whatever a task has in hand.        *)
LEMMA CrashWrites ==
  ASSUME FirmInv, Uplink!Crash
  PROVE  FirmInv' /\ \E y : Transmits(y)
<1>1. /\ ~crashed /\ crashed' = TRUE
      /\ wire' = Uplink!Arrive(Uplink!Encode(Uplink!CrashFrame))
      /\ cut' = (unsent # <<>> /\ unsent # Uplink!Encode(Uplink!Last(framed)))
      /\ IF cut' THEN UNCHANGED <<framed, whole>>
         ELSE /\ framed' = Append(SubSeq(framed, 1, whole), Uplink!CrashFrame)
              /\ whole' = whole + 1
      /\ UNCHANGED <<session, s_tx_mutex, unsent, link, rxBuffer, extracting,
                     received>>
  BY DEF Uplink!Crash, Uplink!Executing, Uplink!host
<1>2. PICK f, y, b : /\ f = Uplink!CrashFrame /\ y = Uplink!Encode(f)
                     /\ b = Uplink!Last(framed)
  OBVIOUS
<1>3. IsFrame(f) /\ Spells(y, f) /\ y \in Octets
  <2>1. IsFrame(f) /\ Spells(y, f)
    BY <1>2, ReportIsFrame, FrameIsSpelt
  <2> QED
    BY <2>1 DEF Spells
<1>4. /\ IsSeq(framed) /\ whole \in Nat /\ whole <= Len(framed)
      /\ Frames(framed, Len(framed)) /\ ~cut /\ unsent \in Octets
      /\ Len(framed) = IF unsent = <<>> THEN whole ELSE whole + 1
  BY <1>1 DEF FirmInv
<1>5. Len(framed) \in Nat
  BY <1>4
<1>6. Frames(framed, whole)
  BY <1>4, <1>5, FewerFrames
<1>7. Rest = unsent /\ Rest' = <<>>
  BY <1>1 DEF Rest
<1>8. wire' = Uplink!Arrive(y)
  BY <1>1, <1>2
<1>9. CASE cut'
  <2>1. framed' = framed /\ whole' = whole
    BY <1>1, <1>9
  <2>2. FirmInv'
    BY <1>1, <1>4, <2>1 DEF FirmInv
  <2>3. Grows(y, cut, framed, whole, unsent, cut', framed, whole, <<>>)
    BY <1>3, <1>4, <1>6, <1>9, ReportIsSound
  <2>4. SameFrames(framed', framed, whole)
    BY <2>1 DEF SameFrames
  <2>5. Grows(y, cut, framed, whole, Rest, cut', framed', whole', Rest')
    BY <1>7, <2>1, <2>3
  <2>6. Transmits(y)
    BY <1>1, <1>3, <1>8, <1>9, <2>1, <2>4, <2>5 DEF Transmits
  <2> QED
    BY <2>2, <2>6
<1>10. CASE ~cut'
  <2>1. /\ framed' = Append(SubSeq(framed, 1, whole), f) /\ whole' = whole + 1
        /\ unsent = <<>> \/ unsent = Uplink!Encode(b)
    BY <1>1, <1>2, <1>10
  <2>2. PICK G : G = SubSeq(framed, 1, whole)
    OBVIOUS
  <2>3. /\ IsSeq(G) /\ Len(G) = whole /\ Frames(G, Len(G))
        /\ SameFrames(G, framed, whole)
    BY <1>4, <2>2, FirstFrames
  <2>4. framed' = Append(G, f)
    BY <2>1, <2>2
  <2>5. /\ IsSeq(framed') /\ Len(framed') = whole + 1
        /\ Frames(framed', whole + 1) /\ framed'[whole + 1] = f
        /\ SameFrames(framed', G, whole)
    BY <1>3, <2>3, <2>4, FramesAppend
  <2>6. SameFrames(framed', framed, whole)
    BY <2>3, <2>5 DEF SameFrames
  <2>7. FirmInv'
    <3>1. whole' \in Nat /\ whole' <= Len(framed')
          /\ Frames(framed', Len(framed'))
      BY <1>4, <2>1, <2>5
    <3> QED
      BY <1>1, <1>4, <2>5, <3>1 DEF FirmInv
  <2>8. Len(unsent) = 0 \/ (unsent = Uplink!Encode(framed[whole + 1])
                            /\ IsFrame(framed[whole + 1]))
    <3>1. CASE unsent = <<>>
      BY <3>1, EmptyIsSeq
    <3>2. CASE unsent # <<>>
      <4>1. Len(framed) = whole + 1 /\ unsent = Uplink!Encode(b)
        BY <1>4, <2>1, <3>2
      <4>2. b = framed[whole + 1]
        BY <1>2, <4>1 DEF Uplink!Last
      <4>3. IsFrame(framed[whole + 1])
        <5>1. whole + 1 \in 1 .. Len(framed)
          BY <1>4, <4>1
        <5> QED
          BY <1>4, <5>1 DEF Frames
      <4> QED
        BY <4>1, <4>2, <4>3
    <3> QED
      BY <3>1, <3>2
  <2>9. /\ Grows(y, cut, framed, whole, unsent, cut', framed', whole + 1,
                 <<>>)
        /\ Fits(framed, whole, unsent, framed')
    BY <1>2, <1>3, <1>4, <1>6, <1>10, <2>5, <2>6, <2>8, ReportIsTracked
  <2>10. /\ Grows(y, cut, framed, whole, Rest, cut', framed', whole', Rest')
         /\ Fits(framed, whole, Rest, framed')
    BY <1>7, <2>1, <2>9
  <2>11. Transmits(y)
    BY <1>1, <1>3, <1>4, <1>8, <2>1, <2>6, <2>10 DEF Transmits
  <2> QED
    BY <2>7, <2>11
<1> QED
  BY <1>9, <1>10

-----------------------------------------------------------------------------
(* The connection.                                                         *)

(* The host holds q, x is on the connection, and r was received.           *)
Follows(q, x, r, c, F, w, U) ==
  /\ ~c \/ Len(r) < w => q \in Octets /\ Tracks(q \o x, Len(r), c, F, w, U)
  /\ \A i \in 1 .. Len(r) : i <= w => r[i] = F[i]

(* It holds no whole frame.                                                *)
Rests(q, r, F, w) == Len(r) < w => Len(q) < Long(F[Len(r) + 1])

LinkTypes ==
  /\ session \in Uplink!Sessions
  /\ wire \in [Uplink!Sessions -> Octets]
  /\ link \in [Uplink!Sessions -> {"none", "pending", "client", "closed"}]
  /\ IsSeq(received)

(* The sessions to come have no connection, and a channel has one client.  *)
Sessionwise ==
  /\ \A s \in Uplink!Sessions :
       s > session => link[s] = "none" /\ wire[s] = <<>>
  /\ \A r, s \in Uplink!Sessions :
       link[r] = "client" /\ link[s] = "client" => r = s

Knows ==
  /\ link[session] = "pending" =>
       Tracks(wire[session], 0, cut, framed, whole, Rest)
  /\ link[session] = "client" =>
       /\ Follows(rxBuffer, wire[session], received, cut, framed, whole, Rest)
       /\ ~extracting => Rests(rxBuffer, received, framed, whole)

UplinkInv == FirmInv /\ LinkTypes /\ Sessionwise /\ Knows

(* Joining is associative.                                                 *)
LEMMA JoinAgain ==
  ASSUME NEW a \in Octets, NEW b \in Octets, NEW c \in Octets
  PROVE  a \o (b \o c) = (a \o b) \o c
<1>1. PICK x, y, u, v : x = b \o c /\ y = a \o b /\ u = a \o x /\ v = y \o c
  OBVIOUS
<1>2. x \in Octets /\ y \in Octets
  BY <1>1, JoinExtends
<1>3. Joins(x, b, c) /\ Joins(y, a, b) /\ Joins(u, a, x) /\ Joins(v, y, c)
  BY <1>1, <1>2, JoinExtends
<1>4. PICK l, m, n : l = Len(a) /\ m = Len(b) /\ n = Len(c)
  OBVIOUS
<1>5. l \in Nat /\ m \in Nat /\ n \in Nat
  BY <1>4 DEF Octets
<1>6. /\ Len(x) = m + n /\ Len(y) = l + m
      /\ \A i \in 1 .. m : x[i] = b[i]
      /\ \A i \in 1 .. n : x[m + i] = c[i]
      /\ \A i \in 1 .. l : y[i] = a[i]
      /\ \A i \in 1 .. m : y[l + i] = b[i]
  BY <1>3, <1>4 DEF Joins
<1>7. /\ IsSeq(u) /\ IsSeq(v)
      /\ Len(u) = l + (m + n) /\ Len(v) = (l + m) + n
      /\ \A i \in 1 .. l : u[i] = a[i]
      /\ \A i \in 1 .. m + n : u[l + i] = x[i]
      /\ \A i \in 1 .. l + m : v[i] = y[i]
      /\ \A i \in 1 .. n : v[(l + m) + i] = c[i]
  BY <1>3, <1>4, <1>6 DEF Joins
<1>8. ASSUME NEW i \in 1 .. l + (m + n) PROVE u[i] = v[i]
  <2>1. CASE i <= l
    <3>1. i \in 1 .. l /\ i \in 1 .. l + m
      BY <1>5, <2>1
    <3> QED
      BY <1>6, <1>7, <3>1
  <2>2. CASE i > l /\ i <= l + m
    <3>1. PICK j : j = i - l
      OBVIOUS
    <3>2. j \in 1 .. m /\ j \in 1 .. m + n /\ i = l + j /\ i \in 1 .. l + m
      BY <1>5, <2>2, <3>1
    <3>3. u[l + j] = x[j] /\ x[j] = b[j] /\ y[l + j] = b[j]
      BY <1>6, <1>7, <3>2
    <3> QED
      BY <1>7, <3>2, <3>3
  <2>3. CASE i > l + m
    <3>1. PICK j : j = i - (l + m)
      OBVIOUS
    <3>2. j \in 1 .. n /\ m + j \in 1 .. m + n /\ i = (l + m) + j
          /\ i = l + (m + j)
      BY <1>5, <2>3, <3>1
    <3>3. u[l + (m + j)] = x[m + j] /\ x[m + j] = c[j] /\ v[(l + m) + j] = c[j]
      BY <1>6, <1>7, <3>2
    <3> QED
      BY <3>2, <3>3
  <2> QED
    BY <1>5, <2>1, <2>2, <2>3
<1>9. Len(u) = Len(v) /\ Len(u) = l + (m + n)
  BY <1>5, <1>7
<1>10. u = v
  BY <1>7, <1>8, <1>9, SameSeq
<1> QED
  BY <1>1, <1>10

(* What the host knows of the frames stays true when the firmware writes.  *)
LEMMA FollowsOn ==
  ASSUME NEW q, NEW x \in Octets, NEW y \in Octets, NEW r, IsSeq(r),
         NEW c, NEW e, c => e, NEW F, NEW G, NEW w \in Nat, NEW v, NEW U,
         NEW V,
         Follows(q, x, r, c, F, w, U), Grows(y, c, F, w, U, e, G, v, V),
         v # w => ~c /\ v = w + 1 /\ Fits(F, w, U, G), SameFrames(G, F, w)
  PROVE  /\ Follows(q, x \o y, r, e, G, v, V)
         /\ Rests(q, r, F, w) => Rests(q, r, G, v)
<1>1. PICK k : k = Len(r)
  OBVIOUS
<1>2. k \in Nat
  BY <1>1 DEF IsSeq
<1>3. /\ ~c \/ k < w => q \in Octets /\ Tracks(q \o x, k, c, F, w, U)
      /\ \A i \in 1 .. k : i <= w => r[i] = F[i]
  BY <1>1 DEF Follows
<1>4. ASSUME ~e \/ k < v
      PROVE  q \in Octets /\ Tracks(q \o (x \o y), k, e, G, v, V)
  <2>1. ~c \/ k < w
    BY <1>4
  <2>2. q \in Octets /\ Tracks(q \o x, k, c, F, w, U)
    BY <1>3, <2>1
  <2>3. Tracks((q \o x) \o y, k, e, G, v, V)
    BY <1>2, <2>2 DEF Grows
  <2>4. q \o (x \o y) = (q \o x) \o y
    BY <2>2, JoinAgain
  <2> QED
    BY <2>2, <2>3, <2>4
<1>5. ASSUME NEW i \in 1 .. k, i <= v PROVE r[i] = G[i]
  <2>1. i <= w
    <3> SUFFICES ASSUME i > w PROVE FALSE
      BY <1>2
    <3>1. v # w /\ ~c
      BY <1>5
    <3>2. Complete(q \o x, k, F, w, U)
      BY <1>3, <3>1 DEF Tracks
    <3>3. k <= w
      BY <3>2 DEF Complete
    <3> QED
      BY <1>2, <3>3
  <2>2. i \in 1 .. w
    BY <2>1
  <2> QED
    BY <1>3, <2>1, <2>2 DEF SameFrames
<1>6. ASSUME Rests(q, r, F, w), k < v PROVE Len(q) < Long(G[k + 1])
  <2>1. CASE k < w
    <3>1. k + 1 \in 1 .. w
      BY <1>2, <2>1
    <3>2. Len(q) < Long(F[k + 1])
      BY <1>1, <1>6, <2>1 DEF Rests
    <3> QED
      BY <3>1, <3>2 DEF SameFrames
  <2>2. CASE ~(k < w)
    <3>1. ~c /\ v = w + 1 /\ Fits(F, w, U, G) /\ k = w
      BY <1>2, <1>6, <2>2
    <3>2. q \in Octets /\ Complete(q \o x, w, F, w, U)
      BY <1>3, <3>1 DEF Tracks
    <3> QED
      BY <3>1, <3>2 DEF Fits
  <2> QED
    BY <2>1, <2>2
<1> QED
  BY <1>1, <1>4, <1>5, <1>6 DEF Follows, Rests

(* What the firmware writes goes to the end of its connection.             *)
LEMMA TransmitsKnows ==
  ASSUME FirmInv, LinkTypes, Sessionwise, Knows, NEW y, Transmits(y)
  PROVE  LinkTypes' /\ Sessionwise' /\ Knows'
<1>1. /\ y \in Octets
      /\ (y = <<>> /\ wire' = wire) \/ wire' = Uplink!Arrive(y)
      /\ UNCHANGED <<session, link, rxBuffer, extracting, received>>
      /\ Grows(y, cut, framed, whole, Rest, cut', framed', whole', Rest')
      /\ cut => cut'
      /\ whole' # whole =>
           ~cut /\ whole' = whole + 1 /\ Fits(framed, whole, Rest, framed')
      /\ SameFrames(framed', framed, whole)
  BY DEF Transmits
<1>2. /\ session \in Uplink!Sessions /\ wire \in [Uplink!Sessions -> Octets]
      /\ link \in [Uplink!Sessions -> {"none", "pending", "client", "closed"}]
      /\ IsSeq(received)
  BY DEF LinkTypes
<1>3. wire[session] \in Octets /\ wire[session] \o y \in Octets
  BY <1>1, <1>2, JoinExtends
<1>4. /\ wire' \in [Uplink!Sessions -> Octets]
      /\ \A s \in Uplink!Sessions : s # session => wire'[s] = wire[s]
      /\ link[session] # "closed" => wire'[session] = wire[session] \o y
  <2>1. CASE y = <<>> /\ wire' = wire
    BY <1>2, <1>3, <2>1, JoinNothing
  <2>2. CASE wire' = Uplink!Arrive(y)
    <3>1. CASE link[session] = "closed"
      BY <1>2, <2>2, <3>1 DEF Uplink!Arrive
    <3>2. CASE link[session] # "closed"
      <4>1. wire' = [wire EXCEPT ![session] = wire[session] \o y]
        BY <2>2, <3>2 DEF Uplink!Arrive
      <4> QED
        BY <1>2, <1>3, <4>1
    <3> QED
      BY <3>1, <3>2
  <2> QED
    BY <1>1, <2>1, <2>2
<1>5. LinkTypes'
  BY <1>1, <1>2, <1>4 DEF LinkTypes
<1>6. Sessionwise'
  <2>1. ASSUME NEW s \in Uplink!Sessions, s > session
        PROVE  link[s] = "none" /\ wire'[s] = <<>>
    <3>1. s # session
      BY <2>1 DEF Uplink!Sessions
    <3> QED
      BY <1>4, <2>1, <3>1 DEF Sessionwise
  <2> QED
    BY <1>1, <2>1 DEF Sessionwise
<1>7. ASSUME link[session] = "pending"
      PROVE  Tracks(wire'[session], 0, cut', framed', whole', Rest')
  <2>1. Tracks(wire[session], 0, cut, framed, whole, Rest)
    BY <1>7 DEF Knows
  <2>2. Tracks(wire[session] \o y, 0, cut', framed', whole', Rest')
    BY <1>1, <2>1 DEF Grows
  <2> QED
    BY <1>4, <1>7, <2>2
<1>8. ASSUME link[session] = "client"
      PROVE  /\ Follows(rxBuffer, wire'[session], received, cut', framed',
                        whole', Rest')
             /\ ~extracting => Rests(rxBuffer, received, framed', whole')
  <2>1. /\ Follows(rxBuffer, wire[session], received, cut, framed, whole, Rest)
        /\ ~extracting => Rests(rxBuffer, received, framed, whole)
    BY <1>8 DEF Knows
  <2>2. whole \in Nat
    BY DEF FirmInv
  <2>3. /\ Follows(rxBuffer, wire[session] \o y, received, cut', framed',
                   whole', Rest')
        /\ Rests(rxBuffer, received, framed, whole)
             => Rests(rxBuffer, received, framed', whole')
    BY <1>1, <1>2, <1>3, <2>1, <2>2, FollowsOn
  <2>4. wire'[session] = wire[session] \o y
    BY <1>4, <1>8
  <2> QED
    BY <2>1, <2>3, <2>4
<1>9. Knows'
  BY <1>1, <1>7, <1>8 DEF Knows
<1> QED
  BY <1>5, <1>6, <1>9

-----------------------------------------------------------------------------
(* The host.                                                               *)

(* Bytes move from the connection to the buffer.                           *)
LEMMA FollowsReads ==
  ASSUME NEW q, NEW x \in Octets, NEW r, NEW c, NEW F, NEW w, NEW U,
         Follows(q, x, r, c, F, w, U), NEW n \in 1 .. Len(x)
  PROVE  /\ SubSeq(x, n + 1, Len(x)) \in Octets
         /\ Follows(q \o SubSeq(x, 1, n), SubSeq(x, n + 1, Len(x)), r, c, F, w,
                    U)
<1>1. PICK l, a, b : /\ l = Len(x) /\ a = SubSeq(x, 1, n)
                     /\ b = SubSeq(x, n + 1, l)
  OBVIOUS
<1>2. l \in Nat /\ n \in 1 .. l /\ x \in Seq(0 .. 255)
  BY <1>1 DEF Octets
<1>3. IsSlice(a, x, 0 .. 255, 1, n) /\ IsSlice(b, x, 0 .. 255, n + 1, l)
  <2>1. 1 \in Nat /\ 1 <= 1 /\ 1 <= n + 1 /\ n <= l /\ n \in Nat
    BY <1>2
  <2>2. n + 1 \in Nat /\ 1 <= n + 1 /\ n + 1 <= l + 1 /\ l <= l
    BY <1>2
  <2>3. IsSlice(SubSeq(x, 1, n), x, 0 .. 255, 1, n)
    BY <1>1, <1>2, <2>1, SliceOfSeq
  <2>4. IsSlice(SubSeq(x, n + 1, l), x, 0 .. 255, n + 1, l)
    BY <1>1, <1>2, <2>2, SliceOfSeq
  <2> QED
    BY <1>1, <2>3, <2>4
<1>4. /\ a \in Octets /\ Len(a) = n /\ \A i \in 1 .. n : a[i] = x[i]
      /\ b \in Octets /\ Len(b) = l - n
      /\ \A i \in 1 .. l - n : b[i] = x[n + i]
  <2>1. n + 1 - 1 = n /\ \A i \in 1 .. n : 1 + i - 1 = i
    BY <1>2
  <2>2. /\ l + 1 - (n + 1) = l - n
        /\ \A i \in 1 .. l - n : n + 1 + i - 1 = n + i
    BY <1>2
  <2> QED
    BY <1>3, <2>1, <2>2 DEF IsSlice, Octets
<1>5. a \o b = x
  <2>1. PICK y, m : y = a \o b /\ m = l - n
    OBVIOUS
  <2>2. Joins(y, a, b)
    BY <1>4, <2>1, JoinExtends
  <2>3. /\ m \in Nat /\ IsSeq(y) /\ Len(y) = n + m /\ n + m = l
        /\ \A i \in 1 .. n : y[i] = x[i]
        /\ \A i \in 1 .. m : y[n + i] = x[n + i]
    <3>1. m \in Nat /\ n + m = l
      BY <1>2, <2>1
    <3>2. Len(b) = m /\ \A i \in 1 .. m : b[i] = x[n + i]
      BY <1>4, <2>1
    <3>3. /\ IsSeq(y) /\ Len(y) = Len(a) + Len(b)
          /\ \A i \in 1 .. Len(a) : y[i] = a[i]
          /\ \A i \in 1 .. Len(b) : y[Len(a) + i] = b[i]
      BY <2>2 DEF Joins
    <3> QED
      BY <1>4, <3>1, <3>2, <3>3
  <2>4. ASSUME NEW i \in 1 .. l PROVE y[i] = x[i]
    <3>1. CASE i <= n
      BY <1>2, <2>3, <3>1
    <3>2. CASE i > n
      <4>1. PICK j : j = i - n
        OBVIOUS
      <4>2. j \in 1 .. m /\ i = n + j
        BY <1>2, <2>3, <3>2, <4>1
      <4> QED
        BY <2>3, <4>2
    <3> QED
      BY <1>2, <3>1, <3>2
  <2>5. IsSeq(x) /\ IsSeq(y) /\ Len(y) = l /\ Len(x) = l
    BY <1>1, <1>2, <2>3 DEF IsSeq
  <2>6. \A i \in 1 .. Len(y) : y[i] = x[i]
    BY <2>4, <2>5
  <2>7. y = x
    BY <2>5, <2>6, SameSeq
  <2> QED
    BY <2>1, <2>7
<1>6. ASSUME ~c \/ Len(r) < w
      PROVE  q \o a \in Octets /\ Tracks((q \o a) \o b, Len(r), c, F, w, U)
  <2>1. q \in Octets /\ Tracks(q \o x, Len(r), c, F, w, U)
    BY <1>6 DEF Follows
  <2>2. q \o a \in Octets /\ (q \o a) \o b = q \o (a \o b)
    <3>1. q \in Octets /\ a \in Octets /\ b \in Octets
      BY <1>4, <2>1
    <3>2. q \o a \in Octets
      BY <3>1, JoinExtends
    <3> QED
      BY <3>1, <3>2, JoinAgain
  <2> QED
    BY <1>5, <2>1, <2>2
<1>7. Follows(q \o a, b, r, c, F, w, U)
  BY <1>6 DEF Follows
<1> QED
  BY <1>1, <1>4, <1>7

(* A frame is put behind those received.                                   *)
LEMMA FollowsMore ==
  ASSUME NEW q, NEW x, NEW r, IsSeq(r), NEW c, NEW F, NEW w \in Nat, NEW U,
         NEW f, Len(r) < w => f = F[Len(r) + 1],
         \A i \in 1 .. Len(r) : i <= w => r[i] = F[i],
         ~c \/ Len(r) + 1 < w =>
           q \in Octets /\ Tracks(q \o x, Len(r) + 1, c, F, w, U)
  PROVE  Follows(q, x, Append(r, f), c, F, w, U)
<1>1. PICK k, s : k = Len(r) /\ s = Append(r, f)
  OBVIOUS
<1>2. /\ k \in Nat /\ Len(s) = k + 1 /\ s[k + 1] = f
      /\ \A i \in 1 .. k : s[i] = r[i]
  BY <1>1, AppendToSeq
<1>3. ASSUME NEW i \in 1 .. Len(s), i <= w PROVE s[i] = F[i]
  <2>1. CASE i = k + 1
    BY <1>1, <1>2, <1>3, <2>1
  <2>2. CASE i # k + 1
    <3>1. i \in 1 .. k
      BY <1>2, <2>2
    <3> QED
      BY <1>1, <1>2, <1>3, <3>1
  <2> QED
    BY <2>1, <2>2
<1> QED
  BY <1>1, <1>2, <1>3 DEF Follows

(* What one round of processIncomingData makes of it.                      *)
Extracts(q, x, r, c, F, w, U) ==
  LET b == Uplink!Synchronised(q) IN
  /\ Uplink!HoldsFrame(b) =>
       Follows(SubSeq(b, Uplink!FrameSize(b) + 1, Len(b)), x,
               Append(r, Uplink!Decode(b)), c, F, w, U)
  /\ ~Uplink!HoldsFrame(b) =>
       Follows(b, x, r, c, F, w, U) /\ Rests(b, r, F, w)

(* The host takes the frame that was written.                              *)
LEMMA FollowsExtracts ==
  ASSUME NEW q, NEW x \in Octets, NEW r, IsSeq(r), NEW c, NEW F, NEW w \in Nat,
         NEW U, Len(U) \in Nat, Frames(F, w), Len(U) # 0 => IsFrame(F[w + 1]),
         Follows(q, x, r, c, F, w, U)
  PROVE  Extracts(q, x, r, c, F, w, U)
<1>1. PICK k : k = Len(r)
  OBVIOUS
<1>2. k \in Nat
  BY <1>1 DEF IsSeq
<1>3. /\ ~c \/ k < w => q \in Octets /\ Tracks(q \o x, k, c, F, w, U)
      /\ \A i \in 1 .. Len(r) : i <= w => r[i] = F[i]
  BY <1>1 DEF Follows
<1>4. CASE k < w
  <2>1. q \in Octets /\ Tracks(q \o x, k, c, F, w, U)
    BY <1>3, <1>4
  <2>2. PICK f, z, p : f = F[k + 1] /\ z = Long(f)
                       /\ p = SubSeq(q, Uplink!FrameSize(q) + 1, Len(q))
    OBVIOUS
  <2>3. Sound(q \o x, k, F, w)
    BY <1>4, <2>1 DEF Tracks
  <2>4. Reads(q, x, k, f)
    BY <1>2, <1>4, <2>1, <2>2, <2>3, FirstIsRead DEF Sound
  <2>5. /\ Uplink!Synchronised(q) = q
        /\ Uplink!HoldsFrame(q) <=> Len(q) >= z
        /\ Uplink!HoldsFrame(q) =>
             /\ Uplink!Decode(q) = f /\ p \in Octets /\ p \o x \in Octets
             /\ Drops(p \o x, q \o x, z)
    BY <2>2, <2>4 DEF Reads
  <2>6. ASSUME Uplink!HoldsFrame(q)
        PROVE  Follows(p, x, Append(r, Uplink!Decode(q)), c, F, w, U)
    <3>1. /\ Sound(q \o x, k, F, w) => Sound(p \o x, k + 1, F, w)
          /\ \A V : Complete(q \o x, k, F, w, V)
                      => Complete(p \o x, k + 1, F, w, V)
      BY <1>2, <1>4, <2>2, <2>5, <2>6, FirstIsTaken
    <3>2. ~c => Complete(q \o x, k, F, w, U)
      BY <2>1 DEF Tracks
    <3>3. Tracks(p \o x, k + 1, c, F, w, U)
      BY <2>3, <3>1, <3>2 DEF Tracks
    <3>4. Uplink!Decode(q) = F[Len(r) + 1]
      BY <1>1, <2>2, <2>5, <2>6
    <3> QED
      BY <1>1, <1>3, <2>5, <2>6, <3>3, <3>4, FollowsMore
  <2>7. ASSUME ~Uplink!HoldsFrame(q)
        PROVE  Follows(q, x, r, c, F, w, U) /\ Rests(q, r, F, w)
    <3>1. PICK l : l = Len(q)
      OBVIOUS
    <3>2. l \in Nat /\ z \in Nat /\ ~(l >= z)
      <4>1. k + 1 \in 1 .. w
        BY <1>2, <1>4
      <4>2. IsFrame(f)
        BY <2>2, <4>1 DEF Frames
      <4> QED
        BY <2>1, <2>2, <2>5, <2>7, <3>1, <4>2, LongIs DEF Octets
    <3>3. l < z
      BY <3>2
    <3> QED
      BY <1>1, <2>2, <3>1, <3>3 DEF Rests
  <2> QED
    BY <2>2, <2>5, <2>6, <2>7 DEF Extracts
<1>5. CASE ~(k < w) /\ ~c
  <2>1. q \in Octets /\ Complete(q \o x, k, F, w, U)
    BY <1>3, <1>5 DEF Tracks
  <2>2. k = w
    <3>1. k <= w
      BY <2>1 DEF Complete
    <3> QED
      BY <1>2, <1>5, <3>1
  <2>3. Waits(q, U, F[w + 1])
    <3>1. Complete(q \o x, w, F, w, U)
      BY <2>1, <2>2
    <3> QED
      BY <2>1, <3>1, NoneIsRead
  <2>4. Uplink!Synchronised(q) = q /\ ~Uplink!HoldsFrame(q)
    BY <2>3 DEF Waits
  <2>5. Rests(q, r, F, w)
    BY <1>1, <1>5 DEF Rests
  <2> QED
    BY <2>4, <2>5 DEF Extracts
<1>6. CASE ~(k < w) /\ c
  <2>1. PICK b, p : /\ b = Uplink!Synchronised(q)
                    /\ p = SubSeq(b, Uplink!FrameSize(b) + 1, Len(b))
    OBVIOUS
  <2>2. ~(~c \/ Len(r) < w) /\ ~(~c \/ Len(r) + 1 < w)
    BY <1>1, <1>2, <1>6
  <2>3. Follows(b, x, r, c, F, w, U) /\ Rests(b, r, F, w)
    BY <1>3, <2>2 DEF Follows, Rests
  <2>4. Follows(p, x, Append(r, Uplink!Decode(b)), c, F, w, U)
    BY <1>3, <2>2, FollowsMore
  <2> QED
    BY <2>1, <2>3, <2>4 DEF Extracts
<1> QED
  BY <1>4, <1>5, <1>6

-----------------------------------------------------------------------------
(* The steps.                                                              *)

(* A new session begins with nothing written.                              *)
LEMMA BootStep ==
  ASSUME UplinkInv, Uplink!Boot
  PROVE  UplinkInv'
<1>1. /\ session < MaxSessions /\ session' = session + 1
      /\ link' = [link EXCEPT ![session + 1] = "pending"]
      /\ crashed' = FALSE /\ s_tx_mutex' = None /\ unsent' = <<>>
      /\ framed' = <<>> /\ whole' = 0 /\ cut' = FALSE
      /\ UNCHANGED <<wire, rxBuffer, extracting, received>>
  BY DEF Uplink!Boot
<1>2. LinkTypes /\ Sessionwise
  BY DEF UplinkInv
<1>3. PICK n : n = session + 1
  OBVIOUS
<1>4. MaxSessions \in Nat /\ session \in Uplink!Sessions
  BY <1>2, UplinkAssumption DEF LinkTypes
<1>5. n \in Uplink!Sessions /\ n > session /\ session' = n
  BY <1>1, <1>3, <1>4 DEF Uplink!Sessions
<1>6. /\ wire \in [Uplink!Sessions -> Octets] /\ IsSeq(received)
      /\ link \in [Uplink!Sessions -> {"none", "pending", "client", "closed"}]
  BY <1>2 DEF LinkTypes
<1>7. /\ link' \in [Uplink!Sessions -> {"none", "pending", "client", "closed"}]
      /\ link'[n] = "pending"
      /\ \A s \in Uplink!Sessions : s # n => link'[s] = link[s]
  BY <1>1, <1>3, <1>5, <1>6
<1>8. PICK e : e = <<>>
  OBVIOUS
<1>9. IsSeq(e) /\ Len(e) = 0 /\ e \in Octets
  <2>1. <<>> \in Seq(0 .. 255)
    OBVIOUS
  <2> QED
    BY <1>8, <2>1, EmptyIsSeq DEF Octets
<1>10. FirmInv'
  <2>1. Frames(e, Len(e))
    BY <1>9 DEF Frames
  <2> QED
    BY <1>1, <1>8, <1>9, <2>1 DEF FirmInv
<1>11. LinkTypes'
  BY <1>1, <1>5, <1>6, <1>7 DEF LinkTypes
<1>12. Sessionwise'
  <2>1. ASSUME NEW s \in Uplink!Sessions, s > n
        PROVE  link'[s] = "none" /\ wire[s] = <<>>
    <3>1. s > session /\ s # n
      BY <1>3, <1>4, <2>1 DEF Uplink!Sessions
    <3> QED
      BY <1>2, <1>7, <3>1 DEF Sessionwise
  <2>2. ASSUME NEW r \in Uplink!Sessions, NEW s \in Uplink!Sessions,
               link'[r] = "client", link'[s] = "client"
        PROVE  r = s
    <3>1. link[r] = "client" /\ link[s] = "client"
      BY <1>7, <2>2
    <3> QED
      BY <1>2, <3>1 DEF Sessionwise
  <2> QED
    BY <1>1, <1>5, <2>1, <2>2 DEF Sessionwise
<1>13. Knows'
  <2>1. wire[n] = <<>>
    BY <1>2, <1>5 DEF Sessionwise
  <2>2. Rest' = <<>>
    BY <1>1 DEF Rest
  <2>3. Tracks(<<>>, 0, cut', <<>>, 0, <<>>)
    BY NoneIsComplete DEF Tracks
  <2>4. Tracks(wire'[session'], 0, cut', framed', whole', Rest')
    BY <1>1, <1>5, <2>1, <2>2, <2>3
  <2>5. link'[session'] # "client"
    BY <1>5, <1>7
  <2> QED
    BY <2>4, <2>5 DEF Knows
<1> QED
  BY <1>10, <1>11, <1>12, <1>13 DEF UplinkInv

(* The end of a frame, or of QEMU, changes nothing that was written.       *)
LEMMA IdleStep ==
  ASSUME UplinkInv, Uplink!Exit \/ \E t \in Senders : Uplink!GiveMutex(t)
  PROVE  UplinkInv'
<1>1. /\ UNCHANGED <<session, crashed, unsent, wire, framed, whole, cut, link,
                     rxBuffer, extracting, received>>
      /\ s_tx_mutex' = s_tx_mutex \/ unsent = <<>>
  BY DEF Uplink!Exit, Uplink!GiveMutex, Uplink!firmware, Uplink!host
<1>2. FirmInv'
  BY <1>1 DEF UplinkInv, FirmInv
<1>3. LinkTypes' /\ Sessionwise'
  BY <1>1 DEF UplinkInv, LinkTypes, Sessionwise
<1>4. Knows'
  <2>1. Rest' = Rest
    BY <1>1 DEF Rest
  <2> QED
    BY <1>1, <2>1 DEF UplinkInv, Knows
<1> QED
  BY <1>2, <1>3, <1>4 DEF UplinkInv

(* What the host does leaves the firmware as it is.                        *)
LEMMA FirmwareStays ==
  ASSUME FirmInv, UNCHANGED Uplink!firmware
  PROVE  FirmInv' /\ Rest' = Rest /\ cut' = cut /\ framed' = framed
         /\ whole' = whole
BY DEF FirmInv, Uplink!firmware, Rest

(* A connection is accepted, or turned away.                               *)
LEMMA AcceptStep ==
  ASSUME UplinkInv, NEW s \in Uplink!Sessions, Uplink!Accept(s)
  PROVE  UplinkInv'
<1>1. /\ link[s] = "pending" /\ session' = session /\ extracting' = extracting
      /\ ~extracting
      /\ UNCHANGED Uplink!firmware
      /\ \/ /\ link' = [link EXCEPT ![s] = "closed"]
            /\ wire' = [wire EXCEPT ![s] = <<>>]
            /\ UNCHANGED <<rxBuffer, received>>
         \/ /\ \A r \in Uplink!Sessions : link[r] # "client"
            /\ link' = [link EXCEPT ![s] = "client"]
            /\ rxBuffer' = <<>> /\ received' = <<>>
            /\ wire' = wire
  BY DEF Uplink!Accept, Uplink!Waiting, Uplink!Client
<1>2. FirmInv /\ LinkTypes /\ Sessionwise /\ Knows
  BY DEF UplinkInv
<1>3. /\ session \in Uplink!Sessions /\ wire \in [Uplink!Sessions -> Octets]
      /\ link \in [Uplink!Sessions -> {"none", "pending", "client", "closed"}]
      /\ IsSeq(received)
  BY <1>2 DEF LinkTypes
<1>4. FirmInv' /\ Rest' = Rest /\ cut' = cut /\ framed' = framed
      /\ whole' = whole
  BY <1>1, <1>2, FirmwareStays
<1>5. ~(s > session)
  BY <1>1, <1>2 DEF Sessionwise
<1>6. PICK e : e = <<>>
  OBVIOUS
<1>7. IsSeq(e) /\ Len(e) = 0 /\ e \in Octets
  <2>1. <<>> \in Seq(0 .. 255)
    OBVIOUS
  <2> QED
    BY <1>6, <2>1, EmptyIsSeq DEF Octets
<1>8. /\ link' \in [Uplink!Sessions -> {"none", "pending", "client", "closed"}]
      /\ wire' \in [Uplink!Sessions -> Octets]
      /\ \A r \in Uplink!Sessions :
           r # s => link'[r] = link[r] /\ wire'[r] = wire[r]
  BY <1>1, <1>3, <1>6, <1>7
<1>9. LinkTypes'
  <2>1. IsSeq(received')
    BY <1>1, <1>3, <1>6, <1>7
  <2> QED
    BY <1>1, <1>3, <1>8, <2>1 DEF LinkTypes
<1>10. Sessionwise'
  <2>1. ASSUME NEW r \in Uplink!Sessions, r > session
        PROVE  link'[r] = "none" /\ wire'[r] = <<>>
    BY <1>2, <1>5, <1>8, <2>1 DEF Sessionwise
  <2>2. ASSUME NEW r \in Uplink!Sessions, NEW t \in Uplink!Sessions,
               link'[r] = "client", link'[t] = "client"
        PROVE  r = t
    <3>1. CASE link' = [link EXCEPT ![s] = "closed"]
      <4>1. link'[s] = "closed"
        BY <1>3, <3>1
      <4>2. link[r] = "client" /\ link[t] = "client"
        BY <1>8, <2>2, <4>1
      <4> QED
        BY <1>2, <4>2 DEF Sessionwise
    <3>2. CASE \A u \in Uplink!Sessions : link[u] # "client"
      BY <1>8, <2>2, <3>2
    <3> QED
      BY <1>1, <3>1, <3>2
  <2> QED
    BY <1>1, <2>1, <2>2 DEF Sessionwise
<1>11. CASE s # session
  <2>1. link'[session] = link[session] /\ wire'[session] = wire[session]
    BY <1>3, <1>8, <1>11
  <2>2. link[session] = "client" => UNCHANGED <<rxBuffer, received>>
    BY <1>1, <1>3
  <2>3. Knows'
    BY <1>1, <1>2, <1>4, <2>1, <2>2 DEF Knows
  <2> QED
    BY <1>4, <1>9, <1>10, <2>3 DEF UplinkInv
<1>12. CASE s = session /\ link' = [link EXCEPT ![s] = "closed"]
  <2>1. link'[session'] = "closed"
    BY <1>1, <1>3, <1>12
  <2>2. Knows'
    BY <2>1 DEF Knows
  <2> QED
    BY <1>4, <1>9, <1>10, <2>2 DEF UplinkInv
<1>13. CASE /\ s = session /\ link' = [link EXCEPT ![s] = "client"]
            /\ rxBuffer' = <<>> /\ received' = <<>> /\ wire' = wire
  <2>1. link'[session'] = "client" /\ session' = session
    BY <1>1, <1>3, <1>13
  <2>2. rxBuffer' = e /\ received' = e
    BY <1>6, <1>13
  <2>3. Tracks(wire[session], 0, cut, framed, whole, Rest)
    BY <1>1, <1>2, <1>13 DEF Knows
  <2>4. e \o wire[session] = wire[session]
    BY <1>3, <1>6, JoinNothing
  <2>5. Follows(e, wire[session], e, cut, framed, whole, Rest)
    BY <1>7, <2>3, <2>4 DEF Follows
  <2>6. Rests(e, e, framed, whole)
    <3>1. ASSUME 0 < whole PROVE 0 < Long(framed[0 + 1])
      <4>1. /\ whole \in Nat /\ whole <= Len(framed) /\ Len(framed) \in Nat
            /\ Frames(framed, Len(framed))
        BY <1>2 DEF FirmInv, IsSeq
      <4>2. 0 + 1 \in 1 .. Len(framed)
        BY <3>1, <4>1
      <4>3. IsFrame(framed[0 + 1])
        BY <4>1, <4>2 DEF Frames
      <4>4. Long(framed[0 + 1]) \in Nat /\ Long(framed[0 + 1]) >= 8
        BY <4>3, LongIs
      <4> QED
        BY <4>4
    <3> QED
      BY <1>7, <3>1 DEF Rests
  <2>7. Follows(rxBuffer', wire'[session'], received', cut', framed', whole',
                Rest') /\ Rests(rxBuffer', received', framed', whole')
    BY <1>4, <1>13, <2>1, <2>2, <2>5, <2>6
  <2>8. Knows'
    BY <2>1, <2>7 DEF Knows
  <2> QED
    BY <1>4, <1>9, <1>10, <2>8 DEF UplinkInv
<1> QED
  BY <1>1, <1>11, <1>12, <1>13

(* The host reads what has arrived.                                        *)
LEMMA ReadyReadStep ==
  ASSUME UplinkInv, NEW s \in Uplink!Sessions, Uplink!ReadyRead(s)
  PROVE  UplinkInv'
<1>1. /\ link[s] = "client" /\ extracting' = TRUE
      /\ UNCHANGED <<session, link, received>> /\ UNCHANGED Uplink!firmware
  BY DEF Uplink!ReadyRead
<1>2. PICK n \in 1 .. Len(wire[s]) :
        /\ rxBuffer' = rxBuffer \o SubSeq(wire[s], 1, n)
        /\ wire' = [wire EXCEPT ![s] = SubSeq(wire[s], n + 1, Len(wire[s]))]
  BY DEF Uplink!ReadyRead
<1>3. FirmInv /\ LinkTypes /\ Sessionwise /\ Knows
  BY DEF UplinkInv
<1>4. /\ session \in Uplink!Sessions /\ wire \in [Uplink!Sessions -> Octets]
      /\ link \in [Uplink!Sessions -> {"none", "pending", "client", "closed"}]
      /\ IsSeq(received)
  BY <1>3 DEF LinkTypes
<1>5. FirmInv' /\ Rest' = Rest /\ cut' = cut /\ framed' = framed
      /\ whole' = whole
  BY <1>1, <1>3, FirmwareStays
<1>6. PICK x, y : x = wire[s] /\ y = SubSeq(x, n + 1, Len(x))
  OBVIOUS
<1>7. x \in Octets /\ y \in Octets
  <2>1. x \in Octets /\ Len(x) \in Nat /\ n \in 1 .. Len(x)
    BY <1>4, <1>6 DEF Octets
  <2>2. /\ n + 1 \in Nat /\ 1 <= n + 1 /\ n + 1 <= Len(x) + 1
        /\ Len(x) <= Len(x)
    BY <2>1
  <2>3. IsSlice(y, x, 0 .. 255, n + 1, Len(x))
    BY <1>6, <2>1, <2>2, SliceOfSeq DEF Octets
  <2> QED
    BY <2>1, <2>3 DEF IsSlice, Octets
<1>8. /\ wire' \in [Uplink!Sessions -> Octets] /\ wire'[s] = y
      /\ \A r \in Uplink!Sessions : r # s => wire'[r] = wire[r]
  BY <1>2, <1>4, <1>6, <1>7
<1>9. LinkTypes'
  BY <1>1, <1>4, <1>8 DEF LinkTypes
<1>10. Sessionwise'
  <2>1. ASSUME NEW r \in Uplink!Sessions, r > session PROVE wire'[r] = <<>>
    BY <1>1, <1>3, <1>8, <2>1 DEF Sessionwise
  <2> QED
    BY <1>1, <1>3, <2>1 DEF Sessionwise
<1>11. CASE s = session
  <2>1. Follows(rxBuffer, x, received, cut, framed, whole, Rest)
    BY <1>1, <1>3, <1>6, <1>11 DEF Knows
  <2>2. Follows(rxBuffer \o SubSeq(x, 1, n), y, received, cut, framed, whole,
                Rest)
    BY <1>6, <1>7, <2>1, FollowsReads
  <2>3. Follows(rxBuffer', wire'[session'], received', cut', framed', whole',
                Rest')
    BY <1>1, <1>2, <1>5, <1>6, <1>8, <1>11, <2>2
  <2>4. Knows'
    BY <1>1, <1>11, <2>3 DEF Knows
  <2> QED
    BY <1>5, <1>9, <1>10, <2>4 DEF UplinkInv
<1>12. CASE s # session
  <2>1. link[session] # "client" /\ wire'[session] = wire[session]
    BY <1>1, <1>3, <1>4, <1>8, <1>12 DEF Sessionwise
  <2>2. Knows'
    BY <1>1, <1>3, <1>5, <2>1 DEF Knows
  <2> QED
    BY <1>5, <1>9, <1>10, <2>2 DEF UplinkInv
<1> QED
  BY <1>11, <1>12

(* One round of processIncomingData.                                       *)
LEMMA ExtractFrameStep ==
  ASSUME UplinkInv, Uplink!ExtractFrame
  PROVE  UplinkInv'
<1>1. PICK b : b = Uplink!Synchronised(rxBuffer)
  OBVIOUS
<1>2. /\ extracting /\ UNCHANGED <<session, wire, link>>
      /\ UNCHANGED Uplink!firmware
      /\ IF Uplink!HoldsFrame(b)
         THEN /\ received' = Append(received, Uplink!Decode(b))
              /\ rxBuffer' = SubSeq(b, Uplink!FrameSize(b) + 1, Len(b))
              /\ UNCHANGED extracting
         ELSE /\ rxBuffer' = b /\ extracting' = FALSE
              /\ UNCHANGED received
  BY <1>1 DEF Uplink!ExtractFrame
<1>3. FirmInv /\ LinkTypes /\ Sessionwise /\ Knows
  BY DEF UplinkInv
<1>4. /\ session \in Uplink!Sessions /\ wire \in [Uplink!Sessions -> Octets]
      /\ IsSeq(received)
  BY <1>3 DEF LinkTypes
<1>5. FirmInv' /\ Rest' = Rest /\ cut' = cut /\ framed' = framed
      /\ whole' = whole
  BY <1>2, <1>3, FirmwareStays
<1>6. LinkTypes'
  <2>1. IsSeq(received')
    <3>1. PICK f, r : f = Uplink!Decode(b) /\ r = Append(received, f)
      OBVIOUS
    <3>2. IsSeq(r)
      BY <1>4, <3>1, AppendToSeq
    <3>3. received' = r \/ received' = received
      BY <1>2, <3>1
    <3> QED
      BY <1>4, <3>2, <3>3
  <2> QED
    BY <1>2, <1>3, <2>1 DEF LinkTypes
<1>7. Sessionwise'
  BY <1>2, <1>3 DEF Sessionwise
<1>8. ASSUME link[session] = "client"
      PROVE  /\ Follows(rxBuffer', wire[session], received', cut, framed,
                        whole, Rest)
             /\ ~extracting' => Rests(rxBuffer', received', framed, whole)
  <2>1. Follows(rxBuffer, wire[session], received, cut, framed, whole, Rest)
    BY <1>3, <1>8 DEF Knows
  <2>2. /\ whole \in Nat /\ whole <= Len(framed) /\ Len(framed) \in Nat
        /\ Frames(framed, Len(framed)) /\ unsent \in Octets
        /\ ~crashed => Len(framed) = IF unsent = <<>> THEN whole ELSE whole + 1
    BY <1>3 DEF FirmInv, IsSeq
  <2>3. Frames(framed, whole)
    BY <2>2, FewerFrames
  <2>4. Rest = <<>> \/ (Rest # <<>> /\ ~crashed /\ Rest = unsent)
    BY DEF Rest
  <2>5. Len(Rest) \in Nat
    <3>1. CASE Rest = <<>>
      BY <3>1, EmptyIsSeq
    <3>2. CASE Rest = unsent
      BY <2>2, <3>2 DEF Octets
    <3> QED
      BY <2>4, <3>1, <3>2
  <2>6. Len(Rest) # 0 => IsFrame(framed[whole + 1])
    <3> SUFFICES ASSUME Len(Rest) # 0 PROVE IsFrame(framed[whole + 1])
      OBVIOUS
    <3>1. Rest # <<>>
      BY EmptyIsSeq
    <3>2. Len(framed) = whole + 1
      BY <2>2, <2>4, <3>1
    <3>3. whole + 1 \in 1 .. Len(framed)
      BY <2>2, <3>2
    <3> QED
      BY <2>2, <3>3 DEF Frames
  <2>7. wire[session] \in Octets
    BY <1>4
  <2>8. Extracts(rxBuffer, wire[session], received, cut, framed, whole, Rest)
    BY <1>4, <2>1, <2>2, <2>3, <2>5, <2>6, <2>7, FollowsExtracts
  <2>9. CASE Uplink!HoldsFrame(b)
    <3>1. Follows(SubSeq(b, Uplink!FrameSize(b) + 1, Len(b)), wire[session],
                  Append(received, Uplink!Decode(b)), cut, framed, whole, Rest)
      BY <1>1, <2>8, <2>9 DEF Extracts
    <3> QED
      BY <1>2, <2>9, <3>1
  <2>10. CASE ~Uplink!HoldsFrame(b)
    <3>1. /\ Follows(b, wire[session], received, cut, framed, whole, Rest)
          /\ Rests(b, received, framed, whole)
      BY <1>1, <2>8, <2>10 DEF Extracts
    <3> QED
      BY <1>2, <2>10, <3>1
  <2> QED
    BY <2>9, <2>10
<1>9. Knows'
  <2>1. link[session] = "pending" =>
          Tracks(wire[session], 0, cut, framed, whole, Rest)
    BY <1>3 DEF Knows
  <2> QED
    BY <1>2, <1>5, <1>8, <2>1 DEF Knows
<1> QED
  BY <1>5, <1>6, <1>7, <1>9 DEF UplinkInv

(* A connection ends only after its session.                               *)
LEMMA DisconnectedStep ==
  ASSUME UplinkInv, NEW s \in Uplink!Sessions, Uplink!Disconnected(s)
  PROVE  UplinkInv'
<1>1. /\ link[s] = "client" /\ UNCHANGED <<session, received, extracting>>
      /\ UNCHANGED Uplink!firmware
      /\ link' = [link EXCEPT ![s] = "closed"]
      /\ wire' = [wire EXCEPT ![s] = <<>>]
  BY DEF Uplink!Disconnected
<1>2. FirmInv /\ LinkTypes /\ Sessionwise /\ Knows
  BY DEF UplinkInv
<1>3. /\ session \in Uplink!Sessions /\ wire \in [Uplink!Sessions -> Octets]
      /\ link \in [Uplink!Sessions -> {"none", "pending", "client", "closed"}]
      /\ IsSeq(received)
  BY <1>2 DEF LinkTypes
<1>4. FirmInv' /\ Rest' = Rest /\ cut' = cut /\ framed' = framed
      /\ whole' = whole
  BY <1>1, <1>2, FirmwareStays
<1>5. <<>> \in Octets
  BY DEF Octets
<1>6. /\ link' \in [Uplink!Sessions -> {"none", "pending", "client", "closed"}]
      /\ wire' \in [Uplink!Sessions -> Octets] /\ link'[s] = "closed"
      /\ \A r \in Uplink!Sessions :
           r # s => link'[r] = link[r] /\ wire'[r] = wire[r]
  BY <1>1, <1>3, <1>5
<1>7. LinkTypes'
  BY <1>1, <1>3, <1>6 DEF LinkTypes
<1>8. Sessionwise'
  <2>1. ASSUME NEW r \in Uplink!Sessions, r > session
        PROVE  link'[r] = "none" /\ wire'[r] = <<>>
    <3>1. r # s
      BY <1>1, <1>2, <2>1 DEF Sessionwise
    <3> QED
      BY <1>2, <1>6, <2>1, <3>1 DEF Sessionwise
  <2>2. ASSUME NEW r \in Uplink!Sessions, NEW t \in Uplink!Sessions,
               link'[r] = "client", link'[t] = "client"
        PROVE  r = t
    <3>1. link[r] = "client" /\ link[t] = "client"
      BY <1>6, <2>2
    <3> QED
      BY <1>2, <3>1 DEF Sessionwise
  <2> QED
    BY <1>1, <2>1, <2>2 DEF Sessionwise
<1>9. Knows'
  <2>1. CASE s = session
    BY <1>1, <1>6, <2>1 DEF Knows
  <2>2. CASE s # session
    <3>1. /\ link[session] # "client" /\ link'[session] = link[session]
          /\ wire'[session] = wire[session]
      BY <1>1, <1>2, <1>3, <1>6, <2>2 DEF Sessionwise
    <3> QED
      BY <1>1, <1>2, <1>4, <3>1 DEF Knows
  <2> QED
    BY <2>1, <2>2
<1> QED
  BY <1>4, <1>7, <1>8, <1>9 DEF UplinkInv

(* At first nothing is written and nothing connected.                      *)
LEMMA UplinkInvInit == Uplink!Init => UplinkInv
<1> SUFFICES ASSUME Uplink!Init PROVE UplinkInv
  OBVIOUS
<1>1. PICK e : e = <<>>
  OBVIOUS
<1>2. IsSeq(e) /\ Len(e) = 0 /\ e \in Octets
  <2>1. <<>> \in Seq(0 .. 255)
    OBVIOUS
  <2> QED
    BY <1>1, <2>1, EmptyIsSeq DEF Octets
<1>3. /\ session = 0 /\ unsent = e /\ framed = e /\ whole = 0 /\ cut = FALSE
      /\ crashed = FALSE /\ received = e
      /\ wire = [s \in Uplink!Sessions |-> e]
      /\ link = [s \in Uplink!Sessions |-> "none"]
  BY <1>1 DEF Uplink!Init
<1>4. FirmInv
  <2>1. Frames(e, Len(e))
    BY <1>2 DEF Frames
  <2> QED
    BY <1>1, <1>2, <1>3, <2>1 DEF FirmInv
<1>5. LinkTypes /\ Sessionwise /\ Knows
  <2>1. session \in Uplink!Sessions
    BY <1>3, UplinkAssumption DEF Uplink!Sessions
  <2>2. LinkTypes
    BY <1>2, <1>3, <2>1 DEF LinkTypes
  <2>3. Sessionwise
    BY <1>1, <1>3 DEF Sessionwise
  <2>4. Knows
    BY <1>3, <2>1 DEF Knows
  <2> QED
    BY <2>2, <2>3, <2>4
<1> QED
  BY <1>4, <1>5 DEF UplinkInv

(* The invariant is inductive, one lemma for each action.                  *)
LEMMA UplinkInvStep == UplinkInv /\ [AllNext]_allVars => UplinkInv'
<1> SUFFICES ASSUME UplinkInv, [AllNext]_allVars PROVE UplinkInv'
  OBVIOUS
<1>1. CASE Uplink!Boot
  BY <1>1, BootStep
<1>2. CASE Uplink!Exit \/ \E t \in Senders : Uplink!GiveMutex(t)
  BY <1>2, IdleStep
<1>3. ASSUME FirmInv', NEW y, Transmits(y) PROVE UplinkInv'
  <2>1. LinkTypes' /\ Sessionwise' /\ Knows'
    BY <1>3, TransmitsKnows DEF UplinkInv
  <2> QED
    BY <1>3, <2>1 DEF UplinkInv
<1>4. CASE Uplink!Crash
  BY <1>3, <1>4, CrashWrites DEF UplinkInv
<1>5. ASSUME NEW t \in Senders, Uplink!TakeMutex(t) PROVE UplinkInv'
  BY <1>3, <1>5, TakeMutexWrites DEF UplinkInv
<1>6. ASSUME NEW t \in Senders, Uplink!WriteByte(t) PROVE UplinkInv'
  BY <1>3, <1>6, WriteByteWrites DEF UplinkInv
<1>7. ASSUME NEW s \in Uplink!Sessions, Uplink!Accept(s) PROVE UplinkInv'
  BY <1>7, AcceptStep
<1>8. ASSUME NEW s \in Uplink!Sessions, Uplink!ReadyRead(s) PROVE UplinkInv'
  BY <1>8, ReadyReadStep
<1>9. ASSUME NEW s \in Uplink!Sessions, Uplink!Disconnected(s)
      PROVE  UplinkInv'
  BY <1>9, DisconnectedStep
<1>10. CASE Uplink!ExtractFrame
  BY <1>10, ExtractFrameStep
<1>11. CASE Uplink!Next
  BY <1>1, <1>2, <1>4, <1>5, <1>6, <1>7, <1>8, <1>9, <1>10, <1>11
    DEF Uplink!Next
<1>12. CASE UNCHANGED uplinkVars
  <2>1. FirmInv'
    BY <1>12 DEF UplinkInv, FirmInv, uplinkVars
  <2>2. LinkTypes' /\ Sessionwise'
    BY <1>12 DEF UplinkInv, LinkTypes, Sessionwise, uplinkVars
  <2>3. Rest' = Rest
    BY <1>12 DEF Rest, uplinkVars
  <2>4. Knows'
    BY <1>12, <2>3 DEF UplinkInv, Knows, uplinkVars
  <2> QED
    BY <2>1, <2>2, <2>4 DEF UplinkInv
<1>13. Uplink!Next \/ UNCHANGED uplinkVars
  BY DEF AllNext, Channel, SendFrames, KeepTime, DrawBitmaps, allVars
<1> QED
  BY <1>11, <1>12, <1>13

(* The frames that were received are those that were written.              *)
LEMMA FramesAreIntact == UplinkInv => FramesIntact
<1> SUFFICES ASSUME UplinkInv, link[session] = "client"
             PROVE  /\ ~cut => Len(received) <= whole
                    /\ \A i \in 1 .. Len(received) :
                         i <= whole => received[i] = framed[i]
  BY DEF FramesIntact, Uplink!FramesIntact
<1>1. Follows(rxBuffer, wire[session], received, cut, framed, whole, Rest)
  BY DEF UplinkInv, Knows
<1>2. ASSUME ~cut PROVE Len(received) <= whole
  <2>1. Complete(rxBuffer \o wire[session], Len(received), framed, whole, Rest)
    BY <1>1, <1>2 DEF Follows, Tracks
  <2> QED
    BY <2>1 DEF Complete
<1> QED
  BY <1>1, <1>2 DEF Follows

(* A host that rests with a whole frame to come has not read its last byte. *)
LEMMA NothingWasLeft == UplinkInv => NothingLeftBehind
<1> SUFFICES ASSUME UplinkInv, link[session] = "client", wire[session] = <<>>,
                    ~extracting, ~(Len(received) >= whole)
             PROVE  FALSE
  BY DEF NothingLeftBehind, Uplink!NothingLeftBehind
<1>1. PICK k, q, z : /\ k = Len(received) /\ q = rxBuffer
                     /\ z = Long(framed[k + 1])
  OBVIOUS
<1>2. k \in Nat /\ whole \in Nat
  BY <1>1 DEF UplinkInv, LinkTypes, FirmInv, IsSeq
<1>3. k < whole
  BY <1>1, <1>2
<1>4. /\ Follows(q, <<>>, received, cut, framed, whole, Rest)
      /\ Rests(q, received, framed, whole)
  BY <1>1 DEF UplinkInv, Knows
<1>5. q \in Octets /\ Sound(q \o <<>>, k, framed, whole)
  BY <1>1, <1>3, <1>4 DEF Follows, Tracks
<1>6. q \o <<>> = q
  BY <1>5, JoinNothing
<1>7. PICK d : Lay(q, framed, k, whole, d)
  BY <1>5, <1>6 DEF Sound
<1>8. PICK l, j : l = Len(q) /\ j = k + 1
  OBVIOUS
<1>9. j \in 1 .. whole /\ j + 1 \in 1 .. whole + 1 /\ l \in Nat
  BY <1>2, <1>3, <1>5, <1>8 DEF Octets
<1>10. z \in Nat
  <2>1. IsFrame(framed[j])
    <3>1. j \in 1 .. Len(framed) /\ Frames(framed, Len(framed))
      BY <1>9 DEF UplinkInv, FirmInv, IsSeq
    <3> QED
      BY <3>1 DEF Frames
  <2> QED
    BY <1>1, <1>8, <2>1, LongIs
<1>11. 1 + z <= l + 1
  <2>1. d[j] = 1 /\ d[j + 1] = d[j] + z /\ d[j + 1] <= l + 1
    BY <1>1, <1>7, <1>8, <1>9 DEF Lay
  <2> QED
    BY <2>1
<1>12. l < z
  BY <1>1, <1>3, <1>4, <1>8 DEF Rests
<1> QED
  BY <1>9, <1>10, <1>11, <1>12

(* What the host receives of a session are the frames its firmware wrote,  *)
(* in their order and byte for byte, for every set of payloads, however    *)
(* the tasks, a fault, the ends of QEMU and the reads of the host fall.    *)
THEOREM FramesStayIntact == AllSpec => []FramesIntact
<1>1. AllInit => UplinkInv
  BY UplinkInvInit DEF AllInit
<1> QED
  BY <1>1, UplinkInvStep, FramesAreIntact, PTL DEF AllSpec

(* A host that has read all there is has every frame that was written to   *)
(* its end.                                                                *)
THEOREM NothingStaysBehind == AllSpec => []NothingLeftBehind
<1>1. AllInit => UplinkInv
  BY UplinkInvInit DEF AllInit
<1> QED
  BY <1>1, UplinkInvStep, NothingWasLeft, PTL DEF AllSpec

-----------------------------------------------------------------------------
(* Bitmaps.                                                                *)

Less == {p \in Nat \X Nat : p[1] < p[2]}

(* A set of naturals has a least element.                                  *)
LEMMA LeastOf ==
  ASSUME NEW S, S \subseteq Nat, S # {}
  PROVE  \E x \in S : \A y \in S : x <= y
<1>1. OpToRel(<, Nat) = Less
  BY DEF OpToRel, Less
<1>2. IsWellFoundedOn(Less, Nat)
  BY <1>1, NatLessThanWellFounded, Zenon
<1>3. PICK x \in S : \A y \in S : ~ (<<y, x>> \in Less)
  BY <1>2, WFMin
<1>4. ASSUME NEW y \in S PROVE x <= y
  <2>1. <<y, x>> \in Nat \X Nat
    OBVIOUS
  <2>2. ~ (<<y, x>>[1] < <<y, x>>[2])
    BY <1>3, <2>1, Zenon DEF Less
  <2> QED
    BY <2>2
<1> QED
  BY <1>4

(* A set of numbers from 1 to n has a greatest element, which is its Max.  *)
LEMMA GreatestOf ==
  ASSUME NEW n \in Nat, NEW S, S \subseteq 1 .. n, S # {}
  PROVE  Lcd!Max(S) \in S /\ \A y \in S : y <= Lcd!Max(S)
<1> DEFINE T == {n - k : k \in S}
<1>1. T \subseteq Nat /\ T # {}
  <2>1. ASSUME NEW k \in S PROVE n - k \in Nat
    OBVIOUS
  <2>2. PICK k : k \in S
    OBVIOUS
  <2>3. n - k \in T
    BY <2>2
  <2> QED
    BY <2>1, <2>3
<1>2. PICK t \in T : \A y \in T : t <= y
  BY <1>1, LeastOf
<1>3. PICK x \in S : t = n - x
  BY <1>2
<1>4. ASSUME NEW y \in S PROVE x >= y
  <2>1. n - x <= n - y
    BY <1>2, <1>3
  <2> QED
    BY <2>1
<1>5. \E m \in S : \A y \in S : m >= y
  BY <1>4
<1> HIDE DEF T
<1>6. PICK m : m = Lcd!Max(S)
  OBVIOUS
<1>7. m \in S /\ \A y \in S : m >= y
  BY <1>5, <1>6 DEF Lcd!Max
<1> QED
  BY <1>6, <1>7

(* So many pixels after o, of the first c of im, are the same.             *)
Repeats(im, c, o, k) ==
  /\ k \in 1 .. Block /\ o + k <= c
  /\ \A j \in 1 .. k : im[o + j] = im[o + 1]
RunAt(im, c, o) == Lcd!Max({k \in 1 .. Block : Repeats(im, c, o, k)})

(* So many pixels after o are no runs.                                     *)
NoRuns(im, c, o, k) ==
  /\ k \in 1 .. Block /\ o + k <= c
  /\ \A j \in 1 .. k - 1 : RunAt(im, c, o + j) = 1
LiteralsAt(im, c, o) == Lcd!Max({k \in 1 .. Block : NoRuns(im, c, o, k)})

(* They are what the encoder counts.                                       *)
LEMMA CountsAre ==
  ASSUME NEW o
  PROVE  /\ Lcd!CountRepeated(o) = RunAt(image, count, o)
         /\ Lcd!CountLiterals(o) = LiteralsAt(image, count, o)
<1>1. \A p : Lcd!CountRepeated(p) = RunAt(image, count, p)
  <2> TAKE p
  <2>1. {k \in 1 .. Block :
           /\ p + k <= count
           /\ \A j \in 1 .. k : image[p + j] = image[p + 1]} =
        {k \in 1 .. Block : Repeats(image, count, p, k)}
    BY DEF Repeats
  <2> QED
    BY <2>1 DEF Lcd!CountRepeated, RunAt
<1>2. {k \in 1 .. Block :
         /\ o + k <= count
         /\ \A j \in 1 .. k - 1 : Lcd!CountRepeated(o + j) = 1} =
      {k \in 1 .. Block : NoRuns(image, count, o, k)}
  BY <1>1 DEF NoRuns
<1> QED
  BY <1>1, <1>2 DEF Lcd!CountLiterals, LiteralsAt

(* What the counts are where pixels are left.                              *)
LEMMA RunIsOne ==
  ASSUME LcdAssumption, NEW im, NEW c \in Nat, NEW o \in Nat, o < c
  PROVE  Repeats(im, c, o, RunAt(im, c, o))
<1> DEFINE S == {k \in 1 .. Block : Repeats(im, c, o, k)}
<1>1. 1 \in S
  BY DEF Repeats, LcdAssumption
<1>2. Lcd!Max(S) \in S
  BY <1>1, GreatestOf DEF LcdAssumption
<1> QED
  BY <1>2 DEF RunAt

(* Literals end at a run, at the end of the pixels or when there are as    *)
(* many as a block holds.                                                  *)
LEMMA LiteralsAreNoRuns ==
  ASSUME LcdAssumption, NEW im, NEW c \in Nat, NEW o \in Nat, o < c,
         RunAt(im, c, o) = 1, NEW k, k = LiteralsAt(im, c, o)
  PROVE  /\ NoRuns(im, c, o, k)
         /\ k < Block /\ o + k < c => RunAt(im, c, o + k) >= 2
<1> DEFINE S == {i \in 1 .. Block : NoRuns(im, c, o, i)}
<1>1. 1 \in S
  BY DEF NoRuns, LcdAssumption
<1>2. k \in S /\ \A y \in S : y <= k
  BY <1>1, GreatestOf DEF LcdAssumption, LiteralsAt
<1>3. NoRuns(im, c, o, k)
  BY <1>2
<1>4. ASSUME k < Block, o + k < c PROVE RunAt(im, c, o + k) >= 2
  <2>1. k \in Nat /\ k >= 1 /\ k + 1 \in 1 .. Block /\ o + (k + 1) <= c
    BY <1>3, <1>4 DEF NoRuns, LcdAssumption
  <2>2. k + 1 \notin S
    BY <1>2, <2>1
  <2>3. ~ NoRuns(im, c, o, k + 1)
    BY <2>1, <2>2
  <2>4. PICK j \in 1 .. (k + 1) - 1 : RunAt(im, c, o + j) # 1
    BY <2>1, <2>3 DEF NoRuns
  <2>5. j = k
    <3>1. j \in 1 .. k /\ (j \in 1 .. k - 1 => RunAt(im, c, o + j) = 1)
      BY <1>3, <2>1 DEF NoRuns
    <3> QED
      BY <2>1, <2>4, <3>1
  <2>6. RunAt(im, c, o + k) \in 1 .. Block
    <3>1. PICK p : p = o + k
      OBVIOUS
    <3>2. p \in Nat /\ p < c
      BY <1>4, <2>1, <3>1
    <3>3. Repeats(im, c, p, RunAt(im, c, p))
      BY <3>2, RunIsOne
    <3> QED
      BY <3>1, <3>3 DEF Repeats
  <2> QED
    BY <2>4, <2>5, <2>6 DEF LcdAssumption
<1> QED
  BY <1>3, <1>4

(* A block decodes to the pixels of im after x up to y.                    *)
Stretch(e, im, x, y) ==
  /\ IsSeq(Lcd!Decoded(e)) /\ x < y /\ y = x + Len(Lcd!Decoded(e))
  /\ \A i \in 1 .. Len(Lcd!Decoded(e)) : Lcd!Decoded(e)[i] = im[x + i]

(* A run is the pixels that repeat.                                        *)
LEMMA RunIsStretch ==
  ASSUME NEW im, NEW c \in Nat, NEW o \in Nat, NEW k, k >= 2,
         Block \in Nat, Repeats(im, c, o, k),
         NEW e, e = [run |-> k, px |-> <<im[o + 1]>>]
  PROVE  Stretch(e, im, o, o + k)
<1>1. k \in Nat /\ k # 0
  BY DEF Repeats
<1>2. e.run = k /\ e.px[1] = im[o + 1]
  OBVIOUS
<1>3. PICK d : d = Lcd!Decoded(e)
  OBVIOUS
<1>4. PICK x : x = im[o + 1]
  OBVIOUS
<1>5. d = [i \in 1 .. k |-> x]
  BY <1>1, <1>2, <1>3, <1>4 DEF Lcd!Decoded
<1>6. d \in Seq({x}) /\ Len(d) = k
  BY <1>1, <1>5
<1>7. \A i \in 1 .. k : im[o + i] = x
  BY <1>4 DEF Repeats
<1>8. \A i \in 1 .. k : d[i] = im[o + i]
  BY <1>5, <1>7
<1>9. IsSeq(d) /\ o < o + k /\ o + k = o + Len(d)
  BY <1>1, <1>6 DEF IsSeq
<1> QED
  BY <1>3, <1>6, <1>8, <1>9 DEF Stretch

(* Literals are the pixels themselves.                                     *)
LEMMA LiteralsAreStretch ==
  ASSUME NEW im \in Seq(Nat), NEW c \in Nat, NEW o \in Nat, NEW k,
         c <= Len(im), Block \in Nat, NoRuns(im, c, o, k),
         NEW e, e = [run |-> 0, px |-> SubSeq(im, o + 1, o + k)]
  PROVE  Stretch(e, im, o, o + k)
<1>1. k \in Nat /\ k >= 1 /\ o + k <= Len(im) /\ Len(im) \in Nat
  BY DEF NoRuns
<1>2. PICK a, b : a = o + 1 /\ b = o + k
  OBVIOUS
<1>3. a \in Nat /\ b \in Nat /\ 1 <= a /\ a <= b + 1 /\ b <= Len(im)
  BY <1>1, <1>2
<1>4. PICK d : d = SubSeq(im, a, b)
  OBVIOUS
<1>5. IsSlice(d, im, Nat, a, b)
  BY <1>3, <1>4, SliceOfSeq
<1>6. d \in Seq(Nat) /\ Len(d) = k /\ \A i \in 1 .. k : d[i] = im[a + i - 1]
  BY <1>1, <1>2, <1>5 DEF IsSlice
<1>7. \A i \in 1 .. k : d[i] = im[o + i]
  <2> TAKE i \in 1 .. k
  <2>1. a + i - 1 = o + i
    BY <1>2
  <2> QED
    BY <1>6, <2>1
<1>8. Lcd!Decoded(e) = d
  BY <1>2, <1>4 DEF Lcd!Decoded
<1>9. IsSeq(d) /\ o < o + k /\ o + k = o + Len(d)
  BY <1>1, <1>6 DEF IsSeq
<1> QED
  BY <1>6, <1>7, <1>8, <1>9 DEF Stretch

(* Blocks decode, one after the other, to the pixels of im after f up to   *)
(* l; p says where each begins.                                            *)
BlockPlaces(bl, im, f, l, p) ==
  /\ p \in [1 .. Len(bl) + 1 -> Nat]
  /\ p[1] = f /\ p[Len(bl) + 1] = l
  /\ \A m \in 1 .. Len(bl) : /\ Stretch(bl[m], im, p[m], p[m + 1])
                             /\ p[m + 1] <= l
Covers(bl, im, f, l) == IsSeq(bl) /\ \E p : BlockPlaces(bl, im, f, l, p)

(* No blocks are no pixels.                                                *)
LEMMA NoneCover ==
  ASSUME NEW bl, bl = <<>>, NEW im, NEW f \in Nat, NEW l
  PROVE  Covers(bl, im, f, l) <=> f = l
<1>1. IsSeq(bl) /\ Len(bl) = 0
  BY EmptyIsSeq
<1>2. ASSUME NEW p, BlockPlaces(bl, im, f, l, p) PROVE f = l
  BY <1>1, <1>2 DEF BlockPlaces
<1>3. ASSUME f = l PROVE BlockPlaces(bl, im, f, l, [i \in {1} |-> f])
  <2>1. PICK p : p = [i \in {1} |-> f]
    OBVIOUS
  <2>2. 1 .. Len(bl) + 1 = {1} /\ Len(bl) + 1 = 1
    BY <1>1
  <2>3. p \in [1 .. Len(bl) + 1 -> Nat] /\ p[1] = f /\ p[Len(bl) + 1] = l
    BY <1>3, <2>1, <2>2
  <2>4. \A m \in 1 .. Len(bl) : FALSE
    BY <1>1
  <2> QED
    BY <2>1, <2>3, <2>4 DEF BlockPlaces
<1> QED
  BY <1>1, <1>2, <1>3 DEF Covers

(* One block more.                                                         *)
LEMMA OneMoreCovers ==
  ASSUME NEW bl, NEW im, NEW f \in Nat, NEW l \in Nat, NEW n \in Nat, NEW e,
         Covers(bl, im, f, l), Stretch(e, im, l, n)
  PROVE  Covers(Append(bl, e), im, f, n)
<1>1. IsSeq(bl)
  BY DEF Covers
<1>2. PICK p : BlockPlaces(bl, im, f, l, p)
  BY DEF Covers
<1>3. PICK more, k : more = Append(bl, e) /\ k = Len(bl)
  OBVIOUS
<1>4. /\ IsSeq(more) /\ k \in Nat /\ Len(more) = k + 1
      /\ more[k + 1] = e /\ \A m \in 1 .. k : more[m] = bl[m]
  BY <1>1, <1>3, AppendToSeq
<1>5. PICK q : q = [m \in 1 .. k + 2 |-> IF m = k + 2 THEN n ELSE p[m]]
  OBVIOUS
<1>6. /\ p \in [1 .. k + 1 -> Nat] /\ p[1] = f /\ p[k + 1] = l
      /\ \A m \in 1 .. k : /\ Stretch(bl[m], im, p[m], p[m + 1])
                           /\ p[m + 1] <= l
  BY <1>2, <1>3 DEF BlockPlaces
<1>7. q \in [1 .. k + 2 -> Nat]
  BY <1>4, <1>5, <1>6
<1>8. q[k + 2] = n /\ \A m \in 1 .. k + 1 : q[m] = p[m]
  BY <1>4, <1>5
<1>9. q[1] = f /\ q[k + 1] = l
  BY <1>4, <1>6, <1>8
<1>10. l < n
  BY DEF Stretch
<1>11. ASSUME NEW m \in 1 .. k + 1
       PROVE  Stretch(more[m], im, q[m], q[m + 1]) /\ q[m + 1] <= n
  <2>1. CASE m = k + 1
    <3>1. more[m] = e /\ q[m] = l /\ q[m + 1] = n
      BY <1>4, <1>8, <1>9, <2>1
    <3> QED
      BY <3>1
  <2>2. CASE m # k + 1
    <3>1. m \in 1 .. k /\ m + 1 \in 1 .. k + 1
      BY <1>4, <2>2
    <3>2. more[m] = bl[m] /\ q[m] = p[m] /\ q[m + 1] = p[m + 1]
      BY <1>4, <1>8, <3>1
    <3>3. Stretch(bl[m], im, p[m], p[m + 1]) /\ p[m + 1] <= l
      BY <1>6, <3>1
    <3>4. p[m + 1] \in Nat
      BY <1>6, <3>1
    <3> QED
      BY <1>10, <3>2, <3>3, <3>4
  <2> QED
    BY <2>1, <2>2
<1>12. Len(more) + 1 = k + 2
  BY <1>4
<1>13. BlockPlaces(more, im, f, n, q)
  BY <1>4, <1>7, <1>8, <1>9, <1>11, <1>12 DEF BlockPlaces
<1> QED
  BY <1>3, <1>4, <1>13 DEF Covers

(* The first block of several, and the others.                             *)
LEMMA FirstCovers ==
  ASSUME NEW bl, bl # <<>>, NEW im, NEW f \in Nat, NEW l \in Nat,
         Covers(bl, im, f, l)
  PROVE  \E n \in Nat : /\ Stretch(Head(bl), im, f, n) /\ n <= l
                        /\ Covers(Tail(bl), im, n, l)
<1>1. IsSeq(bl)
  BY DEF Covers
<1>2. PICK p : BlockPlaces(bl, im, f, l, p)
  BY DEF Covers
<1>3. PICK rest, k : rest = Tail(bl) /\ k = Len(bl)
  OBVIOUS
<1>4. /\ IsSeq(rest) /\ k \in Nat /\ k >= 1 /\ Len(rest) = k - 1
      /\ Head(bl) = bl[1] /\ \A m \in 1 .. k - 1 : rest[m] = bl[m + 1]
  BY <1>1, <1>3, TailOfSeq
<1>5. PICK q : q = [m \in 1 .. k |-> p[m + 1]]
  OBVIOUS
<1>6. /\ p \in [1 .. k + 1 -> Nat] /\ p[1] = f /\ p[k + 1] = l
      /\ \A m \in 1 .. k : /\ Stretch(bl[m], im, p[m], p[m + 1])
                           /\ p[m + 1] <= l
  BY <1>2, <1>3 DEF BlockPlaces
<1>7. q \in [1 .. k -> Nat] /\ \A m \in 1 .. k : q[m] = p[m + 1]
  <2>1. \A m \in 1 .. k : p[m + 1] \in Nat
    BY <1>4, <1>6
  <2> QED
    BY <1>5, <2>1
<1>8. q[1] = p[2] /\ q[k] = l /\ p[2] \in Nat
  BY <1>4, <1>6, <1>7
<1>9. Stretch(bl[1], im, f, p[2]) /\ p[2] <= l
  <2>1. 1 \in 1 .. k /\ 1 + 1 = 2
    BY <1>4
  <2>2. Stretch(bl[1], im, p[1], p[1 + 1]) /\ p[1 + 1] <= l
    BY <1>6, <2>1
  <2> QED
    BY <1>6, <2>1, <2>2
<1>10. ASSUME NEW m \in 1 .. k - 1
       PROVE  Stretch(rest[m], im, q[m], q[m + 1]) /\ q[m + 1] <= l
  <2>1. m \in 1 .. k /\ m + 1 \in 1 .. k
    BY <1>4
  <2>2. rest[m] = bl[m + 1] /\ q[m] = p[m + 1] /\ q[m + 1] = p[(m + 1) + 1]
    BY <1>4, <1>7, <2>1
  <2>3. /\ Stretch(bl[m + 1], im, p[m + 1], p[(m + 1) + 1])
        /\ p[(m + 1) + 1] <= l
    BY <1>6, <2>1
  <2> QED
    BY <2>2, <2>3
<1>11. Len(rest) + 1 = k
  BY <1>4
<1>12. BlockPlaces(rest, im, p[2], l, q)
  BY <1>4, <1>7, <1>8, <1>10, <1>11 DEF BlockPlaces
<1>13. Covers(rest, im, p[2], l)
  BY <1>4, <1>12 DEF Covers
<1> QED
  BY <1>3, <1>4, <1>8, <1>9, <1>13

(* The bytes y of the first x of c pixels encoded: those of the pixels and *)
(* one more for every three, or for what is left of them where literals    *)
(* have ended before a run or at the end.                                  *)
Thrifty(im, c, x, y) ==
  /\ x > 0 => y > 0
  /\ \E e \in Int : /\ y = Unit * x + e
                    /\ \/ 3 * e <= x
                       \/ 3 * e <= x + 2 /\ (x = c \/ RunAt(im, c, x) >= 2)

(* A run costs no more than its pixels.                                    *)
LEMMA RunIsThrifty ==
  ASSUME LcdAssumption, NEW im, NEW c \in Nat, NEW x \in Nat, NEW y \in Nat,
         Thrifty(im, c, x, y), NEW k \in Nat, k >= 2
  PROVE  Thrifty(im, c, x + k, y + (1 + Unit))
<1>1. PICK e \in Int : y = Unit * x + e /\ 3 * e <= x + 2
  BY DEF Thrifty
<1>2. Unit \in Nat /\ Unit >= 1
  BY DEF LcdAssumption
<1>3. PICK p, r, s : p = Unit * x /\ r = Unit * k /\ s = Unit * (x + k)
  OBVIOUS
<1>4. p \in Nat /\ r \in Nat /\ s = p + r
  BY <1>2, <1>3
<1>5. r >= 2 * Unit
  BY <1>2, <1>3
<1>6. PICK d : d = e + 1 + Unit - r
  OBVIOUS
<1>7. r >= Unit + 1
  BY <1>2, <1>4, <1>5
<1>8. d \in Int /\ d <= e
  BY <1>2, <1>4, <1>6, <1>7
<1>9. 3 * d <= x + k
  BY <1>1, <1>8
<1>10. y + (1 + Unit) = s + d
  BY <1>1, <1>2, <1>3, <1>4, <1>6
<1>11. y + (1 + Unit) > 0
  BY <1>2
<1> QED
  BY <1>3, <1>8, <1>9, <1>10, <1>11, Zenon DEF Thrifty

(* Literals cost a byte more than their pixels.                            *)
LEMMA LiteralsAreThrifty ==
  ASSUME LcdAssumption, NEW im, NEW c \in Nat, NEW x \in Nat, NEW y \in Nat,
         Thrifty(im, c, x, y), x < c, RunAt(im, c, x) = 1,
         NEW k, k = LiteralsAt(im, c, x)
  PROVE  Thrifty(im, c, x + k, y + (1 + Unit * k))
<1>1. PICK e \in Int : y = Unit * x + e /\ 3 * e <= x
  BY DEF Thrifty
<1>2. Unit \in Nat /\ Block \in Nat /\ Block >= 3
  BY DEF LcdAssumption
<1>3. /\ NoRuns(im, c, x, k)
      /\ k < Block /\ x + k < c => RunAt(im, c, x + k) >= 2
  BY LiteralsAreNoRuns
<1>4. k \in Nat /\ k >= 1 /\ k <= Block /\ x + k <= c
  BY <1>2, <1>3 DEF NoRuns
<1>5. PICK p, r, s : p = Unit * x /\ r = Unit * k /\ s = Unit * (x + k)
  OBVIOUS
<1>6. p \in Nat /\ r \in Nat /\ s = p + r
  BY <1>2, <1>4, <1>5
<1>7. PICK d : d = e + 1
  OBVIOUS
<1>8. d \in Int /\ 3 * d <= x + 3
  BY <1>1, <1>7
<1>9. y + (1 + r) = s + d
  BY <1>1, <1>5, <1>6, <1>7
<1>10. PICK z : z = x + k
  OBVIOUS
<1>11. 3 * d <= z \/ (3 * d <= z + 2 /\ (z = c \/ RunAt(im, c, z) >= 2))
  <2>1. CASE k = Block
    BY <1>2, <1>4, <1>8, <1>10, <2>1
  <2>2. CASE k # Block
    <3>1. k < Block /\ 3 * d <= z + 2 /\ z <= c /\ z \in Nat
      BY <1>2, <1>4, <1>8, <1>10, <2>2
    <3>2. z = c \/ z < c
      BY <3>1
    <3> QED
      BY <1>3, <1>10, <3>1, <3>2
  <2> QED
    BY <2>1, <2>2
<1>12. y + (1 + r) > 0
  BY <1>6
<1>13. Thrifty(im, c, z, y + (1 + r))
  BY <1>5, <1>8, <1>9, <1>10, <1>11, <1>12, Zenon DEF Thrifty
<1> QED
  BY <1>5, <1>10, <1>13

(* So the worst case is.                                                   *)
LEMMA WorstIsThrifty ==
  ASSUME LcdAssumption, NEW im, NEW c \in Nat, NEW x \in Nat, NEW y \in Nat,
         Thrifty(im, c, x, y), x <= c
  PROVE  y <= Unit * c + (c + 2) \div 3
<1>1. PICK e \in Int : y = Unit * x + e /\ 3 * e <= x + 2
  BY DEF Thrifty
<1>2. Unit \in Nat
  BY DEF LcdAssumption
<1>3. PICK p, r, q : p = Unit * x /\ r = Unit * c /\ q = (c + 2) \div 3
  OBVIOUS
<1>4. p \in Nat /\ r \in Nat /\ p <= r
  <2>1. PICK n \in Nat : c = x + n
    <3>1. c - x \in Nat /\ c = x + (c - x)
      OBVIOUS
    <3> QED
      BY <3>1
  <2>2. r = p + Unit * n /\ Unit * n \in Nat
    BY <1>2, <1>3, <2>1
  <2> QED
    BY <1>2, <1>3, <2>2
<1>5. q \in Nat /\ 3 * q <= c + 2 /\ c + 2 < 3 * q + 3
  BY <1>3
<1>6. e <= q
  BY <1>1, <1>5
<1> QED
  BY <1>1, <1>3, <1>4, <1>5, <1>6

(* Of a bitmap whose sizes fit nothing wraps.                              *)
LEMMA FitsExactly ==
  ASSUME LcdAssumption, NEW n \in Nat,
         Header + Unit * n + (n + 2) \div 3 < LcdWord
  PROVE  /\ n % LcdWord = n
         /\ Lcd!WorstCase(n) = Unit * n + (n + 2) \div 3
         /\ (Header + Lcd!WorstCase(n)) % LcdWord =
              Header + (Unit * n + (n + 2) \div 3)
<1>1. PICK p, q : p = Unit * n /\ q = (n + 2) \div 3
  OBVIOUS
<1>2. Header \in Nat /\ LcdWord \in Nat \ {0} /\ Unit \in Nat /\ Unit >= 1
  BY DEF LcdAssumption
<1>3. p \in Nat /\ q \in Nat /\ p >= n
  BY <1>1, <1>2
<1>4. \A z \in Nat : z < LcdWord => z % LcdWord = z
  BY <1>2
<1>5. n % LcdWord = n /\ (p + q) % LcdWord = p + q
  BY <1>1, <1>2, <1>3, <1>4
<1>6. (Header + (p + q)) % LcdWord = Header + (p + q)
  BY <1>1, <1>2, <1>3, <1>4
<1>7. Lcd!WorstCase(n) = (p + q) % LcdWord
  BY <1>1 DEF Lcd!WorstCase
<1> QED
  BY <1>1, <1>5, <1>6, <1>7

LcdTypes ==
  /\ width \in Nat /\ height \in Nat /\ count \in Nat /\ room \in Nat
  /\ from \in Nat /\ to \in Nat /\ IsSeq(pixels)
  /\ image \in Seq(Nat) /\ Len(image) = width * height
  /\ count <= Len(image)
LcdSizes ==
  lcd \in {"encode", "decode"} =>
    /\ Len(image) > 0 /\ count = Len(image) % LcdWord
    /\ room = (Header + Lcd!WorstCase(count)) % LcdWord
LcdEncoding ==
  lcd = "encode" =>
    /\ pixels = <<>> /\ from <= count
    /\ Covers(blocks, image, 0, from) /\ Thrifty(image, count, from, to)
LcdDecoding ==
  lcd = "decode" =>
    /\ Len(pixels) <= count
    /\ \A i \in 1 .. Len(pixels) : pixels[i] = image[i]
    /\ Covers(blocks, image, Len(pixels), count)
(* What is encoded covers the first pixels thriftily, what is decoded are  *)
(* the first pixels, and what is left to decode covers the others.         *)
LcdInv ==
  LcdTypes /\ LcdSizes /\ LcdEncoding /\ LcdDecoding /\ Lcd!ImageArrives

(* What Write does to a block of so many bytes.                            *)
WriteOf(e, bytes, n) ==
  /\ Lcd!Write(e, bytes, n)
  /\ UNCHANGED <<width, height, image, count, room, pixels>>

(* Sizes that fit are those of the pixels drawn.                           *)
LEMMA FittingSizes ==
  ASSUME LcdAssumption, LcdTypes, LcdSizes, lcd \in {"encode", "decode"},
         Lcd!Fits
  PROVE  /\ count = Len(image)
         /\ Lcd!WorstCase(count) = Unit * count + (count + 2) \div 3
         /\ room = Header + (Unit * count + (count + 2) \div 3)
         /\ room < LcdWord /\ ATS_RPC_HEADER_SIZE + room < LcdWord
<1>1. PICK n \in Nat : n = Len(image)
  BY DEF LcdTypes
<1>2. n = width * height
  BY <1>1 DEF LcdTypes
<1>3. ATS_RPC_HEADER_SIZE + Header + Unit * n + (n + 2) \div 3 < LcdWord
  BY <1>2 DEF Lcd!Fits
<1>4. PICK p, q : p = Unit * n /\ q = (n + 2) \div 3
  OBVIOUS
<1>5. p \in Nat /\ q \in Nat /\ Header \in Nat
      /\ ATS_RPC_HEADER_SIZE \in Nat /\ LcdWord \in Nat
  BY <1>4 DEF LcdAssumption
<1>6. ATS_RPC_HEADER_SIZE + (Header + (p + q)) < LcdWord
      /\ Header + (p + q) < LcdWord /\ Header + p + q < LcdWord
  BY <1>3, <1>4, <1>5
<1>7. /\ n % LcdWord = n
      /\ Lcd!WorstCase(n) = Unit * n + (n + 2) \div 3
      /\ (Header + Lcd!WorstCase(n)) % LcdWord =
           Header + (Unit * n + (n + 2) \div 3)
  BY <1>4, <1>6, FitsExactly
<1>8. count = n % LcdWord /\ room = (Header + Lcd!WorstCase(count)) % LcdWord
  BY <1>1 DEF LcdSizes
<1>9. count = n
  BY <1>7, <1>8
<1> QED
  BY <1>1, <1>4, <1>6, <1>7, <1>8, <1>9

(* A block written covers more of the pixels, and when the sizes fit there *)
(* is room for it.                                                         *)
LEMMA WriteKeepsLcd ==
  ASSUME LcdAssumption, LcdInv, lcd = "encode", NEW e, NEW bytes \in Nat,
         NEW n \in Nat, WriteOf(e, bytes, n), from + n <= count,
         Stretch(e, image, from, from + n),
         Thrifty(image, count, from + n, to + bytes)
  PROVE  LcdInv'
<1>1. LcdTypes /\ LcdSizes /\ LcdEncoding
  BY DEF LcdInv
<1>2. /\ width' = width /\ height' = height /\ image' = image
      /\ count' = count /\ room' = room /\ pixels' = pixels
  BY DEF WriteOf
<1>3. Lcd!Fits' <=> Lcd!Fits
  BY <1>2 DEF Lcd!Fits
<1>4. ASSUME Lcd!Fits
      PROVE  /\ ~ ((to + bytes) % LcdWord > Lcd!WorstCase(count))
             /\ ~ (Header + to + bytes > room)
  <2>1. PICK w : w = Unit * count + (count + 2) \div 3
    OBVIOUS
  <2>2. Lcd!WorstCase(count) = w /\ room = Header + w /\ room < LcdWord
    BY <1>1, <1>4, <2>1, FittingSizes
  <2>3. PICK x, y : x = from + n /\ y = to + bytes
    OBVIOUS
  <2>4. x \in Nat /\ y \in Nat /\ x <= count /\ count \in Nat
    BY <1>1, <2>3 DEF LcdTypes
  <2>5. y <= w
    BY <2>1, <2>3, <2>4, WorstIsThrifty
  <2>6. w \in Int /\ Header \in Nat /\ LcdWord \in Nat \ {0}
    <3>1. Unit \in Nat /\ Header \in Nat /\ LcdWord \in Nat \ {0}
      BY DEF LcdAssumption
    <3>2. Unit * count \in Int /\ (count + 2) \div 3 \in Int
      BY <2>4, <3>1
    <3> QED
      BY <2>1, <3>1, <3>2
  <2>7. y < LcdWord
    BY <2>2, <2>4, <2>5, <2>6
  <2>8. y % LcdWord = y
    BY <2>4, <2>6, <2>7
  <2>9. ~ (y > w) /\ ~ (Header + y > Header + w)
    BY <2>4, <2>5, <2>6
  <2>10. Header + y = Header + to + bytes
    BY <1>1, <2>3, <2>6 DEF LcdTypes
  <2> QED
    BY <2>2, <2>3, <2>8, <2>9, <2>10
<1>5. CASE /\ lcd' \in {"too large", "undefined"}
           /\ UNCHANGED <<from, to, blocks>>
  <2>1. ~ Lcd!Fits
    BY <1>4, <1>5 DEF WriteOf, Lcd!Write
  <2>2. LcdTypes'
    BY <1>1, <1>2, <1>5 DEF LcdTypes
  <2>3. LcdSizes' /\ LcdEncoding' /\ LcdDecoding'
    BY <1>5 DEF LcdSizes, LcdEncoding, LcdDecoding
  <2>4. Lcd!ImageArrives'
    BY <1>3, <1>5, <2>1 DEF Lcd!ImageArrives
  <2> QED
    BY <2>2, <2>3, <2>4 DEF LcdInv
<1>6. CASE /\ to' = to + bytes /\ from' = from + n
           /\ blocks' = Append(blocks, e) /\ lcd' = "encode"
  <2>1. LcdTypes'
    <3>1. from' \in Nat /\ to' \in Nat
      BY <1>1, <1>6 DEF LcdTypes
    <3> QED
      BY <1>1, <1>2, <3>1 DEF LcdTypes
  <2>2. LcdSizes'
    <3>1. Lcd!WorstCase(count)' = Lcd!WorstCase(count)
      BY <1>2 DEF Lcd!WorstCase
    <3> QED
      BY <1>1, <1>2, <3>1 DEF LcdSizes
  <2>3. LcdEncoding'
    <3>1. PICK x : x = from + n
      OBVIOUS
    <3>2. x \in Nat /\ from \in Nat
      BY <1>1, <3>1 DEF LcdTypes
    <3>3. Covers(blocks, image, 0, from)
      BY <1>1 DEF LcdEncoding
    <3>4. Covers(Append(blocks, e), image, 0, x)
      BY <3>1, <3>2, <3>3, OneMoreCovers
    <3>5. Thrifty(image, count, x, to + bytes)
      BY <3>1
    <3>6. from' = x /\ blocks' = Append(blocks, e) /\ to' = to + bytes
      BY <1>6, <3>1
    <3>7. Covers(blocks', image', 0, from')
      BY <1>2, <3>4, <3>6
    <3>8. Thrifty(image', count', from', to')
      BY <1>2, <3>5, <3>6
    <3>9. pixels' = <<>> /\ from' <= count'
      BY <1>1, <1>2, <3>1, <3>6 DEF LcdEncoding
    <3> QED
      BY <3>7, <3>8, <3>9 DEF LcdEncoding
  <2>4. LcdDecoding' /\ Lcd!ImageArrives'
    BY <1>6 DEF LcdDecoding, Lcd!ImageArrives
  <2> QED
    BY <2>1, <2>2, <2>3, <2>4 DEF LcdInv
<1> QED
  BY <1>5, <1>6 DEF WriteOf, Lcd!Write

(* A bitmap to draw: nothing of it is encoded.                             *)
LEMMA DrawKeepsLcd ==
  ASSUME LcdAssumption, LcdInv, Lcd!Draw
  PROVE  LcdInv'
<1>1. PICK s \in Sizes :
        /\ width' = s[1] /\ height' = s[2] /\ image' \in Images[s[1] * s[2]]
        /\ count' = (s[1] * s[2]) % LcdWord
  BY DEF Lcd!Draw
<1>2. /\ room' = (Header + Lcd!WorstCase(count')) % LcdWord
      /\ from' = 0 /\ to' = 0 /\ blocks' = <<>> /\ pixels' = <<>>
      /\ lcd' \in {"encode", "no memory"}
  BY DEF Lcd!Draw
<1>3. s \in (Nat \ {0}) \X (Nat \ {0})
      /\ Images[s[1] * s[2]] \subseteq [1 .. s[1] * s[2] -> Nat]
  BY <1>1 DEF LcdAssumption
<1>4. PICK n : n = s[1] * s[2]
  OBVIOUS
<1>5. s[1] \in Nat \ {0} /\ s[2] \in Nat \ {0} /\ n \in Nat /\ n > 0
  BY <1>3, <1>4
<1>6. image' \in [1 .. n -> Nat]
  BY <1>1, <1>3, <1>4
<1>7. image' \in Seq(Nat) /\ Len(image') = n
  BY <1>5, <1>6
<1>8. LcdWord \in Nat \ {0} /\ Header \in Nat /\ Unit \in Nat
  BY DEF LcdAssumption
<1>9. count' = n % LcdWord /\ count' \in Nat /\ count' <= n
  <2>1. n % LcdWord \in Nat /\ n % LcdWord <= n
    BY <1>5, <1>8
  <2>2. count' = n % LcdWord
    BY <1>1, <1>4
  <2> QED
    BY <2>1, <2>2
<1>10. Lcd!WorstCase(count') \in Nat
  <2>1. PICK p, q : p = Unit * count' /\ q = (count' + 2) \div 3
    OBVIOUS
  <2>2. p \in Nat /\ q \in Nat
    BY <1>8, <1>9, <2>1
  <2>3. (p + q) % LcdWord \in Nat
    BY <1>8, <2>2
  <2> QED
    BY <2>1, <2>3 DEF Lcd!WorstCase
<1>11. room' \in Nat
  <2>1. PICK w : w = Lcd!WorstCase(count')
    OBVIOUS
  <2>2. (Header + w) % LcdWord \in Nat
    BY <1>8, <1>10, <2>1
  <2> QED
    BY <1>2, <2>1, <2>2
<1>12. IsSeq(pixels')
  BY <1>2, EmptyIsSeq
<1>13. LcdTypes'
  BY <1>1, <1>2, <1>4, <1>5, <1>7, <1>9, <1>11, <1>12 DEF LcdTypes
<1>14. LcdSizes'
  <2>1. Lcd!WorstCase(count)' = Lcd!WorstCase(count')
    BY DEF Lcd!WorstCase
  <2> QED
    BY <1>2, <1>5, <1>7, <1>9, <2>1 DEF LcdSizes
<1>15. LcdEncoding'
  <2>1. Covers(blocks', image', 0, 0)
    BY <1>2, NoneCover
  <2>2. 0 = Unit * 0 + 0 /\ 3 * 0 <= 0
    BY <1>8
  <2>3. Thrifty(image', count', 0, 0)
    BY <2>2 DEF Thrifty
  <2> QED
    BY <1>2, <1>9, <2>1, <2>3 DEF LcdEncoding
<1>16. LcdDecoding' /\ Lcd!ImageArrives'
  BY <1>2 DEF LcdDecoding, Lcd!ImageArrives
<1> QED
  BY <1>13, <1>14, <1>15, <1>16 DEF LcdInv

(* A block is a run or the literals up to the next.                        *)
LEMMA EncodeKeepsLcd ==
  ASSUME LcdAssumption, LcdInv, Lcd!EncodeBlock
  PROVE  LcdInv'
<1>1. LcdTypes /\ LcdEncoding /\ lcd = "encode" /\ from < count
  BY DEF LcdInv, Lcd!EncodeBlock
<1>2. from \in Nat /\ count \in Nat /\ to \in Nat /\ image \in Seq(Nat)
      /\ count <= Len(image)
  BY <1>1 DEF LcdTypes
<1>3. Thrifty(image, count, from, to)
  BY <1>1 DEF LcdEncoding
<1>4. PICK k, l : k = RunAt(image, count, from)
                  /\ l = LiteralsAt(image, count, from)
  OBVIOUS
<1>5. Lcd!CountRepeated(from) = k /\ Lcd!CountLiterals(from) = l
  BY <1>4, CountsAre
<1>6. Repeats(image, count, from, k)
  BY <1>1, <1>2, <1>4, RunIsOne
<1>7. Block \in Nat /\ Unit \in Nat
  BY DEF LcdAssumption
<1>8. k \in Nat /\ k >= 1 /\ from + k <= count
  BY <1>6, <1>7 DEF Repeats
<1>9. CASE k >= 2
  <2>1. PICK e : e = [run |-> k, px |-> <<image[from + 1]>>]
    OBVIOUS
  <2>2. WriteOf(e, 1 + Unit, k)
    BY <1>5, <1>9, <2>1 DEF Lcd!EncodeBlock, Lcd!bitmap, WriteOf
  <2>3. Stretch(e, image, from, from + k)
    BY <1>2, <1>6, <1>7, <1>9, <2>1, RunIsStretch
  <2>4. Thrifty(image, count, from + k, to + (1 + Unit))
    BY <1>2, <1>3, <1>8, <1>9, RunIsThrifty
  <2>5. PICK bytes \in Nat : bytes = 1 + Unit
    BY <1>7
  <2> QED
    BY <1>1, <1>8, <2>2, <2>3, <2>4, <2>5, WriteKeepsLcd
<1>10. CASE k < 2
  <2>1. RunAt(image, count, from) = 1
    BY <1>4, <1>8, <1>10
  <2>2. PICK e : e = [run |-> 0, px |-> SubSeq(image, from + 1, from + l)]
    OBVIOUS
  <2>3. WriteOf(e, 1 + Unit * l, l)
    BY <1>5, <1>8, <1>10, <2>2 DEF Lcd!EncodeBlock, Lcd!bitmap, WriteOf
  <2>4. NoRuns(image, count, from, l)
    BY <1>1, <1>2, <1>4, <2>1, LiteralsAreNoRuns
  <2>5. l \in Nat /\ from + l <= count
    BY <1>7, <2>4 DEF NoRuns
  <2>6. Stretch(e, image, from, from + l)
    BY <1>2, <1>7, <2>2, <2>4, LiteralsAreStretch
  <2>7. Thrifty(image, count, from + l, to + (1 + Unit * l))
    BY <1>1, <1>2, <1>3, <1>4, <2>1, LiteralsAreThrifty
  <2>8. PICK bytes \in Nat : bytes = 1 + Unit * l
    BY <1>7, <2>5
  <2> QED
    BY <1>1, <2>3, <2>5, <2>6, <2>7, <2>8, WriteKeepsLcd
<1> QED
  BY <1>8, <1>9, <1>10

(* All pixels are encoded: the blocks cover them all.                      *)
LEMMA SendKeepsLcd ==
  ASSUME LcdAssumption, LcdInv, Lcd!Send
  PROVE  LcdInv'
<1>1. LcdTypes /\ LcdSizes /\ LcdEncoding /\ lcd = "encode" /\ from = count
  BY DEF LcdInv, Lcd!Send
<1>2. /\ width' = width /\ height' = height /\ image' = image
      /\ count' = count /\ room' = room /\ from' = from /\ to' = to
      /\ blocks' = blocks /\ pixels' = pixels
      /\ lcd' \in {"too large", "no memory", "decode", "undefined"}
  BY DEF Lcd!Send, Lcd!SendFrame, Lcd!bitmap, Lcd!encoder
<1>3. Lcd!Fits' <=> Lcd!Fits
  BY <1>2 DEF Lcd!Fits
<1>4. LcdTypes'
  BY <1>1, <1>2 DEF LcdTypes
<1>5. LcdSizes' /\ LcdEncoding'
  <2>1. Lcd!WorstCase(count)' = Lcd!WorstCase(count)
    BY <1>2 DEF Lcd!WorstCase
  <2> QED
    BY <1>1, <1>2, <2>1 DEF LcdSizes, LcdEncoding
<1>6. LcdDecoding'
  <2>1. pixels = <<>> /\ Covers(blocks, image, 0, count) /\ count \in Nat
    BY <1>1 DEF LcdEncoding, LcdTypes
  <2>2. Len(pixels) = 0
    BY <2>1, EmptyIsSeq
  <2>3. Covers(blocks', image', Len(pixels'), count')
    BY <1>2, <2>1, <2>2
  <2>4. Len(pixels') = 0
    BY <1>2, <2>2
  <2>5. Len(pixels') <= count'
    <3>1. count' = count /\ count \in Nat
      BY <1>2, <2>1
    <3>2. count' \in Nat
      BY <3>1
    <3> QED
      BY <2>4, <3>2
  <2>6. \A i \in 1 .. Len(pixels') : FALSE
    BY <2>4
  <2> QED
    BY <2>3, <2>5, <2>6 DEF LcdDecoding
<1>7. Lcd!ImageArrives'
  <2>1. ASSUME Lcd!Fits PROVE lcd' \in {"no memory", "decode"}
    <3>1. PICK w : w = Unit * count + (count + 2) \div 3
      OBVIOUS
    <3>2. /\ count = Len(image) /\ Len(image) > 0
          /\ room = Header + w /\ ATS_RPC_HEADER_SIZE + room < LcdWord
      BY <1>1, <2>1, <3>1, FittingSizes DEF LcdSizes
    <3>3. count \in Nat /\ to \in Nat /\ room \in Nat
      BY <1>1 DEF LcdTypes
    <3>4. Thrifty(image, count, count, to)
      BY <1>1 DEF LcdEncoding
    <3>5. to > 0
      BY <3>2, <3>4 DEF Thrifty
    <3>6. to <= w
      <4>1. count <= count
        BY <3>3
      <4> QED
        BY <3>1, <3>3, <3>4, <4>1, WorstIsThrifty
    <3>7. PICK h, a : h = Header /\ a = ATS_RPC_HEADER_SIZE
      OBVIOUS
    <3>8. h \in Nat /\ a \in Nat /\ LcdWord \in Nat /\ w \in Int
      <4>1. Unit \in Nat
        BY DEF LcdAssumption
      <4>2. Unit * count \in Int /\ (count + 2) \div 3 \in Int
        BY <3>3, <4>1
      <4> QED
        BY <3>1, <3>7, <4>2 DEF LcdAssumption
    <3>9. ~ (a + (h + to) >= LcdWord)
      BY <3>2, <3>3, <3>6, <3>7, <3>8
    <3>10. to # 0
      BY <3>3, <3>5
    <3> QED
      BY <3>7, <3>9, <3>10 DEF Lcd!Send, Lcd!SendFrame
  <2> QED
    BY <1>2, <1>3, <2>1 DEF Lcd!ImageArrives
<1> QED
  BY <1>4, <1>5, <1>6, <1>7 DEF LcdInv

(* The block decoded is the next pixels of the bitmap.                     *)
LEMMA DecodeKeepsLcd ==
  ASSUME LcdAssumption, LcdInv, Lcd!DecodeBlock
  PROVE  LcdInv'
<1>1. LcdTypes /\ LcdSizes /\ LcdDecoding /\ lcd = "decode" /\ blocks # <<>>
  BY DEF LcdInv, Lcd!DecodeBlock
<1>2. /\ width' = width /\ height' = height /\ image' = image
      /\ count' = count /\ room' = room /\ from' = from /\ to' = to
  BY DEF Lcd!DecodeBlock, Lcd!bitmap, Lcd!encoder
<1>3. PICK px, more, d, k, z : /\ px = pixels /\ k = Len(pixels)
                               /\ d = Lcd!Decoded(Head(blocks))
                               /\ more = pixels \o d
                               /\ z = width * height
  OBVIOUS
<1>4. IsSeq(px) /\ k = Len(px) /\ k \in Nat /\ count \in Nat /\ count <= z
      /\ z = Len(image)
  <2>1. IsSeq(px) /\ count \in Nat /\ count <= z /\ z = Len(image)
    BY <1>1, <1>3 DEF LcdTypes
  <2>2. \A S : px \in Seq(S) => Len(px) \in Nat
    OBVIOUS
  <2> QED
    BY <1>3, <2>1, <2>2 DEF IsSeq
<1>5. Covers(blocks, image, k, count)
  BY <1>1, <1>3 DEF LcdDecoding
<1>6. PICK n \in Nat : /\ Stretch(Head(blocks), image, k, n) /\ n <= count
                       /\ Covers(Tail(blocks), image, n, count)
  BY <1>1, <1>4, <1>5, FirstCovers
<1>7. /\ IsSeq(d) /\ n = k + Len(d)
      /\ \A i \in 1 .. Len(d) : d[i] = image[k + i]
  BY <1>3, <1>6 DEF Stretch
<1>8. Joins(more, px, d)
  BY <1>3, <1>4, <1>7, JoinOfSeqs
<1>9. /\ IsSeq(more) /\ Len(d) \in Nat /\ Len(more) = n
      /\ \A i \in 1 .. k : more[i] = px[i]
      /\ \A i \in 1 .. Len(d) : more[k + i] = d[i]
  BY <1>4, <1>7, <1>8 DEF Joins
<1>10. \A i \in 1 .. k : px[i] = image[i]
  BY <1>1, <1>3 DEF LcdDecoding
<1>11. \A i \in 1 .. n : more[i] = image[i]
  <2> TAKE i \in 1 .. n
  <2>1. CASE i <= k
    <3>1. i \in 1 .. k
      BY <1>4, <2>1
    <3> QED
      BY <1>9, <1>10, <3>1
  <2>2. CASE ~ (i <= k)
    <3>1. i - k \in 1 .. Len(d) /\ k + (i - k) = i
      BY <1>4, <1>7, <1>9, <2>2
    <3> QED
      BY <1>7, <1>9, <3>1
  <2> QED
    BY <2>1, <2>2
<1>12. ~ (Len(more) > z)
  <2>1. z \in Nat
    BY <1>1, <1>3 DEF LcdTypes
  <2> QED
    BY <1>4, <1>6, <1>9, <2>1
<1>13. pixels' = more /\ blocks' = Tail(blocks) /\ lcd' = lcd
  BY <1>3, <1>12 DEF Lcd!DecodeBlock
<1>14. LcdTypes'
  BY <1>1, <1>2, <1>9, <1>13 DEF LcdTypes
<1>15. LcdSizes' /\ LcdEncoding'
  <2>1. Lcd!WorstCase(count)' = Lcd!WorstCase(count)
    BY <1>2 DEF Lcd!WorstCase
  <2> QED
    BY <1>1, <1>2, <1>13, <2>1 DEF LcdSizes, LcdEncoding
<1>16. LcdDecoding'
  <2>1. Len(pixels') = n
    BY <1>9, <1>13
  <2>2. Covers(blocks', image', Len(pixels'), count')
    BY <1>2, <1>6, <1>13, <2>1
  <2>3. \A i \in 1 .. Len(pixels') : pixels'[i] = image'[i]
    BY <1>2, <1>11, <1>13, <2>1
  <2>4. Len(pixels') <= count'
    BY <1>2, <1>6, <2>1
  <2> QED
    BY <2>2, <2>3, <2>4 DEF LcdDecoding
<1>17. Lcd!ImageArrives'
  BY <1>1, <1>13 DEF Lcd!ImageArrives
<1> QED
  BY <1>14, <1>15, <1>16, <1>17 DEF LcdInv

(* When no block is left and there are the pixels the bitmap has, they are *)
(* its pixels; one whose sizes fit has no block left.                      *)
LEMMA ShowKeepsLcd ==
  ASSUME LcdAssumption, LcdInv, Lcd!Show
  PROVE  LcdInv'
<1>1. /\ LcdTypes /\ LcdSizes /\ LcdDecoding /\ lcd = "decode"
      /\ blocks = <<>> \/ Len(pixels) = width * height
  BY DEF LcdInv, Lcd!Show
<1>2. /\ width' = width /\ height' = height /\ image' = image
      /\ count' = count /\ room' = room /\ from' = from /\ to' = to
      /\ blocks' = blocks /\ pixels' = pixels
  BY DEF Lcd!Show, Lcd!bitmap, Lcd!encoder
<1>3. lcd' = IF blocks = <<>> /\ Len(pixels) = width * height
             THEN "shown" ELSE "refused"
  BY DEF Lcd!Show
<1>4. Lcd!Fits' <=> Lcd!Fits
  BY <1>2 DEF Lcd!Fits
<1>5. LcdTypes'
  BY <1>1, <1>2 DEF LcdTypes
<1>6. LcdSizes' /\ LcdEncoding' /\ LcdDecoding'
  BY <1>3 DEF LcdSizes, LcdEncoding, LcdDecoding
<1>7. IsSeq(pixels) /\ IsSeq(image) /\ Len(image) = width * height
      /\ count \in Nat /\ Len(pixels) \in Nat
  <2>1. IsSeq(pixels) /\ Len(image) = width * height /\ count \in Nat
        /\ image \in Seq(Nat)
    BY <1>1 DEF LcdTypes
  <2>2. \A S : pixels \in Seq(S) => Len(pixels) \in Nat
    OBVIOUS
  <2> QED
    BY <2>1, <2>2 DEF IsSeq
<1>8. ASSUME lcd' = "shown" PROVE pixels = image
  <2>1. Len(pixels) = Len(image)
    BY <1>3, <1>7, <1>8
  <2>2. \A i \in 1 .. Len(pixels) : pixels[i] = image[i]
    BY <1>1 DEF LcdDecoding
  <2> QED
    BY <1>7, <2>1, <2>2, SameSeq
<1>9. ASSUME Lcd!Fits PROVE lcd' = "shown"
  <2>1. count = width * height
    BY <1>1, <1>7, <1>9, FittingSizes
  <2>2. PICK k : k = Len(pixels)
    OBVIOUS
  <2>3. k \in Nat /\ Covers(blocks, image, k, count)
    BY <1>1, <1>7, <2>2 DEF LcdDecoding
  <2>4. blocks = <<>>
    <3> SUFFICES ASSUME blocks # <<>> PROVE FALSE
      OBVIOUS
    <3>1. k = count
      BY <1>1, <2>1, <2>2
    <3>2. PICK n \in Nat : Stretch(Head(blocks), image, k, n) /\ n <= count
      BY <1>7, <2>3, FirstCovers
    <3>3. k < n
      BY <3>2 DEF Stretch
    <3> QED
      BY <1>7, <3>1, <3>2, <3>3
  <2>5. k = count
    BY <2>3, <2>4, NoneCover
  <2> QED
    BY <1>3, <2>1, <2>2, <2>4, <2>5
<1>10. Lcd!ImageArrives'
  <2>1. lcd' \in {"shown", "refused"}
    BY <1>3
  <2> QED
    BY <1>2, <1>4, <1>8, <1>9, <2>1 DEF Lcd!ImageArrives
<1> QED
  BY <1>5, <1>6, <1>10 DEF LcdInv

(* Where every drawing begins.                                             *)
LEMMA NothingDrawn ==
  /\ lcd = "idle" /\ width = 0 /\ height = 0 /\ image = <<>>
  /\ count = 0 /\ room = 0 /\ from = 0 /\ to = 0
  /\ pixels = <<>>
  => LcdInv
<1> SUFFICES ASSUME lcd = "idle", width = 0, height = 0, image = <<>>,
                    count = 0, room = 0, from = 0, to = 0, pixels = <<>>
             PROVE  LcdInv
  OBVIOUS
<1>1. IsSeq(pixels)
  BY EmptyIsSeq
<1>2. <<>> \in Seq(Nat) /\ Len(<<>>) = 0
  OBVIOUS
<1>3. image \in Seq(Nat) /\ Len(image) = 0
  BY <1>2
<1>4. LcdTypes
  BY <1>1, <1>3 DEF LcdTypes
<1> QED
  BY <1>4 DEF LcdInv, LcdSizes, LcdEncoding, LcdDecoding, Lcd!ImageArrives

(* The drawing of bitmaps keeps what it encodes and decodes in step.       *)
LEMMA LcdInvStep ==
  LcdAssumption /\ LcdInv /\ [AllNext]_allVars => LcdInv'
<1> SUFFICES ASSUME LcdAssumption, LcdInv, [AllNext]_allVars
             PROVE  LcdInv'
  OBVIOUS
<1>1. CASE Lcd!Next
  <2>1. CASE Lcd!Return
    <3>1. /\ (lcd = "idle")' /\ (width = 0)' /\ (height = 0)'
          /\ (image = <<>>)' /\ (count = 0)' /\ (room = 0)' /\ (from = 0)'
          /\ (to = 0)' /\ (pixels = <<>>)'
      BY <2>1 DEF Lcd!Return
    <3> QED
      BY <3>1, NothingDrawn, PTL
  <2> QED
    BY <1>1, <2>1, DrawKeepsLcd, EncodeKeepsLcd, SendKeepsLcd, DecodeKeepsLcd,
       ShowKeepsLcd DEF Lcd!Next
<1>2. CASE UNCHANGED lcdVars
  <2>1. /\ lcd' = lcd /\ width' = width /\ height' = height
        /\ image' = image /\ count' = count /\ room' = room
        /\ from' = from /\ to' = to /\ blocks' = blocks /\ pixels' = pixels
    BY <1>2 DEF lcdVars
  <2>2. Lcd!WorstCase(count)' = Lcd!WorstCase(count)
    BY <2>1 DEF Lcd!WorstCase
  <2>3. Lcd!Fits' <=> Lcd!Fits
    BY <2>1 DEF Lcd!Fits
  <2>4. LcdTypes' /\ LcdSizes'
    BY <2>1, <2>2 DEF LcdInv, LcdTypes, LcdSizes
  <2>5. LcdEncoding' /\ LcdDecoding'
    BY <2>1 DEF LcdInv, LcdEncoding, LcdDecoding
  <2>6. Lcd!ImageArrives'
    BY <2>1, <2>3 DEF LcdInv, Lcd!ImageArrives
  <2> QED
    BY <2>4, <2>5, <2>6 DEF LcdInv
<1> QED
  BY <1>1, <1>2 DEF AllNext, Channel, SendFrames, KeepTime, DrawBitmaps,
                    allVars

(* What the host shows is the bitmap drawn, and every bitmap whose frame   *)
(* 16 bits can measure in the worst case is encoded and framed within its  *)
(* memory and not refused.                                                 *)
THEOREM ImagesArrive == AllSpec => []ImageArrives
<1>1. AllInit => LcdInv
  BY NothingDrawn DEF AllInit, Lcd!Init
<1>2. LcdInv => ImageArrives
  BY DEF LcdInv, ImageArrives
<1> QED
  BY <1>1, <1>2, LcdAssumption, LcdInvStep, PTL DEF AllSpec
=============================================================================
