------------------------------- MODULE AtsLcd -------------------------------
(***************************************************************************)
(* Drawing a bitmap: the firmware's ats_lcd.c sizes a buffer for the worst *)
(* case, encodes the pixels by run lengths (ats_rle.c) and sends an event  *)
(* in a frame built in memory of its own (ats_rpc.c); the host's           *)
(* RpcProtocol.cpp decodes it and refuses one that does not give the       *)
(* pixels its width and height call for.  Sizes are 16 bits wide in the    *)
(* firmware and are not on the host.                                       *)
(***************************************************************************)
EXTENDS Integers, Sequences, SequencesExt, FiniteSetsExt

CONSTANTS
  Word,       (* 2^16: values of a uint16_t                                *)
  Block,      (* 128: pixels in a block at most                            *)
  Unit,       (* bytes of a pixel: 1 of rle8, 2 of rle16                   *)
  Header,     (* bytes before the encoded pixels                           *)
  ATS_RPC_HEADER_SIZE, (* 8: bytes of a frame before its payload           *)
  Sizes,      (* widths and heights of bitmaps                             *)
  Images      (* for a number of pixels the bitmaps drawn, as sequences    *)

VARIABLES
  lcd,        (* where the drawing is                                      *)
  width, height, image,
  count,      (* pixels to encode                                          *)
  room,       (* bytes allocated for the event                             *)
  from, to,   (* source_offset and destination_offset                      *)
  blocks,     (* the blocks encoded, a run as one pixel                    *)
  pixels      (* the pixels decoded                                        *)

bitmap  == <<width, height, image>>
encoder == <<count, room, from, to>>
vars    == <<lcd, bitmap, encoder, blocks, pixels>>

Init ==
  /\ lcd = "idle"
  /\ width = 0 /\ height = 0 /\ image = <<>>
  /\ count = 0 /\ room = 0 /\ from = 0 /\ to = 0
  /\ blocks = <<>> /\ pixels = <<>>

(* Mutant: a third is rounded down.                                        *)
WorstCaseDown(n) == (Unit * n + n \div 3) % Word

(* ats_rle8_worst_case_size, ats_rle16_worst_case_size.                    *)
WorstCase(n) == (Unit * n + (n + 2) \div 3) % Word

(* ats_lcd_draw_1bit_bitmap (with bytes for pixels and bytes_per_row for   *)
(* the width) and ats_lcd_draw_16bit_bitmap, up to the encoding; it may    *)
(* have to do without the memory.                                          *)
Draw ==
  /\ lcd = "idle"
  /\ \E s \in Sizes :
       /\ width' = s[1] /\ height' = s[2]
       /\ image' \in Images[s[1] * s[2]]
       /\ count' = (s[1] * s[2]) % Word
  /\ room' = (Header + WorstCase(count')) % Word
  /\ from' = 0 /\ to' = 0
  /\ blocks' = <<>> /\ pixels' = <<>>
  /\ lcd' \in {"encode", "no memory"}

(* count_repeated_bytes, count_repeated_words.                             *)
CountRepeated(offset) ==
  Max({k \in 1 .. Block :
         /\ offset + k <= count
         /\ \A j \in 1 .. k : image[offset + j] = image[offset + 1]})

(* The pixels up to the next run.                                          *)
CountLiterals(offset) ==
  Max({k \in 1 .. Block :
         /\ offset + k <= count
         /\ \A j \in 1 .. k - 1 : CountRepeated(offset + j) = 1})

(* A block of so many bytes is written if it fits the worst case; what     *)
(* happens past the memory allocated is undefined.                         *)
Write(block, bytes, n) ==
  \/ /\ (to + bytes) % Word > WorstCase(count)
     /\ lcd' = "too large" /\ UNCHANGED <<from, to, blocks>>
  \/ /\ (to + bytes) % Word <= WorstCase(count)
     /\ Header + to + bytes > room
     /\ lcd' = "undefined" /\ UNCHANGED <<from, to, blocks>>
  \/ /\ (to + bytes) % Word <= WorstCase(count)
     /\ Header + to + bytes <= room
     /\ to' = to + bytes /\ from' = from + n
     /\ blocks' = Append(blocks, block)
     /\ UNCHANGED lcd

(* ats_rle8_encode, ats_rle16_encode: a block.                             *)
EncodeBlock ==
  /\ lcd = "encode" /\ from < count
  /\ LET run == CountRepeated(from)
         literals == CountLiterals(from) IN
     IF run >= 2
     THEN Write([run |-> run, px |-> <<image[from + 1]>>], 1 + Unit, run)
     ELSE Write([run |-> 0, px |-> SubSeq(image, from + 1, from + literals)],
                1 + Unit * literals, literals)
  /\ UNCHANGED <<bitmap, count, room, pixels>>

(* send_frame: there may be no memory for the frame; the length it         *)
(* allocates is cut to 16 bits, the payload it copies is not.              *)
SendFrame(length) ==
  \/ lcd' = "no memory"
  \/ ATS_RPC_HEADER_SIZE + length < Word /\ lcd' = "decode"
  \/ ATS_RPC_HEADER_SIZE + length >= Word /\ lcd' = "undefined"

(* All is encoded: an empty encoding counts as a failed one.  What fits    *)
(* the memory allocated for the event is no longer than 16 bits hold.      *)
Send ==
  /\ lcd = "encode" /\ from = count
  /\ IF to = 0 THEN lcd' = "too large" ELSE SendFrame(Header + to)
  /\ UNCHANGED <<bitmap, encoder, blocks, pixels>>

Decoded(b) == IF b.run = 0 THEN b.px ELSE [i \in 1 .. b.run |-> b.px[1]]

(* decodeRleBytes, decodeRleWords: a block, if it is not one too many.     *)
DecodeBlock ==
  /\ lcd = "decode"
  /\ blocks # <<>> /\ Len(pixels) < width * height
  /\ LET more == pixels \o Decoded(Head(blocks)) IN
     IF Len(more) > width * height
     THEN lcd' = "refused" /\ UNCHANGED <<blocks, pixels>>
     ELSE /\ pixels' = more /\ blocks' = Tail(blocks)
          /\ UNCHANGED lcd
  /\ UNCHANGED <<bitmap, encoder>>

Show ==
  /\ lcd = "decode"
  /\ blocks = <<>> \/ Len(pixels) = width * height
  /\ lcd' = IF blocks = <<>> /\ Len(pixels) = width * height
            THEN "shown" ELSE "refused"
  /\ UNCHANGED <<bitmap, encoder, blocks, pixels>>

(* The next bitmap is drawn from the start (by a program that survived).   *)
Return ==
  /\ lcd \in {"no memory", "too large", "undefined", "refused", "shown"}
  /\ lcd' = "idle"
  /\ width' = 0 /\ height' = 0 /\ image' = <<>>
  /\ count' = 0 /\ room' = 0 /\ from' = 0 /\ to' = 0
  /\ blocks' = <<>> /\ pixels' = <<>>

Next == Draw \/ EncodeBlock \/ Send \/ DecodeBlock \/ Show \/ Return

Spec == Init /\ [][Next]_vars

-----------------------------------------------------------------------------
(* Sizes of which 16 bits hold that of the frame in the worst case.        *)
Fits == LET n == width * height IN
        ATS_RPC_HEADER_SIZE + Header + Unit * n + (n + 2) \div 3 < Word

(* What the host shows is what was drawn.  A bitmap whose sizes fit is     *)
(* encoded and framed within the memory allocated for it and never         *)
(* refused, unless there is no memory; of a larger one the 16-bit sizes    *)
(* may leave a part, or its frame may be copied past its memory.           *)
ImageArrives ==
  /\ lcd = "shown" => pixels = image
  /\ Fits => lcd \notin {"too large", "undefined", "refused"}
=============================================================================
