------------------------------ MODULE Framing -------------------------------
(***************************************************************************)
(* The frame decoder of src/helpers/powerMessageCodec.js, which a byte     *)
(* stream is fed to in pieces that end anywhere: a read cursor and a write *)
(* cursor over one buffer, compacted or doubled when a piece does not fit. *)
(*                                                                         *)
(* A frame is Header bytes, which tell the length, and that many bytes.  A *)
(* byte is its place in the stream, 0 one of an earlier stream or none;    *)
(* the payload's meaning, the protocol version and the codec are left out. *)
(***************************************************************************)
EXTENDS Integers, Sequences, SequencesExt

CONSTANTS
  Header,          \* HEADER_BYTES
  Payloads,        \* lengths of the payloads
  MaxStream,       \* bound on the frames of a stream
  MaxFrameBytes,   \* options.maxFrameBytes
  InitialBytes,
  Pieces,          \* sizes of the pieces
  MaxStreams       \* bound on the streams of one decoder

ASSUME FramingConstants ==
  /\ {Header, InitialBytes} \subseteq Nat \ {0} /\ Payloads \subseteq Nat
  /\ {MaxStream, MaxFrameBytes, MaxStreams} \subseteq Nat /\ Pieces \subseteq Nat \ {0}

VARIABLES
  stream,     \* the payload lengths of the frames that the peer sends
  pushed,     \* how many of its bytes the decoder was given
  decoder,    \* buf, start and end
  yielded,      \* how many of its frames were handed on or lost
  refused,    \* push() has thrown
  mistaken,   \* history: a frame was handed on that is not the next one
  streams     \* how many streams there were

frVars == << stream, pushed, decoder, yielded, refused, mistaken, streams >>

\* _frame(): where the frames begin and the stream ends.
StartOf(f) ==
  LET start[g \in 0..Len(stream)] == IF g = 0 THEN 1 ELSE start[g - 1] + Header + stream[g]
  IN  start[f - 1]
StreamEnd == StartOf(Len(stream) + 1) - 1

FrInit ==
  /\ stream \in BoundedSeq(Payloads, MaxStream)
  /\ pushed = 0 /\ yielded = 0 /\ refused = FALSE /\ mistaken = FALSE /\ streams = 1
  /\ decoder = [buf |-> [i \in 1..InitialBytes |-> 0], start |-> 0, end |-> 0]

\* Twice the capacity as often as it takes.
Doubled(capacity, needed) ==
  LET twice[k \in 0..needed] == IF k = 0 THEN capacity ELSE 2 * twice[k - 1]
  IN  twice[CHOOSE k \in 0..needed : twice[k] >= needed /\ \A j \in 0..k - 1 : twice[j] < needed]

\* Bug: the larger buffer takes over the whole of the smaller one.
ReservedWithOffset(d, incoming) ==
  IF d.end + incoming <= Len(d.buf) THEN d
  ELSE LET live  == d.end - d.start
           fits  == live + incoming <= Len(d.buf)
           room  == IF fits THEN Len(d.buf)
                    ELSE Doubled(IF d.buf = << >> THEN InitialBytes ELSE Len(d.buf), live + incoming)
           from  == IF fits THEN d.start ELSE 0
           moved == [i \in 1..room |-> IF i <= live THEN d.buf[from + i] ELSE 0]
       IN  [buf |-> moved, start |-> 0, end |-> live]

\* _reserve(): the live bytes move to the front, of the same buffer or of a larger one.
Reserved(d, incoming) ==
  IF d.end + incoming <= Len(d.buf) THEN d
  ELSE LET live  == d.end - d.start
           fits  == live + incoming <= Len(d.buf)
           room  == IF fits THEN Len(d.buf)
                    ELSE Doubled(IF d.buf = << >> THEN InitialBytes ELSE Len(d.buf), live + incoming)
           moved == [i \in 1..room |-> CASE i <= live -> d.buf[d.start + i]
                                         [] i > live /\ fits -> d.buf[i]
                                         [] OTHER -> 0]
       IN  [buf |-> moved, start |-> 0, end |-> live]

Filled(d, k) ==
  [d EXCEPT !.buf = [i \in DOMAIN d.buf |-> IF i \in d.end + 1..d.end + k
                                             THEN pushed + i - d.end ELSE d.buf[i]],
            !.end = d.end + k]

\* The length in the header at the read cursor, or -1 where there is no header: a length that
\* was not written as one.
DeclaredAt(d, start) ==
  LET f == {g \in DOMAIN stream : \A i \in 0..Header - 1 : d.buf[start + 1 + i] = StartOf(g) + i}
  IN  IF f = {} THEN -1 ELSE stream[CHOOSE g \in f : TRUE]

\* What the loop makes of the frame at the read cursor.
DecodeNext(d, s) ==
  LET length == DeclaredAt(d, s.start)
      n      == yielded + s.frames + 1
      right  == n \in DOMAIN stream /\ length = stream[n]
                /\ \A i \in 1..Header + length : d.buf[s.start + i] = StartOf(n) + i - 1
  IN  IF s.throws \/ d.end - s.start < Header THEN s
      ELSE IF Header + length > MaxFrameBytes THEN [s EXCEPT !.throws = TRUE]
      ELSE IF d.end - s.start < Header + length THEN s
      ELSE [s EXCEPT !.start = @ + Header + length, !.frames = @ + 1, !.wrong = @ \/ ~right]

\* The loop of push(): as many frames as there can be in what is buffered.
Decoded(d) ==
  LET after[i \in 0..d.end] ==
        IF i = 0 THEN [start |-> d.start, frames |-> 0, throws |-> FALSE, wrong |-> FALSE]
        ELSE DecodeNext(d, after[i - 1])
  IN  after[d.end]

\* push(): a piece may carry many frames and the beginning of the next; where one of them is
\* too large, those before it are lost with it.
PushPiece(k) ==
  /\ pushed + k <= StreamEnd
  /\ LET filled == Filled(Reserved(decoder, k), k)
         loop   == Decoded(filled)
         read   == [filled EXCEPT !.start = loop.start]
     IN  /\ decoder' = IF ~loop.throws /\ loop.start = filled.end THEN [read EXCEPT !.start = 0, !.end = 0]
                       ELSE read
         /\ yielded' = yielded + loop.frames
         /\ refused' = loop.throws
         /\ mistaken' = (mistaken \/ loop.wrong)
  /\ pushed' = pushed + k
  /\ UNCHANGED << stream, streams >>

\* reset() or dispose(), and another stream.
NewStream(keeps) ==
  /\ streams < MaxStreams /\ streams' = streams + 1
  /\ stream' \in BoundedSeq(Payloads, MaxStream)
  /\ decoder' = [buf |-> IF keeps THEN [i \in DOMAIN decoder.buf |-> 0] ELSE << >>,
                 start |-> 0, end |-> 0]
  /\ pushed' = 0 /\ yielded' = 0 /\ refused' = FALSE
  /\ UNCHANGED mistaken

FrNext == (\E k \in Pieces : PushPiece(k)) \/ (\E keeps \in BOOLEAN : NewStream(keeps))

\* Wherever the pieces end, and whatever was moved: the frames handed on are those of the
\* stream, in order; what is kept is the unfinished rest of it, byte for byte, and no more; and
\* a frame that is too large stays refused.
FramesAreWhole ==
  /\ ~mistaken
  /\ refused => stream[yielded + 1] + Header > MaxFrameBytes
  /\ decoder.end - decoder.start = pushed + 1 - StartOf(yielded + 1)
  /\ \A i \in 1..decoder.end - decoder.start : decoder.buf[decoder.start + i] = StartOf(yielded + 1) + i - 1
  /\ yielded < Len(stream) /\ ~refused => pushed < StartOf(yielded + 2) - 1
=============================================================================
