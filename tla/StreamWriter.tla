------------------------------ MODULE StreamWriter ------------------------------
(***************************************************************************)
(* GzipWriter, ZstdWriter, Lz4Writer, BrotliWriter and ChunkedWriter: what *)
(* they write between their creation and into_inner(), or the end of the process.     *)
(* An encoder may write what it has been given at any time up to finish(); *)
(* as only the finished tape is read, it is written then.                  *)
(***************************************************************************)
EXTENDS CodedTape

CONSTANTS
  MaxWrite,   \* bound: units in one call of write()
  MinChunk    \* min_chunk_size

ASSUME WriterAssumption == MaxWrite \in Nat /\ MinChunk \in Nat \ {0}

VARIABLES
  encoder,    \* the units that the encoder, or chunk_buffer, holds
  started,    \* member_started, frame_started or (chunked) stream_started
  dictDone,   \* stream_started of ZstdWriter: the dictionary frame is written
  written,    \* number of units written
  closed,     \* into_inner() was called, or the process has ended
  whole       \* history: it was into_inner()

writerVars == <<encoder, started, dictDone, written, closed, whole>>

NextUnits(n) == [i \in 1 .. n |-> written + i]

(* Mutant: units that do not fill a chunk are dropped.                     *)
BufferLoses(units) ==
  IF Len(units) >= MinChunk
    THEN encoder' = << >> /\ tape' = tape \o Chunk(units)
    ELSE encoder' = (IF units = << >> THEN units ELSE Tail(units)) /\ UNCHANGED tape

(* A chunk is written as soon as it is long enough.                        *)
Buffer(units) ==
  IF Len(units) >= MinChunk
    THEN encoder' = << >> /\ tape' = tape \o Chunk(units)
    ELSE encoder' = units /\ UNCHANGED tape

(* ZstdWriter::write() puts the dictionary frame before the first frame.   *)
DictFrame ==
  IF dict /\ ~dictDone
    THEN dictDone' = TRUE /\ tape' = tape \o <<ACell("dict", 0)>>
    ELSE UNCHANGED <<dictDone, tape>>
Encode(units) == encoder' = units /\ DictFrame

Write(n) ==
  /\ ~closed
  /\ written + n <= MaxUnits
  /\ Len(tape) < MaxTape
  /\ started' = TRUE
  /\ written' = written + n
  /\ IF codec = "chunked"
       THEN Buffer(encoder \o NextUnits(n)) /\ UNCHANGED dictDone
       ELSE Encode(encoder \o NextUnits(n))
  /\ UNCHANGED <<codec, dict, closed, whole>>

(* GzipWriter::write_with_flush_opt() with Finish ends the member, and     *)
(* unlike finish() leaves member_started set.                              *)
WriteAndEnd(n) ==
  /\ codec = "gzip"
  /\ ~closed
  /\ written + n <= MaxUnits
  /\ Len(tape) < MaxTape
  /\ started' = TRUE
  /\ written' = written + n
  /\ tape' = tape \o Member(encoder \o NextUnits(n))
  /\ encoder' = << >>
  /\ UNCHANGED <<codec, dict, dictDone, closed, whole>>

(* What finish() of an open member writes.  A chunked body's buffer is     *)
(* written even when it is empty, which looks like the last chunk.         *)
Ending == IF codec = "chunked" THEN Chunk(encoder) \o LastChunk ELSE Member(encoder)

(* BrotliWriter does not override the finish() that does nothing.          *)
Finish ==
  /\ ~closed
  /\ codec # "brotli"
  /\ started
  /\ tape' = tape \o Ending
  /\ encoder' = << >>
  /\ started' = FALSE
  /\ UNCHANGED <<codec, dict, dictDone, written, closed, whole>>

(* ZstdWriter and BrotliWriter finish their encoder, used or not.          *)
IntoInner ==
  /\ ~closed
  /\ tape' = IF started \/ codec \in {"zstd", "brotli"} THEN tape \o Ending ELSE tape
  /\ encoder' = << >>
  /\ started' = FALSE
  /\ closed' = TRUE /\ whole' = TRUE
  /\ UNCHANGED <<codec, dict, dictDone, written>>

(* The process ends.  Anything up to what finish() would have added may    *)
(* have been written, and may be incomplete.                               *)
Cut(length) ==
  /\ ~closed
  /\ started
  /\ length <= Len(tape \o Ending)
  /\ tape' = SubSeq(tape \o Ending, 1, length)
  /\ encoder' = << >>
  /\ started' = FALSE
  /\ closed' = TRUE
  /\ UNCHANGED <<codec, dict, dictDone, written, whole>>

WriterInit ==
  /\ codec \in Codecs
  /\ dict \in IF codec = "zstd" THEN BOOLEAN ELSE {FALSE}
  /\ tape = << >>
  /\ encoder = << >>
  /\ started = FALSE /\ dictDone = FALSE
  /\ written = 0
  /\ closed = FALSE /\ whole = FALSE

WriterNext ==
  \/ \E n \in 0 .. MaxWrite : Write(n) \/ WriteAndEnd(n)
  \/ Finish \/ IntoInner
  \/ \E length \in 1 .. MaxTape + MaxUnits + 4 : Cut(length)
=============================================================================
