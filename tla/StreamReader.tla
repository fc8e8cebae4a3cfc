------------------------------ MODULE StreamReader ------------------------------
(***************************************************************************)
(* GzipReader, ZstdReader, Lz4Reader and ChunkedReader over a              *)
(* TrackingBufReader, and BrotliReader, which has a buffer of its own:     *)
(* fill_buf(), one step per turn of its loop, consume(), seek() and        *)
(* inner_seek().                                                           *)
(***************************************************************************)
EXTENDS CodedTape

CONSTANTS
  Capacity,   \* cells that the TrackingBufReader can hold
  MaxOut,     \* units that an output buffer can grow to
  SeeksChunks \* whether a chunked body is sought in after it was read from

ASSUME ReaderAssumption ==
  Capacity \in Nat \ {0} /\ MaxOut \in Nat \ {0} /\ SeeksChunks \in BOOLEAN

VARIABLES
  pos,        \* TrackingBufReader: logical position on the tape
  avail,      \* TrackingBufReader: cells that it has buffered
  stage,      \* the decoder: "fresh", "inside" of a member, "over" it
  buf,        \* decoded units: buf[..buf_len], out_buf, or a decoder's own
  bufPos,     \* buf_pos, out_buf_pos
  outSize,    \* gzip: buf.len()
  streamPos,  \* stream_pos
  frameStart, \* member_pos, frame_start_pos
  nextMember, \* gzip: next_member_pos
  dictLoaded, \* Zstandard: dict.is_some()
  chunkSize,  \* chunked: chunk_size
  chunkRead,  \* chunked: chunk_read
  call,       \* where in fill_buf(): "idle", "begin", "decode", "close"
  result,     \* of the last fill_buf(): "none", "data", "end", "error"
  remaining,  \* _forward_seek(): units that seek() has still to skip
  expect      \* history: the next unit that consume() should take

gzipVars == <<outSize, nextMember>>
chunkVars == <<chunkSize, chunkRead>>
outVars == <<buf, bufPos>>
inVars == <<pos, avail>>
readerVars == <<pos, avail, stage, buf, bufPos, outSize, streamPos, frameStart,
                nextMember, dictLoaded, chunkSize, chunkRead, call, result, remaining, expect>>

Unread == SubSeq(buf, bufPos + 1, Len(buf))
Least(a, b) == IF a <= b THEN a ELSE b

-----------------------------------------------------------------------------
(***************************************************************************)
(* TrackingBufReader.                                                      *)
(***************************************************************************)

(* How much fill_buf() may find: what is buffered, or what a read yields.  *)
Inputs ==
  IF avail > 0 THEN {avail}
  ELSE IF pos = Len(tape) THEN {0}
  ELSE 1 .. Least(Capacity, Len(tape) - pos)

Take(input, k) == pos' = pos + k /\ avail' = input - k

(* Seek(p): a target other than the position discards what is buffered.    *)
SeekTape(p) == pos' = p /\ avail' = IF p = pos THEN avail ELSE 0

-----------------------------------------------------------------------------
(***************************************************************************)
(* Decoders.                                                               *)
(***************************************************************************)
Ends(i) == Is("tail", i) \/ Is("dict", i)

(* The cells that a decoder takes: up to the end of its member, and no     *)
(* more units than there is space for.                                     *)
Taken(input, space) ==
  LET full == UnitsBefore(pos) + space
      Fits(j) == UnitsBefore(pos + j) <= full /\ \A i \in pos + 1 .. pos + j - 1 : ~Ends(i)
  IN  CHOOSE k \in 0 .. input : Fits(k) /\ (k < input => ~Fits(k + 1))

(* A fresh decoder wants a header, and the dictionary if that says so; one *)
(* inside of a member its contents.                                        *)
Decodable ==
  IF stage = "inside"
    THEN Is("data", pos + 1) \/ Is("tail", pos + 1)
    ELSE Is("head", pos + 1) \/ (codec = "zstd" /\ Is("dict", pos + 1))
HasDict == Is("head", pos + 1) /\ tape[pos + 1].n = 1 => dictLoaded

Return(what) == call' = "idle" /\ result' = what
Continue(where) == call' = where /\ UNCHANGED result
ReturnBuffer(units) == Return(IF units = << >> THEN "end" ELSE "data")

-----------------------------------------------------------------------------
(***************************************************************************)
(* GzipReader::fill_buf().                                                 *)
(***************************************************************************)

(* _update_buf_size() lets the output buffer grow.                         *)
Sizes(k, ended) == IF k > 0 /\ ~ended THEN outSize .. MaxOut ELSE {outSize}

GzipTurn ==
  \E input \in Inputs :
    LET k == Taken(input, outSize - Len(buf))
        units == buf \o DataIn(pos, k)
        ended == k > 0 /\ Ends(pos + k)
    IN  /\ Take(input, k)
        /\ frameStart' = IF input > 0 THEN nextMember ELSE frameStart
        /\ outSize' \in Sizes(k, ended)
        /\ buf' = units
        /\ IF k > 0 /\ ~Decodable
             THEN Return("error") /\ UNCHANGED <<stage, nextMember>>
             ELSE /\ stage' = IF ended THEN "fresh" ELSE IF k > 0 THEN "inside" ELSE stage
                  /\ nextMember' = IF ended THEN pos + k ELSE nextMember
                  /\ IF ended \/ Len(units) = outSize' \/ k = 0
                       THEN ReturnBuffer(units)
                       ELSE Continue("decode")
        /\ UNCHANGED <<bufPos, streamPos, dictLoaded, chunkVars, expect>>

-----------------------------------------------------------------------------
(***************************************************************************)
(* ZstdReader::ensure_frame_data(), which fill_buf() calls.                *)
(***************************************************************************)

(* maybe_load_dict_frame() and the reset_decoder() after it.               *)
LoadDict ==
  /\ IF streamPos = 0 /\ frameStart = 0 /\ ~dictLoaded
       THEN \E input \in Inputs :
              IF Is("dict", pos + 1)
                THEN /\ Take(input, 1)
                     /\ dictLoaded' = TRUE /\ stage' = "fresh" /\ frameStart' = pos + 1
                ELSE Take(input, 0) /\ UNCHANGED <<dictLoaded, stage, frameStart>>
       ELSE UNCHANGED <<pos, avail, dictLoaded, stage, frameStart>>
  /\ Continue("decode")
  /\ UNCHANGED <<outVars, gzipVars, streamPos, chunkVars, expect>>

(* The decoder returns as soon as it has units, and fails if the tape ends *)
(* inside of a frame.                                                      *)
ZstdTurn ==
  /\ stage # "over"
  /\ \E input \in Inputs :
       LET k == Taken(input, MaxOut)
           units == DataIn(pos, k)
       IN  IF input = 0 \/ ~Decodable \/ ~HasDict
             THEN Take(input, 0) /\ Return("error") /\ UNCHANGED <<stage, buf>>
             ELSE /\ Take(input, k)
                  /\ stage' = IF Ends(pos + k) THEN "over" ELSE "inside"
                  /\ buf' = units
                  /\ IF units = << >> THEN Continue("decode") ELSE Return("data")
  /\ UNCHANGED <<bufPos, frameStart, gzipVars, streamPos, dictLoaded, chunkVars, expect>>

(* The end of the stream, for a decoder that knows of one stream only.     *)
(* As a mutant of ZstdNext, a frame is taken to be the last.               *)
StopsAtEnd ==
  /\ stage = "over"
  /\ Return("end")
  /\ UNCHANGED <<inVars, stage, frameStart, outVars, gzipVars, streamPos, dictLoaded,
                 chunkVars, expect>>

(* A frame is over: reset_decoder() if there is more.                      *)
ZstdNext ==
  /\ stage = "over"
  /\ \E input \in Inputs :
       /\ Take(input, 0)
       /\ IF input = 0
            THEN Return("end") /\ UNCHANGED <<stage, frameStart>>
            ELSE Continue("decode") /\ stage' = "fresh" /\ frameStart' = pos
  /\ UNCHANGED <<outVars, gzipVars, streamPos, dictLoaded, chunkVars, expect>>

(* The decoder inside of BrotliReader works like that of a frame.          *)
BrotliTurn == ZstdTurn \/ StopsAtEnd

-----------------------------------------------------------------------------
(***************************************************************************)
(* Lz4Reader::fill_buf(), which calls sync_next_frame() first ("begin").   *)
(* The decoder reads cells until it has the units of a block, and none at  *)
(* the end of a frame, after which it is ready for the next.               *)
(***************************************************************************)

(* Only a stream position other than 0 is synchronised.                    *)
Lz4Begin == streamPos # 0

(* The end of a frame: sync_next_frame() starts the next, fill_buf()       *)
(* returns nothing.                                                        *)
Lz4FrameEnd ==
  /\ stage' = "fresh"
  /\ IF call = "begin"
       THEN /\ frameStart' = IF pos + 1 < Len(tape) THEN pos + 1 ELSE frameStart
            /\ Continue("decode")
       ELSE UNCHANGED frameStart /\ Return("end")
  /\ UNCHANGED buf

Lz4TapeEnd ==
  /\ IF stage = "inside" THEN Return("error")
     ELSE IF call = "begin" THEN Continue("decode")
     ELSE Return("end")
  /\ UNCHANGED <<stage, frameStart, buf>>

Lz4Turn ==
  /\ \E input \in Inputs :
       /\ Take(input, IF input > 0 /\ Decodable THEN 1 ELSE 0)
       /\ IF input = 0 THEN Lz4TapeEnd
          ELSE IF ~Decodable THEN Return("error") /\ UNCHANGED <<stage, frameStart, buf>>
          ELSE IF Is("tail", pos + 1) THEN Lz4FrameEnd
          ELSE /\ stage' = "inside"
               /\ buf' = DataIn(pos, 1)
               /\ IF Is("data", pos + 1) THEN Return("data") ELSE Continue(call)
               /\ UNCHANGED frameStart
  /\ UNCHANGED <<bufPos, gzipVars, streamPos, dictLoaded, chunkVars, expect>>

-----------------------------------------------------------------------------
(***************************************************************************)
(* ChunkedReader::fill_buf() and consume_chunk_end() ("close").            *)
(***************************************************************************)
NewChunk ==
  /\ chunkRead = chunkSize
  /\ \E input \in Inputs :
       IF input = 0 \/ ~Is("size", pos + 1)
         THEN /\ Take(input, 0)
              /\ Return(IF input = 0 THEN "end" ELSE "error")
              /\ UNCHANGED chunkSize
         ELSE /\ Take(input, 1)
              /\ chunkSize' = tape[pos + 1].n
              /\ Continue(IF tape[pos + 1].n = 0 THEN "close" ELSE "decode")
  /\ UNCHANGED <<outVars, chunkRead>>

WithinChunk ==
  /\ chunkRead < chunkSize
  /\ \E input \in Inputs :
       LET n == Least(input, chunkSize - chunkRead)
       IN  /\ Take(input, n)
           /\ chunkRead' = chunkRead + n
           /\ IF n = 0
                THEN Return("error") /\ UNCHANGED outVars
                ELSE /\ buf' = DataIn(pos, n) /\ bufPos' = 0
                     /\ IF chunkRead + n = chunkSize THEN Continue("close") ELSE Return("data")
  /\ UNCHANGED chunkSize

(* Mutant: the next chunk starts with what was read of this one.           *)
CloseKeepsRead ==
  /\ \E input \in Inputs :
       IF Is("crlf", pos + 1)
         THEN /\ Take(input, 1)
              /\ chunkSize' = 0 /\ UNCHANGED chunkRead
              /\ Return(IF chunkSize = 0 THEN "end" ELSE "data")
         ELSE Take(input, 0) /\ UNCHANGED chunkVars /\ Return("error")
  /\ UNCHANGED outVars

CloseChunk ==
  /\ \E input \in Inputs :
       IF Is("crlf", pos + 1)
         THEN /\ Take(input, 1)
              /\ chunkSize' = 0 /\ chunkRead' = 0
              /\ Return(IF chunkSize = 0 THEN "end" ELSE "data")
         ELSE Take(input, 0) /\ UNCHANGED chunkVars /\ Return("error")
  /\ UNCHANGED outVars

ChunkedTurn ==
  /\ IF call = "close" THEN CloseChunk ELSE NewChunk \/ WithinChunk
  /\ UNCHANGED <<stage, gzipVars, streamPos, frameStart, dictLoaded, expect>>

-----------------------------------------------------------------------------
(***************************************************************************)
(* The reader.                                                             *)
(***************************************************************************)

(* fill_buf() with nothing unread; with something unread it returns that.  *)
(* The chunked reader does not clear what it has handed out.  A seek gives *)
(* up at the end.                                                          *)
StartFill ==
  /\ call = "idle"
  /\ result # "error"
  /\ remaining > 0 => result # "end"
  /\ Unread = << >>
  /\ call' = IF codec = "zstd" \/ (codec = "lz4" /\ Lz4Begin) THEN "begin" ELSE "decode"
  /\ IF codec = "chunked" THEN UNCHANGED outVars ELSE buf' = << >> /\ bufPos' = 0
  /\ UNCHANGED <<inVars, stage, gzipVars, streamPos, frameStart, dictLoaded, chunkVars,
                 result, remaining, expect>>

Turn ==
  /\ call # "idle"
  /\ CASE codec = "gzip" -> GzipTurn
       [] codec = "zstd" -> IF call = "begin" THEN LoadDict ELSE ZstdTurn \/ ZstdNext
       [] codec = "lz4" -> Lz4Turn
       [] codec = "brotli" -> BrotliTurn
       [] codec = "chunked" -> ChunkedTurn
  /\ UNCHANGED remaining

TakeUnits(n) ==
  /\ bufPos' = bufPos + n
  /\ streamPos' = streamPos + n
  /\ expect' = expect + n
  /\ UNCHANGED <<inVars, stage, buf, gzipVars, frameStart, dictLoaded, chunkVars, call, result>>

Consume(n) ==
  /\ call = "idle" /\ remaining = 0
  /\ n <= Len(Unread)
  /\ TakeUnits(n)
  /\ UNCHANGED remaining

(* seek(SeekFrom::Start(p)): positions before the reader's are refused.    *)
Seek(p) ==
  /\ call = "idle" /\ remaining = 0
  /\ result # "error"
  /\ p > streamPos
  /\ remaining' = p - streamPos
  /\ result' = "none"
  /\ UNCHANGED <<inVars, stage, outVars, gzipVars, streamPos, frameStart, dictLoaded,
                 chunkVars, call, expect>>

(* A turn of the loop of _forward_seek(), after its fill_buf().            *)
SeekStep ==
  /\ call = "idle" /\ remaining > 0
  /\ IF result \in {"end", "error"}
       THEN remaining' = 0
            /\ UNCHANGED <<inVars, stage, outVars, gzipVars, streamPos, frameStart,
                           dictLoaded, chunkVars, call, result, expect>>
       ELSE LET n == Least(Len(Unread), remaining)
            IN  n > 0 /\ TakeUnits(n) /\ remaining' = remaining - n

(* Mutant: what was decoded before the seek is handed out after it.        *)
GzipSeekKeepsBuffer(p) ==
  /\ stage' = "fresh"
  /\ nextMember' = p
  /\ UNCHANGED <<outVars, frameStart, chunkSize>>
(* Mutant: the decoder stays inside of the member that it was in.          *)
GzipSeekKeepsDecoder(p) ==
  /\ buf' = << >> /\ bufPos' = 0
  /\ nextMember' = p
  /\ UNCHANGED <<stage, frameStart, chunkSize>>

(* What inner_seek() resets.                                               *)
GzipSeek(p) ==
  /\ stage' = "fresh" /\ buf' = << >> /\ bufPos' = 0
  /\ nextMember' = p
  /\ UNCHANGED <<frameStart, chunkSize>>

(* Mutant: the frame sought to is not remembered.                          *)
FrameSeekKeepsStart(p) ==
  /\ stage' = "fresh" /\ buf' = << >> /\ bufPos' = 0
  /\ UNCHANGED <<frameStart, nextMember, chunkSize>>
FrameSeek(p) ==
  /\ stage' = "fresh" /\ buf' = << >> /\ bufPos' = 0
  /\ frameStart' = p
  /\ UNCHANGED <<nextMember, chunkSize>>

(* BrotliReader makes a new buffer and decoder, but keeps its stream_pos,  *)
(* which MaxUnits bounds here.                                             *)
BrotliSeek(p) ==
  /\ streamPos <= MaxUnits
  /\ stage' = "fresh" /\ buf' = << >> /\ bufPos' = 0
  /\ pos' = p /\ avail' = 0
  /\ UNCHANGED <<frameStart, nextMember, chunkSize, streamPos>>

ChunkedSeek ==
  /\ chunkSize' = 0 /\ bufPos' = 0
  /\ UNCHANGED <<stage, buf, frameStart, nextMember>>

(* To the beginning of a member, "valid positions from which decompression *)
(* can be resumed", and after the dictionary, if there is one, was loaded. *)
InnerSeek(p) ==
  /\ call = "idle" /\ remaining = 0
  /\ Begins(p)
  /\ dict => dictLoaded
  /\ codec = "chunked" => SeeksChunks \/ buf = << >>
  /\ IF codec = "brotli"
       THEN BrotliSeek(p)
       ELSE /\ SeekTape(p)
            /\ CASE codec = "gzip" -> GzipSeek(p)
                 [] codec = "chunked" -> ChunkedSeek
                 [] OTHER -> FrameSeek(p)
            /\ streamPos' = 0
  /\ result' = "none"
  /\ expect' = UnitsBefore(p) + 1
  /\ UNCHANGED <<outSize, dictLoaded, chunkRead, call, remaining>>

ReaderInit ==
  /\ pos = 0 /\ avail = 0
  /\ stage = "fresh"
  /\ buf = << >> /\ bufPos = 0
  /\ outSize \in 1 .. MaxOut
  /\ streamPos = 0 /\ frameStart = 0 /\ nextMember = 0
  /\ dictLoaded = FALSE
  /\ chunkSize = 0 /\ chunkRead = 0
  /\ call = "idle" /\ result = "none" /\ remaining = 0
  /\ expect = 1

ReaderNext ==
  \/ StartFill \/ Turn \/ SeekStep
  \/ \E n \in 1 .. MaxUnits : Consume(n) \/ Seek(n)
  \/ \E p \in 0 .. Len(tape) : InnerSeek(p)
=============================================================================
