-------------------------- MODULE ArchiveIteratorProofs --------------------------
(***************************************************************************)
(* Theorems about ArchiveIterator: type correctness in every               *)
(* configuration; in the supported ones, that the iterator implements      *)
(* RecordSequence; and what writing and consuming a record do also where   *)
(* payloads are decoded.  First, what the methods of a record preserve,    *)
(* for every archive and every record.                                     *)
(***************************************************************************)
EXTENDS ArchiveIterator, TLAPS

(* A record's reader never stands beyond its limit or before the beginning  *)
(* of its stream, and HTTP headers that are still to be parsed are counted  *)
(* in content_length.                                                       *)
Good(r) ==
  /\ r \in Record
  /\ r.pos <= r.limit
  /\ r.kind = "orig" => r.pos <= r.at
  /\ r.isHttp /\ ~ r.httpParsed /\ r.kind \in {"orig", "frozen"} =>
       r.limit <= r.contentLength
  /\ r.kind = "wrapped" => r.httpParsed \/ ~ r.isHttp

(* s is what a method made of r: a good record still, and the same one.      *)
Keeps(r, s) == Good(s) /\ s.streamPos = r.streamPos
USE DEF Keeps

Results == {"ok", "err", "io", "eof", "valid", "invalid"}

-----------------------------------------------------------------------------
(* A byte stream has a length, and the limit of an unlimited reader is not   *)
(* below it.                                                                 *)
LEMMA Constants == N \in Nat /\ MaxLimit \in Nat /\ N <= MaxLimit
BY ArchiveAssumption, MaxLimitAssumption

(* A cell of the stream is a cell (WarcArchive's typing of the stream).      *)
LEMMA CellType == \A p \in 0 .. N - 1 : Cell[p] \in Cells
BY ArchiveAssumption

(* The iterator begins with a good record: new() and attach_reader().        *)
LEMMA AttachedGood == \A a \in Position : Good(Attached(a))
BY Constants DEF Attached, Good, Record, ReaderKinds, Position

(* A record that lost its reader is a good record still.                     *)
LEMMA NoReaderGood == \A r : Good(r) => Keeps(r, NoReader(r))
BY DEF Good, NoReader, Record, ReaderKinds

(* What can still be read is a number of cells, and no more than is left of  *)
(* the limit and of the stream.                                              *)
LEMMA ReadableRange ==
  ASSUME NEW r, Good(r)
  PROVE  /\ Readable(r) \in Nat
         /\ r.kind = "orig" => /\ Readable(r) <= r.limit - r.pos
                               /\ Readable(r) <= N - r.at
         /\ r.kind = "frozen" => Readable(r) <= r.limit - r.pos
         /\ r.kind = "wrapped" => Readable(r) <= r.left
BY Constants DEF Good, Record, ReaderKinds, Readable, Least, Position

(* The encoded payload below a decoder ends inside of the stream, not before *)
(* the live position.                                                        *)
LEMMA EncodedEndRange ==
  ASSUME NEW r, Good(r)
  PROVE  /\ EncodedEnd(r) \in Position
         /\ r.at <= EncodedEnd(r)
         /\ EncodedEnd(r) - r.at <= r.limit - r.pos
BY Constants DEF Good, Record, EncodedEnd, Least, Position

(* Reading n cells that are there leaves a good record, whoever holds the    *)
(* live stream.                                                              *)
LEMMA ReadExactlyGood ==
  ASSUME NEW r, Good(r), NEW n \in 0 .. Readable(r), NEW s \in ReadExactly(r, n)
  PROVE  Keeps(r, s)
<1>1. CASE r.kind = "orig"
  <2>1. s = [r EXCEPT !.at = @ + n, !.pos = @ + n]
    BY <1>1 DEF ReadExactly
  <2>2. r.at + n \in Position /\ r.pos + n \in Nat /\ r.pos + n <= r.limit
        /\ r.pos + n <= r.at + n
    BY <1>1, Constants, ReadableRange DEF Good, Record, Position
  <2> QED BY <1>1, <2>1, <2>2 DEF Good, Record, ReaderKinds
<1>2. CASE r.kind = "frozen"
  BY <1>2, Constants, ReadableRange DEF Good, Record, ReadExactly, Position, ReaderKinds
<1>3. CASE r.kind = "wrapped"
  <2>1. PICK a \in r.at .. EncodedEnd(r) :
           s = [r EXCEPT !.left = @ - n, !.at = a, !.pos = @ + (a - r.at)]
    BY <1>3 DEF ReadExactly, Decoded
  <2>2. /\ a \in Position
        /\ r.pos + (a - r.at) \in Nat /\ r.pos + (a - r.at) <= r.limit
        /\ r.left - n \in Nat
    BY <1>3, EncodedEndRange, ReadableRange, Constants DEF Position, Good, Record, Readable
  <2> QED BY <1>3, <2>1, <2>2 DEF Good, Record, ReaderKinds
<1>4. CASE r.kind = "none"
  BY <1>4 DEF ReadExactly
<1> QED BY <1>1, <1>2, <1>3, <1>4 DEF Good, Record, ReaderKinds

(* So does reading to the end.                                               *)
LEMMA ReadToEndGood ==
  ASSUME NEW r, Good(r), NEW s \in ReadToEnd(r)
  PROVE  Keeps(r, s)
<1>1. CASE r.kind = "wrapped"
  <2>1. s \in ReadExactly(r, r.left) /\ r.left = Readable(r)
    <3>1. EncodedEnd(r) \in r.at .. EncodedEnd(r)
      BY EncodedEndRange, Constants DEF Good, Record, Position
    <3>2. s \in Decoded(r, r.left, {EncodedEnd(r)})
      BY <1>1 DEF ReadToEnd
    <3>3. s \in Decoded(r, r.left, r.at .. EncodedEnd(r))
      BY <3>1, <3>2 DEF Decoded
    <3> QED BY <1>1, <3>3 DEF ReadExactly, Readable
  <2> QED BY <2>1, ReadExactlyGood, ReadableRange
<1>2. CASE r.kind # "wrapped"
  BY <1>2, ReadExactlyGood, ReadableRange DEF ReadToEnd
<1> QED BY <1>1, <1>2

(* So does read(), which stops at the limit.                                 *)
LEMMA ReadUpToGood ==
  ASSUME NEW r, Good(r), NEW n \in Nat, NEW s \in ReadUpTo(r, n)
  PROVE  Keeps(r, s)
BY ReadExactlyGood, ReadToEndGood, ReadableRange DEF ReadUpTo

(* So does a read that fails on the way.                                     *)
LEMMA FailedGood ==
  ASSUME NEW r, Good(r), NEW s \in Failed(r)
  PROVE  Keeps(r, s)
BY ReadExactlyGood DEF Failed

(* consume() and consume_n() leave a good record, also when they fail.       *)
LEMMA ConsumeNGood ==
  ASSUME NEW r, Good(r), NEW n \in Nat, NEW o \in ConsumeN(r, n)
  PROVE  Keeps(r, o.rec) /\ o.res \in Results
<1>1. CASE n = 0 \/ r.kind = "none"
  BY <1>1 DEF ConsumeN, Outcome, Results
<1>2. CASE ~ (n = 0 \/ r.kind = "none")
  <2>1. \/ \E s \in ReadUpTo(r, n) : o = Outcome(s, "ok")
        \/ \E s \in Failed(r) : o = Outcome(s, "io")
    BY <1>2 DEF ConsumeN
  <2> QED BY <2>1, ReadUpToGood, FailedGood DEF Outcome, Results
<1> QED BY <1>1, <1>2

(* consume() leaves a good record.                                            *)
LEMMA ConsumeGood ==
  ASSUME NEW r, Good(r), NEW o \in Consume(r)
  PROVE  Keeps(r, o.rec) /\ o.res \in Results
BY ConsumeNGood DEF Consume, Good, Record

-----------------------------------------------------------------------------
(* A seek inside of what was read and what can be read leaves a good record. *)
LEMMA SeekToGood ==
  ASSUME NEW r, Good(r), r.kind \in {"orig", "frozen"},
         NEW p \in 0 .. r.pos + Readable(r)
  PROVE  Keeps(r, SeekTo(r, p))
<1>1. CASE r.kind = "orig"
  <2>1. r.at + (p - r.pos) \in Position /\ p <= r.at + (p - r.pos) /\ p <= r.limit
      /\ p \in Nat
    BY <1>1, ReadableRange, Constants DEF Good, Record, Position
  <2> QED BY <1>1, <2>1 DEF Good, Record, ReaderKinds, SeekTo
<1>2. CASE r.kind = "frozen"
  BY <1>2, ReadableRange, Constants DEF Good, Record, ReaderKinds, SeekTo
<1> QED BY <1>1, <1>2

(* freeze() leaves a good record: the copy is as long as the new limit and   *)
(* the new content_length.                                                   *)
LEMMA FreezeGood ==
  ASSUME NEW r, Good(r), NEW o \in Freeze(r)
  PROVE  Keeps(r, o.rec) /\ o.res \in Results
<1>1. CASE r.kind = "orig"
  <2> DEFINE n == Readable(r)
             s == [r EXCEPT !.kind = "frozen", !.keeps = TRUE, !.buf = r.at,
                            !.at = @ + n, !.limit = n, !.pos = 0,
                            !.contentLength = n]
  <2>1. o = Outcome(s, "ok") \/ o = Outcome(NoReader(r), "io")
    BY <1>1 DEF Freeze
  <2>2. r.at \in Nat /\ n \in Nat /\ r.at + n \in Position
    BY <1>1, ReadableRange, Constants DEF Good, Record, Position
  <2>3. Keeps(r, s)
    <3> HIDE DEF n
    <3>1. s.streamPos = r.streamPos /\ s.at = r.at + n /\ s.limit = n /\ s.pos = 0 /\ s.kind = "frozen"
          /\ s.contentLength = n
      BY <1>1 DEF Good, Record
    <3>2. s \in Record
      BY <1>1, <2>2 DEF Good, Record, ReaderKinds
    <3> QED BY <3>1, <3>2, <2>2 DEF Good
  <2>4. Keeps(r, NoReader(r))
    BY NoReaderGood
  <2> HIDE DEF s
  <2> QED BY <2>1, <2>3, <2>4 DEF Outcome, Results
<1>2. CASE r.kind # "orig"
  BY <1>2, NoReaderGood DEF Freeze, Outcome, Results
<1> QED BY <1>1, <1>2

(* freeze() that succeeds leaves a frozen record.                            *)
LEMMA FreezeFreezes ==
  ASSUME NEW r, Good(r), NEW o \in Freeze(r), o.res = "ok"
  PROVE  o.rec.kind = "frozen"
<1>1. CASE r.kind = "frozen"
  BY <1>1 DEF Freeze, Outcome
<1>2. CASE r.kind = "orig"
  <2> DEFINE s == [r EXCEPT !.kind = "frozen", !.keeps = TRUE, !.buf = r.at,
                            !.at = @ + Readable(r), !.limit = Readable(r),
                            !.pos = 0, !.contentLength = Readable(r)]
  <2>1. o = Outcome(s, "ok") \/ o = Outcome(NoReader(r), "io")
    BY <1>2 DEF Freeze
  <2>2. s.kind = "frozen"
    BY DEF Good, Record
  <2> HIDE DEF s
  <2> QED BY <2>1, <2>2 DEF Outcome
<1>3. CASE r.kind \notin {"frozen", "orig"}
  BY <1>3 DEF Freeze, Outcome
<1> QED BY <1>1, <1>2, <1>3

(* set_bytes_payload() leaves a good record.                                 *)
LEMMA SetBytesPayloadGood ==
  ASSUME NEW r, Good(r), NEW n \in Nat
  PROVE  Keeps(r, SetBytesPayload(r, n))
<1> DEFINE b == (r.kind = "orig")
           s == [r EXCEPT !.kind = "frozen", !.keeps = b, !.buf = N, !.limit = n,
                          !.pos = 0, !.contentLength = n]
<1>1. SetBytesPayload(r, n) = s
  BY DEF SetBytesPayload
<1>2. b \in BOOLEAN
  OBVIOUS
<1> HIDE DEF b
<1>3. s \in Record
  BY <1>2, Constants DEF Good, Record, ReaderKinds
<1>4. s.limit = n /\ s.pos = 0 /\ s.contentLength = n /\ s.kind = "frozen"
  BY DEF Good, Record
<1> QED BY <1>1, <1>3, <1>4 DEF Good

-----------------------------------------------------------------------------
(* A reader without limit that stands where the parser may begin.            *)
Unlimited(r) == r.kind = "orig" /\ r.limit = MaxLimit /\ r.pos = r.at /\ ~ r.isHttp

(* The scan for the next header starts at the live position and ends inside  *)
(* of the stream.                                                            *)
LEMMA StopsRange == \A from \in Position : Stops(from) \subseteq from .. N
BY DEF Stops

(* parse_warc_headers() leaves a good record, and a parsed header is one of  *)
(* the archive's own headers, the first that is not skipped.                 *)
LEMMA ParseWarcHeadersGood ==
  ASSUME NEW r, Good(r), Unlimited(r), NEW o \in ParseWarcHeaders(r)
  PROVE  /\ Good(o.rec)
         /\ o.res \in Results
         /\ o.res = "ok" => \E q \in Stops(r.at) : IsHeader(q) /\ o.rec = HeaderParsed(r, q)
         /\ o.res = "err" => \E q \in Stops(r.at) : q < N /\ ~ IsHeader(q)
         /\ o.res = "eof" => N \in Stops(r.at)
         /\ o.res # "ok" => Unlimited(o.rec)
<1>1. PICK q \in Stops(r.at) :
         \/ IsHeader(q) /\ o = Outcome(HeaderParsed(r, q), "ok")
         \/ q = N /\ o = Outcome(Moved(r, N, N), "eof")
         \/ q # N /\ ~ IsHeader(q) /\ o = Outcome(Moved(r, q + 1, q), "err")
         \/ \E a \in r.at .. q : o = Outcome(Moved(r, a, a), "io")
  BY DEF ParseWarcHeaders
<1>2. r.at \in Position /\ q \in r.at .. N
  BY StopsRange DEF Good, Record
<1>3. \A a \in r.at .. N, p \in Position : Good(Moved(r, a, p)) /\ Unlimited(Moved(r, a, p))
  <2> TAKE a \in r.at .. N, p \in Position
  <2> DEFINE s == Moved(r, a, p)
  <2>1. r.pos + (a - r.at) = a /\ a \in Position /\ a <= MaxLimit /\ a \in Nat
    BY <1>2, Constants DEF Unlimited, Position, Good, Record
  <2>2. s = [r EXCEPT !.at = a, !.pos = a, !.streamPos = p]
    BY <2>1 DEF Moved
  <2>3. s \in Record
    BY <2>1, <2>2 DEF Good, Record
  <2>4. s.kind = "orig" /\ s.limit = MaxLimit /\ s.pos = a /\ s.at = a /\ ~ s.isHttp
    BY <2>2 DEF Good, Record, Unlimited
  <2> QED BY <2>1, <2>3, <2>4 DEF Good, Unlimited
<1>4. CASE IsHeader(q) /\ o = Outcome(HeaderParsed(r, q), "ok")
  <2>1. q + 1 \in Position /\ q \in Position /\ Cell[q] \in Cells
    BY <1>2, <1>4, CellType, Constants DEF IsHeader, Position
  <2>2. Good(HeaderParsed(r, q))
    <3> DEFINE len == IF Cell[q].hasLen THEN Cell[q].len ELSE r.contentLength
               h == Cell[q].http
               s == [r EXCEPT !.at = q + 1, !.streamPos = q, !.isHttp = h,
                              !.contentLength = len, !.limit = len, !.pos = 0]
    <3>1. HeaderParsed(r, q) = s
      BY DEF HeaderParsed
    <3>2. len \in Nat /\ h \in BOOLEAN
      BY <2>1 DEF Cells, Good, Record
    <3> HIDE DEF len, h
    <3>3. s \in Record
      BY <2>1, <3>2 DEF Good, Record
    <3>4. s.kind = "orig" /\ s.limit = len /\ s.pos = 0 /\ s.contentLength = len
          /\ s.at = q + 1
      BY DEF Good, Record, Unlimited
    <3>5. q + 1 >= 0
      BY <2>1, Constants DEF Position
    <3> QED BY <3>1, <3>2, <3>3, <3>4, <3>5 DEF Good
  <2> QED BY <1>4, <2>2 DEF Outcome, Results
<1>5. CASE q = N /\ o = Outcome(Moved(r, N, N), "eof")
  BY <1>2, <1>3, <1>5, Constants DEF Outcome, Results, Position
<1>6. CASE q # N /\ ~ IsHeader(q) /\ o = Outcome(Moved(r, q + 1, q), "err")
  <2>1. q + 1 \in r.at .. N /\ q \in Position /\ q < N
    BY <1>2, <1>6, Constants DEF Position
  <2> QED BY <1>3, <1>6, <2>1 DEF Outcome, Results
<1>7. CASE \E a \in r.at .. q : o = Outcome(Moved(r, a, a), "io")
  <2>1. PICK a \in r.at .. q : o = Outcome(Moved(r, a, a), "io")
    BY <1>7
  <2>2. a \in r.at .. N /\ a \in Position
    BY <1>2, Constants DEF Position
  <2> QED BY <1>3, <2>1, <2>2 DEF Outcome, Results
<1> QED BY <1>1, <1>4, <1>5, <1>6, <1>7

(* So does the attempt to parse what a decoder still delivers.               *)
LEMMA ParseDecodedGood ==
  ASSUME NEW r, Good(r), r.kind = "wrapped", NEW o \in ParseDecoded(r)
  PROVE  Good(o.rec) /\ o.res \in {"eof", "err"}
<1>1. CASE r.left = 0 \/ Quirks
  BY <1>1, ReadToEndGood DEF ParseDecoded, Outcome
<1>2. CASE ~ (r.left = 0 \/ Quirks)
  <2>1. r.kind = "wrapped" => 1 \in 0 .. Readable(r)
    BY <1>2 DEF Good, Record, Readable
  <2> QED BY <1>2, <2>1, ReadExactlyGood DEF ParseDecoded, Outcome
<1> QED BY <1>1, <1>2

-----------------------------------------------------------------------------
(* Cutting n cells of HTTP headers off the front of the payload leaves a     *)
(* good record: content_length does not underflow.                           *)
LEMMA HttpHeadersParsedGood ==
  ASSUME NEW r, Good(r), r.isHttp, ~ r.httpParsed, r.kind \in {"orig", "frozen"},
         NEW n \in 0 .. Readable(r)
  PROVE  Keeps(r, HttpHeadersParsed(r, n))
<1> DEFINE rest == r.contentLength - n
<1>1. rest \in Nat /\ n \in Nat
  BY ReadableRange DEF Good, Record
<1>2. CASE r.kind = "frozen"
  <2> DEFINE lim == Least(rest, Readable(r) - n)
             s == [r EXCEPT !.buf = @ + r.pos + n, !.contentLength = rest,
                            !.limit = lim, !.pos = 0,
                            !.httpParsed = TRUE, !.httpLen = n]
  <2>1. HttpHeadersParsed(r, n) = s
    BY <1>2 DEF HttpHeadersParsed
  <2>2. lim \in Nat
    BY <1>1, <1>2, ReadableRange DEF Least
  <2>3. r.buf + r.pos + n \in Nat
    BY <1>1 DEF Good, Record
  <2> HIDE DEF lim, rest
  <2>4. s \in Record
    BY <1>1, <2>2, <2>3 DEF Good, Record
  <2>5. s.limit = lim /\ s.pos = 0 /\ s.kind = "frozen" /\ s.httpParsed
    BY <1>2 DEF Good, Record
  <2> QED BY <2>1, <2>2, <2>4, <2>5 DEF Good
<1>3. CASE r.kind = "orig"
  <2> DEFINE s == [r EXCEPT !.at = @ + n, !.contentLength = rest, !.limit = rest,
                            !.pos = 0, !.httpParsed = TRUE, !.httpLen = n]
  <2>1. HttpHeadersParsed(r, n) = s
    BY <1>3 DEF HttpHeadersParsed
  <2>2. r.at + n \in Position /\ r.at + n >= 0
    BY <1>1, <1>3, ReadableRange, Constants DEF Good, Record, Position
  <2> HIDE DEF rest
  <2>3. s \in Record
    BY <1>1, <2>2 DEF Good, Record
  <2>4. s.limit = rest /\ s.pos = 0 /\ s.kind = "orig" /\ s.httpParsed /\ s.at = r.at + n
    BY <1>3 DEF Good, Record
  <2> QED BY <1>1, <2>1, <2>2, <2>3, <2>4 DEF Good
<1> QED BY <1>2, <1>3

(* Putting decoders on top of a payload whose HTTP headers are parsed leaves *)
(* a good record, also when a coding is unknown and the reader is lost.      *)
LEMMA WrapReaderGood ==
  ASSUME NEW r, Good(r), r.httpParsed, NEW c \in Cells, NEW decode
  PROVE  Keeps(r, WrapReader(r, c, decode).rec) /\ WrapReader(r, c, decode).res \in Results
<1> DEFINE o == WrapReader(r, c, decode)
           frozen == [r EXCEPT !.limit = c.dec, !.pos = 0, !.buf = N, !.contentLength = c.dec]
           wrapped(w) == [r EXCEPT !.kind = "wrapped", !.left = c.dec, !.wraps = w]
<1>1. \/ o = Outcome(r, "ok")
      \/ o = Outcome(NoReader(r), "err")
      \/ r.kind = "frozen" /\ o = Outcome(frozen, "ok")
      \/ \E w \in {1, 2} : o = Outcome(wrapped(w), "ok")
  BY DEF WrapReader
<1>2. c.dec \in Nat
  BY DEF Cells
<1>3. r.kind = "frozen" => Keeps(r, frozen)
  <2>1. frozen \in Record
    BY <1>2, Constants DEF Good, Record
  <2>2. frozen.limit = c.dec /\ frozen.pos = 0 /\ frozen.kind = r.kind /\ frozen.httpParsed
        /\ frozen.streamPos = r.streamPos
    BY DEF Good, Record
  <2> QED BY <1>2, <2>1, <2>2 DEF Good
<1>4. \A w \in {1, 2} : Keeps(r, wrapped(w))
  <2> TAKE w \in {1, 2}
  <2>0. w \in Nat
    OBVIOUS
  <2>1. wrapped(w) \in Record
    BY <1>2, <2>0 DEF Good, Record, ReaderKinds
  <2>2. wrapped(w).kind = "wrapped" /\ wrapped(w).pos = r.pos /\ wrapped(w).limit = r.limit
        /\ wrapped(w).httpParsed /\ wrapped(w).streamPos = r.streamPos
    BY DEF Good, Record
  <2> QED BY <2>1, <2>2 DEF Good
<1> HIDE DEF frozen, wrapped
<1> QED BY <1>1, <1>3, <1>4, NoReaderGood DEF Outcome, Results

(* parse_http() leaves a good record.                                        *)
LEMMA ParseHttpGood ==
  ASSUME NEW r, Good(r), NEW decode, NEW o \in ParseHttp(r, decode)
  PROVE  Keeps(r, o.rec) /\ o.res \in Results
<1>1. CASE r.httpParsed \/ ~ r.isHttp
  BY <1>1 DEF ParseHttp, Outcome, Results
<1>2. CASE ~ (r.httpParsed \/ ~ r.isHttp) /\ r.kind = "none"
  BY <1>2 DEF ParseHttp, Outcome, Results
<1>3. CASE ~ (r.httpParsed \/ ~ r.isHttp) /\ r.kind # "none"
  <2>1. r.kind \in {"orig", "frozen"}
    BY <1>3 DEF Good, Record, ReaderKinds
  <2>2. \A n \in 0 .. Readable(r) : Keeps(r, HttpHeadersParsed(r, n))
    BY <1>3, <2>1, HttpHeadersParsedGood
  <2>3. \/ AtHttp(r) /\ o = WrapReader(HttpHeadersParsed(r, 1), Cell[NextCell(r)], decode)
        \/ AtHttp(r) /\ \E s \in ReadExactly(r, 1) : o = Outcome(s, "err")
        \/ \E n \in 0 .. Readable(r) : o = Outcome(HttpHeadersParsed(r, n), "ok")
        \/ \E s \in Failed(r) : o = Outcome(s, "io")
    BY <1>3 DEF ParseHttp
  <2>4. AtHttp(r) => 1 \in 0 .. Readable(r) /\ Cell[NextCell(r)] \in Cells
    BY CellType, ReadableRange, Constants DEF AtHttp, NextCell, Good, Record, Position
  <2>5. HttpHeadersParsed(r, 1).httpParsed
    BY DEF HttpHeadersParsed, Good, Record
  <2>6. CASE AtHttp(r) /\ o = WrapReader(HttpHeadersParsed(r, 1), Cell[NextCell(r)], decode)
    BY <2>2, <2>4, <2>5, <2>6, WrapReaderGood
  <2>7. CASE AtHttp(r) /\ \E s \in ReadExactly(r, 1) : o = Outcome(s, "err")
    BY <2>4, <2>7, ReadExactlyGood DEF Outcome, Results
  <2>8. CASE \E n \in 0 .. Readable(r) : o = Outcome(HttpHeadersParsed(r, n), "ok")
    BY <2>2, <2>8 DEF Outcome, Results
  <2>9. CASE \E s \in Failed(r) : o = Outcome(s, "io")
    BY <2>9, FailedGood DEF Outcome, Results
  <2> QED BY <2>3, <2>6, <2>7, <2>8, <2>9
<1> QED BY <1>1, <1>2, <1>3

(* verify_block_digest() leaves a good record.                               *)
LEMMA VerifyBlockDigestGood ==
  ASSUME NEW r, Good(r), NEW consume \in BOOLEAN,
         NEW o \in VerifyBlockDigest(r, consume)
  PROVE  Keeps(r, o.rec) /\ o.res \in Results
<1>1. \/ o = Outcome(r, "invalid")
      \/ \E s \in ReadToEnd(r) : o = Outcome(s, DigestResult(r))
      \/ \E s \in Failed(r) : o = Outcome(s, "io")
      \/ \E f \in Freeze(r) : \E res \in {DigestResult(f.rec), "io", "invalid"} :
           o = Outcome(f.rec, res)
  BY DEF VerifyBlockDigest
<1>2. \A s : DigestResult(s) \in Results
  BY DEF DigestResult, Results
<1> QED BY <1>1, <1>2, ReadToEndGood, FailedGood, FreezeGood DEF Outcome, Results

(* write() leaves a good record, and so does one that fails.                 *)
LEMMA WriteGood ==
  ASSUME NEW r, Good(r), NEW checksum \in BOOLEAN, NEW o \in Write(r, checksum)
  PROVE  Keeps(r, o.rec) /\ o.res \in Results
<1>1. \/ o.rec = r /\ o.res = "err"
      \/ \E f \in Freeze(r) : f.res # "ok" /\ o.rec = f.rec /\ o.res = f.res
      \/ \E f \in Freeze(r) : f.res = "ok" /\ o.rec \in ReadToEnd(SeekTo(f.rec, 0)) /\ o.res = "ok"
      \/ o.rec \in ReadToEnd(r) /\ o.res = "ok"
      \/ o.rec \in Failed(r) /\ o.res = "io"
  <2>1. CASE r.kind = "none"
    BY <2>1 DEF Write, Unwritten
  <2>2. CASE r.kind # "none" /\ checksum
    <3>1. PICK f \in Freeze(r) : o \in IF f.res = "ok" THEN Written(r, SeekTo(f.rec, 0))
                                                       ELSE {Unwritten(f.rec, f.res)}
      BY <2>2 DEF Write
    <3> QED BY <3>1 DEF Written, Unwritten
  <2>3. CASE r.kind # "none" /\ ~ checksum
    BY <2>3 DEF Write, Written, Unwritten
  <2> QED BY <2>1, <2>2, <2>3
<1>2. \A f \in Freeze(r) : f.res = "ok" => Keeps(r, SeekTo(f.rec, 0))
  <2> TAKE f \in Freeze(r)
  <2> HAVE f.res = "ok"
  <2>1. f.rec.kind = "frozen"
    BY FreezeFreezes
  <2>2. Keeps(r, f.rec)
    BY FreezeGood
  <2>3. 0 \in 0 .. f.rec.pos + Readable(f.rec)
    BY <2>2, ReadableRange DEF Good, Record
  <2> QED BY <2>1, <2>2, <2>3, SeekToGood
<1>3. CASE o.rec = r /\ o.res = "err"
  BY <1>3 DEF Results, Keeps
<1>4. ASSUME NEW f \in Freeze(r), f.res # "ok", o.rec = f.rec, o.res = f.res
      PROVE  Keeps(r, o.rec) /\ o.res \in Results
  BY <1>4, FreezeGood
<1>5. ASSUME NEW f \in Freeze(r), f.res = "ok", o.rec \in ReadToEnd(SeekTo(f.rec, 0)), o.res = "ok"
      PROVE  Keeps(r, o.rec) /\ o.res \in Results
  <2>1. Keeps(r, SeekTo(f.rec, 0))
    BY <1>2, <1>5
  <2>2. Keeps(SeekTo(f.rec, 0), o.rec)
    BY <1>5, <2>1, ReadToEndGood DEF Keeps
  <2> QED BY <1>5, <2>1, <2>2 DEF Keeps, Results
<1>6. CASE o.rec \in ReadToEnd(r) /\ o.res = "ok"
  BY <1>6, ReadToEndGood DEF Results
<1>7. CASE o.rec \in Failed(r) /\ o.res = "io"
  BY <1>7, FailedGood DEF Results
<1> QED BY <1>1, <1>3, <1>4, <1>5, <1>6, <1>7

-----------------------------------------------------------------------------
(* A record whose reader is detached is good, and a record made by new().    *)
LEMMA AfterDetachGood == \A r : Good(r) => Good(AfterDetach(r))
<1> SUFFICES ASSUME NEW r, Good(r) PROVE Good(AfterDetach(r))
  OBVIOUS
<1>1. CASE r.kind = "frozen"
  <2>1. Good([r EXCEPT !.keeps = FALSE])
    BY <1>1 DEF Good, Record, ReaderKinds
  <2> QED BY <1>1, <2>1 DEF AfterDetach
<1>2. CASE r.kind # "frozen"
  BY <1>2, NoReaderGood DEF AfterDetach
<1> QED BY <1>1, <1>2

(* next() on a new record leaves a good record, the old or the new one.      *)
LEMMA FromDetachedGood ==
  ASSUME NEW r, Good(r), NEW o \in FromDetached(r)
  PROVE  /\ Good(o.rec)
         /\ o.res \in Results
         /\ o.res = "ok" => IsHeader(o.rec.streamPos) /\ o.rec.streamPos \in 0 .. N - 1
<1>1. CASE Detaches(r) = "archive"
  <2>1. Good(Attached(r.at)) /\ Unlimited(Attached(r.at))
    BY AttachedGood DEF Good, Record, Attached, Unlimited
  <2>2. PICK p \in ParseWarcHeaders(Attached(r.at)) :
          o = IF p.res = "ok" THEN p ELSE Outcome(AfterDetach(r), p.res)
    BY <1>1 DEF FromDetached
  <2>3. /\ Good(p.rec)
        /\ p.res \in Results
        /\ p.res = "ok" => \E q \in Stops(Attached(r.at).at) :
                             IsHeader(q) /\ p.rec = HeaderParsed(Attached(r.at), q)
    BY <2>1, ParseWarcHeadersGood
  <2>4. p.res = "ok" => IsHeader(p.rec.streamPos) /\ p.rec.streamPos \in 0 .. N - 1
    <3> HAVE p.res = "ok"
    <3>1. PICK q \in Stops(r.at) : IsHeader(q) /\ p.rec = HeaderParsed(Attached(r.at), q)
      BY <2>3 DEF Attached
    <3>2. p.rec.streamPos = q
      BY <3>1 DEF HeaderParsed, Attached
    <3>3. q \in r.at .. N /\ q < N /\ r.at \in 0 .. N
      BY <3>1, StopsRange DEF Good, Record, IsHeader, Position
    <3> QED BY <3>1, <3>2, <3>3, Constants
  <2> QED BY <2>2, <2>3, <2>4, AfterDetachGood DEF Outcome
<1>2. CASE Detaches(r) # "archive"
  <2>1. o = Outcome(r, "eof") \/ o = Outcome(NoReader(r), "eof")
        \/ o = Outcome(NoReader(r), "err")
    BY <1>2 DEF FromDetached, Detaches, Good, Record, ReaderKinds
  <2> QED BY <2>1, NoReaderGood DEF Outcome, Results
<1> QED BY <1>1, <1>2

(* next() finishes the payload and leaves a good record.                      *)
LEMMA FinishPayloadGood ==
  ASSUME NEW r, Good(r), NEW o \in FinishPayload(r)
  PROVE  Keeps(r, o.rec) /\ o.res \in Results
BY ConsumeGood DEF FinishPayload, Outcome, Results

(* The next record is a good one, with a header in the stream.                *)
LEMMA NextFreshGood ==
  ASSUME NEW r, Good(r), NEW o \in NextFresh(r)
  PROVE  /\ Good(o.rec)
         /\ o.res \in Results
         /\ o.res = "ok" => IsHeader(o.rec.streamPos) /\ o.rec.streamPos \in 0 .. N - 1
<1>1. PICK c \in FinishPayload(r) : o \in IF c.res = "ok" THEN FromDetached(c.rec) ELSE {c}
  BY DEF NextFresh
<1>2. Good(c.rec) /\ c.res \in Results
  BY FinishPayloadGood
<1> QED BY <1>1, <1>2, FromDetachedGood

(* reset_limit() and the reset of the HTTP state make a record of which the  *)
(* next header can be parsed.                                                *)
LEMMA ClearedUnlimited ==
  ASSUME NEW r, Good(r), r.kind = "orig"
  PROVE  LET u == Cleared([r EXCEPT !.limit = MaxLimit, !.pos = r.at])
         IN Good(u) /\ Unlimited(u) /\ ~ u.httpParsed /\ u.at = r.at
<1> DEFINE u == Cleared([r EXCEPT !.limit = MaxLimit, !.pos = r.at])
<1>1. r.at \in Nat /\ r.at <= MaxLimit
  BY Constants DEF Good, Record, Position
<1>2. [r EXCEPT !.limit = MaxLimit, !.pos = r.at] \in Record
  BY <1>1, Constants DEF Good, Record
<1>3. u \in Record
  BY <1>2 DEF Cleared, Record
<1>4. u.kind = "orig" /\ u.limit = MaxLimit /\ u.pos = r.at /\ u.at = r.at
      /\ ~ u.isHttp /\ ~ u.httpParsed
  BY DEF Cleared, Good, Record
<1> HIDE DEF u
<1>5. Good(u) /\ Unlimited(u) /\ ~ u.httpParsed /\ u.at = r.at
  BY <1>1, <1>3, <1>4 DEF Good, Unlimited
<1> QED BY <1>5 DEF u

(* So does next() on the same record, which forgets its HTTP state first.    *)
LEMMA ParseInplaceGood ==
  ASSUME NEW r, Good(r), NEW o \in ParseInplace(r)
  PROVE  /\ Good(o.rec)
         /\ o.res \in Results
         /\ o.res = "ok" => IsHeader(o.rec.streamPos) /\ o.rec.streamPos \in 0 .. N - 1
<1>1. CASE r.kind = "orig"
  <2> DEFINE u == Cleared([r EXCEPT !.limit = MaxLimit, !.pos = r.at])
  <2>1. o \in ParseWarcHeaders(u)
    BY <1>1 DEF ParseInplace
  <2>3. u \in Record
    BY <1>1, ClearedUnlimited DEF Good
  <2>5. Good(u) /\ Unlimited(u)
    BY <1>1, ClearedUnlimited
  <2>6. u.at \in Position
    BY <2>3 DEF Record
  <2> HIDE DEF u
  <2>7. o.res = "ok" => \E q \in Stops(u.at) : IsHeader(q) /\ o.rec = HeaderParsed(u, q)
    BY <2>1, <2>5, ParseWarcHeadersGood
  <2>8. Good(o.rec) /\ o.res \in Results
    BY <2>1, <2>5, ParseWarcHeadersGood
  <2>9. o.res = "ok" => IsHeader(o.rec.streamPos) /\ o.rec.streamPos \in 0 .. N - 1
    <3> HAVE o.res = "ok"
    <3>1. PICK q \in Stops(u.at) : IsHeader(q) /\ o.rec = HeaderParsed(u, q)
      BY <2>7
    <3>2. o.rec.streamPos = q
      BY <2>3, <3>1 DEF HeaderParsed, Record
    <3>3. q \in u.at .. N /\ q < N /\ u.at \in 0 .. N
      BY <2>6, <3>1, StopsRange DEF IsHeader, Position
    <3> QED BY <3>1, <3>2, <3>3, Constants
  <2> QED BY <2>8, <2>9
<1>2. CASE r.kind = "wrapped"
  <2>1. Good(Cleared(r)) /\ Cleared(r).kind = "wrapped"
    BY <1>2 DEF Cleared, Good, Record
  <2>2. o \in ParseDecoded(Cleared(r))
    BY <1>2 DEF ParseInplace
  <2> QED BY <2>1, <2>2, ParseDecodedGood DEF Results
<1>3. CASE r.kind \notin {"orig", "wrapped"}
  BY <1>3 DEF ParseInplace, Outcome, Results
<1> QED BY <1>1, <1>2, <1>3

(* So it is where the record is reused.                                       *)
LEMMA NextInplaceGood ==
  ASSUME NEW r, Good(r), NEW o \in NextInplace(r)
  PROVE  /\ Good(o.rec)
         /\ o.res \in Results
         /\ o.res = "ok" => IsHeader(o.rec.streamPos) /\ o.rec.streamPos \in 0 .. N - 1
<1>1. PICK c \in FinishPayload(r) : o \in IF c.res = "ok" THEN ParseInplace(c.rec) ELSE {c}
  BY DEF NextInplace
<1>2. Good(c.rec) /\ c.res \in Results
  BY FinishPayloadGood
<1> QED BY <1>1, <1>2, ParseInplaceGood

-----------------------------------------------------------------------------
(* Where a record whose block ends at c stands: what the live reader can     *)
(* still deliver ends at c, and a frozen record retains a reader at c.       *)
Placed(r, c) ==
  /\ r.kind # "wrapped"
  /\ r.kind = "orig" =>
       /\ EncodedEnd(r) = c
       /\ r.contentLength = r.limit
       /\ ~ r.httpParsed => r.at = r.streamPos + 1 + r.pos
  /\ r.kind = "frozen" /\ r.keeps => r.at = c

(* The archive's reader is gone.                                             *)
Lost(r) == ~ (r.kind = "orig" \/ (r.kind = "frozen" /\ r.keeps))

(* s is what a method made of r, with the same reader.                       *)
Still(r, s) ==
  /\ s.kind = r.kind /\ s.keeps = r.keeps
  /\ \A c : Placed(r, c) => Placed(s, c)

(* Reading moves on within the payload, it does not move the payload's end.  *)
LEMMA ReadExactlyStill ==
  ASSUME NEW r, Good(r), r.kind # "wrapped",
         NEW n \in 0 .. Readable(r), NEW s \in ReadExactly(r, n)
  PROVE  Still(r, s)
<1>1. CASE r.kind = "orig"
  <2>1. s = [r EXCEPT !.at = @ + n, !.pos = @ + n]
    BY <1>1 DEF ReadExactly
  <2>2. /\ s.kind = r.kind /\ s.keeps = r.keeps /\ s.at = r.at + n /\ s.pos = r.pos + n
        /\ s.limit = r.limit /\ s.contentLength = r.contentLength
        /\ s.httpParsed = r.httpParsed /\ s.streamPos = r.streamPos
    BY <2>1 DEF Good, Record
  <2>3. r.at \in Nat /\ r.pos \in Nat /\ r.limit \in Nat /\ n \in Nat
        /\ r.streamPos \in Nat
    BY <1>1, ReadableRange, Constants DEF Good, Record, Position
  <2>4. EncodedEnd(s) = EncodedEnd(r)
    BY <2>2, <2>3, Constants DEF EncodedEnd, Least
  <2>5. r.at = r.streamPos + 1 + r.pos => s.at = s.streamPos + 1 + s.pos
    BY <2>2, <2>3
  <2> QED BY <1>1, <2>2, <2>4, <2>5 DEF Still, Placed
<1>2. CASE r.kind = "frozen"
  <2>1. s = [r EXCEPT !.pos = @ + n]
    BY <1>2 DEF ReadExactly
  <2>2. s.kind = r.kind /\ s.keeps = r.keeps /\ s.at = r.at
    BY <2>1 DEF Good, Record
  <2> QED BY <1>2, <2>2 DEF Still, Placed
<1>3. CASE r.kind = "none"
  BY <1>3 DEF ReadExactly, Still
<1> QED BY <1>1, <1>2, <1>3 DEF Good, Record, ReaderKinds

(* Reading to the end does not move the payload's end.                        *)
LEMMA ReadToEndStill ==
  ASSUME NEW r, Good(r), r.kind # "wrapped", NEW s \in ReadToEnd(r)
  PROVE  Still(r, s)
BY ReadExactlyStill, ReadableRange DEF ReadToEnd

(* Nor does read().                                                           *)
LEMMA ReadUpToStill ==
  ASSUME NEW r, Good(r), r.kind # "wrapped", NEW n \in Nat, NEW s \in ReadUpTo(r, n)
  PROVE  Still(r, s)
BY ReadExactlyStill, ReadToEndStill, ReadableRange DEF ReadUpTo

(* Nor does a read that fails on the way.                                     *)
LEMMA FailedStill ==
  ASSUME NEW r, Good(r), r.kind # "wrapped", NEW s \in Failed(r)
  PROVE  Still(r, s)
BY ReadExactlyStill DEF Failed

(* consume() moves on within the payload; when it succeeds on a record whose *)
(* block ends at c, the live reader stands at c.                             *)
LEMMA ConsumeStill ==
  ASSUME NEW r, Good(r), r.kind # "wrapped", NEW o \in Consume(r)
  PROVE  /\ Still(r, o.rec)
         /\ o.rec.kind = "orig" /\ o.res = "ok" =>
              \A c : Placed(r, c) => o.rec.at = c
<1> DEFINE n == r.contentLength
<1>1. n \in Nat /\ o \in ConsumeN(r, n)
  BY DEF Consume, Good, Record
<1>2. CASE n = 0
  <2>1. o = Outcome(r, "ok")
    BY <1>1, <1>2 DEF ConsumeN
  <2>2. ASSUME r.kind = "orig", NEW c, Placed(r, c) PROVE r.at = c
    <3>1. r.limit = 0 /\ r.pos = 0 /\ r.at \in Nat /\ r.at <= N
      BY <1>2, <2>2, Constants DEF Placed, Good, Record, Position
    <3> QED BY <2>2, <3>1, Constants DEF Placed, EncodedEnd, Least
  <2> QED BY <2>1, <2>2 DEF Outcome, Still
<1>3. CASE n # 0 /\ r.kind = "none"
  <2>1. o = Outcome(r, "err")
    BY <1>1, <1>3 DEF ConsumeN
  <2> QED BY <2>1 DEF Outcome, Still
<1>4. CASE n # 0 /\ r.kind # "none"
  <2>1. \/ \E s \in ReadUpTo(r, n) : o = Outcome(s, "ok")
        \/ \E s \in Failed(r) : o = Outcome(s, "io")
    BY <1>1, <1>4 DEF ConsumeN
  <2>2. CASE \E s \in Failed(r) : o = Outcome(s, "io")
    BY <2>2, FailedStill DEF Outcome
  <2>3. CASE \E s \in ReadUpTo(r, n) : o = Outcome(s, "ok")
    <3>1. PICK s \in ReadUpTo(r, n) : o = Outcome(s, "ok")
      BY <2>3
    <3>2. Still(r, s)
      BY <1>1, <3>1, ReadUpToStill
    <3>3. ASSUME s.kind = "orig", NEW c, Placed(r, c) PROVE s.at = c
      <4>1. r.kind = "orig" /\ r.limit = n /\ EncodedEnd(r) = c
        BY <3>2, <3>3 DEF Still, Placed
      <4>2. s \in ReadExactly(r, Readable(r))
        BY <1>1, <3>1, <4>1, ReadableRange DEF ReadUpTo, ReadToEnd, Good, Record
      <4>3. s = [r EXCEPT !.at = @ + Readable(r), !.pos = @ + Readable(r)]
        BY <4>1, <4>2 DEF ReadExactly
      <4>4. s.at = r.at + Readable(r)
        BY <4>3 DEF Good, Record
      <4>5. r.at \in Nat /\ r.pos \in Nat /\ r.limit \in Nat
        BY Constants DEF Good, Record, Position
      <4> QED BY <4>1, <4>4, <4>5, Constants DEF Readable, EncodedEnd, Least
    <3> QED BY <3>1, <3>2, <3>3 DEF Outcome
  <2> QED BY <2>1, <2>2, <2>3
<1> QED BY <1>2, <1>3, <1>4

(* A seek does not move the payload's end either.                            *)
LEMMA SeekToStill ==
  ASSUME NEW r, Good(r), r.kind \in {"orig", "frozen"},
         NEW p \in 0 .. r.pos + Readable(r)
  PROVE  Still(r, SeekTo(r, p))
<1> DEFINE s == SeekTo(r, p)
<1>1. CASE r.kind = "orig"
  <2>1. /\ s.kind = r.kind /\ s.keeps = r.keeps /\ s.at = r.at + (p - r.pos) /\ s.pos = p
        /\ s.limit = r.limit /\ s.contentLength = r.contentLength
        /\ s.httpParsed = r.httpParsed /\ s.streamPos = r.streamPos
    BY <1>1 DEF SeekTo, Good, Record
  <2>2. r.at \in Nat /\ r.pos \in Nat /\ r.limit \in Nat /\ p \in Nat
        /\ r.streamPos \in Nat
    BY <1>1, ReadableRange, Constants DEF Good, Record, Position
  <2> HIDE DEF s
  <2>3. EncodedEnd(s) = EncodedEnd(r)
    BY <2>1, <2>2, Constants DEF EncodedEnd, Least
  <2>4. r.at = r.streamPos + 1 + r.pos => s.at = s.streamPos + 1 + s.pos
    BY <2>1, <2>2
  <2>5. Still(r, s)
    BY <1>1, <2>1, <2>3, <2>4 DEF Still, Placed
  <2> QED BY <2>5 DEF s
<1>2. CASE r.kind = "frozen"
  <2>1. s.kind = r.kind /\ s.keeps = r.keeps /\ s.at = r.at
    BY <1>2 DEF SeekTo, Good, Record
  <2> QED BY <1>2, <2>1 DEF Still, Placed
<1> QED BY <1>1, <1>2

-----------------------------------------------------------------------------
(* What a method may do to the reader: it loses it only to a failed read.    *)
Settles(r, o) ==
  /\ o.rec.kind # "wrapped"
  /\ \A c : Placed(r, c) => Placed(o.rec, c)
  /\ Lost(o.rec) => Lost(r) \/ o.res = "io"

(* A method that only reads loses nothing.                                   *)
LEMMA StillSettles ==
  ASSUME NEW r, r.kind # "wrapped", NEW o, Still(r, o.rec)
  PROVE  Settles(r, o)
BY DEF Still, Settles, Lost

(* A record that lost its reader is placed anywhere.                         *)
LEMMA NoReaderPlaced ==
  ASSUME NEW r, Good(r)
  PROVE  /\ NoReader(r).kind = "none" /\ Lost(NoReader(r))
         /\ \A c : Placed(NoReader(r), c)
BY DEF NoReader, Good, Record, Lost, Placed

(* freeze() leaves the retained reader at the end of the payload.            *)
LEMMA FreezeSettles ==
  ASSUME NEW r, Good(r), r.kind # "wrapped", NEW o \in Freeze(r)
  PROVE  Settles(r, o)
<1>1. CASE r.kind = "frozen"
  <2>1. o.rec = r
    BY <1>1 DEF Freeze, Outcome
  <2> QED BY <1>1, <2>1 DEF Settles
<1>2. CASE r.kind = "orig"
  <2> DEFINE s == [r EXCEPT !.kind = "frozen", !.keeps = TRUE, !.buf = r.at,
                            !.at = @ + Readable(r), !.limit = Readable(r),
                            !.pos = 0, !.contentLength = Readable(r)]
  <2>1. o = Outcome(s, "ok") \/ o = Outcome(NoReader(r), "io")
    BY <1>2 DEF Freeze
  <2>2. s.kind = "frozen" /\ s.keeps /\ s.at = r.at + Readable(r)
    BY DEF Good, Record
  <2>3. r.at + Readable(r) = EncodedEnd(r)
    <3>1. r.at \in Nat /\ r.pos \in Nat /\ r.limit \in Nat
      BY Constants DEF Good, Record, Position
    <3> QED BY <1>2, <3>1, Constants DEF Readable, EncodedEnd, Least
  <2> HIDE DEF s
  <2>4. CASE o = Outcome(s, "ok")
    BY <1>2, <2>2, <2>3, <2>4 DEF Outcome, Settles, Placed, Lost
  <2>5. CASE o = Outcome(NoReader(r), "io")
    BY <2>5, NoReaderPlaced DEF Outcome, Settles
  <2> QED BY <2>1, <2>4, <2>5
<1>3. CASE r.kind = "none"
  <2>1. o.rec = NoReader(r)
    BY <1>3 DEF Freeze, Outcome
  <2> QED BY <1>3, <2>1, NoReaderPlaced DEF Settles, Lost
<1> QED BY <1>1, <1>2, <1>3 DEF Good, Record, ReaderKinds

(* set_bytes_payload() on a payload that was read to its end leaves the      *)
(* retained reader at the end of that payload.                               *)
LEMMA SetBytesPayloadSettles ==
  ASSUME NEW r, Good(r), r.kind = "orig", Readable(r) = 0, NEW n \in Nat
  PROVE  Settles(r, Outcome(SetBytesPayload(r, n), "ok"))
<1> DEFINE b == (r.kind = "orig")
           s == [r EXCEPT !.kind = "frozen", !.keeps = b, !.buf = N, !.limit = n,
                          !.pos = 0, !.contentLength = n]
<1>1. SetBytesPayload(r, n) = s /\ b = TRUE
  BY DEF SetBytesPayload
<1> HIDE DEF b
<1>2. s.kind = "frozen" /\ s.keeps = TRUE /\ s.at = r.at
  BY <1>1 DEF Good, Record
<1>3. EncodedEnd(r) = r.at
  <2>1. r.at \in Nat /\ r.at <= N /\ r.limit - r.pos \in Nat
    BY Constants DEF Good, Record, Position
  <2> QED BY <2>1, Constants DEF Readable, EncodedEnd, Least
<1> HIDE DEF s
<1>4. Settles(r, Outcome(s, "ok"))
  BY <1>2, <1>3 DEF Settles, Outcome, Placed, Lost
<1> QED BY <1>1, <1>4

(* A digest check freezes, or reads to the end, or leaves the record alone.  *)
LEMMA VerifyBlockDigestSettles ==
  ASSUME NEW r, Good(r), r.kind # "wrapped", NEW consume \in BOOLEAN,
         NEW o \in VerifyBlockDigest(r, consume)
  PROVE  Settles(r, o)
<1>1. CASE o.rec = r
  BY <1>1 DEF Settles
<1>2. CASE \E s \in ReadToEnd(r) : o.rec = s
  BY <1>2, ReadToEndStill, StillSettles
<1>3. CASE \E s \in Failed(r) : o.rec = s
  BY <1>3, FailedStill, StillSettles
<1>4. CASE \E f \in Freeze(r) :
        o = Outcome(f.rec, IF f.res = "ok" THEN DigestResult(f.rec)
                           ELSE IF f.res = "io" THEN "io" ELSE "invalid")
  <2>1. PICK f \in Freeze(r) :
          o = Outcome(f.rec, IF f.res = "ok" THEN DigestResult(f.rec)
                             ELSE IF f.res = "io" THEN "io" ELSE "invalid")
    BY <1>4
  <2>2. Settles(r, f)
    BY FreezeSettles
  <2>3. o.rec = f.rec /\ (f.res = "io" => o.res = "io")
    BY <2>1 DEF Outcome
  <2> QED BY <2>2, <2>3 DEF Settles
<1> QED BY <1>1, <1>2, <1>3, <1>4 DEF VerifyBlockDigest, Outcome

(* Writing reads to the end, of the frozen copy if there is a digest pass.    *)
LEMMA WriteSettles ==
  ASSUME NEW r, Good(r), r.kind # "wrapped", NEW checksum \in BOOLEAN,
         NEW o \in Write(r, checksum)
  PROVE  Settles(r, o)
<1>1. CASE r.kind = "none"
  BY <1>1 DEF Write, Unwritten, Settles
<1>2. CASE r.kind # "none" /\ checksum
  <2>1. PICK f \in Freeze(r) : o \in IF f.res = "ok" THEN Written(r, SeekTo(f.rec, 0))
                                                     ELSE {Unwritten(f.rec, f.res)}
    BY <1>2 DEF Write
  <2>2. Settles(r, f) /\ Good(f.rec)
    BY FreezeSettles, FreezeGood
  <2>3. CASE f.res = "ok"
    <3>1. f.rec.kind = "frozen"
      BY <2>3, FreezeFreezes
    <3>2. 0 \in 0 .. f.rec.pos + Readable(f.rec)
      BY <2>2, ReadableRange DEF Good, Record
    <3>3. Still(f.rec, SeekTo(f.rec, 0)) /\ Good(SeekTo(f.rec, 0))
      BY <2>2, <3>1, <3>2, SeekToStill, SeekToGood
    <3>4. o.rec \in ReadToEnd(SeekTo(f.rec, 0))
      BY <2>1, <2>3 DEF Written
    <3>5. SeekTo(f.rec, 0).kind # "wrapped"
      BY <3>1, <3>3 DEF Still
    <3>6. Still(SeekTo(f.rec, 0), o.rec)
      BY <3>3, <3>4, <3>5, ReadToEndStill
    <3> QED BY <2>2, <2>3, <3>1, <3>3, <3>6 DEF Still, Settles, Lost
  <2>4. CASE f.res # "ok"
    <3>1. o.rec = f.rec /\ o.res = f.res
      BY <2>1, <2>4 DEF Unwritten
    <3> QED BY <2>2, <3>1 DEF Settles
  <2> QED BY <2>3, <2>4
<1>3. CASE r.kind # "none" /\ ~ checksum
  <2>1. o.rec \in ReadToEnd(r) \/ o.rec \in Failed(r)
    BY <1>3 DEF Write, Written, Unwritten
  <2> QED BY <2>1, ReadToEndStill, FailedStill, StillSettles
<1> QED BY <1>1, <1>2, <1>3

(* parse_http() that decodes nothing: what is left of content_length after   *)
(* the header block ends where it did, if nothing of the payload was read.   *)
LEMMA ParseHttpStill ==
  ASSUME NEW r, Good(r), r.kind # "wrapped", NEW o \in ParseHttp(r, {}),
         r.kind = "orig" /\ ~ r.httpParsed /\ r.isHttp => r.pos = 0
  PROVE  /\ Still(r, o.rec)
         /\ o.res = "err" /\ r.kind # "none" =>
              NextCell(r) < N /\ r.isHttp /\ ~ Cell[NextCell(r)].ok
         /\ o.res \in {"ok", "err", "io"}
<1>1. CASE r.httpParsed \/ ~ r.isHttp
  BY <1>1 DEF ParseHttp, Outcome, Still
<1>2. CASE ~ (r.httpParsed \/ ~ r.isHttp) /\ r.kind = "none"
  BY <1>2 DEF ParseHttp, Outcome, Still
<1>3. CASE ~ (r.httpParsed \/ ~ r.isHttp) /\ r.kind # "none"
  <2>1. r.kind \in {"orig", "frozen"}
    BY <1>3 DEF Good, Record, ReaderKinds
  <2>2. \A n \in 0 .. Readable(r) : Still(r, HttpHeadersParsed(r, n))
    <3> TAKE n \in 0 .. Readable(r)
    <3> DEFINE s == HttpHeadersParsed(r, n)
    <3>1. CASE r.kind = "orig"
      <4>1. /\ s.kind = r.kind /\ s.keeps = r.keeps /\ s.at = r.at + n /\ s.pos = 0
            /\ s.limit = r.contentLength - n /\ s.contentLength = s.limit /\ s.httpParsed
        BY <3>1 DEF HttpHeadersParsed, Good, Record
      <4>2. r.at \in Nat /\ r.limit \in Nat /\ n \in Nat /\ r.pos = 0
        BY <1>3, <3>1, ReadableRange, Constants DEF Good, Record, Position
      <4> HIDE DEF s
      <4>3. r.contentLength = r.limit => EncodedEnd(s) = EncodedEnd(r)
        BY <4>1, <4>2, Constants DEF EncodedEnd, Least
      <4>4. Still(r, s)
        BY <3>1, <4>1, <4>3 DEF Still, Placed
      <4> QED BY <4>4 DEF s
    <3>2. CASE r.kind = "frozen"
      <4>1. s.kind = r.kind /\ s.keeps = r.keeps /\ s.at = r.at
        BY <3>2 DEF HttpHeadersParsed, Good, Record
      <4> QED BY <3>2, <4>1 DEF Still, Placed
    <3> QED BY <2>1, <3>1, <3>2
  <2>3. \A c : Applied(c, {}) = {}
    BY DEF Applied
  <2>4. \A s, c : WrapReader(s, c, {}) = Outcome(s, "ok")
    BY <2>3 DEF WrapReader
  <2>5. AtHttp(r) => 1 \in 0 .. Readable(r)
    BY ReadableRange DEF AtHttp
  <2>6. \/ AtHttp(r) /\ o = WrapReader(HttpHeadersParsed(r, 1), Cell[NextCell(r)], {})
        \/ /\ AtHttp(r) /\ ~ Cell[NextCell(r)].ok
           /\ \E s \in ReadExactly(r, 1) : o = Outcome(s, "err")
        \/ \E n \in 0 .. Readable(r) : o = Outcome(HttpHeadersParsed(r, n), "ok")
        \/ \E s \in Failed(r) : o = Outcome(s, "io")
    BY <1>3 DEF ParseHttp
  <2>7. CASE AtHttp(r) /\ o = WrapReader(HttpHeadersParsed(r, 1), Cell[NextCell(r)], {})
    BY <2>2, <2>4, <2>5, <2>7 DEF Outcome
  <2>8. CASE /\ AtHttp(r) /\ ~ Cell[NextCell(r)].ok
             /\ \E s \in ReadExactly(r, 1) : o = Outcome(s, "err")
    BY <1>3, <2>5, <2>8, ReadExactlyStill DEF Outcome, AtHttp
  <2>9. CASE \E n \in 0 .. Readable(r) : o = Outcome(HttpHeadersParsed(r, n), "ok")
    BY <2>2, <2>9 DEF Outcome
  <2>10. CASE \E s \in Failed(r) : o = Outcome(s, "io")
    BY <2>10, FailedStill DEF Outcome
  <2> QED BY <2>6, <2>7, <2>8, <2>9, <2>10
<1> QED BY <1>1, <1>2, <1>3

(* parse_http() that decodes nothing leaves the reader what it is, even when *)
(* it is called in the middle of a payload.                                  *)
LEMMA ParseHttpKeepsKind ==
  ASSUME NEW r, Good(r), r.kind # "wrapped", NEW o \in ParseHttp(r, {})
  PROVE  o.rec.kind = r.kind /\ o.rec.keeps = r.keeps
<1>1. CASE r.httpParsed \/ ~ r.isHttp \/ r.kind = "none"
  BY <1>1 DEF ParseHttp, Outcome
<1>2. CASE ~ (r.httpParsed \/ ~ r.isHttp \/ r.kind = "none")
  <2>1. r.kind \in {"orig", "frozen"}
    BY <1>2 DEF Good, Record, ReaderKinds
  <2>2. \A n : /\ HttpHeadersParsed(r, n).kind = r.kind
               /\ HttpHeadersParsed(r, n).keeps = r.keeps
    BY <2>1 DEF HttpHeadersParsed, Good, Record
  <2>3. \A c : Applied(c, {}) = {}
    BY DEF Applied
  <2>4. \A s, c : WrapReader(s, c, {}) = Outcome(s, "ok")
    BY <2>3 DEF WrapReader
  <2>5. \A n, s : s \in ReadExactly(r, n) => s.kind = r.kind /\ s.keeps = r.keeps
    BY <2>1 DEF ReadExactly, Good, Record
  <2>6. \/ o = WrapReader(HttpHeadersParsed(r, 1), Cell[NextCell(r)], {})
        \/ \E s \in ReadExactly(r, 1) : o = Outcome(s, "err")
        \/ \E n : o = Outcome(HttpHeadersParsed(r, n), "ok")
        \/ \E s \in Failed(r) : o = Outcome(s, "io")
    BY <1>2 DEF ParseHttp
  <2>7. \A s \in Failed(r) : s.kind = r.kind /\ s.keeps = r.keeps
    BY <2>5 DEF Failed
  <2> QED BY <2>2, <2>4, <2>5, <2>6, <2>7 DEF Outcome
<1> QED BY <1>1, <1>2

-----------------------------------------------------------------------------
(* A record of which nothing but the WARC header was read.                   *)
JustParsed(r) ==
  LET q == r.streamPos
  IN /\ r.kind = "orig" /\ r.pos = 0 /\ r.at = q + 1
     /\ r.limit = DeclaredLength(q)
     /\ ~ r.httpParsed /\ r.isHttp = Cell[q].http

(* A header that is parsed gives a record whose block ends where its own     *)
(* Content-Length says, unless there is none and the old one is used.        *)
LEMMA HeaderParsedPlaced ==
  ASSUME NEW r, Good(r), Unlimited(r), ~ r.httpParsed,
         NEW q \in 0 .. N - 1,
         Cell[q].hasLen \/ r.contentLength = 0
  PROVE  LET s == HeaderParsed(r, q)
         IN s.streamPos = q /\ JustParsed(s) /\ Placed(s, BlockEnd(q))
<1> DEFINE s == HeaderParsed(r, q)
<1>1. /\ s.kind = "orig" /\ s.pos = 0 /\ s.at = q + 1 /\ s.streamPos = q
      /\ s.limit = DeclaredLength(q) /\ s.contentLength = s.limit
      /\ ~ s.httpParsed /\ s.isHttp = Cell[q].http
  BY DEF HeaderParsed, Good, Record, Unlimited, DeclaredLength
<1> HIDE DEF s
<1>2. DeclaredLength(q) \in Nat
  BY CellType DEF DeclaredLength, Cells
<1>3. EncodedEnd(s) = BlockEnd(q)
  BY <1>1, <1>2, Constants DEF EncodedEnd, BlockEnd, Least
<1>4. s.streamPos = q /\ JustParsed(s) /\ Placed(s, BlockEnd(q))
  BY <1>1, <1>2, <1>3 DEF JustParsed, Placed
<1> QED BY <1>4 DEF s

(* The outcomes of the way to the next record, from a reader whose payload   *)
(* ends at c: the next header in the archive is parsed, or there is none, or *)
(* something else is there, or the stream fails.                             *)
NextFrom(c, o) ==
  /\ o.res = "ok" => \E q \in Stops(c) :
                       /\ IsHeader(q) /\ o.rec.streamPos = q
                       /\ JustParsed(o.rec) /\ Placed(o.rec, BlockEnd(q))
  /\ o.res = "err" => \E q \in Stops(c) : q < N /\ ~ IsHeader(q)
  /\ o.res = "eof" => N \in Stops(c)
  /\ o.res \in {"ok", "err", "eof", "io"}

(* The parser finds the next header from where an unlimited reader stands.    *)
LEMMA ParseWarcHeadersNext ==
  ASSUME NEW r, Good(r), Unlimited(r), ~ r.httpParsed, NEW o \in ParseWarcHeaders(r),
         r.contentLength = 0 \/ \A q \in 0 .. N - 1 : IsHeader(q) => Cell[q].hasLen
  PROVE  NextFrom(r.at, o)
<1>1. r.at \in 0 .. N
  BY DEF Good, Record, Position
<1>2. o.res = "ok" => \E q \in Stops(r.at) :
                       /\ IsHeader(q) /\ o.rec.streamPos = q
                       /\ JustParsed(o.rec) /\ Placed(o.rec, BlockEnd(q))
  <2> HAVE o.res = "ok"
  <2>1. PICK q \in Stops(r.at) : IsHeader(q) /\ o.rec = HeaderParsed(r, q)
    BY ParseWarcHeadersGood
  <2>2. q \in 0 .. N - 1
    BY <1>1, <2>1, StopsRange, Constants DEF IsHeader, Position
  <2>3. /\ o.rec.streamPos = q /\ JustParsed(o.rec) /\ Placed(o.rec, BlockEnd(q))
    BY <2>1, <2>2, HeaderParsedPlaced
  <2> QED BY <2>1, <2>3
<1>3. o.res \in {"ok", "err", "eof", "io"}
  BY DEF ParseWarcHeaders, Outcome
<1> QED BY <1>2, <1>3, ParseWarcHeadersGood DEF NextFrom

(* Before next() parses: the live reader, if there is one, stands at c.      *)
LEMMA FinishPayloadPlaced ==
  ASSUME NEW r, Good(r), NEW c, Placed(r, c), NEW o \in FinishPayload(r)
  PROVE  /\ Placed(o.rec, c) /\ o.rec.kind = r.kind /\ o.rec.keeps = r.keeps
         /\ o.res = "ok" /\ ~ Lost(o.rec) => o.rec.at = c
         /\ o.res = "err" => Lost(r)
         /\ o.res \in {"ok", "err", "io"}
<1>1. CASE r.kind # "frozen" /\ r.contentLength > 0
  <2>1. o \in Consume(r) /\ r.kind # "wrapped"
    BY <1>1 DEF FinishPayload, Placed
  <2>2. Still(r, o.rec)
    BY <2>1, ConsumeStill
  <2>3. o.res = "ok" /\ o.rec.kind = "orig" => o.rec.at = c
    BY <2>1, ConsumeStill
  <2>4. o.rec.kind # "frozen"
    BY <1>1, <2>2 DEF Still
  <2>5. o.res \in {"ok", "io", "err"} /\ (o.res = "err" => r.kind = "none")
    BY <2>1 DEF Consume, ConsumeN, Outcome
  <2> QED BY <2>2, <2>3, <2>4, <2>5 DEF Still, Lost
<1>2. CASE ~ (r.kind # "frozen" /\ r.contentLength > 0)
  <2>1. o = Outcome(r, "ok")
    BY <1>2 DEF FinishPayload
  <2>2. r.kind = "orig" => r.at = c
    <3> HAVE r.kind = "orig"
    <3>1. r.limit = 0 /\ r.pos = 0 /\ r.at \in Nat /\ r.at <= N
      BY <1>2, Constants DEF Placed, Good, Record, Position
    <3> QED BY <3>1, Constants DEF Placed, EncodedEnd, Least
  <2> QED BY <2>1, <2>2 DEF Outcome, Lost, Placed
<1> QED BY <1>1, <1>2

(* next() with a new record, from a record whose block ends at c.            *)
LEMMA FromDetachedNext ==
  ASSUME NEW r, Good(r), r.kind # "wrapped", NEW o \in FromDetached(r)
  PROVE  /\ ~ Lost(r) => NextFrom(r.at, o)
         /\ Lost(r) => o.res = "eof"
         /\ o.res # "ok" => Lost(o.rec) /\ \A c : Placed(o.rec, c)
<1>1. CASE Lost(r)
  <2>1. r.kind = "none" \/ (r.kind = "frozen" /\ ~ r.keeps)
    BY <1>1 DEF Lost, Good, Record, ReaderKinds
  <2>2. Detaches(r) = "nothing"
    BY <2>1 DEF Detaches
  <2>3. o.rec = r /\ o.res = "eof"
    BY <2>2 DEF FromDetached, Outcome
  <2>4. \A c : Placed(r, c)
    BY <2>1 DEF Placed
  <2> QED BY <1>1, <2>3, <2>4
<1>2. CASE ~ Lost(r)
  <2>1. Detaches(r) = "archive"
    BY <1>2 DEF Lost, Detaches
  <2>2. PICK p \in ParseWarcHeaders(Attached(r.at)) :
          o = IF p.res = "ok" THEN p ELSE Outcome(AfterDetach(r), p.res)
    BY <2>1 DEF FromDetached
  <2> DEFINE a == Attached(r.at)
  <2>3. /\ Good(a) /\ Unlimited(a) /\ ~ a.httpParsed /\ a.contentLength = 0 /\ a.at = r.at
    BY AttachedGood DEF Good, Record, Attached, Unlimited
  <2> HIDE DEF a
  <2>4. NextFrom(r.at, p)
    BY <2>2, <2>3, ParseWarcHeadersNext DEF a
  <2>5. Lost(AfterDetach(r)) /\ \A c : Placed(AfterDetach(r), c)
    BY <1>2, NoReaderPlaced DEF AfterDetach, Lost, Placed, Good, Record
  <2>6. o.res = p.res /\ (p.res = "ok" => o = p)
        /\ (p.res # "ok" => o.rec = AfterDetach(r))
    BY <2>2 DEF Outcome
  <2> QED BY <1>2, <2>4, <2>5, <2>6 DEF NextFrom
<1> QED BY <1>1, <1>2

(* next() with a new record, whatever state the old one is in.                *)
LEMMA NextFreshNext ==
  ASSUME NEW r, Good(r), NEW o \in NextFresh(r),
         NEW c, Placed(r, c) \/ (r = Attached(0) /\ c = 0)
  PROVE  /\ NextFrom(c, o) \/ (Lost(r) /\ o.res \in {"err", "eof"})
         /\ o.res # "ok" => Placed(o.rec, c) /\ (Lost(o.rec) \/ o.res = "io")
<1>1. PICK f \in FinishPayload(r) : o \in IF f.res = "ok" THEN FromDetached(f.rec) ELSE {f}
  BY DEF NextFresh
<1>2. Good(f.rec)
  BY FinishPayloadGood
<1>3. CASE Placed(r, c)
  <2>1. /\ Placed(f.rec, c) /\ f.rec.kind = r.kind /\ f.rec.keeps = r.keeps
        /\ f.res = "ok" /\ ~ Lost(f.rec) => f.rec.at = c
        /\ f.res = "err" => Lost(r)
        /\ f.res \in {"ok", "err", "io"}
    BY <1>3, FinishPayloadPlaced
  <2>2. Lost(f.rec) = Lost(r)
    BY <2>1 DEF Lost
  <2>3. CASE f.res = "ok"
    <3>1. o \in FromDetached(f.rec) /\ f.rec.kind # "wrapped"
      BY <1>1, <2>1, <2>3 DEF Placed
    <3>2. /\ ~ Lost(f.rec) => NextFrom(f.rec.at, o)
          /\ Lost(f.rec) => o.res = "eof"
          /\ o.res # "ok" => Lost(o.rec) /\ \A d : Placed(o.rec, d)
      BY <1>2, <3>1, FromDetachedNext
    <3> QED BY <2>1, <2>2, <2>3, <3>2
  <2>4. CASE f.res # "ok"
    <3>1. o = f
      BY <1>1, <2>4
    <3>2. NextFrom(c, f) \/ (Lost(r) /\ f.res = "err")
      BY <2>1, <2>4 DEF NextFrom
    <3> QED BY <2>1, <2>2, <2>4, <3>1, <3>2
  <2> QED BY <2>3, <2>4
<1>4. CASE r = Attached(0) /\ c = 0
  <2>1. r.kind = "orig" /\ r.contentLength = 0 /\ r.at = 0
    BY <1>4 DEF Attached
  <2>2. f = Outcome(r, "ok") /\ ~ Lost(r)
    BY <2>1 DEF FinishPayload, Lost
  <2>3. o \in FromDetached(r)
    BY <1>1, <2>2 DEF Outcome
  <2>4. /\ ~ Lost(r) => NextFrom(r.at, o)
        /\ o.res # "ok" => Lost(o.rec) /\ \A d : Placed(o.rec, d)
    BY <2>1, <2>3, FromDetachedNext
  <2> QED BY <1>4, <2>1, <2>2, <2>4
<1> QED BY <1>3, <1>4

(* next() with the same record; after anything but "ok" it is not used.      *)
LEMMA NextInplaceNext ==
  ASSUME NEW r, Good(r), r.kind = "orig", NEW o \in NextInplace(r),
         \A q \in 0 .. N - 1 : IsHeader(q) => Cell[q].hasLen,
         NEW c, Placed(r, c) \/ (r = Attached(0) /\ c = 0)
  PROVE  NextFrom(c, o) /\ o.rec.kind = "orig"
<1>1. PICK f \in FinishPayload(r) : o \in IF f.res = "ok" THEN ParseInplace(f.rec) ELSE {f}
  BY DEF NextInplace
<1>2. Good(f.rec)
  BY FinishPayloadGood
<1>3. /\ f.rec.kind = "orig"
      /\ f.res = "ok" => f.rec.at = c
      /\ f.res \in {"ok", "io"}
  <2>1. CASE Placed(r, c)
    <3>1. /\ f.rec.kind = r.kind
          /\ f.res = "ok" /\ ~ Lost(f.rec) => f.rec.at = c
          /\ f.res = "err" => Lost(r)
          /\ f.res \in {"ok", "err", "io"}
      BY <2>1, FinishPayloadPlaced
    <3>2. ~ Lost(r) /\ ~ Lost(f.rec)
      BY <3>1 DEF Lost
    <3> QED BY <3>1, <3>2
  <2>2. CASE r = Attached(0) /\ c = 0
    BY <2>2 DEF FinishPayload, Attached, Outcome
  <2> QED BY <2>1, <2>2
<1>4. CASE f.res = "io"
  BY <1>1, <1>3, <1>4 DEF NextFrom
<1>5. CASE f.res = "ok"
  <2> DEFINE t == f.rec
             u == Cleared([t EXCEPT !.limit = MaxLimit, !.pos = t.at])
  <2>1. o \in ParseWarcHeaders(u)
    BY <1>1, <1>3, <1>5 DEF ParseInplace
  <2>2. /\ Good(u) /\ Unlimited(u) /\ ~ u.httpParsed /\ u.at = t.at
    BY <1>2, <1>3, ClearedUnlimited
  <2> HIDE DEF u
  <2>3. NextFrom(u.at, o)
    BY <2>1, <2>2, ParseWarcHeadersNext
  <2>4. o.res # "ok" => o.rec.kind = "orig"
    BY <2>1, <2>2, ParseWarcHeadersGood DEF Unlimited
  <2>5. o.res = "ok" => o.rec.kind = "orig"
    BY <2>3 DEF NextFrom, JustParsed
  <2> QED BY <1>3, <1>5, <2>2, <2>3, <2>4, <2>5
<1> QED BY <1>3, <1>4, <1>5

-----------------------------------------------------------------------------
(* The digest of a record of which only the header was read is valid if and  *)
(* only if it matches and the block is complete, or the stream failed; a     *)
(* valid record can have its HTTP headers parsed from the frozen copy.       *)
LEMMA DigestDecides ==
  ASSUME NEW r, Good(r), JustParsed(r), r.streamPos \in 0 .. N - 1,
         NEW o \in VerifyBlockDigest(r, FALSE)
  PROVE  LET q == r.streamPos
             complete == q + 1 + DeclaredLength(q) <= N
         IN /\ o.res = "valid" =>
                 /\ Cell[q].digest = "match" /\ complete
                 /\ o.rec.kind = "frozen" /\ NextCell(o.rec) = q + 1
                 /\ o.rec.isHttp = r.isHttp
            /\ o.res # "valid" =>
                 Cell[q].digest # "match" \/ ~ complete \/ o.res = "io"
<1> DEFINE q == r.streamPos
           n == Readable(r)
           s == [r EXCEPT !.kind = "frozen", !.keeps = TRUE, !.buf = r.at,
                          !.at = @ + n, !.limit = n, !.pos = 0, !.contentLength = n]
<1>1. /\ r.kind = "orig" /\ r.pos = 0 /\ r.at = q + 1
      /\ r.limit = DeclaredLength(q) /\ ~ r.httpParsed
      /\ r.limit \in Nat /\ q \in Nat
  BY DEF JustParsed, Good, Record
<1>2. n = Least(DeclaredLength(q), N - (q + 1))
  BY <1>1 DEF Readable
<1>3. /\ s.kind = "frozen" /\ s.buf = q + 1 /\ s.pos = 0 /\ s.limit = n
      /\ s.isHttp = r.isHttp /\ s.streamPos = q /\ ~ s.httpParsed
  BY <1>1 DEF Good, Record
<1>4. \/ Cell[q].digest = "missing" /\ o = Outcome(r, "invalid")
      \/ Cell[q].digest # "missing" /\ o = Outcome(s, DigestResult(s))
      \/ o = Outcome(NoReader(r), "io")
  BY <1>1 DEF VerifyBlockDigest, Freeze, Outcome
<1> HIDE DEF s, n
<1>5. WholeBlock(s) <=> q + 1 + DeclaredLength(q) <= N
  <2>1. NextCell(s) = q + 1 /\ Readable(s) = n
    BY <1>1, <1>2, <1>3, Constants DEF NextCell, Readable, Least
  <2> QED BY <1>1, <1>2, <1>3, <2>1, Constants DEF WholeBlock, Least
<1>6. NextCell(s) = q + 1
  BY <1>1, <1>3 DEF NextCell
<1>7. CASE Cell[q].digest = "missing" /\ o = Outcome(r, "invalid")
  BY <1>7 DEF Outcome
<1>8. CASE Cell[q].digest # "missing" /\ o = Outcome(s, DigestResult(s))
  BY <1>3, <1>5, <1>6, <1>8 DEF Outcome, DigestResult
<1>9. CASE o = Outcome(NoReader(r), "io")
  BY <1>9 DEF Outcome
<1> QED BY <1>4, <1>7, <1>8, <1>9
-----------------------------------------------------------------------------
(* What the counters of a record that was taken say: the limit of a payload  *)
(* that is not decoded is the content_length, its beginning lies behind the  *)
(* header, and a decoded payload is not longer than content_length.          *)
Measured(r) ==
  /\ IsHeader(r.streamPos)
  /\ r.kind \in {"orig", "frozen"} => r.limit = r.contentLength
  /\ r.kind = "orig" => r.streamPos < r.at - r.pos
  /\ r.kind = "orig" /\ ~ r.httpParsed => r.contentLength = DeclaredLength(r.streamPos)
  /\ r.kind = "frozen" => r.streamPos < r.buf
  /\ r.kind = "wrapped" => r.left <= r.contentLength

(* s is r after some of its payload was read, or rewound.                     *)
Reads(r, s) ==
  /\ s.kind = r.kind /\ s.limit = r.limit /\ s.contentLength = r.contentLength
  /\ s.streamPos = r.streamPos /\ s.buf = r.buf /\ s.wraps = r.wraps
  /\ s.isHttp = r.isHttp /\ s.httpParsed = r.httpParsed
  /\ r.kind = "orig" => s.at - s.pos = r.at - r.pos
  /\ s.left <= r.left

(* Reading does not change what was counted.                                  *)
LEMMA ReadsMeasured ==
  ASSUME NEW r, Good(r), Measured(r), NEW s, Good(s), Reads(r, s)
  PROVE  Measured(s)
BY Constants DEF Good, Record, Position, Measured, Reads

(* Reading cells that are there only moves on.                                *)
LEMMA ReadExactlyReads ==
  ASSUME NEW r, Good(r), NEW n \in 0 .. Readable(r), NEW s \in ReadExactly(r, n)
  PROVE  Reads(r, s)
<1>0. n \in Nat  BY ReadableRange
<1>1. CASE r.kind = "orig"
  <2>1. s = [r EXCEPT !.at = @ + n, !.pos = @ + n]
    BY <1>1 DEF ReadExactly
  <2> QED BY <1>0, <2>1, Constants DEF Good, Record, Position, Reads
<1>2. CASE r.kind = "frozen"
  BY <1>2 DEF Good, Record, ReadExactly, Reads
<1>3. CASE r.kind = "wrapped"
  <2>1. PICK a \in r.at .. EncodedEnd(r) :
           s = [r EXCEPT !.left = @ - n, !.at = a, !.pos = @ + (a - r.at)]
    BY <1>3 DEF ReadExactly, Decoded
  <2> QED BY <1>0, <1>3, <2>1 DEF Good, Record, Reads
<1>4. CASE r.kind = "none"
  BY <1>4 DEF ReadExactly, Good, Record, Reads
<1> QED BY <1>1, <1>2, <1>3, <1>4 DEF Good, Record, ReaderKinds

(* So does reading to the end, after which nothing can be read.               *)
LEMMA ReadToEndReads ==
  ASSUME NEW r, Good(r), NEW s \in ReadToEnd(r)
  PROVE  Reads(r, s) /\ Readable(s) = 0
<1>1. CASE r.kind = "wrapped"
  <2>1. s = [r EXCEPT !.left = @ - r.left, !.at = EncodedEnd(r),
                      !.pos = @ + (EncodedEnd(r) - r.at)]
    BY <1>1 DEF ReadToEnd, Decoded
  <2>2. s.left = 0  BY <2>1 DEF Good, Record
  <2> QED BY <1>1, <2>1, <2>2 DEF Good, Record, Reads, Readable
<1>2. CASE r.kind = "orig"
  <2>1. s = [r EXCEPT !.at = @ + Readable(r), !.pos = @ + Readable(r)]
    BY <1>2 DEF ReadToEnd, ReadExactly
  <2>2. /\ s.kind = "orig" /\ s.limit = r.limit
        /\ s.at = r.at + Readable(r) /\ s.pos = r.pos + Readable(r)
    BY <1>2, <2>1 DEF Good, Record
  <2>3. Readable(s) = 0
    BY <1>2, <2>2, Constants DEF Good, Record, Position, Readable, Least
  <2> QED BY <1>2, <2>3, ReadExactlyReads, ReadableRange DEF ReadToEnd
<1>3. CASE r.kind = "frozen"
  <2>1. s = [r EXCEPT !.pos = @ + Readable(r)]
    BY <1>3 DEF ReadToEnd, ReadExactly
  <2>2. Readable(s) = 0
    BY <1>3, <2>1 DEF Good, Record, Readable
  <2> QED BY <1>3, <2>2, ReadExactlyReads, ReadableRange DEF ReadToEnd
<1>4. CASE r.kind = "none"
  BY <1>4 DEF ReadToEnd, ReadExactly, Readable, Reads, Good, Record
<1> QED BY <1>1, <1>2, <1>3, <1>4 DEF Good, Record, ReaderKinds

(* So does read(): a read of as much as there is reads everything.            *)
LEMMA ReadUpToReads ==
  ASSUME NEW r, Good(r), NEW n \in Nat, NEW s \in ReadUpTo(r, n)
  PROVE  Reads(r, s) /\ (Readable(r) < n => Readable(s) = 0)
BY ReadExactlyReads, ReadToEndReads, ReadableRange DEF ReadUpTo

(* So does a read that fails on the way.                                      *)
LEMMA FailedReads ==
  ASSUME NEW r, Good(r), NEW s \in Failed(r)
  PROVE  Reads(r, s)
BY ReadExactlyReads DEF Failed

(* Reading exactly what is there leaves nothing.                              *)
LEMMA ReadAllLeavesNothing ==
  ASSUME NEW r, Good(r), NEW s \in ReadExactly(r, Readable(r))
  PROVE  Readable(s) = 0
<1>1. CASE r.kind = "wrapped"
  <2>1. PICK a \in r.at .. EncodedEnd(r) :
           s = [r EXCEPT !.left = @ - Readable(r), !.at = a, !.pos = @ + (a - r.at)]
    BY <1>1 DEF ReadExactly, Decoded
  <2>2. s.left = 0 /\ s.kind = "wrapped"  BY <1>1, <2>1 DEF Good, Record, Readable
  <2> QED BY <2>2 DEF Readable
<1>2. CASE r.kind # "wrapped"
  BY <1>2, ReadToEndReads DEF ReadToEnd
<1> QED BY <1>1, <1>2

(* consume() reads, and of a record whose counters are right it leaves        *)
(* nothing, unless the stream fails.                                          *)
LEMMA ConsumeReads ==
  ASSUME NEW r, Good(r), NEW o \in Consume(r)
  PROVE  Reads(r, o.rec) /\ (Measured(r) /\ o.res # "io" => Readable(o.rec) = 0)
<1> DEFINE n == r.contentLength
<1>1. n \in Nat /\ o \in ConsumeN(r, n)
  BY DEF Consume, Good, Record
<1>2. Reads(r, r)
  BY DEF Reads, Good, Record
<1>3. Measured(r) => Readable(r) <= n
  <2>1. /\ r.pos \in Nat /\ r.limit \in Nat /\ r.left \in Nat /\ Readable(r) \in Nat
        /\ r.kind \in ReaderKinds
    BY ReadableRange DEF Good, Record
  <2> QED BY <1>1, <2>1, ReadableRange DEF Measured, Readable, ReaderKinds
<1>4. CASE n = 0 \/ r.kind = "none"
  <2>1. o.rec = r /\ (Measured(r) => Readable(r) = 0)
    <3>1. o = Outcome(r, "ok") \/ o = Outcome(r, "err")
      BY <1>1, <1>4 DEF ConsumeN
    <3>2. CASE n = 0
      BY <1>3, <3>1, <3>2, ReadableRange DEF Outcome
    <3>3. CASE r.kind = "none"
      BY <3>1, <3>3 DEF Outcome, Readable
    <3> QED BY <1>4, <3>2, <3>3
  <2> QED BY <1>2, <2>1
<1>5. CASE ~ (n = 0 \/ r.kind = "none")
  <2>1. \/ \E s \in ReadUpTo(r, n) : o = Outcome(s, "ok")
        \/ \E s \in Failed(r) : o = Outcome(s, "io")
    BY <1>1, <1>5 DEF ConsumeN
  <2>2. CASE \E s \in Failed(r) : o = Outcome(s, "io")
    BY <2>2, FailedReads DEF Outcome
  <2>3. CASE \E s \in ReadUpTo(r, n) : o = Outcome(s, "ok")
    <3>1. PICK s \in ReadUpTo(r, n) : o = Outcome(s, "ok")
      BY <2>3
    <3>2. Readable(r) = n => s \in ReadExactly(r, Readable(r))
      BY <1>1, <3>1 DEF ReadUpTo
    <3>3. Measured(r) => Readable(s) = 0
      BY <1>1, <1>3, <3>1, <3>2, ReadUpToReads, ReadAllLeavesNothing, ReadableRange
    <3> QED BY <1>1, <3>1, <3>3, ReadUpToReads DEF Outcome
  <2> QED BY <2>1, <2>2, <2>3
<1> QED BY <1>4, <1>5

(* A seek only moves.                                                         *)
LEMMA SeekToReads ==
  ASSUME NEW r, Good(r), r.kind \in {"orig", "frozen"},
         NEW p \in 0 .. r.pos + Readable(r)
  PROVE  Reads(r, SeekTo(r, p))
<1>1. p \in Nat  BY ReadableRange DEF Good, Record
<1>2. CASE r.kind = "orig"
  <2> DEFINE s == SeekTo(r, p)
  <2>1. s = [r EXCEPT !.at = @ + (p - r.pos), !.pos = p]  BY <1>2 DEF SeekTo
  <2>2. s.at = r.at + (p - r.pos) /\ s.pos = p  BY <2>1 DEF Good, Record
  <2>3. s.at - s.pos = r.at - r.pos
    <3>1. r.at \in Nat /\ r.pos \in Nat  BY Constants DEF Good, Record, Position
    <3> HIDE DEF s
    <3> QED BY <1>1, <2>2, <3>1
  <2> QED BY <1>2, <2>1, <2>3 DEF Good, Record, Reads
<1>3. CASE r.kind = "frozen"
  BY <1>3 DEF SeekTo, Good, Record, Reads
<1> QED BY <1>2, <1>3
(* freeze() counts what it copies.                                            *)
LEMMA FreezeMeasured ==
  ASSUME NEW r, Good(r), Measured(r), NEW o \in Freeze(r)
  PROVE  /\ Measured(o.rec)
         /\ o.res = "ok" /\ Readable(r) = r.limit => o.rec.limit = r.limit
<1>1. CASE r.kind = "frozen"
  BY <1>1 DEF Freeze, Outcome
<1>2. CASE r.kind = "orig"
  <2> DEFINE n == Readable(r)
             s == [r EXCEPT !.kind = "frozen", !.keeps = TRUE, !.buf = r.at,
                            !.at = @ + n, !.limit = n, !.pos = 0, !.contentLength = n]
  <2>1. o = Outcome(s, "ok") \/ o = Outcome(NoReader(r), "io")
    BY <1>2 DEF Freeze
  <2>2. /\ s.kind = "frozen" /\ s.limit = n /\ s.contentLength = n /\ s.buf = r.at
        /\ s.streamPos = r.streamPos
    BY DEF Good, Record
  <2>3. r.streamPos < r.at
    BY <1>2, Constants DEF Good, Record, Position, Measured
  <2>4. NoReader(r).kind = "none" /\ NoReader(r).streamPos = r.streamPos
    BY DEF NoReader, Good, Record
  <2> HIDE DEF s, n
  <2>5. Measured(s) /\ Measured(NoReader(r))
    BY <2>2, <2>3, <2>4 DEF Measured
  <2> QED BY <2>1, <2>2, <2>5 DEF Outcome, n
<1>3. CASE r.kind \notin {"frozen", "orig"}
  <2>1. o = Outcome(NoReader(r), "err")  BY <1>3 DEF Freeze
  <2>2. NoReader(r).kind = "none" /\ NoReader(r).streamPos = r.streamPos
    BY DEF NoReader, Good, Record
  <2> QED BY <2>1, <2>2 DEF Outcome, Measured
<1> QED BY <1>1, <1>2, <1>3

(* set_bytes_payload() counts what it is given.                               *)
LEMMA SetBytesPayloadMeasured ==
  ASSUME NEW r, Good(r), Measured(r), NEW n \in Nat
  PROVE  Measured(SetBytesPayload(r, n))
<1> DEFINE b == (r.kind = "orig")
           s == [r EXCEPT !.kind = "frozen", !.keeps = b, !.buf = N, !.limit = n,
                          !.pos = 0, !.contentLength = n]
<1>1. SetBytesPayload(r, n) = s
  BY DEF SetBytesPayload
<1>2. /\ s.kind = "frozen" /\ s.limit = n /\ s.contentLength = n /\ s.buf = N
      /\ s.streamPos = r.streamPos
  BY DEF Good, Record
<1> HIDE DEF s
<1> QED BY <1>1, <1>2 DEF Measured, IsHeader

(* The HTTP headers are cut off the limit and off content_length, if none of  *)
(* the payload was read.                                                      *)
LEMMA HttpHeadersParsedMeasured ==
  ASSUME NEW r, Good(r), Measured(r), r.kind \in {"orig", "frozen"},
         NextCell(r) = r.streamPos + 1, NEW n \in 0 .. Readable(r)
  PROVE  LET s == HttpHeadersParsed(r, n)
         IN  /\ Measured(s) /\ s.kind = r.kind /\ s.httpParsed
             /\ s.contentLength = r.contentLength - n
<1>0. n \in Nat /\ Readable(r) \in Nat  BY ReadableRange
<1>1. CASE r.kind = "frozen"
  <2> DEFINE rest == r.contentLength - n
             lim == Least(rest, Readable(r) - n)
             s == [r EXCEPT !.buf = @ + r.pos + n, !.contentLength = rest,
                            !.limit = lim, !.pos = 0,
                            !.httpParsed = TRUE, !.httpLen = n]
  <2>1. HttpHeadersParsed(r, n) = s
    BY <1>1 DEF HttpHeadersParsed
  <2>2. r.pos = 0 /\ Readable(r) = r.limit
    BY <1>1, Constants DEF Good, Record, Position, Measured, NextCell, Readable
  <2>3. lim = rest
    BY <1>0, <1>1, <2>2 DEF Measured, Least, Good, Record
  <2>4. /\ s.kind = "frozen" /\ s.limit = lim /\ s.contentLength = rest
        /\ s.buf = r.buf + r.pos + n /\ s.streamPos = r.streamPos /\ s.httpParsed
    BY <1>1 DEF Good, Record
  <2>5. r.streamPos < r.buf + r.pos + n
    BY <1>0, <1>1, Constants DEF Good, Record, Position, Measured
  <2> HIDE DEF s, lim
  <2>6. Measured(s)
    BY <2>3, <2>4, <2>5 DEF Measured
  <2> QED BY <1>1, <2>1, <2>4, <2>6
<1>2. CASE r.kind = "orig"
  <2> DEFINE rest == r.contentLength - n
             s == [r EXCEPT !.at = @ + n, !.contentLength = rest, !.limit = rest,
                            !.pos = 0, !.httpParsed = TRUE, !.httpLen = n]
  <2>1. HttpHeadersParsed(r, n) = s
    BY <1>2 DEF HttpHeadersParsed
  <2>2. /\ s.kind = "orig" /\ s.limit = rest /\ s.contentLength = rest
        /\ s.at = r.at + n /\ s.pos = 0 /\ s.streamPos = r.streamPos /\ s.httpParsed
    BY <1>2 DEF Good, Record
  <2>3. r.streamPos < r.at + n
    BY <1>0, <1>2, Constants DEF Good, Record, Position, NextCell
  <2>4. s.streamPos < s.at - s.pos
    BY <1>0, <1>2, <2>2, <2>3, Constants DEF Good, Record, Position
  <2> HIDE DEF s
  <2>5. Measured(s)
    BY <2>2, <2>4 DEF Measured
  <2> QED BY <1>2, <2>1, <2>2, <2>5
<1> QED BY <1>1, <1>2
(* Decoders are put on a payload that they do not make longer.                *)
LEMMA WrapReaderMeasured ==
  ASSUME NEW r, Good(r), Measured(r), NEW c \in Cells, NEW decode,
         decode # {} /\ r.kind # "frozen" => c.dec <= r.contentLength
  PROVE  Measured(WrapReader(r, c, decode).rec)
<1> DEFINE o == WrapReader(r, c, decode)
           frozen == [r EXCEPT !.limit = c.dec, !.pos = 0, !.buf = N, !.contentLength = c.dec]
           wrapped(w) == [r EXCEPT !.kind = "wrapped", !.left = c.dec, !.wraps = w]
<1>1. \/ o = Outcome(r, "ok")
      \/ o = Outcome(NoReader(r), "err")
      \/ r.kind = "frozen" /\ o = Outcome(frozen, "ok")
      \/ decode # {} /\ r.kind # "frozen" /\ \E w \in {1, 2} : o = Outcome(wrapped(w), "ok")
  BY DEF WrapReader, Applied
<1>2. NoReader(r).kind = "none" /\ NoReader(r).streamPos = r.streamPos
  BY DEF NoReader, Good, Record
<1>3. r.kind = "frozen" => Measured(frozen)
  <2>1. /\ frozen.limit = c.dec /\ frozen.contentLength = c.dec /\ frozen.buf = N
        /\ frozen.kind = r.kind /\ frozen.streamPos = r.streamPos
    BY DEF Good, Record
  <2> HIDE DEF frozen
  <2> QED BY <2>1 DEF Measured, IsHeader
<1>4. ASSUME decode # {}, r.kind # "frozen", NEW w \in {1, 2}
      PROVE  Measured(wrapped(w))
  <2>1. /\ wrapped(w).kind = "wrapped" /\ wrapped(w).left = c.dec
        /\ wrapped(w).contentLength = r.contentLength /\ wrapped(w).streamPos = r.streamPos
    BY DEF Good, Record
  <2> HIDE DEF wrapped
  <2> QED BY <1>4, <2>1 DEF Measured
<1> HIDE DEF frozen, wrapped
<1> QED BY <1>1, <1>2, <1>3, <1>4 DEF Outcome, Measured

(* No HTTP body grows when it is decoded.                                     *)
Shrinks ==
  \A q \in 0 .. N - 1 :
    IsHeader(q) /\ DeclaredLength(q) > 0 /\ q + 1 < N /\ Cell[q + 1].kind = "http" =>
      Cell[q + 1].dec < DeclaredLength(q)

(* parse_http() of a payload of which nothing was read.                       *)
LEMMA ParseHttpMeasured ==
  ASSUME NEW r, Good(r), Measured(r), NEW decode, NEW o \in ParseHttp(r, decode),
         r.streamPos \in 0 .. N - 1,
         r.isHttp /\ ~ r.httpParsed => NextCell(r) = r.streamPos + 1,
         decode # {} => Shrinks
  PROVE  Measured(o.rec)
<1>1. CASE r.httpParsed \/ ~ r.isHttp
  BY <1>1 DEF ParseHttp, Outcome
<1>2. CASE ~ (r.httpParsed \/ ~ r.isHttp) /\ r.kind = "none"
  BY <1>2 DEF ParseHttp, Outcome
<1>3. CASE ~ (r.httpParsed \/ ~ r.isHttp) /\ r.kind # "none"
  <2>0. r.kind \in {"orig", "frozen"} /\ NextCell(r) = r.streamPos + 1
    BY <1>3 DEF Good, Record, ReaderKinds
  <2>1. \A n \in 0 .. Readable(r) :
          LET s == HttpHeadersParsed(r, n)
          IN  /\ Good(s) /\ Measured(s) /\ s.kind = r.kind
              /\ s.contentLength = r.contentLength - n
    BY <1>3, <2>0, HttpHeadersParsedMeasured, HttpHeadersParsedGood
  <2>3. \/ AtHttp(r) /\ o = WrapReader(HttpHeadersParsed(r, 1), Cell[NextCell(r)], decode)
        \/ AtHttp(r) /\ \E s \in ReadExactly(r, 1) : o = Outcome(s, "err")
        \/ \E n \in 0 .. Readable(r) : o = Outcome(HttpHeadersParsed(r, n), "ok")
        \/ \E s \in Failed(r) : o = Outcome(s, "io")
    BY <1>3 DEF ParseHttp
  <2>4. AtHttp(r) => /\ 1 \in 0 .. Readable(r) /\ r.streamPos + 1 < N
                     /\ Cell[NextCell(r)] \in Cells /\ Cell[NextCell(r)].kind = "http"
    BY <2>0, CellType, ReadableRange, Constants DEF AtHttp
  <2>5. CASE AtHttp(r) /\ o = WrapReader(HttpHeadersParsed(r, 1), Cell[NextCell(r)], decode)
    <3> DEFINE s == HttpHeadersParsed(r, 1)
               c == Cell[NextCell(r)]
    <3>1. Good(s) /\ Measured(s) /\ s.kind = r.kind /\ s.contentLength = r.contentLength - 1
      BY <2>1, <2>4, <2>5
    <3>2. decode # {} /\ s.kind # "frozen" => c.dec <= s.contentLength
      <4> SUFFICES ASSUME decode # {}, s.kind # "frozen"  PROVE c.dec <= s.contentLength
        OBVIOUS
      <4>1. r.kind = "orig"  BY <2>0, <3>1
      <4>2. r.contentLength = DeclaredLength(r.streamPos)  BY <1>3, <4>1 DEF Measured
      <4>3. DeclaredLength(r.streamPos) > 0
        <5>1. Readable(r) \in Nat /\ 1 <= Readable(r) /\ Readable(r) <= r.limit - r.pos
          BY <2>4, <2>5, <4>1, ReadableRange
        <5>2. r.limit = r.contentLength /\ r.limit \in Nat /\ r.pos \in Nat
          BY <4>1 DEF Measured, Good, Record
        <5> QED BY <4>2, <5>1, <5>2
      <4>4. c.dec < DeclaredLength(r.streamPos)
        BY <2>0, <2>4, <2>5, <4>3 DEF Measured, Shrinks
      <4>5. c.dec \in Nat /\ r.contentLength \in Nat  BY <2>4, <2>5 DEF Cells, Good, Record
      <4> HIDE DEF s, c
      <4> QED BY <3>1, <4>2, <4>4, <4>5
    <3> HIDE DEF s
    <3> QED BY <2>4, <2>5, <3>1, <3>2, WrapReaderMeasured DEF s
  <2>6. CASE AtHttp(r) /\ \E s \in ReadExactly(r, 1) : o = Outcome(s, "err")
    BY <2>4, <2>6, ReadExactlyReads, ReadExactlyGood, ReadsMeasured DEF Outcome
  <2>7. CASE \E n \in 0 .. Readable(r) : o = Outcome(HttpHeadersParsed(r, n), "ok")
    BY <2>1, <2>7 DEF Outcome
  <2>8. CASE \E s \in Failed(r) : o = Outcome(s, "io")
    BY <2>8, FailedReads, FailedGood, ReadsMeasured DEF Outcome
  <2> QED BY <2>3, <2>5, <2>6, <2>7, <2>8
<1> QED BY <1>1, <1>2, <1>3

(* verify_block_digest() reads, or freezes.                                   *)
LEMMA VerifyBlockDigestMeasured ==
  ASSUME NEW r, Good(r), Measured(r), NEW consume \in BOOLEAN,
         NEW o \in VerifyBlockDigest(r, consume)
  PROVE  Measured(o.rec)
<1>1. \/ o.rec = r
      \/ o.rec \in ReadToEnd(r)
      \/ o.rec \in Failed(r)
      \/ \E f \in Freeze(r) : o.rec = f.rec
  BY DEF VerifyBlockDigest, Outcome
<1> QED BY <1>1, ReadToEndReads, ReadToEndGood, FailedReads, FailedGood, ReadsMeasured,
          FreezeMeasured

(* write() reads, or freezes, rewinds and reads; of a payload of which        *)
(* nothing was read it writes content_length cells.                           *)
LEMMA WriteMeasured ==
  ASSUME NEW r, Good(r), Measured(r), NEW checksum \in BOOLEAN, NEW o \in Write(r, checksum)
  PROVE  /\ Measured(o.rec)
         /\ o.res = "ok" /\ r.kind \in {"orig", "frozen"} /\ Readable(r) = r.limit =>
              o.body = WrittenLength(r)
<1>1. CASE r.kind = "none"
  BY <1>1 DEF Write, Unwritten
<1>2. CASE r.kind # "none" /\ checksum
  <2>1. PICK f \in Freeze(r) : o \in IF f.res = "ok" THEN Written(r, SeekTo(f.rec, 0))
                                                     ELSE {Unwritten(f.rec, f.res)}
    BY <1>2 DEF Write
  <2>2. Good(f.rec) /\ Measured(f.rec)  BY FreezeGood, FreezeMeasured
  <2>3. CASE f.res # "ok"
    BY <2>1, <2>2, <2>3 DEF Unwritten
  <2>4. CASE f.res = "ok"
    <3> DEFINE w == SeekTo(f.rec, 0)
    <3>1. f.rec.kind = "frozen"  BY <2>4, FreezeFreezes
    <3>2. 0 \in 0 .. f.rec.pos + Readable(f.rec)  BY <2>2, ReadableRange DEF Good, Record
    <3>3. Good(w) /\ Reads(f.rec, w)  BY <2>2, <3>1, <3>2, SeekToGood, SeekToReads
    <3>4. Measured(w)  BY <2>2, <3>3, ReadsMeasured
    <3>5. w.pos = 0 /\ w.kind = "frozen" /\ w.limit = f.rec.limit
      BY <2>2, <3>1, <3>3 DEF SeekTo, Good, Record, Reads
    <3>6. Readable(w) = f.rec.limit
      BY <2>2, <3>5 DEF Readable, Good, Record
    <3> HIDE DEF w
    <3>7. \E s \in ReadToEnd(w) : o = [rec |-> s, res |-> "ok", body |-> r.httpLen + Readable(w)]
      BY <2>1, <2>4 DEF Written, w
    <3>8. Measured(o.rec)  BY <3>3, <3>4, <3>7, ReadToEndGood, ReadToEndReads, ReadsMeasured
    <3>9. ASSUME r.kind \in {"orig", "frozen"}, Readable(r) = r.limit
          PROVE  o.body = WrittenLength(r)
      <4>1. f.rec.limit = r.contentLength  BY <2>4, <3>9, FreezeMeasured DEF Measured
      <4> QED BY <3>6, <3>7, <4>1 DEF WrittenLength, Good, Record
    <3> QED BY <3>8, <3>9
  <2> QED BY <2>3, <2>4
<1>3. CASE r.kind # "none" /\ ~ checksum
  <2>1. \/ \E s \in ReadToEnd(r) : o = [rec |-> s, res |-> "ok", body |-> r.httpLen + Readable(r)]
        \/ \E s \in Failed(r) : o = Unwritten(s, "io")
    BY <1>3 DEF Write, Written
  <2>2. CASE \E s \in Failed(r) : o = Unwritten(s, "io")
    BY <2>2, FailedGood, FailedReads, ReadsMeasured DEF Unwritten
  <2>3. CASE \E s \in ReadToEnd(r) :
               o = [rec |-> s, res |-> "ok", body |-> r.httpLen + Readable(r)]
    <3>1. Measured(o.rec)  BY <2>3, ReadToEndGood, ReadToEndReads, ReadsMeasured
    <3>2. o.body = r.httpLen + Readable(r)  BY <2>3
    <3>3. r.kind \in {"orig", "frozen"} /\ Readable(r) = r.limit => o.body = WrittenLength(r)
      BY <3>2 DEF WrittenLength, Measured, Good, Record
    <3> QED BY <3>1, <3>3
  <2> QED BY <2>1, <2>2, <2>3
<1> QED BY <1>1, <1>2, <1>3
(* next() with a new record: the counters of the new one are right, and those *)
(* of the old one stay so.  A record that was never taken is attached to the  *)
(* stream, or has lost it.                                                    *)
Unmeasured(r) == r = Attached(0) \/ r.kind = "none"

(* A record whose reader is detached keeps its counters.                      *)
LEMMA AfterDetachMeasured ==
  ASSUME NEW r, Good(r)
  PROVE  /\ Measured(r) => Measured(AfterDetach(r)) /\ Measured(NoReader(r))
         /\ Unmeasured(r) => AfterDetach(r).kind = "none"
<1>1. NoReader(r).kind = "none" /\ NoReader(r).streamPos = r.streamPos
  BY DEF NoReader, Good, Record
<1>2. r.kind # "frozen" => AfterDetach(r) = NoReader(r)
  BY DEF AfterDetach
<1>3. r.kind = "frozen" /\ Measured(r) => Measured(AfterDetach(r))
  BY DEF AfterDetach, Good, Record, Measured
<1>4. Unmeasured(r) => r.kind # "frozen"
  BY DEF Unmeasured, Attached
<1> QED BY <1>1, <1>2, <1>3, <1>4 DEF Measured

(* A header that is parsed counts its own payload.                            *)
LEMMA HeaderParsedMeasured ==
  ASSUME NEW a \in Position, NEW o \in ParseWarcHeaders(Attached(a)), o.res = "ok"
  PROVE  Measured(o.rec) /\ JustParsed(o.rec) /\ o.rec.streamPos \in 0 .. N - 1
<1> DEFINE r == Attached(a)
<1>0. Good(r) /\ Unlimited(r) /\ ~ r.httpParsed /\ r.contentLength = 0 /\ r.at = a
  BY AttachedGood DEF Good, Record, Attached, Unlimited
<1> HIDE DEF r
<1>1. PICK q \in Stops(a) : IsHeader(q) /\ o.rec = HeaderParsed(r, q)
  BY <1>0, ParseWarcHeadersGood DEF r
<1>2. q \in 0 .. N - 1
  BY <1>1, StopsRange, Constants DEF IsHeader, Position
<1> DEFINE s == HeaderParsed(r, q)
<1>3. s.streamPos = q /\ JustParsed(s)
  BY <1>0, <1>2, HeaderParsedPlaced
<1>4. s.contentLength = s.limit /\ s.httpParsed = r.httpParsed
  BY DEF HeaderParsed, Good, Record, r, Attached
<1> HIDE DEF s
<1>5. Measured(s)
  BY <1>1, <1>2, <1>3, <1>4 DEF Measured, JustParsed
<1> QED BY <1>1, <1>2, <1>3, <1>5 DEF s

LEMMA NextFreshMeasured ==
  ASSUME NEW r, Good(r), Measured(r) \/ Unmeasured(r), NEW o \in NextFresh(r)
  PROVE  /\ o.res = "ok" => Measured(o.rec) /\ JustParsed(o.rec)
         /\ Measured(r) => Measured(o.rec)
         /\ o.res = "ok" \/ Measured(o.rec) \/ Unmeasured(o.rec)
<1>1. PICK c \in FinishPayload(r) : o \in IF c.res = "ok" THEN FromDetached(c.rec) ELSE {c}
  BY DEF NextFresh
<1>2. Good(c.rec)  BY FinishPayloadGood
<1>3. /\ Measured(r) => Measured(c.rec)
      /\ Unmeasured(r) => Unmeasured(c.rec)
  <2>1. CASE c = Outcome(r, "ok")
    BY <2>1 DEF Outcome
  <2>2. CASE c \in Consume(r) /\ r.contentLength > 0
    <3>1. Reads(r, c.rec)  BY <2>2, ConsumeReads
    <3>2. Unmeasured(r) => r.kind = "none"
      BY <2>2 DEF Unmeasured, Attached
    <3> QED BY <1>2, <3>1, <3>2, ReadsMeasured DEF Reads, Unmeasured
  <2> QED BY <2>1, <2>2 DEF FinishPayload
<1>4. CASE c.res # "ok"
  BY <1>1, <1>3, <1>4
<1>5. CASE c.res = "ok"
  <2>1. o \in FromDetached(c.rec)  BY <1>1, <1>5
  <2>2. CASE Detaches(c.rec) = "nothing"
    BY <1>3, <2>1, <2>2 DEF FromDetached, Outcome
  <2>3. CASE Detaches(c.rec) = "inner"
    <3>1. o.rec = NoReader(c.rec) /\ o.res # "ok"
      BY <2>1, <2>3 DEF FromDetached, Outcome
    <3>2. NoReader(c.rec).kind = "none"  BY <1>2 DEF NoReader, Good, Record
    <3> QED BY <1>2, <1>3, <3>1, <3>2, AfterDetachMeasured DEF Unmeasured
  <2>4. CASE Detaches(c.rec) = "archive"
    <3>1. PICK p \in ParseWarcHeaders(Attached(c.rec.at)) :
            o = IF p.res = "ok" THEN p ELSE Outcome(AfterDetach(c.rec), p.res)
      BY <2>1, <2>4 DEF FromDetached
    <3>2. c.rec.at \in Position  BY <1>2 DEF Good, Record
    <3>3. CASE p.res = "ok"
      BY <3>1, <3>2, <3>3, HeaderParsedMeasured
    <3>4. CASE p.res # "ok"
      BY <1>2, <1>3, <3>1, <3>4, AfterDetachMeasured DEF Outcome, Unmeasured
    <3> QED BY <3>3, <3>4
  <2> QED BY <1>2, <2>2, <2>3, <2>4 DEF Detaches, Good, Record, ReaderKinds
<1> QED BY <1>4, <1>5
-----------------------------------------------------------------------------
(* The inductive form of TypeOK: the record is good, and the one that is     *)
(* not decided on has a header in the archive.                               *)
TypeInv ==
  /\ TypeOK
  /\ Good(rec)
  /\ phase = "keep" => rec.streamPos \in 0 .. N - 1

(* The attached reader is at the beginning of the stream.                    *)
LEMMA TypeInit == Init => TypeInv
<1> SUFFICES ASSUME Init PROVE TypeInv
  OBVIOUS
<1>1. /\ Good(Attached(0))
      /\ Attached(0) \in Record /\ Attached(0).pos <= Attached(0).limit
  BY AttachedGood, Constants DEF Position, Good
<1>2. 0 \in Position /\ 0 \in 0 .. MaxFaults
  BY Constants, OptionsAssumption DEF Position
<1>3. <<>> \in Seq(0 .. N - 1)
  OBVIOUS
<1>4. TypeOK
  BY <1>1, <1>2, <1>3 DEF Init, TypeOK
<1>5. Good(rec) /\ phase # "keep"
  BY <1>1 DEF Init
<1> QED BY <1>4, <1>5 DEF TypeInv

(* An outcome is counted within the bound on failed reads.                   *)
LEMMA CountedType ==
  ASSUME faults \in 0 .. MaxFaults, NEW res, Counted(res)
  PROVE  faults' \in 0 .. MaxFaults
BY OptionsAssumption DEF Counted

(* A method the caller calls keeps the type invariant if it keeps the record *)
(* good.                                                                     *)
LEMMA ClientType ==
  ASSUME TypeInv, ClientUnchanged, Keeps(rec, rec'), faults' \in 0 .. MaxFaults,
         written' \in {"none", "exact", "wrong"}
  PROVE  TypeInv'
BY DEF TypeInv, TypeOK, ClientUnchanged, Keeps, Good

(* A block ends inside of the stream.                                        *)
LEMMA BlockEndPosition ==
  ASSUME NEW q \in 0 .. N - 1
  PROVE  BlockEnd(q) \in Position /\ DeclaredLength(q) \in Nat
<1>1. DeclaredLength(q) \in Nat
  BY CellType DEF DeclaredLength, Cells
<1> QED BY <1>1, Constants DEF BlockEnd, Least, Position

(* Every step keeps the type invariant.                                      *)
LEMMA TypeStep == TypeInv /\ [Next]_vars => TypeInv'
<1> SUFFICES ASSUME TypeInv, [Next]_vars PROVE TypeInv'
  OBVIOUS
<1> USE DEF TypeInv
<1>1. CASE DetectFails
  <2>1. faults' \in 0 .. MaxFaults
    BY <1>1, CountedType DEF DetectFails, TypeOK
  <2> QED BY <1>1, <2>1 DEF DetectFails, TypeOK, Return
<1>2. CASE Advance
  <2>1. PICK o \in IF Inplace THEN NextInplace(rec) ELSE NextFresh(rec) :
          /\ rec' = o.rec
          /\ Counted(o.res)
          /\ \/ /\ o.res = "ok"
                /\ phase' = "keep"
                /\ cursor' = BlockEnd(o.rec.streamPos)
                /\ UNCHANGED status
             \/ Return("end") /\ UNCHANGED cursor
             \/ Return("err") /\ UNCHANGED cursor
    BY <1>2 DEF Advance
  <2>2. /\ Good(o.rec)
        /\ o.res = "ok" => o.rec.streamPos \in 0 .. N - 1
    BY <2>1, NextFreshGood, NextInplaceGood
  <2>3. faults' \in 0 .. MaxFaults
    BY <2>1, CountedType DEF TypeOK
  <2>4. cursor' \in Position
    BY <2>1, <2>2, BlockEndPosition DEF TypeOK
  <2>5. started' = TRUE /\ UNCHANGED <<options, delivered, written>>
    BY <1>2 DEF Advance
  <2> QED BY <2>1, <2>2, <2>3, <2>4, <2>5 DEF TypeOK, Good, Return
<1>3. \A v \in Checked : Keeps(rec, v.rec)
  <2>1. CASE Verify
    <3>1. FALSE \in BOOLEAN
      OBVIOUS
    <3>2. Checked = VerifyBlockDigest(rec, FALSE)
      BY <2>1 DEF Checked
    <3> QED BY <3>1, <3>2, VerifyBlockDigestGood
  <2>2. CASE ~ Verify
    BY <2>2 DEF Checked, Outcome, Keeps
  <2> QED BY <2>1, <2>2
<1>4. CASE Skip
  <2>1. faults' \in 0 .. MaxFaults
    BY <1>4, CountedType DEF Skip, TypeOK
  <2>2. Good(rec') /\ rec' \in Record /\ rec'.pos <= rec'.limit
    BY <1>3, <1>4 DEF Skip, Keeps, Good
  <2> QED BY <1>4, <2>1, <2>2 DEF Skip, TypeOK
<1>5. CASE Keep
  <2>1. PICK v \in Checked :
          \E o \in IF options.parse_http
                 THEN ParseHttp(v.rec, options.decode_http_payload)
                 ELSE {Outcome(v.rec, "ok")} :
            /\ rec' = o.rec
            /\ Counted(o.res)
            /\ IF o.res = "ok"
               THEN /\ Return("item")
                    /\ delivered' = Append(delivered, rec.streamPos)
               ELSE Return("err") /\ UNCHANGED delivered
    BY <1>5 DEF Keep
  <2>2. PICK o \in IF options.parse_http
                 THEN ParseHttp(v.rec, options.decode_http_payload)
                 ELSE {Outcome(v.rec, "ok")} :
            /\ rec' = o.rec
            /\ Counted(o.res)
            /\ IF o.res = "ok"
               THEN /\ Return("item")
                    /\ delivered' = Append(delivered, rec.streamPos)
               ELSE Return("err") /\ UNCHANGED delivered
    BY <2>1
  <2>3. Good(v.rec)
    BY <1>3 DEF Keeps
  <2>4. Good(o.rec)
    BY <2>2, <2>3, ParseHttpGood DEF Outcome, Keeps
  <2>5. faults' \in 0 .. MaxFaults
    BY <2>2, CountedType DEF TypeOK
  <2>6. delivered' \in Seq(0 .. N - 1)
    <3>1. rec.streamPos \in 0 .. N - 1 /\ delivered \in Seq(0 .. N - 1)
      BY <1>5 DEF TypeOK, Keep
    <3>2. Append(delivered, rec.streamPos) \in Seq(0 .. N - 1)
      BY <3>1
    <3>3. delivered' = Append(delivered, rec.streamPos) \/ delivered' = delivered
      BY <2>2
    <3> QED BY <3>1, <3>2, <3>3
  <2>7. UNCHANGED <<options, started, cursor, written>>
    BY <1>5 DEF Keep
  <2> QED BY <2>2, <2>4, <2>5, <2>6, <2>7 DEF TypeOK, Return, Good
<1>6. CASE Client
  <2>1. CASE ClientRead
    <3>1. Keeps(rec, rec') /\ faults' \in 0 .. MaxFaults
      BY <2>1, ReadUpToGood, FailedGood, CountedType DEF ClientRead, TypeOK
    <3> QED BY <2>1, <3>1, ClientType DEF ClientRead, TypeOK
  <2>2. CASE ClientSeek
    <3>1. Keeps(rec, rec')
      BY <2>2, SeekToGood DEF ClientSeek
    <3> QED BY <2>2, <3>1, ClientType DEF ClientSeek, TypeOK
  <2>3. ASSUME NEW op, NEW outcomes, ClientCall(op, outcomes),
               \A o \in outcomes : Keeps(rec, o.rec)
        PROVE  TypeInv'
    <3>1. Keeps(rec, rec') /\ faults' \in 0 .. MaxFaults
      BY <2>3, CountedType DEF ClientCall, TypeOK
    <3> QED BY <2>3, <3>1, ClientType DEF ClientCall, TypeOK
  <2>4. CASE ClientConsume
    BY <2>3, <2>4, ConsumeGood DEF ClientConsume
  <2>5. CASE ClientFreeze
    BY <2>3, <2>5, FreezeGood DEF ClientFreeze
  <2>6. CASE ClientParseHttp
    BY <2>3, <2>6, ParseHttpGood DEF ClientParseHttp
  <2>7. CASE ClientVerify
    BY <2>3, <2>7, VerifyBlockDigestGood DEF ClientVerify
  <2>8. CASE ClientReplace
    <3>1. Keeps(rec, rec')
      BY <2>8, SetBytesPayloadGood DEF ClientReplace
    <3> QED BY <2>8, <3>1, ClientType DEF ClientReplace, TypeOK
  <2>9. CASE ClientWrite
    <3>1. Keeps(rec, rec') /\ faults' \in 0 .. MaxFaults
      BY <2>9, WriteGood, CountedType DEF ClientWrite, TypeOK
    <3>2. written' \in {"none", "exact", "wrong"}
      BY <2>9 DEF ClientWrite, TypeOK
    <3> QED BY <2>9, <3>1, <3>2, ClientType DEF ClientWrite
  <2> QED BY <1>6, <2>1, <2>2, <2>4, <2>5, <2>6, <2>7, <2>8, <2>9 DEF Client
<1>7. CASE UNCHANGED vars
  BY <1>7 DEF vars, TypeOK, Good
<1>8. CASE SetOptions
  BY <1>8 DEF SetOptions, TypeOK, Good
<1> QED BY <1>1, <1>2, <1>4, <1>5, <1>6, <1>7, <1>8 DEF Next

(* TypeOK holds in every configuration, for every archive and every use the  *)
(* caller makes of the records: in particular no length underflows and no    *)
(* read leaves the stream.                                                   *)
THEOREM TypeCorrect == Spec => []TypeOK
<1>1. TypeInv => TypeOK
  BY DEF TypeInv
<1> QED BY <1>1, TypeInit, TypeStep, PTL DEF Spec

-----------------------------------------------------------------------------
(* Before the first call of next() that gets past the stream detection.      *)
Untaken == rec = Attached(0) /\ cursor = 0 /\ phase = "idle" /\ delivered = <<>>

(* Something is wrong with the archive, or was with the stream.              *)
Excused == faults > 0 \/ \E q \in Stops(cursor) : q < N /\ ~ IsHeader(q)

(* The caller may turn on inplace mode, where every record is live until     *)
(* next() has failed.                                                        *)
MayReuse == \E o \in Options : o.inplace

(* As long as next() may be called the record's block ends at cursor, and    *)
(* the reader is only lost for a reason; while the record is not decided on  *)
(* nothing but its header was read, unless a thread holds that same record.  *)
SeqInv ==
  /\ TypeInv
  /\ rec.kind # "wrapped"
  /\ Inplace => rec.kind = "orig"
  /\ MayReuse /\ (status \notin {"err", "end"} \/ phase = "keep") => rec.kind = "orig"
  /\ (MayCall \/ phase # "idle") /\ ~ Untaken =>
       /\ Placed(rec, cursor)
       /\ Lost(rec) => Excused
  /\ phase = "keep" =>
       /\ IsHeader(rec.streamPos)
       /\ cursor = BlockEnd(rec.streamPos)
       /\ ~ (Inplace /\ Threaded) => JustParsed(rec)
  /\ phase = "advance" => ~ Inplace

(* Before the first call there is nothing to hold.                           *)
LEMMA SeqInit == Init => SeqInv
<1>1. ASSUME Init PROVE Untaken /\ Attached(0).kind = "orig"
  BY <1>1 DEF Init, Untaken, Attached
<1> QED BY <1>1, TypeInit DEF SeqInv, Init

(* The steps of the abstract specification, over the concrete variables.     *)
LEMMA SequenceStops == \A from : Sequence!Stops(from) = Stops(from)
BY DEF Sequence!Stops, Stops, Sequence!Skipped, Skipped

(* The abstract specification reads headers as the parser does.              *)
LEMMA SequenceHeader ==
  /\ \A q : Sequence!IsHeader(q) <=> IsHeader(q)
  /\ \A q : Sequence!BlockEnd(q) = BlockEnd(q)
  /\ \A q : Sequence!DeclaredLength(q) = DeclaredLength(q)
BY DEF Sequence!IsHeader, IsHeader, Sequence!BlockEnd, BlockEnd, Sequence!Least, Least,
       Sequence!DeclaredLength, DeclaredLength

(* Failed reads are never forgotten.                                         *)
LEMMA CountedGrows ==
  ASSUME faults \in Nat, NEW res, Counted(res)
  PROVE  /\ faults' \in Nat /\ faults' >= faults
         /\ res = "io" => faults' > 0
         /\ res # "io" => faults' = faults
BY DEF Counted

(* The number of failed reads is a number.                                   *)
LEMMA FaultsNat == TypeInv => faults \in Nat
BY OptionsAssumption DEF TypeInv, TypeOK

(* What the supported configurations say of the options that are set now.    *)
LEMMA SupportedNow ==
  ASSUME Supported, TypeInv
  PROVE  /\ options.decode_http_payload = {}
         /\ "replace" \notin ClientOps
         /\ Inplace => MayReuse
         /\ MayReuse => /\ ~ Verify
                        /\ ClientOps \cap {"freeze", "verify", "replace_consumed", "write"} = {}
         /\ Inplace => /\ options.parse_http => ~ Threaded
                       /\ \A q \in 0 .. N - 1 : IsHeader(q) => Cell[q].hasLen
<1>1. options \in Options
  BY DEF TypeInv, TypeOK
<1> QED BY <1>1 DEF Supported, MayReuse, Inplace, Verify

(* Between two calls of set_options() the mode does not change.              *)
LEMMA OptionsStay ==
  ASSUME UNCHANGED options PROVE Inplace' = Inplace /\ Verify' = Verify
BY DEF Inplace, Verify

(* The detection fails: an error is reported for a failed read.              *)
LEMMA DetectFailsImplements ==
  ASSUME SeqInv, DetectFails PROVE SeqInv' /\ Sequence!Next
<1>1. TypeInv'
  BY TypeStep DEF SeqInv, Next
<1>2. faults' > 0 /\ faults' >= faults
  BY FaultsNat, CountedGrows DEF SeqInv, DetectFails
<1>3. /\ phase = "idle" /\ phase' = "idle" /\ status' = "err" /\ status # "end" /\ MayCall
      /\ Inplace' = Inplace /\ Verify' = Verify
      /\ UNCHANGED <<rec, cursor, delivered>>
  BY OptionsStay DEF DetectFails, Return, MayCall
<1>4. Sequence!Report
  BY <1>2, <1>3 DEF Sequence!Report, Pending
<1>5. SeqInv'
  BY <1>1, <1>2, <1>3 DEF SeqInv, MayCall, Untaken, Excused
<1> QED BY <1>4, <1>5 DEF Sequence!Next

(* What the first lock of next() comes to, in both modes.                    *)
LEMMA AdvanceOutcome ==
  ASSUME SeqInv, Supported, MayCall \/ phase = "advance",
         NEW o \in IF Inplace THEN NextInplace(rec) ELSE NextFresh(rec)
  PROVE  /\ NextFrom(cursor, o) \/ (Excused /\ o.res \in {"err", "eof"})
         /\ o.res # "ok" /\ ~ Inplace =>
              Placed(o.rec, cursor) /\ (Lost(o.rec) \/ o.res = "io")
         /\ Inplace => o.rec.kind = "orig"
<1>1. Good(rec)
  BY DEF SeqInv, TypeInv
<1>2. Placed(rec, cursor) \/ (rec = Attached(0) /\ cursor = 0)
  BY DEF SeqInv, Untaken
<1>3. Lost(rec) => Excused
  <2>1. Untaken => ~ Lost(rec)
    BY DEF Untaken, Lost, Attached
  <2> QED BY <2>1 DEF SeqInv
<1>4. CASE Inplace
  <2>1. \A q \in 0 .. N - 1 : IsHeader(q) => Cell[q].hasLen
    BY <1>4, SupportedNow DEF SeqInv
  <2>2. rec.kind = "orig" /\ o \in NextInplace(rec)
    BY <1>4 DEF SeqInv
  <2> QED BY <1>1, <1>2, <1>4, <2>1, <2>2, NextInplaceNext
<1>5. CASE ~ Inplace
  <2>1. o \in NextFresh(rec)
    BY <1>5
  <2>2. /\ NextFrom(cursor, o) \/ (Lost(rec) /\ o.res \in {"err", "eof"})
        /\ o.res # "ok" => Placed(o.rec, cursor) /\ (Lost(o.rec) \/ o.res = "io")
    BY <1>1, <1>2, <2>1, NextFreshNext
  <2> QED BY <1>3, <1>5, <2>2
<1> QED BY <1>4, <1>5

(* The first lock of next(): the next record is taken, the end or an error   *)
(* is reported.                                                              *)
LEMMA AdvanceImplements ==
  ASSUME SeqInv, Supported, Advance PROVE SeqInv' /\ Sequence!Next
<1>1. TypeInv'
  BY TypeStep DEF SeqInv, Next
<1>2. MayCall \/ phase = "advance"
  BY DEF Advance
<1>3. PICK o \in IF Inplace THEN NextInplace(rec) ELSE NextFresh(rec) :
        /\ rec' = o.rec
        /\ Counted(o.res)
        /\ \/ /\ o.res = "ok"
              /\ phase' = "keep"
              /\ cursor' = BlockEnd(o.rec.streamPos)
              /\ UNCHANGED status
           \/ o.res = "eof" /\ Return("end") /\ UNCHANGED cursor
           \/ o.res \in {"err", "io"} /\ Return("err") /\ UNCHANGED cursor
  BY DEF Advance
<1>4. /\ NextFrom(cursor, o) \/ (Excused /\ o.res \in {"err", "eof"})
      /\ o.res # "ok" /\ ~ Inplace =>
           Placed(o.rec, cursor) /\ (Lost(o.rec) \/ o.res = "io")
      /\ Inplace => o.rec.kind = "orig"
  BY <1>2, AdvanceOutcome
<1>5. /\ faults \in Nat /\ faults' \in Nat /\ faults' >= faults
      /\ o.res = "io" => faults' > 0
      /\ o.res # "io" => faults' = faults
  BY <1>3, FaultsNat, CountedGrows DEF SeqInv
<1>6. /\ Pending = {} /\ UNCHANGED delivered
      /\ Inplace' = Inplace /\ Verify' = Verify
  BY <1>2, OptionsStay DEF Pending, MayCall, Advance
<1>7. CASE o.res = "ok"
  <2>1. PICK q \in Stops(cursor) :
          /\ IsHeader(q) /\ o.rec.streamPos = q
          /\ JustParsed(o.rec) /\ Placed(o.rec, BlockEnd(q))
    BY <1>4, <1>7 DEF NextFrom
  <2>2. /\ rec' = o.rec /\ phase' = "keep" /\ cursor' = BlockEnd(q)
        /\ UNCHANGED <<status, faults>>
    BY <1>3, <1>5, <1>7, <2>1
  <2>3. Sequence!Take
    BY <1>6, <2>1, <2>2, SequenceStops, SequenceHeader DEF Sequence!Take, Pending
  <2>4. ~ Lost(rec') /\ rec'.kind = "orig"
    BY <2>1, <2>2 DEF JustParsed, Lost
  <2>5. SeqInv'
    BY <1>1, <1>6, <2>1, <2>2, <2>4 DEF SeqInv, JustParsed, IsHeader, Placed, BlockEnd,
       DeclaredLength, Lost
  <2> QED BY <2>3, <2>5 DEF Sequence!Next
<1>8. CASE o.res = "eof"
  <2>1. /\ phase' = "idle" /\ status' = "end" /\ rec' = o.rec
        /\ UNCHANGED <<cursor, faults>>
    BY <1>3, <1>5, <1>8 DEF Return
  <2>2. Sequence!AtEnd \/ Sequence!Malformed \/ faults > 0
    BY <1>4, <1>8, SequenceStops, SequenceHeader
       DEF NextFrom, Excused, Sequence!AtEnd, Sequence!Malformed
  <2>3. Sequence!Finish
    BY <1>6, <2>1, <2>2 DEF Sequence!Finish, Pending
  <2>4. rec'.kind # "wrapped"
    BY <1>4, <1>8, <2>1 DEF Placed
  <2>5. SeqInv'
    BY <1>1, <1>4, <1>6, <2>1, <2>4 DEF SeqInv, MayCall
  <2> QED BY <2>3, <2>5 DEF Sequence!Next
<1>9. CASE o.res \in {"err", "io"}
  <2>1. /\ phase' = "idle" /\ status' = "err" /\ rec' = o.rec
        /\ UNCHANGED cursor
    BY <1>3, <1>9 DEF Return
  <2>2. Sequence!Malformed \/ faults' > 0
    BY <1>4, <1>5, <1>9, SequenceStops, SequenceHeader
       DEF NextFrom, Excused, Sequence!Malformed
  <2>3. Sequence!Report
    BY <1>5, <1>6, <2>1, <2>2 DEF Sequence!Report, Pending
  <2>4. rec'.kind # "wrapped"
    BY <1>4, <1>9, <2>1 DEF Placed
  <2>5. Excused'
    BY <2>1, <2>2, SequenceStops, SequenceHeader DEF Excused, Sequence!Malformed
  <2>6. ~ Inplace => Placed(rec', cursor')
    BY <1>4, <1>9, <2>1
  <2>7. SeqInv'
    BY <1>1, <1>4, <1>6, <2>1, <2>4, <2>5, <2>6 DEF SeqInv, MayCall
  <2> QED BY <2>3, <2>7 DEF Sequence!Next
<1> QED BY <1>3, <1>7, <1>8, <1>9

(* The second lock passes over a record whose digest is not the right one,   *)
(* or over one that could not be read.                                       *)
LEMMA SkipImplements ==
  ASSUME SeqInv, Supported, Skip PROVE SeqInv' /\ Sequence!Next
<1> DEFINE q == rec.streamPos
<1>1. TypeInv'
  BY TypeStep DEF SeqInv, Next
<1>2. PICK v \in Checked : v.res # "valid" /\ rec' = v.rec /\ Counted(v.res)
  BY DEF Skip
<1>3. /\ phase = "keep" /\ phase' = "advance"
      /\ Inplace' = Inplace /\ Verify' = Verify
      /\ UNCHANGED <<status, delivered, cursor>>
  BY OptionsStay DEF Skip
<1>4. Verify /\ v \in VerifyBlockDigest(rec, FALSE)
  <2>1. CASE Verify
    BY <1>2, <2>1 DEF Checked
  <2>2. CASE ~ Verify
    <3>1. v = Outcome(rec, "valid")
      BY <1>2, <2>2 DEF Checked
    <3> QED BY <1>2, <3>1 DEF Outcome
  <2> QED BY <2>1, <2>2
<1>5. ~ Inplace /\ ~ MayReuse
  BY <1>4, SupportedNow DEF SeqInv
<1>6. /\ Good(rec) /\ rec.kind # "wrapped" /\ q \in 0 .. N - 1
      /\ JustParsed(rec) /\ Placed(rec, cursor) /\ (Lost(rec) => Excused)
  BY <1>3, <1>5 DEF SeqInv, TypeInv, Untaken
<1>7. /\ faults \in Nat /\ faults' \in Nat /\ faults' >= faults
      /\ v.res = "io" => faults' > 0
  BY <1>2, FaultsNat, CountedGrows DEF SeqInv
<1>8. Cell[q].digest # "match" \/ q + 1 + DeclaredLength(q) > N \/ v.res = "io"
  <2>1. Cell[q].digest # "match" \/ ~ (q + 1 + DeclaredLength(q) <= N) \/ v.res = "io"
    BY <1>2, <1>4, <1>6, DigestDecides
  <2>2. DeclaredLength(q) \in Nat /\ q \in Nat /\ N \in Nat
    BY <1>6, BlockEndPosition, Constants
  <2> QED BY <2>1, <2>2
<1>9. Sequence!PassOver
  BY <1>3, <1>4, <1>7, <1>8, SequenceHeader
     DEF Sequence!PassOver, Sequence!Clipped, Pending
<1>10. Settles(rec, v) /\ FALSE \in BOOLEAN
  BY <1>4, <1>6, VerifyBlockDigestSettles
<1>11. SeqInv'
  BY <1>1, <1>2, <1>3, <1>5, <1>6, <1>7, <1>10 DEF SeqInv, Settles, Excused
<1> QED BY <1>9, <1>11 DEF Sequence!Next

(* The record as the digest check leaves it, when it is to be handed out.    *)
LEMMA CheckedOutcome ==
  ASSUME SeqInv, Supported, phase = "keep", NEW v \in Checked, v.res = "valid"
  PROVE  LET q == rec.streamPos
         IN /\ Good(v.rec) /\ v.rec.streamPos = q /\ Settles(rec, v)
            /\ ~ Verify => v.rec = rec
            /\ Verify => Cell[q].digest = "match" /\ ~ Sequence!Clipped(q)
            /\ ~ (Inplace /\ Threaded) =>
                 /\ v.rec.kind \in {"orig", "frozen"}
                 /\ v.rec.kind = "orig" => v.rec.pos = 0
                 /\ NextCell(v.rec) = q + 1
                 /\ v.rec.isHttp = Cell[q].http
<1> DEFINE q == rec.streamPos
<1>1. /\ Good(rec) /\ rec.kind # "wrapped" /\ q \in 0 .. N - 1
      /\ ~ (Inplace /\ Threaded) => JustParsed(rec)
  BY DEF SeqInv, TypeInv
<1>2. CASE Verify
  <2>1. v \in VerifyBlockDigest(rec, FALSE) /\ FALSE \in BOOLEAN
    BY <1>2 DEF Checked
  <2>2. ~ Inplace /\ JustParsed(rec)
    BY <1>1, <1>2, SupportedNow DEF SeqInv
  <2>3. /\ Cell[q].digest = "match" /\ q + 1 + DeclaredLength(q) <= N
        /\ v.rec.kind = "frozen" /\ NextCell(v.rec) = q + 1
        /\ v.rec.isHttp = rec.isHttp
    BY <1>1, <2>1, <2>2, DigestDecides
  <2>4. Good(v.rec) /\ v.rec.streamPos = q
    BY <1>1, <2>1, VerifyBlockDigestGood DEF Keeps
  <2>5. Settles(rec, v)
    BY <1>1, <2>1, VerifyBlockDigestSettles
  <2>6. ~ Sequence!Clipped(q)
    BY <1>1, <2>3, SequenceHeader, BlockEndPosition, Constants DEF Sequence!Clipped
  <2>7. rec.isHttp = Cell[q].http
    BY <2>2 DEF JustParsed
  <2> QED BY <1>2, <2>2, <2>3, <2>4, <2>5, <2>6, <2>7
<1>3. CASE ~ Verify
  <2>1. v.rec = rec
    BY <1>3 DEF Checked, Outcome
  <2>2. JustParsed(rec) => NextCell(rec) = q + 1
    BY DEF JustParsed, NextCell
  <2> QED BY <1>1, <1>3, <2>1, <2>2 DEF JustParsed, Settles
<1> QED BY <1>2, <1>3

(* The second lock hands the record out, or reports an error for its HTTP    *)
(* headers.                                                                  *)
LEMMA KeepImplements ==
  ASSUME SeqInv, Supported, Keep PROVE SeqInv' /\ Sequence!Next
<1> DEFINE q == rec.streamPos
<1>1. TypeInv'
  BY TypeStep DEF SeqInv, Next
<1>2. /\ phase = "keep" /\ UNCHANGED cursor
      /\ Inplace' = Inplace /\ Verify' = Verify
  BY OptionsStay DEF Keep
<1>3. PICK v \in Checked :
        /\ v.res = "valid"
        /\ \E o \in IF options.parse_http
                 THEN ParseHttp(v.rec, options.decode_http_payload)
                 ELSE {Outcome(v.rec, "ok")} :
             /\ rec' = o.rec
             /\ Counted(o.res)
             /\ IF o.res = "ok"
                THEN Return("item") /\ delivered' = Append(delivered, q)
                ELSE Return("err") /\ UNCHANGED delivered
  BY DEF Keep
<1>4. PICK o \in IF options.parse_http
                 THEN ParseHttp(v.rec, options.decode_http_payload)
                 ELSE {Outcome(v.rec, "ok")} :
        /\ rec' = o.rec
        /\ Counted(o.res)
        /\ IF o.res = "ok"
           THEN Return("item") /\ delivered' = Append(delivered, q)
           ELSE Return("err") /\ UNCHANGED delivered
  BY <1>3
<1>5. /\ Good(rec) /\ rec.kind # "wrapped" /\ q \in 0 .. N - 1
      /\ Placed(rec, cursor) /\ (Lost(rec) => Excused)
      /\ MayReuse => rec.kind = "orig" /\ ~ Verify
      /\ Inplace => MayReuse
  BY <1>2, SupportedNow DEF SeqInv, TypeInv, Untaken
<1>6. /\ Good(v.rec) /\ Settles(rec, v)
      /\ ~ Verify => v.rec = rec
      /\ Verify => Cell[q].digest = "match" /\ ~ Sequence!Clipped(q)
      /\ ~ (Inplace /\ Threaded) =>
           /\ v.rec.kind \in {"orig", "frozen"}
           /\ v.rec.kind = "orig" => v.rec.pos = 0
           /\ NextCell(v.rec) = q + 1
           /\ v.rec.isHttp = Cell[q].http
  BY <1>2, <1>3, CheckedOutcome
<1>7. /\ Still(v.rec, o.rec)
      /\ o.res \in {"ok", "err", "io"}
      /\ o.res = "err" => Sequence!BadHttp(q)
  <2>1. CASE options.parse_http
    <3>1. ~ (Inplace /\ Threaded) /\ o \in ParseHttp(v.rec, {})
      BY <1>4, <2>1, SupportedNow DEF SeqInv
    <3>2. v.rec.kind # "wrapped"
      BY <1>6 DEF Settles
    <3>3. /\ Still(v.rec, o.rec)
          /\ o.res = "err" => /\ NextCell(v.rec) < N /\ v.rec.isHttp
                              /\ ~ Cell[NextCell(v.rec)].ok
          /\ o.res \in {"ok", "err", "io"}
      BY <1>6, <3>1, <3>2, ParseHttpStill
    <3>4. o.res = "err" => Sequence!BadHttp(q)
      BY <1>6, <3>1, <3>3 DEF Sequence!BadHttp
    <3> QED BY <3>3, <3>4
  <2>2. CASE ~ options.parse_http
    BY <1>4, <2>2 DEF Outcome, Still
  <2> QED BY <2>1, <2>2
<1>8. /\ faults \in Nat /\ faults' \in Nat /\ faults' >= faults
      /\ o.res = "io" => faults' > 0
      /\ o.res # "io" => faults' = faults
  BY <1>4, FaultsNat, CountedGrows DEF SeqInv
<1>9. /\ phase' = "idle" /\ rec' = o.rec
      /\ o.res = "ok" => status' = "item" /\ delivered' = Append(delivered, q)
      /\ o.res # "ok" => status' = "err" /\ delivered' = delivered
  BY <1>4 DEF Return
<1>10. SeqInv'
  <2>1. rec'.kind # "wrapped" /\ (MayReuse => rec'.kind = "orig")
    BY <1>5, <1>6, <1>7, <1>9 DEF Still, Settles
  <2>2. Placed(rec', cursor')
    BY <1>2, <1>5, <1>6, <1>7, <1>9 DEF Still, Settles
  <2>3. Lost(rec') => Excused'
    BY <1>2, <1>3, <1>5, <1>6, <1>7, <1>8, <1>9 DEF Still, Settles, Lost, Excused
  <2> QED BY <1>1, <1>2, <1>5, <1>9, <2>1, <2>2, <2>3 DEF SeqInv
<1>11. Pending = {q} /\ Pending' = {}
  BY <1>2, <1>9 DEF Pending
<1>12. CASE o.res = "ok"
  <2>1. Sequence!HandOut
    BY <1>2, <1>6, <1>8, <1>9, <1>11, <1>12 DEF Sequence!HandOut
  <2> QED BY <1>10, <2>1 DEF Sequence!Next
<1>13. CASE o.res # "ok"
  <2>1. Sequence!Report
    BY <1>2, <1>7, <1>8, <1>9, <1>11, <1>13 DEF Sequence!Report
  <2> QED BY <1>10, <2>1 DEF Sequence!Next
<1> QED BY <1>12, <1>13

(* What the caller does leaves the record where it is, or loses the reader   *)
(* to a failed read; the abstract state does not move.                       *)
LEMMA ClientStays ==
  ASSUME SeqInv, TypeInv', ClientUnchanged, delivered # <<>>,
         phase = "keep" => Inplace /\ Threaded,
         rec'.kind # "wrapped", MayReuse => rec'.kind = rec.kind,
         rec'.streamPos = rec.streamPos,
         faults' >= faults,
         MayCall \/ phase # "idle" =>
           /\ \A c : Placed(rec, c) => Placed(rec', c)
           /\ Lost(rec') => Lost(rec) \/ faults' > 0
  PROVE  SeqInv' /\ [Sequence!Next]_(Sequence!vars)
<1>1. /\ UNCHANGED <<phase, status, delivered, cursor>>
      /\ Inplace' = Inplace /\ Verify' = Verify
      /\ Inplace => MayReuse
  BY OptionsStay DEF ClientUnchanged, SeqInv, TypeInv, TypeOK, MayReuse, Inplace
<1>2. faults \in Nat /\ faults' \in Nat
  BY OptionsAssumption DEF SeqInv, TypeInv, TypeOK
<1>3. MayCall' = MayCall /\ ~ Untaken /\ ~ Untaken'
  BY <1>1 DEF MayCall, Untaken
<1>4. MayCall \/ phase # "idle" =>
        /\ Placed(rec', cursor')
        /\ Lost(rec') => Excused'
  BY <1>1, <1>2, <1>3 DEF SeqInv, Excused
<1>5. SeqInv'
  BY <1>1, <1>3, <1>4 DEF SeqInv
<1>6. Pending' = Pending
  BY <1>1 DEF Pending
<1>7. CASE faults' = faults
  BY <1>1, <1>5, <1>6, <1>7 DEF Sequence!vars
<1>8. CASE faults' # faults
  <2>1. Sequence!Fault
    BY <1>1, <1>2, <1>6, <1>8 DEF Sequence!Fault
  <2> QED BY <1>5, <2>1 DEF Sequence!Next
<1> QED BY <1>7, <1>8

(* The same, for a method that keeps the record and counts its failures.     *)
LEMMA ClientSettles ==
  ASSUME SeqInv, Client, ClientUnchanged, delivered # <<>>,
         phase = "keep" => Inplace /\ Threaded,
         NEW o, rec' = o.rec, Keeps(rec, o.rec), Settles(rec, o),
         MayReuse => o.rec.kind = rec.kind,
         o.res = "io" => faults' > 0, faults' >= faults
  PROVE  SeqInv' /\ [Sequence!Next]_(Sequence!vars)
<1>1. TypeInv'
  BY TypeStep DEF SeqInv, Next
<1> QED BY <1>1, ClientStays DEF Settles, Keeps

(* A method that only reads: the kind of reader stays what it is.            *)
LEMMA ClientReads ==
  ASSUME SeqInv, Client, ClientUnchanged, delivered # <<>>,
         phase = "keep" => Inplace /\ Threaded,
         Keeps(rec, rec'), Still(rec, rec'), faults' >= faults
  PROVE  SeqInv' /\ [Sequence!Next]_(Sequence!vars)
<1>1. TypeInv'
  BY TypeStep DEF SeqInv, Next
<1>2. rec.kind # "wrapped"
  BY DEF SeqInv
<1> QED BY <1>1, <1>2, ClientStays DEF Still, Keeps, Lost

(* Whatever the caller does with the record it holds, the iterator implements *)
(* a stuttering step or a failed read.                                       *)
LEMMA ClientImplements ==
  ASSUME SeqInv, Supported, Client
  PROVE  SeqInv' /\ [Sequence!Next]_(Sequence!vars)
<1>1. /\ Good(rec) /\ rec.kind # "wrapped" /\ faults \in Nat
      /\ options.decode_http_payload = {}
      /\ "replace" \notin ClientOps
      /\ MayReuse =>
           ClientOps \cap {"freeze", "verify", "replace_consumed", "write"} = {}
  BY FaultsNat, SupportedNow DEF SeqInv, TypeInv
<1>2. ASSUME NEW op, NEW outcomes, ClientCall(op, outcomes)
      PROVE  /\ Holds(op) /\ ClientUnchanged
             /\ \E o \in outcomes : /\ rec' = o.rec /\ faults' >= faults
                                    /\ o.res = "io" => faults' > 0
  BY <1>1, <1>2, CountedGrows DEF ClientCall
<1>3. CASE ClientRead
  <2>1. Holds("read") /\ ClientUnchanged
    BY <1>3 DEF ClientRead
  <2>2. Keeps(rec, rec') /\ Still(rec, rec') /\ faults' >= faults
    <3>1. PICK n \in 1 .. Readable(rec) + 1 :
            \/ rec' \in ReadUpTo(rec, n) /\ UNCHANGED faults
            \/ rec' \in Failed(rec) /\ Counted("io")
      BY <1>3 DEF ClientRead
    <3>2. n \in Nat
      BY <1>1, ReadableRange
    <3> QED BY <1>1, <3>1, <3>2, ReadUpToGood, ReadUpToStill, FailedGood, FailedStill,
               CountedGrows
  <2> QED BY <2>1, <2>2, ClientReads DEF Holds
<1>4. CASE ClientSeek
  <2>1. Holds("seek") /\ ClientUnchanged /\ faults' = faults
    BY <1>4 DEF ClientSeek
  <2>2. Keeps(rec, rec') /\ Still(rec, rec')
    BY <1>1, <1>4, SeekToGood, SeekToStill DEF ClientSeek
  <2> QED BY <1>1, <2>1, <2>2, ClientReads DEF Holds
<1>5. CASE ClientConsume
  <2>1. Holds("consume") /\ ClientUnchanged
    BY <1>2, <1>5 DEF ClientConsume
  <2>2. PICK o \in Consume(rec) : rec' = o.rec /\ faults' >= faults
    BY <1>2, <1>5 DEF ClientConsume
  <2>3. Keeps(rec, rec') /\ Still(rec, rec')
    BY <1>1, <2>2, ConsumeGood, ConsumeStill
  <2> QED BY <2>1, <2>2, <2>3, ClientReads DEF Holds
<1>6. CASE ClientFreeze
  <2>1. Holds("freeze") /\ ClientUnchanged
    BY <1>2, <1>6 DEF ClientFreeze
  <2>2. PICK o \in Freeze(rec) : /\ rec' = o.rec /\ faults' >= faults
                                 /\ o.res = "io" => faults' > 0
    BY <1>2, <1>6 DEF ClientFreeze
  <2>3. ~ MayReuse
    BY <1>1, <2>1 DEF Holds
  <2> QED BY <1>1, <1>6, <2>1, <2>2, <2>3, FreezeGood, FreezeSettles, ClientSettles
          DEF Client, Holds
<1>7. CASE ClientParseHttp
  <2>1. Holds("parse_http") /\ ClientUnchanged /\ Unparsed
    BY <1>2, <1>7 DEF ClientParseHttp
  <2>2. PICK o \in ParseHttp(rec, {}) : rec' = o.rec /\ faults' >= faults
    BY <1>1, <1>2, <1>7 DEF ClientParseHttp
  <2>3. Keeps(rec, rec') /\ rec'.kind = rec.kind /\ rec'.keeps = rec.keeps
    BY <1>1, <2>2, ParseHttpGood, ParseHttpKeepsKind
  <2>4. TypeInv'
    BY TypeStep DEF SeqInv, Next
  <2>5. ASSUME MayCall \/ phase # "idle" PROVE \A c : Placed(rec, c) => Placed(rec', c)
    <3>1. Placed(rec, cursor)
      BY <2>1, <2>5 DEF SeqInv, Untaken, Holds
    <3>2. rec.kind = "orig" => rec.pos = 0
      BY <1>1, <2>1, <3>1, Constants DEF Placed, Unparsed, NextCell, Good, Record, Position
    <3>3. Still(rec, o.rec)
      BY <1>1, <2>2, <3>2, ParseHttpStill
    <3> QED BY <2>2, <3>3 DEF Still
  <2> QED BY <1>1, <2>1, <2>2, <2>3, <2>4, <2>5, ClientStays DEF Keeps, Lost, Holds
<1>8. CASE ClientVerify
  <2>1. PICK consume \in BOOLEAN : ClientCall("verify", VerifyBlockDigest(rec, consume))
    BY <1>8 DEF ClientVerify
  <2>2. Holds("verify") /\ ClientUnchanged
    BY <1>2, <2>1
  <2>3. PICK o \in VerifyBlockDigest(rec, consume) :
          /\ rec' = o.rec /\ faults' >= faults
          /\ o.res = "io" => faults' > 0
    BY <1>2, <2>1
  <2>4. ~ MayReuse
    BY <1>1, <2>2 DEF Holds
  <2>5. Keeps(rec, o.rec) /\ Settles(rec, o)
    BY <1>1, <2>3, VerifyBlockDigestGood, VerifyBlockDigestSettles
  <2> QED BY <1>8, <2>2, <2>3, <2>4, <2>5, ClientSettles DEF Client, Holds
<1>9. CASE ClientReplace
  <2>1. /\ Holds("replace_consumed") /\ ClientUnchanged /\ faults' = faults
        /\ rec.kind = "orig" /\ Readable(rec) = 0
    BY <1>1, <1>9 DEF ClientReplace, Holds
  <2>2. PICK n \in 0 .. 2 : rec' = SetBytesPayload(rec, n)
    BY <1>9 DEF ClientReplace
  <2> DEFINE o == Outcome(SetBytesPayload(rec, n), "ok")
  <2>3. Keeps(rec, o.rec) /\ Settles(rec, o) /\ rec' = o.rec /\ o.res = "ok"
    BY <1>1, <2>1, <2>2, SetBytesPayloadGood, SetBytesPayloadSettles DEF Outcome
  <2> HIDE DEF o
  <2>4. ~ MayReuse
    BY <1>1, <2>1 DEF Holds
  <2> QED BY <1>1, <1>9, <2>1, <2>3, <2>4, ClientSettles DEF Client, Holds
<1>10. CASE ClientWrite
  <2>1. Holds("write") /\ ClientUnchanged
    BY <1>10 DEF ClientWrite
  <2>2. PICK checksum \in BOOLEAN :
          \E w \in Write(rec, checksum) : rec' = w.rec /\ Counted(w.res)
    BY <1>10 DEF ClientWrite
  <2>3. PICK o \in Write(rec, checksum) : rec' = o.rec /\ Counted(o.res)
    BY <2>2
  <2>4. ~ MayReuse
    BY <1>1, <2>1 DEF Holds
  <2>5. Keeps(rec, o.rec) /\ Settles(rec, o)
    BY <1>1, <2>3, WriteGood, WriteSettles
  <2>6. faults' >= faults /\ (o.res = "io" => faults' > 0)
    BY <1>1, <2>3, CountedGrows
  <2> QED BY <1>10, <2>1, <2>3, <2>4, <2>5, <2>6, ClientSettles DEF Client, Holds
<1> QED BY <1>3, <1>4, <1>5, <1>6, <1>7, <1>8, <1>9, <1>10 DEF Client

-----------------------------------------------------------------------------
(* The initial states and the steps of the iterator are steps of the sequence. *)
LEMMA SequenceInit == Init => Sequence!Init
<1> SUFFICES ASSUME Init PROVE Sequence!Init
  OBVIOUS
<1>1. Verify \in BOOLEAN
  BY OptionsAssumption DEF Init, Verify, AllOptions
<1> QED BY <1>1 DEF Init, Sequence!Init, Pending

(* Other options, between two calls: the abstract iterator is configured     *)
(* anew; where inplace mode is turned on the record is a live one.           *)
LEMMA SetOptionsImplements ==
  ASSUME SeqInv, Supported, SetOptions PROVE SeqInv' /\ Sequence!Next
<1>1. TypeInv'
  BY TypeStep DEF SeqInv, Next
<1>2. /\ phase = "idle" /\ options' \in Options
      /\ status \in {"err", "end"} => Inplace' = Inplace
      /\ UNCHANGED <<rec, started, phase, status, delivered, cursor, faults>>
  BY DEF SetOptions, Inplace
<1>3. Verify' \in BOOLEAN /\ (Inplace' => MayReuse)
  BY <1>2, OptionsAssumption DEF Verify, Inplace, AllOptions, MayReuse
<1>4. Inplace' => rec'.kind = "orig"
  BY <1>2, <1>3 DEF SeqInv
<1>5. MayCall' => MayCall
  BY <1>2 DEF MayCall
<1>6. SeqInv'
  BY <1>1, <1>2, <1>4, <1>5 DEF SeqInv, Untaken, Excused
<1>7. Sequence!Configure
  BY <1>2, <1>3 DEF Sequence!Configure, Pending
<1> QED BY <1>6, <1>7 DEF Sequence!Next

(* Every step of the iterator implements a step of the sequence.             *)
LEMMA SequenceStep ==
  ASSUME SeqInv, Supported, [Next]_vars
  PROVE  SeqInv' /\ [Sequence!Next]_(Sequence!vars)
<1>1. CASE UNCHANGED vars
  <2>1. Inplace' = Inplace /\ Verify' = Verify
    BY <1>1, OptionsStay DEF vars
  <2>2. SeqInv'
    BY <1>1, <2>1, TypeStep DEF vars, SeqInv, MayCall, Untaken, Excused
  <2> QED BY <1>1, <2>1, <2>2 DEF vars, Pending, Sequence!vars
<1> QED BY <1>1, DetectFailsImplements, AdvanceImplements, SkipImplements,
          KeepImplements, ClientImplements, SetOptionsImplements DEF Next

(* In every supported configuration, for every archive: the iterator hands   *)
(* out the archive's own records, each once and in order, and it ends or     *)
(* fails only for a reason, whatever the caller (or another thread) does     *)
(* with the records in the meantime and whichever reads fail.                *)
THEOREM ImplementsSequence ==
  ASSUME Supported PROVE Spec => HandsOutTheArchive
<1>1. SeqInv /\ [Next]_vars => SeqInv' /\ [Sequence!Next]_(Sequence!vars)
  BY SequenceStep
<1> QED BY <1>1, SeqInit, SequenceInit, PTL DEF Spec, HandsOutTheArchive, Sequence!Spec

(* In every supported configuration the reader, the limit on it and          *)
(* content_length agree about where the record's block ends.                 *)
THEOREM StaysAligned ==
  ASSUME Supported PROVE Spec => []Aligned
<1>1. SeqInv => Aligned
  BY DEF SeqInv, Untaken, Aligned, Placed
<1>2. SeqInv /\ [Next]_vars => SeqInv'
  BY SequenceStep
<1> QED BY <1>1, <1>2, SeqInit, PTL DEF Spec
-----------------------------------------------------------------------------
(* What the caller can do to the record that it holds.                       *)
Handled(s) ==
  \/ \E n \in Nat : s \in ReadUpTo(rec, n)
  \/ s \in Failed(rec)
  \/ /\ rec.kind \in {"orig", "frozen"}
     /\ \E p \in 0 .. rec.pos + Readable(rec) : s = SeekTo(rec, p)
  \/ \E o \in Consume(rec) \cup Freeze(rec) : s = o.rec
  \/ Unparsed /\ \E o \in ParseHttp(rec, options.decode_http_payload) : s = o.rec
  \/ \E consume \in BOOLEAN : \E o \in VerifyBlockDigest(rec, consume) : s = o.rec
  \/ \E n \in 0 .. 2 : s = SetBytesPayload(rec, n)
  \/ \E checksum \in BOOLEAN : \E w \in Write(rec, checksum) : s = w.rec

(* What the next step does to the current record.                            *)
LEMMA RecordMoves ==
  ASSUME TypeInv, [Next]_vars
  PROVE  \/ Advance \/ Skip \/ Keep
         \/ rec' = rec /\ UNCHANGED delivered /\ phase' \in {phase, "idle"}
         \/ Handled(rec') /\ (\E op \in Ops : Holds(op)) /\ UNCHANGED <<phase, delivered>>
<1>1. CASE Client
  <2>1. UNCHANGED <<phase, delivered>> /\ \E op \in Ops : Holds(op)
    BY <1>1 DEF Client, ClientRead, ClientSeek, ClientConsume, ClientFreeze, ClientParseHttp,
                ClientVerify, ClientReplace, ClientWrite, ClientCall, ClientUnchanged, Ops
  <2>2. Handled(rec')
    <3>1. \A n \in 1 .. Readable(rec) + 1 : n \in Nat
      BY ReadableRange DEF TypeInv
    <3>2. CASE ClientRead
      BY <3>1, <3>2 DEF ClientRead, Handled
    <3>3. CASE ClientSeek \/ ClientReplace \/ ClientWrite
      BY <3>3 DEF ClientSeek, ClientReplace, ClientWrite, Handled
    <3>4. CASE ClientConsume \/ ClientFreeze
      BY <3>4 DEF ClientConsume, ClientFreeze, ClientCall, Handled
    <3>5. CASE ClientParseHttp \/ ClientVerify
      BY <3>5 DEF ClientParseHttp, ClientVerify, ClientCall, Handled
    <3> QED BY <1>1, <3>2, <3>3, <3>4, <3>5 DEF Client
  <2> QED BY <2>1, <2>2
<1>2. CASE DetectFails
  BY <1>2 DEF DetectFails, Return
<1>3. CASE SetOptions \/ UNCHANGED vars
  BY <1>3 DEF SetOptions, vars
<1> QED BY <1>1, <1>2, <1>3 DEF Next

-----------------------------------------------------------------------------
(* An iterator that makes a new record each time, of archives whose HTTP     *)
(* bodies do not grow when they are decoded.                                 *)
FreshOnly == \A o \in Options : ~ o.inplace
NeverGrows == \A o \in Options : o.decode_http_payload # {} => Shrinks

(* The counters of a record that was taken are right, and of one that is not *)
(* decided on nothing was read.                                              *)
CountInv ==
  /\ TypeInv
  /\ Measured(rec) \/ (Unmeasured(rec) /\ delivered = <<>> /\ phase # "keep")
  /\ phase = "keep" => JustParsed(rec)

LEMMA CountInit == Init => CountInv
BY TypeInit DEF Init, CountInv, Unmeasured

LEMMA CountStep ==
  ASSUME FreshOnly, NeverGrows, CountInv, [Next]_vars
  PROVE  CountInv'
<1>0. TypeInv /\ TypeInv' /\ Good(rec)
  BY TypeStep DEF CountInv, TypeInv
<1>1. ~ Inplace /\ (options.decode_http_payload # {} => Shrinks)
  BY <1>0 DEF TypeInv, TypeOK, FreshOnly, NeverGrows, Inplace
<1>2. Measured(rec) => rec.streamPos \in 0 .. N - 1
  BY <1>0, Constants DEF Measured, IsHeader, Good, Record, Position
<1>3. CASE Advance
  <2>1. PICK o \in NextFresh(rec) :
          /\ rec' = o.rec
          /\ \/ o.res = "ok" /\ phase' = "keep"
             \/ o.res # "ok" /\ phase' = "idle"
    BY <1>1, <1>3 DEF Advance, Return
  <2>2. UNCHANGED delivered  BY <1>3 DEF Advance
  <2>3. /\ o.res = "ok" => Measured(o.rec) /\ JustParsed(o.rec)
        /\ Measured(rec) => Measured(o.rec)
        /\ o.res = "ok" \/ Measured(o.rec) \/ Unmeasured(o.rec)
    BY <1>0, NextFreshMeasured DEF CountInv
  <2>4. o.res = "ok" \/ Measured(o.rec) \/ (Unmeasured(o.rec) /\ delivered = <<>>)
    BY <2>3 DEF CountInv
  <2>5. CASE o.res = "ok"
    BY <1>0, <2>1, <2>3, <2>5 DEF CountInv
  <2>6. CASE o.res # "ok"
    BY <1>0, <2>1, <2>2, <2>4, <2>6 DEF CountInv
  <2> QED BY <2>5, <2>6
<1>4. ASSUME phase = "keep", NEW v \in Checked
      PROVE  /\ Good(v.rec) /\ Measured(v.rec)
             /\ v.res = "valid" => NextCell(v.rec) = v.rec.streamPos + 1
             /\ v.rec.streamPos \in 0 .. N - 1
  <2>1. Measured(rec) /\ JustParsed(rec) /\ rec.streamPos \in 0 .. N - 1
    BY <1>2, <1>4 DEF CountInv
  <2>2. CASE ~ Verify
    <3>1. v.rec = rec  BY <2>2, <1>4 DEF Checked, Outcome
    <3> QED BY <1>0, <2>1, <3>1 DEF JustParsed, NextCell
  <2>3. CASE Verify
    <3>1. FALSE \in BOOLEAN /\ v \in VerifyBlockDigest(rec, FALSE)  BY <1>4, <2>3 DEF Checked
    <3>2. Good(v.rec) /\ v.rec.streamPos = rec.streamPos
      BY <1>0, <3>1, VerifyBlockDigestGood DEF Keeps
    <3>4. Measured(v.rec)
      BY <1>0, <2>1, <3>1, VerifyBlockDigestMeasured
    <3>3. v.res = "valid" => NextCell(v.rec) = rec.streamPos + 1
      BY <1>0, <2>1, <3>1, DigestDecides
    <3> QED BY <2>1, <3>2, <3>3, <3>4
  <2> QED BY <2>2, <2>3
<1>5. CASE Skip
  <2>1. Measured(rec') /\ phase' = "advance"  BY <1>4, <1>5 DEF Skip
  <2> QED BY <1>0, <2>1 DEF CountInv
<1>6. CASE Keep
  <2>1. PICK v \in Checked :
          /\ v.res = "valid"
          /\ rec' = v.rec \/ \E o \in ParseHttp(v.rec, options.decode_http_payload) : rec' = o.rec
          /\ phase' = "idle"
    BY <1>6 DEF Keep, Outcome, Return
  <2>2. phase = "keep"  BY <1>6 DEF Keep
  <2>3. Measured(rec')  BY <1>1, <1>4, <2>1, <2>2, ParseHttpMeasured
  <2> QED BY <1>0, <2>1, <2>3 DEF CountInv
<1>7. CASE Handled(rec') /\ (\E op \in Ops : Holds(op)) /\ UNCHANGED <<phase, delivered>>
  <2>1. Measured(rec) /\ phase # "keep" /\ rec.streamPos \in 0 .. N - 1
    BY <1>1, <1>2, <1>7 DEF Holds, CountInv
  <2>2. Measured(rec')
    <3>1. CASE \E n \in 0 .. 2 : rec' = SetBytesPayload(rec, n)
      <4>1. \A n \in 0 .. 2 : n \in Nat  OBVIOUS
      <4> QED BY <1>0, <2>1, <3>1, <4>1, SetBytesPayloadMeasured
    <3>2. CASE \/ \E n \in Nat : rec' \in ReadUpTo(rec, n)
               \/ rec' \in Failed(rec)
               \/ /\ rec.kind \in {"orig", "frozen"}
                  /\ \E p \in 0 .. rec.pos + Readable(rec) : rec' = SeekTo(rec, p)
               \/ \E o \in Consume(rec) : rec' = o.rec
      <4>1. Good(rec')  BY <1>0 DEF TypeInv
      <4>2. Reads(rec, rec')
        BY <1>0, <3>2, ReadUpToReads, FailedReads, SeekToReads, ConsumeReads
      <4> QED BY <1>0, <2>1, <4>1, <4>2, ReadsMeasured
    <3>3. CASE \E o \in Freeze(rec) : rec' = o.rec
      BY <1>0, <2>1, <3>3, FreezeMeasured
    <3>4. CASE Unparsed /\ \E o \in ParseHttp(rec, options.decode_http_payload) : rec' = o.rec
      BY <1>0, <1>1, <2>1, <3>4, ParseHttpMeasured DEF Unparsed
    <3>5. CASE \E consume \in BOOLEAN : \E o \in VerifyBlockDigest(rec, consume) : rec' = o.rec
      BY <1>0, <2>1, <3>5, VerifyBlockDigestMeasured
    <3>6. CASE \E checksum \in BOOLEAN : \E w \in Write(rec, checksum) : rec' = w.rec
      BY <1>0, <2>1, <3>6, WriteMeasured
    <3> QED BY <1>7, <3>1, <3>2, <3>3, <3>4, <3>5, <3>6 DEF Handled
  <2> QED BY <1>0, <1>7, <2>1, <2>2 DEF CountInv
<1>8. CASE rec' = rec /\ UNCHANGED delivered /\ phase' \in {phase, "idle"}
  BY <1>0, <1>8 DEF CountInv
<1> QED BY <1>0, <1>3, <1>5, <1>6, <1>7, <1>8, RecordMoves

(* A payload of which nothing was read is written with the Content-Length    *)
(* that it has, with a digest pass or without: for every archive, every use  *)
(* of the records and any failed reads.                                      *)
THEOREM WritesItsLength ==
  ASSUME FreshOnly, NeverGrows PROVE Spec => UntouchedIsWrittenExactly
<1>1. ASSUME CountInv, ClientWrite, Untouched
      PROVE  written' # "wrong" \/ written' = written
  <2>1. PICK checksum \in BOOLEAN : \E w \in Write(rec, checksum) :
          written' = IF w.res # "ok" THEN written
                     ELSE IF w.body = WrittenLength(rec) THEN "exact" ELSE "wrong"
    BY <1>1 DEF ClientWrite
  <2>2. Good(rec) /\ Measured(rec)
    BY <1>1 DEF CountInv, TypeInv, ClientWrite, Holds
  <2> QED BY <1>1, <2>1, <2>2, WriteMeasured DEF Untouched
<1>2. CountInv /\ [Next]_vars => CountInv'
  BY CountStep
<1>3. CountInv =>
        [ClientWrite /\ Untouched => written' # "wrong" \/ written' = written]_vars
  BY <1>1
<1> QED BY <1>2, <1>3, CountInit, PTL DEF Spec, UntouchedIsWrittenExactly

(* consume() leaves nothing of any payload, decoded or not, unless the       *)
(* stream fails.                                                             *)
THEOREM ConsumesTheRest ==
  ASSUME FreshOnly, NeverGrows PROVE Spec => ConsumeTakesTheRest
<1>1. ASSUME CountInv, ClientConsume, faults' = faults
      PROVE  Readable(rec') = 0
  <2>1. PICK o \in Consume(rec) : rec' = o.rec /\ Counted(o.res)
    BY <1>1 DEF ClientConsume, ClientCall
  <2>2. Good(rec) /\ Measured(rec)
    BY <1>1 DEF CountInv, TypeInv, ClientConsume, ClientCall, Holds
  <2>3. o.res # "io"
    <3>1. faults \in Nat  BY <1>1, FaultsNat DEF CountInv
    <3> QED BY <1>1, <2>1, <3>1 DEF Counted
  <2> QED BY <2>1, <2>2, <2>3, ConsumeReads
<1>2. CountInv /\ [Next]_vars => CountInv'
  BY CountStep
<1>3. CountInv => [ClientConsume /\ faults' = faults /\ (Inplace => status # "err")
                     => Readable(rec') = 0]_vars
  BY <1>1
<1> QED BY <1>2, <1>3, CountInit, PTL DEF Spec, ConsumeTakesTheRest
=============================================================================
