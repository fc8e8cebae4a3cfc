------------------------------- MODULE WarcRecord -------------------------------
(***************************************************************************)
(* fastwarc::warc::record::WarcRecord: a record, the reader it owns and    *)
(* the methods that move that reader.  The methods are operators from a    *)
(* record to its possible outcomes, because the iterator runs several of   *)
(* them under one lock.                                                    *)
(*                                                                         *)
(* A record owns the archive's reader (ReaderType), wrapped in a           *)
(* LimitedBufReader of `limit' bytes of which `pos' are read:              *)
(*   "orig"     the live stream,                                           *)
(*   "frozen"   an in-memory copy; `keeps' says whether the live stream is *)
(*              retained beside it,                                        *)
(*   "wrapped"  `wraps' stacks of payload decoders over the limited live   *)
(*              stream, which can still deliver `left' decoded cells,      *)
(*   "none"     no reader: detached, or dropped on an error path.          *)
(* `at' is the position of the live stream, whoever holds it.              *)
(***************************************************************************)
EXTENDS WarcArchive

CONSTANT MaxLimit   \* u64::MAX, the limit of an unlimited reader

ASSUME MaxLimitAssumption == MaxLimit \in Nat /\ MaxLimit >= N

ReaderKinds == {"orig", "frozen", "wrapped", "none"}

Record == [kind : ReaderKinds, at : Position, limit : Nat, pos : Nat,
           wraps : Nat, left : Nat, keeps : BOOLEAN, buf : Nat,
           contentLength : Nat, isHttp : BOOLEAN, httpParsed : BOOLEAN,
           httpLen : Nat, streamPos : Position]

(* WarcRecord::new and attach_reader: an unlimited reader at position a.    *)
Attached(a) ==
  [kind |-> "orig", at |-> a, limit |-> MaxLimit, pos |-> a, wraps |-> 0,
   left |-> 0, keeps |-> FALSE, buf |-> 0, contentLength |-> 0,
   isHttp |-> FALSE, httpParsed |-> FALSE, httpLen |-> 0, streamPos |-> a]

Outcome(r, res) == [rec |-> r, res |-> res]
NoReader(r)     == [r EXCEPT !.kind = "none"]

-----------------------------------------------------------------------------
(* Reading through the LimitedBufReader.                                     *)

(* Cells the reader can still deliver before it reports EOF.                *)
Readable(r) ==
  CASE r.kind = "orig"    -> Least(r.limit - r.pos, N - r.at)
    [] r.kind = "frozen"  -> r.limit - r.pos
    [] r.kind = "wrapped" -> r.left
    [] r.kind = "none"    -> 0

(* The end of the encoded payload below a decoder stack.                    *)
EncodedEnd(r) == Least(r.at + (r.limit - r.pos), N)

(* A decoder takes as much encoded input as it likes, ahead of the decoded  *)
(* bytes it hands out or not.                                               *)
Decoded(r, n, ats) ==
  {[r EXCEPT !.left = @ - n, !.at = a, !.pos = @ + (a - r.at)] : a \in ats}

ReadExactly(r, n) ==
  CASE r.kind = "orig"    -> {[r EXCEPT !.at = @ + n, !.pos = @ + n]}
    [] r.kind = "frozen"  -> {[r EXCEPT !.pos = @ + n]}
    [] r.kind = "wrapped" -> Decoded(r, n, r.at .. EncodedEnd(r))
    [] r.kind = "none"    -> {r}

(* Mutant: a decoder stops at its last output, before the end of its input. *)
ReadToLastOutput(r) == ReadExactly(r, Readable(r))

(* A decoder that reports EOF has seen the end of its (well-formed) input.  *)
ReadToEnd(r) ==
  IF r.kind = "wrapped" THEN Decoded(r, r.left, {EncodedEnd(r)})
                        ELSE ReadExactly(r, Readable(r))

ReadUpTo(r, n) == IF n > Readable(r) THEN ReadToEnd(r) ELSE ReadExactly(r, n)

(* The live stream fails while it is read: some of the cells were read.     *)
Failed(r) == IF r.kind = "frozen" THEN {}
             ELSE UNION {ReadExactly(r, n) : n \in 0 .. Readable(r)}

(* Mutant: the loop stops one short of n.                                   *)
ConsumeOneLess(r, n) ==
  IF n = 0 THEN {Outcome(r, "ok")}
  ELSE IF r.kind = "none" THEN {Outcome(r, "err")}
  ELSE {Outcome(s, "ok") : s \in ReadUpTo(r, n - 1)}

(* consume_n(n), and consume() which asks for content_length.               *)
ConsumeN(r, n) ==
  IF n = 0 THEN {Outcome(r, "ok")}
  ELSE IF r.kind = "none" THEN {Outcome(r, "err")}
  ELSE {Outcome(s, "ok") : s \in ReadUpTo(r, n)}
       \cup {Outcome(s, "io") : s \in Failed(r)}

(* Mutant: a payload that was read from is taken for consumed.              *)
ConsumeIfUnread(r) == IF r.pos > 0 THEN {Outcome(r, "ok")}
                                   ELSE ConsumeN(r, r.contentLength)

Consume(r) == ConsumeN(r, r.contentLength)

(* Mutant: the stream is moved by p, not to p.                              *)
SeekBy(r, p) == IF r.kind = "orig" THEN [r EXCEPT !.at = @ + p, !.pos = p]
                                   ELSE [r EXCEPT !.pos = p]

(* A seek on the payload reader to logical position p.                      *)
SeekTo(r, p) ==
  IF r.kind = "orig"
  THEN [r EXCEPT !.at = @ + (p - r.pos), !.pos = p]
  ELSE [r EXCEPT !.pos = p]

-----------------------------------------------------------------------------
(* freeze(): take the reader, bake in what is left of the payload.  Only an  *)
(* original reader can be frozen, any other one has been taken by then.      *)
Freeze(r) ==
  IF r.kind = "frozen" THEN {Outcome(r, "ok")}
  ELSE IF r.kind = "orig" THEN
    LET n == Readable(r)
    IN {Outcome([r EXCEPT !.kind = "frozen", !.keeps = TRUE, !.buf = r.at,
                          !.at = @ + n, !.limit = n, !.pos = 0,
                          !.contentLength = n], "ok")}
       \cup IF r.pos < r.limit THEN {Outcome(NoReader(r), "io")} ELSE {}
  ELSE {Outcome(NoReader(r), "err")}

(* set_bytes_payload() with n cells: keeps an original reader, wherever in   *)
(* the payload it stands.                                                    *)
SetBytesPayload(r, n) ==
  [r EXCEPT !.kind = "frozen", !.keeps = (r.kind = "orig"), !.buf = N,
            !.limit = n, !.pos = 0, !.contentLength = n]

-----------------------------------------------------------------------------
(* parse_warc_headers_with_opts() on a reader without limit.                 *)

(* Cell q is a header: its fields, and the limit on the payload.  A missing *)
(* Content-Length leaves content_length as it was.                          *)
HeaderParsed(r, q) ==
  LET len == IF Cell[q].hasLen THEN Cell[q].len ELSE r.contentLength
  IN [r EXCEPT !.at = q + 1, !.streamPos = q, !.isHttp = Cell[q].http,
               !.contentLength = len, !.limit = len, !.pos = 0]

Moved(r, a, q) == [r EXCEPT !.at = a, !.pos = @ + (a - r.at), !.streamPos = q]

ParseWarcHeaders(r) ==
  UNION {{IF IsHeader(q) THEN Outcome(HeaderParsed(r, q), "ok")
          ELSE IF q = N  THEN Outcome(Moved(r, N, N), "eof")
          ELSE Outcome(Moved(r, q + 1, q), "err")}
         \cup {Outcome(Moved(r, a, a), "io") : a \in r.at .. q} : q \in Stops(r.at)}

(* The same on a decoder that is left over from a payload: decoded bytes     *)
(* are no header, and there is nothing after them.                           *)
ParseDecoded(r) ==
  IF r.left = 0 \/ Quirks
  THEN {Outcome(s, "eof") : s \in ReadToEnd(r)}
  ELSE {Outcome(s, "err") : s \in ReadExactly(r, 1)}

-----------------------------------------------------------------------------
(* parse_http_with_opts() and wrap_reader_in_payload_decoders().             *)

(* The cell the payload reader is about to deliver.                         *)
NextCell(r) == IF r.kind = "frozen" THEN r.buf + r.pos ELSE r.at

AtHttp(r) == /\ r.kind \in {"orig", "frozen"}
             /\ Readable(r) > 0
             /\ NextCell(r) < N /\ Cell[NextCell(r)].kind = "http"

(* Mutant: content_length still counts the HTTP header block.               *)
HttpHeadersCounted(r, n) ==
  [r EXCEPT !.at = @ + n, !.limit = r.contentLength, !.pos = 0,
            !.httpParsed = TRUE, !.httpLen = n]

(* The header block is read and the rest becomes the payload: the limit is   *)
(* what is left of content_length, counted from here.                        *)
HttpHeadersParsed(r, n) ==
  LET rest == r.contentLength - n
  IN IF r.kind = "frozen"
     THEN [r EXCEPT !.buf = @ + r.pos + n, !.contentLength = rest,
                    !.limit = Least(rest, Readable(r) - n), !.pos = 0,
                    !.httpParsed = TRUE, !.httpLen = n]
     ELSE [r EXCEPT !.at = @ + n, !.contentLength = rest, !.limit = rest,
                    !.pos = 0, !.httpParsed = TRUE, !.httpLen = n]

(* The codings of http cell c that the caller asked to have decoded.        *)
Applied(c, decode) ==
  {e \in {<<"transfer", c.te>>, <<"content", c.ce>>} :
     e[1] \in decode /\ e[2] # "absent"}

(* An unknown coding is found out after the reader was taken.  A frozen      *)
(* payload is decoded at once, a live one by a stack of decoders.            *)
WrapReader(r, c, decode) ==
  LET encs == Applied(c, decode)
      many == <<"transfer", "known">> \in encs /\ <<"content", "known">> \in encs
  IN IF encs = {} THEN Outcome(r, "ok")
     ELSE IF \E e \in encs : e[2] = "unsupported"
          THEN Outcome(NoReader(r), "err")
     ELSE IF r.kind = "frozen"
          THEN Outcome([r EXCEPT !.limit = c.dec, !.pos = 0, !.buf = N,
                                 !.contentLength = c.dec], "ok")
     ELSE Outcome([r EXCEPT !.kind = "wrapped", !.left = c.dec,
                            !.wraps = IF many THEN 2 ELSE 1], "ok")

ParseHttp(r, decode) ==
  IF r.httpParsed \/ ~ r.isHttp THEN {Outcome(r, "ok")}
  ELSE IF r.kind = "none" THEN {Outcome(r, "err")}
  ELSE
    (IF AtHttp(r)
     THEN LET c == Cell[NextCell(r)]
          IN IF c.ok THEN {WrapReader(HttpHeadersParsed(r, 1), c, decode)}
                     ELSE {Outcome(s, "err") : s \in ReadExactly(r, 1)}
     ELSE \* no HTTP header here: lines of the payload are taken for one
          {Outcome(HttpHeadersParsed(r, n), "ok") : n \in 0 .. Readable(r)})
    \cup {Outcome(s, "io") : s \in Failed(r)}

-----------------------------------------------------------------------------
(* verify_block_digest(): unless it consumes the record it freezes it first, *)
(* reads the copy to its end and seeks back.                                 *)
WholeBlock(r) ==
  /\ r.pos = 0 /\ ~ r.httpParsed
  /\ NextCell(r) = r.streamPos + 1
  /\ Readable(r) = DeclaredLength(r.streamPos)

DigestResult(r) ==
  IF WholeBlock(r) /\ Cell[r.streamPos].digest = "match" THEN "valid" ELSE "invalid"

(* Mutant: a record without a digest is as good as one with the right one.  *)
VerifyIfPresent(r, consume) ==
  {Outcome(f.rec, IF Cell[r.streamPos].digest = "missing" THEN "valid"
                  ELSE DigestResult(f.rec)) : f \in Freeze(r)}

VerifyBlockDigest(r, consume) ==
  IF Cell[r.streamPos].digest = "missing" THEN {Outcome(r, "invalid")}
  ELSE IF r.kind = "none" THEN {Outcome(r, "invalid")}
  ELSE IF consume THEN {Outcome(s, DigestResult(r)) : s \in ReadToEnd(r)}
                       \cup {Outcome(s, "io") : s \in Failed(r)}
  ELSE {Outcome(f.rec, IF f.res = "ok" THEN DigestResult(f.rec)
                       ELSE IF f.res = "io" THEN "io" ELSE "invalid")
          : f \in Freeze(r)}

(* Mutant: no rewind after the digest pass.                                 *)
WriteUnrewound(r, checksum) ==
  UNION {{[rec |-> s, res |-> "ok", body |-> r.httpLen + Readable(s)]
            : s \in IF checksum THEN ReadToEnd(f.rec) ELSE {f.rec}}
         : f \in IF checksum THEN Freeze(r) ELSE {Outcome(r, "ok")}}

(* write_with_block_size_checksum(): the Content-Length written is computed  *)
(* from content_length before anything is frozen; the digest pass ends with  *)
(* a rewind; then whatever the reader delivers is written.                   *)
WrittenLength(r) == r.contentLength + r.httpLen

Written(r, w) ==
  {[rec |-> s, res |-> "ok", body |-> r.httpLen + Readable(w)] : s \in ReadToEnd(w)}
Unwritten(r, res) == [rec |-> r, res |-> res, body |-> 0]

Write(r, checksum) ==
  IF r.kind = "none" THEN {Unwritten(r, "err")}
  ELSE IF checksum
       THEN UNION {IF f.res = "ok" THEN Written(r, SeekTo(f.rec, 0))
                                   ELSE {Unwritten(f.rec, f.res)} : f \in Freeze(r)}
       ELSE Written(r, r) \cup {Unwritten(s, "io") : s \in Failed(r)}

-----------------------------------------------------------------------------
(* detach_reader() and the two ways to the next record.                      *)

(* What the reader handed back is positioned on: the archive, or what is     *)
(* below the outer one of two decoder stacks.                                *)
Detaches(r) ==
  CASE r.kind = "none"    -> "nothing"
    [] r.kind = "frozen"  -> IF r.keeps THEN "archive" ELSE "nothing"
    [] r.kind = "wrapped" -> IF r.wraps > 1 THEN "inner" ELSE "archive"
    [] r.kind = "orig"    -> "archive"

AfterDetach(r) == IF r.kind = "frozen" THEN [r EXCEPT !.keeps = FALSE]
                                       ELSE NoReader(r)

(* Mutant: the payload is not consumed.                                      *)
PayloadLeft(r) == {Outcome(r, "ok")}

(* What is left of the payload is consumed first, unless it is frozen.       *)
FinishPayload(r) ==
  IF r.kind # "frozen" /\ r.contentLength > 0 THEN Consume(r)
                                              ELSE {Outcome(r, "ok")}

(* A new record takes over the detached reader; if its header cannot be      *)
(* parsed the new record is dropped, and the reader with it.                 *)
FromDetached(r) ==
  CASE Detaches(r) = "nothing" -> {Outcome(r, "eof")}
    [] Detaches(r) = "inner" ->
         {Outcome(NoReader(r), "eof")}
         \cup IF r.at < EncodedEnd(r) \/ r.left > 0
              THEN {Outcome(NoReader(r), "err")} ELSE {}
    [] Detaches(r) = "archive" ->
         {IF o.res = "ok" THEN o ELSE Outcome(AfterDetach(r), o.res)
            : o \in ParseWarcHeaders(Attached(r.at))}

(* next_impl(): a failed consume leaves the record as it is.                 *)
NextFresh(r) ==
  UNION {IF c.res = "ok" THEN FromDetached(c.rec) ELSE {c} : c \in FinishPayload(r)}

(* next_inplace_impl(): drop the limit, forget the old record's HTTP state,  *)
(* parse the next header with the same instance.                             *)
Cleared(r) == [r EXCEPT !.isHttp = FALSE, !.httpParsed = FALSE, !.httpLen = 0]

ParseInplace(r) ==
  CASE r.kind = "orig"    -> ParseWarcHeaders(Cleared([r EXCEPT !.limit = MaxLimit,
                                                               !.pos = r.at]))
    [] r.kind = "wrapped" -> ParseDecoded(Cleared(r))
    [] OTHER              -> {Outcome(r, "eof")}

NextInplace(r) ==
  UNION {IF c.res = "ok" THEN ParseInplace(c.rec) ELSE {c} : c \in FinishPayload(r)}
=============================================================================
