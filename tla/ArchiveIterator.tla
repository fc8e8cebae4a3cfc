----------------------------- MODULE ArchiveIterator -----------------------------
(***************************************************************************)
(* fastwarc::warc::iter::ArchiveIterator[ThreadSafe]: iterating the        *)
(* records of an archive, and what the caller does with a record between   *)
(* two calls of next().                                                    *)
(*                                                                         *)
(* One call of next() locks the shared record twice: to move on to the     *)
(* next record, and to decide whether to keep it (verify, parse HTTP).     *)
(* Each is an action.  In the thread-safe iterator a thread that holds the *)
(* record may run between the two, but only in inplace mode is the record  *)
(* it holds the one the iterator works on.                                 *)
(***************************************************************************)
EXTENDS WarcRecord, Sequences

CONSTANTS
  Options,      \* the ArchiveIteratorOptions the caller sets
  Threaded,     \* other threads hold the records that were handed out
  ClientOps,    \* what the caller may do with a record
  MaxFaults     \* bound: failed reads of the live stream

(* ArchiveIteratorOptions; decode_http_payload is the set of what is decoded. *)
AllOptions ==
  [inplace : BOOLEAN, verify_digests : BOOLEAN, parse_http : BOOLEAN,
   stream_detect : BOOLEAN, decode_http_payload : SUBSET {"transfer", "content"}]

(* "replace_consumed" is "replace" of a live payload that was read to its   *)
(* end.                                                                     *)
Ops == {"read", "seek", "consume", "freeze", "parse_http", "verify", "replace",
        "replace_consumed", "write"}

ASSUME OptionsAssumption ==
  /\ Options \subseteq AllOptions
  /\ Threaded \in BOOLEAN
  /\ ClientOps \subseteq Ops
  /\ MaxFaults \in Nat

VARIABLES
  options,     \* the iterator's options
  rec,         \* the current record (`cur')
  started,     \* stream_started
  phase,       \* "idle", "advance" (inside next(), a record was passed over),
               \* "keep" (inside next(), the record is not decided on)
  status,      \* what the last call of next() returned
  delivered,   \* history: header positions of the records handed out
  cursor,      \* history: where the block of the last record taken ends
  written,     \* the last write(): was its Content-Length the length written?
  faults       \* failed reads so far

vars == <<options, rec, started, phase, status, delivered, cursor, written, faults>>

Inplace == options.inplace
Verify  == options.verify_digests

TypeOK ==
  /\ options \in Options
  /\ rec \in Record /\ rec.pos <= rec.limit
  /\ started \in BOOLEAN
  /\ phase \in {"idle", "advance", "keep"}
  /\ status \in {"none", "item", "end", "err"}
  /\ delivered \in Seq(0 .. N - 1)
  /\ cursor \in Position
  /\ written \in {"none", "exact", "wrong"}
  /\ faults \in 0 .. MaxFaults

Init ==
  /\ options \in Options
  /\ rec = Attached(0)
  /\ started = FALSE
  /\ phase = "idle"
  /\ status = "none"
  /\ delivered = <<>>
  /\ cursor = 0
  /\ written = "none"
  /\ faults = 0

(* An outcome is an I/O error: one more of the failed reads.                *)
Counted(res) ==
  /\ res = "io" => faults < MaxFaults
  /\ faults' = IF res = "io" THEN faults + 1 ELSE faults

Return(s) == phase' = "idle" /\ status' = s

(* The caller does not call next() again after the end, and in inplace mode *)
(* not after an error ("the instance should be treated as tainted").        *)
MayCall == /\ phase = "idle"
           /\ status # "end"
           /\ Inplace => status # "err"

(* The first call looks at the magic bytes; if that read fails the call may *)
(* be repeated.                                                             *)
DetectFails ==
  /\ MayCall /\ ~ started /\ options.stream_detect
  /\ Counted("io")
  /\ Return("err")
  /\ UNCHANGED <<options, rec, started, delivered, cursor, written>>

(* The first lock of next().                                                *)
Advance ==
  /\ MayCall \/ phase = "advance"
  /\ started' = TRUE
  /\ \E o \in IF Inplace THEN NextInplace(rec) ELSE NextFresh(rec) :
       /\ rec' = o.rec
       /\ Counted(o.res)
       /\ \/ /\ o.res = "ok"
             /\ phase' = "keep"
             /\ cursor' = BlockEnd(o.rec.streamPos)
             /\ UNCHANGED status
          \/ /\ o.res = "eof"
             /\ Return("end") /\ UNCHANGED cursor
          \/ /\ o.res \in {"err", "io"}
             /\ Return("err") /\ UNCHANGED cursor
  /\ UNCHANGED <<options, delivered, written>>

(* verify_block_digest(false).unwrap_or(false), before anything is parsed.  *)
Checked == IF Verify THEN VerifyBlockDigest(rec, FALSE) ELSE {Outcome(rec, "valid")}

(* Mutant: the loop looks at the same record again.                         *)
SkipNowhere ==
  /\ phase = "keep"
  /\ \E v \in Checked : v.res = "invalid" /\ rec' = v.rec
  /\ UNCHANGED <<options, started, phase, status, delivered, cursor, written, faults>>

(* The second lock: the record is passed over, or parsed and handed out.    *)
Skip ==
  /\ phase = "keep"
  /\ \E v \in Checked :
       /\ v.res # "valid"
       /\ rec' = v.rec
       /\ Counted(v.res)
  /\ phase' = "advance"
  /\ UNCHANGED <<options, started, status, delivered, cursor, written>>

Keep ==
  /\ phase = "keep"
  /\ \E v \in Checked :
       /\ v.res = "valid"
       /\ \E o \in IF options.parse_http
                 THEN ParseHttp(v.rec, options.decode_http_payload)
                 ELSE {Outcome(v.rec, "ok")} :
            /\ rec' = o.rec
            /\ Counted(o.res)
            /\ IF o.res = "ok"
               THEN /\ Return("item")
                    /\ delivered' = Append(delivered, rec.streamPos)
               ELSE Return("err") /\ UNCHANGED delivered
  /\ UNCHANGED <<options, started, cursor, written>>

-----------------------------------------------------------------------------
(* The caller, with the record it was handed last.                           *)

Holds(op) ==
  /\ op \in ClientOps
  /\ delivered # <<>>
  /\ phase = "idle" \/ (Threaded /\ Inplace)

Unparsed == rec.isHttp /\ ~ rec.httpParsed /\ NextCell(rec) = rec.streamPos + 1

ClientUnchanged == UNCHANGED <<options, started, phase, status, delivered, cursor>>

ClientRead ==
  /\ Holds("read")
  /\ \E n \in 1 .. Readable(rec) + 1 :
       \/ rec' \in ReadUpTo(rec, n) /\ UNCHANGED faults
       \/ rec' \in Failed(rec) /\ Counted("io")
  /\ ClientUnchanged /\ UNCHANGED written

ClientSeek ==
  /\ Holds("seek")
  /\ rec.kind \in {"orig", "frozen"}
  /\ rec.limit # MaxLimit
  /\ \E p \in 0 .. rec.pos + Readable(rec) : rec' = SeekTo(rec, p)
  /\ ClientUnchanged /\ UNCHANGED <<written, faults>>

(* The methods that return nothing but a result.                            *)
ClientCall(op, outcomes) ==
  /\ Holds(op)
  /\ \E o \in outcomes : rec' = o.rec /\ Counted(o.res)
  /\ ClientUnchanged /\ UNCHANGED written

ClientConsume   == ClientCall("consume", Consume(rec))
ClientFreeze    == ClientCall("freeze", Freeze(rec))
ClientParseHttp == Unparsed /\ ClientCall("parse_http", ParseHttp(rec, options.decode_http_payload))
ClientVerify    == \E consume \in BOOLEAN :
                     ClientCall("verify", VerifyBlockDigest(rec, consume))

ClientReplace ==
  /\ \E op \in {"replace", "replace_consumed"} :
       Holds(op) /\ (op = "replace_consumed" => rec.kind = "orig" /\ Readable(rec) = 0)
  /\ \E n \in 0 .. 2 : rec' = SetBytesPayload(rec, n)
  /\ ClientUnchanged /\ UNCHANGED <<written, faults>>

ClientWrite ==
  /\ Holds("write")
  /\ \E checksum \in BOOLEAN : \E w \in Write(rec, checksum) :
       /\ rec' = w.rec
       /\ Counted(w.res)
       /\ written' = IF w.res # "ok" THEN written
                     ELSE IF w.body = WrittenLength(rec) THEN "exact" ELSE "wrong"
  /\ ClientUnchanged

Client == \/ ClientRead \/ ClientSeek \/ ClientConsume \/ ClientFreeze
          \/ ClientParseHttp \/ ClientVerify \/ ClientReplace \/ ClientWrite

(* set_options() and the setters of single options, between two calls.  The  *)
(* caller does not leave or enter inplace mode after an error or the end,    *)
(* nor enter it while a payload is being decoded.                            *)
SetOptions ==
  /\ phase = "idle"
  /\ options' \in Options
  /\ status \in {"err", "end"} => options'.inplace = Inplace
  /\ options'.inplace => Inplace \/ rec.kind # "wrapped"
  /\ UNCHANGED <<rec, started, phase, status, delivered, cursor, written, faults>>

Next == DetectFails \/ Advance \/ Skip \/ Keep \/ Client \/ SetOptions

Spec == Init /\ [][Next]_vars

(* A for loop calls next() until it returns None.                           *)
FairSpec == Spec /\ WF_vars(Advance) /\ WF_vars(Skip \/ Keep)

-----------------------------------------------------------------------------
(* As long as no read fails a loop that calls next() gets to the end, also   *)
(* if single records are passed over or reported (and the caller goes on);   *)
(* or to a header that cannot be parsed, which costs the loop its reader:    *)
(* next() has detached it from the old record, whose content_length is still *)
(* to be consumed, so that every later call fails ("No reader set").         *)
Malformed == \E q \in Stops(cursor) : q < N /\ ~ IsHeader(q)
FailsForGood == rec.kind = "none" /\ rec.contentLength > 0

Ends == [](faults = 0) => <>(status = "end" \/ (Malformed /\ [](FailsForGood /\ status = "err")))

(* As long as next() may be called, what the live reader can still deliver  *)
(* ends exactly where the block of the record taken last ends, however much *)
(* of it the caller read, sought, parsed as HTTP or froze, and              *)
(* content_length covers it, so that consume() gets there.  This is what    *)
(* set_limit, freeze and consume have to keep up between them.              *)
Aligned ==
  rec # Attached(0) /\ (MayCall \/ phase # "idle") =>
    /\ rec.kind = "orig" => /\ EncodedEnd(rec) = cursor
                            /\ rec.contentLength = rec.limit
    /\ rec.kind = "frozen" /\ rec.keeps => rec.at = cursor

(* The record taken and not yet handed out or passed over.                  *)
Pending == IF phase = "keep" THEN {rec.streamPos} ELSE {}

Sequence == INSTANCE RecordSequence WITH pending <- Pending, verify <- Verify

(* The iterator hands out the records the archive's own lengths lay out, in *)
(* order, without loss, repetition or phantom, and ends or fails only for a *)
(* reason: it implements RecordSequence.                                    *)
HandsOutTheArchive == Sequence!Spec

(* The configurations and ways to use a record for which the iterator can   *)
(* keep that promise; there is a counterexample for each of the others.     *)
Supported ==
  /\ \A o \in Options : o.decode_http_payload = {}
  /\ "replace" \notin ClientOps
  /\ \A o \in Options : o.inplace =>
       /\ \A p \in Options : ~ p.verify_digests
       /\ ClientOps \cap {"freeze", "verify", "replace_consumed", "write"} = {}
       /\ o.parse_http => ~ Threaded
       /\ \A q \in 0 .. N - 1 : IsHeader(q) => Cell[q].hasLen

(* None means the end of the archive (next_inplace: "`None` at EOF"; the    *)
(* header parser under next(): "`OK(None)` if regular EOF reached").        *)
EndsAtTheEnd == status = "end" => N \in Stops(cursor)

(* write() ("Ensure Content-Length is correct"): a payload that nothing was *)
(* read of since it was limited, frozen or rewound, that no decoder is on   *)
(* top of, and that the end of the stream does not cut off, is written with *)
(* the Content-Length of what is written, digest pass or not.               *)
Untouched == rec.pos = 0 /\ rec.kind \in {"orig", "frozen"}
             /\ Readable(rec) = rec.limit
UntouchedIsWrittenExactly ==
  [][ClientWrite /\ Untouched => written' # "wrong" \/ written' = written]_vars

(* consume(): after it, nothing is left of the payload ("Consume the        *)
(* remaining bytes of the WARC record payload").  A record that a call in   *)
(* inplace mode failed on has no payload, it is "tainted".                  *)
ConsumeTakesTheRest ==
  [][ClientConsume /\ faults' = faults /\ (Inplace => status # "err")
       => Readable(rec') = 0]_vars
=============================================================================
