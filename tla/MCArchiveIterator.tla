---------------------------- MODULE MCArchiveIterator ----------------------------
(***************************************************************************)
(* Small archives for model-checking ArchiveIterator.                      *)
(***************************************************************************)
EXTENDS ArchiveIterator

Plain == [kind |-> "data", ok |-> TRUE, len |-> 0, hasLen |-> TRUE, http |-> FALSE,
          digest |-> "missing", te |-> "absent", ce |-> "absent", dec |-> 0]

Data  == Plain
Blank == [Plain EXCEPT !.kind = "blank"]
Header(len, http, digest) ==
  [Plain EXCEPT !.kind = "header", !.len = len, !.http = http, !.digest = digest]
Http(te, ce, dec) ==
  [Plain EXCEPT !.kind = "http", !.te = te, !.ce = ce, !.dec = dec]
BadHeader == [Header(1, FALSE, "match") EXCEPT !.ok = FALSE]
BadHttpHeaders == [Http("absent", "absent", 0) EXCEPT !.ok = FALSE]

Stream(tape) == [p \in 0 .. Len(tape) - 1 |-> tape[p + 1]]

(* An HTTP record, a record whose payload is itself an archive, one without *)
(* a digest whose HTTP headers are too long, an empty one, one with a wrong *)
(* digest, and a header that cannot be parsed.                              *)
MixedTape ==
  << Header(5, TRUE, "match"), Http("absent", "known", 1), Data, Data, Data, Data,
     Blank, Header(6, FALSE, "match"), Header(1, FALSE, "match"), Data, Blank,
     Data, Header(0, FALSE, "match"), Data, Blank,
     Header(2, TRUE, "missing"), BadHttpHeaders, Data, Blank, Blank,
     Header(0, FALSE, "match"), Blank,
     Header(2, FALSE, "differs"), Data, Data, Blank, BadHeader >>
MixedArchive == Stream(MixedTape)
MixedN == Len(MixedTape)

(* Payloads in one coding that are shorter when decoded, the first of them  *)
(* a chunked archive; a record that holds an archive in mid-payload, junk,  *)
(* a header that cannot be parsed, and a record that the end of the file    *)
(* cuts off.                                                                *)
CodedTape ==
  << Header(6, TRUE, "match"), Http("known", "absent", 4),
     Data, Data, Data, Data, Header(1, FALSE, "match"), Blank,
     Header(5, TRUE, "match"), Http("absent", "known", 3), Data, Data, Data, Data,
     Data, Blank,
     Header(2, TRUE, "match"), Http("absent", "known", 0), Data, Blank,
     Header(3, FALSE, "match"), Data, Header(1, FALSE, "match"), Data, Blank,
     Header(2, TRUE, "match"), Http("absent", "absent", 0), Data, Blank,
     Data, Blank, BadHeader, Data, Blank,
     Header(3, FALSE, "match"), Data, Data >>
CodedArchive == Stream(CodedTape)
CodedN == Len(CodedTape)

(* Every record is sound: what iterating must hand out completely.          *)
SoundTape ==
  << Header(5, TRUE, "match"), Http("absent", "absent", 0), Data, Data, Data, Data,
     Blank, Header(4, FALSE, "match"), Header(1, FALSE, "match"), Data, Blank, Data,
     Blank, Blank, Header(0, FALSE, "match"), Blank,
     Header(4, TRUE, "match"), Http("absent", "absent", 0), Data, Data, Data >>
SoundArchive == Stream(SoundTape)
SoundN == Len(SoundTape)

(* A payload in two codings, and another record.                            *)
TwiceCodedTape ==
  << Header(4, TRUE, "match"), Http("known", "known", 2), Data, Data, Data, Blank,
     Header(2, FALSE, "match"), Data, Data, Blank,
     Header(3, TRUE, "match"), Http("known", "known", 1), Data, Data, Blank,
     Header(1, FALSE, "match"), Data >>
TwiceCodedArchive == Stream(TwiceCodedTape)
TwiceCodedN == Len(TwiceCodedTape)

(* Options.                                                                  *)
Fresh == [inplace |-> FALSE, verify_digests |-> FALSE, parse_http |-> FALSE,
          stream_detect |-> TRUE, decode_http_payload |-> {}]
FreshOptions ==
  {[Fresh EXCEPT !.verify_digests = v, !.parse_http = p] : v, p \in BOOLEAN}
ModesOptions ==
  {[Fresh EXCEPT !.inplace = TRUE], Fresh}
    \cup {[Fresh EXCEPT !.parse_http = TRUE, !.decode_http_payload = d]
            : d \in SUBSET {"transfer", "content"}}
DecodeAll == {[Fresh EXCEPT !.parse_http = TRUE,
                            !.decode_http_payload = {"transfer", "content"}]}
InplaceVerify ==
  {[Fresh EXCEPT !.inplace = TRUE, !.parse_http = TRUE, !.verify_digests = TRUE]}
=============================================================================
