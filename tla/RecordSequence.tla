----------------------------- MODULE RecordSequence -----------------------------
(***************************************************************************)
(* What iterating an archive promises: the records are the ones the        *)
(* archive's own Content-Length headers lay out, each is taken once, in    *)
(* order, and is handed to the caller or, for a stated reason, passed      *)
(* over.  An error is reported only for a reason, and the end only at the  *)
(* end of the archive or after something went wrong.                       *)
(***************************************************************************)
EXTENDS WarcArchive, Sequences

VARIABLES
  verify,      \* verify_digests: pass over records without a valid digest
  cursor,      \* where the block of the last record taken ends
  pending,     \* the record taken and not yet decided on, as a set
  delivered,   \* the records handed out, by the position of their header
  status,      \* result of the last call: "none", "item", "end", "err"
  faults       \* failed reads of the live stream so far

vars == <<verify, cursor, pending, delivered, status, faults>>

(* Nothing but what the parser skips follows, or something it cannot parse. *)
AtEnd     == N \in Stops(cursor)
Malformed == \E q \in Stops(cursor) : q < N /\ ~ IsHeader(q)

(* A record whose HTTP header block cannot be parsed.                       *)
BadHttp(q) == q + 1 < N /\ Cell[q].http /\ ~ Cell[q + 1].ok

(* A record whose block is cut off by the end of the stream.                *)
Clipped(q) == q + 1 + DeclaredLength(q) > N

Init ==
  /\ verify \in BOOLEAN
  /\ cursor = 0
  /\ pending = {}
  /\ delivered = <<>>
  /\ status = "none"
  /\ faults = 0

(* The next record in the archive is taken.                                 *)
Take ==
  /\ pending = {}
  /\ \E q \in Stops(cursor) :
       /\ IsHeader(q)
       /\ cursor' = BlockEnd(q)
       /\ pending' = {q}
  /\ UNCHANGED <<verify, delivered, status, faults>>

(* Where digests are verified, only a record whose digest matches is handed *)
(* out; one that is cut off has no such digest.                             *)
HandOut ==
  /\ \E q \in pending :
       /\ verify => Cell[q].digest = "match" /\ ~ Clipped(q)
       /\ delivered' = Append(delivered, q)
  /\ pending' = {}
  /\ status' = "item"
  /\ UNCHANGED <<verify, cursor, faults>>

(* Digests are verified and this record has none, or a wrong one, or the    *)
(* stream failed under the check.                                           *)
PassOver ==
  /\ verify
  /\ \E q \in pending : Cell[q].digest # "match" \/ Clipped(q) \/ faults' > 0
  /\ faults' >= faults
  /\ pending' = {}
  /\ UNCHANGED <<verify, cursor, delivered, status>>

(* The caller gets an error: for the header of the record taken, for what   *)
(* follows the last one, or because the stream failed, now or before.       *)
Report ==
  /\ \/ \E q \in pending : BadHttp(q)
     \/ pending = {} /\ Malformed
     \/ faults' > 0
  /\ faults' >= faults
  /\ pending' = {}
  /\ status' = "err"
  /\ UNCHANGED <<verify, cursor, delivered>>

Finish ==
  /\ pending = {}
  /\ AtEnd \/ Malformed \/ faults > 0
  /\ status' = "end"
  /\ UNCHANGED <<verify, cursor, pending, delivered, faults>>

(* The caller's own reads of a record can fail, too.                        *)
Fault == faults' > faults /\ UNCHANGED <<verify, cursor, pending, delivered, status>>

(* The caller changes its mind, between two records.                        *)
Configure ==
  /\ pending = {}
  /\ verify' \in BOOLEAN
  /\ UNCHANGED <<cursor, pending, delivered, status, faults>>

Next == Take \/ HandOut \/ PassOver \/ Report \/ Finish \/ Fault \/ Configure

Spec == Init /\ [][Next]_vars
=============================================================================
