------------------------------ MODULE WarcArchive ------------------------------
(***************************************************************************)
(* The (decompressed) byte stream a WARC reader is attached to, cut into   *)
(* cells, the smallest pieces the record parser tells apart:               *)
(*   "header"  a "WARC/x.y" version line with the header block after it,   *)
(*   "http"    the HTTP status line and header block a record may hold,    *)
(*   "data"    any other bytes: payload, or junk between two records,      *)
(*   "blank"   an empty line.                                              *)
(* A Content-Length is counted in cells, so a cell stands for as many      *)
(* bytes as it has.  Nothing says that a header cell is a record: it may   *)
(* as well be payload (a WARC file inside of a record), which is why the   *)
(* position at which the parser resumes matters.                           *)
(***************************************************************************)
EXTENDS Integers

CONSTANTS N,        \* number of cells in the stream
          Cell,     \* the cell at each position
          Quirks    \* quirks_mode: skip what is not a header before a header

Kinds   == {"header", "http", "data", "blank"}
Codings == {"absent", "known", "unsupported"}
Digests == {"match", "differs", "missing"}

(***************************************************************************)
(* ok: the header block can be parsed (it does not exceed max_header_len). *)
(* len, hasLen, http, digest describe a header cell: its Content-Length,   *)
(* whether it has that header, whether its Content-Type is                 *)
(* application/http, and what a check of its WARC-Block-Digest gives.      *)
(* te, ce, dec describe an http cell: the state of Transfer-Encoding and   *)
(* Content-Encoding and the length of the decoded body.                    *)
(***************************************************************************)
Cells == [kind : Kinds, ok : BOOLEAN, len : Nat, hasLen : BOOLEAN,
          http : BOOLEAN, digest : Digests,
          te : Codings, ce : Codings, dec : Nat]

ASSUME ArchiveAssumption ==
  /\ N \in Nat
  /\ Cell \in [0 .. N - 1 -> Cells]
  /\ Quirks \in BOOLEAN

Position == 0 .. N

Least(a, b) == IF a <= b THEN a ELSE b

(***************************************************************************)
(* The loop that looks for the next "WARC/" line skips empty lines and, in *)
(* quirks mode, any line that is not a version line.  It stops at the      *)
(* first cell it cannot skip, or at the end of the stream (N).             *)
(***************************************************************************)
Skipped(c) == c.kind = "blank" \/ (Quirks /\ c.kind # "header")

Stops(from) ==
  {q \in from .. N : /\ \A p \in from .. q - 1 : Skipped(Cell[p])
                     /\ q < N => ~ Skipped(Cell[q])}

IsHeader(q) == q < N /\ Cell[q].kind = "header" /\ Cell[q].ok

(* The Content-Length of the record whose header is cell q: a missing     *)
(* header counts as zero.                                                  *)
DeclaredLength(q) == IF Cell[q].hasLen THEN Cell[q].len ELSE 0

(* Where that record's block ends; a clipped archive ends inside of it.    *)
BlockEnd(q) == Least(q + 1 + DeclaredLength(q), N)
=============================================================================
