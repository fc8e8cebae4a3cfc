------------------------------- MODULE CodedTape -------------------------------
(***************************************************************************)
(* What the writers of stream_io write and the readers read: members       *)
(* (gzip) or frames (Zstandard, LZ4), one Brotli stream, or an HTTP body   *)
(* in chunks, as a sequence of cells.  The payload is a sequence of units, *)
(* the numbers from 1 on in the order in which they are written.  A        *)
(* position on the tape is the number of cells before it.                  *)
(***************************************************************************)
EXTENDS Naturals, Sequences, FiniteSets

CONSTANTS
  Codecs,     \* the formats to consider, of those below
  MaxUnits,   \* bound: units written
  MaxTape     \* bound: cells after which no member is begun

Formats == {"gzip", "zstd", "lz4", "brotli", "chunked"}

ASSUME TapeAssumption == Codecs \subseteq Formats /\ MaxUnits \in Nat /\ MaxTape \in Nat

VARIABLES
  codec,      \* the format of this tape
  dict,       \* Zstandard: frames need the dictionary
  tape        \* the encoded stream

(* head: header of a member, n is 1 if it needs a dictionary; data: the    *)
(* encoded unit n; tail: the end mark or trailer of a member; dict: a      *)
(* Zstandard dictionary frame; size: a line with the size n of a chunk;    *)
(* crlf: an empty line.                                                    *)
Kinds == {"head", "data", "tail", "dict", "size", "crlf"}
Cells == [kind : Kinds, n : Nat]
ACell(kind, n) == [kind |-> kind, n |-> n]

Is(kind, i) == i \in 1 .. Len(tape) /\ tape[i].kind = kind
DataCells(units) == [i \in 1 .. Len(units) |-> ACell("data", units[i])]

Member(units) ==
  <<ACell("head", IF dict THEN 1 ELSE 0)>> \o DataCells(units) \o <<ACell("tail", 0)>>
Chunk(units) == <<ACell("size", Len(units))>> \o DataCells(units) \o <<ACell("crlf", 0)>>
LastChunk == Chunk(<< >>)

UnitsBefore(p) == Cardinality({i \in 1 .. p : Is("data", i)})

(* The units in the k cells from position p on.                            *)
DataIn(p, k) ==
  LET before == UnitsBefore(p)
  IN  [j \in 1 .. UnitsBefore(p + k) - before |->
         tape[CHOOSE i \in p + 1 .. p + k : Is("data", i) /\ UnitsBefore(i) = before + j].n]

-----------------------------------------------------------------------------
(***************************************************************************)
(* Where members begin.                                                    *)
(***************************************************************************)

(* A chunked body begins at the tape's start and after a last chunk.       *)
Begins(p) ==
  IF codec = "chunked"
    THEN p = 0 \/ (Is("crlf", p) /\ tape[p - 1] = ACell("size", 0))
    ELSE Is("head", p + 1)

PlaceOf(unit) == CHOOSE i \in 1 .. Len(tape) : tape[i] = ACell("data", unit)
OnTape(unit) == \E i \in 1 .. Len(tape) : tape[i] = ACell("data", unit)

(* The position at which the member that holds a unit begins.              *)
StartOf(unit) ==
  CHOOSE p \in 0 .. PlaceOf(unit) - 1 :
    Begins(p) /\ \A q \in p + 1 .. PlaceOf(unit) - 1 : ~Begins(q)

(* A unit that is the first of its member, or that is not on the tape.     *)
Leads(unit) ==
  OnTape(unit) => \A i \in StartOf(unit) + 1 .. PlaceOf(unit) - 1 : ~Is("data", i)

AllUnits == UnitsBefore(Len(tape))
EmptyMember == \E p \in 0 .. Len(tape) : Is("head", p + 1) /\ Is("tail", p + 2)
=============================================================================
