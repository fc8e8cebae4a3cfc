------------------------------ MODULE PyReader ------------------------------
(***************************************************************************)
(* PyReaderAdapter: a BufRead + Seek over a Python file object that may     *)
(* read short and may raise.  The position the adapter reports is its own:  *)
(* the file's is ahead of it by what is still in the buffer.                *)
(***************************************************************************)
EXTENDS Integers, Sequences

CONSTANTS
  Capacity,   \* the length of the buffer
  None        \* no position has been asked for yet

ASSUME CapacityAssumption == Capacity \in Nat \ {0}
ASSUME NoneAssumption == None \notin Int

VARIABLES
  file,       \* the contents of the Python file object
  reader      \* the file's position, and the fields pos, buf[..buf_len] and buf_pos

NewReader == [fpos |-> 0, pos |-> None, buf |-> << >>, bpos |-> 0]

(* stream_position(): the file is asked once.                              *)
Located(r) == IF r.pos = None THEN [r EXCEPT !.pos = r.fpos] ELSE r

Chunk(r) == SubSeq(r.buf, r.bpos + 1, Len(r.buf))
Buffered(r) == Len(r.buf) - r.bpos

(* read(n) of a Python file may return less than was asked for, but nothing *)
(* only at the end.                                                        *)
PyReads(fpos) ==
  IF fpos < Len(file)
    THEN {k \in 1 .. Capacity : fpos + k <= Len(file)}
    ELSE {0}

(* Mutant: a short read counts as a full one.                               *)
FilledTooShort(r, k) ==
  [r EXCEPT !.fpos = @ + Capacity, !.buf = SubSeq(file, r.fpos + 1, r.fpos + k), !.bpos = 0]

FilledWith(r, k) ==
  [r EXCEPT !.fpos = @ + k, !.buf = SubSeq(file, r.fpos + 1, r.fpos + k), !.bpos = 0]

(* What fill_buf() may make of r.                                          *)
Filled(r) ==
  IF r.bpos < Len(r.buf)
    THEN {r}
    ELSE {FilledWith(Located(r), k) : k \in PyReads(r.fpos)}

(* fill_buf() where read() raises.                                         *)
FillFailed(r) == Located(r)
MayFail(r) == r.bpos >= Len(r.buf)

(* The reader at another position within what is buffered.                  *)
At(r, pos, bpos) == [fpos |-> r.fpos, pos |-> pos, buf |-> r.buf, bpos |-> bpos]

Consumed(r, n) == At(r, r.pos + n, r.bpos + n)

(* A position of the file that is in the buffer is taken from there; the    *)
(* file's own position is moved otherwise, from where it is (Current takes   *)
(* the read-ahead off).                                                    *)
Target(r, whence, offset) ==
  CASE whence = "start" -> offset
    [] whence = "current" -> r.pos + offset
    [] whence = "end" -> Len(file) + offset

BufStart(r) == r.pos - r.bpos

(* Mutant: an offset counts from where the file object stands.              *)
PySeeksFromFile(r, whence, offset) ==
  CASE whence = "start" -> offset
    [] whence = "current" -> r.fpos + offset
    [] whence = "end" -> Len(file) + offset

PySeeksTo(r, whence, offset) ==
  CASE whence = "start" -> offset
    [] whence = "current" -> r.fpos + (offset - Buffered(r))
    [] whence = "end" -> Len(file) + offset

InBuffer(q, pos) == pos >= BufStart(q) /\ pos < BufStart(q) + Len(q.buf)

SeekIn(q, whence, offset) ==
  LET pos == Target(q, whence, offset)
      new == PySeeksTo(q, whence, offset)
  IN  IF whence = "current" /\ offset = 0 THEN q
      ELSE IF whence # "end" /\ InBuffer(q, pos) THEN At(q, pos, pos - BufStart(q))
      ELSE [fpos |-> new, pos |-> new, buf |-> << >>, bpos |-> 0]

(* A seek to a negative position raises and moves nothing.                 *)
Sought(r, whence, offset) ==
  LET q == Located(r) IN
    IF Target(q, whence, offset) < 0 THEN q ELSE SeekIn(q, whence, offset)
-----------------------------------------------------------------------------
(* The buffer holds the piece of the file that begins at pos - buf_pos and  *)
(* ends where the file object stands: whatever was read short, sought in     *)
(* the buffer or behind it, the next byte handed out is the file's byte at   *)
(* pos.                                                                     *)
BufferIsThePiece ==
  /\ reader.bpos <= Len(reader.buf)
  /\ IF reader.pos = None
       THEN reader.buf = << >>
       ELSE /\ reader.bpos <= reader.pos
            /\ reader.fpos = BufStart(reader) + Len(reader.buf)
            /\ \A i \in 1 .. Len(reader.buf) :
                 /\ BufStart(reader) + i <= Len(file)
                 /\ reader.buf[i] = file[BufStart(reader) + i]
=============================================================================
