------------------------------- MODULE CodedStream -------------------------------
(***************************************************************************)
(* A coded stream is written, to its end or not, and then read by a client *)
(* that reads on, past what looks like the end, and seeks.                 *)
(***************************************************************************)
EXTENDS StreamWriter, StreamReader

vars == <<codec, dict, tape, writerVars, readerVars>>

Init == WriterInit /\ ReaderInit

Writing == WriterNext /\ UNCHANGED readerVars
Reading == closed /\ ReaderNext /\ UNCHANGED <<codec, dict, tape, writerVars>>
Next == Writing \/ Reading

Filling ==
  /\ closed
  /\ Turn \/ (remaining > 0 /\ (StartFill \/ SeekStep))
  /\ UNCHANGED <<codec, dict, tape, writerVars>>

Spec == Init /\ [][Next]_vars

(* A call of fill_buf(), or of seek(), runs to its end.                    *)
FairSpec == Spec /\ WF_vars(Filling)

-----------------------------------------------------------------------------
(* into_inner() leaves every unit that write() accepted on the tape, once  *)
(* and in order, whatever finish() and flush options came between: no      *)
(* member or chunk drops or repeats what the encoder or chunk_buffer held. *)
WritesAll == whole => DataIn(0, Len(tape)) = [i \in 1 .. written |-> i]

(* What fill_buf() hands out continues exactly where consume() stopped, or *)
(* where inner_seek() went: no unit is lost, repeated or reordered at the  *)
(* end of a member, of the input buffer or of the output buffer.           *)
InOrder == \A i \in 1 .. Len(Unread) : Unread[i] = expect + i - 1

(* An empty fill_buf() means: Zstandard, Brotli, and LZ4 if no frame is    *)
(* empty, has delivered everything and stands behind a complete frame; the *)
(* others have delivered all of the last member that they began.           *)
EndOfData ==
  result = "end" /\ call = "idle" =>
    /\ Leads(expect)
    /\ codec \in {"zstd", "lz4", "brotli"} /\ pos > 0 => Ends(pos)
    /\ codec \in {"zstd", "brotli"} \/ (codec = "lz4" /\ ~EmptyMember) => expect > AllUnits

(* Only a stream that was cut short fails to decode: reading and seeking   *)
(* between members never make a decoder start at the wrong place.  But a   *)
(* ZstdWriter with a dictionary that nothing was written to leaves a frame *)
(* that refers to a dictionary it never wrote.                             *)
ErrorsOnlyIfCut == result = "error" => ~whole \/ (dict /\ ~dictDone)

(* frame_start_position() is where the member of the next unit begins, so  *)
(* that inner_seek() to it, or an index made of it, finds that unit.  An   *)
(* empty LZ4 frame makes it stale.                                         *)
FrameStartOk ==
  Unread # << >> /\ call = "idle" /\ codec \in {"gzip", "zstd", "lz4"} /\ ~(codec = "lz4" /\ EmptyMember) =>
    frameStart = StartOf(Head(Unread))

(* fill_buf() and seek() return, in whatever pieces their input comes and  *)
(* wherever it ends: no turn of their loops waits for progress that the    *)
(* decoder cannot make.                                                    *)
FillReturns == call # "idle" \/ remaining > 0 ~> call = "idle" /\ remaining = 0

(* What a reader that stops at the first empty read relies on: nothing is  *)
(* left then.                                                              *)
EndIsTheEnd == result = "end" /\ call = "idle" => expect > AllUnits
=============================================================================
