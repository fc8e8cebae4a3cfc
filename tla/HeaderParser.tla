---------------------------- MODULE HeaderParser ----------------------------
(***************************************************************************)
(* HeaderMap: a header block is parsed from a reader that hands it out in   *)
(* chunks which end anywhere, also between CR and LF, and then edited and   *)
(* written.  A text is cut into cells: the name of a field with its colon,   *)
(* a piece of other text, white space, CR and LF.                           *)
(***************************************************************************)
EXTENDS PyReader

CONSTANTS
  Keys,       \* cells: the name of a header and its colon
  Lower,      \* the spelling of each of them in lower case
  Texts,      \* cells: text without a colon
  Limits,     \* values of max_header_len
  MaxMoves,   \* bound: Read and Seek calls of the holder
  MaxParses,  \* bound: parse calls
  MaxEdits    \* bound: calls that edit the map

ASSUME HeaderAssumption ==
  /\ Limits \subseteq Nat
  /\ Lower \in [Keys -> Keys] /\ \A k \in Keys : Lower[Lower[k]] = Lower[k]

Sp == "sp"
CR == "cr"
LF == "lf"
White == {Sp, CR, LF}
Cells == Keys \cup Texts \cup White

VARIABLES
  map,        \* the HeaderMap
  call,       \* the arguments of the latest parse_with_opts(), and where it started
  at,         \* where that call is: "fill" or "lines", or how it ended; "none" or
              \* "broken" (after a failed one): another call came after it
  expect,     \* expect_status_line
  lineStart,  \* line_start
  consumed,   \* consumed
  bytes,      \* bytes_consumed
  goal,       \* history: where the latest call sought to, or None
  budget      \* calls that are left, by kind

locals == <<expect, lineStart, consumed, bytes>>
vars == <<file, reader, map, call, at, locals, goal, budget>>

(* The text between the white space at its ends.                           *)
Trim(s) ==
  LET solid == {i \in 1 .. Len(s) : s[i] \notin White} IN
    IF solid = {}
      THEN << >>
      ELSE SubSeq(s, CHOOSE i \in solid : \A j \in solid : i <= j,
                     CHOOSE i \in solid : \A j \in solid : j <= i)

EmptyMap == [status |-> << >>, headers |-> << >>, raw |-> << >>, dirty |-> FALSE]
Header(key, value) == [key |-> key, value |-> value]

(* The colon of a line is in its first name cell.                          *)
FirstColon(line) ==
  CHOOSE i \in 1 .. Len(line) :
    line[i] \in Keys /\ \A j \in 1 .. i - 1 : line[j] \notin Keys

Continued(headers, line) ==
  IF headers = << >>
    THEN <<Header(<< >>, Trim(line))>>
    ELSE [headers EXCEPT ![Len(headers)].value = @ \o <<Sp>> \o Trim(line)]

(* split_and_push_parsed_line(): the status is a sequence of at most one     *)
(* text, that is Some or None.                                              *)
PushLine(m, line, expectStatus) ==
  IF expectStatus THEN [m EXCEPT !.status = <<Trim(line)>>]
  ELSE IF line[1] = Sp THEN [m EXCEPT !.headers = Continued(@, line)]
  ELSE IF \E i \in 1 .. Len(line) : line[i] \in Keys
    THEN LET c == FirstColon(line) IN
           [m EXCEPT !.headers = Append(@, Header(Trim(SubSeq(line, 1, c)),
                                                  Trim(SubSeq(line, c + 1, Len(line)))))]
  ELSE m

(* The line ends at an LF in quirks mode and at CR LF otherwise.            *)
IsEnd(s, i, quirks) == s[i] = LF /\ (quirks \/ (i > 1 /\ s[i - 1] = CR))
HasEnd(s, quirks) == \E i \in 1 .. Len(s) : IsEnd(s, i, quirks)
IsFirstEnd(s, i, quirks) == IsEnd(s, i, quirks) /\ \A j \in 1 .. i - 1 : ~IsEnd(s, j, quirks)

(* The line is the end of the headers.                                     *)
IsBlank(line, quirks) == IF quirks THEN Trim(line) = << >> ELSE Len(line) = 2
-----------------------------------------------------------------------------
InCall == at \in {"fill", "lines"}

Spend(kind) ==
  /\ ~InCall
  /\ budget[kind] > 0
  /\ budget' = [budget EXCEPT ![kind] = @ - 1]

NoParse ==
  [quirks |-> FALSE, limit |-> 0, status |-> FALSE, start |-> 0, before |-> EmptyMap]

(* A call that is not a parse.  A parse that failed leaves lines in the block *)
(* that are not in the map.                                                 *)
OtherCall(kind) ==
  /\ Spend(kind)
  /\ at' = IF at \in {"failed", "too_long", "broken"} THEN "broken" ELSE "none"
  /\ call' = [NoParse EXCEPT !.quirks = call.quirks, !.before = call.before]
  /\ expect' = FALSE /\ lineStart' = 0 /\ consumed' = 0 /\ bytes' = 0
  /\ UNCHANGED file

Seed == <<"warc", CR, LF>>

(* parse_next() of the record leaves the line it found in the map and goes   *)
(* on without a status line; everybody else's map is cleared.               *)
StartParse(mode, quirks, limit) ==
  /\ Spend("parse")
  /\ LET given == IF mode = "seeded"
                    THEN [EmptyMap EXCEPT !.raw = Seed, !.status = <<Trim(Seed)>>]
                    ELSE map
         kept == mode # "status" /\ given.status # << >> /\ given.headers = << >> /\ given.raw # << >>
     IN  map' = IF kept THEN [given EXCEPT !.dirty = FALSE] ELSE EmptyMap
  /\ call' = [quirks |-> quirks, limit |-> limit, status |-> mode = "status",
              start |-> Located(reader).pos, before |-> map']
  /\ at' = "fill"
  /\ expect' = (mode = "status")
  /\ lineStart' = Len(map'.raw)
  /\ consumed' = 0
  /\ bytes' = 0
  /\ goal' = None
  /\ UNCHANGED <<file, reader>>

Line(raw) == SubSeq(raw, lineStart + 1, Len(raw))

(* The rest of what fill_buf() returned.                                    *)
Rest == SubSeq(Chunk(reader), consumed + 1, Buffered(reader))

(* n cells of the chunk of r complete a line, which is added to the map, or   *)
(* the block.                                                               *)
TakeCells(r, n) ==
  LET raw == map.raw \o SubSeq(Chunk(r), consumed + 1, consumed + n)
      line == Line(raw)
  IN  /\ bytes' = bytes + n
      /\ IF IsBlank(line, call.quirks)
           THEN /\ at' = "ok"
                /\ map' = [map EXCEPT !.raw = raw]
                /\ reader' = Consumed(r, consumed + n)
                /\ UNCHANGED <<expect, lineStart, consumed>>
           ELSE /\ at' = "lines"
                /\ map' = PushLine([map EXCEPT !.raw = raw], line, expect)
                /\ expect' = FALSE
                /\ lineStart' = Len(raw)
                /\ consumed' = consumed + n
                /\ reader' = r

(* Mutant: a CR that ended the previous chunk is not looked at.             *)
CompletesCRNever(r) == FALSE

(* The first LF of the chunk completes a CR LF.                             *)
CompletesCR(r) == map.raw # << >> /\ map.raw[Len(map.raw)] = CR /\ Chunk(r)[1] = LF

InParse == UNCHANGED <<file, call, goal, budget>>

(* The top of the loop.  The length is not checked when a CR LF is          *)
(* completed.                                                              *)
Fill ==
  /\ at = "fill"
  /\ \E r \in Filled(reader) :
       /\ Chunk(r) # << >>
       /\ IF CompletesCR(r)
            THEN TakeCells(r, 1)
            ELSE reader' = r /\ at' = "lines" /\ UNCHANGED <<map, locals>>
  /\ InParse

(* The end of the stream: what there is of a line counts as one.            *)
FillAtEnd ==
  /\ at = "fill"
  /\ \E r \in Filled(reader) : Chunk(r) = << >> /\ reader' = r
  /\ map' = IF Line(map.raw) = << >> THEN map ELSE PushLine(map, Line(map.raw), expect)
  /\ at' = "ok"
  /\ InParse /\ UNCHANGED locals

FillRaises ==
  /\ at = "fill"
  /\ MayFail(reader)
  /\ reader' = FillFailed(reader)
  /\ at' = "failed"
  /\ InParse /\ UNCHANGED <<map, locals>>

Fits(n) == Len(map.raw) + n <= call.limit

(* Both checks fail the call without consuming anything of the chunk.        *)
TooLong ==
  /\ at' = "too_long"
  /\ UNCHANGED <<map, reader, locals>>

TakeLine ==
  /\ at = "lines"
  /\ \E n \in 1 .. Len(Rest) :
       /\ IsFirstEnd(Rest, n, call.quirks)
       /\ IF Fits(n) THEN TakeCells(reader, n) ELSE TooLong
  /\ InParse

(* The check adds the whole chunk, of which raw has the consumed cells       *)
(* already.                                                                *)
TakeRest ==
  /\ at = "lines"
  /\ Rest # << >> /\ ~HasEnd(Rest, call.quirks)
  /\ IF Len(map.raw) + Buffered(reader) > call.limit
       THEN TooLong
       ELSE /\ map' = [map EXCEPT !.raw = @ \o Rest]
            /\ reader' = Consumed(reader, Buffered(reader))
            /\ at' = "fill" /\ consumed' = 0 /\ bytes' = bytes + Len(Rest)
            /\ UNCHANGED <<expect, lineStart>>
  /\ InParse

ConsumeChunk ==
  /\ at = "lines"
  /\ Rest = << >>
  /\ reader' = Consumed(reader, consumed)
  /\ at' = "fill" /\ consumed' = 0
  /\ InParse /\ UNCHANGED <<map, expect, lineStart, bytes>>

ParseStep == Fill \/ FillAtEnd \/ FillRaises \/ TakeLine \/ TakeRest \/ ConsumeChunk
-----------------------------------------------------------------------------
(* The holder reads from and seeks in the reader between the calls.          *)
Read(n) ==
  /\ OtherCall("move")
  /\ \E r \in Filled(reader) :
       reader' = Consumed(r, IF n < Buffered(r) THEN n ELSE Buffered(r))
  /\ goal' = None
  /\ UNCHANGED map

Seek(whence, offset) ==
  /\ OtherCall("move")
  /\ reader' = Sought(reader, whence, offset)
  /\ LET target == Target(Located(reader), whence, offset) IN
       goal' = IF target < 0 THEN None ELSE target
  /\ UNCHANGED map
-----------------------------------------------------------------------------
(* _sanitize_header_value(): a value cannot end its line.                    *)
Sanitized(s) ==
  LET t == SelectSeq(Trim(s), LAMBDA c : c # CR) IN
    [i \in 1 .. Len(t) |-> IF t[i] = LF THEN Sp ELSE t[i]]

Lowered(name) == [i \in 1 .. Len(name) |-> IF name[i] \in Keys THEN Lower[name[i]] ELSE name[i]]
SameName(h, key) == Lowered(h.key) = Lowered(key)

(* Mutant: the other headers of the name stay.                               *)
WithFirstHeader(headers, key, value) ==
  LET named == {i \in 1 .. Len(headers) : SameName(headers[i], key)}
      first == CHOOSE i \in named : \A j \in named : i <= j
  IN  IF named = {}
        THEN Append(headers, Header(key, value))
        ELSE [headers EXCEPT ![first] = Header(key, value)]

(* The first header of the name is replaced and the others dropped.          *)
WithHeader(headers, key, value) ==
  LET named == {i \in 1 .. Len(headers) : SameName(headers[i], key)}
      first == CHOOSE i \in named : \A j \in named : i <= j
  IN  IF named = {}
        THEN Append(headers, Header(key, value))
        ELSE SubSeq(headers, 1, first - 1) \o <<Header(key, value)>>
               \o SelectSeq(SubSeq(headers, first + 1, Len(headers)), LAMBDA h : ~SameName(h, key))

Edit(m) ==
  /\ OtherCall("edit")
  /\ map' = m
  /\ goal' = None
  /\ UNCHANGED reader

SetBytes(key, value) ==
  Edit([map EXCEPT !.headers = WithHeader(@, <<key>>, Sanitized(value)), !.dirty = TRUE])

AppendBytes(key, value) ==
  Edit([map EXCEPT !.headers = Append(@, Header(<<key>>, Sanitized(value))), !.dirty = TRUE])

(* Mutant: the block that was parsed counts as unchanged.                    *)
RemoveBytesSilently(key) ==
  Edit([map EXCEPT !.headers = SelectSeq(@, LAMBDA h : ~SameName(h, <<key>>))])

RemoveBytes(key) ==
  LET left == SelectSeq(map.headers, LAMBDA h : ~SameName(h, <<key>>)) IN
    Edit([map EXCEPT !.headers = left, !.dirty = @ \/ Len(left) # Len(map.headers)])

SetStatusLine(text) == Edit([map EXCEPT !.status = <<Sanitized(text)>>, !.dirty = TRUE])

Clear == Edit(EmptyMap)

(* write(): the block as it was read, if it was not edited.                  *)
HeaderLine(h) ==
  (IF h.key = << >> THEN << >> ELSE h.key \o <<Sp>>) \o h.value \o <<CR, LF>>

HeaderLines(headers) ==
  LET upTo[n \in 0 .. Len(headers)] ==
        IF n = 0 THEN << >> ELSE upTo[n - 1] \o HeaderLine(headers[n])
  IN  upTo[Len(headers)]

Written(m) ==
  IF ~m.dirty /\ m.raw # << >>
    THEN m.raw
    ELSE (IF m.status \in {<< >>, << << >> >>} THEN << >> ELSE m.status[1] \o <<CR, LF>>)
           \o HeaderLines(m.headers) \o <<CR, LF>>
-----------------------------------------------------------------------------
Fresh ==
  /\ reader = NewReader
  /\ map = EmptyMap
  /\ call = NoParse
  /\ at = "none"
  /\ expect = FALSE /\ lineStart = 0 /\ consumed = 0 /\ bytes = 0
  /\ goal = None

Init ==
  /\ file \in Seq(Cells)
  /\ Fresh
  /\ budget = [move |-> MaxMoves, parse |-> MaxParses, edit |-> MaxEdits]

Values == {<<x>> : x \in Texts} \cup {<<x, CR, LF, Sp, x>> : x \in Texts}

Next ==
  \/ \E mode \in {"status", "plain", "seeded"}, quirks \in BOOLEAN, limit \in Limits :
       StartParse(mode, quirks, limit)
  \/ ParseStep
  \/ \E n \in 1 .. Capacity : Read(n)
  \/ \E n \in 0 .. Len(file) : Seek("start", n)
  \/ \E n \in -2 .. 2 : Seek("current", n)
  \/ \E n \in -2 .. 1 : Seek("end", n)
  \/ \E key \in Keys, value \in Values : SetBytes(key, value) \/ AppendBytes(key, value)
  \/ \E key \in Keys : RemoveBytes(key)
  \/ \E value \in Values : SetStatusLine(value)
  \/ Clear

Spec == Init /\ [][Next]_vars
-----------------------------------------------------------------------------
(* The next byte is the one it should be: a parse leaves the reader as far    *)
(* behind its start as the number of bytes that it returns, wherever in a     *)
(* chunk it ended, and a seek, in the buffer or by the file object, from      *)
(* wherever that one stands, goes where it was asked to.                      *)
StandsWhereItShould ==
  /\ at = "ok" => reader.pos = call.start + bytes
  /\ goal # None => reader.pos = goal
=============================================================================
