----------------------------- MODULE HeaderBlock -----------------------------
(***************************************************************************)
(* What the parser promises: a header block is the text up to the first      *)
(* blank line, wherever the chunks ended, and one that is written reads back *)
(* as what is held.                                                         *)
(***************************************************************************)
EXTENDS HeaderParser, FiniteSets, SequencesExt

CONSTANT MaxPieces   \* bound: pieces of the file

LowerCase == [k \in Keys |-> IF k = "A:" THEN "a:" ELSE k]

AField == CHOOSE k \in Keys : TRUE
Piece ==
  {<<k, x, CR, LF>> : k \in Keys, x \in Texts}
    \cup {<<Sp, x, CR, LF>> : x \in Texts}
    \cup {<<AField, LF>>, <<CR, LF>>, <<LF>>, <<CR>>, <<Sp>>}
    \cup {<<x>> : x \in Texts}

Contents(pieces) ==
  LET ofLength[n \in 0 .. pieces] ==
        IF n = 0 THEN {<< >>} ELSE {p \o s : p \in Piece, s \in ofLength[n - 1]}
  IN  ofLength[pieces]

(* Edits and moves do not meet: edits leave the reader alone, moves the map.  *)
(* Longer files are parsed once only.                                       *)
Budget(moves, parses, edits) == [move |-> moves, parse |-> parses, edit |-> edits]
ReadableInit ==
  /\ \/ /\ file \in Contents(MaxPieces - 1)
        /\ budget \in {Budget(MaxMoves, 1, 0), Budget(0, MaxParses, 0), Budget(0, 1, MaxEdits)}
     \/ file \in Contents(MaxPieces) /\ budget = Budget(0, 1, 0)
  /\ Fresh

ReadableSpec == ReadableInit /\ [][Next]_vars
-----------------------------------------------------------------------------
(* The ends of the lines of a text, and the text of the line that ends at i.  *)
(* Where the text comes after a CR, an LF at its beginning ends a line.       *)
Ends(s, quirks, cr) ==
  {i \in 1 .. Len(s) : IsEnd(s, i, quirks) \/ (cr /\ i = 1 /\ s[1] = LF)}
LineTo(s, i, quirks, cr) ==
  LET before == {j \in Ends(s, quirks, cr) : j < i}
      first == IF before = {} THEN 1 ELSE 1 + CHOOSE j \in before : \A k \in before : k <= j
  IN  SubSeq(s, first, i)

Blanks(s, quirks, cr) ==
  {i \in Ends(s, quirks, cr) : IsBlank(LineTo(s, i, quirks, cr), quirks)}
BlockLength(s, quirks, cr) ==
  LET blanks == Blanks(s, quirks, cr)
  IN  IF blanks = {} THEN Len(s) ELSE CHOOSE i \in blanks : \A j \in blanks : i <= j

(* The map that the block at the beginning of s is read as, when m is there   *)
(* before it.                                                               *)
ReadAs(s, quirks, cr, m, status) ==
  LET block == SubSeq(s, 1, BlockLength(s, quirks, cr))
      ends == Ends(block, quirks, cr) \cup {Len(block)}
      upTo[i \in 0 .. Len(block)] ==
        IF i = 0 THEN m
        ELSE IF i \in ends /\ i \notin Blanks(block, quirks, cr)
          THEN PushLine(upTo[i - 1], LineTo(block, i, quirks, cr),
                        status /\ \A j \in ends : j >= i)
        ELSE upTo[i - 1]
  IN  upTo[Len(block)]

(* items(), keys(), values(): all headers, in their order.                   *)
Items(m) == m.headers
NamesOf(m) == [i \in DOMAIN Items(m) |-> Lowered(Items(m)[i].key)]
ValuesOf(m) == [i \in DOMAIN Items(m) |-> Items(m)[i].value]
Length(m) == Len(Items(m))

(* Lookups ignore the case of names.  Get returns at most one value.         *)
Get(m, key) ==
  IF \E i \in DOMAIN Items(m) : SameName(Items(m)[i], key)
    THEN <<Items(m)[SelectInSeq(Items(m), LAMBDA h : SameName(h, key))].value>>
    ELSE << >>
GetMultiple(m, key) == ValuesOf([headers |-> SelectSeq(Items(m), LAMBDA h : SameName(h, key))])
ContainsKey(m, key) == \E i \in DOMAIN Items(m) : SameName(Items(m)[i], key)

(* to_map(): the values of a name in one text, with commas between them.     *)
Comma == <<",">>
ToMap(m) ==
  [name \in ToSet(NamesOf(m)) |->
     FoldLeft(LAMBDA text, h :
                IF Lowered(h.key) # name THEN text
                ELSE IF text = << >> THEN <<h.value>> ELSE text \o <<Comma, h.value>>,
              << >>, Items(m))]

(* What the latest parse had before it: the text of the file, and a CR at the  *)
(* end of a block that it goes on with.                                     *)
Ahead == SubSeq(file, call.start + 1, Len(file))
EndsInCR(raw) == raw # << >> /\ raw[Len(raw)] = CR

SameMap(m, n) == m.status = n.status /\ m.headers = n.headers

(* A continuation line without text leaves white space at the end of a value. *)
Trimmed(m) ==
  [m EXCEPT !.headers = [i \in DOMAIN @ |-> [@[i] EXCEPT !.value = Trim(@)]]]
-----------------------------------------------------------------------------
(* parse_with_opts(): however the stream is cut into chunks, the status line  *)
(* and the headers are those of the text up to the first blank line, and that *)
(* is as far as it goes; so they are where the call goes on with the block of *)
(* one that failed.  A block that is accepted is at most one byte longer than *)
(* max_header_len, or than what was there before, and one that is refused is   *)
(* longer than the limit less a buffer.                                     *)
ReadsTheBlock ==
  LET cr == EndsInCR(call.before.raw)
      length == BlockLength(Ahead, call.quirks, cr)
  IN  /\ at = "ok" =>
           /\ SameMap(map, ReadAs(Ahead, call.quirks, cr, call.before, call.status))
           /\ bytes = length
           /\ \/ Len(map.raw) <= call.limit + 1
              \/ Len(map.raw) <= Len(call.before.raw) + 1
      /\ at = "too_long" => Len(call.before.raw) + length + Capacity > call.limit + 1

(* write(): what is written is read as the status line and the headers that   *)
(* are held, after a parse and after edits, unless the parse went on with what *)
(* an earlier one had read.  A status line or a header whose name is empty     *)
(* comes out of blank lines, or lines without a name, only.                   *)
ReadsBack ==
  ~InCall /\ at \in {"none", "ok"}
          /\ call.before.raw \in {<< >>, Seed}
          /\ (\A i \in 1 .. Len(map.status) : map.status[i] # << >>)
          /\ (\A i \in 1 .. Len(map.headers) : map.headers[i].key # << >>) =>
    SameMap(Trimmed(map),
            Trimmed(ReadAs(Written(map), call.quirks, FALSE, EmptyMap, map.status # << >>)))

(* The map is a multimap of names without case: an edit changes what every    *)
(* lookup says of its name, whichever spelling it and the lookup use, and      *)
(* nothing of the headers of other names.  Of a name with several values,      *)
(* get() gives one: which one is not stated here, where header.rs promises     *)
(* the first and the Python bindings the last; nor is what to_map(), which     *)
(* joins them, makes of such a name.                                         *)
Others(m, key) == SelectSeq(Items(m), LAMBDA h : ~SameName(h, key))
Holds(m, key, values) ==
  /\ GetMultiple(m, key) = values
  /\ Len(Get(m, key)) <= 1 /\ ToSet(Get(m, key)) \subseteq ToSet(values)
  /\ Get(m, key) # << >> <=> values # << >>
  /\ ContainsKey(m, key) <=> values # << >>
  /\ Lowered(key) \in DOMAIN ToMap(m) <=> values # << >>
  /\ Len(values) = 1 => ToMap(m)[Lowered(key)] = values
Changes(key, values) ==
  /\ \A spelling \in Keys : Lower[spelling] = Lower[key] => Holds(map', <<spelling>>, values)
  /\ Others(map', <<key>>) = Others(map, <<key>>)
  /\ Length(map') = Length(map) - Len(GetMultiple(map, <<key>>)) + Len(values)
EditsAreSeen ==
  [][budget'.edit # budget.edit => \A key \in Keys :
       /\ \A value \in Values :
            /\ SetBytes(key, value) => Changes(key, <<Sanitized(value)>>)
            /\ AppendBytes(key, value) =>
                 Changes(key, Append(GetMultiple(map, <<key>>), Sanitized(value)))
       /\ RemoveBytes(key) => Changes(key, << >>)]_vars
=============================================================================
