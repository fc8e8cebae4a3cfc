# Resiliparse and FastWARC in TLA+

This directory holds a TLA+ model of the parts of Resiliparse/FastWARC whose
correctness depends on state and on order: what is modelled, checked with TLC
on small instances, and proved with TLAPS for all of them. `src/` below is the
root of the repository.

## 1. The system

FastWARC reads and writes WARC archives; Resiliparse parses what is in them.

| component | state it keeps | operations | hard behaviour |
|---|---|---|---|
| `ArchiveIterator`, `ArchiveIteratorThreadSafe` (`fastwarc-rs/src/warc/iter.rs`) | the current record (shared with whoever it was handed to), whether the stream was started, the options | `next()`, option setters, filters | two lock sections per `next()`; records in use elsewhere; errors half-way |
| `WarcRecord` (`warc/record.rs`) | headers, `content_length`, HTTP state, and the archive's only reader, in one of the states Original, Frozen, Wrapped or none | `consume`, `freeze`, `parse_http`, `verify_*_digest`, `set_bytes_payload`, `detach_reader`, `write`, `next`, `next_inplace`, and reading and seeking through `reader_mut()` | one reader travels from record to record: every method has to leave it where the next header begins, or where `consume()` gets it there |
| `HeaderMap` (`warc/header.rs`) | raw block, parsed fields | `parse_with_opts`, `get*`, `set*`, `append`, `remove`, `items`, `write` | CRLF that is split over two buffer fills, length limit, fields that point into the block or own their text |
| `LimitedBufReader`, `TrackingBufReader`, adapters (`stream_io/bufread.rs`) | limit, logical position | `set_limit`, `reset_limit`, read, seek | two positions that have to move together |
| Python file adapter (`fastwarc-py/fastwarc/src/stream_io/mod.rs`) | buffer, logical position over a Python file | `fill_buf`, `consume`, `seek`, `read` | the file is ahead of the position |
| member streams (`stream_io/gzip.rs`, `zstd.rs`, `lz4.rs`, `brotli.rs`, `chunked.rs`) | decoder state, member start, output buffer | fill, consume, seek; write, flush, finish | truncated members, seek under a live decoder, `finish` twice |
| Python bindings (`fastwarc-py/fastwarc/src`) | a mutex per record, PyO3 borrows, which record an iterator is at | methods of records, header maps, readers; `__next__` with filters | Python code that runs under the mutex; panics poison it |
| legacy Cython (`fastwarc-py/fastwarc/legacy`) | a second implementation | the same | the same |
| process guards (`resiliparse-py/resiliparse/process_guard.pyx`) | registry of active guards, epoch, guard thread, signals sent | enter, exit, `progress()`, the guard thread's loop | asynchronous exceptions and signals, nesting, escalation |
| retrying iterators (`itertools.pyx`) | position, retries left | `warc_retry`, `exc_loop` | a failure between a record and its position |
| Beam transforms (`beam/*.py`) | offset ranges, bulk buffer | split, read, flush | lines across splits, partly failed bulk requests |
| DOM bindings (`resiliparse-rs/src/parse/html`, `resiliparse-py/.../_html_rs`) | handles that count references, iterators, live lists and class lists over an external tree | insert, replace, remove, destroy, iterate, look up | mutation under an iterator or a list; references of nodes that are not in a tree |
| extraction, encoding, language, CSS, serialization, CLI | none worth a model | text in, text out | - |

Interaction: an iterator owns a record, the record owns a `LimitedBufReader`
over a decompressing member stream over the caller's stream. `next()` consumes
the rest of the current record's payload, takes the reader out of that record
(`detach_reader`) and gives it to a new one, or, in inplace mode, resets the
limit and goes on with the same record. With `parse_http` the limit is set anew
after the HTTP headers; decoding wraps the limited reader in decoders and a new
limited reader. Digest checks freeze: the payload is copied, the live reader is
kept beside the copy.

What makes the parts correct:

* iterator and record: every record that the archive's Content-Lengths lay out
  is handed out once and in order, whatever the holder does with the records;
  payload is never mistaken for a record; the end is reported at the end; a
  record is written with the length of what is written;
* readers: the logical position stays within the limit and moves with the
  stream; a member stream delivers each member's bytes once;
* guards: a guard that is entered is left, only its own registration is undone,
  it interrupts after the timeout and not before, and escalates in order;
* retries, splits, bulk buffer: each item exactly once;
* DOM: an iteration ends and visits only nodes of its tree.

## 2. Plan

1. **done** `WarcArchive`, `WarcRecord`, `ArchiveIterator` with the abstract
   `RecordSequence`, and the proofs that the iterator implements it.
2. **done** `ProcessGuard` (contexts, registry, guard threads, interrupts) with
   proofs about the registry, and `GuardLoop` (the two loops in time).
3. **done** `CodedTape`, `StreamWriter`, `StreamReader`, `CodedStream`: the writers
   and readers of gzip, Zstandard, LZ4, Brotli and chunked streams, with finish,
   truncation and both kinds of seek; what is read back is what was written.
4. **done** `HeaderParser` over the buffer fills of a `PyReader`, and `HeaderBlock`,
   the map that comes of it, edited, looked up in and written.
5. **done** `NodeLinks` and `DomTree` with the abstract `OrderedForest`; `ElementLists`
   and `ClassTokens` on the lists over such a tree.
6. **done** `PyRecord`: records that Python threads share.
7. **done** proofs about all of these but `ElementLists`, `DomTree`'s refinement of
   `OrderedForest` among them. Left: `HeaderBlock`'s edits and writing.
8. Left: `WarcRetry` over an abstract failing stream and the legacy iterator, which
   it reads with; `BulkIndex` and `TextSplits`: each item once.

Small components share an MC module and a run where their questions are of one kind.

## 3. The modules

| module | models | its state and actions in the code |
|---|---|---|
| `WarcArchive` | the decompressed byte stream, cut into cells | `Stops` is the line loop of `parse_warc_headers_with_opts`, `BlockEnd` what `set_limit(content_length)` makes of a header |
| `WarcRecord` | `WarcRecord` and `LimitedBufReader` | a record value (`kind` = the `ReaderType`, `at` = live stream position, `limit`, `pos`, `contentLength`, HTTP state, `streamPos`); one operator per method, from a record to the set of its outcomes |
| `ArchiveIterator` | `ArchiveIteratorImpl` and its caller | `rec` = `cur`, `options`, `started`, `phase` = where in `next()`; `DetectFails`, `Advance` (first lock), `Skip` and `Keep` (second lock), `Client*` (the holder of the record), `SetOptions`; `delivered`, `cursor`, `written` and `faults` are history |
| `RecordSequence` | what iterating promises | `Take`, `HandOut`, `PassOver`, `Report`, `Finish` |
| `MCArchiveIterator` | archives and option sets for TLC | - |
| `ProcessGuard` | `_ResiliparseGuard` and its users: contexts, the registry, guard threads, what they raise | `registry` = `__GUARD_CTX_ACTIVE`, `ended` = `gctx.ended`, `handle` = `guard_thread`, `loop` = the threads that run, `stack` = the contexts a user thread is in, `exc` and `sig` = what is pending in the interpreter; `Enter` (`setup`), `Unsupported` (`exec_before` of a MemGuard raises), `Constructed`, `Starts` and `Started` (`threading.Thread()`, `start()` until the thread exists, and its return), `Leave`, `Joined` and `JoinFails` (`finish` before and after `join`), `Interrupted`, `Release` (`__dealloc__`), `Loop*`; `cut` and `spoilt` are history |
| `GuardLoop` | `_thread_exec` of TimeGuard and MemGuard, in time | points in time are ages; `Wake`, `LookAtEpoch`, `Restart`, `Sample`, `Measure`, `Decide`, `Raise` are the loop between two accesses to shared state, `Progress`, `Memory`, `Leave`, `KeepGil` its surroundings, `Tick` the clock |
| `MCProcessGuard`, `MCGuardLoop` | guards and parameters for TLC | - |
| `CodedTape` | a coded stream | cells: headers, units of data, trailers, the dictionary frame, chunk sizes; where members begin |
| `StreamWriter` | `GzipWriter`, `ZstdWriter`, `Lz4Writer`, `BrotliWriter`, `ChunkedWriter` | `encoder` = what the encoder or `chunk_buffer` holds, `started` = `member_started`, `frame_started`, `stream_started`; `Write`, `WriteAndEnd` (`write_with_flush_opt` with Finish), `Finish`, `IntoInner`, `Cut` (the process ends) |
| `StreamReader` | the readers, four of them over a `TrackingBufReader` | `pos`, `avail` = the buffered reader, `stage` = the decoder, `buf`, `bufPos`, `frameStart`, `nextMember`, `chunkSize`, `chunkRead` as in the code; `StartFill` and one `Turn` per turn of `fill_buf`'s loop, `Consume`, `InnerSeek`; `Seek` and one `SeekStep` per turn of `_forward_seek`, `remaining` = what it has to skip |
| `CodedStream` | a stream that is written, then read | - |
| `PyReader` | the adapter for Python files | `file` and its position, `pos`, `buf`, `buf_pos` in `reader`; reads, consumes and seeks |
| `HeaderParser` | `parse_with_opts` over the chunks that a `PyReader` delivers, and the map's edits | `map`, `lineStart`, `consumed`, `bytes` as in the code, `at` = where the call is; a step for a chunk, and one for each of its lines |
| `HeaderBlock` | a block that is read, edited, looked up in and written | what a block means (the reference for `ReadsTheBlock`); lookups as operators |
| `PyRecord` | the Python objects that share a record, and their threads | `lock` and `poisoned` = the record's `Mutex`, `stack` = the calls in progress with what they borrow, `gil`; `Lock`, `EnterPython`, `Finish`, `Raises`, `Panic*`, `Overruns`, and `__next__` as `NextMoves`, `CheckEnds`, `JudgeEnds`, `Filter*` |
| `NodeLinks` | the link fields of a DOM node and Lexbor's functions that change them (external) | `InsertChild`, `InsertBefore`, `Unlink`, `DestroyDeep` |
| `DomTree` | `Node` handles, the calls that insert, replace and remove, `decompose`, and the node iterator | `t` = the links, `refs` = `ref_count`, `held` = the client's handles, `call` = where a call is that inserts several nodes, `it` = the iterator with the node that it read ahead |
| `OrderedForest` | what such calls promise: the children of a node are a sequence | one step per call |
| `ElementLists` | collections that are evaluated anew at every access, the class list, loops over them | `kids` (changed by `OrderedForest`'s operators), `attrs`, `loop` with an observer of what came and went |
| `ClassTokens` | the class attribute as a set of words | `add`, `remove`, `toggle`, `replace` |
| `MCDomTree`, `MCElementLists` | nodes and attributes for TLC | - |
| `ArchiveIteratorProofs`, `ProcessGuardProofs`, `GuardLoopProofs`, `CodedStreamProofs`, `HeaderParserProofs`, `PyRecordProofs`, `DomTreeProofs`, `DomForestProofs` | lemmas and theorems | - |

Abstractions. A *cell* is the smallest piece of the stream that the parser tells
apart: a WARC header block, an HTTP header block, a piece of payload, an empty
line. A header cell may be payload of another record (an archive inside of an
archive), so a parser that resumes at the wrong place finds records that are not
there. Lengths are numbers of cells. A payload decoder takes encoded input ahead
of its output as it likes, and has taken all of it when it reports the end
(`Decoded`, `ReadToEnd`). A digest is the outcome its check would have on the
whole block. Reads fail after any number of cells. `max_header_len` is the `ok`
of a header cell. `u64::MAX` is `MaxLimit`, any number not below the stream's
length. Version-line parsing on a decoder that is left over (`ParseDecoded`)
finds no header.

The caller: it holds the record that was handed out last (older ones have given
their reader away), calls any method on it in any order, and changes options
between two calls. It does not call `next()` after `None`, nor, in inplace mode,
after an error (record.rs:1379: "the instance should be treated as tainted"), after
which, and after the end, it does not enter or leave that mode either; it does not
enter it while the current payload is being decoded (`SetOptions`).
With a new record per call it goes on after errors. After a WARC header that cannot be
parsed that is of no use: the old record has lost its reader and keeps its
`content_length`, so that every later `next()` fails (`FailsForGood`); `Ends` says that
a loop gets to the end or there, and an archive of `iter_fresh` ends with such a header.
`parse_http()` is called on a payload that nothing was read of (`Unparsed`); the
iterator itself may call it on one that a thread has read of.

Guards. An interrupt that a loop sends is pending until it is raised where its
thread is: in the body of a context, between `setup()` and the return of
`Thread.start()` while one is entered, or in `join()` while one is left. Raised in the
body it leaves the rest to the body; elsewhere it takes the thread out of the context
without the rest of `__enter__()` or `finish()`, as a MemGuard does on a platform that
lacks it (`CutShort`, remembered in `cut`). That a guard thread exists and that it
runs are two steps, as `start()` waits for the second and may be interrupted before.
`PyThreadState_SetAsyncExc` keeps one exception per thread, a signal is handled by the
main thread. A KeyboardInterrupt arrives at the same points as an outer guard's
exception. A context that is refused changes nothing.
A guard may be destroyed at any time that no context holds it; `__dealloc__` removes the
name of its type, also when another guard of the type is in use (remembered in
`spoilt`). A guard whose own thread destroys it keeps its registration, as a thread
cannot join itself. `ProcessGuard` lets loops decide at any time; when they do is
`GuardLoop`'s matter, where an iteration takes `Check` and up to `Slack` ticks, the GIL
aside.

Streams. A unit is a piece of payload that a decoder outputs at once; a cell of
data is what it is decoded from. `fill_buf()` of the buffered reader finds up to
`Capacity` cells, in any split. A decoder takes cells up to the end of its member
and outputs up to the space it is given, as zlib and libzstd do, which may take a
trailer when the output is full; a gzip output buffer may grow after every turn. An
encoder writes only when it is finished: the tape is read after that. `read()` is
`fill_buf()` and `consume()`, `seek()` a loop of the two. A stream is cut between
cells. The reader's client reads on after an empty read, stops after an error, and
seeks to beginnings of members only, in a Zstandard stream once the dictionary was
loaded, in a chunked body before it was read from. A forward `seek()` may go to any
position, past the end as well. Brotli has one stream, no members.

Headers. A header block is a sequence of cells: the letters of names, in two
spellings, values, CR, LF, white space, a status line. `PyReader` is the adapter
for ordinary Python files (compressed streams of FastWARC's own take another way),
and nobody else moves the file. A lookup compares names without case, and a map
may have several fields of a name.

Python records. A thread switches only where Python code runs; a thread that waits
for a mutex keeps the interpreter lock, as `Mutex::lock` does. One call stands for
all calls of Python code that a method makes. What the objects do not bear (two calls
on one record at a time, pickling without a reader, HTTP headers that are gone)
is `misused`, after which nothing new is called. Code under the mutex also panics when
a stream of FastWARC's own is closed (stream_io/mod.rs:211), when `read()` returns more
than it was asked for (396) and when a buffer is made of a size that no buffer can have
(warc.rs:717): `Overruns`, after which calls are made one at a time, so that what they
find is explored, and collisions after an overrun are not. Record 0 was made by
`from_bytes`.

The DOM. Lexbor is external: its insertion leaves the old neighbours of a node as
they are. The client inserts nodes that have no place in a tree, does not use
destroyed ones, and does not take away the node that the iterator read ahead.
`Advance` climbs several levels only at the end of an iteration's branch. In
`ElementLists` all elements have one tag; a selector is a class word or one that does
not parse; the client gives an element one attribute of a name.

## 4. The runs

| run | instance | what it shows |
|---|---|---|
| `iter_fresh` | 27 cells: HTTP record, a record that holds an archive, an empty one, unparsable HTTP headers, wrong and missing digests, a header that cannot be parsed; options `verify_digests` x `parse_http`, changed at any time; all methods; one failed read | types, alignment, refinement of `RecordSequence`, untouched payloads are written exactly, a loop ends, or fails for good |
| `iter_modes` | payloads with a transfer or a content coding whose output is shorter than Content-Length, also an empty one; a record that holds an archive, junk, a header that cannot be parsed, a clipped record; quirks mode; the caller changes between inplace mode, fresh records, and decoding nothing, one or both codings; in inplace mode another thread reads, seeks and consumes between the locks; one failed read | refinement, `consume()` takes the rest |
| `viol_decode_both` | payloads with both codings, both decoded | the second call returns `None` |
| `viol_inplace_verify` | `inplace` and `verify_digests` | the second call returns `None` |
| `guard_contexts` | two TimeGuards, one with signals, and a MemGuard, destroyed at any time; two threads; two guard threads; platforms with and without MemGuard | contexts of a type are not nested unless a destroyed guard let them, the registry is stale only after a context was cut short, nothing is interrupted after its context, no old loop is revived, a context that is left is left |
| `guard_loop` | five settings: timeouts and grace periods between 0 and 6 ticks, iterations of 2 or 3, all three ways to interrupt | interrupts neither late nor, with `progress()` or spikes of memory, early |
| `streams` | up to four units, all five formats, with and without a dictionary; two units per call, chunks of two; three cells of input, two units of output | nothing is lost, repeated or reordered; what an empty read means; only cut streams fail; the reported start of a member; `fill_buf` and `seek` return |
| `viol_stream_end` | gzip, two units | the end is reported at an empty member |
| `headers` | blocks of up to three pieces, complete or cut, names in two spellings, limits 6 and 20; three cells of buffer; two moves of the reader, two parses or one edit | the adapter stands where it says; the block is read as it is meant; what was read is written back; edits change what they name and nothing else |
| `pyrecord` | two threads, an archive of one record, two calls in progress; fresh and inplace mode; streams that raise, panic or are closed | exceptions poison nothing, a filter judges the record it was given, records are left alone while Python code runs under their mutex, `__next__` is one step, every call returns |
| `dom` | a document, an element, two texts, a fragment; one handle of a node, of two nodes; two nodes per call | the five pointers agree, nothing dangles, an iteration visits what stays, once and in order; refinement of `OrderedForest` |
| `elements` | three elements, two words, attributes `class` and `id` of two words; one change during a loop | class lists are sets, loops over live lists miss nothing but what moved, lookups agree with the tree |

Bounds. A record is read in at most six cells, more than the number of places
that matter in one: before, in and after the HTTP header, inside and at the end of
the payload. Two records before and after each special one show that nothing
leaks from one to the next; no method looks back further than the current
record. One failed read is enough for each failure path, a second one on the
same record finds it without a reader. `CHECK_DEADLOCK FALSE`: the iteration
ends.

A class has at most one live loop, so two loops serve the two classes; a third
guard would be a second MemGuard, which behaves as the second TimeGuard does.
`MaxDepth` is 2: a context inside of another one of the other class, as a third
would be refused. In `guard_loop` `MaxAge` lies above every deadline
(`LoopAssumption`), so an age that has reached it has passed them all. `Check` is 2
and `Slack` 1: an iteration takes two or three ticks, and `progress()`, a change of
memory and the clock may come between any two of its steps. The timeouts and grace
periods of up to 6 ticks are several times `Slack`, so that `ProgressIsHeard` has
something to refuse: except for the first level of the guard with timeout 0, a level is
too early when the last `progress()` was more than one tick ago, time enough for the
loop to have seen it, and less than the level's timeout by more than one tick
(5.0 million states, the largest run). `CHECK_DEADLOCK FALSE`: a guard thread ends,
and all guards may be released.

In `streams` a tape has room for three members of one or two units each, or for
empty ones among them (`MaxTape` 6: no member is begun beyond), so that a member, the input buffer and the output
buffer end at every distance from each other; four units exceed the output buffer
twice. Brotli's `stream_pos`, which seeks do not reset, is kept below twice the units.
`CHECK_DEADLOCK FALSE`: the reader may stop after an error.

In `headers` a piece is a status line, a field, a continuation or the empty line, so
that three make a block with a name twice; every split of CR LF and every
length of a chunk occurs with three cells of buffer. Files of two pieces are parsed
twice, so that a block goes on where one that failed broke off, in the middle of a CR LF
as well; files of three pieces once. Edits and moves of the reader never
meet in a run: they touch different state. `CHECK_DEADLOCK FALSE`: all calls are
bounded. In `pyrecord` two calls in progress are what it takes to meet or to nest;
one record is enough for a record that is over, one that is parsed and one that
was never in the archive. After an overrun one call is in progress at a time: what is
poisoned then stays so. `CHECK_DEADLOCK FALSE`: collided calls stop for good. In
`dom` a fragment has two children at most and a list two nodes, so that each is
once the first and once the last. `elements` changes the tree once per loop: the
second change meets what the first left.

Fairness. `FairSpec` has weak fairness of `Advance` and of `Skip \/ Keep`: a
`for` loop calls `next()` until it returns `None`, and a call that holds the lock
runs to its end. The client and failures are never forced. `Ends` is about
behaviours without a failed read, with records that cannot be parsed among them.
For guards: Python code that is not the guarded body runs on (`Starts`, `Started`,
`Joined`, `JoinFails`), the interpreter raises what is pending, guard threads begin to
run, wake up and get the GIL. Bodies are not forced to end, loops not to interrupt. For streams: a call of `fill_buf` or `seek` is executed (`Filling`); nobody is forced
to call. For Python records: strong fairness of every thread at every depth of its
stack, as the interpreter gives each its turns and streams and filters return. The runs
of headers, the DOM and `guard_loop` check safety only.

## 5. The findings

Three runs are expected to be violated; the findings in `PROJECT.json` quote the
statements they contradict. Found by the same models and not run, to keep the runs
few (each is an assumption of `Supported` or of a property below, or is left out of
the client's behaviour):

* a payload that decodes to its Content-Length or more: the reader is detached
  inside of it (record.rs:1364); a read that fails during a digest check skips a
  valid record and loses the reader (iter.rs:351); after the end a further `next()`
  gives an error, "No reader set", instead of `None`;
* a WARC header that cannot be parsed, with a new record per call: the reader is gone
  and the old record's `content_length` stays, so that a loop which goes on after errors
  gets "No reader set" for ever (record.rs:1364, 647); `Ends` names it;
* `freeze()` of a decoded payload drops the reader (record.rs:598, against 589);
* `set_bytes_payload()` of a payload that was not read to its end: the next
  header is looked for inside of the old payload (record.rs:481);
* a partly read record is written with a Content-Length that is too long
  (record.rs:1183, 1227);
* inplace mode: a record without Content-Length inherits the length of the one
  before (record.rs:751; fastwarc.rst:456 says that the body is skipped as empty);
* inplace mode with `parse_http` and a thread that reads between the two locks of
  `next()`: the HTTP header is looked for in the middle of the payload.

In the guards:

* an interrupt raised in `join()`, or between `setup()` and the return of
  `Thread.start()`, leaves the type registered for good, and in `start()` also a loop that
  goes on interrupting code outside of any context (process_guard.pyx:87-94, 100);
  `RegisteredForAReason` and `NoLateInterrupt` name these cases;
* `MemGuard` on a platform that lacks it raises after `setup()`, and the next call
  complains about nesting instead (process_guard.pyx:430);
* a guard that its own thread destroys stays registered, and one that is destroyed
  inside of another of its class takes that one's registration away, so that contexts
  of a class nest, against "Guard contexts of the same type cannot be nested."
  (process_guard.pyx:104, 86); the properties call such a class `spoilt`;
* levels may follow each other at 10 ms (process_guard.pyx:195), and, when
  `check_interval` exceeds the grace period, at less than it;
* a body that keeps the GIL blocks the first level of `exception_then_signal`, so
  that the signals do not follow (process_guard.pyx:155); `InterruptsInTime`
  excludes it;
* after the third level the loop is over: later hangs of the same context are not
  interrupted, whatever `progress()` reports (process_guard.pyx:240).

In the streams:

* `inner_seek()` of `ChunkedReader` keeps `out_buf` and `chunk_read`: it repeats old
  output, or `fill_buf()` loops for ever (chunked.rs:138); `SeeksChunks` = TRUE
  gives both;
* a `ZstdWriter` with a dictionary that nothing was written to leaves a frame which
  refers to it without the dictionary (zstd.rs:457); `ErrorsOnlyIfCut` names it;
* `ZstdReader::inner_seek()` in a reader that was not read from yet: the dictionary is
  not loaded (zstd.rs:208);
* LZ4: an empty frame is read as the end, and the start of the next frame reported
  wrongly (lz4.rs:101); `EndOfData` and `FrameStartOk` exclude it;
* gzip: after `inner_seek()` and before the next read `frame_start_position()` is still
  the old member's, and may lie after `inner_stream_position()` (gzip.rs:211); a member
  that is cut short is read as the end, without an error (gzip.rs:266), a chunked body
  without its last chunk as well (chunked.rs:182);
* `ChunkedWriter::finish()` with an empty buffer writes the last chunk twice
  (chunked.rs:331);
* `inner_seek()` of `BrotliReader` does not reset `stream_pos`, so that the next
  `seek(SeekFrom::Start(n))` skips too little or is refused (brotli.rs:122); a forward
  `seek()` stops at an empty gzip member without an error (mod.rs:125).

In the headers:

* `max_header_len` is compared to lengths that count some lines twice, so that blocks
  that are short enough are refused, and a CR LF that is split over two chunks is not
  counted (header.rs:460);
* a `parse` that goes on with the block of one that failed takes an LF for the end of a
  line when that block ended with CR, and adds to its raw lines: the block that it
  accepts may be longer than the limit (header.rs:460); `ReadsTheBlock` names both;
* `parse` without a status line into a map that has one, and no headers, keeps the old
  status line; a failed `parse` leaves raw lines that `write()` emits;
* a field with an empty name and value is written as the end of the block; an
  empty continuation leaves white space after a value;
* `get` returns the first of several values of a name, where the Python documentation
  says "only the last occurrence is returned" (fastwarc-py warc.rs:499), and `to_dict`
  joins them with a comma under the same words (458); `EditsAreSeen` asks for one of the
  values of a name that has several, not which one, and nothing of the joined value;
* `HeaderMap.parse` of a Python file drops what the adapter read ahead; a `read()` that
  returns more than it was asked for panics, as does `consume` of a position that is
  not known.

In the Python bindings:

* the record's mutex is held while Python streams or the `email` module run: another
  thread that touches the record waits for it with the interpreter lock, which the
  first one needs; a callback that touches its own record, or a comparison of two
  `HeaderMap`s of one record, waits for itself;
* pickling a record that has no reader panics and poisons it (warc.rs:828, against
  "WARC records are pickleable", 771); so do the HTTP headers of a record that inplace
  mode has parsed anew, and comparing with an object that is mutably borrowed;
* a record is poisoned as well by reading from a stream of FastWARC's own that was closed
  meanwhile (stream_io/mod.rs:211), by a `read()` that returns more than it was asked for
  (396, 400), and by `reader.read(2**63)` (warc.rs:717) or freezing a payload of such a
  length; `ErrorsDoNotPoison` names these.

In the DOM:

* `before()` inserts nothing (traits.rs:498), `replace_with()` only removes (516),
  `prepend()` reverses several nodes (436), inserting a node that has a place in a tree
  leaves its old neighbours linked to it; `set_outer_html` inserts a node before itself
  (node.rs:891), `set_outer_text` leaves a stale `first_child`;
* `ElementIterator::next` advances twice (iter.rs:139);
* an orphan that was wrapped again keeps a reference that nobody gives back (node.rs:268
  says that it is destroyed), as does a node that was decomposed directly; `doctype()`
  wraps a null pointer; a mutex per handle does not protect the tree;
* `remove()` and `replace()` on the class list of an element without one create
  `class=""`; words with white space are accepted; `elements_by_*` of a nested list
  returns elements twice; a Python `for` over a live list skips elements when the body
  removes one, where `iter()` in Rust is a snapshot; `remove_attribute` destroys an
  attribute that a handle may refer to, `set_attribute_node` ignores whose it is;
  negative indices raise OverflowError (coll.rs); an attribute without a value is `in`
  but cannot be read; `closest()` and `matches()` never match in a detached tree;
  the Python getter `next` returns the previous sibling.

In the parts without a module: `warc_retry` repeats the first record when the stream
fails right after it, as it skips one only when `pos > first_pos` (itertools.pyx:154);
and it catches the `GeneratorExit` of a loop that is left, reopens the stream and goes
on (itertools.pyx:122).

## 6. The proofs

`TypeCorrect`: `Spec => []TypeOK`, in every configuration. The inductive
invariant `TypeInv` adds `Good(rec)`: the position is not beyond the limit, the
live position not before the logical one, and `content_length` covers HTTP
headers that are still to be parsed. Without these `pos`, `at` and
`content_length` could underflow, which is what the code's unsigned arithmetic
relies on. There is one lemma per method of a record that it keeps `Good`.

`StaysAligned` and `ImplementsSequence`: under `Supported`, `Spec => []Aligned` and
`Spec => HandsOutTheArchive`. The inductive invariant is `SeqInv`. Its heart is
`Placed(rec, cursor)`: as long as `next()` may be called, a live reader's payload
ends at `cursor`, a frozen record's retained reader stands there. Every method
`Settles` (or leaves `Still`): it moves a placed record to a placed one and loses
the reader only to a failed read; so the next header is looked for exactly where
the abstract specification looks. While a record is not decided on nothing but
its header was read (`JustParsed`), unless a thread holds the same record, which
is why the digest check is about the whole block. Each action has a lemma that it
implements a step of `RecordSequence`; PTL combines them.

`Supported` names what is left out: decoding, `set_bytes_payload()` of an unread
payload, and in inplace mode (possible at any time) digests, freezing, writing,
threads with `parse_http`, and archives with a record without Content-Length. For
each there is a counterexample above. Everything else is a constant: the
archive, its length, quirks mode, the options and their changes, threads, the
methods used, the number of failed reads.

`WritesItsLength` and `ConsumesTheRest`: under `FreshOnly` and `NeverGrows`,
`UntouchedIsWrittenExactly` and `ConsumeTakesTheRest`. The invariant `CountInv` relates
`content_length` and the limit to where the payload ends. Both hypotheses are needed:
in inplace mode a record after an error has the limit `u64::MAX` and the length of the
record before; a decoded payload that is longer than its Content-Length leaves a rest
which no limit counts. `iter_fresh` satisfies both, `iter_modes` has inplace mode as
well.

`NeverNested`, `RegistryHasReasons`, `InterruptsStayInside`, `NoThreadRevived`: the
properties of `guard_contexts` for any number of guards, classes, threads, depths
and loops. They name what the code does not prevent: a class is stale in the registry
only if it is in `cut`, that is if entering or leaving a context of it was cut short,
and its contexts nest, and an old loop goes on, only if it is in `spoilt`, that is
after a guard of it was destroyed while another was in use. The inductive invariant is
`GuardInv`, most parts of which are about the classes that are not `spoilt`. `NotNested` alone is not inductive: `finish()` unregisters a
class without looking, so that the class must have no second frame
(`FramesDiffer`), and no second guard whose thread is still to be joined
(`HandlesDiffer`); that a frame being left joins its guard's own thread
(`FramesHandled`) and every live loop is its guard's (`LoopsHandled`) makes the join
wait for the right thread, after which nothing of that guard can be pending
(`PendingHandled`). The three loop actions share a lemma (`LoopMovesKeeps`), as do the
two that only change the innermost frame (`ReplaceKeeps`).

`LevelsComeInTime`, `ProgressCounts`, `SpikesPass`: the properties of `guard_loop` for
all timeouts, grace periods, check intervals and delays. `LoopInv` has a part for
each side of the clock: `Heard` and `Sampled` say that the timer is never older than the
silence, or the excess of memory, that it measures; `InTime` that it is never
younger by more than an iteration, and how long each level can have been left unsent,
by where the loop is. The proof settled the deadline: a `MemGuard` reads the clock
after the memory, so that it notices up to `Slack` later than a `TimeGuard`
(`Noticed`).

`WritesEverything`, `ReadsInOrder`, `NoErrors`, `EndsWithTheData`, `StartsAreKnown`: all
the invariants of `streams`, for any sizes of input, output and chunks, any split
of the input and any cut. The last four assume `~SeeksChunks`, as the run does:
chunked bodies are not sought in after they were read from (section 5 has the
counterexample). There is no induction over the tape; that a set of numbers has a
least one (`LeastNumber`) takes its place. Five invariants build on each other:

* `WriterInv`: the units on the tape are numbered in its order, and tape and encoder
  together are what was written;
* `ReaderInv`: the buffer ends with the last unit before `pos`, and its unread part
  begins with `expect`; this is `InOrder`, and needs no knowledge of formats, only
  that a decoder outputs the units of the cells it takes (`TakenUnits`);
* `OrderInv`: the grammar of the tape in terms of neighbouring cells, complete unless
  it was cut, and where dictionary frames and Brotli's only end are;
* `PlaceInv`: a decoder is inside of a member exactly if the cell before `pos` is,
  chunk counters agree with the size that was read, and what a reader that returned
  nothing has before it. Whatever a decoder finds is then what it wants
  (`FindsWhatItWants`), which is `ErrorsOnlyIfCut`;
* `StartInv`: no member begins between the remembered start and `pos`, and the buffer
  holds no more units than lie between them. `BufStart` is why gzip copies
  `next_member_pos` before each read, and `DictAhead` why a frame that begins at 0 is
  not taken for one behind a dictionary.

`BufferHolds`, `PositionHolds`: the adapter of `headers` holds the piece of the file
that ends at the file's position, and stands where its reads and seeks should have
brought it, for any contents, capacity and order of calls.

`BlockIsRead`: `ReadsTheBlock`, for any file, limit, buffer and splits of the reads, and
any number of parses. The reference reads a text at once, the parser line by line from
chunks, so the invariant `ReadInv` compares what was consumed with a beginning of the
text: the ends of lines, the lines and the blank lines of a beginning are those of
the text (`Ends`, `LineTo`, `Blanks`), and the map that a beginning is read as grows by a
line at its end (`ReadAs`, whose recursive function exists because there is no least
number for which it does not). `Taken` and `LinesTaken` say which beginning and which of
its ends the parse has come to, `MapIsRead` that the map is that beginning's, `NotSplit`
that the LF of a CR LF that two chunks split was looked for before the other lines of
the second one, `Within` what was counted against the limit. The proof showed that
`ReadsTheBlock` did not hold as it was first stated, for the two reasons that section 5
gives.

`ErrorsPoisonNothing`, `FilterIsAlone`, `NobodyGetsBetween`, `WorkIsLeftAlone`: the safety
properties of `pyrecord` for any number of threads, records and calls in progress.
`RecordInv` says that PyO3's borrow of the iterator leaves one call on it
(`OneIterator`), a record's mutex one call inside of it (`Exclusive`), that each frame
of each stack is in a place of its method that fits the frame above it (`Calls`), and
that only running Python code gives the interpreter lock away (`GilKept`). That
nothing is poisoned needs in addition that two calls do not meet on one record
unless something was misused (`Apart`, `Calm`), and that a poisoned mutex, once there
is one, has an `overrun` or a misuse as its reason (`Excused`).

`TreeIsLinked`, `NothingDangles`: the pointers and the references of `dom`, for any
number of nodes and handles and lists of any length. Neither is inductive. That neighbouring links
agree does not exclude siblings in a circle, in which a node that is taken out leaves
others that no parent reaches; so `Shape` adds that there are depths that grow from
parent to child (`Deep`) and ranks that grow from a node to the next (`Rising`). And
Lexbor's insertion looks at nothing; what a call found true of its nodes when it
began has to last until their turn comes. That is `CallInv`: every node still in
the list is loose and not above the place it goes to (`Listed`), the fragment's
children still to be moved are its own, and the anchor and the node to be removed
are where they were. `Counted` and `Ahead` are `NoDangling` for the steps of a call.
`TreeInv` is all of it.

`KidsAreTheChildren` says that following `next` from the first child comes by each child
once; it rests on the ranks and, in place of an induction, on the least number for
which something fails (`LeastNumber`, `LowestNode`). The
recursive functions in `Kids`, `Advance` and `DocumentOrder` exist by the same argument
(`AlongExists`, `OnExists`, `WalkExists`).

`VisitsInDocumentOrder`: `VisitsInOrder`, for any number of nodes and whatever the loop
body does. The ranks of siblings give an order of the document: a node precedes what
is below it, and of two siblings the lower one, with all that is below it, precedes the
other (`Precedes`). It is asymmetric, since what is below two siblings does not meet
(`PrecedesOneWay`); `DocumentOrder` lists a subtree in that order (`OrderListsAll`, by the
least size for which it would not), and `Advance` leads to the successor
(`AdvanceIsNext`). `IterInv` says that the iterator has returned what it owes and what
precedes the node that it read ahead. Each action needs new ranks at most for the node
that it moves, so that the order of all others stays (`WalkMoves`, `WalkLoses`); and a
node below which all of the walk is may move with it.

`TreeIsForest` (in `DomForestProofs`): `ImplementsForest`, for any number of nodes and
lists of any length. The mapping `kidsBar` is what the pointers list between two calls and, from the first step of
a call to its return, what the call promised; so each call is one step of
`OrderedForest`, and its other steps are stutters. `TreeInv` does not say why the return
keeps the promise. `PromiseInv` does: while a call is under way, the children of its
node are `a \o b` with the place between them, and with what is still to come put there
(`Rest`: the children left in the fragment, then what the list stands for, without
what `insert_before()` will refuse), fragments emptied (`Opened`) and the node that is to
be replaced taken out, they are the promise (`InPlace`). Each step takes one piece
from `Rest` to `a` (`PutStays`), and what may be inserted (`Kept`) stays the same
meanwhile, because no step moves the anchor (`KeptStays`). Below this lie what Lexbor's
functions do to the lists of children (`PutKids`, `UnlinkKids`, `DestroyDeepKids`,
`DestroyBelowKids`): a list is known by its first child and its `next` pointers
(`KidsUnique`), which is the link from the pointers to sequences, and `BelowIsSubtree`, which
says that the forest's `Below` is the tree's `Subtree`. `DomAssumption` asks for
`MaxList >= 1`: `append_child()` and `insert_before()` pass one node.

Assumptions: the typing of the constants, and of `Lower`, which maps spellings:
`ArchiveAssumption`, `MaxLimitAssumption`, `OptionsAssumption`, `GuardAssumption`,
`LoopAssumption`, `TapeAssumption`, `WriterAssumption`, `ReaderAssumption`,
`HeaderAssumption`, `CapacityAssumption`, `NoneAssumption`, `RecordAssumption`,
`NodesAssumption`, `DomAssumption`, `ListsAssumption`, evaluated by TLC in every run.

Model-checked only:

* `Ends`, `LeavingEnds`, `EveryCallReturns`, `FillReturns`: liveness;
* the refinement with decoded payloads: what the counterexamples of section 5 leave is
  hard to state in general, so it holds for the archive of `iter_modes`;
* `ReadsBack`, `EditsAreSeen`: what is written and looked up is selected from sequences
  (`SelectSeq`, `FoldLeft`), which the provers do not expand;
* `ClassListsAreSets`, `LoopsMissNothing`, `LookupsAgree`: about lists that are computed
  by a traversal of the tree.

Three properties take the code's own answers for granted where section 5 calls them
odd, and guard against changes of everything else: `ImplementsForest` says that a call
is one step on the children of all nodes, with the order and the refusals of the code
(`before()`, `replace_with()`, `prepend()`); `LoopsMissNothing` excuses what a live loop
steps over when an element leaves; `LookupsAgree` has `closest()` and `matches()` of
detached elements as they are.

## 7. Not modelled

In the modelled parts: the filtered iterator (a loop around `next()` with a pure
predicate), `from_path`, `into_inner` (ends the iteration), header setters, cloning
and `from_bytes`, `verify_payload_digest` (moves the reader as
`verify_block_digest` does), errors of the writer, `max_header_len` changed during
the iteration, the current record's copy of `quirks_mode` (equal to the
iterator's unless it is changed during the iteration). In the guards: the
module-level `progress()`, which looks for its guard on the Python stack; a
`/proc/self/statm` that cannot be read (`_get_rss` returns 0 then, which resets the
timer); which signal a level sends, beyond whether it needs the GIL; what the
signals do once raised. In the streams: flush modes other than a finishing one,
corrupt data, the sizes of cells (a read that ends within one), dictionaries given to
the reader, failed reads and writes of the inner stream.

The components of section 1 that have no module yet are in the plan. Extraction
of text, detection of encodings and languages, CSS, serialization and the
command line tools will not be modelled: they keep no state between calls, and
what could be wrong with them is not a matter of order.
