--------------------------- MODULE ZeroCopyStreams ---------------------------
(***************************************************************************)
(* The input streams of io/zero_copy_stream_impl*.cc: over an array, over a *)
(* Cord, over something that is read by copying (a file, an istream), one   *)
(* after the other, and up to a limit.  A stream is a record of its fields, *)
(* with the streams it reads from inside; a method is the set of its        *)
(* outcomes, records of the stream afterwards and what was returned.  Bytes *)
(* are positions in the source, so that what a reader is given says which   *)
(* bytes it was given.                                                      *)
(***************************************************************************)
EXTENDS Integers, Sequences, FiniteSetsExt, SequencesExt

CONSTANTS
  Source,       \* the streams a reader may be given
  Count,        \* what a reader asks for, and limits
  MaxLimits,    \* how many limits may be on a stream at a time
  Careless      \* what is asked although it goes wrong: "cord", "seek"

VARIABLES
  stream,       \* the stream that is read
  source,       \* what the source holds
  last,         \* the size of the buffer that the last call returned
  answer,       \* of the last call
  limits        \* where the limits on the stream end, the last one first

vars == <<stream, source, last, answer, limits>>

Fail(s) == [s |-> s, ok |-> FALSE, data |-> 0, size |-> 0]
Done(s) == [s |-> s, ok |-> TRUE, data |-> 0, size |-> 0]
Give(s, data, size) == [s |-> s, ok |-> TRUE, data |-> data, size |-> size]
Least(a, b) == IF a < b THEN a ELSE b

\* A failed ABSL_CHECK ends the program.
Check(s, condition, then) == IF condition THEN then ELSE [s EXCEPT !.checks = FALSE]

-------------------------------------------------------------------------------
(* ArrayInputStream *)

Array(from, size, block) ==
  [kind |-> "array", from |-> from, size_ |-> size, block_size_ |-> IF block > 0 THEN block ELSE size,
   position_ |-> 0, last_returned_size_ |-> 0, checks |-> TRUE]

ArrayNext(s) ==
  LET n == Least(s.block_size_, s.size_ - s.position_) IN
  IF s.position_ < s.size_
  THEN {Give([s EXCEPT !.last_returned_size_ = n, !.position_ = @ + n], s.from + s.position_, n)}
  ELSE {Fail([s EXCEPT !.last_returned_size_ = 0])}

ArrayBackUp(s, count) ==
  Check(s, s.last_returned_size_ > 0 /\ count <= s.last_returned_size_ /\ count >= 0,
        [s EXCEPT !.position_ = @ - count, !.last_returned_size_ = 0])

ArraySkip(s, count) ==
  {IF count > s.size_ - s.position_
   THEN Fail([s EXCEPT !.last_returned_size_ = 0, !.position_ = s.size_])
   ELSE Done([s EXCEPT !.last_returned_size_ = 0, !.position_ = @ + count])}

-------------------------------------------------------------------------------
(* CordInputStream.  A Cord is the lengths of its chunks; it_ is a position  *)
(* in it.                                                                    *)

ChunkRemaining(chunks, it) ==
  LET ends == {FoldSeq(+, 0, SubSeq(chunks, 1, i)) : i \in DOMAIN chunks} IN
  Min({e \in ends : e > it}) - it

LoadChunkData(s) ==
  LET n == IF s.bytes_remaining_ = 0 THEN 0 ELSE ChunkRemaining(s.chunks, s.it_) IN
  [s EXCEPT !.size_ = n, !.available_ = n]

Cord(from, chunks) ==
  LET length == FoldSeq(+, 0, chunks) IN
  LoadChunkData([kind |-> "cord", from |-> from, chunks |-> chunks, it_ |-> 0, length_ |-> length,
                 bytes_remaining_ |-> length, size_ |-> 0, available_ |-> 0, checks |-> TRUE])

NextChunk(s, skip) ==
  IF s.size_ = 0 THEN s
  ELSE LoadChunkData([s EXCEPT !.it_ = @ + (s.size_ - s.available_) + skip,
                               !.bytes_remaining_ = @ - skip])

CordNext(s) ==
  LET c == IF s.available_ > 0 THEN s ELSE NextChunk(s, 0) IN
  IF c.available_ > 0
  THEN {Give([c EXCEPT !.bytes_remaining_ = @ - c.available_, !.available_ = 0],
             c.from + c.it_ + c.size_ - c.available_, c.available_)}
  ELSE {Fail(c)}

CordBackUp(s, count) ==
  Check(s, count <= s.size_ - s.available_,
        [s EXCEPT !.available_ = @ + count, !.bytes_remaining_ = @ + count])

CordSkip(s, count) ==
  {IF count <= s.available_
   THEN Done([s EXCEPT !.available_ = @ - count, !.bytes_remaining_ = @ - count])
   ELSE IF count <= s.bytes_remaining_ THEN Done(NextChunk(s, count))
   ELSE Fail(NextChunk(s, s.bytes_remaining_))}

\* A count below zero becomes a very large size_t.
CordReadCord(s, count) ==
  LET it == s.it_ + s.size_ - s.available_
      n == IF count < 0 THEN s.bytes_remaining_ ELSE Least(count, s.bytes_remaining_) IN
  {[s |-> LoadChunkData([s EXCEPT !.it_ = it + n, !.bytes_remaining_ = @ - n]),
    ok |-> n = count, data |-> s.from + it, size |-> n]}

-------------------------------------------------------------------------------
(* CopyingInputStreamAdaptor over a CopyingInputStream, of which `at` is the *)
(* position, `broken` where it stops working (or its size), and `seeks`      *)
(* whether it is a file that lseek() works on.                               *)

Copying(from, size, block, broken, seeks) ==
  [kind |-> "copying", from |-> from, size |-> size, broken |-> broken, seeks |-> seeks, at |-> 0,
   failed_ |-> FALSE, position_ |-> 0, buffer_size_ |-> block, buffer |-> FALSE, base |-> 0,
   buffer_used_ |-> 0, backup_bytes_ |-> 0, checks |-> TRUE]

\* What Read() may return: some bytes, 0 at the end, -1 for an error.
ReadReturns(s, most) ==
  IF s.at >= s.size THEN {0}
  ELSE IF s.at >= s.broken THEN {-1}
  ELSE 1..Least(most, Least(s.size, s.broken) - s.at)

CopyingNext(s) ==
  IF s.failed_ THEN {Fail(s)}
  ELSE IF s.backup_bytes_ > 0
  THEN {Give([s EXCEPT !.backup_bytes_ = 0], s.from + s.base + s.buffer_used_ - s.backup_bytes_,
             s.backup_bytes_)}
  ELSE {IF n <= 0
        THEN Fail([s EXCEPT !.failed_ = n < 0, !.buffer_used_ = 0, !.buffer = FALSE])
        ELSE Give([s EXCEPT !.buffer = TRUE, !.base = s.at, !.at = @ + n, !.buffer_used_ = n,
                            !.position_ = @ + n], s.from + s.at, n) : n \in ReadReturns(s, s.buffer_size_)}

CopyingBackUp(s, count) ==
  Check(s, s.backup_bytes_ = 0 /\ s.buffer /\ count <= s.buffer_used_ /\ count >= 0,
        [s EXCEPT !.backup_bytes_ = count])

\* lseek() may go beyond the end; CopyingInputStream::Skip reads what it skips.
SkipReturns(s, count) ==
  IF s.seeks THEN count ELSE Least(count, Least(s.size, s.broken) - s.at)

CopyingSkip(s, count) ==
  LET rest == count - s.backup_bytes_
      skipped == SkipReturns(s, rest)
      after == [s EXCEPT !.backup_bytes_ = 0, !.at = @ + skipped, !.position_ = @ + skipped] IN
  {IF s.failed_ THEN Fail(s)
   ELSE IF s.backup_bytes_ >= count THEN Done([s EXCEPT !.backup_bytes_ = @ - count])
   ELSE IF skipped = rest THEN Done(after) ELSE Fail(after)}

-------------------------------------------------------------------------------
(* The streams that read from others: ConcatenatingInputStream and           *)
(* LimitingInputStream.                                                      *)

Concat(streams) == [kind |-> "concat", streams_ |-> streams, bytes_retired_ |-> 0, checks |-> TRUE]

RECURSIVE ByteCount(_)
ByteCount(s) ==
  CASE s.kind = "array"    -> s.position_
    [] s.kind = "cord"     -> s.length_ - s.bytes_remaining_
    [] s.kind = "copying"  -> s.position_ - s.backup_bytes_
    [] s.kind = "concat"   -> s.bytes_retired_ + (IF s.streams_ = <<>> THEN 0 ELSE ByteCount(s.streams_[1]))
    [] s.kind = "limiting" -> ByteCount(s.input_) - s.prior_bytes_read_ + (IF s.limit_ < 0 THEN s.limit_ ELSE 0)

Limiting(input, limit) ==
  [kind |-> "limiting", input_ |-> input, limit_ |-> limit, prior_bytes_read_ |-> ByteCount(input),
   checks |-> TRUE]

RECURSIVE BackUpOf(_, _)
BackUpOf(s, count) ==
  CASE s.kind = "array"    -> ArrayBackUp(s, count)
    [] s.kind = "cord"     -> CordBackUp(s, count)
    [] s.kind = "copying"  -> CopyingBackUp(s, count)
    [] s.kind = "concat"   -> Check(s, s.streams_ # <<>>, [s EXCEPT !.streams_[1] = BackUpOf(@, count)])
    [] s.kind = "limiting" ->
         IF s.limit_ < 0
         THEN [s EXCEPT !.input_ = BackUpOf(@, count - s.limit_), !.limit_ = count]
         ELSE [s EXCEPT !.input_ = BackUpOf(@, count), !.limit_ = @ + count]

\* The first of the streams has no more: its outcome is `r`.
Retire(s, r) == [s EXCEPT !.bytes_retired_ = @ + ByteCount(r.s), !.streams_ = Tail(@)]
Within(s, r) == [r EXCEPT !.s = [s EXCEPT !.streams_[1] = r.s]]

Limited(s, r) ==
  LET limit == s.limit_ - r.size IN
  [r EXCEPT !.s = [s EXCEPT !.input_ = r.s, !.limit_ = limit],
            !.size = IF limit < 0 THEN @ + limit ELSE @]

RECURSIVE NextOf(_)
NextOf(s) ==
  CASE s.kind = "array"    -> ArrayNext(s)
    [] s.kind = "cord"     -> CordNext(s)
    [] s.kind = "copying"  -> CopyingNext(s)
    [] s.kind = "concat"   ->
         IF s.streams_ = <<>> THEN {Fail(s)}
         ELSE UNION {IF r.ok THEN {Within(s, r)} ELSE NextOf(Retire(s, r)) : r \in NextOf(s.streams_[1])}
    [] s.kind = "limiting" ->
         IF s.limit_ <= 0 THEN {Fail(s)}
         ELSE {IF r.ok THEN Limited(s, r) ELSE Fail([s EXCEPT !.input_ = r.s]) : r \in NextOf(s.input_)}

StillAll(s, r, count) == count

\* What ConcatenatingInputStream::Skip still has to skip after a stream that
\* was at `s` and had no more.
StillToSkip(s, r, count) == (ByteCount(s) + count) - ByteCount(r.s)

RECURSIVE SkipOf(_, _)
SkipOf(s, count) ==
  CASE s.kind = "array"    -> ArraySkip(s, count)
    [] s.kind = "cord"     -> CordSkip(s, count)
    [] s.kind = "copying"  -> CopyingSkip(s, count)
    [] s.kind = "concat"   ->
         IF s.streams_ = <<>> THEN {Fail(s)}
         ELSE UNION {IF r.ok THEN {Within(s, r)}
                     ELSE SkipOf(Retire(s, r), StillToSkip(s.streams_[1], r, count))
                     : r \in SkipOf(s.streams_[1], count)}
    [] s.kind = "limiting" ->
         IF s.limit_ < 0 THEN {Fail(s)}
         ELSE IF count > s.limit_
         THEN {Fail([s EXCEPT !.input_ = r.s, !.limit_ = 0]) : r \in SkipOf(s.input_, s.limit_)}
         ELSE {IF r.ok THEN Done([s EXCEPT !.input_ = r.s, !.limit_ = @ - count])
               ELSE Fail([s EXCEPT !.input_ = r.s]) : r \in SkipOf(s.input_, count)}

\* ZeroCopyInputStream::ReadCord, which takes `count` bytes or what there is
\* from buffers, and backs up what it did not want of the last.
RECURSIVE ReadByNext(_, _)
ReadByNext(s, count) ==
  UNION {IF ~r.ok THEN {r}
         ELSE IF r.size >= count
         THEN {Give(IF r.size > count THEN BackUpOf(r.s, r.size - count) ELSE r.s, r.data, count)}
         ELSE {[x EXCEPT !.data = r.data, !.size = @ + r.size] : x \in ReadByNext(r.s, count - r.size)}
         : r \in NextOf(s)}

RECURSIVE ReadCordOf(_, _)
ReadCordOf(s, count) ==
  CASE s.kind = "cord" -> CordReadCord(s, count)
    [] s.kind = "limiting" ->
         IF count <= 0 THEN {Done(s)}
         ELSE IF count <= s.limit_
         THEN {[r EXCEPT !.s = [s EXCEPT !.input_ = r.s, !.limit_ = IF r.ok THEN @ - count ELSE @]]
               : r \in ReadCordOf(s.input_, count)}
         ELSE {[r EXCEPT !.s = [s EXCEPT !.input_ = r.s, !.limit_ = 0], !.ok = FALSE]
               : r \in ReadCordOf(s.input_, s.limit_)}
    [] OTHER -> IF count <= 0 THEN {Done(s)} ELSE ReadByNext(s, count)

-------------------------------------------------------------------------------
(* A reader. *)

Answer(r) == answer' = [ok |-> r.ok, data |-> IF r.size = 0 THEN 0 ELSE r.data, size |-> r.size]
Answers(outcomes) == \E r \in outcomes : stream' = r.s /\ Answer(r)

RECURSIVE Overshot(_)
Overshot(s) == s.kind = "limiting" /\ (s.limit_ < 0 \/ Overshot(s.input_))

\* A file is skipped beyond its end, in the first stream that is read from.
RECURSIVE BeyondEnd(_, _)
BeyondEnd(s, count) ==
  CASE s.kind = "copying"  -> s.seeks /\ s.at - s.backup_bytes_ + count > s.size
    [] s.kind = "concat"   -> s.streams_ # <<>> /\ BeyondEnd(s.streams_[1], count)
    [] s.kind = "limiting" -> BeyondEnd(s.input_, Least(count, s.limit_))
    [] OTHER -> FALSE

Next_ ==
  /\ Answers(NextOf(stream))
  /\ last' = answer'.size
  /\ UNCHANGED <<source, limits>>

BackUp ==
  /\ last > 0
  /\ \E count \in 0..last : stream' = BackUpOf(stream, count)
  /\ last' = 0 /\ Answer(Done(stream'))
  /\ UNCHANGED <<source, limits>>

Skip(count) ==
  /\ "seek" \in Careless \/ ~BeyondEnd(stream, count)
  /\ Answers(SkipOf(stream, count))
  /\ last' = 0
  /\ UNCHANGED <<source, limits>>

ReadCord(count) ==
  /\ "cord" \in Careless \/ ~Overshot(stream)
  /\ Answers(ReadCordOf(stream, count))
  /\ last' = 0
  /\ UNCHANGED <<source, limits>>

\* Where a stream stands in the source; a LimitingInputStream counts from where
\* it was put.
RECURSIVE Offset(_)
Offset(s) == IF s.kind = "limiting" THEN s.prior_bytes_read_ + Offset(s.input_) ELSE 0
Position(s) == ByteCount(s) + Offset(s)

\* A LimitingInputStream is put on the stream.
Limit ==
  /\ Len(limits) < MaxLimits
  /\ \E limit \in Count :
       /\ stream' = Limiting(stream, limit)
       /\ limits' = <<Position(stream) + limit>> \o limits
  /\ last' = 0 /\ Answer(Done(stream'))
  /\ UNCHANGED source

\* ~LimitingInputStream
Destroyed(s) == IF s.limit_ < 0 THEN BackUpOf(s.input_, -s.limit_) ELSE s.input_

Unlimit ==
  /\ limits # <<>>
  /\ stream' = Destroyed(stream)
  /\ limits' = Tail(limits) /\ last' = 0 /\ Answer(Done(stream'))
  /\ UNCHANGED source

Init ==
  /\ source \in Source /\ stream = source.stream
  /\ last = 0 /\ limits = <<>> /\ answer = [ok |-> TRUE, data |-> 0, size |-> 0]

Next == Next_ \/ BackUp \/ (\E count \in Count : Skip(count) \/ ReadCord(count)) \/ Limit \/ Unlimit

Spec == Init /\ [][Next]_vars

-------------------------------------------------------------------------------
(* Properties. *)

Bytes == INSTANCE ByteStream WITH total <- source.total, breaks <- source.breaks,
                                  pos <- Position(stream), ends <- limits

\* No stream is asked by another to back up more than it returned, which would
\* fail an ABSL_CHECK.
RECURSIVE Checked(_)
Checked(s) ==
  /\ s.checks
  /\ s.kind = "limiting" => Checked(s.input_)
  /\ s.kind = "concat" => \A i \in DOMAIN s.streams_ : Checked(s.streams_[i])

\* However streams are put together, a reader is given the bytes of the source
\* once and in order, is told the truth about where it stands, is never given
\* a byte beyond a limit, and leaves the stream, when the limit is gone,
\* exactly where it stopped: what overshot is backed up ("If we overshot the
\* limit, back up", zero_copy_stream_impl_lite.cc:410).
ImplementsByteStream == Bytes!Spec /\ []Checked(stream)

\* A LimitingInputStream is "limited to a particular byte count"
\* (zero_copy_stream_impl_lite.h:349): no byte beyond it is given to the reader.
NothingBeyondLimit ==
  answer.size > 0 => \A i \in DOMAIN limits : answer.data + answer.size <= limits[i]
===============================================================================
