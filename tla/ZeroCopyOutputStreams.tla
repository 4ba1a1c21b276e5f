------------------------ MODULE ZeroCopyOutputStreams ------------------------
(***************************************************************************)
(* The output streams of io/zero_copy_stream_impl*.cc: into an array, into  *)
(* a string, into a Cord, and into something that is written by copying (a  *)
(* file, an ostream), which may fail.  A stream is a record of its fields;  *)
(* a method is the set of its outcomes.  Whatever memory a stream hands     *)
(* out, its bytes are `data` in the order of the output, and `lo` is where  *)
(* the buffer that a caller may write to begins: everything before belongs  *)
(* to the stream.                                                           *)
(***************************************************************************)
EXTENDS Integers, Sequences, FiniteSetsExt

CONSTANTS
  MinimumSize,   \* kMinimumSize of StringOutputStream
  MinBlockSize   \* kMinBlockSize of CordOutputStream

Garbage == -1
Least(a, b) == IF a < b THEN a ELSE b
Greatest(a, b) == IF a > b THEN a ELSE b

ByteCount(s) == Len(s.data)

\* n bytes more, the buffer that is returned; n bytes less.
Extend(s, n) == [s EXCEPT !.lo = Len(s.data), !.data = @ \o [i \in 1..n |-> Garbage]]
Cut(s, n) == [s EXCEPT !.lo = Len(s.data) - n, !.data = SubSeq(@, 1, Len(@) - n)]
Close(s) == [s EXCEPT !.lo = Len(s.data)]

Check(s, condition, then) == IF condition THEN then ELSE [s EXCEPT !.checks = FALSE]
Fail(s) == [s |-> s, ok |-> FALSE, size |-> 0]
Give(s, n) == [s |-> Extend(s, n), ok |-> TRUE, size |-> n]
Done(s) == [s |-> s, ok |-> TRUE, size |-> 0]

\* What a caller puts into the buffer it was given.
Fill(s, at, bytes) ==
  [s EXCEPT !.data = [i \in DOMAIN @ |-> IF i - at \in DOMAIN bytes THEN bytes[i - at] ELSE @[i]],
            !.checks = @ /\ (bytes = <<>> \/ (at >= s.lo /\ at + Len(bytes) <= Len(s.data)))]

-------------------------------------------------------------------------------
(* ArrayOutputStream, StringOutputStream *)

Array(size, block) ==
  [kind |-> "array", data |-> <<>>, lo |-> 0, size_ |-> size, block_size_ |-> block,
   last_returned_size_ |-> 0, checks |-> TRUE]

ArrayNext(s) ==
  LET n == Least(s.block_size_, s.size_ - Len(s.data)) IN
  IF n > 0 THEN Give([s EXCEPT !.last_returned_size_ = n], n)
  ELSE Fail([s EXCEPT !.last_returned_size_ = 0])

ArrayBackUp(s, count) ==
  Check(s, count <= s.last_returned_size_ /\ count >= 0,
        [Cut(s, count) EXCEPT !.last_returned_size_ = @ - count])

String(capacity) == [kind |-> "string", data |-> <<>>, lo |-> 0, capacity |-> capacity, checks |-> TRUE]

StringNext(s) ==
  LET old == Len(s.data)
      new == Greatest(MinimumSize, IF old < s.capacity THEN s.capacity ELSE old * 2) IN
  Give([s EXCEPT !.capacity = Greatest(@, new)], new - old)

StringBackUp(s, count) == Check(s, count >= 0 /\ count <= Len(s.data), Cut(s, count))

-------------------------------------------------------------------------------
(* CordOutputStream.  buffer_ is a CordBuffer, whose length is `length` and  *)
(* whose capacity is `capacity`; the rest of the bytes are cord_'s.          *)

Cord(hint) ==
  [kind |-> "cord", data |-> <<>>, lo |-> 0, size_hint_ |-> hint, state_ |-> "kEmpty", length |-> 0,
   capacity |-> 0, spare |-> 0, checks |-> TRUE]

\* The Cord gets the buffer, with room at its end.
AppendBuffer(s) ==
  [s EXCEPT !.spare = IF s.length = 0 THEN @ ELSE s.capacity - s.length, !.length = 0, !.capacity = 0]

\* CordBuffer::CreateWithDefaultLimit may round up.
NewBuffers(s, n) == {[s EXCEPT !.spare = 0, !.length = 0, !.capacity = m] : m \in {n, n + 1}}

\* Cord::GetAppendBuffer may take the last buffer back if there is room in it.
GetAppendBuffers(s, n) ==
  NewBuffers(s, n)
  \cup IF s.spare = 0 THEN {} ELSE {[s EXCEPT !.length = 1, !.capacity = 1 + s.spare, !.spare = 0]}

CordNext(s) ==
  LET hinted == s.size_hint_ > Len(s.data)
      desired == IF hinted THEN s.size_hint_ - Len(s.data) ELSE Greatest(Len(s.data), MinBlockSize)
      buffers == CASE s.state_ = "kSteal" -> GetAppendBuffers(s, desired)
                   [] s.state_ = "kPartial" -> {s}
                   [] s.state_ = "kFull" -> NewBuffers(AppendBuffer(s), desired)
                   [] s.state_ = "kEmpty" -> NewBuffers(s, desired)
      span(b) == b.capacity - b.length
      n(b) == IF hinted THEN Least(span(b), desired) ELSE span(b) IN
  {Give([b EXCEPT !.length = @ + n(b), !.state_ = IF n(b) < span(b) THEN "kPartial" ELSE "kFull",
                  !.checks = @ /\ span(b) > 0], n(b)) : b \in buffers}

CordBackUp(s, count) ==
  IF count = 0 THEN s
  ELSE Check(s, count <= s.length, [Cut(s, count) EXCEPT !.length = @ - count, !.state_ = "kPartial"])

\* Cord::Append may copy what is appended into the room there is.
CordWriteCord(s, bytes) ==
  {Done(Close([AppendBuffer(s) EXCEPT !.data = @ \o bytes, !.state_ = "kSteal", !.spare = room]))
   : room \in {0, Greatest(0, AppendBuffer(s).spare - Len(bytes))}}

-------------------------------------------------------------------------------
(* CopyingOutputStreamAdaptor.  `file` is what the CopyingOutputStream has    *)
(* written, and `broken` whether it ever failed to.                           *)

Copying(block) ==
  [kind |-> "copying", data |-> <<>>, lo |-> 0, buffer_size_ |-> block, position_ |-> 0, failed_ |-> FALSE,
   file |-> <<>>, broken |-> FALSE, checks |-> TRUE]

BufferUsed(s) == Len(s.data) - s.position_

\* CopyingOutputStream::Write, which may stop in the middle, and then for good.
CopyingWrite(s, bytes) ==
  {[s |-> [s EXCEPT !.file = @ \o SubSeq(bytes, 1, n), !.broken = @ \/ n < Len(bytes)],
    ok |-> n = Len(bytes)] :
    n \in IF s.broken THEN {0} ELSE {0, Len(bytes) - 1, Len(bytes)}}

\* After an error the buffer is gone.
WriteBuffer(s) ==
  IF s.failed_ THEN {Fail(s)}
  ELSE IF BufferUsed(s) = 0 THEN {Done(s)}
  ELSE {IF r.ok THEN Done(Close([r.s EXCEPT !.position_ = Len(s.data)]))
        ELSE Fail([Cut(r.s, BufferUsed(s)) EXCEPT !.failed_ = TRUE])
        : r \in CopyingWrite(s, SubSeq(s.data, s.position_ + 1, Len(s.data)))}

Then(outcomes, then(_)) == UNION {IF r.ok THEN then(r.s) ELSE {r} : r \in outcomes}

CopyingNext(s) ==
  LET give(t) == {Give(t, t.buffer_size_ - BufferUsed(t))} IN
  IF BufferUsed(s) = s.buffer_size_ THEN Then(WriteBuffer(s), give) ELSE give(s)

\* BackUp(0) flushes, and does not say if that fails.
CopyingBackUp(s, count) ==
  IF count = 0 THEN {r.s : r \in WriteBuffer(s)}
  ELSE {Check(s, BufferUsed(s) = s.buffer_size_ /\ count <= BufferUsed(s), Cut(s, count))}

RECURSIVE WriteAliasedRaw(_, _)
WriteAliasedRaw(s, bytes) ==
  LET direct(t) == {IF r.ok
                    THEN Done(Close([r.s EXCEPT !.data = @ \o bytes, !.position_ = @ + Len(bytes)]))
                    ELSE Fail(r.s) : r \in CopyingWrite(t, bytes)}
      buffered(r) == LET m == Least(Len(bytes), r.size)
                         t == Fill(r.s, r.s.lo, SubSeq(bytes, 1, m)) IN
                     IF m = Len(bytes) THEN {Done(b) : b \in CopyingBackUp(t, r.size - m)}
                     ELSE WriteAliasedRaw(t, SubSeq(bytes, m + 1, Len(bytes))) IN
  IF Len(bytes) >= s.buffer_size_ THEN Then(WriteBuffer(s), direct)
  ELSE UNION {IF r.ok THEN buffered(r) ELSE {r} : r \in CopyingNext(s)}

-------------------------------------------------------------------------------
(* ZeroCopyOutputStream *)

AllowsAliasing(s) == s.kind = "copying"

NextOf(s) ==
  CASE s.kind = "array" -> {ArrayNext(s)}
    [] s.kind = "string" -> {StringNext(s)}
    [] s.kind = "cord" -> CordNext(s)
    [] s.kind = "copying" -> CopyingNext(s)

BackUpOf(s, count) ==
  CASE s.kind = "array" -> {ArrayBackUp(s, count)}
    [] s.kind = "string" -> {StringBackUp(s, count)}
    [] s.kind = "cord" -> {CordBackUp(s, count)}
    [] s.kind = "copying" -> CopyingBackUp(s, count)

\* The WriteCord that copies into the buffers of Next().
RECURSIVE CopyCord(_, _)
CopyCord(s, bytes) ==
  UNION {LET m == Least(Len(bytes), r.size)
             t == Fill(r.s, r.s.lo, SubSeq(bytes, 1, m)) IN
         IF ~r.ok THEN {r}
         ELSE IF m < Len(bytes) THEN CopyCord(t, SubSeq(bytes, m + 1, Len(bytes)))
         ELSE {Done(b) : b \in BackUpOf(t, r.size - m)} : r \in NextOf(s)}

\* The Cord is one chunk.
WriteCordOf(s, bytes) ==
  CASE s.kind = "cord" -> CordWriteCord(s, bytes)
    [] s.kind = "copying" -> IF bytes = <<>> THEN {Done(s)} ELSE WriteAliasedRaw(s, bytes)
    [] OTHER -> IF bytes = <<>> THEN {Done(s)} ELSE CopyCord(s, bytes)
===============================================================================
