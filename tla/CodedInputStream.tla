--------------------------- MODULE CodedInputStream ---------------------------
(***************************************************************************)
(* CodedInputStream (io/coded_stream.cc, io/coded_stream.h): reads varints, *)
(* tags, blocks of bytes and embedded messages with limits from the buffers *)
(* of a ZeroCopyInputStream, or from one array, and gives back to the input *)
(* what it did not use.  The fields are those of the class, in one record;  *)
(* a method is the set of its outcomes, since the input chooses the sizes   *)
(* of its buffers.  A buffer is the positions in the input that it holds.   *)
(***************************************************************************)
EXTENDS Integers, Sequences

CONSTANTS
  Input,          \* the inputs: sequences of "more" and "end", the bytes of varints
  MaxChunk,       \* the most that the input returns at a time
  IntMax,         \* INT_MAX
  MaxVarintBytes, \* kMaxVarintBytes
  MaxCordToCopy,  \* kMaxCordBytesToCopy
  Sizes,          \* sizes and limits callers ask for
  MaxLimits, MaxCalls,
  Careless        \* what is called although the end is misjudged: "int max", "at end"

VARIABLES
  c,       \* the stream; c.in is the input
  bytes,   \* what the input holds
  limits,  \* limits pushed: what PushLimit returned, and where the message ends
  answer,  \* of the last call
  calls

vars == <<c, bytes, limits, answer, calls>>

Least(a, b) == IF a < b THEN a ELSE b
Greatest(a, b) == IF a > b THEN a ELSE b

-------------------------------------------------------------------------------
(* The fields. *)

BufferSize(s) == s.buffer_end_ - s.buffer_
Closest(s) == Least(s.current_limit_, s.total_bytes_limit_)
CurrentPosition(s) == s.total_bytes_read_ - (BufferSize(s) + s.buffer_size_after_limit_)

\* taken is what the caller has had or skipped, counted apart.
Advance(s, n) == [s EXCEPT !.buffer_ = @ + n, !.taken = @ + n]
NoBuffer(s) == [s EXCEPT !.buffer_ = 0, !.buffer_end_ = 0]

RecomputeBufferLimits(s) ==
  LET after == Greatest(0, s.total_bytes_read_ - Closest(s)) IN
  [s EXCEPT !.buffer_end_ = @ + s.buffer_size_after_limit_ - after, !.buffer_size_after_limit_ = after]

\* The input, with `at` bytes taken from it, of which `last` may be backed up.
InputLeft(s) == Len(bytes) - s.in.at
InputBackUp(s, n) ==
  [s EXCEPT !.in = [at |-> @.at - n, last |-> 0, fault |-> @.fault \/ n > @.last]]
InputSkipped(s, n) == [s EXCEPT !.in.at = @ + n, !.in.last = 0]

\* Bytes read beyond INT_MAX are hidden, to be backed up later.
TookChunkForgetting(s, n) ==
  LET overflow == Greatest(0, s.total_bytes_read_ - (IntMax - n)) IN
  [s EXCEPT !.in.at = @ + n, !.in.last = n, !.buffer_ = s.in.at,
            !.buffer_end_ = s.in.at + n - overflow, !.total_bytes_read_ = Least(@ + n, IntMax)]

TookChunk(s, n) ==
  LET overflow == Greatest(0, s.total_bytes_read_ - (IntMax - n)) IN
  [s EXCEPT !.in.at = @ + n, !.in.last = n, !.buffer_ = s.in.at,
            !.buffer_end_ = s.in.at + n - overflow, !.total_bytes_read_ = Least(@ + n, IntMax),
            !.overflow_bytes_ = IF overflow > 0 THEN overflow ELSE @]

AtLimit(s) ==
  s.buffer_size_after_limit_ > 0 \/ s.overflow_bytes_ > 0 \/ s.total_bytes_read_ = s.current_limit_

Yes(s) == [s |-> s, ok |-> TRUE]
No(s) == [s |-> s, ok |-> FALSE]

Refresh(s) ==
  IF AtLimit(s) THEN {No(s)}
  ELSE IF s.flat THEN {No([s EXCEPT !.in.fault = TRUE])}
  ELSE IF InputLeft(s) = 0 THEN {No(NoBuffer([s EXCEPT !.in.last = 0]))}
  ELSE {Yes(RecomputeBufferLimits(TookChunk(s, n))) : n \in 1..Least(MaxChunk, InputLeft(s))}

-------------------------------------------------------------------------------
(* Limits. *)

PushLimit(s, n) ==
  IF /\ n >= 0 /\ n <= IntMax - CurrentPosition(s)
     /\ n < s.current_limit_ - CurrentPosition(s)
  THEN RecomputeBufferLimits([s EXCEPT !.current_limit_ = CurrentPosition(s) + n])
  ELSE s

PopLimitKeepingBuffer(s, limit) == [s EXCEPT !.current_limit_ = limit, !.legitimate_message_end_ = FALSE]
PopLimit(s, limit) ==
  [RecomputeBufferLimits([s EXCEPT !.current_limit_ = limit]) EXCEPT !.legitimate_message_end_ = FALSE]

SetTotalBytesLimit(s, n) ==
  RecomputeBufferLimits([s EXCEPT !.total_bytes_limit_ = Greatest(CurrentPosition(s), n)])

-------------------------------------------------------------------------------
(* Blocks of bytes. *)

BackUpInputToCurrentPosition(s) ==
  LET n == BufferSize(s) + s.buffer_size_after_limit_ + s.overflow_bytes_ IN
  IF n <= 0 THEN s
  ELSE [InputBackUp(s, n) EXCEPT !.total_bytes_read_ = @ - (BufferSize(s) + s.buffer_size_after_limit_),
          !.buffer_end_ = s.buffer_, !.buffer_size_after_limit_ = 0, !.overflow_bytes_ = 0]

\* The input is asked for n bytes that it may not have.
OutOfInput(s, n, ok) ==
  LET m == Least(n, InputLeft(s)) IN
  [s |-> [InputSkipped(s, m) EXCEPT !.taken = @ + m, !.ended = m < n], ok |-> ok /\ m = n]

SkipFallback(s, n) ==
  LET rest == n - BufferSize(s)
      empty == NoBuffer(Advance(s, BufferSize(s)))
      until == Closest(s) - s.total_bytes_read_ IN
  IF s.buffer_size_after_limit_ > 0 THEN No(Advance(s, BufferSize(s)))
  ELSE IF until < rest
  THEN IF until > 0 THEN OutOfInput([empty EXCEPT !.total_bytes_read_ = Closest(s)], until, FALSE)
       ELSE No(empty)
  ELSE LET r == OutOfInput(empty, rest, TRUE) IN
       [r EXCEPT !.s.total_bytes_read_ = IF r.ok THEN @ + rest ELSE r.s.in.at]

Skip(s, n) ==
  IF n < 0 THEN No(s)
  ELSE IF n <= BufferSize(s) THEN Yes(Advance(s, n)) ELSE SkipFallback(s, n)

\* ReadRaw and ReadString, and the fallbacks of ReadLittleEndian*.
RECURSIVE Read(_, _)
Read(s, n) ==
  IF n < 0 THEN {No(s)}
  ELSE IF n <= BufferSize(s) THEN {Yes(Advance(s, n))}
  ELSE UNION {IF r.ok THEN Read(r.s, n - BufferSize(s)) ELSE {r} : r \in Refresh(Advance(s, BufferSize(s)))}

\* The end of ReadCord, where the input is asked for the rest.
RestFromInput(s, n) ==
  LET available == Closest(s) - s.total_bytes_read_ IN
  IF n > available THEN OutOfInput([s EXCEPT !.total_bytes_read_ = Closest(s)], available, FALSE)
  ELSE OutOfInput([s EXCEPT !.total_bytes_read_ = @ + n], n, TRUE)

RestAfterBackUp(s, n) == RestFromInput(BackUpInputToCurrentPosition(s), n)

ReadCord(s, n) ==
  LET m == Least(n, BufferSize(s))  t == Advance(s, m) IN
  IF n < 0 THEN No(s)
  ELSE IF ~s.flat /\ n >= MaxCordToCopy THEN RestAfterBackUp(s, n)
  ELSE IF m = n THEN Yes(t)
  ELSE IF s.flat \/ s.buffer_size_after_limit_ + s.overflow_bytes_ > 0 THEN No(t)
  ELSE RestFromInput(t, n - m)

GetDirectBufferPointer(s) ==
  IF BufferSize(s) > 0 THEN {Yes(s)} ELSE Refresh(s)

-------------------------------------------------------------------------------
(* Varints and tags. *)

Byte(p) == bytes[p + 1]
FastPath(s) == BufferSize(s) >= MaxVarintBytes \/ (BufferSize(s) > 0 /\ Byte(s.buffer_end_ - 1) = "end")

\* ReadVarint64FromArray, which does not look where the buffer ends.
FromArray(s) ==
  LET ends == {n \in 1..MaxVarintBytes :
                 /\ s.buffer_ + n <= Len(bytes) /\ Byte(s.buffer_ + n - 1) = "end"
                 /\ \A m \in 1..(n - 1) : Byte(s.buffer_ + m - 1) = "more"} IN
  IF ends = {} THEN No(s) ELSE Yes(Advance(s, CHOOSE n \in ends : TRUE))

RECURSIVE ReadVarint64Slow(_, _)
ReadVarint64Slow(s, count) ==
  IF count = MaxVarintBytes THEN {No(s)}
  ELSE IF BufferSize(s) = 0
  THEN UNION {IF r.ok THEN ReadVarint64Slow(r.s, count) ELSE {r} : r \in Refresh(s)}
  ELSE IF Byte(s.buffer_) = "end" THEN {Yes(Advance(s, 1))}
  ELSE ReadVarint64Slow(Advance(s, 1), count + 1)

ReadVarint(s) == IF FastPath(s) THEN {FromArray(s)} ELSE ReadVarint64Slow(s, 0)

\* No tag is returned; whether the message may end here.
NoTag(s, legitimate) == No([s EXCEPT !.legitimate_message_end_ = legitimate])

ReadTagSlow(s) ==
  LET position(t) == t.total_bytes_read_ - t.buffer_size_after_limit_
      refreshed == IF BufferSize(s) = 0 THEN Refresh(s) ELSE {Yes(s)} IN
  UNION {IF r.ok THEN ReadVarint(r.s)
         ELSE {NoTag(r.s, \/ position(r.s) < r.s.total_bytes_limit_
                          \/ r.s.current_limit_ = r.s.total_bytes_limit_)} : r \in refreshed}

HitsLimit(s) ==
  /\ BufferSize(s) = 0
  /\ s.buffer_size_after_limit_ > 0 \/ s.total_bytes_read_ = s.current_limit_
HitsPushedLimit(s) ==
  HitsLimit(s) /\ s.total_bytes_read_ - s.buffer_size_after_limit_ < s.total_bytes_limit_

ReadTag(s) ==
  IF FastPath(s) THEN {FromArray(s)}
  ELSE IF HitsPushedLimit(s) THEN {NoTag(s, TRUE)}
  ELSE ReadTagSlow(s)

\* The tag that is expected is in the buffer, in one byte or two.
ExpectTag(s) ==
  IF BufferSize(s) >= 1 /\ Byte(s.buffer_) = "end" THEN Yes(Advance(s, 1))
  ELSE IF BufferSize(s) >= 2 /\ Byte(s.buffer_ + 1) = "end" THEN Yes(Advance(s, 2))
  ELSE No(s)

ExpectAtEnd(s) == IF HitsLimit(s) THEN Yes([s EXCEPT !.legitimate_message_end_ = TRUE]) ELSE No(s)

-------------------------------------------------------------------------------
(* A caller. *)

Infinity == 1000
Calling(name) == c.alive /\ ~c.ended /\ calls < MaxCalls /\ calls' = calls + 1
Answered(name, n, s, ok) ==
  c' = s /\ answer' = [call |-> name, n |-> n, from |-> c.taken, ok |-> ok]
Call(name, n, outcomes) ==
  /\ Calling(name)
  /\ \E r \in outcomes : Answered(name, n, r.s, r.ok)
  /\ UNCHANGED <<bytes, limits>>

CallSkip == \E n \in Sizes : Call("block", n, {Skip(c, n)})
CallRead == \E n \in Sizes : Call("block", n, Read(c, n))
CallReadCord == \E n \in Sizes : Call("block", n, {ReadCord(c, n)})
CallVarint == Call("varint", 0, ReadVarint(c))
CallDirect == Call("direct", 0, GetDirectBufferPointer(c))
CallExpectTag == Call("expect", 0, {ExpectTag(c)})

\* At the end that SetTotalBytesLimit, or INT_MAX, makes, a message is told to
\* be complete by ExpectAtEnd(), and by ReadTag() if no limit was pushed.
CallReadTag ==
  /\ "int max" \in Careless \/ c.taken < IntMax
  /\ Call("tag", 0, ReadTag(c))
CallExpectAtEnd ==
  /\ "at end" \in Careless \/ c.taken < c.total_bytes_limit_
  /\ Call("at end", 0, {ExpectAtEnd(c)})

CallPushLimit ==
  /\ Calling("push") /\ Len(limits) < MaxLimits
  /\ \E n \in Sizes :
       /\ Answered("push", n, PushLimit(c, n), TRUE)
       /\ limits' = <<[old |-> c.current_limit_, end |-> IF n < 0 THEN Infinity ELSE c.taken + n]>> \o limits
  /\ UNCHANGED bytes

CallPopLimit ==
  /\ Calling("pop") /\ limits # <<>>
  /\ Answered("pop", 0, PopLimit(c, Head(limits).old), TRUE)
  /\ limits' = Tail(limits)
  /\ UNCHANGED bytes

CallSetTotalBytesLimit ==
  /\ Calling("total")
  /\ \E n \in Sizes : Answered("total", n, SetTotalBytesLimit(c, n), TRUE)
  /\ UNCHANGED <<bytes, limits>>

\* ~CodedInputStream
Destroy ==
  /\ c.alive
  /\ LET s == [c EXCEPT !.alive = FALSE] IN
     Answered("destroy", 0, IF c.flat THEN s ELSE BackUpInputToCurrentPosition(s), TRUE)
  /\ UNCHANGED <<bytes, limits, calls>>

Fields(flat) ==
  [in |-> [at |-> 0, last |-> 0, fault |-> FALSE], flat |-> flat, alive |-> TRUE, taken |-> 0, ended |-> FALSE,
   buffer_ |-> 0, buffer_end_ |-> IF flat THEN Len(bytes) ELSE 0,
   total_bytes_read_ |-> IF flat THEN Len(bytes) ELSE 0, overflow_bytes_ |-> 0,
   current_limit_ |-> IF flat THEN Len(bytes) ELSE IntMax, buffer_size_after_limit_ |-> 0,
   total_bytes_limit_ |-> IntMax, legitimate_message_end_ |-> FALSE]

Init ==
  /\ bytes \in Input
  /\ \/ Len(bytes) <= IntMax /\ c = Fields(TRUE)
     \/ \E r \in Refresh(Fields(FALSE)) : c = r.s
  /\ limits = <<>> /\ answer = [call |-> "none", n |-> 0, from |-> 0, ok |-> TRUE] /\ calls = 0

Next ==
  \/ CallSkip \/ CallRead \/ CallReadCord \/ CallVarint \/ CallDirect \/ CallExpectTag \/ CallReadTag
  \/ CallExpectAtEnd \/ CallPushLimit \/ CallPopLimit \/ CallSetTotalBytesLimit \/ Destroy

Spec == Init /\ [][Next]_vars

-------------------------------------------------------------------------------
(* Properties. *)

\* The stream knows where its reader is, whatever buffers, limits and bytes
\* beyond INT_MAX it has counted: its next byte is the next byte of the input,
\* and when it is destroyed the input stands right after what was read.  It
\* never asks the input to back up more than the input returned.
ReaderKeepsItsPlace ==
  /\ ~c.in.fault
  /\ c.alive /\ ~c.ended =>
       /\ CurrentPosition(c) = c.taken /\ BufferSize(c) >= 0
       /\ BufferSize(c) > 0 => c.buffer_ = c.taken
  /\ ~c.alive /\ ~c.flat => c.in.at = c.taken

\* Where reading must stop: the shortest limit counts, even if it is not the
\* top one (coded_stream.h:342).
End ==
  CHOOSE e \in 0..Len(bytes) :
    LET ends == {Len(bytes), c.total_bytes_limit_} \cup {limits[i].end : i \in DOMAIN limits} IN
    e \in ends /\ \A f \in ends : e <= f

\* A call succeeds exactly if what it asks for is there within all limits, and
\* takes that, or what there is; a varint is the same wherever buffers end.
CallsAnswerRightly ==
  LET from == answer.from
      ends == {n \in 1..MaxVarintBytes : from + n <= End /\ Byte(from + n - 1) = "end"} IN
  /\ answer.call = "block" =>
       /\ answer.ok <=> answer.n >= 0 /\ from + answer.n <= End
       /\ c.taken = IF answer.n < 0 THEN from ELSE Least(from + answer.n, End)
  /\ answer.call \in {"varint", "tag"} =>
       /\ answer.ok <=> ends # {}
       /\ IF ends = {} THEN c.taken \in from..Least(from + MaxVarintBytes, End)
          ELSE c.taken - from \in ends /\ \A n \in ends : c.taken - from <= n
  /\ answer.call \in {"at end", "direct", "expect"} => c.taken <= End
  /\ answer.call = "at end" /\ answer.ok => c.taken = End

\* A message is told to end legitimately only at the end of the input or of a
\* limit that was pushed: the total limit "unlike normal limits, is not a valid
\* place to end a message" (coded_stream.cc:576).
LegitimateEnd ==
  c.legitimate_message_end_ => c.taken = Len(bytes) \/ \E i \in DOMAIN limits : c.taken = limits[i].end

\* GetDirectBufferPointer "will always either produce a non-empty buffer or
\* return false" (coded_stream.h:177).
BufferIsNotEmpty == answer.call = "direct" /\ answer.ok => BufferSize(c) > 0
===============================================================================
