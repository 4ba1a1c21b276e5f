------------------------- MODULE EpsCopyOutputStream -------------------------
(***************************************************************************)
(* EpsCopyOutputStream (io/coded_stream.cc, io/coded_stream.h) on a         *)
(* ZeroCopyOutputStream: whoever writes may write kSlopBytes at the cursor  *)
(* without asking, because the last kSlopBytes of every buffer are kept in  *)
(* a patch buffer until the next buffer is there.                           *)
(*                                                                          *)
(* A pointer is a position in the patch buffer `buffer_`, or, while         *)
(* buffer_end_ is null, a position in the output.  The stream is one        *)
(* record, with the cursor `cur_` of CodedOutputStream and the output in    *)
(* it; a method is the set of its outcomes.  The bytes written are numbered *)
(* from 0, so that each says where in the output it belongs.                *)
(***************************************************************************)
EXTENDS ZeroCopyOutputStreams

CONSTANTS
  Outputs,    \* the streams that are written to
  Slop,       \* kSlopBytes
  CordToCopy, \* kMaxCordBytesToCopy
  Sizes,      \* of what is written
  MaxBytes,   \* that are written in all
  MaxSkipped  \* that are skipped over

VARIABLES
  o,        \* the stream
  wrote,    \* the number of bytes written
  skipped,  \* those that were skipped over
  last      \* the last call: "trim", "trim, had error" or another

vars == <<o, wrote, skipped, last>>

Null == -1
Buffer == -2    \* buffer_end_ == buffer_: there is no buffer of the output yet

Patch(e, from, n) == [i \in 1..n |-> e.buffer_[from + i - 1]]
\* Bytes are stored in the output, and in the patch buffer.
PutOut(e, at, bytes) == [e EXCEPT !.out = Fill(@, at, bytes)]
PutPatch(e, at, bytes) ==
  [e EXCEPT !.buffer_ = [i \in DOMAIN @ |-> IF i - at + 1 \in DOMAIN bytes THEN bytes[i - at + 1] ELSE @[i]],
            !.overran = @ \/ at + Len(bytes) > 2 * Slop]

\* Bytes are stored at the cursor, which moves on.
Store(e, bytes) ==
  [(IF e.buffer_end_ = Null THEN PutOut(e, e.cur_, bytes) ELSE PutPatch(e, e.cur_, bytes))
     EXCEPT !.cur_ = @ + Len(bytes)]

Error(e) == [e EXCEPT !.had_error_ = TRUE, !.end_ = Slop, !.cur_ = 0]

SetInitialBufferLong(e, at, size) ==
  IF size >= Slop THEN [e EXCEPT !.end_ = at + size - Slop + 1, !.buffer_end_ = Null, !.cur_ = at]
  ELSE [e EXCEPT !.end_ = size, !.buffer_end_ = at, !.cur_ = 0]

SetInitialBuffer(e, at, size) ==
  IF size > Slop THEN [e EXCEPT !.end_ = at + size - Slop, !.buffer_end_ = Null, !.cur_ = at]
  ELSE [e EXCEPT !.end_ = size, !.buffer_end_ = at, !.cur_ = 0]

\* What the patch buffer holds goes to its place in the output.
PatchOut(e, n) == IF n = 0 THEN e ELSE PutOut(e, e.buffer_end_, Patch(e, 0, n))

NextBuffer(e, r) ==
  LET at == Len(r.s.data) - r.size  f == [e EXCEPT !.out = r.s] IN
  IF ~r.ok THEN Error(f)
  ELSE IF r.size > Slop THEN PutOut(SetInitialBuffer(f, at, r.size), at, Patch(e, e.end_, Slop))
  ELSE SetInitialBuffer(PutPatch(f, 0, Patch(e, e.end_, Slop)), at, r.size)

\* The bytes that may have been written beyond end_ go to the front of the patch
\* buffer.
IntoPatch(e) ==
  [PutPatch(e, 0, SubSeq(e.out.data, e.end_ + 1, e.end_ + Slop))
     EXCEPT !.buffer_end_ = e.end_, !.end_ = Slop, !.cur_ = 0]

Next_(e) ==
  IF e.buffer_end_ = Null THEN {IntoPatch(e)}
  ELSE LET p == PatchOut(e, e.end_) IN {NextBuffer(p, r) : r \in NextOf(p.out)}

\* Next() + overrun
NextOverrun(e) == {[n EXCEPT !.cur_ = @ + (e.cur_ - e.end_)] : n \in Next_(e)}

RECURSIVE EnsureSpaceFallback(_)
EnsureSpaceFallback(e) ==
  IF e.had_error_ THEN {[e EXCEPT !.cur_ = 0]}
  ELSE UNION {IF n.cur_ >= n.end_ THEN EnsureSpaceFallback(n) ELSE {n} : n \in NextOverrun(e)}
EnsureSpace(e) == IF e.cur_ >= e.end_ THEN EnsureSpaceFallback(e) ELSE {e}

\* Returns the size of what remains of the buffer of the output.
RECURSIVE Flush(_)
Flush(e) ==
  IF e.buffer_end_ # Null /\ e.cur_ > e.end_
  THEN UNION {IF n.had_error_ THEN {[e |-> n, size |-> 0]} ELSE Flush(n) : n \in NextOverrun(e)}
  ELSE IF e.buffer_end_ # Null
  THEN {[e |-> [PatchOut(e, e.cur_) EXCEPT !.buffer_end_ = IF e.cur_ = 0 THEN @ ELSE @ + e.cur_],
         size |-> e.end_ - e.cur_]}
  ELSE {[e |-> [e EXCEPT !.buffer_end_ = e.cur_], size |-> e.end_ + Slop - e.cur_]}

TrimKeepingRest(e) ==
  {[f.e EXCEPT !.buffer_end_ = Buffer, !.end_ = 0, !.cur_ = 0] : f \in Flush(e)}

Trim(e) ==
  IF e.had_error_ THEN {e}
  ELSE UNION {{[f.e EXCEPT !.out = s, !.buffer_end_ = Buffer, !.end_ = 0, !.cur_ = 0]
               : s \in BackUpOf(f.e.out, f.size)} : f \in Flush(e)}

\* After Flush(): `then` goes on unless there is an error.
Flushed(e, then(_)) ==
  IF e.had_error_ THEN {[e EXCEPT !.cur_ = 0]}
  ELSE UNION {IF f.e.had_error_ THEN {[f.e EXCEPT !.cur_ = 0]} ELSE then(f) : f \in Flush(e)}

FlushAndResetBuffer(e) == Flushed(e, LAMBDA f : {SetInitialBuffer(f.e, f.e.buffer_end_, f.size)})

\* Buffers of the output are passed over until count bytes fit into one.
RECURSIVE SkipBuffers(_, _, _, _)
SkipBuffers(e, at, size, count) ==
  IF count <= size THEN {SetInitialBuffer(e, IF count = 0 THEN at ELSE at + count, size - count)}
  ELSE UNION {LET n == [e EXCEPT !.out = r.s] IN
              IF r.ok THEN SkipBuffers(n, Len(r.s.data) - r.size, r.size, count - size) ELSE {Error(n)}
              : r \in NextOf(e.out)}
Skip(e, count) == Flushed(e, LAMBDA f : SkipBuffers(f.e, f.e.buffer_end_, f.size, count))

\* The caller fills the first bytes of the buffer, which Skip() then passes over.
GetDirectBufferPointer(e) ==
  Flushed(e, LAMBDA f :
    IF f.size > 0 THEN {SetInitialBuffer(f.e, f.e.buffer_end_, f.size)}
    ELSE {LET n == [f.e EXCEPT !.out = r.s] IN
          IF r.ok THEN SetInitialBuffer(n, Len(r.s.data) - r.size, r.size) ELSE Error(n) : r \in NextOf(f.e.out)})
DirectBuffer(e) == IF e.buffer_end_ = Null THEN e.cur_ ELSE e.buffer_end_

GetDirectBufferForNBytesAndAdvance(e, bytes) ==
  Flushed(e, LAMBDA f :
    {IF f.size < Len(bytes) THEN SetInitialBuffer(f.e, f.e.buffer_end_, f.size)
     ELSE LET b == f.e.buffer_end_ IN
          SetInitialBuffer(PutOut(f.e, b, bytes), b + Len(bytes), f.size - Len(bytes))})

\* ByteCount(), of the cursor.
Position(e) ==
  ByteCount(e.out) - (e.end_ - e.cur_) - (IF e.buffer_end_ = Null THEN Slop ELSE 0)

-------------------------------------------------------------------------------
(* Writing. *)

GetSize(e) == e.end_ + Slop - e.cur_

RECURSIVE WriteRawFallback(_, _)
WriteRawFallback(e, bytes) ==
  LET n == GetSize(e) IN
  IF n >= Len(bytes) THEN {Store(e, bytes)}
  ELSE UNION {WriteRawFallback(f, SubSeq(bytes, n + 1, Len(bytes)))
              : f \in EnsureSpaceFallback(Store(e, SubSeq(bytes, 1, n)))}
WriteRaw(e, bytes) ==
  IF e.end_ - e.cur_ < Len(bytes) THEN WriteRawFallback(e, bytes) ELSE {Store(e, bytes)}

\* After Trim(), the output itself is written to.
ToOutput(e, write(_)) ==
  UNION {{IF r.ok THEN [t EXCEPT !.out = r.s] ELSE Error([t EXCEPT !.out = r.s]) : r \in write(t.out)}
         : t \in Trim(e)}

WriteRawMaybeAliased(e, bytes) ==
  IF ~e.aliasing_enabled_ \/ Len(bytes) < GetSize(e) THEN WriteRaw(e, bytes)
  ELSE ToOutput(e, LAMBDA s : WriteAliasedRaw(s, bytes))

WriteCord(e, bytes) ==
  IF Len(bytes) <= GetSize(e) /\ Len(bytes) < CordToCopy THEN {Store(e, bytes)}
  ELSE ToOutput(e, LAMBDA s : WriteCordOf(s, bytes))

\* A string field: a byte for the tag, one for the size, and the string, at once
\* if all of them fit before the end of the slop.
WriteString(e, bytes) ==
  IF GetSize(e) - 2 < Len(bytes) - 2
  THEN UNION {WriteRawMaybeAliased(Store(f, SubSeq(bytes, 1, 2)), SubSeq(bytes, 3, Len(bytes)))
              : f \in EnsureSpace(e)}
  ELSE {Store(e, bytes)}

-------------------------------------------------------------------------------
(* A writer. *)

Bytes(n) == [i \in 1..n |-> wrote + i - 1]
Answers(call, outcomes) ==
  /\ o' \in outcomes
  /\ last' = IF call = "had error" /\ last = "trim" THEN "trim, had error"
             ELSE IF call = "trim" THEN call ELSE "other"
Writes(call, n, outcomes) ==
  /\ wrote + n <= MaxBytes /\ wrote' = wrote + n
  /\ Answers(call, outcomes)
  /\ UNCHANGED skipped

\* A varint, a tag or a fixed size value.
CallWriteVarint ==
  \E n \in 1..Slop : Writes("write", n, {Store(e, Bytes(n)) : e \in EnsureSpace(o)})
CallWriteRaw == \E n \in Sizes : Writes("write", n, WriteRaw(o, Bytes(n)))
CallWriteRawMaybeAliased == \E n \in Sizes : Writes("write", n, WriteRawMaybeAliased(o, Bytes(n)))
CallWriteCord == \E n \in Sizes : Writes("write", n, WriteCord(o, Bytes(n)))
CallWriteString == \E n \in Sizes : Writes("write", n + 2, WriteString(o, Bytes(n + 2)))

CallDirect ==
  \E n \in Sizes : Writes("write", n,
    UNION {LET m == Len(e.out.data) - DirectBuffer(e) IN
           IF e.had_error_ \/ n > m THEN {} ELSE Skip(PutOut(e, DirectBuffer(e), Bytes(n)), n)
           : e \in GetDirectBufferPointer(o)})

\* If there is no room for n bytes, null is returned and nothing is written.
CallDirectForNBytes ==
  \E n \in Sizes : \E e \in GetDirectBufferForNBytesAndAdvance(o, Bytes(n)) :
    Writes("write", IF e.had_error_ \/ Position(e) = Position(o) THEN 0 ELSE n, {e})

CallSkip ==
  \E n \in Sizes :
    /\ wrote + n <= MaxBytes /\ wrote' = wrote + n
    /\ Cardinality(skipped) + n <= MaxSkipped
    /\ skipped' = skipped \cup wrote..(wrote + n - 1)
    /\ Answers("write", Skip(o, n))

CallTrim == Writes("trim", 0, Trim(o))
CallHadError == Writes("had error", 0, FlushAndResetBuffer(o))

Fields(out) ==
  [out |-> out, cur_ |-> 0, end_ |-> 0, buffer_end_ |-> Buffer, buffer_ |-> [i \in 0..(2 * Slop - 1) |-> Garbage],
   had_error_ |-> FALSE, aliasing_enabled_ |-> FALSE, overran |-> FALSE]

\* With a buffer that is there from the beginning, or without; with aliasing if
\* the output allows it, or without.
Init ==
  /\ \E out \in Outputs : \E aliasing \in BOOLEAN : \E r \in NextOf(out) :
       LET e == [Fields(out) EXCEPT !.aliasing_enabled_ = aliasing /\ AllowsAliasing(out)] IN
       o \in {e, IF r.ok THEN SetInitialBuffer([e EXCEPT !.out = r.s], 0, r.size) ELSE [e EXCEPT !.out = r.s]}
  /\ wrote = 0 /\ skipped = {}
  /\ last = "other"

Next ==
  \/ CallWriteVarint \/ CallWriteRaw \/ CallWriteRawMaybeAliased \/ CallWriteCord \/ CallWriteString
  \/ CallDirect \/ CallDirectForNBytes \/ CallSkip \/ CallTrim \/ CallHadError

Spec == Init /\ [][Next]_vars

-------------------------------------------------------------------------------
(* Properties. *)

Broken(out) == out.kind = "copying" /\ out.broken
InPlace(bytes) == \A i \in DOMAIN bytes : bytes[i] = i - 1 \/ i - 1 \in skipped

\* If the stream were trimmed now, the output would hold the bytes written, all
\* of them, each at its place, unless there was an error; and ByteCount() is
\* their number.  What a file has got is always the beginning of what was
\* written, even if a write fails.
OutputIsWhatWasWritten ==
  /\ \A t \in Trim(o) :
       ~t.had_error_ /\ ~Broken(t.out) => Len(t.out.data) = wrote /\ InPlace(t.out.data)
  /\ o.out.kind = "copying" => InPlace(o.out.file)
  /\ ~o.had_error_ /\ ~Broken(o.out) => Position(o) = wrote

\* Nothing is written outside the patch buffer, or to memory of the output other
\* than its last buffer; there are kSlopBytes at the cursor after EnsureSpace();
\* and BackUp() is not asked for more than Next() returned.
WritesStayInBuffers ==
  /\ ~o.overran /\ o.out.checks
  /\ \A e \in EnsureSpace(o) :
       IF e.buffer_end_ = Null THEN e.cur_ + Slop <= Len(e.out.data) /\ e.cur_ >= e.out.lo
       ELSE e.cur_ + Slop <= 2 * Slop
  /\ \A t \in Trim(o) : t.out.checks

\* HadError() "returns true if there was an underlying I/O error since this
\* object was created", all of them if Trim() is called before
\* (coded_stream.h:1097).
HadErrorTells ==
  last = "trim, had error" /\ Broken(o.out) => o.had_error_
===============================================================================
