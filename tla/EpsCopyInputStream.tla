-------------------------- MODULE EpsCopyInputStream --------------------------
(***************************************************************************)
(* The input of the wire format parser.  A ZeroCopyInputStream delivers    *)
(* the bytes 1 .. length in chunks that end at cuts; EpsCopyInputStream    *)
(* presents them so that the kSlopBytes after any position can be read     *)
(* without a bounds check, patching the seams in patch_buffer_, and keeps  *)
(* the nested limits of the messages being parsed.  A byte is its position *)
(* in the stream, 0 stands for unspecified memory.  The parser reads       *)
(* fields of any size the format allows and calls Done before each.        *)
(***************************************************************************)
EXTENDS Integers, Sequences

CONSTANTS
  kSlopBytes,          \* bytes that can be read past buffer_end_
  kMaxCordBytesToCopy, \* smaller cords are copied
  IntMax,
  Kinds,               \* entry points: "flat", "stream", "bounded", "coded"
  MaxLength,           \* bound on the length of the input
  MaxDepth             \* the recursion limit of the parse

ASSUME KindsOK == Kinds \subseteq {"flat", "stream", "bounded", "coded"}
ASSUME SlopOK == kSlopBytes \in Nat \ {0} /\ MaxLength \in Nat /\ MaxDepth \in Nat
ASSUME CordOK == kMaxCordBytesToCopy \in Nat /\ kMaxCordBytesToCopy >= 2 * kSlopBytes
ASSUME IntMaxOK == IntMax \in Nat /\ IntMax > MaxLength + 2 * kSlopBytes

kPatchBufferSize == 2 * kSlopBytes

VARIABLES
  input,        \* kind, length, chunk ends, bound and the byte the parse stops at
  spos,         \* bytes taken from the stream
  lastNext,     \* bytes that may be backed up: the last buffer it returned
  buf,          \* where ptr points to: the patch buffer, or the bytes before a chunk
  ptr, buffer_end, limit_end,  \* pointers, as offsets in buf
  next_chunk,   \* Null, Patch or a chunk
  size_, limit_, overall_limit, last_tag,
  patch,        \* the contents of patch_buffer_
  pc, todo,     \* where the parser is, and the bytes it still wants
  tokens,       \* the LimitTokens of the messages being parsed
  consumed,     \* history: the bytes parsed so far
  limits        \* history: the end of every message being parsed

stream == <<input, spos, lastNext>>
window == <<buf, buffer_end, next_chunk, size_, overall_limit, patch>>
vars == <<input, spos, lastNext, buf, ptr, buffer_end, limit_end, next_chunk,
          size_, limit_, overall_limit, last_tag, patch, pc, todo, tokens,
          consumed, limits>>

Patch == -1         \* chunks are numbered by the bytes before them
Null == -2
AtLimit == "limit"  \* last_tag_minus_1_ = 0
EndOfStream == "eos"  \* last_tag_minus_1_ = 1
Smaller(a, b) == IF a < b THEN a ELSE b

-------------------------------------------------------------------------------
(* Memory and the stream. *)

\* The bytes of a chunk are those of the stream, as far as it was delivered.
ByteAt(b, i) ==
  IF b = Patch THEN (IF i \in 0..kPatchBufferSize - 1 THEN patch[i] ELSE -1)
  ELSE b + i + 1

\* The chunk that starts after s bytes: up to the next cut.
ChunkSize(s) ==
  IF s = input.length THEN 0
  ELSE LET ends == {c \in input.cuts : c > s} IN
       (CHOOSE c \in ends : \A d \in ends : c <= d) - s

BytesAvailable == buffer_end + kSlopBytes - ptr
CanReadFromPtr(n) == n <= BytesAvailable

\* An input of length n, chunked in any way.  A parse of a CodedInputStream may
\* stop at an end-group tag, whose last byte is stop.
Inputs ==
  {in \in [kind : Kinds, length : 0..MaxLength, cuts : SUBSET (0..MaxLength),
           bound : 0..MaxLength + 1, stop : 0..MaxLength] :
     /\ in.length \in in.cuts /\ in.cuts \ {in.length} \subseteq 1..in.length - 1
     /\ in.kind = "flat" => in.cuts = {in.length}
     /\ in.bound <= IF in.kind = "bounded" THEN in.length + 1 ELSE 0
     /\ in.stop <= IF in.kind = "coded" THEN in.length ELSE 0}

NoPatch == [i \in 0..kPatchBufferSize - 1 |-> 0]

\* InitFrom(flat): a short input is copied to the patch buffer.
InitFromFlat(in) ==
  LET n == in.length IN
  /\ buf = IF n > kSlopBytes THEN 0 ELSE Patch
  /\ ptr = 0
  /\ buffer_end = IF n > kSlopBytes THEN n - kSlopBytes ELSE n
  /\ limit_end = buffer_end
  /\ limit_ = IF n > kSlopBytes THEN kSlopBytes ELSE 0
  /\ next_chunk = IF n > kSlopBytes THEN Patch ELSE Null
  /\ patch = IF n > kSlopBytes THEN NoPatch
             ELSE [i \in 0..kPatchBufferSize - 1 |-> IF i < n THEN i + 1 ELSE 0]
  /\ spos = n /\ lastNext = 0 /\ overall_limit = 0

\* InitFrom(zcis): the first chunk, of n bytes after s, is used directly if it
\* is longer than the slop; a short one is put at the end of the patch buffer.
Opened(s, n) ==
  IF n > kSlopBytes
  THEN [buf |-> s, ptr |-> 0, buffer_end |-> n - kSlopBytes, next_chunk |-> Patch]
  ELSE [buf |-> Patch, ptr |-> kPatchBufferSize - n, buffer_end |-> kSlopBytes,
        next_chunk |-> Patch]
NothingToOpen == [buf |-> Patch, ptr |-> 0, buffer_end |-> 0, next_chunk |-> Null]
OpenedPatch(s, n, old) ==
  IF n > kSlopBytes THEN old
  ELSE [i \in 0..kPatchBufferSize - 1 |->
          IF i >= kPatchBufferSize - n THEN s + i - (kPatchBufferSize - n) + 1 ELSE old[i]]

\* A stream may begin with an empty buffer.
FirstChunks(s) == {ChunkSize(s), 0}

InitFromStream(in) ==
  \E n \in FirstChunks(0) :
    LET o == IF in.length = 0 THEN NothingToOpen ELSE Opened(0, n)
        whole == IF in.kind = "bounded" THEN in.bound ELSE IntMax
    IN
    /\ buf = o.buf /\ ptr = o.ptr /\ buffer_end = o.buffer_end
    /\ next_chunk = o.next_chunk
    /\ limit_ = IF in.kind = "bounded" THEN in.bound - (o.buffer_end - o.ptr)
                ELSE IF n > kSlopBytes THEN IntMax - (n - kSlopBytes) ELSE IntMax
    /\ limit_end = buffer_end + Smaller(0, limit_)
    /\ patch = OpenedPatch(0, n, NoPatch)
    /\ spos = n /\ lastNext = n
    /\ overall_limit = IF in.length = 0 THEN 0 ELSE whole - n

Init ==
  /\ input \in Inputs
  /\ IF input.kind = "flat" THEN InitFromFlat(input) ELSE InitFromStream(input)
  /\ size_ = 0 /\ last_tag = AtLimit
  /\ pc = "field" /\ todo = 0 /\ tokens = <<>> /\ consumed = 0
  /\ limits = <<CASE input.kind = "flat" -> input.length
                  [] input.kind = "bounded" -> input.bound
                  [] OTHER -> limit_ + buffer_end - ptr>>

-------------------------------------------------------------------------------
(* NextBuffer: on success the new buffer starts at offset 0 of buf'. *)

\* The next chunk was seen when its first bytes were patched in.
UseNextChunk ==
  /\ next_chunk \notin {Null, Patch}
  /\ buf' = next_chunk /\ buffer_end' = size_ - kSlopBytes
  /\ next_chunk' = Patch
  /\ UNCHANGED <<stream, size_, overall_limit, patch>>

\* Whether the parse ends in the slop region of the current buffer.
ParseEndsInSlopRegion ==
  /\ input.stop > consumed
  /\ input.stop <= consumed + BytesAvailable
WantsMore(careful) ==
  /\ overall_limit > 0
  /\ ~(careful /\ input.kind = "coded" /\ ParseEndsInSlopRegion)

\* The slop bytes move to the start of the patch buffer, followed by the first
\* bytes of the next chunk, or all of it if it is small.
MovedSlop(n) ==
  [i \in 0..kPatchBufferSize - 1 |->
     IF i < kSlopBytes THEN ByteAt(buf, buffer_end + i)
     ELSE IF i < kSlopBytes + n THEN spos + i - kSlopBytes + 1
     ELSE patch[i]]

BufferEndOfLargeChunk(n) == kSlopBytes
PatchedBufferEnd(n) == Smaller(n, kSlopBytes)
FillPatchBuffer(careful) ==
  LET n == ChunkSize(spos)
      large == n > kSlopBytes
  IN
  /\ next_chunk = Patch /\ WantsMore(careful) /\ n > 0
  /\ spos' = spos + n /\ lastNext' = n
  /\ overall_limit' = overall_limit - n /\ size_' = n
  /\ patch' = MovedSlop(Smaller(n, kSlopBytes))
  /\ buf' = Patch
  /\ next_chunk' = IF large THEN spos ELSE Patch
  /\ buffer_end' = PatchedBufferEnd(n)
  /\ UNCHANGED input

\* The end of the stream, or of what will be read of it.
LastBuffer(careful) ==
  /\ next_chunk = Patch /\ ~(WantsMore(careful) /\ ChunkSize(spos) > 0)
  /\ overall_limit' = IF WantsMore(careful) THEN 0 ELSE overall_limit
  /\ patch' = MovedSlop(0)
  /\ buf' = Patch /\ next_chunk' = Null
  /\ buffer_end' = kSlopBytes /\ size_' = 0
  /\ UNCHANGED stream

\* NextBuffer's callers make limit_ relative to the new buffer_end_.
KeptLimit == limit_
RebasedLimit == limit_ - buffer_end'
Rebased == RebasedLimit

NextBuffer(careful) ==
  UseNextChunk \/ FillPatchBuffer(careful) \/ LastBuffer(careful)

-------------------------------------------------------------------------------
(* Done, called at the start of every field. *)

overrun == ptr - buffer_end

StillInBuffer ==
  /\ pc = "field" /\ ptr < limit_end
  /\ pc' = "read"
  /\ UNCHANGED <<stream, window, ptr, limit_end, limit_, last_tag, todo, tokens,
                 consumed, limits>>

\* The limit was reached: an error if it was reached past the end of the stream.
NeverPastTheEnd == FALSE
PastTheEnd == overrun > 0 /\ next_chunk = Null
DoneAtLimit ==
  /\ pc = "field" /\ ptr >= limit_end /\ overrun = limit_
  /\ pc' = IF PastTheEnd THEN "failed" ELSE "done"
  /\ UNCHANGED <<stream, window, ptr, limit_end, limit_, last_tag, todo, tokens,
                 consumed, limits>>

IsPastLimit == overrun > limit_
DonePastLimit ==
  /\ pc = "field" /\ ptr >= limit_end /\ overrun # limit_ /\ IsPastLimit
  /\ pc' = "failed"
  /\ UNCHANGED <<stream, window, ptr, limit_end, limit_, last_tag, todo, tokens,
                 consumed, limits>>

EnterDoneFallback ==
  /\ pc = "field" /\ ptr >= limit_end /\ overrun # limit_ /\ ~IsPastLimit
  /\ pc' = "flip"
  /\ UNCHANGED <<stream, window, ptr, limit_end, limit_, last_tag, todo, tokens,
                 consumed, limits>>

\* One round of the loop of DoneFallback; limit_ is relative to buffer_end_.
Flip ==
  /\ pc = "flip" /\ next_chunk # Null
  /\ NextBuffer(TRUE)
  /\ limit_' = Rebased
  /\ ptr' = overrun
  /\ IF ptr' >= buffer_end'
     THEN pc' = "flip" /\ UNCHANGED limit_end
     ELSE pc' = "read" /\ limit_end' = buffer_end' + Smaller(0, limit_')
  /\ UNCHANGED <<last_tag, todo, tokens, consumed, limits>>

FlipAtEnd ==
  /\ pc = "flip" /\ next_chunk = Null
  /\ IF overrun # 0
     THEN pc' = "failed" /\ UNCHANGED <<limit_end, last_tag>>
     ELSE pc' = "done" /\ limit_end' = buffer_end /\ last_tag' = EndOfStream
  /\ UNCHANGED <<stream, window, ptr, limit_, todo, tokens, consumed, limits>>

-------------------------------------------------------------------------------
(* The parser. *)

\* The content of the stream decides what is read, so no field crosses the tag
\* at which the parse stops.
MayConsume(n) == input.stop > consumed => consumed + n < input.stop

\* A key and a value, or a key and a length, are shorter than the slop.
KeyAndValue == 1..kSlopBytes - 1
ReadField(n) ==
  /\ pc = "read" /\ n \in KeyAndValue /\ MayConsume(n)
  /\ ptr' = ptr + n /\ consumed' = consumed + n
  /\ pc' \in {"field", "sized", "cord"}
  /\ UNCHANGED <<stream, window, limit_end, limit_, last_tag, todo, tokens, limits>>

\* A tag that ends the parse of a CodedInputStream, whole or cut off by the end
\* of the stream, where the bytes that follow happen to complete it.
ReadEndTag(n) ==
  /\ pc = "read" /\ input.kind = "coded" /\ n \in KeyAndValue
  /\ \/ consumed + n = input.stop
     \/ input.stop <= consumed /\ consumed + n > input.length
  /\ ptr' = ptr + n /\ consumed' = consumed + n
  /\ last_tag' = "tag" /\ pc' = "done"
  /\ UNCHANGED <<stream, window, limit_end, limit_, todo, tokens, limits>>

\* ParseMessage: the length was read, the recursion limit is kept.
PushLimit(n) ==
  LET l == n + ptr - buffer_end IN
  /\ pc = "sized" /\ MayConsume(n)
  /\ IF Len(tokens) < MaxDepth
     THEN /\ limit_' = l /\ limit_end' = buffer_end + Smaller(0, l)
          /\ tokens' = Append(tokens, limit_ - l)
          /\ limits' = Append(limits, consumed + n)
          /\ pc' \in {"field", "rest"}
     ELSE pc' = "failed" /\ UNCHANGED <<limit_, limit_end, tokens, limits>>
  /\ UNCHANGED <<stream, window, ptr, last_tag, todo, consumed>>

\* PopLimit when the parse of a message is done; it must have ended at the limit.
PoppedLimitEnd(l) == buffer_end + Smaller(0, l)
PopLimit ==
  LET n == Len(tokens)
      l == limit_ + tokens[n]
  IN
  /\ pc = "done" /\ tokens # <<>>
  /\ limit_' = l
  /\ IF last_tag = AtLimit
     THEN /\ limit_end' = PoppedLimitEnd(l)
          /\ tokens' = SubSeq(tokens, 1, n - 1) /\ limits' = SubSeq(limits, 1, n)
          /\ pc' = "field"
     ELSE pc' = "failed" /\ UNCHANGED <<limit_end, tokens, limits>>
  /\ UNCHANGED <<stream, window, ptr, last_tag, todo, consumed>>

\* ReadString, AppendString, ReadArray and Skip: from the buffer if it holds n
\* bytes ...
ReadInBuffer(n) ==
  /\ pc = "sized" /\ MayConsume(n)
  /\ CanReadFromPtr(n)
  /\ ptr' = ptr + n /\ consumed' = consumed + n
  /\ pc' = "field"
  /\ UNCHANGED <<stream, window, limit_end, limit_, last_tag, todo, tokens, limits>>

\* ... and otherwise with AppendSize, chunk by chunk, including the slop.
StartAppend(n) ==
  /\ pc = "sized" /\ MayConsume(n)
  /\ ~CanReadFromPtr(n)
  /\ todo' = n /\ pc' = "append"
  /\ UNCHANGED <<stream, window, ptr, limit_end, limit_, last_tag, tokens,
                 consumed, limits>>

AppendFails ==
  /\ pc = "append" /\ (next_chunk = Null \/ limit_ <= kSlopBytes)
  /\ pc' = "failed"
  /\ UNCHANGED <<stream, window, ptr, limit_end, limit_, last_tag, todo, tokens,
                 consumed, limits>>

AppendChunk ==
  /\ pc = "append" /\ next_chunk # Null /\ limit_ > kSlopBytes
  /\ NextBuffer(FALSE)
  /\ limit_' = Rebased
  /\ limit_end' = buffer_end' + Smaller(0, limit_')
  /\ LET rest == todo - BytesAvailable IN
     IF rest > buffer_end'
     THEN /\ ptr' = kSlopBytes /\ todo' = rest /\ pc' = "append"
          /\ consumed' = consumed + BytesAvailable
     ELSE /\ ptr' = kSlopBytes + rest /\ todo' = 0 /\ pc' = "field"
          /\ consumed' = consumed + todo
  /\ UNCHANGED <<last_tag, tokens, limits>>

\* AppendUntilEnd takes the rest of a message whose type is not linked in.  Its
\* first test, for a ptr past the limit, comes right after PushLimit and is
\* never true.
RestOfChunk ==
  /\ pc = "rest" /\ limit_ > kSlopBytes /\ next_chunk # Null
  /\ MayConsume(BytesAvailable)
  /\ NextBuffer(FALSE)
  /\ limit_' = Rebased
  /\ limit_end' = buffer_end' + Smaller(0, limit_')
  /\ ptr' = kSlopBytes /\ consumed' = consumed + BytesAvailable
  /\ UNCHANGED <<last_tag, pc, todo, tokens, limits>>

RestMeetsEndOfStream ==
  /\ pc = "rest" /\ limit_ > kSlopBytes /\ next_chunk = Null
  /\ limit_end' = buffer_end /\ ptr' = buffer_end
  /\ consumed' = consumed + buffer_end - ptr
  /\ last_tag' = EndOfStream /\ pc' = "done"
  /\ UNCHANGED <<stream, window, limit_, todo, tokens, limits>>

RestEndsAtLimit ==
  /\ pc = "rest" /\ limit_ <= kSlopBytes
  /\ MayConsume(limit_ + buffer_end - ptr)
  /\ ptr' = buffer_end + limit_
  /\ consumed' = consumed + limit_ + buffer_end - ptr
  /\ pc' = "done"
  /\ UNCHANGED <<stream, window, limit_end, limit_, last_tag, todo, tokens, limits>>

-------------------------------------------------------------------------------
(* ReadCord takes long strings from the stream itself. *)

CopyCord(n) ==
  /\ pc = "cord" /\ todo = 0 /\ MayConsume(n)
  /\ n <= Smaller(BytesAvailable, kMaxCordBytesToCopy)
  /\ ptr' = ptr + n /\ consumed' = consumed + n
  /\ pc' = "field"
  /\ UNCHANGED <<stream, window, limit_end, limit_, last_tag, todo, tokens, limits>>

\* Without a stream the pieces are appended.
AppendCord(n) ==
  /\ pc = "cord" /\ todo = 0 /\ MayConsume(n)
  /\ n > Smaller(BytesAvailable, kMaxCordBytesToCopy)
  /\ input.kind = "flat"
  /\ IF CanReadFromPtr(n)
     THEN ptr' = ptr + n /\ consumed' = consumed + n /\ pc' = "field" /\ UNCHANGED todo
     ELSE todo' = n /\ pc' = "append" /\ UNCHANGED <<ptr, consumed>>
  /\ UNCHANGED <<stream, window, limit_end, limit_, last_tag, tokens, limits>>

\* The stream is backed up to ptr, unless ptr is in the patch buffer before
\* bytes that were copied from an earlier chunk: those are taken from there.
BytesBackedUp ==
  IF buf # Patch \/ BytesAvailable > kPatchBufferSize THEN BytesAvailable
  ELSE IF BytesAvailable = kSlopBytes /\ next_chunk \notin {Null, Patch} THEN size_
  ELSE IF next_chunk \notin {Null, Patch} THEN size_ - kSlopBytes
  ELSE 0
BytesFromPatch ==
  IF buf # Patch \/ BytesAvailable > kPatchBufferSize THEN 0
  ELSE IF BytesAvailable = kSlopBytes /\ next_chunk \notin {Null, Patch} THEN 0
  ELSE BytesAvailable

\* todo is kept with the slack to the limit, which ReadCord checks first.
BackUpForCord(n) ==
  /\ pc = "cord" /\ todo = 0 /\ MayConsume(n)
  /\ n > Smaller(BytesAvailable, kMaxCordBytesToCopy)
  /\ input.kind # "flat"
  /\ LET past == n > limit_ + buffer_end - ptr
         ended == next_chunk = Null /\ BytesFromPatch > 0
     IN
     IF past \/ ended
     THEN /\ pc' = "failed"
          /\ last_tag' = IF ~past /\ ended THEN EndOfStream ELSE last_tag
          /\ UNCHANGED <<stream, overall_limit, limit_, todo, consumed>>
     ELSE /\ pc' = "readcord" /\ todo' = n - BytesFromPatch
          /\ limit_' = limit_ + buffer_end - ptr - n
          /\ spos' = spos - BytesBackedUp
          /\ lastNext' = IF BytesBackedUp > 0 THEN 0 ELSE lastNext
          /\ overall_limit' = overall_limit + BytesBackedUp
          /\ consumed' = consumed + BytesFromPatch
          /\ UNCHANGED <<input, last_tag>>
  /\ UNCHANGED <<buf, ptr, buffer_end, next_chunk, size_, patch, limit_end, tokens,
                 limits>>

\* zcis_->ReadCord, then InitFrom(zcis_) as at the start; limit_ holds new_limit.
CordTooLong == todo > overall_limit \/ todo > input.length - spos
ReadCordFails ==
  /\ pc = "readcord" /\ CordTooLong
  /\ pc' = "failed"
  /\ UNCHANGED <<stream, window, ptr, limit_end, limit_, last_tag, todo, tokens,
                 consumed, limits>>

ReadCord ==
  /\ pc = "readcord" /\ ~CordTooLong
  /\ LET s == spos + todo IN
     \E n \in FirstChunks(s) :
       LET o == IF s = input.length THEN NothingToOpen ELSE Opened(s, n) IN
       /\ buf' = o.buf /\ ptr' = o.ptr /\ buffer_end' = o.buffer_end
       /\ next_chunk' = o.next_chunk
       /\ patch' = IF s = input.length THEN patch ELSE OpenedPatch(s, n, patch)
       /\ size_' = IF s = input.length THEN 0 ELSE size_
       /\ overall_limit' = IF s = input.length THEN 0 ELSE overall_limit - todo - n
       /\ limit_' = limit_ - (o.buffer_end - o.ptr)
       /\ limit_end' = o.buffer_end + Smaller(0, limit_')
       /\ spos' = s + n /\ lastNext' = n
  /\ consumed' = consumed + todo /\ todo' = 0
  /\ pc' = "field"
  /\ UNCHANGED <<input, last_tag, tokens, limits>>

-------------------------------------------------------------------------------
(* The end of the parse, as MergeFromImpl decides it for each kind of input. *)

BytesLeftOfSlop == BytesAvailable
BytesLeft ==
  IF next_chunk = Patch THEN BytesAvailable ELSE size_ + buffer_end - ptr
\* The streams that are read on are backed up to the end of the parse first.
BacksUp == input.kind \in {"bounded", "coded"}
BackUp(count) ==
  IF BacksUp /\ count > 0
  THEN /\ spos' = spos - count /\ overall_limit' = overall_limit + count
       /\ lastNext' = 0
  ELSE UNCHANGED <<spos, overall_limit, lastNext>>

IsExceedingLimit ==
  ptr > limit_end /\ (next_chunk = Null \/ overrun > limit_)
Accepts ==
  CASE input.kind \in {"flat", "bounded"} -> last_tag = AtLimit
    [] input.kind = "stream" -> last_tag = EndOfStream
    [] input.kind = "coded" -> last_tag = EndOfStream \/ ~IsExceedingLimit

EndParse ==
  /\ pc = "done" /\ tokens = <<>>
  /\ BackUp(BytesLeft)
  /\ pc' = IF Accepts THEN "accepted" ELSE "failed"
  /\ UNCHANGED <<input, buf, ptr, buffer_end, limit_end, next_chunk, size_, limit_,
                 last_tag, patch, todo, tokens, consumed, limits>>

Finished == pc \in {"accepted", "failed"} /\ UNCHANGED vars

Sizes == 0..MaxLength + 1

Next ==
  \/ StillInBuffer \/ DoneAtLimit \/ DonePastLimit \/ EnterDoneFallback
  \/ Flip \/ FlipAtEnd
  \/ \E n \in KeyAndValue : ReadField(n) \/ ReadEndTag(n)
  \/ \E n \in Sizes :
       \/ PushLimit(n) \/ ReadInBuffer(n) \/ StartAppend(n)
       \/ CopyCord(n) \/ AppendCord(n) \/ BackUpForCord(n)
  \/ RestOfChunk \/ RestMeetsEndOfStream \/ RestEndsAtLimit
  \/ PopLimit \/ AppendFails \/ AppendChunk \/ ReadCordFails \/ ReadCord
  \/ EndParse \/ Finished

Spec == Init /\ [][Next]_vars

-------------------------------------------------------------------------------
(* Properties. *)

TypeOK ==
  /\ spos \in 0..input.length /\ lastNext \in 0..input.length
  /\ buf \in {Patch} \cup Nat
  /\ next_chunk \in {Null, Patch} \cup Nat
  /\ pc \in {"field", "read", "sized", "append", "cord", "readcord", "flip",
             "rest", "done",
             "accepted", "failed"}
  /\ patch \in [0..kPatchBufferSize - 1 -> 0..input.length]
  /\ ptr \in Nat /\ ptr <= buffer_end + kSlopBytes
  /\ overall_limit >= 0 \/ input.kind \in {"bounded"}
  /\ last_tag \in {AtLimit, EndOfStream, "tag"}
  /\ Len(limits) = Len(tokens) + 1

\* parse_context.h:92: each chunk "has kSlopBytes past its end that overlaps
\* with the first kSlopBytes of the next chunk": whatever was read before, the
\* memory from ptr to the end of the slop holds the bytes of the stream that
\* follow, as far as the stream goes.
WindowIsStream ==
  pc \in {"field", "read", "sized", "append", "cord", "flip", "rest"} =>
    \A i \in 0..BytesAvailable - 1 :
      next_chunk # Null \/ ptr + i < buffer_end =>
        ByteAt(buf, ptr + i) = consumed + i + 1

\* However buffers were exchanged meanwhile, limit_ denotes the end of the
\* innermost message, and every token the end of the one around it; limit_end_,
\* derived from limit_, is current whenever Done compares with it.
LimitsAreAbsolute ==
  pc \in {"field", "read", "sized", "append", "cord", "flip", "rest"} =>
    /\ consumed + buffer_end - ptr + limit_ = limits[Len(limits)]
    /\ \A i \in DOMAIN tokens : tokens[i] = limits[i] - limits[i + 1]
    /\ pc \in {"field", "read"} => limit_end = buffer_end + Smaller(0, limit_)

\* An accepted parse has consumed exactly the input: all of a flat array or
\* stream, the bound of a bounded one, or up to the tag it stopped at.
AcceptedExactly ==
  pc = "accepted" =>
    CASE input.kind \in {"flat", "stream"} -> consumed = input.length
      [] input.kind = "bounded" ->
           consumed = input.bound /\ consumed <= input.length
      [] input.kind = "coded" ->
           consumed = IF last_tag = EndOfStream THEN input.length ELSE input.stop

\* Whoever reads the stream itself, a cord in the middle of the parse or the
\* caller after it, goes on exactly where the parser is.
StreamStandsAtParser ==
  pc = "readcord" \/ (pc = "accepted" /\ BacksUp) => spos = consumed

\* The contract of ZeroCopyInputStream: BackUp only after Next, and not beyond
\* the buffer it returned.
BackUpsAreAllowed == [][spos' < spos => spos - spos' <= lastNext]_vars
===============================================================================
