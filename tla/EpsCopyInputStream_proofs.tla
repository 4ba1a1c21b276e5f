---------------------- MODULE EpsCopyInputStream_proofs -----------------------
(***************************************************************************)
(* TLAPS proofs about EpsCopyInputStream, for any size of the slop, any    *)
(* stream in any chunks and any nesting of messages.                       *)
(***************************************************************************)
EXTENDS EpsCopyInputStream, SequenceFacts, TLAPS

-------------------------------------------------------------------------------
(* The inductive invariant.                                                   *)

Over == {"accepted", "failed"}
Ended == {"done", "accepted", "failed"}
IsChunk(c) == c \in Nat

\* The bytes of the stream before buffer_end_.
At == consumed + buffer_end - ptr

InputOK ==
  /\ input.kind \in {"flat", "stream", "bounded", "coded"}
  /\ input.length \in 0..MaxLength
  /\ input.cuts \subseteq 0..input.length /\ input.length \in input.cuts
  /\ input.bound \in Nat
  /\ input.stop \in 0..input.length /\ (input.kind # "coded" => input.stop = 0)

\* What the variables range over, in every state.
WindowRanges ==
  /\ spos \in 0..input.length /\ lastNext \in 0..input.length
  /\ buf \in {Patch} \cup Nat /\ next_chunk \in {Null, Patch} \cup Nat
  /\ patch \in [0..kPatchBufferSize - 1 -> 0..input.length]
  /\ buffer_end \in Nat /\ overall_limit \in Int /\ size_ \in Nat
  /\ overall_limit >= 0 \/ input.kind = "bounded"
ParserRanges ==
  /\ ptr \in 0..buffer_end + kSlopBytes /\ consumed \in Nat /\ todo \in Nat
  /\ limit_ \in Int /\ limit_end \in Int
  /\ pc \in {"field", "read", "sized", "append", "cord", "readcord", "flip", "rest", "done",
             "accepted", "failed"}
  /\ last_tag \in {AtLimit, EndOfStream, "tag"}
  /\ tokens \in Seq(Int) /\ limits \in Seq(Int) /\ Len(limits) = Len(tokens) + 1
Ranges == WindowRanges /\ ParserRanges

\* How the buffer lies in the stream.
Places ==
  pc \notin Over \cup {"readcord"} =>
    /\ next_chunk = Patch => spos = At + kSlopBytes
    /\ next_chunk = Null => buf = Patch /\ spos = At /\ size_ = 0
    /\ IsChunk(next_chunk) =>
         /\ buf = Patch /\ buffer_end = kSlopBytes
         /\ next_chunk = At /\ size_ > kSlopBytes /\ spos = At + size_
    /\ buf = Patch => buffer_end <= kSlopBytes
    /\ IsChunk(buf) => next_chunk = Patch /\ At = buf + buffer_end

\* What the patch buffer holds.
Patched ==
  pc \notin Over \cup {"readcord"} /\ buf = Patch =>
    \A i \in ptr..buffer_end + kSlopBytes - 1 :
      next_chunk # Null \/ i < buffer_end => patch[i] = At - buffer_end + i + 1

\* What limit_ and the tokens stand for.
LimitsMean ==
  pc \notin Over =>
    /\ IF pc = "readcord" THEN consumed + todo + limit_ = limits[Len(limits)]
       ELSE At + limit_ = limits[Len(limits)]
    /\ \A i \in DOMAIN tokens : tokens[i] = limits[i] - limits[i + 1]
    /\ pc \in {"field", "read", "sized", "cord"} => limit_end = buffer_end + Smaller(0, limit_)
    /\ CASE input.kind = "flat" -> limits[1] = input.length
         [] input.kind = "bounded" -> limits[1] = input.bound
         [] OTHER -> limits[1] > input.length + kSlopBytes

\* Where the parser is.
ParserAt ==
  /\ pc = "read" => ptr < buffer_end
  /\ pc \in {"sized", "cord"} => ptr < buffer_end + kSlopBytes
  /\ pc = "append" => todo > BytesAvailable
  /\ pc = "flip" => ptr >= buffer_end
  /\ pc = "rest" => tokens # <<>> /\ limit_ >= overrun
  /\ pc \notin {"append", "readcord", "failed"} => todo = 0
  /\ pc \notin Ended => last_tag = AtLimit
  /\ pc \notin Ended \/ (pc = "done" /\ last_tag = AtLimit) =>
       (input.stop > 0 => consumed + todo < input.stop)

\* What was taken from the stream, and what may still be.
Taken ==
  pc \notin Over =>
    /\ IF input.kind = "flat" THEN overall_limit = 0
       ELSE next_chunk # Null =>
              overall_limit = (IF input.kind = "bounded" THEN input.bound ELSE IntMax) - spos
    /\ next_chunk = Null /\ input.kind = "stream" => spos = input.length
    /\ next_chunk = Null /\ input.kind = "coded" =>
         spos = input.length \/ (input.stop > 0 /\ input.stop <= spos)
    /\ pc = "readcord" => next_chunk # Null /\ spos = consumed /\ input.kind # "flat"
    /\ input.kind # "flat" /\ pc # "readcord" =>
         /\ IsChunk(next_chunk) => lastNext = size_
         /\ IsChunk(buf) => lastNext = buffer_end + kSlopBytes
         /\ input.kind = "bounded" => spos - lastNext <= input.bound
         /\ input.stop > 0 => spos - lastNext <= input.stop

\* What a parse that is done has consumed, before and after the stream is backed up.
DoneAt ==
  /\ pc = "done" =>
       /\ last_tag = AtLimit => consumed = limits[Len(limits)]
       /\ tokens = <<>> =>
            /\ last_tag = AtLimit => ~PastTheEnd
            /\ last_tag = EndOfStream =>
                 /\ next_chunk = Null /\ overrun = 0
                 /\ input.stop > 0 => consumed < input.stop
            /\ last_tag = "tag" =>
                 /\ input.kind = "coded" /\ limit_end <= buffer_end
                 /\ (consumed = input.stop /\ input.stop > 0) \/ consumed > input.length
  /\ AcceptedExactly
  /\ pc = "accepted" /\ BacksUp => spos = consumed

IInv ==
  InputOK /\ Ranges /\ Places /\ Patched /\ LimitsMean /\ ParserAt /\ Taken /\ DoneAt

-------------------------------------------------------------------------------
(* Operators.                                                                 *)

LEMMA Slop ==
  /\ kSlopBytes \in Nat \ {0} /\ kPatchBufferSize = 2 * kSlopBytes
  /\ MaxLength \in Nat /\ IntMax \in Nat /\ IntMax > MaxLength + 2 * kSlopBytes
  /\ kMaxCordBytesToCopy \in Nat /\ kMaxCordBytesToCopy >= 2 * kSlopBytes
  BY SlopOK, CordOK, IntMaxOK DEF kPatchBufferSize

LEMMA InputsOK == \A in \in Inputs :
  /\ in.kind \in {"flat", "stream", "bounded", "coded"}
  /\ in.length \in 0..MaxLength
  /\ in.cuts \subseteq 0..in.length /\ in.length \in in.cuts
  /\ in.bound \in Nat
  /\ in.stop \in 0..in.length /\ (in.kind # "coded" => in.stop = 0)
  <1> TAKE in \in Inputs
  <1>1. /\ in.kind \in Kinds /\ in.length \in 0..MaxLength /\ in.bound \in 0..MaxLength + 1
        /\ in.stop \in 0..MaxLength
        /\ in.length \in in.cuts /\ in.cuts \ {in.length} \subseteq 1..in.length - 1
        /\ in.stop <= IF in.kind = "coded" THEN in.length ELSE 0
    BY DEF Inputs
  <1>2. in.kind \in {"flat", "stream", "bounded", "coded"} /\ in.length \in Nat
    <2>1. in.kind \in {"flat", "stream", "bounded", "coded"}
      BY <1>1, KindsOK
    <2>2. QED  BY <1>1, <2>1, Slop
  <1>3. in.cuts \subseteq 0..in.length
    BY <1>1, <1>2
  <1>4. in.bound \in Nat /\ in.stop \in 0..in.length /\ (in.kind # "coded" => in.stop = 0)
    BY <1>1, <1>2, Slop
  <1>5. QED  BY <1>1, <1>2, <1>3, <1>4

\* A chunk ends before the stream does, and is not empty.
LEMMA Chunks ==
  ASSUME InputOK, NEW s \in 0..input.length
  PROVE  /\ ChunkSize(s) \in 0..input.length - s
         /\ ChunkSize(s) = 0 <=> s = input.length
  <1>1. input.length \in Nat /\ s \in Nat /\ s <= input.length
    BY Slop DEF InputOK
  <1>2. CASE s = input.length
    BY <1>1, <1>2 DEF ChunkSize
  <1>3. CASE s # input.length
    <2> DEFINE ends == {c \in input.cuts : c > s}
    <2>1. ends \in SUBSET Nat /\ input.length \in ends
      BY <1>1, <1>3 DEF InputOK
    <2>2. PICK c \in ends : \A d \in ends : c <= d
      BY <2>1, LeastNatural
    <2> DEFINE e == CHOOSE c2 \in ends : \A d \in ends : c2 <= d
    <2>3. e \in ends /\ \A d \in ends : e <= d
      BY <2>2
    <2>4. ChunkSize(s) = e - s
      BY <1>3 DEF ChunkSize
    <2> HIDE DEF e
    <2>5. e \in Nat /\ e > s /\ e <= input.length
      BY <1>1, <2>1, <2>3
    <2>6. QED  BY <1>1, <1>3, <2>4, <2>5
  <1>4. QED  BY <1>2, <1>3

LEMMA Bytes ==
  ASSUME Ranges, InputOK
  PROVE  /\ input.length \in Nat /\ At \in Int /\ overrun \in Int
         /\ BytesAvailable \in Nat /\ BytesAvailable = buffer_end + kSlopBytes - ptr
         /\ At = consumed - overrun /\ consumed + BytesAvailable = At + kSlopBytes
         /\ limits[Len(limits)] \in Int
  <1>1. limits[Len(limits)] \in Int
    <2>1. Len(limits) \in 1..Len(limits) /\ limits \in Seq(Int)
      BY DEF Ranges, WindowRanges, ParserRanges
    <2>2. QED  BY <2>1
  <1>2. input.length \in Nat
    BY Slop DEF InputOK
  <1>3. QED  BY <1>1, <1>2, Slop DEF Ranges, WindowRanges, ParserRanges, At, overrun, BytesAvailable

-------------------------------------------------------------------------------
(* What the steps have in common.                                             *)

InWindow == pc \notin Over \cup {"readcord"}

\* Steps inside the buffer: only ptr moves, and what is consumed with it.
LEMMA Slides ==
  ASSUME IInv, InWindow, UNCHANGED <<stream, window>>, pc' # "readcord",
         NEW n \in Int, ptr' = ptr + n, consumed' = consumed + n,
         n >= 0 \/ (next_chunk = Null /\ ptr + n >= buffer_end)
  PROVE  InputOK' /\ WindowRanges' /\ Places' /\ Patched' /\ Taken' /\ At' = At
  <1>1. ptr \in Int /\ consumed \in Int /\ buffer_end \in Nat
    BY Slop DEF IInv, Ranges, WindowRanges, ParserRanges
  <1>2. /\ input' = input /\ spos' = spos /\ lastNext' = lastNext /\ buf' = buf
        /\ buffer_end' = buffer_end /\ next_chunk' = next_chunk /\ size_' = size_
        /\ overall_limit' = overall_limit /\ patch' = patch
    BY DEF stream, window
  <1>3. At' = At
    <2>1. (consumed + n) + buffer_end - (ptr + n) = consumed + buffer_end - ptr
      BY <1>1
    <2>2. QED  BY <1>2, <2>1 DEF At
  <1>4. InputOK' /\ WindowRanges'
    BY <1>2 DEF IInv, InputOK, Ranges, WindowRanges
  <1>5. Places'
    BY <1>2, <1>3 DEF IInv, Places, InWindow, IsChunk, Over, Patch, Null
  <1>6. Patched'
    <2> SUFFICES ASSUME buf = Patch, NEW i \in ptr'..buffer_end + kSlopBytes - 1,
                        next_chunk # Null \/ i < buffer_end
                 PROVE  patch[i] = At - buffer_end + i + 1
      BY <1>2, <1>3 DEF Patched
    <2>1. i \in Int /\ i >= ptr + n /\ i <= buffer_end + kSlopBytes - 1
      BY <1>1, Slop
    <2>2. n >= 0
      BY <1>1, <2>1
    <2>3. i \in ptr..buffer_end + kSlopBytes - 1
      BY <1>1, <2>1, <2>2, Slop
    <2>4. QED  BY <2>3 DEF IInv, Patched, InWindow
  <1>7. Taken'
    BY <1>2 DEF IInv, Taken, InWindow, IsChunk, Over
  <1>8. QED  BY <1>3, <1>4, <1>5, <1>6, <1>7

\* ... and the limits stay.
LEMMA SlidesBelowLimits ==
  ASSUME IInv, InWindow, UNCHANGED <<stream, window, limit_, tokens, limits>>,
         pc' \in {"field", "read", "sized", "append", "cord", "flip", "rest", "done", "failed"},
         NEW n \in Int, ptr' = ptr + n, consumed' = consumed + n,
         n >= 0 \/ (next_chunk = Null /\ ptr + n >= buffer_end),
         ptr + n \in 0..buffer_end + kSlopBytes, consumed + n \in Nat,
         todo' \in Nat, last_tag' \in {AtLimit, EndOfStream, "tag"},
         \/ limit_end' = limit_end /\ pc \in {"field", "read", "sized", "cord"}
         \/ limit_end' \in Int /\ pc' \notin {"field", "read", "sized", "cord"},
         ParserAt', DoneAt'
  PROVE  IInv'
  <1>1. InputOK' /\ WindowRanges' /\ Places' /\ Patched' /\ Taken' /\ At' = At
    BY Slides
  <1>2. /\ input' = input /\ buffer_end' = buffer_end /\ limit_' = limit_ /\ tokens' = tokens
        /\ limits' = limits
    BY DEF stream, window
  <1>3. limit_end' \in Int
    BY DEF IInv, Ranges, ParserRanges
  <1>4. ParserRanges'
    BY <1>2, <1>3 DEF IInv, Ranges, ParserRanges
  <1>5. LimitsMean'
    BY <1>1, <1>2 DEF IInv, LimitsMean, InWindow, Over
  <1>6. QED  BY <1>1, <1>4, <1>5 DEF IInv, Ranges

LEMMA Stutters ==
  ASSUME IInv, UNCHANGED vars
  PROVE  IInv'
  <1>1. InputOK' /\ Ranges' /\ Places' /\ Patched'
    BY DEF IInv, vars, InputOK, Ranges, WindowRanges, ParserRanges, Places, Patched, At, IsChunk
  <1>2. LimitsMean'
    BY DEF IInv, vars, LimitsMean, At
  <1>3. ParserAt' /\ Taken'
    BY DEF IInv, vars, ParserAt, Taken, IsChunk, BytesAvailable, overrun
  <1>4. AcceptedExactly'
    BY DEF IInv, vars, DoneAt, AcceptedExactly
  <1>5. DoneAt'
    BY <1>4 DEF IInv, vars, DoneAt, overrun, PastTheEnd, BacksUp
  <1>6. QED  BY <1>1, <1>2, <1>3, <1>5 DEF IInv

\* A parse that fails is over.
LEMMA Fails ==
  ASSUME IInv, pc' = "failed", Ranges', input' = input
  PROVE  IInv'
  <1>1. InputOK'
    BY DEF IInv, InputOK
  <1>2. Places' /\ Patched' /\ LimitsMean' /\ ParserAt' /\ Taken' /\ DoneAt'
    BY DEF Places, Patched, LimitsMean, ParserAt, Taken, DoneAt, AcceptedExactly, Over, Ended
  <1>3. QED  BY <1>1, <1>2 DEF IInv

\* A buffer that begins where buffer_end_ was and holds what follows there, and
\* what was taken from the stream with it.
Follows(e, b, c, s, l, z, o, q) ==
  /\ next_chunk # Null
  /\ o >= 0 \/ input.kind = "bounded"
  /\ c = Patch => s = At + e + kSlopBytes
  /\ c = Null => b = Patch /\ s = At + e /\ z = 0
  /\ IsChunk(c) => /\ b = Patch /\ e = kSlopBytes /\ c = At + e
                   /\ z > kSlopBytes /\ s = At + e + z
  /\ b = Patch => e <= kSlopBytes
  /\ IsChunk(b) => c = Patch /\ b = At
  /\ b = Patch => \A i \in 0..e + kSlopBytes - 1 :
       i >= overrun /\ (c # Null \/ i < e) => q[i] = At + i + 1
  /\ input.kind = "flat" => o = 0
  /\ input.kind # "flat" /\ c # Null =>
       o = (IF input.kind = "bounded" THEN input.bound ELSE IntMax) - s
  /\ c = Null /\ input.kind = "stream" => s = input.length
  /\ c = Null /\ input.kind = "coded" =>
       s = input.length \/ (input.stop > 0 /\ input.stop <= s)
  /\ input.kind # "flat" =>
       /\ IsChunk(c) => l = z
       /\ IsChunk(b) => l = e + kSlopBytes
       /\ input.kind = "bounded" => s - l <= input.bound
       /\ input.stop > 0 => s - l <= input.stop
Taking(e, b, c, s, l, z, o, q) ==
  /\ buffer_end' = e /\ buf' = b /\ next_chunk' = c /\ spos' = s /\ lastNext' = l
  /\ size_' = z /\ overall_limit' = o /\ patch' = q /\ input' = input

LEMMA NextBufferEffect ==
  ASSUME IInv, pc \in {"flip", "append", "rest"}, NEW careful \in BOOLEAN, NextBuffer(careful),
         careful \/ (input.stop > consumed => consumed + BytesAvailable < input.stop)
  PROVE  \E e \in Nat, b \in {Patch} \cup Nat, c \in {Null, Patch} \cup Nat,
            s \in 0..input.length, l \in 0..input.length, z \in Nat, o \in Int,
            q \in [0..kPatchBufferSize - 1 -> 0..input.length] :
           Taking(e, b, c, s, l, z, o, q) /\ Follows(e, b, c, s, l, z, o, q)
  <1>1. PICK at \in Int, past \in Int, w \in Nat, len \in Nat :
          At = at /\ overrun = past /\ BytesAvailable = w /\ input.length = len
    BY Bytes DEF IInv
  <1>10. consumed + w = at + kSlopBytes
    BY <1>1, Bytes DEF IInv
  <1>2. /\ buffer_end \in Nat /\ ptr \in 0..buffer_end + kSlopBytes /\ past = ptr - buffer_end
        /\ spos \in 0..len /\ lastNext \in 0..len /\ size_ \in Nat
        /\ patch \in [0..kPatchBufferSize - 1 -> 0..len] /\ overall_limit \in Int
        /\ overall_limit >= 0 \/ input.kind = "bounded"
    BY <1>1 DEF IInv, Ranges, WindowRanges, ParserRanges, overrun
  <1>9. buf \in {Patch} \cup Nat /\ next_chunk \in {Null, Patch} \cup Nat
    BY DEF IInv, Ranges, WindowRanges, ParserRanges
  <1>3. Places /\ Patched /\ Taken /\ InputOK /\ pc \notin Over \cup {"readcord"} /\ pc \notin Ended
    BY DEF IInv, Over, Ended
  <1>4. CASE UseNextChunk
    <2>1. IsChunk(next_chunk) /\ Taking(size_ - kSlopBytes, next_chunk, Patch, spos, lastNext,
                                        size_, overall_limit, patch)
      BY <1>9, <1>4 DEF UseNextChunk, stream, IsChunk, Taking
    <2>2. next_chunk = at /\ size_ > kSlopBytes /\ spos = at + size_ /\ next_chunk # Null
          /\ at # Patch
      BY <1>1, <1>3, <2>1 DEF Places, IsChunk, Null, Patch
    <2>3. size_ - kSlopBytes \in Nat /\ spos = at + (size_ - kSlopBytes) + kSlopBytes
      BY <1>2, <2>2, Slop
    <2>4. ASSUME input.kind # "flat"
          PROVE  lastNext = size_ - kSlopBytes + kSlopBytes
      BY <1>2, <1>3, <2>1, <2>4, Slop DEF Taken
    <2>5. Follows(size_ - kSlopBytes, next_chunk, Patch, spos, lastNext, size_, overall_limit, patch)
      <3> DEFINE e == size_ - kSlopBytes
      <3>1. e \in Nat /\ spos = at + e + kSlopBytes /\ (input.kind # "flat" => lastNext = e + kSlopBytes)
        BY <2>3, <2>4
      <3> HIDE DEF e
      <3>2. ~IsChunk(Patch) /\ Patch # Null /\ next_chunk # Patch
        BY <2>1 DEF IsChunk, Patch, Null
      <3>3. /\ input.kind = "flat" => overall_limit = 0
            /\ input.kind # "flat" =>
                 /\ overall_limit = (IF input.kind = "bounded" THEN input.bound ELSE IntMax) - spos
                 /\ input.kind = "bounded" => spos - lastNext <= input.bound
                 /\ input.stop > 0 => spos - lastNext <= input.stop
        BY <1>3, <2>2 DEF Taken, Over
      <3>4. spos = At + e + kSlopBytes /\ next_chunk = At /\ next_chunk # Null /\ Patch # Null
        BY <1>1, <2>1, <2>2, <3>1 DEF IsChunk, Patch, Null
      <3>5. IsChunk(next_chunk) /\ (overall_limit >= 0 \/ input.kind = "bounded")
        BY <1>2, <2>1
      <3>6. /\ ~IsChunk(Patch)
            /\ next_chunk = Patch => FALSE
            /\ Patch = Null => FALSE
        BY <3>2, <3>4
      <3> DEFINE whole == IF input.kind = "bounded" THEN input.bound ELSE IntMax
      <3>7. /\ input.kind = "flat" => overall_limit = 0
            /\ input.kind # "flat" /\ Patch # Null => overall_limit = whole - spos
            /\ Patch = Null /\ input.kind = "stream" => spos = input.length
            /\ Patch = Null /\ input.kind = "coded" =>
                 spos = input.length \/ (input.stop > 0 /\ input.stop <= spos)
        BY <3>3, <3>6
      <3>8. /\ Patch = Patch => spos = At + e + kSlopBytes
            /\ Patch = Null => next_chunk = Patch /\ spos = At + e /\ size_ = 0
            /\ IsChunk(Patch) => /\ next_chunk = Patch /\ e = kSlopBytes /\ Patch = At + e
                                /\ size_ > kSlopBytes /\ spos = At + e + size_
            /\ next_chunk = Patch => e <= kSlopBytes
            /\ IsChunk(next_chunk) => Patch = Patch /\ next_chunk = At
        BY <3>4, <3>6
      <3>9. next_chunk = Patch => \A i \in 0..e + kSlopBytes - 1 :
               i >= overrun /\ (Patch # Null \/ i < e) => patch[i] = At + i + 1
        BY <3>6
      <3>10. input.kind # "flat" =>
               /\ IsChunk(Patch) => lastNext = size_
               /\ IsChunk(next_chunk) => lastNext = e + kSlopBytes
               /\ input.kind = "bounded" => spos - lastNext <= input.bound
               /\ input.stop > 0 => spos - lastNext <= input.stop
        BY <3>1, <3>3, <3>6
      <3> HIDE DEF whole, e
      <3>11. QED  BY <3>4, <3>5, <3>7, <3>8, <3>9, <3>10, Zenon DEF Follows, whole, e
    <2>6. next_chunk \in {Patch} \cup Nat /\ Patch \in {Null, Patch} \cup Nat
      BY <2>1 DEF IsChunk
    <2>7. QED  BY <1>1, <1>2, <2>1, <2>3, <2>5, <2>6
  <1>5. ASSUME next_chunk = Patch
        PROVE  /\ spos = at + kSlopBytes
               /\ \A n \in 0..kSlopBytes : n <= len - spos =>
                    /\ MovedSlop(n) \in [0..kPatchBufferSize - 1 -> 0..len]
                    /\ \A i \in 0..n + kSlopBytes - 1 : i >= past => MovedSlop(n)[i] = at + i + 1
    <2>1. spos = at + kSlopBytes
      BY <1>1, <1>3, <1>5 DEF Places, Patch, Null
    <2>2. ASSUME NEW i \in 0..kSlopBytes - 1
          PROVE  /\ ByteAt(buf, buffer_end + i) \in 0..len
                 /\ i >= past => ByteAt(buf, buffer_end + i) = at + i + 1
      <3>1. CASE buf = Patch
        <4>1. buffer_end + i \in 0..kPatchBufferSize - 1
          BY <1>2, <1>3, <3>1, Slop DEF Places
        <4>2. ByteAt(buf, buffer_end + i) = patch[buffer_end + i]
          BY <3>1, <4>1 DEF ByteAt
        <4>3. ASSUME i >= past
              PROVE  patch[buffer_end + i] = at + i + 1
          <5>1. buffer_end + i \in ptr..buffer_end + kSlopBytes - 1
            BY <1>2, <4>3, Slop
          <5>2. patch[buffer_end + i] = at - buffer_end + (buffer_end + i) + 1
            BY <1>1, <1>3, <1>5, <3>1, <5>1 DEF Patched, Patch, Null
          <5>3. at - buffer_end + (buffer_end + i) + 1 = at + i + 1
            BY <1>1, <1>2, Slop
          <5>4. QED  BY <5>2, <5>3
        <4>4. QED  BY <1>2, <4>1, <4>2, <4>3
      <3>2. CASE buf # Patch
        <4>1. buf \in Nat /\ at = buf + buffer_end
          BY <1>1, <1>9, <1>3, <3>2 DEF Places, IsChunk
        <4>2. ByteAt(buf, buffer_end + i) = buf + (buffer_end + i) + 1
          BY <3>2 DEF ByteAt
        <4>3. buf + (buffer_end + i) + 1 = at + i + 1
          BY <1>2, <4>1, Slop
        <4>4. at + i + 1 \in 0..len
          <5>1. at >= 0 /\ at + kSlopBytes <= len
            BY <1>1, <1>2, <2>1, <4>1, Slop
          <5>2. QED  BY <5>1, Slop
        <4>5. QED  BY <4>2, <4>3, <4>4
      <3>3. QED  BY <3>1, <3>2
    <2>3. ASSUME NEW n \in 0..kSlopBytes, n <= len - spos
          PROVE  /\ MovedSlop(n) \in [0..kPatchBufferSize - 1 -> 0..len]
                 /\ \A i \in 0..n + kSlopBytes - 1 : i >= past => MovedSlop(n)[i] = at + i + 1
      <3> DEFINE b(i) == IF i < kSlopBytes THEN ByteAt(buf, buffer_end + i)
                         ELSE IF i < kSlopBytes + n THEN spos + i - kSlopBytes + 1
                         ELSE patch[i]
      <3>1. MovedSlop(n) = [i \in 0..kPatchBufferSize - 1 |-> b(i)]
        BY DEF MovedSlop
      <3>2. ASSUME NEW i \in 0..kPatchBufferSize - 1
            PROVE  b(i) \in 0..len
        BY <1>1, <1>2, <2>2, <2>3, Slop
      <3>3. ASSUME NEW i \in 0..n + kSlopBytes - 1, i >= past
            PROVE  b(i) = at + i + 1 /\ i \in 0..kPatchBufferSize - 1
        <4>1. i \in Nat /\ i < kSlopBytes + n /\ i \in 0..kPatchBufferSize - 1
          BY Slop
        <4>2. CASE i < kSlopBytes
          BY <2>2, <3>3, <4>1, <4>2, Slop
        <4>3. CASE ~ i < kSlopBytes
          <5>1. b(i) = spos + i - kSlopBytes + 1
            BY <4>1, <4>3
          <5>2. spos + i - kSlopBytes + 1 = at + i + 1
            <6>1. \A j \in Int : spos + j - kSlopBytes + 1 = at + j + 1
              BY <1>1, <1>2, <2>1, Slop
            <6>2. QED  BY <4>1, <6>1
          <5> HIDE DEF b
          <5>3. QED  BY <4>1, <5>1, <5>2
        <4>4. QED  BY <4>1, <4>2, <4>3
      <3> HIDE DEF b
      <3>4. QED  BY <3>1, <3>2, <3>3
    <2>4. QED  BY <2>1, <2>3
  <1>6. CASE FillPatchBuffer(careful)
    <2>1. PICK n \in 0..len - spos, m \in Nat : ChunkSize(spos) = n /\ Smaller(n, kSlopBytes) = m
      <3>1. spos \in 0..input.length
        BY <1>1, <1>2
      <3>2. ChunkSize(spos) \in 0..len - spos
        BY <1>1, <1>3, <3>1, Chunks
      <3>3. \A n \in 0..len - spos : Smaller(n, kSlopBytes) \in Nat
        BY <1>1, <1>2, Slop DEF Smaller
      <3>4. QED  BY <3>2, <3>3
    <2> DEFINE c == IF n > kSlopBytes THEN spos ELSE Patch
    <2>2. /\ next_chunk = Patch /\ n > 0 /\ overall_limit > 0
          /\ ~(careful /\ input.kind = "coded" /\ ParseEndsInSlopRegion)
          /\ Taking(m, Patch, c, spos + n, n, n, overall_limit - n, MovedSlop(m))
      BY <1>6, <2>1 DEF FillPatchBuffer, WantsMore, PatchedBufferEnd, Taking
    <2>3. m <= kSlopBytes /\ m <= len - spos
          /\ (n > kSlopBytes => m = kSlopBytes) /\ (~ n > kSlopBytes => m = n)
      BY <1>1, <1>2, <2>1, Slop DEF Smaller
    <2>4. /\ spos = at + kSlopBytes
          /\ MovedSlop(m) \in [0..kPatchBufferSize - 1 -> 0..len]
          /\ \A i \in 0..m + kSlopBytes - 1 : i >= past => MovedSlop(m)[i] = at + i + 1
      <3>1. m \in 0..kSlopBytes
        BY <2>3, Slop
      <3>2. QED  BY <1>5, <2>2, <2>3, <3>1
    <2>5. PICK whole \in Nat :
            /\ (IF input.kind = "bounded" THEN input.bound ELSE IntMax) = whole
            /\ input.kind # "flat" /\ overall_limit = whole - spos
            /\ input.kind # "bounded" => whole > len
      <3>1. PICK bound \in Nat : input.bound = bound /\ len <= MaxLength
        BY <1>1, <1>3, Slop DEF InputOK
      <3>2. /\ input.kind # "flat"
            /\ overall_limit = (IF input.kind = "bounded" THEN input.bound ELSE IntMax) - spos
        BY <1>2, <1>3, <2>2 DEF Taken, Over, Patch, Null
      <3>3. IntMax > len /\ IntMax \in Nat
        BY <3>1, Slop
      <3>4. CASE input.kind = "bounded"
        BY <3>1, <3>2, <3>4
      <3>5. CASE input.kind # "bounded"
        BY <3>2, <3>3, <3>5
      <3>6. QED  BY <3>4, <3>5
    <2>6. overall_limit - n >= 0 \/ input.kind = "bounded"
      BY <1>2, <2>1, <2>5
    <2>7. overall_limit - n = whole - (spos + n)
      BY <1>2, <2>1, <2>5
    <2>8. input.kind = "bounded" => spos + n - n <= input.bound
      <3>1. spos + n - n <= whole
        BY <1>2, <2>1, <2>2, <2>5
      <3>2. QED  BY <2>5, <3>1
    <2>9. input.stop > 0 => spos + n - n <= input.stop
      <3>1. PICK stop \in Nat : input.stop = stop /\ (stop > 0 => input.kind = "coded")
        BY <1>1, <1>3 DEF InputOK
      <3>2. SUFFICES ASSUME stop > 0, stop < spos
                     PROVE  FALSE
        BY <1>1, <1>2, <2>1, <3>1
      <3>3. consumed \in Nat /\ (stop > 0 => consumed < stop)
        <4>1. todo \in Nat /\ consumed \in Nat /\ (stop > 0 => consumed + todo < stop)
          BY <1>3, <3>1 DEF IInv, Ranges, WindowRanges, ParserRanges, ParserAt
        <4>2. QED  BY <4>1, <3>1
      <3>4. stop > consumed /\ stop <= consumed + w /\ ~ consumed + w < stop
        BY <1>1, <1>2, <1>10, <2>4, <3>2, <3>3, Slop
      <3>5. ParseEndsInSlopRegion
        BY <1>1, <3>1, <3>4 DEF ParseEndsInSlopRegion
      <3>6. careful
        BY <1>1, <3>1, <3>4
      <3>7. QED  BY <2>2, <3>1, <3>2, <3>5, <3>6
    <2>10. Follows(m, Patch, c, spos + n, n, n, overall_limit - n, MovedSlop(m))
      <3>1. c \in {Patch} \cup Nat /\ (c = Patch \/ c \in Nat)
        BY <1>2, <2>1
      <3>2. c = Patch => n = m /\ spos + n = at + m + kSlopBytes
        <4>1. ~ spos = Patch
          BY <1>2 DEF Patch
        <4>2. SUFFICES ASSUME ~ n > kSlopBytes PROVE n = m /\ spos + n = at + m + kSlopBytes
          BY <4>1
        <4>3. n = m
          BY <2>3, <4>2
        <4>4. spos + n = at + n + kSlopBytes
          BY <1>1, <1>2, <2>1, <2>4, Slop
        <4>5. QED  BY <4>3, <4>4
      <3>3. IsChunk(c) => /\ m = kSlopBytes /\ c = at + m /\ n > kSlopBytes /\ spos + n = at + m + n
        <4>1. SUFFICES ASSUME n > kSlopBytes
              PROVE m = kSlopBytes /\ spos = at + m /\ spos + n = at + m + n
          BY DEF Patch, IsChunk
        <4>2. m = kSlopBytes
          BY <2>3, <4>1
        <4>3. spos = at + kSlopBytes /\ spos + n = at + kSlopBytes + n
          BY <1>1, <1>2, <2>1, <2>4, Slop
        <4>4. QED  BY <4>2, <4>3
      <3>4. c # Null /\ ~IsChunk(Patch) /\ Patch # Null
        BY <3>1 DEF Patch, Null, IsChunk
      <3> HIDE DEF c
      <3>5. QED  BY <1>1, <2>2, <2>3, <2>4, <2>5, <2>6, <2>7, <2>8, <2>9, <3>2, <3>3, <3>4 DEF Follows
    <2>11. /\ c \in {Null, Patch} \cup Nat /\ spos + n \in 0..len /\ n \in 0..len /\ n \in Nat
           /\ overall_limit - n \in Int
      BY <1>1, <1>2, <2>1
    <2>12. Patch \in {Patch} \cup Nat
      OBVIOUS
    <2> HIDE DEF c
    <2>13. QED  BY <1>1, <2>1, <2>2, <2>4, <2>10, <2>11, <2>12
  <1>7. CASE LastBuffer(careful)
    <2>1. PICK o \in Int :
          /\ next_chunk = Patch
          /\ WantsMore(careful) => o = 0
          /\ ~WantsMore(careful) => o = overall_limit
          /\ WantsMore(careful) => ~ ChunkSize(spos) > 0
          /\ Taking(kSlopBytes, Patch, Null, spos, lastNext, 0, o, MovedSlop(0))
      BY <1>2, <1>7 DEF LastBuffer, stream, Taking
    <2>2. /\ spos = at + kSlopBytes
          /\ MovedSlop(0) \in [0..kPatchBufferSize - 1 -> 0..len]
          /\ \A i \in 0..0 + kSlopBytes - 1 : i >= past => MovedSlop(0)[i] = at + i + 1
      <3>1. 0 \in 0..kSlopBytes /\ 0 <= len - spos
        BY <1>1, <1>2, Slop
      <3>2. QED  BY <1>5, <2>1, <3>1
    <2>3. overall_limit > 0 => \/ spos = len
                               \/ careful /\ input.kind = "coded" /\ ParseEndsInSlopRegion
      <3>1. ChunkSize(spos) \in 0..len - spos /\ (ChunkSize(spos) = 0 <=> spos = len)
        BY <1>1, <1>2, <1>3, Chunks
      <3>2. ~ ChunkSize(spos) > 0 => ChunkSize(spos) = 0
        BY <1>1, <1>2, <3>1
      <3>3. QED  BY <2>1, <3>1, <3>2 DEF WantsMore
    <2>4. input.kind \in {"stream", "coded"} => overall_limit > 0
      <3>1. input.kind \in {"stream", "coded"} => overall_limit = IntMax - spos
        BY <1>3, <2>1 DEF Taken, Over, Patch, Null
      <3>2. len <= MaxLength
        BY <1>1, <1>3, Slop DEF InputOK
      <3>3. IntMax - spos > 0
        BY <1>1, <1>2, <3>2, Slop
      <3>4. QED  BY <3>1, <3>3
    <2>5. ParseEndsInSlopRegion => input.stop > 0 /\ input.stop <= spos
      <3>1. PICK stop \in Nat : input.stop = stop
        BY <1>1, <1>3 DEF InputOK
      <3>2. ParseEndsInSlopRegion => stop > consumed /\ stop <= consumed + w
        BY <1>1, <3>1 DEF ParseEndsInSlopRegion
      <3>3. consumed \in Nat
        BY DEF IInv, Ranges, WindowRanges, ParserRanges
      <3>4. consumed + w = spos
        BY <1>10, <2>2
      <3>5. QED  BY <1>1, <1>2, <3>1, <3>2, <3>3, <3>4
    <2>6. o >= 0 \/ input.kind = "bounded"
      BY <1>2, <2>1
    <2>7. input.kind = "flat" => o = 0
      BY <1>3, <2>1 DEF Taken, Over
    <2>8. Follows(kSlopBytes, Patch, Null, spos, lastNext, 0, o, MovedSlop(0))
      <3>1. ~IsChunk(Patch) /\ ~IsChunk(Null) /\ Patch # Null /\ next_chunk # Null
        BY <2>1 DEF Patch, Null, IsChunk
      <3>2. /\ input.kind # "flat" /\ input.kind = "bounded" => spos - lastNext <= input.bound
            /\ input.kind # "flat" /\ input.stop > 0 => spos - lastNext <= input.stop
        BY <1>3 DEF Taken, Over
      <3>3. \A i \in 0..kSlopBytes + kSlopBytes - 1 : i < kSlopBytes => i \in 0..0 + kSlopBytes - 1
        BY Slop
      <3>4. kSlopBytes <= kSlopBytes
        BY Slop
      <3>5. (input.kind = "stream" => spos = len)
            /\ (input.kind = "coded" => spos = len \/ (input.stop > 0 /\ input.stop <= spos))
        BY <2>3, <2>4, <2>5
      <3>6. QED  BY <1>1, <2>2, <2>6, <2>7, <3>1, <3>2, <3>3, <3>4, <3>5 DEF Follows
    <2>9. /\ kSlopBytes \in Nat /\ Patch \in {Patch} \cup Nat /\ Null \in {Null, Patch} \cup Nat
          /\ 0 \in Nat
      BY Slop
    <2>10. QED  BY <1>1, <1>2, <2>1, <2>2, <2>8, <2>9
  <1>8. QED  BY <1>4, <1>6, <1>7 DEF NextBuffer

-------------------------------------------------------------------------------
(* Done, and steps of the parser inside the buffer.                            *)

LEMMA Numbers ==
  ASSUME IInv
  PROVE  /\ ptr \in Nat /\ ptr <= buffer_end + kSlopBytes /\ buffer_end \in Nat
         /\ consumed \in Nat /\ todo \in Nat /\ limit_ \in Int /\ limit_end \in Int
         /\ spos \in Nat /\ size_ \in Nat /\ overall_limit \in Int /\ kSlopBytes \in Nat \ {0}
  <1>1. /\ ptr \in 0..buffer_end + kSlopBytes /\ buffer_end \in Nat
        /\ consumed \in Nat /\ todo \in Nat /\ limit_ \in Int /\ limit_end \in Int
        /\ spos \in 0..input.length /\ size_ \in Nat /\ overall_limit \in Int
    BY DEF IInv, Ranges, WindowRanges, ParserRanges
  <1>2. input.length \in Nat
    BY Slop DEF IInv, InputOK
  <1>3. QED  BY <1>1, <1>2, Slop

LEMMA StillInBufferStep ==
  ASSUME IInv, StillInBuffer
  PROVE  IInv'
  <1>1. ptr < buffer_end
    <2>1. limit_end = buffer_end + Smaller(0, limit_) /\ ptr < limit_end
      BY DEF StillInBuffer, IInv, LimitsMean, Over
    <2>2. QED  BY <2>1, Numbers DEF Smaller
  <1>2. ParserAt'
    BY <1>1 DEF StillInBuffer, IInv, ParserAt, Ended, window, stream
  <1>3. DoneAt'
    BY DEF StillInBuffer, DoneAt, AcceptedExactly
  <1>4. QED
    BY <1>2, <1>3, Numbers, SlidesBelowLimits, 0 \in Int
       DEF StillInBuffer, InWindow, Over, IInv, Ranges, ParserRanges

LEMMA DoneAtLimitStep ==
  ASSUME IInv, DoneAtLimit
  PROVE  IInv'
  <1>1. ParserAt'
    BY DEF DoneAtLimit, IInv, ParserAt, Ended, window, stream
  <1>2. consumed = limits[Len(limits)]
    <2>1. At + limit_ = limits[Len(limits)] /\ limit_ = ptr - buffer_end
      BY DEF DoneAtLimit, IInv, LimitsMean, Over, overrun
    <2>2. At + (ptr - buffer_end) = consumed
      BY Numbers DEF At
    <2>3. QED  BY <2>1, <2>2
  <1>3. DoneAt'
    <2>1. /\ limits' = limits /\ consumed' = consumed /\ last_tag' = last_tag /\ ptr' = ptr
          /\ buffer_end' = buffer_end /\ next_chunk' = next_chunk /\ last_tag = AtLimit
          /\ pc' = (IF PastTheEnd THEN "failed" ELSE "done")
      BY DEF DoneAtLimit, window, IInv, ParserAt, Ended
    <2>2. pc' = "done" => ~PastTheEnd'
      BY <2>1 DEF PastTheEnd, overrun
    <2>3. pc' # "accepted" /\ AcceptedExactly'
      BY <2>1 DEF AcceptedExactly
    <2>4. QED  BY <1>2, <2>1, <2>2, <2>3 DEF DoneAt, AtLimit, EndOfStream
  <1>4. QED
    BY <1>1, <1>3, Numbers, SlidesBelowLimits, 0 \in Int
       DEF DoneAtLimit, InWindow, Over, IInv, Ranges, ParserRanges

LEMMA DonePastLimitStep ==
  ASSUME IInv, DonePastLimit
  PROVE  IInv'
  BY Fails DEF DonePastLimit, stream, window, IInv, Ranges, WindowRanges, ParserRanges

LEMMA EnterDoneFallbackStep ==
  ASSUME IInv, EnterDoneFallback
  PROVE  IInv'
  <1>1. ptr >= buffer_end
    <2>1. limit_end = buffer_end + Smaller(0, limit_) /\ ptr >= limit_end
          /\ ptr - buffer_end # limit_ /\ ~ ptr - buffer_end > limit_
      BY DEF EnterDoneFallback, IInv, LimitsMean, Over, IsPastLimit, overrun
    <2>2. QED  BY <2>1, Numbers DEF Smaller
  <1>2. ParserAt'
    BY <1>1 DEF EnterDoneFallback, IInv, ParserAt, Ended, window, stream
  <1>3. DoneAt'
    BY DEF EnterDoneFallback, DoneAt, AcceptedExactly
  <1>4. QED
    BY <1>2, <1>3, Numbers, SlidesBelowLimits, 0 \in Int
       DEF EnterDoneFallback, InWindow, Over, IInv, Ranges, ParserRanges

LEMMA FlipAtEndStep ==
  ASSUME IInv, FlipAtEnd
  PROVE  IInv'
  <1>1. ParserAt'
    BY DEF FlipAtEnd, IInv, ParserAt, Ended, window, stream, EndOfStream, AtLimit
  <1>2. DoneAt'
    <2>1. input.stop > 0 => consumed < input.stop
      <3>1. todo = 0 /\ (input.stop > 0 => consumed + todo < input.stop)
        BY DEF FlipAtEnd, IInv, ParserAt, Ended
      <3>2. consumed + 0 = consumed
        BY Numbers
      <3>3. QED  BY <3>1, <3>2
    <2>2. /\ consumed' = consumed /\ ptr' = ptr /\ buffer_end' = buffer_end
          /\ next_chunk' = next_chunk /\ input' = input /\ next_chunk = Null
          /\ pc' = "done" => overrun = 0 /\ last_tag' = EndOfStream
          /\ pc' \in {"done", "failed"}
      BY DEF FlipAtEnd, window, stream
    <2>3. pc' = "done" => overrun' = 0
      BY <2>2 DEF overrun
    <2>4. QED  BY <2>1, <2>2, <2>3 DEF DoneAt, AtLimit, EndOfStream, AcceptedExactly
  <1>3. QED
    BY <1>1, <1>2, Numbers, SlidesBelowLimits, 0 \in Int
       DEF FlipAtEnd, InWindow, Over, IInv, Ranges, ParserRanges, EndOfStream

LEMMA ReadFieldStep ==
  ASSUME IInv, NEW n \in KeyAndValue, ReadField(n)
  PROVE  IInv'
  <1>1. n \in Nat /\ n < kSlopBytes /\ n >= 1
    BY Slop DEF KeyAndValue
  <1>2. ptr < buffer_end /\ todo = 0 /\ (input.stop > 0 => consumed + todo < input.stop)
    BY DEF ReadField, IInv, ParserAt, Ended
  <1>3. ptr + n \in 0..buffer_end + kSlopBytes /\ ptr + n < buffer_end + kSlopBytes
    BY <1>1, <1>2, Numbers
  <1>4. input.stop > 0 => consumed + n + 0 < input.stop
    <2>1. PICK stop \in Nat : input.stop = stop
      BY Slop DEF IInv, InputOK
    <2>2. stop > 0 => consumed < stop
      BY <1>2, <2>1, Numbers
    <2>3. stop > 0 => consumed + n < stop
      BY <2>1, <2>2, Numbers DEF ReadField, MayConsume
    <2>4. QED  BY <1>1, <2>1, <2>3, Numbers
  <1>5. ParserAt'
    BY <1>2, <1>3, <1>4 DEF ReadField, IInv, ParserAt, Ended, window, stream
  <1>6. DoneAt'
    BY DEF ReadField, DoneAt, AcceptedExactly
  <1>7. n \in Int /\ n >= 0 /\ consumed + n \in Nat
    BY <1>1, Numbers
  <1>8. QED
    BY <1>3, <1>5, <1>6, <1>7, SlidesBelowLimits
       DEF ReadField, InWindow, Over, IInv, Ranges, ParserRanges

LEMMA ReadEndTagStep ==
  ASSUME IInv, NEW n \in KeyAndValue, ReadEndTag(n)
  PROVE  IInv'
  <1>1. n \in Nat /\ n < kSlopBytes /\ n >= 1
    BY Slop DEF KeyAndValue
  <1>2. ptr < buffer_end /\ todo = 0 /\ (input.stop > 0 => consumed + todo < input.stop)
        /\ limit_end = buffer_end + Smaller(0, limit_) /\ last_tag' = "tag" /\ pc' = "done"
    BY DEF ReadEndTag, IInv, ParserAt, Ended, LimitsMean, Over
  <1>3. ptr + n \in 0..buffer_end + kSlopBytes /\ limit_end <= buffer_end
    BY <1>1, <1>2, Numbers DEF Smaller
  <1>4. ParserAt'
    BY <1>2 DEF ReadEndTag, IInv, ParserAt, Ended, AtLimit
  <1>5. (consumed + n = input.stop /\ input.stop > 0) \/ consumed + n > input.length
    <2>1. consumed + n > 0
      BY <1>1, Numbers
    <2>2. QED  BY <2>1 DEF ReadEndTag
  <1>6. DoneAt'
    BY <1>2, <1>3, <1>5 DEF ReadEndTag, DoneAt, AcceptedExactly, AtLimit, EndOfStream, stream, window
  <1>7. n \in Int /\ n >= 0 /\ consumed + n \in Nat
    BY <1>1, Numbers
  <1>8. QED
    BY <1>3, <1>4, <1>6, <1>7, SlidesBelowLimits
       DEF ReadEndTag, InWindow, Over, IInv, Ranges, ParserRanges

\* No field crosses the tag at which the parse stops.
LEMMA Consuming ==
  ASSUME IInv, pc \notin Ended, todo = 0, NEW n \in Nat, MayConsume(n)
  PROVE  input.stop > 0 => consumed + n < input.stop /\ consumed + n + 0 < input.stop
  <1>1. PICK stop \in Nat : input.stop = stop
    BY Slop DEF IInv, InputOK
  <1>2. stop > 0 => consumed + todo < stop
    BY <1>1 DEF IInv, ParserAt
  <1>3. stop > 0 => consumed < stop
    BY <1>1, <1>2, Numbers
  <1>4. stop > 0 => consumed + n < stop
    BY <1>1, <1>3, Numbers DEF MayConsume
  <1>5. QED  BY <1>1, <1>4, Numbers

LEMMA PushLimitStep ==
  ASSUME IInv, NEW n \in Sizes, PushLimit(n)
  PROVE  IInv'
  <1>1. n \in Nat /\ pc = "sized" /\ todo = 0 /\ pc \notin Ended
    BY Slop DEF Sizes, PushLimit, IInv, ParserAt, Ended
  <1>2. CASE ~ Len(tokens) < MaxDepth
    BY <1>2, Fails DEF PushLimit, stream, window, IInv, Ranges, WindowRanges, ParserRanges
  <1>3. CASE Len(tokens) < MaxDepth
    <2>0. PICK l \in Int : n + ptr - buffer_end = l
      BY <1>1, Numbers
    <2>1. /\ limit_' = l /\ limit_end' = buffer_end + Smaller(0, l)
          /\ tokens' = Append(tokens, limit_ - l) /\ limits' = Append(limits, consumed + n)
          /\ pc' \in {"field", "rest"} /\ input' = input /\ buffer_end' = buffer_end
          /\ ptr' = ptr /\ consumed' = consumed /\ todo' = todo /\ last_tag' = last_tag
      BY <1>3, <2>0 DEF PushLimit, stream, window
    <2>2. buffer_end + Smaller(0, l) \in Int /\ limit_ - l \in Int /\ consumed + n \in Int
      BY <1>1, Numbers DEF Smaller
    <2>3. PICK at \in Int : /\ At = at /\ at + l = consumed + n
                            /\ at + limit_ = limits[Len(limits)] /\ l >= ptr - buffer_end
      <3>1. At \in Int /\ At + l = consumed + n /\ l >= ptr - buffer_end
        BY <1>1, <2>0, Numbers DEF At
      <3>2. At + limit_ = limits[Len(limits)]
        BY <1>1 DEF IInv, LimitsMean, Over
      <3>3. QED  BY <3>1, <3>2
    <2>4. InputOK' /\ WindowRanges' /\ Places' /\ Patched' /\ Taken' /\ At' = At
      <3>1. UNCHANGED <<stream, window>> /\ InWindow
        BY DEF PushLimit, InWindow, Over
      <3>2. ptr' = ptr + 0 /\ consumed' = consumed + 0 /\ pc' # "readcord" /\ 0 >= 0
        BY <2>1, Numbers
      <3>3. QED  BY <3>1, <3>2, Slides, 0 \in Int
    <2>5. tokens \in Seq(Int) /\ limits \in Seq(Int) /\ Len(limits) = Len(tokens) + 1
      BY DEF IInv, Ranges, ParserRanges
    <2>6. /\ tokens' \in Seq(Int) /\ limits' \in Seq(Int)
          /\ Len(limits') = Len(limits) + 1 /\ Len(tokens') = Len(tokens) + 1
          /\ \A i \in 1..Len(limits) : limits'[i] = limits[i]
          /\ limits'[Len(limits) + 1] = consumed + n
          /\ \A i \in 1..Len(tokens) : tokens'[i] = tokens[i]
          /\ tokens'[Len(tokens) + 1] = limit_ - l
      BY <2>1, <2>2, <2>5
    <2>7. ParserRanges'
      BY <2>1, <2>2, <2>5, <2>6 DEF IInv, Ranges, ParserRanges
    <2>8. PICK d \in Nat : Len(tokens) = d
      BY <2>5
    <2>9. Len(limits) = d + 1 /\ Len(tokens') = d + 1 /\ Len(limits') = d + 2
      BY <2>5, <2>6, <2>8
    <2>10. ASSUME NEW i \in DOMAIN tokens'
           PROVE  tokens'[i] = limits'[i] - limits'[i + 1]
      <3>1. i \in 1..d + 1
        BY <2>6, <2>9
      <3>2. CASE i = d + 1
        <4>1. tokens'[i] = limit_ - l /\ limits'[i + 1] = consumed + n /\ limits'[i] = limits[d + 1]
          BY <2>6, <2>8, <2>9, <3>1, <3>2
        <4>2. limits[d + 1] = at + limit_
          BY <2>3, <2>9
        <4>3. PICK u \in Int, v \in Int, t \in Int :
                limits'[i] = u /\ limits'[i + 1] = v /\ tokens'[i] = t
          <5>1. at + limit_ \in Int
            BY <2>3, Numbers
          <5>2. QED  BY <4>1, <4>2, <2>2, <5>1, Zenon
        <4>4. u = at + limit_ /\ v = consumed + n /\ t = limit_ - l
          BY <4>1, <4>2, <4>3, Zenon
        <4>5. t = u - v
          <5>1. at + l = v /\ v = consumed + n /\ u = at + limit_ /\ t = limit_ - l
            BY <2>3, <4>4
          <5>2. QED  BY <5>1, Numbers
        <4>6. QED  BY <4>3, <4>5
      <3>3. CASE i # d + 1
        <4>1. i \in 1..d /\ i \in 1..d + 1 /\ i + 1 \in 1..d + 1
          BY <3>1, <3>3
        <4>2. tokens'[i] = tokens[i] /\ limits'[i] = limits[i] /\ limits'[i + 1] = limits[i + 1]
          BY <2>6, <2>8, <2>9, <4>1
        <4>3. tokens[i] = limits[i] - limits[i + 1]
          BY <1>1, <2>5, <2>8, <4>1 DEF IInv, LimitsMean, Over
        <4>4. QED  BY <4>2, <4>3
      <3>4. QED  BY <3>2, <3>3
    <2>11. At' + limit_' = limits'[Len(limits')]
      <3>1. limits'[Len(limits')] = consumed + n
        BY <2>6, <2>8, <2>9
      <3>2. QED  BY <2>1, <2>3, <2>4, <3>1
    <2>12. limits'[1] = limits[1]
      <3>1. 1 \in 1..Len(limits)
        BY <2>9
      <3>2. QED  BY <2>6, <3>1
    <2>13. LimitsMean'
      BY <1>1, <2>1, <2>10, <2>11, <2>12 DEF IInv, LimitsMean, Over
    <2>14. tokens' # <<>> /\ l >= ptr - buffer_end
      BY <2>3, <2>6, <2>9
    <2>15. ParserAt'
      BY <1>1, <2>1, <2>14 DEF IInv, ParserAt, Ended, overrun
    <2>16. DoneAt'
      BY <2>1 DEF DoneAt, AcceptedExactly
    <2>17. QED  BY <2>4, <2>7, <2>13, <2>15, <2>16 DEF IInv, Ranges
  <1>4. QED  BY <1>2, <1>3

LEMMA PopLimitStep ==
  ASSUME IInv, PopLimit
  PROVE  IInv'
  <1>1. pc = "done" /\ tokens # <<>> /\ todo = 0
    BY DEF PopLimit, IInv, ParserAt
  <1>2. tokens \in Seq(Int) /\ limits \in Seq(Int) /\ Len(limits) = Len(tokens) + 1
    BY DEF IInv, Ranges, ParserRanges
  <1>3. PICK d \in Nat : Len(tokens) = d /\ d >= 1
    BY <1>1, <1>2
  <1>4. PICK l \in Int : l = limit_ + tokens[d] /\ limit_' = l
    <2>1. tokens[d] \in Int /\ limit_' = limit_ + tokens[d]
      BY <1>2, <1>3 DEF PopLimit
    <2>2. QED  BY <2>1, Numbers
  <1>5. CASE last_tag # AtLimit
    BY <1>4, <1>5, Fails DEF PopLimit, stream, window, IInv, Ranges, WindowRanges, ParserRanges
  <1>6. CASE last_tag = AtLimit
    <2>1. /\ limit_' = l /\ limit_end' = buffer_end + Smaller(0, l)
          /\ tokens' = SubSeq(tokens, 1, d - 1) /\ limits' = SubSeq(limits, 1, d)
          /\ pc' = "field" /\ input' = input /\ buffer_end' = buffer_end
          /\ ptr' = ptr /\ consumed' = consumed /\ todo' = todo /\ last_tag' = last_tag
      <3>1. Len(tokens) = d /\ limit_ + tokens[Len(tokens)] = limit_'
        BY <1>3 DEF PopLimit
      <3>2. limit_' = l
        BY <1>4
      <3>3. QED  BY <1>6, <3>1, <3>2 DEF PopLimit, PoppedLimitEnd, stream, window
    <2>2. buffer_end + Smaller(0, l) \in Int
      BY Numbers DEF Smaller
    <2>3. InputOK' /\ WindowRanges' /\ Places' /\ Patched' /\ Taken' /\ At' = At
      <3>1. ptr + 0 = ptr /\ consumed + 0 = consumed
        BY Numbers
      <3>2. ptr' = ptr + 0 /\ consumed' = consumed + 0
        BY <2>1, <3>1
      <3>3. InWindow /\ pc' # "readcord" /\ UNCHANGED <<stream, window>>
        BY <1>1, <2>1 DEF InWindow, Over, PopLimit
      <3>4. 0 \in Int /\ 0 >= 0
        OBVIOUS
      <3>5. QED  BY <3>2, <3>3, <3>4, Slides
    <2>4. /\ tokens' \in Seq(Int) /\ limits' \in Seq(Int)
          /\ Len(limits') = d /\ Len(tokens') = d - 1
          /\ \A i \in 1..d : limits'[i] = limits[i]
          /\ \A i \in 1..d - 1 : tokens'[i] = tokens[i]
      BY <1>2, <1>3, <2>1
    <2>5. ParserRanges'
      <3>1. limit_' \in Int /\ limit_end' \in Int
        BY <1>4, <2>1, <2>2
      <3>2. Len(limits') = Len(tokens') + 1
        BY <1>3, <2>4
      <3>3. QED  BY <1>1, <2>1, <2>4, <3>1, <3>2 DEF IInv, Ranges, ParserRanges
    <2>6. \A i \in DOMAIN tokens : tokens[i] = limits[i] - limits[i + 1]
      BY <1>1 DEF IInv, LimitsMean, Over
    <2>7. ASSUME NEW i \in DOMAIN tokens'
          PROVE  tokens'[i] = limits'[i] - limits'[i + 1]
      <3>1. i \in 1..d - 1 /\ i \in 1..d /\ i + 1 \in 1..d
        BY <1>3, <2>4
      <3>2. i \in DOMAIN tokens
        BY <1>2, <1>3, <3>1
      <3>3. tokens'[i] = tokens[i] /\ limits'[i] = limits[i] /\ limits'[i + 1] = limits[i + 1]
        BY <2>4, <3>1
      <3>4. QED  BY <2>6, <3>2, <3>3
    <2>8. At' + limit_' = limits'[Len(limits')]
      <3>1. limits'[Len(limits')] = limits[d] /\ limits[d] \in Int /\ limits[d + 1] \in Int
        BY <1>2, <1>3, <2>4
      <3>2. tokens[d] = limits[d] - limits[d + 1]
        BY <1>2, <1>3, <2>6
      <3>3. At \in Int /\ At + limit_ = limits[d + 1]
        BY <1>1, <1>2, <1>3, Bytes DEF IInv, LimitsMean, Over
      <3>4. PICK at \in Int, x \in Int, y \in Int, t \in Int :
              At = at /\ limits[d] = x /\ limits[d + 1] = y /\ tokens[d] = t /\ t = x - y
        BY <3>1, <3>2, <3>3
      <3>5. at + limit_ = y /\ l = limit_ + t
        BY <1>4, <3>3, <3>4
      <3>6. at + l = x
        BY <3>4, <3>5, Numbers
      <3>7. QED  BY <2>1, <2>3, <3>1, <3>4, <3>6
    <2>9. limits'[1] = limits[1]
      BY <1>3, <2>4
    <2>10. LimitsMean'
      BY <1>1, <2>1, <2>7, <2>8, <2>9 DEF IInv, LimitsMean, Over
    <2>11. ParserAt'
      BY <1>1, <1>6, <2>1 DEF IInv, ParserAt, Ended
    <2>12. DoneAt'
      BY <2>1 DEF DoneAt, AcceptedExactly
    <2>13. QED  BY <2>3, <2>5, <2>10, <2>11, <2>12 DEF IInv, Ranges
  <1>7. QED  BY <1>5, <1>6

LEMMA ReadInBufferStep ==
  ASSUME IInv, NEW n \in Sizes, ReadInBuffer(n)
  PROVE  IInv'
  <1>1. n \in Nat /\ n \in Int /\ n >= 0 /\ pc = "sized" /\ todo = 0 /\ pc \notin Ended
    BY Slop DEF Sizes, ReadInBuffer, IInv, ParserAt, Ended
  <1>2. ptr + n \in 0..buffer_end + kSlopBytes /\ consumed + n \in Nat
    BY <1>1, Numbers DEF ReadInBuffer, CanReadFromPtr, BytesAvailable
  <1>3. input.stop > 0 => consumed + n + 0 < input.stop
    BY <1>1, Consuming DEF ReadInBuffer
  <1>4. ParserAt'
    BY <1>1, <1>3 DEF ReadInBuffer, IInv, ParserAt, Ended, window, stream
  <1>5. DoneAt'
    BY DEF ReadInBuffer, DoneAt, AcceptedExactly
  <1>6. QED
    BY <1>1, <1>2, <1>4, <1>5, SlidesBelowLimits
       DEF ReadInBuffer, InWindow, Over, IInv, Ranges, ParserRanges

LEMMA StartAppendStep ==
  ASSUME IInv, NEW n \in Sizes, StartAppend(n)
  PROVE  IInv'
  <1>1. n \in Nat /\ pc = "sized" /\ todo = 0 /\ pc \notin Ended
    BY Slop DEF Sizes, StartAppend, IInv, ParserAt, Ended
  <1>2. input.stop > 0 => consumed + n < input.stop
    BY <1>1, Consuming DEF StartAppend
  <1>3. n > BytesAvailable
    BY <1>1, Numbers DEF StartAppend, CanReadFromPtr, BytesAvailable
  <1>4. ParserAt'
    BY <1>1, <1>2, <1>3
       DEF StartAppend, IInv, ParserAt, Ended, window, stream, BytesAvailable
  <1>5. DoneAt'
    BY DEF StartAppend, DoneAt, AcceptedExactly
  <1>6. QED
    BY <1>1, <1>4, <1>5, Numbers, SlidesBelowLimits, 0 \in Int
       DEF StartAppend, InWindow, Over, IInv, Ranges, ParserRanges

LEMMA AppendFailsStep ==
  ASSUME IInv, AppendFails
  PROVE  IInv'
  BY Fails DEF AppendFails, stream, window, IInv, Ranges, WindowRanges, ParserRanges

LEMMA RestMeetsEndOfStreamStep ==
  ASSUME IInv, RestMeetsEndOfStream
  PROVE  IInv'
  <1>1. pc = "rest" /\ next_chunk = Null /\ tokens # <<>> /\ todo = 0
    BY DEF RestMeetsEndOfStream, IInv, ParserAt
  <1>2. PICK n \in Int : buffer_end - ptr = n
    BY Numbers
  <1>3. spos = consumed + buffer_end - ptr
    BY <1>1 DEF IInv, Places, Over, At, Patch, Null
  <1>4. /\ buffer_end = ptr + n /\ ptr + n >= buffer_end
        /\ consumed + buffer_end - ptr = consumed + n
        /\ consumed + n \in Nat /\ ptr + n \in 0..buffer_end + kSlopBytes
    BY <1>2, <1>3, Numbers
  <1>5. ParserAt'
    BY <1>1 DEF RestMeetsEndOfStream, ParserAt, Ended, EndOfStream, AtLimit
  <1>6. DoneAt'
    BY <1>1 DEF RestMeetsEndOfStream, DoneAt, AcceptedExactly, EndOfStream, AtLimit
  <1>7. QED
    BY <1>1, <1>4, <1>5, <1>6, Numbers, SlidesBelowLimits
       DEF RestMeetsEndOfStream, InWindow, Over, IInv, Ranges, ParserRanges, EndOfStream

LEMMA RestEndsAtLimitStep ==
  ASSUME IInv, RestEndsAtLimit
  PROVE  IInv'
  <1>1. /\ pc = "rest" /\ tokens # <<>> /\ todo = 0 /\ pc \notin Ended
        /\ limit_ >= ptr - buffer_end /\ limit_ <= kSlopBytes
    BY DEF RestEndsAtLimit, IInv, ParserAt, Ended, overrun
  <1>2. PICK n \in Nat : limit_ + buffer_end - ptr = n
    BY <1>1, Numbers
  <1>3. /\ buffer_end + limit_ = ptr + n /\ n >= 0 /\ n \in Int
        /\ consumed + limit_ + buffer_end - ptr = consumed + n
        /\ consumed + n \in Nat /\ ptr + n \in 0..buffer_end + kSlopBytes
    <2>1. PICK l \in Int, b \in Nat, p \in Nat, k \in Nat \ {0} :
             limit_ = l /\ buffer_end = b /\ ptr = p /\ kSlopBytes = k
      BY Numbers
    <2>2. l + b - p = n /\ l <= k
      BY <1>1, <1>2, <2>1
    <2>3. b + l = p + n /\ p + n \in 0..b + k
      BY <2>2
    <2>4. consumed + l + b - p = consumed + n /\ consumed + n \in Nat
      BY <2>2, Numbers
    <2>5. QED  BY <2>1, <2>3, <2>4
  <1>4. input.stop > 0 => consumed + n + 0 < input.stop
    BY <1>1, <1>2, Consuming DEF RestEndsAtLimit
  <1>5. ParserAt'
    BY <1>1, <1>3, <1>4 DEF RestEndsAtLimit, ParserAt, Ended, window, stream, IInv
  <1>6. consumed + n = limits[Len(limits)]
    <2>1. At + limit_ = limits[Len(limits)]
      BY <1>1 DEF IInv, LimitsMean, Over
    <2>2. At + limit_ = consumed + n
      BY <1>2, Numbers DEF At
    <2>3. QED  BY <2>1, <2>2
  <1>7. DoneAt'
    BY <1>1, <1>3, <1>6 DEF RestEndsAtLimit, DoneAt, AcceptedExactly
  <1>8. QED
    BY <1>1, <1>3, <1>5, <1>7, Numbers, SlidesBelowLimits
       DEF RestEndsAtLimit, InWindow, Over, IInv, Ranges, ParserRanges

LEMMA CopyCordStep ==
  ASSUME IInv, NEW n \in Sizes, CopyCord(n)
  PROVE  IInv'
  <1>1. n \in Nat /\ n \in Int /\ n >= 0 /\ pc = "cord" /\ todo = 0 /\ pc \notin Ended
    BY Slop DEF Sizes, CopyCord, Ended
  <1>2. ptr + n \in 0..buffer_end + kSlopBytes /\ consumed + n \in Nat
    BY <1>1, Numbers, Slop DEF CopyCord, Smaller, BytesAvailable
  <1>3. input.stop > 0 => consumed + n + 0 < input.stop
    BY <1>1, Consuming DEF CopyCord
  <1>4. ParserAt'
    BY <1>1, <1>3 DEF CopyCord, IInv, ParserAt, Ended, window, stream
  <1>5. DoneAt'
    BY DEF CopyCord, DoneAt, AcceptedExactly
  <1>6. QED
    BY <1>1, <1>2, <1>4, <1>5, SlidesBelowLimits
       DEF CopyCord, InWindow, Over, IInv, Ranges, ParserRanges

LEMMA AppendCordStep ==
  ASSUME IInv, NEW n \in Sizes, AppendCord(n)
  PROVE  IInv'
  <1>1. n \in Nat /\ n \in Int /\ n >= 0 /\ pc = "cord" /\ todo = 0 /\ pc \notin Ended
    BY Slop DEF Sizes, AppendCord, Ended
  <1>2. input.stop > 0 => consumed + n < input.stop /\ consumed + n + 0 < input.stop
    BY <1>1, Consuming DEF AppendCord
  <1>3. DoneAt'
    BY DEF AppendCord, DoneAt, AcceptedExactly
  <1>4. CASE CanReadFromPtr(n)
    <2>1. ptr + n \in 0..buffer_end + kSlopBytes /\ consumed + n \in Nat
      BY <1>1, <1>4, Numbers DEF CanReadFromPtr, BytesAvailable
    <2>2. ParserAt'
      BY <1>1, <1>2, <1>4 DEF AppendCord, IInv, ParserAt, Ended, window, stream
    <2>3. QED
      BY <1>1, <1>3, <1>4, <2>1, <2>2, SlidesBelowLimits
         DEF AppendCord, InWindow, Over, IInv, Ranges, ParserRanges
  <1>5. CASE ~CanReadFromPtr(n)
    <2>1. n > BytesAvailable
      BY <1>1, <1>5, Numbers DEF CanReadFromPtr, BytesAvailable
    <2>2. ParserAt'
      BY <1>1, <1>2, <1>5, <2>1
         DEF AppendCord, IInv, ParserAt, Ended, window, stream, BytesAvailable
    <2>3. QED
      BY <1>1, <1>3, <1>5, <2>2, Numbers, SlidesBelowLimits, 0 \in Int
         DEF AppendCord, InWindow, Over, IInv, Ranges, ParserRanges
  <1>6. QED  BY <1>4, <1>5

LEMMA ReadCordFailsStep ==
  ASSUME IInv, ReadCordFails
  PROVE  IInv'
  BY Fails DEF ReadCordFails, stream, window, IInv, Ranges, WindowRanges, ParserRanges

-------------------------------------------------------------------------------
(* Steps that take the next buffer.                                            *)

\* The parser stands at p1 of the new buffer, where it has consumed c1 bytes.
LEMMA Moves ==
  ASSUME IInv, pc \in {"flip", "append", "rest"}, pc' # "readcord",
         NEW e \in Nat, NEW b \in {Patch} \cup Nat, NEW c \in {Null, Patch} \cup Nat,
         NEW s \in 0..input.length, NEW l \in 0..input.length, NEW z \in Nat, NEW o \in Int,
         NEW q \in [0..kPatchBufferSize - 1 -> 0..input.length],
         Taking(e, b, c, s, l, z, o, q), Follows(e, b, c, s, l, z, o, q),
         NEW p1 \in Nat, ptr' = p1, p1 >= overrun, p1 <= e + kSlopBytes,
         NEW c1 \in Nat, consumed' = c1, c1 = At + p1
  PROVE  InputOK' /\ WindowRanges' /\ Places' /\ Patched' /\ Taken' /\ At' = At + e
  <1>1. PICK at \in Int, past \in Int : At = at /\ overrun = past
    BY Bytes DEF IInv
  <1>2. /\ buffer_end' = e /\ buf' = b /\ next_chunk' = c /\ spos' = s /\ lastNext' = l
        /\ size_' = z /\ overall_limit' = o /\ patch' = q /\ input' = input
    BY DEF Taking
  <1>3. /\ next_chunk # Null
        /\ o >= 0 \/ input.kind = "bounded"
        /\ c = Patch => s = at + e + kSlopBytes
        /\ c = Null => b = Patch /\ s = at + e /\ z = 0
        /\ IsChunk(c) => /\ b = Patch /\ e = kSlopBytes /\ c = at + e
                         /\ z > kSlopBytes /\ s = at + e + z
        /\ b = Patch => e <= kSlopBytes
        /\ IsChunk(b) => c = Patch /\ b = at
        /\ b = Patch => \A i \in 0..e + kSlopBytes - 1 :
             i >= past /\ (c # Null \/ i < e) => q[i] = at + i + 1
    BY <1>1 DEF Follows
  <1>4. /\ input.kind = "flat" => o = 0
        /\ input.kind # "flat" /\ c # Null =>
             o = (IF input.kind = "bounded" THEN input.bound ELSE IntMax) - s
        /\ c = Null /\ input.kind = "stream" => s = input.length
        /\ c = Null /\ input.kind = "coded" =>
             s = input.length \/ (input.stop > 0 /\ input.stop <= s)
        /\ input.kind # "flat" =>
             /\ IsChunk(c) => l = z
             /\ IsChunk(b) => l = e + kSlopBytes
             /\ input.kind = "bounded" => s - l <= input.bound
             /\ input.stop > 0 => s - l <= input.stop
    BY DEF Follows
  <1>5. PICK at1 \in Int : At' = at1 /\ at1 = at + e
    <2>1. c1 = at + p1
      BY <1>1
    <2>2. c1 + e - p1 = at + e
      BY <2>1
    <2>3. At' = c1 + e - p1
      BY <1>2 DEF At
    <2>4. QED  BY <2>2, <2>3
  <1>6. InputOK' /\ WindowRanges'
    BY <1>2, <1>3 DEF IInv, InputOK, WindowRanges
  <1>7. Places'
    <2>1. /\ c = Patch => s = at1 + kSlopBytes
          /\ c = Null => b = Patch /\ s = at1 /\ z = 0
          /\ IsChunk(c) => /\ b = Patch /\ e = kSlopBytes /\ c = at1
                           /\ z > kSlopBytes /\ s = at1 + z
          /\ b = Patch => e <= kSlopBytes
          /\ IsChunk(b) => c = Patch /\ at1 = b + e
      BY <1>3, <1>5
    <2>2. QED  BY <1>2, <1>5, <2>1 DEF Places
  <1>8. Patched'
    <2>1. SUFFICES ASSUME b = Patch, NEW i \in p1..e + kSlopBytes - 1, c # Null \/ i < e
                   PROVE  q[i] = at1 - e + i + 1
      BY <1>2, <1>5 DEF Patched
    <2>2. i \in 0..e + kSlopBytes - 1 /\ i >= past /\ i \in Int
      BY <1>1, Slop
    <2>3. q[i] = at + i + 1
      BY <1>3, <2>1, <2>2
    <2>4. at1 - e + i + 1 = at + i + 1
      BY <1>5, <2>2
    <2>5. QED  BY <2>3, <2>4
  <1>9. Taken'
    BY <1>2, <1>4 DEF Taken, Over
  <1>10. QED  BY <1>1, <1>5, <1>6, <1>7, <1>8, <1>9

LEMMA FlipStep ==
  ASSUME IInv, Flip
  PROVE  IInv'
  <1>1. /\ pc = "flip" /\ next_chunk # Null /\ NextBuffer(TRUE) /\ limit_' = limit_ - buffer_end'
        /\ ptr' = ptr - buffer_end /\ consumed' = consumed
        /\ last_tag' = last_tag /\ todo' = todo /\ tokens' = tokens /\ limits' = limits
    BY DEF Flip, Rebased, RebasedLimit, overrun
  <1>2. PICK e \in Nat, b \in {Patch} \cup Nat, c \in {Null, Patch} \cup Nat,
             s \in 0..input.length, l \in 0..input.length, z \in Nat, o \in Int,
             q \in [0..kPatchBufferSize - 1 -> 0..input.length] :
          Taking(e, b, c, s, l, z, o, q) /\ Follows(e, b, c, s, l, z, o, q)
    BY <1>1, NextBufferEffect
  <1>3. ptr >= buffer_end /\ todo = 0 /\ last_tag = AtLimit
        /\ (input.stop > 0 => consumed + todo < input.stop)
    BY <1>1 DEF IInv, ParserAt, Ended
  <1>4. PICK p1 \in Nat : ptr - buffer_end = p1 /\ p1 <= kSlopBytes
    BY <1>3, Numbers
  <1>5. PICK at \in Int : At = at /\ at + limit_ = limits[Len(limits)] /\ consumed = at + p1
    <2>1. At \in Int /\ consumed = At + p1
      BY <1>4, Numbers DEF At
    <2>2. At + limit_ = limits[Len(limits)]
      BY <1>1 DEF IInv, LimitsMean, Over
    <2>3. QED  BY <2>1, <2>2
  <1>6. buffer_end' = e /\ input' = input /\ ptr' = p1 /\ limit_' = limit_ - e
    BY <1>1, <1>2, <1>4 DEF Taking
  <1>7. /\ IF p1 >= e THEN pc' = "flip" /\ limit_end' = limit_end
                      ELSE pc' = "read" /\ limit_end' = e + Smaller(0, limit_ - e)
    BY <1>6 DEF Flip
  <1>8. InputOK' /\ WindowRanges' /\ Places' /\ Patched' /\ Taken' /\ At' = At + e
    <2>1. overrun = p1 /\ p1 <= e + kSlopBytes /\ p1 >= p1 /\ consumed \in Nat
      BY <1>4, Numbers DEF overrun
    <2>2. pc' # "readcord" /\ consumed = At + p1
      BY <1>5, <1>7
    <2>3. QED  BY <1>1, <1>2, <1>6, <2>1, <2>2, Moves
  <1>9. limit_ - e \in Int /\ e + Smaller(0, limit_ - e) \in Int /\ limit_end \in Int
    BY Numbers DEF Smaller
  <1>10. ParserRanges'
    <2>1. p1 \in 0..e + kSlopBytes
      BY <1>4, Slop
    <2>2. QED  BY <1>1, <1>6, <1>7, <1>9, <2>1 DEF IInv, Ranges, ParserRanges
  <1>11. LimitsMean'
    <2>1. at + e + (limit_ - e) = limits[Len(limits)]
      BY <1>5, Numbers
    <2>2. At' + limit_' = limits'[Len(limits')]
      BY <1>1, <1>5, <1>6, <1>8, <2>1
    <2>3. QED  BY <1>1, <1>6, <1>7, <2>2 DEF IInv, LimitsMean, Over
  <1>12. ParserAt'
    <2>1. (pc' = "read" => p1 < e) /\ (pc' = "flip" => p1 >= e) /\ pc' \in {"read", "flip"}
      BY <1>7
    <2>2. QED  BY <1>1, <1>3, <1>6, <2>1 DEF ParserAt, Ended
  <1>13. DoneAt'
    BY <1>7 DEF DoneAt, AcceptedExactly
  <1>14. QED  BY <1>8, <1>10, <1>11, <1>12, <1>13 DEF IInv, Ranges

LEMMA AppendChunkStep ==
  ASSUME IInv, AppendChunk
  PROVE  IInv'
  <1>1. /\ pc = "append" /\ NextBuffer(FALSE) /\ limit_' = limit_ - buffer_end'
        /\ limit_end' = buffer_end' + Smaller(0, limit_')
        /\ last_tag' = last_tag /\ tokens' = tokens /\ limits' = limits
    BY DEF AppendChunk, Rebased, RebasedLimit
  <1>2. PICK ba \in Nat, rest \in Nat : /\ BytesAvailable = ba /\ todo - ba = rest /\ rest > 0
                                       /\ buffer_end + kSlopBytes - ptr = ba
    <2>1. todo > BytesAvailable
      BY <1>1 DEF IInv, ParserAt
    <2>2. QED  BY <2>1, Numbers DEF BytesAvailable
  <1>3. input.stop > 0 => consumed + todo < input.stop
    BY <1>1 DEF IInv, ParserAt, Ended
  <1>4. input.stop > consumed => consumed + BytesAvailable < input.stop
    <2>1. PICK stop \in Nat : input.stop = stop
      BY Slop DEF IInv, InputOK
    <2>2. stop > consumed => consumed + ba < stop
      BY <1>2, <1>3, <2>1, Numbers
    <2>3. QED  BY <1>2, <2>1, <2>2
  <1>5. PICK e \in Nat, b \in {Patch} \cup Nat, c \in {Null, Patch} \cup Nat,
             s \in 0..input.length, l \in 0..input.length, z \in Nat, o \in Int,
             q \in [0..kPatchBufferSize - 1 -> 0..input.length] :
          Taking(e, b, c, s, l, z, o, q) /\ Follows(e, b, c, s, l, z, o, q)
    BY <1>1, <1>4, NextBufferEffect
  <1>6. buffer_end' = e /\ input' = input /\ limit_' = limit_ - e
        /\ limit_end' = e + Smaller(0, limit_ - e)
    BY <1>1, <1>5 DEF Taking
  <1>7. PICK at \in Int : /\ At = at /\ at + limit_ = limits[Len(limits)]
                          /\ consumed + ba = at + kSlopBytes
    <2>1. BytesAvailable = ba
      BY <1>2
    <2>2. At \in Int /\ consumed + ba = At + kSlopBytes
      BY <2>1, Bytes DEF IInv
    <2>3. At + limit_ = limits[Len(limits)]
      BY <1>1 DEF IInv, LimitsMean, Over
    <2>4. QED  BY <2>2, <2>3
  <1>16. todo = ba + rest
    <2>1. todo - ba = rest
      BY <1>2
    <2>2. PICK t \in Nat : todo = t
      BY Numbers
    <2>3. t - ba = rest
      BY <2>1, <2>2
    <2>4. QED  BY <2>2, <2>3
  <1>17. consumed + ba = at + kSlopBytes
    BY <1>7
  <1>8. PICK p1 \in Nat, c1 \in Nat, t1 \in Nat :
          /\ ptr' = p1 /\ consumed' = c1 /\ todo' = t1
          /\ kSlopBytes <= p1 /\ p1 <= e + kSlopBytes /\ c1 = at + p1 /\ c1 + t1 = consumed + todo
          /\ \/ pc' = "append" /\ p1 = kSlopBytes /\ t1 > e
             \/ pc' = "field" /\ t1 = 0
    <2>1. CASE rest > e
      <3>1. ptr' = kSlopBytes /\ todo' = rest /\ pc' = "append" /\ consumed' = consumed + ba
        BY <1>2, <1>6, <2>1 DEF AppendChunk
      <3>2. /\ consumed + ba = at + kSlopBytes /\ consumed + ba + rest = consumed + todo
            /\ kSlopBytes <= e + kSlopBytes /\ kSlopBytes \in Nat /\ kSlopBytes <= kSlopBytes
            /\ consumed + ba \in Nat
        <4>1. consumed + ba + rest = consumed + todo
          BY <1>16, Numbers
        <4>2. consumed + ba \in Nat /\ kSlopBytes <= e + kSlopBytes
          BY Numbers
        <4>3. QED  BY <1>17, <4>1, <4>2, Slop
      <3>3. QED  BY <2>1, <3>1, <3>2
    <2>2. CASE ~ rest > e
      <3>1. ptr' = kSlopBytes + rest /\ todo' = 0 /\ pc' = "field" /\ consumed' = consumed + todo
        BY <1>2, <1>6, <2>2 DEF AppendChunk
      <3>2. /\ consumed + todo = at + (kSlopBytes + rest)
            /\ consumed + todo + 0 = consumed + todo
            /\ kSlopBytes + rest <= e + kSlopBytes /\ kSlopBytes + rest \in Nat
            /\ kSlopBytes <= kSlopBytes + rest
            /\ consumed + todo \in Nat /\ 0 \in Nat
        <4>1. consumed + todo = at + (kSlopBytes + rest)
          <5>1. consumed + todo = (consumed + ba) + rest
            BY <1>16, Numbers
          <5>2. (at + kSlopBytes) + rest = at + (kSlopBytes + rest)
            BY Slop
          <5>3. QED  BY <1>17, <5>1, <5>2
        <4>2. consumed + todo \in Nat /\ consumed + todo + 0 = consumed + todo
          BY Numbers
        <4>3. kSlopBytes + rest <= e + kSlopBytes /\ kSlopBytes + rest \in Nat
              /\ kSlopBytes <= kSlopBytes + rest
          BY <2>2, Slop
        <4>4. QED  BY <4>1, <4>2, <4>3
      <3>3. QED  BY <3>1, <3>2
    <2>3. QED  BY <2>1, <2>2
  <1>9. InputOK' /\ WindowRanges' /\ Places' /\ Patched' /\ Taken' /\ At' = At + e
    <2>1. p1 >= overrun
      BY <1>8, Numbers DEF overrun
    <2>2. pc' # "readcord" /\ c1 = At + p1 /\ p1 <= e + kSlopBytes
      BY <1>7, <1>8
    <2>3. QED  BY <1>1, <1>5, <1>8, <2>1, <2>2, Moves
  <1>10. limit_ - e \in Int /\ e + Smaller(0, limit_ - e) \in Int
    BY Numbers DEF Smaller
  <1>11. ParserRanges'
    <2>1. p1 \in 0..e + kSlopBytes
      BY <1>8, Slop
    <2>2. QED  BY <1>1, <1>6, <1>8, <1>10, <2>1 DEF IInv, Ranges, ParserRanges
  <1>12. LimitsMean'
    <2>1. at + e + (limit_ - e) = limits[Len(limits)]
      BY <1>7, Numbers
    <2>2. At' + limit_' = limits'[Len(limits')]
      BY <1>1, <1>6, <1>7, <1>9, <2>1
    <2>3. QED  BY <1>1, <1>6, <1>8, <2>2 DEF IInv, LimitsMean, Over
  <1>13. ParserAt'
    <2>1. input.stop > 0 => c1 + t1 < input.stop
      BY <1>3, <1>8
    <2>2. pc' = "append" => t1 > e + kSlopBytes - p1
      BY <1>8, Slop
    <2>3. last_tag = AtLimit
      BY <1>1 DEF IInv, ParserAt, Ended
    <2>4. QED
      BY <1>1, <1>6, <1>8, <2>1, <2>2, <2>3 DEF ParserAt, Ended, BytesAvailable
  <1>14. DoneAt'
    BY <1>8 DEF DoneAt, AcceptedExactly
  <1>15. QED  BY <1>9, <1>11, <1>12, <1>13, <1>14 DEF IInv, Ranges

LEMMA RestOfChunkStep ==
  ASSUME IInv, RestOfChunk
  PROVE  IInv'
  <1>1. /\ pc = "rest" /\ NextBuffer(FALSE) /\ limit_' = limit_ - buffer_end'
        /\ limit_end' = buffer_end' + Smaller(0, limit_') /\ limit_ > kSlopBytes
        /\ last_tag' = last_tag /\ tokens' = tokens /\ limits' = limits /\ pc' = pc /\ todo' = todo
        /\ ptr' = kSlopBytes /\ consumed' = consumed + BytesAvailable
    BY DEF RestOfChunk, Rebased, RebasedLimit
  <1>2. PICK ba \in Nat : BytesAvailable = ba /\ buffer_end + kSlopBytes - ptr = ba
    BY Numbers DEF BytesAvailable
  <1>3. todo = 0 /\ pc \notin Ended /\ last_tag = AtLimit /\ tokens # <<>>
    BY <1>1 DEF IInv, ParserAt, Ended
  <1>4. input.stop > 0 => consumed + ba + 0 < input.stop
    BY <1>2, <1>3, Consuming DEF RestOfChunk
  <1>5. PICK e \in Nat, b \in {Patch} \cup Nat, c \in {Null, Patch} \cup Nat,
             s \in 0..input.length, l \in 0..input.length, z \in Nat, o \in Int,
             q \in [0..kPatchBufferSize - 1 -> 0..input.length] :
          Taking(e, b, c, s, l, z, o, q) /\ Follows(e, b, c, s, l, z, o, q)
    BY <1>1, NextBufferEffect DEF RestOfChunk, MayConsume
  <1>6. buffer_end' = e /\ input' = input /\ limit_' = limit_ - e
        /\ limit_end' = e + Smaller(0, limit_ - e)
    BY <1>1, <1>5 DEF Taking
  <1>7. PICK at \in Int : /\ At = at /\ at + limit_ = limits[Len(limits)]
                          /\ consumed + ba = at + kSlopBytes
    <2>1. At \in Int /\ consumed + ba = At + kSlopBytes
      BY <1>2, Bytes DEF IInv
    <2>2. At + limit_ = limits[Len(limits)]
      BY <1>1 DEF IInv, LimitsMean, Over
    <2>3. QED  BY <2>1, <2>2
  <1>8. PICK c1 \in Nat : consumed' = c1 /\ c1 = at + kSlopBytes /\ c1 = consumed + ba
    <2>1. consumed + ba \in Nat
      BY Numbers
    <2>2. consumed' = consumed + ba
      BY <1>1, <1>2
    <2>3. QED  BY <1>7, <2>1, <2>2
  <1>9. InputOK' /\ WindowRanges' /\ Places' /\ Patched' /\ Taken' /\ At' = At + e
    <2>1. kSlopBytes >= overrun /\ kSlopBytes \in Nat /\ kSlopBytes <= e + kSlopBytes
      BY Numbers DEF overrun
    <2>2. pc' # "readcord" /\ c1 = At + kSlopBytes
      BY <1>1, <1>7, <1>8
    <2>3. QED  BY <1>1, <1>5, <1>8, <2>1, <2>2, Moves
  <1>10. limit_ - e \in Int /\ e + Smaller(0, limit_ - e) \in Int
    BY Numbers DEF Smaller
  <1>11. ParserRanges'
    <2>1. kSlopBytes \in 0..e + kSlopBytes
      BY Slop
    <2>2. QED  BY <1>1, <1>6, <1>8, <1>10, <2>1 DEF IInv, Ranges, ParserRanges
  <1>12. LimitsMean'
    <2>1. at + e + (limit_ - e) = limits[Len(limits)]
      BY <1>7, Numbers
    <2>2. At' + limit_' = limits'[Len(limits')]
      BY <1>1, <1>6, <1>7, <1>9, <2>1
    <2>3. QED  BY <1>1, <1>6, <2>2 DEF IInv, LimitsMean, Over
  <1>13. ParserAt'
    <2>1. limit_ - e >= kSlopBytes - e
      BY <1>1, Numbers
    <2>2. input.stop > 0 => c1 + 0 < input.stop
      BY <1>4, <1>8
    <2>3. QED
      BY <1>1, <1>3, <1>6, <1>8, <2>1, <2>2 DEF ParserAt, Ended, overrun
  <1>14. DoneAt'
    BY <1>1 DEF DoneAt, AcceptedExactly
  <1>15. QED  BY <1>9, <1>11, <1>12, <1>13, <1>14 DEF IInv, Ranges

-------------------------------------------------------------------------------
(* ReadCord and the start of the parse.                                        *)

LEMMA BackUpForCordStep ==
  ASSUME IInv, NEW n \in Sizes, BackUpForCord(n)
  PROVE  IInv' /\ (spos' < spos => spos - spos' <= lastNext)
  <1>1. n \in Nat /\ pc = "cord" /\ todo = 0 /\ pc \notin Ended /\ input' = input
    BY Slop DEF Sizes, BackUpForCord, Ended, stream
  <1>2. CASE pc' = "failed"
    <2>1. UNCHANGED stream /\ last_tag' \in {EndOfStream, last_tag}
          /\ UNCHANGED <<overall_limit, limit_, todo, consumed, buf, ptr, buffer_end, next_chunk,
                         size_, patch, limit_end, tokens, limits>>
      BY <1>2 DEF BackUpForCord
    <2>2. spos' = spos /\ lastNext' = lastNext
      BY <2>1 DEF stream
    <2>3. Ranges'
      BY <1>1, <1>2, <2>1, <2>2
         DEF IInv, Ranges, WindowRanges, ParserRanges, EndOfStream
    <2>4. IInv'
      BY <1>1, <1>2, <2>3, Fails
    <2>5. ~ spos' < spos
      BY <2>2, Numbers
    <2>6. QED  BY <2>4, <2>5
  <1>3. CASE pc' # "failed"
    <2>1. PICK ba \in Nat : /\ BytesAvailable = ba /\ buffer_end + kSlopBytes - ptr = ba
                            /\ ba > 0
      <3>1. ptr < buffer_end + kSlopBytes
        BY <1>1 DEF IInv, ParserAt
      <3>2. QED  BY <3>1, Numbers DEF BytesAvailable
    <2>2. PICK at \in Int : /\ At = at /\ consumed + ba = at + kSlopBytes
                            /\ at + limit_ = limits[Len(limits)]
                            /\ consumed + buffer_end - ptr = at
      <3>1. buffer_end + kSlopBytes - ptr = ba
        BY <2>1
      <3>2. At \in Int /\ consumed + ba = At + kSlopBytes /\ consumed + buffer_end - ptr = At
        BY <3>1, Numbers DEF At
      <3>3. At + limit_ = limits[Len(limits)]
        BY <1>1 DEF IInv, LimitsMean, Over
      <3>4. QED  BY <3>2, <3>3
    <2>3. /\ next_chunk = Patch => spos = at + kSlopBytes
          /\ next_chunk = Null => buf = Patch /\ spos = at /\ size_ = 0
          /\ IsChunk(next_chunk) =>
               /\ buf = Patch /\ buffer_end = kSlopBytes
               /\ next_chunk = at /\ size_ > kSlopBytes /\ spos = at + size_
          /\ buf = Patch => buffer_end <= kSlopBytes
          /\ IsChunk(buf) => next_chunk = Patch /\ at = buf + buffer_end
          /\ buf \in {Patch} \cup Nat /\ next_chunk \in {Null, Patch} \cup Nat
      BY <1>1, <2>2 DEF IInv, Places, Over, Ranges, WindowRanges
    <2>4. buf = Patch => ba <= 2 * kSlopBytes
      BY <2>1, <2>3, Numbers
    <2>22. consumed + ba = at + kSlopBytes
      BY <2>2
    \* What is taken from the patch buffer, and what the stream is backed up by.
    <2>5. PICK fp \in Nat, bu \in Nat :
            /\ BytesFromPatch = fp /\ BytesBackedUp = bu /\ fp \in {0, ba}
            /\ fp = ba => buf = Patch
            /\ next_chunk = Null => fp = ba
            /\ next_chunk # Null => spos = consumed + fp + bu
            /\ bu > 0 => \/ IsChunk(buf) /\ bu = ba
                         \/ IsChunk(next_chunk) /\ bu <= size_
      <3>1. CASE buf # Patch
        <4>1. BytesFromPatch = 0 /\ BytesBackedUp = ba /\ IsChunk(buf) /\ next_chunk = Patch
              /\ next_chunk # Null
          BY <2>1, <2>3, <3>1 DEF BytesFromPatch, BytesBackedUp, IsChunk, Patch, Null
        <4>2. spos = consumed + 0 + ba /\ 0 # ba
          <5>1. spos = at + kSlopBytes
            BY <2>3, <4>1
          <5>2. spos = consumed + 0 + ba
            BY <2>22, <5>1, Numbers
          <5>3. QED  BY <2>1, <5>2
        <4>3. QED  BY <4>1, <4>2
      <3>2. CASE buf = Patch /\ next_chunk \in Nat
        <4>1. /\ spos + kSlopBytes = consumed + ba + size_ /\ size_ > kSlopBytes
              /\ next_chunk \notin {Null, Patch} /\ IsChunk(next_chunk) /\ ~ ba > kPatchBufferSize
          <5>1. next_chunk \notin {Null, Patch} /\ IsChunk(next_chunk)
            BY <3>2 DEF IsChunk, Patch, Null
          <5>2. spos = at + size_ /\ size_ > kSlopBytes
            BY <2>3, <5>1
          <5>3. spos + kSlopBytes = consumed + ba + size_
            BY <2>22, <5>2, Numbers
          <5>4. ~ ba > kPatchBufferSize
            BY <2>4, <3>2, Slop
          <5>5. QED  BY <5>1, <5>2, <5>3, <5>4
        <4>2. CASE ba = kSlopBytes
          <5>1. BytesFromPatch = 0 /\ BytesBackedUp = size_
            BY <2>1, <3>2, <4>1, <4>2 DEF BytesFromPatch, BytesBackedUp
          <5>2. spos = consumed + 0 + size_ /\ size_ <= size_
            BY <4>1, <4>2, Numbers
          <5>3. size_ \in Nat /\ 0 # ba
            BY <2>1, Numbers
          <5>4. QED  BY <4>1, <5>1, <5>2, <5>3
        <4>3. CASE ba # kSlopBytes
          <5>1. BytesFromPatch = ba /\ BytesBackedUp = size_ - kSlopBytes
            BY <2>1, <3>2, <4>1, <4>3 DEF BytesFromPatch, BytesBackedUp
          <5>2. size_ - kSlopBytes \in Nat /\ spos = consumed + ba + (size_ - kSlopBytes)
                /\ size_ - kSlopBytes <= size_
            BY <4>1, Numbers
          <5>3. QED  BY <3>2, <4>1, <5>1, <5>2
        <4>4. QED  BY <4>2, <4>3
      <3>3. CASE buf = Patch /\ next_chunk \notin Nat
        <4>1. BytesFromPatch = ba /\ BytesBackedUp = 0
          <5>1. next_chunk \in {Null, Patch} /\ ~ ba > kPatchBufferSize
            BY <2>1, <2>3, <2>4, <3>3, Slop
          <5>2. QED  BY <2>1, <3>3, <5>1 DEF BytesFromPatch, BytesBackedUp
        <4>2. next_chunk # Null => spos = consumed + ba + 0
          BY <2>1, <2>2, <2>3, <3>3, Numbers
        <4>3. ~ 0 > 0 /\ 0 \in Nat
          OBVIOUS
        <4>4. QED  BY <3>3, <4>1, <4>2, <4>3
      <3>4. QED  BY <3>1, <3>2, <3>3
    <2>6. /\ n > Smaller(ba, kMaxCordBytesToCopy)
          /\ input.kind # "flat" /\ n <= limit_ + buffer_end - ptr
          /\ ~(next_chunk = Null /\ fp > 0)
          /\ pc' = "readcord" /\ todo' = n - fp /\ limit_' = limit_ + buffer_end - ptr - n
          /\ spos' = spos - bu /\ overall_limit' = overall_limit + bu /\ consumed' = consumed + fp
          /\ lastNext' = IF bu > 0 THEN 0 ELSE lastNext
          /\ UNCHANGED <<input, last_tag, buf, ptr, buffer_end, next_chunk, size_, patch,
                         limit_end, tokens, limits>>
      <3>1. limit_ + buffer_end - ptr \in Int
        BY Numbers
      <3>2. QED  BY <1>1, <1>3, <2>1, <2>5, <3>1 DEF BackUpForCord
    <2>7. next_chunk # Null /\ spos = consumed + fp + bu
      BY <2>1, <2>5, <2>6
    <2>8. PICK t \in Nat : n - fp = t
      <3>1. CASE fp = 0
        BY <1>1, <3>1
      <3>2. CASE fp = ba /\ buf = Patch
        <4>1. n > ba
          BY <2>1, <2>4, <2>6, <3>2, Slop DEF Smaller
        <4>2. QED  BY <1>1, <2>1, <3>2, <4>1
      <3>3. QED  BY <2>5, <3>1, <3>2
    <2>9. PICK lim \in Int : /\ limit_ + buffer_end - ptr - n = lim
                             /\ consumed + fp + t + lim = limits[Len(limits)]
      <3>1. limit_ + buffer_end - ptr - n \in Int
        BY <1>1, Numbers
      <3>2. consumed + fp + t + (limit_ + buffer_end - ptr - n) = at + limit_
        <4>1. t = n - fp
          BY <2>8
        <4>2. consumed + buffer_end - ptr = at
          BY <2>2
        <4>3. QED  BY <1>1, <2>5, <4>1, <4>2, Numbers
      <3>3. QED  BY <2>2, <3>1, <3>2
    <2>10. PICK len \in Nat : input.length = len /\ spos <= len
      BY <1>1, Slop DEF IInv, InputOK, Ranges, WindowRanges
    <2>11. PICK s \in Nat, c1 \in Nat : /\ spos - bu = s /\ consumed + fp = c1 /\ s = c1
                                        /\ s <= spos /\ s <= len /\ spos - s = bu
      <3>1. /\ spos - bu = consumed + fp /\ consumed + fp \in Nat /\ spos - bu <= spos
            /\ spos - bu <= len /\ spos - (spos - bu) = bu
        <4>1. consumed + fp \in Nat
          BY Numbers
        <4>2. spos - bu = consumed + fp
          BY <2>7, Numbers
        <4>3. spos - bu <= spos /\ spos - (spos - bu) = bu
          BY Numbers
        <4>4. spos - bu <= len
          BY <2>10, Numbers
        <4>5. QED  BY <4>1, <4>2, <4>3, <4>4
      <3>2. QED  BY <3>1
    <2>12. InputOK'
      BY <2>6 DEF IInv, InputOK
    <2>13. WindowRanges'
      <3>1. s \in 0..len /\ 0 \in 0..len
        BY <2>10, <2>11
      <3>2. overall_limit + bu \in Int /\ (overall_limit >= 0 => overall_limit + bu >= 0)
        BY <2>5, Numbers
      <3>3. WindowRanges /\ spos' = s
        BY <2>6, <2>11 DEF IInv, Ranges
      <3>4. QED  BY <2>6, <2>10, <3>1, <3>2, <3>3 DEF WindowRanges
    <2>14. ParserRanges'
      BY <2>6, <2>8, <2>9, <2>11 DEF IInv, Ranges, ParserRanges
    <2>15. Places' /\ Patched'
      BY <2>6 DEF Places, Patched
    <2>16. LimitsMean'
      <3>1. consumed' + todo' + limit_' = limits'[Len(limits')]
        BY <2>6, <2>8, <2>9, <2>11
      <3>2. QED  BY <1>1, <2>6, <3>1 DEF IInv, LimitsMean, Over
    <2>17. ParserAt'
      <3>1. input.stop > 0 => c1 + t < input.stop
        <4>1. input.stop > 0 => consumed + n < input.stop
          BY <1>1, Consuming DEF BackUpForCord
        <4>2. c1 + t = consumed + n
          <5>1. consumed + fp = c1 /\ n - fp = t
            BY <2>8, <2>11
          <5>2. QED  BY <1>1, <5>1, Numbers
        <4>3. QED  BY <4>1, <4>2
      <3>2. last_tag = AtLimit
        BY <1>1 DEF IInv, ParserAt
      <3>3. QED  BY <2>6, <2>8, <2>11, <3>1, <3>2 DEF ParserAt, Ended
    <2>18. Taken'
      <3>1. overall_limit = (IF input.kind = "bounded" THEN input.bound ELSE IntMax) - spos
        BY <1>1, <2>6, <2>7 DEF IInv, Taken, Over
      <3>2. PICK whole \in Nat :
              (IF input.kind = "bounded" THEN input.bound ELSE IntMax) = whole
        <4>1. input.bound \in Nat
          BY DEF IInv, InputOK
        <4>2. QED  BY <4>1, Slop
      <3>3. overall_limit + bu = whole - s
        <4>1. overall_limit = whole - spos
          BY <3>1, <3>2
        <4>2. s = spos - bu
          BY <2>11
        <4>3. QED  BY <2>5, <4>1, <4>2, Numbers
      <3>4. /\ overall_limit' = whole - s /\ spos' = s /\ consumed' = c1
            /\ next_chunk' # Null /\ pc' = "readcord" /\ input' = input /\ input.kind # "flat"
        BY <2>6, <2>7, <2>11, <3>3
      <3>5. QED  BY <2>11, <3>2, <3>4 DEF Taken, Over
    <2>19. DoneAt'
      BY <2>6 DEF DoneAt, AcceptedExactly
    <2>20. spos' < spos => spos - spos' <= lastNext
      <3>1. SUFFICES ASSUME bu > 0 PROVE bu <= lastNext
        <4>1. spos' = s /\ (s < spos => bu > 0) /\ spos - s = bu
          BY <2>6, <2>11, Numbers
        <4>2. QED  BY <4>1
      <3>2. /\ IsChunk(next_chunk) => lastNext = size_
            /\ IsChunk(buf) => lastNext = buffer_end + kSlopBytes
        BY <1>1, <2>6 DEF IInv, Taken, Over
      <3>3. CASE IsChunk(buf) /\ bu = ba
        <4>1. lastNext = buffer_end + kSlopBytes
          BY <3>2, <3>3
        <4>2. ba <= buffer_end + kSlopBytes
          BY <2>1, Numbers
        <4>3. QED  BY <3>3, <4>1, <4>2
      <3>4. CASE IsChunk(next_chunk) /\ bu <= size_
        BY <3>2, <3>4
      <3>5. QED  BY <2>5, <3>1, <3>3, <3>4
    <2>21. QED
      BY <2>12, <2>13, <2>14, <2>15, <2>16, <2>17, <2>18, <2>19, <2>20 DEF IInv, Ranges
  <1>4. QED  BY <1>2, <1>3

\* A buffer opened on the stream after s bytes holds what follows from ptr on.
OpensAt(s, n, e, b, c, p, q) ==
  /\ c # Null => s + n = s + (e - p) + kSlopBytes
  /\ c = Null => b = Patch /\ s = input.length /\ n = 0 /\ e = 0 /\ p = 0
  /\ ~IsChunk(c)
  /\ b = Patch => e <= kSlopBytes
  /\ IsChunk(b) => c = Patch /\ b = s /\ p = 0 /\ n = e + kSlopBytes
  /\ b = Patch /\ c # Null => \A i \in p..e + kSlopBytes - 1 : q[i] = s - p + i + 1

BufferAt(s, n) == IF s = input.length THEN NothingToOpen ELSE Opened(s, n)

LEMMA Opening ==
  ASSUME InputOK, NEW s \in 0..input.length, NEW n \in FirstChunks(s),
         NEW old \in [0..kPatchBufferSize - 1 -> 0..input.length]
  PROVE  \E e \in Nat, p \in Nat, b \in {Patch} \cup Nat, c \in {Null, Patch} \cup Nat,
            q \in [0..kPatchBufferSize - 1 -> 0..input.length] :
           /\ BufferAt(s, n).buffer_end = e /\ BufferAt(s, n).ptr = p
           /\ BufferAt(s, n).buf = b /\ BufferAt(s, n).next_chunk = c
           /\ (IF s = input.length THEN old ELSE OpenedPatch(s, n, old)) = q
           /\ p <= e + kSlopBytes /\ n \in 0..input.length - s
           /\ OpensAt(s, n, e, b, c, p, q)
  <1> DEFINE o == BufferAt(s, n)
  <1>1. PICK len \in Nat : input.length = len /\ s \in 0..len
    BY Slop DEF InputOK
  <1>2. n \in 0..len - s /\ (s = len => n = 0)
    <2>1. ChunkSize(s) \in 0..len - s /\ (s = len => ChunkSize(s) = 0)
      BY <1>1, Chunks
    <2>2. 0 \in 0..len - s
      BY <1>1
    <2>3. QED  BY <2>1, <2>2 DEF FirstChunks
  <1>3. n \in Nat /\ s \in Nat /\ n <= len - s /\ kSlopBytes \in Nat \ {0}
    BY <1>1, <1>2, Slop
  <1>4. CASE s = len
    <2>1. o.buffer_end = 0 /\ o.ptr = 0 /\ o.buf = Patch /\ o.next_chunk = Null
      BY <1>1, <1>4 DEF NothingToOpen, BufferAt
    <2>2. OpensAt(s, n, 0, Patch, Null, 0, old)
      BY <1>1, <1>2, <1>3, <1>4 DEF OpensAt, IsChunk, Patch, Null
    <2>3. Patch \in {Patch} \cup Nat /\ Null \in {Null, Patch} \cup Nat /\ 0 \in Nat
          /\ 0 <= 0 + kSlopBytes
      BY <1>3
    <2>4. QED  BY <1>1, <1>2, <1>4, <2>1, <2>2, <2>3
  <1>5. CASE s # len /\ n > kSlopBytes
    <2>1. o.buffer_end = n - kSlopBytes /\ o.ptr = 0 /\ o.buf = s /\ o.next_chunk = Patch
          /\ OpenedPatch(s, n, old) = old
      BY <1>1, <1>5 DEF Opened, OpenedPatch, BufferAt
    <2>2. PICK e \in Nat : n - kSlopBytes = e /\ n = e + kSlopBytes
      BY <1>3, <1>5
    <2>3. s # Patch /\ ~IsChunk(Patch) /\ Patch # Null
      BY <1>3 DEF Patch, IsChunk, Null
    <2>4. s + n = s + (e - 0) + kSlopBytes
      BY <1>3, <2>2
    <2>5. OpensAt(s, n, e, s, Patch, 0, old)
      BY <2>2, <2>3, <2>4 DEF OpensAt
    <2>6. s \in {Patch} \cup Nat /\ Patch \in {Null, Patch} \cup Nat /\ 0 \in Nat
          /\ 0 <= e + kSlopBytes
      BY <1>3
    <2>7. QED  BY <1>1, <1>2, <1>5, <2>1, <2>2, <2>5, <2>6
  <1>6. CASE s # len /\ ~ n > kSlopBytes
    <2>1. PICK p \in Nat : kPatchBufferSize - n = p /\ p = 2 * kSlopBytes - n
      <3>1. 2 * kSlopBytes - n \in Nat
        BY <1>3, <1>6
      <3>2. QED  BY <3>1, Slop
    <2>2. o.buffer_end = kSlopBytes /\ o.ptr = p /\ o.buf = Patch /\ o.next_chunk = Patch
      BY <1>1, <1>6, <2>1 DEF Opened, BufferAt
    <2> DEFINE f(i) == IF i >= p THEN s + i - p + 1 ELSE old[i]
    <2>3. OpenedPatch(s, n, old) = [i \in 0..kPatchBufferSize - 1 |-> f(i)]
      BY <1>6, <2>1 DEF OpenedPatch
    <2>4. ASSUME NEW i \in 0..kPatchBufferSize - 1
          PROVE  f(i) \in 0..len
      <3>1. CASE i >= p
        <4>1. s + i - p + 1 \in 0..len
          BY <1>3, <1>1, <2>1, <3>1, Slop
        <4>2. QED  BY <3>1, <4>1
      <3>2. CASE ~ i >= p
        BY <1>1, <3>2
      <3>3. QED  BY <3>1, <3>2
    <2>5. ASSUME NEW i \in p..kSlopBytes + kSlopBytes - 1
          PROVE  i \in 0..kPatchBufferSize - 1 /\ f(i) = s - p + i + 1
      <3>1. i \in 0..kPatchBufferSize - 1 /\ i >= p /\ i \in Int
        BY <2>1, Slop
      <3>2. s + i - p + 1 = s - p + i + 1
        BY <1>3, <2>1, <3>1
      <3>3. QED  BY <3>1, <3>2
    <2> HIDE DEF f
    <2>6. PICK q \in [0..kPatchBufferSize - 1 -> 0..len] :
            /\ OpenedPatch(s, n, old) = q
            /\ \A i \in p..kSlopBytes + kSlopBytes - 1 : q[i] = s - p + i + 1
      BY <2>3, <2>4, <2>5
    <2>7. s + n = s + (kSlopBytes - p) + kSlopBytes
      BY <1>3, <2>1
    <2>8. ~IsChunk(Patch) /\ Patch # Null /\ kSlopBytes <= kSlopBytes
      BY Slop DEF Patch, IsChunk, Null
    <2>9. OpensAt(s, n, kSlopBytes, Patch, Patch, p, q)
      BY <2>6, <2>7, <2>8 DEF OpensAt
    <2>10. /\ Patch \in {Patch} \cup Nat /\ Patch \in {Null, Patch} \cup Nat
           /\ kSlopBytes \in Nat /\ p <= kSlopBytes + kSlopBytes
      BY <1>3, <2>1
    <2>11. QED  BY <1>1, <1>2, <1>6, <2>2, <2>6, <2>9, <2>10
  <1>7. QED  BY <1>4, <1>5, <1>6

LEMMA ReadCordStep ==
  ASSUME IInv, ReadCord
  PROVE  IInv'
  <1>1. /\ pc = "readcord" /\ next_chunk # Null /\ spos = consumed /\ input.kind # "flat"
        /\ input' = input /\ consumed' = consumed + todo /\ todo' = 0 /\ pc' = "field"
        /\ last_tag' = last_tag /\ tokens' = tokens /\ limits' = limits
    BY DEF ReadCord, IInv, Taken, Over
  <1>2. PICK len \in Nat, t \in Nat, c0 \in Nat :
          /\ input.length = len /\ len <= MaxLength /\ todo = t /\ consumed = c0 /\ spos = c0
    BY <1>1, Numbers, Slop DEF IInv, InputOK
  <1>3. t <= overall_limit /\ t <= len - c0
    BY <1>2, Numbers DEF ReadCord, CordTooLong
  <1>4. PICK s \in 0..input.length : spos + todo = s /\ s = c0 + t /\ consumed + todo = s /\ s \in Nat
    BY <1>2, <1>3
  <1>5. PICK n, o :
          /\ n \in FirstChunks(s) /\ o = BufferAt(s, n)
          /\ buf' = o.buf /\ ptr' = o.ptr /\ buffer_end' = o.buffer_end
          /\ next_chunk' = o.next_chunk
          /\ patch' = IF s = input.length THEN patch ELSE OpenedPatch(s, n, patch)
          /\ size_' = IF s = input.length THEN 0 ELSE size_
          /\ overall_limit' = IF s = input.length THEN 0 ELSE overall_limit - todo - n
          /\ limit_' = limit_ - (o.buffer_end - o.ptr)
          /\ limit_end' = o.buffer_end + Smaller(0, limit_')
          /\ spos' = s + n /\ lastNext' = n
    BY <1>4 DEF ReadCord, BufferAt
  <1>6. PICK e \in Nat, p \in Nat, b \in {Patch} \cup Nat, c \in {Null, Patch} \cup Nat,
             q \in [0..kPatchBufferSize - 1 -> 0..input.length] :
           /\ o.buffer_end = e /\ o.ptr = p /\ o.buf = b /\ o.next_chunk = c
           /\ (IF s = input.length THEN patch ELSE OpenedPatch(s, n, patch)) = q
           /\ p <= e + kSlopBytes /\ n \in 0..input.length - s
           /\ OpensAt(s, n, e, b, c, p, q)
    <2>1. patch \in [0..kPatchBufferSize - 1 -> 0..input.length] /\ InputOK
      BY DEF IInv, Ranges, WindowRanges
    <2>2. \E e \in Nat, p \in Nat, b \in {Patch} \cup Nat, c \in {Null, Patch} \cup Nat,
             q \in [0..kPatchBufferSize - 1 -> 0..input.length] :
           /\ BufferAt(s, n).buffer_end = e /\ BufferAt(s, n).ptr = p
           /\ BufferAt(s, n).buf = b /\ BufferAt(s, n).next_chunk = c
           /\ (IF s = input.length THEN patch ELSE OpenedPatch(s, n, patch)) = q
           /\ p <= e + kSlopBytes /\ n \in 0..input.length - s
           /\ OpensAt(s, n, e, b, c, p, q)
      <3>1. n \in FirstChunks(s)
        BY <1>5
      <3>2. QED  BY <2>1, <3>1, Opening
    <2>3. QED  BY <1>5, <2>2
  <1>7. /\ buffer_end' = e /\ ptr' = p /\ buf' = b /\ next_chunk' = c /\ patch' = q
        /\ limit_' = limit_ - (e - p) /\ limit_end' = e + Smaller(0, limit_ - (e - p))
        /\ spos' = s + n /\ lastNext' = n /\ consumed' = s
    BY <1>1, <1>4, <1>5, <1>6
  <1>8. /\ c # Null => s + n = s + (e - p) + kSlopBytes
        /\ c = Null => b = Patch /\ s = len /\ n = 0 /\ e = 0 /\ p = 0
        /\ ~IsChunk(c)
        /\ b = Patch => e <= kSlopBytes
        /\ IsChunk(b) => c = Patch /\ b = s /\ p = 0 /\ n = e + kSlopBytes
        /\ b = Patch /\ c # Null => \A i \in p..e + kSlopBytes - 1 : q[i] = s - p + i + 1
    BY <1>2, <1>6 DEF OpensAt
  <1>9. n \in Nat /\ s + n \in 0..len /\ n \in 0..len
    BY <1>2, <1>4, <1>6
  <1>10. c = Null <=> s = len
    BY <1>2, <1>5, <1>6, <1>8 DEF NothingToOpen, Opened, BufferAt, Patch, Null
  <1>11. PICK at1 \in Int : At' = at1 /\ at1 = s + (e - p)
    <2>1. s + e - p \in Int /\ s + e - p = s + (e - p)
      BY <1>4
    <2>2. At' = s + e - p
      BY <1>7 DEF At
    <2>3. QED  BY <2>1, <2>2
  <1>12. PICK whole \in Nat :
          /\ (IF input.kind = "bounded" THEN input.bound ELSE IntMax) = whole
          /\ overall_limit = whole - c0 /\ (input.kind # "bounded" => whole > len)
    <2>1. overall_limit = (IF input.kind = "bounded" THEN input.bound ELSE IntMax) - spos
      BY <1>1 DEF IInv, Taken, Over
    <2>2. input.bound \in Nat /\ IntMax > len
      BY <1>2, Slop DEF IInv, InputOK
    <2>3. QED  BY <1>2, <2>1, <2>2, Slop
  <1>13. PICK o1 \in Int : /\ overall_limit' = o1
                           /\ c = Null => o1 = 0
                           /\ c # Null => o1 = whole - (s + n)
    <2>1. CASE s = len
      BY <1>2, <1>5, <1>10, <2>1
    <2>2. CASE s # len
      <3>1. overall_limit' = overall_limit - todo - n
        BY <1>2, <1>5, <2>2
      <3>2. overall_limit - todo - n = whole - (s + n) /\ whole - (s + n) \in Int
        <4>1. overall_limit = whole - c0 /\ todo = t /\ s = c0 + t
          BY <1>2, <1>4, <1>12
        <4>2. QED  BY <1>9, <4>1
      <3>3. QED  BY <1>10, <2>2, <3>1, <3>2
    <2>3. QED  BY <2>1, <2>2
  <1>14. InputOK'
    BY <1>1 DEF IInv, InputOK
  <1>15. PICK z \in Nat : size_' = z /\ (c = Null => z = 0)
    BY <1>2, <1>5, <1>10, Numbers
  <1>16. WindowRanges'
    <2>1. o1 >= 0 \/ input.kind = "bounded"
      BY <1>2, <1>4, <1>9, <1>12, <1>13
    <2>2. QED  BY <1>1, <1>2, <1>7, <1>9, <1>13, <1>15, <2>1 DEF WindowRanges
  <1>17. PICK lim \in Int : /\ limit_ - (e - p) = lim /\ e + Smaller(0, lim) \in Int
                            /\ at1 + lim = limits[Len(limits)]
    <2>1. consumed + todo + limit_ = limits[Len(limits)]
      BY <1>1 DEF IInv, LimitsMean, Over
    <2>2. consumed + todo + limit_ = s + limit_
      BY <1>4
    <2>3. limit_ - (e - p) \in Int
      BY Numbers
    <2>4. s + (e - p) + (limit_ - (e - p)) = s + limit_
      BY <1>4, Numbers
    <2>5. e + Smaller(0, limit_ - (e - p)) \in Int
      BY Numbers DEF Smaller
    <2>6. QED  BY <1>11, <2>1, <2>2, <2>3, <2>4, <2>5
  <1>18. ParserRanges'
    <2>1. p \in 0..e + kSlopBytes
      BY <1>6, Slop
    <2>2. QED  BY <1>1, <1>4, <1>7, <1>17, <2>1 DEF IInv, Ranges, ParserRanges
  <1>19. Places'
    <2>1. /\ c = Patch => s + n = at1 + kSlopBytes
          /\ c = Null => b = Patch /\ s + n = at1 /\ z = 0
          /\ ~IsChunk(c)
          /\ b = Patch => e <= kSlopBytes
          /\ IsChunk(b) => c = Patch /\ at1 = b + e
      <3>1. c = Patch => c # Null
        BY DEF Patch, Null
      <3>2. s + n = s + (e - p) + kSlopBytes => s + n = at1 + kSlopBytes
        BY <1>11
      <3>3. n = 0 /\ e = 0 /\ p = 0 => s + n = at1
        BY <1>4, <1>11
      <3>4. b = s /\ p = 0 => at1 = b + e
        BY <1>4, <1>11
      <3>5. QED  BY <1>8, <1>15, <3>1, <3>2, <3>3, <3>4
    <2>2. QED  BY <1>7, <1>11, <1>15, <2>1 DEF Places
  <1>20. Patched'
    <2>1. SUFFICES ASSUME b = Patch, NEW i \in p..e + kSlopBytes - 1, c # Null \/ i < e
                   PROVE  q[i] = at1 - e + i + 1
      BY <1>7, <1>11 DEF Patched
    <2>2. i \in Int /\ i >= p
      BY Slop
    <2>3. c # Null
      BY <1>8, <2>1, <2>2
    <2>4. q[i] = s - p + i + 1
      BY <1>8, <2>1, <2>3
    <2>5. at1 - e + i + 1 = s - p + i + 1
      BY <1>4, <1>11, <2>2
    <2>6. QED  BY <2>4, <2>5
  <1>21. LimitsMean'
    <2>1. At' + limit_' = limits'[Len(limits')]
      BY <1>1, <1>7, <1>11, <1>17
    <2>2. QED  BY <1>1, <1>7, <1>17, <2>1 DEF IInv, LimitsMean, Over
  <1>22. input.stop > 0 => s + 0 < input.stop
    <2>1. input.stop > 0 => consumed + todo < input.stop
      BY <1>1 DEF IInv, ParserAt, Ended
    <2>2. QED  BY <1>4, <2>1
  <1>23. ParserAt'
    <2>1. last_tag = AtLimit
      BY <1>1 DEF IInv, ParserAt, Ended
    <2>2. QED  BY <1>1, <1>7, <1>22, <2>1 DEF ParserAt, Ended
  <1>24. Taken'
    <2>1. s + n - n = s
      BY <1>4, <1>9
    <2>2. input.kind = "bounded" => s <= input.bound
      <3>1. whole - c0 >= t
        BY <1>3, <1>12
      <3>2. s <= whole
        BY <1>4, <3>1
      <3>3. QED  BY <1>12, <3>2
    <2>3. input.stop > 0 => s <= input.stop
      <3>1. PICK stop \in Nat : input.stop = stop
        BY Slop DEF IInv, InputOK
      <3>2. QED  BY <1>4, <1>22, <3>1
    <2>4. /\ c = Null => s + n = len
          /\ ~IsChunk(c) /\ (IsChunk(b) => n = e + kSlopBytes)
      BY <1>4, <1>8, <1>9
    <2>5. c # Null => o1 = whole - (s + n)
      BY <1>13
    <2>6. QED
      <3>1. /\ input' = input /\ pc' = "field" /\ overall_limit' = o1 /\ next_chunk' = c
            /\ buf' = b /\ spos' = s + n /\ lastNext' = n /\ buffer_end' = e /\ input.kind # "flat"
        BY <1>1, <1>7, <1>13
      <3>2. c # Null => o1 = (IF input.kind = "bounded" THEN input.bound ELSE IntMax) - (s + n)
        BY <1>12, <2>5
      <3>3. /\ c = Null => s + n = input.length
            /\ input.kind = "bounded" => s + n - n <= input.bound
            /\ input.stop > 0 => s + n - n <= input.stop
        BY <1>2, <2>1, <2>2, <2>3, <2>4
      <3>4. PICK s1 \in Int, n1 \in Int : s + n = s1 /\ n = n1
        BY <1>4, <1>9
      <3>5. /\ input' = input /\ pc' = "field" /\ overall_limit' = o1 /\ next_chunk' = c
            /\ buf' = b /\ spos' = s1 /\ lastNext' = n1 /\ buffer_end' = e /\ input.kind # "flat"
        BY <3>1, <3>4
      <3>6. /\ c # Null => o1 = (IF input.kind = "bounded" THEN input.bound ELSE IntMax) - s1
            /\ c = Null => s1 = input.length
            /\ input.kind = "bounded" => s1 - n1 <= input.bound
            /\ input.stop > 0 => s1 - n1 <= input.stop
            /\ ~IsChunk(c) /\ (IsChunk(b) => n1 = e + kSlopBytes)
        BY <2>4, <3>2, <3>3, <3>4
      <3>7. QED  BY <3>5, <3>6 DEF Taken, Over
  <1>25. DoneAt'
    BY <1>1 DEF DoneAt, AcceptedExactly
  <1>26. QED
    BY <1>14, <1>16, <1>18, <1>19, <1>20, <1>21, <1>23, <1>24, <1>25 DEF IInv, Ranges

LEMMA Starts ==
  ASSUME Init
  PROVE  IInv
  <1>1. InputOK
    BY InputsOK DEF Init, InputOK
  <1>2. PICK len \in Nat, bound \in Nat, stop \in 0..input.length :
          input.length = len /\ len <= MaxLength /\ input.bound = bound /\ input.stop = stop
          /\ stop \in Nat
    BY <1>1, Slop DEF InputOK
  <1>3. /\ size_ = 0 /\ last_tag = AtLimit /\ pc = "field" /\ todo = 0 /\ tokens = <<>>
        /\ consumed = 0
    BY DEF Init
  <1>4. DoneAt
    BY <1>3 DEF DoneAt, AcceptedExactly
  <1>5. ParserAt
    <2>1. input.stop > 0 => 0 + 0 < input.stop
      BY <1>2
    <2>2. QED  BY <1>3, <2>1 DEF ParserAt, Ended
  <1>6. CASE input.kind = "flat"
    <2>1. limits = <<len>>
      BY <1>2, <1>6 DEF Init
    <2>2. CASE len > kSlopBytes
      <3>1. PICK e \in Nat : len - kSlopBytes = e /\ len = e + kSlopBytes
        BY <1>2, <2>2, Slop
      <3>2. /\ buf = 0 /\ ptr = 0 /\ buffer_end = e /\ limit_end = e /\ limit_ = kSlopBytes
            /\ next_chunk = Patch /\ patch = NoPatch /\ spos = len /\ lastNext = 0
            /\ overall_limit = 0
        BY <1>2, <1>6, <2>2, <3>1 DEF Init, InitFromFlat
      <3>3. At = e
        BY <1>3, <3>2 DEF At
      <3>4. NoPatch \in [0..kPatchBufferSize - 1 -> 0..len]
        BY <1>2 DEF NoPatch
      <3>5. Ranges
        <4>1. WindowRanges
          BY <1>2, <1>3, <3>2, <3>4 DEF WindowRanges
        <4>2. ParserRanges
          BY <1>2, <1>3, <2>1, <3>2, Slop DEF ParserRanges
        <4>3. QED  BY <4>1, <4>2 DEF Ranges
      <3>6. Places /\ Patched
        <4>1. len = e + kSlopBytes /\ e = 0 + e
          BY <3>1
        <4>2. 0 # Patch /\ ~IsChunk(Patch) /\ Patch # Null
          BY DEF Patch, IsChunk, Null
        <4>3. QED  BY <3>2, <3>3, <4>1, <4>2 DEF Places, Patched
      <3>7. LimitsMean
        <4>1. e + kSlopBytes = len /\ e = e + Smaller(0, kSlopBytes)
          BY <3>1, Slop DEF Smaller
        <4>2. /\ limits[Len(limits)] = len /\ limits[1] = len
          BY <2>1
        <4>3. DOMAIN tokens = {}
          BY <1>3
        <4>4. QED
          BY <1>2, <1>3, <1>6, <3>2, <3>3, <4>1, <4>2, <4>3 DEF LimitsMean
      <3>8. Taken
        BY <1>3, <1>6, <3>2 DEF Taken, Patch, Null
      <3>9. QED  BY <1>1, <1>4, <1>5, <3>5, <3>6, <3>7, <3>8 DEF IInv
    <2>3. CASE ~ len > kSlopBytes
      <3>1. /\ buf = Patch /\ ptr = 0 /\ buffer_end = len /\ limit_end = len /\ limit_ = 0
            /\ next_chunk = Null /\ spos = len /\ lastNext = 0 /\ overall_limit = 0
            /\ patch = [i \in 0..kPatchBufferSize - 1 |-> IF i < len THEN i + 1 ELSE 0]
        BY <1>2, <1>6, <2>3 DEF Init, InitFromFlat
      <3>2. At = len
        BY <1>3, <3>1 DEF At
      <3>3. patch \in [0..kPatchBufferSize - 1 -> 0..len]
        BY <1>2, <3>1
      <3>4. Ranges
        <4>1. WindowRanges
          BY <1>2, <1>3, <3>1, <3>3 DEF WindowRanges
        <4>2. ParserRanges
          BY <1>2, <1>3, <2>1, <3>1, Slop DEF ParserRanges
        <4>3. QED  BY <4>1, <4>2 DEF Ranges
      <3>5. Places
        <4>1. len <= kSlopBytes
          BY <1>2, <2>3, Slop
        <4>2. Null # Patch /\ ~IsChunk(Null) /\ ~IsChunk(Patch)
          BY DEF Patch, IsChunk, Null
        <4>3. QED  BY <1>3, <3>1, <3>2, <4>1, <4>2 DEF Places
      <3>6. Patched
        <4>1. SUFFICES ASSUME NEW i \in 0..len + kSlopBytes - 1, i < len
                       PROVE  patch[i] = len - len + i + 1
          BY <3>1, <3>2 DEF Patched
        <4>2. i \in 0..kPatchBufferSize - 1 /\ len - len + i + 1 = i + 1
          BY <1>2, <2>3, <4>1, Slop
        <4>3. QED  BY <3>1, <4>1, <4>2
      <3>7. LimitsMean
        <4>1. len + 0 = len /\ len = len + Smaller(0, 0)
          BY DEF Smaller
        <4>2. limits[Len(limits)] = len /\ limits[1] = len
          BY <2>1
        <4>3. DOMAIN tokens = {}
          BY <1>3
        <4>4. QED
          BY <1>2, <1>3, <1>6, <3>1, <3>2, <4>1, <4>2, <4>3 DEF LimitsMean
      <3>8. Taken
        BY <1>3, <1>6, <3>1 DEF Taken
      <3>9. QED  BY <1>1, <1>4, <1>5, <3>4, <3>5, <3>6, <3>7, <3>8 DEF IInv
    <2>4. QED  BY <2>2, <2>3
  <1>7. CASE input.kind # "flat"
    <2>1. PICK n \in FirstChunks(0) :
            LET o == IF input.length = 0 THEN NothingToOpen ELSE Opened(0, n)
                whole == IF input.kind = "bounded" THEN input.bound ELSE IntMax
            IN
            /\ buf = o.buf /\ ptr = o.ptr /\ buffer_end = o.buffer_end
            /\ next_chunk = o.next_chunk
            /\ limit_ = IF input.kind = "bounded" THEN input.bound - (o.buffer_end - o.ptr)
                        ELSE IF n > kSlopBytes THEN IntMax - (n - kSlopBytes) ELSE IntMax
            /\ limit_end = buffer_end + Smaller(0, limit_)
            /\ patch = OpenedPatch(0, n, NoPatch)
            /\ spos = n /\ lastNext = n
            /\ overall_limit = IF input.length = 0 THEN 0 ELSE whole - n
      BY <1>7 DEF Init, InitFromStream
    <2>2. NoPatch \in [0..kPatchBufferSize - 1 -> 0..input.length] /\ 0 \in 0..input.length
      BY <1>2 DEF NoPatch
    <2>3. PICK e \in Nat, p \in Nat, b \in {Patch} \cup Nat, c \in {Null, Patch} \cup Nat,
               q \in [0..kPatchBufferSize - 1 -> 0..input.length] :
           /\ BufferAt(0, n).buffer_end = e /\ BufferAt(0, n).ptr = p
           /\ BufferAt(0, n).buf = b /\ BufferAt(0, n).next_chunk = c
           /\ (IF 0 = input.length THEN NoPatch ELSE OpenedPatch(0, n, NoPatch)) = q
           /\ p <= e + kSlopBytes /\ n \in 0..input.length - 0
           /\ OpensAt(0, n, e, b, c, p, q)
      BY <1>1, <2>2, Opening
    <2>4. PICK m \in Nat : n = m /\ m <= len
      BY <1>2, <2>3
    <2>5. /\ c # Null => 0 + m = 0 + (e - p) + kSlopBytes
          /\ c = Null => b = Patch /\ 0 = len /\ m = 0 /\ e = 0 /\ p = 0
          /\ ~IsChunk(c)
          /\ b = Patch => e <= kSlopBytes
          /\ IsChunk(b) => c = Patch /\ b = 0 /\ p = 0 /\ m = e + kSlopBytes
          /\ b = Patch /\ c # Null => \A i \in p..e + kSlopBytes - 1 : q[i] = 0 - p + i + 1
      BY <1>2, <2>3, <2>4 DEF OpensAt
    <2>6. c # Null => m = e - p + kSlopBytes
      BY <2>5, Slop
    <2>7. c = Null <=> len = 0
      BY <1>2, <2>3, <2>5 DEF BufferAt, NothingToOpen, Opened, Patch, Null
    <2>8. PICK whole \in Nat :
            (IF input.kind = "bounded" THEN input.bound ELSE IntMax) = whole
            /\ (input.kind # "bounded" => whole = IntMax) /\ (input.kind = "bounded" => whole = bound)
      BY <1>2, Slop
    <2>9. /\ buf = b /\ ptr = p /\ buffer_end = e /\ next_chunk = c /\ spos = m /\ lastNext = m
          /\ limit_end = e + Smaller(0, limit_)
          /\ limit_ = IF input.kind = "bounded" THEN bound - (e - p)
                      ELSE IF m > kSlopBytes THEN IntMax - (m - kSlopBytes) ELSE IntMax
          /\ overall_limit = IF len = 0 THEN 0 ELSE whole - m
      BY <1>2, <2>1, <2>3, <2>4, <2>8 DEF BufferAt
    <2>10. patch \in [0..kPatchBufferSize - 1 -> 0..len] /\ (c # Null => patch = q)
      <3>1. CASE len = 0
        <4>1. m = 0
          BY <2>4, <3>1
        <4>2. patch = [i \in 0..kPatchBufferSize - 1 |->
                         IF i >= kPatchBufferSize - 0 THEN 0 + i - (kPatchBufferSize - 0) + 1
                         ELSE NoPatch[i]]
          BY <2>1, <2>4, <4>1, Slop DEF OpenedPatch
        <4>3. \A i \in 0..kPatchBufferSize - 1 : ~ i >= kPatchBufferSize - 0
          BY Slop
        <4>4. patch \in [0..kPatchBufferSize - 1 -> 0..len]
          BY <1>2, <2>2, <4>2, <4>3
        <4>5. QED  BY <2>7, <3>1, <4>4
      <3>2. CASE len # 0
        BY <1>2, <2>1, <2>3, <3>2
      <3>3. QED  BY <3>1, <3>2
    <2>11. PICK at \in Int : At = at /\ at = e - p
      <3>1. 0 + e - p = e - p
        OBVIOUS
      <3>2. QED  BY <1>3, <2>9, <3>1 DEF At
    <2>19. PICK o \in Int :
             /\ overall_limit = o
             /\ (len # 0 => o = whole - m) /\ (len = 0 => o = 0)
      <3>1. whole - m \in Int
        OBVIOUS
      <3>2. overall_limit = IF len = 0 THEN 0 ELSE whole - m
        BY <2>9
      <3>3. CASE len = 0
        BY <3>2, <3>3
      <3>4. CASE len # 0
        BY <3>1, <3>2, <3>4
      <3>5. QED  BY <3>3, <3>4
    <2>12. PICK lim \in Int :
             /\ limit_ = lim
             /\ (input.kind = "bounded" => at + lim = bound)
             /\ (input.kind # "bounded" => at + lim > len + kSlopBytes)
      <3>1. CASE input.kind = "bounded"
        <4>1. limit_ = bound - (e - p) /\ at + (bound - (e - p)) = bound /\ bound - (e - p) \in Int
          BY <2>9, <2>11, <3>1
        <4>2. QED  BY <3>1, <4>1
      <3>2. CASE input.kind # "bounded"
        <4>1. limit_ = (IF m > kSlopBytes THEN IntMax - (m - kSlopBytes) ELSE IntMax)
          BY <2>9, <3>2
        <4>2. IntMax > len + 2 * kSlopBytes
          BY <1>2, Slop
        <4>3. CASE c = Null
          <5>1. limit_ = IntMax /\ at = 0 /\ IntMax \in Int
            BY <2>5, <2>11, <4>1, <4>3, Slop
          <5>2. at + IntMax > len + kSlopBytes
            BY <1>2, <4>2, <5>1, Slop
          <5>3. QED  BY <3>2, <5>1, <5>2
        <4>4. CASE c # Null /\ m > kSlopBytes
          <5>1. limit_ = IntMax - (m - kSlopBytes) /\ IntMax - (m - kSlopBytes) \in Int
            BY <4>1, <4>4, Slop
          <5>2. at + (IntMax - (m - kSlopBytes)) > len + kSlopBytes
            BY <1>2, <2>6, <2>11, <4>2, <4>4, Slop
          <5>3. QED  BY <3>2, <5>1, <5>2
        <4>5. CASE c # Null /\ ~ m > kSlopBytes
          <5>1. limit_ = IntMax /\ IntMax \in Int
            BY <4>1, <4>5, Slop
          <5>2. at + IntMax > len + kSlopBytes
            BY <1>2, <2>6, <2>11, <4>2, <4>5, Slop
          <5>3. QED  BY <3>2, <5>1, <5>2
        <4>6. QED  BY <4>3, <4>4, <4>5
      <3>3. QED  BY <3>1, <3>2
    <2>13. Ranges
      <3>1. m \in 0..len
        BY <2>4
      <3>2. o >= 0 \/ input.kind = "bounded"
        BY <1>2, <2>4, <2>8, <2>19, Slop
      <3>3. WindowRanges
        BY <1>2, <1>3, <2>9, <2>10, <2>19, <3>1, <3>2 DEF WindowRanges
      <3>4. p \in 0..e + kSlopBytes
        BY <2>3, Slop
      <3>5. limit_ \in Int /\ limit_end \in Int
        BY <2>9, <2>12 DEF Smaller
      <3>6. limits \in Seq(Int) /\ Len(limits) = 1
        <4>1. limit_ + buffer_end - ptr \in Int
          BY <2>9, <3>5
        <4>2. PICK x \in Int : limits = <<x>>
          BY <1>2, <4>1 DEF Init
        <4>3. QED  BY <4>2
      <3>7. tokens \in Seq(Int) /\ Len(tokens) = 0
        BY <1>3
      <3>8. ParserRanges
        BY <1>3, <2>9, <3>4, <3>5, <3>6, <3>7 DEF ParserRanges
      <3>9. QED  BY <3>3, <3>8 DEF Ranges
    <2>14. Places
      <3>1. /\ c # Null => m = at + kSlopBytes
            /\ c = Null => b = Patch /\ m = at
            /\ b = 0 /\ p = 0 => at = b + e
        BY <2>5, <2>6, <2>11
      <3>2. c = Patch => c # Null
        BY DEF Patch, Null
      <3>3. QED  BY <1>3, <2>5, <2>9, <2>11, <3>1, <3>2 DEF Places
    <2>15. Patched
      <3>1. SUFFICES ASSUME b = Patch, NEW i \in p..e + kSlopBytes - 1, c # Null \/ i < e
                     PROVE  patch[i] = at - e + i + 1
        BY <2>9, <2>11 DEF Patched
      <3>2. i \in Int /\ i >= p
        BY Slop
      <3>3. c # Null
        BY <2>5, <3>1, <3>2
      <3>4. patch[i] = 0 - p + i + 1
        BY <2>5, <2>10, <3>1, <3>3
      <3>5. at - e + i + 1 = 0 - p + i + 1
        BY <2>11, <3>2
      <3>6. QED  BY <3>4, <3>5
    <2>16. LimitsMean
      <3>1. lim + e - p = at + lim
        BY <2>11
      <3>2. limits = <<at + lim>>
        <4>1. CASE input.kind = "bounded"
          BY <1>2, <2>12, <4>1 DEF Init
        <4>2. CASE input.kind # "bounded"
          <5>1. limits = <<limit_ + buffer_end - ptr>>
            BY <1>7, <4>2 DEF Init
          <5>2. limit_ + buffer_end - ptr = lim + e - p
            BY <2>9, <2>12
          <5>3. QED  BY <3>1, <5>1, <5>2
        <4>3. QED  BY <4>1, <4>2
      <3>3. limits[Len(limits)] = at + lim /\ limits[1] = at + lim /\ DOMAIN tokens = {}
        BY <1>3, <3>2
      <3>4. limit_end = buffer_end + Smaller(0, limit_)
        BY <2>9
      <3>5. QED  BY <1>2, <1>3, <1>7, <2>11, <2>12, <3>3, <3>4 DEF LimitsMean
    <2>17. Taken
      <3>1. /\ c = Null => m = len
            /\ input.kind = "bounded" => m - m <= bound
            /\ m - m <= stop
        BY <1>2, <2>4, <2>5
      <3>2. c # Null => overall_limit = whole - m
        BY <2>7, <2>19
      <3>3. QED
        BY <1>2, <1>3, <1>7, <2>5, <2>8, <2>9, <3>1, <3>2 DEF Taken
    <2>18. QED  BY <1>1, <1>4, <1>5, <2>13, <2>14, <2>15, <2>16, <2>17 DEF IInv
  <1>8. QED  BY <1>6, <1>7

-------------------------------------------------------------------------------
(* The end of the parse.                                                       *)

LEMMA EndParseStep ==
  ASSUME IInv, EndParse
  PROVE  IInv' /\ (spos' < spos => spos - spos' <= lastNext)
  <1>1. /\ pc = "done" /\ tokens = <<>> /\ BackUp(BytesLeft)
        /\ pc' = (IF Accepts THEN "accepted" ELSE "failed")
        /\ UNCHANGED <<input, buf, ptr, buffer_end, limit_end, next_chunk, size_, limit_,
                       last_tag, patch, todo, tokens, consumed, limits>>
    BY DEF EndParse
  <1>2. PICK len \in Nat, bound \in Nat, stop \in Nat :
          input.length = len /\ input.bound = bound /\ input.stop = stop
    BY Slop DEF IInv, InputOK
  <1>3. /\ ptr \in Nat /\ ptr <= buffer_end + kSlopBytes /\ buffer_end \in Nat
        /\ consumed \in Nat /\ spos \in Nat /\ size_ \in Nat /\ overall_limit \in Int
        /\ kSlopBytes \in Nat \ {0}
    BY Numbers
  <1>4. PICK ln \in Nat : lastNext = ln /\ spos <= len
    BY <1>2 DEF IInv, Ranges, WindowRanges
  <1>5. /\ next_chunk = Patch => spos = (consumed + buffer_end - ptr) + kSlopBytes
        /\ next_chunk = Null => spos = consumed + buffer_end - ptr /\ size_ = 0
        /\ IsChunk(next_chunk) =>
             /\ buffer_end = kSlopBytes /\ size_ > kSlopBytes
             /\ spos = (consumed + buffer_end - ptr) + size_
        /\ next_chunk \in {Null, Patch} \cup Nat
    BY <1>1 DEF IInv, Places, Over, At, Ranges, WindowRanges
  \* BytesLeft is what the stream is ahead of the parser.
  <1>6. PICK bl \in Int : /\ BytesLeft = bl /\ spos = consumed + bl
                          /\ bl >= -kSlopBytes
                          /\ next_chunk # Null => bl >= 0
                          /\ next_chunk = Null => bl = buffer_end - ptr
    <2>1. CASE next_chunk = Patch
      <3>1. BytesLeft = buffer_end + kSlopBytes - ptr
        BY <2>1 DEF BytesLeft, BytesAvailable
      <3>2. spos = (consumed + buffer_end - ptr) + kSlopBytes
        BY <1>5, <2>1
      <3>3. /\ spos = consumed + (buffer_end + kSlopBytes - ptr)
            /\ buffer_end + kSlopBytes - ptr >= 0
            /\ buffer_end + kSlopBytes - ptr >= -kSlopBytes
            /\ buffer_end + kSlopBytes - ptr \in Int
        BY <1>3, <3>2
      <3>4. next_chunk # Null
        BY <2>1 DEF Patch, Null
      <3>5. QED  BY <3>1, <3>3, <3>4
    <2>2. CASE next_chunk = Null
      <3>1. BytesLeft = size_ + buffer_end - ptr
        BY <2>2 DEF BytesLeft, Patch, Null
      <3>2. spos = consumed + buffer_end - ptr /\ size_ = 0
        BY <1>5, <2>2
      <3>3. /\ size_ + buffer_end - ptr = buffer_end - ptr
            /\ spos = consumed + (buffer_end - ptr)
            /\ buffer_end - ptr >= -kSlopBytes
            /\ buffer_end - ptr \in Int
        BY <1>3, <3>2
      <3>4. QED  BY <2>2, <3>1, <3>3
    <2>3. CASE IsChunk(next_chunk)
      <3>1. BytesLeft = size_ + buffer_end - ptr
        BY <2>3 DEF BytesLeft, Patch, IsChunk
      <3>2. /\ buffer_end = kSlopBytes /\ size_ > kSlopBytes
            /\ spos = (consumed + buffer_end - ptr) + size_
        BY <1>5, <2>3
      <3>3. /\ spos = consumed + (size_ + buffer_end - ptr)
            /\ size_ + buffer_end - ptr >= 0
            /\ size_ + buffer_end - ptr >= -kSlopBytes
            /\ size_ + buffer_end - ptr \in Int
        BY <1>3, <3>2
      <3>4. next_chunk # Null
        BY <2>3 DEF Null, IsChunk
      <3>5. QED  BY <3>1, <3>3, <3>4
    <2>4. QED  BY <1>5, <2>1, <2>2, <2>3 DEF IsChunk
  <1>7. consumed <= spos + kSlopBytes
    BY <1>3, <1>6
  <1>8. PICK first \in Int :
          /\ limits[Len(limits)] = first /\ limits[1] = first
          /\ input.kind = "flat" => first = len
          /\ input.kind = "bounded" => first = bound
          /\ input.kind \in {"stream", "coded"} => first > len + kSlopBytes
    <2>1. Len(limits) = 1 /\ limits \in Seq(Int)
      BY <1>1 DEF IInv, Ranges, ParserRanges
    <2>2. /\ input.kind = "flat" => limits[1] = input.length
          /\ input.kind = "bounded" => limits[1] = input.bound
          /\ input.kind \in {"stream", "coded"} => limits[1] > input.length + kSlopBytes
      BY <1>1 DEF IInv, LimitsMean, Over
    <2>3. limits[1] \in Int /\ limits[Len(limits)] = limits[1]
      BY <2>1
    <2>4. QED  BY <1>2, <2>2, <2>3
  <1>9. /\ last_tag = AtLimit => consumed = first /\ ~PastTheEnd
        /\ last_tag = EndOfStream =>
             /\ next_chunk = Null /\ ptr - buffer_end = 0
             /\ stop > 0 => consumed < stop
        /\ last_tag = "tag" =>
             /\ input.kind = "coded" /\ limit_end <= buffer_end
             /\ (consumed = stop /\ stop > 0) \/ consumed > len
        /\ last_tag \in {AtLimit, EndOfStream, "tag"}
    BY <1>1, <1>2, <1>8 DEF IInv, DoneAt, Ranges, ParserRanges, overrun
  <1>10. input.kind \in {"flat", "stream", "bounded", "coded"}
    BY DEF IInv, InputOK
  <1>11. last_tag = EndOfStream => bl = 0 /\ consumed = spos
    <2>1. last_tag = EndOfStream => bl = 0
      BY <1>3, <1>6, <1>9
    <2>2. bl = 0 => consumed = spos
      BY <1>3, <1>6
    <2>3. QED  BY <2>1, <2>2
  \* The stop of a parse that ended at a tag that the stream holds.
  <1>12. input.kind \in {"stream", "coded"} /\ bl >= 0 => last_tag # AtLimit
    BY <1>3, <1>4, <1>6, <1>8, <1>9
  <1>13. Accepts => bl >= 0
    <2>1. SUFFICES ASSUME Accepts, next_chunk = Null, ptr > buffer_end
                   PROVE  FALSE
      BY <1>3, <1>6
    <2>2. PastTheEnd
      BY <1>3, <2>1 DEF PastTheEnd, overrun
    <2>3. last_tag = "tag"
      <3>1. last_tag # AtLimit
        BY <1>9, <2>2
      <3>2. last_tag # EndOfStream
        BY <1>3, <1>9, <2>1
      <3>3. QED  BY <1>9, <3>1, <3>2
    <2>4. input.kind = "coded" /\ limit_end <= buffer_end
      BY <1>9, <2>3
    <2>5. IsExceedingLimit
      <3>1. ptr > limit_end
        <4>1. limit_end \in Int
          BY Numbers
        <4>2. QED  BY <1>3, <2>1, <2>4, <4>1
      <3>2. QED  BY <2>1, <3>1 DEF IsExceedingLimit
    <2>6. QED  BY <2>1, <2>3, <2>4, <2>5 DEF Accepts, EndOfStream
  <1>14. bl > 0 /\ BacksUp => bl <= ln
    <2>1. SUFFICES ASSUME bl > 0, BacksUp
                   PROVE  bl <= ln
      OBVIOUS
    <2>2. /\ input.kind = "bounded" => spos - ln <= bound
          /\ input.kind = "coded" /\ stop > 0 => spos - ln <= stop
      BY <1>1, <1>2, <1>4 DEF IInv, Taken, Over
    <2>3. last_tag # EndOfStream
      BY <1>6, <1>11, <2>1
    <2>4. CASE input.kind = "bounded"
      <3>1. consumed = bound
        BY <1>8, <1>9, <2>3, <2>4
      <3>2. QED  BY <1>3, <1>6, <2>2, <2>4, <3>1
    <2>5. CASE input.kind = "coded"
      <3>1. last_tag = "tag"
        BY <1>9, <1>12, <2>1, <2>3, <2>5
      <3>2. ~ consumed > len
        BY <1>3, <1>4, <1>6, <2>1
      <3>3. consumed = stop /\ stop > 0
        BY <1>9, <3>1, <3>2
      <3>4. QED  BY <1>3, <1>6, <2>2, <2>5, <3>3
    <2>6. QED  BY <2>1, <2>4, <2>5 DEF BacksUp
  <1>15. PICK s \in Nat, l \in Nat, o \in Int :
           /\ spos' = s /\ lastNext' = l /\ overall_limit' = o
           /\ BacksUp /\ bl > 0 => s = consumed /\ l = 0 /\ o = overall_limit + bl
           /\ ~(BacksUp /\ bl > 0) => s = spos /\ l = ln /\ o = overall_limit
    <2>1. CASE BacksUp /\ bl > 0
      <3>1. spos' = spos - bl /\ overall_limit' = overall_limit + bl /\ lastNext' = 0
        BY <1>1, <1>6, <2>1 DEF BackUp
      <3>2. spos - bl = consumed /\ overall_limit + bl \in Int
        BY <1>3, <1>6
      <3>3. QED  BY <1>3, <2>1, <3>1, <3>2
    <2>2. CASE ~(BacksUp /\ bl > 0)
      <3>1. spos' = spos /\ overall_limit' = overall_limit /\ lastNext' = lastNext
        BY <1>1, <1>6, <2>2 DEF BackUp
      <3>2. QED  BY <1>3, <1>4, <2>2, <3>1
    <2>3. QED  BY <2>1, <2>2
  <1>16. Ranges'
    <2>1. s \in 0..len /\ l \in 0..len
      <3>1. ln <= len
        BY <1>2, <1>4 DEF IInv, Ranges, WindowRanges
      <3>2. BacksUp /\ bl > 0 => consumed <= len
        BY <1>3, <1>4, <1>6
      <3>3. QED  BY <1>3, <1>4, <1>15, <3>1, <3>2
    <2>2. o >= 0 \/ input.kind = "bounded"
      <3>1. overall_limit >= 0 \/ input.kind = "bounded"
        BY DEF IInv, Ranges, WindowRanges
      <3>2. bl > 0 /\ overall_limit >= 0 => overall_limit + bl >= 0
        BY <1>3
      <3>3. QED  BY <1>15, <3>1, <3>2
    <2>3. WindowRanges /\ ParserRanges
      BY DEF IInv, Ranges
    <2>4. WindowRanges'
      BY <1>1, <1>2, <1>15, <2>1, <2>2, <2>3 DEF WindowRanges
    <2>5. ParserRanges'
      BY <1>1, <2>3 DEF ParserRanges
    <2>6. QED  BY <2>4, <2>5 DEF Ranges
  <1>17. spos' < spos => spos - spos' <= lastNext
    <2>1. SUFFICES ASSUME s < spos
                   PROVE  spos - s <= ln
      BY <1>4, <1>15
    <2>2. BacksUp /\ bl > 0
      BY <1>3, <1>15, <2>1
    <2>3. s = consumed
      BY <1>15, <2>2
    <2>4. spos - consumed = bl
      BY <1>3, <1>6
    <2>5. QED  BY <1>14, <2>2, <2>3, <2>4
  <1>18. CASE ~Accepts
    BY <1>1, <1>16, <1>17, <1>18, Fails
  <1>19. CASE Accepts
    <2>1. pc' = "accepted" /\ bl >= 0 /\ consumed <= spos
      BY <1>1, <1>3, <1>6, <1>13, <1>19
    <2>2. BacksUp => s = consumed
      BY <1>3, <1>6, <1>15, <2>1
    <2>4. /\ input.kind = "flat" => consumed = len
          /\ input.kind = "stream" => consumed = len
          /\ input.kind = "bounded" => consumed = bound /\ consumed <= len
          /\ input.kind = "coded" => consumed = IF last_tag = EndOfStream THEN len ELSE stop
      <3>1. input.kind = "flat" => consumed = len
        BY <1>8, <1>9, <1>19 DEF Accepts
      <3>2. input.kind = "stream" => consumed = len
        <4>1. SUFFICES ASSUME input.kind = "stream" PROVE consumed = len
          OBVIOUS
        <4>2. last_tag = EndOfStream
          BY <1>19, <4>1 DEF Accepts
        <4>3. spos = len
          BY <1>1, <1>2, <1>9, <4>1, <4>2 DEF IInv, Taken, Over
        <4>4. QED  BY <1>11, <4>2, <4>3
      <3>3. input.kind = "bounded" => consumed = bound /\ consumed <= len
        <4>1. consumed <= len
          BY <1>3, <1>4, <2>1
        <4>2. QED  BY <1>8, <1>9, <1>19, <4>1 DEF Accepts
      <3>4. CASE input.kind = "coded" /\ last_tag = EndOfStream
        <4>1. spos = len \/ (stop > 0 /\ stop <= spos)
          BY <1>1, <1>2, <1>9, <3>4 DEF IInv, Taken, Over
        <4>2. stop > 0 => spos < stop
          BY <1>9, <1>11, <3>4
        <4>3. spos = len
          BY <1>3, <4>1, <4>2
        <4>4. QED  BY <1>11, <3>4, <4>3
      <3>5. CASE input.kind = "coded" /\ last_tag # EndOfStream
        <4>1. last_tag = "tag"
          BY <1>9, <1>12, <2>1, <3>5
        <4>2. ~ consumed > len
          BY <1>3, <1>4, <2>1
        <4>3. QED  BY <1>9, <3>5, <4>1, <4>2
      <3>6. QED  BY <3>1, <3>2, <3>3, <3>4, <3>5
    <2>5. /\ pc' = "accepted" /\ input' = input /\ consumed' = consumed /\ last_tag' = last_tag
          /\ spos' = s
      BY <1>1, <1>15, <2>1
    <2>6. AcceptedExactly'
      BY <1>2, <1>10, <2>4, <2>5 DEF AcceptedExactly
    <2>7. DoneAt'
      BY <2>2, <2>5, <2>6 DEF DoneAt, BacksUp
    <2>8. InputOK' /\ Places' /\ Patched' /\ LimitsMean' /\ Taken'
      BY <2>5 DEF IInv, InputOK, Places, Patched, LimitsMean, Taken, Over
    <2>9. ParserAt'
      BY <1>1, <2>5 DEF IInv, ParserAt, Ended
    <2>10. QED  BY <1>16, <1>17, <2>7, <2>8, <2>9 DEF IInv
  <1>20. QED  BY <1>18, <1>19

-------------------------------------------------------------------------------
(* Every step, and what follows.                                              *)

LEMMA Steps ==
  ASSUME IInv, Next
  PROVE  IInv'
  <1>1. CASE StillInBuffer  BY <1>1, StillInBufferStep
  <1>2. CASE DoneAtLimit  BY <1>2, DoneAtLimitStep
  <1>3. CASE DonePastLimit  BY <1>3, DonePastLimitStep
  <1>4. CASE EnterDoneFallback  BY <1>4, EnterDoneFallbackStep
  <1>5. CASE Flip  BY <1>5, FlipStep
  <1>6. CASE FlipAtEnd  BY <1>6, FlipAtEndStep
  <1>7. ASSUME NEW n \in KeyAndValue, ReadField(n) PROVE IInv'  BY <1>7, ReadFieldStep
  <1>8. ASSUME NEW n \in KeyAndValue, ReadEndTag(n) PROVE IInv'  BY <1>8, ReadEndTagStep
  <1>9. ASSUME NEW n \in Sizes, PushLimit(n) PROVE IInv'  BY <1>9, PushLimitStep
  <1>10. ASSUME NEW n \in Sizes, ReadInBuffer(n) PROVE IInv'  BY <1>10, ReadInBufferStep
  <1>11. ASSUME NEW n \in Sizes, StartAppend(n) PROVE IInv'  BY <1>11, StartAppendStep
  <1>12. ASSUME NEW n \in Sizes, CopyCord(n) PROVE IInv'  BY <1>12, CopyCordStep
  <1>13. ASSUME NEW n \in Sizes, AppendCord(n) PROVE IInv'  BY <1>13, AppendCordStep
  <1>14. ASSUME NEW n \in Sizes, BackUpForCord(n) PROVE IInv'  BY <1>14, BackUpForCordStep
  <1>15. CASE RestOfChunk  BY <1>15, RestOfChunkStep
  <1>16. CASE RestMeetsEndOfStream  BY <1>16, RestMeetsEndOfStreamStep
  <1>17. CASE RestEndsAtLimit  BY <1>17, RestEndsAtLimitStep
  <1>18. CASE PopLimit  BY <1>18, PopLimitStep
  <1>19. CASE AppendFails  BY <1>19, AppendFailsStep
  <1>20. CASE AppendChunk  BY <1>20, AppendChunkStep
  <1>21. CASE ReadCordFails  BY <1>21, ReadCordFailsStep
  <1>22. CASE ReadCord  BY <1>22, ReadCordStep
  <1>23. CASE EndParse  BY <1>23, EndParseStep
  <1>24. CASE Finished  BY <1>24, Stutters DEF Finished
  <1>25. QED
    BY <1>1, <1>2, <1>3, <1>4, <1>5, <1>6, <1>7, <1>8, <1>9, <1>10, <1>11, <1>12, <1>13, <1>14,
       <1>15, <1>16, <1>17, <1>18, <1>19, <1>20, <1>21, <1>22, <1>23, <1>24 DEF Next

\* In every state: the buffer, the limits and the stream are where the parser is.
THEOREM Invariant == Spec => []IInv
  <1>1. Init => IInv
    BY Starts
  <1>2. IInv /\ [Next]_vars => IInv'
    BY Steps, Stutters
  <1>3. QED  BY <1>1, <1>2, PTL DEF Spec

LEMMA TypeOKFromIInv ==
  ASSUME IInv
  PROVE  TypeOK
  BY DEF IInv, Ranges, WindowRanges, ParserRanges, TypeOK

\* Every variable ranges over its type, and ptr never leaves the buffer and its
\* slop, through every exchange of buffers, limit and cord.
THEOREM TypeOKAlways == Spec => []TypeOK
  BY Invariant, TypeOKFromIInv, PTL

LEMMA WindowFromIInv ==
  ASSUME IInv
  PROVE  WindowIsStream
  <1> SUFFICES ASSUME pc \in {"field", "read", "sized", "append", "cord", "flip", "rest"},
                      NEW i \in 0..BytesAvailable - 1, next_chunk # Null \/ ptr + i < buffer_end
               PROVE  ByteAt(buf, ptr + i) = consumed + i + 1
    BY DEF WindowIsStream
  <1>1. i \in Nat /\ i < buffer_end + kSlopBytes - ptr
    BY Numbers DEF BytesAvailable
  <1>2. PICK at \in Int : At = at /\ at = consumed + buffer_end - ptr
    BY Numbers DEF At
  <1>3. /\ IsChunk(buf) => at = buf + buffer_end
        /\ buf = Patch => buffer_end <= kSlopBytes
        /\ buf \in {Patch} \cup Nat
    BY <1>2 DEF IInv, Places, Over, Ranges, WindowRanges
  <1>4. CASE buf = Patch
    <2>1. ptr + i \in ptr..buffer_end + kSlopBytes - 1 /\ ptr + i \in 0..kPatchBufferSize - 1
      BY <1>1, <1>3, <1>4, Numbers, Slop
    <2>2. patch[ptr + i] = at - buffer_end + (ptr + i) + 1
      BY <1>2, <1>4, <2>1 DEF IInv, Patched, Over
    <2>3. at - buffer_end + (ptr + i) + 1 = consumed + i + 1
      BY <1>1, <1>2, Numbers
    <2>4. ByteAt(buf, ptr + i) = patch[ptr + i]
      BY <1>4, <2>1 DEF ByteAt
    <2>5. QED  BY <2>2, <2>3, <2>4
  <1>5. CASE buf # Patch
    <2>1. buf \in Nat /\ at = buf + buffer_end
      BY <1>3, <1>5 DEF IsChunk
    <2>2. ByteAt(buf, ptr + i) = buf + (ptr + i) + 1
      BY <1>5 DEF ByteAt
    <2>3. buf + (ptr + i) + 1 = consumed + i + 1
      <3>1. buf + buffer_end = consumed + buffer_end - ptr
        BY <1>2, <2>1
      <3>2. QED  BY <1>1, <2>1, <3>1, Numbers
    <2>4. QED  BY <2>2, <2>3
  <1>6. QED  BY <1>4, <1>5

\* parse_context.h:92: whatever was read before, the memory from ptr to the end
\* of the slop holds the bytes of the stream that follow, for any kSlopBytes and
\* any way the stream is cut into chunks.
THEOREM WindowIsStreamAlways == Spec => []WindowIsStream
  BY Invariant, WindowFromIInv, PTL

LEMMA LimitsFromIInv ==
  ASSUME IInv
  PROVE  LimitsAreAbsolute
  BY DEF IInv, LimitsMean, LimitsAreAbsolute, Over, At

\* However buffers are exchanged between PushLimit and PopLimit, limit_ is the
\* end of the innermost message and every token that of the one around it.
THEOREM LimitsAreAbsoluteAlways == Spec => []LimitsAreAbsolute
  BY Invariant, LimitsFromIInv, PTL

\* A parse that MergeFromImpl accepts has consumed exactly the input, or what
\* comes before the tag it stopped at.
THEOREM AcceptedExactlyAlways == Spec => []AcceptedExactly
  <1>1. IInv => AcceptedExactly
    BY DEF IInv, DoneAt
  <1>2. QED  BY <1>1, Invariant, PTL

\* When ReadCord, or the caller of the parse, goes on with the stream itself, the
\* stream stands at the byte that the parser has consumed last.
THEOREM StreamStandsAtParserAlways == Spec => []StreamStandsAtParser
  <1>1. IInv => StreamStandsAtParser
    BY DEF IInv, DoneAt, Taken, Over, StreamStandsAtParser
  <1>2. QED  BY <1>1, Invariant, PTL

LEMMA NextBufferTakes ==
  ASSUME IInv, NEW careful \in BOOLEAN, NextBuffer(careful)
  PROVE  ~ spos' < spos
  <1>1. PICK n \in Nat : spos' = spos + n
    <2>1. CASE UseNextChunk \/ LastBuffer(careful)
      <3>1. spos' = spos /\ spos = spos + 0
        BY <2>1, Numbers DEF UseNextChunk, LastBuffer, stream
      <3>2. QED  BY <3>1
    <2>2. CASE FillPatchBuffer(careful)
      <3>1. InputOK /\ spos \in 0..input.length /\ input.length \in Nat
        BY Slop DEF IInv, InputOK, Ranges, WindowRanges
      <3>2. ChunkSize(spos) \in Nat
        BY <3>1, Chunks
      <3>3. QED  BY <2>2, <3>2 DEF FillPatchBuffer
    <2>3. QED  BY <2>1, <2>2 DEF NextBuffer
  <1>2. ~ spos + n < spos
    BY Numbers
  <1>3. QED  BY <1>1, <1>2

LEMMA StepsBackUp ==
  ASSUME IInv, [Next]_vars
  PROVE  spos' < spos => spos - spos' <= lastNext
  <1>1. CASE \E n \in Sizes : BackUpForCord(n)
    BY <1>1, BackUpForCordStep
  <1>2. CASE EndParse
    BY <1>2, EndParseStep
  <1>3. CASE Flip \/ AppendChunk \/ RestOfChunk
    <2>1. NextBuffer(TRUE) \/ NextBuffer(FALSE)
      BY <1>3 DEF Flip, AppendChunk, RestOfChunk
    <2>2. QED  BY <2>1, NextBufferTakes
  <1>4. CASE ReadCord
    <2>1. spos + todo \in 0..input.length
      <3>1. PICK len \in Nat : input.length = len /\ spos <= len
        BY Slop DEF IInv, InputOK, Ranges, WindowRanges
      <3>2. todo <= len - spos
        BY <1>4, <3>1, Numbers DEF ReadCord, CordTooLong
      <3>3. QED  BY <3>1, <3>2, Numbers
    <2>2. PICK s \in 0..input.length : spos + todo = s
      BY <2>1
    <2>3. PICK n \in FirstChunks(s) : spos' = s + n
      BY <1>4, <2>2 DEF ReadCord
    <2>4. PICK m \in Nat : n = m
      <3>1. InputOK /\ input.length \in Nat
        BY Slop DEF IInv, InputOK
      <3>2. ChunkSize(s) \in Nat
        BY <3>1, Chunks
      <3>3. QED  BY <2>3, <3>2 DEF FirstChunks
    <2>5. ~ spos + todo + m < spos
      BY Numbers
    <2>6. spos' = spos + todo + m
      BY <2>2, <2>3, <2>4
    <2>7. QED  BY <2>5, <2>6
  <1>5. CASE UNCHANGED vars
    <2>1. ~ spos < spos
      BY Numbers
    <2>2. QED  BY <1>5, <2>1 DEF vars
  <1>6. CASE /\ Next
             /\ ~(Flip \/ AppendChunk \/ RestOfChunk \/ EndParse \/ ReadCord)
             /\ ~(\E n \in Sizes : BackUpForCord(n))
    <2>1. spos' = spos
      BY <1>6 DEF Next, StillInBuffer, DoneAtLimit, DonePastLimit, EnterDoneFallback, FlipAtEnd,
           ReadField, ReadEndTag, PushLimit, ReadInBuffer, StartAppend, CopyCord, AppendCord,
           RestMeetsEndOfStream, RestEndsAtLimit, PopLimit, AppendFails, ReadCordFails, Finished,
           stream, vars
    <2>2. ~ spos < spos
      BY Numbers
    <2>3. QED  BY <2>1, <2>2
  <1>7. QED  BY <1>1, <1>2, <1>3, <1>4, <1>5, <1>6

\* BackUp is only called after Next, and returns no more than Next has given: a
\* cord in the middle of the parse and its end keep the stream's contract.
THEOREM BackUpsAreAllowedAlways == Spec => BackUpsAreAllowed
  <1>1. IInv /\ [Next]_vars => [spos' < spos => spos - spos' <= lastNext]_vars
    BY StepsBackUp
  <1>2. QED  BY <1>1, Invariant, PTL DEF Spec, BackUpsAreAllowed

===============================================================================
