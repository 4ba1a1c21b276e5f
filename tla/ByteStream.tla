------------------------------ MODULE ByteStream ------------------------------
(***************************************************************************)
(* What ZeroCopyInputStream promises (zero_copy_stream.h:88): the bytes of  *)
(* a source are delivered once and in order, in pieces of any size, with    *)
(* what was backed up delivered again and what was skipped left out.  A     *)
(* reader may put a limit on the stream and take it off again, and the      *)
(* stream then stands where the reader stopped.                             *)
(***************************************************************************)
EXTENDS Integers, Sequences

CONSTANT Count   \* what a reader asks for

VARIABLES
  total,      \* bytes in the source
  breaks,     \* whether the source may fail before its end
  pos,        \* bytes the reader has taken, or skipped
  ends,       \* where the reader's limits are, the innermost first
  last,       \* bytes the reader may back up
  answer      \* of the last call: [ok, data, size], data a position in the source

vars == <<total, breaks, pos, ends, last, answer>>

End == CHOOSE e \in 0..total :
         /\ e = total \/ \E i \in DOMAIN ends : e = ends[i]
         /\ \A i \in DOMAIN ends : e <= ends[i]
Answer(ok, size) == answer' = [ok |-> ok, data |-> IF size = 0 THEN 0 ELSE pos, size |-> size]

Init == pos = 0 /\ ends = <<>> /\ last = 0 /\ answer = [ok |-> TRUE, data |-> 0, size |-> 0]

Next_ ==
  /\ \/ \E n \in 1..(End - pos) : pos' = pos + n /\ last' = n /\ Answer(TRUE, n)
     \/ (pos = End \/ breaks) /\ last' = 0 /\ Answer(FALSE, 0) /\ UNCHANGED pos
  /\ UNCHANGED <<total, breaks, ends>>

BackUp ==
  /\ \E count \in 0..last : pos' = pos - count
  /\ last' = 0 /\ Answer(TRUE, 0)
  /\ UNCHANGED <<total, breaks, ends>>

\* A skip that fails has gone to the end.
Skip(count) ==
  /\ \/ count <= End - pos /\ pos' = pos + count /\ Answer(TRUE, 0)
     \/ count > End - pos /\ pos' = End /\ Answer(FALSE, 0)
     \/ breaks /\ pos' \in pos..(pos + count) /\ pos' <= End /\ Answer(FALSE, 0)
  /\ last' = 0
  /\ UNCHANGED <<total, breaks, ends>>

\* What is read into a Cord is never more than was asked for.
ReadCord(count) ==
  /\ \/ count <= End - pos /\ pos' = pos + count /\ Answer(TRUE, count)
     \/ count > End - pos /\ pos' = End /\ Answer(FALSE, End - pos)
     \/ breaks /\ pos' \in pos..(pos + count) /\ pos' <= End /\ Answer(FALSE, pos' - pos)
  /\ last' = 0
  /\ UNCHANGED <<total, breaks, ends>>

Limit ==
  /\ \E limit \in Count : ends' = <<pos + limit>> \o ends
  /\ last' = 0 /\ Answer(TRUE, 0)
  /\ UNCHANGED <<total, breaks, pos>>

Unlimit ==
  /\ ends # <<>> /\ ends' = Tail(ends)
  /\ last' = 0 /\ Answer(TRUE, 0)
  /\ UNCHANGED <<total, breaks, pos>>

Next == Next_ \/ BackUp \/ (\E count \in Count : Skip(count) \/ ReadCord(count)) \/ Limit \/ Unlimit

Spec == Init /\ [][Next]_vars
===============================================================================
