-------------------------- MODULE MCZeroCopyStreams --------------------------
(* Sources of up to six bytes for ZeroCopyStreams: each kind of stream, streams
   one after the other, and a limited stream before another. *)
EXTENDS ZeroCopyStreams

Never == 100
Holding(total, breaks, s) == [total |-> total, breaks |-> breaks, stream |-> s]
NoSource == Holding(0, FALSE, Concat(<<>>))
MCSource ==
  {Holding(5, FALSE, s) : s \in {Array(0, 5, 2), Array(0, 5, 0), Cord(0, <<1, 3, 1>>),
                                 Copying(0, 5, 3, Never, FALSE), Copying(0, 5, 2, Never, TRUE)}}
  \cup {Holding(5, TRUE, Copying(0, 5, 2, 3, FALSE)),
         Holding(6, FALSE, Concat(<<Array(0, 2, 0), Cord(2, <<2, 1>>), Copying(5, 1, 2, Never, FALSE)>>)),
         Holding(5, FALSE, Concat(<<Limiting(Array(0, 4, 3), 2), Array(2, 0, 0), Cord(2, <<3>>)>>)),
         NoSource}
===============================================================================
