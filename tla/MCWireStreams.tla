---------------------------- MODULE MCWireStreams ----------------------------
(* The streams that messages are read from and written to, and the two readers
   and the writer on top of them, next to each other: one of them moves.      *)
EXTENDS EpsCopyInputStream

VARIABLES
  part,   \* the one that moves
  zeroStream, source, lastSize, zeroAnswer, zeroLimits,
  c, bytes, codedLimits, answer, calls,
  o, wrote, skipped, lastCall

(* Every call on every source, with up to two limits. *)
Sources == INSTANCE MCZeroCopyStreams WITH
  Source <- {}, Count <- {}, MaxLimits <- 0, Careless <- {},
  stream <- zeroStream, last <- lastSize, answer <- zeroAnswer, limits <- zeroLimits
Zero == INSTANCE ZeroCopyStreams WITH
  Source <- Sources!MCSource, Count <- {1, 2, 4}, MaxLimits <- 2, Careless <- {},
  stream <- zeroStream, last <- lastSize, answer <- zeroAnswer, limits <- zeroLimits

(* Calls on a stream that returns up to three bytes at a time; varints of one
   to four bytes in seven bytes, of which INT_MAX hides the last. *)
Coded == INSTANCE CodedInputStream WITH
  Input <- {<<"end", "more", "end", "end", "more", "more", "end">>,
            <<"more", "more", "more", "more", "end", "end">>, <<"more", "more", "end">>, <<>>},
  MaxChunk <- 3, IntMax <- 6, MaxVarintBytes <- 3, MaxCordToCopy <- 2, Sizes <- {-1, 0, 1, 2, 4},
  MaxLimits <- 2, MaxCalls <- 5, Careless <- {}, limits <- codedLimits

(* Every call on outputs whose buffers are shorter and longer than the slop. *)
Ends == INSTANCE MCEpsCopyOutputStream WITH
  Outputs <- {}, MinimumSize <- 3, MinBlockSize <- 3, Slop <- 2, CordToCopy <- 3, Sizes <- {},
  MaxBytes <- 0, MaxSkipped <- 0, last <- lastCall
Out == INSTANCE EpsCopyOutputStream WITH
  Outputs <- Ends!MCOutputs, MinimumSize <- 3, MinBlockSize <- 3, Slop <- 2, CordToCopy <- 3,
  Sizes <- {0, 1, 3, 5}, MaxBytes <- 6, MaxSkipped <- 2, last <- lastCall

zeroVars == <<zeroStream, source, lastSize, zeroAnswer, zeroLimits>>
codedVars == <<c, bytes, codedLimits, answer, calls>>
outVars == <<o, wrote, skipped, lastCall>>
allVars == <<part, vars, zeroVars, codedVars, outVars>>

MCInit ==
  /\ part \in {"eps", "zero", "coded", "out"}
  /\ Init /\ (part # "eps" => input.kind = "flat" /\ input.length = 0)
  /\ Zero!Init /\ (part # "zero" => source = Sources!NoSource)
  /\ IF part = "coded" THEN Coded!Init ELSE c = 0 /\ bytes = 0 /\ codedLimits = 0 /\ answer = 0 /\ calls = 0
  /\ IF part = "out" THEN Out!Init ELSE o = 0 /\ wrote = 0 /\ skipped = 0 /\ lastCall = 0

EpsStep == part = "eps" /\ Next /\ UNCHANGED <<part, zeroVars, codedVars, outVars>>
ZeroStep == part = "zero" /\ Zero!Next /\ UNCHANGED <<part, vars, codedVars, outVars>>
CodedStep == part = "coded" /\ Coded!Next /\ UNCHANGED <<part, vars, zeroVars, outVars>>
OutStep == part = "out" /\ Out!Next /\ UNCHANGED <<part, vars, zeroVars, codedVars>>
\* The calls or the bytes that these may be given are used up.
Enough == part \in {"coded", "out"} /\ UNCHANGED allVars

MCSpec == MCInit /\ [][EpsStep \/ ZeroStep \/ CodedStep \/ OutStep \/ Enough]_allVars

ImplementsByteStream == Zero!ImplementsByteStream
ReaderKeepsItsPlace == part = "coded" => Coded!ReaderKeepsItsPlace
CallsAnswerRightly == part = "coded" => Coded!CallsAnswerRightly
LegitimateEnd == part = "coded" => Coded!LegitimateEnd
OutputIsWhatWasWritten == part = "out" => Out!OutputIsWhatWasWritten
WritesStayInBuffers == part = "out" => Out!WritesStayInBuffers
===============================================================================
