---------------------------- MODULE MCDescriptors ----------------------------
(* A pool that builds from a database, and the databases that files are added to
   and found in, next to each other: one of them moves.                        *)
EXTENDS MCDescriptorPool

VARIABLES
  part,   \* the one that moves
  simple, encoded, accepted, adds

Files == INSTANCE MCDescriptorIndex WITH
  Offers <- {}, Dot <- 2, InName <- 2..5, MaxAdds <- 0, Careless <- {}
Index == INSTANCE DescriptorIndex WITH
  Offers <- Files!MCOffers, Dot <- 2, InName <- 2..5, MaxAdds <- 4, Careless <- {}

ASSUME SearchAssumption == Index!DotSortsFirst

indexVars == <<simple, encoded, accepted, adds>>
allVars == <<part, vars, indexVars>>

MCInit ==
  /\ part \in {"pool", "index"}
  /\ Init /\ (part = "index" => db = Twist(With("none", File, Importing(Diamond)), "features"))
  /\ Index!Init

PoolStep == part = "pool" /\ Next /\ UNCHANGED <<part, indexVars>>
IndexStep == part = "index" /\ Index!Next /\ UNCHANGED <<part, vars>>

MCSpec ==
  /\ MCInit /\ [][PoolStep \/ IndexStep]_allVars
  /\ WF_vars(BuildStep)
  /\ \A t \in Thread : SF_vars(Progress(t))

WhatWasAddedIsFound == part = "index" => Index!WhatWasAddedIsFound
MergedIsOneView == part = "index" => Index!MergedIsOneView
===============================================================================
