---------------------------- MODULE MCLoaderBoot ----------------------------
(* A Loader package, and two packages of one App, each of its own format.  *)
(* The Loader of the factory has a factory session, its update has none.   *)
EXTENDS LoaderBoot, TLC

CONSTANTS L1, L2, A1, d1, d2, pL, p1, p2

MCImages   == {L1, L2, A1}
MCLoaders  == {L1, L2}
MCSessions == {L1}
MCTrees    == {d1, d2}
MCPackages == {pL, p1, p2}
MCImageOf  == pL :> L2 @@ p1 :> A1 @@ p2 :> A1
MCDataOf   == pL :> d1 @@ p1 :> d1 @@ p2 :> d2
MCFormatOf == pL :> 2 @@ p1 :> 2 @@ p2 :> 1

=============================================================================
