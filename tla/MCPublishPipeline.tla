------------------------- MODULE MCPublishPipeline -------------------------
(***************************************************************************)
(* Instances of PublishPipeline for TLC.                                   *)
(***************************************************************************)
EXTENDS PublishPipeline, TLC

CONSTANTS w1, w2, t1, t2

\* Worker processes are interchangeable; used for safety runs only.
WorkerSymmetry == Permutations(Workers)
=============================================================================
