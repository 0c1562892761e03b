---------------------------- MODULE MCSceneSync -----------------------------
(* Instances of SceneSync for TLC.                                         *)
EXTENDS SceneSync, TLC

MCEpochs == 0 .. MaxSession
MCAsks == {{s} : s \in Scene}

\* The scenes are alike; only runs of safety properties use this.
MCSymmetry == Permutations(Scene)
=============================================================================
