---------------------------- MODULE MCRunnerLoop ----------------------------
(* Instances of RunnerLoop for TLC.                                        *)
EXTENDS RunnerLoop

MCSeed == [what : {"seed"}, scene : {NoScene}]

\* The events that change what is kept on disk; an upload comes with a state.
MCFileKinds ==
  [what : {"state", "seed", "reload"}, scene : {NoScene}]
  \cup [what : {"set"}, scene : {"home"}] \cup [what : {"give"}, scene : {"uploaded"}]

\* Everything but a second way to render.
MCKinds == MCFileKinds \cup [what : {"move", "key"}, scene : {NoScene}]
=============================================================================
