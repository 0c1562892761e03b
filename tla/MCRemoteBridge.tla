-------------------------- MODULE MCRemoteBridge --------------------------
(* Instances of RemoteBridge for TLC.                                      *)
EXTENDS RemoteBridge

\* Two reads of one process and a shell of another.
MCCmd == 1 .. 3
MCBy == [c \in MCCmd |-> IF c = 3 THEN "worker" ELSE "web"]
=============================================================================
