----------------------------- MODULE MCFrameHub -----------------------------
(* Instances of FrameHub for TLC.                                          *)
EXTENDS FrameHub

MCEpochs == 0 .. MaxSession
=============================================================================
