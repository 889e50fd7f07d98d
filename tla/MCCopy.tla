------------------------------- MODULE MCCopy -------------------------------
(* What is sent in the runs of CopyBidirectional. *)
EXTENDS CopyBidirectional

TwoFrames == <<<<1, 2>>, <<3>>>>
TwoChunks == <<<<1>>, <<2, 3>>>>
=============================================================================
