---------------------------- MODULE MCStreamPipe ----------------------------
(* Finite instances of module StreamPipe.                                  *)
EXTENDS StreamPipe

CONSTANTS s1, s2

TwoStreams      == {s1, s2}
FourDescriptors == 0 .. 3
SomeLengths     == {2}
SomeRequests    == {0, 2, -1}
=============================================================================
