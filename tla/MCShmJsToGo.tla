---------------------------- MODULE MCShmJsToGo ----------------------------
(* Instances of ShmJsToGo: a block of 13 bytes with a header of 2 bytes.   *)
EXTENDS ShmJsToGo

\* Frames of 3 and 5 bytes; two of 5 leave a gap of 3.
Sizes == {1, 3}

AnyGarbage == {0, 1, 3}
=============================================================================
