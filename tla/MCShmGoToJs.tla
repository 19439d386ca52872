---------------------------- MODULE MCShmGoToJs ----------------------------
(* Instances of ShmGoToJs: a block of 13 bytes with a header of 2 bytes.   *)
EXTENDS ShmGoToJs

\* Frames of 3, 5 and 6 bytes, up to half the block; two of 5 leave a gap of 3.
Sizes == {1, 3, 4}

AnyGarbage == 0 .. BufferSize
NoGarbage == {0}
=============================================================================
