------------------------------ MODULE MCVmRun ------------------------------
(***************************************************************************)
(* vm_run with 12-bit sizes and a MiB of 64 bytes: the requests are those    *)
(* whose memory has a size in bytes and some of the others that the doubling *)
(* reaches, or those of the upper half as well.                              *)
(***************************************************************************)
EXTENDS VmRun

EndingRequests == 0 .. 33 \cup {63, 64, 65, 100, 511, 1024, 2047, 2048}
AnyRequests    == {0, 5, 2048, 2049, 4095}

\* With and without an instruction, and around the size of the least memory and of its
\* text, whose native code is Fixed + Expansion * prog_size.
Programs       == {0, 9, 12, 13, 16, 64, 256, 257, 1000}
=============================================================================
