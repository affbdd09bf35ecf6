---------------------------- MODULE MCSizeClasses ----------------------------
(***************************************************************************)
(* SizeClasses with every page size PageSizesAssumption allows: those of    *)
(* x86-64 (4 KiB), of Apple silicon (16 KiB), of Linux on ARM (up to 64     *)
(* KiB), and the two between.                                              *)
(***************************************************************************)
EXTENDS SizeClasses

RealPageSizes == {4096, 8192, 16384, 32768, 65536}
=============================================================================
