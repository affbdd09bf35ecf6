-------------------------------- MODULE MCShim --------------------------------
(***************************************************************************)
(* Shim with a granule of two bytes, pages of eight and spans of two pages *)
(* in classes of 2, 4 and 6.  A block of 6 that starts in mid-span is not  *)
(* aligned to 4, and two pages are an alignment no span need have.         *)
(***************************************************************************)
EXTENDS Shim

SmallClasses == {2, 4, 6}

\* Nothing, a class less a byte, and a large block.
SomeSizes == {0, 5, 7}

\* A product with a class, and one that overflows to a small number.
Products == {<<2, 3>>, <<11, 6>>}

\* Shifts inside a small and a large block, the guard, a bad alignment.
Alignments == {<<4, 3>>, <<16, 1>>, <<4, 61>>, <<3, 2>>}

SomeStrings == {<<4, 2>>}
=============================================================================
