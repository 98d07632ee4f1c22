------------------------------ MODULE CfbWords ------------------------------
(***************************************************************************)
(* The 32-bit words of a compound file (include/cfb.hpp): a sector number  *)
(* or one of four markers.  A marker 0xfffffffX is written here as the     *)
(* signed reading of the same word, -1 .. -4, so that sector numbers are   *)
(* exactly the naturals and "v >= size", an unsigned comparison in the     *)
(* code, holds of every marker.                                            *)
(***************************************************************************)
EXTENDS Integers

FREESECT   == -1        \* 0xffffffff, also spelled NOSTREAM
ENDOFCHAIN == -2        \* 0xfffffffe
FATSECT    == -3        \* 0xfffffffd
DIFSECT    == -4        \* 0xfffffffc

Markers == {FREESECT, ENDOFCHAIN, FATSECT, DIFSECT}

\* "v >= size" with v unsigned: the test that guards every table access.
OutOfRange(v, size) == v < 0 \/ v >= size

\* Blocks of `block` units needed for `size` units (util.hpp, getBlockNum).
BlockNum(size, block) == (size + block - 1) \div block
=============================================================================
