--------------------------- MODULE MCPackageCodec ---------------------------
(***************************************************************************)
(* A unit of four bytes: cells of 4 units, blocks of 16, digests of 5      *)
(* (SHA-1, which leaves a cell incomplete) and 16 units (SHA-512), and     *)
(* every document of up to three blocks and a bit.  A document has at      *)
(* least the 8 bytes DetectFormat asks for.                                *)
(***************************************************************************)
EXTENDS PackageCodec

MCSizes == 2 .. 54
=============================================================================
