------------------------------ MODULE MCAttack ------------------------------
(***************************************************************************)
(* Every dictionary of up to MaxWords words over three strings, one of     *)
(* them empty: the password at any place, twice, or missing.               *)
(***************************************************************************)
EXTENDS Attack

CONSTANT MaxWords

MCDictionaries == UNION {[1 .. n -> {"x", "p", ""}] : n \in 0 .. MaxWords}
=============================================================================
