----------------------------- MODULE StreamStore ----------------------------
(***************************************************************************)
(* What a compound file promises its user: the streams put into it come    *)
(* out of it as they went in.  A reader may refuse a file, and then it     *)
(* hands out nothing.                                                      *)
(***************************************************************************)
CONSTANTS
    Contents,       \* the maps from stream names to contents that are tried
    Nothing         \* not a map: nothing has been handed out

VARIABLES
    stored,         \* the streams put in
    retrieved       \* the streams handed out, or Nothing

vars == <<stored, retrieved>>

Init ==
    /\ stored \in Contents
    /\ retrieved = Nothing

Retrieve ==
    /\ retrieved = Nothing
    /\ retrieved' = stored
    /\ UNCHANGED stored

Spec == Init /\ [][Retrieve]_vars
=============================================================================
