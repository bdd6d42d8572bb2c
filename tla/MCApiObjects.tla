---------------------------- MODULE MCApiObjects ----------------------------
(***************************************************************************)
(* The API types with two values a field can be set to.                    *)
(***************************************************************************)
EXTENDS ApiObjects

CONSTANTS v1, v2

MCValues == {v1, v2}

\* A field is set or not, and set to the same or to another value.
MCSymmetry == Permutations(MCValues)
=============================================================================
