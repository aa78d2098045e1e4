---------------------------- MODULE MCRbnPosting ----------------------------
(* Instances of RbnPosting: one unit of time is five seconds or more. *)
EXTENDS RbnPosting

CONSTANTS a, b

MCHears == {<<a, 0>>, <<b, 0>>, <<b, 1>>}
MCRespot == [r \in Receivers |-> IF r = a THEN 3 ELSE 1]
=============================================================================
