----------------------------- MODULE MCPublish ------------------------------
(***************************************************************************)
(* One `once` for every channel and a second one, forced, for one of them. *)
(***************************************************************************)
EXTENDS Publish

CONSTANTS p1, p2, c1, c2

MCCovers == p1 :> {c1, c2} @@ p2 :> {c2}

=============================================================================
