----------------------------- MODULE MCHitlReview ----------------------------
(***************************************************************************)
(* Small instances of HitlReview for TLC: which lists have room.           *)
(***************************************************************************)
EXTENDS HitlReview, TLC

CONSTANTS a, b

Rooms(c, t, f, s) ==
  [capability_clusters |-> c, glossary_terms |-> t, frd_claims |-> f,
   hld |-> 1, security |-> s]

RoomReview == Rooms(2, 1, 0, 1)
RoomEntity == Rooms(0, 0, 0, 2)

Symmetry == Permutations(Names)
=============================================================================
