----------------------------- MODULE CommunityMC -----------------------------
(* Three sessions: two of one user and one of an admin. *)
EXTENDS Community, TLC

CONSTANTS u1, u2, s1, s2, s3, a1

MCFirstSlug == a1 :> 1
MCUserOf == s1 :> u1 @@ s2 :> u1 @@ s3 :> u2

=============================================================================
