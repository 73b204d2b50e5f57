----------------------------- MODULE MessengerMC -----------------------------
(* Two tabs of one user, and one of another. *)
EXTENDS Messenger, TLC

CONSTANTS u1, u2, s1, s2, s3

MCUserOf == s1 :> u1 @@ s2 :> u1 @@ s3 :> u2

=============================================================================
