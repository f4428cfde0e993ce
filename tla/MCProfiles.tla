----------------------------- MODULE MCProfiles -----------------------------
(* Two users, an admin and a super admin.                                  *)
EXTENDS Profiles, TLC

CONSTANTS u1, u2, a1, s1

MCRole == u1 :> "USER" @@ u2 :> "USER" @@ a1 :> "ADMIN" @@ s1 :> "SUPER_ADMIN"
=============================================================================
