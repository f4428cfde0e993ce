------------------------------ MODULE Sessions ------------------------------
(***************************************************************************)
(* Sessions: generateJwtTokens signs an access and a refresh token and     *)
(* keeps the id of the refresh token under one key per user;  refreshToken *)
(* exchanges a refresh token for a new pair;  logout deletes the key.      *)
(* Every await is a point where other requests run.                        *)
(*                                                                         *)
(* A request is made once.  The id of the pair it signs is the request     *)
(* itself: randomUUID never repeats an id.                                 *)
(***************************************************************************)
EXTENDS RedisStore

CONSTANTS
  Requests,    \* the requests of a behaviour
  Users,
  AccessTtl,   \* accessTokenTtl: life of an access token
  RefreshTtl   \* refreshTokenTtl: life of a refresh token and of its key

ASSUME SessionsAssumption ==
  /\ AccessTtl \in Nat \ {0}
  /\ RefreshTtl \in Nat \ {0}
  /\ Gone \notin Requests

VARIABLES
  pc,        \* pc[p]: where request p is
  user,      \* user[p]: the user it is about
  shown,     \* shown[p]: the request whose pair it presents, Gone without
  access,    \* access[p]: time left to the access token p signed
  refresh,   \* refresh[p]: time left to the refresh token p signed
  redis,     \* Redis: refresh_token:<user>
  before     \* before[p]: the requests over when p was made (history)

vars == <<pc, user, shown, access, refresh, redis, before>>

Busy == {"sign", "insert", "validate", "invalidate", "logout"}

\* "issued": answered with a new pair; "out": logged out; "refused": an
\* error; "lost": the process died.
Ended == {"issued", "out", "refused", "lost"}

TypeOK ==
  /\ pc \in [Requests -> {"idle"} \cup Busy \cup Ended]
  /\ user \in [Requests -> Users]
  /\ shown \in [Requests -> Requests \cup {Gone}]
  /\ access \in [Requests -> 0..AccessTtl]
  /\ refresh \in [Requests -> 0..RefreshTtl]
  /\ redis \in [Users -> Slots(Requests, RefreshTtl)]
  /\ before \in [Requests -> SUBSET Requests]

Init ==
  /\ pc = [p \in Requests |-> "idle"]
  /\ user \in [Requests -> Users]
  /\ shown = [p \in Requests |-> Gone]
  /\ access = [p \in Requests |-> 0]
  /\ refresh = [p \in Requests |-> 0]
  /\ redis = EmptyDb(Users)
  /\ before = [p \in Requests |-> {}]

Over == {p \in Requests : pc[p] \in Ended}

Goto(p, label) == pc' = [pc EXCEPT ![p] = label]

Start(p, label) ==
  /\ pc[p] = "idle"
  /\ Goto(p, label)
  /\ before' = [before EXCEPT ![p] = Over]
  /\ UNCHANGED <<user, access, refresh, redis>>

-----------------------------------------------------------------------------
(* The two commands of RefreshTokenStorageService that write.              *)

(* Mutant: the key lives as long as an access token.                       *)
InsertIdForAccess(u, id) == redis' = Set(redis, u, id, AccessTtl)

InsertId(u, id) == redis' = Set(redis, u, id, RefreshTtl)

(* Mutant: logout and refreshToken leave the key alone.                    *)
KeepId(u) == redis' = redis

InvalidateId(u) == redis' = Del(redis, u)

(* login, past its checks: the pair is signed next.                        *)
StartLogin(p) == Start(p, "sign") /\ UNCHANGED shown

(* refreshToken: the JWT is one that a request was answered with and has   *)
(* not expired; its user exists, since users are never deleted.            *)
StartRefresh(p) ==
  \E q \in Requests :
    /\ pc[q] = "issued"
    /\ user[q] = user[p]
    /\ shown' = [shown EXCEPT ![p] = q]
    /\ Start(p, IF refresh[q] > 0 THEN "validate" ELSE "refused")

(* logout: the guard asks for an access token that has not expired.        *)
StartLogout(p) ==
  \E q \in Requests :
    /\ pc[q] = "issued"
    /\ user[q] = user[p]
    /\ shown' = [shown EXCEPT ![p] = q]
    /\ Start(p, IF access[q] > 0 THEN "logout" ELSE "refused")

(* validate: a missing key throws, another id does not match.              *)
Validate(p) ==
  /\ pc[p] = "validate"
  /\ Goto(p, IF Get(redis, user[p]) = shown[p] THEN "invalidate" ELSE "refused")
  /\ UNCHANGED <<user, shown, access, refresh, redis, before>>

Invalidate(p) ==
  /\ pc[p] = "invalidate"
  /\ InvalidateId(user[p])
  /\ Goto(p, "sign")
  /\ UNCHANGED <<user, shown, access, refresh, before>>

SignPair(p) ==
  /\ pc[p] = "sign"
  /\ access' = [access EXCEPT ![p] = AccessTtl]
  /\ refresh' = [refresh EXCEPT ![p] = RefreshTtl]
  /\ Goto(p, "insert")
  /\ UNCHANGED <<user, shown, redis, before>>

(* Mutant: the pair is signed anew for the id that was presented.          *)
InsertShown(p) ==
  /\ pc[p] = "insert"
  /\ InsertId(user[p], IF shown[p] = Gone THEN p ELSE shown[p])
  /\ Goto(p, "issued")
  /\ UNCHANGED <<user, shown, access, refresh, before>>

Insert(p) ==
  /\ pc[p] = "insert"
  /\ InsertId(user[p], p)
  /\ Goto(p, "issued")
  /\ UNCHANGED <<user, shown, access, refresh, before>>

Logout(p) ==
  /\ pc[p] = "logout"
  /\ InvalidateId(user[p])
  /\ Goto(p, "out")
  /\ UNCHANGED <<user, shown, access, refresh, before>>

-----------------------------------------------------------------------------
LessLeft(n) == IF n > 0 THEN n - 1 ELSE 0

Tick ==
  /\ access' = [p \in Requests |-> LessLeft(access[p])]
  /\ refresh' = [p \in Requests |-> LessLeft(refresh[p])]
  /\ redis' = Elapse(redis)
  /\ UNCHANGED <<pc, user, shown, before>>

(* Handlers end without an answer: one by an error of a store, or all that *)
(* run when the process dies.  Redis keeps what was stored.                *)
Crash ==
  \E dead \in SUBSET {p \in Requests : pc[p] \in Busy} :
    /\ dead # {}
    /\ pc' = [p \in Requests |-> IF p \in dead THEN "lost" ELSE pc[p]]
    /\ UNCHANGED <<user, shown, access, refresh, redis, before>>

Serve(p) ==
  \/ StartLogin(p) \/ StartRefresh(p) \/ StartLogout(p)
  \/ Validate(p) \/ Invalidate(p) \/ SignPair(p) \/ Insert(p) \/ Logout(p)

Next == Tick \/ Crash \/ \E p \in Requests : Serve(p)

Spec == Init /\ [][Next]_vars

-----------------------------------------------------------------------------
(* A refresh token that refreshToken has exchanged for a new pair never    *)
(* refreshes again, whatever else was running: the id under the user's key *)
(* is not the one it carries.                                              *)
ExchangedTokenIsDead ==
  \A p \in Requests :
    pc[p] = "issued" /\ shown[p] # Gone => Get(redis, user[p]) # shown[p]

(* Once logout is answered, no pair issued before the logout was asked for *)
(* can be refreshed: only a login or refreshToken that ran at the same     *)
(* time, or came later, can have left a session behind.                    *)
LogoutEndsSession ==
  \A p \in Requests :
    pc[p] = "out" => Get(redis, user[p]) \notin before[p]

(* logout is there for "invalidating their session": what lives under the  *)
(* user's key afterwards does not stem from a pair answered before it was  *)
(* asked for, not through a refresh that was under way either.             *)
LogoutIsNotUndone ==
  \A l, p \in Requests :
    pc[l] = "out" /\ Get(redis, user[l]) = p => shown[p] \notin before[l]

\* Nothing of r has changed the key of q's user after q was made.
Harmless(r, q) ==
  \/ user[r] # user[q]
  \/ pc[r] \in {"idle", "refused"}
  \/ r \in before[q]

(* A pair that generateJwtTokens answered can be refreshed for as long as  *)
(* its refresh token is valid, unless a login, refreshToken or logout of   *)
(* the same user came later or overlapped: the key outlives the token.     *)
AnsweredSessionIsLive ==
  \A q \in Requests :
    /\ pc[q] = "issued"
    /\ refresh[q] > 0
    /\ \A r \in Requests \ {q} : Harmless(r, q)
    => Get(redis, user[q]) = q
=============================================================================
