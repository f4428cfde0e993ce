------------------------------ MODULE Profiles ------------------------------
(***************************************************************************)
(* The profiles of users and of admins, behind the guards of their routes. *)
(* A request passes AuthenticationGuard and RolesGuard where its route has *)
(* them, then UserProfileService or AdminProfileService reads a row and,   *)
(* for an update, saves the whole row it read with one part changed.       *)
(*                                                                         *)
(* A profile has two parts: "own", what its owner may write (names, phone, *)
(* department), and "given", what an admin writes (kycStatus, the scope of *)
(* permissions).  A part is the request that wrote it.                     *)
(***************************************************************************)
EXTENDS FiniteSets

CONSTANTS
  Requests,
  People,     \* the rows of iam_users
  Role,       \* Role[u]: "USER", "ADMIN" or "SUPER_ADMIN"
  Nobody      \* undefined: no token, no user, no request

VARIABLES
  pc,       \* pc[p]: where request p is
  route,    \* route[p]: the handler it is for
  token,    \* token[p]: the user whose access token it carries
  active,   \* active[p]: request[REQUEST_USER_KEY].sub, for @ActiveUser
  named,    \* named[p]: the id in the path
  held,     \* held[p]: the row it has read
  rows      \* rows[u]: the profile of u

vars == <<pc, route, token, active, named, held, rows>>

Staff == {"ADMIN", "SUPER_ADMIN"}

(* A route: its table, whether its controller has the two guards, whom     *)
(* @Roles names, whose profile it is about, what it writes.                *)
Handler(table, guarded, roles, whose, writes) ==
  [table |-> table, guarded |-> guarded, roles |-> roles, whose |-> whose, writes |-> writes]

UserRoutes ==
  { Handler("user", FALSE, {}, "active", "nothing"),    \* getMe
    Handler("user", FALSE, {}, "active", "own"),        \* updateMe
    Handler("user", FALSE, Staff, "named", "nothing"),  \* findOne
    Handler("user", FALSE, Staff, "named", "given") }   \* updateKyc

AdminRoutes ==
  { Handler("admin", TRUE, Staff, "active", "nothing"),           \* getMe
    Handler("admin", TRUE, Staff, "active", "own"),               \* updateMe
    Handler("admin", TRUE, {"SUPER_ADMIN"}, "all", "nothing"),    \* findAll
    Handler("admin", TRUE, {"SUPER_ADMIN"}, "named", "given") }   \* updateScope

NoRoute == Handler("none", FALSE, {}, "all", "nothing")

TableOf(u) == IF Role[u] = "USER" THEN "user" ELSE "admin"

Row(u, own, given) == [user |-> u, own |-> own, given |-> given]

NoRow == Row(Nobody, Nobody, Nobody)

Init ==
  /\ pc = [p \in Requests |-> "idle"]
  /\ route = [p \in Requests |-> NoRoute]
  /\ token = [p \in Requests |-> Nobody]
  /\ active = [p \in Requests |-> Nobody]
  /\ named = [p \in Requests |-> Nobody]
  /\ held = [p \in Requests |-> NoRow]
  /\ rows = [u \in People |-> Row(u, Nobody, Nobody)]

Step(p, from, to) == pc[p] = from /\ pc' = [pc EXCEPT ![p] = to]

Come(p) ==
  /\ \E r \in UserRoutes \cup AdminRoutes :
       /\ Step(p, "idle", IF r.guarded THEN "authenticate" ELSE "read")
       /\ route' = [route EXCEPT ![p] = r]
  /\ \E u \in People : token' = [token EXCEPT ![p] = u]
  /\ \E u \in People : named' = [named EXCEPT ![p] = u]
  /\ UNCHANGED <<active, held, rows>>

(* AccessTokenGuard verifies the token and puts its payload into the       *)
(* request, for RolesGuard and for @ActiveUser; without it, nobody does.   *)
AccessTokenGuard(p) ==
  /\ \/ /\ Step(p, "authenticate", "authorize")
        /\ active' = [active EXCEPT ![p] = token[p]]
     \/ /\ Step(p, "authenticate", "refused")
        /\ UNCHANGED active
  /\ UNCHANGED <<route, token, named, held, rows>>

RolesGuard(p) ==
  /\ Step(p, "authorize",
          IF route[p].roles = {} \/ Role[active[p]] \in route[p].roles
          THEN "read" ELSE "refused")
  /\ UNCHANGED <<route, token, active, named, held, rows>>

Wanted(p) == IF route[p].whose = "active" THEN active[p] ELSE named[p]

(* findOne({ where: { iamUserId } }): TypeORM leaves a condition out whose *)
(* value is undefined, and any row of the table then answers the query.    *)
Found(p) ==
  {u \in People : TableOf(u) = route[p].table /\ Wanted(p) \in {u, Nobody}}

FindByUserId(p) ==
  /\ route[p].whose # "all"
  /\ \/ \E u \in Found(p) :
          /\ Step(p, "read", IF route[p].writes = "nothing" THEN "done" ELSE "save")
          /\ held' = [held EXCEPT ![p] = rows[u]]
     \/ /\ Found(p) = {}
        /\ Step(p, "read", "refused")
        /\ UNCHANGED held
  /\ UNCHANGED <<route, token, active, named, rows>>

(* find() without a condition: the answer is the whole table.              *)
FindAll(p) ==
  /\ route[p].whose = "all"
  /\ Step(p, "read", "done")
  /\ UNCHANGED <<route, token, active, named, held, rows>>

(* save writes every column that differs from the row as it is now: all of *)
(* what was read comes back, with the part that the request is about.      *)
Save(p) ==
  /\ Step(p, "save", "done")
  /\ held' = [held EXCEPT ![p] =
       IF route[p].writes = "own" THEN [@ EXCEPT !.own = p] ELSE [@ EXCEPT !.given = p]]
  /\ rows' = [rows EXCEPT ![held[p].user] = held'[p]]
  /\ UNCHANGED <<route, token, active, named>>

Next ==
  \E p \in Requests :
    \/ Come(p) \/ AccessTokenGuard(p) \/ RolesGuard(p)
    \/ FindByUserId(p) \/ FindAll(p) \/ Save(p)

Spec == Init /\ [][Next]_vars

-----------------------------------------------------------------------------
\* Who may give the part that an owner may not write.
MayGive(u) == IF TableOf(u) = "user" THEN Staff ELSE {"SUPER_ADMIN"}

(* README: updateKyc "requires Admin login", and the scope of an admin is  *)
(* for a super admin: no request of anybody else changes the part of a     *)
(* profile that is given, not by writing back what it has read either.     *)
GivenByStaff ==
  [][\A p \in Requests, u \in People :
       Save(p) /\ rows'[u].given # rows[u].given => Role[token[p]] \in MayGive(u)]_vars
=============================================================================
