------------------------------ MODULE Accounts ------------------------------
(***************************************************************************)
(* UsersService and AdminsService: registration, login, email verification *)
(* and the two ways to a new password, with the one-time codes they mail.  *)
(* A handler is a chain of steps, one for each await that reads or writes; *)
(* other requests run, codes expire and the process dies between them.     *)
(*                                                                         *)
(* A request is made once.  Its kind is the handler; what else it carries  *)
(* (a code, a password) is chosen at the step that first looks at it.      *)
(* Hashing is one to one here: compare(p, hash(q)) says whether p = q.     *)
(***************************************************************************)
EXTENDS Naturals, Sequences, SequencesExt

CONSTANTS
  Requests,
  Users,       \* email addresses: at most one account each
  Passwords,
  FirstPassword,  \* the password of an account that exists at the start
  Codes,       \* the one-time codes; ten thousand in the program
  CodeLife,    \* the two minutes a code lives
  Blank        \* '', no request, no row

ASSUME AccountsAssumption ==
  /\ FirstPassword \in Passwords
  /\ Blank \notin Passwords \cup Requests \cup Users
  /\ CodeLife \in Nat \ {0}

VARIABLES
  pc,        \* pc[p]: where request p is
  kind,      \* kind[p]: its handler
  user,      \* user[p]: the email it names
  code,      \* code[p]: the code it issues or presents
  word,      \* word[p]: the new password it is about
  account,   \* account[u]: the row of iam_users
  wallets,   \* users with a row in wallets
  profiles,  \* users with a row in user_profiles or admin_profiles
  past,      \* past[u]: rows of password_histories, oldest first
  otp,       \* otp[t][c]: the row of code c in the table t of codes
  mail,      \* mail[p]: the job that p put into the email queue
  before,    \* before[p]: the requests over when p was made (history)
  used       \* used[p]: what past held when p was made (history)

local == <<code, word>>
rows == <<account, wallets, profiles, past>>
given == <<kind, user, before, used>>
vars == <<pc, given, local, rows, otp, mail>>

Tables == {"email", "reset", "change"}
Ended == {"done", "refused", "lost"}
Kinds == {"register", "registerAdmin", "verifyEmail", "requestEmailCode",
          "requestReset", "verifyReset", "reset", "change", "verifyChange"}
Setting == {"reset", "change"}  \* those that look into the histories
Labels == {"idle", "create", "retire", "save", "mail", "look", "expire",
           "use", "confirm", "verify", "history", "commit"} \cup Ended

Account(role, verified, password) ==
  [role |-> role, verified |-> verified, password |-> password]

NoAccount == Account("none", FALSE, Blank)

Row(u, secret, p) ==
  [user |-> u, left |-> CodeLife, used |-> FALSE, verified |-> FALSE,
   secret |-> secret, by |-> p]

NoRow == [user |-> Blank, left |-> 0, used |-> TRUE, verified |-> FALSE,
          secret |-> Blank, by |-> Blank]

RowType ==
  [user : Users \cup {Blank}, left : 0..CodeLife, used : BOOLEAN,
   verified : BOOLEAN, secret : Passwords \cup {Blank}, by : Requests \cup {Blank}]

TypeOK ==
  /\ pc \in [Requests -> Labels]
  /\ kind \in [Requests -> Kinds \cup {"none"}]
  /\ user \in [Requests -> Users \cup {Blank}]
  /\ code \in [Requests -> Codes \cup {Blank}]
  /\ word \in [Requests -> Passwords \cup {Blank}]
  /\ account \in [Users -> [role : {"none", "user", "admin"}, verified : BOOLEAN,
                            password : Passwords \cup {Blank}]]
  /\ wallets \in SUBSET Users
  /\ profiles \in SUBSET Users
  /\ past \in [Users -> Seq(Passwords)]
  /\ otp \in [Tables -> [Codes -> RowType]]
  /\ mail \in [Requests -> {"none", "waiting", "over"}]
  /\ before \in [Requests -> SUBSET Requests]
  /\ used \in [Requests -> SUBSET Passwords]

(* Some users have registered before.  Each has no code, as a process that *)
(* died after it created the account leaves the user, or has verified the  *)
(* address with one and waits for another to reset the password.           *)
Init ==
  /\ pc = [p \in Requests |-> "idle"]
  /\ kind = [p \in Requests |-> "none"]
  /\ user = [p \in Requests |-> Blank]
  /\ code = [p \in Requests |-> Blank]
  /\ word = [p \in Requests |-> Blank]
  /\ profiles \in SUBSET Users
  /\ wallets = profiles
  /\ past = [u \in Users |-> IF u \in profiles THEN <<FirstPassword>> ELSE << >>]
  /\ \E verified \in SUBSET profiles, earlier \in [Users -> Codes] :
       /\ IsInjective(earlier)
       /\ account = [u \in Users |->
            IF u \in profiles THEN Account("user", u \in verified, FirstPassword) ELSE NoAccount]
       /\ otp = [t \in Tables |-> [c \in Codes |->
            IF t # "change" /\ \E u \in verified : earlier[u] = c
            THEN [Row(CHOOSE u \in verified : earlier[u] = c, Blank, Blank)
                    EXCEPT !.used = (t = "email")]
            ELSE NoRow]]
  /\ mail = [p \in Requests |-> "none"]
  /\ before = [p \in Requests |-> {}]
  /\ used = [p \in Requests |-> {}]

-----------------------------------------------------------------------------
(* Steps that several handlers share.                                      *)

Step(p, from, to) == pc[p] = from /\ pc' = [pc EXCEPT ![p] = to]

\* What a handler has in its variables when it goes on to a label.
Keep(p, c, w, to) ==
  /\ code' = [code EXCEPT ![p] = IF to = "refused" THEN Blank ELSE c]
  /\ word' = [word EXCEPT ![p] = IF to = "refused" THEN Blank ELSE w]

Forget(p) == Keep(p, Blank, Blank, "refused")

\* A read that decides how the handler goes on, and changes nothing.
Read(p, from, to) ==
  /\ Step(p, from, to)
  /\ Keep(p, code[p], word[p], to)
  /\ UNCHANGED <<given, rows, otp, mail>>

(* A request comes and makes its first read; one that is refused for what  *)
(* it finds has no effect.                                                 *)
Enter(p, k, u, to) ==
  /\ Step(p, "idle", to)
  /\ IF to = "refused" THEN UNCHANGED given
     ELSE /\ kind' = [kind EXCEPT ![p] = k]
          /\ user' = [user EXCEPT ![p] = u]
          /\ before' = [before EXCEPT ![p] = {q \in Requests : pc[q] \in Ended}]
          /\ used' = [used EXCEPT ![p] = IF k \in Setting THEN ToSet(past[u]) ELSE {}]
  /\ UNCHANGED <<local, rows, otp, mail>>

HasRole(u, role) == account[u].role = role

FindUser(p, k, to) ==
  \E u \in Users : Enter(p, k, u, IF HasRole(u, "user") THEN to ELSE "refused")

(* Mutant: the address is not unique in iam_users, save overwrites.        *)
AddressIsFree(u) == TRUE

EmailIsFree(u) == account[u] = NoAccount

(* The transaction of a registration: four inserts, of which the first     *)
(* fails when the address is taken, also by an account of another role.    *)
CreateAccount(p, role, verified, to) ==
  \/ /\ EmailIsFree(user[p])
     /\ Step(p, "create", to)
     /\ \E w \in Passwords :
          /\ account' = [account EXCEPT ![user[p]] = Account(role, verified, w)]
          /\ past' = [past EXCEPT ![user[p]] = Append(@, w)]
     /\ profiles' = profiles \cup {user[p]}
     /\ wallets' = wallets \cup {user[p]}
     /\ UNCHANGED <<given, local, otp, mail>>
  \/ /\ ~EmailIsFree(user[p])
     /\ Read(p, "create", "refused")

SetRow(t, c, row) == otp' = [otp EXCEPT ![t][c] = row]

(* Mutant: only the codes that have expired are marked used.               *)
RetireExpired(t, u) ==
  otp' = [otp EXCEPT ![t] = [c \in Codes |->
            IF otp[t][c].user = u /\ otp[t][c].left = 0
            THEN [otp[t][c] EXCEPT !.used = TRUE] ELSE otp[t][c]]]

\* UPDATE ... SET is_used = true WHERE iam_user_id = u
RetireAll(t, u) ==
  otp' = [otp EXCEPT ![t] = [c \in Codes |->
            IF otp[t][c].user = u
            THEN [otp[t][c] EXCEPT !.used = TRUE] ELSE otp[t][c]]]

RetireCodes(p, t) ==
  /\ Step(p, "retire", "save")
  /\ RetireAll(t, user[p])
  /\ UNCHANGED <<given, local, rows, mail>>

(* A code is drawn at random; codes are unique in their table, and rows    *)
(* stay when they are used: a code that was ever drawn before is an error. *)
SaveCode(p, t, secret) ==
  \E c \in Codes :
    \/ /\ otp[t][c] = NoRow
       /\ Step(p, "save", "mail")
       /\ SetRow(t, c, Row(user[p], secret, p))
       /\ Forget(p)
       /\ UNCHANGED <<given, rows, mail>>
    \/ /\ otp[t][c] # NoRow
       /\ Read(p, "save", "refused")

(* dispatchEmail: the id of the job is type, address and millisecond, and  *)
(* BullMQ drops a job whose id it has seen.                                *)
SameJob(p, q) == (kind[p] = "register") <=> (kind[q] = "register")

Dispatch(p, to) ==
  /\ Step(p, "mail", to)
  /\ \/ mail' = [mail EXCEPT ![p] = "waiting"]
     \/ /\ \E q \in Requests :
             mail[q] # "none" /\ user[q] = user[p] /\ SameJob(p, q)
        /\ mail' = [mail EXCEPT ![p] = "over"]
  /\ UNCHANGED <<given, local, rows, otp>>

(* Mutant: any row of the code is taken, used or not.                      *)
MatchesAny(t, c, u) == otp[t][c].user = u

Matches(t, c, u) == otp[t][c].user = u /\ ~otp[t][c].used

(* findOne by code, user and isUsed: false, then the expiry.               *)
LookUpCode(p, t, to) ==
  \/ \E c \in Codes :
       LET label == IF otp[t][c].left = 0 THEN "expire" ELSE to
       IN /\ Matches(t, c, user[p])
          /\ Step(p, "look", label)
          /\ Keep(p, c, otp[t][c].secret, label)
          /\ UNCHANGED <<given, rows, otp, mail>>
  \/ /\ \E c \in Codes : ~Matches(t, c, user[p])
     /\ Read(p, "look", "refused")

Held(p, t) == otp[t][code[p]]

\* The update of an expired row before Gone is thrown.
ExpireCode(p, t) ==
  /\ Step(p, "expire", "refused")
  /\ SetRow(t, code[p], [Held(p, t) EXCEPT !.used = TRUE, !.secret = Blank])
  /\ Forget(p)
  /\ UNCHANGED <<given, rows, mail>>

(* Mutant: the new password is not added to the histories.                 *)
ReplaceOnly(u, w) ==
  /\ account' = [account EXCEPT ![u].password = w]
  /\ UNCHANGED past

ReplacePassword(u, w) ==
  /\ account' = [account EXCEPT ![u].password = w]
  /\ past' = [past EXCEPT ![u] = Append(@, w)]

(* Mutant: the row of the code is left as it was.                          *)
CommitUnused(p, t) ==
  /\ Step(p, "commit", "done")
  /\ ReplacePassword(user[p], word[p])
  /\ UNCHANGED <<given, local, wallets, profiles, otp, mail>>

\* The transaction: user, password history, code.
CommitPassword(p, t) ==
  /\ Step(p, "commit", "done")
  /\ ReplacePassword(user[p], word[p])
  /\ SetRow(t, code[p], [Held(p, t) EXCEPT !.used = TRUE, !.secret = Blank])
  /\ UNCHANGED <<given, local, wallets, profiles, mail>>

(* Mutant: the new password is compared with nothing.                      *)
NeverUsed(u, w) == TRUE

Unused(u, w) == w \notin ToSet(past[u])

\* find of the histories and the comparison with each of them.
CheckHistory(p, to) ==
  \E w \in Passwords :
    LET label == IF Unused(user[p], w) THEN to ELSE "refused"
    IN /\ Step(p, "history", label)
       /\ Keep(p, code[p], w, label)
       /\ UNCHANGED <<given, rows, otp, mail>>

-----------------------------------------------------------------------------
(* The handlers.                                                           *)

(* Mutant: the welcome email is queued before its code is saved.           *)
RegisterMailsFirst(p) ==
  \/ \E u \in Users :
       Enter(p, "register", u, IF HasRole(u, "user") THEN "refused" ELSE "create")
  \/ /\ kind[p] = "register"
     /\ \/ CreateAccount(p, "user", FALSE, "mail")
        \/ Dispatch(p, "save")
        \/ SaveCode(p, "email", Blank)

Register(p) ==
  \/ \E u \in Users :
       Enter(p, "register", u, IF HasRole(u, "user") THEN "refused" ELSE "create")
  \/ /\ kind[p] = "register"
     /\ \/ CreateAccount(p, "user", FALSE, "save")
        \/ SaveCode(p, "email", Blank)
        \/ Dispatch(p, "done")

RegisterAdmin(p) ==
  \/ \E u \in Users :
       Enter(p, "registerAdmin", u, IF HasRole(u, "admin") THEN "refused" ELSE "create")
  \/ kind[p] = "registerAdmin" /\ CreateAccount(p, "admin", TRUE, "done")

(* What login asks of the row before the module Sessions takes over.       *)
MayLogin(u, w) ==
  account[u].role = "user" /\ account[u].verified /\ account[u].password = w

UseCode(p, to) ==
  /\ Step(p, "use", to)
  /\ SetRow("email", code[p], [Held(p, "email") EXCEPT !.used = TRUE])
  /\ UNCHANGED <<given, local, rows, mail>>

ConfirmEmail(p, to) ==
  /\ Step(p, "confirm", to)
  /\ account' = [account EXCEPT ![user[p]].verified = TRUE]
  /\ UNCHANGED <<given, local, wallets, profiles, past, otp, mail>>

(* Mutant: the email is marked verified before the code is used up.        *)
ConfirmThenUse(p) ==
  \/ FindUser(p, "verifyEmail", "look")
  \/ /\ kind[p] = "verifyEmail"
     /\ \/ LookUpCode(p, "email", "confirm")
        \/ ExpireCode(p, "email")
        \/ ConfirmEmail(p, "use")
        \/ UseCode(p, "done")

VerifyEmailToken(p) ==
  \/ FindUser(p, "verifyEmail", "look")
  \/ /\ kind[p] = "verifyEmail"
     /\ \/ LookUpCode(p, "email", "use")
        \/ ExpireCode(p, "email")
        \/ UseCode(p, "confirm")
        \/ ConfirmEmail(p, "done")

(* A new code: the old ones of the user are retired, then it is saved and  *)
(* mailed.                                                                 *)
IssueCode(p, t) == RetireCodes(p, t) \/ SaveCode(p, t, Blank) \/ Dispatch(p, "done")

\* Only requestNewToken asks for a new code to verify an email address.
RequestNewToken(p) ==
  \/ FindUser(p, "requestEmailCode", "retire")
  \/ kind[p] = "requestEmailCode" /\ IssueCode(p, "email")

\* requestNewToken has a chain of the same steps for this purpose.
PasswordResetRequest(p) ==
  \/ FindUser(p, "requestReset", "retire")
  \/ kind[p] = "requestReset" /\ IssueCode(p, "reset")

(* isUsed: false is written, whatever has happened to the row meanwhile.   *)
VerifyPasswordResetToken(p) ==
  \/ FindUser(p, "verifyReset", "look")
  \/ /\ kind[p] = "verifyReset"
     /\ \/ LookUpCode(p, "reset", "verify")
        \/ ExpireCode(p, "reset")
        \/ /\ Step(p, "verify", "done")
           /\ SetRow("reset", code[p],
                     [Held(p, "reset") EXCEPT !.used = FALSE, !.verified = TRUE])
           /\ UNCHANGED <<given, local, rows, mail>>

(* Mutant: passwordReset does not ask whether the code was verified.       *)
MayReset(row) == TRUE

MayResetWith(row) == row.verified

(* passwordReset takes any unused code of the user, and no expiry counts.  *)
PickCode(p) ==
  \/ \E c \in Codes :
       LET label == IF MayResetWith(otp["reset"][c]) THEN "history" ELSE "refused"
       IN /\ Matches("reset", c, user[p])
          /\ Step(p, "look", label)
          /\ Keep(p, c, Blank, label)
          /\ UNCHANGED <<given, rows, otp, mail>>
  \/ /\ \A c \in Codes : ~Matches("reset", c, user[p])
     /\ Read(p, "look", "refused")

PasswordReset(p) ==
  \/ FindUser(p, "reset", "look")
  \/ /\ kind[p] = "reset"
     /\ PickCode(p) \/ CheckHistory(p, "commit") \/ CommitPassword(p, "reset")

(* The user has an access token, which only a verified address is given.   *)
(* The old password, the histories, then the new hash waits with a code.   *)
ChangePassword(p) ==
  \/ \E u \in Users, w \in Passwords :
       /\ account[u].verified
       /\ Enter(p, "change", u, IF account[u].password = w THEN "history" ELSE "refused")
  \/ /\ kind[p] = "change"
     /\ \/ CheckHistory(p, "save")
        \/ SaveCode(p, "change", word[p])
        \/ Dispatch(p, "done")

VerifyChangePasswordToken(p) ==
  \/ FindUser(p, "verifyChange", "look")
  \/ /\ kind[p] = "verifyChange"
     /\ \/ LookUpCode(p, "change", "commit")
        \/ ExpireCode(p, "change")
        \/ CommitPassword(p, "change")

-----------------------------------------------------------------------------
(* EmailProcessor: no attempts are configured for the queue, so a failure  *)
(* is the end of a job as much as a success is.                            *)
ProcessMail(p) ==
  /\ mail[p] = "waiting"
  /\ mail' = [mail EXCEPT ![p] = "over"]
  /\ UNCHANGED <<pc, given, local, rows, otp>>

Tick ==
  /\ otp' = [t \in Tables |-> [c \in Codes |->
       [otp[t][c] EXCEPT !.left = IF @ > 0 THEN @ - 1 ELSE 0]]]
  /\ UNCHANGED <<pc, given, local, rows, mail>>

(* Handlers end without an answer: one by an error of the database or the  *)
(* queue, or all that run when the process dies.                           *)
Crash ==
  \E dead \in SUBSET {p \in Requests : pc[p] \notin Ended \cup {"idle"}} :
    /\ dead # {}
    /\ pc' = [p \in Requests |-> IF p \in dead THEN "lost" ELSE pc[p]]
    /\ code' = [p \in Requests |-> IF p \in dead THEN Blank ELSE code[p]]
    /\ word' = [p \in Requests |-> IF p \in dead THEN Blank ELSE word[p]]
    /\ UNCHANGED <<given, rows, otp, mail>>

Serve(p) ==
  \/ Register(p) \/ RegisterAdmin(p)
  \/ VerifyEmailToken(p) \/ RequestNewToken(p) \/ PasswordResetRequest(p)
  \/ VerifyPasswordResetToken(p) \/ PasswordReset(p)
  \/ ChangePassword(p) \/ VerifyChangePasswordToken(p)

Next ==
  \/ Tick \/ Crash
  \/ \E p \in Requests : Serve(p) \/ ProcessMail(p)

Spec == Init /\ [][Next]_vars

-----------------------------------------------------------------------------
Done(k) == {p \in Requests : kind[p] = k /\ pc[p] = "done"}

Overlap(p, q) ==
  {p, q} \subseteq Requests /\ p \notin before[q] /\ q \notin before[p]

(* An account comes with its wallet, its profile and its password history, *)
(* and its password is the last of that history: every handler that sets a *)
(* password writes both or neither, whatever else runs or dies.            *)
AccountIsWhole ==
  \A u \in Users :
    IF account[u] = NoAccount
    THEN u \notin wallets \cup profiles /\ past[u] = << >>
    ELSE u \in wallets \cap profiles /\ past[u] # << >> /\ account[u].password = Last(past[u])

(* An email address is registered at most once: two registrations that     *)
(* both found no account cannot both be answered with one.                 *)
RegisteredOnce ==
  \A p, q \in Done("register") \cup Done("registerAdmin") : user[p] = user[q] => p = q

(* A user can log in only when a code that was mailed to the address has   *)
(* been used up, also when the process dies in between; an admin's address *)
(* needs none.                                                             *)
VerifiedByUsedCode ==
  \A u \in Users :
    (\E w \in Passwords : MayLogin(u, w)) =>
      \E c \in Codes : otp["email"][c].user = u /\ otp["email"][c].used

\* A verification of code c that is done and was not over when q was made.
Revived(c, q) ==
  \E v \in Done("verifyReset") : code[v] = c /\ Overlap(v, q)

(* A request for a new code ends the codes before it.  A code that was     *)
(* issued before the request for another one of its user, and that can be  *)
(* verified again (it is unused, verified or not), is a code of a password *)
(* reset that a verification wrote back: one that ran beside the newer     *)
(* request.  Nothing else leaves two codes with one user, but for requests *)
(* for them that overlapped.                                               *)
OlderCodesAreRetired ==
  \A t \in {"email", "reset"}, c, d \in Codes :
    LET older == otp[t][c].by
        newer == otp[t][d].by
    IN /\ c # d /\ otp[t][c].user = otp[t][d].user
       /\ newer \in Requests /\ older \in before[newer] \cup {Blank}
       /\ ~otp[t][c].used
       => t = "reset" /\ Revived(c, newer)

(* Every email in the queue carries a code that is in its table: no user   *)
(* is mailed a code that the database does not know.                       *)
MailedCodeIsSaved ==
  \A p \in Requests :
    mail[p] # "none" => \E t \in Tables, c \in Codes : otp[t][c].by = p

(* passwordReset changes the password only for a code that the user sent   *)
(* to verifyPasswordResetToken while it was fresh.                         *)
ResetNeedsVerifiedCode ==
  \A p \in Done("reset") :
    \E q \in Done("verifyReset") : user[q] = user[p] /\ code[q] = code[p]

(* passwordReset uses its code up: the same code resets the password again *)
(* only if it was verified anew, during the first reset or after it, or if *)
(* the two resets overlapped.                                              *)
ResetUsesCodeUp ==
  \A p, q \in Done("reset") :
    code[p] = code[q] /\ p \in before[q] =>
      \E v \in Done("verifyReset") : code[v] = code[p] /\ v \notin before[p]

(* "You cannot use a password you have used before": a password that was   *)
(* in the user's history when passwordReset was asked for it is not set by *)
(* it, and one that was there when changePassword was asked for it is not  *)
(* set by verifyChangePasswordToken, which compares with nothing.  A       *)
(* password that comes into the history after changePassword was asked is  *)
(* not refused: two codes may hold the same password.                      *)
OldPasswordIsRefused ==
  /\ \A p \in Done("reset") : word[p] \notin used[p]
  /\ \A p \in Done("verifyChange") : word[p] \notin used[otp["change"][code[p]].by]
=============================================================================
