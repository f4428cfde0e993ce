--------------------------- MODULE AccountsProofs ---------------------------
(***************************************************************************)
(* Theorems about Accounts, for any requests, users, passwords, codes and  *)
(* life of a code.                                                         *)
(***************************************************************************)
EXTENDS Accounts, TLAPS

\* The table of codes that a handler is about.
TableOf(k) ==
  CASE k \in {"register", "requestEmailCode", "verifyEmail"} -> "email"
    [] k \in {"requestReset", "verifyReset", "reset"} -> "reset"
    [] OTHER -> "change"

Registering == {"register", "registerAdmin"}
Requesting == {"requestEmailCode", "requestReset"}
Verifying == {"verifyEmail", "verifyReset", "verifyChange"}
Issuing == {"register", "change"} \cup Requesting

\* Where a handler can be.
On(k, label) ==
  \/ label = "create" /\ k \in Registering
  \/ label = "retire" /\ k \in Requesting
  \/ label \in {"save", "mail"} /\ k \in Issuing
  \/ label = "look" /\ k \in Verifying \cup {"reset"}
  \/ label = "expire" /\ k \in Verifying
  \/ label \in {"use", "confirm"} /\ k = "verifyEmail"
  \/ label = "verify" /\ k = "verifyReset"
  \/ label = "history" /\ k \in {"reset", "change"}
  \/ label = "commit" /\ k \in {"reset", "verifyChange"}

\* Where a request has a code in its variables.
HasCode(p) ==
  \/ pc[p] \in {"expire", "use", "confirm", "verify", "commit"}
  \/ pc[p] = "history" /\ kind[p] = "reset"

PlaceInv ==
  \A p \in Requests :
    /\ pc[p] = "idle" => kind[p] = "none"
    /\ pc[p] \notin Ended \cup {"idle"} => On(kind[p], pc[p])
    /\ kind[p] # "none" => user[p] \in Users
    /\ HasCode(p) => code[p] \in Codes
    /\ pc[p] = "commit" => word[p] \in Passwords
    /\ pc[p] = "save" /\ kind[p] = "change" => word[p] \in Passwords

OverStaysOver ==
  \A p \in Requests : \A q \in before[p] : pc[q] \in Ended

HasAccount(u) == account[u].role # "none"

\* A registration that has made its account.
Created(p) == kind[p] \in Registering /\ pc[p] \in {"save", "mail", "done"}

(* Whoever works for a user, or has a row in a table of codes, has an      *)
(* account: nothing deletes one.                                           *)
AccountInv ==
  /\ \A u \in Users : ~HasAccount(u) => account[u] = NoAccount
  /\ \A p \in Requests :
       kind[p] \notin Registering \cup {"none"} \/ Created(p) => HasAccount(user[p])
  /\ \A t \in Tables, c \in Codes : otp[t][c].user \in Users => HasAccount(otp[t][c].user)
  /\ \A p, q \in Requests : Created(p) /\ Created(q) /\ user[p] = user[q] => p = q

(* A row belongs to the user of the request that saved it, and to the one  *)
(* that holds its code; only codes of a change hide a password.            *)
RowInv ==
  /\ \A t \in Tables, c \in Codes :
       /\ otp[t][c].by \in Requests => pc[otp[t][c].by] # "idle"
       /\ t = "change" /\ ~otp[t][c].used => otp[t][c].secret \in Passwords
       /\ otp[t][c].user = Blank => otp[t][c] = NoRow
  /\ \A p \in Requests : HasCode(p) => otp[TableOf(kind[p])][code[p]].user = user[p]

\* A code of u has been used up.
UsedUp(u) == \E c \in Codes : otp["email"][c].user = u /\ otp["email"][c].used

VerifiedInv ==
  /\ \A u \in Users : account[u].role = "user" /\ account[u].verified => UsedUp(u)
  /\ \A p \in Requests : pc[p] = "confirm" => UsedUp(user[p])

\* The code was issued before request q was made.
OlderThan(t, c, q) == otp[t][c].by \in before[q] \cup {Blank}

\* Only a verification that ran beside q may have left the code unused.
Excused(t, c, q) == t = "reset" /\ Revived(c, q)

(* Who is about to save a code has retired the older ones of its user, and *)
(* who is about to write a code back runs beside every request that has    *)
(* retired it meanwhile.                                                   *)
RetiredInv ==
  /\ \A t \in Tables, c \in Codes, p \in Requests :
       /\ pc[p] = "save" /\ kind[p] # "change" /\ t = TableOf(kind[p])
       /\ otp[t][c].user = user[p] /\ ~otp[t][c].used /\ OlderThan(t, c, p)
       => Excused(t, c, p)
  /\ \A c, d \in Codes, v, q \in Requests :
       /\ kind[v] = "verifyReset" /\ pc[v] = "verify" /\ code[v] = c
       /\ c # d /\ otp["reset"][d].user = user[v] /\ otp["reset"][d].by = q
       /\ OlderThan("reset", c, q)
       => Revived(c, q) \/ Overlap(v, q)

Saved(p) == \E t \in Tables, c \in Codes : otp[t][c].by = p

MailInv ==
  \A p \in Requests : pc[p] = "mail" \/ mail[p] # "none" => Saved(p)

\* Code c of u was sent to verifyPasswordResetToken.
WasVerified(u, c) ==
  \E q \in Done("verifyReset") : user[q] = u /\ code[q] = c

\* Somebody verified code c who was not over when p began.
VerifiedSince(c, p) ==
  \E v \in Done("verifyReset") : code[v] = c /\ v \notin before[p]

\* A reset that has picked its code.
Picked(p) == kind[p] = "reset" /\ pc[p] \in {"history", "commit", "done"}

ResetInv ==
  /\ \A c \in Codes :
       otp["reset"][c].verified => WasVerified(otp["reset"][c].user, c)
  /\ \A p \in Requests : Picked(p) => WasVerified(user[p], code[p])
  /\ \A p \in Done("reset") :
       /\ code[p] \in Codes /\ otp["reset"][code[p]].user = user[p]
       /\ otp["reset"][code[p]].used \/ VerifiedSince(code[p], p)
  /\ \A p \in Done("reset"), q \in Requests :
       Picked(q) /\ p \in before[q] /\ code[p] = code[q] => VerifiedSince(code[p], p)

\* A request that has compared its new password with the histories.
Compared(p) ==
  \/ kind[p] = "reset" /\ pc[p] \in {"commit", "done"}
  \/ kind[p] = "change" /\ pc[p] = "save"

\* A request that sets, or has set, the password a code of a change hides.
Fetched(p) == kind[p] = "verifyChange" /\ pc[p] \in {"commit", "done"}

(* The history only grows, so a comparison covers what it held when the    *)
(* request was made; a password that waits with a code was compared by the *)
(* request that saved the code.                                            *)
HistoryInv ==
  /\ \A p \in Requests :
       /\ kind[p] \in Setting => used[p] \subseteq ToSet(past[user[p]])
       /\ Compared(p) => word[p] \notin used[p]
  /\ \A c \in Codes : otp["change"][c] # NoRow =>
       /\ otp["change"][c].by \in Requests
       /\ otp["change"][c].used \/ otp["change"][c].secret \notin used[otp["change"][c].by]
  /\ \A p \in Requests : Fetched(p) =>
       /\ code[p] \in Codes /\ otp["change"][code[p]].by \in Requests
       /\ word[p] \notin used[otp["change"][code[p]].by]

AccountsInv ==
  /\ TypeOK /\ PlaceInv /\ OverStaysOver
  /\ AccountInv /\ AccountIsWhole
  /\ RowInv /\ VerifiedInv
  /\ RetiredInv /\ OlderCodesAreRetired
  /\ MailInv
  /\ ResetInv
  /\ HistoryInv

-----------------------------------------------------------------------------
(* The steps of the handlers, by what they do.                             *)

\* A request of kind k about u begins.
Begins(p, k, u, to) ==
  /\ \/ k \in Registering /\ to = "create"
     \/ k \in Requesting /\ to = "retire" /\ HasAccount(u)
     \/ k \in Verifying \cup {"reset"} /\ to = "look" /\ HasAccount(u)
     \/ k = "change" /\ to = "history" /\ account[u].verified
  /\ u \in Users
  /\ pc[p] = "idle"
  /\ pc' = [pc EXCEPT ![p] = to]
  /\ kind' = [kind EXCEPT ![p] = k]
  /\ user' = [user EXCEPT ![p] = u]
  /\ before' = [before EXCEPT ![p] = {q \in Requests : pc[q] \in Ended}]
  /\ used' = [used EXCEPT ![p] = IF k \in Setting THEN ToSet(past[u]) ELSE {}]
  /\ UNCHANGED <<code, word, account, wallets, profiles, past, otp, mail>>

\* A request goes on without touching the tables; what it carries is c, w.
Goes(p, from, to, c, w) ==
  /\ pc[p] = from
  /\ pc' = [pc EXCEPT ![p] = to]
  /\ code' = [code EXCEPT ![p] = c]
  /\ word' = [word EXCEPT ![p] = w]
  /\ UNCHANGED <<kind, user, before, used, account, wallets, profiles, past, otp>>

Refuses(p) ==
  \/ /\ pc[p] = "idle"
     /\ pc' = [pc EXCEPT ![p] = "refused"]
     /\ UNCHANGED <<given, local, rows, otp, mail>>
  \/ /\ \E from \in {"create", "save", "look", "history"} :
          Goes(p, from, "refused", Blank, Blank)
     /\ UNCHANGED mail

Opens(p, w) ==
  /\ pc[p] = "create"
  /\ EmailIsFree(user[p])
  /\ \/ /\ kind[p] = "register" /\ pc' = [pc EXCEPT ![p] = "save"]
        /\ account' = [account EXCEPT ![user[p]] = Account("user", FALSE, w)]
     \/ /\ kind[p] = "registerAdmin" /\ pc' = [pc EXCEPT ![p] = "done"]
        /\ account' = [account EXCEPT ![user[p]] = Account("admin", TRUE, w)]
  /\ w \in Passwords
  /\ past' = [past EXCEPT ![user[p]] = Append(@, w)]
  /\ profiles' = profiles \cup {user[p]}
  /\ wallets' = wallets \cup {user[p]}
  /\ UNCHANGED <<given, local, otp, mail>>

Retires(p) == kind[p] \in Requesting /\ RetireCodes(p, TableOf(kind[p]))

Saves(p, c) ==
  /\ pc[p] = "save" /\ kind[p] \in Issuing
  /\ otp[TableOf(kind[p])][c] = NoRow
  /\ pc' = [pc EXCEPT ![p] = "mail"]
  /\ SetRow(TableOf(kind[p]), c,
            Row(user[p], IF kind[p] = "change" THEN word[p] ELSE Blank, p))
  /\ code' = [code EXCEPT ![p] = Blank]
  /\ word' = [word EXCEPT ![p] = Blank]
  /\ UNCHANGED <<given, rows, mail>>

Mails(p) == kind[p] \in Issuing /\ Dispatch(p, "done")

Finds(p, c) ==
  /\ kind[p] \in Verifying
  /\ Matches(TableOf(kind[p]), c, user[p])
  /\ \E to \in {"expire", "use", "verify", "commit"} :
       /\ On(kind[p], to)
       /\ Goes(p, "look", to, c, otp[TableOf(kind[p])][c].secret)
  /\ UNCHANGED mail

Picks(p, c) ==
  /\ kind[p] = "reset"
  /\ Matches("reset", c, user[p]) /\ otp["reset"][c].verified
  /\ Goes(p, "look", "history", c, Blank)
  /\ UNCHANGED mail

Checks(p, w) ==
  /\ \/ kind[p] = "reset" /\ Goes(p, "history", "commit", code[p], w)
     \/ kind[p] = "change" /\ Goes(p, "history", "save", code[p], w)
  /\ w \in Passwords
  /\ Unused(user[p], w)
  /\ UNCHANGED mail

Expires(p) == kind[p] \in Verifying /\ ExpireCode(p, TableOf(kind[p]))

Uses(p) == kind[p] = "verifyEmail" /\ UseCode(p, "confirm")

Confirms(p) == kind[p] = "verifyEmail" /\ ConfirmEmail(p, "done")

Verifies(p) ==
  /\ kind[p] = "verifyReset"
  /\ Step(p, "verify", "done")
  /\ SetRow("reset", code[p], [Held(p, "reset") EXCEPT !.used = FALSE, !.verified = TRUE])
  /\ UNCHANGED <<given, local, rows, mail>>

Commits(p) == kind[p] \in {"reset", "verifyChange"} /\ CommitPassword(p, TableOf(kind[p]))

Looks(p) ==
  \/ \E c \in Codes : Finds(p, c) \/ Picks(p, c)
  \/ \E w \in Passwords : Checks(p, w)

Writes(p) ==
  \/ Retires(p) \/ (\E c \in Codes : Saves(p, c))
  \/ Expires(p) \/ Uses(p) \/ Verifies(p)

Begin(p) == \E k \in Kinds, u \in Users, to \in Labels : Begins(p, k, u, to)

-----------------------------------------------------------------------------
LEMMA Constants ==
  /\ FirstPassword \in Passwords /\ CodeLife \in Nat \ {0}
  /\ Blank \notin Passwords /\ Blank \notin Requests /\ Blank \notin Users
BY AccountsAssumption

LEMMA EnterCases ==
  ASSUME TypeOK, AccountInv, NEW p \in Requests, NEW k, NEW u \in Users, NEW to,
         Enter(p, k, u, to)
  PROVE  /\ to = "refused" => Refuses(p)
         /\ \/ k \in Registering /\ to = "create"
            \/ k \in Requesting /\ to = "retire" /\ HasAccount(u)
            \/ k \in Verifying \cup {"reset"} /\ to = "look" /\ HasAccount(u)
            \/ k = "change" /\ to = "history" /\ account[u].verified
            => Begins(p, k, u, to)
BY DEF Enter, Step, Refuses, Begins, local, rows, given, Registering, Requesting, Verifying

LEMMA FindUserCases ==
  ASSUME TypeOK, AccountInv, NEW p \in Requests, NEW k, NEW to, FindUser(p, k, to),
         \/ k \in Requesting /\ to = "retire"
         \/ k \in Verifying \cup {"reset"} /\ to = "look"
  PROVE  Refuses(p) \/ Begin(p)
<1>1. PICK u \in Users : Enter(p, k, u, IF HasRole(u, "user") THEN to ELSE "refused")
  BY DEF FindUser
<1>2. HasRole(u, "user") => HasAccount(u)
  BY DEF HasRole, HasAccount
<1>3. k \in Kinds /\ to \in Labels
  BY DEF Kinds, Labels, Requesting, Verifying
<1>4. QED  BY <1>1, <1>2, <1>3, EnterCases DEF Begin

LEMMA ReadCases ==
  ASSUME NEW p \in Requests, NEW from \in {"create", "save", "look", "history"},
         Read(p, from, "refused")
  PROVE  Refuses(p)
BY DEF Read, Step, Keep, Refuses, Goes, given, rows

LEMMA CreateCases ==
  ASSUME NEW p \in Requests,
         \/ kind[p] = "register" /\ CreateAccount(p, "user", FALSE, "save")
         \/ kind[p] = "registerAdmin" /\ CreateAccount(p, "admin", TRUE, "done")
  PROVE  Refuses(p) \/ \E w \in Passwords : Opens(p, w)
<1>1. CASE ~EmailIsFree(user[p])
  BY <1>1, ReadCases DEF CreateAccount
<1>2. CASE EmailIsFree(user[p])
  BY <1>2 DEF CreateAccount, Opens, Step
<1>3. QED  BY <1>1, <1>2

LEMMA SaveCases ==
  ASSUME NEW p \in Requests, kind[p] \in Issuing,
         SaveCode(p, TableOf(kind[p]), IF kind[p] = "change" THEN word[p] ELSE Blank)
  PROVE  Refuses(p) \/ \E c \in Codes : Saves(p, c)
<1>1. PICK c \in Codes :
        \/ Read(p, "save", "refused")
        \/ /\ otp[TableOf(kind[p])][c] = NoRow
           /\ Step(p, "save", "mail")
           /\ SetRow(TableOf(kind[p]), c,
                     Row(user[p], IF kind[p] = "change" THEN word[p] ELSE Blank, p))
           /\ Forget(p)
           /\ UNCHANGED <<given, rows, mail>>
  BY DEF SaveCode
<1>2. QED  BY <1>1, ReadCases DEF Step, Forget, Keep, Saves

LEMMA LookCases ==
  ASSUME TypeOK, NEW p \in Requests, kind[p] \in Verifying, NEW to, On(kind[p], to),
         to \in {"use", "verify", "commit"}, LookUpCode(p, TableOf(kind[p]), to)
  PROVE  Refuses(p) \/ \E c \in Codes : Finds(p, c)
<1>. DEFINE t == TableOf(kind[p])
<1>1. CASE Read(p, "look", "refused")
  BY <1>1, ReadCases
<1>2. ASSUME NEW c \in Codes, NEW label \in {"expire", to}, Matches(t, c, user[p]),
             Step(p, "look", label), Keep(p, c, otp[t][c].secret, label),
             UNCHANGED <<given, rows, otp, mail>>
      PROVE  Finds(p, c)
  <2>1. On(kind[p], label) /\ label # "refused"
    BY <1>2 DEF On
  <2>2. Goes(p, "look", label, c, otp[t][c].secret)
    BY <1>2, <2>1 DEF Goes, Step, Keep, given, rows
  <2>3. QED  BY <1>2, <2>1, <2>2 DEF Finds
<1>3. QED  BY <1>1, <1>2 DEF LookUpCode

LEMMA PickCases ==
  ASSUME NEW p \in Requests, kind[p] = "reset", PickCode(p)
  PROVE  Refuses(p) \/ \E c \in Codes : Picks(p, c)
<1>1. CASE Read(p, "look", "refused")
  BY <1>1, ReadCases
<1>2. ASSUME NEW c \in Codes, NEW label,
             label = IF MayResetWith(otp["reset"][c]) THEN "history" ELSE "refused",
             Matches("reset", c, user[p]), Step(p, "look", label), Keep(p, c, Blank, label),
             UNCHANGED <<given, rows, otp, mail>>
      PROVE  Refuses(p) \/ Picks(p, c)
  BY <1>2 DEF MayResetWith, Step, Keep, Refuses, Picks, Goes, given, rows
<1>3. QED  BY <1>1, <1>2 DEF PickCode

LEMMA CheckCases ==
  ASSUME NEW p \in Requests,
         \/ kind[p] = "reset" /\ CheckHistory(p, "commit")
         \/ kind[p] = "change" /\ CheckHistory(p, "save")
  PROVE  Refuses(p) \/ \E w \in Passwords : Checks(p, w)
<1>1. ASSUME NEW to \in {"commit", "save"}, kind[p] = "reset" <=> to = "commit",
             kind[p] = "change" <=> to = "save", NEW w \in Passwords, NEW label,
             label = IF Unused(user[p], w) THEN to ELSE "refused",
             Step(p, "history", label), Keep(p, code[p], w, label),
             UNCHANGED <<given, rows, otp, mail>>
      PROVE  Refuses(p) \/ Checks(p, w)
  BY <1>1 DEF Step, Keep, Refuses, Checks, Goes, given, rows
<1>2. QED  BY <1>1 DEF CheckHistory

LEMMA NextCases ==
  ASSUME TypeOK, AccountInv, Next
  PROVE  \/ Tick \/ Crash
         \/ \E p \in Requests :
              \/ Begin(p) \/ Refuses(p) \/ (\E w \in Passwords : Opens(p, w))
              \/ Looks(p) \/ Writes(p) \/ Mails(p) \/ Confirms(p) \/ Commits(p)
              \/ ProcessMail(p)
<1>. DEFINE Moves(p) == \/ Begin(p) \/ Refuses(p) \/ (\E w \in Passwords : Opens(p, w))
                        \/ Looks(p) \/ Writes(p) \/ Mails(p) \/ Confirms(p) \/ Commits(p)
<1>0. /\ \A k \in Kinds : k \in {"register", "requestEmailCode", "verifyEmail"} =>
                            TableOf(k) = "email"
      /\ \A k \in Kinds : k \in {"requestReset", "verifyReset", "reset"} =>
                            TableOf(k) = "reset"
      /\ TableOf("change") = "change" /\ TableOf("verifyChange") = "change"
  BY DEF Kinds, TableOf
<1>. USE DEF Kinds, Registering, Requesting, Verifying, Issuing
<1>1. ASSUME NEW p \in Requests, Register(p) PROVE Moves(p)
  <2>1. CASE \E u \in Users :
               Enter(p, "register", u, IF HasRole(u, "user") THEN "refused" ELSE "create")
    <3>1. PICK u \in Users :
            Enter(p, "register", u, IF HasRole(u, "user") THEN "refused" ELSE "create")
      BY <2>1
    <3>2. "create" \in Labels
      BY DEF Labels
    <3>3. QED  BY <3>1, <3>2, EnterCases DEF Begin
  <2>2. CASE kind[p] = "register" /\ SaveCode(p, "email", Blank)
    BY <1>0, <2>2, SaveCases DEF Writes
  <2>3. QED  BY <1>1, <2>1, <2>2, CreateCases DEF Register, Mails
<1>2. ASSUME NEW p \in Requests, RegisterAdmin(p) PROVE Moves(p)
  <2>1. CASE \E u \in Users :
               Enter(p, "registerAdmin", u, IF HasRole(u, "admin") THEN "refused" ELSE "create")
    <3>1. PICK u \in Users :
            Enter(p, "registerAdmin", u, IF HasRole(u, "admin") THEN "refused" ELSE "create")
      BY <2>1
    <3>2. "create" \in Labels
      BY DEF Labels
    <3>3. QED  BY <3>1, <3>2, EnterCases DEF Begin
  <2>2. QED  BY <1>2, <2>1, CreateCases DEF RegisterAdmin
<1>3. ASSUME NEW p \in Requests, VerifyEmailToken(p) PROVE Moves(p)
  <2>1. kind[p] = "verifyEmail" => On(kind[p], "use")
    BY DEF On
  <2>2. QED
    BY <1>0, <1>3, <2>1, FindUserCases, LookCases
       DEF VerifyEmailToken, Writes, Expires, Uses, Confirms, Looks
<1>4. ASSUME NEW p \in Requests, RequestNewToken(p) \/ PasswordResetRequest(p)
      PROVE  Moves(p)
  BY <1>0, <1>4, FindUserCases, SaveCases
     DEF RequestNewToken, PasswordResetRequest, IssueCode, Writes, Retires, Mails
<1>5. ASSUME NEW p \in Requests, VerifyPasswordResetToken(p) PROVE Moves(p)
  <2>1. kind[p] = "verifyReset" => On(kind[p], "verify")
    BY DEF On
  <2>2. QED
    BY <1>0, <1>5, <2>1, FindUserCases, LookCases
       DEF VerifyPasswordResetToken, Writes, Expires, Verifies, Looks
<1>6. ASSUME NEW p \in Requests, PasswordReset(p) PROVE Moves(p)
  BY <1>0, <1>6, FindUserCases, PickCases, CheckCases DEF PasswordReset, Commits, Looks
<1>7. ASSUME NEW p \in Requests, ChangePassword(p) PROVE Moves(p)
  <2>1. ASSUME NEW u \in Users, NEW w \in Passwords, account[u].verified,
               Enter(p, "change", u, IF account[u].password = w THEN "history" ELSE "refused")
        PROVE  Refuses(p) \/ Begin(p)
    <3>1. "history" \in Labels
      BY DEF Labels
    <3>2. QED  BY <2>1, <3>1, EnterCases DEF Begin
  <2>2. QED
    BY <1>0, <1>7, <2>1, CheckCases, SaveCases DEF ChangePassword, Writes, Mails, Looks
<1>8. ASSUME NEW p \in Requests, VerifyChangePasswordToken(p) PROVE Moves(p)
  <2>1. kind[p] = "verifyChange" => On(kind[p], "commit")
    BY DEF On
  <2>2. QED
    BY <1>0, <1>8, <2>1, FindUserCases, LookCases
       DEF VerifyChangePasswordToken, Writes, Expires, Commits, Looks
<1>. HIDE DEF Moves
<1>9. ASSUME NEW p \in Requests, Serve(p) PROVE Moves(p)
  BY <1>1, <1>2, <1>3, <1>4, <1>5, <1>6, <1>7, <1>8, <1>9 DEF Serve
<1>10. QED  BY <1>9 DEF Next, Moves

-----------------------------------------------------------------------------
(* The tables of codes.                                                    *)
LEMMA TableFacts == \A k : TableOf(k) \in Tables
BY DEF TableOf, Tables

LEMMA RowFields ==
  ASSUME NEW row \in RowType
  PROVE  /\ row.user \in Users \cup {Blank} /\ row.left \in 0..CodeLife
         /\ row.used \in BOOLEAN /\ row.verified \in BOOLEAN
         /\ row.secret \in Passwords \cup {Blank} /\ row.by \in Requests \cup {Blank}
         /\ row = [user |-> row.user, left |-> row.left, used |-> row.used,
                   verified |-> row.verified, secret |-> row.secret, by |-> row.by]
BY DEF RowType

LEMMA NewRowFacts ==
  ASSUME NEW u \in Users, NEW secret \in Passwords \cup {Blank}, NEW p \in Requests
  PROVE  /\ Row(u, secret, p) \in RowType
         /\ Row(u, secret, p).user = u /\ Row(u, secret, p).by = p
         /\ ~Row(u, secret, p).used /\ ~Row(u, secret, p).verified
         /\ Row(u, secret, p).secret = secret
<1>1. CodeLife \in 0..CodeLife
  BY Constants
<1>2. QED  BY <1>1 DEF Row, RowType

LEMMA NoRowFacts ==
  /\ NoRow \in RowType
  /\ NoRow.user = Blank /\ NoRow.used /\ ~NoRow.verified /\ NoRow.by = Blank
<1>1. 0 \in 0..CodeLife
  BY Constants
<1>2. QED  BY <1>1 DEF NoRow, RowType

(* One row is written; what else the statement changes is nothing.         *)
LEMMA SetRowFacts ==
  ASSUME otp \in [Tables -> [Codes -> RowType]], NEW t \in Tables, NEW c \in Codes,
         NEW row \in RowType, SetRow(t, c, row)
  PROVE  /\ otp' \in [Tables -> [Codes -> RowType]]
         /\ otp'[t][c] = row
         /\ \A s \in Tables, d \in Codes : s # t \/ d # c => otp'[s][d] = otp[s][d]
BY DEF SetRow

\* A row is used up, and what it hid may be blanked.
Spent(old, new) ==
  /\ new.user = old.user /\ new.by = old.by /\ new.verified = old.verified
  /\ new.used

LEMMA SpentFacts ==
  ASSUME NEW row \in RowType
  PROVE  /\ [row EXCEPT !.used = TRUE] \in RowType
         /\ Spent(row, [row EXCEPT !.used = TRUE])
         /\ [row EXCEPT !.used = TRUE, !.secret = Blank] \in RowType
         /\ Spent(row, [row EXCEPT !.used = TRUE, !.secret = Blank])
BY DEF RowType, Spent

LEMMA VerifiedFacts ==
  ASSUME NEW row \in RowType
  PROVE  LET new == [row EXCEPT !.used = FALSE, !.verified = TRUE]
         IN /\ new \in RowType
            /\ new.user = row.user /\ new.by = row.by
            /\ new.verified
BY DEF RowType

\* A row with another number of seconds left.
Aged(old, new) ==
  /\ new \in RowType
  /\ new.user = old.user /\ new.by = old.by
  /\ new.used = old.used /\ new.verified = old.verified /\ new.secret = old.secret
  /\ old = NoRow => new = NoRow

LEMMA AgedFacts ==
  ASSUME NEW row \in RowType
  PROVE  Aged(row, [row EXCEPT !.left = IF @ > 0 THEN @ - 1 ELSE 0])
<1>. DEFINE n == IF row.left > 0 THEN row.left - 1 ELSE 0
            new == [row EXCEPT !.left = n]
<1>1. row.left \in 0..CodeLife /\ CodeLife \in Nat
  BY RowFields, Constants
<1>2. n \in 0..CodeLife /\ (row.left = 0 => n = 0)
  BY <1>1
<1>3. new = [row EXCEPT !.left = IF @ > 0 THEN @ - 1 ELSE 0]
  BY DEF RowType
<1>. HIDE DEF n
<1>4. /\ new \in RowType
      /\ new.user = row.user /\ new.by = row.by
      /\ new.used = row.used /\ new.verified = row.verified /\ new.secret = row.secret
  BY <1>2 DEF RowType
<1>5. ASSUME row = NoRow PROVE new = NoRow
  <2>1. n = 0
    BY <1>2, <1>5 DEF NoRow
  <2>2. row.left = 0
    BY <1>5 DEF NoRow
  <2>3. new = row
    BY <2>1, <2>2, RowFields
  <2>4. QED  BY <1>5, <2>3
<1>. HIDE DEF new
<1>6. Aged(row, new)
  BY <1>4, <1>5 DEF Aged
<1>7. QED  BY <1>3, <1>6

\* What a step may do to the row of a code.
Inserted(t, c) ==
  \E p \in Requests :
    /\ pc[p] = "save" /\ Saves(p, c) /\ t = TableOf(kind[p])
    /\ otp[t][c] = NoRow
    /\ otp'[t][c].user = user[p] /\ otp'[t][c].by = p
    /\ ~otp'[t][c].used /\ ~otp'[t][c].verified
    /\ kind[p] = "change" => otp'[t][c].secret = word[p] /\ word[p] \in Passwords

Anew(t, c) ==
  /\ t = "reset"
  /\ otp'[t][c].verified
  /\ \E p \in Requests : Verifies(p) /\ code[p] = c

Kept(t, c) ==
  /\ otp'[t][c].user = otp[t][c].user /\ otp'[t][c].by = otp[t][c].by
  /\ otp[t][c].verified => otp'[t][c].verified
  /\ \/ otp'[t][c].used /\ otp'[t][c].verified = otp[t][c].verified
     \/ /\ otp'[t][c].used = otp[t][c].used /\ otp'[t][c].secret = otp[t][c].secret
        /\ otp'[t][c].verified = otp[t][c].verified
     \/ Anew(t, c)
  /\ otp[t][c] = NoRow => otp'[t][c] = NoRow

\* The commands that use up the code a request holds.
LEMMA SpendFacts ==
  ASSUME TypeOK, PlaceInv, RowInv, NEW p \in Requests, HasCode(p),
         NEW row \in RowType, Spent(Held(p, TableOf(kind[p])), row),
         SetRow(TableOf(kind[p]), code[p], row)
  PROVE  /\ otp' \in [Tables -> [Codes -> RowType]]
         /\ otp'[TableOf(kind[p])][code[p]].used
         /\ \A t \in Tables, c \in Codes : Kept(t, c)
<1>. DEFINE s == TableOf(kind[p])
<1>1. code[p] \in Codes /\ s \in Tables /\ otp \in [Tables -> [Codes -> RowType]]
  BY TableFacts DEF PlaceInv, TypeOK
<1>2. /\ otp' \in [Tables -> [Codes -> RowType]]
      /\ otp'[s][code[p]] = row
      /\ \A t \in Tables, d \in Codes : t # s \/ d # code[p] => otp'[t][d] = otp[t][d]
  BY <1>1, SetRowFacts
<1>3. otp[s][code[p]] # NoRow
  <2>1. kind[p] # "none"
    BY DEF PlaceInv, HasCode, On, Registering, Requesting, Verifying, Issuing, Ended
  <2>2. otp[s][code[p]].user \in Users
    BY <2>1 DEF RowInv, PlaceInv
  <2>3. QED  BY <2>2, NoRowFacts, Constants
<1>4. ASSUME NEW t \in Tables, NEW c \in Codes PROVE Kept(t, c)
  <2>1. CASE t = s /\ c = code[p]
    BY <1>2, <1>3, <2>1 DEF Kept, Spent, Held
  <2>2. CASE otp'[t][c] = otp[t][c]
    BY <2>2 DEF Kept
  <2>3. QED  BY <1>2, <2>1, <2>2
<1>5. QED  BY <1>2, <1>4 DEF Spent

LEMMA RowStep ==
  ASSUME TypeOK, PlaceInv, AccountInv, RowInv, Next
  PROVE  /\ otp' \in [Tables -> [Codes -> RowType]]
         /\ \A t \in Tables, c \in Codes : Inserted(t, c) \/ Kept(t, c)
<1>0. otp \in [Tables -> [Codes -> RowType]]
  BY DEF TypeOK
<1>1. ASSUME otp' = otp
      PROVE  /\ otp' \in [Tables -> [Codes -> RowType]]
             /\ \A t \in Tables, c \in Codes : Inserted(t, c) \/ Kept(t, c)
  BY <1>0, <1>1 DEF Kept
<1>2. CASE Tick
  <2>1. \A t \in Tables, c \in Codes :
          otp'[t][c] = [otp[t][c] EXCEPT !.left = IF @ > 0 THEN @ - 1 ELSE 0]
    BY <1>2 DEF Tick
  <2>2. otp' \in [Tables -> [Codes -> RowType]]
    BY <1>0, <1>2, AgedFacts DEF Tick, Aged
  <2>3. ASSUME NEW t \in Tables, NEW c \in Codes PROVE Kept(t, c)
    <3>1. otp[t][c] \in RowType
      BY <1>0
    <3>2. Aged(otp[t][c], otp'[t][c])
      BY <2>1, <3>1, AgedFacts
    <3>3. QED  BY <3>2 DEF Aged, Kept
  <2>4. QED  BY <2>2, <2>3
<1>3. ASSUME NEW p \in Requests, Retires(p)
      PROVE  /\ otp' \in [Tables -> [Codes -> RowType]]
             /\ \A t \in Tables, c \in Codes : Kept(t, c)
  <2>. DEFINE s == TableOf(kind[p])
  <2>1. RetireAll(s, user[p]) /\ kind[p] # "none"
    BY <1>3 DEF Retires, RetireCodes, Requesting
  <2>2. user[p] \in Users /\ s \in Tables
    BY <2>1, TableFacts DEF PlaceInv
  <2>3. otp' \in [Tables -> [Codes -> RowType]]
    BY <1>0, <2>1, <2>2, SpentFacts DEF RetireAll
  <2>4. ASSUME NEW t \in Tables, NEW c \in Codes PROVE Kept(t, c)
    <3>1. CASE t = s /\ otp[t][c].user = user[p]
      <4>1. otp'[t][c] = [otp[t][c] EXCEPT !.used = TRUE]
        BY <1>0, <2>1, <2>2, <3>1 DEF RetireAll
      <4>2. otp[t][c] \in RowType
        BY <1>0
      <4>3. Spent(otp[t][c], otp'[t][c])
        BY <4>1, <4>2, SpentFacts
      <4>4. otp[t][c] # NoRow
        BY <2>2, <3>1, NoRowFacts, Constants
      <4>5. QED  BY <4>3, <4>4 DEF Kept, Spent
    <3>2. CASE ~(t = s /\ otp[t][c].user = user[p])
      <4>1. otp'[t][c] = otp[t][c]
        BY <1>0, <2>1, <2>2, <3>2 DEF RetireAll
      <4>2. QED  BY <4>1 DEF Kept
    <3>3. QED  BY <3>1, <3>2
  <2>5. QED  BY <2>3, <2>4
<1>4. ASSUME NEW p \in Requests, NEW c \in Codes, Saves(p, c)
      PROVE  /\ otp' \in [Tables -> [Codes -> RowType]]
             /\ \A t \in Tables, d \in Codes : Inserted(t, d) \/ Kept(t, d)
  <2>. DEFINE s == TableOf(kind[p])
              secret == IF kind[p] = "change" THEN word[p] ELSE Blank
              row == Row(user[p], secret, p)
  <2>1. s \in Tables /\ user[p] \in Users /\ secret \in Passwords \cup {Blank}
    BY <1>4, TableFacts DEF Saves, PlaceInv, Issuing, Requesting
  <2>2. kind[p] = "change" => secret = word[p] /\ word[p] \in Passwords
    BY <1>4 DEF Saves, PlaceInv
  <2>3. /\ row \in RowType /\ row.user = user[p] /\ row.by = p
        /\ ~row.used /\ ~row.verified /\ row.secret = secret
    BY <2>1, NewRowFacts
  <2>4. SetRow(s, c, row) /\ otp[s][c] = NoRow /\ pc[p] = "save"
    BY <1>4 DEF Saves
  <2>. HIDE DEF row, secret
  <2>5. /\ otp' \in [Tables -> [Codes -> RowType]]
        /\ otp'[s][c] = row
        /\ \A t \in Tables, d \in Codes : t # s \/ d # c => otp'[t][d] = otp[t][d]
    BY <1>0, <2>1, <2>3, <2>4, SetRowFacts
  <2>6. Inserted(s, c)
    BY <1>4, <2>2, <2>3, <2>4, <2>5 DEF Inserted
  <2>7. ASSUME NEW t \in Tables, NEW d \in Codes, otp'[t][d] = otp[t][d] PROVE Kept(t, d)
    BY <2>7 DEF Kept
  <2>. HIDE DEF s
  <2>8. QED  BY <2>5, <2>6, <2>7
<1>5. ASSUME NEW p \in Requests, Expires(p) \/ Commits(p)
      PROVE  /\ otp' \in [Tables -> [Codes -> RowType]]
             /\ \A t \in Tables, c \in Codes : Kept(t, c)
  <2>. DEFINE s == TableOf(kind[p])
  <2>1. HasCode(p)
    BY <1>5 DEF Expires, ExpireCode, Commits, CommitPassword, Step, HasCode
  <2>2. Held(p, s) \in RowType
    BY <1>0, <2>1, TableFacts DEF Held, PlaceInv
  <2>3. SetRow(s, code[p], [Held(p, s) EXCEPT !.used = TRUE, !.secret = Blank])
    BY <1>5 DEF Expires, ExpireCode, Commits, CommitPassword
  <2>4. QED  BY <2>1, <2>2, <2>3, SpentFacts, SpendFacts
<1>6. ASSUME NEW p \in Requests, Uses(p)
      PROVE  /\ otp' \in [Tables -> [Codes -> RowType]]
             /\ \A t \in Tables, c \in Codes : Kept(t, c)
  <2>1. HasCode(p) /\ TableOf(kind[p]) = "email"
    BY <1>6 DEF Uses, UseCode, Step, HasCode, TableOf
  <2>2. Held(p, "email") \in RowType
    BY <1>0, <2>1, TableFacts DEF Held, PlaceInv
  <2>3. SetRow("email", code[p], [Held(p, "email") EXCEPT !.used = TRUE])
    BY <1>6 DEF Uses, UseCode
  <2>4. QED  BY <2>1, <2>2, <2>3, SpentFacts, SpendFacts
<1>7. ASSUME NEW p \in Requests, Verifies(p)
      PROVE  /\ otp' \in [Tables -> [Codes -> RowType]]
             /\ \A t \in Tables, c \in Codes : Kept(t, c)
  <2>. DEFINE row == [Held(p, "reset") EXCEPT !.used = FALSE, !.verified = TRUE]
  <2>1. /\ HasCode(p) /\ TableOf(kind[p]) = "reset" /\ code[p] \in Codes
        /\ kind[p] # "none" /\ "reset" \in Tables
    BY <1>7 DEF Verifies, Step, HasCode, TableOf, PlaceInv, Tables
  <2>2. Held(p, "reset") \in RowType /\ Held(p, "reset").user \in Users
    BY <1>0, <2>1 DEF Held, RowInv, PlaceInv
  <2>3. SetRow("reset", code[p], row)
    BY <1>7 DEF Verifies
  <2>4. /\ row \in RowType /\ row.user = Held(p, "reset").user
        /\ row.by = Held(p, "reset").by /\ row.verified
    BY <2>2, VerifiedFacts
  <2>. HIDE DEF row
  <2>5. /\ otp' \in [Tables -> [Codes -> RowType]]
        /\ otp'["reset"][code[p]] = row
        /\ \A t \in Tables, d \in Codes :
             t # "reset" \/ d # code[p] => otp'[t][d] = otp[t][d]
    BY <1>0, <2>1, <2>3, <2>4, SetRowFacts
  <2>6. ASSUME NEW t \in Tables, NEW c \in Codes PROVE Kept(t, c)
    <3>1. CASE t = "reset" /\ c = code[p]
      <4>1. otp[t][c] # NoRow
        BY <2>2, <3>1, NoRowFacts, Constants DEF Held
      <4>2. Anew(t, c)
        BY <1>7, <2>4, <2>5, <3>1 DEF Anew
      <4>3. QED  BY <2>4, <2>5, <3>1, <4>1, <4>2 DEF Kept, Held
    <3>2. CASE otp'[t][c] = otp[t][c]
      BY <3>2 DEF Kept
    <3>3. QED  BY <2>5, <3>1, <3>2
  <2>7. QED  BY <2>5, <2>6
<1>8. ASSUME NEW p \in Requests,
             \/ Begin(p) \/ Refuses(p) \/ (\E w \in Passwords : Opens(p, w))
             \/ Looks(p) \/ Mails(p) \/ Confirms(p) \/ ProcessMail(p)
      PROVE  otp' = otp
  BY <1>8
     DEF Begin, Begins, Refuses, Goes, Opens, Looks, Finds, Picks, Checks, Mails,
         Dispatch, Confirms, ConfirmEmail, ProcessMail, local
<1>9. CASE Crash
  BY <1>1, <1>9 DEF Crash
<1>10. QED
  BY <1>1, <1>2, <1>3, <1>4, <1>5, <1>6, <1>7, <1>8, <1>9, NextCases DEF Writes

-----------------------------------------------------------------------------
(* What a step does to one request: nothing, its end, or its own move.     *)
Same(r) ==
  /\ pc'[r] = pc[r] /\ kind'[r] = kind[r] /\ user'[r] = user[r]
  /\ code'[r] = code[r] /\ word'[r] = word[r]
  /\ before'[r] = before[r] /\ used'[r] = used[r]

Dies(r) ==
  /\ pc[r] \notin Ended \cup {"idle"} /\ pc'[r] = "lost"
  /\ kind'[r] = kind[r] /\ user'[r] = user[r]
  /\ before'[r] = before[r] /\ used'[r] = used[r]
  /\ code'[r] = Blank /\ word'[r] = Blank

Moves(r) ==
  \/ Begin(r) \/ Refuses(r) \/ (\E w \in Passwords : Opens(r, w))
  \/ Looks(r) \/ Writes(r) \/ Mails(r) \/ Confirms(r) \/ Commits(r)

LEMMA MovesOthers ==
  ASSUME TypeOK, NEW p \in Requests, Moves(p), NEW r \in Requests \ {p}
  PROVE  Same(r)
<1>. USE DEF TypeOK, Same
<1>1. CASE Begin(p) \/ Refuses(p) \/ \E w \in Passwords : Opens(p, w)
  <2>1. ASSUME NEW k, NEW u, NEW to, Begins(p, k, u, to) PROVE Same(r)
    BY <2>1 DEF Begins
  <2>2. ASSUME NEW w, Opens(p, w) PROVE Same(r)
    BY <2>2 DEF Opens, given, local
  <2>3. CASE Refuses(p)
    BY <2>3 DEF Refuses, Goes, given, local
  <2>4. QED  BY <1>1, <2>1, <2>2, <2>3 DEF Begin
<1>2. CASE Looks(p)
  BY <1>2 DEF Looks, Finds, Picks, Checks, Goes
<1>3. CASE Writes(p)
  BY <1>3
     DEF Writes, Retires, RetireCodes, Saves, Expires, ExpireCode, Uses, UseCode,
         Verifies, Step, Forget, Keep, given, local
<1>4. CASE Mails(p) \/ Confirms(p) \/ Commits(p)
  BY <1>4
     DEF Mails, Dispatch, Confirms, ConfirmEmail, Commits, CommitPassword, Step, given,
         local
<1>5. QED  BY <1>1, <1>2, <1>3, <1>4 DEF Moves

LEMMA RequestStep ==
  ASSUME TypeOK, AccountInv, Next, NEW r \in Requests
  PROVE  Same(r) \/ Dies(r) \/ Moves(r)
<1>1. CASE Tick
  BY <1>1 DEF Tick, Same, given, local
<1>2. CASE Crash
  BY <1>2 DEF Crash, Same, Dies, given, TypeOK
<1>3. ASSUME NEW p \in Requests, ProcessMail(p) PROVE Same(r)
  BY <1>3 DEF ProcessMail, Same, given, local
<1>4. ASSUME NEW p \in Requests, Moves(p) PROVE Same(r) \/ Moves(r)
  BY <1>4, MovesOthers
<1>5. QED  BY <1>1, <1>2, <1>3, <1>4, NextCases DEF Moves

(* Where a request goes in a move of its own, and what it then carries.    *)
LEMMA MoveFacts ==
  ASSUME TypeOK, PlaceInv, RowInv, NEW r \in Requests, Moves(r)
  PROVE  /\ pc[r] \notin Ended /\ pc'[r] # "idle" /\ pc'[r] \in Labels
         /\ pc[r] # "idle" =>
              /\ kind'[r] = kind[r] /\ user'[r] = user[r]
              /\ before'[r] = before[r] /\ used'[r] = used[r]
         /\ code'[r] \in Codes \cup {Blank} /\ word'[r] \in Passwords \cup {Blank}
         /\ pc'[r] \in Ended \/ On(kind'[r], pc'[r])
         /\ HasCode(r)' => code'[r] \in Codes
         /\ pc'[r] = "commit" => word'[r] \in Passwords
         /\ pc'[r] = "save" /\ kind'[r] = "change" => word'[r] \in Passwords
<1>. USE DEF TypeOK, Ended, Labels, On, HasCode
<1>1. CASE Begin(r)
  BY <1>1
     DEF Begin, Begins, Registering, Requesting, Verifying
<1>2. CASE Refuses(r) \/ \E w \in Passwords : Opens(r, w)
  BY <1>2 DEF Refuses, Goes, Opens, given, local, Issuing
<1>3. CASE \E c \in Codes : Finds(r, c)
  <2>1. PICK c \in Codes : Finds(r, c)
    BY <1>3
  <2>2. PICK to \in {"expire", "use", "verify", "commit"} :
          /\ On(kind[r], to)
          /\ Goes(r, "look", to, c, otp[TableOf(kind[r])][c].secret)
    BY <2>1 DEF Finds
  <2>3. otp[TableOf(kind[r])][c].secret \in Passwords \cup {Blank}
    BY TableFacts, RowFields
  <2>4. to = "commit" => otp[TableOf(kind[r])][c].secret \in Passwords
    <3>1. to = "commit" => TableOf(kind[r]) = "change"
      BY <2>1, <2>2 DEF Finds, Verifying, TableOf
    <3>2. QED  BY <2>1, <3>1, TableFacts DEF Finds, Matches, RowInv
  <2>5. QED
    BY <2>2, <2>3, <2>4 DEF Goes, Registering, Requesting, Verifying, Issuing
<1>4. CASE \/ \E c \in Codes : Picks(r, c)
           \/ \E w \in Passwords : Checks(r, w)
  BY <1>4 DEF Picks, Checks, Goes, PlaceInv, Issuing
<1>5. CASE Writes(r)
  BY <1>5
     DEF Writes, Retires, RetireCodes, Saves, Expires, ExpireCode, Uses, UseCode,
         Verifies, Step, Forget, Keep, given, local, PlaceInv, Requesting, Issuing
<1>6. CASE Mails(r) \/ Confirms(r) \/ Commits(r)
  BY <1>6
     DEF Mails, Dispatch, Confirms, ConfirmEmail, Commits, CommitPassword, Step, given,
         local
<1>7. QED  BY <1>1, <1>2, <1>3, <1>4, <1>5, <1>6 DEF Moves, Looks

LEMMA PlaceStep ==
  ASSUME TypeOK, PlaceInv, AccountInv, RowInv, Next
  PROVE  PlaceInv'
<1>1. SUFFICES ASSUME NEW p \in Requests
      PROVE  /\ pc'[p] = "idle" => kind'[p] = "none"
             /\ pc'[p] \notin Ended \cup {"idle"} => On(kind'[p], pc'[p])
             /\ kind'[p] # "none" => user'[p] \in Users
             /\ HasCode(p)' => code'[p] \in Codes
             /\ pc'[p] = "commit" => word'[p] \in Passwords
             /\ pc'[p] = "save" /\ kind'[p] = "change" => word'[p] \in Passwords
  BY DEF PlaceInv
<1>2. CASE Same(p)
  BY <1>2 DEF Same, PlaceInv, HasCode
<1>3. CASE Dies(p)
  BY <1>3 DEF Dies, PlaceInv, HasCode, Ended
<1>4. CASE Moves(p)
  <2>1. kind'[p] # "none" => user'[p] \in Users
    <3>1. CASE Begin(p)
      BY <3>1 DEF Begin, Begins, TypeOK
    <3>2. CASE pc[p] = "idle" /\ ~Begin(p)
      <4>1. Refuses(p)
        BY <1>4, <3>2
           DEF Moves, Opens, Looks, Finds, Picks, Checks, Goes, Writes, Retires,
               RetireCodes, Saves, Expires, ExpireCode, Uses, UseCode, Verifies, Mails,
               Dispatch, Confirms, ConfirmEmail, Commits, CommitPassword, Step
      <4>2. QED  BY <3>2, <4>1 DEF Refuses, Goes, given, PlaceInv
    <3>3. CASE pc[p] # "idle"
      BY <1>4, <3>3, MoveFacts DEF PlaceInv
    <3>4. QED  BY <3>1, <3>2, <3>3
  <2>2. QED  BY <1>4, <2>1, MoveFacts
<1>5. QED  BY <1>2, <1>3, <1>4, RequestStep

(* Once a request has begun, what it is about stays; once it is over, all. *)
LEMMA FrameFacts ==
  ASSUME TypeOK, PlaceInv, AccountInv, RowInv, Next, NEW r \in Requests
  PROVE  /\ pc[r] \in Ended => Same(r)
         /\ pc[r] # "idle" =>
              /\ pc'[r] # "idle"
              /\ kind'[r] = kind[r] /\ user'[r] = user[r]
              /\ before'[r] = before[r] /\ used'[r] = used[r]
         /\ pc[r] = "idle" => Same(r) \/ Refuses(r) \/ Begin(r)
<1>1. CASE Same(r)
  BY <1>1 DEF Same
<1>2. CASE Dies(r)
  BY <1>2 DEF Dies, Ended
<1>3. CASE Moves(r)
  <2>1. pc[r] = "idle" => Refuses(r) \/ Begin(r)
    BY <1>3
       DEF Moves, Opens, Looks, Finds, Picks, Checks, Goes, Writes, Retires,
           RetireCodes, Saves, Expires, ExpireCode, Uses, UseCode, Verifies, Mails,
           Dispatch, Confirms, ConfirmEmail, Commits, CommitPassword, Step
  <2>2. QED  BY <1>3, <2>1, MoveFacts DEF Ended
<1>4. QED  BY <1>1, <1>2, <1>3, RequestStep

LEMMA OverStep ==
  ASSUME TypeOK, PlaceInv, AccountInv, RowInv, OverStaysOver, Next
  PROVE  OverStaysOver'
<1>1. SUFFICES ASSUME NEW p \in Requests, NEW q \in before'[p] PROVE pc'[q] \in Ended
  BY DEF OverStaysOver
<1>2. CASE q \in before[p]
  BY <1>2, FrameFacts DEF OverStaysOver, TypeOK, Same
<1>3. CASE q \notin before[p]
  <2>1. Begin(p)
    BY <1>1, <1>3, FrameFacts DEF Same, Refuses, Goes, given
  <2>2. q \in Requests /\ pc[q] \in Ended
    BY <1>1, <2>1 DEF Begin, Begins, TypeOK
  <2>3. QED  BY <2>2, FrameFacts DEF Same
<1>4. QED  BY <1>2, <1>3

-----------------------------------------------------------------------------
(* What a step does to the rows of one user.                               *)
SameOther(u) ==
  (u \in wallets' <=> u \in wallets) /\ (u \in profiles' <=> u \in profiles)

Untouched(u) == account'[u] = account[u] /\ past'[u] = past[u] /\ SameOther(u)

Opened(u) ==
  \E p \in Requests, w \in Passwords :
    /\ Opens(p, w) /\ user[p] = u /\ account[u] = NoAccount
    /\ account'[u].role \in {"user", "admin"}
    /\ account'[u].role = "user" => ~account'[u].verified
    /\ account'[u].password = w
    /\ past'[u] = Append(past[u], w)
    /\ u \in wallets' /\ u \in profiles'

Confirmed(u) ==
  \E p \in Requests :
    /\ Confirms(p) /\ user[p] = u
    /\ account'[u].role = account[u].role
    /\ account'[u].password = account[u].password
    /\ past'[u] = past[u] /\ SameOther(u)

Replaced(u) ==
  \E p \in Requests :
    /\ Commits(p) /\ user[p] = u
    /\ account'[u].role = account[u].role
    /\ account'[u].verified = account[u].verified
    /\ account'[u].password = word[p]
    /\ past'[u] = Append(past[u], word[p])
    /\ SameOther(u)

AccountType ==
  [role : {"none", "user", "admin"}, verified : BOOLEAN, password : Passwords \cup {Blank}]

RowsTyped ==
  /\ account \in [Users -> AccountType]
  /\ wallets \in SUBSET Users /\ profiles \in SUBSET Users
  /\ past \in [Users -> Seq(Passwords)]

LEMMA AccountFields ==
  /\ \A role \in {"none", "user", "admin"}, v \in BOOLEAN, w \in Passwords \cup {Blank} :
       /\ Account(role, v, w) \in AccountType
       /\ Account(role, v, w).role = role /\ Account(role, v, w).verified = v
       /\ Account(role, v, w).password = w
  /\ NoAccount.role = "none" /\ ~NoAccount.verified /\ NoAccount.password = Blank
  /\ \A row \in AccountType :
       /\ row.role \in {"none", "user", "admin"} /\ row.verified \in BOOLEAN
       /\ row.password \in Passwords \cup {Blank}
BY DEF Account, AccountType, NoAccount

LEMMA ConfirmFields ==
  ASSUME NEW row \in AccountType
  PROVE  /\ [row EXCEPT !.verified = TRUE] \in AccountType
         /\ [row EXCEPT !.verified = TRUE].role = row.role
         /\ [row EXCEPT !.verified = TRUE].password = row.password
BY DEF AccountType

LEMMA PasswordFields ==
  ASSUME NEW row \in AccountType, NEW w \in Passwords
  PROVE  /\ [row EXCEPT !.password = w] \in AccountType
         /\ [row EXCEPT !.password = w].role = row.role
         /\ [row EXCEPT !.password = w].verified = row.verified
         /\ [row EXCEPT !.password = w].password = w
BY DEF AccountType

\* One row of iam_users is written.
PutAccount(u, row) == account' = [account EXCEPT ![u] = row]
AddPassword(u, w) == past' = [past EXCEPT ![u] = Append(@, w)]

LEMMA PutFacts ==
  ASSUME RowsTyped, NEW u \in Users, NEW row \in AccountType, PutAccount(u, row)
  PROVE  /\ account' \in [Users -> AccountType] /\ account'[u] = row
         /\ \A x \in Users \ {u} : account'[x] = account[x]
BY DEF PutAccount, RowsTyped

LEMMA AddFacts ==
  ASSUME RowsTyped, NEW u \in Users, NEW w \in Passwords, AddPassword(u, w)
  PROVE  /\ past' \in [Users -> Seq(Passwords)]
         /\ past'[u] = Append(past[u], w)
         /\ \A x \in Users \ {u} : past'[x] = past[x]
<1>1. past[u] \in Seq(Passwords)
  BY DEF RowsTyped
<1>2. Append(past[u], w) \in Seq(Passwords)
  BY <1>1
<1>3. QED  BY <1>2 DEF AddPassword, RowsTyped

LEMMA AccountStep ==
  ASSUME TypeOK, PlaceInv, AccountInv, RowInv, Next
  PROVE  /\ RowsTyped'
         /\ \A u \in Users : Untouched(u) \/ Opened(u) \/ Confirmed(u) \/ Replaced(u)
<1>0. RowsTyped
  BY DEF TypeOK, RowsTyped, AccountType
<1>1. ASSUME UNCHANGED rows
      PROVE  RowsTyped' /\ \A u \in Users : Untouched(u)
  BY <1>0, <1>1 DEF rows, RowsTyped, Untouched, SameOther
<1>2. ASSUME NEW p \in Requests, NEW w \in Passwords, Opens(p, w)
      PROVE  RowsTyped' /\ \A u \in Users : Untouched(u) \/ Opened(u)
  <2>1. user[p] \in Users /\ account[user[p]] = NoAccount
    BY <1>2 DEF Opens, PlaceInv, EmailIsFree
  <2>2. PICK row \in AccountType :
          /\ PutAccount(user[p], row)
          /\ row.role \in {"user", "admin"} /\ row.password = w
          /\ row.role = "user" => ~row.verified
    <3>1. CASE kind[p] = "register"
      <4>1. PutAccount(user[p], Account("user", FALSE, w))
        BY <1>2, <3>1 DEF Opens, PutAccount
      <4>2. QED  BY <4>1, AccountFields
    <3>2. CASE kind[p] = "registerAdmin"
      <4>1. PutAccount(user[p], Account("admin", TRUE, w))
        BY <1>2, <3>2 DEF Opens, PutAccount
      <4>2. QED  BY <4>1, AccountFields
    <3>3. QED  BY <1>2, <3>1, <3>2 DEF Opens
  <2>3. AddPassword(user[p], w)
    BY <1>2 DEF Opens, AddPassword
  <2>4. profiles' = profiles \cup {user[p]} /\ wallets' = wallets \cup {user[p]}
    BY <1>2 DEF Opens
  <2>5. RowsTyped'
    BY <1>0, <2>1, <2>2, <2>3, <2>4, PutFacts, AddFacts DEF RowsTyped
  <2>6. Opened(user[p])
    BY <1>0, <1>2, <2>1, <2>2, <2>3, <2>4, PutFacts, AddFacts DEF Opened
  <2>7. \A u \in Users \ {user[p]} : Untouched(u)
    BY <1>0, <2>1, <2>2, <2>3, <2>4, PutFacts, AddFacts DEF Untouched, SameOther
  <2>8. QED  BY <2>5, <2>6, <2>7
<1>3. ASSUME NEW p \in Requests, Confirms(p)
      PROVE  RowsTyped' /\ \A u \in Users : Untouched(u) \/ Confirmed(u)
  <2>1. user[p] \in Users
    BY <1>3 DEF Confirms, PlaceInv
  <2>2. account[user[p]] \in AccountType
    BY <1>0, <2>1 DEF RowsTyped
  <2>3. PutAccount(user[p], [account[user[p]] EXCEPT !.verified = TRUE])
    BY <1>3 DEF Confirms, ConfirmEmail, PutAccount
  <2>4. PICK row \in AccountType :
          /\ PutAccount(user[p], row)
          /\ row.role = account[user[p]].role /\ row.password = account[user[p]].password
    BY <2>2, <2>3, ConfirmFields
  <2>5. past' = past /\ wallets' = wallets /\ profiles' = profiles
    BY <1>3 DEF Confirms, ConfirmEmail
  <2>6. RowsTyped'
    BY <1>0, <2>1, <2>4, <2>5, PutFacts DEF RowsTyped
  <2>7. Confirmed(user[p])
    BY <1>0, <1>3, <2>1, <2>4, <2>5, PutFacts DEF Confirmed, SameOther
  <2>8. \A u \in Users \ {user[p]} : Untouched(u)
    BY <1>0, <2>1, <2>4, <2>5, PutFacts DEF Untouched, SameOther
  <2>9. QED  BY <2>6, <2>7, <2>8
<1>4. ASSUME NEW p \in Requests, Commits(p)
      PROVE  RowsTyped' /\ \A u \in Users : Untouched(u) \/ Replaced(u)
  <2>1. user[p] \in Users /\ word[p] \in Passwords
    BY <1>4 DEF Commits, CommitPassword, Step, PlaceInv
  <2>2. account[user[p]] \in AccountType
    BY <1>0, <2>1 DEF RowsTyped
  <2>3. /\ PutAccount(user[p], [account[user[p]] EXCEPT !.password = word[p]])
        /\ AddPassword(user[p], word[p])
    BY <1>4 DEF Commits, CommitPassword, ReplacePassword, PutAccount, AddPassword
  <2>4. PICK row \in AccountType :
          /\ PutAccount(user[p], row)
          /\ row.role = account[user[p]].role /\ row.password = word[p]
          /\ row.verified = account[user[p]].verified
    BY <2>1, <2>2, <2>3, PasswordFields
  <2>5. wallets' = wallets /\ profiles' = profiles
    BY <1>4 DEF Commits, CommitPassword
  <2>6. RowsTyped'
    BY <1>0, <2>1, <2>3, <2>4, <2>5, PutFacts, AddFacts DEF RowsTyped
  <2>7. Replaced(user[p])
    BY <1>0, <1>4, <2>1, <2>3, <2>4, <2>5, PutFacts, AddFacts DEF Replaced, SameOther
  <2>8. \A u \in Users \ {user[p]} : Untouched(u)
    BY <1>0, <2>1, <2>3, <2>4, <2>5, PutFacts, AddFacts DEF Untouched, SameOther
  <2>9. QED  BY <2>6, <2>7, <2>8
<1>5. ASSUME NEW p \in Requests,
             Begin(p) \/ Refuses(p) \/ Looks(p) \/ Writes(p) \/ Mails(p) \/ ProcessMail(p)
      PROVE  UNCHANGED rows
  BY <1>5
     DEF Begin, Begins, Refuses, Goes, Looks, Finds, Picks, Checks, Writes, Retires,
         RetireCodes, Saves, Expires, ExpireCode, Uses, UseCode, Verifies, Mails,
         Dispatch, ProcessMail, rows
<1>6. CASE Tick \/ Crash
  BY <1>1, <1>6 DEF Tick, Crash
<1>7. QED  BY <1>1, <1>2, <1>3, <1>4, <1>5, <1>6, NextCases

RequestsTyped ==
  /\ pc \in [Requests -> Labels]
  /\ kind \in [Requests -> Kinds \cup {"none"}]
  /\ user \in [Requests -> Users \cup {Blank}]
  /\ code \in [Requests -> Codes \cup {Blank}]
  /\ word \in [Requests -> Passwords \cup {Blank}]
  /\ mail \in [Requests -> {"none", "waiting", "over"}]
  /\ before \in [Requests -> SUBSET Requests]
  /\ used \in [Requests -> SUBSET Passwords]

LEMMA RequestsStep ==
  ASSUME TypeOK, PlaceInv, AccountInv, RowInv, Next
  PROVE  RequestsTyped'
<1>0. RequestsTyped
  BY DEF TypeOK, RequestsTyped
<1>. USE DEF RequestsTyped, Labels, Ended
<1>1. CASE Tick \/ \E p \in Requests : ProcessMail(p)
  BY <1>0, <1>1 DEF Tick, ProcessMail, given, local
<1>2. CASE Crash
  BY <1>0, <1>2 DEF Crash, given
<1>3. ASSUME NEW p \in Requests, Begin(p) PROVE RequestsTyped'
  <2>1. PICK k \in Kinds, u \in Users, to \in Labels : Begins(p, k, u, to)
    BY <1>3 DEF Begin
  <2>2. ToSet(past[u]) \in SUBSET Passwords
    BY DEF TypeOK, ToSet
  <2>3. QED  BY <1>0, <2>1, <2>2 DEF Begins
<1>4. ASSUME NEW p \in Requests, Refuses(p) \/ \E w \in Passwords : Opens(p, w)
      PROVE  RequestsTyped'
  BY <1>0, <1>4 DEF Refuses, Goes, Opens, given, local
<1>5. ASSUME NEW p \in Requests, NEW from, NEW to, NEW c, NEW w,
             c \in Codes \cup {Blank}, w \in Passwords \cup {Blank}, to \in Labels,
             Goes(p, from, to, c, w), mail' = mail
      PROVE  RequestsTyped'
  BY <1>0, <1>5 DEF Goes
<1>6. ASSUME NEW p \in Requests, Looks(p) PROVE RequestsTyped'
  <2>1. ASSUME NEW c \in Codes, Finds(p, c) PROVE RequestsTyped'
    <3>1. otp[TableOf(kind[p])][c].secret \in Passwords \cup {Blank}
      BY TableFacts, RowFields DEF TypeOK
    <3>2. QED  BY <1>5, <2>1, <3>1 DEF Finds
  <2>2. ASSUME NEW c \in Codes, Picks(p, c) PROVE RequestsTyped'
    BY <1>5, <2>2 DEF Picks
  <2>3. ASSUME NEW w \in Passwords, Checks(p, w) PROVE RequestsTyped'
    <3>1. code[p] \in Codes \cup {Blank}
      BY <1>0
    <3>2. QED  BY <1>5, <2>3, <3>1 DEF Checks
  <2>4. QED  BY <1>6, <2>1, <2>2, <2>3 DEF Looks
<1>7. ASSUME NEW p \in Requests, Writes(p) PROVE RequestsTyped'
  BY <1>0, <1>7
     DEF Writes, Retires, RetireCodes, Saves, Expires, ExpireCode, Uses, UseCode,
         Verifies, Step, Forget, Keep, given, local
<1>8. ASSUME NEW p \in Requests, Mails(p) \/ Confirms(p) \/ Commits(p)
      PROVE  RequestsTyped'
  BY <1>0, <1>8
     DEF Mails, Dispatch, Confirms, ConfirmEmail, Commits, CommitPassword, Step, given,
         local
<1>. HIDE DEF RequestsTyped
<1>9. QED  BY <1>1, <1>2, <1>3, <1>4, <1>6, <1>7, <1>8, NextCases

LEMMA TypeStep ==
  ASSUME TypeOK, PlaceInv, AccountInv, RowInv, Next
  PROVE  TypeOK'
BY AccountStep, RowStep, RequestsStep DEF TypeOK, RowsTyped, RequestsTyped, AccountType

-----------------------------------------------------------------------------
(* Accounts.                                                               *)
LEMMA AppendFacts ==
  ASSUME NEW S, NEW s \in Seq(S), NEW e \in S
  PROVE  /\ Append(s, e) # << >> /\ Last(Append(s, e)) = e
         /\ ToSet(s) \subseteq ToSet(Append(s, e))
<1>1. /\ Len(Append(s, e)) = Len(s) + 1 /\ Len(s) \in Nat
      /\ Append(s, e)[Len(s) + 1] = e
      /\ DOMAIN s = 1..Len(s) /\ DOMAIN Append(s, e) = 1..Len(s) + 1
      /\ \A i \in 1..Len(s) : Append(s, e)[i] = s[i]
  OBVIOUS
<1>2. Append(s, e) # << >>
  <2>1. Len(<< >>) = 0
    OBVIOUS
  <2>2. QED  BY <1>1, <2>1
<1>3. QED  BY <1>1, <1>2 DEF Last, ToSet

LEMMA WorkerFacts ==
  ASSUME TypeOK, PlaceInv, AccountInv, NEW p \in Requests
  PROVE  /\ Confirms(p) \/ Commits(p) => HasAccount(user[p]) /\ user[p] \in Users
         /\ \A c \in Codes : Saves(p, c) => HasAccount(user[p]) /\ user[p] \in Users
<1>1. Confirms(p) \/ Commits(p) => kind[p] \notin Registering \cup {"none"}
  BY DEF Confirms, Commits, Registering
<1>2. \A c \in Codes :
        Saves(p, c) => kind[p] \notin Registering \cup {"none"} \/ Created(p)
  BY DEF Saves, Issuing, Requesting, Registering, Created
<1>3. \A c \in Codes : Saves(p, c) => kind[p] # "none"
  BY DEF Saves, Issuing, Requesting
<1>4. QED  BY <1>1, <1>2, <1>3 DEF AccountInv, PlaceInv

LEMMA HasAccountStep ==
  ASSUME TypeOK, PlaceInv, AccountInv, RowInv, Next, NEW u \in Users
  PROVE  /\ HasAccount(u) => HasAccount(u)'
         /\ HasAccount(u)' => Opened(u) \/ HasAccount(u)
         /\ ~HasAccount(u)' => account'[u] = NoAccount
         /\ HasAccount(u) => account'[u].role = account[u].role
<1>1. CASE Untouched(u)
  BY <1>1 DEF Untouched, HasAccount, AccountInv
<1>2. CASE Opened(u)
  BY <1>2, AccountFields DEF Opened, HasAccount
<1>3. CASE Confirmed(u) \/ Replaced(u)
  BY <1>3, WorkerFacts DEF Confirmed, Replaced, HasAccount
<1>4. QED  BY <1>1, <1>2, <1>3, AccountStep

LEMMA CreatedStep ==
  ASSUME TypeOK, PlaceInv, AccountInv, RowInv, Next, NEW p \in Requests, Created(p)'
  PROVE  /\ user'[p] = user[p] /\ user[p] \in Users
         /\ Created(p) \/ \E w \in Passwords : Opens(p, w)
<1>. USE DEF Created
<1>1. CASE Same(p)
  BY <1>1 DEF Same, PlaceInv, Registering
<1>2. CASE Dies(p)
  BY <1>2 DEF Dies
<1>3. CASE Moves(p)
  <2>1. CASE Begin(p) \/ Refuses(p)
    BY <2>1 DEF Begin, Begins, Refuses, Goes, TypeOK
  <2>2. CASE \E w \in Passwords : Opens(p, w)
    BY <2>2 DEF Opens, given, PlaceInv
  <2>3. CASE Looks(p)
    BY <2>3 DEF Looks, Finds, Picks, Checks, Goes, Registering, Verifying
  <2>4. CASE Writes(p)
    BY <2>4
       DEF Writes, Retires, Saves, Expires, Uses, Verifies, Registering, Requesting,
           Verifying, RetireCodes, ExpireCode, UseCode, given, TypeOK, PlaceInv
  <2>5. CASE Mails(p) \/ Confirms(p) \/ Commits(p)
    BY <2>5
       DEF Mails, Dispatch, Step, Confirms, ConfirmEmail, Commits, CommitPassword, given,
           Registering, PlaceInv
  <2>6. QED  BY <1>3, <2>1, <2>2, <2>3, <2>4, <2>5 DEF Moves
<1>4. QED  BY <1>1, <1>2, <1>3, RequestStep

LEMMA AccountInvStep ==
  ASSUME TypeOK, PlaceInv, AccountInv, RowInv, Next
  PROVE  AccountInv'
<1>1. \A u \in Users : ~HasAccount(u)' => account'[u] = NoAccount
  BY HasAccountStep
<1>2. ASSUME NEW p \in Requests, Created(p)' PROVE account'[user'[p]].role # "none"
  <2>1. user'[p] = user[p] /\ user[p] \in Users
    BY <1>2, CreatedStep
  <2>2. CASE Created(p)
    BY <2>1, <2>2, HasAccountStep DEF AccountInv, HasAccount
  <2>3. ASSUME NEW w \in Passwords, Opens(p, w) PROVE account'[user[p]].role # "none"
    <3>1. /\ account'[user[p]] = Account("user", FALSE, w)
          \/ account'[user[p]] = Account("admin", TRUE, w)
      BY <2>1, <2>3 DEF Opens, TypeOK
    <3>2. Account("user", FALSE, w).role # "none" /\ Account("admin", TRUE, w).role # "none"
      BY DEF Account
    <3>3. QED  BY <3>1, <3>2
  <2>4. QED  BY <1>2, <2>1, <2>2, <2>3, CreatedStep
<1>3. ASSUME NEW p \in Requests, kind'[p] \notin Registering \cup {"none"}
      PROVE  account'[user'[p]].role # "none"
  <2>1. CASE pc[p] # "idle"
    BY <1>3, <2>1, FrameFacts, HasAccountStep DEF AccountInv, PlaceInv, HasAccount
  <2>2. CASE Begin(p)
    <3>1. PICK k \in Kinds, u \in Users, to \in Labels : Begins(p, k, u, to)
      BY <2>2 DEF Begin
    <3>2. user'[p] = u /\ kind'[p] = k
      BY <3>1 DEF Begins, TypeOK
    <3>3. HasAccount(u)
      BY <1>3, <3>1, <3>2, AccountFields DEF Begins, AccountInv
    <3>4. QED  BY <3>2, <3>3, HasAccountStep DEF HasAccount
  <2>3. CASE pc[p] = "idle" /\ ~Begin(p)
    BY <1>3, <2>3, FrameFacts DEF Same, Refuses, Goes, given, PlaceInv
  <2>4. QED  BY <2>1, <2>2, <2>3
<1>4. ASSUME NEW t \in Tables, NEW c \in Codes, otp'[t][c].user \in Users
      PROVE  account'[otp'[t][c].user].role # "none"
  <2>1. CASE Inserted(t, c)
    <3>1. PICK p \in Requests : Saves(p, c) /\ otp'[t][c].user = user[p]
      BY <2>1 DEF Inserted
    <3>2. HasAccount(user[p]) /\ user[p] \in Users
      BY <3>1, WorkerFacts
    <3>3. account'[user[p]].role # "none"
      BY <3>2, HasAccountStep DEF HasAccount
    <3>4. QED  BY <3>1, <3>3
  <2>2. CASE Kept(t, c)
    BY <1>4, <2>2, HasAccountStep DEF Kept, AccountInv, HasAccount
  <2>3. QED  BY <2>1, <2>2, RowStep
<1>5. ASSUME NEW p \in Requests, NEW q \in Requests, Created(p)', Created(q)',
             user'[p] = user'[q]
      PROVE  p = q
  <2>1. user'[p] = user[p] /\ user'[q] = user[q] /\ user[p] \in Users /\ user[q] \in Users
    BY <1>5, CreatedStep
  <2>2. CASE Created(p) /\ Created(q)
    BY <1>5, <2>1, <2>2 DEF AccountInv
  <2>3. ASSUME NEW r \in Requests, NEW s \in Requests, NEW w \in Passwords, Opens(r, w),
               Created(s)', user[r] = user[s]
        PROVE  r = s
    <3>1. ~Created(s)
      BY <2>3, AccountFields DEF Opens, EmailIsFree, AccountInv, HasAccount
    <3>2. PICK v \in Passwords : Opens(s, v)
      BY <2>3, <3>1, CreatedStep
    <3>3. pc[s] = "create"
      BY <3>2 DEF Opens
    <3>4. r # s => Same(s)
      BY <2>3, MovesOthers DEF Moves
    <3>5. pc'[s] # "create"
      BY <2>3 DEF Created
    <3>6. QED  BY <3>3, <3>4, <3>5 DEF Same
  <2>4. QED  BY <1>5, <2>1, <2>2, <2>3, CreatedStep
<1>6. QED  BY <1>1, <1>2, <1>3, <1>4, <1>5 DEF AccountInv, HasAccount

LEMMA WholeStep ==
  ASSUME TypeOK, PlaceInv, AccountInv, RowInv, AccountIsWhole, Next
  PROVE  AccountIsWhole'
<1>1. SUFFICES ASSUME NEW u \in Users
               PROVE  IF account'[u] = NoAccount
                      THEN u \notin wallets' \cup profiles' /\ past'[u] = << >>
                      ELSE /\ u \in wallets' \cap profiles' /\ past'[u] # << >>
                           /\ account'[u].password = Last(past'[u])
  BY DEF AccountIsWhole
<1>2. past[u] \in Seq(Passwords)
  BY DEF TypeOK
<1>3. CASE Untouched(u)
  BY <1>3 DEF Untouched, SameOther, AccountIsWhole
<1>4. CASE Opened(u)
  BY <1>2, <1>4, AppendFacts, AccountFields DEF Opened
<1>5. CASE Confirmed(u)
  <2>1. HasAccount(u)
    BY <1>5, WorkerFacts DEF Confirmed
  <2>2. account[u] # NoAccount /\ account'[u] # NoAccount
    BY <2>1, HasAccountStep, AccountFields DEF HasAccount
  <2>3. QED  BY <1>5, <2>2 DEF Confirmed, SameOther, AccountIsWhole
<1>6. CASE Replaced(u)
  <2>1. PICK p \in Requests :
          /\ Commits(p) /\ user[p] = u
          /\ account'[u].password = word[p] /\ past'[u] = Append(past[u], word[p])
    BY <1>6 DEF Replaced
  <2>2. word[p] \in Passwords /\ HasAccount(u)
    BY <2>1, WorkerFacts DEF Commits, CommitPassword, Step, PlaceInv
  <2>3. account[u] # NoAccount /\ account'[u] # NoAccount
    BY <2>2, HasAccountStep, AccountFields DEF HasAccount
  <2>4. past'[u] # << >> /\ Last(past'[u]) = word[p]
    BY <1>2, <2>1, <2>2, AppendFacts
  <2>5. QED  BY <1>6, <2>1, <2>3, <2>4 DEF Replaced, SameOther, AccountIsWhole
<1>7. QED  BY <1>3, <1>4, <1>5, <1>6, AccountStep

-----------------------------------------------------------------------------
(* Codes.                                                                  *)
LEMMA HoldStep ==
  ASSUME TypeOK, PlaceInv, AccountInv, RowInv, Next, NEW p \in Requests, HasCode(p)'
  PROVE  \/ /\ HasCode(p)
            /\ code'[p] = code[p] /\ kind'[p] = kind[p] /\ user'[p] = user[p]
         \/ \E c \in Codes :
              /\ Finds(p, c) \/ Picks(p, c)
              /\ code'[p] = c /\ kind'[p] = kind[p] /\ user'[p] = user[p]
              /\ otp' = otp
<1>. USE DEF HasCode, TypeOK
<1>1. CASE Same(p) \/ Dies(p)
  BY <1>1 DEF Same, Dies
<1>2. CASE Begin(p) \/ Refuses(p) \/ \E w \in Passwords : Opens(p, w)
  <2>1. ASSUME NEW k, NEW u, NEW to, Begins(p, k, u, to) PROVE FALSE
    <3>1. pc'[p] = to /\ kind'[p] = k
      BY <2>1 DEF Begins
    <3>2. QED  BY <2>1, <3>1 DEF Begins, Registering, Requesting, Verifying
  <2>2. QED  BY <1>2, <2>1 DEF Begin, Refuses, Goes, Opens
<1>3. ASSUME NEW c \in Codes, Finds(p, c) \/ Picks(p, c)
      PROVE  code'[p] = c /\ kind'[p] = kind[p] /\ user'[p] = user[p] /\ otp' = otp
  BY <1>3 DEF Finds, Picks, Goes
<1>4. ASSUME NEW w \in Passwords, Checks(p, w)
      PROVE  /\ HasCode(p)
             /\ code'[p] = code[p] /\ kind'[p] = kind[p] /\ user'[p] = user[p]
  BY <1>4 DEF Checks, Goes
<1>5. ASSUME Writes(p)
      PROVE  /\ HasCode(p)
             /\ code'[p] = code[p] /\ kind'[p] = kind[p] /\ user'[p] = user[p]
  BY <1>5
     DEF Writes, Retires, RetireCodes, Saves, Expires, ExpireCode, Uses, UseCode,
         Verifies, Step, given, local
<1>6. CASE Mails(p) \/ Confirms(p) \/ Commits(p)
  BY <1>6 DEF Mails, Dispatch, Confirms, ConfirmEmail, Commits, CommitPassword, Step
<1>7. QED  BY <1>1, <1>2, <1>3, <1>4, <1>5, <1>6, RequestStep DEF Moves, Looks

\* The row of a code that is held by a request.
LEMMA HeldFacts ==
  ASSUME TypeOK, PlaceInv, AccountInv, RowInv, Next, NEW p \in Requests, HasCode(p)
  PROVE  /\ TableOf(kind[p]) \in Tables /\ code[p] \in Codes /\ user[p] \in Users
         /\ otp[TableOf(kind[p])][code[p]].user = user[p]
         /\ Kept(TableOf(kind[p]), code[p])
<1>1. TableOf(kind[p]) \in Tables /\ code[p] \in Codes
  BY TableFacts DEF PlaceInv
<1>2. kind[p] # "none"
  BY DEF PlaceInv, HasCode, On, Registering, Requesting, Verifying, Issuing, Ended
<1>3. user[p] \in Users /\ otp[TableOf(kind[p])][code[p]].user = user[p]
  BY <1>2 DEF PlaceInv, RowInv
<1>4. otp[TableOf(kind[p])][code[p]] # NoRow
  BY <1>3, NoRowFacts, Constants
<1>5. QED  BY <1>1, <1>3, <1>4, RowStep DEF Inserted

LEMMA RowInvStep ==
  ASSUME TypeOK, PlaceInv, AccountInv, RowInv, Next
  PROVE  RowInv'
<1>1. ASSUME NEW t \in Tables, NEW c \in Codes
      PROVE  /\ otp'[t][c].by \in Requests => pc'[otp'[t][c].by] # "idle"
             /\ t = "change" /\ ~otp'[t][c].used => otp'[t][c].secret \in Passwords
             /\ otp'[t][c].user = Blank => otp'[t][c] = NoRow
  <2>1. CASE Inserted(t, c)
    <3>1. PICK p \in Requests :
            /\ pc[p] = "save" /\ Saves(p, c) /\ t = TableOf(kind[p])
            /\ otp'[t][c].user = user[p] /\ otp'[t][c].by = p
            /\ kind[p] = "change" => otp'[t][c].secret \in Passwords
      BY <2>1 DEF Inserted
    <3>2. pc'[p] # "idle"
      BY <3>1, FrameFacts
    <3>3. user[p] \in Users /\ user[p] # Blank
      BY <3>1, WorkerFacts, Constants
    <3>4. t = "change" => kind[p] = "change"
      BY <3>1 DEF Saves, Issuing, Requesting, TableOf
    <3>5. QED  BY <3>1, <3>2, <3>3, <3>4
  <2>2. CASE Kept(t, c)
    <3>1. otp'[t][c].by \in Requests => pc'[otp'[t][c].by] # "idle"
      BY <2>2, FrameFacts DEF Kept, RowInv
    <3>2. t = "change" => ~Anew(t, c)
      BY DEF Anew
    <3>3. QED  BY <2>2, <3>1, <3>2 DEF Kept, RowInv
  <2>3. QED  BY <2>1, <2>2, RowStep
<1>2. ASSUME NEW p \in Requests, HasCode(p)'
      PROVE  otp'[TableOf(kind'[p])][code'[p]].user = user'[p]
  <2>1. CASE /\ HasCode(p)
             /\ code'[p] = code[p] /\ kind'[p] = kind[p] /\ user'[p] = user[p]
    BY <2>1, HeldFacts DEF Kept
  <2>2. ASSUME NEW c \in Codes, Finds(p, c) \/ Picks(p, c),
               code'[p] = c, kind'[p] = kind[p], user'[p] = user[p], otp' = otp
        PROVE  otp'[TableOf(kind'[p])][code'[p]].user = user'[p]
    BY <2>2 DEF Finds, Picks, Matches, TableOf
  <2>3. QED  BY <1>2, <2>1, <2>2, HoldStep
<1>3. QED  BY <1>1, <1>2 DEF RowInv, TableOf

(* A code that was used up to verify an address is never unused again.     *)
LEMMA UsedUpStep ==
  ASSUME TypeOK, PlaceInv, AccountInv, RowInv, Next, NEW u \in Users, UsedUp(u)
  PROVE  UsedUp(u)'
<1>1. PICK c \in Codes : otp["email"][c].user = u /\ otp["email"][c].used
  BY DEF UsedUp
<1>2. "email" \in Tables /\ ~Anew("email", c)
  BY DEF Tables, Anew
<1>3. otp["email"][c] # NoRow
  BY <1>1, NoRowFacts, Constants
<1>4. Kept("email", c)
  BY <1>2, <1>3, RowStep DEF Inserted
<1>5. QED  BY <1>1, <1>2, <1>4 DEF Kept, UsedUp

LEMMA VerifiedStep ==
  ASSUME TypeOK, PlaceInv, AccountInv, RowInv, VerifiedInv, Next
  PROVE  VerifiedInv'
<1>1. ASSUME NEW u \in Users, account'[u].role = "user", account'[u].verified
      PROVE  UsedUp(u)'
  <2>1. CASE Untouched(u)
    BY <1>1, <2>1, UsedUpStep DEF Untouched, VerifiedInv
  <2>2. CASE Opened(u)
    BY <1>1, <2>2 DEF Opened
  <2>3. CASE Confirmed(u)
    <3>1. PICK p \in Requests : Confirms(p) /\ user[p] = u
      BY <2>3 DEF Confirmed
    <3>2. pc[p] = "confirm"
      BY <3>1 DEF Confirms, ConfirmEmail, Step
    <3>3. QED  BY <3>1, <3>2, UsedUpStep DEF VerifiedInv
  <2>4. CASE Replaced(u)
    BY <1>1, <2>4, UsedUpStep DEF Replaced, VerifiedInv
  <2>5. QED  BY <2>1, <2>2, <2>3, <2>4, AccountStep
<1>2. ASSUME NEW p \in Requests, pc'[p] = "confirm" PROVE UsedUp(user[p])'
  <2>1. CASE pc[p] = "confirm" /\ user'[p] = user[p]
    <3>1. user[p] \in Users /\ UsedUp(user[p])
      BY <2>1, HeldFacts DEF HasCode, VerifiedInv
    <3>2. PICK u \in Users : u = user[p]
      BY <3>1
    <3>3. QED  BY <2>1, <3>1, <3>2, UsedUpStep DEF UsedUp
  <2>2. CASE Uses(p)
    <3>1. HasCode(p) /\ TableOf(kind[p]) = "email" /\ user'[p] = user[p]
      BY <2>2 DEF Uses, UseCode, Step, HasCode, TableOf, given
    <3>2. code[p] \in Codes /\ otp'["email"][code[p]].user = user[p]
      BY <3>1, HeldFacts DEF Kept
    <3>3. otp'["email"][code[p]].used
      <4>1. Held(p, "email") \in RowType
        BY <3>1, <3>2, HeldFacts DEF Held, TypeOK
      <4>2. SetRow("email", code[p], [Held(p, "email") EXCEPT !.used = TRUE])
        BY <2>2 DEF Uses, UseCode
      <4>3. QED  BY <3>1, <4>1, <4>2, SpentFacts, SpendFacts
    <3>4. QED  BY <3>1, <3>2, <3>3 DEF UsedUp
  <2>3. (pc[p] = "confirm" /\ user'[p] = user[p]) \/ Uses(p)
    <3>1. CASE Same(p) \/ Dies(p)
      BY <1>2, <3>1 DEF Same, Dies
    <3>2. CASE Moves(p)
      BY <1>2, <3>2
         DEF Moves, Begin, Begins, Refuses, Goes, Opens, Looks, Finds, Picks, Checks,
             Writes, Retires, RetireCodes, Saves, Expires, ExpireCode, Verifies, Mails,
             Dispatch, Confirms, ConfirmEmail, Commits, CommitPassword, Step, TypeOK,
             Registering, Requesting, Verifying, On, Uses, UseCode
    <3>3. QED  BY <3>1, <3>2, RequestStep
  <2>4. QED  BY <2>1, <2>2, <2>3
<1>3. QED  BY <1>1, <1>2 DEF VerifiedInv, UsedUp

-----------------------------------------------------------------------------
(* The retiring of older codes.                                            *)
LEMMA OverlapStep ==
  ASSUME TypeOK, PlaceInv, AccountInv, RowInv, Next, NEW p, NEW q, Overlap(p, q),
         pc[p] # "idle", pc[q] # "idle"
  PROVE  Overlap(p, q)'
BY FrameFacts DEF Overlap

LEMMA BusyOverlap ==
  ASSUME OverStaysOver, NEW p \in Requests, NEW q \in Requests,
         pc[p] \notin Ended, pc[q] \notin Ended
  PROVE  Overlap(p, q)
BY DEF OverStaysOver, Overlap

LEMMA RevivedStep ==
  ASSUME TypeOK, PlaceInv, AccountInv, RowInv, Next, NEW c, NEW q, pc[q] # "idle",
         Revived(c, q)
  PROVE  Revived(c, q)'
<1>1. PICK v \in Done("verifyReset") : code[v] = c /\ Overlap(v, q)
  BY DEF Revived
<1>2. v \in Requests /\ kind[v] = "verifyReset" /\ pc[v] = "done"
  BY <1>1 DEF Done
<1>3. Same(v)
  BY <1>2, FrameFacts DEF Ended
<1>4. v \in Done("verifyReset")' /\ code'[v] = c
  BY <1>1, <1>2, <1>3 DEF Same, Done
<1>5. Overlap(v, q)'
  BY <1>1, <1>2, OverlapStep
<1>6. QED  BY <1>4, <1>5 DEF Revived

\* The request whose code has just been verified.
LEMMA VerifiesFacts ==
  ASSUME TypeOK, PlaceInv, AccountInv, RowInv, NEW q \in Requests, Verifies(q)
  PROVE  /\ code[q] \in Codes /\ otp["reset"][code[q]].user = user[q]
         /\ pc[q] \notin Ended
         /\ q \in Done("verifyReset")' /\ user'[q] = user[q] /\ code'[q] = code[q]
<1>1. HasCode(q) /\ TableOf(kind[q]) = "reset"
  BY DEF Verifies, Step, HasCode, TableOf
<1>2. code[q] \in Codes /\ otp["reset"][code[q]].user = user[q]
  BY <1>1 DEF PlaceInv, RowInv
<1>3. QED  BY <1>2 DEF Verifies, Step, given, local, Done, Ended, TypeOK

\* A request that has just written a code back excuses it.
LEMMA WrittenBack ==
  ASSUME TypeOK, PlaceInv, AccountInv, RowInv, Next, NEW v \in Requests, Verifies(v),
         NEW c, code[v] = c, NEW q, pc[q] # "idle", Overlap(v, q)
  PROVE  Revived(c, q)'
<1>1. v \in Done("verifyReset")' /\ code'[v] = c
  BY VerifiesFacts
<1>2. pc[v] # "idle"
  BY DEF Verifies, Step
<1>3. Overlap(v, q)'
  BY <1>2, OverlapStep
<1>4. QED  BY <1>1, <1>3 DEF Revived

LEMMA InsertedAlone ==
  ASSUME TypeOK, NEW t \in Tables, NEW c \in Codes, NEW d \in Codes,
         Inserted(t, d), c # d
  PROVE  otp'[t][c] = otp[t][c]
<1>1. PICK p \in Requests : Saves(p, d) /\ t = TableOf(kind[p])
  BY DEF Inserted
<1>2. QED  BY <1>1 DEF Saves, SetRow, TypeOK

\* A code that has just been saved is older than nothing.
LEMMA InsertedIsNew ==
  ASSUME TypeOK, OverStaysOver', NEW t \in Tables, NEW c \in Codes, Inserted(t, c),
         NEW q \in Requests
  PROVE  ~OlderThan(t, c, q)'
<1>1. PICK p \in Requests : Saves(p, c) /\ otp'[t][c].by = p
  BY DEF Inserted
<1>2. pc'[p] = "mail"
  BY <1>1 DEF Saves, TypeOK
<1>3. QED  BY <1>1, <1>2, Constants DEF OlderThan, OverStaysOver, Ended

LEMMA OlderKept ==
  ASSUME TypeOK, PlaceInv, AccountInv, RowInv, Next, NEW t, NEW c, Kept(t, c),
         NEW q \in Requests, pc[q] # "idle", OlderThan(t, c, q)'
  PROVE  OlderThan(t, c, q)
BY FrameFacts DEF OlderThan, Kept

LEMMA SaveStep ==
  ASSUME TypeOK, PlaceInv, AccountInv, RowInv, Next, NEW p \in Requests,
         pc'[p] = "save", kind'[p] # "change"
  PROVE  /\ kind'[p] = kind[p] /\ user'[p] = user[p]
         /\ \/ pc[p] = "save"
            \/ \E w \in Passwords : Opens(p, w)
            \/ Retires(p)
<1>1. CASE Same(p) \/ Dies(p)
  BY <1>1 DEF Same, Dies
<1>2. CASE Begin(p)
  <2>1. ASSUME NEW k, NEW u, NEW to, Begins(p, k, u, to) PROVE pc'[p] # "save"
    BY <2>1 DEF Begins, TypeOK
  <2>2. QED  BY <1>2, <2>1 DEF Begin
<1>3. CASE Refuses(p) \/ \E w \in Passwords : Opens(p, w)
  BY <1>3 DEF Refuses, Goes, Opens, TypeOK, given
<1>4. CASE Looks(p)
  BY <1>4 DEF Looks, Finds, Picks, Checks, Goes, TypeOK
<1>5. CASE Writes(p)
  BY <1>5
     DEF Writes, Retires, RetireCodes, Saves, Expires, ExpireCode, Uses, UseCode,
         Verifies, Step, given, TypeOK
<1>6. CASE Mails(p) \/ Confirms(p) \/ Commits(p)
  BY <1>6
     DEF Mails, Dispatch, Confirms, ConfirmEmail, Commits, CommitPassword, Step, TypeOK
<1>7. QED  BY <1>1, <1>2, <1>3, <1>4, <1>5, <1>6, RequestStep DEF Moves

LEMMA SaverStep ==
  ASSUME TypeOK, PlaceInv, OverStaysOver, AccountInv, RowInv, RetiredInv, Next,
         NEW t \in Tables, NEW c \in Codes, NEW p \in Requests,
         pc'[p] = "save", kind'[p] # "change", t = TableOf(kind'[p]),
         otp'[t][c].user = user'[p], ~otp'[t][c].used, OlderThan(t, c, p)'
  PROVE  Excused(t, c, p)'
<1>1. kind'[p] = kind[p] /\ user'[p] = user[p]
  BY SaveStep
<1>2. CASE pc[p] = "save"
  <2>1. OverStaysOver'
    BY OverStep
  <2>2. Kept(t, c)
    BY <2>1, InsertedIsNew, RowStep
  <2>3. OlderThan(t, c, p)
    BY <1>2, <2>2, OlderKept
  <2>4. CASE ~otp[t][c].used
    <3>1. t = "reset" /\ Revived(c, p)
      BY <1>1, <1>2, <2>2, <2>3, <2>4 DEF RetiredInv, Excused, Kept
    <3>2. Revived(c, p)'
      BY <1>2, <3>1, RevivedStep
    <3>3. QED  BY <3>1, <3>2 DEF Excused
  <2>5. CASE Anew(t, c)
    <3>1. PICK v \in Requests : Verifies(v) /\ code[v] = c
      BY <2>5 DEF Anew
    <3>2. pc[v] \notin Ended
      BY <3>1, VerifiesFacts
    <3>3. Overlap(v, p)
      BY <1>2, <3>2, BusyOverlap DEF Ended
    <3>4. Revived(c, p)'
      BY <1>2, <3>1, <3>3, WrittenBack
    <3>5. QED  BY <2>5, <3>4 DEF Anew, Excused
  <2>6. QED  BY <2>2, <2>4, <2>5 DEF Kept
<1>3. ASSUME NEW w \in Passwords, Opens(p, w) PROVE FALSE
  <2>1. account[user[p]] = NoAccount /\ otp' = otp /\ user[p] \in Users
    BY <1>3 DEF Opens, EmailIsFree, PlaceInv
  <2>2. otp[t][c].user = user[p]
    BY <1>1, <2>1
  <2>3. QED  BY <2>1, <2>2, AccountFields DEF AccountInv, HasAccount
<1>4. ASSUME Retires(p) PROVE FALSE
  <2>1. RetireAll(t, user[p])
    BY <1>1, <1>4 DEF Retires, RetireCodes
  <2>2. otp'[t][c] = IF otp[t][c].user = user[p]
                     THEN [otp[t][c] EXCEPT !.used = TRUE] ELSE otp[t][c]
    BY <2>1 DEF RetireAll, TypeOK
  <2>3. otp[t][c] \in RowType
    BY DEF TypeOK
  <2>4. CASE otp[t][c].user = user[p]
    BY <2>2, <2>3, <2>4, SpentFacts DEF Spent
  <2>5. QED  BY <1>1, <2>2, <2>4
<1>5. QED  BY <1>2, <1>3, <1>4, SaveStep

\* Who holds a code to be verified goes on to nothing else.
LEMMA VerifyStep ==
  ASSUME TypeOK, PlaceInv, AccountInv, RowInv, Next, NEW v \in Requests, HasCode(v),
         kind[v] = "verifyReset", pc'[v] = "verify"
  PROVE  pc[v] = "verify"
<1>. USE DEF TypeOK, HasCode
<1>1. CASE Same(v) \/ Dies(v)
  BY <1>1 DEF Same, Dies
<1>2. CASE Begin(v) \/ Refuses(v) \/ \E w \in Passwords : Opens(v, w)
  <2>1. ASSUME NEW k, NEW u, NEW to, Begins(v, k, u, to) PROVE FALSE
    BY <2>1 DEF Begins
  <2>2. QED  BY <1>2, <2>1 DEF Begin, Refuses, Goes, Opens
<1>3. CASE Looks(v)
  BY <1>3 DEF Looks, Finds, Picks, Checks, Goes
<1>4. CASE Writes(v)
  BY <1>4
     DEF Writes, Retires, RetireCodes, Saves, Expires, ExpireCode, Uses, UseCode,
         Verifies, Step
<1>5. CASE Mails(v) \/ Confirms(v) \/ Commits(v)
  BY <1>5 DEF Mails, Dispatch, Confirms, ConfirmEmail, Commits, CommitPassword, Step
<1>6. QED  BY <1>1, <1>2, <1>3, <1>4, <1>5, RequestStep DEF Moves

LEMMA WriterStep ==
  ASSUME TypeOK, PlaceInv, OverStaysOver, AccountInv, RowInv, RetiredInv,
         OlderCodesAreRetired, Next,
         NEW c \in Codes, NEW d \in Codes, NEW v \in Requests, NEW q \in Requests,
         kind'[v] = "verifyReset", pc'[v] = "verify", code'[v] = c, c # d,
         otp'["reset"][d].user = user'[v], otp'["reset"][d].by = q,
         OlderThan("reset", c, q)'
  PROVE  Revived(c, q)' \/ Overlap(v, q)'
<1>1. "reset" \in Tables /\ OverStaysOver'
  BY OverStep DEF Tables
<1>2. Kept("reset", c)
  BY <1>1, InsertedIsNew, RowStep
<1>3. CASE Inserted("reset", d)
  <2>1. PICK p \in Requests : Saves(p, d) /\ otp'["reset"][d].by = p
    BY <1>3 DEF Inserted
  <2>2. pc'[q] = "mail"
    BY <2>1 DEF Saves, TypeOK
  <2>3. QED  BY <1>1, <2>2 DEF OverStaysOver, Overlap, Ended
<1>4. CASE Kept("reset", d)
  <2>1. otp["reset"][d].by = q /\ otp["reset"][d].user = user'[v] /\ pc[q] # "idle"
    BY <1>1, <1>4 DEF Kept, RowInv
  <2>2. OlderThan("reset", c, q)
    BY <1>2, <2>1, OlderKept
  <2>3. HasCode(v)'
    BY DEF HasCode
  <2>4. CASE HasCode(v) /\ code'[v] = code[v] /\ kind'[v] = kind[v] /\ user'[v] = user[v]
    <3>1. pc[v] = "verify"
      BY <2>4, VerifyStep
    <3>2. Revived(c, q) \/ Overlap(v, q)
      BY <2>1, <2>2, <2>4, <3>1 DEF RetiredInv
    <3>3. QED  BY <2>1, <3>1, <3>2, RevivedStep, OverlapStep
  <2>5. ASSUME NEW x \in Codes, Finds(v, x) \/ Picks(v, x), code'[v] = x,
               kind'[v] = kind[v], user'[v] = user[v], otp' = otp
        PROVE  Revived(c, q)'
    <3>1. Finds(v, c) /\ TableOf(kind[v]) = "reset"
      BY <2>5 DEF Picks, TableOf
    <3>2. otp["reset"][c].user = user[v] /\ ~otp["reset"][c].used
      BY <3>1 DEF Finds, Matches
    <3>3. Revived(c, q)
      BY <2>1, <2>2, <2>5, <3>2 DEF OlderCodesAreRetired, OlderThan
    <3>4. QED  BY <2>1, <3>3, RevivedStep
  <2>6. QED  BY <2>3, <2>4, <2>5, HoldStep
<1>5. QED  BY <1>1, <1>3, <1>4, RowStep

LEMMA RetiredStep ==
  ASSUME TypeOK, PlaceInv, OverStaysOver, AccountInv, RowInv, RetiredInv,
         OlderCodesAreRetired, Next
  PROVE  RetiredInv'
BY SaverStep, WriterStep DEF RetiredInv

LEMMA OlderStep ==
  ASSUME TypeOK, PlaceInv, OverStaysOver, AccountInv, RowInv, RetiredInv,
         OlderCodesAreRetired, Next
  PROVE  OlderCodesAreRetired'
<1>1. SUFFICES ASSUME NEW t \in {"email", "reset"}, NEW c \in Codes, NEW d \in Codes,
                      NEW q \in Requests, c # d, otp'[t][c].user = otp'[t][d].user,
                      otp'[t][d].by = q, OlderThan(t, c, q)', ~otp'[t][c].used
               PROVE  Excused(t, c, q)'
  BY DEF OlderCodesAreRetired, OlderThan, Excused, Revived, Overlap
<1>2. t \in Tables /\ OverStaysOver'
  BY OverStep DEF Tables
<1>3. Kept(t, c)
  BY <1>1, <1>2, InsertedIsNew, RowStep
<1>4. CASE Inserted(t, d)
  <2>1. PICK p \in Requests :
          /\ pc[p] = "save" /\ t = TableOf(kind[p])
          /\ otp'[t][d].user = user[p] /\ otp'[t][d].by = p
    BY <1>4 DEF Inserted
  <2>2. p = q /\ kind[q] # "change"
    BY <1>1, <2>1 DEF TableOf
  <2>3. otp'[t][c] = otp[t][c]
    BY <1>1, <1>2, <1>4, InsertedAlone
  <2>4. OlderThan(t, c, q)
    BY <1>1, <1>3, <2>1, <2>2, OlderKept
  <2>5. Excused(t, c, q)
    BY <1>1, <1>2, <2>1, <2>2, <2>3, <2>4 DEF RetiredInv
  <2>6. QED  BY <2>1, <2>2, <2>5, RevivedStep DEF Excused
<1>5. CASE Kept(t, d)
  <2>1. otp[t][d].by = q /\ otp[t][c].user = otp[t][d].user /\ pc[q] # "idle"
    BY <1>1, <1>2, <1>3, <1>5 DEF Kept, RowInv
  <2>2. OlderThan(t, c, q)
    BY <1>1, <1>3, <2>1, OlderKept
  <2>3. CASE ~otp[t][c].used
    <3>1. t = "reset" /\ Revived(c, q)
      BY <1>1, <2>1, <2>2, <2>3 DEF OlderCodesAreRetired, OlderThan
    <3>2. QED  BY <2>1, <3>1, RevivedStep DEF Excused
  <2>4. CASE Anew(t, c)
    <3>1. PICK v \in Requests : Verifies(v) /\ code[v] = c
      BY <2>4 DEF Anew
    <3>2. otp["reset"][c].user = user[v]
      BY <3>1, VerifiesFacts
    <3>3. t = "reset" /\ kind[v] = "verifyReset" /\ pc[v] = "verify"
      BY <2>4, <3>1 DEF Anew, Verifies, Step
    <3>4. Revived(c, q) \/ Overlap(v, q)
      BY <1>1, <2>1, <2>2, <3>1, <3>2, <3>3 DEF RetiredInv
    <3>5. Revived(c, q)'
      BY <2>1, <3>1, <3>4, RevivedStep, WrittenBack
    <3>6. QED  BY <3>3, <3>5 DEF Excused
  <2>5. QED  BY <1>1, <1>3, <2>3, <2>4 DEF Kept
<1>6. QED  BY <1>2, <1>4, <1>5, RowStep

-----------------------------------------------------------------------------
(* The emails.                                                             *)
LEMMA MailStep ==
  ASSUME TypeOK, PlaceInv, AccountInv, RowInv, MailInv, Next
  PROVE  MailInv'
<1>1. SUFFICES ASSUME NEW p \in Requests, pc'[p] = "mail" \/ mail'[p] # "none"
               PROVE  Saved(p)'
  BY DEF MailInv
<1>2. ASSUME Saved(p) PROVE Saved(p)'
  <2>1. PICK t \in Tables, c \in Codes : otp[t][c].by = p
    BY <1>2 DEF Saved
  <2>2. otp[t][c] # NoRow
    BY <2>1, NoRowFacts, Constants
  <2>3. Kept(t, c)
    BY <2>2, RowStep DEF Inserted
  <2>4. QED  BY <2>1, <2>3 DEF Kept, Saved
<1>3. ASSUME NEW c \in Codes, Saves(p, c) PROVE Saved(p)'
  <2>. DEFINE t == TableOf(kind[p])
              secret == IF kind[p] = "change" THEN word[p] ELSE Blank
  <2>1. t \in Tables /\ user[p] \in Users /\ secret \in Passwords \cup {Blank}
    BY <1>3, TableFacts, WorkerFacts DEF TypeOK
  <2>2. SetRow(t, c, Row(user[p], secret, p))
    BY <1>3 DEF Saves
  <2>3. otp'[t][c] = Row(user[p], secret, p)
    BY <2>1, <2>2 DEF SetRow, TypeOK
  <2>4. Row(user[p], secret, p).by = p
    BY DEF Row
  <2>. HIDE DEF t, secret
  <2>5. otp'[t][c].by = p
    BY <2>3, <2>4
  <2>6. QED  BY <2>1, <2>5 DEF Saved
<1>4. mail'[p] # "none" => mail[p] # "none" \/ pc[p] = "mail"
  <2>1. ASSUME NEW q \in Requests, Mails(q) \/ ProcessMail(q)
        PROVE  mail'[p] # "none" => mail[p] # "none" \/ pc[p] = "mail"
    BY <2>1 DEF Mails, Dispatch, Step, ProcessMail, TypeOK
  <2>2. ASSUME NEW q \in Requests,
               \/ Begin(q) \/ Refuses(q) \/ (\E w \in Passwords : Opens(q, w))
               \/ Looks(q) \/ Writes(q) \/ Confirms(q) \/ Commits(q)
        PROVE  mail' = mail
    BY <2>2
       DEF Begin, Begins, Refuses, Opens, Looks, Finds, Picks, Checks, Writes, Retires,
           RetireCodes, Saves, Expires, ExpireCode, Uses, UseCode, Verifies, Confirms,
           ConfirmEmail, Commits, CommitPassword
  <2>3. QED  BY <2>1, <2>2, NextCases DEF Tick, Crash
<1>5. pc'[p] = "mail" => pc[p] = "mail" \/ \E c \in Codes : Saves(p, c)
  <2>1. CASE Same(p) \/ Dies(p)
    BY <2>1 DEF Same, Dies
  <2>2. CASE Begin(p)
    <3>1. ASSUME NEW k, NEW u, NEW to, Begins(p, k, u, to) PROVE pc'[p] # "mail"
      BY <3>1 DEF Begins, TypeOK
    <3>2. QED  BY <2>2, <3>1 DEF Begin
  <2>3. CASE Refuses(p) \/ \E w \in Passwords : Opens(p, w)
    BY <2>3 DEF Refuses, Goes, Opens, TypeOK
  <2>4. CASE Looks(p)
    BY <2>4 DEF Looks, Finds, Picks, Checks, Goes, TypeOK
  <2>5. CASE Writes(p)
    BY <2>5
       DEF Writes, Retires, RetireCodes, Expires, ExpireCode, Uses, UseCode, Verifies,
           Step, TypeOK
  <2>6. CASE Mails(p) \/ Confirms(p) \/ Commits(p)
    BY <2>6
       DEF Mails, Dispatch, Confirms, ConfirmEmail, Commits, CommitPassword, Step, TypeOK
  <2>7. QED  BY <2>1, <2>2, <2>3, <2>4, <2>5, <2>6, RequestStep DEF Moves
<1>6. QED  BY <1>1, <1>2, <1>3, <1>4, <1>5 DEF MailInv

-----------------------------------------------------------------------------
(* Resets of the password.                                                 *)
LEMMA WasVerifiedStep ==
  ASSUME TypeOK, PlaceInv, AccountInv, RowInv, Next, NEW u, NEW c, WasVerified(u, c)
  PROVE  WasVerified(u, c)'
<1>1. PICK q \in Done("verifyReset") : user[q] = u /\ code[q] = c
  BY DEF WasVerified
<1>2. q \in Requests /\ kind[q] = "verifyReset" /\ pc[q] = "done"
  BY <1>1 DEF Done
<1>3. Same(q)
  BY <1>2, FrameFacts DEF Ended
<1>4. q \in Done("verifyReset")' /\ user'[q] = u /\ code'[q] = c
  BY <1>1, <1>2, <1>3 DEF Same, Done
<1>5. QED  BY <1>4 DEF WasVerified

LEMMA VerifiedSinceStep ==
  ASSUME TypeOK, PlaceInv, AccountInv, RowInv, Next, NEW p \in Requests, pc[p] # "idle",
         NEW c, VerifiedSince(c, p)
  PROVE  VerifiedSince(c, p)'
<1>1. PICK v \in Done("verifyReset") : code[v] = c /\ v \notin before[p]
  BY DEF VerifiedSince
<1>2. v \in Requests /\ kind[v] = "verifyReset" /\ pc[v] = "done"
  BY <1>1 DEF Done
<1>3. Same(v)
  BY <1>2, FrameFacts DEF Ended
<1>4. v \in Done("verifyReset")' /\ code'[v] = c /\ v \notin before'[p]
  BY <1>1, <1>2, <1>3, FrameFacts DEF Same, Done
<1>5. QED  BY <1>4 DEF VerifiedSince

LEMMA PickedStep ==
  ASSUME TypeOK, PlaceInv, AccountInv, RowInv, Next, NEW p \in Requests, Picked(p)'
  PROVE  /\ user'[p] = user[p] /\ before'[p] = before[p] /\ pc[p] # "idle"
         /\ \/ Picked(p) /\ code'[p] = code[p]
            \/ \E c \in Codes : Picks(p, c) /\ code'[p] = c
<1>. USE DEF Picked, TypeOK
<1>1. CASE Same(p) \/ Dies(p)
  BY <1>1 DEF Same, Dies, PlaceInv
<1>2. CASE Begin(p)
  <2>1. ASSUME NEW k, NEW u, NEW to, Begins(p, k, u, to) PROVE FALSE
    <3>1. pc'[p] = to /\ kind'[p] = k
      BY <2>1 DEF Begins
    <3>2. QED  BY <2>1, <3>1 DEF Begins, Registering, Requesting, Verifying
  <2>2. QED  BY <1>2, <2>1 DEF Begin
<1>3. CASE Refuses(p) \/ \E w \in Passwords : Opens(p, w)
  BY <1>3 DEF Refuses, Goes, Opens, given
<1>4. ASSUME NEW c \in Codes, Finds(p, c) PROVE FALSE
  BY <1>4 DEF Finds, Goes, Verifying
<1>5. ASSUME NEW c \in Codes, Picks(p, c)
      PROVE  /\ user'[p] = user[p] /\ before'[p] = before[p] /\ pc[p] # "idle"
             /\ code'[p] = c
  BY <1>5 DEF Picks, Goes
<1>6. ASSUME NEW w \in Passwords, Checks(p, w)
      PROVE  /\ user'[p] = user[p] /\ before'[p] = before[p] /\ pc[p] # "idle"
             /\ Picked(p) /\ code'[p] = code[p]
  BY <1>6 DEF Checks, Goes
<1>7. CASE Writes(p)
  BY <1>7
     DEF Writes, Retires, RetireCodes, Saves, Expires, ExpireCode, Uses, UseCode,
         Verifies, Step, given, Requesting, Verifying
<1>8. CASE Mails(p) \/ Confirms(p) \/ Commits(p)
  BY <1>8
     DEF Mails, Dispatch, Confirms, ConfirmEmail, Commits, CommitPassword, Step, given,
         local, Issuing, Requesting
<1>9. QED  BY <1>1, <1>2, <1>3, <1>4, <1>5, <1>6, <1>7, <1>8, RequestStep DEF Moves, Looks

LEMMA ResetDoneStep ==
  ASSUME TypeOK, PlaceInv, AccountInv, RowInv, Next, NEW p \in Requests,
         kind'[p] = "reset", pc'[p] = "done"
  PROVE  \/ kind[p] = "reset" /\ pc[p] = "done" /\ Same(p)
         \/ /\ kind[p] = "reset" /\ Commits(p)
            /\ code'[p] = code[p] /\ user'[p] = user[p]
<1>. USE DEF TypeOK
<1>1. CASE Same(p) \/ Dies(p)
  BY <1>1 DEF Same, Dies
<1>2. CASE Begin(p)
  <2>1. ASSUME NEW k, NEW u, NEW to, Begins(p, k, u, to) PROVE pc'[p] # "done"
    BY <2>1 DEF Begins
  <2>2. QED  BY <1>2, <2>1 DEF Begin
<1>3. CASE Refuses(p) \/ \E w \in Passwords : Opens(p, w)
  BY <1>3 DEF Refuses, Goes, Opens, given
<1>4. CASE Looks(p)
  BY <1>4 DEF Looks, Finds, Picks, Checks, Goes
<1>5. CASE Writes(p)
  BY <1>5
     DEF Writes, Retires, RetireCodes, Saves, Expires, ExpireCode, Uses, UseCode,
         Verifies, Step, given
<1>6. CASE Mails(p) \/ Confirms(p)
  BY <1>6 DEF Mails, Dispatch, Confirms, ConfirmEmail, given, Issuing, Requesting
<1>7. CASE Commits(p)
  BY <1>7 DEF Commits, CommitPassword, given, local
<1>8. QED  BY <1>1, <1>2, <1>3, <1>4, <1>5, <1>6, <1>7, RequestStep DEF Moves

(* The code of a reset that is done stays used, unless it is verified anew *)
(* by a request that was not over when the reset began.                    *)
LEMMA ResetCodeStep ==
  ASSUME TypeOK, PlaceInv, OverStaysOver, AccountInv, RowInv, ResetInv, Next,
         NEW p \in Requests, kind'[p] = "reset", pc'[p] = "done"
  PROVE  /\ code'[p] \in Codes /\ otp'["reset"][code'[p]].user = user'[p]
         /\ otp'["reset"][code'[p]].used \/ VerifiedSince(code[p], p)'
<1>1. "reset" \in Tables
  BY DEF Tables
<1>2. CASE kind[p] = "reset" /\ pc[p] = "done" /\ Same(p)
  <2>1. /\ code[p] \in Codes /\ otp["reset"][code[p]].user = user[p]
        /\ otp["reset"][code[p]].used \/ VerifiedSince(code[p], p)
    BY <1>2 DEF ResetInv, Done
  <2>2. PICK c \in Codes : c = code[p]
    BY <2>1
  <2>3. code'[p] = c /\ user'[p] = user[p] /\ before'[p] = before[p]
    BY <1>2, <2>2 DEF Same
  <2>4. user[p] \in Users
    BY <1>2 DEF PlaceInv
  <2>5. Kept("reset", c)
    BY <1>1, <2>1, <2>2, <2>4, NoRowFacts, Constants, RowStep DEF Inserted
  <2>6. CASE VerifiedSince(c, p)
    <3>1. VerifiedSince(c, p)'
      BY <1>2, <2>6, VerifiedSinceStep
    <3>2. QED  BY <2>1, <2>2, <2>3, <2>5, <3>1 DEF Kept, VerifiedSince
  <2>7. CASE otp["reset"][c].used /\ ~Anew("reset", c)
    BY <2>1, <2>2, <2>3, <2>5, <2>7 DEF Kept
  <2>8. CASE Anew("reset", c)
    <3>1. PICK v \in Requests : Verifies(v) /\ code[v] = c
      BY <2>8 DEF Anew
    <3>2. v \in Done("verifyReset")' /\ code'[v] = c /\ pc[v] \notin Ended
      BY <3>1, VerifiesFacts
    <3>3. v \notin before'[p]
      BY <2>3, <3>2 DEF OverStaysOver
    <3>4. QED  BY <2>1, <2>2, <2>3, <2>5, <3>2, <3>3 DEF Kept, VerifiedSince
  <2>9. QED  BY <2>1, <2>2, <2>6, <2>7, <2>8
<1>3. CASE kind[p] = "reset" /\ Commits(p) /\ code'[p] = code[p] /\ user'[p] = user[p]
  <2>1. HasCode(p) /\ TableOf(kind[p]) = "reset"
    BY <1>3 DEF Commits, CommitPassword, Step, HasCode, TableOf
  <2>2. Held(p, "reset") \in RowType
    BY <2>1, HeldFacts DEF Held, TypeOK
  <2>3. SetRow("reset", code[p], [Held(p, "reset") EXCEPT !.used = TRUE, !.secret = Blank])
    BY <1>3, <2>1 DEF Commits, CommitPassword
  <2>4. otp'["reset"][code[p]].used
    BY <2>1, <2>2, <2>3, SpentFacts, SpendFacts
  <2>5. code[p] \in Codes /\ otp'["reset"][code[p]].user = user[p]
    BY <2>1, HeldFacts DEF Kept
  <2>6. QED  BY <1>3, <2>4, <2>5
<1>4. QED  BY <1>2, <1>3, ResetDoneStep

LEMMA ResetStep ==
  ASSUME TypeOK, PlaceInv, OverStaysOver, AccountInv, RowInv, ResetInv, Next
  PROVE  ResetInv'
<1>1. ASSUME NEW c \in Codes, otp'["reset"][c].verified
      PROVE  WasVerified(otp["reset"][c].user, c)'
  <2>1. "reset" \in Tables
    BY DEF Tables
  <2>2. Kept("reset", c)
    BY <1>1, <2>1, RowStep DEF Inserted
  <2>3. PICK u : u = otp["reset"][c].user
    OBVIOUS
  <2>4. WasVerified(u, c)'
    <3>1. CASE otp["reset"][c].verified
      BY <2>3, <3>1, WasVerifiedStep DEF ResetInv
    <3>2. CASE ~otp["reset"][c].verified
      <4>1. PICK q \in Requests : Verifies(q) /\ code[q] = c
        BY <1>1, <2>2, <3>2 DEF Kept, Anew
      <4>2. QED  BY <2>3, <4>1, VerifiesFacts DEF WasVerified
    <3>3. QED  BY <3>1, <3>2
  <2>5. otp'["reset"][c].user = u
    BY <2>2, <2>3 DEF Kept
  <2>6. QED  BY <2>4, <2>5 DEF WasVerified
<1>2. ASSUME NEW p \in Requests, Picked(p)' PROVE WasVerified(user[p], code[p])'
  <2>1. PICK u, c : u = user[p] /\ c = code'[p]
    OBVIOUS
  <2>2. WasVerified(u, c)
    <3>1. CASE Picked(p) /\ code'[p] = code[p]
      BY <2>1, <3>1 DEF ResetInv
    <3>2. ASSUME NEW d \in Codes, Picks(p, d), code'[p] = d PROVE WasVerified(u, c)
      BY <2>1, <3>2 DEF Picks, Matches, ResetInv
    <3>3. QED  BY <1>2, <3>1, <3>2, PickedStep
  <2>3. WasVerified(u, c)'
    BY <2>2, WasVerifiedStep
  <2>4. user'[p] = u
    BY <1>2, <2>1, PickedStep
  <2>5. QED  BY <2>1, <2>3, <2>4 DEF WasVerified
<1>3. ASSUME NEW p \in Requests, NEW q \in Requests, kind'[p] = "reset", pc'[p] = "done",
             Picked(q)', p \in before'[q], code'[p] = code'[q]
      PROVE  VerifiedSince(code[p], p)'
  <2>1. p \in before[q]
    BY <1>3, PickedStep
  <2>2. pc[p] \in Ended /\ Same(p)
    BY <2>1, FrameFacts DEF OverStaysOver
  <2>3. kind[p] = "reset" /\ pc[p] = "done" /\ code'[p] = code[p]
    BY <1>3, <2>2 DEF Same
  <2>4. p \in Done("reset")
    BY <2>3 DEF Done
  <2>5. PICK c : c = code[p]
    OBVIOUS
  <2>6. VerifiedSince(c, p)
    <3>1. CASE Picked(q) /\ code'[q] = code[q]
      BY <1>3, <2>1, <2>3, <2>4, <2>5, <3>1 DEF ResetInv
    <3>2. ASSUME NEW d \in Codes, Picks(q, d), code'[q] = d PROVE VerifiedSince(c, p)
      <4>1. ~otp["reset"][c].used
        BY <1>3, <2>3, <2>5, <3>2 DEF Picks, Matches
      <4>2. QED  BY <2>4, <2>5, <4>1 DEF ResetInv
    <3>3. QED  BY <1>3, <3>1, <3>2, PickedStep
  <2>7. VerifiedSince(c, p)'
    BY <2>3, <2>6, VerifiedSinceStep
  <2>8. QED  BY <2>3, <2>5, <2>7 DEF VerifiedSince
<1>4. ASSUME NEW p \in Done("reset")'
      PROVE  /\ p \in Requests /\ kind'[p] = "reset" /\ pc'[p] = "done"
             /\ code'[p] \in Codes /\ otp'["reset"][code'[p]].user = user'[p]
             /\ otp'["reset"][code'[p]].used \/ VerifiedSince(code[p], p)'
  BY <1>4, ResetCodeStep DEF Done
<1>5. QED  BY <1>1, <1>2, <1>3, <1>4 DEF ResetInv

-----------------------------------------------------------------------------
(* The password histories.                                                 *)
LEMMA PastGrows ==
  ASSUME TypeOK, PlaceInv, AccountInv, RowInv, Next, NEW u \in Users
  PROVE  ToSet(past[u]) \subseteq ToSet(past'[u])
<1>1. past[u] \in Seq(Passwords)
  BY DEF TypeOK
<1>2. CASE Untouched(u) \/ Confirmed(u)
  BY <1>2 DEF Untouched, Confirmed
<1>3. CASE Opened(u)
  BY <1>1, <1>3, AppendFacts DEF Opened
<1>4. CASE Replaced(u)
  <2>1. PICK p \in Requests : Commits(p) /\ past'[u] = Append(past[u], word[p])
    BY <1>4 DEF Replaced
  <2>2. word[p] \in Passwords
    BY <2>1 DEF Commits, CommitPassword, Step, PlaceInv
  <2>3. QED  BY <1>1, <2>1, <2>2, AppendFacts
<1>5. QED  BY <1>2, <1>3, <1>4, AccountStep

LEMMA WordStep ==
  ASSUME TypeOK, PlaceInv, AccountInv, RowInv, Next, NEW p \in Requests,
         Compared(p)' \/ Fetched(p)'
  PROVE  /\ pc[p] # "idle"
         /\ \/ /\ Compared(p) \/ Fetched(p)
               /\ word'[p] = word[p] /\ code'[p] = code[p]
            \/ \E w \in Passwords : Checks(p, w) /\ word'[p] = w
            \/ \E c \in Codes : Finds(p, c) /\ pc'[p] = "commit"
<1>. USE DEF TypeOK, Compared, Fetched
<1>1. CASE Same(p) \/ Dies(p)
  BY <1>1 DEF Same, Dies, PlaceInv
<1>2. ASSUME Begin(p) PROVE FALSE
  <2>1. ASSUME NEW k, NEW u, NEW to, Begins(p, k, u, to) PROVE FALSE
    <3>1. pc'[p] = to /\ to \in {"create", "retire", "look", "history"}
      BY <2>1 DEF Begins
    <3>2. QED  BY <3>1
  <2>2. QED  BY <1>2, <2>1 DEF Begin
<1>3. CASE Refuses(p)
  BY <1>3 DEF Refuses, Goes, given
<1>4. ASSUME NEW w \in Passwords, Opens(p, w) PROVE FALSE
  BY <1>4 DEF Opens, given
<1>5. ASSUME NEW c \in Codes, Finds(p, c)
      PROVE  pc[p] # "idle" /\ pc'[p] = "commit"
  BY <1>5 DEF Finds, Goes, Verifying
<1>6. ASSUME NEW c \in Codes, Picks(p, c) PROVE FALSE
  BY <1>6 DEF Picks, Goes
<1>7. ASSUME NEW w \in Passwords, Checks(p, w) PROVE pc[p] # "idle" /\ word'[p] = w
  BY <1>7 DEF Checks, Goes
<1>8. CASE Writes(p)
  BY <1>8
     DEF Writes, Retires, RetireCodes, Saves, Expires, ExpireCode, Uses, UseCode,
         Verifies, Step, given, Requesting, Verifying
<1>9. CASE Mails(p) \/ Confirms(p)
  BY <1>9 DEF Mails, Dispatch, Confirms, ConfirmEmail, Step, given, Issuing, Requesting
<1>10. CASE Commits(p)
  BY <1>10 DEF Commits, CommitPassword, Step, given, local
<1>11. QED
  BY <1>1, <1>2, <1>3, <1>4, <1>5, <1>6, <1>7, <1>8, <1>9, <1>10, RequestStep
     DEF Moves, Looks

(* What a request saw of the history is in it still.                       *)
LEMMA SeenStep ==
  ASSUME TypeOK, PlaceInv, AccountInv, RowInv, HistoryInv, Next,
         NEW p \in Requests, kind'[p] \in Setting
  PROVE  used'[p] \subseteq ToSet(past'[user'[p]])
<1>1. CASE pc[p] # "idle"
  <2>1. kind[p] \in Setting /\ user'[p] = user[p] /\ used'[p] = used[p] /\ user[p] \in Users
    BY <1>1, FrameFacts DEF PlaceInv, Setting
  <2>2. used[p] \subseteq ToSet(past[user[p]])
    BY <2>1 DEF HistoryInv
  <2>3. QED  BY <2>1, <2>2, PastGrows
<1>2. CASE Begin(p)
  <2>1. PICK k \in Kinds, u \in Users, to \in Labels : Begins(p, k, u, to)
    BY <1>2 DEF Begin
  <2>2. /\ kind'[p] = k /\ user'[p] = u /\ past' = past
        /\ used'[p] = IF k \in Setting THEN ToSet(past[u]) ELSE {}
    BY <2>1 DEF Begins, TypeOK
  <2>3. QED  BY <2>2
<1>3. CASE pc[p] = "idle" /\ ~Begin(p)
  <2>1. kind'[p] = kind[p]
    BY <1>3, FrameFacts DEF Same, Refuses, Goes, given
  <2>2. QED  BY <1>3, <2>1 DEF PlaceInv, Setting
<1>4. QED  BY <1>1, <1>2, <1>3

(* A comparison covers what the history held when the request was made.    *)
LEMMA ComparedStep ==
  ASSUME TypeOK, PlaceInv, AccountInv, RowInv, HistoryInv, Next,
         NEW p \in Requests, Compared(p)'
  PROVE  word'[p] \notin used'[p]
<1>1. pc[p] # "idle"
  BY WordStep
<1>2. /\ kind'[p] = kind[p] /\ used'[p] = used[p]
      /\ kind[p] \in Setting /\ kind[p] # "verifyChange"
  BY <1>1, FrameFacts DEF Compared, Setting
<1>3. CASE Compared(p) /\ word'[p] = word[p]
  BY <1>2, <1>3 DEF HistoryInv
<1>4. ASSUME NEW w \in Passwords, Checks(p, w), word'[p] = w PROVE word'[p] \notin used'[p]
  BY <1>2, <1>4 DEF HistoryInv, Checks, Unused
<1>5. ASSUME NEW c \in Codes, Finds(p, c) PROVE FALSE
  BY <1>2, <1>5 DEF Finds, Verifying, Setting
<1>6. QED  BY <1>2, <1>3, <1>4, <1>5, WordStep DEF Fetched

(* The password that waits with a code is the one its request compared.    *)
LEMMA HiddenStep ==
  ASSUME TypeOK, PlaceInv, AccountInv, RowInv, HistoryInv, Next,
         NEW c \in Codes, otp'["change"][c] # NoRow
  PROVE  /\ otp'["change"][c].by \in Requests
         /\ \/ otp'["change"][c].used
            \/ otp'["change"][c].secret \notin used'[otp'["change"][c].by]
<1>1. "change" \in Tables
  BY DEF Tables
<1>2. CASE Inserted("change", c)
  <2>1. PICK p \in Requests :
          /\ pc[p] = "save" /\ Saves(p, c) /\ "change" = TableOf(kind[p])
          /\ otp'["change"][c].by = p
          /\ kind[p] = "change" => otp'["change"][c].secret = word[p]
    BY <1>2 DEF Inserted
  <2>2. kind[p] = "change"
    BY <2>1 DEF Saves, Issuing, Requesting, TableOf
  <2>3. word[p] \notin used[p]
    BY <2>1, <2>2 DEF HistoryInv, Compared
  <2>4. used'[p] = used[p]
    BY <2>1, FrameFacts
  <2>5. QED  BY <2>1, <2>2, <2>3, <2>4
<1>3. CASE Kept("change", c)
  <2>1. PICK q : q = otp["change"][c].by
    OBVIOUS
  <2>2. otp["change"][c] # NoRow /\ otp'["change"][c].by = q /\ ~Anew("change", c)
    BY <1>3, <2>1 DEF Kept, Anew
  <2>3. q \in Requests /\ (otp["change"][c].used \/ otp["change"][c].secret \notin used[q])
    BY <2>1, <2>2 DEF HistoryInv
  <2>4. pc[q] # "idle"
    BY <1>1, <2>1, <2>3 DEF RowInv
  <2>5. used'[q] = used[q]
    BY <2>3, <2>4, FrameFacts
  <2>6. QED  BY <1>3, <2>2, <2>3, <2>5 DEF Kept
<1>4. QED  BY <1>1, <1>2, <1>3, RowStep

(* verifyChangePasswordToken sets the password that its code hid, and the  *)
(* row still says which request issued the code.                           *)
LEMMA FetchedStep ==
  ASSUME TypeOK, PlaceInv, AccountInv, RowInv, HistoryInv, Next,
         NEW p \in Requests, Fetched(p)'
  PROVE  /\ code'[p] \in Codes /\ otp'["change"][code'[p]].by \in Requests
         /\ word'[p] \notin used'[otp'["change"][code'[p]].by]
<1>1. "change" \in Tables
  BY DEF Tables
<1>2. pc[p] # "idle"
  BY WordStep
<1>3. kind[p] = "verifyChange" /\ TableOf(kind[p]) = "change"
  BY <1>2, FrameFacts DEF Fetched, TableOf
<1>4. ASSUME NEW c \in Codes, NEW q \in Requests, NEW w,
             code'[p] = c, word'[p] = w, otp["change"][c].by = q, w \notin used[q]
      PROVE  /\ code'[p] \in Codes /\ otp'["change"][code'[p]].by \in Requests
             /\ word'[p] \notin used'[otp'["change"][code'[p]].by]
  <2>1. otp["change"][c] # NoRow
    BY <1>4, NoRowFacts, Constants
  <2>2. otp'["change"][c].by = q
    BY <1>1, <1>4, <2>1, RowStep DEF Inserted, Kept
  <2>3. pc[q] # "idle"
    BY <1>1, <1>4 DEF RowInv
  <2>4. used'[q] = used[q]
    BY <2>3, FrameFacts
  <2>5. QED  BY <1>4, <2>2, <2>4
<1>5. CASE Fetched(p) /\ word'[p] = word[p] /\ code'[p] = code[p]
  <2>1. PICK c \in Codes : c = code[p]
    BY <1>5 DEF HistoryInv
  <2>2. PICK q \in Requests : q = otp["change"][c].by
    BY <1>5, <2>1 DEF HistoryInv
  <2>3. word[p] \notin used[q]
    BY <1>5, <2>1, <2>2 DEF HistoryInv
  <2>4. QED  BY <1>4, <1>5, <2>1, <2>2, <2>3
<1>6. ASSUME NEW c \in Codes, Finds(p, c), pc'[p] = "commit"
      PROVE  /\ code'[p] \in Codes /\ otp'["change"][code'[p]].by \in Requests
             /\ word'[p] \notin used'[otp'["change"][code'[p]].by]
  <2>1. /\ otp["change"][c].user = user[p] /\ ~otp["change"][c].used
        /\ code'[p] = c /\ word'[p] = otp["change"][c].secret
    BY <1>3, <1>6 DEF Finds, Goes, Matches, TypeOK
  <2>2. user[p] \in Users
    BY <1>3 DEF PlaceInv
  <2>3. otp["change"][c] # NoRow
    BY <2>1, <2>2, NoRowFacts, Constants
  <2>4. PICK q \in Requests : q = otp["change"][c].by
    BY <2>3 DEF HistoryInv
  <2>5. otp["change"][c].secret \notin used[q]
    BY <2>1, <2>3, <2>4 DEF HistoryInv
  <2>6. QED  BY <1>4, <2>1, <2>4, <2>5
<1>7. CASE Compared(p) \/ \E w \in Passwords : Checks(p, w)
  BY <1>3, <1>7 DEF Compared, Checks
<1>8. QED  BY <1>5, <1>6, <1>7, WordStep

LEMMA HistoryStep ==
  ASSUME TypeOK, PlaceInv, AccountInv, RowInv, HistoryInv, Next
  PROVE  HistoryInv'
BY SeenStep, ComparedStep, HiddenStep, FetchedStep DEF HistoryInv

-----------------------------------------------------------------------------
(* The start, and the theorems.                                            *)

\* A row of a code that was issued before the start.
LEMMA OldRowFacts ==
  ASSUME NEW u \in Users, NEW b \in BOOLEAN
  PROVE  /\ [Row(u, Blank, Blank) EXCEPT !.used = b] \in RowType
         /\ [Row(u, Blank, Blank) EXCEPT !.used = b].user = u
         /\ [Row(u, Blank, Blank) EXCEPT !.used = b].by = Blank
         /\ [Row(u, Blank, Blank) EXCEPT !.used = b].used = b
         /\ ~[Row(u, Blank, Blank) EXCEPT !.used = b].verified
<1>1. CodeLife \in 0..CodeLife
  BY Constants
<1>2. QED  BY <1>1 DEF Row, RowType

LEMMA FirstHistory ==
  /\ <<FirstPassword>> \in Seq(Passwords) /\ << >> \in Seq(Passwords)
  /\ <<FirstPassword>> # << >> /\ Last(<<FirstPassword>>) = FirstPassword
BY Constants DEF Last

LEMMA InitInv == Init => AccountsInv
<1>. SUFFICES ASSUME Init PROVE AccountsInv
  OBVIOUS
<1>1. PICK verified \in SUBSET profiles, earlier \in [Users -> Codes] :
        /\ IsInjective(earlier)
        /\ account = [u \in Users |->
             IF u \in profiles THEN Account("user", u \in verified, FirstPassword) ELSE NoAccount]
        /\ otp = [t \in Tables |-> [c \in Codes |->
             IF t # "change" /\ \E u \in verified : earlier[u] = c
             THEN [Row(CHOOSE u \in verified : earlier[u] = c, Blank, Blank)
                     EXCEPT !.used = (t = "email")]
             ELSE NoRow]]
  BY DEF Init
<1>2. profiles \in SUBSET Users /\ wallets = profiles /\ verified \subseteq Users
  BY DEF Init
\* What a row is at the start.
<1>3. ASSUME NEW t \in Tables, NEW c \in Codes
      PROVE  /\ otp[t][c] \in RowType
             /\ otp[t][c].by = Blank /\ ~otp[t][c].verified
             /\ \/ otp[t][c] = NoRow
                \/ /\ t # "change" /\ otp[t][c].used = (t = "email")
                   /\ otp[t][c].user \in verified /\ earlier[otp[t][c].user] = c
  <2>1. CASE t # "change" /\ \E u \in verified : earlier[u] = c
    <3>1. PICK u \in verified : u = CHOOSE x \in verified : earlier[x] = c
      BY <2>1
    <3>2. earlier[u] = c
      BY <2>1, <3>1
    <3>3. PICK b \in BOOLEAN : b = (t = "email")
      OBVIOUS
    <3>4. otp[t][c] = [Row(u, Blank, Blank) EXCEPT !.used = b]
      BY <1>1, <2>1, <3>1, <3>3
    <3>5. u \in Users
      BY <1>2
    <3>6. /\ otp[t][c] \in RowType /\ otp[t][c].by = Blank /\ ~otp[t][c].verified
          /\ otp[t][c].user = u /\ otp[t][c].used = b
      BY <3>4, <3>5, OldRowFacts
    <3>7. QED  BY <2>1, <3>2, <3>3, <3>6
  <2>2. CASE ~(t # "change" /\ \E u \in verified : earlier[u] = c)
    <3>1. otp[t][c] = NoRow
      BY <1>1, <2>2
    <3>2. QED  BY <3>1, NoRowFacts
  <2>3. QED  BY <2>1, <2>2
<1>4. ASSUME NEW t \in Tables, NEW c \in Codes, otp[t][c].user \in Users
      PROVE  /\ t # "change" /\ otp[t][c].used = (t = "email")
             /\ otp[t][c].user \in verified /\ earlier[otp[t][c].user] = c
  BY <1>3, <1>4, NoRowFacts, Constants
<1>5. ASSUME NEW u \in verified
      PROVE  otp["email"][earlier[u]].user = u /\ otp["email"][earlier[u]].used
  <2>1. PICK c \in Codes : c = earlier[u]
    BY <1>2
  <2>2. PICK x \in verified : x = CHOOSE y \in verified : earlier[y] = c
    BY <2>1
  <2>3. earlier[x] = c
    BY <2>1, <2>2
  <2>4. x = u
    BY <1>1, <1>2, <2>1, <2>3 DEF IsInjective
  <2>5. otp["email"][c] = [Row(x, Blank, Blank) EXCEPT !.used = TRUE]
    BY <1>1, <2>1, <2>2 DEF Tables
  <2>6. QED  BY <1>2, <2>1, <2>4, <2>5, OldRowFacts
<1>6. ASSUME NEW u \in Users
      PROVE  /\ account[u] \in AccountType
             /\ u \in profiles =>
                  /\ account[u].role = "user" /\ account[u].password = FirstPassword
                  /\ account[u].verified <=> u \in verified
             /\ u \notin profiles => account[u] = NoAccount
  <2>1. CASE u \in profiles
    <3>1. account[u] = Account("user", u \in verified, FirstPassword)
      BY <1>1, <2>1
    <3>2. account[u].role = "user" /\ account[u].password = FirstPassword
      BY <3>1 DEF Account
    <3>3. account[u].verified = (u \in verified)
      BY <3>1 DEF Account
    <3>4. account[u] \in AccountType
      BY <3>1, Constants DEF Account, AccountType
    <3>5. account[u].verified <=> u \in verified
      BY <3>3, Zenon
    <3>6. QED  BY <2>1, <3>2, <3>4, <3>5
  <2>2. CASE u \notin profiles
    <3>1. account[u] = NoAccount
      BY <1>1, <2>2
    <3>2. NoAccount \in AccountType
      BY DEF NoAccount, Account, AccountType
    <3>3. QED  BY <2>2, <3>1, <3>2
  <2>3. QED  BY <2>1, <2>2
<1>7. RequestsTyped
  BY DEF Init, RequestsTyped, Labels
<1>8. TypeOK
  <2>1. otp \in [Tables -> [Codes -> RowType]]
    BY <1>1, <1>3
  <2>2. account \in [Users -> AccountType]
    BY <1>1, <1>6
  <2>3. past \in [Users -> Seq(Passwords)]
    BY FirstHistory DEF Init
  <2>4. QED  BY <1>2, <1>7, <2>1, <2>2, <2>3 DEF TypeOK, RequestsTyped, AccountType
<1>9. \A p \in Requests : /\ pc[p] = "idle" /\ kind[p] = "none" /\ mail[p] = "none"
                          /\ before[p] = {} /\ ~HasCode(p) /\ ~Created(p) /\ ~Picked(p)
  BY DEF Init, HasCode, Created, Picked, Registering
<1>10. PlaceInv /\ OverStaysOver /\ RetiredInv /\ MailInv
  BY <1>9 DEF PlaceInv, OverStaysOver, RetiredInv, MailInv
<1>11. AccountInv
  <2>1. \A u \in verified : HasAccount(u)
    BY <1>2, <1>6 DEF HasAccount
  <2>2. \A u \in Users : ~HasAccount(u) => account[u] = NoAccount
    BY <1>6 DEF HasAccount
  <2>3. QED  BY <1>4, <1>9, <2>1, <2>2 DEF AccountInv
<1>12. AccountIsWhole
  <2>1. ASSUME NEW u \in Users, u \in profiles
        PROVE  account[u] # NoAccount /\ past[u] = <<FirstPassword>>
    BY <1>6, <2>1, AccountFields DEF Init
  <2>2. ASSUME NEW u \in Users, u \notin profiles PROVE past[u] = << >>
    BY <2>2 DEF Init
  <2>3. QED  BY <1>2, <1>6, <2>1, <2>2, FirstHistory DEF AccountIsWhole
<1>13. RowInv
  <2>1. ASSUME NEW t \in Tables, NEW c \in Codes
        PROVE  /\ otp[t][c].by \in Requests => pc[otp[t][c].by] # "idle"
               /\ t = "change" /\ ~otp[t][c].used => otp[t][c].secret \in Passwords
               /\ otp[t][c].user = Blank => otp[t][c] = NoRow
    BY <1>2, <1>3, NoRowFacts, Constants
  <2>2. QED  BY <1>9, <2>1 DEF RowInv
<1>14. VerifiedInv
  <2>1. \A u \in verified : UsedUp(u)
    BY <1>2, <1>5 DEF UsedUp
  <2>2. QED  BY <1>6, <1>9, <2>1, AccountFields DEF VerifiedInv
<1>15. OlderCodesAreRetired
  <2>1. \A t \in {"email", "reset"}, d \in Codes : otp[t][d].by \notin Requests
    BY <1>3, Constants DEF Tables
  <2>2. QED  BY <2>1 DEF OlderCodesAreRetired
<1>16. ResetInv
  <2>1. Done("reset") = {}
    BY <1>9 DEF Done
  <2>2. \A c \in Codes : ~otp["reset"][c].verified
    BY <1>3 DEF Tables
  <2>3. QED  BY <1>9, <2>1, <2>2 DEF ResetInv
<1>17. HistoryInv
  <2>1. \A c \in Codes : otp["change"][c] = NoRow
    BY <1>3 DEF Tables
  <2>2. QED  BY <1>9, <2>1 DEF HistoryInv, Setting, Compared, Fetched
<1>18. QED
  BY <1>8, <1>10, <1>11, <1>12, <1>13, <1>14, <1>15, <1>16, <1>17 DEF AccountsInv

LEMMA AccountsInvInductive ==
  ASSUME AccountsInv, [Next]_vars
  PROVE  AccountsInv'
<1>1. CASE Next
  BY <1>1, TypeStep, PlaceStep, OverStep, AccountInvStep, WholeStep, RowInvStep,
     VerifiedStep, RetiredStep, OlderStep, MailStep, ResetStep, HistoryStep
     DEF AccountsInv
<1>2. CASE UNCHANGED vars
  <2>1. UNCHANGED <<pc, kind, user, before, used, code, word>>
    BY <1>2 DEF vars, given, local
  <2>2. UNCHANGED <<account, wallets, profiles, past, otp, mail>>
    BY <1>2 DEF vars, rows
  <2>3. TypeOK' /\ PlaceInv' /\ OverStaysOver'
    BY <2>1, <2>2 DEF AccountsInv, TypeOK, PlaceInv, HasCode, OverStaysOver
  <2>4. AccountInv' /\ AccountIsWhole' /\ RowInv' /\ VerifiedInv'
    BY <2>1, <2>2
       DEF AccountsInv, AccountInv, HasAccount, Created, AccountIsWhole, RowInv, HasCode,
           TableOf, VerifiedInv, UsedUp
  <2>5. RetiredInv' /\ OlderCodesAreRetired' /\ MailInv'
    BY <2>1, <2>2
       DEF AccountsInv, RetiredInv, TableOf, OlderThan, Excused, Revived, Done, Overlap,
           OlderCodesAreRetired, MailInv, Saved
  <2>6. ResetInv' /\ HistoryInv'
    BY <2>1, <2>2
       DEF AccountsInv, ResetInv, WasVerified, VerifiedSince, Picked, Done, HistoryInv,
           Compared, Fetched
  <2>7. QED  BY <2>3, <2>4, <2>5, <2>6 DEF AccountsInv
<1>3. QED  BY <1>1, <1>2

(* Every reachable state satisfies the inductive invariant.                *)
THEOREM AccountsAreSafe == Spec => []AccountsInv
<1>1. QED  BY InitInv, AccountsInvInductive, PTL DEF Spec

(* The variables keep their types: what the handlers carry across their    *)
(* awaits, the rows and the queue.                                         *)
THEOREM AccountsTypeCorrect == Spec => []TypeOK
<1>1. AccountsInv => TypeOK
  BY DEF AccountsInv
<1>2. QED  BY <1>1, AccountsAreSafe, PTL

(* An account has its wallet, its profile and its password history, and    *)
(* its password is the last of it: the transactions of register            *)
(* (users.service.ts:118), of AdminsService (admins.service.ts:52) and of  *)
(* the two ways to a new password (users.service.ts:473 and 618).          *)
THEOREM AccountsAreWhole == Spec => []AccountIsWhole
<1>1. AccountsInv => AccountIsWhole
  BY DEF AccountsInv
<1>2. QED  BY <1>1, AccountsAreSafe, PTL

(* Any number of registrations that all found no account make at most one  *)
(* for an address: the unique email of iam_users decides                   *)
(* (users.service.ts:86-124).                                              *)
THEOREM AddressesAreUnique == Spec => []RegisteredOnce
<1>1. ASSUME AccountsInv PROVE RegisteredOnce
  <2>1. \A p \in Done("register") \cup Done("registerAdmin") : p \in Requests /\ Created(p)
    BY DEF Done, Created, Registering
  <2>2. QED  BY <1>1, <2>1 DEF RegisteredOnce, AccountsInv, AccountInv
<1>2. QED  BY <1>1, AccountsAreSafe, PTL

(* Whom login lets in has used up a mailed code: verifyEmailToken marks    *)
(* the code before the account (users.service.ts:289-295).                 *)
THEOREM OnlyVerifiedLogin == Spec => []VerifiedByUsedCode
<1>1. ASSUME AccountsInv PROVE VerifiedByUsedCode
  BY <1>1 DEF AccountsInv, VerifiedInv, VerifiedByUsedCode, UsedUp, MayLogin
<1>2. QED  BY <1>1, AccountsAreSafe, PTL

(* A code that is older than the request for another one of its user is    *)
(* used: each request retires the codes before its own (users.service.ts:  *)
(* 335, 679 and 712).  The one exception is a code of a password reset     *)
(* that verifyPasswordResetToken, which ran beside that request, wrote     *)
(* back with isUsed: false (users.service.ts:405-408).                     *)
THEOREM OlderCodesAreDead == Spec => []OlderCodesAreRetired
<1>1. AccountsInv => OlderCodesAreRetired
  BY DEF AccountsInv
<1>2. QED  BY <1>1, AccountsAreSafe, PTL

(* An email is queued after the code in it is saved                        *)
(* (users.service.ts:150-157, 344, 552, 692 and 725).                      *)
THEOREM MailedCodesAreSaved == Spec => []MailedCodeIsSaved
<1>1. ASSUME AccountsInv PROVE MailedCodeIsSaved
  BY <1>1 DEF AccountsInv, MailInv, MailedCodeIsSaved, Saved
<1>2. QED  BY <1>1, AccountsAreSafe, PTL

(* The password is reset only with a code that the user had verified       *)
(* (users.service.ts:447).                                                 *)
THEOREM ResetsAreVerified == Spec => []ResetNeedsVerifiedCode
<1>1. ASSUME AccountsInv PROVE ResetNeedsVerifiedCode
  <2>1. \A p \in Done("reset") : p \in Requests /\ Picked(p)
    BY DEF Done, Picked
  <2>2. QED
    BY <1>1, <2>1 DEF AccountsInv, ResetInv, WasVerified, ResetNeedsVerifiedCode
<1>2. QED  BY <1>1, AccountsAreSafe, PTL

(* A code resets the password twice only if it was verified since the      *)
(* first reset began, or the two overlapped: the transaction uses the code *)
(* up (users.service.ts:487), and only verifyPasswordResetToken writes     *)
(* isUsed: false over it (users.service.ts:405).                           *)
THEOREM ResetsUseCodesUp == Spec => []ResetUsesCodeUp
<1>1. ASSUME AccountsInv PROVE ResetUsesCodeUp
  <2>1. \A q \in Done("reset") : q \in Requests /\ Picked(q)
    BY DEF Done, Picked
  <2>2. QED
    BY <1>1, <2>1 DEF AccountsInv, ResetInv, VerifiedSince, ResetUsesCodeUp
<1>2. QED  BY <1>1, AccountsAreSafe, PTL

(* A password of the history that stood when passwordReset was asked is    *)
(* not set by it, whatever runs between the comparison and the transaction *)
(* (users.service.ts:452-473), and verifyChangePasswordToken sets none of  *)
(* the history that stood when changePassword was asked (531-546, 618).    *)
THEOREM OldPasswordsAreRefused == Spec => []OldPasswordIsRefused
<1>1. ASSUME AccountsInv PROVE OldPasswordIsRefused
  BY <1>1 DEF AccountsInv, HistoryInv, Compared, Fetched, OldPasswordIsRefused, Done
<1>2. QED  BY <1>1, AccountsAreSafe, PTL
=============================================================================
