--------------------------- MODULE SessionsProofs ---------------------------
(***************************************************************************)
(* Theorems about Sessions, for any requests, users and lives of tokens.   *)
(* The inductive invariant says what keeps the id of an old pair away from *)
(* its user's key: only a request that is still being served writes a key, *)
(* it writes its own id, and it does so once.                              *)
(***************************************************************************)
EXTENDS Sessions, RedisProofs

(* Only a request that has begun presents a pair, one that was answered.   *)
PresentedIsIssued ==
  \A p \in Requests : shown[p] # Gone => pc[p] # "idle" /\ pc[shown[p]] = "issued"

(* Once refreshToken has deleted the key, the id it was shown is not under *)
(* it again.                                                               *)
ShownIsDead ==
  \A p \in Requests :
    pc[p] \in {"sign", "insert", "issued"} /\ shown[p] # Gone
      => redis[user[p]].value # shown[p]

OverStaysOver ==
  \A p \in Requests : \A q \in before[p] : pc[q] \in Ended

\* r has not written the key of q's user since q was made.
Quiet(r, q) ==
  \/ user[r] # user[q]
  \/ pc[r] \in {"idle", "refused", "validate", "invalidate", "logout"}
  \/ r \in before[q]

(* The key of an answered pair that nobody has disturbed holds its id for  *)
(* at least as long as its refresh token is valid.                         *)
KeyOutlivesToken ==
  \A q \in Requests :
    /\ pc[q] = "issued"
    /\ refresh[q] > 0
    /\ \A r \in Requests \ {q} : Quiet(r, q)
    => redis[user[q]].value = q /\ redis[user[q]].left >= refresh[q]

SessionInv ==
  TypeOK /\ PresentedIsIssued /\ ShownIsDead /\ OverStaysOver
    /\ LogoutEndsSession /\ KeyOutlivesToken

-----------------------------------------------------------------------------
LEMMA InitInv == Init => SessionInv
<1>1. SUFFICES ASSUME Init PROVE SessionInv
  OBVIOUS
<1>2. EmptyDb(Users) \in [Users -> Slots(Requests, RefreshTtl)]
  BY DEF EmptyDb, Slots
<1>3. TypeOK
  BY <1>1, <1>2, SessionsAssumption DEF Init, TypeOK
<1>4. QED
  BY <1>1, <1>3
     DEF Init, SessionInv, PresentedIsIssued, ShownIsDead, OverStaysOver,
         LogoutEndsSession, KeyOutlivesToken

(* The two commands on the key of a request's user.                        *)
LEMMA InsertFacts ==
  ASSUME TypeOK, NEW p \in Requests, InsertId(user[p], p)
  PROVE  /\ redis' \in [Users -> Slots(Requests, RefreshTtl)]
         /\ redis'[user[p]].value = p
         /\ redis'[user[p]].left = RefreshTtl
         /\ \A u \in Users \ {user[p]} : redis'[u] = redis[u]
<1>1. user[p] \in Users /\ redis \in [Users -> Slots(Requests, RefreshTtl)]
  BY DEF TypeOK
<1>2. RefreshTtl \in Nat /\ RefreshTtl \in 1..RefreshTtl
  BY SessionsAssumption
<1>3. redis' = Set(redis, user[p], p, RefreshTtl)
  BY DEF InsertId
<1>4. /\ Set(redis, user[p], p, RefreshTtl) \in [Users -> Slots(Requests, RefreshTtl)]
      /\ Set(redis, user[p], p, RefreshTtl)[user[p]] = [value |-> p, left |-> RefreshTtl]
      /\ \A u \in Users \ {user[p]} : Set(redis, user[p], p, RefreshTtl)[u] = redis[u]
  <2>. HIDE DEF TypeOK
  <2>. QED  BY ONLY <1>1, <1>2, SetFacts, p \in Requests
<1>5. QED  BY <1>3, <1>4

LEMMA InvalidateFacts ==
  ASSUME TypeOK, NEW p \in Requests, InvalidateId(user[p])
  PROVE  /\ redis' \in [Users -> Slots(Requests, RefreshTtl)]
         /\ redis'[user[p]].value = Gone
         /\ \A u \in Users \ {user[p]} : redis'[u] = redis[u]
<1>1. user[p] \in Users /\ redis \in [Users -> Slots(Requests, RefreshTtl)]
  BY DEF TypeOK
<1>2. RefreshTtl \in Nat
  BY SessionsAssumption
<1>3. redis' = Del(redis, user[p])
  BY DEF InvalidateId
<1>4. GoneSlot.value = Gone
  BY DEF GoneSlot
<1>5. QED  BY <1>1, <1>2, <1>3, <1>4, DelFacts

LEMMA TickFacts ==
  ASSUME TypeOK, Tick
  PROVE  /\ redis' \in [Users -> Slots(Requests, RefreshTtl)]
         /\ \A u \in Users : redis'[u].value \in {redis[u].value, Gone}
         /\ \A u \in Users : redis[u].left >= 2 =>
              redis'[u].value = redis[u].value /\ redis'[u].left = redis[u].left - 1
<1>1. redis \in [Users -> Slots(Requests, RefreshTtl)]
  BY DEF TypeOK
<1>2. RefreshTtl \in Nat
  BY SessionsAssumption
<1>3. redis' = Elapse(redis)
  BY DEF Tick
<1>4. QED  BY <1>1, <1>2, <1>3, ElapseFacts

LEMMA TypeStep ==
  ASSUME TypeOK, Next
  PROVE  TypeOK'
<1>. USE SessionsAssumption DEF TypeOK
<1>1. CASE Tick
  <2>1. \A n \in 0..AccessTtl : LessLeft(n) \in 0..AccessTtl
    BY DEF LessLeft
  <2>2. \A n \in 0..RefreshTtl : LessLeft(n) \in 0..RefreshTtl
    BY DEF LessLeft
  <2>3. redis' \in [Users -> Slots(Requests, RefreshTtl)]
    BY <1>1, TickFacts
  <2>4. QED  BY <1>1, <2>1, <2>2, <2>3 DEF Tick
<1>2. CASE Crash
  BY <1>2 DEF Crash, Ended
<1>3. ASSUME NEW p \in Requests, Serve(p) PROVE TypeOK'
  <2>1. CASE StartLogin(p) \/ StartRefresh(p) \/ StartLogout(p)
    <3>1. ASSUME NEW label \in Busy \cup {"refused"}, Start(p, label)
          PROVE  /\ pc' \in [Requests -> {"idle"} \cup Busy \cup Ended]
                 /\ before' \in [Requests -> SUBSET Requests]
                 /\ UNCHANGED <<user, access, refresh, redis>>
      BY <3>1 DEF Start, Goto, Over, Ended
    <3>2. shown' \in [Requests -> Requests \cup {Gone}]
      BY <2>1 DEF StartLogin, StartRefresh, StartLogout
    <3>3. \E label \in Busy \cup {"refused"} : Start(p, label)
      BY <2>1 DEF StartLogin, StartRefresh, StartLogout, Busy
    <3>4. QED  BY <3>1, <3>2, <3>3
  <2>2. CASE Validate(p)
    BY <2>2 DEF Validate, Goto, Busy, Ended
  <2>3. CASE Invalidate(p) \/ Logout(p)
    <3>1. redis' \in [Users -> Slots(Requests, RefreshTtl)]
      BY <2>3, InvalidateFacts DEF Invalidate, Logout
    <3>2. QED  BY <2>3, <3>1 DEF Invalidate, Logout, Goto, Busy, Ended
  <2>4. CASE SignPair(p)
    BY <2>4 DEF SignPair, Goto, Busy
  <2>5. CASE Insert(p)
    <3>1. redis' \in [Users -> Slots(Requests, RefreshTtl)]
      BY <2>5, InsertFacts DEF Insert
    <3>2. QED  BY <2>5, <3>1 DEF Insert, Goto, Ended
  <2>6. QED
    BY <1>3, <2>1, <2>2, <2>3, <2>4, <2>5 DEF Serve
<1>4. QED  BY <1>1, <1>2, <1>3 DEF Next

-----------------------------------------------------------------------------
(* How an action may change the place a request is at: an ended request    *)
(* stays where it is, and only a request that begins changes what it shows *)
(* and which requests were over before it.                                 *)
LEMMA PlaceFacts ==
  ASSUME TypeOK, Next
  PROVE  /\ UNCHANGED user
         /\ \A r \in Requests : pc[r] \in Ended => pc'[r] = pc[r]
         /\ \A r \in Requests : pc[r] # "idle" =>
              shown'[r] = shown[r] /\ before'[r] = before[r]
         /\ \A r \in Requests : pc'[r] = "idle" => pc[r] = "idle"
<1>. USE DEF TypeOK
<1>1. CASE Tick
  BY <1>1 DEF Tick
<1>2. CASE Crash
  BY <1>2 DEF Crash, Busy, Ended
<1>3. ASSUME NEW p \in Requests, Serve(p)
      PROVE  /\ UNCHANGED user
             /\ \A r \in Requests : pc[r] \in Ended => pc'[r] = pc[r]
             /\ \A r \in Requests : pc[r] # "idle" =>
                  shown'[r] = shown[r] /\ before'[r] = before[r]
             /\ \A r \in Requests : pc'[r] = "idle" => pc[r] = "idle"
  <2>1. CASE StartLogin(p) \/ StartRefresh(p) \/ StartLogout(p)
    BY <2>1 DEF StartLogin, StartRefresh, StartLogout, Start, Goto, Ended
  <2>2. CASE Validate(p) \/ Invalidate(p) \/ SignPair(p) \/ Insert(p) \/ Logout(p)
    BY <2>2 DEF Validate, Invalidate, SignPair, Insert, Logout, Goto, Ended
  <2>3. QED  BY <1>3, <2>1, <2>2 DEF Serve
<1>4. QED  BY <1>1, <1>2, <1>3 DEF Next

(* What a request that begins is given.                                    *)
LEMMA StartFacts ==
  ASSUME TypeOK, NEW p \in Requests, StartLogin(p) \/ StartRefresh(p) \/ StartLogout(p)
  PROVE  /\ pc[p] = "idle" /\ pc'[p] \in {"sign", "validate", "logout", "refused"}
         /\ pc'[p] = "sign" => shown'[p] = shown[p]
         /\ \A r \in Requests \ {p} :
              pc'[r] = pc[r] /\ shown'[r] = shown[r] /\ before'[r] = before[r]
         /\ before'[p] = Over
         /\ shown'[p] = shown[p] \/ (shown'[p] \in Requests /\ pc[shown'[p]] = "issued")
         /\ UNCHANGED <<user, access, refresh, redis>>
BY DEF TypeOK, StartLogin, StartRefresh, StartLogout, Start, Goto

LEMMA PresentedStep ==
  ASSUME TypeOK, PresentedIsIssued, Next
  PROVE  PresentedIsIssued'
<1>. SUFFICES ASSUME NEW r \in Requests, shown'[r] # Gone
              PROVE  pc'[r] # "idle" /\ pc'[shown'[r]] = "issued"
  BY DEF PresentedIsIssued
<1>0. pc'[r] # "idle"
  <2>1. shown[r] # Gone => pc[r] # "idle"
    BY DEF PresentedIsIssued
  <2>2. ASSUME pc'[r] = "idle", shown'[r] # shown[r] PROVE FALSE
    <3>1. PICK p \in Requests : StartLogin(p) \/ StartRefresh(p) \/ StartLogout(p)
      BY <2>2 DEF Next, Serve, Tick, Crash, Validate, Invalidate, SignPair, Insert, Logout
    <3>2. QED  BY <2>2, <3>1, StartFacts
  <2>3. QED  BY <2>1, <2>2, PlaceFacts
<1>1. \A q \in Requests : pc[q] = "issued" => pc'[q] = "issued"
  BY PlaceFacts DEF Ended
<1>2. shown[r] \in Requests \cup {Gone}
  BY DEF TypeOK
<1>3. ASSUME shown'[r] = shown[r] PROVE pc'[shown'[r]] = "issued"
  BY <1>1, <1>2, <1>3 DEF PresentedIsIssued
<1>4. ASSUME shown'[r] # shown[r] PROVE pc'[shown'[r]] = "issued"
  <2>1. shown'[r] \in Requests /\ pc[shown'[r]] = "issued"
    <3>1. PICK p \in Requests : StartLogin(p) \/ StartRefresh(p) \/ StartLogout(p)
      BY <1>4 DEF Next, Serve, Tick, Crash, Validate, Invalidate, SignPair, Insert, Logout
    <3>2. QED  BY <1>4, <3>1, StartFacts
  <2>2. QED  BY <1>1, <2>1
<1>5. QED  BY <1>0, <1>3, <1>4

LEMMA OverStep ==
  ASSUME TypeOK, OverStaysOver, Next
  PROVE  OverStaysOver'
<1>. SUFFICES ASSUME NEW r \in Requests, NEW q \in before'[r]
              PROVE  pc'[q] \in Ended
  BY DEF OverStaysOver
<1>1. \A x \in Requests : pc[x] \in Ended => pc'[x] \in Ended
  BY PlaceFacts
<1>2. before[r] \subseteq Requests
  BY DEF TypeOK
<1>3. CASE before'[r] = before[r]
  BY <1>1, <1>2, <1>3 DEF OverStaysOver
<1>4. CASE before'[r] # before[r]
  <2>1. PICK p \in Requests : StartLogin(p) \/ StartRefresh(p) \/ StartLogout(p)
    BY <1>4 DEF Next, Serve, Tick, Crash, Validate, Invalidate, SignPair, Insert, Logout
  <2>2. before'[r] = Over
    BY <1>4, <2>1, StartFacts
  <2>3. QED  BY <1>1, <2>2 DEF Over
<1>5. QED  BY <1>3, <1>4

(* Which actions touch the keys, and how.                                  *)
LEMMA KeyFacts ==
  ASSUME TypeOK, Next
  PROVE  \/ Tick
         \/ \E p \in Requests : Insert(p)
         \/ \E p \in Requests : Invalidate(p) \/ Logout(p)
         \/ /\ UNCHANGED redis
            /\ Crash \/ \E p \in Requests :
                          \/ StartLogin(p) \/ StartRefresh(p) \/ StartLogout(p)
                          \/ Validate(p) \/ SignPair(p)
BY StartFacts DEF Next, Serve, Crash, Validate, SignPair

LEMMA ShownStep ==
  ASSUME TypeOK, PresentedIsIssued, ShownIsDead, Next
  PROVE  ShownIsDead'
<1>. SUFFICES ASSUME NEW r \in Requests, pc'[r] \in {"sign", "insert", "issued"},
                     shown'[r] # Gone
              PROVE  redis'[user[r]].value # shown'[r]
  BY PlaceFacts DEF ShownIsDead
<1>0. user[r] \in Users /\ shown[r] \in Requests \cup {Gone} /\ Gone \notin Requests
  BY SessionsAssumption DEF TypeOK
(* r had shown the pair before: a request that begins with one goes to     *)
(* another place.                                                          *)
<1>1. shown'[r] = shown[r] /\ pc[r] # "idle"
  <2>1. CASE pc[r] = "idle"
    <3>1. PICK p \in Requests : StartLogin(p)
      BY <2>1 DEF Next, Serve, Tick, Crash, StartRefresh, StartLogout, Start, Goto,
                  Validate, Invalidate, SignPair, Insert, Logout, TypeOK, Busy
    <3>2. shown' = shown
      BY <3>1 DEF StartLogin
    <3>3. QED  BY <2>1, <3>2 DEF PresentedIsIssued
  <2>2. QED  BY <2>1, PlaceFacts
<1>2. pc[shown[r]] = "issued"
  BY <1>1 DEF PresentedIsIssued
<1>3. CASE Tick
  <2>1. redis[user[r]].value # shown[r]
    BY <1>1, <1>3 DEF Tick, ShownIsDead
  <2>2. QED  BY <1>0, <1>1, <1>3, <2>1, TickFacts
<1>4. CASE \E p \in Requests : Insert(p)
  <2>1. PICK p \in Requests : Insert(p)
    BY <1>4
  <2>2. p # shown[r] /\ pc'[p] = "issued"
    BY <1>2, <2>1 DEF Insert, Goto, TypeOK
  <2>3. CASE user[p] = user[r]
    BY <1>1, <2>1, <2>2, <2>3, InsertFacts DEF Insert
  <2>4. CASE user[p] # user[r]
    <3>1. redis[user[r]].value # shown[r]
      BY <1>1, <2>1, <2>4 DEF Insert, Goto, TypeOK, ShownIsDead
    <3>2. QED  BY <1>0, <1>1, <2>1, <2>4, <3>1, InsertFacts DEF Insert
  <2>5. QED  BY <2>3, <2>4
<1>5. CASE \E p \in Requests : Invalidate(p) \/ Logout(p)
  <2>1. PICK p \in Requests : Invalidate(p) \/ Logout(p)
    BY <1>5
  <2>2. CASE user[p] = user[r]
    BY <1>0, <1>1, <2>1, <2>2, InvalidateFacts DEF Invalidate, Logout
  <2>3. CASE user[p] # user[r]
    <3>1. redis[user[r]].value # shown[r]
      BY <1>1, <2>1, <2>3 DEF Invalidate, Logout, Goto, TypeOK, ShownIsDead
    <3>2. QED  BY <1>0, <1>1, <2>1, <2>3, <3>1, InvalidateFacts DEF Invalidate, Logout
  <2>4. QED  BY <2>2, <2>3
<1>6. CASE /\ UNCHANGED redis
           /\ Crash \/ \E p \in Requests :
                         \/ StartLogin(p) \/ StartRefresh(p) \/ StartLogout(p)
                         \/ Validate(p) \/ SignPair(p)
  <2>1. pc[r] \in {"sign", "insert", "issued"}
    BY <1>1, <1>6
       DEF Crash, StartLogin, StartRefresh, StartLogout, Start, Goto, Validate,
           SignPair, TypeOK
  <2>2. QED  BY <1>1, <1>6, <2>1 DEF ShownIsDead
<1>7. QED  BY <1>3, <1>4, <1>5, <1>6, KeyFacts

LEMMA LogoutStep ==
  ASSUME TypeOK, OverStaysOver, LogoutEndsSession, Next
  PROVE  LogoutEndsSession'
<1>. SUFFICES ASSUME NEW r \in Requests, pc'[r] = "out"
              PROVE  redis'[user[r]].value \notin before'[r]
  BY PlaceFacts DEF LogoutEndsSession, Get
<1>0. user[r] \in Users /\ before[r] \subseteq Requests /\ Gone \notin Requests
  BY SessionsAssumption DEF TypeOK
<1>1. pc[r] \in {"out", "logout"} /\ before'[r] = before[r]
  <2>1. pc[r] \in {"out", "logout"}
    BY DEF Next, Serve, Tick, Crash, StartLogin, StartRefresh, StartLogout, Start, Goto,
           Validate, Invalidate, SignPair, Insert, Logout, TypeOK, Busy
  <2>2. QED  BY <2>1, PlaceFacts
<1>2. pc[r] = "out" => redis[user[r]].value \notin before[r]
  BY DEF LogoutEndsSession, Get
(* A request that was over before r was made is over, and writes no key.   *)
<1>3. CASE \E p \in Requests : Insert(p)
  <2>1. PICK p \in Requests : Insert(p)
    BY <1>3
  <2>2. p \notin before[r]
    BY <2>1 DEF Insert, OverStaysOver, Ended
  <2>3. pc[r] = "out"
    BY <1>1, <2>1 DEF Insert, Goto, TypeOK
  <2>4. CASE user[p] = user[r]
    BY <1>1, <2>1, <2>2, <2>4, InsertFacts DEF Insert
  <2>5. CASE user[p] # user[r]
    BY <1>0, <1>1, <1>2, <2>1, <2>3, <2>5, InsertFacts DEF Insert
  <2>6. QED  BY <2>4, <2>5
<1>4. CASE \E p \in Requests : Invalidate(p) \/ Logout(p)
  <2>1. PICK p \in Requests : Invalidate(p) \/ Logout(p)
    BY <1>4
  <2>2. CASE user[p] = user[r]
    BY <1>0, <1>1, <2>1, <2>2, InvalidateFacts DEF Invalidate, Logout
  <2>3. CASE user[p] # user[r]
    <3>1. pc[r] = "out"
      BY <1>1, <2>1, <2>3 DEF Invalidate, Logout, Goto, TypeOK
    <3>2. QED  BY <1>0, <1>1, <1>2, <2>1, <2>3, <3>1, InvalidateFacts DEF Invalidate, Logout
  <2>4. QED  BY <2>2, <2>3
<1>5. CASE Tick
  <2>1. pc[r] = "out"
    BY <1>5 DEF Tick
  <2>2. QED  BY <1>0, <1>1, <1>2, <1>5, <2>1, TickFacts
<1>6. CASE /\ UNCHANGED redis
           /\ Crash \/ \E p \in Requests :
                         \/ StartLogin(p) \/ StartRefresh(p) \/ StartLogout(p)
                         \/ Validate(p) \/ SignPair(p)
  <2>1. pc[r] = "out"
    BY <1>6
       DEF Crash, StartLogin, StartRefresh, StartLogout, Start, Goto, Validate,
           SignPair, TypeOK
  <2>2. QED  BY <1>1, <1>2, <1>6, <2>1
<1>7. QED  BY <1>3, <1>4, <1>5, <1>6, KeyFacts

(* Who has been quiet stays so only by not writing the key, so that a      *)
(* quiet request was quiet before every step.                              *)
LEMMA QuietFacts ==
  ASSUME TypeOK, Next, NEW q \in Requests, NEW r \in Requests,
         pc[q] # "idle", Quiet(r, q)'
  PROVE  Quiet(r, q)
<1>1. user' = user /\ before'[q] = before[q]
  BY PlaceFacts
<1>2. pc'[r] \in {"idle", "refused", "validate", "invalidate", "logout"}
        => pc[r] \in {"idle", "refused", "validate", "invalidate", "logout"}
  BY DEF Next, Serve, Tick, Crash, StartLogin, StartRefresh, StartLogout, Start, Goto,
         Validate, Invalidate, SignPair, Insert, Logout, TypeOK, Busy
<1>3. QED  BY <1>1, <1>2 DEF Quiet

LEMMA KeyStep ==
  ASSUME TypeOK, OverStaysOver, KeyOutlivesToken, Next
  PROVE  KeyOutlivesToken'
<1>. SUFFICES ASSUME NEW q \in Requests, pc'[q] = "issued", refresh'[q] > 0,
                     \A r \in Requests \ {q} : Quiet(r, q)'
              PROVE  redis'[user[q]].value = q /\ redis'[user[q]].left >= refresh'[q]
  BY PlaceFacts DEF KeyOutlivesToken
<1>0. user[q] \in Users /\ refresh[q] \in 0..RefreshTtl /\ RefreshTtl \in Nat
  BY SessionsAssumption DEF TypeOK
<1>1. CASE Insert(q)
  <2>1. refresh'[q] = refresh[q]
    BY <1>1 DEF Insert
  <2>2. QED  BY <1>0, <1>1, <2>1, InsertFacts DEF Insert
<1>2. CASE ~Insert(q)
  <2>1. pc[q] = "issued"
    BY <1>2 DEF Next, Serve, Tick, Crash, StartLogin, StartRefresh, StartLogout, Start,
                Goto, Validate, Invalidate, SignPair, Insert, Logout, TypeOK, Busy
  <2>2. \A r \in Requests \ {q} : Quiet(r, q)
    BY <2>1, QuietFacts
  <2>3. refresh[q] > 0 => redis[user[q]].value = q /\ redis[user[q]].left >= refresh[q]
    BY <2>1, <2>2 DEF KeyOutlivesToken
  <2>4. CASE Tick
    <3>1. refresh'[q] = refresh[q] - 1 /\ refresh[q] >= 2
      BY <1>0, <2>4 DEF Tick, LessLeft
    <3>2. redis[user[q]].left \in Int
      BY <1>0 DEF TypeOK, Slots, GoneSlot, Forever
    <3>3. redis[user[q]].left >= 2
      BY <1>0, <2>3, <3>1, <3>2
    <3>4. /\ redis'[user[q]].value = redis[user[q]].value
          /\ redis'[user[q]].left = redis[user[q]].left - 1
      BY <1>0, <2>4, <3>3, TickFacts
    <3>5. QED  BY <1>0, <2>3, <3>1, <3>2, <3>4
  <2>5. ASSUME NEW p \in Requests, Insert(p) \/ Invalidate(p) \/ Logout(p)
        PROVE  redis'[user[q]] = redis[user[q]] /\ refresh' = refresh
    <3>1. p # q /\ pc[p] \notin Ended
      BY <1>2, <2>1, <2>5 DEF Insert, Invalidate, Logout, Ended
    <3>2. pc'[p] \in {"issued", "sign", "out"} /\ p \notin before[q]
      BY <2>5, <3>1 DEF Insert, Invalidate, Logout, Goto, TypeOK, OverStaysOver
    <3>3. user[p] # user[q]
      BY <2>1, <3>1, <3>2, PlaceFacts DEF Quiet
    <3>4. QED
      BY <1>0, <2>5, <3>3, InsertFacts, InvalidateFacts DEF Insert, Invalidate, Logout
  <2>6. CASE /\ UNCHANGED redis
             /\ Crash \/ \E p \in Requests :
                           \/ StartLogin(p) \/ StartRefresh(p) \/ StartLogout(p)
                           \/ Validate(p) \/ SignPair(p)
    <3>1. refresh'[q] = refresh[q]
      BY <2>1, <2>6, StartFacts DEF Crash, Validate, SignPair, TypeOK
    <3>2. QED  BY <2>3, <2>6, <3>1
  <2>7. QED  BY <2>3, <2>4, <2>5, <2>6, KeyFacts
<1>3. QED  BY <1>1, <1>2

-----------------------------------------------------------------------------
LEMMA SessionInvInductive ==
  ASSUME SessionInv, [Next]_vars
  PROVE  SessionInv'
<1>1. CASE Next
  BY <1>1, TypeStep, PresentedStep, OverStep, ShownStep, LogoutStep, KeyStep DEF SessionInv
<1>2. CASE UNCHANGED vars
  BY <1>2 DEF vars, SessionInv, TypeOK, PresentedIsIssued, ShownIsDead, OverStaysOver,
              LogoutEndsSession, KeyOutlivesToken, Quiet
<1>3. QED  BY <1>1, <1>2

(* The inductive invariant holds in every reachable state.                 *)
THEOREM SessionsAreSafe == Spec => []SessionInv
<1>1. QED  BY InitInv, SessionInvInductive, PTL DEF Spec

(* Every state of Sessions is well typed: a key holds the id of a request  *)
(* or nothing, and never longer than a refresh token lives.                *)
THEOREM SessionsTypeCorrect == Spec => []TypeOK
<1>1. SessionInv => TypeOK
  BY DEF SessionInv
<1>2. QED  BY <1>1, SessionsAreSafe, PTL

(* A refresh token that was exchanged for a new pair is never accepted     *)
(* again (users.service.ts:759-777).                                       *)
THEOREM RotationIsFinal == Spec => []ExchangedTokenIsDead
<1>1. SessionInv => ExchangedTokenIsDead
  BY DEF SessionInv, ShownIsDead, ExchangedTokenIsDead, Get
<1>2. QED  BY <1>1, SessionsAreSafe, PTL

(* After an answered logout no earlier pair of the user can be refreshed   *)
(* (users.service.ts:807-813).                                             *)
THEOREM LogoutIsFinal == Spec => []LogoutEndsSession
<1>1. SessionInv => LogoutEndsSession
  BY DEF SessionInv
<1>2. QED  BY <1>1, SessionsAreSafe, PTL

(* An undisturbed pair can be refreshed as long as its refresh token is    *)
(* valid (helper.service.ts:85-102, refresh-token-storage.service.ts:28).  *)
THEOREM SessionsStayLive == Spec => []AnsweredSessionIsLive
<1>1. ASSUME SessionInv PROVE AnsweredSessionIsLive
  <2>1. \A q, r \in Requests : Harmless(r, q) => Quiet(r, q)
    BY DEF Harmless, Quiet
  <2>2. QED  BY <1>1, <2>1 DEF SessionInv, KeyOutlivesToken, AnsweredSessionIsLive, Get
<1>2. QED  BY <1>1, SessionsAreSafe, PTL
=============================================================================
