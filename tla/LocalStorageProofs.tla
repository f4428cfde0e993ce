------------------------- MODULE LocalStorageProofs -------------------------
(***************************************************************************)
(* Theorems about LocalStorage, for any requests, items, lives of keys,    *)
(* limit and number of retries.  Every helper is a few single commands     *)
(* with other clients between them; the invariant says what the commands   *)
(* already sent still guarantee when the next one is.                      *)
(***************************************************************************)
EXTENDS LocalStorage, RedisProofs, FiniteSetTheorems

AllKeys == {Lock, Counter, Tag, Tally} \cup Items

\* The group of a tag never expires; the other keys may.
IsDb(db) ==
  /\ db = [k \in AllKeys |-> db[k]]
  /\ db[Lock] \in Slots(Requests, LockTtl)
  /\ db[Counter] \in Slots(Nat \ {0}, Window)
  /\ db[Tally] \in Slots(Nat \ {0}, Window)
  /\ db[Tag] \in Slots(SUBSET Items, 0)
  /\ \A k \in Items : db[k] \in Slots(Requests, ItemTtl)

Locking == {"acquire"} \cup Holding
Limiting == {"incr", "expire", "ttl"}
Counting == {"incrby", "renew"}
Filling == {"get", "set"}
Invalidating == {"smembers", "mdel", "delTag"}
Busy ==
  Locking \cup Limiting \cup Counting \cup Filling \cup Invalidating
    \cup {"try", "sadd", "keys"}

Helpers ==
  {"withLock", "checkRateLimit", "incrWithExpiry", "getOrSet", "setWithRetry",
   "tagKey", "invalidateTag", "deletePattern"}

StorageTypeOK ==
  /\ pc \in [Requests -> {"idle"} \cup Busy \cup Ended]
  /\ helper \in [Requests -> {"none"} \cup Helpers]
  /\ item \in [Requests -> Items \cup {Gone}]
  /\ count \in [Requests -> Nat]
  /\ members \in [Requests -> SUBSET Items]
  /\ IsDb(redis)
  /\ before \in [Requests -> SUBSET Requests]
  /\ window \in [Requests -> Nat]
  /\ windows \in Nat
  /\ expired \subseteq Requests
  /\ late \subseteq Requests

(* The helper of a request decides where it can be and what it names.      *)
PlaceInv ==
  \A p \in Requests :
    /\ pc[p] = "idle" => helper[p] = "none"
    /\ pc[p] \in Locking => helper[p] = "withLock"
    /\ pc[p] \in Limiting \cup {"allowed", "limited"} => helper[p] = "checkRateLimit"
    /\ pc[p] \in Counting => helper[p] = "incrWithExpiry"
    /\ pc[p] \in Filling => helper[p] = "getOrSet"
    /\ pc[p] = "try" => helper[p] = "setWithRetry"
    /\ pc[p] = "sadd" => helper[p] = "tagKey"
    /\ pc[p] \in {"smembers", "delTag"} => helper[p] = "invalidateTag"
    /\ pc[p] = "keys" => helper[p] = "deletePattern"
    /\ pc[p] = "mdel" => helper[p] \in {"invalidateTag", "deletePattern"}
    /\ helper[p] \in {"getOrSet", "setWithRetry", "tagKey"} => item[p] \in Items

OverStaysOver ==
  \A p \in Requests : \A q \in before[p] : pc[q] \in Ended

(* Who has compared the lock with its identifier may delete it: unless it  *)
(* expired since, it is still its own, expired leases included.            *)
ReleaseIsOwn ==
  late = {} => \A p \in Requests : pc[p] = "release" => Get(redis, Lock) = p

(* The calls of a window that the limiter lets pass; in the current window *)
(* there are no more of them than the counter says.                        *)
Passed(w) ==
  {p \in Requests :
     helper[p] = "checkRateLimit" /\ window[p] = w /\ count[p] \in 1..Limit}

Counted == IF Exists(redis, Counter) THEN Get(redis, Counter) ELSE 0

LimiterInv ==
  /\ \A p \in Requests : window[p] <= windows
  /\ \A w \in 0..windows : Cardinality(Passed(w)) <= Limit
  /\ Cardinality(Passed(windows)) <= Counted
  /\ \A p \in Requests :
       /\ pc[p] \in {"idle", "incr"} => count[p] = 0
       /\ pc[p] \in {"expire", "ttl", "allowed"} => count[p] >= 1
       /\ pc[p] = "allowed" => count[p] <= Limit

(* A key that was tagged stays in the group until a call of invalidateTag  *)
(* that began later has deleted what was cached under it.                  *)
Undisturbed(t) ==
  \A j \in Requests : helper[j] = "invalidateTag" => ~Overlap(j, t)

Cleared(t) == Get(redis, item[t]) \notin before[t]

TagInv ==
  \A t \in Done("tagKey") : Undisturbed(t) =>
    /\ item[t] \in Smembers(redis, Tag) \/ Cleared(t)
    /\ \A i \in Requests : helper[i] = "invalidateTag" /\ t \in before[i] =>
         /\ pc[i] = "mdel" => item[t] \in members[i] \/ Cleared(t)
         /\ pc[i] \in {"delTag", "done"} => Cleared(t)

StorageInv ==
  /\ StorageTypeOK /\ PlaceInv /\ OverStaysOver
  /\ LeaseIsExclusive /\ ReleaseIsOwn
  /\ LimiterInv
  /\ CounterExpires
  /\ TagInv

-----------------------------------------------------------------------------
LEMMA Constants ==
  /\ LockTtl \in Nat \ {0} /\ Window \in Nat \ {0} /\ ItemTtl \in Nat \ {0}
  /\ MaxRetries \in Nat \ {0}
  /\ Limit \in Nat /\ IsFiniteSet(Requests) /\ Gone \notin Requests
BY LocalStorageAssumption

\* A slot that key k may have.
SlotFor(k, slot) ==
  /\ k = Lock => slot \in Slots(Requests, LockTtl)
  /\ k = Counter => slot \in Slots(Nat \ {0}, Window)
  /\ k = Tally => slot \in Slots(Nat \ {0}, Window)
  /\ k = Tag => slot \in Slots(SUBSET Items, 0)
  /\ k \in Items => slot \in Slots(Requests, ItemTtl)

Writes(db, k, slot, new) == new = [db EXCEPT ![k] = slot]

(* What one command leaves of the database: all keys but one.              *)
LEMMA WriteFacts ==
  ASSUME NEW db, IsDb(db), NEW k \in AllKeys, NEW slot, SlotFor(k, slot),
         NEW new, Writes(db, k, slot, new)
  PROVE  /\ IsDb(new)
         /\ new[k] = slot
         /\ \A j \in AllKeys \ {k} : new[j] = db[j]
<1>1. DOMAIN db = AllKeys
  BY DEF IsDb
<1>2. /\ new = [j \in AllKeys |-> new[j]]
      /\ new[k] = slot
      /\ \A j \in AllKeys \ {k} : new[j] = db[j]
  BY <1>1 DEF Writes
<1>3. {Lock, Counter, Tag, Tally} \subseteq AllKeys /\ Items \subseteq AllKeys
  BY DEF AllKeys
<1>4. IsDb(new)
  <2>1. new[Lock] \in Slots(Requests, LockTtl)
    BY <1>2, <1>3 DEF IsDb, SlotFor
  <2>2. new[Counter] \in Slots(Nat \ {0}, Window)
    BY <1>2, <1>3 DEF IsDb, SlotFor
  <2>3. new[Tally] \in Slots(Nat \ {0}, Window)
    BY <1>2, <1>3 DEF IsDb, SlotFor
  <2>4. new[Tag] \in Slots(SUBSET Items, 0)
    BY <1>2, <1>3 DEF IsDb, SlotFor
  <2>5. \A j \in Items : new[j] \in Slots(Requests, ItemTtl)
    BY <1>2, <1>3 DEF IsDb, SlotFor
  <2>6. QED  BY <1>2, <2>1, <2>2, <2>3, <2>4, <2>5 DEF IsDb
<1>5. QED  BY <1>2, <1>4

(* The keys that stand for something are different from each other.        *)
LEMMA KeyFacts ==
  /\ Lock \in AllKeys /\ Counter \in AllKeys /\ Tag \in AllKeys /\ Tally \in AllKeys
  /\ Items \subseteq AllKeys
  /\ Lock \notin Items /\ Counter \notin Items /\ Tag \notin Items /\ Tally \notin Items
  /\ Lock # Counter /\ Lock # Tag /\ Lock # Tally
  /\ Counter # Tag /\ Counter # Tally /\ Tag # Tally
BY KeysAreApart DEF AllKeys, Lock, Counter, Tag, Tally

LEMMA SetWrites ==
  ASSUME NEW db, NEW k, NEW v, NEW ttl \in Nat \ {0}
  PROVE  Set(db, k, v, ttl) = [db EXCEPT ![k] = [value |-> v, left |-> ttl]]
<1>1. Lifetime(ttl) = ttl
  BY DEF Lifetime
<1>2. QED  BY <1>1 DEF Set

LEMMA DelWrites ==
  ASSUME NEW db, IsDb(db), NEW k \in AllKeys
  PROVE  Del(db, k) = [db EXCEPT ![k] = GoneSlot]
BY DEF Del, Mdel, IsDb

LEMMA ExpireWrites ==
  ASSUME NEW db, IsDb(db), NEW k \in AllKeys, Exists(db, k), NEW ttl \in Nat \ {0}
  PROVE  Expire(db, k, ttl) = [db EXCEPT ![k] = [db[k] EXCEPT !.left = ttl]]
BY DEF Expire

LEMMA IncrbyWrites ==
  ASSUME NEW db, NEW k
  PROVE  Incrby(db, k, 1) =
           [db EXCEPT ![k] =
              IF Exists(db, k) THEN [db[k] EXCEPT !.value = @ + 1]
                               ELSE [value |-> 1, left |-> Forever]]
<1>1. Lifetime(0) = Forever
  BY DEF Lifetime
<1>2. QED  BY <1>1 DEF Incrby, Set

-----------------------------------------------------------------------------
(* What the commands of the helpers do to the database.                    *)
LEMMA IncrbyFacts ==
  ASSUME IsDb(redis), NEW k \in {Counter, Tally}, redis' = Incrby(redis, k, 1)
  PROVE  /\ IsDb(redis')
         /\ \A j \in AllKeys \ {k} : redis'[j] = redis[j]
         /\ Exists(redis, k) =>
              redis'[k] = [value |-> redis[k].value + 1, left |-> redis[k].left]
         /\ ~Exists(redis, k) => redis'[k] = [value |-> 1, left |-> Forever]
         /\ Exists(redis', k)
         /\ Exists(redis, k) => redis[k].value \in Nat \ {0}
<1>. DEFINE slot == IF Exists(redis, k) THEN [redis[k] EXCEPT !.value = @ + 1]
                                        ELSE [value |-> 1, left |-> Forever]
<1>0. k \in AllKeys /\ k # Lock /\ k # Tag /\ k \notin Items /\ Window \in Nat
  BY KeyFacts, Constants
<1>1. redis[k] \in Slots(Nat \ {0}, Window)
  BY DEF IsDb
<1>2. CASE Exists(redis, k)
  <2>1. /\ redis[k] = [value |-> redis[k].value, left |-> redis[k].left]
        /\ redis[k].value \in Nat \ {0}
        /\ redis[k].left \in {Forever} \cup 1..Window
    BY <1>0, <1>1, <1>2, SlotFacts DEF Exists
  <2>2. slot = [value |-> redis[k].value + 1, left |-> redis[k].left]
    BY <1>2, <2>1
  <2>3. slot \in Slots(Nat \ {0}, Window) /\ slot # GoneSlot
    <3>1. redis[k].value + 1 \in Nat \ {0}
      BY <2>1
    <3>2. QED  BY <1>0, <2>1, <2>2, <3>1, NoSlotFacts
  <2>4. Writes(redis, k, slot, redis')
    BY IncrbyWrites DEF Writes
  <2>5. SlotFor(k, slot)
    BY <1>0, <2>3 DEF SlotFor
  <2>. HIDE DEF slot
  <2>6. /\ IsDb(redis') /\ redis'[k] = slot
        /\ \A j \in AllKeys \ {k} : redis'[j] = redis[j]
    BY <1>0, <2>4, <2>5, WriteFacts
  <2>7. QED  BY <1>2, <2>1, <2>2, <2>3, <2>6 DEF Exists
<1>3. CASE ~Exists(redis, k)
  <2>1. slot = [value |-> 1, left |-> Forever]
    BY <1>3
  <2>2. slot \in Slots(Nat \ {0}, Window) /\ slot # GoneSlot
    <3>1. 1 \in Nat \ {0} /\ Forever \in {Forever} \cup 1..Window
      OBVIOUS
    <3>2. QED  BY <1>0, <2>1, <3>1, NoSlotFacts
  <2>3. Writes(redis, k, slot, redis')
    BY IncrbyWrites DEF Writes
  <2>4. SlotFor(k, slot)
    BY <1>0, <2>2 DEF SlotFor
  <2>. HIDE DEF slot
  <2>5. /\ IsDb(redis') /\ redis'[k] = slot
        /\ \A j \in AllKeys \ {k} : redis'[j] = redis[j]
    BY <1>0, <2>3, <2>4, WriteFacts
  <2>6. QED  BY <1>3, <2>1, <2>2, <2>5 DEF Exists
<1>4. QED  BY <1>2, <1>3

LEMMA ExpireFacts ==
  ASSUME IsDb(redis), NEW k \in {Counter, Tally}, redis' = Expire(redis, k, Window)
  PROVE  /\ IsDb(redis')
         /\ \A j \in AllKeys \ {k} : redis'[j] = redis[j]
         /\ Exists(redis, k) => redis'[k] = [value |-> redis[k].value, left |-> Window]
         /\ ~Exists(redis, k) => redis' = redis
         /\ Exists(redis', k) <=> Exists(redis, k)
         /\ redis'[k].left # Forever
<1>. DEFINE slot == [value |-> redis[k].value, left |-> Window]
<1>0. k \in AllKeys /\ k # Lock /\ k # Tag /\ k \notin Items /\ Window \in Nat \ {0}
  BY KeyFacts, Constants
<1>1. redis[k] \in Slots(Nat \ {0}, Window)
  BY DEF IsDb
<1>2. CASE Exists(redis, k)
  <2>1. redis[k].value \in Nat \ {0} /\ redis[k] = [value |-> redis[k].value, left |-> redis[k].left]
    BY <1>0, <1>1, <1>2, SlotFacts DEF Exists
  <2>2. slot \in Slots(Nat \ {0}, Window) /\ slot # GoneSlot
    <3>1. Window \in {Forever} \cup 1..Window
      BY <1>0
    <3>2. QED  BY <1>0, <2>1, <3>1, NoSlotFacts
  <2>3. Writes(redis, k, slot, redis')
    <3>1. [redis[k] EXCEPT !.left = Window] = slot
      BY <2>1
    <3>2. redis' = [redis EXCEPT ![k] = [redis[k] EXCEPT !.left = Window]]
      BY <1>0, <1>2, ExpireWrites
    <3>3. QED  BY <3>1, <3>2 DEF Writes
  <2>4. slot.left # Forever
    BY <1>0 DEF Forever
  <2>5. slot = [value |-> redis[k].value, left |-> Window]
    OBVIOUS
  <2>6. SlotFor(k, slot)
    BY <1>0, <2>2 DEF SlotFor
  <2>. HIDE DEF slot
  <2>7. /\ IsDb(redis') /\ redis'[k] = slot
        /\ \A j \in AllKeys \ {k} : redis'[j] = redis[j]
    BY <1>0, <2>3, <2>6, WriteFacts
  <2>8. QED  BY <1>2, <2>2, <2>4, <2>5, <2>7 DEF Exists
<1>3. CASE ~Exists(redis, k)
  <2>1. redis' = redis
    BY <1>3 DEF Expire
  <2>2. redis[k].left # Forever
    BY <1>0, <1>3, NoSlotFacts DEF Exists, Forever
  <2>3. QED  BY <1>3, <2>1, <2>2
<1>4. QED  BY <1>2, <1>3

LEMMA AcquireFacts ==
  ASSUME IsDb(redis), NEW p \in Requests, redis' = SetNx(redis, Lock, p, LockTtl)
  PROVE  /\ IsDb(redis')
         /\ \A j \in AllKeys \ {Lock} : redis'[j] = redis[j]
         /\ Exists(redis, Lock) => redis' = redis
         /\ ~Exists(redis, Lock) => redis'[Lock] = [value |-> p, left |-> LockTtl]
<1>. DEFINE slot == [value |-> p, left |-> LockTtl]
<1>1. CASE Exists(redis, Lock)
  BY <1>1 DEF SetNx
<1>2. CASE ~Exists(redis, Lock)
  <2>1. Writes(redis, Lock, slot, redis')
    BY <1>2, Constants, SetWrites DEF SetNx, Writes
  <2>2. slot \in Slots(Requests, LockTtl)
    BY Constants DEF Slots
  <2>3. slot = [value |-> p, left |-> LockTtl]
    OBVIOUS
  <2>4. SlotFor(Lock, slot)
    BY <2>2, KeyFacts DEF SlotFor
  <2>. HIDE DEF slot
  <2>5. /\ IsDb(redis') /\ redis'[Lock] = slot
        /\ \A j \in AllKeys \ {Lock} : redis'[j] = redis[j]
    BY <2>1, <2>4, KeyFacts, WriteFacts
  <2>6. QED  BY <1>2, <2>3, <2>5
<1>3. QED  BY <1>1, <1>2

LEMMA DelKeyFacts ==
  ASSUME IsDb(redis), NEW k \in {Lock, Tag}, redis' = Del(redis, k)
  PROVE  /\ IsDb(redis')
         /\ \A j \in AllKeys \ {k} : redis'[j] = redis[j]
         /\ redis'[k] = GoneSlot
<1>1. k \in AllKeys /\ k # Counter /\ k # Tally /\ k \notin Items
  BY KeyFacts
<1>2. Writes(redis, k, GoneSlot, redis')
  BY <1>1, DelWrites DEF Writes
<1>3. GoneSlot \in Slots(Requests, LockTtl) /\ GoneSlot \in Slots(SUBSET Items, 0)
  BY DEF Slots
<1>4. SlotFor(k, GoneSlot)
  BY <1>1, <1>3 DEF SlotFor
<1>5. QED  BY <1>1, <1>2, <1>4, WriteFacts

LEMMA ItemFacts ==
  ASSUME IsDb(redis), NEW p \in Requests, NEW k \in Items, redis' = Set(redis, k, p, ItemTtl)
  PROVE  /\ IsDb(redis')
         /\ \A j \in AllKeys \ {k} : redis'[j] = redis[j]
         /\ redis'[k].value = p
<1>. DEFINE slot == [value |-> p, left |-> ItemTtl]
<1>1. Writes(redis, k, slot, redis')
  BY Constants, SetWrites DEF Writes
<1>2. slot \in Slots(Requests, ItemTtl) /\ slot.value = p
  BY Constants DEF Slots
<1>3. k \in AllKeys /\ k # Lock /\ k # Counter /\ k # Tally /\ k # Tag
  BY KeyFacts
<1>4. SlotFor(k, slot)
  BY <1>2, <1>3 DEF SlotFor
<1>. HIDE DEF slot
<1>5. QED  BY <1>1, <1>2, <1>3, <1>4, WriteFacts

LEMMA SaddFacts ==
  ASSUME IsDb(redis), NEW k \in Items, redis' = Sadd(redis, Tag, k)
  PROVE  /\ IsDb(redis')
         /\ \A j \in AllKeys \ {Tag} : redis'[j] = redis[j]
         /\ Smembers(redis', Tag) = Smembers(redis, Tag) \cup {k}
<1>. DEFINE slot == [value |-> Smembers(redis, Tag) \cup {k}, left |-> Forever]
<1>0. redis[Tag] \in Slots(SUBSET Items, 0)
  BY DEF IsDb
<1>1. Smembers(redis, Tag) \in SUBSET Items
  BY <1>0, SlotFacts DEF Smembers, Get, Exists
<1>2. slot \in Slots(SUBSET Items, 0) /\ slot # GoneSlot
  BY <1>1 DEF Slots, GoneSlot, Forever
<1>3. Writes(redis, Tag, slot, redis')
  <2>1. CASE Exists(redis, Tag)
    <3>1. redis[Tag] = [value |-> redis[Tag].value, left |-> redis[Tag].left]
      BY <1>0, <2>1, SlotFacts DEF Exists
    <3>2. redis[Tag].left = Forever
      BY <1>0, <2>1 DEF Exists, Slots
    <3>3. [redis[Tag] EXCEPT !.value = @ \cup {k}] = slot
      BY <2>1, <3>1, <3>2 DEF Smembers, Get
    <3>4. QED  BY <2>1, <3>3 DEF Sadd, Writes
  <2>2. CASE ~Exists(redis, Tag)
    BY <2>2 DEF Sadd, Set, Lifetime, Smembers, Writes
  <2>3. QED  BY <2>1, <2>2
<1>4. slot.value = Smembers(redis, Tag) \cup {k}
  OBVIOUS
<1>5. SlotFor(Tag, slot)
  BY <1>2, KeyFacts DEF SlotFor
<1>. HIDE DEF slot
<1>6. IsDb(redis') /\ redis'[Tag] = slot /\ \A j \in AllKeys \ {Tag} : redis'[j] = redis[j]
  BY <1>3, <1>5, KeyFacts, WriteFacts
<1>7. QED  BY <1>2, <1>4, <1>6 DEF Smembers, Exists, Get

LEMMA MdelFacts ==
  ASSUME IsDb(redis), NEW S \in SUBSET Items, redis' = Mdel(redis, S)
  PROVE  /\ IsDb(redis')
         /\ \A k \in AllKeys \ S : redis'[k] = redis[k]
         /\ \A k \in S : redis'[k] = GoneSlot
<1>1. DOMAIN redis = AllKeys
  BY DEF IsDb
<1>2. redis' = [k \in AllKeys |-> IF k \in S THEN GoneSlot ELSE redis[k]]
  BY <1>1 DEF Mdel
<1>3. GoneSlot \in Slots(Requests, ItemTtl)
  BY DEF Slots
<1>4. /\ redis'[Lock] = redis[Lock] /\ redis'[Counter] = redis[Counter]
      /\ redis'[Tally] = redis[Tally] /\ redis'[Tag] = redis[Tag]
  BY <1>2, KeyFacts
<1>5. \A k \in Items : redis'[k] \in Slots(Requests, ItemTtl)
  BY <1>2, <1>3, KeyFacts DEF IsDb
<1>6. redis' = [k \in AllKeys |-> redis'[k]]
  BY <1>2
<1>7. IsDb(redis')
  BY <1>4, <1>5, <1>6 DEF IsDb
<1>8. QED  BY <1>2, <1>7, KeyFacts

LEMMA ElapseDbFacts ==
  ASSUME IsDb(redis), redis' = Elapse(redis)
  PROVE  /\ IsDb(redis')
         /\ \A k \in AllKeys : redis'[k] = Older(redis[k])
<1>1. DOMAIN redis = AllKeys
  BY DEF IsDb
<1>2. redis' = [k \in AllKeys |-> Older(redis[k])]
  BY <1>1 DEF Elapse
<1>3. redis' = [k \in AllKeys |-> redis'[k]]
  BY <1>2
<1>4. redis'[Lock] \in Slots(Requests, LockTtl)
  BY <1>2, KeyFacts, Constants, OlderFacts DEF IsDb
<1>5. redis'[Counter] \in Slots(Nat \ {0}, Window)
  BY <1>2, KeyFacts, Constants, OlderFacts DEF IsDb
<1>6. redis'[Tally] \in Slots(Nat \ {0}, Window)
  BY <1>2, KeyFacts, Constants, OlderFacts DEF IsDb
<1>7. redis'[Tag] \in Slots(SUBSET Items, 0)
  BY <1>2, KeyFacts, OlderFacts DEF IsDb
<1>8. \A k \in Items : redis'[k] \in Slots(Requests, ItemTtl)
  BY <1>2, KeyFacts, Constants, OlderFacts DEF IsDb
<1>9. QED  BY <1>2, <1>3, <1>4, <1>5, <1>6, <1>7, <1>8 DEF IsDb

-----------------------------------------------------------------------------
LEMMA InitInv == Init => StorageInv
<1>1. SUFFICES ASSUME Init PROVE StorageInv
  OBVIOUS
<1>2. redis = [k \in AllKeys |-> GoneSlot]
  BY <1>1 DEF Init, EmptyDb, AllKeys
<1>3. IsDb(redis)
  BY <1>2, KeyFacts DEF IsDb, Slots
<1>4. /\ \A k \in AllKeys : ~Exists(redis, k) /\ Ttl(redis, k) # Forever
  BY <1>2 DEF Exists, Ttl, GoneSlot, Forever
<1>5. StorageTypeOK
  BY <1>1, <1>3 DEF Init, StorageTypeOK
<1>6. \A w : Passed(w) = {}
  BY <1>1 DEF Init, Passed
<1>7. LimiterInv
  <2>1. Counted = 0
    BY <1>4, KeyFacts DEF Counted
  <2>2. \A w : Cardinality(Passed(w)) = 0
    BY <1>6, FS_EmptySet
  <2>3. QED  BY <1>1, <2>1, <2>2, Constants DEF Init, LimiterInv
<1>8. CounterExpires
  BY <1>4, KeyFacts DEF CounterExpires
<1>9. PlaceInv /\ OverStaysOver /\ LeaseIsExclusive /\ ReleaseIsOwn /\ TagInv
  BY <1>1
     DEF Init, PlaceInv, OverStaysOver, LeaseIsExclusive, ReleaseIsOwn, TagInv, Done,
         Locking, Holding, Limiting, Counting, Filling
<1>10. QED  BY <1>5, <1>7, <1>8, <1>9 DEF StorageInv

-----------------------------------------------------------------------------
(* The actions of a request, by the key they are about.                    *)
Calls(p) ==
  \/ WithLock(p) \/ CheckRateLimit(p) \/ IncrWithExpiry(p) \/ GetOrSet(p)
  \/ SetWithRetry(p) \/ TagKey(p) \/ InvalidateTag(p) \/ DeletePattern(p)

Looks(p) ==
  Leave(p) \/ Compare(p) \/ AnswerLimit(p) \/ LookUp(p) \/ ReadTag(p) \/ ReadKeys(p)

Locks(p) == Acquire(p) \/ Release(p)
Counts(p) == Increment(p) \/ StartWindow(p)
Tallies(p) == Add(p) \/ Renew(p)
Fills(p) == Fill(p) \/ Try(p) \/ TryFails(p)
Tags(p) == AddToTag(p) \/ DeleteTag(p)

LEMMA NextCases ==
  ASSUME Next
  PROVE  \/ Tick \/ Crash
         \/ \E p \in Requests :
              \/ Calls(p) \/ Looks(p) \/ Locks(p) \/ Counts(p) \/ Tallies(p)
              \/ Fills(p) \/ DeleteMembers(p) \/ Tags(p)
BY DEF Next, Serve, Calls, Looks, Locks, Counts, Tallies, Fills, Tags

\* Request p begins a helper at its first command, about a key or none.
Begins(p, name, label, target) ==
  /\ \/ name = "withLock" /\ label = "acquire"
     \/ name = "checkRateLimit" /\ label = "incr"
     \/ name = "incrWithExpiry" /\ label = "incrby"
     \/ name = "getOrSet" /\ label = "get" /\ target \in Items
     \/ name = "setWithRetry" /\ label = "try" /\ target \in Items
     \/ name = "tagKey" /\ label = "sadd" /\ target \in Items
     \/ name = "invalidateTag" /\ label = "smembers"
     \/ name = "deletePattern" /\ label = "keys"
  /\ target \in Items \cup {Gone}
  /\ pc[p] = "idle"
  /\ pc' = [pc EXCEPT ![p] = label]
  /\ helper' = [helper EXCEPT ![p] = name]
  /\ item' = [item EXCEPT ![p] = target]
  /\ before' = [before EXCEPT ![p] = {q \in Requests : pc[q] \in Ended}]
  /\ UNCHANGED <<count, members, redis, window, windows, expired, late>>

LEMMA CallFacts ==
  ASSUME StorageTypeOK, NEW p \in Requests, Calls(p)
  PROVE  \E name, label, target : Begins(p, name, label, target)
<1>1. ASSUME NEW name, NEW label, Call(p, name, label)
      PROVE  /\ pc[p] = "idle"
             /\ pc' = [pc EXCEPT ![p] = label]
             /\ helper' = [helper EXCEPT ![p] = name]
             /\ before' = [before EXCEPT ![p] = {q \in Requests : pc[q] \in Ended}]
             /\ UNCHANGED <<count, members, redis, window, windows, expired, late>>
  BY <1>1 DEF Call, At, Goto, history
<1>2. ASSUME item' = item
      PROVE  item' = [item EXCEPT ![p] = item[p]] /\ item[p] \in Items \cup {Gone}
  BY <1>2 DEF StorageTypeOK
<1>3. ASSUME WithLock(p) PROVE Begins(p, "withLock", "acquire", item[p])
  BY <1>1, <1>2, <1>3 DEF WithLock, Begins
<1>4. ASSUME CheckRateLimit(p) PROVE Begins(p, "checkRateLimit", "incr", item[p])
  BY <1>1, <1>2, <1>4 DEF CheckRateLimit, Begins
<1>5. ASSUME IncrWithExpiry(p) PROVE Begins(p, "incrWithExpiry", "incrby", item[p])
  BY <1>1, <1>2, <1>5 DEF IncrWithExpiry, Begins
<1>6. ASSUME InvalidateTag(p) PROVE Begins(p, "invalidateTag", "smembers", item[p])
  BY <1>1, <1>2, <1>6 DEF InvalidateTag, Begins
<1>7. ASSUME DeletePattern(p) PROVE Begins(p, "deletePattern", "keys", item[p])
  BY <1>1, <1>2, <1>7 DEF DeletePattern, Begins
<1>8. ASSUME GetOrSet(p) PROVE \E k \in Items : Begins(p, "getOrSet", "get", k)
  BY <1>1, <1>8 DEF GetOrSet, Begins
<1>9. ASSUME SetWithRetry(p) PROVE \E k \in Items : Begins(p, "setWithRetry", "try", k)
  BY <1>1, <1>9 DEF SetWithRetry, Begins
<1>10. ASSUME TagKey(p) PROVE \E k \in Items : Begins(p, "tagKey", "sadd", k)
  BY <1>1, <1>10 DEF TagKey, Begins
<1>11. QED
  BY <1>3, <1>4, <1>5, <1>6, <1>7, <1>8, <1>9, <1>10 DEF Calls

-----------------------------------------------------------------------------
(* A step of a helper is one command, and a command touches only its key.  *)
LEMMA LocksFacts ==
  ASSUME StorageTypeOK, NEW p \in Requests, Locks(p)
  PROVE  IsDb(redis') /\ \A j \in AllKeys \ {Lock} : redis'[j] = redis[j]
<1>1. IsDb(redis)
  BY DEF StorageTypeOK
<1>2. CASE Acquire(p)
  BY <1>1, <1>2, AcquireFacts DEF Acquire
<1>3. CASE Release(p)
  BY <1>1, <1>3, DelKeyFacts DEF Release
<1>4. QED  BY <1>2, <1>3 DEF Locks

LEMMA CountsFacts ==
  ASSUME StorageTypeOK, NEW p \in Requests, Counts(p)
  PROVE  IsDb(redis') /\ \A j \in AllKeys \ {Counter} : redis'[j] = redis[j]
<1>1. IsDb(redis)
  BY DEF StorageTypeOK
<1>2. CASE Increment(p)
  BY <1>1, <1>2, IncrbyFacts DEF Increment, Incr
<1>3. CASE StartWindow(p)
  BY <1>1, <1>3, ExpireFacts DEF StartWindow
<1>4. QED  BY <1>2, <1>3 DEF Counts

LEMMA TalliesFacts ==
  ASSUME StorageTypeOK, NEW p \in Requests, Tallies(p)
  PROVE  IsDb(redis') /\ \A j \in AllKeys \ {Tally} : redis'[j] = redis[j]
<1>1. IsDb(redis)
  BY DEF StorageTypeOK
<1>2. CASE Add(p)
  BY <1>1, <1>2, IncrbyFacts DEF Add
<1>3. CASE Renew(p)
  BY <1>1, <1>3, ExpireFacts DEF Renew
<1>4. QED  BY <1>2, <1>3 DEF Tallies

LEMMA FillsFacts ==
  ASSUME StorageTypeOK, PlaceInv, NEW p \in Requests, Fills(p)
  PROVE  /\ IsDb(redis') /\ pc[p] \in {"set", "try"}
         /\ item[p] \in Items
         /\ \A j \in AllKeys \ {item[p]} : redis'[j] = redis[j]
         /\ redis'[item[p]] = redis[item[p]] \/ redis'[item[p]].value = p
<1>1. IsDb(redis)
  BY DEF StorageTypeOK
<1>2. pc[p] \in {"set", "try"} /\ item[p] \in Items
  BY DEF Fills, Fill, Try, TryFails, At, PlaceInv, Filling
<1>3. redis' = redis \/ redis' = Set(redis, item[p], p, ItemTtl)
  BY DEF Fills, Fill, Try, TryFails
<1>4. CASE redis' = redis
  BY <1>1, <1>2, <1>4
<1>5. CASE redis' = Set(redis, item[p], p, ItemTtl)
  BY <1>1, <1>2, <1>5, ItemFacts
<1>6. QED  BY <1>3, <1>4, <1>5

LEMMA DeleteMembersFacts ==
  ASSUME StorageTypeOK, NEW p \in Requests, DeleteMembers(p)
  PROVE  /\ IsDb(redis')
         /\ members[p] \subseteq Items
         /\ \A k \in AllKeys \ members[p] : redis'[k] = redis[k]
         /\ \A k \in members[p] : redis'[k] = GoneSlot
<1>1. IsDb(redis) /\ members[p] \in SUBSET Items
  BY DEF StorageTypeOK
<1>2. QED  BY <1>1, MdelFacts DEF DeleteMembers

LEMMA TagsFacts ==
  ASSUME StorageTypeOK, PlaceInv, NEW p \in Requests, Tags(p)
  PROVE  IsDb(redis') /\ \A j \in AllKeys \ {Tag} : redis'[j] = redis[j]
<1>1. IsDb(redis)
  BY DEF StorageTypeOK
<1>2. CASE AddToTag(p)
  <2>1. item[p] \in Items
    BY <1>2 DEF AddToTag, At, PlaceInv
  <2>2. QED  BY <1>1, <1>2, <2>1, SaddFacts DEF AddToTag
<1>3. CASE DeleteTag(p)
  BY <1>1, <1>3, DelKeyFacts DEF DeleteTag
<1>4. QED  BY <1>2, <1>3 DEF Tags

LEMMA QuietFacts ==
  ASSUME Crash \/ \E p \in Requests : Calls(p) \/ Looks(p)
  PROVE  UNCHANGED <<redis, window, windows, expired, late>>
BY DEF Crash, Calls, Looks, WithLock, CheckRateLimit, IncrWithExpiry, GetOrSet,
       SetWithRetry, TagKey, InvalidateTag, DeletePattern, Call, Leave, Compare,
       AnswerLimit, LookUp, ReadTag, ReadKeys, history

LEMMA TickFacts ==
  ASSUME StorageTypeOK, Tick
  PROVE  /\ IsDb(redis')
         /\ \A k \in AllKeys : redis'[k] = Older(redis[k])
         /\ UNCHANGED <<pc, helper, item, count, members, before, window>>
         /\ windows' = windows + IF redis[Counter].left = 1 THEN 1 ELSE 0
<1>1. IsDb(redis)
  BY DEF StorageTypeOK
<1>2. QED  BY <1>1, ElapseDbFacts DEF Tick, local, Ttl

-----------------------------------------------------------------------------
LEMMA DbStep ==
  ASSUME StorageTypeOK, PlaceInv, Next
  PROVE  IsDb(redis')
<1>1. IsDb(redis)
  BY DEF StorageTypeOK
<1>2. QED
  BY <1>1, NextCases, LocksFacts, CountsFacts, TalliesFacts, FillsFacts,
     DeleteMembersFacts, TagsFacts, QuietFacts, TickFacts

LEMMA CallStep ==
  ASSUME StorageTypeOK, PlaceInv, NEW p \in Requests, Calls(p)
  PROVE  StorageTypeOK' /\ PlaceInv'
<1>1. PICK name, label, target : Begins(p, name, label, target)
  BY CallFacts
<1>2. StorageTypeOK'
  BY <1>1
     DEF Begins, StorageTypeOK, Busy, Helpers, Locking, Limiting, Counting, Filling,
         Invalidating
<1>3. PlaceInv'
  BY <1>1
     DEF Begins, StorageTypeOK, PlaceInv, Locking, Holding, Limiting, Counting, Filling
<1>4. QED  BY <1>2, <1>3

LEMMA TypeStep ==
  ASSUME StorageTypeOK, PlaceInv, Next
  PROVE  StorageTypeOK'
<1>0. IsDb(redis')
  BY DbStep
<1>. USE DEF StorageTypeOK, Busy, Ended, Locking, Holding, Limiting, Counting, Filling,
             Invalidating
<1>1. CASE Tick
  <2>1. windows' \in Nat
    BY <1>1, TickFacts
  <2>2. expired' \subseteq Requests /\ late' \subseteq Requests
    BY <1>1 DEF Tick, Evicted
  <2>3. QED  BY <1>0, <1>1, <2>1, <2>2, TickFacts
<1>2. CASE Crash
  BY <1>0, <1>2 DEF Crash, local, history
<1>3. ASSUME NEW p \in Requests, Looks(p) PROVE StorageTypeOK'
  <2>1. CASE ReadTag(p) \/ ReadKeys(p)
    <3>1. Smembers(redis, Tag) \subseteq Items
      <4>1. redis[Tag] \in Slots(SUBSET Items, 0)
        BY DEF IsDb
      <4>2. QED  BY <4>1, SlotFacts DEF Smembers, Get, Exists
    <3>2. Keys(redis, Items) \subseteq Items
      BY DEF Keys
    <3>3. QED
      BY <1>0, <2>1, <3>1, <3>2 DEF ReadTag, ReadKeys, Goto, history
  <2>2. CASE Leave(p) \/ Compare(p) \/ AnswerLimit(p) \/ LookUp(p)
    BY <1>0, <2>2 DEF Leave, Compare, AnswerLimit, LookUp, Goto, local, history
  <2>3. QED  BY <1>3, <2>1, <2>2 DEF Looks
<1>4. ASSUME NEW p \in Requests, Locks(p) \/ DeleteMembers(p) \/ Tags(p)
      PROVE  StorageTypeOK'
  BY <1>0, <1>4
     DEF Locks, Acquire, Release, DeleteMembers, Tags, AddToTag, DeleteTag, Goto,
         local, history
<1>5. ASSUME NEW p \in Requests, Counts(p) PROVE StorageTypeOK'
  <2>1. CASE Increment(p)
    <3>1. Get(redis', Counter) \in Nat
      BY <2>1, IncrbyFacts DEF Increment, Incr, Get
    <3>2. QED  BY <1>0, <2>1, <3>1 DEF Increment, Goto
  <2>2. CASE StartWindow(p)
    BY <1>0, <2>2 DEF StartWindow, Goto, local, history
  <2>3. QED  BY <1>5, <2>1, <2>2 DEF Counts
<1>6. ASSUME NEW p \in Requests, Tallies(p) PROVE StorageTypeOK'
  <2>1. CASE Add(p)
    <3>1. Get(redis', Tally) \in Nat
      BY <2>1, IncrbyFacts DEF Add, Get
    <3>2. QED  BY <1>0, <2>1, <3>1 DEF Add, Goto, history
  <2>2. CASE Renew(p)
    BY <1>0, <2>2 DEF Renew, Goto, local, history
  <2>3. QED  BY <1>6, <2>1, <2>2 DEF Tallies
<1>7. ASSUME NEW p \in Requests, Fills(p) PROVE StorageTypeOK'
  BY <1>0, <1>7 DEF Fills, Fill, Try, TryFails, Goto, local, history
<1>8. QED
  BY <1>1, <1>2, <1>3, <1>4, <1>5, <1>6, <1>7, CallStep, NextCases

LEMMA PlaceStep ==
  ASSUME StorageTypeOK, PlaceInv, Next
  PROVE  PlaceInv'
<1>. USE DEF StorageTypeOK, PlaceInv, Locking, Holding, Limiting, Counting, Filling
<1>1. CASE Tick
  BY <1>1, TickFacts
<1>2. CASE Crash
  BY <1>2 DEF Crash, local
<1>3. ASSUME NEW p \in Requests, Looks(p) PROVE PlaceInv'
  BY <1>3
     DEF Looks, Leave, Compare, AnswerLimit, LookUp, ReadTag, ReadKeys, At, Goto, local
<1>4. ASSUME NEW p \in Requests, Locks(p) \/ Counts(p) \/ Tallies(p) PROVE PlaceInv'
  BY <1>4
     DEF Locks, Acquire, Release, Counts, Increment, StartWindow, Tallies, Add, Renew,
         At, Goto, local
<1>5. ASSUME NEW p \in Requests, Fills(p) \/ DeleteMembers(p) \/ Tags(p) PROVE PlaceInv'
  BY <1>5
     DEF Fills, Fill, Try, TryFails, DeleteMembers, Tags, AddToTag, DeleteTag, At,
         Goto, local
<1>6. QED
  BY <1>1, <1>2, <1>3, <1>4, <1>5, CallStep, NextCases

(* What no step changes of a request: its helper and its key once it has   *)
(* begun, everything once it has ended.  What was over when it began is    *)
(* noted as it begins.                                                     *)
Entry == {"acquire", "incr", "incrby", "get", "try", "sadd", "smembers", "keys"}

Frame(r) ==
  /\ pc[r] \in Ended => UNCHANGED <<pc[r], count[r], window[r]>>
  /\ pc[r] # "idle" =>
       pc'[r] # "idle" /\ UNCHANGED <<helper[r], item[r], before[r]>>
  /\ pc[r] = "idle" =>
       \/ UNCHANGED <<pc[r], helper[r], item[r], before[r]>>
       \/ /\ pc'[r] \in Entry
          /\ before'[r] = {q \in Requests : pc[q] \in Ended}

LEMMA FrameFacts ==
  ASSUME StorageTypeOK, Next
  PROVE  \A r \in Requests : Frame(r)
<1>. USE DEF StorageTypeOK, Frame, Ended
<1>1. ASSUME Tick, NEW r \in Requests PROVE Frame(r)
  BY <1>1, TickFacts
<1>2. ASSUME Crash, NEW r \in Requests PROVE Frame(r)
  BY <1>2 DEF Crash, local, history
<1>3. ASSUME NEW p \in Requests, Calls(p), NEW r \in Requests PROVE Frame(r)
  <2>1. PICK name, label, target : Begins(p, name, label, target)
    BY <1>3, CallFacts
  <2>2. QED  BY <2>1 DEF Begins, Entry
<1>4. ASSUME NEW p \in Requests, Looks(p), NEW r \in Requests PROVE Frame(r)
  BY <1>4
     DEF Looks, Leave, Compare, AnswerLimit, LookUp, ReadTag, ReadKeys, At, Goto, local,
         history
<1>5. ASSUME NEW p \in Requests, Locks(p) \/ Counts(p) \/ Tallies(p), NEW r \in Requests
      PROVE  Frame(r)
  BY <1>5
     DEF Locks, Acquire, Release, Counts, Increment, StartWindow, Tallies, Add, Renew,
         At, Goto, local, history
<1>6. ASSUME NEW p \in Requests, Fills(p) \/ DeleteMembers(p) \/ Tags(p), NEW r \in Requests
      PROVE  Frame(r)
  BY <1>6
     DEF Fills, Fill, Try, TryFails, DeleteMembers, Tags, AddToTag, DeleteTag, At,
         Goto, local, history
<1>7. QED
  BY <1>1, <1>2, <1>3, <1>4, <1>5, <1>6, NextCases

LEMMA OverStep ==
  ASSUME StorageTypeOK, OverStaysOver, Next
  PROVE  OverStaysOver'
BY FrameFacts DEF Frame, OverStaysOver, StorageTypeOK

(* Requests that are both past their beginning overlap for good.           *)
LEMMA OverlapFacts ==
  ASSUME StorageTypeOK, Next, NEW p \in Requests, NEW q \in Requests,
         pc[p] # "idle", pc[q] # "idle"
  PROVE  Overlap(p, q)' <=> Overlap(p, q)
BY FrameFacts DEF Frame, Overlap

-----------------------------------------------------------------------------
(* The lock.                                                               *)
LEMMA LockFacts ==
  ASSUME StorageTypeOK, PlaceInv, Next
  PROVE  \/ Tick
         \/ \E p \in Requests : Acquire(p) \/ Release(p)
         \/ redis'[Lock] = redis[Lock] /\ UNCHANGED <<expired, late>>
<1>1. ASSUME NEW p \in Requests, Counts(p) \/ Tallies(p)
      PROVE  redis'[Lock] = redis[Lock] /\ UNCHANGED <<expired, late>>
  <2>1. UNCHANGED <<expired, late>>
    BY <1>1 DEF Counts, Increment, StartWindow, Tallies, Add, Renew, history
  <2>2. QED  BY <1>1, <2>1, CountsFacts, TalliesFacts, KeyFacts
<1>2. ASSUME NEW p \in Requests, Fills(p) \/ DeleteMembers(p) \/ Tags(p)
      PROVE  redis'[Lock] = redis[Lock] /\ UNCHANGED <<expired, late>>
  <2>1. UNCHANGED <<expired, late>>
    BY <1>2
       DEF Fills, Fill, Try, TryFails, DeleteMembers, Tags, AddToTag, DeleteTag, history
  <2>2. QED  BY <1>2, <2>1, FillsFacts, DeleteMembersFacts, TagsFacts, KeyFacts
<1>3. QED  BY <1>1, <1>2, QuietFacts, NextCases DEF Locks

LEMMA LeaseStep ==
  ASSUME StorageTypeOK, PlaceInv, LeaseIsExclusive, ReleaseIsOwn, Next
  PROVE  LeaseIsExclusive' /\ ReleaseIsOwn'
<1>0. IsDb(redis) /\ Gone \notin Requests
  BY Constants DEF StorageTypeOK
(* Who is inside, and who is about to delete the lock, was there before,   *)
(* except for the one that acquires it or compares it in this step.        *)
<1>1. ASSUME NEW r \in Requests, pc'[r] \in Holding
      PROVE  pc[r] \in Holding \/ (Acquire(r) /\ ~Exists(redis, Lock))
  <2>. USE DEF Holding, StorageTypeOK, At, Goto
  <2>1. CASE Tick \/ Crash
    BY <1>1, <2>1, TickFacts DEF Crash
  <2>2. ASSUME NEW p \in Requests, Calls(p) PROVE pc[r] \in Holding
    BY <1>1, <2>2, CallFacts DEF Begins
  <2>3. ASSUME NEW p \in Requests, Looks(p) PROVE pc[r] \in Holding
    BY <1>1, <2>3 DEF Looks, Leave, Compare, AnswerLimit, LookUp, ReadTag, ReadKeys
  <2>4. ASSUME NEW p \in Requests, Locks(p)
        PROVE  pc[r] \in Holding \/ (Acquire(r) /\ ~Exists(redis, Lock))
    BY <1>1, <2>4 DEF Locks, Acquire, Release
  <2>5. ASSUME NEW p \in Requests, Counts(p) \/ Tallies(p) PROVE pc[r] \in Holding
    BY <1>1, <2>5 DEF Counts, Increment, StartWindow, Tallies, Add, Renew
  <2>6. ASSUME NEW p \in Requests, Fills(p) \/ DeleteMembers(p) \/ Tags(p)
        PROVE  pc[r] \in Holding
    BY <1>1, <2>6 DEF Fills, Fill, Try, TryFails, DeleteMembers, Tags, AddToTag, DeleteTag
  <2>. HIDE DEF Holding, StorageTypeOK, At, Goto
  <2>7. QED  BY <2>1, <2>2, <2>3, <2>4, <2>5, <2>6, NextCases
<1>2. ASSUME NEW r \in Requests, pc'[r] = "release"
      PROVE  pc[r] = "release" \/ (Compare(r) /\ Get(redis, Lock) = r)
  BY <1>2, CallFacts, TickFacts, NextCases
     DEF Crash, Begins, Looks, Leave, Compare, AnswerLimit, LookUp, ReadTag, ReadKeys,
         Locks, Acquire, Release, Counts, Increment, StartWindow, Tallies, Add, Renew,
         Fills, Fill, Try, TryFails, DeleteMembers, Tags, AddToTag, DeleteTag, Goto,
         StorageTypeOK
<1>3. CASE Tick
  <2>1. redis'[Lock] = Older(redis[Lock]) /\ pc' = pc
    BY <1>3, TickFacts, KeyFacts
  <2>2. redis[Lock] \in Slots(Requests, LockTtl) /\ LockTtl \in Nat
    BY <1>0, Constants DEF IsDb
  <2>3. ASSUME NEW r \in Requests, redis[Lock].value = r, redis[Lock].left # 1
        PROVE  redis'[Lock].value = r
    <3>1. redis[Lock].left \in {Forever} \cup 1..LockTtl
      BY <1>0, <2>2, <2>3, SlotFacts, NoSlotFacts
    <3>2. CASE redis[Lock].left >= 2
      BY <2>1, <2>2, <2>3, <3>2, OlderFacts
    <3>3. CASE redis[Lock].left = Forever
      BY <2>1, <2>2, <2>3, <3>3, OlderFacts DEF Forever
    <3>4. QED  BY <2>2, <2>3, <3>1, <3>2, <3>3
  <2>4. LeaseIsExclusive'
    BY <1>3, <2>1, <2>3 DEF LeaseIsExclusive, Tick, Evicted, Get, Ttl
  <2>5. ReleaseIsOwn'
    BY <1>3, <2>1, <2>3 DEF ReleaseIsOwn, Tick, Evicted, Get, Ttl, At
  <2>6. QED  BY <2>4, <2>5
<1>4. ASSUME NEW p \in Requests, Acquire(p)
      PROVE  LeaseIsExclusive' /\ ReleaseIsOwn'
  <2>1. UNCHANGED <<expired, late>> /\ pc[p] = "acquire"
    BY <1>4 DEF Acquire, At, history
  <2>2. CASE Exists(redis, Lock)
    <3>1. redis' = redis
      BY <1>0, <1>4, <2>2, AcquireFacts DEF Acquire
    <3>2. QED
      BY <1>1, <1>2, <1>4, <2>1, <2>2, <3>1
         DEF LeaseIsExclusive, ReleaseIsOwn, Acquire, Goto, StorageTypeOK, Holding,
             Compare, At
  <2>3. CASE ~Exists(redis, Lock)
    <3>1. redis[Lock].value = Gone
      BY <2>3 DEF Exists, GoneSlot
    <3>2. late = {} => \A r \in Requests : pc[r] # "release"
      BY <1>0, <3>1 DEF ReleaseIsOwn, Get
    <3>3. late = {} => \A r \in Requests : pc[r] \in Holding => r \in expired
      BY <1>0, <3>1 DEF LeaseIsExclusive, Get
    <3>4. redis'[Lock].value = p
      <4>1. redis'[Lock] = [value |-> p, left |-> LockTtl]
        BY <1>0, <1>4, <2>3, AcquireFacts DEF Acquire
      <4>2. QED  BY <4>1
    <3>5. \A r \in Requests \ {p} : pc'[r] = pc[r]
      BY <1>4 DEF Acquire, Goto, StorageTypeOK
    <3>6. pc'[p] = "inside"
      BY <1>4, <2>3 DEF Acquire, Goto, StorageTypeOK
    <3>7. QED
      BY <2>1, <3>2, <3>3, <3>4, <3>5, <3>6 DEF LeaseIsExclusive, ReleaseIsOwn, Get
  <2>4. QED  BY <2>2, <2>3
<1>5. ASSUME NEW p \in Requests, Release(p)
      PROVE  LeaseIsExclusive' /\ ReleaseIsOwn'
  <2>1. UNCHANGED <<expired, late>> /\ pc[p] = "release"
    BY <1>5 DEF Release, At, history
  <2>2. late = {} => redis[Lock].value = p
    BY <2>1 DEF ReleaseIsOwn, Get
  <2>3. pc' = [pc EXCEPT ![p] = "done"]
    BY <1>5 DEF Release, Goto
  <2>4. ASSUME late = {}, NEW r \in Requests \ {p}
        PROVE  pc[r] # "release" /\ (pc[r] \in Holding => r \in expired)
    BY <2>2, <2>4 DEF ReleaseIsOwn, LeaseIsExclusive, Get
  <2>5. QED
    BY <2>1, <2>3, <2>4 DEF LeaseIsExclusive, ReleaseIsOwn, Holding, StorageTypeOK
<1>6. CASE redis'[Lock] = redis[Lock] /\ UNCHANGED <<expired, late>>
  <2>1. \A r \in Requests : ~(Acquire(r) /\ ~Exists(redis, Lock))
    <3>1. ASSUME NEW r \in Requests, Acquire(r), ~Exists(redis, Lock) PROVE FALSE
      <4>1. redis'[Lock] = [value |-> r, left |-> LockTtl]
        BY <1>0, <3>1, AcquireFacts DEF Acquire
      <4>2. redis[Lock] = [value |-> Gone, left |-> -2]
        BY <3>1 DEF Exists, GoneSlot
      <4>3. redis'[Lock].value = r /\ redis[Lock].value = Gone
        BY <4>1, <4>2
      <4>4. QED  BY <1>0, <1>6, <4>3
    <3>2. QED  BY <3>1
  <2>2. QED
    BY <1>1, <1>2, <1>6, <2>1 DEF LeaseIsExclusive, ReleaseIsOwn, Get
<1>7. QED  BY <1>3, <1>4, <1>5, <1>6, LockFacts

-----------------------------------------------------------------------------
(* The limiter.                                                            *)
LEMMA PassedFacts ==
  ASSUME StorageTypeOK, NEW w
  PROVE  IsFiniteSet(Passed(w)) /\ Cardinality(Passed(w)) \in Nat
<1>1. Passed(w) \subseteq Requests
  BY DEF Passed
<1>2. QED  BY <1>1, Constants, FS_Subset, FS_CardinalityType

(* The part of the invariant about single calls; only the limiter's first  *)
(* command changes what a call of the limiter was answered.                *)
CallsInv ==
  \A p \in Requests :
    /\ window[p] <= windows
    /\ pc[p] \in {"idle", "incr"} => count[p] = 0
    /\ pc[p] \in {"expire", "ttl", "allowed"} => count[p] >= 1
    /\ pc[p] = "allowed" => count[p] <= Limit

LEMMA CountFacts ==
  ASSUME StorageTypeOK, NEW p \in Requests, Increment(p)
  PROVE  /\ count'[p] = Counted + 1
         /\ Counted \in Nat
         /\ Counted' = Counted + 1
         /\ redis'[Counter].left = Forever => count'[p] = 1 \/ redis[Counter].left = Forever
         /\ Exists(redis, Counter) => redis'[Counter].left = redis[Counter].left
<1>1. IsDb(redis) /\ redis' = Incrby(redis, Counter, 1)
  BY DEF StorageTypeOK, Increment, Incr
<1>2. count'[p] = redis'[Counter].value
  BY DEF Increment, StorageTypeOK, Get
<1>3. CASE Exists(redis, Counter)
  <2>1. redis'[Counter] = [value |-> redis[Counter].value + 1, left |-> redis[Counter].left]
    BY <1>1, <1>3, IncrbyFacts
  <2>2. Exists(redis', Counter) /\ redis[Counter].value \in Nat \ {0}
    BY <1>1, <1>3, IncrbyFacts
  <2>3. redis'[Counter].value = redis[Counter].value + 1
    BY <2>1
  <2>4. redis'[Counter].left = redis[Counter].left
    BY <2>1
  <2>5. Counted = redis[Counter].value /\ Counted' = redis'[Counter].value
    BY <1>3, <2>2 DEF Counted, Get
  <2>6. QED  BY <1>2, <2>2, <2>3, <2>4, <2>5
<1>4. CASE ~Exists(redis, Counter)
  <2>1. redis'[Counter] = [value |-> 1, left |-> Forever] /\ Exists(redis', Counter)
    BY <1>1, <1>4, IncrbyFacts
  <2>2. redis'[Counter].value = 1
    BY <2>1
  <2>3. Counted = 0 /\ Counted' = redis'[Counter].value
    BY <1>4, <2>1 DEF Counted, Get
  <2>4. QED  BY <1>2, <1>4, <2>2, <2>3
<1>5. QED  BY <1>3, <1>4

LEMMA CallsStep ==
  ASSUME StorageTypeOK, PlaceInv, CallsInv, Next
  PROVE  CallsInv'
<1>. USE DEF StorageTypeOK, CallsInv, At, Goto
<1>1. CASE Tick
  <2>1. windows' >= windows
    BY <1>1, TickFacts
  <2>2. QED  BY <1>1, <2>1, TickFacts
<1>2. CASE Crash
  BY <1>2 DEF Crash, local, history
<1>3. ASSUME NEW p \in Requests, Calls(p) PROVE CallsInv'
  BY <1>3, CallFacts DEF Begins
<1>4. ASSUME NEW p \in Requests, Looks(p) PROVE CallsInv'
  BY <1>4, Constants
     DEF Looks, Leave, Compare, AnswerLimit, WithinLimit, LookUp, ReadTag, ReadKeys,
         local, history
<1>5. ASSUME NEW p \in Requests, Locks(p) \/ StartWindow(p) \/ Renew(p) PROVE CallsInv'
  BY <1>5 DEF Locks, Acquire, Release, StartWindow, Renew, local, history
<1>6. ASSUME NEW p \in Requests, Add(p) PROVE CallsInv'
  BY <1>6 DEF Add, history
<1>7. ASSUME NEW p \in Requests, Increment(p) PROVE CallsInv'
  <2>1. count'[p] \in Nat /\ count'[p] >= 1
    BY <1>7, CountFacts
  <2>2. /\ pc'[p] \in {"expire", "ttl"} /\ window'[p] = windows /\ windows' = windows
        /\ \A q \in Requests \ {p} :
             pc'[q] = pc[q] /\ window'[q] = window[q] /\ count'[q] = count[q]
    BY <1>7 DEF Increment
  <2>3. QED  BY <2>1, <2>2
<1>8. ASSUME NEW p \in Requests, Fills(p) \/ DeleteMembers(p) \/ Tags(p) PROVE CallsInv'
  BY <1>8
     DEF Fills, Fill, Try, TryFails, DeleteMembers, Tags, AddToTag, DeleteTag, local,
         history
<1>9. QED
  BY <1>1, <1>2, <1>3, <1>4, <1>5, <1>6, <1>7, <1>8, NextCases DEF Counts, Tallies

(* Besides the limiter's first command, nothing adds to the calls passed.  *)
LEMMA NoMorePassed ==
  ASSUME StorageTypeOK, PlaceInv, CallsInv, Next, \A p \in Requests : ~Increment(p), NEW w
  PROVE  Passed(w)' \subseteq Passed(w)
<1>1. SUFFICES ASSUME NEW r \in Requests, helper'[r] = "checkRateLimit",
                      count'[r] \in 1..Limit, window'[r] = w
               PROVE  helper[r] = "checkRateLimit" /\ count[r] \in 1..Limit /\ window[r] = w
  BY DEF Passed
<1>2. window'[r] = window[r]
  BY TickFacts, QuietFacts, NextCases
     DEF Locks, Acquire, Release, Counts, StartWindow, Tallies, Add, Renew, Fills, Fill,
         Try, TryFails, DeleteMembers, Tags, AddToTag, DeleteTag, history
<1>3. pc[r] # "idle" => helper[r] = "checkRateLimit"
  BY <1>1, FrameFacts DEF Frame
<1>4. count'[r] = count[r] \/ Add(r) \/ TryFails(r)
  <2>1. ASSUME NEW p \in Requests, Calls(p) PROVE count' = count
    BY <2>1, CallFacts DEF Begins
  <2>2. ASSUME NEW p \in Requests, Add(p) \/ TryFails(p), r # p PROVE count'[r] = count[r]
    BY <2>2 DEF Add, TryFails, StorageTypeOK
  <2>3. QED
    BY <2>1, <2>2, TickFacts, NextCases
       DEF Crash, Looks, Leave, Compare, AnswerLimit, LookUp, ReadTag, ReadKeys, Locks,
           Acquire, Release, Counts, StartWindow, Tallies, Renew, Fills, Fill, Try,
           DeleteMembers, Tags, AddToTag, DeleteTag, local
<1>5. count'[r] = count[r]
  BY <1>3, <1>4 DEF Add, TryFails, At, PlaceInv, Counting
<1>6. pc[r] # "idle"
  BY <1>1, <1>5 DEF CallsInv
<1>7. QED  BY <1>1, <1>2, <1>3, <1>5, <1>6

LEMMA FewerPassed ==
  ASSUME StorageTypeOK, PlaceInv, CallsInv, Next, \A p \in Requests : ~Increment(p), NEW w
  PROVE  /\ Cardinality(Passed(w)') \in Nat
         /\ Cardinality(Passed(w)') <= Cardinality(Passed(w))
<1>1. Passed(w)' \subseteq Passed(w)
  BY NoMorePassed
<1>2. QED  BY <1>1, PassedFacts, FS_Subset, FS_CardinalityType

(* The counter is the limiter's own: it counts up, or it expires and a new *)
(* window begins.                                                          *)
LEMMA CounterFacts ==
  ASSUME StorageTypeOK, PlaceInv, Next, \A p \in Requests : ~Increment(p)
  PROVE  \/ windows' = windows /\ Counted' = Counted
         \/ /\ windows' = windows + 1 /\ Counted' = 0
            /\ window' = window /\ pc' = pc
<1>0. IsDb(redis) /\ Counter \in AllKeys
  BY KeyFacts DEF StorageTypeOK
<1>1. redis'[Counter] = redis[Counter] => Counted' = Counted
  BY DEF Counted, Exists, Get
<1>2. CASE Tick
  <2>1. redis'[Counter] = Older(redis[Counter]) /\ pc' = pc /\ window' = window
    BY <1>0, <1>2, TickFacts
  <2>2. redis[Counter] \in Slots(Nat \ {0}, Window) /\ Window \in Nat
    BY <1>0, Constants DEF IsDb
  <2>3. CASE redis[Counter].left = 1
    <3>1. redis'[Counter] = GoneSlot
      BY <2>1, <2>2, <2>3, OlderFacts
    <3>2. windows' = windows + 1
      BY <1>2, <2>3, TickFacts
    <3>3. QED  BY <2>1, <3>1, <3>2 DEF Counted, Exists
  <2>4. CASE redis[Counter].left # 1
    <3>1. windows' = windows
      BY <1>2, <2>4, TickFacts DEF StorageTypeOK
    <3>4. redis[Counter].left \in Int
      BY <2>2, SlotFacts, NoSlotFacts DEF Forever
    <3>2. CASE redis[Counter].left >= 2
      <4>1. redis'[Counter] = [value |-> redis[Counter].value, left |-> redis[Counter].left - 1]
        BY <2>1, <2>2, <3>2, OlderFacts
      <4>2. redis'[Counter].value = redis[Counter].value
        BY <4>1
      <4>3. redis'[Counter].left # -2 /\ redis[Counter].left # -2
        BY <3>2, <3>4, <4>1
      <4>4. Exists(redis', Counter) /\ Exists(redis, Counter)
        BY <4>3 DEF Exists, GoneSlot
      <4>5. QED  BY <3>1, <4>2, <4>4 DEF Counted, Get
    <3>3. CASE redis[Counter].left < 1
      <4>1. redis'[Counter] = redis[Counter]
        BY <2>1, <2>2, <3>3, OlderFacts
      <4>2. QED  BY <1>1, <3>1, <4>1
    <3>5. QED  BY <2>4, <3>2, <3>3, <3>4
  <2>5. QED  BY <2>3, <2>4
<1>3. ASSUME NEW p \in Requests, StartWindow(p)
      PROVE  windows' = windows /\ Counted' = Counted
  <2>1. windows' = windows
    BY <1>3 DEF StartWindow, history
  <2>2. CASE Exists(redis, Counter)
    <3>1. redis'[Counter] = [value |-> redis[Counter].value, left |-> Window]
      BY <1>0, <1>3, <2>2, ExpireFacts DEF StartWindow
    <3>2. redis'[Counter].value = redis[Counter].value /\ Exists(redis', Counter)
      <4>1. Exists(redis', Counter)
        BY <1>0, <1>3, <2>2, ExpireFacts DEF StartWindow
      <4>2. QED  BY <3>1, <4>1
    <3>3. QED  BY <2>1, <2>2, <3>2 DEF Counted, Get
  <2>3. CASE ~Exists(redis, Counter)
    <3>1. redis' = redis
      BY <1>0, <1>3, <2>3, ExpireFacts DEF StartWindow
    <3>2. QED  BY <1>1, <2>1, <3>1
  <2>4. QED  BY <2>2, <2>3
<1>4. ASSUME NEW p \in Requests,
             Locks(p) \/ Tallies(p) \/ Fills(p) \/ DeleteMembers(p) \/ Tags(p)
      PROVE  windows' = windows /\ Counted' = Counted
  <2>1. windows' = windows
    BY <1>4
       DEF Locks, Acquire, Release, Tallies, Add, Renew, Fills, Fill, Try, TryFails,
           DeleteMembers, Tags, AddToTag, DeleteTag, history
  <2>2. redis'[Counter] = redis[Counter]
    BY <1>4, LocksFacts, TalliesFacts, FillsFacts, DeleteMembersFacts, TagsFacts, KeyFacts
  <2>3. QED  BY <1>1, <2>1, <2>2
<1>5. CASE Crash \/ \E p \in Requests : Calls(p) \/ Looks(p)
  BY <1>1, <1>5, QuietFacts
<1>6. QED  BY <1>2, <1>3, <1>4, <1>5, NextCases DEF Counts

LEMMA LimiterStep ==
  ASSUME StorageTypeOK, PlaceInv, LimiterInv, Next
  PROVE  LimiterInv'
<1>0. Limit \in Nat /\ windows \in Nat /\ window \in [Requests -> Nat]
  BY Constants DEF StorageTypeOK
<1>1. CallsInv
  BY DEF LimiterInv, CallsInv
<1>2. CallsInv'
  BY <1>1, CallsStep
<1>3. SUFFICES /\ \A w \in 0..windows' : Cardinality(Passed(w)') <= Limit
               /\ Cardinality(Passed(windows)') <= Counted'
  BY <1>2 DEF LimiterInv, CallsInv
<1>4. \A w \in 0..windows : Cardinality(Passed(w)) <= Limit
  BY DEF LimiterInv
<1>5. CASE \A p \in Requests : ~Increment(p)
  <2>1. \A w : /\ Cardinality(Passed(w)') \in Nat /\ Cardinality(Passed(w)) \in Nat
               /\ Cardinality(Passed(w)') <= Cardinality(Passed(w))
    BY <1>1, <1>5, FewerPassed, PassedFacts
  <2>2. CASE windows' = windows /\ Counted' = Counted
    <3>1. Cardinality(Passed(windows)') <= Cardinality(Passed(windows))
      <4>1. PICK w : w = windows
        OBVIOUS
      <4>2. Passed(windows)' = Passed(w)' /\ Passed(windows) = Passed(w)
        BY <2>2, <4>1 DEF Passed
      <4>3. QED  BY <2>1, <4>2
    <3>2. Cardinality(Passed(windows)) <= Counted
      BY DEF LimiterInv
    <3>3. Counted \in Nat
      <4>1. redis[Counter] \in Slots(Nat \ {0}, Window) /\ Window \in Nat
        BY Constants DEF StorageTypeOK, IsDb
      <4>2. Exists(redis, Counter) => redis[Counter].value \in Nat
        BY <4>1, SlotFacts DEF Exists
      <4>3. QED  BY <4>2 DEF Counted, Get
    <3>4. Cardinality(Passed(windows)') <= Counted'
      BY <2>1, <2>2, <3>1, <3>2, <3>3
    <3>5. \A w \in 0..windows' : Cardinality(Passed(w)') <= Limit
      <4>1. SUFFICES ASSUME NEW w \in 0..windows' PROVE Cardinality(Passed(w)') <= Limit
        OBVIOUS
      <4>2. Cardinality(Passed(w)) <= Limit
        BY <1>4, <2>2
      <4>3. QED  BY <1>0, <2>1, <4>2
    <3>6. QED  BY <3>4, <3>5
  <2>3. CASE windows' = windows + 1 /\ Counted' = 0 /\ window' = window
    <3>1. Passed(windows)' = {}
      BY <1>0, <1>1, <2>3 DEF Passed, CallsInv
    <3>2. Cardinality(Passed(windows)') = 0
      BY <3>1, FS_EmptySet
    <3>3. ASSUME NEW w \in 0..windows' PROVE Cardinality(Passed(w)') <= Limit
      <4>1. CASE w \in 0..windows
        <5>1. Cardinality(Passed(w)) <= Limit
          BY <1>4, <4>1
        <5>2. QED  BY <1>0, <2>1, <5>1
      <4>2. CASE w = windows'
        <5>1. Passed(w)' = {}
          BY <1>0, <1>1, <2>3, <4>2 DEF Passed, CallsInv
        <5>2. QED  BY <1>0, <5>1, FS_EmptySet
      <4>3. QED  BY <1>0, <2>3, <4>1, <4>2
    <3>4. QED  BY <2>3, <3>2, <3>3
  <2>4. QED  BY <1>5, <2>2, <2>3, CounterFacts
<1>6. ASSUME NEW p \in Requests, Increment(p)
      PROVE  /\ \A w \in 0..windows' : Cardinality(Passed(w)') <= Limit
             /\ Cardinality(Passed(windows)') <= Counted'
  <2>0. /\ count'[p] = Counted + 1 /\ Counted \in Nat /\ Counted' = Counted + 1
    BY <1>6, CountFacts
  <2>1. /\ windows' = windows /\ window'[p] = windows /\ helper' = helper
        /\ \A q \in Requests \ {p} : window'[q] = window[q] /\ count'[q] = count[q]
    BY <1>6 DEF Increment, StorageTypeOK
  <2>2. count[p] = 0
    BY <1>1, <1>6 DEF CallsInv, Increment, At
  <2>3. ASSUME NEW w, Passed(w)' \subseteq Passed(w)
        PROVE  /\ Cardinality(Passed(w)') \in Nat /\ Cardinality(Passed(w)) \in Nat
               /\ Cardinality(Passed(w)') <= Cardinality(Passed(w))
    BY <2>3, PassedFacts, FS_Subset, FS_CardinalityType
  <2>4. ASSUME NEW w, w # windows PROVE Passed(w)' \subseteq Passed(w)
    BY <2>1, <2>4 DEF Passed
  <2>5. Cardinality(Passed(windows)) <= Counted
    BY DEF LimiterInv
  <2>6. CASE count'[p] <= Limit
    <3>1. Passed(windows)' = Passed(windows) \cup {p}
      <4>1. helper[p] = "checkRateLimit"
        BY <1>6 DEF Increment, At, PlaceInv, Limiting
      <4>2. count'[p] \in 1..Limit
        BY <1>0, <2>0, <2>6
      <4>3. QED  BY <2>1, <4>1, <4>2 DEF Passed
    <3>2. p \notin Passed(windows)
      BY <1>0, <2>2 DEF Passed
    <3>3. /\ IsFiniteSet(Passed(windows)) /\ Cardinality(Passed(windows)) \in Nat
      BY PassedFacts
    <3>4. Cardinality(Passed(windows)') = Cardinality(Passed(windows)) + 1
      BY <3>1, <3>2, <3>3, FS_AddElement
    <3>5. Cardinality(Passed(windows)') <= Counted'
      BY <2>0, <2>5, <3>3, <3>4
    <3>6. Cardinality(Passed(windows)') <= Limit
      BY <1>0, <2>0, <2>5, <2>6, <3>3, <3>4
    <3>7. ASSUME NEW w \in 0..windows', w # windows PROVE Cardinality(Passed(w)') <= Limit
      <4>1. Cardinality(Passed(w)) <= Limit
        BY <1>4, <2>1
      <4>2. QED  BY <1>0, <2>3, <2>4, <3>7, <4>1
    <3>8. ASSUME NEW w \in 0..windows', w = windows PROVE Cardinality(Passed(w)') <= Limit
      <4>1. Passed(w)' = Passed(windows)'
        BY <2>1, <3>8 DEF Passed
      <4>2. QED  BY <3>6, <4>1
    <3>9. QED  BY <3>5, <3>7, <3>8
  <2>7. CASE ~(count'[p] <= Limit)
    <3>1. ASSUME NEW w PROVE Passed(w)' \subseteq Passed(w)
      <4>1. count'[p] \notin 1..Limit
        BY <1>0, <2>0, <2>7
      <4>2. QED  BY <2>1, <4>1 DEF Passed
    <3>2. \A w \in 0..windows' : Cardinality(Passed(w)') <= Limit
      <4>1. SUFFICES ASSUME NEW w \in 0..windows' PROVE Cardinality(Passed(w)') <= Limit
        OBVIOUS
      <4>2. Cardinality(Passed(w)) <= Limit
        BY <1>4, <2>1
      <4>3. QED  BY <1>0, <2>3, <3>1, <4>2
    <3>3. PICK w : w = windows
      OBVIOUS
    <3>4. Passed(windows)' = Passed(w)' /\ Passed(windows) = Passed(w)
      BY <2>1, <3>3 DEF Passed
    <3>5. QED  BY <2>0, <2>3, <2>5, <3>1, <3>2, <3>4
  <2>8. QED  BY <2>6, <2>7
<1>7. QED  BY <1>5, <1>6

-----------------------------------------------------------------------------
(* The expiry of the counters.                                             *)
LEMMA AddFacts ==
  ASSUME StorageTypeOK, NEW p \in Requests, Add(p)
  PROVE  redis'[Tally].left = Forever => count'[p] = 1 \/ redis[Tally].left = Forever
<1>1. IsDb(redis) /\ redis' = Incrby(redis, Tally, 1)
  BY DEF StorageTypeOK, Add
<1>2. count'[p] = redis'[Tally].value
  BY DEF Add, StorageTypeOK, Get
<1>3. CASE Exists(redis, Tally)
  <2>1. redis'[Tally] = [value |-> redis[Tally].value + 1, left |-> redis[Tally].left]
    BY <1>1, <1>3, IncrbyFacts
  <2>2. redis'[Tally].left = redis[Tally].left
    BY <2>1
  <2>3. QED  BY <2>2
<1>4. CASE ~Exists(redis, Tally)
  <2>1. redis'[Tally] = [value |-> 1, left |-> Forever]
    BY <1>1, <1>4, IncrbyFacts
  <2>2. redis'[Tally].value = 1
    BY <2>1
  <2>3. QED  BY <1>2, <2>2
<1>5. QED  BY <1>3, <1>4

(* A counter that does not expire did not before, or is the first count.   *)
LEMMA ForeverFacts ==
  ASSUME StorageTypeOK, PlaceInv, Next
  PROVE  /\ redis'[Counter].left = Forever =>
              /\ \A p \in Requests : ~StartWindow(p)
              /\ \/ redis[Counter].left = Forever
                 \/ \E p \in Requests : Increment(p) /\ count'[p] = 1
         /\ redis'[Tally].left = Forever =>
              /\ \A p \in Requests : ~Renew(p)
              /\ \/ redis[Tally].left = Forever
                 \/ \E p \in Requests : Add(p) /\ count'[p] = 1
<1>0. IsDb(redis) /\ Counter \in AllKeys /\ Tally \in AllKeys
  BY KeyFacts DEF StorageTypeOK
<1>1. ASSUME NEW p \in Requests, StartWindow(p) PROVE redis'[Counter].left # Forever
  BY <1>0, <1>1, ExpireFacts DEF StartWindow
<1>2. ASSUME NEW p \in Requests, Renew(p) PROVE redis'[Tally].left # Forever
  BY <1>0, <1>2, ExpireFacts DEF Renew
<1>3. CASE Tick
  <2>1. ASSUME NEW k \in {Counter, Tally}, redis'[k].left = Forever
        PROVE  redis[k].left = Forever
    <3>1. redis'[k] = Older(redis[k])
      BY <1>0, <1>3, TickFacts
    <3>2. redis[k] \in Slots(Nat \ {0}, Window) /\ Window \in Nat
      BY <1>0, Constants DEF IsDb
    <3>3. redis[k].left \in Int
      BY <3>2, SlotFacts, NoSlotFacts DEF Forever
    <3>4. CASE redis[k].left = 1
      BY <2>1, <3>1, <3>2, <3>4, OlderFacts DEF GoneSlot, Forever
    <3>5. CASE redis[k].left >= 2
      <4>1. redis'[k].left = redis[k].left - 1
        BY <3>1, <3>2, <3>5, OlderFacts
      <4>2. QED  BY <2>1, <3>3, <3>5, <4>1 DEF Forever
    <3>6. CASE redis[k].left < 1
      BY <2>1, <3>1, <3>2, <3>6, OlderFacts
    <3>7. QED  BY <3>3, <3>4, <3>5, <3>6
  <2>2. QED  BY <1>1, <1>2, <2>1
<1>4. ASSUME NEW p \in Requests, Counts(p) \/ Tallies(p)
      PROVE  /\ redis'[Counter].left = Forever =>
                  \/ redis[Counter].left = Forever
                  \/ \E q \in Requests : Increment(q) /\ count'[q] = 1
             /\ redis'[Tally].left = Forever =>
                  \/ redis[Tally].left = Forever
                  \/ \E q \in Requests : Add(q) /\ count'[q] = 1
  <2>1. CASE Counts(p)
    <3>1. redis'[Tally] = redis[Tally]
      BY <2>1, CountsFacts, KeyFacts
    <3>2. QED  BY <1>1, <2>1, <3>1, CountFacts DEF Counts
  <2>2. CASE Tallies(p)
    <3>1. redis'[Counter] = redis[Counter]
      BY <2>2, TalliesFacts, KeyFacts
    <3>2. QED  BY <1>2, <2>2, <3>1, AddFacts DEF Tallies
  <2>3. QED  BY <1>4, <2>1, <2>2
<1>5. ASSUME NEW p \in Requests, Locks(p) \/ Fills(p) \/ DeleteMembers(p) \/ Tags(p)
      PROVE  redis'[Counter] = redis[Counter] /\ redis'[Tally] = redis[Tally]
  BY <1>5, LocksFacts, FillsFacts, DeleteMembersFacts, TagsFacts, KeyFacts
<1>6. QED
  BY <1>1, <1>2, <1>3, <1>4, <1>5, QuietFacts, NextCases

(* Who has counted stays until it sets the expiry, or is lost for good.    *)
LEMMA CounterStays ==
  ASSUME StorageTypeOK, PlaceInv, Next, NEW p \in Requests,
         pc[p] \in {"expire", "renew", "lost"}
  PROVE  /\ count'[p] = count[p]
         /\ pc'[p] = pc[p] \/ pc'[p] = "lost" \/ StartWindow(p) \/ Renew(p)
<1>. USE DEF StorageTypeOK, At, Goto
<1>1. CASE Tick \/ Crash
  BY <1>1, TickFacts DEF Crash, local
<1>2. ASSUME NEW q \in Requests, Calls(q) PROVE count'[p] = count[p] /\ pc'[p] = pc[p]
  BY <1>2, CallFacts DEF Begins
<1>3. ASSUME NEW q \in Requests, Looks(q) PROVE count'[p] = count[p] /\ pc'[p] = pc[p]
  BY <1>3 DEF Looks, Leave, Compare, AnswerLimit, LookUp, ReadTag, ReadKeys, local
<1>4. ASSUME NEW q \in Requests, Locks(q) \/ Counts(q) \/ Tallies(q)
      PROVE  /\ count'[p] = count[p]
             /\ pc'[p] = pc[p] \/ StartWindow(p) \/ Renew(p)
  BY <1>4
     DEF Locks, Acquire, Release, Counts, Increment, StartWindow, Tallies, Add, Renew, local
<1>5. ASSUME NEW q \in Requests, Fills(q) \/ DeleteMembers(q) \/ Tags(q)
      PROVE  count'[p] = count[p] /\ pc'[p] = pc[p]
  BY <1>5 DEF Fills, Fill, Try, TryFails, DeleteMembers, Tags, AddToTag, DeleteTag, local
<1>. HIDE DEF StorageTypeOK, At, Goto
<1>6. QED  BY <1>1, <1>2, <1>3, <1>4, <1>5, NextCases

(* incrWithExpiry ends with its expire.                                    *)
LEMMA TallyDone ==
  ASSUME StorageTypeOK, PlaceInv, Next, NEW q \in Requests,
         helper'[q] = "incrWithExpiry", pc'[q] = "done"
  PROVE  Renew(q) \/ (helper[q] = "incrWithExpiry" /\ pc[q] = "done" /\ before'[q] = before[q])
<1>1. pc[q] # "idle" /\ helper[q] = "incrWithExpiry" /\ before'[q] = before[q]
  BY FrameFacts DEF Frame, Entry
<1>. USE DEF StorageTypeOK, PlaceInv, At, Goto, Locking, Holding, Limiting, Filling
<1>2. CASE Tick \/ Crash
  BY <1>1, <1>2, TickFacts DEF Crash
<1>3. ASSUME NEW p \in Requests, Calls(p) PROVE pc[q] = "done"
  BY <1>1, <1>3, CallFacts DEF Begins
<1>4. ASSUME NEW p \in Requests, Looks(p) PROVE pc[q] = "done"
  <2>1. pc'[q] = pc[q] \/ q = p
    BY <1>4 DEF Looks, Leave, Compare, AnswerLimit, LookUp, ReadTag, ReadKeys
  <2>2. pc[p] \in {"inside", "compare", "ttl", "get", "smembers", "keys"}
    BY <1>4 DEF Looks, Leave, Compare, AnswerLimit, LookUp, ReadTag, ReadKeys
  <2>3. helper[p] # "incrWithExpiry"
    BY <2>2
  <2>4. QED  BY <1>1, <2>1, <2>3
<1>5. ASSUME NEW p \in Requests, Locks(p) \/ Counts(p) \/ Add(p) PROVE pc[q] = "done"
  BY <1>1, <1>5 DEF Locks, Acquire, Release, Counts, Increment, StartWindow, Add
<1>6. ASSUME NEW p \in Requests, Renew(p) PROVE pc[q] = "done" \/ Renew(q)
  BY <1>6 DEF Renew
<1>7. ASSUME NEW p \in Requests, Fills(p) \/ DeleteMembers(p) \/ Tags(p)
      PROVE  pc[q] = "done"
  BY <1>1, <1>7 DEF Fills, Fill, Try, TryFails, DeleteMembers, Tags, AddToTag, DeleteTag
<1>. HIDE DEF StorageTypeOK, PlaceInv, At, Goto, Locking, Holding, Limiting, Filling
<1>8. QED  BY <1>1, <1>2, <1>3, <1>4, <1>5, <1>6, <1>7, NextCases DEF Tallies

LEMMA ExpiryStep ==
  ASSUME StorageTypeOK, PlaceInv, OverStaysOver, CounterExpires, Next
  PROVE  CounterExpires'
<1>1. ASSUME redis'[Counter].left = Forever
      PROVE  \E p \in Requests : count'[p] = 1 /\ pc'[p] \in {"expire", "lost"}
  <2>1. CASE redis[Counter].left = Forever
    <3>1. PICK p \in Requests : count[p] = 1 /\ pc[p] \in {"expire", "lost"}
      BY <2>1 DEF CounterExpires, Ttl
    <3>2. ~StartWindow(p) /\ ~Renew(p)
      BY <1>1, <3>1, ForeverFacts DEF Renew, At
    <3>3. QED  BY <3>1, <3>2, CounterStays
  <2>2. ASSUME NEW p \in Requests, Increment(p), count'[p] = 1
        PROVE  pc'[p] = "expire"
    BY <2>2 DEF Increment, Goto, StorageTypeOK
  <2>3. QED  BY <1>1, <2>1, <2>2, ForeverFacts
<1>2. ASSUME redis'[Tally].left = Forever
      PROVE  \E p \in Requests :
               /\ count'[p] = 1 /\ pc'[p] \in {"renew", "lost"}
               /\ \A q \in Done("incrWithExpiry")' : p \notin before'[q]
  <2>1. \A q \in Done("incrWithExpiry")' :
          q \in Done("incrWithExpiry") /\ before'[q] = before[q]
    <3>1. \A q \in Requests : ~Renew(q)
      BY <1>2, ForeverFacts
    <3>2. QED  BY <3>1, TallyDone DEF Done, At
  <2>2. CASE redis[Tally].left = Forever
    <3>1. PICK p \in Requests :
            /\ count[p] = 1 /\ pc[p] \in {"renew", "lost"}
            /\ \A q \in Done("incrWithExpiry") : p \notin before[q]
      BY <2>2 DEF CounterExpires, Ttl
    <3>2. ~StartWindow(p) /\ ~Renew(p)
      BY <1>2, <3>1, ForeverFacts DEF StartWindow, At
    <3>3. count'[p] = 1 /\ pc'[p] \in {"renew", "lost"}
      BY <3>1, <3>2, CounterStays
    <3>4. QED  BY <2>1, <3>1, <3>3
  <2>3. ASSUME NEW p \in Requests, Add(p), count'[p] = 1
        PROVE  /\ pc'[p] = "renew"
               /\ \A q \in Done("incrWithExpiry")' : p \notin before'[q]
    <3>1. pc'[p] = "renew" /\ pc[p] = "incrby"
      BY <2>3 DEF Add, At, Goto, StorageTypeOK
    <3>2. \A q \in Requests : p \notin before[q]
      BY <3>1 DEF OverStaysOver, Ended
    <3>3. QED  BY <2>1, <3>1, <3>2 DEF Done
  <2>4. QED  BY <1>2, <2>2, <2>3, ForeverFacts
<1>3. QED  BY <1>1, <1>2 DEF CounterExpires, Ttl

-----------------------------------------------------------------------------
(* Groups of keys.                                                         *)

(* A value that is not older than the tagging of its key is never followed *)
(* by one that is: who writes is not over.                                 *)
LEMMA ClearedStays ==
  ASSUME StorageTypeOK, PlaceInv, OverStaysOver, Next, NEW t \in Requests,
         pc[t] \in Ended, item[t] \in Items, Cleared(t)
  PROVE  Cleared(t)'
<1>0. IsDb(redis) /\ item[t] \in AllKeys /\ Gone \notin Requests /\ before[t] \subseteq Requests
  BY KeyFacts, Constants DEF StorageTypeOK
<1>1. item'[t] = item[t] /\ before'[t] = before[t]
  BY FrameFacts DEF Frame, Ended
<1>2. SUFFICES redis'[item[t]].value = redis[item[t]].value \/ redis'[item[t]].value \notin before[t]
  BY <1>1 DEF Cleared, Get
<1>3. item[t] \notin {Lock, Counter, Tag, Tally}
  BY KeyFacts
<1>4. CASE Tick
  <2>1. redis'[item[t]] = Older(redis[item[t]])
    BY <1>0, <1>4, TickFacts
  <2>2. redis[item[t]] \in Slots(Requests, ItemTtl) /\ ItemTtl \in Nat
    BY <1>0, Constants DEF IsDb
  <2>3. QED  BY <1>0, <2>1, <2>2, OlderFacts
<1>5. ASSUME NEW p \in Requests, Locks(p) \/ Counts(p) \/ Tallies(p) \/ Tags(p)
      PROVE  redis'[item[t]] = redis[item[t]]
  BY <1>0, <1>3, <1>5, LocksFacts, CountsFacts, TalliesFacts, TagsFacts
<1>6. ASSUME NEW p \in Requests, Fills(p)
      PROVE  redis'[item[t]].value = redis[item[t]].value \/ redis'[item[t]].value \notin before[t]
  <2>1. p \notin before[t]
    BY <1>6, FillsFacts DEF OverStaysOver, Ended
  <2>2. redis'[item[t]] = redis[item[t]] \/ redis'[item[t]].value = p
    BY <1>0, <1>6, FillsFacts
  <2>3. QED  BY <2>1, <2>2
<1>7. ASSUME NEW p \in Requests, DeleteMembers(p)
      PROVE  redis'[item[t]].value = redis[item[t]].value \/ redis'[item[t]].value \notin before[t]
  <2>1. GoneSlot.value \notin before[t]
    BY <1>0 DEF GoneSlot
  <2>2. redis'[item[t]] = redis[item[t]] \/ redis'[item[t]] = GoneSlot
    BY <1>0, <1>7, DeleteMembersFacts
  <2>3. QED  BY <2>1, <2>2
<1>8. QED  BY <1>4, <1>5, <1>6, <1>7, QuietFacts, NextCases

(* Only invalidateTag takes a key out of the group.                        *)
LEMMA MembersStay ==
  ASSUME StorageTypeOK, PlaceInv, Next, NEW k \in Smembers(redis, Tag),
         \A i \in Requests : ~DeleteTag(i)
  PROVE  k \in Smembers(redis', Tag)
<1>0. IsDb(redis) /\ Tag \in AllKeys
  BY KeyFacts DEF StorageTypeOK
<1>1. redis'[Tag] = redis[Tag] => Smembers(redis', Tag) = Smembers(redis, Tag)
  BY DEF Smembers, Exists, Get
<1>2. CASE Tick
  <2>1. redis'[Tag] = Older(redis[Tag])
    BY <1>0, <1>2, TickFacts
  <2>2. redis[Tag] \in Slots(SUBSET Items, 0)
    BY <1>0 DEF IsDb
  <2>3. redis[Tag].left < 1
    BY <2>2, SlotFacts, NoSlotFacts DEF Forever
  <2>4. redis'[Tag] = redis[Tag]
    BY <2>1, <2>2, <2>3, OlderFacts
  <2>5. QED  BY <1>1, <2>4
<1>3. ASSUME NEW p \in Requests, Locks(p) \/ Counts(p) \/ Tallies(p) \/ Fills(p) \/ DeleteMembers(p)
      PROVE  redis'[Tag] = redis[Tag]
  BY <1>0, <1>3, LocksFacts, CountsFacts, TalliesFacts, FillsFacts, DeleteMembersFacts,
     KeyFacts
<1>4. ASSUME NEW p \in Requests, AddToTag(p) PROVE k \in Smembers(redis', Tag)
  <2>1. item[p] \in Items
    BY <1>4 DEF AddToTag, At, PlaceInv
  <2>2. QED  BY <1>0, <1>4, <2>1, SaddFacts DEF AddToTag
<1>5. QED  BY <1>1, <1>2, <1>3, <1>4, QuietFacts, NextCases DEF Tags

LEMMA TagDone ==
  ASSUME StorageTypeOK, PlaceInv, Next, NEW t \in Requests,
         helper'[t] = "tagKey", pc'[t] = "done"
  PROVE  /\ helper[t] = "tagKey" /\ item[t] \in Items
         /\ item'[t] = item[t] /\ before'[t] = before[t]
         /\ AddToTag(t) \/ pc[t] = "done"
<1>1. /\ pc[t] # "idle" /\ helper[t] = "tagKey"
      /\ item'[t] = item[t] /\ before'[t] = before[t]
  BY FrameFacts DEF Frame, Entry
<1>. USE DEF StorageTypeOK, PlaceInv, At, Goto, Locking, Holding, Limiting, Counting,
             Filling
<1>2. CASE Tick \/ Crash
  BY <1>1, <1>2, TickFacts DEF Crash
<1>3. ASSUME NEW p \in Requests, Calls(p) PROVE pc[t] = "done"
  BY <1>1, <1>3, CallFacts DEF Begins
<1>4. ASSUME NEW p \in Requests, Looks(p) PROVE pc[t] = "done"
  <2>1. pc'[t] = pc[t] \/ t = p
    BY <1>4 DEF Looks, Leave, Compare, AnswerLimit, LookUp, ReadTag, ReadKeys
  <2>2. pc[p] \in {"inside", "compare", "ttl", "get", "smembers", "keys"}
    BY <1>4 DEF Looks, Leave, Compare, AnswerLimit, LookUp, ReadTag, ReadKeys
  <2>3. QED  BY <1>1, <2>1, <2>2
<1>5. ASSUME NEW p \in Requests, Locks(p) \/ Counts(p) \/ Tallies(p) PROVE pc[t] = "done"
  BY <1>1, <1>5
     DEF Locks, Acquire, Release, Counts, Increment, StartWindow, Tallies, Add, Renew
<1>6. ASSUME NEW p \in Requests, Fills(p) \/ DeleteMembers(p) \/ DeleteTag(p)
      PROVE  pc[t] = "done"
  BY <1>1, <1>6 DEF Fills, Fill, Try, TryFails, DeleteMembers, DeleteTag
<1>7. ASSUME NEW p \in Requests, AddToTag(p) PROVE pc[t] = "done" \/ AddToTag(t)
  BY <1>7 DEF AddToTag
<1>8. item[t] \in Items
  BY <1>1
<1>. HIDE DEF StorageTypeOK, PlaceInv, At, Goto, Locking, Holding, Limiting, Counting,
              Filling
<1>9. QED  BY <1>1, <1>2, <1>3, <1>4, <1>5, <1>6, <1>7, <1>8, NextCases DEF Tags

LEMMA InvalidateSteps ==
  ASSUME StorageTypeOK, PlaceInv, Next, NEW i \in Requests,
         helper'[i] = "invalidateTag", pc'[i] \in {"mdel", "delTag", "done"}
  PROVE  /\ helper[i] = "invalidateTag" /\ before'[i] = before[i]
         /\ \/ pc'[i] = pc[i] /\ members'[i] = members[i]
            \/ ReadTag(i) \/ DeleteMembers(i) \/ DeleteTag(i)
<1>1. pc[i] # "idle" /\ helper[i] = "invalidateTag" /\ before'[i] = before[i]
  BY FrameFacts DEF Frame, Entry
<1>. DEFINE Same == pc'[i] = pc[i] /\ members'[i] = members[i]
<1>. USE DEF StorageTypeOK, PlaceInv, At, Goto, Locking, Holding, Limiting, Counting,
             Filling
<1>2. CASE Tick \/ Crash
  BY <1>2, TickFacts DEF Crash, local
<1>3. ASSUME NEW p \in Requests, Calls(p) PROVE Same
  BY <1>1, <1>3, CallFacts DEF Begins
<1>4. ASSUME NEW p \in Requests, Looks(p) PROVE Same \/ ReadTag(i)
  <2>1. Same \/ i = p
    BY <1>4 DEF Looks, Leave, Compare, AnswerLimit, LookUp, ReadTag, ReadKeys, local
  <2>2. ReadTag(p) \/ pc[p] \in {"inside", "compare", "ttl", "get", "keys"}
    BY <1>4 DEF Looks, Leave, Compare, AnswerLimit, LookUp, ReadKeys
  <2>3. QED  BY <1>1, <2>1, <2>2
<1>5. ASSUME NEW p \in Requests, Locks(p) \/ Counts(p) \/ Tallies(p) PROVE Same
  BY <1>1, <1>5
     DEF Locks, Acquire, Release, Counts, Increment, StartWindow, Tallies, Add, Renew, local
<1>6. ASSUME NEW p \in Requests, Fills(p) \/ AddToTag(p) PROVE Same
  BY <1>1, <1>6 DEF Fills, Fill, Try, TryFails, AddToTag, local
<1>7. ASSUME NEW p \in Requests, DeleteMembers(p) PROVE Same \/ DeleteMembers(i)
  BY <1>7 DEF DeleteMembers, local
<1>8. ASSUME NEW p \in Requests, DeleteTag(p) PROVE Same \/ DeleteTag(i)
  BY <1>8 DEF DeleteTag, local
<1>. HIDE DEF StorageTypeOK, PlaceInv, At, Goto, Locking, Holding, Limiting, Counting,
              Filling
<1>9. QED  BY <1>1, <1>2, <1>3, <1>4, <1>5, <1>6, <1>7, <1>8, NextCases DEF Tags

LEMMA TagStep ==
  ASSUME StorageTypeOK, PlaceInv, OverStaysOver, TagInv, Next
  PROVE  TagInv'
<1>0. IsDb(redis) /\ Gone \notin Requests
  BY Constants DEF StorageTypeOK
<1>1. SUFFICES ASSUME NEW t \in Requests, helper'[t] = "tagKey", pc'[t] = "done",
                      Undisturbed(t)'
               PROVE  /\ item'[t] \in Smembers(redis', Tag) \/ Cleared(t)'
                      /\ \A i \in Requests :
                           helper'[i] = "invalidateTag" /\ t \in before'[i] =>
                             /\ pc'[i] = "mdel" => item'[t] \in members'[i] \/ Cleared(t)'
                             /\ pc'[i] \in {"delTag", "done"} => Cleared(t)'
  BY DEF TagInv, Done, At
<1>2. /\ helper[t] = "tagKey" /\ item[t] \in Items
      /\ item'[t] = item[t] /\ before'[t] = before[t]
  BY <1>1, TagDone
<1>3. CASE AddToTag(t)
  <2>1. item[t] \in Smembers(redis', Tag)
    BY <1>0, <1>2, <1>3, SaddFacts DEF AddToTag
  <2>2. before' = before /\ pc[t] = "sadd"
    BY <1>3 DEF AddToTag, At
  <2>3. \A i \in Requests : t \notin before'[i]
    BY <2>2 DEF OverStaysOver, Ended
  <2>4. QED  BY <1>2, <2>1, <2>3
<1>4. CASE pc[t] = "done"
  <2>1. Undisturbed(t)
    <3>1. SUFFICES ASSUME NEW j \in Requests, helper[j] = "invalidateTag"
                   PROVE  ~Overlap(j, t)
      BY DEF Undisturbed
    <3>2. pc[j] # "idle"
      BY <3>1 DEF PlaceInv
    <3>3. helper'[j] = "invalidateTag"
      BY <3>1, <3>2, FrameFacts DEF Frame
    <3>4. Overlap(j, t)' <=> Overlap(j, t)
      BY <1>4, <3>2, OverlapFacts
    <3>5. QED  BY <1>1, <3>3, <3>4 DEF Undisturbed
  <2>2. /\ item[t] \in Smembers(redis, Tag) \/ Cleared(t)
        /\ \A i \in Requests : helper[i] = "invalidateTag" /\ t \in before[i] =>
             /\ pc[i] = "mdel" => item[t] \in members[i] \/ Cleared(t)
             /\ pc[i] \in {"delTag", "done"} => Cleared(t)
    BY <1>2, <1>4, <2>1 DEF TagInv, Done, At
  <2>3. Cleared(t) => Cleared(t)'
    BY <1>2, <1>4, ClearedStays DEF Ended
  <2>4. item'[t] \in Smembers(redis', Tag) \/ Cleared(t)'
    <3>1. ASSUME NEW i \in Requests, DeleteTag(i) PROVE Cleared(t)
      <4>1. pc[i] = "delTag" /\ helper[i] = "invalidateTag"
        BY <3>1 DEF DeleteTag, At, PlaceInv
      <4>2. i \notin before[t]
        BY <4>1 DEF OverStaysOver, Ended
      <4>3. t \in before[i]
        BY <2>1, <4>1, <4>2 DEF Undisturbed, Overlap
      <4>4. QED  BY <2>2, <4>1, <4>3
    <3>2. QED  BY <1>2, <2>2, <2>3, <3>1, MembersStay
  <2>5. ASSUME NEW i \in Requests, helper'[i] = "invalidateTag", t \in before'[i],
               pc'[i] \in {"mdel", "delTag", "done"}
        PROVE  \/ pc'[i] = "mdel" /\ item'[t] \in members'[i]
               \/ Cleared(t)'
    <3>1. helper[i] = "invalidateTag" /\ t \in before[i]
      BY <2>5, InvalidateSteps
    <3>2. CASE pc'[i] = pc[i] /\ members'[i] = members[i]
      BY <1>2, <2>2, <2>3, <2>5, <3>1, <3>2
    <3>3. CASE ReadTag(i)
      <4>1. members'[i] = Smembers(redis, Tag) /\ (members'[i] # {} => pc'[i] = "mdel")
        BY <3>3 DEF ReadTag, Goto, StorageTypeOK
      <4>2. QED  BY <1>2, <2>2, <2>3, <4>1
    <3>4. CASE DeleteMembers(i)
      <4>1. pc[i] = "mdel"
        BY <3>4 DEF DeleteMembers, At
      <4>2. item[t] \in members[i] => redis'[item[t]] = GoneSlot
        BY <3>4, DeleteMembersFacts
      <4>3. GoneSlot.value \notin before[t]
        BY <1>0 DEF GoneSlot, StorageTypeOK
      <4>4. item[t] \in members[i] => Cleared(t)'
        BY <1>2, <4>2, <4>3 DEF Cleared, Get
      <4>5. QED  BY <2>2, <2>3, <3>1, <4>1, <4>4
    <3>5. CASE DeleteTag(i)
      BY <2>2, <2>3, <3>1, <3>5 DEF DeleteTag, At
    <3>6. QED  BY <2>5, <3>2, <3>3, <3>4, <3>5, InvalidateSteps
  <2>6. QED  BY <2>4, <2>5
<1>5. QED  BY <1>1, <1>3, <1>4, TagDone

-----------------------------------------------------------------------------
LEMMA StorageInvInductive ==
  ASSUME StorageInv, [Next]_vars
  PROVE  StorageInv'
<1>1. CASE Next
  BY <1>1, TypeStep, PlaceStep, OverStep, LeaseStep, LimiterStep, ExpiryStep, TagStep
     DEF StorageInv
<1>2. CASE UNCHANGED vars
  <2>1. UNCHANGED <<pc, helper, item, count, members, redis, before, window, windows,
                    expired, late>>
    BY <1>2 DEF vars, local, history
  <2>2. StorageTypeOK' /\ PlaceInv' /\ OverStaysOver'
    BY <2>1 DEF StorageInv, StorageTypeOK, IsDb, PlaceInv, OverStaysOver
  <2>3. LeaseIsExclusive' /\ ReleaseIsOwn' /\ CounterExpires'
    BY <2>1 DEF StorageInv, LeaseIsExclusive, ReleaseIsOwn, CounterExpires, Done, At
  <2>4. LimiterInv'
    BY <2>1 DEF StorageInv, LimiterInv, Passed, Counted
  <2>5. TagInv'
    BY <2>1 DEF StorageInv, TagInv, Done, At, Undisturbed, Overlap, Cleared
  <2>6. QED  BY <2>2, <2>3, <2>4, <2>5 DEF StorageInv
<1>3. QED  BY <1>1, <1>2

(* The inductive invariant of LocalStorage holds in every reachable state. *)
THEOREM StorageIsSafe == Spec => []StorageInv
<1>1. QED  BY InitInv, StorageInvInductive, PTL DEF Spec

(* As long as no lock expired between the get and the del of a release,    *)
(* two requests are inside withLock together only if the lease of one has  *)
(* expired (local-storage.service.ts:481-525).                             *)
THEOREM LeasesAreExclusive == Spec => []LeaseIsExclusive
<1>1. StorageInv => LeaseIsExclusive
  BY DEF StorageInv
<1>2. QED  BY <1>1, StorageIsSafe, PTL

(* The limiter allows no more than its limit in one window, for any limit  *)
(* and any number of calls that interleave (local-storage.service.ts:433). *)
THEOREM LimitsHold == Spec => []LimitPerWindow
<1>1. ASSUME StorageInv PROVE LimitPerWindow
  <2>1. SUFFICES ASSUME NEW w \in 0..windows
                 PROVE  Cardinality({p \in Requests : At(p, "allowed") /\ window[p] = w}) <= Limit
    BY DEF LimitPerWindow
  <2>. DEFINE Allowed == {p \in Requests : At(p, "allowed") /\ window[p] = w}
  <2>2. StorageTypeOK /\ PlaceInv /\ LimiterInv /\ Limit \in Nat
    BY <1>1, Constants DEF StorageInv
  <2>3. Allowed \subseteq Passed(w)
    <3>1. ASSUME NEW p \in Allowed PROVE p \in Passed(w)
      <4>1. pc[p] = "allowed" /\ window[p] = w /\ count[p] \in Nat
        BY <2>2 DEF At, StorageTypeOK
      <4>2. count[p] \in 1..Limit
        BY <2>2, <4>1 DEF LimiterInv
      <4>3. helper[p] = "checkRateLimit"
        BY <2>2, <4>1 DEF PlaceInv
      <4>4. QED  BY <4>1, <4>2, <4>3 DEF Passed
    <3>2. QED  BY <3>1
  <2>4. /\ Cardinality(Passed(w)) \in Nat /\ Cardinality(Allowed) \in Nat
        /\ Cardinality(Allowed) <= Cardinality(Passed(w))
    BY <2>2, <2>3, PassedFacts, FS_Subset, FS_CardinalityType
  <2>5. Cardinality(Passed(w)) <= Limit
    BY <2>2 DEF LimiterInv
  <2>6. QED  BY <2>2, <2>4, <2>5
<1>2. QED  BY <1>1, StorageIsSafe, PTL

(* A counter is left without an expiry only by a client that died between  *)
(* its first count and its expire, and incrWithExpiry heals what such a    *)
(* client left (local-storage.service.ts:420-443).                         *)
THEOREM CountersExpire == Spec => []CounterExpires
<1>1. StorageInv => CounterExpires
  BY DEF StorageInv
<1>2. QED  BY <1>1, StorageIsSafe, PTL

(* What was cached before its key was tagged, and tagged before the call   *)
(* of invalidateTag, is gone after the call, unless an overlapping call    *)
(* took the new member with the tag (local-storage.service.ts:456-476).    *)
THEOREM TaggedValuesAreGone == Spec => []TaggedValueIsGone
<1>1. ASSUME StorageInv PROVE TaggedValueIsGone
  <2>1. SUFFICES ASSUME NEW t \in Done("tagKey"), NEW i \in Done("invalidateTag"),
                        t \in before[i],
                        \A j \in Requests : helper[j] = "invalidateTag" => ~Overlap(j, t)
                 PROVE  Get(redis, item[t]) \notin before[t]
    BY DEF TaggedValueIsGone
  <2>2. Undisturbed(t)
    BY <2>1 DEF Undisturbed
  <2>3. Cleared(t)
    BY <1>1, <2>1, <2>2 DEF StorageInv, TagInv, Done, At
  <2>4. QED  BY <2>3 DEF Cleared
<1>2. QED  BY <1>1, StorageIsSafe, PTL
=============================================================================
