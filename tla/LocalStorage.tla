---------------------------- MODULE LocalStorage ----------------------------
(***************************************************************************)
(* The helpers that LocalStorageService and RedisService build from single *)
(* commands: the lock (withLock), the rate limiter (checkRateLimit), a     *)
(* counter that expires (incrWithExpiry), the read-through cache (getOrSet,*)
(* wrap), setWithRetry, and groups of keys (tagKey, invalidateTag,         *)
(* deletePattern).  A helper sends one command per step; other clients     *)
(* run, keys expire and the process dies between two steps.                *)
(*                                                                         *)
(* A request uses one helper once.  What it writes is its own name, so     *)
(* that a value tells who wrote it: the identifier of a lock is unique.    *)
(***************************************************************************)
EXTENDS RedisStore

CONSTANTS
  Requests,
  Items,      \* the keys that are cached and tagged
  LockTtl,    \* time to live of the lock
  Window,     \* windowSeconds of the rate limiter
  Limit,      \* its limit
  ItemTtl,    \* time to live of a cached item
  MaxRetries  \* maxRetries of setWithRetry

ASSUME LocalStorageAssumption ==
  /\ {LockTtl, Window, ItemTtl, MaxRetries} \subseteq Nat \ {0}
  /\ Limit \in Nat
  /\ IsFiniteSet(Requests)
  /\ Gone \notin Requests

\* The keys lock:<resource>, ratelimit:<identifier>, tag:<tag>, and one
\* that incrWithExpiry counts in.
Lock == "lock"
Counter == "counter"
Tag == "tag"
Tally == "tally"

\* No cached key has one of their names.
ASSUME KeysAreApart == {Lock, Counter, Tag, Tally} \cap Items = {}

VARIABLES
  pc,        \* pc[p]: where request p is
  helper,    \* helper[p]: the helper it calls
  item,      \* item[p]: the key it caches or tags, Gone without
  count,     \* count[p]: what incr answered, or the attempts of setWithRetry
  members,   \* members[p]: what smembers or keys answered
  redis,     \* Redis
  before,    \* before[p]: the requests over when p was made (history)
  window,    \* window[p]: the window p was counted in (history)
  windows,   \* windows of the limiter that have ended (history)
  expired,   \* requests whose lock expired while they held it (history)
  late       \* those of them that were about to delete it (history)

local == <<helper, item, count, members>>
history == <<window, windows, expired, late>>
vars == <<pc, local, redis, before, history>>

Ended == {"done", "refused", "allowed", "limited", "lost"}

Init ==
  /\ pc = [p \in Requests |-> "idle"]
  /\ helper = [p \in Requests |-> "none"]
  /\ item = [p \in Requests |-> Gone]
  /\ count = [p \in Requests |-> 0]
  /\ members = [p \in Requests |-> {}]
  /\ redis = EmptyDb({Lock, Counter, Tag, Tally} \cup Items)
  /\ before = [p \in Requests |-> {}]
  /\ window = [p \in Requests |-> 0]
  /\ windows = 0
  /\ expired = {}
  /\ late = {}

Goto(p, label) == pc' = [pc EXCEPT ![p] = label]

At(p, label) == pc[p] = label

Call(p, name, label) ==
  /\ At(p, "idle")
  /\ helper' = [helper EXCEPT ![p] = name]
  /\ Goto(p, label)
  /\ before' = [before EXCEPT ![p] = {q \in Requests : pc[q] \in Ended}]
  /\ UNCHANGED <<count, members, redis, history>>

-----------------------------------------------------------------------------
(* withLock: acquireLock, the callback, releaseLock.                       *)
WithLock(p) == Call(p, "withLock", "acquire") /\ UNCHANGED item

Acquire(p) ==
  /\ At(p, "acquire")
  /\ redis' = SetNx(redis, Lock, p, LockTtl)
  /\ Goto(p, IF Exists(redis, Lock) THEN "refused" ELSE "inside")
  /\ UNCHANGED <<local, before, history>>

\* The callback ends, with a result or with an error.
Leave(p) ==
  /\ At(p, "inside")
  /\ Goto(p, "compare")
  /\ UNCHANGED <<local, redis, before, history>>

(* Mutant: releaseLock deletes without looking.                            *)
DoNotCompare(p) ==
  /\ At(p, "compare")
  /\ Goto(p, "release")
  /\ UNCHANGED <<local, redis, before, history>>

Compare(p) ==
  /\ At(p, "compare")
  /\ Goto(p, IF Get(redis, Lock) = p THEN "release" ELSE "done")
  /\ UNCHANGED <<local, redis, before, history>>

Release(p) ==
  /\ At(p, "release")
  /\ redis' = Del(redis, Lock)
  /\ Goto(p, "done")
  /\ UNCHANGED <<local, before, history>>

-----------------------------------------------------------------------------
(* checkRateLimit: incr, expire for the first of a window, ttl.            *)
CheckRateLimit(p) == Call(p, "checkRateLimit", "incr") /\ UNCHANGED item

Increment(p) ==
  /\ At(p, "incr")
  /\ redis' = Incr(redis, Counter)
  /\ count' = [count EXCEPT ![p] = Get(redis', Counter)]
  /\ window' = [window EXCEPT ![p] = windows]
  /\ Goto(p, IF count'[p] = 1 THEN "expire" ELSE "ttl")
  /\ UNCHANGED <<helper, item, members, before, windows, expired, late>>

(* Mutant: the window is started at the first refused call.                *)
StartWindowLate(p) ==
  /\ At(p, "expire")
  /\ redis' = IF count[p] > Limit THEN Expire(redis, Counter, Window) ELSE redis
  /\ Goto(p, "ttl")
  /\ UNCHANGED <<local, before, history>>

StartWindow(p) ==
  /\ At(p, "expire")
  /\ redis' = Expire(redis, Counter, Window)
  /\ Goto(p, "ttl")
  /\ UNCHANGED <<local, before, history>>

(* Mutant: one call too many passes.                                       *)
WithinLimitPlusOne(n) == n <= Limit + 1

WithinLimit(n) == n <= Limit

\* ttl is asked for the answer's resetAt only.
AnswerLimit(p) ==
  /\ At(p, "ttl")
  /\ Goto(p, IF WithinLimit(count[p]) THEN "allowed" ELSE "limited")
  /\ UNCHANGED <<local, redis, before, history>>

(* incrWithExpiry: incrby, then expire, whatever incrby answered.          *)
IncrWithExpiry(p) == Call(p, "incrWithExpiry", "incrby") /\ UNCHANGED item

Add(p) ==
  /\ At(p, "incrby")
  /\ redis' = Incrby(redis, Tally, 1)
  /\ count' = [count EXCEPT ![p] = Get(redis', Tally)]
  /\ Goto(p, "renew")
  /\ UNCHANGED <<helper, item, members, before, history>>

Renew(p) ==
  /\ At(p, "renew")
  /\ redis' = Expire(redis, Tally, Window)
  /\ Goto(p, "done")
  /\ UNCHANGED <<local, before, history>>

-----------------------------------------------------------------------------
(* getOrSet: a hit is answered; after a miss the factory runs, then set.   *)
(* wrap is getOrSet for a key built from the arguments of a function.      *)
GetOrSet(p) ==
  /\ \E k \in Items : item' = [item EXCEPT ![p] = k]
  /\ Call(p, "getOrSet", "get")

LookUp(p) ==
  /\ At(p, "get")
  /\ Goto(p, IF Exists(redis, item[p]) THEN "done" ELSE "set")
  /\ UNCHANGED <<local, redis, before, history>>

Fill(p) ==
  /\ At(p, "set")
  /\ redis' = Set(redis, item[p], p, ItemTtl)
  /\ Goto(p, "done")
  /\ UNCHANGED <<local, before, history>>

SetWithRetry(p) ==
  /\ \E k \in Items : item' = [item EXCEPT ![p] = k]
  /\ Call(p, "setWithRetry", "try")

Try(p) ==
  /\ At(p, "try")
  /\ redis' = Set(redis, item[p], p, ItemTtl)
  /\ Goto(p, "done")
  /\ UNCHANGED <<local, before, history>>

(* An attempt fails, before Redis has the command or after; then comes the *)
(* sleep and the next attempt, or the error of the last one is thrown.     *)
TryFails(p) ==
  /\ At(p, "try")
  /\ redis' \in {redis, Set(redis, item[p], p, ItemTtl)}
  /\ count' = [count EXCEPT ![p] = @ + 1]
  /\ Goto(p, IF count'[p] = MaxRetries THEN "refused" ELSE "try")
  /\ UNCHANGED <<helper, item, members, before, history>>

-----------------------------------------------------------------------------
(* Groups of keys: tagKey, invalidateTag, and deletePattern, whose pattern *)
(* here is one that every item matches.                                    *)
TagKey(p) ==
  /\ \E k \in Items : item' = [item EXCEPT ![p] = k]
  /\ Call(p, "tagKey", "sadd")

AddToTag(p) ==
  /\ At(p, "sadd")
  /\ redis' = Sadd(redis, Tag, item[p])
  /\ Goto(p, "done")
  /\ UNCHANGED <<local, before, history>>

InvalidateTag(p) == Call(p, "invalidateTag", "smembers") /\ UNCHANGED item

ReadTag(p) ==
  /\ At(p, "smembers")
  /\ members' = [members EXCEPT ![p] = Smembers(redis, Tag)]
  /\ Goto(p, IF members'[p] = {} THEN "done" ELSE "mdel")
  /\ UNCHANGED <<helper, item, count, redis, before, history>>

(* Mutant: the keys of the group are kept.                                 *)
DeleteNoMember(p) ==
  /\ At(p, "mdel")
  /\ redis' = redis
  /\ Goto(p, IF helper[p] = "invalidateTag" THEN "delTag" ELSE "done")
  /\ UNCHANGED <<local, before, history>>

DeleteMembers(p) ==
  /\ At(p, "mdel")
  /\ redis' = Mdel(redis, members[p])
  /\ Goto(p, IF helper[p] = "invalidateTag" THEN "delTag" ELSE "done")
  /\ UNCHANGED <<local, before, history>>

DeletePattern(p) == Call(p, "deletePattern", "keys") /\ UNCHANGED item

ReadKeys(p) ==
  /\ At(p, "keys")
  /\ members' = [members EXCEPT ![p] = Keys(redis, Items)]
  /\ Goto(p, IF members'[p] = {} THEN "done" ELSE "mdel")
  /\ UNCHANGED <<helper, item, count, redis, before, history>>

DeleteTag(p) ==
  /\ At(p, "delTag")
  /\ redis' = Del(redis, Tag)
  /\ Goto(p, "done")
  /\ UNCHANGED <<local, before, history>>

-----------------------------------------------------------------------------
Holding == {"inside", "compare", "release"}

Evicted == {p \in Requests : Get(redis, Lock) = p /\ Ttl(redis, Lock) = 1}

Tick ==
  /\ redis' = Elapse(redis)
  /\ windows' = windows + IF Ttl(redis, Counter) = 1 THEN 1 ELSE 0
  /\ expired' = expired \cup {p \in Evicted : pc[p] \in Holding}
  /\ late' = late \cup {p \in Evicted : At(p, "release")}
  /\ UNCHANGED <<pc, local, before, window>>

(* Clients end in the middle of a helper: one by an error of Redis, or all *)
(* when the process dies.  Redis keeps what it has.                        *)
Crash ==
  \E dead \in SUBSET {p \in Requests : pc[p] \notin Ended \cup {"idle"}} :
    /\ dead # {}
    /\ pc' = [p \in Requests |-> IF p \in dead THEN "lost" ELSE pc[p]]
    /\ UNCHANGED <<local, redis, before, history>>

Serve(p) ==
  \/ WithLock(p) \/ Acquire(p) \/ Leave(p) \/ Compare(p) \/ Release(p)
  \/ CheckRateLimit(p) \/ Increment(p) \/ StartWindow(p) \/ AnswerLimit(p)
  \/ IncrWithExpiry(p) \/ Add(p) \/ Renew(p)
  \/ GetOrSet(p) \/ LookUp(p) \/ Fill(p)
  \/ SetWithRetry(p) \/ Try(p) \/ TryFails(p)
  \/ DeletePattern(p) \/ ReadKeys(p)
  \/ TagKey(p) \/ AddToTag(p)
  \/ InvalidateTag(p) \/ ReadTag(p) \/ DeleteMembers(p) \/ DeleteTag(p)

Next == Tick \/ Crash \/ \E p \in Requests : Serve(p)

Spec == Init /\ [][Next]_vars

-----------------------------------------------------------------------------
(* A request inside withLock whose lock has not expired owns the lock, so  *)
(* that no other can be inside with it: releaseLock never deletes a lock   *)
(* of somebody else, unless the lock expires just between its get and its  *)
(* del.                                                                    *)
LeaseIsExclusive ==
  late = {} => \A p \in Requests :
                 pc[p] \in Holding /\ p \notin expired => Get(redis, Lock) = p

(* checkRateLimit allows no more than limit calls between two moments at   *)
(* which the counter expires, however the calls interleave.                *)
LimitPerWindow ==
  \A w \in 0..windows :
    Cardinality({p \in Requests : At(p, "allowed") /\ window[p] = w}) <= Limit

Done(name) == {p \in Requests : helper[p] = name /\ At(p, "done")}

Overlap(p, q) == p \notin before[q] /\ q \notin before[p]

(* A counter that will never expire is left behind only by a client that   *)
(* died between its first incr and its expire.  The limiter's then refuses *)
(* for good; incrWithExpiry's is healed by whoever counts after the crash. *)
CounterExpires ==
  /\ Ttl(redis, Counter) = Forever =>
       \E p \in Requests : count[p] = 1 /\ pc[p] \in {"expire", "lost"}
  /\ Ttl(redis, Tally) = Forever =>
       \E p \in Requests :
         /\ count[p] = 1 /\ pc[p] \in {"renew", "lost"}
         /\ \A q \in Done("incrWithExpiry") : p \notin before[q]

(* invalidateTag leaves no value behind that was cached before its key was *)
(* tagged and the key tagged before the call, unless another invalidateTag *)
(* overlapped the tagging: that one deletes the tag with the new member.   *)
TaggedValueIsGone ==
  \A t \in Done("tagKey"), i \in Done("invalidateTag") :
    /\ t \in before[i]
    /\ \A j \in Requests : helper[j] = "invalidateTag" => ~Overlap(j, t)
    => Get(redis, item[t]) \notin before[t]
=============================================================================
