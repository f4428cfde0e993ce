----------------------------- MODULE RedisStore -----------------------------
(***************************************************************************)
(* The commands of RedisService that the application and its cache helpers *)
(* send, as operators on the contents of one Redis database.  A database   *)
(* maps every key to a slot: the value and the seconds it has left, with   *)
(* the numbers Redis itself answers to TTL: -1 for a key that does not     *)
(* expire, -2 for a key that is not there.  One command is atomic; what    *)
(* happens between two commands is the business of the modules that send   *)
(* them.  Serialisation and the key prefix are one to one and left out.    *)
(***************************************************************************)
EXTENDS Integers, FiniteSets

CONSTANT Gone   \* what get answers for a key that is not there

Forever == -1

GoneSlot == [value |-> Gone, left |-> -2]

Slots(values, longest) ==
  [value : values, left : {Forever} \cup 1..longest] \cup {GoneSlot}

EmptyDb(keys) == [k \in keys |-> GoneSlot]

Get(db, k) == db[k].value

Exists(db, k) == db[k] # GoneSlot

Ttl(db, k) == db[k].left

Lifetime(ttl) == IF ttl > 0 THEN ttl ELSE Forever

Set(db, k, v, ttl) ==
  [db EXCEPT ![k] = [value |-> v, left |-> Lifetime(ttl)]]

SetNx(db, k, v, ttl) == IF Exists(db, k) THEN db ELSE Set(db, k, v, ttl)

Expire(db, k, ttl) == IF Exists(db, k) THEN [db EXCEPT ![k].left = ttl] ELSE db

Mdel(db, keys) == [k \in DOMAIN db |-> IF k \in keys THEN GoneSlot ELSE db[k]]

Del(db, k) == Mdel(db, {k})

\* The keys of the database among those that match a pattern.
Keys(db, matching) == {k \in matching : Exists(db, k)}

(* INCRBY keeps the expiry of a key it finds and gives a new key none.     *)
Incrby(db, k, n) ==
  IF Exists(db, k) THEN [db EXCEPT ![k].value = @ + n]
                   ELSE Set(db, k, n, 0)

Incr(db, k) == Incrby(db, k, 1)

(* SADD, on a key that holds a set: like INCR, it leaves the expiry alone. *)
Sadd(db, k, member) ==
  IF Exists(db, k) THEN [db EXCEPT ![k].value = @ \cup {member}]
                   ELSE Set(db, k, {member}, 0)

Smembers(db, k) == IF Exists(db, k) THEN Get(db, k) ELSE {}

(* One unit of time passes: a key whose last unit it was is gone.          *)
Older(slot) ==
  CASE slot.left = 1 -> GoneSlot
    [] slot.left > 1 -> [slot EXCEPT !.left = @ - 1]
    [] OTHER -> slot

Elapse(db) == [k \in DOMAIN db |-> Older(db[k])]
=============================================================================
