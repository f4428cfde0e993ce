---------------------------- MODULE RedisProofs ----------------------------
(***************************************************************************)
(* What the commands of RedisStore do to one slot and to one database,     *)
(* for any keys, values and lives.                                         *)
(***************************************************************************)
EXTENDS RedisStore, TLAPS

(* A slot that is there has a value and no more life than it was given.    *)
LEMMA SlotFacts ==
  ASSUME NEW V, NEW n \in Nat, NEW slot \in Slots(V, n), slot # GoneSlot
  PROVE  /\ slot = [value |-> slot.value, left |-> slot.left]
         /\ slot.value \in V
         /\ slot.left \in {Forever} \cup 1..n
BY DEF Slots

LEMMA NoSlotFacts ==
  ASSUME NEW V, NEW n \in Nat
  PROVE  /\ GoneSlot \in Slots(V, n)
         /\ GoneSlot.value = Gone /\ GoneSlot.left = -2
         /\ \A v \in V, left \in {Forever} \cup 1..n :
              /\ [value |-> v, left |-> left] \in Slots(V, n)
              /\ [value |-> v, left |-> left] # GoneSlot
BY DEF Slots, GoneSlot, Forever

(* A unit of time takes one unit of life, or the slot with its last one.   *)
LEMMA OlderFacts ==
  ASSUME NEW V, NEW n \in Nat, NEW slot \in Slots(V, n)
  PROVE  /\ Older(slot) \in Slots(V, n)
         /\ slot.left = 1 => Older(slot) = GoneSlot
         /\ slot.left >= 2 =>
              Older(slot) = [value |-> slot.value, left |-> slot.left - 1]
         /\ slot.left < 1 => Older(slot) = slot
         /\ Older(slot).value \in {slot.value, Gone}
<1>1. slot.left \in Int
  BY DEF Slots, GoneSlot, Forever
<1>2. CASE slot.left = 1
  BY <1>2, NoSlotFacts DEF Older
<1>3. CASE slot.left > 1
  <2>1. slot.value \in V /\ slot.left \in 1..n
    BY <1>3 DEF Slots, GoneSlot, Forever
  <2>2. slot = [value |-> slot.value, left |-> slot.left]
    BY <1>3 DEF Slots, GoneSlot
  <2>3. Older(slot) = [value |-> slot.value, left |-> slot.left - 1]
    BY <1>3, <2>2 DEF Older
  <2>4. slot.left - 1 \in 1..n
    BY <1>3, <2>1
  <2>5. QED  BY <1>3, <2>1, <2>3, <2>4, NoSlotFacts
<1>4. CASE slot.left < 1
  BY <1>1, <1>4 DEF Older
<1>5. slot.left = 1 \/ slot.left > 1 \/ slot.left < 1
  BY <1>1
<1>6. QED  BY <1>2, <1>3, <1>4, <1>5

-----------------------------------------------------------------------------
LEMMA SetFacts ==
  ASSUME NEW K, NEW V, NEW n \in Nat, NEW k \in K, NEW v \in V, NEW ttl \in 1..n,
         NEW db \in [K -> Slots(V, n)]
  PROVE  /\ Set(db, k, v, ttl) \in [K -> Slots(V, n)]
         /\ Set(db, k, v, ttl)[k] = [value |-> v, left |-> ttl]
         /\ \A j \in K \ {k} : Set(db, k, v, ttl)[j] = db[j]
<1>1. Lifetime(ttl) = ttl
  BY DEF Lifetime
<1>2. [value |-> v, left |-> ttl] \in Slots(V, n)
  BY DEF Slots
<1>3. QED  BY <1>1, <1>2 DEF Set

LEMMA DelFacts ==
  ASSUME NEW K, NEW V, NEW n \in Nat, NEW db \in [K -> Slots(V, n)], NEW k \in K
  PROVE  /\ Del(db, k) \in [K -> Slots(V, n)]
         /\ Del(db, k)[k] = GoneSlot
         /\ \A j \in K \ {k} : Del(db, k)[j] = db[j]
BY DEF Del, Mdel, Slots

LEMMA ElapseFacts ==
  ASSUME NEW K, NEW V, NEW n \in Nat, NEW db \in [K -> Slots(V, n)]
  PROVE  /\ Elapse(db) \in [K -> Slots(V, n)]
         /\ \A k \in K : Elapse(db)[k].value \in {db[k].value, Gone}
         /\ \A k \in K : db[k].left >= 2 =>
              /\ Elapse(db)[k].value = db[k].value
              /\ Elapse(db)[k].left = db[k].left - 1
BY OlderFacts DEF Elapse
=============================================================================
