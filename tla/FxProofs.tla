------------------------------ MODULE FxProofs ------------------------------
(***************************************************************************)
(* Theorems about FxRates, for any requests, currencies, pairs and lives   *)
(* of the cache.  No lock protects a currency or a pair between the look   *)
(* and the save: the invariant says what the primary key, the unique index *)
(* and the order of the looks leave true all the same.                     *)
(***************************************************************************)
EXTENDS FxRates, RedisProofs, FiniteSetTheorems

Pricing == {"get", "fetch", "store"}
MakingCurrency == {"findCurrency", "saveCurrency"}
MakingPair == {"findCurrencies", "findPair", "savePair"}
Toggling == {"readPair", "saveToggle"}
Busy == Pricing \cup {"next", "execute"} \cup MakingCurrency \cup MakingPair \cup Toggling
AboutPair == {"trade", "pair", "toggle"}

FxTypeOK ==
  /\ pc \in [Requests -> {"idle"} \cup Busy \cup Ended]
  /\ kind \in [Requests -> AboutPair \cup {"none", "listing", "currency"}]
  /\ about \in [Requests -> Pairs \cup Currencies \cup {Gone}]
  /\ todo \in [Requests -> SUBSET Pairs]
  /\ rate \in [Requests -> Nat \cup {Gone}]
  /\ read \in [Requests -> {"none", "active", "disabled"}]
  /\ currencies \in [Currencies -> Requests \cup {NoCurrency, Migration}]
  /\ pairs \in [Pairs -> {"none", "active", "disabled"}]
  /\ redis \in [Pairs -> Slots(Nat, CacheTtl)]
  /\ before \in [Requests -> SUBSET Requests]

(* The operation of a request decides where it can be and what it names.   *)
PlaceInv ==
  \A p \in Requests :
    /\ pc[p] \in Pricing => kind[p] \in {"trade", "listing"} /\ about[p] \in Pairs
    /\ pc[p] = "next" => kind[p] = "listing"
    /\ pc[p] = "execute" => kind[p] = "trade"
    /\ pc[p] \in MakingCurrency => kind[p] = "currency"
    /\ pc[p] \in MakingPair => kind[p] = "pair"
    /\ pc[p] \in Toggling => kind[p] = "toggle"
    /\ kind[p] \in AboutPair => about[p] \in Pairs
    /\ kind[p] = "currency" => about[p] \in Currencies

(* The age of a cached rate and the life its key has left add up to the    *)
(* TTL: a hit does not renew the key, and no key is without expiry.        *)
CacheInv ==
  \A k \in Pairs : Exists(redis, k) =>
    redis[k].left \in 1..CacheTtl /\ redis[k].value + redis[k].left = CacheTtl

RateInv ==
  \A p \in Requests :
    kind[p] = "trade" /\ pc[p] \in {"execute", "done"}
      => rate[p] \in Nat /\ rate[p] < CacheTtl

OverStaysOver ==
  \A p \in Requests : \A q \in before[p] : pc[q] \in Ended

(* Rows of pairs are never deleted, and refer to currencies that exist; a  *)
(* request that has found both currencies will still find them.            *)
PairInv ==
  /\ \A k \in Pairs \cap Seeded : pairs[k] # "none"
  /\ \A k \in Pairs : pairs[k] # "none" => HasCurrencies(k)
  /\ \A p \in Requests : pc[p] \in {"findPair", "savePair"} => HasCurrencies(about[p])
  /\ \A p \in Requests : pc[p] = "saveToggle" => pairs[about[p]] # "none"
  /\ \A p \in Done("pair") : pairs[about[p]] # "none"
  /\ \A p, q \in Done("pair") : about[p] = about[q] => p = q

(* A request about to save a currency looked when no request that was over *)
(* before it had created it.                                               *)
CurrencyInv ==
  /\ \A p \in Done("currency") : currencies[about[p]] # NoCurrency
  /\ \A p \in Requests : pc[p] = "saveCurrency" =>
       \A q \in before[p] \cap Done("currency") : about[q] # about[p]

(* A request about to save a toggle knows the status, unless a toggle that *)
(* overlaps it was answered meanwhile.                                     *)
ToggleInv ==
  \A p \in Requests : pc[p] = "saveToggle" /\ about[p] \in Seeded =>
    /\ read[p] # "none"
    /\ \/ read[p] = pairs[about[p]]
       \/ \E q \in Done("toggle") : about[q] = about[p] /\ Overlap(p, q)

FxInv ==
  /\ FxTypeOK /\ PlaceInv
  /\ CacheInv /\ RateInv
  /\ OverStaysOver
  /\ PairInv /\ CurrencyInv /\ CreationSticks
  /\ ToggleInv /\ TogglesCount

-----------------------------------------------------------------------------
LEMMA InitInv == Init => FxInv
<1>1. SUFFICES ASSUME Init PROVE FxInv
  OBVIOUS
<1>2. EmptyDb(Pairs) \in [Pairs -> Slots(Nat, CacheTtl)]
  BY DEF EmptyDb, Slots
<1>3. FxTypeOK
  BY <1>1, <1>2, FxAssumption DEF Init, FxTypeOK, NoCurrency, Migration
<1>4. \A k \in Pairs : ~Exists(redis, k)
  BY <1>1 DEF Init, EmptyDb, Exists
<1>5. \A operation : Done(operation) = {}
  BY <1>1 DEF Init, Done
<1>6. \A k \in Pairs : pairs[k] # "none" => k \in Seeded
  BY <1>1 DEF Init
<1>7. \A c \in Currencies \cap Seeded : currencies[c] # NoCurrency
  BY <1>1 DEF Init, NoCurrency, Migration
<1>8. \A k \in Pairs : pairs[k] # "none" => HasCurrencies(k)
  <2>1. ASSUME NEW k \in Pairs, pairs[k] # "none", NEW i \in 1..2
        PROVE  k[i] \in Currencies \cap Seeded
    <3>1. k \in Currencies \X Currencies /\ {k[1], k[2]} \subseteq Seeded
      BY <1>6, <2>1, FxAssumption, SeedAssumption
    <3>2. CASE i = 1
      BY <3>1, <3>2
    <3>3. CASE i = 2
      BY <3>1, <3>3
    <3>4. QED  BY <3>2, <3>3
  <2>2. QED  BY <1>7, <2>1 DEF HasCurrencies
<1>9. PairInv
  BY <1>1, <1>5, <1>8 DEF Init, PairInv
<1>10. TogglesCount
  <2>1. SUFFICES ASSUME NEW k \in Pairs \cap Seeded
                 PROVE  pairs[k] = "active"
                          <=> Cardinality({p \in Done("toggle") : about[p] = k}) % 2 = 0
    BY DEF TogglesCount
  <2>2. pairs[k] = "active"
    BY <1>1 DEF Init
  <2>3. {p \in Done("toggle") : about[p] = k} = {}
    BY <1>5
  <2>4. QED  BY <2>2, <2>3, FS_EmptySet
<1>11. QED
  BY <1>1, <1>3, <1>4, <1>5, <1>9, <1>10
     DEF Init, FxInv, PlaceInv, CacheInv, RateInv, OverStaysOver, CurrencyInv,
         CreationSticks, ToggleInv, Busy, Pricing, MakingCurrency, MakingPair,
         Toggling, AboutPair

-----------------------------------------------------------------------------
(* The actions of a request, by what they change.                          *)
Starts(p) ==
  StartTrade(p) \/ StartListing(p) \/ StartCurrency(p) \/ StartPair(p) \/ StartToggle(p)

Prices(p) ==
  NextPair(p) \/ LookUp(p) \/ Fetch(p) \/ FetchFails(p) \/ Store(p) \/ ExecuteTrade(p)

Configures(p) ==
  \/ FindCurrency(p) \/ SaveCurrency(p) \/ DuplicateCurrency(p)
  \/ FindCurrencies(p) \/ FindPair(p) \/ SavePair(p) \/ ReadPair(p) \/ SaveToggle(p)

(* What a request is when it begins.                                       *)
LEMMA StartFacts ==
  ASSUME FxTypeOK, NEW p \in Requests, Starts(p)
  PROVE  /\ pc[p] = "idle"
         /\ \E operation, label, target :
              /\ \/ operation = "trade" /\ label = "get" /\ target \in Pairs
                 \/ operation = "listing" /\ label = "next" /\ target = Gone
                 \/ operation = "currency" /\ label = "findCurrency" /\ target \in Currencies
                 \/ operation = "pair" /\ label = "findCurrencies" /\ target \in Pairs
                 \/ operation = "toggle" /\ label = "readPair" /\ target \in Pairs
              /\ pc' = [pc EXCEPT ![p] = label]
              /\ kind' = [kind EXCEPT ![p] = operation]
              /\ about' = [about EXCEPT ![p] = target]
         /\ before' = [before EXCEPT ![p] = {q \in Requests : pc[q] \in Ended}]
         /\ todo' \in [Requests -> SUBSET Pairs]
         /\ UNCHANGED <<rate, read, currencies, pairs, redis>>
<1>1. ASSUME NEW operation, NEW label, NEW target, Start(p, operation, label, target)
      PROVE  /\ pc[p] = "idle"
             /\ pc' = [pc EXCEPT ![p] = label]
             /\ kind' = [kind EXCEPT ![p] = operation]
             /\ about' = [about EXCEPT ![p] = target]
             /\ before' = [before EXCEPT ![p] = {q \in Requests : pc[q] \in Ended}]
             /\ UNCHANGED <<rate, read, currencies, pairs, redis>>
  BY <1>1 DEF Start, At, Goto, tables, FxTypeOK
<1>2. CASE StartTrade(p)
  BY <1>1, <1>2 DEF StartTrade, FxTypeOK
<1>3. CASE StartListing(p)
  BY <1>1, <1>3 DEF StartListing, FxTypeOK
<1>4. CASE StartCurrency(p)
  BY <1>1, <1>4 DEF StartCurrency, FxTypeOK
<1>5. CASE StartPair(p)
  BY <1>1, <1>5 DEF StartPair, FxTypeOK
<1>6. CASE StartToggle(p)
  BY <1>1, <1>6 DEF StartToggle, FxTypeOK
<1>7. QED  BY <1>2, <1>3, <1>4, <1>5, <1>6 DEF Starts

(* What the passing of time does to the cache.                             *)
LEMMA TickFacts ==
  ASSUME FxTypeOK, CacheInv, Tick
  PROVE  redis' \in [Pairs -> Slots(Nat, CacheTtl)] /\ CacheInv'
<1>. DEFINE db == [k \in Pairs |-> Aged(redis[k])]
<1>0. CacheTtl \in Nat
  BY FxAssumption
<1>1. ASSUME NEW k \in Pairs
      PROVE  /\ db[k] \in Slots(Nat, CacheTtl)
             /\ Older(db[k]) \in Slots(Nat, CacheTtl)
             /\ Older(db[k]) # GoneSlot =>
                  /\ Older(db[k]).left \in 1..CacheTtl
                  /\ Older(db[k]).value + Older(db[k]).left = CacheTtl
  <2>1. redis[k] \in Slots(Nat, CacheTtl)
    BY DEF FxTypeOK
  <2>2. CASE redis[k] = GoneSlot
    <3>1. db[k] = GoneSlot
      BY <2>2 DEF Aged
    <3>2. QED  BY <1>0, <2>1, <2>2, <3>1, OlderFacts, NoSlotFacts
  <2>3. CASE redis[k] # GoneSlot
    <3>. DEFINE age == redis[k].value
                left == redis[k].left
    <3>1. /\ redis[k] = [value |-> age, left |-> left]
          /\ age \in Nat /\ left \in 1..CacheTtl /\ age + left = CacheTtl
      BY <1>0, <2>1, <2>3, SlotFacts DEF CacheInv, Exists
    <3>2. db[k] = [value |-> age + 1, left |-> left]
      BY <1>0, <2>3, <3>1 DEF Aged
    <3>3. age + 1 \in Nat /\ left \in {Forever} \cup 1..CacheTtl
      BY <3>1
    <3>4. db[k] \in Slots(Nat, CacheTtl) /\ db[k].value = age + 1 /\ db[k].left = left
      <4>. HIDE DEF db, age, left
      <4>. QED  BY <1>0, <3>2, <3>3, NoSlotFacts
    <3>. HIDE DEF db, age, left
    <3>5. CASE left = 1
      BY <1>0, <3>4, <3>5, OlderFacts
    <3>6. CASE left # 1
      <4>1. left >= 2 /\ left - 1 \in 1..CacheTtl
        BY <1>0, <3>1, <3>6
      <4>2. Older(db[k]) = [value |-> age + 1, left |-> left - 1]
        BY <1>0, <3>4, <4>1, OlderFacts
      <4>3. Older(db[k]) \in Slots(Nat, CacheTtl)
        BY <1>0, <3>4, OlderFacts
      <4>4. (age + 1) + (left - 1) = CacheTtl
        BY <1>0, <3>1
      <4>5. QED  BY <3>4, <4>1, <4>2, <4>3, <4>4
    <3>7. QED  BY <3>5, <3>6
  <2>4. QED  BY <2>2, <2>3
<1>2. redis' = [k \in Pairs |-> Older(db[k])]
  BY DEF Tick, Elapse
<1>. HIDE DEF db
<1>3. QED  BY <1>1, <1>2 DEF CacheInv, Exists

LEMMA StoreFacts ==
  ASSUME FxTypeOK, PlaceInv, NEW p \in Requests, Store(p)
  PROVE  /\ redis' \in [Pairs -> Slots(Nat, CacheTtl)]
         /\ redis'[about[p]] = [value |-> 0, left |-> CacheTtl]
         /\ \A k \in Pairs \ {about[p]} : redis'[k] = redis[k]
<1>1. about[p] \in Pairs /\ redis \in [Pairs -> Slots(Nat, CacheTtl)]
  BY DEF FxTypeOK, PlaceInv, Store, At, Pricing
<1>2. redis' = [redis EXCEPT ![about[p]] = [value |-> 0, left |-> CacheTtl]]
  <2>1. Lifetime(CacheTtl) = CacheTtl
    BY FxAssumption DEF Lifetime
  <2>2. QED  BY <2>1 DEF Store, Set
<1>3. [value |-> 0, left |-> CacheTtl] \in Slots(Nat, CacheTtl)
  BY FxAssumption DEF Slots
<1>4. QED  BY <1>1, <1>2, <1>3

(* A rate that is served is typed like one that is cached.                 *)
LEMMA PriceFacts ==
  ASSUME FxTypeOK, NEW p \in Requests, NEW age \in Nat, Price(p, age)
  PROVE  /\ rate' \in [Requests -> Nat \cup {Gone}]
         /\ kind[p] = "trade" => rate'[p] = age
         /\ \A q \in Requests \ {p} : rate'[q] = rate[q]
BY DEF FxTypeOK, Price

LEMMA LookUpFacts ==
  ASSUME FxTypeOK, PlaceInv, CacheInv, NEW p \in Requests, LookUp(p),
         Exists(redis, about[p])
  PROVE  /\ Price(p, Get(redis, about[p]))
         /\ Get(redis, about[p]) \in Nat /\ Get(redis, about[p]) < CacheTtl
<1>1. about[p] \in Pairs /\ redis[about[p]] \in Slots(Nat, CacheTtl) /\ CacheTtl \in Nat
  BY FxAssumption DEF FxTypeOK, PlaceInv, LookUp, At, Pricing
<1>2. redis[about[p]].value \in Nat
  BY <1>1, SlotFacts DEF Exists
<1>3. /\ redis[about[p]].left \in 1..CacheTtl
      /\ redis[about[p]].value + redis[about[p]].left = CacheTtl
  BY <1>1 DEF CacheInv
<1>4. redis[about[p]].value < CacheTtl
  BY <1>1, <1>2, <1>3
<1>5. QED  BY <1>2, <1>4 DEF LookUp, Get

-----------------------------------------------------------------------------
LEMMA TypeStep ==
  ASSUME FxTypeOK, PlaceInv, CacheInv, Next
  PROVE  FxTypeOK'
<1>1. CASE Tick
  <2>1. redis' \in [Pairs -> Slots(Nat, CacheTtl)]
    BY <1>1, TickFacts
  <2>2. QED  BY <1>1, <2>1 DEF Tick, FxTypeOK, local, tables
<1>2. CASE Crash
  BY <1>2 DEF Crash, FxTypeOK, Ended, local, tables
<1>3. ASSUME NEW p \in Requests, Starts(p) PROVE FxTypeOK'
  BY <1>3, StartFacts
     DEF FxTypeOK, Busy, Pricing, MakingCurrency, MakingPair, Toggling, AboutPair
<1>4. ASSUME NEW p \in Requests, Prices(p) PROVE FxTypeOK'
  <2>1. CASE NextPair(p)
    BY <2>1 DEF NextPair, Goto, FxTypeOK, Busy, Pricing, Ended, tables
  <2>2. CASE LookUp(p)
    <3>1. rate' \in [Requests -> Nat \cup {Gone}]
      BY <2>2, LookUpFacts, PriceFacts DEF LookUp, FxTypeOK
    <3>2. pc' \in [Requests -> {"idle"} \cup Busy \cup Ended]
      BY <2>2 DEF LookUp, Goto, AfterRate, FxTypeOK, Busy, Pricing
    <3>3. QED  BY <2>2, <3>1, <3>2 DEF LookUp, FxTypeOK, tables
  <2>3. CASE Fetch(p) \/ FetchFails(p)
    BY <2>3 DEF Fetch, FetchFails, Goto, FxTypeOK, Busy, Pricing, Ended, local, tables
  <2>4. CASE Store(p)
    <3>1. rate' \in [Requests -> Nat \cup {Gone}]
      BY <2>4, PriceFacts DEF Store
    <3>2. pc' \in [Requests -> {"idle"} \cup Busy \cup Ended]
      BY <2>4 DEF Store, Goto, AfterRate, FxTypeOK, Busy
    <3>3. redis' \in [Pairs -> Slots(Nat, CacheTtl)]
      BY <2>4, StoreFacts
    <3>4. QED  BY <2>4, <3>1, <3>2, <3>3 DEF Store, FxTypeOK, tables
  <2>5. CASE ExecuteTrade(p)
    BY <2>5 DEF ExecuteTrade, Goto, FxTypeOK, Ended, local, tables
  <2>6. QED  BY <1>4, <2>1, <2>2, <2>3, <2>4, <2>5 DEF Prices
<1>5. ASSUME NEW p \in Requests, Configures(p) PROVE FxTypeOK'
  <2>1. CASE SaveCurrency(p)
    BY <2>1 DEF SaveCurrency, Goto, FxTypeOK, Ended, local
  <2>2. CASE SavePair(p)
    BY <2>2 DEF SavePair, Goto, FxTypeOK, Ended, local
  <2>3. CASE SaveToggle(p)
    BY <2>3 DEF SaveToggle, Negated, Goto, FxTypeOK, Ended
  <2>4. CASE ReadPair(p)
    <3>1. about[p] \in Pairs
      BY <2>4 DEF ReadPair, At, PlaceInv, Toggling, AboutPair
    <3>2. QED
      BY <2>4, <3>1 DEF ReadPair, Goto, FxTypeOK, Busy, Toggling, Ended, tables
  <2>5. CASE FindCurrency(p) \/ DuplicateCurrency(p) \/ FindCurrencies(p) \/ FindPair(p)
    BY <2>5
       DEF FindCurrency, DuplicateCurrency, FindCurrencies, FindPair, Goto, FxTypeOK,
           Busy, MakingCurrency, MakingPair, Ended, local, tables
  <2>6. QED  BY <1>5, <2>1, <2>2, <2>3, <2>4, <2>5 DEF Configures
<1>6. QED
  BY <1>1, <1>2, <1>3, <1>4, <1>5 DEF Next, Serve, Starts, Prices, Configures

LEMMA PlaceStep ==
  ASSUME FxTypeOK, PlaceInv, Next
  PROVE  PlaceInv'
<1>. USE DEF FxTypeOK, PlaceInv, Pricing, MakingCurrency, MakingPair, Toggling, AboutPair
<1>1. CASE Tick
  BY <1>1 DEF Tick, local
<1>2. CASE Crash
  BY <1>2 DEF Crash, local
<1>3. ASSUME NEW p \in Requests, Starts(p) PROVE PlaceInv'
  BY <1>3, StartFacts
<1>4. ASSUME NEW p \in Requests, Prices(p) PROVE PlaceInv'
  <2>1. CASE NextPair(p)
    BY <2>1 DEF NextPair, At, Goto
  <2>2. CASE LookUp(p) \/ Store(p)
    BY <2>2 DEF LookUp, Store, AfterRate, At, Goto
  <2>3. CASE Fetch(p) \/ FetchFails(p) \/ ExecuteTrade(p)
    BY <2>3 DEF Fetch, FetchFails, ExecuteTrade, At, Goto, local
  <2>4. QED  BY <1>4, <2>1, <2>2, <2>3 DEF Prices
<1>5. ASSUME NEW p \in Requests, Configures(p) PROVE PlaceInv'
  BY <1>5
     DEF Configures, SaveCurrency, SavePair, SaveToggle, ReadPair, FindCurrency,
         DuplicateCurrency, FindCurrencies, FindPair, At, Goto, local
<1>6. QED
  BY <1>1, <1>2, <1>3, <1>4, <1>5 DEF Next, Serve, Starts, Prices, Configures

-----------------------------------------------------------------------------
(* What no step changes of a request: its operation and its target once it *)
(* has begun, everything once it has ended.  What was over when it began   *)
(* is noted as it begins.                                                  *)
Entry == {"get", "next", "findCurrency", "findCurrencies", "readPair"}

Frame(r) ==
  /\ pc[r] \in Ended => pc'[r] = pc[r] /\ about'[r] = about[r] /\ rate'[r] = rate[r]
  /\ pc[r] # "idle" =>
       /\ pc'[r] # "idle" /\ kind'[r] = kind[r] /\ before'[r] = before[r]
       /\ kind[r] # "listing" => about'[r] = about[r]
  /\ pc[r] = "idle" =>
       \/ UNCHANGED <<pc[r], kind[r], about[r], before[r]>>
       \/ /\ pc'[r] \in Entry
          /\ before'[r] = {q \in Requests : pc[q] \in Ended}

LEMMA FrameFacts ==
  ASSUME FxTypeOK, PlaceInv, Next
  PROVE  \A r \in Requests : Frame(r)
<1>. USE DEF FxTypeOK, Frame, Ended
<1>1. CASE Tick
  BY <1>1 DEF Tick, local
<1>2. CASE Crash
  BY <1>2 DEF Crash, local
<1>3. ASSUME NEW p \in Requests, Starts(p), NEW r \in Requests PROVE Frame(r)
  BY <1>3, StartFacts DEF Entry
<1>4. ASSUME NEW p \in Requests, Prices(p), NEW r \in Requests PROVE Frame(r)
  <2>1. CASE NextPair(p)
    BY <2>1 DEF NextPair, At, Goto, PlaceInv
  <2>2. CASE LookUp(p) \/ Store(p)
    BY <2>2 DEF LookUp, Store, Price, AfterRate, At, Goto
  <2>3. CASE Fetch(p) \/ FetchFails(p) \/ ExecuteTrade(p)
    BY <2>3 DEF Fetch, FetchFails, ExecuteTrade, At, Goto, local
  <2>4. QED  BY <1>4, <2>1, <2>2, <2>3 DEF Prices
<1>5. ASSUME NEW p \in Requests, Configures(p), NEW r \in Requests PROVE Frame(r)
  BY <1>5
     DEF Configures, SaveCurrency, SavePair, SaveToggle, ReadPair, FindCurrency,
         DuplicateCurrency, FindCurrencies, FindPair, At, Goto, local
<1>6. QED
  BY <1>1, <1>2, <1>3, <1>4, <1>5 DEF Next, Serve, Starts, Prices, Configures

LEMMA OverStep ==
  ASSUME FxTypeOK, PlaceInv, OverStaysOver, Next
  PROVE  OverStaysOver'
BY FrameFacts DEF Frame, OverStaysOver, FxTypeOK

LEMMA CacheStep ==
  ASSUME FxTypeOK, PlaceInv, CacheInv, RateInv, Next
  PROVE  CacheInv' /\ RateInv'
<1>1. CacheInv'
  <2>1. CASE Tick
    BY <2>1, TickFacts
  <2>2. ASSUME NEW p \in Requests, Store(p) PROVE CacheInv'
    BY <2>2, StoreFacts, FxAssumption DEF CacheInv, Exists
  <2>3. CASE UNCHANGED redis
    BY <2>3 DEF CacheInv, Exists
  <2>4. Tick \/ (\E p \in Requests : Store(p)) \/ UNCHANGED redis
    BY DEF Next, Serve, Crash, StartTrade, StartListing, StartCurrency, StartPair,
           StartToggle, Start, NextPair, LookUp, Fetch, FetchFails, ExecuteTrade,
           FindCurrency, SaveCurrency, DuplicateCurrency, FindCurrencies, FindPair,
           SavePair, ReadPair, SaveToggle
  <2>5. QED  BY <2>1, <2>2, <2>3, <2>4
<1>2. ASSUME NEW r \in Requests, kind'[r] = "trade", pc'[r] \in {"execute", "done"}
      PROVE  rate'[r] \in Nat /\ rate'[r] < CacheTtl
  <2>1. pc[r] # "idle" /\ kind[r] = "trade"
    BY <1>2, FrameFacts DEF Frame, Entry
  <2>2. CASE pc[r] \in {"execute", "done"} /\ rate'[r] = rate[r]
    BY <2>1, <2>2 DEF RateInv
  <2>3. CASE LookUp(r)
    <3>1. Exists(redis, about[r])
      BY <1>2, <2>3 DEF LookUp, Goto, FxTypeOK
    <3>2. QED  BY <2>1, <2>3, <3>1, LookUpFacts, PriceFacts
  <2>4. CASE Store(r)
    BY <2>1, <2>4, PriceFacts, FxAssumption DEF Store
  <2>5. \/ pc[r] \in {"execute", "done"} /\ rate'[r] = rate[r]
        \/ LookUp(r) \/ Store(r)
    BY <1>2, <2>1
       DEF Next, Serve, Tick, Crash, StartTrade, StartListing, StartCurrency, StartPair,
           StartToggle, Start, NextPair, LookUp, Price, Fetch, FetchFails, Store,
           ExecuteTrade, FindCurrency, SaveCurrency, DuplicateCurrency, FindCurrencies,
           FindPair, SavePair, ReadPair, SaveToggle, At, Goto, AfterRate, local,
           FxTypeOK, PlaceInv, Pricing, MakingCurrency, MakingPair, Toggling
  <2>6. QED  BY <2>2, <2>3, <2>4, <2>5
<1>3. QED  BY <1>1, <1>2 DEF RateInv

-----------------------------------------------------------------------------
(* Rows are written by the last steps of three operations, and only there  *)
(* do these operations end with an answer.  No row is deleted.             *)
LEMMA RowFacts ==
  ASSUME FxTypeOK, PlaceInv, PairInv, Next
  PROVE  /\ UNCHANGED currencies \/ \E p \in Requests : SaveCurrency(p)
         /\ UNCHANGED pairs \/ \E p \in Requests : SavePair(p) \/ SaveToggle(p)
         /\ \A c \in Currencies : currencies[c] # NoCurrency => currencies'[c] # NoCurrency
         /\ \A k \in Pairs : pairs[k] # "none" => pairs'[k] # "none"
<1>1. UNCHANGED currencies \/ \E p \in Requests : SaveCurrency(p)
  BY DEF Next, Serve, Tick, Crash, StartTrade, StartListing, StartCurrency, StartPair,
         StartToggle, Start, NextPair, LookUp, Fetch, FetchFails, Store, ExecuteTrade,
         FindCurrency, DuplicateCurrency, FindCurrencies, FindPair, SavePair, ReadPair,
         SaveToggle, tables
<1>2. UNCHANGED pairs \/ \E p \in Requests : SavePair(p) \/ SaveToggle(p)
  BY DEF Next, Serve, Tick, Crash, StartTrade, StartListing, StartCurrency, StartPair,
         StartToggle, Start, NextPair, LookUp, Fetch, FetchFails, Store, ExecuteTrade,
         FindCurrency, SaveCurrency, DuplicateCurrency, FindCurrencies, FindPair,
         ReadPair, tables
<1>3. ASSUME NEW c \in Currencies, currencies[c] # NoCurrency
      PROVE  currencies'[c] # NoCurrency
  BY <1>1, <1>3, RequestsAssumption DEF SaveCurrency, NoCurrency, FxTypeOK
<1>4. ASSUME NEW k \in Pairs, pairs[k] # "none"
      PROVE  pairs'[k] # "none"
  BY <1>2, <1>4 DEF SavePair, SaveToggle, Negated, FxTypeOK
<1>5. QED  BY <1>1, <1>2, <1>3, <1>4

LEMMA DoneFacts ==
  ASSUME FxTypeOK, PlaceInv, Next, NEW r \in Requests
  PROVE  /\ r \in Done("pair")' => r \in Done("pair") \/ (SavePair(r) /\ pairs[about[r]] = "none")
         /\ r \in Done("currency")' => r \in Done("currency") \/ SaveCurrency(r)
         /\ r \in Done("toggle")' => r \in Done("toggle") \/ SaveToggle(r)
         /\ \A operation \in {"pair", "currency", "toggle"} :
              /\ r \in Done(operation)' =>
                   /\ pc[r] # "idle" /\ kind[r] = operation
                   /\ about'[r] = about[r] /\ before'[r] = before[r]
              /\ r \in Done(operation) => r \in Done(operation)'
<1>1. ASSUME NEW operation \in {"pair", "currency", "toggle"}
      PROVE  /\ r \in Done(operation)' =>
                  /\ pc[r] # "idle" /\ kind[r] = operation
                  /\ about'[r] = about[r] /\ before'[r] = before[r]
             /\ r \in Done(operation) => r \in Done(operation)'
  BY FrameFacts DEF Frame, Entry, Done, Ended
<1>2. ASSUME pc[r] # "idle", kind[r] \in {"pair", "currency", "toggle"}, pc'[r] = "done"
      PROVE  \/ pc[r] = "done"
             \/ kind[r] = "pair" /\ SavePair(r) /\ pairs[about[r]] = "none"
             \/ kind[r] = "currency" /\ SaveCurrency(r)
             \/ kind[r] = "toggle" /\ SaveToggle(r)
  BY <1>2
     DEF Next, Serve, Tick, Crash, StartTrade, StartListing, StartCurrency, StartPair,
         StartToggle, Start, NextPair, LookUp, Fetch, FetchFails, Store, ExecuteTrade,
         FindCurrency, SaveCurrency, DuplicateCurrency, FindCurrencies, FindPair,
         SavePair, ReadPair, SaveToggle, At, Goto, AfterRate, FxTypeOK, PlaceInv,
         Pricing, MakingCurrency, MakingPair, Toggling
<1>3. QED  BY <1>1, <1>2 DEF Done

LEMMA PairStep ==
  ASSUME FxTypeOK, PlaceInv, PairInv, Next
  PROVE  PairInv'
<1>1. \A k \in Pairs : HasCurrencies(k) => HasCurrencies(k)'
  <2>1. ASSUME NEW k \in Pairs, NEW i \in 1..2 PROVE k[i] \in Currencies
    <3>1. k \in Currencies \X Currencies
      BY FxAssumption
    <3>2. CASE i = 1
      BY <3>1, <3>2
    <3>3. CASE i = 2
      BY <3>1, <3>3
    <3>4. QED  BY <3>2, <3>3
  <2>2. QED  BY <2>1, RowFacts DEF HasCurrencies
<1>2. \A k \in Pairs \cap Seeded : pairs'[k] # "none"
  BY RowFacts DEF PairInv
<1>3. ASSUME NEW p \in Requests, pc'[p] \in {"findPair", "savePair"}
      PROVE  HasCurrencies(about[p])'
  <2>1. about[p] \in Pairs /\ about'[p] = about[p]
    BY <1>3, FrameFacts, PlaceStep
       DEF Frame, Entry, PlaceInv, MakingPair, AboutPair
  <2>2. pc[p] \in {"findPair", "savePair"} \/ HasCurrencies(about[p])
    BY <1>3
       DEF Next, Serve, Tick, Crash, StartTrade, StartListing, StartCurrency, StartPair,
           StartToggle, Start, NextPair, LookUp, Fetch, FetchFails, Store, ExecuteTrade,
           FindCurrency, SaveCurrency, DuplicateCurrency, FindCurrencies, FindPair,
           SavePair, ReadPair, SaveToggle, At, Goto, AfterRate, FxTypeOK
  <2>3. HasCurrencies(about[p])
    BY <2>2 DEF PairInv
  <2>4. QED  BY <1>1, <2>1, <2>3 DEF HasCurrencies
<1>4. ASSUME NEW k \in Pairs, pairs'[k] # "none" PROVE HasCurrencies(k)'
  <2>1. CASE pairs[k] # "none"
    BY <1>1, <2>1 DEF PairInv
  <2>2. CASE pairs[k] = "none"
    <3>1. PICK p \in Requests : SavePair(p) \/ SaveToggle(p)
      BY <1>4, <2>2, RowFacts
    <3>2. about[p] = k
      BY <1>4, <2>2, <3>1 DEF SavePair, SaveToggle, FxTypeOK
    <3>3. SavePair(p)
      BY <2>2, <3>1, <3>2 DEF SaveToggle, At, PairInv
    <3>4. QED  BY <1>1, <3>2, <3>3 DEF SavePair, At, PairInv
  <2>3. QED  BY <2>1, <2>2
<1>5. ASSUME NEW p \in Requests, pc'[p] = "saveToggle" PROVE pairs'[about'[p]] # "none"
  <2>1. about[p] \in Pairs /\ about'[p] = about[p]
    BY <1>5, FrameFacts, PlaceStep
       DEF Frame, Entry, PlaceInv, Toggling, AboutPair
  <2>2. pc[p] = "saveToggle" \/ pairs[about[p]] # "none"
    BY <1>5
       DEF Next, Serve, Tick, Crash, StartTrade, StartListing, StartCurrency, StartPair,
           StartToggle, Start, NextPair, LookUp, Fetch, FetchFails, Store, ExecuteTrade,
           FindCurrency, SaveCurrency, DuplicateCurrency, FindCurrencies, FindPair,
           SavePair, ReadPair, SaveToggle, At, Goto, AfterRate, FxTypeOK
  <2>3. pairs[about[p]] # "none"
    BY <2>2 DEF PairInv
  <2>4. QED  BY <2>1, <2>3, RowFacts
<1>6. ASSUME NEW p \in Done("pair")'
      PROVE  about'[p] = about[p] /\ about[p] \in Pairs /\ pairs'[about[p]] # "none"
  <2>1. p \in Requests
    BY <1>6 DEF Done
  <2>2. about'[p] = about[p] /\ about[p] \in Pairs
    BY <2>1, <1>6, DoneFacts DEF PlaceInv, AboutPair
  <2>3. CASE p \in Done("pair")
    BY <2>2, <2>3, RowFacts DEF PairInv
  <2>4. CASE SavePair(p) /\ pairs[about[p]] = "none"
    BY <2>2, <2>4 DEF SavePair, FxTypeOK
  <2>5. QED  BY <1>6, <2>1, <2>2, <2>3, <2>4, DoneFacts
<1>7. ASSUME NEW p \in Done("pair")', NEW q \in Done("pair")', about'[p] = about'[q]
      PROVE  p = q
  <2>1. p \in Requests /\ q \in Requests /\ about[p] = about[q]
    BY <1>6, <1>7 DEF Done
  <2>2. CASE p \in Done("pair") /\ q \in Done("pair")
    BY <2>1, <2>2 DEF PairInv
  <2>3. CASE SavePair(p) /\ pairs[about[p]] = "none"
    <3>1. q \notin Done("pair")
      BY <2>1, <2>3 DEF PairInv
    <3>2. SavePair(q)
      BY <1>7, <2>1, <3>1, DoneFacts
    <3>3. QED  BY <1>7, <2>1, <2>3, <3>1, <3>2 DEF SavePair, At, Goto, Done, FxTypeOK
  <2>4. CASE SavePair(q) /\ pairs[about[q]] = "none"
    <3>1. p \notin Done("pair")
      BY <2>1, <2>4 DEF PairInv
    <3>2. SavePair(p)
      BY <1>7, <2>1, <3>1, DoneFacts
    <3>3. QED  BY <1>7, <2>1, <2>4, <3>1, <3>2 DEF SavePair, At, Goto, Done, FxTypeOK
  <2>5. QED  BY <1>7, <2>1, <2>2, <2>3, <2>4, DoneFacts
<1>8. QED  BY <1>2, <1>3, <1>4, <1>5, <1>6, <1>7 DEF PairInv

-----------------------------------------------------------------------------
LEMMA CurrencyStep ==
  ASSUME FxTypeOK, PlaceInv, OverStaysOver, CurrencyInv, PairInv, Next
  PROVE  CurrencyInv'
<1>1. ASSUME NEW p \in Done("currency")' PROVE currencies'[about'[p]] # NoCurrency
  <2>1. p \in Requests
    BY <1>1 DEF Done
  <2>2. about'[p] = about[p] /\ about[p] \in Currencies
    BY <1>1, <2>1, DoneFacts DEF PlaceInv
  <2>3. CASE p \in Done("currency")
    BY <2>2, <2>3, RowFacts DEF CurrencyInv
  <2>4. CASE SaveCurrency(p)
    BY <2>1, <2>2, <2>4, RequestsAssumption DEF SaveCurrency, FxTypeOK, NoCurrency
  <2>5. QED  BY <1>1, <2>1, <2>3, <2>4, DoneFacts
<1>2. ASSUME NEW p \in Requests, pc'[p] = "saveCurrency",
             NEW q \in before'[p] \cap Done("currency")'
      PROVE  about'[q] # about'[p]
  <2>1. q \in Requests /\ before'[p] = before[p] /\ about'[p] = about[p]
    BY <1>2, FrameFacts, PlaceStep DEF Frame, Entry, PlaceInv, MakingCurrency, Done
  <2>2. q \in Done("currency") /\ about'[q] = about[q]
    BY <1>2, <2>1, DoneFacts DEF OverStaysOver, Ended, SaveCurrency, At
  <2>3. pc[p] = "saveCurrency" \/ currencies[about[p]] = NoCurrency
    BY <1>2
       DEF Next, Serve, Tick, Crash, StartTrade, StartListing, StartCurrency, StartPair,
           StartToggle, Start, NextPair, LookUp, Fetch, FetchFails, Store, ExecuteTrade,
           FindCurrency, SaveCurrency, DuplicateCurrency, FindCurrencies, FindPair,
           SavePair, ReadPair, SaveToggle, At, Goto, AfterRate, FxTypeOK
  <2>4. QED  BY <1>2, <2>1, <2>2, <2>3 DEF CurrencyInv
<1>3. QED  BY <1>1, <1>2 DEF CurrencyInv

(* Requests that are both past their beginning overlap for good.           *)
LEMMA OverlapFacts ==
  ASSUME FxTypeOK, PlaceInv, Next, NEW p \in Requests, NEW q \in Requests,
         pc[p] # "idle", pc[q] # "idle"
  PROVE  Overlap(p, q)' <=> Overlap(p, q)
BY FrameFacts DEF Frame, Overlap

LEMMA CreationStep ==
  ASSUME FxTypeOK, PlaceInv, OverStaysOver, CurrencyInv, PairInv, CreationSticks, Next
  PROVE  CreationSticks'
<1>. SUFFICES ASSUME NEW p \in Done("currency")'
              PROVE  \/ currencies'[about'[p]] = p
                     \/ \E q \in Done("currency")' \ {p} :
                          about'[q] = about'[p] /\ Overlap(p, q)'
  BY DEF CreationSticks
<1>1. p \in Requests
  BY DEF Done
<1>2. about'[p] = about[p] /\ pc[p] # "idle" /\ about[p] \in Currencies
  BY <1>1, DoneFacts DEF PlaceInv
<1>3. CASE SaveCurrency(p)
  BY <1>1, <1>2, <1>3 DEF SaveCurrency, FxTypeOK
<1>4. CASE p \in Done("currency")
  <2>1. ASSUME NEW q \in Done("currency") \ {p}, about[q] = about[p], Overlap(p, q)
        PROVE  q \in Done("currency")' \ {p} /\ about'[q] = about'[p] /\ Overlap(p, q)'
    <3>1. q \in Requests /\ q \in Done("currency")'
      BY <2>1, DoneFacts DEF Done
    <3>2. pc[q] # "idle" /\ about'[q] = about[q]
      BY <3>1, DoneFacts
    <3>3. QED  BY <1>1, <1>2, <2>1, <3>1, <3>2, OverlapFacts
  <2>2. CASE currencies[about[p]] = p /\ currencies'[about[p]] # p
    <3>1. PICK r \in Requests : SaveCurrency(r)
      BY <2>2, RowFacts
    <3>2. about[r] = about[p] /\ pc[r] = "saveCurrency" /\ kind[r] = "currency"
      BY <1>2, <2>2, <3>1
         DEF SaveCurrency, At, FxTypeOK, PlaceInv, MakingCurrency
    <3>3. r # p
      BY <1>4, <3>2 DEF Done
    <3>4. r \in Done("currency")' /\ about'[r] = about[r]
      BY <3>1, <3>2 DEF SaveCurrency, Goto, Done, FxTypeOK, local
    <3>5. Overlap(p, r)
      BY <1>1, <1>4, <3>2 DEF Overlap, CurrencyInv, OverStaysOver, Ended
    <3>6. Overlap(p, r)'
      BY <1>1, <1>2, <3>2, <3>5, OverlapFacts
    <3>7. QED  BY <1>2, <3>2, <3>3, <3>4, <3>6
  <2>3. QED  BY <1>2, <1>4, <2>1, <2>2 DEF CreationSticks
<1>5. QED  BY <1>1, <1>3, <1>4, DoneFacts

-----------------------------------------------------------------------------
(* The status of a pair that the migration inserted changes only with an   *)
(* answered toggle.                                                        *)
LEMMA StatusFacts ==
  ASSUME FxTypeOK, PlaceInv, PairInv, Next, NEW k \in Pairs \cap Seeded, pairs'[k] # pairs[k]
  PROVE  \E r \in Requests : SaveToggle(r) /\ about[r] = k
<1>1. PICK r \in Requests : SavePair(r) \/ SaveToggle(r)
  BY RowFacts
<1>2. about[r] = k
  BY <1>1 DEF SavePair, SaveToggle, FxTypeOK
<1>3. ~SavePair(r)
  BY <1>2 DEF SavePair, PairInv
<1>4. QED  BY <1>1, <1>2, <1>3

(* A toggle that is saved overlaps every other that is about to be.        *)
LEMMA SaveToggleFacts ==
  ASSUME FxTypeOK, PlaceInv, OverStaysOver, Next, NEW r \in Requests, SaveToggle(r)
  PROVE  /\ r \in Done("toggle")' /\ r \notin Done("toggle")
         /\ pc[r] = "saveToggle" /\ kind[r] = "toggle"
         /\ about'[r] = about[r] /\ about[r] \in Pairs
         /\ pairs'[about[r]] = Negated(read[r])
         /\ \A p \in Requests : p # r /\ pc[p] = "saveToggle" => Overlap(p, r)
         /\ \A p \in Requests \ {r} : p \in Done("toggle")' <=> p \in Done("toggle")
<1>1. pc[r] = "saveToggle" /\ kind[r] = "toggle" /\ about[r] \in Pairs
  BY DEF SaveToggle, At, PlaceInv, Toggling, AboutPair
<1>2. r \in Done("toggle")' /\ r \notin Done("toggle") /\ about'[r] = about[r]
  BY <1>1 DEF SaveToggle, Goto, Done, FxTypeOK
<1>3. pairs'[about[r]] = Negated(read[r])
  BY <1>1 DEF SaveToggle, FxTypeOK
<1>4. ASSUME NEW p \in Requests, p # r, pc[p] = "saveToggle" PROVE Overlap(p, r)
  BY <1>1, <1>4 DEF Overlap, OverStaysOver, Ended
<1>5. ASSUME NEW p \in Requests \ {r} PROVE p \in Done("toggle")' <=> p \in Done("toggle")
  BY <1>5 DEF SaveToggle, Goto, Done, FxTypeOK
<1>6. QED  BY <1>1, <1>2, <1>3, <1>4, <1>5

LEMMA ToggleStep ==
  ASSUME FxTypeOK, PlaceInv, OverStaysOver, PairInv, ToggleInv, Next
  PROVE  ToggleInv'
<1>. SUFFICES ASSUME NEW p \in Requests, pc'[p] = "saveToggle", about'[p] \in Seeded
              PROVE  /\ read'[p] # "none"
                     /\ \/ read'[p] = pairs'[about'[p]]
                        \/ \E q \in Done("toggle")' : about'[q] = about'[p] /\ Overlap(p, q)'
  BY DEF ToggleInv
<1>1. about'[p] = about[p] /\ about[p] \in Pairs \cap Seeded /\ pc[p] # "idle"
  BY FrameFacts, PlaceStep DEF Frame, Entry, PlaceInv, Toggling, AboutPair
<1>2. \/ pc[p] = "saveToggle" /\ read'[p] = read[p]
      \/ ReadPair(p)
  BY DEF Next, Serve, Tick, Crash, StartTrade, StartListing, StartCurrency, StartPair,
         StartToggle, Start, NextPair, LookUp, Fetch, FetchFails, Store, ExecuteTrade,
         FindCurrency, SaveCurrency, DuplicateCurrency, FindCurrencies, FindPair,
         SavePair, ReadPair, SaveToggle, At, Goto, AfterRate, FxTypeOK, local
<1>3. CASE ReadPair(p)
  BY <1>1, <1>3 DEF ReadPair, FxTypeOK, PairInv, tables
<1>4. CASE pc[p] = "saveToggle" /\ read'[p] = read[p]
  <2>1. read[p] # "none"
    BY <1>1, <1>4 DEF ToggleInv
  <2>2. ASSUME NEW q \in Done("toggle"), about[q] = about[p], Overlap(p, q)
        PROVE  \E x \in Done("toggle")' : about'[x] = about'[p] /\ Overlap(p, x)'
    <3>1. q \in Requests /\ q \in Done("toggle")'
      BY <2>2, DoneFacts DEF Done
    <3>2. pc[q] # "idle" /\ about'[q] = about[q]
      BY <3>1, DoneFacts
    <3>3. QED  BY <1>1, <2>2, <3>1, <3>2, OverlapFacts
  <2>3. CASE read[p] = pairs[about[p]] /\ pairs'[about[p]] # pairs[about[p]]
    <3>1. PICK r \in Requests : SaveToggle(r) /\ about[r] = about[p]
      BY <1>1, <2>3, StatusFacts
    <3>2. r # p
      BY <3>1 DEF SaveToggle, Goto, FxTypeOK
    <3>3. r \in Done("toggle")' /\ about'[r] = about'[p] /\ pc[r] # "idle"
      BY <1>1, <3>1, SaveToggleFacts
    <3>4. Overlap(p, r)
      BY <1>4, <3>1, <3>2, SaveToggleFacts
    <3>5. QED  BY <1>1, <2>1, <1>4, <3>3, <3>4, OverlapFacts
  <2>4. QED  BY <1>1, <1>4, <2>1, <2>2, <2>3 DEF ToggleInv
<1>5. QED  BY <1>2, <1>3, <1>4

Toggles(k) == {p \in Done("toggle") : about[p] = k}

Apart(S) == \A p, q \in S : p # q => ~Overlap(p, q)

LEMMA TogglesFacts ==
  ASSUME FxTypeOK, PlaceInv, OverStaysOver, PairInv, Next, NEW k \in Pairs \cap Seeded
  PROVE  /\ IsFiniteSet(Toggles(k))
         /\ Toggles(k) \subseteq Toggles(k)'
         /\ Apart(Toggles(k))' => Apart(Toggles(k))
<1>1. Toggles(k) \subseteq Requests
  BY DEF Toggles, Done
<1>2. ASSUME NEW p \in Toggles(k) PROVE pc[p] # "idle" /\ p \in Toggles(k)'
  BY <1>1, <1>2, DoneFacts DEF Toggles
<1>3. IsFiniteSet(Toggles(k))
  BY <1>1, RequestsAssumption, FS_Subset
<1>4. Apart(Toggles(k))' => Apart(Toggles(k))
  <2>1. SUFFICES ASSUME Apart(Toggles(k))', NEW p \in Toggles(k), NEW q \in Toggles(k), p # q
                 PROVE  ~Overlap(p, q)
    BY DEF Apart
  <2>2. ~Overlap(p, q)'
    BY <1>2, <2>1 DEF Apart
  <2>3. QED  BY <1>1, <1>2, <2>2, OverlapFacts
<1>5. QED  BY <1>2, <1>3, <1>4

LEMMA CountStep ==
  ASSUME FxTypeOK, PlaceInv, OverStaysOver, PairInv, ToggleInv, TogglesCount, Next
  PROVE  TogglesCount'
<1>. SUFFICES ASSUME NEW k \in Pairs \cap Seeded, Apart(Toggles(k))'
              PROVE  pairs'[k] = "active" <=> Cardinality(Toggles(k)') % 2 = 0
  BY DEF TogglesCount, Apart, Toggles
<1>1. /\ IsFiniteSet(Toggles(k)) /\ Apart(Toggles(k))
      /\ Cardinality(Toggles(k)) \in Nat
  BY TogglesFacts, FS_CardinalityType
<1>2. pairs[k] = "active" <=> Cardinality(Toggles(k)) % 2 = 0
  BY <1>1 DEF TogglesCount, Apart, Toggles
<1>3. CASE \A r \in Requests : ~(SaveToggle(r) /\ about[r] = k)
  <2>1. pairs'[k] = pairs[k]
    BY <1>3, StatusFacts
  <2>2. ASSUME NEW p \in Toggles(k)' PROVE p \in Toggles(k)
    <3>1. p \in Requests /\ p \in Done("toggle")' /\ about'[p] = k
      BY <2>2 DEF Toggles, Done
    <3>2. about'[p] = about[p]
      BY <3>1, DoneFacts
    <3>3. p \in Done("toggle")
      BY <1>3, <3>1, <3>2, DoneFacts
    <3>4. QED  BY <3>1, <3>2, <3>3 DEF Toggles
  <2>3. Toggles(k)' = Toggles(k)
    BY <2>2, TogglesFacts
  <2>4. QED  BY <1>2, <2>1, <2>3
<1>4. ASSUME NEW r \in Requests, SaveToggle(r), about[r] = k
      PROVE  pairs'[k] = "active" <=> Cardinality(Toggles(k)') % 2 = 0
  <2>1. r \in Toggles(k)' /\ r \notin Toggles(k)
    BY <1>4, SaveToggleFacts DEF Toggles
  <2>2. ASSUME NEW p \in Toggles(k)', p # r PROVE p \in Toggles(k)
    <3>1. p \in Requests /\ p \in Done("toggle")' /\ about'[p] = k
      BY <2>2 DEF Toggles, Done
    <3>2. p \in Done("toggle") /\ about'[p] = about[p]
      BY <1>4, <2>2, <3>1, SaveToggleFacts, DoneFacts
    <3>3. QED  BY <3>1, <3>2 DEF Toggles
  <2>3. Toggles(k)' = Toggles(k) \cup {r}
    BY <2>1, <2>2, TogglesFacts
  <2>4. Cardinality(Toggles(k)') = Cardinality(Toggles(k)) + 1
    BY <1>1, <2>1, <2>3, FS_AddElement
  <2>5. read[r] # "none" /\ read[r] = pairs[k]
    <3>1. pc[r] = "saveToggle" /\ pc[r] # "idle"
      BY <1>4, SaveToggleFacts
    <3>2. ASSUME NEW q \in Done("toggle"), about[q] = k, Overlap(r, q) PROVE FALSE
      <4>1. q \in Toggles(k) /\ q \in Requests /\ q # r
        BY <2>1, <3>2 DEF Toggles, Done
      <4>2. q \in Toggles(k)' /\ pc[q] # "idle"
        BY <2>3, <4>1 DEF Toggles, Done
      <4>3. Overlap(r, q)'
        BY <3>1, <3>2, <4>1, <4>2, OverlapFacts
      <4>4. QED  BY <2>1, <4>1, <4>2, <4>3 DEF Apart
    <3>3. QED  BY <1>4, <3>1, <3>2 DEF ToggleInv
  <2>6. pairs'[k] = "active" <=> ~(pairs[k] = "active")
    BY <1>4, <2>5, SaveToggleFacts DEF Negated
  <2>7. (Cardinality(Toggles(k)) + 1) % 2 = 0 <=> ~(Cardinality(Toggles(k)) % 2 = 0)
    <3>1. \A n \in Nat : (n + 1) % 2 = 0 <=> ~(n % 2 = 0)
      OBVIOUS
    <3>2. QED  BY <1>1, <3>1
  <2>8. QED  BY <1>2, <2>4, <2>6, <2>7
<1>5. QED  BY <1>3, <1>4

-----------------------------------------------------------------------------
LEMMA FxInvInductive ==
  ASSUME FxInv, [Next]_vars
  PROVE  FxInv'
<1>1. CASE Next
  BY <1>1, TypeStep, PlaceStep, CacheStep, OverStep, PairStep, CurrencyStep,
     CreationStep, ToggleStep, CountStep DEF FxInv
<1>2. CASE UNCHANGED vars
  <2>1. UNCHANGED <<pc, kind, about, todo, rate, read, currencies, pairs, redis, before>>
    BY <1>2 DEF vars, local, tables
  <2>2. FxTypeOK' /\ PlaceInv' /\ CacheInv' /\ RateInv' /\ OverStaysOver' /\ PairInv'
    BY <2>1
       DEF FxInv, FxTypeOK, PlaceInv, CacheInv, RateInv, OverStaysOver, PairInv, Exists,
           HasCurrencies, Done
  <2>3. CurrencyInv' /\ CreationSticks' /\ ToggleInv' /\ TogglesCount'
    BY <2>1
       DEF FxInv, CurrencyInv, CreationSticks, ToggleInv, TogglesCount, Done, Overlap
  <2>4. QED  BY <2>2, <2>3 DEF FxInv
<1>3. QED  BY <1>1, <1>2

(* The inductive invariant of FxRates holds in every reachable state.      *)
THEOREM RatesAreSafe == Spec => []FxInv
<1>1. QED  BY InitInv, FxInvInductive, PTL DEF Spec

(* Every cached rate has an expiry and an age that add up to CACHE_TTL:    *)
(* fx.service.ts:50 is the only place that writes the key.                 *)
THEOREM CacheIsBounded == Spec => []CacheInv
<1>1. FxInv => CacheInv
  BY DEF FxInv
<1>2. QED  BY <1>1, RatesAreSafe, PTL

(* A trade is never given a rate that was stored CACHE_TTL or longer ago,  *)
(* however the requests that fill the cache interleave with expiry         *)
(* (fx.service.ts:36-57).                                                  *)
THEOREM QuotesAreRecent == Spec => []QuoteIsRecent
<1>1. FxInv => QuoteIsRecent
  BY DEF FxInv, RateInv, QuoteIsRecent, Done
<1>2. QED  BY <1>1, RatesAreSafe, PTL

(* A race of createPair requests makes one pair, whose currencies exist    *)
(* (fx.service.ts:133-161, currency-pair.entity.ts:15).                    *)
THEOREM PairsStayUnique == Spec => []PairsAreUnique
<1>1. FxInv => PairsAreUnique
  BY DEF FxInv, PairInv, PairsAreUnique
<1>2. QED  BY <1>1, RatesAreSafe, PTL

(* Only a createCurrency of the same code that overlapped can overwrite an *)
(* answered one (fx.service.ts:85-96).                                     *)
THEOREM CreationsStick == Spec => []CreationSticks
<1>1. FxInv => CreationSticks
  BY DEF FxInv
<1>2. QED  BY <1>1, RatesAreSafe, PTL

(* Toggles that do not overlap are all felt: the status of a pair is the   *)
(* parity of the answered toggles (fx.service.ts:191-199).                 *)
THEOREM TogglesAreCounted == Spec => []TogglesCount
<1>1. FxInv => TogglesCount
  BY DEF FxInv
<1>2. QED  BY <1>1, RatesAreSafe, PTL
=============================================================================
