------------------------------- MODULE FxRates -------------------------------
(***************************************************************************)
(* FxService: rates of the provider behind a cache in Redis (getRate,      *)
(* getAllActiveRates), and the currencies and pairs that admins configure  *)
(* (createCurrency, createPair, togglePairStatus).  executeTrade is here   *)
(* as a client of getRate.  A request is made once, and other requests run *)
(* at each of its awaits.                                                  *)
(*                                                                         *)
(* The number a rate is does not matter, its age does: a cached rate is    *)
(* the time since it was stored.  The key of the cache is the pair of      *)
(* currencies, and so is the id of a row of currency_pairs.                *)
(***************************************************************************)
EXTENDS RedisStore

CONSTANTS
  Requests,
  Currencies,
  Pairs,        \* the <<base, quote>> that requests are about
  Seeded,       \* currencies and pairs that the seed migration inserted
  CacheTtl      \* CACHE_TTL

ASSUME FxAssumption ==
  /\ Pairs \subseteq Currencies \X Currencies
  /\ CacheTtl \in Nat \ {0}
  /\ Gone \notin Nat

\* The migration inserts the currencies of the pairs it inserts.
ASSUME SeedAssumption ==
  /\ Seeded \subseteq Currencies \cup Pairs
  /\ \A k \in Pairs \cap Seeded : {k[1], k[2]} \subseteq Seeded

\* A row is marked with the request that wrote it, or with one of these.
ASSUME RequestsAssumption ==
  /\ IsFiniteSet(Requests)
  /\ {"none", "seed"} \cap Requests = {}

VARIABLES
  pc,          \* pc[p]: where request p is
  kind,        \* kind[p]: the operation it asks for
  about,       \* about[p]: the pair or the currency it names
  todo,        \* todo[p]: pairs getAllActiveRates has yet to price
  rate,        \* rate[p]: age of the rate a trade was given, Gone without
  read,        \* read[p]: the status togglePairStatus read
  currencies,  \* currencies[c]: the request that wrote the row of c
  pairs,       \* pairs[k]: "none" without a row, else isActive
  redis,       \* Redis: fx-rates:<base>:<quote>
  before       \* before[p]: the requests over when p was made (history)

local == <<kind, about, todo, rate, read>>
tables == <<currencies, pairs>>
vars == <<pc, local, tables, redis, before>>

NoCurrency == "none"
Migration == "seed"

Init ==
  /\ pc = [p \in Requests |-> "idle"]
  /\ kind = [p \in Requests |-> "none"]
  /\ about = [p \in Requests |-> Gone]
  /\ todo = [p \in Requests |-> {}]
  /\ rate = [p \in Requests |-> Gone]
  /\ read = [p \in Requests |-> "none"]
  /\ currencies = [c \in Currencies |-> IF c \in Seeded THEN Migration ELSE NoCurrency]
  /\ pairs = [k \in Pairs |-> IF k \in Seeded THEN "active" ELSE "none"]
  /\ redis = EmptyDb(Pairs)
  /\ before = [p \in Requests |-> {}]

Ended == {"done", "refused", "lost"}

Goto(p, label) == pc' = [pc EXCEPT ![p] = label]

At(p, label) == pc[p] = label

Start(p, operation, label, target) ==
  /\ At(p, "idle")
  /\ Goto(p, label)
  /\ kind' = [kind EXCEPT ![p] = operation]
  /\ about' = [about EXCEPT ![p] = target]
  /\ before' = [before EXCEPT ![p] = {q \in Requests : pc[q] \in Ended}]
  /\ UNCHANGED <<rate, read, tables, redis>>

-----------------------------------------------------------------------------
(* getRate and the two callers it has.                                     *)

StartTrade(p) ==
  /\ \E k \in Pairs : Start(p, "trade", "get", k)
  /\ UNCHANGED todo

(* getAllActiveRates prices the pairs that are active when it looks.       *)
StartListing(p) ==
  /\ Start(p, "listing", "next", Gone)
  /\ todo' = [todo EXCEPT ![p] = {k \in Pairs : pairs[k] = "active"}]

(* It prices them all at once; the pairs have different keys, so one after *)
(* the other in any order shows the same.                                  *)
NextPair(p) ==
  /\ At(p, "next")
  /\ \/ /\ todo[p] = {}
        /\ about' = [about EXCEPT ![p] = Gone]
        /\ Goto(p, "done")
        /\ UNCHANGED todo
     \/ \E k \in todo[p] :
          /\ about' = [about EXCEPT ![p] = k]
          /\ todo' = [todo EXCEPT ![p] = @ \ {k}]
          /\ Goto(p, "get")
  /\ UNCHANGED <<kind, rate, read, tables, redis, before>>

AfterRate(p) == IF kind[p] = "trade" THEN "execute" ELSE "next"

\* A trade keeps the rate that getRate returns.
Price(p, age) ==
  rate' = IF kind[p] = "trade" THEN [rate EXCEPT ![p] = age] ELSE rate

(* A rate that is there is served; the provider never gives a rate of 0,   *)
(* which the test for a cached rate would take for a miss.                 *)
LookUp(p) ==
  /\ At(p, "get")
  /\ IF Exists(redis, about[p])
     THEN /\ Price(p, Get(redis, about[p]))
          /\ Goto(p, AfterRate(p))
     ELSE /\ Goto(p, "fetch")
          /\ UNCHANGED rate
  /\ UNCHANGED <<kind, about, todo, read, tables, redis, before>>

Fetch(p) ==
  /\ At(p, "fetch")
  /\ Goto(p, "store")
  /\ UNCHANGED <<local, tables, redis, before>>

(* The provider fails: getRate throws, which ends a trade; a listing goes  *)
(* on without the pair.                                                    *)
FetchFails(p) ==
  /\ At(p, "fetch")
  /\ Goto(p, IF kind[p] = "trade" THEN "refused" ELSE "next")
  /\ UNCHANGED <<local, tables, redis, before>>

(* Mutant: the rate is stored without a TTL.                               *)
StoreForever(p) ==
  /\ At(p, "store")
  /\ Price(p, 0)
  /\ redis' = Set(redis, about[p], 0, 0)
  /\ Goto(p, AfterRate(p))
  /\ UNCHANGED <<kind, about, todo, read, tables, before>>

Store(p) ==
  /\ At(p, "store")
  /\ Price(p, 0)
  /\ redis' = Set(redis, about[p], 0, CacheTtl)
  /\ Goto(p, AfterRate(p))
  /\ UNCHANGED <<kind, about, todo, read, tables, before>>

(* The rest of executeTrade, which reads no row of currency_pairs.         *)
ExecuteTrade(p) ==
  /\ At(p, "execute")
  /\ Goto(p, "done")
  /\ UNCHANGED <<local, tables, redis, before>>

-----------------------------------------------------------------------------
(* createCurrency: findOne, then save.                                     *)
StartCurrency(p) ==
  /\ \E c \in Currencies : Start(p, "currency", "findCurrency", c)
  /\ UNCHANGED todo

(* Mutant: createCurrency does not look for the code first.                *)
FindNoCurrency(p) ==
  /\ At(p, "findCurrency")
  /\ Goto(p, "saveCurrency")
  /\ UNCHANGED <<local, tables, redis, before>>

FindCurrency(p) ==
  /\ At(p, "findCurrency")
  /\ Goto(p, IF currencies[about[p]] = NoCurrency THEN "saveCurrency" ELSE "refused")
  /\ UNCHANGED <<local, tables, redis, before>>

(* save looks the primary key up and then inserts or updates: when another *)
(* request has inserted the code meanwhile, its row is overwritten, ...    *)
SaveCurrency(p) ==
  /\ At(p, "saveCurrency")
  /\ currencies' = [currencies EXCEPT ![about[p]] = p]
  /\ Goto(p, "done")
  /\ UNCHANGED <<local, pairs, redis, before>>

(* ... or, when it did so after that look, the primary key is violated.    *)
DuplicateCurrency(p) ==
  /\ At(p, "saveCurrency")
  /\ currencies[about[p]] # NoCurrency
  /\ Goto(p, "refused")
  /\ UNCHANGED <<local, tables, redis, before>>

-----------------------------------------------------------------------------
(* createPair: the currencies, the pair, then save.                        *)
StartPair(p) ==
  /\ \E k \in Pairs : Start(p, "pair", "findCurrencies", k)
  /\ UNCHANGED todo

HasCurrencies(k) == \A i \in 1..2 : currencies[k[i]] # NoCurrency

FindCurrencies(p) ==
  /\ At(p, "findCurrencies")
  /\ Goto(p, IF HasCurrencies(about[p]) THEN "findPair" ELSE "refused")
  /\ UNCHANGED <<local, tables, redis, before>>

FindPair(p) ==
  /\ At(p, "findPair")
  /\ Goto(p, IF pairs[about[p]] = "none" THEN "savePair" ELSE "refused")
  /\ UNCHANGED <<local, tables, redis, before>>

(* Mutant: currency_pairs has no unique index on the two codes.            *)
SavePairAnyway(p) ==
  /\ At(p, "savePair")
  /\ pairs' = [pairs EXCEPT ![about[p]] = "active"]
  /\ Goto(p, "done")
  /\ UNCHANGED <<local, currencies, redis, before>>

(* The row has a fresh id, so save inserts; the unique index decides.      *)
SavePair(p) ==
  /\ At(p, "savePair")
  /\ IF pairs[about[p]] = "none"
     THEN /\ pairs' = [pairs EXCEPT ![about[p]] = "active"]
          /\ Goto(p, "done")
     ELSE Goto(p, "refused") /\ UNCHANGED pairs
  /\ UNCHANGED <<local, currencies, redis, before>>

-----------------------------------------------------------------------------
(* togglePairStatus: findOneBy, then save of the negated status.           *)
StartToggle(p) ==
  /\ \E k \in Pairs : Start(p, "toggle", "readPair", k)
  /\ UNCHANGED todo

ReadPair(p) ==
  /\ At(p, "readPair")
  /\ read' = [read EXCEPT ![p] = pairs[about[p]]]
  /\ Goto(p, IF pairs[about[p]] = "none" THEN "refused" ELSE "saveToggle")
  /\ UNCHANGED <<kind, about, todo, rate, tables, redis, before>>

(* Mutant: the pair is disabled whatever it was.                           *)
Disabled(status) == "disabled"

Negated(status) == IF status = "active" THEN "disabled" ELSE "active"

SaveToggle(p) ==
  /\ At(p, "saveToggle")
  /\ pairs' = [pairs EXCEPT ![about[p]] = Negated(read[p])]
  /\ read' = [read EXCEPT ![p] = "none"]
  /\ Goto(p, "done")
  /\ UNCHANGED <<kind, about, todo, rate, currencies, redis, before>>

-----------------------------------------------------------------------------
Aged(slot) ==
  IF slot = GoneSlot \/ slot.value = CacheTtl THEN slot ELSE [slot EXCEPT !.value = @ + 1]

(* Time passes; beyond CACHE_TTL the age of a rate is not told apart.      *)
Tick ==
  /\ redis' = Elapse([k \in Pairs |-> Aged(redis[k])])
  /\ UNCHANGED <<pc, local, tables, before>>

(* Requests end without an answer: one by an error of a store, or all that *)
(* are served when the process dies.                                       *)
Crash ==
  \E dead \in SUBSET {p \in Requests : pc[p] \notin Ended \cup {"idle"}} :
    /\ dead # {}
    /\ pc' = [p \in Requests |-> IF p \in dead THEN "lost" ELSE pc[p]]
    /\ UNCHANGED <<local, tables, redis, before>>

Serve(p) ==
  \/ StartTrade(p) \/ StartListing(p) \/ NextPair(p)
  \/ LookUp(p) \/ Fetch(p) \/ FetchFails(p) \/ Store(p) \/ ExecuteTrade(p)
  \/ StartCurrency(p) \/ FindCurrency(p) \/ SaveCurrency(p) \/ DuplicateCurrency(p)
  \/ StartPair(p) \/ FindCurrencies(p) \/ FindPair(p) \/ SavePair(p)
  \/ StartToggle(p) \/ ReadPair(p) \/ SaveToggle(p)

Next == Tick \/ Crash \/ \E p \in Requests : Serve(p)

Spec == Init /\ [][Next]_vars

-----------------------------------------------------------------------------
Done(operation) == {p \in Requests : kind[p] = operation /\ pc[p] = "done"}

Overlap(p, q) == p \notin before[q] /\ q \notin before[p]

(* A rate that getRate gave a trade had been stored less than CACHE_TTL    *)
(* before, whichever requests filled the cache and in whatever order: the  *)
(* TTL runs from the store, and a hit does not renew it.                   *)
QuoteIsRecent ==
  \A p \in Done("trade") : rate[p] < CacheTtl

(* Of the createPair requests for two currencies at most one is answered   *)
(* with a pair, in a race too, and both currencies of a pair exist.        *)
PairsAreUnique ==
  /\ \A p, q \in Done("pair") : about[p] = about[q] => p = q
  /\ \A k \in Pairs : pairs[k] # "none" => HasCurrencies(k)

(* The row that createCurrency answered stays as it was written, unless    *)
(* another createCurrency of the same code overlapped.                     *)
CreationSticks ==
  \A p \in Done("currency") :
    \/ currencies[about[p]] = p
    \/ \E q \in Done("currency") \ {p} : about[q] = about[p] /\ Overlap(p, q)

(* As long as no two toggles of a pair overlap, the pair's status is the   *)
(* one that the number of answered toggles gives.                          *)
TogglesCount ==
  \A k \in Pairs \cap Seeded :
    LET toggles == {p \in Done("toggle") : about[p] = k}
    IN (\A p, q \in toggles : p # q => ~Overlap(p, q))
       => (pairs[k] = "active" <=> Cardinality(toggles) % 2 = 0)
=============================================================================
