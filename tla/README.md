# Verification of the FX trading backend

TLA+ modules, TLC configurations and TLAPS proofs for the NestJS backend in
`src/` (accounts, wallets, fundings, currency conversions over Postgres, Redis
and BullMQ). Paths below are relative to the repository.

## 1. The system

One Node process serves HTTP requests. A handler runs until its next `await`;
between two awaits of one request any number of steps of other requests run.
The state is in Postgres (through TypeORM, one pool of connections) and in
Redis (cache, refresh tokens, BullMQ's email queue).

| component | state it keeps | operations | talks to | hard parts |
|---|---|---|---|---|
| Trading (`src/trading`) | `trades`, `trade_fees` | `executeTrade`, two reads | wallet rows, FX, audit, email queue, users | row locks, idempotency, commit before the email, connections |
| Wallet and funding (`src/wallet`) | `wallets`, `wallet_balances`, `funding_transactions` | `initializeFunding`, `verifyFunding`, `getBalances` (creates a wallet), history | funding provider, audit, email queue | status read before the transaction, first wallet, first row |
| Audit (`src/audit`) | `ledger_entries`, `audit_logs` | `recordLedgerEntry`, `recordAuditLog` (no caller), reads | called inside the transactions of the two above | entry and balance in one transaction |
| FX (`src/fx`) | `currencies`, `currency_pairs`, cached rates | `getRate`, `getAllActiveRates`, create and toggle | rate provider, Redis | cache age, concurrent misses, toggling |
| Accounts (`src/iam`) | `iam_users`, email tokens | register, login, verify email, request new token | wallet and profile rows, email queue | token use, partial registration |
| Passwords (`src/iam/users`) | reset and change tokens, history | request, verify, reset, change, verify change | email queue | three calls that interleave, reuse of a password |
| Sessions (`src/common/services`) | one refresh token id per user in Redis | generate, refresh, logout | Redis | validate, invalidate and insert are three steps |
| Notifications (`src/notification`) | BullMQ jobs | dispatch, process | SMTP | job ids, one attempt only |
| Local storage (`src/common/services/local-storage`) | Redis keys | cache, rate limit, tags, lock helpers | Redis | lock expiry, two-step updates |
| Profiles (`src/account`) | profile rows | read, list, update, update KYC, update scope | guards | read-modify-write of a row, guards missing |
| Guards, filters, pipes, templates, bootstrap, migrations | none of their own | decisions on one request, text, static data | | nothing concurrent |

What makes them correct:

* money: no balance is negative or too large for its column; every balance is
  the sum of its ledger entries; a conversion or a funding is all or nothing;
  one trade per idempotency key, one credit per payment reference; what the
  user is told is true; every request is answered;
* FX: a rate is no older than the cache's TTL, a disabled pair is not traded;
* accounts, passwords: an address has one account, which is whole; a code works
  once, for the operation it was issued for, and the codes before it do not; a
  password of the history is not set again; what is mailed can be used;
* sessions: a refresh token works once, a logout stands, a session does not end
  by itself;
* local storage: at most one holder of a lock, no call above the limit, no
  counter that never expires, no value that outlives the end of its group;
* profiles: a user reads and changes the own profile; KYC status and the scope of
  an admin are changed by who may.

Not all of this holds: section 3 says where the code falls short.

## 2. Modules

| module | models |
|---|---|
| `WalletStore` | the wallet part of Postgres: row versions, row locks, unique index, connection pool, ledger entries of a row |
| `Trading` | `TradingService.executeTrade`, await by await |
| `Funding` | `WalletService.initializeFunding`, `getOrCreateWallet`, `verifyFunding`, await by await |
| `Exchange` | both over one store |
| `Bank` | abstract: money moves in one step, once per key and per reference |
| `TradingInvariant` | the conjuncts of the inductive invariants of `Trading` |
| `TradingProofs` | types and idempotency of `Trading`, proved |
| `LedgerProofs` | balances, ledger and isolation of `Trading`, proved |
| `FundingProofs` | `Funding` and `Trading` together: money, status, credits of a reference, `Bank`, proved |
| `RedisStore` | the Redis commands of `RedisService`, as operators on keys with a time to live |
| `RedisProofs` | what those operators do to a key, proved |
| `Sessions` | `generateJwtTokens`, `refreshToken`, `logout`, command by command, over `RedisStore` |
| `SessionsProofs` | types, rotation, logout and liveness of a session, proved |
| `FxRates` | `FxService`: the cached rate and its two callers, currencies, pairs, over `RedisStore` |
| `FxProofs` | types, cache, currencies, pairs and toggles of `FxRates`, proved |
| `LocalStorage` | the helpers of `LocalStorageService`, command by command, over `RedisStore` |
| `LocalStorageProofs` | types, lock, limiter, counters and tags of `LocalStorage`, proved |
| `Accounts` | `UsersService` and `AdminsService`: registration, email verification, password reset and change, with their one-time codes |
| `AccountsProofs` | types, registration, codes and passwords of `Accounts`, proved |
| `Profiles` | the routes, guards and services of `src/account` |
| `MC...` | the instances TLC checks |

`Trading` and `Funding` are composed in `Exchange`; `Sessions`, `FxRates` and
`LocalStorage` extend `RedisStore`. `Sessions` begins where the login or the
verification of `Accounts` has accepted a user, and `FxRates` has the first and
the last step of `executeTrade`, whose middle is `Trading`.

### State and code

`store[r]` is the committed row of `wallet_balances` for `r = <<user,
currency>>`: whether it exists, its balance, and the ledger entries written
about it, in order. `draft[r]` is the version of the transaction that holds the
row's lock, `locks[r]` that transaction, `open` the transactions, each of which
occupies a connection. Postgres runs at READ COMMITTED: a query sees its own
draft or the committed row (`Visible`); FOR UPDATE waits for the holder of a
row it can see (`LockWaits`); a row being inserted is seen by nobody else, and
a second insert of it waits for the first to end and then fails or goes on
(`WriteRow` with `InsertDestination`/`DuplicateDestination`).

`tpc[s]` and `fpc[s]` are the await at which request `s` stands, named for the
statement it runs next. The local variables that live across awaits are state
too: `trate` (`rate`), `tsrc` (`sourceBalanceBefore`), `tdst`
(`destBalanceBefore`), `fref` (`transaction`), `fbefore` (`balanceBefore`).

| action | `trading.service.ts` |
|---|---|
| `CheckIdempotency` | 42-47 |
| `GetRate`, `RateUnavailable` | 50-53 |
| `BeginTrade` | 56 |
| `LockSource`, `InsufficientBalance` | 58-65 |
| `DebitSource` | 72-76 |
| `LockDestination`, `MissingDestination` | 79-90 |
| `UpdateDestination`, `InsertDestination`, `DuplicateDestination`, `DestinationOverflows` | 92-95 |
| `RecordTrade`, `DuplicateTrade` | 98-112 |
| `RecordDebit` | 115-138 |
| `RecordTradeCredit` | 141-159 |
| `NotifyTrade` | 162-173 |
| `CommitTrade`, `Reply` | 175-177 |
| `DeadlockVictim` | Postgres' deadlock detector |
| `AbandonTrade` | any failing await, a lost connection, a crash |

| action | `wallet.service.ts` |
|---|---|
| `StartFunding` | 97-110 |
| `FindWallet`, `CreateWallet`, `DuplicateWallet` | 80-87 |
| `IssueReference`, `SaveFunding` | 114-132 |
| `ReadFunding`, `RefuseFunding` | 135-146 |
| `AskProvider` | 148-150 |
| `BeginCredit`, `MarkCompleted` | 151-159 |
| `LockBalance`, `MissingBalance` | 162-173 |
| `UpdateBalance`, `InsertBalance`, `DuplicateBalance`, `BalanceOverflows` | 175-177 |
| `RecordCredit`, `CommitCredit` | 180-191 |
| `NotifySuccess` | 194-203 |
| `MarkFailed`, `NotifyFailed` | 205-221 |
| `AbandonFunding` | as `AbandonTrade` |

A crash of the process is every request in progress abandoned, in some order:
what is not committed is rolled back by Postgres, what is in the queue stays.

The other components have no transaction longer than one step, and so no locks
to model: their state is the rows and keys, and `pc[p]`, the await of request
`p`. A request is made once and is its own name: the pair of tokens it signs,
the code it issues, the row it writes carry it. `Crash` ends any of the
requests in progress, one by a failing await or all of them with the process.

| action of `Sessions` | code |
|---|---|
| `StartLogin` | `users.service.ts` 231; also 305 and `admins.service.ts`' login |
| `StartRefresh` | `helper.service.ts` 104-114 |
| `StartLogout`, `Logout` | `access-token.guard.ts`; `users.service.ts` 807-808 |
| `Validate` | `refresh-token-storage.service.ts` 36-42 |
| `Invalidate` | `users.service.ts` 764-769, `refresh-token-storage.service.ts` 44-46 |
| `SignPair`, `Insert` | `helper.service.ts` 86-94, 96-99 |

| action of `FxRates` | code |
|---|---|
| `StartTrade`, `ExecuteTrade` | `trading.service.ts` 50, 56-176 |
| `StartListing`, `NextPair` | `fx.service.ts` 60-76 |
| `LookUp`, `Fetch`, `FetchFails`, `Store` | 40-43, 47, 53-56, 50 |
| `FindCurrency`, `SaveCurrency`, `DuplicateCurrency` | 86-92, 94-95 |
| `FindCurrencies`, `FindPair`, `SavePair` | 135-142, 144-153, 155-160 |
| `ReadPair`, `SaveToggle` | 192-195, 197-198 |

| action of `LocalStorage` | `local-storage.service.ts` |
|---|---|
| `Acquire`, `Leave`, `Compare`, `Release` | 487, 521-523, 496, 499 |
| `Increment`, `StartWindow`, `AnswerLimit` | 439, 442, 445-450 |
| `Add`, `Renew` | 425, 426 |
| `LookUp`, `Fill` | 286, 291-292 |
| `Try`, `TryFails` | 403, 405-414 |
| `AddToTag`; `ReadTag`, `DeleteMembers`, `DeleteTag` | 458; 468, 472, 473 |
| `ReadKeys` (with `DeleteMembers`) | `redis.service.ts` 224-225 |

| action of `Accounts` | `users.service.ts` |
|---|---|
| `Register` | 81-169: the read, `CreateAccount` 118-144, `SaveCode` 150, `Dispatch` 157 |
| `RegisterAdmin` | `admins.service.ts` 34-89 |
| `VerifyEmailToken` | 245-317: `LookUpCode`, `ExpireCode`, `UseCode`, `ConfirmEmail` |
| `RequestNewToken`, `PasswordResetRequest` | 647-739, 319-359: `RetireCodes`, `SaveCode`, `Dispatch` |
| `VerifyPasswordResetToken` | 361-413 |
| `PasswordReset` | 415-497: `PickCode`, `CheckHistory`, `CommitPassword` |
| `ChangePassword` | 499-567: `CheckHistory`, `SaveCode`, `Dispatch` |
| `VerifyChangePasswordToken` | 569-645: `LookUpCode`, `ExpireCode`, `CommitPassword` |
| `ProcessMail` | `email.processor.ts` 25-51 |

| action of `Profiles` | code |
|---|---|
| `Come` | the routes of the two controllers, `AuthenticationGuard` |
| `AccessTokenGuard`, `RolesGuard` | the guards |
| `FindByUserId`, `Save` | `user-profile.service.ts` 15-35, `admin-profile.service.ts` 15-35 |
| `FindAll` | `admin-profile.service.ts` 37-39 |

Definitions commented "Mutant" are the variants of an action, each with a
plausible bug, that show each property can fail; no specification uses them.

### What is abstracted

* Amounts are whole numbers of 1e-8, the unit `numeric(18,8)` stores, and are
  rounded where Postgres rounds (half up). The code computes with JavaScript
  numbers; their binary error is not modelled.
* A trade is known by its idempotency key and a funding by its reference, also
  as the `entityId` of ledger entries (the code uses row ids; each of the two
  columns is unique in its table). A reference stands for all that
  `initializeFunding` saved with it (`Deposit`).
* `FxService.getRate` answers any rate of `Rates` or fails. The provider
  answers any outcome of `Outcomes`.
* The email queue is the set of the jobs handed to it. Users exist, so the
  lookup before an email finds one; two jobs with one job id are not told apart.
* Reads that change nothing (`getUserTrades`, `getTradeById`,
  `getFundingHistory`, `getLedger`) have no action. `getBalances` is
  `getOrCreateWallet` and a read.
* `NoRequest`, `NoRef`, `Nobody`, `Gone`, `Blank` are values for "none".
* Time is a number of units left to a key, a token or a code; `Tick` takes one
  from each. In `FxRates` a cached rate is the time since it was stored.
* Hashing and signing are one to one. A code is drawn from `Codes` and may be
  one that was drawn before: it has four digits, its column is unique, and no
  row is ever deleted, so that the save then fails. (`src/README.md` line 82
  promises six digits; `generateToken` is called without a length, and makes
  four. How many codes there are matters to no property.)
* In `Accounts` a code or a password is chosen at the step that first looks at
  it. A request refused at its first read leaves nothing behind.
* Provider rates are not 0: `getRate` would take a cached 0 for a miss.
* `getAllActiveRates` prices the pairs at once; here one after another in any
  order. They have different keys, so no order shows more.
* Variables commented "(history)" are read by properties only: `before[p]` (the
  requests that were over when `p` came), `used`, `window`, `windows`,
  `expired`, `late`. `Overlap` and its like are defined from `before`.
* The accounts that the seed migration inserts have no row in
  `password_histories`; `Accounts` starts from no account or from one that
  `register` made (unverified, or verified and waiting for a reset), and
  `AccountIsWhole` is about those.

## 3. Runs

| run | instance | question | result |
|---|---|---|---|
| `trading` | 2 traders of one user, rows NGN 100 and USD 60, no GBP row, two keys, rates 1 and 2, pool of 3 | is the money right and every request answered under every interleaving and failure? | holds; 108,240 states |
| `exchange` | 2 traders and 1 funder on the rows NGN and USD, two references, both outcomes, pool of 4 | do trades and fundings together implement `Bank`? does a settled funding stay settled? | holds; about 420,000 states |
| `funding` | 2 funders and 1 trader, no wallet and no row at the start, two references, both outcomes, pool of 4 | do the races to create the wallet and the row end well? what stays true when two verifications of one reference overlap and are answered differently? is every request answered? | holds; 181,000 states, two minutes |
| `sessions` | 4 requests, up to 2 users, an access token lives 1 unit, a refresh token 2 | is a refresh token good once, a logout final, a session alive until something ends it? | holds; 602,000 states |
| `fx` | 3 requests, a seeded pair and a pair whose quote currency is missing, TTL 2 | how old is a rate? what do races of admins leave? | holds; 380,000 states |
| `storage` | 3 requests, one lock, counter, tally, tag and item, limit 1, 2 attempts | do the helpers keep their promise when a client is slow or dies? | holds; 362,000 states |
| `accounts` | 3 requests of any kind for one address, 3 passwords, 2 codes | do accounts and codes stay consistent? is an older code dead? | holds; 1,009,000 states, one minute |
| `double_credit` | 2 funders | is a payment credited once? | violated, see below |
| `pool_stall` | `trading` with a pool of 2 | is every request answered? | violated |
| `early_email` | `trading` | is a confirmed trade committed or about to be? | violated |
| `logout_undone` | `sessions` | does a logout stand? | violated |
| `given_by_staff` | 2 requests on any route, 2 users, an admin, a super admin | are KYC and scope written by who may? | violated |

The requests of `trading` are chosen so that the two traders meet in every way
the code can: opposite directions over two rows (deadlock), two inserts of the
missing row, source and destination the same row, the same key in different
requests, a balance too small for both, a credit that overflows `MaxBalance`
(at rate 2 but not at rate 1). Two sessions are enough for every wait between
two transactions; `exchange` has three. Nothing else is bounded: sessions take
requests over and over, and the state space is finite because a key trades once
and a reference is issued once.

In the runs over one-shot requests the number of requests is the bound, and it
is what the properties need: each speaks of two requests, and of a third that
comes between them (the verification that writes an old code back beside a new
request, the toggle between two, the invalidation during a tagging), a fourth in
`sessions` (login, refresh, logout, and one more refresh). Three requests of
`accounts` show a code that is used up, one that a verification writes back
beside a new request, and one that two resets share; that a code which was
written back resets the password once more takes four, and is left to the
theorem `ResetsUseCodesUp`, which holds for any number. Any assignment of kinds to
requests is among the behaviours. Times to live of 1 and 2 let a key expire
before, between and after any two steps; longer ones only delay that. Two codes
are enough for an old and a new one and for a repeated draw; three passwords for
the first, the one that a request brings, and another. Requests, codes,
users and passwords (but for the first) are interchangeable in these
specifications and nothing temporal is checked there, so that symmetry is sound.

`CHECK_DEADLOCK` is on everywhere but in the run of `Profiles`, whose requests end:
elsewhere clients may always submit or time may always pass.

### Fairness

`FairTradingSpec` and `FairExchangeSpec` assume strong fairness of what the
server does for each request (`HandleTrade`, `HandleFunding`), and nothing of
clients (`Submit`, `StartFunding`, `ReadFunding`) or of failures. The event loop
runs every callback that is ready; a request that waits for a row lock or for a
connection waits in Postgres' or in the pool's first-in-first-out queue, so it
is served if the lock or a connection becomes free again and again. That is
strong fairness; weak fairness would allow others to overtake for ever.
The passing liveness runs have more connections than concurrent trades, as
`pool_stall` shows they must.

The other specifications have no fairness: a request of theirs waits for
nobody, so that it is answered if its awaits are, and their properties are about
safety.

### What the properties say of races

Some of the code's sequences of read and write can be interleaved to lose
something. The properties state exactly what is then still true, so that the
run shows both the promise and its limit:

* two refreshes with one token may both be answered (`users.service.ts`
  759-766); the token is dead afterwards
  (`ExchangedTokenIsDead`), and only the last of the new pairs is live. A logout
  during a refresh is undone by it (run `logout_undone`), and by nothing that
  had ended (`LogoutEndsSession`);
* two verifications of one reference may both credit it (`double_credit`), and
  with different answers of the provider leave it credited and failed (205-210
  sets the status by id alone; `funding` has both). What is completed or
  told to be is still credited, and what is credited settled
  (`CreditedIsSettled`); and from the first settlement on the number of
  credits and of the requests that may still add one never grows
  (`CreditsOnlyDrain`), so that a payment is credited at most once for each
  request that read it as pending before that;
* two toggles at once count as one; others count (`TogglesCount`). One of two
  `createCurrency` may be overwritten, by an overlapping one only
  (`CreationSticks`);
* two requests for a code at once leave two codes that can be verified. A code
  older than a later request is used up, verified or not, with one exception: a
  `verifyPasswordResetToken` that found a reset code before the request retired
  it writes `isUsed: false` afterwards (405-408), so that the old code can be
  verified again beside the new one (`OlderCodesAreRetired` says that this needs
  a verification of that code which overlapped the request). A reset code is
  used once, unless its verification was repeated during the reset or after it,
  which revives it, or two resets overlapped (`ResetUsesCodeUp`);
* `passwordReset` sets no password of the history that it was called with, and
  `verifyChangePasswordToken`, which compares with nothing, none of the history
  that its `changePassword` was called with (`OldPasswordIsRefused`). A password
  that comes into the history between these two is set again: two changes to one
  password that are asked for before either is verified are both carried out;
* a lock can be deleted by another only if it expired between `get` and `del`
  (`LeaseIsExclusive`); a tagged value can outlive its group only if it was
  tagged during an invalidation (`TaggedValueIsGone`); a counter stays for ever
  only if a client died between `incr` and `expire` (`CounterExpires`).

### Findings

* `double_credit`: `verifyFunding` checks `status` at line 144 and updates by
  id at 153 inside a transaction that does not look again. Two requests for
  one reference credit it twice. `CreditedOnce` holds with one request at a
  time (`exchange`).
* `pool_stall`: `executeTrade` line 162 uses `userRepo`, not the transaction's
  manager, and so needs a second connection while it holds one. With as many
  trades there as connections (`app.module.ts` sets no pool size: 10), none
  is answered.
* `early_email`: line 164 queues the confirmation before the COMMIT.
* `logout_undone`: `refreshToken` validates, deletes and inserts the id in three
  awaits, and a logout between the first and the third is undone: the session
  goes on under the new id.
* `given_by_staff`: the guards of `UserProfileController` are commented out, so
  nothing reads the `@Roles` of `updateKyc`: any request, with or without a
  token, writes the KYC status of any user.

What the models show beside these runs, without one of its own:

* `@ActiveUser('sub')` is undefined without those guards, TypeORM leaves the
  condition out, and `/user-profiles/me` is answered with any profile, or
  updates it (`Found`).
* `update` and `updateMe` read a row and save all of it one await later: a scope
  or a KYC status that was changed in between is written back by the owner's
  request. With `guarded` set to TRUE in `UserRoutes`, this is what TLC refutes
  `GivenByStaff` with.
* `togglePairStatus` writes `isActive`, and neither `getRate` nor `executeTrade`
  reads it: a disabled pair is traded, though `src/README.md` line 128 has the
  toggle "enable/disable trading for a pair" (`ExecuteTrade`).
* The outcomes of races named in the list above: a credited funding that is
  marked failed (the mock provider answers a reference the same each time; its
  interface does not promise that), a refresh token exchanged twice, a password
  of the history set again by `verifyChangePasswordToken`.

## 4. Proofs

`tlapm` checks every step of the theorems below and of the lemmas under them,
for any number of sessions, users, currencies, keys, requests, codes, rates and
lives of tokens, keys and codes. The last column names what a theorem says of
every behaviour of the specification of its component.

| module | theorem | proves |
|---|---|---|
| `TradingProofs` | `TypeCorrect` | `TradingTypeOK`; a request in progress is known |
| | `TradesAreIdempotent` | `OneTradePerKey` |
| | `AnswersAreDurable`, `TradesAreConfirmed` | `AnsweredTradeIsDurable`, `ExecutedTradeIsConfirmed` |
| `LedgerProofs` | `MoneyIsRight` | `BalancesInRange`, `LedgerReconciles` |
| | `NothingIsOverdrawn` | `BalancesInRange` alone |
| | `LedgerIsAppendOnly`, `TradesAreIsolated` | `LedgerOnlyGrows`, `Isolation` |
| | `LedgerMatchesTrades` | `TradesMatchLedger` |
| `FundingProofs` | `ExchangeTypeCorrect`, `AllMoneyReconciles` | types; `LedgerReconciles`, `BalancesInRange` with fundings |
| | `TradesAmongFundings` | `OneTradePerKey`, `TradesMatchLedger` with fundings |
| | `SettledStaysSettled` | `SettledForGood` |
| | `StatusFollowsMoney` | `CompletedIffCredited`, if the provider reports no failure |
| | `CreditsAreSettled`, `CreditsDrain` | `CreditedIsSettled`, `CreditsOnlyDrain` |
| | `StatusAgrees`, `NoticesStayTrue` | `CompletedIffCredited`, `NoticesAreTrue`, under `[]NoOverlap` |
| | `ExchangeIsABank` | `ImplementsBank`, under `[]NoOverlap` |
| `SessionsProofs` | `SessionsAreSafe`, `SessionsTypeCorrect` | `SessionInv`, `TypeOK` |
| | `RotationIsFinal`, `LogoutIsFinal` | `ExchangedTokenIsDead`, `LogoutEndsSession` |
| | `SessionsStayLive` | `AnsweredSessionIsLive` |
| `FxProofs` | `RatesAreSafe`, `CacheIsBounded` | `FxInv`; the types and `CacheInv` |
| | `QuotesAreRecent` | `QuoteIsRecent` |
| | `PairsStayUnique`, `CreationsStick`, `TogglesAreCounted` | `PairsAreUnique`, `CreationSticks`, `TogglesCount` |
| `LocalStorageProofs` | `StorageIsSafe`, `LeasesAreExclusive` | `StorageInv`, `LeaseIsExclusive` |
| | `LimitsHold`, `CountersExpire` | `LimitPerWindow`, `CounterExpires` |
| | `TaggedValuesAreGone` | `TaggedValueIsGone` |
| `AccountsProofs` | `AccountsAreSafe`, `AccountsTypeCorrect` | `AccountsInv`, `TypeOK` |
| | `AccountsAreWhole`, `AddressesAreUnique`, `OnlyVerifiedLogin` | `AccountIsWhole`, `RegisteredOnce`, `VerifiedByUsedCode` |
| | `OlderCodesAreDead`, `MailedCodesAreSaved` | `OlderCodesAreRetired`, `MailedCodeIsSaved` |
| | `ResetsAreVerified`, `ResetsUseCodesUp`, `OldPasswordsAreRefused` | `ResetNeedsVerifiedCode`, `ResetUsesCodeUp`, `OldPasswordIsRefused` |

They rest on the named assumptions of the modules, and on nothing else:

* `StoreAssumption`, `TradingAssumption`: opening balances are in range and rows
  that do not exist have none (the migration inserts the others); amounts are
  positive (`@Min(0.00000001)` and `@Min(1)` of the DTOs), rates are not negative, the fee is
  between 0 and 100 percent. The pool has at least one connection; nothing is
  assumed of its size, of the order of requests or of failures.
* `FundingAssumption`, `ExchangeAssumption`: the sessions that handle fundings are
  finitely many (needed to count them in `CreditsOnlyDrain`), a payment is positive, the provider
  answers success or failure, a reference is no idempotency key and a session
  handles either trades or fundings.
* `SessionsAssumption`, `FxAssumption`, `LocalStorageAssumption`,
  `AccountsAssumption`: lives are positive, the limiter's limit is a number,
  the values that stand for "nothing" are not values. `SeedAssumption`: the
  seed migration inserts a pair after its two currencies. `RequestsAssumption`
  and `LocalStorageAssumption` also say that the requests of a behaviour are
  finitely many, which is needed to count them too (`TogglesCount`,
  `LimitPerWindow`). `KeysAreApart`: the callers' prefixes keep locks, counters
  and tags apart from cached values.

None of the safety properties is inductive. Each component has an invariant
that is, whose parts are explained below; every one of them has been checked by
TLC on the component's run too (the runs list the properties that follow; where
a proof says `\E i`, the check bounded `i` by the length of the ledger).

**Keys.** `OneTradePerKey` is not inductive: whether a commit may add a trade
depends on what other open transactions have inserted. `IdempotencyInv` adds
`KeyInv`: of the transactions past their `INSERT INTO trades` no two have one
key, none has a key that is committed, and the one about to commit has queued
its email. `KeyKept` shows that every step but the commit keeps this,
`KeyCommitted` does the commit. The check of line 42, before the transaction,
is not needed for this: the unique index alone gives it.

**Money.** `BalancesInRange` and `LedgerReconciles` speak of committed rows, and
a commit publishes what was computed many steps before. `MoneyInv` adds what
links the two:

* `LockInv`: a transaction holds exactly the rows of its trade it has locked or
  written so far;
* `RowInv`: a row nobody holds has no uncommitted version, a row that does not
  exist has no money and no history (needed when one is inserted);
* `DraftInv`: the uncommitted version of a held row is the committed one with
  the amounts moved and the entries recorded so far, and `sourceBalanceBefore`
  and `destBalanceBefore` are still what the rows held.

Each operation of the store leaves the rows of other sessions as they are (the
`...Frame` lemmas), so their part of the invariant is kept (`OthersKept`); for
the session that moves, one lemma per action (`Kept...`) shows that it reaches
the next point with its own part true. `CommittedRow` then shows that what
COMMIT publishes is in range and continues the chain of entries
(`ReconcilesAppend`), also when source and destination are one row and both
entries land in it, and that the entries that were there still are, which is
`LedgerIsAppendOnly`. `Isolation` is `LockInv`, `RowInv`, `DraftInv` and `KeyInv`
together; the run `trading` checks it too.

**Ledger and trades.** `TradesMatchLedger` counts the entries about a key in two
rows. `BookInv` says it in a form that one append can keep: each committed trade
has one matching entry in each of its rows, and the rows with entries about a
key are the two of a committed trade. A commit adds a trade and its two entries
in one step (`BookCommitted`); that none was there before is `KeyInv`, that the
uncommitted version holds exactly the two new ones is `DraftInv`.

**Fundings.** `FundsInv` is `MoneyInv` with the same for fundings: a verification
holds the row it credits and no other (`FunderHolds`), its version of the row is
the committed one with the amount and the entry so far (`FunderDraft`). A step
of either kind leaves the rows and the local state of all other sessions alone
(`OthersSame`), so that the two halves never meet but in the store; the pool may
be of any size. `AllMoneyReconciles`, `TradesAmongFundings` and
`SettledStaysSettled` follow for any interleaving, also of requests for one
reference.

Not all that is said of one reference does: `double_credit` is one
counterexample, a funding that is credited and marked failed another. `StatusInv` is what any interleaving
keeps (a reference is issued once, what is completed or told to be has been
credited, what is not settled has not), from lemmas that say what each step does
to references (`Effects`, `IssueStep`, `CreditStep`). `CreditsAreSettled` is part
of it. `CreditsDrain` says how far the damage goes: a COMMIT adds one credit
(`CommitCredits`) and its request is a verifier no more, and once the status is
not pending nothing becomes one (`VerifiersShrink`), so that the two numbers
together never grow (`DrainStep`). That the status and the credits agree in both
directions needs one more fact:

* `NoOverlap`: no two requests are about one reference. Then what a request read
  of the status stays true until it writes (`AloneInv`), so that it credits what
  is pending, and only then. The theorems have `[]NoOverlap` as a hypothesis:
  it is the part of the promise that the code leaves to its callers. It holds
  of every behaviour with one funder, as in the run `exchange`; TLC has also
  checked `AloneInv` and `ImplementsBank` with two funders and no overlap;
* or a provider that reports no failure (`SuccessInv`): two verifications then
  may both credit, but both write "completed".

**Bank.** The refinement maps the committed rows to balances, the keys of `trades`
to conversions made, and the references with a `CREDIT` entry to payments
credited. `CommitConverts` shows that COMMIT of a trade is `Convert`, also when
both rows are one (`TwoMoves`), with the request and rate it began with
(`AskedInv`); `CommitPays` that COMMIT of a verification is `Credit`, for which
the reference must not be credited yet: here `AloneInv` is needed.
`OthersQuiet` shows that every other step stutters.

**Sessions.** That an exchanged token is dead is about requests that are
answered, and a refresh is already bound to it when it has deleted the key, two
steps earlier. `SessionInv` adds

* `PresentedIsIssued`: a request presents only a pair that was answered;
* `ShownIsDead`: from the deletion of the key on, the id that a refresh was
  shown is not under the key. Only `Insert` puts an id there, its own, and it
  does so before its pair is answered, hence never again;
* `OverStaysOver`: the requests of `before` stay over, so that `Insert` puts
  none of them under the key, which makes `LogoutEndsSession` inductive;
* `KeyOutlivesToken`: as long as no other request has written the user's key
  since a pair was asked for, the key holds the pair's id and has at least the
  time left that the refresh token has. Both run down by one unit at a tick.

`SetFacts`, `DelFacts` and `ElapseFacts` say what the Redis commands do to the
key and to the others. The run `sessions` has also been made with `SessionInv` as
its invariant; it lists the three properties.

**FX.** Nothing locks a currency or a pair between the look and the save.
`FxInv` says what keys, indexes and the order of the looks leave true:

* `CacheInv`: the age of a cached rate and the life its key has left add up to
  the TTL, since a hit does not renew the key. A rate that was just read is
  then younger than the TTL, and `RateInv` carries that to the end of the trade;
* `PairInv`: a pair is never deleted and refers to currencies that exist. Who is
  about to save a pair needs no more: the unique index refuses the second;
* `CurrencyInv`: who is about to save a currency looked at a time when no
  request that was over before it had created it. That is why only an
  overlapping `createCurrency` can be overwritten;
* `ToggleInv`: who is about to save a toggle has read the status the pair still
  has, or an overlapping toggle was answered meanwhile. The count of answered
  toggles changes parity with the status exactly in the first case.

**Local storage.** `StorageInv` speaks of the commands a client has sent:

* `ReleaseIsOwn`: who has compared the lock with its identifier and is about to
  delete it still owns it, unless a lease expired in between (`late`);
* `LimiterInv`: in the window that is open no more calls have passed than the
  counter says, and in none more than the limit. `INCR` raises both by one;
  an expiry opens a window in which none has passed;
* `CounterExpires` is inductive: a counter without expiry belongs to a client
  between `incr` and `expire`, or to one that was lost there;
* `TagInv`: a tagged key stays in the group until an invalidation that began
  later has taken it from there, and from its `MDEL` on the value is not one
  that was cached before the tagging.

**Accounts.** `AccountsInv` ties the rows of the three tables of codes to the
requests that wrote them or hold them:

* `AccountInv`, `RowInv`: who works for a user, or has a code, has an account,
  and nothing deletes one; a code belongs to the user of the request that holds
  it. The unique index on the address then gives `RegisteredOnce`, the
  transaction `AccountIsWhole`;
* `VerifiedInv`: an account becomes verified after a code of it was used;
* `RetiredInv`: once a request has retired the codes of its user, a code that is
  older than it and unused is one that a verification which overlaps it has
  written back (`Excused`); who still holds such a row overlaps it
  (`BusyOverlap`). `OlderCodesAreRetired` alone does not speak of the time
  between the retiring of the old codes and the save of the new one;
* `MailInv`: who mails has saved;
* `ResetInv`: a row is verified, and a reset holds a code, only after a
  `verifyReset` of that code was answered; a reset that is done has used its
  code up, or somebody verified it who was not over when the reset began;
* `HistoryInv`: what the history held when a reset or a change was asked for
  stays in it, and the new password is none of that once it was compared. A
  password that waits with a code was compared by the request that saved the
  code (`HiddenStep`), and the row still names that request when
  `verifyChangePasswordToken` sets the password (`FetchedStep`).

Only model-checked: the two properties that need fairness (`TradeIsAnswered`,
`FundingIsAnswered`: the prover has no ENABLED), `CreditedOnce` (which holds with
one request at a time only; `CreditsDrain` is what is true of many), and the
properties that the runs of the findings refute, that of `Profiles` among them.

## 5. Not modelled

* Reads without a state of their own: lists, histories, pagination, search.
* The hash, list and sorted-set commands of `RedisService`, `mget`, `mset`,
  `getdel`, `rename`, `persist` and the like: nothing in the repository sends
  them.
* Sending mail: templates, SMTP, and BullMQ beyond job ids and one attempt. No
  attempts are configured (`email.processor.ts` 48 hopes for them), so a failed
  email is lost; no document promises more.
* Pipes, filters, DTO validation, bootstrap, configuration, health: one request
  or the start, and no state that two steps share. The password rules of a DTO
  and `accountStatus`, which no code changes, are left out of `Accounts`.
* What a retry by a client library may add: ioredis may send a command again
  after a reconnect.
* Whether a rounded fee and a rounded net amount add up to the gross amount.

## 6. Plan

Every component with state of its own is modelled, and every safety property
that a passing run checks, but for `CreditedOnce`, is proved, with `NoOverlap` where the code needs it. What could follow: more of
`RedisService`, if a caller of its hashes, lists or sorted sets comes.
