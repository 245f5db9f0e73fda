# Verification of opita-market

Opita Market is a marketplace for the Huila region of Colombia. This directory models
the parts of it that hold money and promises: the payment service
(`src/packages/pagos-service`), the compliance service (`src/packages/compliance-service`),
what the web site (`src/apps/market-web`) does with both, and the script that rotates the key
of the payment provider. Modules are checked with TLC on small instances; nearly every invariant and
action property those runs check is also proved with TLAPS for every instance.

- [The system](#the-system): components, their state, how they interact, what is hard
- [The modules](#the-modules): which models what, and how names correspond
- [The runs](#the-runs): what each shows, its bounds, why they are enough
- [Fairness](#fairness)
- [The proofs](#the-proofs)
- [Disagreements with the documents](#disagreements-with-the-documents)
- [What is not modelled](#what-is-not-modelled)
- [The plan](#the-plan)

To check everything by hand: `tlc -config X.cfg M` for each row of the runs, and
`tlapm M.tla` for each module named `*Proofs`.

## The system

The code runs as AWS Lambda functions behind an HTTP gateway, plus EventBridge crons. An
instance keeps nothing that matters between requests (with one exception, the kill switch),
so **all interaction goes through DynamoDB rows** and through two outside parties, Wompi
(the payment provider) and the user's HTTP client. Three facts of this platform shape every
module:

1. Any number of instances execute requests at once, and every `await` of a DynamoDB or
   Wompi call is a place where another instance may run.
2. No read in this code sets `ConsistentRead`, so a read may return an earlier value of
   the row. The condition of a write is evaluated on the current row. Queries of an
   index are eventually consistent by definition.
3. A Lambda may die or time out after any call; the caller sees an error and may retry.

### Components of pagos-service

| component | state | operations | correct when |
|---|---|---|---|
| escrow state machine, `lib/escrow.ts` | none: a function of a transaction row, an event and the clock | `transition` with the events WOMPI_APPROVED, DELIVERY_CONFIRM, WOMPI_CHARGEBACK, BUYER_DISPUTE, DPO_RESOLVE | high-value money is released on full evidence, instant channels are irreversible, the buyer has one dispute window |
| webhook gateway, `lib/webhook-gateway` | ProcessedWebhooks | `processWompiWebhook`: age, replay check, dispatch by type, mark | an event takes effect at most once, and is marked only if it took effect |
| payment routes, `api/payments.ts`, `api/delivery.ts` | the transactions table | intent, webhook, refund, dispute, delivery confirmation | the table does not run ahead of Wompi; no two requests both settle a payment; the widget charges no more than what was booked |
| transact wrapper, `lib/transact` | none | conditional single and multi-row writes; mapping of a failed condition to an error | all rows or none |
| bonuses of a payment, `lib/transact/bonus.ts` | the bonuses table, `balance_cop` | `transactBonusClaim`, `transactReverseBonus` | a bonus is credited once and taken back once |
| wallet routes, `api/wallet.ts`, `lib/withdrawal-cooling-off.ts` | the wallets and ledger tables | withdraw, transfer, read | no overdraft, tier limit, five days of cooling-off, ledger agrees |
| ledger use cases, `lib/ledger.ts` | the wallets and ledger tables | credit, debit, read | the balance is the money of the entries and is never overdrawn |
| kill switch, `api/emergency.ts` | a flag in the memory of one instance | set | (see the disagreements) |
| bonus engine, `lib/bonuses.ts`, `api/bonuses.ts` | daily counters | `triggerRule`, trigger route | every credit is counted, no transaction twice |
| referrals, `lib/referrals.ts` | codes, referrals, monthly counters | code, accept, qualify | nobody is refused for referrals he has not got; a referral is worth its bonus once |
| tiers, `lib/tiers.ts`, `api/tier.ts` | `tier` of the wallet row | promote | nobody has a tier he was not verified for |
| streaks, `crons/streak-evaluator.ts` | none | run | who is rewarded has earned it, and a run that ends has forgotten nobody |
| fraud checks, `lib/fraud.ts`, `lib/velocity` | velocity counters, block history | evaluate, count, record, look back | nobody is refused for a block there was not; a window lets no more pass than it should |
| structuring, `lib/structuring.ts` | a mark on the payment | detect | nobody is marked without the pattern |
| UIAF monitor, `src/crons/uiaf-monitor.ts`, `crons/uiaf-monitor.ts` | flags, reports | run | every suspect is alerted of in the end, and none is flagged without |
| screening, `lib/compliance-screening*.ts` | none | screen with timeout | a provider that fails is not a pass |
| cancellation, `lib/transaction-cancellation.ts` | its store | create, cancel | only its creator cancels a payment, and only while it is pending |
| habeas data, `lib/habeas-data*.ts` | requests | create, resolve | a request is acknowledged within its term |
| IP reputation, `lib/ip-geolocation.ts`, `ip2proxy-loader.ts`, `tor-list.ts` | lists in memory, a cache of seven days | look up, refresh | a verdict is no older than its cache entry |
| the way in, `lib/auth*`, `lib/csrf*`, `api/index.ts` | cookies at the browser, windows of the rate limiter | body limit, authenticate, CSRF, limit | pages and API agree who somebody is; limits hold at the edge of a window |

### Components of compliance-service

| component | state | operations | correct when |
|---|---|---|---|
| rights, `api/rights.ts`, `api/audit.ts` | `representantes`, `establecimientos`, `audit_log` | know, update, rectify, suppress | what is erased stays erased, and the audit log tells what was done |
| NIT verification, `api/nit-dv.ts` | a cache of 24 hours | verify | who is taken for active was so within the life of the cache |
| consent token, `lib/consent-token.ts` | none | sign, verify | only an unexpired token of the right scope |
| SLA monitor, `lib/sla-monitor.ts`, `lib/sla-math.ts` | `audit_log.sla_breached` | run | every breach is marked in the end, and none without an alert |
| reports, `lib/dpo-tools` | drafts in S3 | complaint report, RNBD window | a draft lists what its half-year holds, and is there when the DPO is told of it |

### Components of market-web and scripts

| component | state | operations | correct when |
|---|---|---|---|
| checkout, `components/market/MarketCheckoutModal.tsx` | of one modal: state, intent, widget | open, change of amount, close, answers | its widget is of a payment it asked for, signed as handed over, and it does not hang |
| API client and middleware, `lib/api-client.ts`, `middleware.ts` | the browser's cookies | request, page | a session means the same to the pages and to the API |
| ranking, `lib/algorithm.ts`, `lib/demo-algorithm.ts` | none | trace | the better business is not behind the worse |
| key rotation, `scripts/rotate-wompi-prod-key.mjs` | the secret, an audit log | rotate | the key in the secret is in the log |

### Interactions

- Wompi calls `POST /webhook`; the gateway calls `transactEscrowTransition` and, for a
  reversal, `transactReverseBonus`, which moves money in the wallets table; then it marks
  the event. Wompi repeats an event until it is answered 200, but the gateway refuses an
  event that is over five minutes old.
- The refund route calls Wompi, then `transactReverseBonus`, then the transition.
- A webhook names a payment by Wompi's id of it, and the gateway looks the row up by that id. The intent
  route draws the key of the row itself (`payments.ts:125`), and nothing writes `wompi_tx_id`: whether the two are the
  same is for Wompi to say. The model has both kinds of payment (`SameId`).
- The delivery route reads the row, runs the escrow state machine on it in memory, then
  asks for the transition; a disagreement shows only if the state moved meanwhile.
- Withdrawals, transfers, bonuses and deposits all write the row of a wallet. What keeps
  them apart is one attribute, `last_idempotency_key`.
- The status of a payment (`status`) is written by nothing in the repository except the
  intent; the reconciliation cron that is tested
  (`tests/unit/crons/reconciliation.test.ts`) is not there. The model lets it run, since the
  refund route requires `status = APPROVED`.
- The checkout asks the intent route for a payment and hands the answer to Wompi's widget;
  on its way the request passes the chain of the API (body limit, authentication, CSRF),
  the fraud checks and the structuring detector.
- A right of a data subject begins with a verification of the NIT, which a cache may answer,
  and ends with a row of the audit log, which the SLA monitor and the half-yearly report read.
- The crons (UIAF, SLA, complaints, streaks, Tor list) meet the routes in the database only,
  while requests go on.

### Hard behaviours

They are listed at their lines in `PROJECT.json`, under `hazards`: dispatch and mark in two
writes; a webhook racing its own repetition, a refund, or a delivery; a late or early event;
a refund whose answer is lost, or says that nothing was paid; reversals that race on one bonus; withdrawals that check a
stale balance; a deposit that arrives between the cooling-off query and the debit; the
ledger entries of a transfer after a crash; a promotion that rests on an old tier; a run that fails between two users;
counters read before they are added to; a row of
a counter that outlives its window; a query that is cut before it is filtered, of an index that lags; answers of the
checkout that arrive in the wrong order; an update let through before an erasure and written
after it; monitors that fail between alert and flag; caches that outlive what filled them;
terms counted by different arithmetic in different places; two operators at one script.

## The modules

| module | models | kind |
|---|---|---|
| `EscrowRules` | the constants and rules of `lib/escrow.ts` shared by the next two | operators |
| `EscrowMachine` | the escrow state machine on one payment | specification, checked and proved |
| `EscrowLifecycle` | what the row of a payment promises whoever writes it | abstract specification |
| `Payments` | webhook gateway, payment routes, bonuses of payments | specification, checked and proved, implements `EscrowLifecycle` |
| `Wallets` | wallet routes, bonuses, deposits, kill switch | specification, checked and proved |
| `Bonuses` | the trigger route of the bonus engine with its daily counter | specification, checked and proved |
| `Account` | what the ledger of a wallet promises | abstract specification |
| `Ledger` | the use cases of the ledger on one wallet | implements `Account`, checked and proved |
| `Checkout` | the modal of the market web and the intent route | checked with liveness, and proved |
| `RiskChecks` | `runFraudChecks`: counters, history, score | checked and proved |
| `Structuring` | the structuring detector | checked and proved |
| `Uiaf` | both UIAF monitors | checked with liveness, and proved |
| `Referrals`, `Tiers`, `Streaks` | referral engine, promotion of tiers, streak evaluator | checked and proved |
| `Cancellation` | the cancellation service | checked and proved |
| `IpReputation` | the lookup of an address, its cache and its sources | checked and proved |
| `Door`, `AuthGateway` | browser, API client and middleware chain; the gateway with its rate limiter | checked and proved |
| `Rights` | rights of the data subject, audit log, SLA monitor | checked with liveness, and proved |
| `NitCache` | NIT verification and its cache | checked and proved |
| `Calendar` | terms in business days, RNBD window | checked and proved |
| `Reports` | half-yearly report of complaints | checked and proved |
| `KeyRotation` | the rotation script, its operators, and the client of the key | checked and proved |
| `Ranking` | both ranking engines on the listing they rank | checked and proved |
| `MCPayments`, `MCWallets`, `MCBonuses` | small instances | |
| `Sums` | the sum of a function over a finite set | operator |
| `Components`, `Progress` | the components that meet in the database only: their constants, what is assumed of them, what each promises (`Components` extends `EscrowMachine`) | composition |
| `MCComponents`, `MCProgress` | small instances of these, of which one moves | |
| `SumsProofs`, `EscrowMachineProofs`, `PaymentsProofs`, `WalletsProofs`, `BonusesProofs`, `AccountsProofs`, `TrustProofs`, `ProgressProofs` | theorems | |

### EscrowMachine

State: `channel` and `highValue` (amount above `EVIDENCE_REQUIRED_ABOVE_COP`) of the intent;
`escrow` is `escrow_state`; `windowEnds` is `dispute_window_ends_at`; `error` is the error
of the last `TransitionResult`; `now` is the clock. One action per event and, where the code
returns an error of its own, one per error: `WompiApproved`, `DeliveryConfirm`,
`DeliveryRefused`, `WompiChargeback`, `BuyerDispute`, `DisputeTooLate`, `DpoResolve`,
`InvalidTransition`. `Enter`, `Refuse` and `MarkReleased` are `ok`, `invalid` and
`markReleased`. The evidence of a delivery is one of the classes `EvidenceError` tells apart.
A transition resolved for the seller returns to RELEASED without touching the window, as
`handleDpoResolve` does. The state machine is a promise of the code about itself: the routes
reach only part of it (see `Payments`).

### Payments

A `Worker` is a request in execution: `pc` is the call it makes next, `tx` and `path` say
what it is about, `reply` what it will answer. Each call is one action:

| action | code |
|---|---|
| `WebhookReplay`, `WebhookDispatch` | `POST /webhook`, `verifyTimestamp`, `isProcessed`, `dispatchEvent` |
| `RefundRequest`, `RefundAccepted`, `RefundFailed` | `POST /:id/refund` and `refundTransaction` |
| `ReverseQuery`, `ReverseBonus`, `ReverseRefused` | `transactReverseBonus` |
| `DeliveryConfirm` | `POST /confirm` up to the transition |
| `DisputeRequest` | `POST /:id/dispute` |
| `Transition`, `TransitionRefused` | `transactEscrowTransition`, and its failed condition |
| `Mark`, `Respond` | `markProcessed`, the answer (which may be lost) |
| `BonusClaim`, `Spend` | `transactBonusClaim`, the debit leg of a transfer |
| `Abort` | the instance dies, or a call fails for another reason than its condition |
| `WompiDecides`, `WompiPays`, `EventAges`, `Reconcile` | the world outside: external |

`From` and `To` are the table of what each path asks the transition for, taken from the six
handlers of the gateway and the two routes. A read is any value the row has had (`PastEscrow`,
`PastStatus`); the query of a reversal (`ReverseQuery`) returns any set of the claims there are. A DynamoDB failure of any kind, and an exception, is an answer
other than 200 (`"error"`). A refused 3DS verification is the path `approved_without_3ds`,
which asks for the transition PENDING_3DS to FAILED that nothing can satisfy. The
millisecond that `transactReverseBonus` compares is the constant `SameMillisecond`.
Requests that read and then refuse without writing are not steps, except where a property
needs the answer (`DisputeRequest` and the `Refused` actions).

`refundTransaction` is `ok` for every answer with an id, whatever status it names: `RefundAccepted` puts the refund
in Wompi's books (`registered`), which pay it (`paidBack`) at once, later (`WompiPays`) or never. `SameId` are the
payments that Wompi knows by the key of their row: for any other a webhook finds no row (`HasRow`), and Wompi
does not know what the refund route asks about.

A payment may have several bonuses, of several users and rules (`Claimable`). `claims` are the rows that claims wrote,
under a key with the payment; `reversed` the rows under which reversals mark them, which have a key without it (`KeyOf`),
so that no row a query returns is ever marked. `found` is what the query of a request returned;
`ReverseBonus` takes the sum of all of it (`TotalDebit`) from the wallet of one of its users, whichever comes first, as
`bonus.ts:181-220` does, and `takenBack` counts the rows debited.

### Wallets

`balance`, `rows` (which wallets exist) and `lastKey` (`last_idempotency_key`) are the wallets
table, `ledger` the entries put, `seen` the balances a read of the row may return. A request
goes through `Withdraw`, `CoolingOff` or `CoolingOffRefused`, `Debit` or `DebitRefused`; or
through `AskTransfer`, `Transfer` or `TransferRefused`, `PutOut`, `PutIn`. `CreditWallet` and
`AppendLedgerEntry` are the two writes of `CreditWalletUseCase`; its callers may repeat a
deposit `MaxCredits` times with the same key. `FiveDaysPass` ends the holding of a deposit.
The keys of withdrawals, transfers and reversals are made up anew each time (`"other"`), the
key of a deposit is its own; a row without key has `"none"`. `lastKey` is all that the
condition of the debit looks at. The tier of a user is a constant.

What the queries of the index may miss, they miss: `CoolingOff` may always find nothing.

### Bonuses

`claims` and `coins` are `claims_count` and `amount_cop` of the rows of the daily counter, a row
being a user, a rule and a UTC day (`CounterKey`); `rows` is the bonuses table by user, rule and
transaction; `balance` the wallets. A request keeps in `job` what it was asked and the day it
was asked on: `triggerRule` reads the clock once. `credited` and `paid` are history.

| action | code |
|---|---|
| `Trigger` | `POST /:user/trigger` and `triggerRule` up to the caps |
| `DailyCheck`, `DailyRefused` | `dailyCounter.get` and the comparison with the caps (`Exceeded`) |
| `DailyAdd` | `dailyCounter.add`; without a transaction the request ends here, counted and not credited |
| `BonusClaim`, `BonusClaimRefused` | `transactBonusClaim`, and its failed condition, which the route swallows |
| `Abort`, `Midnight` | crashes, the calendar: external |

The amount of a bonus is any of those `computeBonusAmount` may return for the rule, because
the caller names the price of the purchase. A row that was never counted (`claims` = 0) is not
there, and `Exceeded` compares nothing with it, as the code does. A row of the counter lives
seven days; its deletion is left out, since only requests of its own day read or write it.

### Ledger and Account

`Ledger` has a request in `pc` and `call`, as everywhere. `Credit` is one update with the last key
as its guard; the balance of its entry is read after it (`ReadBalance`), and is 0 if that read
fails, as the code has it. A debit reads, updates under a condition on the version and the
balance (`Unchanged`), and puts its entry. `Fail` ends any of them. `Account` knows only an amount
of money that moves by deposits and by withdrawals it can pay; the refinement maps it to the
entries written, those on their way and those a failure has lost (`Money`).

### The checkout

`Checkout` joins the modal (`Open`, `ChangeAmount`, `Close`, `Remount`, `Receive`, `ReceiveError`) and the intent
route (`Replay`, `NotFound`, `Create`). `mount` is the modal on the page and its idempotency key, which
it draws once; `requests` holds every request sent, since none is given up; `rows` is the
transactions table. The lookup by key goes to an index, so `NotFound` may always happen. What the
route checks before it stores the row is in `RiskChecks` and `Structuring`; a refusal is `ReceiveError`.
There are two units: `amount` and `amount_cop` are pesos, `amount_in_cents` is what the widget takes for cents, and
`Answer` puts the number of pesos there, as both answers of the route do. A reference names the
millisecond, so `Create` may draw one that another payment has. A signature is what was signed (`Sign`), or `Unsigned`.

### Fraud checks, structuring, UIAF

`RiskChecks`: `count` and `expires` are the rows of the velocity counters, which only the table deletes
(`DeleteExpired`, at any time after expiry); `history` is the decisions on record. `Request` moves the
counters of a request and collects signals; `Pass` or `Block` looks at the history and weighs, on a
query that may miss any number of the newest rows (`Rows`); `RecordBlock` writes. `Structuring`: `at` is the `updated_at` of a
payment, which `Update` renews, and `indexed` what the secondary index has of it, which `Propagate` brings up to
date at any time or never. `Query` is the set of results the index may give: the oldest `Limit` of those it has.
 `Uiaf`: `variant` says which of the two monitors runs; `Start`
reads, then each key found is skipped, alerted of and flagged, or fails; `SaveSar` may fail;
`RunDies` at any time.

### Referrals, tiers, streaks, cancellation

`Referrals` gives the engine the store its interface asks for (the routes wire one that
remembers nothing). `Tiers` has the table of `lib/tiers.ts` with its real numbers; `PromoteRead` may read any tier the wallet
has `had`, and `shown` is what requests have listed as verified. `Streaks`: `RunForUsers` computes
all streaks as the loop of the code does; then each bonus is a step (`FireStreakBonus`), any of which may fail,
with or without effect, and end the run with it (`FireStreakBonusFails`). `Cancellation`: `Create` saves a payment of
any state over whatever has its id; a cancellation reads, checks and saves whole what it read.

### IpReputation

The Tor list and the engine are in the memory of an instance (`Restart` empties both), the combined
result in a table whose rows go late, by `Lag` at most. `Lookup` reads the cache or the engine,
`Fetched` waits for IP-API and reads the list, `Written` stores and answers. `seen` notes when the sources last
said one thing or the other.

### Door and AuthGateway

`Door`: `env` is how the API is deployed, with or without `JWT_SECRET` and as production or not; the deployment of
`sst.config.ts:382-398` is without. The tabs of a browser share `cookies`. A `Slot` is a request, sent with the cookies and the header of the
moment, served by the chain of `createApp`, received with what the answer sets. Of a cookie only
what the page and the API may see of it matters (`CSRF_COOKIE_ATTRS`, `DocumentCookie`); of a credential who
it names and when it ends. Programs send a bearer, or the headers of a developer (`DevUser`), which count outside of
production only. `AuthGateway`: `count` and `resetAt` are the windows of
`InMemoryRateLimiter`, and each kind of request is an action (`Known`, `Anonymous`, `BadToken`).

### Rights, NitCache, Calendar, Reports

`Rights`: each statement to Postgres is a step (`Edit`, `Erase`, `Hide`, `PersistAudit`), none in a
transaction, any of which may fail; the monitor finds, alerts, flags. The `applied` of a row of the
log is history: whether the call changed its row. `NitCache`: the cache, the registry behind it, and
verifications that overlap; the registry answers (`Lookup`), the answer arrives and is stamped (`Stamp`), at most `Delay` later, and is
kept (`Put`). `Calendar` runs the loops of `sla-math.ts` day by day on the list of
holidays and compares them with sets of days, and the terms and windows that other files compute with
them. `Reports`: the run, its upload and its email, with complaints going on.

### KeyRotation

The key is in four places: Wompi, the secret, the deployment, and the client an instance made with its
first request. `ScriptStep` is the script, command by command; `RefundTransaction` is the client of
`lib/wompi.ts` with whatever answer comes, and `refunded` what Wompi's books say of the refund: one of the four
statuses of `wompi.ts:391`, all of which the client calls `ok`.

### Ranking

The listing and the scenarios are the real data of `demo-data.ts`, the scores integers in sixths of a
hundredth, so that rounding is exact. The random distance is any end of its interval.

## The runs

| run | instance | shows |
|---|---|---|
| `payments` | one payment that needs 3DS and is high-value, two bonuses of two users, two requests, one crash, one refund, reversals may grow old, two of one millisecond: @PAY@ states | the marks are true, the table does not run ahead of Wompi, the wallets hold what claims and reversals left, the table implements `EscrowLifecycle` |
| `payments_liveness` | two payments, of which Wompi knows one by another id, no crash, refund, bonus or 3DS, with fairness: @LIV@ states | the approval of the other is recorded |
| `wallets` | two users (tiers 3 and 2), two requests, two bonuses, one deposit credited twice: 0.27 million states | no overdraft, the tier limit, conservation, the ledger, the cooling-off |
| `bonuses` | one user, a rule with both caps and one with none, two transactions, two days, two requests: 0.47 million states | every credit is counted, and no transaction is credited twice |
| `components` | sixteen components, one of which moves: @COM@ states | what each promises under its own races, clocks and failures; `Ledger` implements `Account` |
| `progress` | the UIAF monitors, the rights with their monitor, the checkout, with fairness: @PRO@ states | monitors that fail reach everyone in the end; the checkout does not hang; what each of them keeps |
| `lost_approval` | as `payments_liveness`, one crash | violation: an approval is lost |
| `refund_half_done` | one request | violation: a refund fails after paying |
| `withdrawal_refused` | as `wallets`, nothing deposits | violation: a funded withdrawal is refused as unfunded |
| `daily_cap` | as `bonuses` | violation: a cap on the amount is passed |
| `unsigned_replay` | one amount, two requests of one mount | violation: a checkout opened again has no signature |
| `wrong_half` | one complaint, eight months | violation: the report is on the half-year just begun |

In `components` and `progress` the variable `moving` says which component takes steps; the
others stand where `Init` put them, so that state spaces add up and do not multiply.

The bounds, by name:

- `Worker` = 2. Two requests suffice for every race in `Payments`, because a request
  influences another one only through the row of one payment and each property names at most
  one event and its rival. The proofs remove the bound.
- `Tx` = 1 in `payments`: payments share wallets, and the keys under which reversals mark their bonuses, which two bonuses of
  one user by one rule would; the proofs have any number of both. `Claimable` is a bonus for each of two users, so that a reversal
  may find none, one or both, and take both from the wallet of either.
- `SameId` is the payment in `payments`, and one of two in `payments_liveness`: the other keeps the instances busy with
  events that find no row. `SameMillisecond` is TRUE in `payments`.
- `MaxAborts` = 1: a crash leaves a state from which everything else goes on; a second one
  adds a second such state in another worker only.
- `MaxRefunds` = 1 and `Ageing`: the refund can be asked for once; in `payments` the reversals, whose order with the rest
  matters most, may grow old.
- `Amount` = 1 and 2, bonus 2, deposit 1, tier limit 2, `InstantLimit` = 2: two withdrawals
  exceed the limit, a withdrawal and a transfer exceed the balance, a bonus alone can be
  spent before it is taken back.
- `MaxCredits` = 2: one repetition of a deposit.
- In `bonuses`: `LastDay` = 1, one midnight to cross; `MaxCount` = 2, a cap reached and a race
  at the cap; amounts 1 and 3 on either side of a cap of 2; two transactions, so that one rule
  credits a user twice on a day. Users share nothing, so there is one.

In `components`, where there are requests there are two of them, unless said otherwise:

- escrow: every channel and both amounts, window 2, clock to 5: a release as late as 3
  still sees its window close.
- `Referrals`: two users, one code, a cap of one, one end of a month, two rows, three grants:
  the cap is reached and raced for, and more answers are possible than calls.
- `Tiers`: one user, all five tiers. `Streaks`: two users, thresholds 2 and 3, runs at hours 0, 3
  and 23 of four days: a gap, a run just after midnight, and a user behind the one a run fails at.
- `RiskChecks`: one user and address, thresholds 2 and 1, windows of 1, rows that live for 2,
  clock to 2: a row outlives its window and may be deleted between two requests.
- `Structuring`: two parties, threshold and limit 2, three payments: the limit binds or does not, the index lags or does not.
- `Cancellation`: one payment, two users. `NitCache`: one NIT, entries that live for 1, answers that take up to 1, clock
  to 3: an entry ends, its answer was late, and a late writer restores an older one.
- `Calendar`: every day of 2026 as a start and the terms of 10 and 15 days, as in the law.
- `Reports`: limit 1, two complaints, months to the first report of August: the limit binds.
- `Door`: all four deployments, one request at a time, two tokens, credentials that end at 1, clock to 2. `AuthGateway`: limits 1
  and 2, window 1, clock to 3: two whole windows and an edge between them.
- `Ledger`: amounts 1 and 2, two keys, three updates, a balance of up to 3: two debits of which
  only one is covered, and a credit between a debit's read and its update.
- `KeyRotation`: two operators, one instance, two keys. `IpReputation`: one address, rows that live
  for 1 and go up to 1 late, clock to 3: a row ends and its sources change before it does.
- `Ranking`: the eight real scenarios, each distance at the ends of its interval, which no
  radius in use divides otherwise.

In `progress`: one user on two channels with thresholds 3 and 4, amounts 1 (just below) and 3, two
payments, clock to 1; one NIT with two requests, batches of one row out of two, a term of 0 days;
amounts 1 and 2, two requests, one new mount. Each lets a monitor fail and start again, a batch
leave a row behind, and the answers of the checkout cross.

Deadlock is checked in `payments`, `wallets`, `bonuses` and the violations of these. In `Payments` Wompi, the
dispute route and the answers never stop; in `Wallets` the kill switch can always be set; in
`Bonuses` a trigger can always be asked for. It is not checked in `components`, `progress`, `unsigned_replay` and
`wrong_half`: a ranking or a deadline ends once it is computed, and the others reach the bounds
of their clocks and tables. Nothing in these components waits for another one.

Symmetry is over requests (in `Bonuses` also over transactions) and used only in the runs of
safety properties.

### What the properties say

`ReleaseIsProven` and `WindowNeverRestarts` (EscrowMachine) take several events to break: the second,
for instance, a dispute and its resolution. `LifecycleSpec` (Payments) says that the row moves once from NONE to HELD and at
most once more, and that `escrow_version` counts it, whichever of six handlers and routes
race for it. `ProcessedTookEffect` and `AckedIsProcessed` relate the marks, the table and what
Wompi was told. `EscrowFollowsMoney` relates the table to Wompi's own record.
A refund may be in the table though Wompi declined it, for that is what the route does: the property says that Wompi has the
refund in its books, and that nothing else precedes its record.
`BonusBacked` relates bonus rows, wallets and spending, over all users: that each pays for his own bonuses, or for each once, the code
does not keep. `ApprovedIsProcessed` is the liveness of the webhook, for payments Wompi knows by the key of their row.

`NoOverdraft` and `WithinTierLimit` (Wallets) are true although the code checks neither where
it counts: the debit has no condition on the balance and the limit is compared with a counter
that stays 0. They hold because the row accepts a withdrawal only while no key has been left
on it, so the first withdrawal, transfer, reversal or deposit is the last thing a withdrawal
can follow (that is the violation `withdrawal_refused`, the price of it). `CoolingOffKept` holds
for the same reason and not through the query. `MoneyConserved` and `LedgerTellsTruth` compare
the tables with one another after crashes.

`CreditsAreCounted` and `PaymentsAreCounted` (Bonuses) are what the caps can rest on: whatever was
credited on a day stands in the row of that day, though midnight or a crash falls between the
counter and the claim. They say that the counter errs on the safe side, not that the cap
holds; `daily_cap` shows that it does not. `WalletHoldsRows` is what a reversal needs: a credit
can always be found by its transaction, which is lost as soon as one transaction is credited twice.

The runs `components` and `progress` ask one property of each component, whose parts are defined and
commented in the component's module:

| property | parts | says |
|---|---|---|
| `AccountSpec` | refinement | every step of the ledger is a deposit, a withdrawal the money covers, or nothing |
| `LedgerTellsBalance` | `BalanceIsMoney`, `DebitTellsBalance` | row and entries agree, with what a failure lost named; a debit's entry gives the balance it left |
| `ReferralsAreEarned` | `RefusedHasReferrals`, `QualifiedByRacersOnly` | the counter never refuses what the referrals do not; only racing calls qualify one twice |
| `PromotionIsEarned` | | whatever old tier a promotion read and whoever overtook it, the tier it sets was verified for and is no worse than any lower one the wallet had |
| `RewardIsEarned` | with `NobodyIsForgotten` | no bonus is unearned, nor two for a user on a day; a run that ends has forgotten nobody, who was left out by a failed one included |
| `SuspicionIsFounded` | `PassedPerWindow`, `RepeatIsFounded`, `MarkIsFounded` | a window of any alignment lets less than twice the threshold pass; whoever is refused or marked for his past has one, however old the rows a query saw |
| `CancelledByCreator` | | a cancelled payment is that of a user who asked for it and had it pending, whoever saved over it in between |
| `CachesAreFresh` | `AnswerIsFresh`, `VerdictIsFresh` | what a cache answers was true within the life of its entry and the time an answer takes, whichever lookup wrote last |
| `CalendarIsRight` | `DeadlineIsNthBusinessDay`, `FortnightIsWithinTerm`, `RnbdWindowsAgree` | loops and the arithmetic of other files agree with the calendar |
| `DraftIsComplete` | with `NotifiedIsStored` | a draft lists every complaint of its half-year that was known, up to its limit and the oldest first, and adds up; it is there when the DPO is told. Which half-year it should be is `wrong_half` |
| `WayInHolds` | `DoorsAgree`, `AllowedPerWindow`, `RefusedHasUsed` | a session the API takes, in any deployment, the pages take for the same user; what the limiter lets through at the edge of a window |
| `KeysAreAccounted` | `SecretIsAudited`, `OkIsOnTheBooks` | the log names the key in the secret, however two rotations interleave; a refund called done is in Wompi's books, whatever key made it |
| `RankingFollowsScores` | `RoundingKeepsOrder`, `BetterIsBehindOnATieOnly` | what rounding costs, and whom a tie displaces |
| `FlagsAreFounded` | `Uiaf!FlaggedIsAlerted`, `ReportAddsUp` | who is skipped has been alerted of; a report is what it lists |
| `SuspectIsAlerted` | liveness | a suspect is alerted of, though alerts fail and runs die |
| `RightsAreKept` | `ErasedStaysErased`, `HiddenIsErased`, `AuditTellsTruth`, `Rights!FlaggedIsAlerted` | no late update restores what was erased; the log claims no more than was done |
| `BreachIsFlagged` | liveness | an open answer past its term is marked in the end, whatever batch it is in |
| `WidgetIsOwn` | with `SignatureFits` | the widget is of a stored payment this modal asked for, and charges no more than that; a signature is of what it hands over |
| `LoadingEnds` | liveness | the modal does not prepare for ever |

## Fairness

`FairSpec` of `Payments` assumes two things. A request that has been accepted runs to its end
(`WF_vars(Step(w))` for each request): Lambda does not stop an instance except by a timeout,
which is `Abort`. And an approval Wompi has seen no 200 for is delivered again and again
(`SF_vars(Retry(t, "approved"))`, for the payments in `SameId`): `openspec` and the comment at `gateway.ts:99` rely on these
retries. It is strong fairness because the two workers of the model may both be busy when
Wompi calls, while in AWS an instance is always found. Nothing is assumed of other events and other payments, of users, of the DPO,
of Wompi's verdict or of crashes: they happen or do not.

`Uiaf` and `Rights` assume that their schedule starts the monitor again and again (`WF` of `Start` and
`MonitorStarts`) and that a run that is not stopped goes on. A call that may fail each time, the alert and
the `UPDATE` of the flags, is under `SF`: tried again and again, it works in the end. Without that no
monitor could promise anything; a run may still die and any single call fail. The save of a report may
always fail, which is why no report is promised. `Checkout` assumes of each request that it is answered or
fails (`Progress`), as a browser's connection does, and nothing of the user.

## The proofs

TLAPS checks the following for every value of the constants that satisfies the `ASSUME`s. These are, besides
the types of constants:

- *Finiteness* of the sets a sum or a count runs over: users, bonuses, deposits, rules, transactions, requests in
  execution (`Worker`). Bounds of clocks and tables are naturals, of any size.
- *Positive numbers* where the code takes pesos or a rate limit, both of which it configures so.
- `RiskAssumption`: the row of a velocity counter outlives its window (`RiskTtl >= RiskWindow`), since
  `velocity/types.ts:58` throws otherwise.
- `GatewayAssumption`: no user is an address, because the keys of the limiter begin with `user:` and `ip:`.
  `MonitorAssumption`: the mark `STRUCTURING` is not a channel.
- `CalendarAssumption`: terms are whole weeks of business days, as 10 and 15 are; a start is a day of 2026.
  The number of weeks is free.

Each theorem is `Spec => []Inv` from an inductive invariant that was first checked with TLC, with one lemma or step
for each action.

**SumsProofs** is about `SumOf`, a fold. A fold over a set picks its elements in an order nobody knows, and the
library's induction takes an operator, which no prover here can instantiate. The proofs name the set of the
numbers for which a statement holds instead, and show that it is all of them (`AllOfNat`: a set with 0 and every successor, from the
least number that is missing). So the recursive function of the fold exists (`AddsExists`), any element may be taken
out of a sum first (`SumOfOneMore`), and from that follows what the other proofs need: `SumOfExcept` (one value replaced),
`SumOfLonger` (an entry appended), `SumOfParts`, `SumOfSubset`, `SumOfCover`.

**EscrowMachineProofs.** `ReleasesAreProven`: the type invariant, `ReleaseIsProven` and
`InstantIsIrreversible`. The strengthening is `WindowFollowsRelease` (a window exists only after
a release). `OneWindow`: `WindowNeverRestarts`, from the same invariant: `MarkReleased`
runs only in NONE and HELD, where there is no window yet.

**PaymentsProofs**, in the order in which they rest on one another:

1. `TypeCorrect`: `Typed` is the type invariant and `Movers` (the dispute route
   moves nothing; only a webhook has a mark to make).
2. `MoneyFirst`: `Money` adds that an emitted event is still true of Wompi's record
   (`EventsAreTrue`) and that each running request rests on such an event or on a refund in
   Wompi's books (`RequestsAreTrue`), of whatever status; `EscrowFollowsMoney` is then inductive, because `MoneyMoves` (Wompi's record only moves
   on) keeps what a row said before.
3. `MarksAreTrue` is `ProcessedTookEffect`, `AnswersAreTrue` is `AckedIsProcessed`. Both rest on `Marks`: a request
   about to mark has done its transition and one about to answer 200 has marked.
4. `Refinement`: `Versions` (the version is 0 in NONE, 1 in HELD, 2 when settled)
   and the lemma `TransitionIsMove`; every other action is a stutter of `EscrowLifecycle`.
5. `BonusesAreBacked`: `Spec => []BonusBacked`, with or without `SameMillisecond`. What is in the wallets or spent
   from them (`Inside`) and what claims less reversals leave (`Owed`) change alike (`OneChange`): a sum over users in which one
   term is replaced, and a number of claims that grows by one.

**WalletsProofs.** `TypeCorrect`; `WalletsAreSolvent` (`NoOverdraft`), `LimitsHold` (`WithinTierLimit`) and
`DepositsCoolOff` (`CoolingOffKept`) rest on `Sound`: a row without key (`Untouched`) has only ever
been credited, so every balance that was ever read of it is at most the one it has, nothing has
been withdrawn from it and it holds no deposit; and a request that has passed its checks
(`Checked`) saw such a balance. Without this strengthening none of the three is inductive,
since a debit checks none of them. `MoneyIsConserved` (`MoneyConserved`): the total of the wallets, of what was paid out
and of what came in are sums over users, bonuses and deposits, and each action changes them alike.
`LedgerIsTrue` (`LedgerTellsTruth`): a request between the two entries of a transfer has moved the money.

**BonusesProofs.** `TypeCorrect`; `EveryCreditCounted`: `CreditsAreCounted`. A credit is not preceded
by its counting in the same step, so the invariant proved is `Ahead`: the counter exceeds the credits
by at least the number of requests that wait for the claim with that row (`Waiting`). `Stays`,
`Enters` and `Leaves` bound how a step changes that number. `EveryPesoCounted` (`PaymentsAreCounted`) says the same of
pesos, with the sum of what the waiting requests are about to pay. `WalletsMatchRows` (`WalletHoldsRows`): a balance is
the sum over the rows of its user, of which a claim writes one that was not there.

**AccountsProofs.**

- `LedgerIsTold` (`LedgerTellsBalance`): a debit that may still go through has read the balance there is (`DebitHasReadIt`:
  the version it read is the row's), so the balance it writes in its entry is the one it leaves (`DebitLeavesIt`).
- `LedgerIsAnAccount`: the refinement. `Ledger!Money` is the sum of the entries written, under way and lost; each
  action is a `Deposit`, a `Withdraw` the money covers, or leaves it alone.
- `OnlyTheCreatorCancels`: a cancellation about to save has been asked for by the owner it saves, whose the payment was when it
  was pending (`CancelInv`). `PromotionsAreEarned`: a promotion about to be set has shown what its tier requires, every wallet has
  had tier 0 (`PromoteInv`), and `NoWorse` is monotone in the table of tiers (`HigherIsNoWorse`), at every amount.
- `RefusalsAreFounded` (`ReferralsAreEarned`): `RefCounts`, the counter of a month with those about to count is at most the
  referrals of that month; `RefGrants`, what has been granted of a pair with those about to be is at most the number of
  calls. Both are counts of sets that a step changes by one element.
- `RewardsAreEarned`: the recursive function by which the loop of the streak evaluator is modelled exists for every history of logins
  (`RunsExist`) and counts days in a row (`RunsCount`), because a gap of less than two days links neighbouring days only
  (`LinkedToYesterday`). So the bonuses a run asks for are earned (`RulesAreEarned`), and stay so while users go on to log in;
  `StreaksServed` says that whoever the run of today must not forget is in its queue or has his bonus.

**TrustProofs.**

- `KeysAreAudited`: a script between its change of the secret and its entry is under way (`EntryIsUnderWay`).
- `WayInIsKept`: for the door, the two ways to verify a session are compared (`SessionsAgree`). For the gateway `WindowCounts`: what was let through since a window began is
  its count, and everything older precedes it by a window, so that a stretch as long as a window meets two of them at most.
- `CachesAreTrue`: `Founded` (with `OnItsWay` and `Stamped` before there is an entry) and `RowIsFounded`, of an entry and of a lookup under way, say when their source last said so.
- `DraftsAreTrue`: `DraftIsTrue` of every stored draft and of the one in hand. The rows of a query with a limit are the first of those
  there are (`FirstCount`, `FirstAreAll`), and a draft of the same half-year has no fewer of them later (`DraftIsWhole`).
- `SuspicionsAreFounded`: `CountersAreSound` (a row counts what passed since its window began, and what passed before is older);
  `JobsAreFounded` (a request has its signal only after it saw a block, which no later one removes); and `Indexed`
  (the index has nothing that the table did not have, and what it has is no newer).
- `CalendarIsKept`: the loop is compared with a closed form, `Weekdays`, and with the number of holidays before a day;
  `CountsSoFar` and `WalksSoFar` are what the loops have done so far.
- `RankingIsFair`: scores are integers, `Rank` a bijection between places and businesses (`Best` sorts by counting whom one is
  behind), and a total is near the exact one (`TotalIsNear`) and monotone in each factor (`TotalIsMonotone`), for any
  distance drawn and not only the ends of the interval.
- `ComponentTypesAreKept` (`TypesOK` of the run `components`, the escrow machine and the components of AccountsProofs included): seven of the
  sixteen `TypeOK` are proved inductive together with something else. The ledger has its entries within `MaxUpdates` because an update that a debit is
  about to make has room kept for it, and every entry its update (`RoomIsKept`); a lookup of an address has asked the engine before it
  writes (`EngineAsked`); a rotation past its first command has a key to go back to (`HasReadAKey`); distances are drawn from those of the chosen
  listing (`DistancesDrawn`); a term being counted has fewer business days than days; the counters of risk checks and limiter need `RiskInv`
  and `GatewayInv`.

**ProgressProofs.**

- `MonitorIsFounded` (`FlagsAreFounded`): payments are only appended and `window` is part of them, so a suspect stays one
  (`TodoIsSuspect`), and `SarsAddUp` keeps what each report says.
- `RightsAreUpheld`: what each `rightsPc` says of the statements its request has already done; an update that was let through before an
  erasure finds no row.
- `WidgetIsOfThisModal`: `AnswersAreBooked` and `WidgetWasAsked`, of every answer on its way and of the one shown, although references
  may coincide: each answer is of a payment with its key, reference and amount (`IsBooked`), and its signature `Fits`.
- `TypesAreKept` (`TypesOK` of the run `progress`): types, among them the bounds: a batch is no longer than `Batch` (the
  numbers of rows before each of its own differ and are less).

### What is model-checked only

- Liveness (`ApprovedIsProcessed`, `SuspectIsAlerted`, `BreachIsFlagged`, `LoadingEnds`): its proof needs `ENABLED`, which this version of
  TLAPS does not reason about.
- The violations, which are of small instances by nature.

## Disagreements with the documents

With a run (`findings` of `PROJECT.json`): `lost_approval`, `refund_half_done`,
`withdrawal_refused`, `daily_cap`, `unsigned_replay`, `wrong_half`.

Seen while modelling, and built into the model as the code has them. Paths under
`openspec/changes` are shortened to the name of the specification.

- `declined`, `voided` and `error` events are always refused: they ask for a transition from
  `PENDING`, which is a value of `status` and not of `escrow_state`
  (`gateway.ts:154-238`; webhook-gateway/spec.md:31).
- An approval whose 3DS is not confirmed is answered with an error, because it asks for a
  transition from `PENDING_3DS` (`gateway.ts:120`).
- Payments on instant channels are held like cards by the gateway
  (anti-chargeback-escrow/spec.md:29-33); only the state machine, which no webhook
  calls, releases them.
- A refund leaves `status` APPROVED (`payments.ts:251`), so it can be asked for again.
- A refund that Wompi answers with an id is taken for done whatever its status: `refundTransaction` returns `ok: true` for
  PENDING, DECLINED and ERROR as well (`wompi.ts:356-365`, `:391`), and the route looks at `ok` only (`payments.ts:235`). The
  row then goes to REFUNDED though the buyer got nothing; the comment "On Wompi failure, the tx remains APPROVED"
  (`payments.ts:226`) covers the other failures only.
- A webhook is looked up by Wompi's id of the payment (`gateway.ts:68`, `transact/escrow.ts:51`), a row has the key `tx-<uuid>`
  (`payments.ts:125`), `wompi_tx_id` is written by nothing, and its index (`sst.config.ts:203`) is queried by nothing. Of a payment that Wompi
  does not happen to know by the key of its row no event is ever recorded.
- The intent route looks for `idempotency_key_hash` in an index of `idempotency_key` (`payments.ts:311`, `sst.config.ts:202`). The
  model lets it find the row, as the tests do, or not.
- The dispute route always refuses: it requires `status = RELEASED` and a
  `dispute_window_ends_at`, and nothing writes either (spec.md:41-42).
- A webhook that is repeated after its mark was lost is answered with an error, not with 200
  (webhook-gateway/spec.md:57-58).
- A dispute resolved for the seller within the window can be opened again
  (`escrow.ts:22`).
- `resolveUserFromReference` returns null and `transactCredit` passes a negative amount, so the
  gateway credits nobody (`api/index.ts:274-286`, `337-340`).
- A withdrawal writes no RETIRO entry in the ledger and does not call Wompi
  (wallet-lifecycle/spec.md:57,68; `ledger.ts:7-8`).
- `lifetime_withdrawn_cop` is read by the tier check and written by nothing
  (`wallet.ts:110-118`).
- The hold of the tier is still checked (`wallet.ts:127`), though
  `withdrawal-cooling-off.ts:13` says it was removed.
- The kill switch is the memory of one instance; design.md:511 says that it is stored in
  DynamoDB and checked by every intent and withdrawal. `paymentPaused` is read by nothing.
- The replay protection of a credit remembers the last key only (`ledger.ts:92-93`), so a
  deposit repeated after another movement is credited again (the comment at `:78`).
- `sst.config.ts:217-226` keys a bonus row by user and rule, the code by user, rule and
  transaction (a claim, `bonus.ts:47`) or user and rule (a reversal, `bonus.ts:186`). The model has a row for each key: a reversal marks
  a row that no query of the bonuses of a payment finds, so that a second one takes the same bonus again where the
  timestamps agree, and is refused for ever where they do not, with whatever other payment earned the user a bonus by that rule.
- A reversal debits the sum of all bonuses of a payment from the user of the first (`bonus.ts:181-220`): one user pays for
  another, or the reversal is refused because he cannot.
- The trigger route gives the bonus engine a store that remembers nothing
  (`api/bonuses.ts:88-93`), so cooldowns and one-shot rules are enforced by nothing but
  the condition of the claim.
- The trigger route answers `applied: true` for a bonus that the condition of the claim has
  refused (`api/bonuses.ts:78-84`), and counts it against the cap.
- Triggers that run at the same time pass the caps together: the counter is compared in one call
  and increased in another (`bonuses.ts:163-210`; bonus-daily-counter.ts:10 calls the increment
  atomic, which it is).
- The reversal of a payment that has been released is refused (`gateway.ts:177` asks for HELD to
  REFUNDED), though `escrow.ts:12` lets a chargeback follow a release (`LateChargebackRefunds` in `Payments`).
- Two reversals of one bonus in the same millisecond both take it back (`bonus.ts:191` compares
  timestamps only), as `SameMillisecond` = TRUE lets them.
- The ledger: a failure between the two writes leaves a movement without an entry (`ledger.ts:8` pairs
  them), and "every mutation uses ConditionExpression with the current version" (`ledger.ts:10`) is untrue of the credit.
- The intent route answers, and signs, the number of pesos as `amount_in_cents` (`payments.ts:79`, `131`, `162`), and the widget charges
  that many cents (`MarketCheckoutModal.tsx:106`, `wompi-widget.ts:51`): a hundredth of what the modal shows above "the full amount
  they'll be charged" (`MarketCheckoutModal.tsx:146-152`; `ShownIsCharged` in `Checkout`). The refund asks for pesos as cents as well
  (`payments.ts:231`), and the gateway would credit cents as pesos (`gateway.ts:145`).
- A checkout opened again for another amount shows that, and charges the first (`payments.ts:76-85` compares no amount). Two payments
  of one product and recipient in one millisecond have one reference (`payments.ts:126`). The
  checkout sends its `device_id` in the body, where the fraud checks read the header `x-device-id`, so
  that none of its devices is counted.
- A user blocked before is only sent to review: `user-history.ts:8` and `signals.ts:6` say "auto-BLOCK", but the cap on
  weights (`fraud.ts:104`) halves `BLACKLIST_MATCH`, which is then below the threshold of a block. And the block may not be
  found: the query is eventually consistent, and reads one row before it filters (`dynamo-user-history.ts:48-61`).
- An old payment whose escrow moves today counts as a payment of today in the structuring query
  (`updated_at`). The index it asks lags, and its 200 rows are everybody's (`structuring.ts:114-125`): the pattern may be missed.
- "Demotions are not automatic - they require DPO action" (tier-system/spec.md:4): a promotion that read an old tier, or was
  overtaken, sets a lower one (`tier.ts:77-103`; `NeverDemoted` in `Tiers`).
- A bonus that fails ends the run of the streak evaluator (`streak-evaluator.ts:107-121`), and the users behind it get none that day.
  They do the next day if they go on, since the run fires on every day of a streak and not "once per cycle" (`:10-11`).
- "Once APPROVED ... cancellation requires refund flow" (`transaction-cancellation.ts:4-6`): a cancellation that read before saves over an
  approval, a creation with the same id saves over anything (`:33`, `:68-86`), and a cancellation that read before a creation
  gives the payment back to its earlier owner.
- `OneReferralPerReferee` (`Referrals`), `OncePerCycle` (`Streaks`), `AlertedIsReported` (`Uiaf`) and `ServedIsNotBreached`
  (`Rights`) are promises of comments that the code does not keep; each is stated in its module with the
  line it is from. A code may be given to two users at once as well (`referrals.ts:131`).
- The two UIAF monitors differ: a user below the threshold on each channel is above it in total.
- A fortnight is a day more than ten business days for a habeas data request of a Saturday.
  `business_days_to_resolve` of the complaint report counts days of the calendar (`complaint-report.ts:88`).
- The email on the RNBD window goes out on a schedule that includes 1 January, when the window is
  closed. The table of holidays knows 2026 only. The crons of the compliance service are deferred in
  `sst.config.ts:426-436`.
- A refused request for a right leaves no row in the audit log.
- `HttpOnly=false` makes the CSRF cookie HttpOnly (RFC 6265, 5.2.6; `csrf.ts:26` and
  `csrf-middleware.ts:41` say it is not), and it belongs to the host of the API, so that the page cannot send
  it back (the tests, `csrf-middleware.test.ts:18` and `:90`, send it by hand): every signed-in POST of the market web is answered 403. `Door`
  models it; no property states it, since a checked property would present the mistake as what the code should do. The comment at
  `api/index.ts:148` expects a 401 before the CSRF check, but the middleware lets strangers go on.
- The API takes no legacy session without `JWT_SECRET` (`auth.ts:107-108`), which its environment does not set
  (`sst.config.ts:382-398` sets `COMPLIANCE_JWT_SECRET`): the pages know a user whom the API does not. `DoorsAgree` is therefore
  one-sided.
- The legacy session is asked for the claim `groups`, while Cognito writes `cognito:groups`. It is let through
  in the second it expires in.
- Who waits exactly as long as Retry-After says may be refused once more (`rate-limit.ts:30`).
- A degraded answer about an address is cached for seven days like a good one; a page of HTML in place of
  the Tor list empties it.
- The ranking: "Asadero El Tamayo" ties with "Asados La Villa" and precedes it, though it is better in no factor; a
  price of 180 minutes scores 70, of one hour 96, of 23 hours 50, of one day 58; the distance is drawn
  twice; `subregionOf` overwrites the subregion of the data; `solo_verificados` discards nobody.

## What is not modelled

The reason for each part is with it in `PROJECT.json`, `components`. In short:

- Sanctions screening: a request to a provider with a timeout, which keeps nothing and which no route calls.
- The guard against SSRF, the security headers, the signatures of Wompi and of consent tokens, and the layout
  of emails and reports: syntax and cryptography without state.
- The downloads of MaxMind and IP2Proxy, the deployment (`sst.config.ts`), the grants and indexes of the
  schema, the audit of the bundle, the pages of the site, its wallet widget and its table of fees.

Within the modelled components: wording, logging and audit output, the fields of rows that no
check reads, requests that read and refuse. `CreditWalletUseCase` and `DebitWalletUseCase` are modelled
although today's routes call neither (`Ledger`; the credit also in `Wallets`, because the cooling-off rule is
about deposits; `withdrawal_refused` runs without them, as wired). The same is true of `Cancellation`,
`AuthGateway` and the store of `Referrals`: they are modelled as their own code and tests use them.

Each DynamoDB call is atomic, including `TransactWriteItems`. A failed condition of a
transaction is mapped to the error of the code that checks it, as the unit tests do. Literal
table names (`"wallets"`, `"transactions"`) and the names in `Resource` are taken for the same
table.

## The plan

Done: all modules of the table, their runs, and the theorems of [the proofs](#the-proofs). `Account` and `EscrowLifecycle` are the two
abstract specifications, both implemented by theorem and by run.

Next:

1. Composition: the tier of `Wallets` promoted as in `Tiers`; the bonus of `Payments` credited through the
   wallet of `Wallets`, so that a reversal and a withdrawal race.
