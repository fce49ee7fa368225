# TLA+ models of the lndhubx bank engine

This directory holds TLC-checked models of the bank engine of lndhubx
(`src/bank/src/bank_engine.rs`) and of the part of the dealer it talks to
(`src/dealer/src/lib.rs`). Each module states what it models at its top, and
every definition that models code is listed with its source lines in
`PROJECT.json` under `map`.

## 1. The system

### Parts and how they interact

| Part | Source | Role |
|---|---|---|
| Bank engine | `bank_engine.rs` `process_msg` | Single writer. It owns the in-memory ledger and books every message as same-currency `make_tx` legs. |
| Rate limiters | `bank_engine.rs` 172-208 | Per-user `(counter, window start)` for deposit and withdrawal requests. |
| Pay tasks | `bank_engine.rs` 2011-2087 | Tokio tasks that call LND's `pay_invoice` and send a `Bank::PaymentResult` back on an internal channel. |
| Dealer loop | `dealer/src/lib.rs` | Answers the bank's quote, fiat-deposit and swap requests one at a time, in order. It also sends its own Health, CreateInvoice and PayInvoice messages. |
| LND connector, dealer engine, ledger types | not under `src/` | They post a `Deposit` when one of our invoices is paid, pay invoices, quote rates, and provide `get_default_account`. |
| Users, API message types | `models/src/users.rs`, `msgs/src/api.rs` | Database lookups and plain data. |

`process_msg` is awaited by one loop, so handlers never interleave. What
interleaves with them:
- pay tasks finishing;
- outside payers paying our invoices;
- the dealer answering requests, or acting on its own;
- the operator's CLI.

Every handler works on clones of the accounts it touches. It books its legs
on the clones and writes them back only when all legs succeeded.

### State (variables of `BankEngine`)

| Code | Model |
|---|---|
| `ledger.user_accounts`, `dealer_accounts`, `bank_liabilities`, `insurance_fund_account` | `bal`: account → balance, over customer default accounts, dealer Internal per currency, dealer External BTC, bank liability External BTC, insurance fund. `known`: users with an entry. |
| invoices table | `invoices` (our rows), `extSettled` (rows of outside invoices marked settled) |
| `available_currencies` | `available` |
| bus to the dealer / answers | `toDealer` (FIFO of pending requests) |
| Deposit messages | `deposits` |
| `payment_threads`, internal channel | `tasks` (running), `results` (FIFO of `PaymentResult`) |
| LND node | `node` (sats held), `lndIn` / `lndOut` (invoices received / paid) |
| history | `credits` (every booking of an invoice's value), `redelivered` |
| `lnurl_withdrawal_requests` | `lnurl`: req_id → PaymentRequest template |
| PaymentRequests sent with `ServiceIdentity::Loopback` | `loopback` (FIFO) |
| history of LNURL withdrawals | `vouchers`: req_id → sats offered (`max_withdrawable`) and sats paid |
| restart | `nRestart`; `orphans` (pay tasks of the process before the restart, whose payments LND still finishes); `lost` (PaymentResults no running bank will handle) |
| bounds | `nReq`, `nCli`, `nDealer`, `nLnurl`, `nRestart` |

### Hard behaviours

- Reservations and reconciliation:
  - a reservation of amount plus estimated fee is made before a pay task is spawned;
  - the result is applied later, in any order relative to other handlers;
  - the excess fee or a refund is moved at that point, through the dealer's accounts for fiat.
- Internal payments of our invoices (`make_internal_tx`).
- Two-step flows through the dealer: fiat invoices, fiat deposits, fiat payments and swaps. The balance may change between the request and the answer.
- Duplicated Deposits.
- Dealer errors.
- Routing fees.
- The insurance check.
- Rate-limit windows.
- A restart of the bank while pay tasks run and results wait on the internal channel.

## 2. Modules

### `BankEngine.tla`

One action per handler, each run to completion as one step:

| Action | Code |
|---|---|
| `InvoiceRequest` | `Api::InvoiceRequest` |
| `InvoiceQuoted` | `Api::InvoiceResponse` |
| `Deposit` with `DealerDeposit` | `Message::Deposit`, `handle_dealer_deposit` |
| `FiatDepositAnswered` | `Dealer::FiatDepositResponse` |
| `PaymentRequest`, `PaymentQuoted`, `ProcessPayment`, `PayUser` | `Api::PaymentRequest`: the recipient path, the invoice path, the fiat quote round-trip |
| `InternalTx` | `make_internal_tx` |
| `PayTaskDone` | the spawned task |
| `PaymentResult` | `Bank::PaymentResult` |
| `SwapRequest` / `SwapAnswered` | `Api::SwapRequest` / `Api::SwapResponse` |
| `DealerHealth` | `Dealer::Health` |
| `DealerCreateInvoice` | `process_create_invoice_request` |
| `DealerPayInvoice` | `process_dealer_invoice` |
| `CliMakeTx` | `process_make_tx` |
| `GetBalances` | `Api::GetBalances` |
| `CreateLnurl` / `LnurlTemplate` | `Api::CreateLnurlWithdrawalRequest` (the dealer's rate for fiat arrives in `LnurlQuoted`) |
| `GetLnurl` | `Api::GetLnurlWithdrawalRequest`: the template is removed |
| `PayLnurl` | `Api::PayLnurlWithdrawalRequest`: the wallet's BOLT-11 is attached; the template stays |
| `LoopbackPayment` | the looped-back `Api::PaymentRequest`: it keeps the template's rate and runs `ProcessPayment` |

Environment actions:
- `ExternalPay`: an outside payer pays one of our invoices. The connector marks the row settled and posts a Deposit.
- `RedeliverDeposit`: the same Deposit again.
- `Restart` (`BankEngine::new`, then `Reload` for `init_accounts`):
  - The ledger is reloaded from the store. Users without an account row lose their entry.
  - `available_currencies` is `[BTC]` again.
  - The LNURL templates, the looped-back requests and the `PaymentResult`s on the internal channel are lost.
  - The running pay tasks become `orphans`: LND still finishes their payments, but `Report` sends their results nowhere (`lost`).
  - Requests at the dealer, posted Deposits and the invoice table live outside the process and are kept.

Data abstraction:
- BTC amounts are integer sats.
- A rate `r` is fiat units per sat.
- Amounts, rates, probe fees and dealer fees come from small sets.
- The dealer's fee margin is `FeeMarginNum/FeeMarginDen`, rounded away from zero as `MaxFee`.
- The rate limiter's verdict is abstracted: a refused request is a step not taken.

### `RateLimiter.tla`

Both limiters as one `Check(kind, user)` over a discrete clock (`Tick`). A
`log` history of verdicts is kept for the properties.

### `Custody.tla` and the refinement

`Custody` is the abstract promise the bank makes to its customers. It knows
nothing of accounts, invoices, the dealer or LND. Its state:
- `held`: the balance of each (customer, currency);
- `inflight`: the withdrawals reserved and not yet finished.

Its actions:
- `Credit`: a balance goes up from outside (deposit, dealer answer, operator).
- `Transfer`: a covered move between two customers in one currency.
- `Swap`: a covered move between two currencies of one customer.
- `Reserve`: a withdrawal takes its whole charge, which the balance covers.
- `Paid`: the node pays a withdrawal.
- `Complete`: a paid withdrawal ends, and nothing comes back.
- `Refund`: an unpaid withdrawal ends, and its whole charge comes back.

Its actions are relations between `held` and `held'`, in the style of the
ideal-functionality specifications, so one abstract step can stand for any
handler. `Next` works out which accounts a step changes and allows at most two.

`BankEngine` maps onto it in `CustodyAbs` (`INSTANCE Custody WITH ...`):
- `held` is the balance of each customer's default account.
- `inflight` holds one withdrawal record (`Wd`) for each running pay task
  (unpaid), for each `PaymentResult` in the channel (paid if `is_success`),
  and for each result a restart lost (`lost`): such a withdrawal stays in
  flight for good.
  A record is keyed by the request id, and its charge is
  `(amount + estimated fee) * rate`: the worst-case charge the handler
  reserves at lines 1862-1867.
- `Numbers` is every amount a single booking can move under the cfg.

`CustodyRefined == CustodyAbs!Spec` is checked as a temporal property. The
mapping breaks on two kinds of step:
- a balance that changes without a matching abstract step, such as a refund
  of less or more than was reserved, or a debit the balance does not cover;
- a pay task that ends with no `PaymentResult`, which drops its reservation.

### MC modules

`MC_BankEngine.tla` and `MC_RateLimiter.tla` give the model values, the
function-valued constants and the user symmetry.

## 3. Properties and runs

| Run | cfg | Expect | Properties | What it shows |
|---|---|---|---|---|
| core | `MC_BankEngine_core.cfg` | pass | TypeOK, NodeBacksLedger | the node's BTC matches the ledger plus what is in transit through every handler (see below) |
| faulty | `MC_BankEngine_faulty.cfg` | pass | NoNegativeCustomerBalance | with two debits of one customer in flight at once (a pay task and a swap or fiat quote at the dealer), dealer errors and duplicate Deposits, no customer account goes negative |
| live | `MC_BankEngine_live.cfg` | pass | DepositsEventuallyBooked, CustodyRefined | with one restart allowed: every paid invoice is eventually booked, and the engine implements `Custody`, the reservations stranded by the restart counted as in flight |
| limiter | `MC_RateLimiter.cfg` | pass | RefusedOnlyAtLimit | the limiter never refuses before the limit is reached |
| doublecredit | `..._doublecredit.cfg` | violation | InvoiceCreditedAtMostOnce | an invoice paid internally stays unsettled and is credited again |
| redelivery | `..._redelivery.cfg` | violation | NodeBacksLedger | a redelivered Deposit is booked twice |
| fiatinternal | `..._fiatinternal.cfg` | violation | InvoiceCreditMatchesValue | a fiat payment of a customer's invoice moves the BTC number as fiat |
| dealerfee | `..._dealerfee.cfg` | violation | NodeBacksLedger | dealer routing fees are never booked |
| insurance | `..._insurance.cfg` | violation | InvoicingSuspendedWhenDepleted | invoicing continues with an empty insurance fund |
| fiatdeposit | `..._fiatdeposit.cfg` | violation | DepositsEventuallyBooked | a dealer error loses a fiat deposit |
| limiter_limit | `MC_RateLimiter_limit.cfg` | violation | AcceptedAtMostLimitPerWindow | the window-restarting request is not counted: one fixed window accepts limit + 1 requests |
| lnurl | `..._lnurl.cfg` | violation | LnurlPayoutWithinVoucher | an LNURL withdrawal of 1 sat pays a 2-sat BOLT-11: the template's amount bounds nothing, and Pay can be replayed |

**NodeBacksLedger** is the central invariant. The node holds exactly:
- the BTC credited inside the bank (customers and the dealer's Internal account);
- plus what is reserved by running pay tasks;
- plus what their results will still move;
- plus the invoices paid but not yet booked;
- plus, after a restart, the reservations it stranded (`lost`); the core run has no restart, and the live run checks the restart through `CustodyRefined` instead.

To be violated, it needs a deposit, a reservation, a pay, and a result or a
dealer operation to disagree.

Each property of a passing run has a bug variant in `PROJECT.json`
(`mutants`) that TLC shows breaks it:

| Variant | What it gets wrong | Property it breaks |
|---|---|---|
| `CoversAmountOnly` | the balance check without the fee | NoNegativeCustomerBalance (faulty) |
| `RefundWithoutFee` | the reserved fee is not refunded | NodeBacksLedger |
| `OwnerIgnored` | our invoices are paid through LND | TypeOK |
| `SettlementRefOnly` | the insurance-deposit memo is not matched | DepositsEventuallyBooked |
| `BelowLimit` | `>=` for `>` | RefusedOnlyAtLimit |
| `PayTaskDoneSilentFailure` | a failed pay task sends no `PaymentResult` | CustodyRefined |

## 4. Bounds and why they are enough

`MC_BankEngine` runs with:
- 2 users;
- one fiat currency, so BTC and USD;
- amounts {2}, rate {2}, probe fee {0}, fee margin 1/2 (so the estimated fee is 0 or 1);
- one outside invoice of 2 sats;
- insurance threshold 2 sats.

The core run uses:
- 3 invoices: the dealer's funding invoice, then one per user;
- 3 customer requests;
- 2 dealer create/pay operations;
- 1 LNURL withdrawal, so a deposit, a Create and a Pay fit in the three requests.

This reaches these paths:
- the dealer funds its account, which lifts the insurance check;
- a customer deposits in BTC or into USD;
- a customer pays an outside invoice from BTC with a probe or margin fee, or from USD with the probe fee (a USD payment with the margin fee must be covered by (2 + 1) × 2 = 6 USD, more than the requests of these bounds put into one USD account, so it is not reached), and the pay succeeds or fails and is refunded;
- a customer pays another customer's invoice;
- swaps in both directions, and dealer pays.

The faulty run also allows one LNURL withdrawal. With two requests it reaches
Create and the dealer's error on a fiat Create, but not Pay.

The faulty run replaces the third invoice by two operator transfers
(`MCOperatorCredit`) that credit a customer 2 sats each from the liability
account, with 2 requests and 1 dealer operation. One customer can then have
two debits outstanding at once: two pay tasks, or a pay task and a swap or a
fiat `PaymentQuote` waiting at the dealer, each checked against a balance
the other changes. It has about 467,000 states and takes about 40 s.

The live run uses 2 invoices and 2 requests: a funded dealer, one deposit
and one payment, or a deposit and a swap.

The rate limiter uses limit 2, an interval of 2 ticks, 4 ticks and 6 checks.
That is enough to fill a window, let it expire, and refill it.

Symmetry over users is used only in safety runs. The core run takes about
two minutes; every other run finishes within a minute.

The live run allows one restart (`MaxRestarts = 1`). Its two requests fit
one deposit and one payment, so a restart can fall while the pay task runs,
after it reported, or after the refund or settlement. It has 88,744 states
and takes about 50 s.

`CustodyRefined` is checked on the live run. It also
holds on the core run (about 5.5 minutes) and on the faulty run (9 minutes). Those
checks are too slow to keep in the runs. The live run has no LNURL
withdrawals. With LNURL, replays of one request id would share a `Wd` record,
and the mapping would have to count them as a bag.

## 5. Fairness

Weak fairness is assumed for:
- `Deposit`, `PaymentResult` and `LoopbackPayment`: the dispatcher loop drains its channels;
- `DealerAnswer`: the dealer loop answers each message in order;
- `PayTaskDone`: LND's payment timeout ends every task, orphaned ones included.

Users, outside payers, the operator, the dealer's own initiatives and
`Restart` get no fairness.

## 6. Not modelled (yet) and assumptions

- **LNURL encoding** (`utils::lnurl::encode`) is assumed to succeed.
- **LNURL fiat rates.** `LoopbackPayment` books a fiat LNURL payout with the template's one rate in both directions; the code's two conversions may use different rounding. No property depends on it.
- **The rate limiter in the engine.** `BankEngine` does not model the limiter's state: a refused request changes nothing, except on the fiat re-entry (`PaymentQuoted`), where a refusal consumes the dealer's answer and is a disjunct. `RateLimiter.tla` models the limiter itself.
- **The LNURL-withdraw order.** A wallet calls Get and then Pay. Because Get removes the template, that Pay is always refused. The model shows this (`PayLnurl` is disabled after `GetLnurl`), but no run states it as a property.
- **Store writes.** A handler's `update_account` calls are taken as one write that always succeeds, so the store holds `bal` between handlers and `Restart` reloads `bal`. Three things are listed as hazards without a property:
  - a crash between two `update_account` calls, which leaves the stored ledger unbalanced;
  - an `update_account` failure, which `update_account` ignores;
  - the `make_summary_tx` journal rows.
- **What a restart strands.** The live run checks that a restart moves no customer money. It does not state that the stranded reservations (`lost`) are never refunded, because that is a liveness failure of the code.
- **Store failures** inside `make_tx`. `make_tx` fails in the model only for a non-positive amount or a currency mismatch.
- **Deposit-limit accounting across open invoices.** Listed as a hazard and planned as a property.
- **The dealer engine's decisions.** Rates come nondeterministically from `Rates`. Swaps are between BTC and one fiat currency, and a fiat→BTC quote gives whole sats.
- **The LND connector.** It is assumed to:
  - pay an invoice at most once, within the fee limit given;
  - post a Deposit after marking our invoice settled.
- **`is_insurance_fund_depleted`** is modelled on the dealer's Internal BTC account. The code calls `get_default_account(BTC, None)`, whose choice between the dealer's two BTC accounts is in the ledger code outside `src/`.
- **Pass-through queries** (Quote, AvailableCurrencies, GetNodeInfo, QueryRoute, BankStateRequest) change no state.

## 7. Plan for the next sittings

1. Store writes as separate steps (one per `update_account`) in a module of its own, with a crash between them.
2. A deposit-limit property, and the unit mix in InvoiceResponse.
