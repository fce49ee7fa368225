----------------------------- MODULE BankEngine -----------------------------
(***************************************************************************)
(* The bank engine of lndhubx (src/bank/src/bank_engine.rs): the single-   *)
(* writer dispatcher that owns the in-memory ledger, books every message   *)
(* as same-currency make_tx legs, reserves funds before a Lightning pay    *)
(* task is spawned and reconciles the task's PaymentResult later, and      *)
(* exchanges quotes and fiat conversions with the dealer.                  *)
(*                                                                         *)
(* One action is one message handler run to completion: process_msg is    *)
(* awaited by a single loop, so no two handlers interleave.  What does     *)
(* interleave with the handlers is the environment: pay tasks running on   *)
(* the LND node, external payers paying our invoices, and the dealer       *)
(* answering the requests forwarded to it.                                 *)
(*                                                                         *)
(* Amounts: BTC amounts are integers in sats; a fiat amount is an integer  *)
(* in fiat units and a rate r is fiat units per sat, so exchange(BTC->fiat)*)
(* multiplies by r.  Every rate, amount and fee is drawn from small sets.  *)
(***************************************************************************)
EXTENDS Integers, Sequences, FiniteSets, SequencesExt, Functions

CONSTANTS
  Users,          \* customer uids (model values)
  BANK,           \* BANK_UID, owner of the bank-liability accounts
  DEALER,         \* DEALER_UID, owner of the dealer accounts
  Fiat,           \* fiat currencies (strings), "BTC" is the other one
  Amounts,        \* amounts customers request (sats, or fiat units)
  Rates,          \* rates the dealer quotes: fiat units per sat
  ProbeFees,      \* route fees (sats) a successful probe may report
  FeeMarginNum, FeeMarginDen, \* ln_network_fee_margin = Num/Den
  DealerFees,     \* routing fees (sats) LND may pay on a dealer invoice
  DepositLimit,   \* deposit_limits: currency -> limit
  WithdrawalOnly, \* withdrawal_only setting
  InsuranceMin,   \* 10 sats: is_insurance_fund_depleted threshold
  ExtInvoices,    \* BOLT-11 invoices of outside nodes (model values)
  ExtValue,       \* their amounts in sats: ExtInvoices -> Nat \ {0}
  CliTransfers,   \* operator MakeTx requests: [out, in, amt]
  DupDelivery,    \* may a Deposit message be delivered twice?
  DealerMayFail,  \* may the dealer answer with an error / no rate?
  MaxInvoices,    \* bound: invoices created by the bank
  MaxRequests,    \* bound: customer invoice, payment, swap and LNURL requests
  MaxCli,         \* bound: operator MakeTx requests
  MaxDealerOps,   \* bound: invoices the dealer asks to create or to pay
  MaxLnurl,       \* bound: LNURL withdrawal requests created
  MaxRestarts     \* bound: restarts of the bank process

BTC == "BTC"
Cur == {BTC} \cup Fiat

ASSUME BTC \notin Fiat
ASSUME Amounts \subseteq Nat \ {0} /\ Rates \subseteq Nat \ {0}
ASSUME FeeMarginDen \in Nat \ {0} /\ FeeMarginNum \in Nat
ASSUME DepositLimit \in [Cur -> Nat]
ASSUME ExtValue \in [ExtInvoices -> Nat \ {0}]

(***************************************************************************)
(* Accounts.  A customer has one default Internal Cash account per         *)
(* currency (get_default_account); the dealer has one Internal account per *)
(* currency and one External BTC account; the bank has one External BTC    *)
(* account (the node's BTC owed to customers); the insurance fund is a     *)
(* separate BTC account of the dealer.                                     *)
(***************************************************************************)
Acct(u, c, t, k) == [uid |-> u, cur |-> c, type |-> t, class |-> k]
UA(u, c)      == Acct(u, c, "Internal", "Cash")
DI(c)         == Acct(DEALER, c, "Internal", "Cash")
DealerExt     == Acct(DEALER, BTC, "External", "Cash")
Liab          == Acct(BANK, BTC, "External", "Cash")
InsuranceFund == Acct(DEALER, BTC, "Internal", "Insurance")
CustomerAccts == {UA(u, c) : u \in Users, c \in Cur}
Accounts == CustomerAccts \cup {DI(c) : c \in Cur}
              \cup {DealerExt, Liab, InsuranceFund}

VARIABLES
  bal,        \* Ledger: account -> balance
  known,      \* keys of ledger.user_accounts
  invoices,   \* invoice rows the bank created, indexed 1..Len
  extSettled, \* external invoice rows marked settled
  available,  \* available_currencies (from Dealer::Health)
  toDealer,   \* requests forwarded to the dealer, not yet answered
  deposits,   \* Deposit messages waiting on bank_pull
  tasks,      \* pay tasks spawned and not yet finished
  results,    \* PaymentResult messages on the internal channel (FIFO)
  node,       \* BTC held by the LND node
  lndIn,      \* our invoices the node has been paid
  lndOut,     \* external invoices the node has paid
  redelivered,\* invoices whose Deposit was delivered a second time
  credits,    \* history: every booking of an invoice's value
  nReq,       \* customer payment and swap requests handled
  nCli,       \* operator MakeTx requests handled so far
  nDealer,    \* dealer create/pay invoice requests handled so far
  lnurl,      \* lnurl_withdrawal_requests: req_id -> PaymentRequest template
  loopback,   \* PaymentRequests the bank sent to itself (FIFO)
  vouchers,   \* history: req_id -> [max |-> sats offered, paid |-> sats paid]
  nLnurl,     \* LNURL withdrawal requests handled so far
  nRestart,   \* restarts so far
  orphans,    \* pay tasks started before the last restart: LND goes on
              \* with the payment, but nobody is left to hear its result
  lost        \* PaymentResults that no running bank will ever handle

vars == <<bal, known, invoices, extSettled, available, toDealer, deposits,
          tasks, results, node, lndIn, lndOut, redelivered, credits, nReq,
          nCli, nDealer, lnurl, loopback, vouchers, nLnurl, nRestart, orphans,
          lost>>
LnurlVars == <<lnurl, loopback, vouchers, nLnurl>>
RestartVars == <<nRestart, orphans, lost>>

(***************************************************************************)
(* Helpers.                                                                *)
(***************************************************************************)
\* make_tx: debit out, credit in by amt; refused unless amt > 0 and the two
\* accounts share a currency.  Every caller works on clones and writes
\* them back only when all its legs succeeded, so a refused leg changes
\* nothing.
TxOk(out, in, amt) == amt > 0 /\ out.cur = in.cur
Move(b, out, in, amt) == [b EXCEPT ![out] = @ - amt, ![in] = @ + amt]

\* Money::round_dp_with_strategy(.., AwayFromZero) of amt * margin, in sats.
MaxFee(amt) == (amt * FeeMarginNum + FeeMarginDen - 1) \div FeeMarginDen
\* try_sats of a fiat amount divided by the rate, rounded away from zero.
SatsOf(fiat, r) == (fiat + r - 1) \div r

\* is_insurance_fund_depleted reads the dealer's default BTC account.
InsuranceDepleted == bal[DI(BTC)] < InsuranceMin

OurInvoices == DOMAIN invoices
InvValue(t) == IF t \in ExtInvoices THEN ExtValue[t] ELSE invoices[t].value
Settled(t)  == IF t \in ExtInvoices THEN t \in extSettled
                                    ELSE invoices[t].settled

NewInvoice(u, a, c, tgt, ref) ==
  [uid |-> u, value |-> a, cur |-> c, tgt |-> tgt, ref |-> ref,
   settled |-> FALSE]

\* History: a payment of v sats made for request id; counted against the
\* LNURL voucher of that req_id, if the request came from one.
VoucherPaid(vs, id, v) ==
  IF id \in DOMAIN vs THEN [vs EXCEPT ![id].paid = @ + v] ELSE vs

\* One booking of an invoice's value: a deposit (from the node's side of the
\* ledger) or an internal transfer between customers.
Credit(k, i, acct, amt, r) ==
  [kind |-> k, inv |-> i, acct |-> acct, amt |-> amt, rate |-> r]

Init ==
  /\ bal = [a \in Accounts |-> 0]
  /\ known = {}
  /\ invoices = <<>>
  /\ extSettled = {}
  /\ available = {BTC}
  /\ toDealer = <<>>
  /\ deposits = <<>>
  /\ tasks = {}
  /\ results = <<>>
  /\ node = 0
  /\ lndIn = {}
  /\ lndOut = {}
  /\ redelivered = {}
  /\ credits = <<>>
  /\ nReq = 0
  /\ nCli = 0
  /\ nDealer = 0
  /\ lnurl = <<>>
  /\ loopback = <<>>
  /\ vouchers = <<>>
  /\ nLnurl = 0
  /\ nRestart = 0
  /\ orphans = {}
  /\ lost = {}

(***************************************************************************)
(* Deposit side.                                                           *)
(***************************************************************************)
\* Api::InvoiceRequest.  The rate limiter's verdict is not modelled here
\* (RateLimiter.tla does): a refused request changes nothing.  A request
\* past the insurance check creates the user's entry; it is then refused
\* in withdrawal-only mode or over the deposit limit, forwarded to the
\* dealer for a quote when it is a fiat amount, or turned into a BTC
\* invoice (create_invoice may also fail, silently).
InvoiceRequest(u, c, a, tgt) ==
  LET refused == WithdrawalOnly \/ bal[UA(u, c)] + a > DepositLimit[c]
  IN
  /\ nReq < MaxRequests
  /\ nReq' = nReq + 1
  /\ ~InsuranceDepleted
  /\ known' = known \cup {u}
  /\ \/ /\ refused \/ c = BTC
        /\ UNCHANGED <<invoices, toDealer>>
     \/ /\ ~refused /\ c # BTC
        /\ toDealer' = Append(toDealer,
                         [type |-> "InvoiceQuote", uid |-> u, cur |-> c, amt |-> a])
        /\ UNCHANGED invoices
     \/ /\ ~refused /\ c = BTC
        /\ Len(invoices) < MaxInvoices
        /\ invoices' = Append(invoices, NewInvoice(u, a, BTC, tgt, "none"))
        /\ UNCHANGED toDealer
  /\ UNCHANGED <<bal, extSettled, available, deposits, tasks, results, node,
                 lndIn, lndOut, redelivered, credits, nCli, nDealer>>
  /\ UNCHANGED <<LnurlVars, RestartVars>>

\* Api::InvoiceResponse: the dealer's quote for a fiat InvoiceRequest.  No
\* rate: refused.  Otherwise the BTC invoice is for the fiat amount over the
\* rate, rounded away from zero, after a deposit-limit check that adds the
\* fiat amount to the BTC default account's balance.
InvoiceQuoted(k) ==
  LET q == toDealer[k] IN
  /\ q.type = "InvoiceQuote"
  /\ toDealer' = RemoveAt(toDealer, k)
  /\ \/ /\ DealerMayFail
        /\ UNCHANGED <<known, invoices>>
     \/ \E r \in Rates :
          /\ known' = known \cup {q.uid}
          /\ \/ UNCHANGED invoices
             \/ /\ bal[UA(q.uid, BTC)] + q.amt <= DepositLimit[q.cur]
                /\ Len(invoices) < MaxInvoices
                /\ invoices' = Append(invoices,
                                 NewInvoice(q.uid, SatsOf(q.amt, r), q.cur, BTC, "none"))
  /\ UNCHANGED <<bal, extSettled, available, deposits, tasks, results, node,
                 lndIn, lndOut, redelivered, credits, nReq, nCli, nDealer>>
  /\ UNCHANGED <<LnurlVars, RestartVars>>

\* An outside payer pays one of our invoices: the node receives its value,
\* the LND connector's invoice subscription marks the row settled and
\* posts a Deposit message to the bank.
ExternalPay(i) ==
  /\ i \notin lndIn
  /\ node' = node + invoices[i].value
  /\ lndIn' = lndIn \cup {i}
  /\ invoices' = [invoices EXCEPT ![i].settled = TRUE]
  /\ deposits' = Append(deposits, i)
  /\ UNCHANGED <<bal, known, extSettled, available, toDealer, tasks,
                 results, lndOut, redelivered, credits, nReq, nCli, nDealer>>
  /\ UNCHANGED <<LnurlVars, RestartVars>>

\* The same Deposit message delivered a second time.
RedeliverDeposit(i) ==
  /\ DupDelivery
  /\ i \in lndIn /\ i \notin redelivered
  /\ deposits' = Append(deposits, i)
  /\ redelivered' = redelivered \cup {i}
  /\ UNCHANGED <<bal, known, invoices, extSettled, available, toDealer, tasks,
                 results, node, lndIn, lndOut, credits, nReq, nCli, nDealer>>
  /\ UNCHANGED <<LnurlVars, RestartVars>>

\* handle_dealer_deposit: the invoice's reference says where the BTC came
\* from: "KolliderSettlement" from the dealer's External account,
\* "ExternalDeposit" from the bank's liability account; any other is ignored.
\* Bug variant of DealerDepositRefs: the insurance deposit's memo is not
\* matched.
SettlementRefOnly == {"KolliderSettlement"}
DealerDepositRefs == {"KolliderSettlement", "ExternalDeposit"}
DealerDeposit(i) ==
  LET v    == invoices[i].value
      from == IF invoices[i].ref = "KolliderSettlement" THEN DealerExt ELSE Liab
  IN IF invoices[i].ref \in DealerDepositRefs
     THEN /\ bal' = Move(bal, from, DI(BTC), v)
          /\ credits' = Append(credits, Credit("Deposit", i, DI(BTC), v, 1))
     ELSE UNCHANGED <<bal, credits>>

\* Message::Deposit.  A dealer invoice goes to handle_dealer_deposit; a
\* customer invoice in fiat, or in BTC with a fiat target account, is sent
\* to the dealer as a FiatDepositRequest; a BTC one is booked from the
\* bank's liability account to the customer's BTC account.  The invoice's
\* settled flag is neither read nor written.
Deposit ==
  LET i   == Head(deposits)
      inv == invoices[i]
      c   == IF inv.cur = BTC THEN inv.tgt ELSE inv.cur
  IN
  /\ deposits # <<>>
  /\ deposits' = Tail(deposits)
  /\ IF inv.uid = DEALER
     THEN /\ DealerDeposit(i)
          /\ UNCHANGED <<known, toDealer>>
     ELSE IF c # BTC
     THEN /\ toDealer' = Append(toDealer, [type |-> "FiatDeposit", uid |-> inv.uid,
                                           cur |-> c, amt |-> inv.value, inv |-> i])
          /\ UNCHANGED <<bal, known, credits>>
     ELSE /\ known' = known \cup {inv.uid}
          /\ bal' = Move(bal, Liab, UA(inv.uid, BTC), inv.value)
          /\ credits' = Append(credits, Credit("Deposit", i, UA(inv.uid, BTC), inv.value, 1))
          /\ UNCHANGED toDealer
  /\ UNCHANGED <<invoices, extSettled, available, tasks, results, node, lndIn,
                 lndOut, redelivered, nReq, nCli, nDealer>>
  /\ UNCHANGED <<LnurlVars, RestartVars>>

\* Dealer::FiatDepositResponse.  An error or a missing rate drops the
\* deposit (the code's TODO: no BTC fallback).  Otherwise two legs: the
\* BTC moves from the liability account to the dealer, and the dealer's
\* fiat account pays the customer value * rate.
FiatDepositAnswered(k) ==
  LET q == toDealer[k] IN
  /\ q.type = "FiatDeposit"
  /\ toDealer' = RemoveAt(toDealer, k)
  /\ \/ /\ DealerMayFail
        /\ UNCHANGED <<bal, known, credits>>
     \/ \E r \in Rates :
          /\ known' = known \cup {q.uid}
          /\ bal' = Move(Move(bal, Liab, DI(BTC), q.amt),
                         DI(q.cur), UA(q.uid, q.cur), q.amt * r)
          /\ credits' = Append(credits, Credit("Deposit", q.inv, UA(q.uid, q.cur), q.amt * r, r))
  /\ UNCHANGED <<invoices, extSettled, available, deposits, tasks, results,
                 node, lndIn, lndOut, redelivered, nReq, nCli, nDealer>>
  /\ UNCHANGED <<LnurlVars, RestartVars>>

(***************************************************************************)
(* Withdrawal side.                                                        *)
(***************************************************************************)
\* make_internal_tx: pay customer v from u's account in currency c.  Sending
\* to oneself is dropped; the recipient's entry is created before the
\* balance check; the invoice (if any) is not marked settled.
InternalTx(u, v, c, a, t, r) ==
  /\ u # v
  /\ known' = known \cup {v}
  /\ IF bal[UA(u, c)] < a
     THEN UNCHANGED <<bal, credits>>
     ELSE /\ bal' = Move(bal, UA(u, c), UA(v, c), a)
          /\ credits' = IF t \in OurInvoices
                        THEN Append(credits, Credit("Transfer", t, UA(v, c), a, r))
                        ELSE credits

\* The reservation made before a pay task is spawned: the customer pays
\* amount + estimated fee (exchanged at r) into the bank's liability
\* account, through the dealer when the customer pays in fiat.
Reserve(u, c, v, est, r) ==
  IF c # BTC
  THEN Move(Move(bal, UA(u, c), DI(c), (v + est) * r), DI(BTC), Liab, v + est)
  ELSE Move(bal, UA(u, BTC), Liab, v + est)

\* Bug variant of IsExternal: the owner is lost (the invoice row is
\* re-created without it), so every invoice is paid through LND.
OwnerIgnored(t) == t \in ExtInvoices \cup OurInvoices

\* invoice.owner.is_none(): the invoice leaves the platform.
IsExternal(t) == t \in ExtInvoices

\* Bug variant of Covers: the estimated fee is left out of the check.
CoversAmountOnly(u, c, v, est, r) == bal[UA(u, c)] >= v * r

\* The balance check: the outbound account must cover amount + estimated
\* fee, exchanged at the request's rate.
Covers(u, c, v, est, r) == bal[UA(u, c)] >= (v + est) * r

\* Api::PaymentRequest for invoice t from the point where the rate r is
\* known: self-payment and already-settled invoices are refused; the fee is
\* estimated (a probe's route fee, else the margin); the balance must cover
\* amount + fee; an invoice without owner is reserved and handed to a pay
\* task, one of ours is paid to its owner by make_internal_tx with the
\* invoice's amount in sats as the amount, in the payer's currency.
ProcessPayment(id, u, c, t, r) ==
  LET v       == InvValue(t)
      refused == (t \in OurInvoices /\ invoices[t].uid = u) \/ Settled(t)
  IN
  \/ /\ refused
     /\ UNCHANGED <<bal, known, tasks, credits, vouchers>>
  \/ /\ ~refused
     /\ \E est \in {MaxFee(v)} \cup ProbeFees :
          \/ /\ ~Covers(u, c, v, est, r)
             /\ UNCHANGED <<bal, known, tasks, credits, vouchers>>
          \/ /\ Covers(u, c, v, est, r)
             /\ IsExternal(t)
             /\ bal' = Reserve(u, c, v, est, r)
             /\ tasks' = tasks \cup {[id |-> id, uid |-> u, cur |-> c, inv |-> t,
                                       amt |-> v, est |-> est, rate |-> r]}
             /\ UNCHANGED <<known, credits, vouchers>>
          \/ /\ Covers(u, c, v, est, r)
             /\ ~IsExternal(t)
             /\ InternalTx(u, invoices[t].uid, c, v, t, r)
             /\ vouchers' = VoucherPaid(vouchers, id, v)
             /\ UNCHANGED tasks

\* Api::PaymentRequest for an invoice: the user must have an entry; a fiat
\* payment without a rate goes to the dealer for a quote first.
PaymentRequest(u, c, t) ==
  /\ u \in known
  /\ nReq < MaxRequests
  /\ nReq' = nReq + 1
  /\ IF c # BTC
     THEN /\ toDealer' = Append(toDealer, [type |-> "PaymentQuote", id |-> nReq,
                                           uid |-> u, cur |-> c, inv |-> t])
          /\ UNCHANGED <<bal, known, tasks, credits, vouchers>>
     ELSE /\ ProcessPayment(nReq, u, BTC, t, 1)
          /\ UNCHANGED toDealer
  /\ UNCHANGED <<invoices, extSettled, available, deposits, results, node,
                 lndIn, lndOut, redelivered, nCli, nDealer>>
  /\ UNCHANGED <<lnurl, loopback, nLnurl, RestartVars>>

\* Api::PaymentRequest with a recipient username: make_internal_tx.
PayUser(u, v, c, a) ==
  /\ u \in known
  /\ nReq < MaxRequests
  /\ nReq' = nReq + 1
  /\ \/ /\ u = v
        /\ UNCHANGED <<bal, known, credits>>
     \/ InternalTx(u, v, c, a, 0, 1)
  /\ UNCHANGED <<invoices, extSettled, available, toDealer, deposits, tasks,
                 results, node, lndIn, lndOut, redelivered, nCli, nDealer>>
  /\ UNCHANGED <<LnurlVars, RestartVars>>

\* The dealer sends the fiat PaymentRequest back with a rate and the
\* handler runs again from the top: the rate limiter is consulted a second
\* time and may refuse, and a user whose entry a restart dropped is
\* refused (UserAccountNotFound); otherwise the request goes on with the
\* dealer's rate.
PaymentQuoted(k) ==
  LET q == toDealer[k] IN
  /\ q.type = "PaymentQuote"
  /\ toDealer' = RemoveAt(toDealer, k)
  /\ \/ \* a dealer error, or the limiter refusing the re-entry
        UNCHANGED <<bal, known, tasks, credits, vouchers>>
     \/ /\ q.uid \in known
        /\ \E r \in Rates : ProcessPayment(q.id, q.uid, q.cur, q.inv, r)
  /\ UNCHANGED <<invoices, extSettled, available, deposits, results, node,
                 lndIn, lndOut, redelivered, nReq, nCli, nDealer>>
  /\ UNCHANGED <<lnurl, loopback, nLnurl, RestartVars>>

\* Where a pay task's PaymentResult goes: onto the internal channel, or,
\* when the bank that spawned the task has restarted since, nowhere.
Report(t, ok, f) ==
  LET r == [task |-> t, ok |-> ok, fee |-> f] IN
  \/ /\ t \notin orphans
     /\ results' = Append(results, r)
     /\ UNCHANGED <<orphans, lost>>
  \/ /\ t \in orphans
     /\ orphans' = orphans \ {t}
     /\ lost' = lost \cup {r}
     /\ UNCHANGED results

\* Bug variant of PayTaskDone: the task's Err arm sends no PaymentResult.
PayTaskDoneSilentFailure(t) ==
  /\ tasks' = tasks \ {t}
  /\ \/ \E f \in 0..t.est :
          /\ t.inv \notin lndOut
          /\ node >= t.amt + f
          /\ node' = node - (t.amt + f)
          /\ lndOut' = lndOut \cup {t.inv}
          /\ Report(t, TRUE, f)
     \/ /\ orphans' = orphans \ {t}
        /\ UNCHANGED <<node, lndOut, results, lost>>
  /\ UNCHANGED <<bal, known, invoices, extSettled, available, toDealer,
                 deposits, lndIn, redelivered, credits, nReq, nCli, nDealer>>
  /\ UNCHANGED <<LnurlVars, nRestart>>

\* The spawned task's pay_invoice: LND pays an invoice at most once, with a
\* routing fee within the estimated fee it was given as a limit, and only
\* from funds the node holds; otherwise the payment fails.  Either way a
\* PaymentResult is sent on the internal channel.
PayTaskDone(t) ==
  /\ tasks' = tasks \ {t}
  /\ \/ \E f \in 0..t.est :
          /\ t.inv \notin lndOut
          /\ node >= t.amt + f
          /\ node' = node - (t.amt + f)
          /\ lndOut' = lndOut \cup {t.inv}
          /\ Report(t, TRUE, f)
     \/ /\ Report(t, FALSE, 0)
        /\ UNCHANGED <<node, lndOut>>
  /\ UNCHANGED <<bal, known, invoices, extSettled, available, toDealer,
                 deposits, lndIn, redelivered, credits, nReq, nCli, nDealer>>
  /\ UNCHANGED <<LnurlVars, nRestart>>

\* Bank::PaymentResult.  Success: the fee reserved but not spent goes from
\* the liability account to the dealer and the invoice is marked settled.
\* Failure: amount + reserved fee goes back to the customer, through the
\* dealer's accounts at the request's rate when the customer paid in fiat.
\* Bug variant of Refund: the reserved fee is not given back.
RefundWithoutFee(t) == t.amt

\* PaymentResult.amount, what a failed payment refunds: the task's
\* outbound_amount_in_btc_plus_max_fees.
Refund(t) == t.amt + t.est

PaymentResult ==
  LET res    == Head(results)
      t      == res.task
      refund == Refund(t)
      excess == t.est - res.fee
  IN
  /\ results # <<>>
  /\ results' = Tail(results)
  /\ IF t.uid \notin known
     THEN UNCHANGED <<bal, extSettled, vouchers>>
     ELSE IF res.ok
     THEN /\ bal' = IF excess > 0 THEN Move(bal, Liab, DI(BTC), excess) ELSE bal
          /\ extSettled' = extSettled \cup {t.inv}
          /\ vouchers' = VoucherPaid(vouchers, t.id, t.amt)
     ELSE /\ bal' = IF t.cur # BTC
                    THEN Move(Move(bal, Liab, DI(BTC), refund),
                              DI(t.cur), UA(t.uid, t.cur), refund * t.rate)
                    ELSE Move(bal, Liab, UA(t.uid, BTC), refund)
          /\ UNCHANGED <<extSettled, vouchers>>
  /\ UNCHANGED <<known, invoices, available, toDealer, deposits, tasks, node,
                 lndIn, lndOut, redelivered, credits, nReq, nCli, nDealer>>
  /\ UNCHANGED <<lnurl, loopback, nLnurl, RestartVars>>

(***************************************************************************)
(* Swaps.                                                                  *)
(***************************************************************************)
\* Api::SwapRequest: silently dropped while the insurance is depleted,
\* otherwise forwarded to the dealer for a rate.
SwapRequest(u, from, to, a) ==
  /\ nReq < MaxRequests
  /\ nReq' = nReq + 1
  /\ \/ /\ InsuranceDepleted
        /\ UNCHANGED toDealer
     \/ /\ ~InsuranceDepleted
        /\ toDealer' = Append(toDealer, [type |-> "Swap", uid |-> u, from |-> from,
                                         to |-> to, amt |-> a])
  /\ UNCHANGED <<bal, known, invoices, extSettled, available, deposits, tasks,
                 results, node, lndIn, lndOut, redelivered, credits, nCli, nDealer>>
  /\ UNCHANGED <<LnurlVars, RestartVars>>

\* What the dealer's rate turns a swap of a units into: BTC -> fiat
\* multiplies by r; fiat -> BTC divides, and the dealer is assumed to quote
\* only rates that give whole sats.
SwapProceeds(from, a, r) ==
  IF from = BTC THEN {a * r} ELSE IF a % r = 0 THEN {a \div r} ELSE {}

\* The swap's two legs on clones of the four accounts (user from -> dealer
\* from by a, dealer to -> user to by the proceeds), written back in the
\* code's order: user from, user to, dealer to, dealer from.  Each clone
\* was taken before either leg, so when two are the same account the later
\* write-back wins.
SwapBooking(u, from, to, a, in) ==
  [bal EXCEPT ![UA(u, from)] = bal[UA(u, from)] - a,
              ![UA(u, to)]   = bal[UA(u, to)] + in,
              ![DI(to)]      = bal[DI(to)] - in,
              ![DI(from)]    = bal[DI(from)] + a]

\* Api::SwapResponse.  In order: a dealer error is passed on; the target
\* currency must be available; the user must have an entry; the from
\* account must cover the amount; then SwapBooking.
SwapAnswered(k) ==
  LET q == toDealer[k]
      u == q.uid
  IN
  /\ q.type = "Swap"
  /\ toDealer' = RemoveAt(toDealer, k)
  /\ \/ /\ DealerMayFail
        /\ UNCHANGED bal
     \/ /\ \/ q.to \notin available
           \/ u \notin known
           \/ bal[UA(u, q.from)] < q.amt
        /\ UNCHANGED bal
     \/ /\ q.to \in available /\ u \in known /\ bal[UA(u, q.from)] >= q.amt
        /\ \E r \in Rates : \E in \in SwapProceeds(q.from, q.amt, r) :
             /\ in > 0
             /\ bal' = SwapBooking(u, q.from, q.to, q.amt, in)
  /\ UNCHANGED <<known, invoices, extSettled, available, deposits, tasks,
                 results, node, lndIn, lndOut, redelivered, credits, nReq, nCli, nDealer>>
  /\ UNCHANGED <<LnurlVars, RestartVars>>

(***************************************************************************)
(* LNURL withdrawal: Create stores a PaymentRequest template under the     *)
(* request's req_id, Get answers the wallet's lookup, Pay attaches the     *)
(* wallet's BOLT-11 and sends the template to the bank itself as a normal  *)
(* Api::PaymentRequest.                                                    *)
(***************************************************************************)
\* max_withdrawable: the template's amount exchanged at its rate, in sats.
VoucherSats(c, a, r) == IF c = BTC THEN a ELSE SatsOf(a, r)

\* The rest of Api::CreateLnurlWithdrawalRequest once the rate is known:
\* the default account in the request's currency must hold the amount
\* (nothing is reserved); then the template is stored (the LNURL encoding
\* of the fixed URL and the req_id is assumed to succeed).
LnurlTemplate(id, u, c, a, r) ==
  \/ /\ bal[UA(u, c)] < a
     /\ UNCHANGED <<lnurl, vouchers>>
  \/ /\ bal[UA(u, c)] >= a
     /\ lnurl' = lnurl @@ (id :> [uid |-> u, cur |-> c, amt |-> a, rate |-> r])
     /\ vouchers' = vouchers @@ (id :> [max |-> VoucherSats(c, a, r), paid |-> 0])

\* Api::CreateLnurlWithdrawalRequest with req_id nReq.  The insurance check
\* only logs; the user must have an entry (none is created); a fiat amount
\* without a rate goes to the dealer first.
CreateLnurl(u, c, a) ==
  /\ u \in known
  /\ nLnurl < MaxLnurl /\ nReq < MaxRequests
  /\ nLnurl' = nLnurl + 1
  /\ nReq' = nReq + 1
  /\ IF c # BTC
     THEN /\ toDealer' = Append(toDealer, [type |-> "LnurlQuote", id |-> nReq,
                                           uid |-> u, cur |-> c, amt |-> a])
          /\ UNCHANGED <<lnurl, vouchers>>
     ELSE /\ LnurlTemplate(nReq, u, BTC, a, 1)
          /\ UNCHANGED toDealer
  /\ UNCHANGED <<bal, known, invoices, extSettled, available, deposits, tasks,
                 results, node, lndIn, lndOut, redelivered, credits, nCli,
                 nDealer, loopback, RestartVars>>

\* The dealer sends the fiat request back with a rate and the handler runs
\* again (an error from the dealer drops it).
LnurlQuoted(k) ==
  LET q == toDealer[k] IN
  /\ q.type = "LnurlQuote"
  /\ toDealer' = RemoveAt(toDealer, k)
  /\ \/ /\ DealerMayFail
        /\ UNCHANGED <<lnurl, vouchers>>
     \/ \E r \in Rates : LnurlTemplate(q.id, q.uid, q.cur, q.amt, r)
  /\ UNCHANGED <<bal, known, invoices, extSettled, available, deposits, tasks,
                 results, node, lndIn, lndOut, redelivered, credits, nReq, nCli,
                 nDealer, loopback, nLnurl, RestartVars>>

\* Api::GetLnurlWithdrawalRequest: the template is removed and its amount
\* in sats returned as max_withdrawable; an unknown req_id is answered
\* RequestNotFound and changes nothing.
GetLnurl(id) ==
  /\ id \in DOMAIN lnurl
  /\ lnurl' = Restrict(lnurl, DOMAIN lnurl \ {id})
  /\ UNCHANGED <<bal, known, invoices, extSettled, available, toDealer,
                 deposits, tasks, results, node, lndIn, lndOut, redelivered,
                 credits, nReq, nCli, nDealer, loopback, vouchers, nLnurl, RestartVars>>

\* Api::PayLnurlWithdrawalRequest: the wallet's BOLT-11 t is attached to
\* the template, which stays stored, and the template is sent to the bank
\* itself as an Api::PaymentRequest; an unknown req_id is answered
\* RequestNotFound and changes nothing.
PayLnurl(id, t) ==
  /\ id \in DOMAIN lnurl
  /\ nReq < MaxRequests
  /\ nReq' = nReq + 1
  /\ loopback' = Append(loopback, [id |-> id, inv |-> t] @@ lnurl[id])
  /\ UNCHANGED <<bal, known, invoices, extSettled, available, toDealer,
                 deposits, tasks, results, node, lndIn, lndOut, redelivered,
                 credits, nCli, nDealer, lnurl, vouchers, nLnurl, RestartVars>>

\* The looped-back Api::PaymentRequest: it carries the template's rate, so
\* a fiat one is not sent to the dealer for a fresh quote; a BTC one gets
\* rate 1.  The amount is replaced by the invoice's own amount.
LoopbackPayment ==
  LET m == Head(loopback) IN
  /\ loopback # <<>>
  /\ loopback' = Tail(loopback)
  /\ m.uid \in known
  /\ ProcessPayment(m.id, m.uid, m.cur, m.inv, m.rate)
  /\ UNCHANGED <<invoices, extSettled, available, toDealer, deposits, results,
                 node, lndIn, lndOut, redelivered, nReq, nCli, nDealer, lnurl,
                 nLnurl, RestartVars>>

(***************************************************************************)
(* Dealer operations.                                                      *)
(***************************************************************************)
\* Dealer::Health: take the dealer's currencies, cleared when the dealer is
\* down or the insurance is depleted.
DealerHealth(down, avail) ==
  /\ available' = IF down \/ InsuranceDepleted THEN {} ELSE avail
  /\ UNCHANGED <<bal, known, invoices, extSettled, toDealer, deposits, tasks,
                 results, node, lndIn, lndOut, redelivered, credits, nReq, nCli, nDealer>>
  /\ UNCHANGED <<LnurlVars, RestartVars>>

\* Dealer::CreateInvoiceRequest / CreateInsuranceInvoiceRequest: a BTC
\* invoice owned by the dealer whose memo says where its deposit is booked.
DealerCreateInvoice(ref, a) ==
  /\ nDealer < MaxDealerOps
  /\ nDealer' = nDealer + 1
  /\ Len(invoices) < MaxInvoices
  /\ invoices' = Append(invoices, NewInvoice(DEALER, a, BTC, BTC, ref))
  /\ UNCHANGED <<bal, known, extSettled, available, toDealer, deposits, tasks,
                 results, node, lndIn, lndOut, redelivered, credits, nReq, nCli>>
  /\ UNCHANGED <<LnurlVars, RestartVars>>

\* process_dealer_invoice: the dispatcher awaits pay_invoice for amount a
\* with ln_network_max_fee as fee limit; LND pays a routing fee f.  On
\* success a is booked from the dealer's BTC account to the bank's
\* liability account (insurance invoice) or to the dealer's External
\* account; the fee is not booked.  On failure nothing changes.
DealerPayInvoice(isExt, a, f) ==
  /\ nDealer < MaxDealerOps
  /\ nDealer' = nDealer + 1
  /\ node >= a + f
  /\ node' = node - (a + f)
  /\ bal' = Move(bal, DI(BTC), IF isExt THEN Liab ELSE DealerExt, a)
  /\ UNCHANGED <<known, invoices, extSettled, available, toDealer, deposits,
                 tasks, results, lndIn, lndOut, redelivered, credits, nReq, nCli>>
  /\ UNCHANGED <<LnurlVars, RestartVars>>

(***************************************************************************)
(* Operator and balance queries.                                           *)
(***************************************************************************)
\* process_make_tx (Cli::MakeTx): refused for a negative amount, identical
\* endpoints, an insurance-fund leg whose other side is not the bank's
\* liability account, an account the ledger does not have (a customer
\* account exists once its user has an entry), a currency mismatch, or a
\* zero amount (make_tx).  There is no balance check.
CliResolvable(a) ==
  a \in {Liab, InsuranceFund} \/ (a \in CustomerAccts /\ a.uid \in known)
CliMakeTx(x) ==
  LET ok == /\ x.amt >= 0
            /\ x.out # x.in
            /\ x.in = InsuranceFund => x.out = Liab
            /\ x.out = InsuranceFund => x.in = Liab
            /\ CliResolvable(x.out) /\ CliResolvable(x.in)
            /\ TxOk(x.out, x.in, x.amt)
  IN
  /\ nCli < MaxCli
  /\ nCli' = nCli + 1
  /\ bal' = IF ok THEN Move(bal, x.out, x.in, x.amt) ELSE bal
  /\ UNCHANGED <<known, invoices, extSettled, available, toDealer, deposits,
                 tasks, results, node, lndIn, lndOut, redelivered, credits, nReq, nDealer>>
  /\ UNCHANGED <<LnurlVars, RestartVars>>

\* Api::GetBalances creates the user's entry if it is missing.
GetBalances(u) ==
  /\ known' = known \cup {u}
  /\ UNCHANGED <<bal, invoices, extSettled, available, toDealer, deposits,
                 tasks, results, node, lndIn, lndOut, redelivered, credits, nReq, nCli, nDealer>>
  /\ UNCHANGED <<LnurlVars, RestartVars>>

(***************************************************************************)
(* Restart.  The ledger survives a restart by a full reload from the       *)
(* store; everything else the engine holds in memory is gone.  Every       *)
(* handler's update_account writes are taken to have reached the store     *)
(* (a crash between two of them is not modelled), so the store holds bal.  *)
(***************************************************************************)
\* init_accounts: the bank's and the dealer's accounts, and the accounts of
\* every non-internal user with an account row in the store.  A user whose
\* entry was never written to the store has no row and is not reloaded;
\* such a user has no balance, so a dealer answer to a request made
\* before the restart is refused by its balance check as it would be for
\* the missing entry.
Reload ==
  \E k \in SUBSET known :
    /\ {u \in known : \E c \in Cur : bal[UA(u, c)] # 0} \subseteq k
    /\ known' = k

\* The bank process stops and BankEngine::new builds a fresh engine, then
\* init_accounts runs: available_currencies is [BTC] again, the LNURL
\* templates and the looped-back requests are gone, the PaymentResults
\* on the internal channel are lost, and the pay tasks are dropped while
\* the payments they handed to LND go on.  Requests at the dealer, the
\* Deposits the LND subscription has posted, and the invoice table live
\* outside the process and are kept.
Restart ==
  /\ nRestart < MaxRestarts
  /\ nRestart' = nRestart + 1
  /\ Reload
  /\ available' = {BTC}
  /\ orphans' = tasks
  /\ lost' = lost \cup Range(results)
  /\ results' = <<>>
  /\ lnurl' = <<>>
  /\ loopback' = <<>>
  /\ UNCHANGED <<bal, invoices, extSettled, toDealer, deposits, tasks, node,
                 lndIn, lndOut, redelivered, credits, nReq, nCli, nDealer,
                 vouchers, nLnurl>>

(***************************************************************************)
(* The specification.                                                      *)
(***************************************************************************)
\* Invoices a customer may try to pay: outside invoices and the invoices of
\* other customers (dealer invoices are never handed to customers).
Payable == ExtInvoices \cup {i \in OurInvoices : invoices[i].uid # DEALER}
\* Swaps the dealer quotes: between BTC and a fiat currency.
SwapPairs == {p \in Cur \X Cur : p[1] # p[2] /\ BTC \in {p[1], p[2]}}

\* The dealer's main loop (dealer/src/lib.rs) takes the bank's messages one
\* at a time in arrival order and answers each before the next, so the
\* dispatcher receives the answers in the order the requests were sent.
DealerAnswer ==
  /\ toDealer # <<>>
  /\ InvoiceQuoted(1) \/ FiatDepositAnswered(1) \/ PaymentQuoted(1)
     \/ SwapAnswered(1) \/ LnurlQuoted(1)

Next ==
  \/ \E u \in Users, c \in Cur, a \in Amounts :
       \E tgt \in (IF c = BTC THEN Cur ELSE {BTC}) : InvoiceRequest(u, c, a, tgt)
  \/ \E i \in OurInvoices : ExternalPay(i) \/ RedeliverDeposit(i)
  \/ Deposit
  \/ DealerAnswer
  \/ \E u \in Users, c \in Cur, t \in Payable : PaymentRequest(u, c, t)
  \/ \E u, v \in Users, c \in Cur, a \in Amounts : PayUser(u, v, c, a)
  \/ \E t \in tasks : PayTaskDone(t)
  \/ PaymentResult
  \/ \E u \in Users, p \in SwapPairs, a \in Amounts : SwapRequest(u, p[1], p[2], a)
  \/ \E down \in BOOLEAN, avail \in {{BTC}, Cur} : DealerHealth(down, avail)
  \/ \E ref \in {"KolliderSettlement", "ExternalDeposit"}, a \in Amounts :
       DealerCreateInvoice(ref, a)
  \/ \E isExt \in BOOLEAN, a \in Amounts, f \in DealerFees :
       DealerPayInvoice(isExt, a, f)
  \/ \E x \in CliTransfers : CliMakeTx(x)
  \/ \E u \in Users : GetBalances(u)
  \/ \E u \in Users, c \in Cur, a \in Amounts : CreateLnurl(u, c, a)
  \/ \E id \in DOMAIN lnurl : GetLnurl(id) \/ \E t \in Payable : PayLnurl(id, t)
  \/ LoopbackPayment
  \/ Restart

\* process_msg is awaited by one loop that drains the API, dealer, deposit
\* and internal channels, so a pending message is eventually handled; the
\* dealer answers every request it is sent; a pay task ends (LND's payment
\* timeout) and sends its result.  Users, outside payers, the operator and
\* the dealer's own initiatives get no fairness.
Fairness ==
  /\ WF_vars(Deposit)
  /\ WF_vars(PaymentResult)
  /\ WF_vars(LoopbackPayment)
  /\ WF_vars(DealerAnswer)
  /\ WF_vars(\E t \in tasks : PayTaskDone(t))

Spec == Init /\ [][Next]_vars /\ Fairness

(***************************************************************************)
(* Properties.                                                             *)
(***************************************************************************)
Invoice == [uid : Users \cup {DEALER}, value : Nat, cur : Cur, tgt : Cur,
            ref : {"none", "KolliderSettlement", "ExternalDeposit"},
            settled : BOOLEAN]

TypeOK ==
  /\ bal \in [Accounts -> Int]
  /\ known \subseteq Users
  /\ invoices \in Seq(Invoice)
  /\ extSettled \subseteq ExtInvoices
  /\ available \subseteq Cur
  /\ deposits \in Seq(OurInvoices)
  /\ \A t \in tasks : t.uid \in Users /\ t.inv \in ExtInvoices /\ t.est \in Nat
  /\ \A k \in DOMAIN results : results[k].fee \in 0..results[k].task.est
  /\ node \in Nat
  /\ lndIn \subseteq OurInvoices /\ lndOut \subseteq ExtInvoices
  /\ nReq \in 0..MaxRequests /\ nCli \in 0..MaxCli /\ nDealer \in 0..MaxDealerOps
  /\ DOMAIN lnurl \subseteq DOMAIN vouchers
  /\ \A m \in Range(loopback) : m.id \in DOMAIN vouchers /\ m.uid \in Users
  /\ nLnurl \in 0..MaxLnurl
  /\ nRestart \in 0..MaxRestarts /\ orphans \subseteq tasks

\* Every debit of a customer account (payment reservation, internal
\* transfer, swap) is preceded by a balance check in the same handler, so
\* no customer account is ever overdrawn.
NoNegativeCustomerBalance == \A a \in CustomerAccts : bal[a] >= 0

\* The LND node holds every sat the ledger credits inside the bank (the
\* customers' BTC accounts and the dealer's Internal BTC account), plus
\* what is in transit: amount + fee reserved by pay tasks still running,
\* what their results will still move, and invoices the node was paid for
\* whose Deposit is not yet booked.  Dealer pays, dealer deposits, customer
\* deposits, withdrawals and their reconciliation must all agree on it.
\* (The insurance fund is an operator book entry against the liability
\* account and no claim on the node.)  Across a restart, the results the
\* restart lost and those its orphaned tasks send nowhere (lost) stay in
\* transit for good: that is the customers' money the restart strands.
Booked == {credits[k].inv : k \in {j \in DOMAIN credits : credits[j].kind = "Deposit"}}
PendingResult(r) == IF r.ok THEN r.task.est - r.fee ELSE r.task.amt + r.task.est
InTransit ==
  MapThenSumSet(LAMBDA t : t.amt + t.est, tasks)
  + MapThenSumSet(LAMBDA k : PendingResult(results[k]), DOMAIN results)
  + MapThenSumSet(PendingResult, lost)
  + MapThenSumSet(LAMBDA i : invoices[i].value, lndIn \ Booked)
HeldInside ==
  MapThenSumSet(LAMBDA a : bal[a], {UA(u, BTC) : u \in Users}) + bal[DI(BTC)]
NodeBacksLedger == node = HeldInside + InTransit

\* The refinement: customer balances are the default accounts, and the
\* withdrawals in flight are the running pay tasks and the PaymentResults
\* not yet handled, each charged PaymentResult.amount (amount + estimated
\* fee) at the request's rate, paid when LND paid it.  A booking moves at
\* most the largest invoice plus its largest fee, at the largest rate.
Wd(t, paid) ==
  [id |-> t.id, uid |-> t.uid, cur |-> t.cur,
   charge |-> (t.amt + t.est) * t.rate, paid |-> paid]
MaxInvoiceValue == Max(Amounts \cup Range(ExtValue))
CustodyAmounts ==
  1..((MaxInvoiceValue + Max({MaxFee(MaxInvoiceValue)} \cup ProbeFees)) * Max(Rates))
CustodyAbs == INSTANCE Custody WITH
  held     <- [p \in Users \X Cur |-> bal[UA(p[1], p[2])]],
  inflight <- {Wd(t, FALSE) : t \in tasks}
              \cup {Wd(results[k].task, results[k].ok) : k \in DOMAIN results}
              \cup {Wd(r.task, r.ok) : r \in lost},
  Numbers  <- CustodyAmounts

\* The bank keeps its promise to customers (Custody): every debit of a
\* customer is a covered transfer, swap or withdrawal reservation; a
\* withdrawal's pay task either pays it, and its result completes it, or
\* fails, and its result refunds exactly the reserved charge; credits are
\* the only other changes.  Reservation, task, result channel and
\* PaymentResult handler must agree for this to hold.
CustodyRefined == CustodyAbs!Spec

\* Every Deposit the node received is eventually booked to its owner.
DepositsEventuallyBooked == \A i \in 1..MaxInvoices : i \in lndIn ~> i \in Booked

\* The spec's idempotency rule: an invoice is settled once, and settling an
\* already-settled invoice is refused.  So each of our invoices has its
\* value booked to a customer at most once, whether it was paid through
\* LND (Deposit) or by another customer (make_internal_tx).
InvoiceCreditedAtMostOnce ==
  \A j, k \in DOMAIN credits :
    j # k => credits[j].inv # credits[k].inv

\* Whoever pays one of our invoices, its owner is credited the invoice's
\* sats at the rate of the booking: value * rate units of the credited
\* account's currency.
InvoiceCreditMatchesValue ==
  \A k \in DOMAIN credits :
    credits[k].amt = invoices[credits[k].inv].value * credits[k].rate

\* The spec: while the insurance fund holds less than 10 sats, new
\* invoicing is refused, so no customer invoice is created in a step that
\* starts with the fund depleted.
InvoicingSuspendedWhenDepleted ==
  [][bal[InsuranceFund] < InsuranceMin =>
       \A i \in DOMAIN invoices' \ DOMAIN invoices : invoices'[i].uid = DEALER]_vars

\* An LNURL withdrawal offers the wallet max_withdrawable sats, and the
\* LNURL-withdraw flow is a single withdrawal of at most that: whatever
\* the wallet sends to Pay, the payments made for one LNURL request
\* (through LND or to another customer) add up to at most its amount.
LnurlPayoutWithinVoucher ==
  \A id \in DOMAIN vouchers : vouchers[id].paid <= vouchers[id].max
====
