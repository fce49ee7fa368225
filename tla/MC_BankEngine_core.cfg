\* The bank engine with a well-behaved environment: every Deposit delivered
\* once, the dealer always answers with a rate, dealer invoices paid
\* without routing fee.  Two users, three invoices (the dealer's funding
\* invoice and one per user), three customer requests.
CONSTANTS
  u1 = u1
  u2 = u2
  e1 = e1
  Users = {u1, u2}
  BANK = BANK
  DEALER = DEALER
  Fiat = {"USD"}
  Amounts = {2}
  Rates = {2}
  ProbeFees = {0}
  FeeMarginNum = 1
  FeeMarginDen = 2
  DealerFees = {0}
  DepositLimit <- MCDepositLimit
  WithdrawalOnly = FALSE
  InsuranceMin = 2
  ExtInvoices = {e1}
  ExtValue <- MCExtValue
  CliTransfers <- MCFundInsurance
  DupDelivery = FALSE
  DealerMayFail = FALSE
  MaxInvoices = 3
  MaxRequests = 3
  MaxCli = 0
  MaxDealerOps = 2
  MaxLnurl = 1
  MaxRestarts = 0
SPECIFICATION Spec
SYMMETRY MCSymmetry
INVARIANTS
  TypeOK
  NodeBacksLedger
