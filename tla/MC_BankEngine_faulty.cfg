\* The bank engine in a faulty environment: a Deposit may be delivered
\* twice, the dealer may answer any request with an error, and two operator
\* transfers fund customers so that two of one customer's debits are in flight.
CONSTANTS
  u1 = u1
  u2 = u2
  e1 = e1
  Users = {u1, u2}
  BANK = BANK
  DEALER = DEALER
  Fiat = {"USD"}
  Amounts = {2}
  Rates = {2}
  ProbeFees = {0}
  FeeMarginNum = 1
  FeeMarginDen = 2
  DealerFees = {0}
  DepositLimit <- MCDepositLimit
  WithdrawalOnly = FALSE
  InsuranceMin = 2
  ExtInvoices = {e1}
  ExtValue <- MCExtValue
  CliTransfers <- MCOperatorCredit
  DupDelivery = TRUE
  DealerMayFail = TRUE
  MaxInvoices = 2
  MaxRequests = 2
  MaxCli = 2
  MaxDealerOps = 1
  MaxLnurl = 1
  MaxRestarts = 0
SPECIFICATION Spec
SYMMETRY MCSymmetry
INVARIANTS
  NoNegativeCustomerBalance
