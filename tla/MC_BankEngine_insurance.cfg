\* Invoicing while the insurance fund is empty and the dealer's BTC
\* account is funded.
CONSTANTS
  u1 = u1
  u2 = u2
  e1 = e1
  Users = {u1, u2}
  BANK = BANK
  DEALER = DEALER
  Fiat = {"USD"}
  Amounts = {2}
  Rates = {2}
  ProbeFees = {0}
  FeeMarginNum = 1
  FeeMarginDen = 2
  DealerFees = {0}
  DepositLimit <- MCDepositLimit
  WithdrawalOnly = FALSE
  InsuranceMin = 2
  ExtInvoices = {e1}
  ExtValue <- MCExtValue
  CliTransfers <- MCFundInsurance
  DupDelivery = FALSE
  DealerMayFail = FALSE
  MaxInvoices = 3
  MaxRequests = 3
  MaxCli = 0
  MaxDealerOps = 2
  MaxLnurl = 0
  MaxRestarts = 0
SPECIFICATION Spec
SYMMETRY MCSymmetry
PROPERTY
  InvoicingSuspendedWhenDepleted
