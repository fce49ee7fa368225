--------------------------- MODULE MC_BankEngine ---------------------------
(***************************************************************************)
(* Model-checking instances of BankEngine: the constant values the .cfg   *)
(* files cannot write directly (functions, records) and the symmetry set. *)
(***************************************************************************)
EXTENDS BankEngine, TLC

CONSTANTS u1, u2, e1

\* deposit_limits: a ceiling the model can reach with two deposits.
MCDepositLimit == [c \in Cur |-> 4]

\* One outside invoice of 2 sats.
MCExtValue == e1 :> 2

\* Operator transfers that fund and drain the insurance fund, the only way
\* its balance changes.
MCFundInsurance ==
  {[out |-> Liab, in |-> InsuranceFund, amt |-> 2],
   [out |-> InsuranceFund, in |-> Liab, amt |-> 2]}

\* Operator transfers (Cli::MakeTx) that credit a customer's BTC account
\* from the bank's liability account: two of them give one customer enough
\* for two withdrawals, or a withdrawal and a swap, to be in flight at once.
MCOperatorCredit ==
  {[out |-> Liab, in |-> UA(u, BTC), amt |-> 2] : u \in {u1, u2}}

MCSymmetry == Permutations({u1, u2})
============================================================================
