------------------------------ MODULE Custody ------------------------------
(***************************************************************************)
(* What the bank promises its customers about their balances, whatever    *)
(* the handlers do inside: a customer's balance in a currency goes up by   *)
(* a deposit, a transfer received, a swap's proceeds or a refund; it goes  *)
(* down only by a transfer, a swap or a withdrawal that the balance        *)
(* covers.  A withdrawal reserves its whole charge (amount and worst-case  *)
(* fee) up front; the node then pays it or not, and a withdrawal leaves    *)
(* the books either completed after it was paid or refunded in full when   *)
(* it was not.                                                             *)
(*                                                                         *)
(* Abstract state: held, the balance of each (customer, currency), and     *)
(* inflight, the withdrawals reserved and not yet completed or refunded.   *)
(***************************************************************************)
EXTENDS Integers

CONSTANTS
  Users,   \* customers
  Cur,     \* currencies
  Numbers  \* the positive amounts a single booking may move

VARIABLES held, inflight

vars == <<held, inflight>>

Pairs == Users \X Cur

\* A withdrawal: request id, whose account, its charge in that account's
\* currency, and whether the node has paid it.
Withdrawal(id, u, c, x, paid) ==
  [id |-> id, uid |-> u, cur |-> c, charge |-> x, paid |-> paid]

Init ==
  /\ held = [p \in Pairs |-> 0]
  /\ inflight = {}

\* The accounts a step changes, and by how much.  Each action below says
\* how the accounts it names change; Next requires that no other account
\* does.
Changed == {p \in Pairs : held'[p] # held[p]}
Delta(p) == held'[p] - held[p]

\* Money comes in from outside the customer's accounts.
Credit(p) ==
  /\ Delta(p) \in Numbers
  /\ UNCHANGED inflight

\* A covered transfer between two customers in one currency.
Transfer(p, q) ==
  /\ p[1] # q[1] /\ p[2] = q[2]
  /\ -Delta(p) \in Numbers /\ -Delta(p) <= held[p]
  /\ Delta(q) = -Delta(p)
  /\ UNCHANGED inflight

\* A covered swap of one customer's money from one currency to another.
Swap(p, q) ==
  /\ p[1] = q[1] /\ p[2] # q[2]
  /\ -Delta(p) \in Numbers /\ -Delta(p) <= held[p]
  /\ Delta(q) \in Numbers
  /\ UNCHANGED inflight

\* A withdrawal w reserves its charge, which the balance covers.
Reserve(w) ==
  LET p == <<w.uid, w.cur>> IN
  /\ ~w.paid
  /\ \A v \in inflight : v.id # w.id
  /\ inflight' = inflight \cup {w}
  /\ w.charge \in Numbers /\ w.charge <= held[p]
  /\ Delta(p) = -w.charge

\* The node pays withdrawal w.
Paid(w) ==
  /\ ~w.paid
  /\ inflight' = (inflight \ {w}) \cup {[w EXCEPT !.paid = TRUE]}
  /\ UNCHANGED held

\* A paid withdrawal leaves the books; the customer keeps nothing back.
Complete(w) ==
  /\ w.paid
  /\ inflight' = inflight \ {w}
  /\ UNCHANGED held

\* An unpaid withdrawal leaves the books and its charge is given back.
Refund(w) ==
  LET p == <<w.uid, w.cur>> IN
  /\ ~w.paid
  /\ inflight' = inflight \ {w}
  /\ Delta(p) = w.charge

\* A step changes no balance, one or two; which action it is follows from
\* the accounts it changes (ch, computed once per step).
Next ==
  LET ch == Changed IN
  \/ /\ ch = {}
     /\ \E w \in inflight : Paid(w) \/ Complete(w)
  \/ \E p \in ch :
       /\ ch = {p}
       /\ \/ Credit(p)
          \/ \E w \in inflight' \ inflight : Reserve(w)
          \/ \E w \in inflight : Refund(w)
  \/ \E p, q \in ch :
       /\ ch = {p, q} /\ p # q
       /\ Transfer(p, q) \/ Swap(p, q)

Spec == Init /\ [][Next]_vars
============================================================================
