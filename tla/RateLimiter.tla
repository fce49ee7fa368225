---------------------------- MODULE RateLimiter ----------------------------
(***************************************************************************)
(* The bank engine's per-user request limiters (bank_engine.rs,            *)
(* check_deposit_request_rate_limit and check_withdrawal_request_rate_     *)
(* limit): one map per kind from user to (counter, window start), shared   *)
(* by all of a user's requests of that kind.  Time is a discrete clock;    *)
(* Instant::elapsed in ms is now - start.                                  *)
(***************************************************************************)
EXTENDS Naturals, Sequences, FiniteSets

CONSTANTS
  Users,          \* user ids (model values)
  RequestLimit,   \* RateLimiterSettings.request_limit
  Interval,       \* RateLimiterSettings.replenishment_interval (ticks)
  MaxTime,        \* bound: clock ticks
  MaxChecks,      \* bound: requests checked
  NoEntry         \* a user without an entry in the limiter's map

ASSUME RequestLimit \in Nat /\ Interval \in Nat \ {0}

Kinds == {"deposit", "withdrawal"}

VARIABLES
  now,      \* the clock
  limiter,  \* kind -> user -> [ctr, start] or NoEntry
  log       \* every check made: [kind, uid, time, window start, ok]
            \* (history)

vars == <<now, limiter, log>>

Init ==
  /\ now = 0
  /\ limiter = [k \in Kinds |-> [u \in Users |-> NoEntry]]
  /\ log = <<>>

\* Bug variant of WithinLimit: the request that reaches the limit is
\* refused (>= for >).
BelowLimit(ctr) == ctr < RequestLimit

\* A counted request passes unless the counter exceeds request_limit.
WithinLimit(ctr) == ctr <= RequestLimit

\* The check, the same for both kinds: a missing entry is created as
\* (0, now); within the window the counter is incremented and the request
\* refused once it exceeds the limit; after the window the counter is
\* reset to 0, the window restarts now and the request is accepted.
Check(k, u) ==
  LET e        == IF limiter[k][u] = NoEntry THEN [ctr |-> 0, start |-> now]
                  ELSE limiter[k][u]
      inWindow == now - e.start < Interval
      next     == IF inWindow THEN [ctr |-> e.ctr + 1, start |-> e.start]
                  ELSE [ctr |-> 0, start |-> now]
  IN
  /\ Len(log) < MaxChecks
  /\ limiter' = [limiter EXCEPT ![k][u] = next]
  /\ log' = Append(log, [kind |-> k, uid |-> u, time |-> now,
                         start |-> next.start,
                         ok |-> ~inWindow \/ WithinLimit(next.ctr)])
  /\ UNCHANGED now

DepositCheck(u)    == Check("deposit", u)
WithdrawalCheck(u) == Check("withdrawal", u)

Tick ==
  /\ now < MaxTime
  /\ now' = now + 1
  /\ UNCHANGED <<limiter, log>>

Next ==
  \/ \E u \in Users : DepositCheck(u) \/ WithdrawalCheck(u)
  \/ Tick

Spec == Init /\ [][Next]_vars

(***************************************************************************)
(* Properties.                                                             *)
(***************************************************************************)
\* The checks j before check i of the same user and kind that were
\* accepted less than an interval before it.
AcceptedBefore(i) ==
  {j \in 1..(i - 1) : /\ log[j].kind = log[i].kind /\ log[j].uid = log[i].uid
                      /\ log[j].ok /\ log[i].time - log[j].time < Interval}

\* A request is refused only when the user already had request_limit
\* requests of that kind accepted within the last replenishment interval:
\* the limiter never throttles below its setting.  (The counter also
\* counts refused requests, which must not make it refuse early.)
RefusedOnlyAtLimit ==
  \A i \in DOMAIN log : ~log[i].ok => Cardinality(AcceptedBefore(i)) >= RequestLimit

\* The checks up to check i of the same user and kind that were accepted
\* in the same window as i.  A window starts at the check that creates the
\* entry or restarts an expired one, and every check is made in the window
\* it leaves in the entry.
AcceptedInWindow(i) ==
  {j \in 1..i : /\ log[j].kind = log[i].kind /\ log[j].uid = log[i].uid
               /\ log[j].ok /\ log[j].start = log[i].start}

\* The spec: "the (limit+1)-th request within the window is refused".  In
\* the code's fixed windows, no window accepts more than request_limit
\* requests of one kind from one user, the request that opened it
\* included.
AcceptedAtMostLimitPerWindow ==
  \A i \in DOMAIN log : log[i].ok => Cardinality(AcceptedInWindow(i)) <= RequestLimit
====
