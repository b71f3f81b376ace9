----------------------------- MODULE UsageWindowsProps -----------------------------
(* What the books of UsageWindows are for: the limits must hold by them.   *)
EXTENDS UsageWindows

\* Successes and failures of a window add up to its count, whatever the
\* provider's corrections did to the count (_reconcile_window_counts).
CountsAdd == \A s \in Scope: window[s].ok + window[s].bad = window[s].count

\* The largest count of a scope survives the reset of its windows: no step
\* lowers the mark, and the window that takes the place of an expired one
\* has the old one's count in its mark (get_or_create_window).
HighWaterKept ==
    [][\A s \in known:
          /\ window'[s].high >= window[s].high
          /\ ShouldReset(window[s]) /\ window'[s].count < window[s].count
                => window'[s].high >= window[s].count]_vars

\* Requests that were in flight together are admitted by the same count, and
\* only by them is a daily limit exceeded; aliases share one counter.
RpdKept ==
    \A m \in DOMAIN RpdLimit: rpd[m].count <= Larger(RpdLimit[m] - 1, 0) + MaxFlight

\* The models that are counted as c.
Aliases(c) == {m \in Model: Canonical[m] = c}

\* The daily limits as their clients see them: what the counter of a model says
\* today, and the requests in flight of all that are counted as it.
Daily == INSTANCE DailyQuota WITH
    Quota    <- DOMAIN RpdLimit,
    Limit    <- RpdLimit,
    counted  <- [c \in DOMAIN RpdLimit |-> RpdCount(c)],
    inflight <- [c \in DOMAIN RpdLimit |-> Total(flying, Aliases(c))]

\* The check, the count of a success and the turn of the day implement a quota
\* that a model shares with its aliases: none of them is let in by a counter of
\* its own or counted in another one, a failure is not counted, and what was
\* counted is only taken back as a whole (RPDLimitChecker,
\* _increment_rpd_counters).
ImplementsQuota == Daily!Spec

\* The most that the group's window may count while the provider says the limit
\* is l: up to the cap, or what the provider says has been used, and then the
\* requests in flight together, each for what it counts as.
MostCounted(l) ==
    Larger(Larger(MaxOf(Cap[Group], l) - 1, 0), MaxUsed) + MaxFlight * MaxCount

\* The same of the group's custom cap: the count passes it, for one of the
\* limits the provider reports, only by what requests in flight together count
\* as, or by what the provider says has been used.  The cap is what
\* _resolve_max_requests makes of it: nothing clamps it to the provider's limit.
CapKept ==
    Group \in DOMAIN Cap =>
        \E l \in Limits \cup {None}: window[Group].count <= MostCounted(l)

\* The monthly budget blocks only for what was really spent in the month,
\* however windows roll and timing is corrected, and for what it takes twice:
\* the windows of models that no group seen so far is related to by its name
\* (_get_current_period_spend).
BudgetNeverEarly == Spend <= spent + CostSince(Unrelated, MonthStart)

\* "Tracks cumulative `approx_cost` across all models and blocks the credential
\* once the budget is reached" (README.md:73): no request is admitted when what
\* requests recorded in this month have cost has reached the budget.
BudgetBlocks == [][\A m \in Model: flying'[m] > flying[m] => spent < Budget]_vars
===================================================================================
