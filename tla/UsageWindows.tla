------------------------------- MODULE UsageWindows -------------------------------
(***************************************************************************)
(* The usage of one credential, as the books keep it and the limits read   *)
(* it: request counts in windows that roll (usage/tracking/windows.py),    *)
(* recorded per model and per quota group (usage/tracking/engine.py),      *)
(* corrected by what the provider reports (usage/manager.py), and the      *)
(* checkers that admit a request by them (usage/limits/: cooldowns,        *)
(* monthly_budget, rpd_limit, custom_caps).                                *)
(*                                                                         *)
(* The models form one quota group and have one, the primary, window.  An  *)
(* outcome is recorded, a baseline applied and a check made without an     *)
(* await that suspends.  What the provider reports was true when it was    *)
(* asked: its reset time may have passed when the baseline is applied.     *)
(* Fair cycle and concurrency are in FairCycle and CredentialPool.         *)
(***************************************************************************)
EXTENDS Integers, FiniteSets, FiniteSetsExt

CONSTANTS
    Model,           \* the models of the quota group
    Group,           \* their quota group
    Global,          \* "_global_", where refused logins are booked
    Related,         \* of a group: models whose name contains its name or is part of it
    Canonical,       \* _resolve_alias of a model
    Cap,             \* custom caps: a function from scopes to [mode, value]
    RpdLimit,        \* rpd_limits: a function from canonical models
    Budget,          \* monthly budget, None if there is none
    Price,           \* approx_cost of a request
    Duration,        \* duration_seconds of a rolling window
    Day, Month,      \* time from one reset to the next
    Span,            \* duration of a cooldown that an error or a hook causes
    Limits,          \* request limits the provider may report
    MaxCount,        \* bound: requests one outcome may count as
    MaxUsed,         \* bound: requests the provider may report as used
    MaxFlight,       \* bound: requests admitted and not recorded
    MaxBaselines,    \* bound: baselines from the provider
    MaxEvents,       \* bound: requests and baselines in all
    MaxTime          \* bound: the clock

None == -1

Groups == {Group, Global}
Scope  == Model \cup Groups

ASSUME ScopeAssumption ==
    /\ Group # Global /\ Groups \cap Model = {} /\ Related \in [Groups -> SUBSET Model]
    /\ IsFiniteSet(Model)
    /\ Canonical \in [Model -> Model]
ASSUME LimitAssumption ==
    /\ DOMAIN Cap \subseteq Model \cup {Group}
    /\ \A s \in DOMAIN Cap:
          Cap[s] \in [mode: {"absolute", "offset", "percentage"}, value: Int]
    /\ RpdLimit \in [DOMAIN RpdLimit -> Nat] /\ DOMAIN RpdLimit \subseteq Model
    /\ Budget \in Nat \cup {None} /\ Limits \subseteq Nat
ASSUME TimeAssumption ==
    /\ Duration \in Nat \ {0} /\ Day \in Nat \ {0} /\ Month \in Nat \ {0}
    /\ Span \in Nat \ {0} /\ Price \in Nat
    /\ MaxCount \in Nat \ {0} /\ MaxUsed \in Nat /\ MaxFlight \in Nat \ {0}
    /\ MaxEvents \in Nat /\ MaxBaselines \in Nat /\ MaxTime \in Nat

VARIABLES
    now,         \* time.time()
    mode,        \* reset_mode of the window's definition
    known,       \* scopes that have a window
    window,      \* WindowStats of each scope
    totals,      \* credential totals: cost, first use
    rpd,         \* rpd_counters
    cooldown,    \* cooldowns: until
    flying,      \* requests admitted and not recorded
    spent,       \* what requests recorded in this month have cost
    requests, baselines

books  == <<known, window, totals, rpd, cooldown>>
bounds == <<requests, baselines>>
vars   == <<now, mode, books, flying, spent, bounds>>

Blank == [count |-> 0, ok |-> 0, bad |-> 0, cost |-> 0, start |-> None, reset |-> None,
          high |-> 0, limit |-> None]
NoHeader == [limit |-> None, reset |-> None]

Time    == Nat \cup {None}
Window  == [count: Nat, ok: Nat, bad: Nat, cost: Nat, start: Time, reset: Time,
            high: Nat, limit: Limits \cup {None}]
Header  == [limit: Limits \cup {None}, reset: Time]

TypeOK ==
    /\ now \in 0 .. MaxTime
    /\ mode \in {"rolling", "daily", "api"}
    /\ known \in SUBSET Scope
    /\ window \in [Scope -> Window]
    /\ totals \in [cost: Nat, first: Time]
    /\ rpd \in [Model -> [count: Nat, day: Time]]
    /\ cooldown \in [Groups -> Nat]
    /\ flying \in [Model -> Nat]
    /\ spent \in Nat
    /\ requests \in 0 .. MaxEvents /\ baselines \in 0 .. MaxBaselines

Init ==
    /\ now = 0
    /\ mode \in {"rolling", "daily", "api"}
    /\ known = {}
    /\ window = [s \in Scope |-> Blank]
    /\ totals = [cost |-> 0, first |-> None]
    /\ rpd = [m \in Model |-> [count |-> 0, day |-> None]]
    /\ cooldown = [g \in Groups |-> 0]
    /\ flying = [m \in Model |-> 0]
    /\ spent = 0 /\ requests = 0 /\ baselines = 0
-----------------------------------------------------------------------------------
(* Windows.                                                                *)

Larger(a, b) == IF a >= b THEN a ELSE b

\* When a window that started at t ends by itself.
NextReset(t) ==
    CASE mode = "rolling" -> t + Duration
      [] mode = "daily"   -> (t \div Day + 1) * Day
      [] mode = "api"     -> None

ShouldReset(w) ==
    IF w.reset # None THEN now >= w.reset
                      ELSE w.start # None /\ mode # "api" /\ now >= NextReset(w.start)

\* get_active_window finds one.
Active(s) == s \in known /\ ~ShouldReset(window[s])

\* The window that takes the place of w: the limit stays until the provider
\* reports another, and so does the largest count.
RolledAnew(w) == [Blank EXCEPT !.limit = w.limit] \* mutant
Rolled(w) == [Blank EXCEPT !.limit = w.limit, !.high = Larger(w.high, w.count)]

GetOrCreate(s) == IF s \in known /\ ShouldReset(window[s]) THEN Rolled(window[s]) ELSE window[s]
-----------------------------------------------------------------------------------
(* The limits, in the order they are checked.                              *)

Cooling == \E g \in Groups: cooldown[g] > now

\* The sum of f over the finite set S.
Total(f, S) == MapThenSumSet(LAMBDA x: f[x], S)

CostSince(S, t) ==
    Total([s \in Scope |-> window[s].cost], {s \in S \cap known: window[s].start >= t})

MonthStart == (now \div Month) * Month

\* Models that no group seen so far is related to by its name: what their
\* windows hold is added to what the windows of the groups hold.
Unrelated == Model \ UNION {Related[g] : g \in Groups \cap known}

SpendTwice == CostSince(Scope, MonthStart) \* mutant
Spend ==
    LET sum == CostSince(Groups \cup Unrelated, MonthStart)
    IN  IF sum = 0 /\ totals.first >= MonthStart THEN totals.cost ELSE sum

OverBudget == Budget # None /\ Spend >= Budget

Today == now \div Day
RpdCount(m) == IF rpd[m].day < Today THEN 0 ELSE rpd[m].count
RpdReachedByAlias(m) == m \in DOMAIN RpdLimit /\ RpdCount(m) >= RpdLimit[m] \* mutant
RpdReached(m) ==
    /\ Canonical[m] \in DOMAIN RpdLimit
    /\ RpdCount(Canonical[m]) >= RpdLimit[Canonical[m]]

Magnitude(n) == IF n < 0 THEN -n ELSE n

\* _resolve_max_requests with the limit of the window, which may be unknown.
MaxOf(cap, limit) ==
    CASE cap.mode = "absolute"                     -> Larger(0, cap.value)
      [] cap.mode = "offset" /\ limit = None       -> Magnitude(cap.value)
      [] cap.mode = "offset" /\ limit # None       -> Larger(0, limit + cap.value)
      [] cap.mode = "percentage" /\ limit = None   -> 1000
      [] cap.mode = "percentage" /\ limit # None   -> Larger(0, (limit * cap.value) \div 100)

CapReachedLate(s) == \* mutant
    /\ s \in DOMAIN Cap /\ Active(s)
    /\ window[s].count > MaxOf(Cap[s], window[s].limit)
CapReached(s) ==
    /\ s \in DOMAIN Cap /\ Active(s)
    /\ window[s].count >= MaxOf(Cap[s], window[s].limit)

Allowed(m) ==
    ~Cooling /\ ~OverBudget /\ ~RpdReached(m) /\ ~CapReached(m) /\ ~CapReached(Group)

InFlight == Total(flying, Model)

Admit(m) ==
    /\ InFlight < MaxFlight /\ requests + baselines < MaxEvents
    /\ Allowed(m)
    /\ flying' = [flying EXCEPT ![m] = @ + 1]
    /\ requests' = requests + 1
    /\ UNCHANGED <<now, mode, books, spent, baselines>>
-----------------------------------------------------------------------------------
(* Recording an outcome.                                                   *)

\* An outcome that is not counted costs nothing: a server error or a lost
\* connection, unless the provider's hook counts it, or what the hook says.
Cost(n) == IF n = 0 THEN 0 ELSE Price

\* _apply_to_window of an outcome that counts as n requests
Counted(w, n, success) ==
    [w EXCEPT !.count = @ + n,
              !.ok    = IF success THEN @ + n ELSE @,
              !.bad   = IF success THEN @ ELSE @ + n,
              !.cost  = @ + Cost(n),
              !.start = IF @ = None THEN now ELSE @,
              !.reset = IF @ = None /\ w.start = None THEN NextReset(now) ELSE @,
              !.high  = Larger(@, w.count + n)]

\* The group's window is authoritative for its models' timing.
Timed(w, group) == [w EXCEPT !.start = group.start, !.reset = group.reset]

\* _apply_header_updates
Headed(w, h) ==
    [w EXCEPT !.limit = IF h.limit = None THEN @ ELSE h.limit,
              !.reset = IF h.reset = None THEN @ ELSE h.reset]

\* record_usage of a request of m, booked in the group g.
RecordUsage(m, g, n, success, h) ==
    LET group == Counted(GetOrCreate(g), n, success)
        model == Timed(Counted(GetOrCreate(m), n, success), group)
    IN  /\ known'  = known \cup {m, g}
        /\ window' = [window EXCEPT ![g] = Headed(group, h), ![m] = Headed(model, h)]
        /\ totals' = [cost  |-> totals.cost + Cost(n),
                      first |-> IF totals.first = None THEN now ELSE totals.first]
        /\ spent'  = spent + Cost(n)

Land(m) ==
    /\ flying[m] > 0
    /\ flying' = [flying EXCEPT ![m] = @ - 1]
    /\ UNCHANGED <<now, mode, bounds>>

\* _apply_cooldown: an active cooldown is never shortened.
Cooled(c, g, t) == [c EXCEPT ![g] = IF @ > now THEN Larger(@, t) ELSE t]

\* The cooldowns after a response that pauses the groups in S.
Paused(S) ==
    [g \in Groups |-> IF g \in S THEN Cooled(cooldown, g, now + Span)[g] ELSE cooldown[g]]

\* Every success counts as one request of the day, whatever else it counts as.
RpdRecorded(m) ==
    LET c == Canonical[m]
    IN  IF c \notin DOMAIN RpdLimit THEN rpd
        ELSE [rpd EXCEPT ![c] = [count |-> RpdCount(c) + 1, day |-> Today]]

\* The first cap that the recorded request has reached, if any, puts the
\* whole group into cooldown until its own window resets.
FirstReached(m) ==
    IF CapReached(m) THEN {m} ELSE IF CapReached(Group) THEN {Group} ELSE {}

\* The provider's hook may ask for a pause of the group.
Success(m, n, paused, h) ==
    /\ Land(m)
    /\ RecordUsage(m, Group, n, TRUE, h)
    /\ rpd' = RpdRecorded(m)
    /\ paused \subseteq {Group}
    /\ cooldown' =
           IF \E s \in FirstReached(m)': window'[s].reset # None
           THEN Cooled(Paused(paused), Group, window'[CHOOSE s \in FirstReached(m)': TRUE].reset)
           ELSE Paused(paused)

\* A refused login is booked under "_global_" instead of the group, and pauses it.
Failure(m, g, n, paused) ==
    /\ Land(m)
    /\ g = Global <=> Global \in paused
    /\ RecordUsage(m, g, n, FALSE, NoHeader)
    /\ cooldown' = Paused(paused)
    /\ UNCHANGED rpd
-----------------------------------------------------------------------------------
(* What the provider reports.                                              *)

\* _reconcile_window_counts
ReconciledUp(w, n) == [w EXCEPT !.count = n, !.ok = Larger(@, n - w.bad)] \* mutant
ReconciledBelow(w, n) == [w EXCEPT !.count = n, !.ok = n - w.bad] \* mutant
Reconciled(w, n) ==
    LET local == w.ok + w.bad
        bad   == IF w.bad <= n THEN w.bad ELSE n
    IN  IF n < local THEN [w EXCEPT !.count = n, !.bad = bad, !.ok = n - bad]
                     ELSE [w EXCEPT !.count = n, !.ok = @ + (n - local)]

\* _apply_quota_update
QuotaUpdated(w, a) ==
    LET used  == a.used > 0 \/ w.count > 0
        timed == [w EXCEPT !.limit = IF a.limit = None THEN @ ELSE a.limit,
                           !.reset = IF used /\ a.reset # None THEN a.reset ELSE @,
                           !.start = IF used /\ @ = None THEN now ELSE @]
        count == IF a.force THEN a.used ELSE Larger(Larger(w.count, w.ok + w.bad), a.used)
    IN  IF a.used = None THEN timed ELSE Reconciled(timed, count)

\* update_quota_baseline of the group: its window, then the timing and the
\* limit of its models' windows.
Apply(a) ==
    /\ baselines < MaxBaselines /\ requests + baselines < MaxEvents
    /\ baselines' = baselines + 1
    /\ LET group == QuotaUpdated(GetOrCreate(Group), a)
           synced(w) == [Timed(w, group) EXCEPT
                            !.limit = IF group.limit = None THEN @ ELSE group.limit]
       IN  window' = [s \in Scope |->
               IF s = Group THEN group
               ELSE IF s \in known \cap Model THEN synced(window[s]) ELSE window[s]]
    /\ known' = known \cup {Group}
    /\ cooldown' = IF a.exhausted /\ a.reset # None
                   THEN Cooled(cooldown, Group, a.reset) ELSE cooldown
    /\ UNCHANGED <<now, mode, totals, rpd, flying, spent, requests>>

\* clear_cooldown_if_exists: the provider says there is quota.
ClearCooldown ==
    /\ cooldown[Group] > now
    /\ cooldown' = [cooldown EXCEPT ![Group] = 0]
    /\ UNCHANGED <<now, mode, known, window, totals, rpd, flying, spent, bounds>>
-----------------------------------------------------------------------------------
Tick ==
    /\ now < MaxTime
    /\ now' = now + 1
    /\ spent' = IF (now + 1) \div Month = now \div Month THEN spent ELSE 0
    /\ UNCHANGED <<mode, books, flying, bounds>>

Record(m) ==
    \E n \in 0 .. MaxCount, paused \in SUBSET Groups:
        \/ \E h \in {NoHeader} \cup [limit: Limits, reset: {now + Duration}]:
              Success(m, n, paused, h)
        \/ \E g \in Groups: Failure(m, g, n, paused)

Baseline ==
    \E a \in [used: 0 .. MaxUsed \cup {None}, reset: {None, now, now + 1},
              limit: Limits \cup {None}, force: BOOLEAN, exhausted: BOOLEAN]: Apply(a)

Next ==
    \/ \E m \in Model: Admit(m) \/ Record(m)
    \/ Baseline \/ ClearCooldown \/ Tick

Spec == Init /\ [][Next]_vars
===================================================================================
