---------------------------- MODULE UsageWindows_proofs ----------------------------
(* Proofs about the usage windows: types, the sum of the counts, the       *)
(* high-water marks; then sums over finite sets, and with them the room    *)
(* that daily limits and the group's cap leave, the refinement of the      *)
(* daily limits, and the monthly budget.                                   *)
EXTENDS UsageWindowsProps, FiniteSetTheorems, TLAPS

LEMMA LargerNat == ASSUME NEW a \in Nat, NEW b \in Nat
                   PROVE  Larger(a, b) \in Nat /\ Larger(a, b) >= a /\ Larger(a, b) >= b
  BY DEF Larger

LEMMA BlankType == Blank \in Window
  BY DEF Blank, Window, Time, None

LEMMA NextResetType ==
    ASSUME NEW t \in Nat, mode \in {"rolling", "daily", "api"}
    PROVE  NextReset(t) \in Time
<1>1. CASE mode = "rolling"
  BY <1>1, TimeAssumption DEF NextReset, Time
<1>2. CASE mode = "daily"
  <2>1. t \div Day \in Nat
    BY TimeAssumption
  <2>2. (t \div Day + 1) * Day \in Nat
    BY <2>1, TimeAssumption
  <2> QED
    BY <1>2, <2>2 DEF NextReset, Time
<1>3. CASE mode = "api"
  BY <1>3 DEF NextReset, Time
<1> QED
  BY <1>1, <1>2, <1>3

\* What replaces an expired window has its count in its mark, and adds up.
LEMMA RolledWindow ==
    ASSUME NEW w \in Window
    PROVE  /\ Rolled(w) \in Window
           /\ Rolled(w).count = 0 /\ Rolled(w).ok + Rolled(w).bad = Rolled(w).count
           /\ Rolled(w).high >= w.high /\ Rolled(w).high >= w.count
           /\ Rolled(w).cost = 0 /\ Rolled(w).start = None
<1>1. w.high \in Nat /\ w.count \in Nat /\ w.limit \in Limits \cup {None}
  BY DEF Window
<1> DEFINE high == Larger(w.high, w.count)
<1>2. high \in Nat /\ high >= w.high /\ high >= w.count
  BY <1>1, LargerNat
<1> HIDE DEF high
<1>3. Rolled(w) = [Blank EXCEPT !.limit = w.limit, !.high = high]
  BY DEF Rolled, high
<1>4. Rolled(w) = [count |-> 0, ok |-> 0, bad |-> 0, cost |-> 0, start |-> None,
                   reset |-> None, high |-> high, limit |-> w.limit]
  BY <1>3 DEF Blank
<1> QED
  BY <1>1, <1>2, <1>4 DEF Window, Time

LEMMA CostType == ASSUME NEW n \in Nat PROVE Cost(n) \in Nat
  BY TimeAssumption DEF Cost

LEMMA CountedWindow ==
    ASSUME NEW w \in Window, NEW n \in Nat, NEW success \in BOOLEAN, TypeOK
    PROVE  /\ Counted(w, n, success) \in Window
           /\ Counted(w, n, success).count = w.count + n
           /\ w.ok + w.bad = w.count =>
                Counted(w, n, success).ok + Counted(w, n, success).bad
                    = Counted(w, n, success).count
           /\ Counted(w, n, success).high >= w.high
           /\ Counted(w, n, success).high >= Counted(w, n, success).count
           /\ Counted(w, n, success).cost = w.cost + Cost(n)
           /\ Counted(w, n, success).start = IF w.start = None THEN now ELSE w.start
<1>1. /\ w.high \in Nat /\ w.count \in Nat /\ w.ok \in Nat /\ w.bad \in Nat /\ w.cost \in Nat
      /\ w.start \in Time /\ w.reset \in Time /\ w.limit \in Limits \cup {None}
  BY DEF Window
<1>2. now \in Nat
  BY DEF TypeOK
<1> DEFINE reset == IF w.reset = None /\ w.start = None THEN NextReset(now) ELSE w.reset
           start == IF w.start = None THEN now ELSE w.start
           high  == Larger(w.high, w.count + n)
           ok    == IF success THEN w.ok + n ELSE w.ok
           bad   == IF success THEN w.bad ELSE w.bad + n
           cost  == w.cost + Cost(n)
<1>3. reset \in Time
  <2>1. NextReset(now) \in Time
    BY <1>2, NextResetType DEF TypeOK
  <2> QED
    BY <1>1, <2>1
<1>4. start \in Time
  BY <1>1, <1>2 DEF Time
<1>5. high \in Nat /\ high >= w.high /\ high >= w.count + n
  BY <1>1 DEF Larger
<1>6. ok \in Nat /\ bad \in Nat /\ ok + bad = w.ok + w.bad + n
  <2>1. CASE success
    BY <1>1, <2>1
  <2>2. CASE ~success
    BY <1>1, <2>2
  <2> QED
    BY <2>1, <2>2
<1>7. cost \in Nat
  BY <1>1, CostType
<1>8. Counted(w, n, success) =
        [w EXCEPT !.count = w.count + n, !.ok = ok, !.bad = bad, !.cost = cost,
                  !.start = start, !.reset = reset, !.high = high]
  BY DEF Counted
<1> HIDE DEF reset, start, high, ok, bad, cost
<1>9. w = [count |-> w.count, ok |-> w.ok, bad |-> w.bad, cost |-> w.cost, start |-> w.start,
           reset |-> w.reset, high |-> w.high, limit |-> w.limit]
  BY DEF Window
<1>10. Counted(w, n, success) =
        [count |-> w.count + n, ok |-> ok, bad |-> bad, cost |-> cost, start |-> start,
         reset |-> reset, high |-> high, limit |-> w.limit]
  BY <1>8, <1>9
<1>11. w.count + n \in Nat
  BY <1>1
<1> QED
  BY <1>1, <1>3, <1>4, <1>5, <1>6, <1>7, <1>10, <1>11 DEF Window, start, cost

\* The group's timing and a header change neither counts nor marks.
LEMMA TimedWindow ==
    ASSUME NEW w \in Window, NEW g \in Window
    PROVE  /\ Timed(w, g) \in Window
           /\ Timed(w, g).count = w.count /\ Timed(w, g).ok = w.ok /\ Timed(w, g).bad = w.bad
           /\ Timed(w, g).high = w.high
  BY DEF Timed, Window

LEMMA HeadedWindow ==
    ASSUME NEW w \in Window, NEW h \in Header
    PROVE  /\ Headed(w, h) \in Window
           /\ Headed(w, h).count = w.count /\ Headed(w, h).ok = w.ok /\ Headed(w, h).bad = w.bad
           /\ Headed(w, h).high = w.high
           /\ Headed(w, h).cost = w.cost /\ Headed(w, h).start = w.start
<1> DEFINE limit == IF h.limit = None THEN w.limit ELSE h.limit
           reset == IF h.reset = None THEN w.reset ELSE h.reset
<1>1. limit \in Limits \cup {None} /\ reset \in Time
  BY DEF Header, Window
<1>2. Headed(w, h) = [w EXCEPT !.limit = limit, !.reset = reset]
  BY DEF Headed
<1> HIDE DEF limit, reset
<1> QED
  BY <1>1, <1>2 DEF Window

\* A correction of the count keeps the sum.
LEMMA ReconciledWindow ==
    ASSUME NEW w \in Window, NEW n \in Nat
    PROVE  /\ Reconciled(w, n) \in Window
           /\ Reconciled(w, n).ok + Reconciled(w, n).bad = Reconciled(w, n).count
           /\ Reconciled(w, n).high = w.high /\ Reconciled(w, n).count = n
           /\ Reconciled(w, n).cost = w.cost /\ Reconciled(w, n).start = w.start
<1>1. w.ok \in Nat /\ w.bad \in Nat
  BY DEF Window
<1> DEFINE bad == IF w.bad <= n THEN w.bad ELSE n
<1>2. bad \in Nat /\ n - bad \in Nat /\ bad + (n - bad) = n
  BY <1>1
<1>3. CASE n < w.ok + w.bad
  <2>1. Reconciled(w, n) = [w EXCEPT !.count = n, !.bad = bad, !.ok = n - bad]
    BY <1>3 DEF Reconciled
  <2>2. w = [count |-> w.count, ok |-> w.ok, bad |-> w.bad, cost |-> w.cost,
             start |-> w.start, reset |-> w.reset, high |-> w.high, limit |-> w.limit]
    BY DEF Window
  <2> HIDE DEF bad
  <2>3. Reconciled(w, n) = [count |-> n, ok |-> n - bad, bad |-> bad, cost |-> w.cost,
             start |-> w.start, reset |-> w.reset, high |-> w.high, limit |-> w.limit]
    BY <2>1, <2>2
  <2> QED
    BY <1>2, <2>3 DEF Window
<1>4. CASE ~(n < w.ok + w.bad)
  <2> DEFINE ok == w.ok + (n - (w.ok + w.bad))
  <2>1. ok \in Nat /\ ok + w.bad = n
    BY <1>1, <1>4
  <2>2. Reconciled(w, n) = [w EXCEPT !.count = n, !.ok = ok]
    BY <1>4 DEF Reconciled
  <2> HIDE DEF ok
  <2> QED
    BY <1>1, <2>1, <2>2 DEF Window
<1> QED
  BY <1>3, <1>4

Answer == [used: Nat \cup {None}, reset: Time, limit: Limits \cup {None},
           force: BOOLEAN, exhausted: BOOLEAN]

LEMMA QuotaUpdatedWindow ==
    ASSUME NEW w \in Window, NEW a \in Answer, TypeOK, w.ok + w.bad = w.count
    PROVE  /\ QuotaUpdated(w, a) \in Window
           /\ QuotaUpdated(w, a).ok + QuotaUpdated(w, a).bad = QuotaUpdated(w, a).count
           /\ QuotaUpdated(w, a).high = w.high /\ QuotaUpdated(w, a).cost = w.cost
           /\ \/ QuotaUpdated(w, a).count = w.count
              \/ QuotaUpdated(w, a).count = a.used /\ a.used \in Nat
           /\ QuotaUpdated(w, a).start \in {w.start, IF w.start = None THEN now ELSE w.start}
<1>1. /\ w.ok \in Nat /\ w.bad \in Nat /\ w.count \in Nat /\ w.reset \in Time
      /\ w.start \in Time /\ w.limit \in Limits \cup {None} /\ now \in Nat
      /\ a.used \in Nat \cup {None} /\ a.reset \in Time /\ a.limit \in Limits \cup {None}
  BY DEF Window, Answer, TypeOK
<1> DEFINE used  == a.used > 0 \/ w.count > 0
           limit == IF a.limit = None THEN w.limit ELSE a.limit
           reset == IF used /\ a.reset # None THEN a.reset ELSE w.reset
           start == IF used /\ w.start = None THEN now ELSE w.start
           timed == [w EXCEPT !.limit = limit, !.reset = reset, !.start = start]
           count == IF a.force THEN a.used ELSE Larger(Larger(w.count, w.ok + w.bad), a.used)
<1>2. limit \in Limits \cup {None} /\ reset \in Time
  BY <1>1
<1>3. start \in Time
  BY <1>1 DEF Time
<1>4. QuotaUpdated(w, a) = IF a.used = None THEN timed ELSE Reconciled(timed, count)
  BY DEF QuotaUpdated
<1>5. a.used # None =>
        a.used \in Nat /\ count \in Nat /\ (count = w.count \/ count = a.used)
  BY <1>1 DEF Larger
<1>9. start \in {w.start, IF w.start = None THEN now ELSE w.start}
  OBVIOUS
<1> HIDE DEF limit, reset, start, count
<1>6. /\ timed \in Window
      /\ timed.ok = w.ok /\ timed.bad = w.bad /\ timed.count = w.count /\ timed.high = w.high
      /\ timed.cost = w.cost /\ timed.start = start
  BY <1>2, <1>3 DEF Window
<1> HIDE DEF timed
<1>7. CASE a.used = None
  BY <1>4, <1>6, <1>7, <1>9
<1>8. CASE a.used # None
  <2>1. QuotaUpdated(w, a) = Reconciled(timed, count)
    BY <1>4, <1>8
  <2> DEFINE r == Reconciled(timed, count)
  <2>2. /\ r \in Window /\ r.ok + r.bad = r.count /\ r.high = timed.high
        /\ r.count = count /\ r.cost = timed.cost /\ r.start = timed.start
    BY <1>5, <1>6, <1>8, ReconciledWindow
  <2> HIDE DEF r
  <2>3. /\ r.high = w.high /\ r.cost = w.cost /\ r.start = start
        /\ r.count = w.count \/ (r.count = a.used /\ a.used \in Nat)
    BY <1>5, <1>6, <1>8, <2>2
  <2>4. QuotaUpdated(w, a) = r
    BY <2>1 DEF r
  <2> QED
    BY <1>9, <2>2, <2>3, <2>4
<1> QED
  BY <1>7, <1>8
------------------------------------------------------------------------------------
Adds(w) == w.ok + w.bad = w.count

\* What the mark of s must not fall below when s gets the window w: its own
\* value, and the count of a window that has expired and is replaced.
Marked(w, s) ==
    /\ w.high >= window[s].high
    /\ s \in known /\ ShouldReset(window[s]) /\ w.count < window[s].count
          => w.high >= window[s].count

LEMMA CreatedWindow ==
    ASSUME NEW s \in Scope, TypeOK, CountsAdd
    PROVE  /\ GetOrCreate(s) \in Window /\ Adds(GetOrCreate(s))
           /\ GetOrCreate(s).high >= window[s].high
           /\ s \in known /\ ShouldReset(window[s]) => GetOrCreate(s).high >= window[s].count
           /\ ~(s \in known /\ ShouldReset(window[s])) => GetOrCreate(s) = window[s]
<1>1. window[s] \in Window /\ Adds(window[s])
  BY DEF TypeOK, CountsAdd, Adds
<1>2. window[s].high \in Nat
  BY <1>1 DEF Window
<1>3. CASE s \in known /\ ShouldReset(window[s])
  BY <1>1, <1>3, RolledWindow DEF GetOrCreate, Adds
<1>4. CASE ~(s \in known /\ ShouldReset(window[s]))
  <2>1. GetOrCreate(s) = window[s]
    BY <1>4 DEF GetOrCreate
  <2> QED
    BY <1>1, <1>2, <1>4, <2>1
<1> QED
  BY <1>3, <1>4

LEMMA CreatedAndCounted ==
    ASSUME NEW s \in Scope, NEW n \in Nat, NEW success \in BOOLEAN, TypeOK, CountsAdd
    PROVE  LET w == Counted(GetOrCreate(s), n, success)
           IN  w \in Window /\ Adds(w) /\ Marked(w, s)
<1> DEFINE v == GetOrCreate(s)
           w == Counted(v, n, success)
<1>1. /\ v \in Window /\ Adds(v) /\ v.high >= window[s].high
      /\ s \in known /\ ShouldReset(window[s]) => v.high >= window[s].count
  BY CreatedWindow
<1> HIDE DEF v
<1>2. w \in Window /\ w.high >= v.high /\ Adds(w)
  BY <1>1, CountedWindow DEF Adds
<1>3. /\ w.high \in Nat /\ v.high \in Nat /\ window[s].high \in Nat
      /\ window[s].count \in Nat
  BY <1>1, <1>2 DEF Window, TypeOK
<1> HIDE DEF w
<1>4. Marked(w, s)
  BY <1>1, <1>2, <1>3 DEF Marked
<1> QED
  BY <1>2, <1>4 DEF v, w

\* What a recorded outcome leaves in the windows.
LEMMA Booked ==
    ASSUME TypeOK, CountsAdd, NEW m \in Model, NEW g \in Groups, NEW n \in Nat,
           NEW success \in BOOLEAN, NEW h \in Header, RecordUsage(m, g, n, success, h)
    PROVE  /\ window' \in [Scope -> Window] /\ CountsAdd'
           /\ \A s \in Scope: Marked(window'[s], s)
           /\ known' \in SUBSET Scope
           /\ totals' \in [cost: Nat, first: Time] /\ spent' \in Nat
<1>1. m \in Scope /\ g \in Scope /\ m # g
  BY ScopeAssumption DEF Scope, Groups
<1> DEFINE group == Counted(GetOrCreate(g), n, success)
           model == Counted(GetOrCreate(m), n, success)
           wg    == Headed(group, h)
           wm    == Headed(Timed(model, group), h)
<1>2. /\ group \in Window /\ Adds(group) /\ Marked(group, g)
      /\ model \in Window /\ Adds(model) /\ Marked(model, m)
  BY <1>1, CreatedAndCounted
<1>3. window' = [window EXCEPT ![g] = wg, ![m] = wm]
  BY DEF RecordUsage
<1> HIDE DEF group, model
<1>4. wg \in Window /\ Adds(wg) /\ Marked(wg, g)
  BY <1>2, HeadedWindow DEF Adds, Marked
<1>5. wm \in Window /\ Adds(wm) /\ Marked(wm, m)
  <2>1. /\ Timed(model, group) \in Window /\ Adds(Timed(model, group))
        /\ Marked(Timed(model, group), m)
    BY <1>2, TimedWindow DEF Adds, Marked
  <2> QED
    BY <2>1, HeadedWindow DEF Adds, Marked
<1> HIDE DEF wg, wm
<1>6. window \in [Scope -> Window]
  BY DEF TypeOK
<1>7. /\ window' \in [Scope -> Window]
      /\ \A s \in Scope: window'[s] = IF s = m THEN wm ELSE IF s = g THEN wg ELSE window[s]
  BY <1>1, <1>3, <1>4, <1>5, <1>6
<1>8. CountsAdd'
  BY <1>4, <1>5, <1>7 DEF CountsAdd, Adds
<1>9. ASSUME NEW s \in Scope PROVE Marked(window'[s], s)
  <2>1. CASE s = m \/ s = g
    BY <1>4, <1>5, <1>7, <2>1
  <2>2. CASE s # m /\ s # g
    <3>1. window'[s] = window[s] /\ window[s].high \in Nat
      BY <1>6, <1>7, <2>2 DEF Window
    <3> QED
      BY <1>6, <3>1 DEF Marked, Window
  <2> QED
    BY <2>1, <2>2
<1>10. known' \in SUBSET Scope
  BY <1>1 DEF RecordUsage, TypeOK
<1>11. totals' \in [cost: Nat, first: Time] /\ spent' \in Nat
  BY CostType DEF RecordUsage, TypeOK, Time
<1> QED
  BY <1>7, <1>8, <1>9, <1>10, <1>11

LEMMA Untouched ==
    ASSUME TypeOK, NEW s \in Scope
    PROVE  Marked(window[s], s)
<1>1. window[s].high \in Nat /\ window[s].count \in Nat
  BY DEF TypeOK, Window
<1> QED
  BY <1>1 DEF Marked

\* What a baseline leaves in the windows.
LEMMA Applied ==
    ASSUME TypeOK, CountsAdd, NEW a \in Answer, Apply(a)
    PROVE  /\ window' \in [Scope -> Window] /\ CountsAdd'
           /\ \A s \in Scope: Marked(window'[s], s)
           /\ known' \in SUBSET Scope /\ baselines' \in 0 .. MaxBaselines
<1>1. Group \in Scope /\ Group \notin Model
  BY ScopeAssumption DEF Scope, Groups
<1> DEFINE created == GetOrCreate(Group)
           group == QuotaUpdated(created, a)
           limited(w) == IF group.limit = None THEN w.limit ELSE group.limit
           synced(w) == [Timed(w, group) EXCEPT
                            !.limit = IF group.limit = None THEN @ ELSE group.limit]
<1>2. /\ created \in Window /\ Adds(created) /\ created.high >= window[Group].high
      /\ Group \in known /\ ShouldReset(window[Group]) => created.high >= window[Group].count
  BY <1>1, CreatedWindow
<1> HIDE DEF created
<1>3. group \in Window /\ Adds(group) /\ group.high = created.high
  BY <1>2, QuotaUpdatedWindow DEF Adds
<1>4. window' = [s \in Scope |->
               IF s = Group THEN group
               ELSE IF s \in known \cap Model THEN synced(window[s]) ELSE window[s]]
  BY DEF Apply, created
<1> HIDE DEF group
<1>5. ASSUME NEW w \in Window
      PROVE  /\ synced(w) \in Window /\ synced(w).count = w.count /\ synced(w).ok = w.ok
             /\ synced(w).bad = w.bad /\ synced(w).high = w.high
  <2> DEFINE v == Timed(w, group)
             limit == IF group.limit = None THEN v.limit ELSE group.limit
  <2>1. /\ v \in Window /\ v.count = w.count /\ v.ok = w.ok /\ v.bad = w.bad /\ v.high = w.high
    BY <1>3, TimedWindow
  <2>2. synced(w) = [v EXCEPT !.limit = limit]
    OBVIOUS
  <2>3. limit \in Limits \cup {None}
    BY <1>3, <2>1 DEF Window
  <2> HIDE DEF v, limit, synced
  <2> QED
    BY <2>1, <2>2, <2>3 DEF Window
<1> HIDE DEF synced
<1>6. window \in [Scope -> Window]
  BY DEF TypeOK
<1>7. ASSUME NEW s \in Scope
      PROVE  window'[s] \in Window /\ Adds(window'[s]) /\ Marked(window'[s], s)
  <2>1. window[s] \in Window /\ Adds(window[s]) /\ Marked(window[s], s)
    BY <1>6, Untouched DEF CountsAdd, Adds
  <2>2. CASE s = Group
    <3>1. window'[s] = group
      BY <1>4, <2>2
    <3> QED
      BY <1>2, <1>3, <2>2, <3>1 DEF Marked
  <2>3. CASE s # Group /\ s \in known \cap Model
    <3>1. window'[s] = synced(window[s])
      BY <1>4, <2>3
    <3> QED
      BY <1>5, <2>1, <3>1 DEF Adds, Marked
  <2>4. CASE s # Group /\ s \notin known \cap Model
    <3>1. window'[s] = window[s]
      BY <1>4, <2>4
    <3> QED
      BY <2>1, <3>1
  <2> QED
    BY <2>2, <2>3, <2>4
<1>8. window' \in [Scope -> Window]
  BY <1>4, <1>7
<1>9. CountsAdd'
  BY <1>7 DEF CountsAdd, Adds
<1>10. known' \in SUBSET Scope /\ baselines' \in 0 .. MaxBaselines
  BY <1>1, TimeAssumption DEF Apply, TypeOK
<1> QED
  BY <1>7, <1>8, <1>9, <1>10
------------------------------------------------------------------------------------
IInv == TypeOK /\ CountsAdd

AllMarked == \A s \in Scope: Marked(window'[s], s)

LEMMA WindowsUnchanged ==
    ASSUME IInv, UNCHANGED window
    PROVE  window' \in [Scope -> Window] /\ CountsAdd' /\ AllMarked
<1>1. \A s \in Scope: window'[s] = window[s] /\ Marked(window[s], s)
  BY Untouched DEF IInv
<1> QED
  BY <1>1 DEF IInv, TypeOK, CountsAdd, AllMarked

LEMMA CooledType ==
    ASSUME NEW c \in [Groups -> Nat], NEW g \in Groups, NEW t \in Nat
    PROVE  Cooled(c, g, t) \in [Groups -> Nat]
<1> DEFINE u == IF c[g] > now THEN Larger(c[g], t) ELSE t
<1>1. u \in Nat
  BY DEF Larger
<1>2. Cooled(c, g, t) = [c EXCEPT ![g] = u]
  BY DEF Cooled
<1> HIDE DEF u
<1> QED
  BY <1>1, <1>2

LEMMA PausedType ==
    ASSUME TypeOK, NEW S
    PROVE  Paused(S) \in [Groups -> Nat]
<1>1. cooldown \in [Groups -> Nat] /\ now + Span \in Nat
  BY TimeAssumption DEF TypeOK
<1>2. \A g \in Groups: Cooled(cooldown, g, now + Span)[g] \in Nat
  BY <1>1, CooledType
<1> QED
  BY <1>1, <1>2 DEF Paused

LEMMA Recorded ==
    ASSUME IInv, NEW m \in Model, Record(m)
    PROVE  IInv' /\ AllMarked
<1>1. Group \in Groups /\ m \in Scope
  BY DEF Groups, Scope
<1>2. now \in Nat
  BY DEF IInv, TypeOK
<1>3. ASSUME Land(m)
      PROVE  /\ flying' \in [Model -> Nat] /\ now' \in 0 .. MaxTime
             /\ mode' \in {"rolling", "daily", "api"}
             /\ requests' \in 0 .. MaxEvents /\ baselines' \in 0 .. MaxBaselines
  <2>1. flying[m] - 1 \in Nat
    BY <1>3 DEF Land, IInv, TypeOK
  <2> QED
    BY <1>3, <2>1 DEF Land, IInv, TypeOK, bounds
<1>4. ASSUME NEW n \in Nat, NEW S,
             NEW h \in {NoHeader} \cup [limit: Limits, reset: {now + Duration}],
             Success(m, n, S, h)
      PROVE  IInv' /\ AllMarked
  <2>1. h \in Header
    <3>1. now + Duration \in Time /\ None \in Time
      BY <1>2, TimeAssumption DEF Time
    <3>2. NoHeader \in Header
      BY <3>1 DEF NoHeader, Header
    <3>3. [limit: Limits, reset: {now + Duration}] \subseteq Header
      BY <3>1 DEF Header
    <3> QED
      BY <1>4, <3>2, <3>3
  <2>2. RecordUsage(m, Group, n, TRUE, h) /\ Land(m)
    BY <1>4 DEF Success
  <2>3. /\ window' \in [Scope -> Window] /\ CountsAdd' /\ AllMarked /\ known' \in SUBSET Scope
        /\ totals' \in [cost: Nat, first: Time] /\ spent' \in Nat
    BY <1>1, <2>1, <2>2, Booked DEF IInv, AllMarked
  <2>4. rpd' \in [Model -> [count: Nat, day: Time]]
    <3> DEFINE c == Canonical[m]
               entry == [count |-> RpdCount(c) + 1, day |-> Today]
    <3>1. c \in Model
      BY ScopeAssumption
    <3>2. rpd[c].count \in Nat
      BY <3>1 DEF IInv, TypeOK
    <3>3. Today \in Nat
      BY <1>2, TimeAssumption DEF Today
    <3>4. RpdCount(c) \in Nat
      BY <3>2 DEF RpdCount
    <3>5. entry \in [count: Nat, day: Time]
      BY <3>3, <3>4 DEF Time
    <3>6. rpd' = rpd \/ rpd' = [rpd EXCEPT ![c] = entry]
      BY <1>4 DEF Success, RpdRecorded
    <3> HIDE DEF entry, c
    <3> QED
      BY <3>5, <3>6 DEF IInv, TypeOK
  <2>5. cooldown' \in [Groups -> Nat]
    <3> DEFINE r == window'[CHOOSE s \in FirstReached(m)': TRUE].reset
               some == \E s \in FirstReached(m)': window'[s].reset # None
    <3>1. cooldown' = IF some THEN Cooled(Paused(S), Group, r) ELSE Paused(S)
      BY <1>4 DEF Success
    <3>2. ASSUME some PROVE r \in Nat
      <4> DEFINE x == CHOOSE s \in FirstReached(m)': TRUE
      <4>1. PICK s \in FirstReached(m)': window'[s].reset # None
        BY <3>2
      <4>2. FirstReached(m)' = {m} \/ FirstReached(m)' = {Group} \/ FirstReached(m)' = {}
        BY DEF FirstReached
      <4>3. FirstReached(m)' = {s} /\ s \in Scope
        BY <1>1, <4>1, <4>2 DEF Scope
      <4>4. x = s
        BY <4>3
      <4>5. r # None /\ r \in Time
        BY <2>3, <4>1, <4>3, <4>4 DEF Window
      <4> QED
        BY <4>5 DEF Time, None
    <3> HIDE DEF some, r
    <3>3. Paused(S) \in [Groups -> Nat]
      BY PausedType DEF IInv
    <3>4. some => Cooled(Paused(S), Group, r) \in [Groups -> Nat]
      BY <1>1, <3>2, <3>3, CooledType
    <3> QED
      BY <3>1, <3>3, <3>4
  <2> QED
    BY <1>3, <2>2, <2>3, <2>4, <2>5 DEF IInv, TypeOK
<1>5. ASSUME NEW n \in Nat, NEW S, NEW g \in Groups, Failure(m, g, n, S)
      PROVE  IInv' /\ AllMarked
  <2>1. NoHeader \in Header
    BY DEF NoHeader, Header, Time
  <2>2. RecordUsage(m, g, n, FALSE, NoHeader) /\ Land(m)
    BY <1>5 DEF Failure
  <2>3. /\ window' \in [Scope -> Window] /\ CountsAdd' /\ AllMarked /\ known' \in SUBSET Scope
        /\ totals' \in [cost: Nat, first: Time] /\ spent' \in Nat
    BY <2>1, <2>2, Booked DEF IInv, AllMarked
  <2>4. cooldown' \in [Groups -> Nat]
    BY <1>5, PausedType DEF Failure, IInv
  <2>5. rpd' = rpd
    BY <1>5 DEF Failure
  <2> QED
    BY <1>3, <2>2, <2>3, <2>4, <2>5 DEF IInv, TypeOK
<1>6. 0 .. MaxCount \subseteq Nat
  OBVIOUS
<1> QED
  BY <1>4, <1>5, <1>6 DEF Record

LEMMA Reported ==
    ASSUME IInv, Baseline
    PROVE  IInv' /\ AllMarked
<1>1. PICK a \in [used: 0 .. MaxUsed \cup {None}, reset: {None, now, now + 1},
                  limit: Limits \cup {None}, force: BOOLEAN, exhausted: BOOLEAN]: Apply(a)
  BY DEF Baseline
<1>2. a \in Answer
  <2>1. 0 .. MaxUsed \cup {None} \subseteq Nat \cup {None}
    BY TimeAssumption
  <2>2. {None, now, now + 1} \subseteq Time
    BY DEF IInv, TypeOK, Time
  <2> QED
    BY <1>1, <2>1, <2>2 DEF Answer
<1>3. /\ window' \in [Scope -> Window] /\ CountsAdd' /\ AllMarked
      /\ known' \in SUBSET Scope /\ baselines' \in 0 .. MaxBaselines
  BY <1>1, <1>2, Applied DEF IInv, AllMarked
<1>4. cooldown' \in [Groups -> Nat]
  <2>1. CASE a.exhausted /\ a.reset # None
    <3>1. a.reset \in Nat /\ Group \in Groups
      BY <1>2, <2>1 DEF Answer, Time, Groups
    <3>2. cooldown \in [Groups -> Nat]
      BY DEF IInv, TypeOK
    <3>3. cooldown' = Cooled(cooldown, Group, a.reset)
      BY <1>1, <2>1 DEF Apply
    <3> QED
      BY <3>1, <3>2, <3>3, CooledType
  <2>2. CASE ~(a.exhausted /\ a.reset # None)
    BY <1>1, <2>2 DEF Apply, IInv, TypeOK
  <2> QED
    BY <2>1, <2>2
<1>5. UNCHANGED <<now, mode, totals, rpd, flying, spent, requests>>
  BY <1>1 DEF Apply
<1> QED
  BY <1>3, <1>4, <1>5 DEF IInv, TypeOK

LEMMA OtherSteps ==
    ASSUME IInv, (\E m \in Model: Admit(m)) \/ ClearCooldown \/ Tick \/ UNCHANGED vars
    PROVE  IInv' /\ AllMarked
<1>1. CASE \E m \in Model: Admit(m)
  <2>1. PICK m \in Model: Admit(m)
    BY <1>1
  <2>2. UNCHANGED window
    BY <2>1 DEF Admit, books
  <2>3. flying' \in [Model -> Nat]
    <3>1. flying[m] + 1 \in Nat
      BY DEF IInv, TypeOK
    <3> QED
      BY <2>1, <3>1 DEF Admit, IInv, TypeOK
  <2>4. requests' \in 0 .. MaxEvents
    BY <2>1, TimeAssumption DEF Admit, IInv, TypeOK
  <2> QED
    BY <2>1, <2>2, <2>3, <2>4, WindowsUnchanged DEF Admit, books, IInv, TypeOK
<1>2. CASE ClearCooldown
  <2>1. UNCHANGED window
    BY <1>2 DEF ClearCooldown
  <2> QED
    BY <1>2, <2>1, WindowsUnchanged DEF ClearCooldown, bounds, IInv, TypeOK
<1>3. CASE Tick
  <2>1. UNCHANGED window
    BY <1>3 DEF Tick, books
  <2> QED
    BY <1>3, <2>1, WindowsUnchanged, TimeAssumption DEF Tick, books, bounds, IInv, TypeOK
<1>4. CASE UNCHANGED vars
  <2>1. UNCHANGED window
    BY <1>4 DEF vars, books
  <2> QED
    BY <1>4, <2>1, WindowsUnchanged DEF vars, books, bounds, IInv, TypeOK
<1> QED
  BY <1>1, <1>2, <1>3, <1>4

LEMMA Initially == Init => IInv
  BY BlankType, TimeAssumption DEF Init, IInv, TypeOK, CountsAdd, Blank, Time

LEMMA EveryStep == IInv /\ [Next]_vars => IInv' /\ AllMarked
  BY Recorded, Reported, OtherSteps DEF Next

\* Every variable keeps its type: no correction of a count makes a part of
\* it negative (_reconcile_window_counts).
THEOREM TypeCorrect == Spec => []TypeOK
<1>1. IInv => TypeOK
  BY DEF IInv
<1> QED
  BY Initially, EveryStep, <1>1, PTL DEF Spec

\* Successes and failures always add up to the count, for any number of
\* models, requests, headers and baselines.
THEOREM CountsAlwaysAdd == Spec => []CountsAdd
<1>1. IInv => CountsAdd
  BY DEF IInv
<1> QED
  BY Initially, EveryStep, <1>1, PTL DEF Spec

\* High-water marks survive the reset of windows, whatever is recorded and
\* whatever the provider reports.
THEOREM HighWaterAlwaysKept == Spec => HighWaterKept
<1> DEFINE Kept == \A s \in known:
        /\ window'[s].high >= window[s].high
        /\ ShouldReset(window[s]) /\ window'[s].count < window[s].count
              => window'[s].high >= window[s].count
<1>1. IInv /\ [Next]_vars => Kept
  <2>1. IInv => known \subseteq Scope
    BY DEF IInv, TypeOK
  <2> QED
    BY <2>1, EveryStep DEF AllMarked, Marked
<1>2. IInv /\ [Next]_vars => [Kept]_vars
  BY <1>1
<1> QED
  BY Initially, EveryStep, <1>2, PTL DEF Spec, HighWaterKept
------------------------------------------------------------------------------------
(* Sums.  Total is a fold; that it adds the numbers of a finite set, in any  *)
(* order, is proved by induction over the subsets of the set.              *)

\* Induction over the subsets of a finite set, as a statement about a set of
\* them: G has a subset whenever it has the proper subsets of it.
LEMMA FiniteSetInduction ==
    ASSUME NEW S, IsFiniteSet(S), NEW G,
           \A T \in SUBSET S: (\A U \in SUBSET T: U # T => U \in G) => T \in G
    PROVE  SUBSET S \subseteq G
<1> DEFINE B == {T \in SUBSET S: T \notin G}
           R == StrictSubsetOrdering(S)
<1>1. IsWellFoundedOn(R, SUBSET S)
  <2>1. IsWellFoundedOn(R, FiniteSubsetsOf(S))
    BY FS_StrictSubsetOrderingWellFounded
  <2>2. FiniteSubsetsOf(S) = SUBSET S
    BY FS_FiniteSubsetsOfFinite
  <2> HIDE DEF R
  <2> QED
    BY <2>1, <2>2
<1>2. SUFFICES ASSUME B # {} PROVE FALSE
  OBVIOUS
<1>3. B \subseteq SUBSET S
  OBVIOUS
<1>4. \E T \in B: \A U \in B: <<U, T>> \notin R
  <2> HIDE DEF B, R
  <2> QED
    BY <1>1, <1>2, <1>3, WFMin
<1>5. PICK T \in B: \A U \in B: <<U, T>> \notin R
  <2> HIDE DEF B, R
  <2> QED
    BY <1>4
<1>6. ASSUME NEW U \in SUBSET T, U # T PROVE U \in G
  <2>1. <<U, T>> \in R
    BY <1>6 DEF StrictSubsetOrdering
  <2> QED
    BY <1>5, <2>1
<1> QED
  BY <1>5, <1>6

\* What the fold of MapThenSumSet chooses: a function on the subsets of T that
\* gives the sum of each.
Adding(g, f, T) ==
    g = [s \in SUBSET T |-> IF s = {} THEN 0
                            ELSE LET x == CHOOSE x \in s: TRUE IN f[x] + g[s \ {x}]]

Added(f, T) == CHOOSE g: Adding(g, f, T)

LEMMA TotalIsAdded ==
    ASSUME NEW f, NEW S
    PROVE Total(f, S) = Added(f, S)[S]
BY DEF Total, MapThenSumSet, MapThenFoldSet, Added, Adding

Some(s) == CHOOSE x \in s: TRUE

\* The element that the fold takes first.
LEMMA SomeIn == ASSUME NEW s, s # {} PROVE Some(s) \in s
BY DEF Some

LEMMA AddingDef ==
    ASSUME NEW g, NEW f, NEW T, Adding(g, f, T)
    PROVE  /\ g[{}] = 0
           /\ \A s \in SUBSET T: s # {} => g[s] = f[Some(s)] + g[s \ {Some(s)}]
<1>1. {} \in SUBSET T
  OBVIOUS
<1>2. g = [s \in SUBSET T |-> IF s = {} THEN 0 ELSE f[Some(s)] + g[s \ {Some(s)}]]
  BY DEF Adding, Some
<1> QED
  BY <1>1, <1>2

\* Two of these functions agree where both are defined, whatever their domains.
LEMMA Agreement ==
    ASSUME NEW f, NEW T, IsFiniteSet(T), NEW U \in SUBSET T,
           NEW g, Adding(g, f, T), NEW h, Adding(h, f, U)
    PROVE  g[U] = h[U]
<1> DEFINE G == {s \in SUBSET U: g[s] = h[s]}
<1>1. ASSUME NEW s \in SUBSET U, \A r \in SUBSET s: r # s => r \in G
      PROVE  s \in G
  <2>1. CASE s = {}
    BY <2>1, AddingDef
  <2>2. CASE s # {}
    <3>1. Some(s) \in s /\ s \in SUBSET T
      BY <2>2, SomeIn
    <3>2. s \ {Some(s)} \in G
      BY <1>1, <3>1
    <3>3. g[s] = f[Some(s)] + g[s \ {Some(s)}]
      <4>1. \A r \in SUBSET T: r # {} => g[r] = f[Some(r)] + g[r \ {Some(r)}]
        BY AddingDef
      <4> QED
        BY <2>2, <3>1, <4>1
    <3>4. h[s] = f[Some(s)] + h[s \ {Some(s)}]
      <4>1. \A r \in SUBSET U: r # {} => h[r] = f[Some(r)] + h[r \ {Some(r)}]
        BY AddingDef
      <4> QED
        BY <2>2, <4>1
    <3> QED
      BY <3>2, <3>3, <3>4
  <2> QED
    BY <2>1, <2>2
<1>2. IsFiniteSet(U)
  BY FS_Subset
<1>3. SUBSET U \subseteq G
  <2> HIDE DEF G
  <2> QED
    BY <1>1, <1>2, FiniteSetInduction
<1> QED
  BY <1>3

\* There is such a function on every finite set.
LEMMA SomeAdding ==
    ASSUME NEW f, NEW S, IsFiniteSet(S)
    PROVE  \A T \in SUBSET S: Adding(Added(f, T), f, T)
<1> DEFINE G == {T \in SUBSET S: Adding(Added(f, T), f, T)}
<1>1. ASSUME NEW T \in SUBSET S, \A U \in SUBSET T: U # T => U \in G
      PROVE  T \in G
  <2> DEFINE A(U) == Added(f, U)
             rest(s) == s \ {Some(s)}
             g == [s \in SUBSET T |-> IF s = {} THEN 0 ELSE f[Some(s)] + A(rest(s))[rest(s)]]
  <2>1. ASSUME NEW U \in SUBSET T, U # T PROVE g[U] = A(U)[U]
    <3>1. Adding(A(U), f, U)
      BY <1>1, <2>1
    <3>2. CASE U = {}
      <4>1. A(U)[{}] = 0
        BY <3>1, AddingDef
      <4>2. g[U] = 0
        BY <3>2
      <4> QED
        BY <3>2, <4>1, <4>2
    <3>3. CASE U # {}
      <4>1. Some(U) \in U /\ rest(U) \in SUBSET U /\ rest(U) \in SUBSET T /\ rest(U) # T
        BY <3>3, SomeIn
      <4>2. Adding(A(rest(U)), f, rest(U))
        BY <1>1, <4>1
      <4>3. IsFiniteSet(U)
        BY FS_Subset
      <4>4. A(U)[rest(U)] = A(rest(U))[rest(U)]
        <5> HIDE DEF A, rest
        <5> QED
          BY <3>1, <4>1, <4>2, <4>3, Agreement
      <4>5. A(U)[U] = f[Some(U)] + A(U)[rest(U)]
        <5> HIDE DEF A
        <5> QED
          BY <3>1, <3>3, AddingDef
      <4>6. g[U] = f[Some(U)] + A(rest(U))[rest(U)]
        <5> HIDE DEF A, rest
        <5> QED
          BY <3>3
      <4> HIDE DEF A, rest, g
      <4> QED
        BY <4>4, <4>5, <4>6
    <3> QED
      BY <3>2, <3>3
  <2>2. ASSUME NEW s \in SUBSET T, s # {}
        PROVE  g[rest(s)] = A(rest(s))[rest(s)]
    <3>1. Some(s) \in s /\ rest(s) \in SUBSET T /\ rest(s) # T
      BY <2>2, SomeIn
    <3> HIDE DEF A, rest, g
    <3> QED
      BY <2>1, <3>1
  <2>3. g = [s \in SUBSET T |-> IF s = {} THEN 0 ELSE f[Some(s)] + g[rest(s)]]
    <3>1. \A s \in SUBSET T: g[s] = IF s = {} THEN 0 ELSE f[Some(s)] + A(rest(s))[rest(s)]
      <4> HIDE DEF A, rest
      <4> QED
        OBVIOUS
    <3>2. \A s \in SUBSET T: g[s] = IF s = {} THEN 0 ELSE f[Some(s)] + g[rest(s)]
      <4> HIDE DEF A, rest, g
      <4> QED
        BY <2>2, <3>1
    <3>3. g = [s \in SUBSET T |-> g[s]]
      <4> HIDE DEF A, rest
      <4> QED
        OBVIOUS
    <3> HIDE DEF A, rest, g
    <3> QED
      BY <3>2, <3>3
  <2>4. Adding(g, f, T)
    <3> HIDE DEF g
    <3> QED
      BY <2>3 DEF Adding, Some
  <2> HIDE DEF g
  <2>5. Adding(Added(f, T), f, T)
    BY <2>4 DEF Added
  <2> QED
    BY <2>5
<1>2. SUBSET S \subseteq G
  <2> HIDE DEF G
  <2> QED
    BY <1>1, FiniteSetInduction
<1> QED
  BY <1>2

LEMMA TotalEmpty == ASSUME NEW f PROVE Total(f, {}) = 0
<1>1. IsFiniteSet({})
  BY FS_EmptySet
<1>2. Adding(Added(f, {}), f, {})
  BY <1>1, SomeAdding
<1> QED
  BY <1>2, AddingDef, TotalIsAdded

\* So the sum of a set is what its first element adds to the sum of the others.
LEMMA TotalStep ==
    ASSUME NEW f, NEW S, IsFiniteSet(S), S # {}
    PROVE  /\ Some(S) \in S
           /\ Total(f, S) = f[Some(S)] + Total(f, S \ {Some(S)})
<1> DEFINE R == S \ {Some(S)}
<1>1. Some(S) \in S /\ R \in SUBSET S
  BY SomeIn
<1>2. Adding(Added(f, S), f, S) /\ Adding(Added(f, R), f, R)
  BY <1>1, SomeAdding
<1>3. Added(f, S)[R] = Added(f, R)[R]
  <2> HIDE DEF R
  <2> QED
    BY <1>1, <1>2, Agreement
<1>4. Added(f, S)[S] = f[Some(S)] + Added(f, S)[R]
  BY <1>2, AddingDef
<1> QED
  BY <1>1, <1>3, <1>4, TotalIsAdded

AllNat(f, S) == \A x \in S: f[x] \in Nat

LEMMA TotalNat ==
    ASSUME NEW f, NEW S, IsFiniteSet(S), AllNat(f, S)
    PROVE  \A T \in SUBSET S: Total(f, T) \in Nat
<1> DEFINE G == {T \in SUBSET S: Total(f, T) \in Nat}
<1>1. ASSUME NEW T \in SUBSET S, \A U \in SUBSET T: U # T => U \in G
      PROVE  T \in G
  <2>1. CASE T = {}
    BY <2>1, TotalEmpty
  <2>2. CASE T # {}
    <3>1. IsFiniteSet(T)
      BY FS_Subset
    <3>2. Some(T) \in T /\ Total(f, T) = f[Some(T)] + Total(f, T \ {Some(T)})
      BY <2>2, <3>1, TotalStep
    <3>3. T \ {Some(T)} \in G
      BY <1>1, <3>2
    <3>4. f[Some(T)] \in Nat
      BY <3>2 DEF AllNat
    <3> QED
      BY <3>2, <3>3, <3>4
  <2> QED
    BY <2>1, <2>2
<1>2. SUBSET S \subseteq G
  <2> HIDE DEF G
  <2> QED
    BY <1>1, FiniteSetInduction
<1> QED
  BY <1>2

\* Any element can be taken first.
LEMMA TotalPart ==
    ASSUME NEW f, NEW S, IsFiniteSet(S), AllNat(f, S), NEW x \in S
    PROVE  Total(f, S) = f[x] + Total(f, S \ {x})
<1> DEFINE G == {T \in SUBSET S: \A z \in T: Total(f, T) = f[z] + Total(f, T \ {z})}
<1>1. ASSUME NEW T \in SUBSET S, \A U \in SUBSET T: U # T => U \in G
      PROVE  T \in G
  <2>1. SUFFICES ASSUME NEW z \in T PROVE Total(f, T) = f[z] + Total(f, T \ {z})
    OBVIOUS
  <2> DEFINE y == Some(T)
  <2>2. IsFiniteSet(T) /\ T # {}
    BY FS_Subset
  <2>3. y \in T /\ Total(f, T) = f[y] + Total(f, T \ {y})
    BY <2>2, TotalStep
  <2> HIDE DEF y
  <2>4. CASE z = y
    BY <2>3, <2>4
  <2>5. CASE z # y
    <3>1. T \ {y} \in G /\ T \ {z} \in G
      BY <1>1, <2>3
    <3>2. Total(f, T \ {y}) = f[z] + Total(f, (T \ {y}) \ {z})
      BY <2>5, <3>1
    <3>3. Total(f, T \ {z}) = f[y] + Total(f, (T \ {z}) \ {y})
      BY <2>3, <2>5, <3>1
    <3>4. (T \ {y}) \ {z} = (T \ {z}) \ {y}
      OBVIOUS
    <3>5. f[y] \in Nat /\ f[z] \in Nat /\ Total(f, (T \ {z}) \ {y}) \in Nat
      BY <2>3, TotalNat DEF AllNat
    <3> HIDE DEF G
    <3>6. /\ Total(f, T) = f[y] + Total(f, T \ {y})
          /\ Total(f, T \ {y}) = f[z] + Total(f, (T \ {z}) \ {y})
      BY <2>3, <3>2, <3>4
    <3> DEFINE c == Total(f, (T \ {z}) \ {y})
    <3>7. c \in Nat
      BY <3>5
    <3> QED
      BY <3>3, <3>5, <3>6, <3>7
  <2> QED
    BY <2>4, <2>5
<1>2. SUBSET S \subseteq G
  <2> HIDE DEF G
  <2> QED
    BY <1>1, FiniteSetInduction
<1> QED
  BY <1>2

\* Equal numbers have equal sums.
LEMMA TotalSame ==
    ASSUME NEW f, NEW g, NEW S, IsFiniteSet(S), \A x \in S: f[x] = g[x]
    PROVE  Total(f, S) = Total(g, S)
<1> DEFINE G == {T \in SUBSET S: Total(f, T) = Total(g, T)}
<1>1. ASSUME NEW T \in SUBSET S, \A U \in SUBSET T: U # T => U \in G
      PROVE  T \in G
  <2>1. CASE T = {}
    BY <2>1, TotalEmpty
  <2>2. CASE T # {}
    <3>1. IsFiniteSet(T)
      BY FS_Subset
    <3>2. Some(T) \in T /\ Total(f, T) = f[Some(T)] + Total(f, T \ {Some(T)})
      BY <2>2, <3>1, TotalStep
    <3>3. Total(g, T) = g[Some(T)] + Total(g, T \ {Some(T)})
      BY <2>2, <3>1, TotalStep
    <3>4. T \ {Some(T)} \in G
      BY <1>1, <3>2
    <3>5. f[Some(T)] = g[Some(T)]
      BY <3>2
    <3> QED
      BY <3>2, <3>3, <3>4, <3>5
  <2> QED
    BY <2>1, <2>2
<1>2. SUBSET S \subseteq G
  <2> HIDE DEF G
  <2> QED
    BY <1>1, FiniteSetInduction
<1> QED
  BY <1>2

LEMMA TotalZero ==
    ASSUME NEW f, NEW S, IsFiniteSet(S), \A x \in S: f[x] = 0
    PROVE  Total(f, S) = 0
<1> DEFINE G == {T \in SUBSET S: Total(f, T) = 0}
<1>1. ASSUME NEW T \in SUBSET S, \A U \in SUBSET T: U # T => U \in G
      PROVE  T \in G
  <2>1. CASE T = {}
    BY <2>1, TotalEmpty
  <2>2. CASE T # {}
    <3>1. IsFiniteSet(T)
      BY FS_Subset
    <3>2. Some(T) \in T /\ Total(f, T) = f[Some(T)] + Total(f, T \ {Some(T)})
      BY <2>2, <3>1, TotalStep
    <3>3. T \ {Some(T)} \in G
      BY <1>1, <3>2
    <3>4. f[Some(T)] = 0
      BY <3>2
    <3> QED
      BY <3>2, <3>3, <3>4
  <2> QED
    BY <2>1, <2>2
<1>2. SUBSET S \subseteq G
  <2> HIDE DEF G
  <2> QED
    BY <1>1, FiniteSetInduction
<1> QED
  BY <1>2

\* A part of a set has no larger sum.
LEMMA TotalMonotonic ==
    ASSUME NEW f, NEW S, IsFiniteSet(S), AllNat(f, S), NEW T
    PROVE  Total(f, S \cap T) <= Total(f, S)
<1> DEFINE G == {U \in SUBSET S: Total(f, U \cap T) <= Total(f, U)}
<1>1. ASSUME NEW U \in SUBSET S, \A V \in SUBSET U: V # U => V \in G
      PROVE  U \in G
  <2>1. CASE U = {}
    BY <2>1, TotalNat
  <2>2. CASE U # {}
    <3> DEFINE y == Some(U)
               V == U \ {y}
    <3>1. IsFiniteSet(U) /\ y \in U
      BY <2>2, FS_Subset, SomeIn
    <3>2. f[y] \in Nat /\ AllNat(f, U) /\ AllNat(f, U \cap T)
      BY <3>1 DEF AllNat
    <3>3. Total(f, U) = f[y] + Total(f, V)
      BY <3>1, <3>2, TotalPart
    <3>4. Total(f, V \cap T) <= Total(f, V)
      BY <1>1, <3>1
    <3>5. Total(f, V) \in Nat /\ Total(f, V \cap T) \in Nat
      BY <3>1, TotalNat
    <3>6. CASE y \in T
      <4>1. IsFiniteSet(U \cap T) /\ y \in U \cap T
        BY <3>1, <3>6, FS_Subset
      <4>2. Total(f, U \cap T) = f[y] + Total(f, (U \cap T) \ {y})
        BY <3>2, <4>1, TotalPart
      <4>3. (U \cap T) \ {y} = V \cap T
        OBVIOUS
      <4>5. Total(f, U \cap T) = f[y] + Total(f, V \cap T)
        BY <4>2, <4>3, Zenon
      <4>4. Total(f, U \cap T) <= Total(f, U)
        BY <3>2, <3>3, <3>4, <3>5, <4>5
      <4> QED
        BY <4>4
    <3>7. CASE y \notin T
      <4>1. U \cap T = V \cap T
        BY <3>7
      <4>3. Total(f, U \cap T) = Total(f, V \cap T)
        BY <4>1, Zenon
      <4>2. Total(f, U \cap T) <= Total(f, U)
        BY <3>2, <3>3, <3>4, <3>5, <4>3
      <4> QED
        BY <4>2
    <3> QED
      BY <3>6, <3>7
  <2> QED
    BY <2>1, <2>2
<1>2. SUBSET S \subseteq G
  <2> HIDE DEF G
  <2> QED
    BY <1>1, FiniteSetInduction
<1> QED
  BY <1>2
------------------------------------------------------------------------------------
LEMMA DivBounds ==
    ASSUME NEW n \in Nat, NEW d \in Nat \ {0}
    PROVE  /\ n \div d \in Nat
           /\ (n \div d) * d <= n
           /\ n < (n \div d) * d + d
  OBVIOUS
LEMMA Multiples == 
    ASSUME NEW p \in Nat, NEW q \in Nat, NEW d \in Nat \ {0}, p < q
    PROVE  p * d + d <= q * d
<1>1. PICK k \in Nat : q = p + 1 + k
  BY q - p - 1 \in Nat, q = p + 1 + (q - p - 1)
<1>2. q * d = p * d + d + k * d /\ k * d \in Nat
  BY <1>1
<1>3. p * d \in Nat
  OBVIOUS
<1> QED
  BY <1>2, <1>3

LEMMA DivMonotonic ==
    ASSUME NEW a \in Nat, NEW b \in Nat, a <= b, NEW d \in Nat \ {0}
    PROVE  a \div d <= b \div d
<1> DEFINE p == a \div d
           q == b \div d
<1>1. p \in Nat /\ p * d \in Nat /\ p * d <= a
  BY DivBounds
<1>2. q \in Nat /\ q * d \in Nat /\ b < q * d + d
  BY DivBounds
<1> HIDE DEF p, q
<1>3. ASSUME q < p PROVE FALSE
  <2>1. q * d + d <= p * d
    BY <1>1, <1>2, <1>3, Multiples
  <2> QED
    BY <1>1, <1>2, <2>1
<1>4. p <= q
  BY <1>1, <1>2, <1>3
<1> QED
  BY <1>4 DEF p, q
------------------------------------------------------------------------------------
(* Requests in flight.                                                     *)

LEMMA FlyingIsNat == ASSUME TypeOK PROVE AllNat(flying, Model) /\ IsFiniteSet(Model)
  BY ScopeAssumption DEF TypeOK, AllNat

LEMMA InFlightBounds ==
    ASSUME TypeOK, NEW S \in SUBSET Model
    PROVE  /\ Total(flying, S) \in Nat /\ InFlight \in Nat
           /\ Total(flying, S) <= InFlight
<1>1. Total(flying, S) \in Nat /\ InFlight \in Nat
  BY FlyingIsNat, TotalNat DEF InFlight
<1>2. Model \cap S = S
  OBVIOUS
<1>3. Total(flying, Model \cap S) <= Total(flying, Model)
  BY FlyingIsNat, TotalMonotonic
<1> QED
  BY <1>1, <1>2, <1>3 DEF InFlight

\* What a change of one model's requests in flight does to a sum.
LEMMA FlightChanged ==
    ASSUME TypeOK, NEW m \in Model, NEW v \in Nat, flying' = [flying EXCEPT ![m] = v],
           NEW S \in SUBSET Model
    PROVE  /\ Total(flying', S) \in Nat
           /\ m \in S => Total(flying', S) + flying[m] = Total(flying, S) + v
           /\ m \notin S => Total(flying', S) = Total(flying, S)
<1>1. flying \in [Model -> Nat] /\ IsFiniteSet(S)
  BY FlyingIsNat, FS_Subset DEF TypeOK
<1>2. \A x \in S: flying'[x] = IF x = m THEN v ELSE flying[x]
  BY <1>1
<1>3. AllNat(flying, S) /\ AllNat(flying', S)
  BY <1>1, <1>2 DEF AllNat
<1>4. Total(flying', S) \in Nat
  BY <1>1, <1>3, TotalNat
<1>5. CASE m \in S
  <2> DEFINE others == S \ {m}
             rest == Total(flying, others)
  <2>1. /\ IsFiniteSet(others) /\ others \in SUBSET S
        /\ \A x \in others: flying'[x] = flying[x]
    BY <1>1, <1>2, FS_Subset
  <2>2. Total(flying, S) = flying[m] + rest
    BY <1>1, <1>3, <1>5, TotalPart
  <2>5. Total(flying', S) = flying'[m] + Total(flying', others)
    BY <1>1, <1>3, <1>5, TotalPart
  <2>3. flying'[m] = v /\ flying[m] \in Nat
    BY <1>1, <1>2, <1>5
  <2> HIDE DEF others
  <2>4. Total(flying', others) = rest /\ rest \in Nat
    BY <1>1, <1>3, <2>1, TotalSame, TotalNat
  <2> HIDE DEF rest
  <2>6. Total(flying', S) + flying[m] = Total(flying, S) + v
    BY <2>2, <2>3, <2>4, <2>5
  <2> QED
    BY <1>4, <1>5, <2>6
<1>6. CASE m \notin S
  <2>1. \A x \in S: flying'[x] = flying[x]
    BY <1>2, <1>6
  <2>2. Total(flying', S) = Total(flying, S)
    BY <1>1, <2>1, TotalSame
  <2> QED
    BY <1>4, <1>6, <2>2
<1> QED
  BY <1>5, <1>6

\* No more requests are in flight than may be.
FlightInv == InFlight <= MaxFlight

LEMMA FlightInit == Init => FlightInv
<1> SUFFICES ASSUME Init PROVE FlightInv
  OBVIOUS
<1>1. TypeOK
  BY Initially DEF IInv
<1>2. \A x \in Model: flying[x] = 0
  BY DEF Init
<1>3. Total(flying, Model) = 0
  BY <1>1, <1>2, FlyingIsNat, TotalZero
<1> QED
  BY <1>3, TimeAssumption DEF FlightInv, InFlight

\* Only an admission puts a request into flight, and only a recorded outcome
\* takes one out.
LEMMA FlightStep ==
    ASSUME IInv, FlightInv, [Next]_vars
    PROVE  /\ \/ \E m \in Model: Admit(m) /\ flying' = [flying EXCEPT ![m] = flying[m] + 1]
              \/ \E m \in Model: /\ Record(m) /\ flying[m] > 0
                                 /\ flying' = [flying EXCEPT ![m] = flying[m] - 1]
              \/ flying' = flying
           /\ FlightInv'
<1>1. CASE \E m \in Model: Admit(m)
  <2>1. PICK m \in Model: Admit(m)
    BY <1>1
  <2>2. flying' = [flying EXCEPT ![m] = flying[m] + 1] /\ InFlight < MaxFlight
    BY <2>1 DEF Admit
  <2>3. flying[m] \in Nat /\ flying[m] + 1 \in Nat
    BY DEF IInv, TypeOK
  <2>4. /\ Total(flying', Model) \in Nat
        /\ Total(flying', Model) + flying[m] = InFlight + flying[m] + 1
    <3>1. Total(flying', Model) + flying[m] = Total(flying, Model) + (flying[m] + 1)
      BY <2>2, <2>3, FlightChanged DEF IInv
    <3>2. Total(flying', Model) \in Nat /\ InFlight \in Nat
      BY <2>2, <2>3, FlightChanged, InFlightBounds DEF IInv
    <3> QED
      BY <2>3, <3>1, <3>2 DEF InFlight
  <2>5. InFlight \in Nat /\ MaxFlight \in Nat
    BY InFlightBounds, TimeAssumption DEF IInv
  <2>6. Total(flying', Model) <= MaxFlight
    BY <2>2, <2>3, <2>4, <2>5
  <2> QED
    BY <2>1, <2>2, <2>6 DEF FlightInv, InFlight
<1>2. CASE \E m \in Model: Record(m)
  <2>1. PICK m \in Model: Record(m)
    BY <1>2
  <2>2. flying' = [flying EXCEPT ![m] = flying[m] - 1] /\ flying[m] > 0
    BY <2>1 DEF Record, Success, Failure, Land
  <2>3. flying[m] \in Nat /\ flying[m] - 1 \in Nat
    BY <2>2 DEF IInv, TypeOK
  <2>4. /\ Total(flying', Model) \in Nat
        /\ Total(flying', Model) + flying[m] = Total(flying, Model) + (flying[m] - 1)
    BY <2>2, <2>3, FlightChanged DEF IInv
  <2>5. Total(flying, Model) \in Nat /\ Total(flying, Model) <= MaxFlight /\ MaxFlight \in Nat
    BY InFlightBounds, TimeAssumption DEF IInv, InFlight, FlightInv
  <2>6. Total(flying', Model) <= MaxFlight
    BY <2>3, <2>4, <2>5
  <2> QED
    BY <2>1, <2>2, <2>6 DEF FlightInv, InFlight
<1>3. CASE Baseline \/ ClearCooldown \/ Tick \/ UNCHANGED vars
  <2>1. flying' = flying
    BY <1>3 DEF Baseline, Apply, ClearCooldown, Tick, vars
  <2> QED
    BY <2>1 DEF FlightInv, InFlight
<1> QED
  BY <1>1, <1>2, <1>3 DEF Next
------------------------------------------------------------------------------------
(* Daily limits.                                                           *)

\* The most a counter can reach: the limit but one, and then the requests that
\* were admitted by this count.
Room(c) == Larger(RpdLimit[c] - 1, 0) + MaxFlight

\* What the counter says today and the requests in flight that will be counted
\* in it stay in that room together.
RpdInv ==
    \A c \in DOMAIN RpdLimit:
        /\ rpd[c].count <= Room(c)
        /\ RpdCount(c) + Total(flying, Aliases(c)) <= Room(c)

LEMMA RpdTypes ==
    ASSUME TypeOK, NEW c \in DOMAIN RpdLimit
    PROVE  /\ c \in Model /\ RpdLimit[c] \in Nat /\ Room(c) \in Nat /\ MaxFlight <= Room(c)
           /\ RpdLimit[c] > 0 => Room(c) = RpdLimit[c] - 1 + MaxFlight
           /\ rpd[c].count \in Nat /\ RpdCount(c) \in Nat
           /\ Aliases(c) \in SUBSET Model
           /\ Total(flying, Aliases(c)) \in Nat
<1>1. c \in Model /\ RpdLimit[c] \in Nat /\ MaxFlight \in Nat
  BY LimitAssumption, TimeAssumption
<1>2. /\ Room(c) \in Nat /\ MaxFlight <= Room(c)
      /\ RpdLimit[c] > 0 => Room(c) = RpdLimit[c] - 1 + MaxFlight
  BY <1>1 DEF Room, Larger
<1>3. rpd[c].count \in Nat
  BY <1>1 DEF TypeOK
<1>4. RpdCount(c) \in Nat
  BY <1>3 DEF RpdCount
<1>5. Aliases(c) \in SUBSET Model
  BY DEF Aliases
<1>6. Total(flying, Aliases(c)) \in Nat
  BY <1>5, InFlightBounds
<1> QED
  BY <1>1, <1>2, <1>3, <1>4, <1>5, <1>6

\* A counter and the room left in it, after a step.
RpdHolds(c) ==
    /\ rpd'[c].count <= Room(c)
    /\ RpdCount(c)' + Total(flying', Aliases(c)) <= Room(c)

LEMMA RpdOfEach == (\A c \in DOMAIN RpdLimit: RpdHolds(c)) => RpdInv'
  BY DEF RpdHolds, RpdInv, Aliases, Room

LEMMA RpdAdmitted ==
    ASSUME IInv, FlightInv, RpdInv, NEW m \in Model, Admit(m), [Next]_vars,
           flying' = [flying EXCEPT ![m] = flying[m] + 1], NEW c \in DOMAIN RpdLimit
    PROVE  RpdHolds(c)
<1>1. rpd' = rpd /\ now' = now
  BY DEF Admit, books
<1>2. RpdCount(c)' = RpdCount(c)
  BY <1>1 DEF RpdCount, Today
<1>3. /\ rpd[c].count <= Room(c) /\ RpdCount(c) + Total(flying, Aliases(c)) <= Room(c)
      /\ RpdCount(c) \in Nat /\ Room(c) \in Nat /\ MaxFlight \in Nat
      /\ Aliases(c) \in SUBSET Model /\ RpdLimit[c] \in Nat
      /\ RpdLimit[c] > 0 => Room(c) = RpdLimit[c] - 1 + MaxFlight
  BY RpdTypes, TimeAssumption DEF RpdInv, IInv
<1>4. CASE m \in Aliases(c)
  <2>1. RpdCount(c) < RpdLimit[c]
    <3>1. Canonical[m] = c
      BY <1>4 DEF Aliases
    <3>2. ~(RpdCount(c) >= RpdLimit[c])
      BY <3>1 DEF Admit, Allowed, RpdReached
    <3> QED
      BY <1>3, <3>2
  <2>2. Total(flying', Aliases(c)) <= Total(flying', Model) /\ Total(flying', Model) <= MaxFlight
    <3>1. TypeOK' /\ FlightInv'
      BY EveryStep, FlightStep DEF IInv
    <3>2. AllNat(flying', Model) /\ IsFiniteSet(Model)
      BY <3>1, ScopeAssumption DEF TypeOK, AllNat
    <3>3. Model \cap Aliases(c) = Aliases(c)
      BY <1>3
    <3>4. Total(flying', Model \cap Aliases(c)) <= Total(flying', Model)
      BY <3>2, TotalMonotonic
    <3> QED
      BY <3>1, <3>3, <3>4 DEF FlightInv, InFlight
  <2>3. Total(flying', Aliases(c)) \in Nat /\ Total(flying', Model) \in Nat
    <3>1. flying[m] + 1 \in Nat
      BY DEF IInv, TypeOK
    <3> QED
      BY <1>3, <3>1, FlightChanged DEF IInv
  <2>4. RpdCount(c) + Total(flying', Aliases(c)) <= Room(c)
    BY <1>3, <2>1, <2>2, <2>3
  <2> QED
    BY <1>1, <1>2, <1>3, <2>4 DEF RpdHolds
<1>5. CASE m \notin Aliases(c)
  <2>1. flying[m] + 1 \in Nat
    BY DEF IInv, TypeOK
  <2>2. Total(flying', Aliases(c)) = Total(flying, Aliases(c))
    BY <1>3, <1>5, <2>1, FlightChanged DEF IInv
  <2> QED
    BY <1>1, <1>2, <1>3, <2>2 DEF RpdHolds
<1> QED
  BY <1>4, <1>5

LEMMA RpdLanded ==
    ASSUME IInv, FlightInv, RpdInv, NEW m \in Model, Record(m), flying[m] > 0,
           flying' = [flying EXCEPT ![m] = flying[m] - 1], NEW c \in DOMAIN RpdLimit
    PROVE  RpdHolds(c)
<1>1. now' = now /\ (rpd' = RpdRecorded(m) \/ rpd' = rpd)
  BY DEF Record, Success, Failure, Land
<1>2. /\ rpd[c].count <= Room(c) /\ RpdCount(c) + Total(flying, Aliases(c)) <= Room(c)
      /\ RpdCount(c) \in Nat /\ Room(c) \in Nat /\ Aliases(c) \in SUBSET Model /\ c \in Model
      /\ Total(flying, Aliases(c)) \in Nat
  BY RpdTypes DEF RpdInv, IInv
<1>3. flying[m] \in Nat /\ flying[m] - 1 \in Nat
  BY DEF IInv, TypeOK
<1>4. /\ Total(flying', Aliases(c)) \in Nat
      /\ m \in Aliases(c) =>
            Total(flying', Aliases(c)) + flying[m] = Total(flying, Aliases(c)) + (flying[m] - 1)
      /\ m \notin Aliases(c) => Total(flying', Aliases(c)) = Total(flying, Aliases(c))
  BY <1>2, <1>3, FlightChanged DEF IInv
<1>5. Total(flying', Aliases(c)) <= Total(flying, Aliases(c))
  BY <1>2, <1>3, <1>4
<1>6. CASE rpd'[c] = rpd[c]
  <2>1. RpdCount(c)' = RpdCount(c)
    BY <1>1, <1>6 DEF RpdCount, Today
  <2>2. RpdCount(c) + Total(flying', Aliases(c)) <= Room(c)
    BY <1>2, <1>4, <1>5
  <2> QED
    BY <1>2, <1>6, <2>1, <2>2 DEF RpdHolds
<1>7. CASE rpd'[c] # rpd[c]
  <2>1. Canonical[m] = c /\ rpd' = [rpd EXCEPT ![c] = [count |-> RpdCount(c) + 1, day |-> Today]]
    <3> DEFINE d == Canonical[m]
               entry == [count |-> RpdCount(d) + 1, day |-> Today]
    <3>1. rpd' = [rpd EXCEPT ![d] = entry]
      BY <1>1, <1>7 DEF RpdRecorded
    <3>2. d = c
      <4> HIDE DEF d, entry
      <4> QED
        BY <1>2, <1>7, <3>1 DEF IInv, TypeOK
    <3> QED
      BY <3>1, <3>2
  <2>2. rpd'[c] = [count |-> RpdCount(c) + 1, day |-> Today]
    BY <1>2, <2>1 DEF IInv, TypeOK
  <2>3. Today \in Nat
    <3>1. now \in Nat
      BY DEF IInv, TypeOK
    <3> QED
      BY <3>1, DivBounds, TimeAssumption DEF Today
  <2>4. rpd'[c].count = RpdCount(c) + 1 /\ RpdCount(c)' = RpdCount(c) + 1
    <3>1. rpd'[c].count = RpdCount(c) + 1 /\ rpd'[c].day = Today
      BY <2>2
    <3>2. Today' = Today
      BY <1>1 DEF Today
    <3>3. ~(rpd'[c].day < Today')
      BY <2>3, <3>1, <3>2
    <3> QED
      BY <3>1, <3>3 DEF RpdCount
  <2>5. Total(flying', Aliases(c)) + 1 = Total(flying, Aliases(c))
    <3>1. m \in Aliases(c)
      BY <2>1 DEF Aliases
    <3> QED
      BY <1>2, <1>3, <1>4, <3>1
  <2> QED
    BY <1>2, <1>4, <2>4, <2>5 DEF RpdHolds
<1> QED
  BY <1>6, <1>7

LEMMA RpdOtherwise ==
    ASSUME IInv, FlightInv, RpdInv, UNCHANGED <<rpd, flying>>,
           now' = now \/ now' = now + 1, NEW c \in DOMAIN RpdLimit
    PROVE  RpdHolds(c)
<1>1. /\ rpd[c].count <= Room(c) /\ RpdCount(c) + Total(flying, Aliases(c)) <= Room(c)
      /\ RpdCount(c) \in Nat /\ Room(c) \in Nat /\ MaxFlight <= Room(c) /\ c \in Model
      /\ Total(flying, Aliases(c)) \in Nat /\ Total(flying, Aliases(c)) <= InFlight
      /\ InFlight \in Nat
  BY RpdTypes, InFlightBounds DEF RpdInv, IInv
<1>2. RpdCount(c)' = RpdCount(c) \/ RpdCount(c)' = 0
  <2>1. Today \in Nat /\ Today' \in Nat /\ Today <= Today'
    <3>1. now \in Nat /\ now' \in Nat /\ now <= now'
      BY DEF IInv, TypeOK
    <3> QED
      BY <3>1, DivMonotonic, DivBounds, TimeAssumption DEF Today
  <2>2. rpd[c].day \in Time
    BY <1>1 DEF IInv, TypeOK
  <2>3. rpd[c].day < Today => rpd[c].day < Today'
    BY <2>1, <2>2 DEF Time, None
  <2>4. rpd'[c] = rpd[c]
    OBVIOUS
  <2> QED
    BY <2>3, <2>4 DEF RpdCount
<1>3. Total(flying, Aliases(c)) <= Room(c)
  BY <1>1, TimeAssumption DEF FlightInv
<1>4. RpdCount(c)' + Total(flying, Aliases(c)) <= Room(c)
  BY <1>1, <1>2, <1>3
<1> QED
  BY <1>1, <1>4 DEF RpdHolds

LEMMA RpdStep == IInv /\ FlightInv /\ RpdInv /\ [Next]_vars => RpdInv'
<1> SUFFICES ASSUME IInv, FlightInv, RpdInv, [Next]_vars, NEW c \in DOMAIN RpdLimit
             PROVE  RpdHolds(c)
  BY RpdOfEach
<1>1. CASE \E m \in Model: Admit(m) \/ Record(m)
  <2>1. PICK m \in Model: Admit(m) \/ Record(m)
    BY <1>1
  <2>2. CASE Admit(m)
    <3>1. flying' = [flying EXCEPT ![m] = flying[m] + 1]
      BY <2>2 DEF Admit
    <3> QED
      BY <2>2, <3>1, RpdAdmitted
  <2>3. CASE Record(m)
    <3>1. flying' = [flying EXCEPT ![m] = flying[m] - 1] /\ flying[m] > 0
      BY <2>3 DEF Record, Success, Failure, Land
    <3> QED
      BY <2>3, <3>1, RpdLanded
  <2> QED
    BY <2>1, <2>2, <2>3
<1>2. CASE Baseline \/ ClearCooldown \/ Tick \/ UNCHANGED vars
  <2>1. UNCHANGED <<rpd, flying>> /\ (now' = now \/ now' = now + 1)
    BY <1>2 DEF Baseline, Apply, ClearCooldown, Tick, vars, books
  <2> QED
    BY <2>1, RpdOtherwise
<1> QED
  BY <1>1, <1>2 DEF Next

LEMMA RpdInit == Init => RpdInv
<1> SUFFICES ASSUME Init, NEW c \in DOMAIN RpdLimit
             PROVE  rpd[c].count <= Room(c) /\ RpdCount(c) + Total(flying, Aliases(c)) <= Room(c)
  BY DEF RpdInv
<1>1. TypeOK /\ FlightInv
  BY Initially, FlightInit DEF IInv
<1>2. /\ c \in Model /\ Room(c) \in Nat /\ MaxFlight <= Room(c)
      /\ Total(flying, Aliases(c)) \in Nat /\ Total(flying, Aliases(c)) <= InFlight
      /\ InFlight \in Nat /\ InFlight <= MaxFlight /\ MaxFlight \in Nat
  BY <1>1, RpdTypes, InFlightBounds, TimeAssumption DEF FlightInv
<1>3. rpd[c].count = 0 /\ RpdCount(c) = 0
  BY <1>2 DEF Init, RpdCount
<1> QED
  BY <1>2, <1>3

\* A daily limit is exceeded only by requests that were in flight together,
\* for any limits, any aliases and any number of models: the counter of a
\* model and of all its aliases is one (RPDLimitChecker, _increment_rpd_counters).
THEOREM RpdAlwaysKept == Spec => []RpdKept
<1>1. Init => IInv /\ FlightInv /\ RpdInv
  BY Initially, FlightInit, RpdInit
<1>2. IInv /\ FlightInv /\ RpdInv /\ [Next]_vars => (IInv /\ FlightInv /\ RpdInv)'
  BY EveryStep, FlightStep, RpdStep
<1>3. RpdInv => RpdKept
  BY DEF RpdInv, RpdKept, Room
<1> QED
  BY <1>1, <1>2, <1>3, PTL DEF Spec
------------------------------------------------------------------------------------
(* The daily limits implement DailyQuota.                                  *)

\* The state of Daily, which Daily's definitions stand for.
Counts    == [c \in DOMAIN RpdLimit |-> RpdCount(c)]
InFlights == [c \in DOMAIN RpdLimit |-> Total(flying, Aliases(c))]

LEMMA DailyTypes ==
    ASSUME TypeOK
    PROVE  /\ Counts \in [DOMAIN RpdLimit -> Nat] /\ InFlights \in [DOMAIN RpdLimit -> Nat]
           /\ \A c \in DOMAIN RpdLimit: InFlights[c] <= InFlight
           /\ InFlight \in Nat
  BY RpdTypes, InFlightBounds DEF Counts, InFlights

LEMMA DailyActions ==
    /\ Daily!Init <=> /\ Counts = [c \in DOMAIN RpdLimit |-> 0]
                      /\ InFlights = [c \in DOMAIN RpdLimit |-> 0]
    /\ \A q \in DOMAIN RpdLimit: Daily!Admit(q) <=>
           /\ Counts[q] < RpdLimit[q] /\ InFlights[q] < MaxFlight
           /\ InFlights' = [InFlights EXCEPT ![q] = @ + 1] /\ Counts' = Counts
    /\ \A q \in DOMAIN RpdLimit: Daily!End(q) <=>
           /\ InFlights[q] > 0 /\ InFlights' = [InFlights EXCEPT ![q] = @ - 1]
           /\ Counts' = [Counts EXCEPT ![q] = @ + 1] \/ Counts' = Counts
    /\ \A S \in SUBSET DOMAIN RpdLimit: Daily!BeginAnew(S) <=>
           /\ Counts' = [q \in DOMAIN RpdLimit |-> IF q \in S THEN 0 ELSE Counts[q]]
           /\ InFlights' = InFlights
    /\ UNCHANGED Daily!vars <=> Counts' = Counts /\ InFlights' = InFlights
  BY DEF Daily!Init, Daily!Admit, Daily!End, Daily!BeginAnew, Daily!vars, Counts, InFlights

LEMMA DailyInit == Init => Daily!Init
<1> SUFFICES ASSUME Init PROVE Daily!Init
  OBVIOUS
<1>1. TypeOK
  BY Initially DEF IInv
<1>2. ASSUME NEW c \in DOMAIN RpdLimit PROVE RpdCount(c) = 0 /\ Total(flying, Aliases(c)) = 0
  <2>1. c \in Model /\ Aliases(c) \in SUBSET Model
    BY <1>1, RpdTypes
  <2>2. RpdCount(c) = 0
    BY <2>1 DEF Init, RpdCount
  <2>3. IsFiniteSet(Aliases(c)) /\ \A x \in Aliases(c): flying[x] = 0
    BY <2>1, ScopeAssumption, FS_Subset DEF Init
  <2> QED
    BY <2>2, <2>3, TotalZero
<1> QED
  BY <1>2, DailyActions DEF Counts, InFlights

\* What one model's requests in flight mean for the quotas: only the one that
\* the model is counted as sees the change.
LEMMA DailyFlight ==
    ASSUME TypeOK, NEW m \in Model, NEW v \in Nat, flying' = [flying EXCEPT ![m] = v]
    PROVE  /\ Canonical[m] \notin DOMAIN RpdLimit => InFlights' = InFlights
           /\ Canonical[m] \in DOMAIN RpdLimit =>
                  InFlights' = [InFlights EXCEPT ![Canonical[m]] = @ + v - flying[m]]
<1>1. ASSUME NEW c \in DOMAIN RpdLimit
      PROVE  /\ InFlights'[c] = Total(flying', Aliases(c))
             /\ InFlights[c] = Total(flying, Aliases(c))
             /\ InFlights[c] \in Nat /\ InFlights'[c] \in Nat
             /\ c = Canonical[m] => InFlights'[c] + flying[m] = InFlights[c] + v
             /\ c # Canonical[m] => InFlights'[c] = InFlights[c]
  <2>1. Aliases(c) \in SUBSET Model /\ (m \in Aliases(c) <=> c = Canonical[m])
    BY DEF Aliases
  <2>2. InFlights'[c] = Total(flying', Aliases(c)) /\ InFlights[c] = Total(flying, Aliases(c))
    BY DEF InFlights
  <2>3. Total(flying, Aliases(c)) \in Nat
    BY RpdTypes
  <2>4. /\ Total(flying', Aliases(c)) \in Nat
        /\ c = Canonical[m] =>
              Total(flying', Aliases(c)) + flying[m] = Total(flying, Aliases(c)) + v
        /\ c # Canonical[m] => Total(flying', Aliases(c)) = Total(flying, Aliases(c))
    BY <2>1, FlightChanged
  <2> QED
    BY <2>2, <2>3, <2>4
<1>2. flying[m] \in Nat
  BY DEF TypeOK
<1>3. /\ InFlights = [c \in DOMAIN RpdLimit |-> InFlights[c]]
      /\ InFlights' = [c \in DOMAIN RpdLimit |-> InFlights'[c]]
  BY DEF InFlights
<1>4. \A c \in DOMAIN RpdLimit:
          InFlights'[c] = IF c = Canonical[m] THEN InFlights[c] + v - flying[m] ELSE InFlights[c]
  BY <1>1, <1>2
<1> QED
  BY <1>3, <1>4

LEMMA DailyAdmit ==
    ASSUME IInv, FlightInv, NEW m \in Model, Admit(m)
    PROVE  Daily!Next \/ UNCHANGED Daily!vars
<1> DEFINE c == Canonical[m]
<1>1. /\ flying' = [flying EXCEPT ![m] = flying[m] + 1] /\ InFlight < MaxFlight
      /\ flying[m] \in Nat /\ flying[m] + 1 \in Nat /\ TypeOK
  BY DEF Admit, IInv, TypeOK
<1>2. Counts' = Counts
  BY DEF Admit, books, Counts, RpdCount, Today
<1>3. CASE c \in DOMAIN RpdLimit
  <2>1. Counts[c] < RpdLimit[c]
    <3>1. ~(RpdCount(c) >= RpdLimit[c])
      BY <1>3 DEF Admit, Allowed, RpdReached
    <3>2. Counts[c] = RpdCount(c) /\ RpdCount(c) \in Nat /\ RpdLimit[c] \in Nat
      BY <1>1, <1>3, RpdTypes DEF Counts
    <3> QED
      BY <3>1, <3>2
  <2>2. InFlights[c] < MaxFlight /\ InFlights[c] \in Nat
    BY <1>1, <1>3, DailyTypes, TimeAssumption
  <2>3. InFlights' = [InFlights EXCEPT ![c] = @ + 1]
    <3>1. InFlights' = [InFlights EXCEPT ![c] = @ + (flying[m] + 1) - flying[m]]
      BY <1>1, <1>3, DailyFlight
    <3>2. InFlights[c] + (flying[m] + 1) - flying[m] = InFlights[c] + 1
      BY <1>1, <2>2
    <3> QED
      BY <3>1, <3>2
  <2>4. Daily!Admit(c)
    BY <1>2, <1>3, <2>1, <2>2, <2>3, DailyActions
  <2> QED
    BY <1>3, <2>4 DEF Daily!Next
<1>4. CASE c \notin DOMAIN RpdLimit
  <2>1. InFlights' = InFlights
    BY <1>1, <1>4, DailyFlight
  <2> QED
    BY <1>2, <2>1, DailyActions
<1> QED
  BY <1>3, <1>4

LEMMA DailyRecord ==
    ASSUME IInv, NEW m \in Model, Record(m)
    PROVE  Daily!Next \/ UNCHANGED Daily!vars
<1> DEFINE c == Canonical[m]
<1>1. /\ flying' = [flying EXCEPT ![m] = flying[m] - 1] /\ flying[m] > 0
      /\ now' = now /\ (rpd' = RpdRecorded(m) \/ rpd' = rpd)
  BY DEF Record, Success, Failure, Land
<1>2. flying[m] \in Nat /\ flying[m] - 1 \in Nat /\ TypeOK
  BY <1>1 DEF IInv, TypeOK
<1>3. CASE c \in DOMAIN RpdLimit
  <2>1. InFlights[c] \in Nat /\ InFlights[c] > 0
    <3>1. Total(flying, Aliases(c)) = flying[m] + Total(flying, Aliases(c) \ {m})
      <4>1. /\ IsFiniteSet(Aliases(c)) /\ AllNat(flying, Aliases(c)) /\ m \in Aliases(c)
        BY <1>2, ScopeAssumption, FS_Subset DEF Aliases, TypeOK, AllNat
      <4> QED
        BY <4>1, TotalPart
    <3>2. Total(flying, Aliases(c) \ {m}) \in Nat
      <4>1. Aliases(c) \ {m} \in SUBSET Model
        BY DEF Aliases
      <4> QED
        BY <1>2, <4>1, InFlightBounds
    <3>3. InFlights[c] = Total(flying, Aliases(c))
      BY <1>3 DEF InFlights
    <3> DEFINE rest == Total(flying, Aliases(c) \ {m})
    <3>4. rest \in Nat /\ InFlights[c] = flying[m] + rest
      BY <3>1, <3>2, <3>3
    <3> HIDE DEF rest
    <3> QED
      BY <1>1, <1>2, <3>4
  <2>2. InFlights' = [InFlights EXCEPT ![c] = @ - 1]
    <3>1. InFlights' = [InFlights EXCEPT ![c] = @ + (flying[m] - 1) - flying[m]]
      BY <1>1, <1>2, <1>3, DailyFlight
    <3>2. InFlights[c] + (flying[m] - 1) - flying[m] = InFlights[c] - 1
      BY <1>2, <2>1
    <3> QED
      BY <3>1, <3>2
  <2>3. Counts' = [Counts EXCEPT ![c] = @ + 1] \/ Counts' = Counts
    <3>1. CASE rpd' = rpd
      BY <1>1, <3>1 DEF Counts, RpdCount, Today
    <3>2. CASE rpd' = RpdRecorded(m)
      <4>1. rpd' = [rpd EXCEPT ![c] = [count |-> RpdCount(c) + 1, day |-> Today]]
        BY <1>3, <3>2 DEF RpdRecorded
      <4>2. Today \in Nat /\ Today' = Today
        <5>1. now \in Nat
          BY <1>2 DEF TypeOK
        <5>2. Today \in Nat
          BY <5>1, DivBounds, TimeAssumption DEF Today
        <5> QED
          BY <1>1, <5>2 DEF Today
      <4>3. ASSUME NEW d \in DOMAIN RpdLimit
            PROVE  RpdCount(d)' = IF d = c THEN RpdCount(d) + 1 ELSE RpdCount(d)
        <5>1. d \in Model
          BY LimitAssumption
        <5>2. CASE d = c
          <6>1. rpd'[d].count = RpdCount(d) + 1 /\ rpd'[d].day = Today
            BY <1>2, <4>1, <5>1, <5>2 DEF TypeOK
          <6>2. ~(rpd'[d].day < Today')
            BY <4>2, <6>1
          <6> QED
            BY <5>2, <6>1, <6>2 DEF RpdCount
        <5>3. CASE d # c
          <6>1. rpd'[d] = rpd[d]
            BY <1>2, <4>1, <5>1, <5>3 DEF TypeOK
          <6> QED
            BY <4>2, <5>3, <6>1 DEF RpdCount
        <5> QED
          BY <5>2, <5>3
      <4> QED
        BY <1>3, <4>3 DEF Counts
    <3> QED
      BY <1>1, <3>1, <3>2
  <2>4. Daily!End(c)
    BY <1>3, <2>1, <2>2, <2>3, DailyActions
  <2> QED
    BY <1>3, <2>4 DEF Daily!Next
<1>4. CASE c \notin DOMAIN RpdLimit
  <2>1. InFlights' = InFlights
    BY <1>1, <1>2, <1>4, DailyFlight
  <2>2. rpd' = rpd
    BY <1>1, <1>4 DEF RpdRecorded
  <2>3. Counts' = Counts
    BY <1>1, <2>2 DEF Counts, RpdCount, Today
  <2> QED
    BY <2>1, <2>3, DailyActions
<1> QED
  BY <1>3, <1>4

\* The turn of the day takes back what counters of another day have counted.
LEMMA DailyTick ==
    ASSUME IInv, Tick
    PROVE  Daily!Next
<1>1. now' = now + 1 /\ rpd' = rpd /\ flying' = flying
  BY DEF Tick, books
<1>2. Today \in Nat /\ Today' \in Nat /\ Today <= Today'
  <2>1. now \in Nat /\ now' \in Nat /\ now <= now'
    BY <1>1 DEF IInv, TypeOK
  <2> QED
    BY <2>1, DivMonotonic, DivBounds, TimeAssumption DEF Today
<1> DEFINE S == {c \in DOMAIN RpdLimit: rpd[c].day < Today'}
<1>3. ASSUME NEW c \in DOMAIN RpdLimit
      PROVE  RpdCount(c)' = IF c \in S THEN 0 ELSE RpdCount(c)
  <2>1. rpd'[c] = rpd[c] /\ rpd[c].day \in Time
    BY <1>1, LimitAssumption DEF IInv, TypeOK
  <2>2. rpd[c].day < Today => rpd[c].day < Today'
    BY <1>2, <2>1 DEF Time, None
  <2> QED
    BY <2>1, <2>2 DEF RpdCount
<1>4. Counts' = [q \in DOMAIN RpdLimit |-> IF q \in S THEN 0 ELSE Counts[q]]
  <2> HIDE DEF S
  <2> QED
    BY <1>3 DEF Counts
<1>5. InFlights' = InFlights
  BY <1>1 DEF InFlights
<1>6. S \in SUBSET DOMAIN RpdLimit
  OBVIOUS
<1> HIDE DEF S
<1>7. Daily!BeginAnew(S)
  BY <1>4, <1>5, <1>6, DailyActions
<1> QED
  BY <1>6, <1>7 DEF Daily!Next

LEMMA DailyOtherwise ==
    ASSUME Baseline \/ ClearCooldown \/ UNCHANGED vars
    PROVE  UNCHANGED Daily!vars
<1>1. UNCHANGED <<now, rpd, flying>>
  BY DEF Baseline, Apply, ClearCooldown, vars, books
<1>2. Counts' = Counts
  BY <1>1 DEF Counts, RpdCount, Today
<1>3. InFlights' = InFlights
  BY <1>1 DEF InFlights
<1> QED
  BY <1>2, <1>3, DailyActions

\* The counters of the day and the requests in flight of a model and all its
\* aliases are one quota, step by step, whatever the limits and the aliases.
THEOREM DailyLimitsAreQuotas == Spec => ImplementsQuota
<1>1. Init => IInv /\ FlightInv /\ Daily!Init
  BY Initially, FlightInit, DailyInit
<1>2. IInv /\ FlightInv /\ [Next]_vars => (IInv /\ FlightInv)'
  BY EveryStep, FlightStep
<1>3. IInv /\ FlightInv /\ [Next]_vars => [Daily!Next]_(Daily!vars)
  BY DailyAdmit, DailyRecord, DailyTick, DailyOtherwise DEF Next
<1> QED
  BY <1>1, <1>2, <1>3, PTL DEF Spec, ImplementsQuota, Daily!Spec
------------------------------------------------------------------------------------
(* The group's cap.                                                        *)

\* What the group's window counts while it has not expired.
Held == IF Active(Group) THEN window[Group].count ELSE 0

\* The most that k requests in flight will be counted as.
Weight(k) == k * MaxCount

\* What the window counts, and the requests in flight that will be counted in
\* it, stay below what one of the limits allows.
CapInv ==
    /\ Group \notin known => window[Group].count = 0
    /\ Group \in DOMAIN Cap =>
          /\ \E l \in Limits \cup {None}: window[Group].count <= MostCounted(l)
          /\ \E l \in Limits \cup {None}: Held + Weight(InFlight) <= MostCounted(l)

LEMMA WeightBounds ==
    ASSUME NEW j \in Nat, NEW k \in Nat, j <= k
    PROVE  /\ Weight(j) \in Nat /\ Weight(k) \in Nat /\ Weight(j) <= Weight(k)
           /\ j + 1 = k => Weight(j) + MaxCount = Weight(k)
<1>1. MaxCount \in Nat
  BY TimeAssumption
<1>2. PICK d \in Nat: k = j + d
  BY k - j \in Nat, k = j + (k - j)
<1>3. k * MaxCount = j * MaxCount + d * MaxCount
  BY <1>1, <1>2
<1>4. j * MaxCount \in Nat /\ d * MaxCount \in Nat
  BY <1>1
<1>5. j + 1 = k => d * MaxCount = MaxCount
  BY <1>1, <1>2
<1> QED
  BY <1>1, <1>3, <1>4, <1>5 DEF Weight

LEMMA MostCountedBounds ==
    ASSUME Group \in DOMAIN Cap, NEW l \in Limits \cup {None}
    PROVE  /\ MostCounted(l) \in Nat
           /\ Weight(MaxFlight) <= MostCounted(l)
           /\ MaxUsed + Weight(MaxFlight) <= MostCounted(l)
           /\ MaxOf(Cap[Group], l) \in Int
           /\ MaxOf(Cap[Group], l) - 1 + Weight(MaxFlight) <= MostCounted(l)
<1>1. Cap[Group].mode \in {"absolute", "offset", "percentage"} /\ Cap[Group].value \in Int
  BY LimitAssumption
<1>2. l \in Int /\ None \in Int
  BY LimitAssumption DEF None
<1> DEFINE v == Cap[Group].value
           n == MaxOf(Cap[Group], l)
<1>3. n \in Int
  <2>1. (l * v) \div 100 \in Int /\ l + v \in Int
    BY <1>1, <1>2
  <2> QED
    BY <1>1, <1>2, <2>1 DEF MaxOf, Larger, Magnitude
<1> HIDE DEF n
<1> DEFINE a == Larger(n - 1, 0)
           b == Larger(a, MaxUsed)
<1>4. a \in Nat /\ a >= n - 1
  BY <1>3 DEF Larger
<1> HIDE DEF a
<1>5. b \in Nat /\ b >= a /\ b >= MaxUsed
  BY <1>4, TimeAssumption DEF Larger
<1>6. MostCounted(l) = b + Weight(MaxFlight)
  BY DEF MostCounted, Weight, a, b, n
<1> HIDE DEF b
<1>7. Weight(MaxFlight) \in Nat /\ MaxUsed \in Nat
  BY TimeAssumption, WeightBounds
<1> QED
  BY <1>3, <1>4, <1>5, <1>6, <1>7 DEF n

LEMMA GroupCounts ==
    ASSUME TypeOK
    PROVE  /\ Group \in Scope /\ Group \in Groups /\ Global \in Groups
           /\ window[Group] \in Window /\ window[Group].count \in Nat
           /\ Held \in Nat /\ Held <= window[Group].count
<1>1. Group \in Scope /\ Group \in Groups /\ Global \in Groups
  BY DEF Scope, Groups
<1>2. window[Group] \in Window
  BY <1>1 DEF TypeOK
<1>3. window[Group].count \in Nat
  BY <1>2 DEF Window
<1> QED
  BY <1>1, <1>2, <1>3 DEF Held

\* A window that is opened or kept for a new request starts from what is held.
LEMMA CreatedHeld ==
    ASSUME IInv, CapInv
    PROVE  GetOrCreate(Group).count = Held
<1>1. window[Group] \in Window
  BY GroupCounts DEF IInv
<1>2. CASE Group \in known /\ ShouldReset(window[Group])
  BY <1>1, <1>2, RolledWindow DEF GetOrCreate, Held, Active
<1>3. CASE ~(Group \in known /\ ShouldReset(window[Group]))
  BY <1>3 DEF GetOrCreate, Held, Active, CapInv
<1> QED
  BY <1>2, <1>3

\* Where a recorded outcome goes.
LEMMA BookedWhere ==
    ASSUME TypeOK, CountsAdd, NEW m \in Model, NEW g \in Groups, NEW n \in Nat,
           NEW success \in BOOLEAN, NEW h \in Header, RecordUsage(m, g, n, success, h)
    PROVE  /\ window'[g] = Headed(Counted(GetOrCreate(g), n, success), h)
           /\ \A s \in Groups \ {g}: window'[s] = window[s]
           /\ known' = known \cup {m, g}
<1>1. m \notin Groups /\ g \in Scope /\ m \in Scope /\ window \in [Scope -> Window]
      /\ Groups \subseteq Scope
  BY ScopeAssumption DEF TypeOK, Scope
<1> DEFINE group == Counted(GetOrCreate(g), n, success)
           wm    == Headed(Timed(Counted(GetOrCreate(m), n, success), group), h)
           wg    == Headed(group, h)
<1>2. window' = [window EXCEPT ![g] = wg, ![m] = wm] /\ known' = known \cup {m, g}
  BY DEF RecordUsage
<1> HIDE DEF wm, wg
<1>3. window'[g] = wg /\ \A s \in Groups \ {g}: window'[s] = window[s]
  BY <1>1, <1>2
<1> QED
  BY <1>2, <1>3 DEF wg

\* An outcome of m is a success, or a failure, booked in a group.
LEMMA RecordedWhere ==
    ASSUME IInv, NEW m \in Model, Record(m)
    PROVE  \E n \in 0 .. MaxCount, g \in Groups, success \in BOOLEAN, h \in Header:
              RecordUsage(m, g, n, success, h)
<1>1. now + Duration \in Time /\ None \in Time
  BY TimeAssumption DEF IInv, TypeOK, Time
<1>2. NoHeader \in Header /\ [limit: Limits, reset: {now + Duration}] \subseteq Header
  BY <1>1 DEF NoHeader, Header
<1>3. Group \in Groups
  BY DEF Groups
<1>4. PICK n \in 0 .. MaxCount, S \in SUBSET Groups:
        \/ \E h \in {NoHeader} \cup [limit: Limits, reset: {now + Duration}]:
              Success(m, n, S, h)
        \/ \E g \in Groups: Failure(m, g, n, S)
  BY DEF Record
<1>5. CASE \E h \in {NoHeader} \cup [limit: Limits, reset: {now + Duration}]: Success(m, n, S, h)
  <2>1. PICK h \in {NoHeader} \cup [limit: Limits, reset: {now + Duration}]: Success(m, n, S, h)
    BY <1>5
  <2>2. h \in Header /\ RecordUsage(m, Group, n, TRUE, h)
    BY <1>2, <2>1 DEF Success
  <2> QED
    BY <1>3, <2>2
<1>6. CASE \E g \in Groups: Failure(m, g, n, S)
  <2>1. PICK g \in Groups: Failure(m, g, n, S)
    BY <1>6
  <2>2. RecordUsage(m, g, n, FALSE, NoHeader)
    BY <2>1 DEF Failure
  <2> QED
    BY <1>2, <2>2
<1> QED
  BY <1>4, <1>5, <1>6

\* The invariant after a step, from what the step leaves in the group's window.
LEMMA CapAfter ==
    ASSUME IInv', Group \notin known' => window'[Group].count = 0,
           NEW k \in Nat, Held' <= k,
           Group \in DOMAIN Cap =>
               /\ \E l \in Limits \cup {None}: window'[Group].count <= MostCounted(l)
               /\ \E l \in Limits \cup {None}: k + Weight(Total(flying', Model)) <= MostCounted(l)
    PROVE  CapInv'
<1>1. Held' \in Nat /\ Total(flying', Model) \in Nat
  <2>1. window'[Group].count \in Nat
    BY DEF IInv, TypeOK, Window, Scope, Groups
  <2>2. AllNat(flying', Model) /\ IsFiniteSet(Model)
    BY ScopeAssumption DEF IInv, TypeOK, AllNat
  <2>3. Total(flying', Model) \in Nat
    BY <2>2, TotalNat
  <2> QED
    BY <2>1, <2>3 DEF Held
<1>2. ASSUME Group \in DOMAIN Cap
      PROVE  /\ \E l \in Limits \cup {None}: window'[Group].count <= MostCounted(l)
             /\ \E l \in Limits \cup {None}: Held' + Weight(Total(flying', Model)) <= MostCounted(l)
  <2>1. PICK l \in Limits \cup {None}: k + Weight(Total(flying', Model)) <= MostCounted(l)
    BY <1>2
  <2>2. MostCounted(l) \in Nat
    BY <1>2, MostCountedBounds
  <2>3. Weight(Total(flying', Model)) \in Nat
    BY <1>1, WeightBounds
  <2>4. Held' + Weight(Total(flying', Model)) <= MostCounted(l)
    BY <1>1, <2>1, <2>2, <2>3
  <2> QED
    BY <1>2, <2>4
<1> QED
  BY <1>2 DEF CapInv, InFlight, MostCounted, Weight

LEMMA HeldUnchanged ==
    ASSUME TypeOK, window'[Group] = window[Group], mode' = mode, now' = now \/ now' = now + 1,
           Group \in known' => Group \in known
    PROVE  Held' <= Held
<1>1. now \in Nat /\ Held \in Nat /\ window[Group].count \in Nat
  BY GroupCounts DEF TypeOK
<1>2. window[Group].start \in Time /\ window[Group].reset \in Time
  BY GroupCounts DEF Window
<1>3. window[Group].start # None => NextReset(window[Group].start) \in Time
  BY <1>2, NextResetType DEF TypeOK, Time
<1>4. Active(Group)' => Active(Group)
  <2> DEFINE w == window[Group]
  <2>1. NextReset(w.start)' = NextReset(w.start)
    BY DEF NextReset
  <2>2. ShouldReset(w) => ShouldReset(w)'
    BY <1>1, <1>2, <1>3, <2>1 DEF ShouldReset, Time, None
  <2> QED
    BY <2>2 DEF Active
<1>5. Held' = Held \/ Held' = 0
  BY <1>4 DEF Held
<1> QED
  BY <1>1, <1>5

LEMMA CapRecorded ==
    ASSUME IInv, CapInv, FlightInv, NEW m \in Model, Record(m), [Next]_vars
    PROVE  CapInv'
<1>1. IInv'
  BY EveryStep
<1>2. PICK n \in 0 .. MaxCount, g \in Groups, success \in BOOLEAN, h \in Header:
        RecordUsage(m, g, n, success, h)
  BY RecordedWhere
<1>3. /\ window'[g] = Headed(Counted(GetOrCreate(g), n, success), h)
      /\ \A s \in Groups \ {g}: window'[s] = window[s]
      /\ known' = known \cup {m, g}
  BY <1>2, 0 .. MaxCount \subseteq Nat, BookedWhere DEF IInv
<1>4. /\ Held \in Nat /\ InFlight \in Nat /\ Total(flying', Model) \in Nat
      /\ Total(flying', Model) + 1 = InFlight
  <2>1. flying' = [flying EXCEPT ![m] = flying[m] - 1] /\ flying[m] > 0
    BY DEF Record, Success, Failure, Land
  <2>2. flying[m] \in Nat /\ flying[m] - 1 \in Nat
    BY <2>1 DEF IInv, TypeOK
  <2>3. /\ Total(flying', Model) \in Nat
        /\ Total(flying', Model) + flying[m] = Total(flying, Model) + (flying[m] - 1)
    BY <2>1, <2>2, FlightChanged DEF IInv
  <2>4. Held \in Nat /\ Total(flying, Model) \in Nat
    BY GroupCounts, InFlightBounds DEF IInv
  <2> QED
    BY <2>2, <2>3, <2>4 DEF InFlight
<1>5. /\ n \in Nat /\ n <= MaxCount /\ MaxCount \in Nat
      /\ Weight(Total(flying', Model)) \in Nat /\ Weight(InFlight) \in Nat
      /\ Weight(Total(flying', Model)) + MaxCount = Weight(InFlight)
  BY <1>4, TimeAssumption, WeightBounds
<1>6. CASE g = Group
  <2> DEFINE w == GetOrCreate(Group)
  <2>1. w \in Window /\ w.count = Held
    BY CreatedHeld, CreatedWindow, GroupCounts DEF IInv
  <2>2. Counted(w, n, success) \in Window /\ Counted(w, n, success).count = w.count + n
    BY <1>5, <2>1, CountedWindow DEF IInv
  <2>3. window'[Group].count = Held + n
    BY <1>3, <1>6, <2>1, <2>2, HeadedWindow
  <2>4. Held' <= Held + n
    BY <1>4, <1>5, <2>3 DEF Held
  <2>5. ASSUME Group \in DOMAIN Cap
        PROVE  /\ \E l \in Limits \cup {None}: window'[Group].count <= MostCounted(l)
               /\ \E l \in Limits \cup {None}:
                     (Held + n) + Weight(Total(flying', Model)) <= MostCounted(l)
    <3>1. PICK l \in Limits \cup {None}: Held + Weight(InFlight) <= MostCounted(l)
      BY <2>5 DEF CapInv
    <3>2. MostCounted(l) \in Nat
      BY <2>5, MostCountedBounds
    <3>3. Held + n <= MostCounted(l) /\ (Held + n) + Weight(Total(flying', Model)) <= MostCounted(l)
      BY <1>4, <1>5, <3>1, <3>2
    <3> QED
      BY <2>3, <3>3
  <2>6. Held + n \in Nat /\ Group \in known'
    BY <1>3, <1>4, <1>6, <1>5
  <2> QED
    BY <1>1, <2>4, <2>5, <2>6, CapAfter
<1>7. CASE g # Group
  <2>1. window'[Group] = window[Group] /\ (Group \in known' => Group \in known)
        /\ (Group \notin known' => Group \notin known)
    <3>1. Group \in Groups \ {g} /\ m # Group
      BY <1>7, ScopeAssumption DEF Groups
    <3> QED
      BY <1>3, <1>7, <3>1
  <2>2. mode' = mode /\ now' = now
    BY DEF Record, Success, Failure, Land
  <2>3. Held' <= Held
    BY <2>1, <2>2, HeldUnchanged DEF IInv
  <2>4. ASSUME Group \in DOMAIN Cap
        PROVE  \E l \in Limits \cup {None}: Held + Weight(Total(flying', Model)) <= MostCounted(l)
    <3>1. PICK l \in Limits \cup {None}: Held + Weight(InFlight) <= MostCounted(l)
      BY <2>4 DEF CapInv
    <3>2. MostCounted(l) \in Nat
      BY <2>4, MostCountedBounds
    <3>3. Held + Weight(Total(flying', Model)) <= MostCounted(l)
      BY <1>4, <1>5, <3>1, <3>2
    <3> QED
      BY <3>3
  <2> QED
    BY <1>1, <1>4, <2>1, <2>3, <2>4, CapAfter DEF CapInv
<1> QED
  BY <1>6, <1>7

LEMMA CapAdmitted ==
    ASSUME IInv, CapInv, FlightInv, NEW m \in Model, Admit(m), [Next]_vars
    PROVE  CapInv'
<1>1. IInv' /\ FlightInv'
  BY EveryStep, FlightStep
<1>2. window' = window /\ known' = known /\ now' = now /\ mode' = mode
  BY DEF Admit, books
<1>3. Held' <= Held /\ Held \in Nat /\ window[Group].count \in Nat
  BY <1>2, HeldUnchanged, GroupCounts DEF IInv
<1>4. Total(flying', Model) \in Nat /\ Total(flying', Model) <= MaxFlight /\ MaxFlight \in Nat
  <2>1. AllNat(flying', Model) /\ IsFiniteSet(Model)
    BY <1>1, ScopeAssumption DEF IInv, TypeOK, AllNat
  <2> QED
    BY <1>1, <2>1, TotalNat, TimeAssumption DEF FlightInv, InFlight
<1>5. /\ Weight(Total(flying', Model)) \in Nat /\ Weight(MaxFlight) \in Nat
      /\ Weight(Total(flying', Model)) <= Weight(MaxFlight)
  BY <1>4, WeightBounds
<1>6. ASSUME Group \in DOMAIN Cap
      PROVE  \E l \in Limits \cup {None}: Held + Weight(Total(flying', Model)) <= MostCounted(l)
  <2>1. ~CapReached(Group)
    BY DEF Admit, Allowed
  <2>2. window[Group].limit \in Limits \cup {None}
    BY GroupCounts DEF IInv, Window
  <2> DEFINE l == window[Group].limit
             n == MaxOf(Cap[Group], l)
  <2>3. /\ MostCounted(l) \in Nat /\ Weight(MaxFlight) <= MostCounted(l)
        /\ n \in Int /\ n - 1 + Weight(MaxFlight) <= MostCounted(l)
    BY <1>6, <2>2, MostCountedBounds
  <2>4. Held = 0 \/ Held < n
    <3>1. Active(Group) => ~(window[Group].count >= n)
      BY <1>6, <2>1 DEF CapReached
    <3> HIDE DEF n
    <3> QED
      BY <1>3, <2>3, <3>1 DEF Held
  <2> HIDE DEF n, l
  <2>5. Held + Weight(Total(flying', Model)) <= MostCounted(l)
    BY <1>3, <1>5, <2>3, <2>4
  <2> QED
    BY <2>2, <2>5 DEF l
<1> QED
  BY <1>1, <1>2, <1>3, <1>6, CapAfter DEF CapInv

\* The group's window after a baseline.
LEMMA AppliedWhere ==
    ASSUME IInv, Baseline
    PROVE  /\ \E a \in Answer: /\ window'[Group] = QuotaUpdated(GetOrCreate(Group), a)
                               /\ a.used \in 0 .. MaxUsed \cup {None}
           /\ window'[Global] = window[Global] /\ known' = known \cup {Group}
           /\ UNCHANGED <<now, mode, totals, rpd, flying, spent>>
<1>1. PICK a \in [used: 0 .. MaxUsed \cup {None}, reset: {None, now, now + 1},
                  limit: Limits \cup {None}, force: BOOLEAN, exhausted: BOOLEAN]: Apply(a)
  BY DEF Baseline
<1>2. a \in Answer /\ a.used \in 0 .. MaxUsed \cup {None}
  <2>1. 0 .. MaxUsed \cup {None} \subseteq Nat \cup {None}
    BY TimeAssumption
  <2>2. {None, now, now + 1} \subseteq Time
    BY DEF IInv, TypeOK, Time
  <2> QED
    BY <1>1, <2>1, <2>2 DEF Answer
<1>3. /\ Group \in Scope /\ Global \in Scope /\ Global # Group /\ Global \notin Model
  BY ScopeAssumption DEF Scope, Groups
<1>4. window'[Group] = QuotaUpdated(GetOrCreate(Group), a)
  BY <1>1, <1>3 DEF Apply
<1>5. window'[Global] = window[Global]
  BY <1>1, <1>3 DEF Apply
<1>6. known' = known \cup {Group} /\ UNCHANGED <<now, mode, totals, rpd, flying, spent>>
  BY <1>1 DEF Apply
<1> QED
  BY <1>2, <1>4, <1>5, <1>6

LEMMA CapApplied ==
    ASSUME IInv, CapInv, FlightInv, Baseline, [Next]_vars
    PROVE  CapInv'
<1>1. IInv'
  BY EveryStep
<1>2. /\ Held \in Nat /\ InFlight \in Nat /\ InFlight <= MaxFlight /\ MaxFlight \in Nat
      /\ MaxUsed \in Nat /\ Weight(InFlight) \in Nat /\ Weight(MaxFlight) \in Nat
      /\ Weight(InFlight) <= Weight(MaxFlight)
  BY GroupCounts, InFlightBounds, WeightBounds, TimeAssumption DEF IInv, FlightInv
<1>3. PICK a \in Answer: /\ window'[Group] = QuotaUpdated(GetOrCreate(Group), a)
                         /\ a.used \in 0 .. MaxUsed \cup {None}
  BY AppliedWhere
<1>4. Group \in known' /\ flying' = flying
  BY AppliedWhere
<1> DEFINE w == GetOrCreate(Group)
           k == window'[Group].count
<1>5. w \in Window /\ w.ok + w.bad = w.count /\ w.count = Held
  BY CreatedHeld, CreatedWindow, GroupCounts DEF IInv, Adds
<1>6. k = Held \/ (k = a.used /\ a.used \in Nat)
  <2> HIDE DEF w
  <2>1. QuotaUpdated(w, a).count = w.count \/ (QuotaUpdated(w, a).count = a.used /\ a.used \in Nat)
    BY <1>5, QuotaUpdatedWindow DEF IInv
  <2> QED
    BY <1>3, <1>5, <2>1 DEF w
<1>7. k = Held \/ (k \in Nat /\ k <= MaxUsed)
  BY <1>2, <1>3, <1>6 DEF None
<1>8. k \in Nat /\ Held' <= k
  <2>1. k \in Nat
    BY <1>2, <1>7
  <2> QED
    BY <2>1 DEF Held
<1>9. ASSUME Group \in DOMAIN Cap
      PROVE  \E l \in Limits \cup {None}:
                k <= MostCounted(l) /\ k + Weight(InFlight) <= MostCounted(l)
  <2>1. PICK l \in Limits \cup {None}: Held + Weight(InFlight) <= MostCounted(l)
    BY <1>9 DEF CapInv
  <2>2. MostCounted(l) \in Nat /\ MaxUsed + Weight(MaxFlight) <= MostCounted(l)
    BY <1>9, MostCountedBounds
  <2> HIDE DEF k
  <2>3. k + Weight(InFlight) <= MostCounted(l)
    BY <1>2, <1>7, <1>8, <2>1, <2>2
  <2> QED
    BY <1>2, <1>8, <2>2, <2>3
<1>10. Total(flying', Model) = InFlight
  BY <1>4 DEF InFlight
<1> QED
  BY <1>1, <1>4, <1>8, <1>9, <1>10, CapAfter

LEMMA CapOtherwise ==
    ASSUME IInv, CapInv, ClearCooldown \/ Tick \/ UNCHANGED vars, [Next]_vars
    PROVE  CapInv'
<1>1. IInv'
  BY EveryStep
<1>2. /\ window' = window /\ known' = known /\ mode' = mode /\ flying' = flying
      /\ now' = now \/ now' = now + 1
  BY DEF ClearCooldown, Tick, vars, books
<1>3. Held' <= Held /\ Held \in Nat
  BY <1>2, HeldUnchanged, GroupCounts DEF IInv
<1>4. Total(flying', Model) = InFlight
  BY <1>2 DEF InFlight
<1> QED
  BY <1>1, <1>2, <1>3, <1>4, CapAfter DEF CapInv

LEMMA CapInit == Init => CapInv
<1> SUFFICES ASSUME Init PROVE CapInv
  OBVIOUS
<1>1. FlightInv /\ TypeOK
  BY FlightInit, Initially DEF IInv
<1>2. window[Group].count = 0 /\ Held = 0
  BY <1>1, GroupCounts DEF Init, Blank, Held, Scope, Groups
<1>3. ASSUME Group \in DOMAIN Cap
      PROVE  Weight(MaxFlight) <= MostCounted(None) /\ MostCounted(None) \in Nat
  BY <1>3, MostCountedBounds
<1>4. InFlight \in Nat /\ InFlight <= MaxFlight /\ MaxFlight \in Nat
  BY <1>1, InFlightBounds, TimeAssumption DEF FlightInv
<1>5. Weight(InFlight) \in Nat /\ Weight(MaxFlight) \in Nat /\ Weight(InFlight) <= Weight(MaxFlight)
  BY <1>4, WeightBounds
<1> QED
  BY <1>2, <1>3, <1>5 DEF CapInv

LEMMA CapStep == IInv /\ FlightInv /\ CapInv /\ [Next]_vars => CapInv'
  BY CapAdmitted, CapRecorded, CapApplied, CapOtherwise DEF Next

\* The group's custom cap, as it is resolved and without the clamp that the
\* docs speak of, is passed only by what requests in flight together count as,
\* or by what the provider says has been used, for any cap of any mode, any
\* limits the provider reports, any numbers of requests that outcomes count as
\* and however the window rolls (CustomCapChecker.check, _resolve_max_requests).
THEOREM CapAlwaysKept == Spec => []CapKept
<1>1. Init => IInv /\ FlightInv /\ CapInv
  BY Initially, FlightInit, CapInit
<1>2. IInv /\ FlightInv /\ CapInv /\ [Next]_vars => (IInv /\ FlightInv /\ CapInv)'
  BY EveryStep, FlightStep, CapStep
<1>3. CapInv => CapKept
  BY DEF CapInv, CapKept
<1> QED
  BY <1>1, <1>2, <1>3, PTL DEF Spec
------------------------------------------------------------------------------------
(* The monthly budget.                                                     *)

\* What a group's window has cost since the month began.
Recent(g) == IF window[g].start >= MonthStart THEN window[g].cost ELSE 0

\* A window of a group that has begun began in the past and one that has not
\* has cost nothing, the credential's totals alike; what the windows that began
\* in this month have cost has been spent in it.
BudgetInv ==
    /\ \A g \in Groups: /\ window[g].start <= now
                        /\ window[g].start = None => window[g].cost = 0
    /\ totals.first <= now
    /\ totals.first = None => totals.cost = 0
    /\ Recent(Group) + Recent(Global) <= spent
    /\ totals.first >= MonthStart => totals.cost <= spent

LEMMA MonthBounds ==
    ASSUME TypeOK
    PROVE  now \in Nat /\ MonthStart \in Nat /\ MonthStart <= now
<1>1. now \in Nat
  BY DEF TypeOK
<1>2. now \div Month \in Nat /\ (now \div Month) * Month <= now
  BY <1>1, DivBounds, TimeAssumption
<1>3. (now \div Month) * Month \in Nat
  BY <1>2, TimeAssumption
<1> QED
  BY <1>1, <1>2, <1>3 DEF MonthStart

\* Time goes on within the month, or a month begins now.
LEMMA MonthTurns ==
    ASSUME TypeOK, now' = now + 1
    PROVE  \/ (now + 1) \div Month = now \div Month /\ MonthStart' = MonthStart
           \/ (now + 1) \div Month # now \div Month /\ MonthStart' = now + 1
<1> DEFINE p == now \div Month
           q == (now + 1) \div Month
<1>1. now \in Nat /\ now + 1 \in Nat /\ Month \in Nat \ {0}
  BY TimeAssumption DEF TypeOK
<1>2. /\ p \in Nat /\ p * Month <= now /\ now < p * Month + Month
      /\ q \in Nat /\ q * Month <= now + 1 /\ now + 1 < q * Month + Month
  BY <1>1, DivBounds
<1>3. p <= q
  BY <1>1, DivMonotonic
<1>4. MonthStart' = q * Month /\ MonthStart = p * Month
  BY DEF MonthStart
<1> HIDE DEF p, q
<1>5. ASSUME q # p PROVE q * Month = now + 1
  <2>1. p < q
    BY <1>2, <1>3, <1>5
  <2>2. p * Month + Month <= q * Month
    BY <1>1, <1>2, <2>1, Multiples
  <2>3. p * Month \in Nat /\ q * Month \in Nat
    BY <1>1, <1>2
  <2> QED
    BY <1>1, <1>2, <2>2, <2>3
<1> QED
  BY <1>4, <1>5 DEF p, q

LEMMA RecentTypes ==
    ASSUME TypeOK, NEW g \in Groups
    PROVE  /\ g \in Scope /\ window[g] \in Window /\ window[g].cost \in Nat
           /\ window[g].start \in Time /\ Recent(g) \in Nat
<1>1. g \in Scope /\ window[g] \in Window
  BY DEF TypeOK, Scope
<1>2. window[g].cost \in Nat /\ window[g].start \in Time
  BY <1>1 DEF Window
<1> QED
  BY <1>1, <1>2 DEF Recent

\* A sum without x.
LEMMA TotalWithout ==
    ASSUME NEW f, NEW S, IsFiniteSet(S), AllNat(f, S), NEW x
    PROVE  Total(f, S) = (IF x \in S THEN f[x] ELSE 0) + Total(f, S \ {x})
<1>1. CASE x \in S
  BY <1>1, TotalPart
<1>2. CASE x \notin S
  <2>1. S \ {x} = S /\ Total(f, S) \in Nat
    BY <1>2, TotalNat
  <2> QED
    BY <1>2, <2>1
<1> QED
  BY <1>1, <1>2

\* What is found to be spent is spent in the windows of the groups, but for
\* the windows of models that are added to them.
LEMMA SpendBound ==
    ASSUME TypeOK, BudgetInv
    PROVE  BudgetNeverEarly
<1> DEFINE cost  == [s \in Scope |-> window[s].cost]
           S     == {s \in (Groups \cup Unrelated) \cap known: window[s].start >= MonthStart}
           A     == {s \in Unrelated \cap known: window[s].start >= MonthStart}
           sum   == Total(cost, S)
           apart == Total(cost, A)
           part(g) == IF g \in S THEN cost[g] ELSE 0
<1>1. (S \ {Group}) \ {Global} = A /\ S \in SUBSET Scope
  <2>1. Unrelated \subseteq Model /\ Group \notin Model /\ Global \notin Model
    BY ScopeAssumption DEF Unrelated, Groups
  <2>2. ASSUME NEW s
        PROVE  s \in (S \ {Group}) \ {Global} <=> s \in A
    <3>1. s \in A => s \notin {Group, Global}
      BY <2>1
    <3>2. s \in A => s \in S
      OBVIOUS
    <3>3. s \in S /\ s \notin {Group, Global} => s \in A
      BY DEF Groups
    <3> HIDE DEF S, A
    <3> QED
      BY <3>1, <3>2, <3>3
  <2>3. (S \ {Group}) \ {Global} = A
    BY <2>2
  <2> QED
    BY <2>1, <2>3 DEF Scope
<1>2. IsFiniteSet(Scope) /\ AllNat(cost, Scope)
  <2>1. IsFiniteSet(Groups) /\ IsFiniteSet({Global})
    BY FS_EmptySet, FS_AddElement DEF Groups
  <2>2. IsFiniteSet(Scope)
    BY <2>1, ScopeAssumption, FS_Union DEF Scope
  <2>3. \A s \in Scope: window[s].cost \in Nat
    BY DEF TypeOK, Window
  <2> QED
    BY <2>2, <2>3 DEF AllNat
<1>3. part(Group) <= Recent(Group) /\ part(Global) <= Recent(Global)
  <2>1. ASSUME NEW g \in Groups PROVE part(g) <= Recent(g)
    <3>1. g \in Scope /\ window[g].cost \in Nat
      BY <1>2 DEF Scope, AllNat
    <3> QED
      BY <3>1 DEF Recent
  <2> QED
    BY <2>1 DEF Groups
<1>4. Spend = IF sum = 0 /\ totals.first >= MonthStart THEN totals.cost ELSE sum
  BY DEF Spend, CostSince
<1>5. CostSince(Unrelated, MonthStart) = apart
  BY DEF CostSince
<1> HIDE DEF cost, S, A
<1>6. /\ IsFiniteSet(S) /\ AllNat(cost, S)
      /\ IsFiniteSet(S \ {Group}) /\ AllNat(cost, S \ {Group})
  BY <1>1, <1>2, FS_Subset DEF AllNat
<1>7. sum = part(Group) + Total(cost, S \ {Group})
  BY <1>6, TotalWithout
<1>8. Total(cost, S \ {Group}) = (IF Global \in S \ {Group} THEN cost[Global] ELSE 0) + apart
  <2> DEFINE T == S \ {Group}
  <2>1. IsFiniteSet(T) /\ AllNat(cost, T)
    BY <1>6
  <2>2. T \ {Global} = A
    BY <1>1
  <2> HIDE DEF T
  <2>3. Total(cost, T) = (IF Global \in T THEN cost[Global] ELSE 0) + Total(cost, T \ {Global})
    BY <2>1, TotalWithout
  <2>4. Total(cost, T) = (IF Global \in T THEN cost[Global] ELSE 0) + apart
    BY <2>2, <2>3
  <2> QED
    BY <2>4 DEF T
<1>9. Total(cost, S \ {Group}) = part(Global) + apart
  <2>1. (Global \in S \ {Group}) = (Global \in S)
    BY ScopeAssumption
  <2>2. (IF Global \in S \ {Group} THEN cost[Global] ELSE 0) = part(Global)
    BY <2>1
  <2> QED
    BY <1>8, <2>2
<1>10. /\ part(Group) \in Nat /\ part(Global) \in Nat /\ apart \in Nat
       /\ Recent(Group) \in Nat /\ Recent(Global) \in Nat /\ spent \in Nat
       /\ Recent(Group) + Recent(Global) <= spent
  <2>1. part(Group) \in Nat /\ part(Global) \in Nat
    BY <1>6 DEF AllNat
  <2>2. apart \in Nat
    <3>1. A \in SUBSET Scope
      BY <1>1
    <3> QED
      BY <1>2, <3>1, TotalNat
  <2> QED
    BY <2>1, <2>2, RecentTypes DEF BudgetInv, TypeOK, Groups
<1> HIDE DEF part, sum, apart
<1>11. sum <= spent + apart
  BY <1>3, <1>7, <1>9, <1>10
<1>12. totals.first >= MonthStart => totals.cost <= spent /\ totals.cost \in Nat
  BY DEF BudgetInv, TypeOK
<1>13. Spend <= spent + apart
  BY <1>4, <1>10, <1>11, <1>12
<1> QED
  BY <1>5, <1>13 DEF BudgetNeverEarly

\* What opening or keeping a window leaves of its cost and its start.
LEMMA CreatedCost ==
    ASSUME IInv, BudgetInv, NEW g \in Groups
    PROVE  LET w == GetOrCreate(g)
           IN  /\ w \in Window /\ w.ok + w.bad = w.count
               /\ w.start <= now /\ (w.start = None => w.cost = 0)
               /\ \/ w.start = None
                  \/ w.start = window[g].start /\ w.cost = window[g].cost
<1>1. /\ g \in Scope /\ window[g] \in Window /\ window[g].start <= now
      /\ window[g].start = None => window[g].cost = 0
  BY RecentTypes DEF IInv, BudgetInv
<1>2. GetOrCreate(g) \in Window /\ GetOrCreate(g).ok + GetOrCreate(g).bad = GetOrCreate(g).count
  BY <1>1, CreatedWindow DEF IInv, Adds
<1>3. CASE g \in known /\ ShouldReset(window[g])
  <2>1. GetOrCreate(g).cost = 0 /\ GetOrCreate(g).start = None
    BY <1>1, <1>3, RolledWindow DEF GetOrCreate
  <2>2. None <= now
    BY DEF None, IInv, TypeOK
  <2> QED
    BY <1>2, <2>1, <2>2
<1>4. CASE ~(g \in known /\ ShouldReset(window[g]))
  <2>1. GetOrCreate(g) = window[g]
    BY <1>4 DEF GetOrCreate
  <2> QED
    BY <1>1, <1>2, <2>1
<1> QED
  BY <1>3, <1>4

\* The invariant for the window that g has after a step that adds d to its cost.
GroupAfter(g, d) ==
    /\ window'[g].start <= now'
    /\ window'[g].start = None => window'[g].cost = 0
    /\ Recent(g)' \in Nat /\ Recent(g)' <= Recent(g) + d

LEMMA SameAfter ==
    ASSUME IInv, BudgetInv, NEW g \in Groups, window'[g] = window[g], now' = now
    PROVE  GroupAfter(g, 0)
<1>1. Recent(g) \in Nat /\ Recent(g)' = Recent(g)
  BY RecentTypes DEF IInv, Recent, MonthStart
<1> QED
  BY <1>1 DEF GroupAfter, BudgetInv

LEMMA BookedAfter ==
    ASSUME IInv, BudgetInv, NEW m \in Model, NEW g \in Groups, NEW n \in Nat,
           NEW success \in BOOLEAN, NEW h \in Header, RecordUsage(m, g, n, success, h),
           now' = now
    PROVE  GroupAfter(g, Cost(n))
<1> DEFINE w == GetOrCreate(g)
           c == Counted(w, n, success)
<1>1. /\ w \in Window /\ w.start <= now /\ (w.start = None => w.cost = 0)
      /\ w.start = None \/ (w.start = window[g].start /\ w.cost = window[g].cost)
  BY CreatedCost
<1> HIDE DEF w
<1>2. /\ c \in Window /\ c.cost = w.cost + Cost(n)
      /\ c.start = IF w.start = None THEN now ELSE w.start
  BY <1>1, CountedWindow DEF IInv
<1>3. window'[g] = Headed(c, h)
  BY BookedWhere DEF IInv, w
<1> HIDE DEF c
<1>4. window'[g].cost = c.cost /\ window'[g].start = c.start
  BY <1>2, <1>3, HeadedWindow
<1>5. /\ now \in Nat /\ MonthStart \in Nat /\ MonthStart <= now /\ MonthStart' = MonthStart
      /\ Cost(n) \in Nat /\ w.cost \in Nat /\ w.start \in Time
      /\ window[g].cost \in Nat /\ window[g].start \in Time /\ Recent(g) \in Nat
  BY <1>1, MonthBounds, RecentTypes, CostType DEF IInv, MonthStart, Window
<1>6. Recent(g)' = IF c.start >= MonthStart THEN c.cost ELSE 0
  BY <1>4, <1>5 DEF Recent
<1>7. Recent(g)' \in Nat /\ Recent(g)' <= Recent(g) + Cost(n)
  <2>1. CASE w.start = None
    <3>1. Recent(g)' = Cost(n)
      BY <1>1, <1>2, <1>5, <1>6, <2>1
    <3> QED
      BY <1>5, <3>1
  <2>2. CASE w.start # None
    <3>1. c.start = window[g].start /\ c.cost = window[g].cost + Cost(n)
      BY <1>1, <1>2, <2>2
    <3>2. CASE window[g].start >= MonthStart
      <4>1. Recent(g)' = window[g].cost + Cost(n) /\ Recent(g) = window[g].cost
        BY <1>6, <3>1, <3>2 DEF Recent
      <4> QED
        BY <1>5, <4>1
    <3>3. CASE ~(window[g].start >= MonthStart)
      <4>1. Recent(g)' = 0
        BY <1>6, <3>1, <3>3
      <4> QED
        BY <1>5, <4>1
    <3> QED
      BY <3>2, <3>3
  <2> QED
    BY <2>1, <2>2
<1>8. window'[g].start <= now' /\ window'[g].start # None
  BY <1>1, <1>2, <1>4, <1>5 DEF None, Time
<1> QED
  BY <1>7, <1>8 DEF GroupAfter

LEMMA AppliedAfter ==
    ASSUME IInv, BudgetInv, Baseline
    PROVE  GroupAfter(Group, 0)
<1>1. PICK a \in Answer: window'[Group] = QuotaUpdated(GetOrCreate(Group), a)
  BY AppliedWhere
<1>2. now' = now
  BY AppliedWhere
<1> DEFINE w == GetOrCreate(Group)
           u == QuotaUpdated(w, a)
<1>3. /\ w \in Window /\ w.ok + w.bad = w.count /\ w.start <= now /\ (w.start = None => w.cost = 0)
      /\ w.start = None \/ (w.start = window[Group].start /\ w.cost = window[Group].cost)
      /\ Group \in Groups
  BY CreatedCost DEF Groups
<1> HIDE DEF w
<1>4. u.cost = w.cost /\ u.start \in {w.start, IF w.start = None THEN now ELSE w.start}
  BY <1>3, QuotaUpdatedWindow DEF IInv
<1>5. /\ now \in Nat /\ MonthStart \in Nat /\ MonthStart' = MonthStart
      /\ w.cost \in Nat /\ w.start \in Time /\ window[Group].cost \in Nat /\ Recent(Group) \in Nat
  BY <1>2, <1>3, MonthBounds, RecentTypes DEF IInv, MonthStart, Window
<1>6. window'[Group] = u
  BY <1>1 DEF w
<1> HIDE DEF u
<1>7. Recent(Group)' = IF u.start >= MonthStart THEN u.cost ELSE 0
  BY <1>5, <1>6 DEF Recent
<1>8. Recent(Group)' \in Nat /\ Recent(Group)' <= Recent(Group)
  <2>1. CASE w.start = None
    <3>1. Recent(Group)' = 0
      BY <1>3, <1>4, <1>7, <2>1
    <3> QED
      BY <1>5, <3>1
  <2>2. CASE w.start # None
    <3>1. u.start = window[Group].start /\ u.cost = window[Group].cost
      BY <1>3, <1>4, <2>2
    <3>2. Recent(Group)' = Recent(Group)
      BY <1>7, <3>1 DEF Recent
    <3> QED
      BY <1>5, <3>2
  <2> QED
    BY <2>1, <2>2
<1>9. window'[Group].start <= now' /\ (window'[Group].start = None => window'[Group].cost = 0)
  BY <1>2, <1>3, <1>4, <1>5, <1>6
<1> QED
  BY <1>5, <1>8, <1>9 DEF GroupAfter

LEMMA BudgetAfter ==
    ASSUME IInv, BudgetInv, MonthStart' = MonthStart, now' = now,
           NEW d \in Nat, spent' = spent + d,
           \/ GroupAfter(Group, d) /\ GroupAfter(Global, 0)
           \/ GroupAfter(Group, 0) /\ GroupAfter(Global, d),
           totals'.first <= now', totals'.first # None \/ totals' = totals,
           totals'.first >= MonthStart => totals'.cost <= spent'
    PROVE  BudgetInv'
<1>1. Recent(Group) \in Nat /\ Recent(Global) \in Nat /\ spent \in Nat
  BY RecentTypes DEF IInv, TypeOK, Groups
<1>2. /\ Recent(Group)' + Recent(Global)' <= spent'
      /\ \A g \in Groups: /\ window'[g].start <= now'
                          /\ window'[g].start = None => window'[g].cost = 0
  <2>1. Recent(Group)' + Recent(Global)' <= Recent(Group) + Recent(Global) + d
    BY <1>1 DEF GroupAfter
  <2>2. Recent(Group)' + Recent(Global)' <= spent'
    <3>1. Recent(Group)' \in Nat /\ Recent(Global)' \in Nat
      BY DEF GroupAfter
    <3>2. Recent(Group) + Recent(Global) <= spent
      BY DEF BudgetInv
    <3> QED
      BY <1>1, <2>1, <3>1, <3>2
  <2> QED
    BY <2>2 DEF GroupAfter, Groups
<1>3. totals'.first = None => totals'.cost = 0
  BY DEF BudgetInv
<1> QED
  BY <1>2, <1>3 DEF BudgetInv

LEMMA BudgetRecorded ==
    ASSUME IInv, BudgetInv, NEW m \in Model, Record(m)
    PROVE  BudgetInv'
<1>1. PICK n \in Nat, g \in Groups, success \in BOOLEAN, h \in Header:
        RecordUsage(m, g, n, success, h)
  BY RecordedWhere, 0 .. MaxCount \subseteq Nat
<1>2. now' = now /\ MonthStart' = MonthStart
  BY DEF Record, Success, Failure, Land, MonthStart
<1>3. GroupAfter(g, Cost(n))
  BY <1>1, <1>2, BookedAfter
<1>4. \A s \in Groups \ {g}: GroupAfter(s, 0)
  <2>1. \A s \in Groups \ {g}: window'[s] = window[s]
    BY <1>1, BookedWhere DEF IInv
  <2> QED
    BY <1>2, <2>1, SameAfter
<1>5. \/ GroupAfter(Group, Cost(n)) /\ GroupAfter(Global, 0)
      \/ GroupAfter(Group, 0) /\ GroupAfter(Global, Cost(n))
  BY <1>3, <1>4, ScopeAssumption DEF Groups
<1>6. /\ now \in Nat /\ spent \in Nat /\ Cost(n) \in Nat /\ MonthStart \in Nat
      /\ totals.first \in Time /\ totals.cost \in Nat
      /\ totals.first <= now /\ (totals.first = None => totals.cost = 0)
      /\ totals.first >= MonthStart => totals.cost <= spent
  BY MonthBounds, CostType DEF IInv, TypeOK, BudgetInv
<1>7. /\ spent' = spent + Cost(n)
      /\ totals'.cost = totals.cost + Cost(n)
      /\ totals'.first = IF totals.first = None THEN now ELSE totals.first
  BY <1>1 DEF RecordUsage
<1>8. /\ totals'.first <= now' /\ totals'.first # None
      /\ totals'.first >= MonthStart => totals'.cost <= spent'
  BY <1>2, <1>6, <1>7 DEF None, Time
<1> QED
  BY <1>2, <1>5, <1>6, <1>7, <1>8, BudgetAfter

LEMMA BudgetOtherwise ==
    ASSUME IInv, BudgetInv,
           (\E m \in Model: Admit(m)) \/ Baseline \/ ClearCooldown \/ UNCHANGED vars
    PROVE  BudgetInv'
<1>1. now' = now /\ MonthStart' = MonthStart /\ spent' = spent /\ totals' = totals
  BY DEF Admit, Baseline, Apply, ClearCooldown, MonthStart, vars, books
<1>2. GroupAfter(Group, 0) /\ GroupAfter(Global, 0)
  <2>1. Group \in Groups /\ Global \in Groups
    BY DEF Groups
  <2>2. CASE Baseline
    <3>1. window'[Global] = window[Global]
      BY <2>2, AppliedWhere
    <3> QED
      BY <1>1, <2>1, <2>2, <3>1, AppliedAfter, SameAfter
  <2>3. CASE ~Baseline
    <3>1. window' = window
      BY <2>3 DEF Admit, ClearCooldown, vars, books
    <3> QED
      BY <1>1, <2>1, <3>1, SameAfter
  <2> QED
    BY <2>2, <2>3
<1>3. spent' = spent + 0
  BY <1>1 DEF IInv, TypeOK
<1>4. totals'.first <= now' /\ (totals'.first >= MonthStart => totals'.cost <= spent')
  BY <1>1 DEF BudgetInv
<1> QED
  BY <1>1, <1>2, <1>3, <1>4, BudgetAfter

LEMMA BudgetTick ==
    ASSUME IInv, BudgetInv, Tick
    PROVE  BudgetInv'
<1>1. /\ now' = now + 1 /\ window' = window /\ totals' = totals
      /\ spent' = IF (now + 1) \div Month = now \div Month THEN spent ELSE 0
  BY DEF Tick, books
<1>2. now \in Nat /\ totals.first \in Time
  BY DEF IInv, TypeOK
<1>3. \A g \in Groups: /\ window'[g].start <= now'
                       /\ window'[g].start = None => window'[g].cost = 0
                       /\ window[g].start \in Time /\ window[g].start <= now
  BY <1>1, <1>2, RecentTypes DEF IInv, BudgetInv, Time, None
<1>4. totals'.first <= now' /\ (totals'.first = None => totals'.cost = 0)
  BY <1>1, <1>2 DEF BudgetInv, Time, None
<1>5. CASE (now + 1) \div Month = now \div Month /\ MonthStart' = MonthStart
  <2>1. Recent(Group)' = Recent(Group) /\ Recent(Global)' = Recent(Global) /\ spent' = spent
    BY <1>1, <1>5 DEF Recent
  <2> QED
    BY <1>1, <1>3, <1>4, <1>5, <2>1 DEF BudgetInv
<1>6. CASE (now + 1) \div Month # now \div Month /\ MonthStart' = now + 1
  <2>1. \A g \in Groups: Recent(g)' = 0
    BY <1>1, <1>2, <1>3, <1>6 DEF Recent, Time, None
  <2>2. Recent(Group)' = 0 /\ Recent(Global)' = 0 /\ spent' = 0
    BY <1>1, <1>6, <2>1 DEF Groups
  <2>3. ~(totals'.first >= MonthStart')
    BY <1>1, <1>2, <1>6 DEF BudgetInv, Time, None
  <2> QED
    BY <1>3, <1>4, <2>2, <2>3 DEF BudgetInv
<1> QED
  BY <1>1, <1>5, <1>6, MonthTurns DEF IInv

LEMMA BudgetInit == Init => BudgetInv
<1> SUFFICES ASSUME Init PROVE BudgetInv
  OBVIOUS
<1>1. TypeOK /\ now = 0 /\ spent = 0
  BY Initially DEF IInv, Init
<1>2. MonthStart \in Nat
  BY <1>1, MonthBounds
<1>3. \A g \in Groups: window[g] = Blank
  BY DEF Init, Scope
<1>4. \A g \in Groups: Recent(g) = 0 /\ window[g].start = None /\ window[g].cost = 0
  BY <1>2, <1>3 DEF Recent, Blank, None
<1>5. Group \in Groups /\ Global \in Groups
  BY DEF Groups
<1> QED
  BY <1>1, <1>2, <1>4, <1>5 DEF BudgetInv, Init, None

\* The monthly budget blocks only for what was really spent in the month, and
\* for what it takes twice, for any names of the models, any price, any length
\* of the month and of the windows (_get_current_period_spend).
THEOREM BudgetIsNeverEarly == Spec => []BudgetNeverEarly
<1>1. Init => IInv /\ BudgetInv
  BY Initially, BudgetInit
<1>2. IInv /\ BudgetInv /\ [Next]_vars => (IInv /\ BudgetInv)'
  BY EveryStep, BudgetRecorded, BudgetOtherwise, BudgetTick DEF Next
<1>3. IInv /\ BudgetInv => BudgetNeverEarly
  BY SpendBound DEF IInv
<1> QED
  BY <1>1, <1>2, <1>3, PTL DEF Spec
====================================================================================
