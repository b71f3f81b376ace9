-------------------------------- MODULE FairCycle --------------------------------
(***************************************************************************)
(* Fair cycle rotation: a credential that has spent its quota, or has been *)
(* put on a long cooldown, is skipped until its whole tier is spent.       *)
(*                                                                         *)
(* The module models FairCycleChecker (usage/limits/fair_cycle.py), the    *)
(* part of SelectionEngine.select that consults it and resets the cycle    *)
(* (usage/selection/engine.py), and what TrackingEngine and UsageManager   *)
(* write into the FairCycleState of a credential when a request ends or a  *)
(* quota baseline arrives.  One provider, whose requests all ask for the   *)
(* same quota group; no hot reload.  What a provider's hook may add to an  *)
(* outcome (other counts, a cooldown, a mark) is left out.                 *)
(*                                                                         *)
(* Nothing keeps the quota threshold of a credential above 0.  Where it is *)
(* not, a check marks a credential as soon as it has a FairCycleState, and *)
(* select may call itself until the interpreter stops it: see Overflow.    *)
(***************************************************************************)
EXTENDS Integers, FiniteSets

CONSTANTS
    Request,           \* client requests
    Credential,        \* the provider's credentials
    Tier,              \* CredentialState.priority
    CrossTier,         \* fair_cycle.cross_tier
    MaxConcurrent,     \* hard ceiling per credential, <= 0 for unlimited
    Limit,             \* quota limit of the primary window, 0 if unknown
    ThresholdNum,      \* fair_cycle.quota_threshold,
    ThresholdDen,      \*   as a fraction
    PerCredential,     \* fair_cycle.tracking_mode is CREDENTIAL
    Duration,          \* fair_cycle.duration
    ShortCooldown,     \* fair_cycle.reset_cooldown_threshold
    LongCooldown,      \* exhaustion_cooldown_threshold
    CooldownSpan,      \* cooldown lengths an error or a baseline may cause
    OutageSpan,        \* cooldown lengths of an authentication error
    MaxTime            \* bound: the clock stops here

\* int(limit * quota_threshold), which rounds down what is not negative
Threshold(c) == (Limit[c] * ThresholdNum) \div ThresholdDen

ASSUME PoolAssumption ==
    /\ Tier \in [Credential -> Int]
    /\ MaxConcurrent \in [Credential -> Int]
    /\ CrossTier \in BOOLEAN
    /\ IsFiniteSet(Request)

ASSUME QuotaAssumption ==
    /\ Limit \in [Credential -> Nat]
    /\ ThresholdNum \in Nat
    /\ ThresholdDen \in Nat \ {0}
    /\ PerCredential \in BOOLEAN

ASSUME TimingAssumption ==
    /\ Duration \in Nat \ {0}
    /\ ShortCooldown \in Nat
    /\ LongCooldown \in Nat
    /\ CooldownSpan \subseteq Nat \ {0} /\ OutageSpan \subseteq Nat \ {0}
    /\ MaxTime \in Nat

None == "none"
NoCycle == -1

VARIABLES
    now,       \* time.time(), in whole units
    fc,        \* the fair cycle's books: see Books
    cooldown,  \* until of the quota group's cooldown
    outage,    \* until of the "_global_" cooldown
    pc,        \* where each request stands
    tried,     \* RetryState.tried_credentials
    lease      \* the credential a request holds, or has yet to account for

request   == <<pc, tried, lease>>
cooldowns == <<cooldown, outage>>
vars      == <<now, fc, cooldowns, request>>

\* The credentials that have a FairCycleState for the key, their exhausted and
\* cycle_request_count, and cycle_start of the key's GlobalFairCycleState,
\* NoCycle before that exists.
Books == [tracked   : SUBSET Credential,
          exhausted : [Credential -> BOOLEAN],
          requests  : [Credential -> Nat],
          start     : Nat \cup {NoCycle}]

TypeOK ==
    /\ now \in Nat
    /\ fc \in Books
    /\ cooldown \in [Credential -> Nat] /\ outage \in [Credential -> Nat]
    /\ pc \in [Request -> {"idle", "select", "running", "record", "done"}]
    /\ tried \in [Request -> SUBSET Credential]
    /\ lease \in [Request -> Credential \cup {None}]

Init ==
    /\ now = 0
    /\ fc = [tracked   |-> {},
             exhausted |-> [c \in Credential |-> FALSE],
             requests  |-> [c \in Credential |-> 0],
             start     |-> NoCycle]
    /\ cooldown = [c \in Credential |-> 0] /\ outage = [c \in Credential |-> 0]
    /\ pc = [r \in Request |-> "idle"]
    /\ tried = [r \in Request |-> {}]
    /\ lease = [r \in Request |-> None]
------------------------------------------------------------------------------------
(* FairCycleChecker.check, after the checkers that come before it.  b are  *)
(* the books it reads, S the candidates.                                   *)

Running(c) == {r \in Request : pc[r] = "running" /\ lease[r] = c}

AtCapacity(c) ==
    MaxConcurrent[c] > 0 /\ Cardinality(Running(c)) >= MaxConcurrent[c]

CoolingDown(c) == cooldown[c] > now \/ outage[c] > now

\* The concurrency and cooldown checkers let the credential through.
Reached(S) == {c \in S : ~AtCapacity(c) /\ ~CoolingDown(c)}

QuotaReachedLate(b, c) == \* mutant
    c \in b.tracked /\ Limit[c] > 0 /\ b.requests[c] > Threshold(c)
QuotaReached(b, c) ==
    c \in b.tracked /\ Limit[c] > 0 /\ b.requests[c] >= Threshold(c)

Expired(b) == b.start # NoCycle /\ now >= b.start + Duration

\* What checking the candidates leaves behind: it marks those that reached
\* their quota, and looks up the global state, creating it, when it meets an
\* exhausted one.
Checked(b, S) ==
    LET exhausted == [c \in Credential |->
            b.exhausted[c] \/ (c \in Reached(S) /\ QuotaReached(b, c))]
    IN  [tracked   |-> b.tracked,
         exhausted |-> exhausted,
         requests  |-> b.requests,
         start     |-> IF b.start = NoCycle /\ \E c \in Reached(S) : exhausted[c]
                       THEN now ELSE b.start]

\* The candidates check_all lets through, and those the fair cycle blocks,
\* for books already checked.
Open(b, S)    == {c \in Reached(S) : ~b.exhausted[c] \/ Expired(b)}
Blocked(b, S) == {c \in Reached(S) : b.exhausted[c] /\ ~Expired(b)}
------------------------------------------------------------------------------------
(* SelectionEngine._try_fair_cycle_reset.                                  *)

\* The groups of candidates that are reset together.
Groups(S) ==
    IF CrossTier THEN {S} ELSE {{c \in S : Tier[c] = t} : t \in {Tier[c] : c \in S}}

AnyExhausted(b, T) == \E c \in T : b.exhausted[c] \* mutant
AllExhausted(b, T) == \A c \in T : b.exhausted[c]

HasStaleCooldown(T) == \* mutant
    \E c \in T : \E until \in {cooldown[c], outage[c]} \ {0} : until - now < ShortCooldown
HasShortCooldown(T) ==
    \E c \in T : \E until \in {cooldown[c], outage[c]} :
        until > now /\ until - now < ShortCooldown

\* The groups _try_fair_cycle_reset resets when select finds nothing open.
ToReset(b, S) ==
    IF Open(b, S) = {} /\ Blocked(b, S) # {}
    THEN {T \in Groups(S) : AllExhausted(b, T) /\ ~HasShortCooldown(T)}
    ELSE {}

ResetKeepsCount(b, T) == \* mutant
    [b EXCEPT !.exhausted = [c \in Credential |-> @[c] /\ c \notin T],
              !.start = now]
ResetTakesQuota(b, T) == \* mutant
    [b EXCEPT !.exhausted = [c \in Credential |-> @[c] /\ c \notin T],
              !.requests = [c \in Credential |->
                               IF c \in T THEN @[c] - Threshold(c) ELSE @[c]],
              !.start = now]
\* FairCycleChecker.reset_cycle, for all the groups in turn.
Reset(b, T) ==
    [tracked   |-> b.tracked,
     exhausted |-> [c \in Credential |-> b.exhausted[c] /\ c \notin T],
     requests  |-> [c \in Credential |-> IF c \in T THEN 0 ELSE b.requests[c]],
     start     |-> now]

\* The books after one turn of select: a turn that resets calls select again,
\* which checks again.  What that second turn would reset, every further one
\* would, and leave the same books.
Turned(b, S) ==
    LET first == Checked(b, S)
        reset == ToReset(first, S)
    IN  IF reset = {} THEN first ELSE Checked(Reset(first, UNION reset), S)
------------------------------------------------------------------------------------
Arrive(r) ==
    /\ pc[r] = "idle"
    /\ pc' = [pc EXCEPT ![r] = "select"]
    /\ UNCHANGED <<now, fc, cooldowns, tried, lease>>

\* The executor passes the credentials it has not tried.
Untried(r) == Credential \ tried[r]

\* select() finds a credential, and acquire_credential counts the request in.
Grant(r) ==
    /\ pc[r] = "select"
    /\ Untried(r) # {}
    /\ fc' = Turned(fc, Untried(r))
    /\ \E c \in Open(fc', Untried(r)) :
          /\ lease' = [lease EXCEPT ![r] = c]
          /\ tried' = [tried EXCEPT ![r] = @ \cup {c}]
    /\ pc' = [pc EXCEPT ![r] = "running"]
    /\ UNCHANGED <<now, cooldowns>>

\* select() finds nothing; the request waits and asks again later.
Refuse(r) ==
    /\ pc[r] = "select"
    /\ Untried(r) # {}
    /\ fc' = Turned(fc, Untried(r))
    /\ Open(fc', Untried(r)) = {} /\ ToReset(fc', Untried(r)) = {}
    /\ UNCHANGED <<now, cooldowns, request>>

\* The executor returns or raises, and its locals go out of scope.
EndRequest(r) ==
    /\ pc' = [pc EXCEPT ![r] = "done"]
    /\ tried' = [tried EXCEPT ![r] = {}]

\* select() calls itself until a RecursionError ends the request, at any point
\* of checking or resetting the same groups once more.
Overflow(r) ==
    /\ pc[r] = "select"
    /\ Untried(r) # {}
    /\ LET turned == Turned(fc, Untried(r))
           again  == UNION ToReset(turned, Untried(r))
       IN  /\ again # {}
           /\ \E marked \in SUBSET again :
                 fc' = [turned EXCEPT !.exhausted =
                           [c \in Credential |-> IF c \in again THEN c \in marked ELSE @[c]]]
    /\ EndRequest(r)
    /\ UNCHANGED <<now, cooldowns, lease>>

\* Deadline, fail-fast or nothing left to try.
GiveUp(r) ==
    /\ pc[r] = "select"
    /\ EndRequest(r)
    /\ UNCHANGED <<now, fc, cooldowns, lease>>

\* CredentialContext.__aexit__ releases first and records afterwards.
Release(r) ==
    /\ pc[r] = "running"
    /\ pc' = [pc EXCEPT ![r] = "record"]
    /\ UNCHANGED <<now, fc, cooldowns, tried, lease>>
------------------------------------------------------------------------------------
(* TrackingEngine.                                                         *)

LaterOf(s, t) == IF s >= t THEN s ELSE t

\* record_usage, of an outcome that counts as n requests.
Counted(b, c, n) == [b EXCEPT !.tracked = @ \cup {c}, !.requests[c] = @ + n]

\* _mark_exhausted
Marked(b, c) == [b EXCEPT !.tracked = @ \cup {c}, !.exhausted[c] = TRUE]

\* _apply_cooldown: one of its scope, until, is never shortened, and one that
\* is now long enough exhausts.
CooledDown(until, span) == LaterOf(until, now + span)
AfterCooldown(b, c, until) == IF until - now >= LongCooldown THEN Marked(b, c) ELSE b

\* The executor ends the request or rotates to another credential.
Rotate(r) ==
    /\ pc' = [pc EXCEPT ![r] = "select"]
    /\ UNCHANGED tried

EndOrRotate(r) == EndRequest(r) \/ Rotate(r)

Finish(r) ==
    /\ pc[r] = "record"
    /\ lease' = [lease EXCEPT ![r] = None]
    /\ UNCHANGED now

RecordSuccess(r) ==
    /\ Finish(r)
    /\ EndRequest(r)
    /\ fc' = Counted(fc, lease[r], 1)
    /\ UNCHANGED cooldowns

\* A server or connection error: request_count is 0 and there is no cooldown.
RecordTransient(r) ==
    /\ Finish(r)
    /\ EndOrRotate(r)
    /\ fc' = Counted(fc, lease[r], 0)
    /\ UNCHANGED cooldowns

\* A rate limit or quota error with a cooldown for the key.
RecordLimited(r) ==
    /\ Finish(r)
    /\ EndOrRotate(r)
    /\ \E span \in CooldownSpan :
          cooldown' = [cooldown EXCEPT ![lease[r]] = CooledDown(@, span)]
    /\ fc' = AfterCooldown(Counted(fc, lease[r], 1), lease[r], cooldown'[lease[r]])
    /\ UNCHANGED outage

\* An authentication error: usage and cooldown go to the "_global_" key, whose
\* books are the ones consulted only if there is one key per credential.
RecordAuthFailure(r) ==
    /\ Finish(r)
    /\ EndOrRotate(r)
    /\ \E span \in OutageSpan :
          outage' = [outage EXCEPT ![lease[r]] = CooledDown(@, span)]
    /\ fc' = IF PerCredential
             THEN AfterCooldown(Counted(fc, lease[r], 1), lease[r], outage'[lease[r]])
             ELSE fc
    /\ UNCHANGED cooldown
------------------------------------------------------------------------------------
(* UsageManager.update_quota_baseline.                                     *)

\* The window shows no requests: stale exhaustion is cleared.
BaselineFresh(c) ==
    /\ fc.exhausted[c]
    /\ fc' = [fc EXCEPT !.exhausted[c] = FALSE, !.requests[c] = 0]
    /\ UNCHANGED <<now, cooldowns, request>>

\* The provider reports no quota until a reset time.
BaselineExhausted(c) ==
    /\ \E span \in CooldownSpan :
          cooldown' = [cooldown EXCEPT ![c] = CooledDown(@, span)]
    /\ fc' = AfterCooldown(fc, c, cooldown'[c])
    /\ UNCHANGED <<now, outage, request>>

Tick ==
    /\ now < MaxTime
    /\ now' = now + 1
    /\ UNCHANGED <<fc, cooldowns, request>>

Step(r) ==
    \/ Arrive(r) \/ Grant(r) \/ Refuse(r) \/ Overflow(r) \/ GiveUp(r) \/ Release(r)
    \/ RecordSuccess(r) \/ RecordTransient(r)
    \/ RecordLimited(r) \/ RecordAuthFailure(r)

Next ==
    \/ \E r \in Request : Step(r)
    \/ \E c \in Credential : BaselineFresh(c) \/ BaselineExhausted(c)
    \/ Tick

Spec == Init /\ [][Next]_vars
====================================================================================
