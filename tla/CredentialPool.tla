------------------------------ MODULE CredentialPool ------------------------------
(***************************************************************************)
(* Requests competing for the credentials of one provider.                 *)
(*                                                                         *)
(* The module models UsageManager.acquire_credential and the               *)
(* CredentialContext it returns (usage/manager.py), the capacity and       *)
(* cooldown filters of SelectionEngine.select (usage/selection/engine.py)  *)
(* and the rotation loop of the executor around them (client/executor.py): *)
(* a request acquires a credential it has not tried yet, calls the         *)
(* provider, gives the credential back, has the outcome recorded and       *)
(* either ends or rotates to the next credential.  One provider, one model *)
(* and one quota group; the remaining limit checkers (custom caps, fair    *)
(* cycle, budgets) are modelled elsewhere or left out, see README.md.      *)
(*                                                                         *)
(* All of this runs on one asyncio event loop, so an action is the code    *)
(* between two suspension points.  What a CredentialState object holds is  *)
(* kept per object, <<credential, generation>>: removing a credential and  *)
(* initializing again creates a new object under the same stable id, and   *)
(* requests may still hold references to the old one.                      *)
(***************************************************************************)
EXTENDS Integers, FiniteSets

CONSTANTS
    Request,           \* client requests
    Credential,        \* stable ids of the credentials configured at start
    MaxConcurrent,     \* hard ceiling per credential, <= 0 for unlimited
    OptimalConcurrent, \* soft target per credential, <= 0 for none
    Budget,            \* seconds from a request's arrival to its deadline
    Recheck,           \* longest wait on a condition (1 s in the code)
    CooldownSpan,      \* cooldown lengths a failed request may cause
    ReAdd,             \* credentials a hot reload may register again
    MaxReload,         \* bound: how often a credential is registered again
    MaxTime            \* bound: the clock stops here

ASSUME ConcurrencyAssumption ==
    /\ MaxConcurrent \in [Credential -> Int]
    /\ OptimalConcurrent \in [Credential -> Int]

ASSUME TimingAssumption ==
    /\ Budget \in Nat \ {0}
    /\ Recheck \in Nat \ {0}
    /\ MaxTime \in Nat
    /\ CooldownSpan \subseteq Nat \ {0}

ASSUME ReloadAssumption ==
    /\ ReAdd \subseteq Credential
    /\ MaxReload \in Nat

ASSUME FiniteAssumption ==
    /\ IsFiniteSet(Request)
    /\ IsFiniteSet(Credential)

None == "none"
ASSUME NoneAssumption == None \notin Credential

VARIABLES
    now,         \* time.time(), in whole seconds
    registered,  \* keys of UsageManager._states
    generation,  \* which object _states holds for a key, or held last
    active,      \* CredentialState.active_requests, per object
    cooldown,    \* until of the cooldown that applies, per object
    pc,          \* where each request stands
    deadline,    \* RequestContext.deadline
    tried,       \* RetryState.tried_credentials
    snapshot,    \* states_to_check: the objects an acquire looks at
    lease,       \* credential of the request's CredentialContext
    waitsOn,     \* best_wait_id: whose condition the request waits on
    wakeAt,      \* when its wait or sleep times out
    outcome      \* how the provider call ended

pool    == <<registered, generation, active, cooldown>>
acquire == <<snapshot, waitsOn, wakeAt>>
request == <<pc, deadline, tried, acquire, lease, outcome>>
vars    == <<now, pool, request>>

Generation == 0 .. MaxReload
Object     == Credential \X Generation

\* The CredentialState object _states[c] refers to.
Current(c) == <<c, generation[c]>>

Acquiring == {"evaluate", "queued", "waiting", "sleeping"}
Ended     == {"done", "failed", "error"}
Place     == {"idle", "select", "running", "notify", "record"}
                \cup Acquiring \cup Ended

\* How a provider call ends: for good (a response, an error that must not
\* rotate, the client gone), or in an error after which the executor turns to
\* another credential.  span is the cooldown the error causes, 0 for none.
Outcome == [final : {TRUE}, span : {0}]
              \cup [final : {FALSE}, span : {0} \cup CooldownSpan]
NoOutcome == [final |-> TRUE, span |-> 0]

TypeOK ==
    /\ now \in Nat
    /\ registered \in SUBSET Credential
    /\ generation \in [Credential -> Generation]
    /\ active \in [Object -> Nat]
    /\ cooldown \in [Object -> Nat]
    /\ pc \in [Request -> Place]
    /\ deadline \in [Request -> Nat]
    /\ tried \in [Request -> SUBSET Credential]
    /\ snapshot \in [Request -> SUBSET Object]
    /\ lease \in [Request -> Credential \cup {None}]
    /\ waitsOn \in [Request -> Credential \cup {None}]
    /\ wakeAt \in [Request -> Nat]
    /\ outcome \in [Request -> Outcome]

Init ==
    /\ now = 0
    /\ registered = Credential
    /\ generation = [c \in Credential |-> 0]
    /\ active = [o \in Object |-> 0]
    /\ cooldown = [o \in Object |-> 0]
    /\ pc = [r \in Request |-> "idle"]
    /\ deadline = [r \in Request |-> 0]
    /\ tried = [r \in Request |-> {}]
    /\ snapshot = [r \in Request |-> {}]
    /\ lease = [r \in Request |-> None]
    /\ waitsOn = [r \in Request |-> None]
    /\ wakeAt = [r \in Request |-> 0]
    /\ outcome = [r \in Request |-> NoOutcome]
------------------------------------------------------------------------------------
(* What select() and the wait logic see of an object.                      *)

AtCapacityLate(o) == MaxConcurrent[o[1]] > 0 /\ active[o] > MaxConcurrent[o[1]] \* mutant
AtCapacity(o) == MaxConcurrent[o[1]] > 0 /\ active[o] >= MaxConcurrent[o[1]]

\* LimitEngine.check_all, for the concurrency and cooldown checkers.
Allowed(o) == ~AtCapacity(o) /\ cooldown[o] <= now

BelowOptimal(o) ==
    OptimalConcurrent[o[1]] > 0 /\ active[o] < OptimalConcurrent[o[1]]

Available(r) == {o \in snapshot[r] : Allowed(o)}

\* The rotation strategy picks one of these: below_optimal or available.
Selectable(r) ==
    IF \E o \in Available(r) : BelowOptimal(o)
    THEN {o \in Available(r) : BelowOptimal(o)}
    ELSE Available(r)

BusyLate(r) == {o \in snapshot[r] : AtCapacityLate(o)} \* mutant
Busy(r) == {o \in snapshot[r] : AtCapacity(o)}

CoolingDown(r) == {o \in snapshot[r] : cooldown[o] > now}

InTime(r) == now < deadline[r]

\* select() returned nothing, or a stable id whose current object is full.
NothingAdmitted(r) ==
    \/ Available(r) = {}
    \/ \E o \in Selectable(r) : o[1] \in registered /\ AtCapacity(Current(o[1]))

Goto(r, place) == pc' = [pc EXCEPT ![r] = place]
------------------------------------------------------------------------------------
(* The executor's loop.                                                    *)

\* The executor returns or raises, and its locals go out of scope.
EndRequest(r, place) ==
    /\ Goto(r, place)
    /\ deadline' = [deadline EXCEPT ![r] = 0]
    /\ tried' = [tried EXCEPT ![r] = {}]

Arrive(r) ==
    /\ pc[r] = "idle"
    /\ now + Budget <= MaxTime
    /\ Goto(r, "select")
    /\ deadline' = [deadline EXCEPT ![r] = now + Budget]
    /\ UNCHANGED <<now, pool, tried, acquire, lease, outcome>>

UntriedIgnored(r) == registered \* mutant
\* The candidates the executor passes, as far as the pool knows them.
Untried(r) == registered \ tried[r]

\* One turn of the loop: leave it when the deadline has passed or nothing is
\* untried, else call acquire_credential, which takes its snapshot first.
BeginAcquire(r) ==
    /\ pc[r] = "select"
    /\ InTime(r)
    /\ Credential \ tried[r] # {}
    /\ snapshot' = [snapshot EXCEPT ![r] = {Current(c) : c \in Untried(r)}]
    /\ Goto(r, "evaluate")
    /\ UNCHANGED <<now, pool, deadline, tried, waitsOn, wakeAt, lease, outcome>>

GiveUp(r) ==
    /\ pc[r] = "select"
    /\ ~InTime(r) \/ Credential \ tried[r] = {}
    /\ EndRequest(r, "failed")
    /\ UNCHANGED <<now, pool, acquire, lease, outcome>>
------------------------------------------------------------------------------------
(* One turn of the loop of acquire_credential.                             *)

\* The call returns or raises, and its locals go out of scope.
LeaveAcquire(r) ==
    /\ snapshot' = [snapshot EXCEPT ![r] = {}]
    /\ waitsOn' = [waitsOn EXCEPT ![r] = None]
    /\ wakeAt' = [wakeAt EXCEPT ![r] = 0]

\* Selection and increment are one step: nothing suspends between them.
Admit(r) ==
    /\ pc[r] = "evaluate"
    /\ InTime(r)
    /\ \E c \in {o[1] : o \in Selectable(r)} \cap registered :
          /\ ~AtCapacity(Current(c))
          /\ active' = [active EXCEPT ![Current(c)] = @ + 1]
          /\ lease' = [lease EXCEPT ![r] = c]
          /\ tried' = [tried EXCEPT ![r] = @ \cup {c}]
    /\ Goto(r, "running")
    /\ LeaveAcquire(r)
    /\ UNCHANGED <<now, registered, generation, cooldown, deadline, outcome>>

\* self._states[stable_id] raises KeyError for a credential removed since
\* the snapshot: the selected one, or the one to wait on.
SelectRemoved(r) ==
    /\ pc[r] = "evaluate"
    /\ InTime(r)
    /\ \/ \E o \in Selectable(r) : o[1] \notin registered
       \/ NothingAdmitted(r) /\ \E o \in Busy(r) : o[1] \notin registered
    /\ EndRequest(r, "error")
    /\ LeaveAcquire(r)
    /\ UNCHANGED <<now, pool, lease, outcome>>

\* Some credential is full: line up to wait on the condition of one of them.
ChooseWait(r) ==
    /\ pc[r] = "evaluate"
    /\ InTime(r)
    /\ NothingAdmitted(r)
    /\ \E o \in Busy(r) :
          /\ o[1] \in registered
          /\ waitsOn' = [waitsOn EXCEPT ![r] = o[1]]
    /\ Goto(r, "queued")
    /\ UNCHANGED <<now, pool, deadline, tried, snapshot, wakeAt, lease, outcome>>

\* None is full and the soonest cooldown ends in time: sleep until then.
SleepCooldown(r) ==
    /\ pc[r] = "evaluate"
    /\ InTime(r)
    /\ NothingAdmitted(r)
    /\ Busy(r) = {}
    /\ \E t \in {cooldown[o] : o \in CoolingDown(r)} :
          /\ \A o \in CoolingDown(r) : t <= cooldown[o]
          /\ t <= deadline[r]
          /\ wakeAt' = [wakeAt EXCEPT ![r] = t]
    /\ Goto(r, "sleeping")
    /\ UNCHANGED <<now, pool, deadline, tried, snapshot, waitsOn, lease, outcome>>

\* Nothing to wait for within the deadline, or the deadline has passed:
\* NoAvailableKeysError, which ends the executor's loop as well.
NoAvailableKeys(r) ==
    /\ pc[r] = "evaluate"
    /\ \/ ~InTime(r)
       \/ /\ NothingAdmitted(r)
          /\ Busy(r) = {}
          /\ \A o \in CoolingDown(r) : cooldown[o] > deadline[r]
    /\ EndRequest(r, "failed")
    /\ LeaveAcquire(r)
    /\ UNCHANGED <<now, pool, lease, outcome>>
------------------------------------------------------------------------------------
(* Waiting.                                                                *)

WaitForever(r) == MaxTime + 1 \* mutant
WaitEnd(r) == IF now + Recheck < deadline[r] THEN now + Recheck ELSE deadline[r]

\* The request holds the condition's lock.  A notification sent since
\* ChooseWait is lost to it, which is why the wait is bounded by Recheck.
EnterWait(r) ==
    /\ pc[r] = "queued"
    /\ InTime(r)
    /\ Goto(r, "waiting")
    /\ wakeAt' = [wakeAt EXCEPT ![r] = WaitEnd(r)]
    /\ UNCHANGED <<now, pool, deadline, tried, snapshot, waitsOn, lease, outcome>>

\* The deadline passed while the request queued for the lock.
QueuedTooLong(r) ==
    /\ pc[r] = "queued"
    /\ ~InTime(r)
    /\ EndRequest(r, "failed")
    /\ LeaveAcquire(r)
    /\ UNCHANGED <<now, pool, lease, outcome>>

\* asyncio.TimeoutError of the bounded wait, or the end of the sleep.
Wake(r) ==
    /\ pc[r] \in {"waiting", "sleeping"}
    /\ wakeAt[r] <= now
    /\ Goto(r, "evaluate")
    /\ waitsOn' = [waitsOn EXCEPT ![r] = None]
    /\ wakeAt' = [wakeAt EXCEPT ![r] = 0]
    /\ UNCHANGED <<now, pool, deadline, tried, snapshot, lease, outcome>>

\* The client goes away while the request is suspended without a credential.
Cancel(r) ==
    /\ pc[r] \in {"select", "queued", "waiting", "sleeping"}
    /\ EndRequest(r, "done")
    /\ LeaveAcquire(r)
    /\ UNCHANGED <<now, pool, lease, outcome>>
------------------------------------------------------------------------------------
(* CredentialContext.__aexit__: release, notify, record, in this order.    *)

ReleasedBelowZero(n) == n - 1 \* mutant
ReleasedNever(n) == n \* mutant
\* max(0, active_requests - 1)
Released(n) == IF n > 0 THEN n - 1 ELSE 0

\* The provider call ends, in whatever way, and the context is left.  The
\* release finds the state by stable id and stops short if it is gone.
Release(r) ==
    /\ pc[r] = "running"
    /\ \E x \in Outcome : outcome' = [outcome EXCEPT ![r] = x]
    /\ IF lease[r] \in registered
       THEN /\ active' = [active EXCEPT ![Current(lease[r])] = Released(@)]
            /\ Goto(r, "notify")
       ELSE /\ Goto(r, "record")
            /\ UNCHANGED active
    /\ UNCHANGED <<now, registered, generation, cooldown>>
    /\ UNCHANGED <<deadline, tried, acquire, lease>>

Waiters(c) == {q \in Request : pc[q] = "waiting" /\ waitsOn[q] = c}

\* condition.notify_all(): every request waiting on the credential wakes.
Notify(r) ==
    /\ pc[r] = "notify"
    /\ pc' = [q \in Request |->
          IF q = r THEN "record"
          ELSE IF q \in Waiters(lease[r]) THEN "evaluate" ELSE pc[q]]
    /\ waitsOn' = [q \in Request |-> IF q \in Waiters(lease[r]) THEN None ELSE waitsOn[q]]
    /\ wakeAt' = [q \in Request |-> IF q \in Waiters(lease[r]) THEN 0 ELSE wakeAt[q]]
    /\ UNCHANGED <<now, pool, deadline, tried, snapshot, lease, outcome>>

\* _handle_request_complete: the outcome reaches the state that the id names
\* by now, if there is one.  An active cooldown is never shortened.
Record(r) ==
    /\ pc[r] = "record"
    /\ LET o     == Current(lease[r])
           until == now + outcome[r].span
       IN IF lease[r] \in registered /\ outcome[r].span > 0 /\ until > cooldown[o]
          THEN cooldown' = [cooldown EXCEPT ![o] = until]
          ELSE UNCHANGED cooldown
    /\ IF outcome[r].final
       THEN EndRequest(r, "done")
       ELSE Goto(r, "select") /\ UNCHANGED <<deadline, tried>>
    /\ lease' = [lease EXCEPT ![r] = None]
    /\ outcome' = [outcome EXCEPT ![r] = NoOutcome]
    /\ UNCHANGED <<now, registered, generation, active, acquire>>
------------------------------------------------------------------------------------
(* Administration of the running proxy, and the clock.                     *)

RemoveCredential(c) ==
    /\ c \in registered
    /\ registered' = registered \ {c}
    /\ UNCHANGED <<now, generation, active, cooldown, request>>

\* initialize() on a running manager: a missing id gets a fresh object.
ReInitialize(c) ==
    /\ c \in ReAdd \ registered
    /\ generation[c] < MaxReload
    /\ registered' = registered \cup {c}
    /\ generation' = [generation EXCEPT ![c] = @ + 1]
    /\ UNCHANGED <<now, active, cooldown, request>>

Tick ==
    /\ now < MaxTime
    /\ now' = now + 1
    /\ UNCHANGED <<pool, request>>

Evaluate(r) ==
    Admit(r) \/ SelectRemoved(r) \/ ChooseWait(r) \/ SleepCooldown(r) \/ NoAvailableKeys(r)

Leave(r) == Release(r) \/ Notify(r) \/ Record(r)

Step(r) ==
    \/ BeginAcquire(r) \/ GiveUp(r) \/ Evaluate(r) \/ Leave(r)
    \/ EnterWait(r) \/ QueuedTooLong(r) \/ Wake(r)

Next ==
    \/ \E r \in Request : Arrive(r) \/ Step(r) \/ Cancel(r)
    \/ \E c \in Credential : RemoveCredential(c) \/ ReInitialize(c)
    \/ Tick

Spec == Init /\ [][Next]_vars

\* The event loop runs what is ready, the clock advances, and provider calls
\* end because the HTTP client bounds them.  Clients and operators owe nothing.
Fairness ==
    /\ \A r \in Request : WF_vars(Step(r))
    /\ WF_vars(Tick)

FairSpec == Spec /\ Fairness
====================================================================================
