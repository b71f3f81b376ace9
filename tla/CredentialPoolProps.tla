---------------------------- MODULE CredentialPoolProps ----------------------------
(* What CredentialPool must guarantee.                                     *)
EXTENDS CredentialPool

Holders(c) == {r \in Request : pc[r] = "running" /\ lease[r] = c}

\* README.md calls MAX_CONCURRENT_REQUESTS_PER_KEY a hard ceiling: no
\* credential with a positive max_concurrent ever serves more requests at
\* once, however acquires, releases, cancellations and waits interleave.
HardCeiling ==
    \A c \in Credential :
        MaxConcurrent[c] > 0 => Cardinality(Holders(c)) <= MaxConcurrent[c]

\* The active_requests counter of a registered credential is the number of
\* requests that hold it: no path through success, failure, cancellation or
\* rotation leaks a slot or gives one back twice.
SlotsAccounted ==
    \A c \in registered : active[Current(c)] = Cardinality(Holders(c))

\* acquire_credential fails before the deadline ("failing fast") only when
\* waiting would be in vain: every untried credential that is still
\* registered is cooling down beyond the request's deadline.
FailFastIsSound ==
    [][\A r \in Request :
          pc[r] = "evaluate" /\ pc'[r] = "failed" /\ InTime(r) =>
              \A c \in registered \ tried[r] : cooldown[Current(c)] > deadline[r]]_vars

\* No slot is lost for good: the counter of a registered credential is never
\* above the number of requests that hold it.
NoSlotLeaked ==
    \A c \in registered : active[Current(c)] <= Cardinality(Holders(c))

\* Removing a credential and registering it again, as an OAuth re-login does,
\* while requests of the old object are still running loses no slot, and the
\* new counter misses at most one full ceiling for every such reload, however
\* the late releases of old holders and new admissions interleave.
SlotsAfterReload ==
    /\ NoSlotLeaked
    /\ \A c \in registered : MaxConcurrent[c] > 0 =>
          Cardinality(Holders(c)) <= active[Current(c)] + MaxConcurrent[c] * generation[c]

\* So HardCeiling, which a reload breaks, fails by a bounded amount: after n
\* reloads a credential serves at most n + 1 times its ceiling.
CeilingPerReload ==
    \A c \in Credential : MaxConcurrent[c] > 0 =>
        Cardinality(Holders(c)) <= MaxConcurrent[c] * (generation[c] + 1)

\* The inductive invariant behind HardCeiling: a request is admitted against
\* the counter, so the ceiling needs the counter to be exact.
PoolInv == TypeOK /\ SlotsAccounted /\ HardCeiling

\* Objects that no initialize() has created yet are as it will create them.
FreshObjects ==
    \A c \in Credential, g \in Generation : g > generation[c] => active[<<c, g>>] = 0

\* The inductive invariant behind NoSlotLeaked.
ReloadInv == TypeOK /\ NoSlotLeaked /\ FreshObjects

\* What a reload starts from: no counter is above its ceiling, and what the
\* counter misses, all of it once the credential is gone, is bounded.
ReloadCeiling ==
    \A c \in Credential : MaxConcurrent[c] > 0 =>
        /\ active[Current(c)] <= MaxConcurrent[c]
        /\ Cardinality(Holders(c)) <=
              (IF c \in registered THEN active[Current(c)] ELSE MaxConcurrent[c])
                  + MaxConcurrent[c] * generation[c]

\* The inductive invariant behind SlotsAfterReload and CeilingPerReload.
ReloadCeilingInv == ReloadInv /\ ReloadCeiling

\* A request that arrived ends: nobody waits for a slot, a notification or a
\* cooldown forever, whatever notifications are lost to late waiters and
\* whatever credentials are removed meanwhile.
RequestsEnd == \A r \in Request : pc[r] = "select" ~> pc[r] \in Ended

\* The half of it that is an invariant: no wait outlasts the request's deadline,
\* and one for a slot is over after Recheck even if every notification is lost.
WaitsEndInTime ==
    \A r \in Request :
        /\ pc[r] \in {"waiting", "sleeping"} => wakeAt[r] <= deadline[r]
        /\ pc[r] = "waiting" => wakeAt[r] <= now + Recheck

\* The pool as a client of LeasePool sees it.
Leasing == INSTANCE LeasePool WITH
    leased <- [c \in Credential |-> Holders(c)],
    used <- tried

\* What FailFastIsSound rests on: an acquire under way looks at every untried
\* credential that is still registered, and at nothing but current objects.
SnapshotInv ==
    \A r \in Request :
        /\ pc[r] \in Acquiring => \A c \in registered \ tried[r] : Current(c) \in snapshot[r]
        /\ \A o \in snapshot[r] : o = Current(o[1])

\* What the refinement rests on besides PoolInv: a request sees no credential
\* it has tried, and one that calls the provider holds a credential.
LeasingInv ==
    /\ PoolInv
    /\ \A r \in Request : \A o \in snapshot[r] : o[1] \notin tried[r]
    /\ \A r \in Request : pc[r] = "running" => lease[r] \in Credential

\* acquire_credential, the release and the executor's tried_credentials
\* implement the lease pool: while no credential is registered anew, every
\* admission is a grant within the ceiling to a request that holds nothing
\* and has not had that credential before.
ImplementsLeasing == Leasing!Spec
====================================================================================
