--------------------------- MODULE CredentialPool_proofs ---------------------------
(***************************************************************************)
(* Theorems about CredentialPool for every value of its constants.         *)
(***************************************************************************)
EXTENDS CredentialPoolProps, FiniteSetTheorems, TLAPS

LEMMA CurrentType ==
    ASSUME generation \in [Credential -> Generation], NEW c \in Credential
    PROVE  Current(c) \in Object
BY DEF Current, Object

LEMMA NowPlusBudget ==
    ASSUME now \in Nat
    PROVE  now + Budget \in Nat /\ now + Recheck \in Nat /\ now + 1 \in Nat
BY TimingAssumption

LEMMA OutcomeSpan ==
    ASSUME NEW x \in Outcome
    PROVE  x.span \in Nat
<1>1. CASE x \in [final : {TRUE}, span : {0}]
    <2>1. x.span \in {0}
        BY <1>1, Zenon
    <2> QED BY <2>1
<1>2. CASE x \in [final : {FALSE}, span : {0} \cup CooldownSpan]
    <2>1. x.span \in {0} \cup CooldownSpan
        BY <1>2, Zenon
    <2>2. \A t \in {0} \cup CooldownSpan : t \in Nat
        BY TimingAssumption
    <2> QED BY <2>1, <2>2, Zenon
<1> QED BY <1>1, <1>2 DEF Outcome

\* Every step of every action keeps the variables in their types.
LEMMA TypeStep == TypeOK /\ [Next]_vars => TypeOK'
<1> SUFFICES ASSUME TypeOK, [Next]_vars PROVE TypeOK'
    OBVIOUS
<1> USE DEF TypeOK, pool, acquire, request
<1>1. ASSUME NEW r \in Request, Arrive(r) PROVE TypeOK'
    BY <1>1, NowPlusBudget DEF Arrive, Goto, Place
<1>2. ASSUME NEW r \in Request, BeginAcquire(r) PROVE TypeOK'
    <2>1. {Current(c) : c \in Untried(r)} \in SUBSET Object
        BY CurrentType DEF Untried
    <2> QED BY <1>2, <2>1 DEF BeginAcquire, Goto, Place, Acquiring
<1>3. ASSUME NEW r \in Request, GiveUp(r) PROVE TypeOK'
    BY <1>3 DEF GiveUp, EndRequest, Goto, Place, Ended
<1>4. ASSUME NEW r \in Request, Admit(r) PROVE TypeOK'
    <2>1. PICK c \in registered :
              /\ active' = [active EXCEPT ![Current(c)] = @ + 1]
              /\ lease' = [lease EXCEPT ![r] = c]
              /\ tried' = [tried EXCEPT ![r] = @ \cup {c}]
        BY <1>4 DEF Admit
    <2>2. Current(c) \in Object
        BY <2>1, CurrentType
    <2>3. active' \in [Object -> Nat]
        BY <2>1, <2>2
    <2> QED BY <1>4, <2>1, <2>3 DEF Admit, LeaveAcquire, Goto, Place
<1>5. ASSUME NEW r \in Request, SelectRemoved(r) PROVE TypeOK'
    BY <1>5 DEF SelectRemoved, EndRequest, LeaveAcquire, Goto, Place, Ended
<1>6. ASSUME NEW r \in Request, ChooseWait(r) PROVE TypeOK'
    BY <1>6 DEF ChooseWait, Goto, Place, Acquiring
<1>7. ASSUME NEW r \in Request, SleepCooldown(r) PROVE TypeOK'
    <2>1. PICK o \in CoolingDown(r) : wakeAt' = [wakeAt EXCEPT ![r] = cooldown[o]]
        BY <1>7 DEF SleepCooldown
    <2>2. cooldown[o] \in Nat
        BY <2>1 DEF CoolingDown
    <2> QED BY <1>7, <2>1, <2>2 DEF SleepCooldown, Goto, Place, Acquiring
<1>8. ASSUME NEW r \in Request, NoAvailableKeys(r) PROVE TypeOK'
    BY <1>8 DEF NoAvailableKeys, EndRequest, LeaveAcquire, Goto, Place, Ended
<1>9. ASSUME NEW r \in Request, EnterWait(r) PROVE TypeOK'
    <2>1. WaitEnd(r) \in Nat
        BY NowPlusBudget DEF WaitEnd
    <2> QED BY <1>9, <2>1 DEF EnterWait, Goto, Place, Acquiring
<1>10. ASSUME NEW r \in Request, QueuedTooLong(r) PROVE TypeOK'
    BY <1>10 DEF QueuedTooLong, EndRequest, LeaveAcquire, Goto, Place, Ended
<1>11. ASSUME NEW r \in Request, Wake(r) PROVE TypeOK'
    BY <1>11 DEF Wake, Goto, Place, Acquiring
<1>12. ASSUME NEW r \in Request, Cancel(r) PROVE TypeOK'
    BY <1>12 DEF Cancel, EndRequest, LeaveAcquire, Goto, Place, Ended
<1>13. ASSUME NEW r \in Request, Release(r) PROVE TypeOK'
    <2>1. active' \in [Object -> Nat]
        BY <1>13, CurrentType DEF Release, Released
    <2> QED BY <1>13, <2>1 DEF Release, Goto, Place
<1>14. ASSUME NEW r \in Request, Notify(r) PROVE TypeOK'
    BY <1>14 DEF Notify, Place, Acquiring
<1>15. ASSUME NEW r \in Request, Record(r) PROVE TypeOK'
    <2>0. now + outcome[r].span \in Nat
        <3>1. outcome[r] \in Outcome
            OBVIOUS
        <3>2. outcome[r].span \in Nat
            BY <3>1, OutcomeSpan
        <3> QED BY <3>2
    <2>1. cooldown' \in [Object -> Nat]
        BY <1>15, <2>0, CurrentType DEF Record
    <2>2. NoOutcome \in Outcome
        BY DEF NoOutcome, Outcome
    <2> QED BY <1>15, <2>1, <2>2 DEF Record, EndRequest, Goto, Place, Ended
<1>16. ASSUME NEW c \in Credential, RemoveCredential(c) PROVE TypeOK'
    BY <1>16 DEF RemoveCredential
<1>17. ASSUME NEW c \in Credential, ReInitialize(c) PROVE TypeOK'
    <2>1. generation[c] + 1 \in Generation
        BY <1>17, ReloadAssumption DEF ReInitialize, Generation
    <2> QED BY <1>17, <2>1 DEF ReInitialize
<1>18. ASSUME Tick PROVE TypeOK'
    BY <1>18, NowPlusBudget DEF Tick
<1>19. ASSUME UNCHANGED vars PROVE TypeOK'
    BY <1>19 DEF vars
<1> QED
    BY <1>1, <1>2, <1>3, <1>4, <1>5, <1>6, <1>7, <1>8, <1>9, <1>10, <1>11, <1>12,
       <1>13, <1>14, <1>15, <1>16, <1>17, <1>18, <1>19
       DEF Next, Step, Evaluate, Leave

LEMMA TypeInit == Init => TypeOK
BY ReloadAssumption
   DEF Init, TypeOK, Generation, Object, Place, Outcome, NoOutcome

\* Every variable of the pool keeps its type, whatever credentials are removed
\* or registered again.
THEOREM TypeCorrect == Spec => []TypeOK
BY TypeInit, TypeStep, PTL DEF Spec
------------------------------------------------------------------------------------
(* What each action does to the sets of holders.                           *)

LEMMA HoldersFinite ==
    ASSUME NEW c \in Credential
    PROVE  IsFiniteSet(Holders(c)) /\ Cardinality(Holders(c)) \in Nat
<1>1. Holders(c) \in SUBSET Request
    BY DEF Holders
<1>2. IsFiniteSet(Holders(c))
    BY <1>1, FiniteAssumption, FS_Subset
<1> QED BY <1>2, FS_CardinalityType

\* An admission adds the request to the holders of one credential, which is
\* registered and has room, and counts it there.
LEMMA AdmitHolders ==
    ASSUME TypeOK, NEW r \in Request, Admit(r)
    PROVE  \E c \in registered :
              /\ ~AtCapacity(Current(c))
              /\ active' = [active EXCEPT ![Current(c)] = @ + 1]
              /\ tried' = [tried EXCEPT ![r] = @ \cup {c}]
              /\ c \in {o[1] : o \in Selectable(r)}
              /\ r \notin Holders(c)
              /\ Holders(c)' = Holders(c) \cup {r}
              /\ \A d \in Credential \ {c} : Holders(d)' = Holders(d)
<1>1. PICK c \in {o[1] : o \in Selectable(r)} \cap registered :
          /\ ~AtCapacity(Current(c))
          /\ active' = [active EXCEPT ![Current(c)] = @ + 1]
          /\ lease' = [lease EXCEPT ![r] = c]
          /\ tried' = [tried EXCEPT ![r] = @ \cup {c}]
    BY DEF Admit
<1>2. pc[r] = "evaluate" /\ pc' = [pc EXCEPT ![r] = "running"]
    BY DEF Admit, Goto
<1>3. r \notin Holders(c)
    BY <1>2 DEF Holders
<1>4. Holders(c)' = Holders(c) \cup {r}
    BY <1>1, <1>2 DEF Holders, TypeOK
<1>5. \A d \in Credential \ {c} : Holders(d)' = Holders(d)
    BY <1>1, <1>2 DEF Holders, TypeOK
<1> QED BY <1>1, <1>3, <1>4, <1>5

\* A release takes the request from the holders of its credential only.
LEMMA ReleaseHolders ==
    ASSUME TypeOK, NEW r \in Request, Release(r), NEW c, c = lease[r]
    PROVE  /\ r \in Holders(c)
           /\ Holders(c)' = Holders(c) \ {r}
           /\ \A d \in Credential \ {c} : Holders(d)' = Holders(d)
<1>1. pc[r] = "running" /\ lease' = lease
    BY DEF Release
<1>2. pc' \in {[pc EXCEPT ![r] = "notify"], [pc EXCEPT ![r] = "record"]}
    BY DEF Release, Goto
<1>3. r \in Holders(c)
    BY <1>1 DEF Holders
<1>4. Holders(c)' = Holders(c) \ {r}
    BY <1>1, <1>2 DEF Holders, TypeOK
<1>5. \A d \in Credential \ {c} : Holders(d)' = Holders(d)
    BY <1>1, <1>2 DEF Holders, TypeOK
<1> QED BY <1>3, <1>4, <1>5

\* The steps of a request that neither admit it nor release its credential.
Idle(r) ==
    \/ Arrive(r) \/ BeginAcquire(r) \/ GiveUp(r) \/ SelectRemoved(r) \/ ChooseWait(r)
    \/ SleepCooldown(r) \/ NoAvailableKeys(r) \/ EnterWait(r) \/ QueuedTooLong(r)
    \/ Wake(r) \/ Notify(r) \/ Record(r) \/ Cancel(r)

LEMMA IdleHolders ==
    ASSUME TypeOK, NEW r \in Request, Idle(r)
    PROVE  /\ UNCHANGED <<registered, generation, active>>
           /\ \A c \in Credential : Holders(c)' = Holders(c)
<1>1. UNCHANGED <<registered, generation, active>>
    BY DEF Idle, Arrive, BeginAcquire, GiveUp, SelectRemoved, ChooseWait, SleepCooldown,
       NoAvailableKeys, EnterWait, QueuedTooLong, Wake, Notify, Record, Cancel, pool
<1>2. pc[r] # "running"
    BY DEF Idle, Arrive, BeginAcquire, GiveUp, SelectRemoved, ChooseWait, SleepCooldown,
       NoAvailableKeys, EnterWait, QueuedTooLong, Wake, Notify, Record, Cancel
<1>3. CASE Notify(r)
    <2>1. \A q \in Request : pc'[q] = "running" <=> pc[q] = "running"
        BY <1>3 DEF Notify, Waiters
    <2> QED BY <1>1, <2>1, <1>3 DEF Notify, Holders
<1>4. CASE Record(r)
    <2>1. /\ \E p \in Place \ {"running"} : pc' = [pc EXCEPT ![r] = p]
          /\ lease' = [lease EXCEPT ![r] = None]
        BY <1>4 DEF Record, EndRequest, Goto, Place, Ended
    <2> QED BY <1>1, <1>2, <2>1 DEF Holders, TypeOK
<1>5. CASE Idle(r) /\ ~Notify(r) /\ ~Record(r)
    <2>1. /\ \E p \in Place \ {"running"} : pc' = [pc EXCEPT ![r] = p]
          /\ lease' = lease
        BY <1>5 DEF Idle, Arrive, BeginAcquire, GiveUp, SelectRemoved, ChooseWait,
           SleepCooldown, NoAvailableKeys, EnterWait, QueuedTooLong, Wake, Cancel,
           EndRequest, LeaveAcquire, Goto, Place, Acquiring, Ended, acquire
    <2> QED BY <1>1, <1>2, <2>1 DEF Holders, TypeOK
<1> QED BY <1>3, <1>4, <1>5

LEMMA StillHolders ==
    ASSUME UNCHANGED request
    PROVE  \A c \in Credential : Holders(c)' = Holders(c)
BY DEF request, Holders

\* The steps of the system, by what they do to the holders.
LEMMA NextCases ==
    ASSUME [Next]_vars
    PROVE  \/ \E r \in Request : Admit(r) \/ Release(r) \/ Idle(r)
           \/ \E c \in Credential : RemoveCredential(c) \/ ReInitialize(c)
           \/ UNCHANGED <<registered, generation, active, request>>
BY DEF Next, Step, Evaluate, Leave, Idle, Tick, vars, pool
------------------------------------------------------------------------------------
(* The ceiling, while no credential is registered anew.                    *)

LEMMA PoolInvInit == Init => PoolInv
<1> SUFFICES ASSUME Init PROVE PoolInv
    OBVIOUS
<1>1. TypeOK
    BY TypeInit
<1>2. \A c \in Credential : Holders(c) = {}
    BY DEF Init, Holders
<1>3. SlotsAccounted
    BY <1>1, <1>2, CurrentType, FS_EmptySet DEF SlotsAccounted, Init, TypeOK
<1>4. HardCeiling
    BY <1>2, FS_EmptySet, ConcurrencyAssumption DEF HardCeiling
<1> QED BY <1>1, <1>3, <1>4 DEF PoolInv

LEMMA PoolInvAdmit ==
    ASSUME PoolInv, NEW r \in Request, Admit(r)
    PROVE  SlotsAccounted' /\ HardCeiling'
<1> USE DEF PoolInv
<1>1. PICK c \in registered :
          /\ ~AtCapacity(Current(c))
          /\ active' = [active EXCEPT ![Current(c)] = @ + 1]
          /\ r \notin Holders(c)
          /\ Holders(c)' = Holders(c) \cup {r}
          /\ \A d \in Credential \ {c} : Holders(d)' = Holders(d)
    BY AdmitHolders
<1>2. c \in Credential /\ Current(c) \in Object
    BY <1>1, CurrentType DEF TypeOK
<1>3. UNCHANGED <<registered, generation>>
    BY DEF Admit
<1>4. Cardinality(Holders(c)') = Cardinality(Holders(c)) + 1
    BY <1>1, <1>2, HoldersFinite, FS_AddElement
<1>5. active[Current(c)] = Cardinality(Holders(c))
    BY <1>1 DEF SlotsAccounted
<1>6. SlotsAccounted'
    <2> SUFFICES ASSUME NEW d \in registered'
                 PROVE  active'[Current(d)'] = Cardinality(Holders(d)')
        BY DEF SlotsAccounted
    <2>1. d \in registered /\ d \in Credential /\ Current(d)' = Current(d)
        BY <1>3 DEF Current, TypeOK
    <2>2. CASE d = c
        BY <1>1, <1>2, <1>4, <1>5, <2>1, <2>2 DEF TypeOK
    <2>3. CASE d # c
        <3>1. Current(d) # Current(c)
            BY <2>3 DEF Current
        <3>2. active'[Current(d)] = active[Current(d)]
            BY <1>1, <2>1, <3>1, CurrentType DEF TypeOK
        <3> QED BY <1>1, <2>1, <2>3, <3>2 DEF SlotsAccounted
    <2> QED BY <2>2, <2>3
<1>7. HardCeiling'
    <2> SUFFICES ASSUME NEW d \in Credential, MaxConcurrent[d] > 0
                 PROVE  Cardinality(Holders(d)') <= MaxConcurrent[d]
        BY DEF HardCeiling
    <2>1. CASE d = c
        <3>1. active[Current(c)] < MaxConcurrent[c]
            BY <1>1, <1>2, <2>1, ConcurrencyAssumption DEF AtCapacity, Current, TypeOK
        <3> QED BY <1>2, <1>4, <1>5, <2>1, <3>1, HoldersFinite, ConcurrencyAssumption
    <2>2. CASE d # c
        BY <1>1, <2>2 DEF HardCeiling
    <2> QED BY <2>1, <2>2
<1> QED BY <1>6, <1>7

LEMMA PoolInvRelease ==
    ASSUME PoolInv, NEW r \in Request, Release(r)
    PROVE  SlotsAccounted' /\ HardCeiling'
<1> USE DEF PoolInv
<1>0. PICK c : c = lease[r]
    OBVIOUS
<1>1. /\ r \in Holders(c)
      /\ Holders(c)' = Holders(c) \ {r}
      /\ \A d \in Credential \ {c} : Holders(d)' = Holders(d)
    BY <1>0, ReleaseHolders
<1>2. UNCHANGED <<registered, generation>>
    BY DEF Release
<1>3. ASSUME c \in Credential
      PROVE  /\ Cardinality(Holders(c)') = Cardinality(Holders(c)) - 1
             /\ Cardinality(Holders(c)') \in Nat
    <2>1. IsFiniteSet(Holders(c)) /\ Cardinality(Holders(c)) \in Nat
        BY <1>3, HoldersFinite
    <2>2. Cardinality(Holders(c) \ {r}) = Cardinality(Holders(c)) - 1
        BY <1>1, <2>1, FS_RemoveElement
    <2>3. IsFiniteSet(Holders(c) \ {r})
        BY <2>1, FS_RemoveElement
    <2> QED BY <1>1, <2>2, <2>3, FS_CardinalityType
<1>4. SlotsAccounted'
    <2> SUFFICES ASSUME NEW d \in registered'
                 PROVE  active'[Current(d)'] = Cardinality(Holders(d)')
        BY DEF SlotsAccounted
    <2>1. d \in registered /\ d \in Credential /\ Current(d)' = Current(d)
        BY <1>2 DEF Current, TypeOK
    <2>2. CASE d = c
        <3>1. active' = [active EXCEPT ![Current(c)] = Released(@)]
            BY <1>0, <2>1, <2>2 DEF Release
        <3>2. active[Current(c)] = Cardinality(Holders(c))
            BY <2>1, <2>2 DEF SlotsAccounted
        <3>3. Current(c) \in Object
            BY <2>1, <2>2, CurrentType DEF TypeOK
        <3>4. active'[Current(c)] = Released(active[Current(c)])
            BY <3>1, <3>3 DEF TypeOK
        <3>5. Released(Cardinality(Holders(c))) = Cardinality(Holders(c)')
            BY <1>3, <2>1, <2>2, HoldersFinite DEF Released
        <3> QED BY <2>1, <2>2, <3>2, <3>4, <3>5
    <2>3. CASE d # c
        <3>1. Current(d) # Current(c)
            BY <2>3 DEF Current
        <3>2. active'[Current(d)] = active[Current(d)]
            BY <1>0, <2>1, <3>1, CurrentType DEF Release, TypeOK
        <3> QED BY <1>1, <2>1, <2>3, <3>2 DEF SlotsAccounted
    <2> QED BY <2>2, <2>3
<1>5. HardCeiling'
    <2> SUFFICES ASSUME NEW d \in Credential, MaxConcurrent[d] > 0
                 PROVE  Cardinality(Holders(d)') <= MaxConcurrent[d]
        BY DEF HardCeiling
    <2>1. CASE d = c
        <3>1. Cardinality(Holders(c)) <= MaxConcurrent[c]
            BY <2>1 DEF HardCeiling
        <3> QED BY <1>3, <2>1, <3>1, HoldersFinite, ConcurrencyAssumption
    <2>2. CASE d # c
        BY <1>1, <2>2 DEF HardCeiling
    <2> QED BY <2>1, <2>2
<1> QED BY <1>4, <1>5

LEMMA PoolInvStep ==
    ASSUME ReAdd = {}
    PROVE  PoolInv /\ [Next]_vars => PoolInv'
<1> SUFFICES ASSUME PoolInv, [Next]_vars PROVE SlotsAccounted' /\ HardCeiling'
    BY TypeStep DEF PoolInv
<1> USE DEF PoolInv
<1>1. ASSUME UNCHANGED <<registered, generation, active>>,
             \A c \in Credential : Holders(c)' = Holders(c)
      PROVE  SlotsAccounted' /\ HardCeiling'
    BY <1>1 DEF SlotsAccounted, HardCeiling, Current, TypeOK
<1>2. ASSUME NEW r \in Request, Idle(r) PROVE SlotsAccounted' /\ HardCeiling'
    BY <1>1, <1>2, IdleHolders
<1>3. ASSUME NEW c \in Credential, RemoveCredential(c)
      PROVE  SlotsAccounted' /\ HardCeiling'
    <2>1. \A d \in Credential : Holders(d)' = Holders(d)
        BY <1>3, StillHolders DEF RemoveCredential
    <2> QED BY <1>3, <2>1 DEF RemoveCredential, SlotsAccounted, HardCeiling, Current, TypeOK
<1>4. ASSUME NEW c \in Credential, ReInitialize(c) PROVE FALSE
    BY <1>4 DEF ReInitialize
<1>5. ASSUME UNCHANGED <<registered, generation, active, request>>
      PROVE  SlotsAccounted' /\ HardCeiling'
    BY <1>1, <1>5, StillHolders
<1> QED BY <1>2, <1>3, <1>4, <1>5, PoolInvAdmit, PoolInvRelease, NextCases

\* Unless a hot reload registers a removed credential anew, no credential ever
\* serves more requests than its max_concurrent.
THEOREM CeilingHolds ==
    ASSUME ReAdd = {}
    PROVE  Spec => []HardCeiling
<1>1. PoolInv /\ [Next]_vars => PoolInv'
    BY PoolInvStep
<1>2. PoolInv => HardCeiling
    BY DEF PoolInv
<1> QED BY PoolInvInit, <1>1, <1>2, PTL DEF Spec

\* Under the same condition the counter of every registered credential is the
\* number of requests that hold it.
THEOREM CountersExact ==
    ASSUME ReAdd = {}
    PROVE  Spec => []SlotsAccounted
<1>1. PoolInv /\ [Next]_vars => PoolInv'
    BY PoolInvStep
<1>2. PoolInv => SlotsAccounted
    BY DEF PoolInv
<1> QED BY PoolInvInit, <1>1, <1>2, PTL DEF Spec
------------------------------------------------------------------------------------
(* Hot reloads: the counter may fall behind, but never exceeds the truth.  *)

LEMMA ReloadInvInit == Init => ReloadInv
<1> SUFFICES ASSUME Init PROVE ReloadInv
    OBVIOUS
<1>1. TypeOK
    BY TypeInit
<1>2. FreshObjects
    BY DEF Init, FreshObjects, Object
<1>3. ASSUME NEW c \in registered PROVE active[Current(c)] <= Cardinality(Holders(c))
    <2>1. c \in Credential
        BY <1>1 DEF TypeOK
    <2>2. active[Current(c)] = 0
        BY <1>1, <2>1, CurrentType DEF Init, TypeOK
    <2>3. Holders(c) = {}
        BY DEF Init, Holders
    <2> QED BY <2>2, <2>3, FS_EmptySet
<1> QED BY <1>1, <1>2, <1>3 DEF ReloadInv, NoSlotLeaked

LEMMA ReloadInvAdmit ==
    ASSUME ReloadInv, NEW r \in Request, Admit(r)
    PROVE  NoSlotLeaked' /\ FreshObjects'
<1> USE DEF ReloadInv
<1>1. PICK c \in registered :
          /\ active' = [active EXCEPT ![Current(c)] = @ + 1]
          /\ r \notin Holders(c)
          /\ Holders(c)' = Holders(c) \cup {r}
          /\ \A d \in Credential \ {c} : Holders(d)' = Holders(d)
    BY AdmitHolders
<1>2. c \in Credential /\ Current(c) \in Object
    BY <1>1, CurrentType DEF TypeOK
<1>3. UNCHANGED <<registered, generation>>
    BY DEF Admit
<1>4. Cardinality(Holders(c)') = Cardinality(Holders(c)) + 1
    BY <1>1, <1>2, HoldersFinite, FS_AddElement
<1>5. ASSUME NEW d \in registered'
      PROVE  active'[Current(d)'] <= Cardinality(Holders(d)')
    <2>1. d \in registered /\ d \in Credential /\ Current(d)' = Current(d)
        BY <1>3, <1>5 DEF Current, TypeOK
    <2>2. active[Current(d)] <= Cardinality(Holders(d))
        BY <2>1 DEF NoSlotLeaked
    <2>3. CASE d = c
        <3>1. active'[Current(d)] = active[Current(d)] + 1 /\ active[Current(d)] \in Nat
            BY <1>1, <1>2, <2>3 DEF TypeOK
        <3> QED BY <1>4, <2>1, <2>2, <2>3, <3>1, HoldersFinite
    <2>4. CASE d # c
        <3>1. Current(d) # Current(c)
            BY <2>4 DEF Current
        <3>2. active'[Current(d)] = active[Current(d)]
            BY <1>1, <2>1, <3>1, CurrentType DEF TypeOK
        <3> QED BY <1>1, <2>1, <2>2, <2>4, <3>2
    <2> QED BY <2>3, <2>4
<1>6. FreshObjects'
    <2> SUFFICES ASSUME NEW d \in Credential, NEW g \in Generation, g > generation'[d]
                 PROVE  active'[<<d, g>>] = 0
        BY DEF FreshObjects
    <2>1. <<d, g>> # Current(c) /\ <<d, g>> \in Object
        BY <1>2, <1>3, ReloadAssumption DEF Current, Object, Generation, TypeOK
    <2>2. active[<<d, g>>] = 0
        BY <1>3 DEF FreshObjects
    <2> QED BY <1>1, <1>2, <2>1, <2>2 DEF TypeOK
<1> QED BY <1>5, <1>6 DEF NoSlotLeaked

LEMMA ReloadInvRelease ==
    ASSUME ReloadInv, NEW r \in Request, Release(r)
    PROVE  NoSlotLeaked' /\ FreshObjects'
<1> USE DEF ReloadInv
<1>0. PICK c : c = lease[r]
    OBVIOUS
<1>1. /\ r \in Holders(c)
      /\ Holders(c)' = Holders(c) \ {r}
      /\ \A d \in Credential \ {c} : Holders(d)' = Holders(d)
    BY <1>0, ReleaseHolders
<1>2. UNCHANGED <<registered, generation>>
    BY DEF Release
<1>3. ASSUME c \in registered
      PROVE  /\ Current(c) \in Object
             /\ active' = [active EXCEPT ![Current(c)] = Released(@)]
             /\ active'[Current(c)] = Released(active[Current(c)])
    BY <1>0, <1>3, CurrentType DEF Release, TypeOK
<1>4. c \notin registered => active' = active
    BY <1>0 DEF Release
<1>5. ASSUME NEW d \in registered'
      PROVE  active'[Current(d)'] <= Cardinality(Holders(d)')
    <2>1. d \in registered /\ d \in Credential /\ Current(d)' = Current(d)
        BY <1>2, <1>5 DEF Current, TypeOK
    <2>2. active[Current(d)] <= Cardinality(Holders(d)) /\ active[Current(d)] \in Nat
        BY <2>1, CurrentType DEF NoSlotLeaked, TypeOK
    <2>3. CASE d = c
        <3>1. Cardinality(Holders(d)') = Cardinality(Holders(d)) - 1
            BY <1>1, <2>1, <2>3, HoldersFinite, FS_RemoveElement
        <3>2. Cardinality(Holders(d)) \in Nat /\ Cardinality(Holders(d)) # 0
            BY <1>1, <2>1, <2>3, HoldersFinite, FS_EmptySet
        <3>3. Released(active[Current(d)]) <= Cardinality(Holders(d)) - 1
            BY <2>2, <3>2 DEF Released
        <3> QED BY <1>3, <2>1, <2>3, <3>1, <3>3
    <2>4. CASE d # c
        <3>1. Current(d) # Current(c)
            BY <2>4 DEF Current
        <3>2. active'[Current(d)] = active[Current(d)]
            BY <1>3, <1>4, <2>1, <3>1, CurrentType DEF TypeOK
        <3> QED BY <1>1, <2>1, <2>2, <2>4, <3>2
    <2> QED BY <2>3, <2>4
<1>6. FreshObjects'
    BY <1>2, <1>3, <1>4 DEF FreshObjects, Current, Object, TypeOK, Generation
<1> QED BY <1>5, <1>6 DEF NoSlotLeaked

LEMMA ReloadInvStep == ReloadInv /\ [Next]_vars => ReloadInv'
<1> SUFFICES ASSUME ReloadInv, [Next]_vars PROVE NoSlotLeaked' /\ FreshObjects'
    BY TypeStep DEF ReloadInv
<1> USE DEF ReloadInv
<1>1. ASSUME UNCHANGED <<registered, generation, active>>,
             \A c \in Credential : Holders(c)' = Holders(c)
      PROVE  NoSlotLeaked' /\ FreshObjects'
    BY <1>1 DEF NoSlotLeaked, FreshObjects, Current, TypeOK
<1>2. ASSUME NEW r \in Request, Idle(r) PROVE NoSlotLeaked' /\ FreshObjects'
    BY <1>1, <1>2, IdleHolders
<1>3. ASSUME NEW c \in Credential, RemoveCredential(c)
      PROVE  NoSlotLeaked' /\ FreshObjects'
    <2>1. \A d \in Credential : Holders(d)' = Holders(d)
        BY <1>3, StillHolders DEF RemoveCredential
    <2> QED BY <1>3, <2>1 DEF RemoveCredential, NoSlotLeaked, FreshObjects, Current, TypeOK
<1>4. ASSUME NEW c \in Credential, ReInitialize(c)
      PROVE  NoSlotLeaked' /\ FreshObjects'
    <2>1. /\ generation' = [generation EXCEPT ![c] = @ + 1]
          /\ generation[c] \in Nat /\ generation[c] + 1 \in Generation
          /\ UNCHANGED active /\ registered' = registered \cup {c}
        BY <1>4, ReloadAssumption DEF ReInitialize, Generation, TypeOK
    <2>2. \A d \in Credential : Holders(d)' = Holders(d)
        BY <1>4, StillHolders DEF ReInitialize
    <2>3. active'[Current(c)'] = 0
        BY <2>1 DEF FreshObjects, Current, TypeOK
    <2>4. ASSUME NEW d \in registered'
          PROVE  active'[Current(d)'] <= Cardinality(Holders(d)')
        <3>1. d \in Credential
            BY <1>4, <2>1, <2>4 DEF TypeOK
        <3>2. CASE d = c
            BY <2>2, <2>3, <3>1, <3>2, HoldersFinite
        <3>3. CASE d # c
            BY <2>1, <2>2, <3>1, <3>3 DEF NoSlotLeaked, Current, TypeOK
        <3> QED BY <3>2, <3>3
    <2>5. FreshObjects'
        BY <2>1 DEF FreshObjects, Generation, TypeOK
    <2> QED BY <2>4, <2>5 DEF NoSlotLeaked
<1>5. ASSUME UNCHANGED <<registered, generation, active, request>>
      PROVE  NoSlotLeaked' /\ FreshObjects'
    BY <1>1, <1>5, StillHolders
<1> QED BY <1>2, <1>3, <1>4, <1>5, ReloadInvAdmit, ReloadInvRelease, NextCases

\* Whatever is removed and registered anew, the counter of a registered
\* credential never exceeds the number of requests that hold it.
THEOREM SlotsNeverLeak == Spec => []NoSlotLeaked
<1>1. ReloadInv => NoSlotLeaked
    BY DEF ReloadInv
<1> QED BY ReloadInvInit, ReloadInvStep, <1>1, PTL DEF Spec
------------------------------------------------------------------------------------
(* Hot reloads: how far the ceiling can be exceeded.                       *)

\* What the old objects of a credential may add to its load.
Overhang(c) == MaxConcurrent[c] * generation[c]

LEMMA OverhangIsNat ==
    ASSUME TypeOK, NEW c \in Credential, MaxConcurrent[c] > 0
    PROVE  Overhang(c) \in Nat /\ MaxConcurrent[c] \in Nat /\ generation[c] \in Nat
<1>1. MaxConcurrent[c] \in Nat /\ generation[c] \in Nat
    BY ConcurrencyAssumption, ReloadAssumption DEF TypeOK, Generation
<1> QED BY <1>1 DEF Overhang

LEMMA OneMoreReload ==
    ASSUME NEW n \in Nat, NEW g \in Nat
    PROVE  n * (g + 1) = n * g + n /\ n * g \in Nat /\ n * 0 = 0
OBVIOUS

LEMMA ReloadCeilingInit == Init => ReloadCeilingInv
<1> SUFFICES ASSUME Init PROVE ReloadCeiling
    BY ReloadInvInit DEF ReloadCeilingInv
<1> SUFFICES ASSUME NEW c \in Credential, MaxConcurrent[c] > 0
             PROVE  /\ active[Current(c)] <= MaxConcurrent[c]
                    /\ c \in registered
                    /\ Cardinality(Holders(c)) <= active[Current(c)] + Overhang(c)
    BY DEF ReloadCeiling, Overhang
<1>1. TypeOK /\ MaxConcurrent[c] \in Nat
    BY TypeInit, OverhangIsNat
<1>2. active[Current(c)] = 0 /\ c \in registered
    BY <1>1, CurrentType DEF Init, TypeOK
<1>3. Holders(c) = {}
    BY DEF Init, Holders
<1>4. Overhang(c) \in Nat
    BY <1>1, OverhangIsNat
<1> QED BY <1>1, <1>2, <1>3, <1>4, FS_EmptySet

\* The two facts ReloadCeiling states of one credential.
Within(c, load, over) ==
    /\ active[Current(c)] <= MaxConcurrent[c]
    /\ load <= (IF c \in registered THEN active[Current(c)] ELSE MaxConcurrent[c]) + over

LEMMA ReloadCeilingAsWithin ==
    ReloadCeiling <=> \A c \in Credential :
        MaxConcurrent[c] > 0 => Within(c, Cardinality(Holders(c)), Overhang(c))
BY DEF ReloadCeiling, Within, Overhang

LEMMA ReloadCeilingAdmit ==
    ASSUME ReloadCeilingInv, NEW r \in Request, Admit(r)
    PROVE  ReloadCeiling'
<1> USE DEF ReloadCeilingInv, ReloadInv
<1>1. PICK c \in registered :
          /\ ~AtCapacity(Current(c))
          /\ active' = [active EXCEPT ![Current(c)] = @ + 1]
          /\ r \notin Holders(c)
          /\ Holders(c)' = Holders(c) \cup {r}
          /\ \A d \in Credential \ {c} : Holders(d)' = Holders(d)
    BY AdmitHolders
<1>2. c \in Credential /\ Current(c) \in Object
    BY <1>1, CurrentType DEF TypeOK
<1>3. UNCHANGED <<registered, generation>>
    BY DEF Admit
<1>4. Cardinality(Holders(c)') = Cardinality(Holders(c)) + 1
    BY <1>1, <1>2, HoldersFinite, FS_AddElement
<1> SUFFICES ASSUME NEW d \in Credential, MaxConcurrent[d] > 0
             PROVE  Within(d, Cardinality(Holders(d)), Overhang(d))'
    BY DEF ReloadCeiling, Within, Overhang
<1>5. /\ Within(d, Cardinality(Holders(d)), Overhang(d))
      /\ Overhang(d) \in Nat /\ MaxConcurrent[d] \in Nat
      /\ Cardinality(Holders(d)) \in Nat
      /\ active[Current(d)] \in Nat
    BY ReloadCeilingAsWithin, OverhangIsNat, HoldersFinite, CurrentType DEF TypeOK
<1>6. Current(d)' = Current(d) /\ Overhang(d)' = Overhang(d)
    BY <1>3 DEF Current, Overhang
<1>7. CASE d = c
    <2>1. active'[Current(d)] = active[Current(d)] + 1
        BY <1>1, <1>2, <1>7 DEF TypeOK
    <2>2. active[Current(d)] < MaxConcurrent[d]
        BY <1>1, <1>5, <1>7 DEF AtCapacity, Current
    <2>3. d \in registered /\ d \in registered'
        BY <1>1, <1>3, <1>7
    <2>4. Cardinality(Holders(d)') = Cardinality(Holders(d)) + 1
        BY <1>4, <1>7
    <2>5. Cardinality(Holders(d)) <= active[Current(d)] + Overhang(d)
        BY <1>5, <2>3 DEF Within
    <2>6. Cardinality(Holders(d)') <= active'[Current(d)] + Overhang(d)
        BY <1>5, <2>1, <2>4, <2>5
    <2>7. active'[Current(d)] <= MaxConcurrent[d]
        BY <1>5, <2>1, <2>2
    <2> QED BY <1>6, <2>3, <2>6, <2>7 DEF Within
<1>8. CASE d # c
    <2>1. Current(d) # Current(c)
        BY <1>8 DEF Current
    <2>2. active'[Current(d)] = active[Current(d)]
        BY <1>1, <2>1, CurrentType DEF TypeOK
    <2>3. Holders(d)' = Holders(d)
        BY <1>1, <1>8
    <2> QED BY <1>3, <1>5, <1>6, <2>2, <2>3 DEF Within
<1> QED BY <1>7, <1>8

LEMMA ReloadCeilingRelease ==
    ASSUME ReloadCeilingInv, NEW r \in Request, Release(r)
    PROVE  ReloadCeiling'
<1> USE DEF ReloadCeilingInv, ReloadInv
<1>0. PICK c : c = lease[r]
    OBVIOUS
<1>1. /\ r \in Holders(c)
      /\ Holders(c)' = Holders(c) \ {r}
      /\ \A d \in Credential \ {c} : Holders(d)' = Holders(d)
    BY <1>0, ReleaseHolders
<1>2. UNCHANGED <<registered, generation>>
    BY DEF Release
<1>3. ASSUME c \in registered
      PROVE  /\ Current(c) \in Object
             /\ active' = [active EXCEPT ![Current(c)] = Released(@)]
             /\ active'[Current(c)] = Released(active[Current(c)])
    BY <1>0, <1>3, CurrentType DEF Release, TypeOK
<1>4. c \notin registered => active' = active
    BY <1>0 DEF Release
<1> SUFFICES ASSUME NEW d \in Credential, MaxConcurrent[d] > 0
             PROVE  Within(d, Cardinality(Holders(d)), Overhang(d))'
    BY DEF ReloadCeiling, Within, Overhang
<1>5. /\ Within(d, Cardinality(Holders(d)), Overhang(d))
      /\ Overhang(d) \in Nat /\ MaxConcurrent[d] \in Nat
      /\ Cardinality(Holders(d)) \in Nat
      /\ active[Current(d)] \in Nat
    BY ReloadCeilingAsWithin, OverhangIsNat, HoldersFinite, CurrentType DEF TypeOK
<1>6. Current(d)' = Current(d) /\ Overhang(d)' = Overhang(d)
    BY <1>2 DEF Current, Overhang
<1>7. CASE d = c
    <2>1. Cardinality(Holders(d)') = Cardinality(Holders(d)) - 1
        BY <1>1, <1>7, HoldersFinite, FS_RemoveElement
    <2>2. CASE d \in registered
        <3>1. active'[Current(d)] = Released(active[Current(d)])
            BY <1>3, <1>7, <2>2
        <3>2. /\ active'[Current(d)] <= active[Current(d)]
              /\ active'[Current(d)] >= active[Current(d)] - 1
              /\ active'[Current(d)] \in Nat
            BY <1>5, <3>1 DEF Released
        <3>3. Cardinality(Holders(d)) <= active[Current(d)] + Overhang(d)
            BY <1>5, <2>2 DEF Within
        <3>4. Cardinality(Holders(d)') <= active'[Current(d)] + Overhang(d)
            BY <1>5, <2>1, <3>2, <3>3
        <3>5. active'[Current(d)] <= MaxConcurrent[d]
            BY <1>5, <3>2 DEF Within
        <3> QED BY <1>2, <1>6, <2>2, <3>4, <3>5 DEF Within
    <2>3. CASE d \notin registered
        <3>1. Cardinality(Holders(d)') <= MaxConcurrent[d] + Overhang(d)
            BY <1>5, <2>1, <2>3 DEF Within
        <3>2. active' = active
            BY <1>4, <1>7, <2>3
        <3> QED BY <1>2, <1>5, <1>6, <2>3, <3>1, <3>2 DEF Within
    <2> QED BY <2>2, <2>3
<1>8. CASE d # c
    <2>1. Current(d) # Current(c)
        BY <1>8 DEF Current
    <2>2. active'[Current(d)] = active[Current(d)]
        BY <1>3, <1>4, <2>1, CurrentType DEF TypeOK
    <2>3. Holders(d)' = Holders(d)
        BY <1>1, <1>8
    <2> QED BY <1>2, <1>5, <1>6, <2>2, <2>3 DEF Within
<1> QED BY <1>7, <1>8

LEMMA ReloadCeilingStep == ReloadCeilingInv /\ [Next]_vars => ReloadCeilingInv'
<1> SUFFICES ASSUME ReloadCeilingInv, [Next]_vars PROVE ReloadCeiling'
    BY ReloadInvStep DEF ReloadCeilingInv
<1> USE DEF ReloadCeilingInv, ReloadInv
<1>1. ASSUME UNCHANGED <<registered, generation, active>>,
             \A c \in Credential : Holders(c)' = Holders(c)
      PROVE  ReloadCeiling'
    BY <1>1 DEF ReloadCeiling, Current
<1>2. ASSUME NEW r \in Request, Idle(r) PROVE ReloadCeiling'
    BY <1>1, <1>2, IdleHolders
<1>3. ASSUME NEW c \in Credential, RemoveCredential(c)
      PROVE  ReloadCeiling'
    <2>1. /\ \A d \in Credential : Holders(d)' = Holders(d)
          /\ registered' = registered \ {c} /\ UNCHANGED <<active, generation>>
        BY <1>3, StillHolders DEF RemoveCredential
    <2> SUFFICES ASSUME NEW d \in Credential, MaxConcurrent[d] > 0
                 PROVE  Within(d, Cardinality(Holders(d)), Overhang(d))'
        BY DEF ReloadCeiling, Within, Overhang
    <2>2. /\ Within(d, Cardinality(Holders(d)), Overhang(d))
          /\ Overhang(d) \in Nat /\ MaxConcurrent[d] \in Nat
          /\ Cardinality(Holders(d)) \in Nat
          /\ active[Current(d)] \in Nat
        BY ReloadCeilingAsWithin, OverhangIsNat, HoldersFinite, CurrentType DEF TypeOK
    <2>3. Current(d)' = Current(d) /\ Overhang(d)' = Overhang(d)
        BY <2>1 DEF Current, Overhang
    <2>4. Cardinality(Holders(d)) <= MaxConcurrent[d] + Overhang(d)
        BY <2>2 DEF Within
    <2> QED BY <2>1, <2>2, <2>3, <2>4 DEF Within
<1>4. ASSUME NEW c \in Credential, ReInitialize(c)
      PROVE  ReloadCeiling'
    <2>1. /\ generation' = [generation EXCEPT ![c] = @ + 1]
          /\ generation[c] \in Nat /\ generation[c] + 1 \in Generation
          /\ UNCHANGED active /\ registered' = registered \cup {c} /\ c \notin registered
        BY <1>4, ReloadAssumption DEF ReInitialize, Generation, TypeOK
    <2>2. \A d \in Credential : Holders(d)' = Holders(d)
        BY <1>4, StillHolders DEF ReInitialize
    <2>3. active'[Current(c)'] = 0
        BY <2>1 DEF FreshObjects, Current, TypeOK
    <2> SUFFICES ASSUME NEW d \in Credential, MaxConcurrent[d] > 0
                 PROVE  Within(d, Cardinality(Holders(d)), Overhang(d))'
        BY DEF ReloadCeiling, Within, Overhang
    <2>4. /\ Within(d, Cardinality(Holders(d)), Overhang(d))
          /\ Overhang(d) \in Nat /\ MaxConcurrent[d] \in Nat
          /\ Cardinality(Holders(d)) \in Nat
          /\ generation[d] \in Nat
        BY ReloadCeilingAsWithin, OverhangIsNat, HoldersFinite, CurrentType DEF TypeOK
    <2>5. CASE d = c
        <3>1. generation'[d] = generation[d] + 1
            BY <2>1, <2>5 DEF TypeOK
        <3>2. Overhang(d)' = Overhang(d) + MaxConcurrent[d]
            BY <2>4, <3>1, OneMoreReload DEF Overhang
        <3>3. Cardinality(Holders(d)) <= MaxConcurrent[d] + Overhang(d)
            BY <2>1, <2>4, <2>5 DEF Within
        <3>4. Cardinality(Holders(d)') <= 0 + Overhang(d)'
            BY <2>2, <2>4, <3>2, <3>3
        <3>5. d \in registered' /\ 0 <= MaxConcurrent[d]
            BY <2>1, <2>4, <2>5
        <3>6. active'[Current(d)'] = 0
            BY <2>3, <2>5
        <3> QED BY <3>4, <3>5, <3>6 DEF Within
    <2>6. CASE d # c
        <3>1. generation'[d] = generation[d] /\ (d \in registered' <=> d \in registered)
            BY <2>1, <2>6 DEF TypeOK
        <3>2. Current(d)' = Current(d) /\ Overhang(d)' = Overhang(d)
            BY <3>1 DEF Current, Overhang
        <3> QED BY <2>1, <2>2, <2>4, <3>1, <3>2 DEF Within
    <2> QED BY <2>5, <2>6
<1>5. ASSUME UNCHANGED <<registered, generation, active, request>>
      PROVE  ReloadCeiling'
    BY <1>1, <1>5, StillHolders
<1> QED
    BY <1>2, <1>3, <1>4, <1>5, ReloadCeilingAdmit, ReloadCeilingRelease, NextCases

LEMMA ReloadCeilingBounds ==
    ReloadCeilingInv => SlotsAfterReload /\ CeilingPerReload
<1> SUFFICES ASSUME ReloadCeilingInv PROVE SlotsAfterReload /\ CeilingPerReload
    OBVIOUS
<1>1. TypeOK /\ NoSlotLeaked /\ ReloadCeiling
    BY DEF ReloadCeilingInv, ReloadInv
<1>2. SlotsAfterReload
    BY <1>1 DEF SlotsAfterReload, ReloadCeiling, TypeOK
<1>3. ASSUME NEW c \in Credential, MaxConcurrent[c] > 0
      PROVE  Cardinality(Holders(c)) <= MaxConcurrent[c] * (generation[c] + 1)
    <2>1. /\ Within(c, Cardinality(Holders(c)), Overhang(c))
          /\ Overhang(c) \in Nat /\ MaxConcurrent[c] \in Nat /\ generation[c] \in Nat
          /\ Cardinality(Holders(c)) \in Nat
          /\ active[Current(c)] \in Nat
        BY <1>1, <1>3, ReloadCeilingAsWithin, OverhangIsNat, HoldersFinite, CurrentType
           DEF TypeOK
    <2>2. Cardinality(Holders(c)) <= MaxConcurrent[c] + Overhang(c)
        BY <2>1 DEF Within
    <2>3. MaxConcurrent[c] * (generation[c] + 1) = Overhang(c) + MaxConcurrent[c]
        BY <2>1, OneMoreReload DEF Overhang
    <2> QED BY <2>1, <2>2, <2>3
<1> QED BY <1>2, <1>3 DEF CeilingPerReload

\* However often credentials are removed and registered anew while requests
\* hold them, no slot is lost and the counter misses at most one ceiling for
\* every reload.
THEOREM ReloadKeepsSlots == Spec => []SlotsAfterReload
BY ReloadCeilingInit, ReloadCeilingStep, ReloadCeilingBounds, PTL DEF Spec

\* The load a credential can reach across reloads, HardCeiling's bound when
\* there has been none.
THEOREM ReloadCostsOneCeiling == Spec => []CeilingPerReload
BY ReloadCeilingInit, ReloadCeilingStep, ReloadCeilingBounds, PTL DEF Spec
------------------------------------------------------------------------------------
(* CredentialPool implements LeasePool.                                    *)

LEMMA LeasingInvInit == Init => LeasingInv
BY PoolInvInit DEF Init, LeasingInv

LEMMA LeasingInvStep ==
    ASSUME ReAdd = {}
    PROVE  LeasingInv /\ [Next]_vars => LeasingInv'
<1> SUFFICES ASSUME LeasingInv, [Next]_vars
             PROVE  /\ \A q \in Request : \A o \in snapshot'[q] : o[1] \notin tried'[q]
                    /\ \A q \in Request : pc'[q] = "running" => lease'[q] \in Credential
    BY PoolInvStep DEF LeasingInv
<1> USE DEF LeasingInv, PoolInv, TypeOK
<1>1. ASSUME NEW r \in Request, BeginAcquire(r)
      PROVE  \A q \in Request : \A o \in snapshot'[q] : o[1] \notin tried'[q]
    BY <1>1 DEF BeginAcquire, Untried, Current
<1>2. ASSUME NEW r \in Request, Admit(r)
      PROVE  /\ \A q \in Request : \A o \in snapshot'[q] : o[1] \notin tried'[q]
             /\ \A q \in Request : pc'[q] = "running" => lease'[q] \in Credential
    BY <1>2 DEF Admit, LeaveAcquire, Goto
<1>3. ASSUME NEW r \in Request, BeginAcquire(r) \/ Idle(r) \/ Release(r)
      PROVE  \A q \in Request : pc'[q] = "running" => lease'[q] \in Credential
    BY <1>3 DEF Idle, Arrive, BeginAcquire, GiveUp, SelectRemoved, ChooseWait, SleepCooldown,
       NoAvailableKeys, EnterWait, QueuedTooLong, Wake, Cancel, Notify, Waiters, Record,
       Release, EndRequest, LeaveAcquire, Goto, acquire
<1>4. ASSUME NEW r \in Request, Idle(r) \/ Release(r), ~BeginAcquire(r)
      PROVE  \A q \in Request : \A o \in snapshot'[q] : o[1] \notin tried'[q]
    BY <1>4 DEF Idle, Arrive, GiveUp, SelectRemoved, ChooseWait, SleepCooldown,
       NoAvailableKeys, EnterWait, QueuedTooLong, Wake, Cancel, Notify, Record,
       Release, EndRequest, LeaveAcquire, Goto, acquire
<1>5. ASSUME UNCHANGED request
      PROVE  /\ \A q \in Request : \A o \in snapshot'[q] : o[1] \notin tried'[q]
             /\ \A q \in Request : pc'[q] = "running" => lease'[q] \in Credential
    BY <1>5 DEF request, acquire
<1> QED BY <1>1, <1>2, <1>3, <1>4, <1>5, NextCases DEF RemoveCredential, ReInitialize

\* A request is served, in LeasePool's sense, while it calls the provider.
LEMMA ServedIffRunning ==
    ASSUME LeasingInv, NEW r \in Request
    PROVE  Leasing!Served(r) <=> pc[r] = "running"
BY DEF Leasing!Served, LeasingInv, Holders

LEMMA AdmitIsGrant ==
    ASSUME LeasingInv, NEW r \in Request, Admit(r)
    PROVE  \E c \in Credential : Leasing!Grant(r, c)
<1> USE DEF LeasingInv, PoolInv
<1>1. PICK c \in registered :
          /\ ~AtCapacity(Current(c))
          /\ tried' = [tried EXCEPT ![r] = @ \cup {c}]
          /\ c \in {o[1] : o \in Selectable(r)}
          /\ Holders(c)' = Holders(c) \cup {r}
          /\ \A d \in Credential \ {c} : Holders(d)' = Holders(d)
    BY AdmitHolders
<1>2. c \in Credential /\ Current(c) \in Object
    BY <1>1, CurrentType DEF TypeOK
<1>3. ~Leasing!Served(r)
    BY ServedIffRunning DEF Admit
<1>4. c \notin tried[r]
    BY <1>1 DEF Selectable, Available
<1>5. Leasing!Room(c)
    <2>1. active[Current(c)] = Cardinality(Holders(c))
        BY <1>1 DEF SlotsAccounted
    <2>2. MaxConcurrent[c] > 0 => Cardinality(Holders(c)) < MaxConcurrent[c]
        BY <1>1, <1>2, <2>1, HoldersFinite, ConcurrencyAssumption DEF AtCapacity, Current
    <2>3. [d \in Credential |-> Holders(d)][c] = Holders(c)
        BY <1>2
    <2>4. Leasing!Cardinality(Holders(c)) = Cardinality(Holders(c))
        BY DEF Leasing!Cardinality, Cardinality
    <2> QED BY <2>2, <2>3, <2>4 DEF Leasing!Room
<1>6. [d \in Credential |-> Holders(d)]'
          = [[d \in Credential |-> Holders(d)] EXCEPT ![c] = @ \cup {r}]
    BY <1>1, <1>2
<1> QED BY <1>1, <1>2, <1>3, <1>4, <1>5, <1>6 DEF Leasing!Grant

LEMMA ReleaseIsReturn ==
    ASSUME LeasingInv, NEW r \in Request, Release(r)
    PROVE  Leasing!Return(r)
<1> USE DEF LeasingInv, PoolInv
<1>0. PICK c : c = lease[r]
    OBVIOUS
<1>1. /\ Holders(c)' = Holders(c) \ {r}
      /\ \A d \in Credential \ {c} : Holders(d)' = Holders(d)
    BY <1>0, ReleaseHolders
<1>2. \A d \in Credential \ {c} : r \notin Holders(d)
    BY <1>0 DEF Holders
<1>3. [d \in Credential |-> Holders(d)]'
          = [d \in Credential |-> [e \in Credential |-> Holders(e)][d] \ {r}]
    BY <1>1, <1>2
<1>4. Leasing!Served(r) /\ UNCHANGED tried
    BY ServedIffRunning DEF Release
<1> QED BY <1>3, <1>4 DEF Leasing!Return

\* The other steps of a request stutter, or close it.
LEMMA IdleIsClose ==
    ASSUME LeasingInv, NEW r \in Request, Idle(r)
    PROVE  Leasing!Close(r) \/ UNCHANGED Leasing!vars
<1> USE DEF LeasingInv, PoolInv
<1>1. [c \in Credential |-> Holders(c)]' = [c \in Credential |-> Holders(c)]
    BY IdleHolders
<1>2. ~Leasing!Served(r)
    <2>1. pc[r] # "running"
        BY DEF Idle, Arrive, BeginAcquire, GiveUp, SelectRemoved, ChooseWait, SleepCooldown,
           NoAvailableKeys, EnterWait, QueuedTooLong, Wake, Notify, Record, Cancel
    <2> QED BY <2>1, ServedIffRunning
<1>3. tried' = [tried EXCEPT ![r] = {}] \/ UNCHANGED tried
    BY DEF Idle, Arrive, BeginAcquire, GiveUp, SelectRemoved, ChooseWait, SleepCooldown,
       NoAvailableKeys, EnterWait, QueuedTooLong, Wake, Notify, Record, Cancel, EndRequest
<1> QED BY <1>1, <1>2, <1>3 DEF Leasing!Close, Leasing!vars

\* Unless a hot reload registers a removed credential anew, the pool with its
\* counters, conditions and cooldowns behaves as the lease pool promises.
THEOREM PoolImplementsLeasing ==
    ASSUME ReAdd = {}
    PROVE  Spec => ImplementsLeasing
<1>1. Init => Leasing!Init
    BY DEF Init, Leasing!Init, Holders
<1>2. LeasingInv /\ [Next]_vars => [Leasing!Next]_(Leasing!vars)
    <2> SUFFICES ASSUME LeasingInv, [Next]_vars
                 PROVE  Leasing!Next \/ UNCHANGED Leasing!vars
        OBVIOUS
    <2>1. ASSUME NEW r \in Request, Admit(r) PROVE Leasing!Next
        BY <2>1, AdmitIsGrant DEF Leasing!Next
    <2>2. ASSUME NEW r \in Request, Release(r) PROVE Leasing!Next
        BY <2>2, ReleaseIsReturn DEF Leasing!Next
    <2>3. ASSUME NEW r \in Request, Idle(r)
          PROVE  Leasing!Next \/ UNCHANGED Leasing!vars
        BY <2>3, IdleIsClose DEF Leasing!Next
    <2>4. ASSUME UNCHANGED request PROVE UNCHANGED Leasing!vars
        BY <2>4 DEF request, Leasing!vars, Holders
    <2> QED BY <2>1, <2>2, <2>3, <2>4, NextCases DEF RemoveCredential, ReInitialize
<1>3. LeasingInv /\ [Next]_vars => LeasingInv'
    BY LeasingInvStep
<1> QED BY <1>1, <1>2, <1>3, LeasingInvInit, PTL
        DEF Spec, ImplementsLeasing, Leasing!Spec
------------------------------------------------------------------------------------
(* Failing fast.                                                           *)

LEMMA SnapshotInit == Init => SnapshotInv
BY DEF Init, SnapshotInv, Acquiring

\* What a step may do to a snapshot: take it from the credentials registered
\* now, drop it, or leave it while the request stays in acquire_credential.
LEMMA SnapshotStep ==
    ASSUME ReAdd = {}
    PROVE  TypeOK /\ SnapshotInv /\ [Next]_vars => SnapshotInv'
<1> SUFFICES ASSUME TypeOK, SnapshotInv, [Next]_vars PROVE SnapshotInv'
    OBVIOUS
<1> DEFINE Kept(q) == /\ snapshot'[q] = snapshot[q]
                      /\ pc'[q] \in Acquiring => pc[q] \in Acquiring /\ tried[q] \subseteq tried'[q]
           Dropped(q) == snapshot'[q] = {} /\ pc'[q] \notin Acquiring
           Taken(q) == /\ snapshot'[q] = {Current(c) : c \in Untried(q)}
                       /\ tried'[q] = tried[q] /\ registered' = registered
<1>1. generation' = generation /\ registered' \subseteq registered
    BY DEF Next, Step, Evaluate, Leave, Arrive, BeginAcquire, GiveUp, Admit, SelectRemoved,
       ChooseWait, SleepCooldown, NoAvailableKeys, EnterWait, QueuedTooLong, Wake, Cancel,
       Release, Notify, Record, RemoveCredential, ReInitialize, Tick, vars, pool
<1>2. ASSUME NEW r \in Request, Idle(r) \/ Admit(r) \/ Release(r),
             NEW q \in Request
      PROVE  Kept(q) \/ Dropped(q) \/ Taken(q)
    <2>1. CASE BeginAcquire(r)
        <3>1. CASE q = r
            BY <2>1, <3>1 DEF BeginAcquire, pool, TypeOK
        <3>2. CASE q # r
            BY <2>1, <3>2 DEF BeginAcquire, Goto, TypeOK
        <3> QED BY <3>1, <3>2
    <2>2. CASE Arrive(r) \/ GiveUp(r) \/ ChooseWait(r) \/ SleepCooldown(r) \/ EnterWait(r)
               \/ Wake(r) \/ Record(r) \/ Release(r)
        BY <2>2 DEF Arrive, GiveUp, ChooseWait, SleepCooldown, EnterWait, Wake, Record, Release,
           EndRequest, Goto, acquire, Acquiring, TypeOK
    <2>3. CASE Admit(r) \/ SelectRemoved(r) \/ NoAvailableKeys(r) \/ QueuedTooLong(r) \/ Cancel(r)
        BY <2>3 DEF Admit, SelectRemoved, NoAvailableKeys, QueuedTooLong, Cancel, EndRequest,
           LeaveAcquire, Goto, Acquiring, TypeOK
    <2>4. CASE Notify(r)
        BY <2>4 DEF Notify, Waiters, Acquiring, TypeOK
    <2> QED BY <1>2, <2>1, <2>2, <2>3, <2>4 DEF Idle
<1>3. ASSUME UNCHANGED request, NEW q \in Request PROVE Kept(q)
    BY <1>3 DEF request, acquire
<1>4. \A q \in Request : Kept(q) \/ Dropped(q) \/ Taken(q)
    <2> HIDE DEF Kept, Dropped, Taken
    <2> QED BY <1>2, <1>3, NextCases DEF RemoveCredential, ReInitialize
<1>5. ASSUME NEW q \in Request
      PROVE  /\ pc'[q] \in Acquiring =>
                    \A c \in registered' \ tried'[q] : Current(c)' \in snapshot'[q]
             /\ \A o \in snapshot'[q] : o = Current(o[1])'
    <2>1. \A c : Current(c)' = Current(c)
        BY <1>1 DEF Current
    <2>2. CASE Kept(q)
        BY <1>1, <2>1, <2>2 DEF SnapshotInv
    <2>3. CASE Dropped(q)
        BY <2>3
    <2>4. CASE Taken(q)
        BY <2>1, <2>4 DEF Untried, Current
    <2> QED BY <1>4, <2>2, <2>3, <2>4
<1> QED BY <1>5 DEF SnapshotInv

\* Unless a hot reload registers a removed credential anew, acquire_credential
\* fails before the deadline only when every untried credential that is still
\* registered cools down beyond it, whatever was removed, admitted or recorded
\* since the snapshot was taken (acquire_credential, "failing fast").
THEOREM FailingFastIsSound ==
    ASSUME ReAdd = {}
    PROVE  Spec => FailFastIsSound
<1> DEFINE Sound == \A r \in Request :
               pc[r] = "evaluate" /\ pc'[r] = "failed" /\ InTime(r) =>
                   \A c \in registered \ tried[r] : cooldown[Current(c)] > deadline[r]
<1>1. TypeOK /\ SnapshotInv /\ [Next]_vars => Sound
    <2> SUFFICES ASSUME TypeOK, SnapshotInv, [Next]_vars, NEW r \in Request,
                        pc[r] = "evaluate", pc'[r] = "failed", InTime(r),
                        NEW c \in registered \ tried[r]
                 PROVE  cooldown[Current(c)] > deadline[r]
        OBVIOUS
    <2>1. NoAvailableKeys(r)
        <3>1. PICK q \in Request : Admit(q) \/ Release(q) \/ Idle(q)
            BY NextCases DEF RemoveCredential, ReInitialize, request
        <3>2. q = r
            BY <3>1 DEF Idle, Arrive, BeginAcquire, GiveUp, Admit, SelectRemoved, ChooseWait,
               SleepCooldown, NoAvailableKeys, EnterWait, QueuedTooLong, Wake, Cancel, Release,
               Notify, Record, EndRequest, Goto, TypeOK
        <3> QED BY <3>1, <3>2 DEF Idle, Arrive, BeginAcquire, GiveUp, Admit, SelectRemoved,
               ChooseWait, SleepCooldown, EnterWait, QueuedTooLong, Wake, Cancel, Release,
               Notify, Record, EndRequest, Goto, TypeOK
    <2>2. /\ NothingAdmitted(r) /\ Busy(r) = {}
          /\ \A o \in CoolingDown(r) : cooldown[o] > deadline[r]
        BY <2>1 DEF NoAvailableKeys
    <2>3. Available(r) = {}
        <3>1. ASSUME NEW o \in Selectable(r), AtCapacity(Current(o[1])) PROVE FALSE
            <4>1. o \in snapshot[r] /\ Allowed(o)
                BY <3>1 DEF Selectable, Available
            <4>2. o = Current(o[1])
                BY <4>1 DEF SnapshotInv
            <4> QED BY <3>1, <4>1, <4>2 DEF Allowed
        <3> QED BY <2>2, <3>1 DEF NothingAdmitted
    <2>4. Current(c) \in snapshot[r]
        BY DEF SnapshotInv, Acquiring
    <2>5. ~AtCapacity(Current(c))
        BY <2>2, <2>4 DEF Busy
    <2>6. ~(cooldown[Current(c)] <= now)
        BY <2>3, <2>4, <2>5 DEF Available, Allowed
    <2>7. cooldown[Current(c)] > now
        <3>1. cooldown[Current(c)] \in Nat /\ now \in Nat
            BY CurrentType DEF TypeOK
        <3> QED BY <2>6, <3>1
    <2> QED BY <2>2, <2>4, <2>7 DEF CoolingDown
<1>2. TypeOK /\ SnapshotInv /\ [Next]_vars => [Sound]_vars
    <2> HIDE DEF Sound
    <2> QED BY <1>1
<1> QED BY TypeInit, TypeStep, SnapshotInit, SnapshotStep, <1>2, PTL DEF Spec, FailFastIsSound
------------------------------------------------------------------------------------
(* Waiting.                                                                *)

LEMMA WaitsStep == TypeOK /\ WaitsEndInTime /\ [Next]_vars => WaitsEndInTime'
<1> SUFFICES ASSUME TypeOK, WaitsEndInTime, [Next]_vars, NEW q \in Request
             PROVE  /\ pc'[q] \in {"waiting", "sleeping"} => wakeAt'[q] <= deadline'[q]
                    /\ pc'[q] = "waiting" => wakeAt'[q] <= now' + Recheck
    BY DEF WaitsEndInTime
<1> DEFINE Stays   == /\ pc'[q] = pc[q] /\ wakeAt'[q] = wakeAt[q] /\ deadline'[q] = deadline[q]
           Moves   == pc'[q] \notin {"waiting", "sleeping"}
           Waits   == wakeAt'[q] = WaitEnd(q) /\ deadline'[q] = deadline[q] /\ now' = now
           Sleeps  == /\ wakeAt'[q] <= deadline[q] /\ deadline'[q] = deadline[q]
                      /\ pc'[q] = "sleeping"
<1>1. now \in Nat /\ (now' = now \/ now' = now + 1) /\ Recheck \in Nat
    BY TimingAssumption DEF TypeOK, Next, Step, Evaluate, Leave, Arrive, BeginAcquire, GiveUp,
       Admit, SelectRemoved, ChooseWait, SleepCooldown, NoAvailableKeys, EnterWait,
       QueuedTooLong, Wake, Cancel, Release, Notify, Record, RemoveCredential, ReInitialize,
       Tick, vars
<1>2. ASSUME NEW r \in Request, Idle(r) \/ Admit(r) \/ Release(r)
      PROVE  Stays \/ Moves \/ Waits \/ Sleeps
    <2>1. CASE EnterWait(r)
        BY <2>1 DEF EnterWait, Goto, TypeOK
    <2>2. CASE SleepCooldown(r)
        <3>1. PICK t : t <= deadline[r] /\ wakeAt' = [wakeAt EXCEPT ![r] = t]
            BY <2>2 DEF SleepCooldown
        <3> QED BY <2>2, <3>1 DEF SleepCooldown, Goto, TypeOK
    <2>3. CASE Notify(r)
        BY <2>3 DEF Notify, TypeOK
    <2>4. CASE \/ Arrive(r) \/ BeginAcquire(r) \/ GiveUp(r) \/ ChooseWait(r) \/ Record(r)
               \/ Release(r)
        BY <2>4 DEF Arrive, BeginAcquire, GiveUp, ChooseWait, Record, Release, EndRequest,
           Goto, acquire, TypeOK
    <2>5. CASE \/ Admit(r) \/ SelectRemoved(r) \/ NoAvailableKeys(r) \/ QueuedTooLong(r)
               \/ Wake(r) \/ Cancel(r)
        BY <2>5 DEF Admit, SelectRemoved, NoAvailableKeys, QueuedTooLong, Wake, Cancel,
           EndRequest, LeaveAcquire, Goto, TypeOK
    <2> QED BY <1>2, <2>1, <2>2, <2>3, <2>4, <2>5 DEF Idle
<1>3. ASSUME UNCHANGED request PROVE Stays
    BY <1>3 DEF request, acquire
<1>4. Stays \/ Moves \/ Waits \/ Sleeps
    <2> HIDE DEF Stays, Moves, Waits, Sleeps
    <2> QED BY <1>2, <1>3, NextCases DEF RemoveCredential, ReInitialize
<1>5. wakeAt[q] \in Nat /\ deadline[q] \in Nat
    BY DEF TypeOK
<1>6. WaitEnd(q) <= deadline[q] /\ WaitEnd(q) <= now + Recheck
    BY <1>1, <1>5 DEF WaitEnd
<1> QED BY <1>1, <1>4, <1>5, <1>6 DEF WaitsEndInTime

\* No wait in acquire_credential outlasts the request's deadline, and no lost
\* notification costs a request more than one re-check.
THEOREM WaitsAlwaysEndInTime == Spec => []WaitsEndInTime
<1>1. Init => WaitsEndInTime
    BY DEF Init, WaitsEndInTime
<1> QED BY <1>1, WaitsStep, TypeCorrect, PTL DEF Spec
====================================================================================
