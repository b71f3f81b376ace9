----------------------------- MODULE FairCycle_proofs -----------------------------
(***************************************************************************)
(* Proofs about fair cycle rotation, for any requests, credentials, tiers, *)
(* limits and times.  The safety properties follow from TypeOK alone: what *)
(* they need is how one turn of select changes the books.                  *)
(***************************************************************************)
EXTENDS FairCycleProps, TLAPS

\* What checking leaves alone and what it marks (fair_cycle.py:79-113).
LEMMA CheckedBooks ==
    ASSUME TypeOK, NEW b \in Books, NEW S \in SUBSET Credential
    PROVE  /\ Checked(b, S) \in Books
           /\ Checked(b, S).requests = b.requests
           /\ Checked(b, S).tracked = b.tracked
           /\ \A c \in Credential : Checked(b, S).exhausted[c] =
                  (b.exhausted[c] \/ (c \in Reached(S) /\ QuotaReached(b, c)))
           /\ Checked(b, S).start \in {b.start, now}
<1>2. \A c \in Credential :
          (b.exhausted[c] \/ (c \in Reached(S) /\ QuotaReached(b, c))) \in BOOLEAN
  <2> TAKE c \in Credential
  <2>1. b.exhausted[c] \in BOOLEAN
    BY DEF Books
  <2> QED BY <2>1, Zenon DEF QuotaReached
<1> DEFINE E == [c \in Credential |->
                    b.exhausted[c] \/ (c \in Reached(S) /\ QuotaReached(b, c))]
           s == IF b.start = NoCycle /\ \E c \in Reached(S) : E[c]
                THEN now ELSE b.start
<1>3. Checked(b, S) = [tracked |-> b.tracked, exhausted |-> E,
                       requests |-> b.requests, start |-> s]
  BY Zenon DEF Checked
<1>4. E \in [Credential -> BOOLEAN]
  BY <1>2, Zenon
<1>5. s \in {b.start, now} /\ s \in Nat \cup {NoCycle}
  BY DEF Books, TypeOK
<1>6. b.requests \in [Credential -> Nat] /\ b.tracked \in SUBSET Credential
  BY DEF Books
<1>7. \A c \in Credential : E[c] =
          (b.exhausted[c] \/ (c \in Reached(S) /\ QuotaReached(b, c)))
  OBVIOUS
<1> HIDE DEF E, s
<1>8. Checked(b, S) \in Books
  BY <1>3, <1>4, <1>5, <1>6 DEF Books
<1> QED BY <1>3, <1>5, <1>7, <1>8

\* What a reset changes (fair_cycle.py:203-212).
LEMMA ResetBooks ==
    ASSUME TypeOK, NEW b \in Books, NEW T \in SUBSET Credential
    PROVE  /\ Reset(b, T) \in Books
           /\ \A c \in Credential :
                 /\ c \in T => ~Reset(b, T).exhausted[c]
                 /\ c \in T /\ QuotaReached(Reset(b, T), c) => NoQuota(c)
                 /\ c \notin T =>
                      /\ Reset(b, T).exhausted[c] = b.exhausted[c]
                      /\ QuotaReached(Reset(b, T), c) = QuotaReached(b, c)
                 /\ Reset(b, T).exhausted[c] => b.exhausted[c]
           /\ Reset(b, T).start = now
<1> DEFINE E == [c \in Credential |-> b.exhausted[c] /\ c \notin T]
           N == [c \in Credential |-> IF c \in T THEN 0 ELSE b.requests[c]]
<1>1. Reset(b, T) = [tracked |-> b.tracked, exhausted |-> E, requests |-> N, start |-> now]
  BY DEF Reset
<1>2. \A c \in Credential : b.exhausted[c] \in BOOLEAN /\ b.requests[c] \in Nat
  BY DEF Books
<1>3. E \in [Credential -> BOOLEAN] /\ N \in [Credential -> Nat]
  BY <1>2
<1>4. Reset(b, T) \in Books
  BY <1>1, <1>3 DEF Books, TypeOK
<1>5. ASSUME NEW c \in Credential, c \in T
      PROVE  ~Reset(b, T).exhausted[c] /\ (QuotaReached(Reset(b, T), c) => NoQuota(c))
  <2>1. ~E[c] /\ N[c] = 0
    BY <1>5
  <2> HIDE DEF E, N
  <2>2. QuotaReached(Reset(b, T), c) => NoQuota(c)
    BY <1>1, <2>1 DEF QuotaReached, NoQuota
  <2> QED BY <1>1, <2>1, <2>2
<1>6. ASSUME NEW c \in Credential, c \notin T
      PROVE  /\ Reset(b, T).exhausted[c] = b.exhausted[c]
             /\ QuotaReached(Reset(b, T), c) = QuotaReached(b, c)
  <2>1. /\ Reset(b, T).exhausted[c] = b.exhausted[c]
        /\ Reset(b, T).requests[c] = b.requests[c]
        /\ Reset(b, T).tracked = b.tracked
    BY <1>1, <1>2, <1>6
  <2> QED BY <2>1 DEF QuotaReached
<1> QED BY <1>1, <1>4, <1>5, <1>6

\* The groups of candidates are nonempty sets of candidates.
LEMMA GroupsOfCandidates ==
    ASSUME NEW S \in Candidates, NEW T \in Groups(S)
    PROVE  T \subseteq S /\ T # {}
BY DEF Groups, Candidates

\* One turn of select: the books after it, and why an exhausted credential was
\* put back (engine.py:118-142, 397-513).
LEMMA TurnedBooks ==
    ASSUME TypeOK, NEW S \in Candidates
    PROVE  /\ Turned(fc, S) \in Books
           /\ Turned(fc, S).start \in {fc.start, now}
           /\ \A c \in Reached(S) :
                 QuotaReached(Turned(fc, S), c) => Turned(fc, S).exhausted[c]
           /\ \A c \in Credential : fc.exhausted[c] /\ ~Turned(fc, S).exhausted[c] =>
                 \E T \in Groups(S) :
                    /\ c \in T
                    /\ AllExhausted(Checked(fc, S), T)
<1> DEFINE first == Checked(fc, S)
           reset == ToReset(first, S)
           U     == UNION reset
           clear == Reset(first, U)
           again == Checked(clear, S)
<1>0. S \in SUBSET Credential /\ fc \in Books /\ Reached(S) \subseteq Credential
  BY DEF Candidates, TypeOK, Reached
<1>1. /\ first \in Books
      /\ first.requests = fc.requests /\ first.tracked = fc.tracked
      /\ \A c \in Credential : first.exhausted[c] =
            (fc.exhausted[c] \/ (c \in Reached(S) /\ QuotaReached(fc, c)))
      /\ first.start \in {fc.start, now}
  BY <1>0, CheckedBooks
<1>2. CASE reset = {}
  <2>1. Turned(fc, S) = first
    BY <1>2 DEF Turned
  <2>2. \A c \in Credential : QuotaReached(first, c) = QuotaReached(fc, c)
    BY <1>1 DEF QuotaReached
  <2>3. \A c \in Reached(S) : QuotaReached(first, c) => first.exhausted[c]
    BY <1>0, <1>1, <2>2, Zenon
  <2>4. \A c \in Credential : fc.exhausted[c] => first.exhausted[c]
    BY <1>1, Zenon
  <2> HIDE DEF first, reset
  <2> QED BY <1>1, <2>1, <2>3, <2>4, Zenon
<1>3. CASE reset # {}
  <2>1. Turned(fc, S) = again
    BY <1>3 DEF Turned
  <2>2. reset \subseteq Groups(S) /\ \A T \in reset : AllExhausted(first, T)
    BY DEF ToReset
  <2>3. U \in SUBSET Credential
    BY <1>0, <2>2, GroupsOfCandidates
  <2>4. /\ clear \in Books
        /\ \A c \in Credential :
              c \notin U => clear.exhausted[c] = first.exhausted[c]
        /\ clear.start = now
    BY <1>1, <2>3, ResetBooks
  <2>5. /\ again \in Books
        /\ again.requests = clear.requests /\ again.tracked = clear.tracked
        /\ \A c \in Credential : again.exhausted[c] =
              (clear.exhausted[c] \/ (c \in Reached(S) /\ QuotaReached(clear, c)))
        /\ again.start = now
    BY <1>0, <2>4, CheckedBooks
  <2>6. \A c \in Credential : QuotaReached(again, c) = QuotaReached(clear, c)
    BY <2>5 DEF QuotaReached
  <2> HIDE DEF first, reset, clear, again
  <2>7. \A c \in Reached(S) : QuotaReached(again, c) => again.exhausted[c]
    BY <1>0, <2>5, <2>6, Zenon
  <2>8. ASSUME NEW c \in Credential, fc.exhausted[c], ~again.exhausted[c]
        PROVE  \E T \in Groups(S) : c \in T /\ AllExhausted(first, T)
    <3>1. first.exhausted[c] = TRUE
      BY <1>1, <2>8, Zenon
    <3>2. c \in U
      BY <2>4, <2>5, <2>8, <3>1, Zenon
    <3> QED BY <2>2, <3>2
  <2>9. \A c \in Credential : fc.exhausted[c] /\ ~again.exhausted[c] =>
            \E T \in Groups(S) : c \in T /\ AllExhausted(first, T)
    BY <2>8, Zenon
  <2> HIDE DEF U
  <2> QED BY <2>1, <2>5, <2>7, <2>9, Zenon DEF first
<1> QED BY <1>2, <1>3
------------------------------------------------------------------------------------
(* Type correctness.  A request that has yet to record must hold a         *)
(* credential, or recording would look one up that does not exist.         *)

HoldsLease == \A r \in Request : pc[r] \in {"running", "record"} => lease[r] \in Credential
TypeInv == TypeOK /\ HoldsLease

\* The recording operators keep the books well-formed.
LEMMA RecordedBooks ==
    ASSUME NEW b \in Books, NEW c \in Credential
    PROVE  /\ \A n \in Nat : Counted(b, c, n) \in Books /\ Counted(b, c, n).exhausted = b.exhausted
           /\ Marked(b, c) \in Books
           /\ \A until : AfterCooldown(b, c, until) \in Books
           /\ \A d \in Credential : \A until :
                 b.exhausted[d] => AfterCooldown(b, c, until).exhausted[d]
<1>1. /\ b.exhausted \in [Credential -> BOOLEAN] /\ b.requests \in [Credential -> Nat]
      /\ b.tracked \in SUBSET Credential
  BY DEF Books
<1> DEFINE t == [b EXCEPT !.tracked = @ \cup {c}]
<1>2. /\ t \in Books /\ t.exhausted = b.exhausted
      /\ t.exhausted \in [Credential -> BOOLEAN] /\ t.requests \in [Credential -> Nat]
  BY <1>1 DEF Books
<1>3. ASSUME NEW n \in Nat
      PROVE  Counted(b, c, n) \in Books /\ Counted(b, c, n).exhausted = b.exhausted
  <2>1. Counted(b, c, n) = [t EXCEPT !.requests[c] = @ + n]
    BY DEF Counted
  <2> HIDE DEF t
  <2>2. [t EXCEPT !.requests[c] = @ + n] \in Books
    BY <1>2 DEF Books
  <2>3. [t EXCEPT !.requests[c] = @ + n].exhausted = t.exhausted
    BY <1>2 DEF Books
  <2> QED BY <1>2, <2>1, <2>2, <2>3
<1>4. Marked(b, c) \in Books /\ Marked(b, c).exhausted = [b.exhausted EXCEPT ![c] = TRUE]
  <2>1. Marked(b, c) = [t EXCEPT !.exhausted[c] = TRUE]
    BY DEF Marked
  <2> HIDE DEF t
  <2>2. [t EXCEPT !.exhausted[c] = TRUE] \in Books
    BY <1>2 DEF Books
  <2>3. [t EXCEPT !.exhausted[c] = TRUE].exhausted = [t.exhausted EXCEPT ![c] = TRUE]
    BY <1>2 DEF Books
  <2> QED BY <1>2, <2>1, <2>2, <2>3
<1>5. \A d \in Credential : b.exhausted[d] => Marked(b, c).exhausted[d]
  BY <1>1, <1>4
<1> QED BY <1>3, <1>4, <1>5 DEF AfterCooldown

\* A cooldown set anew ends at a time.
LEMMA CooldownType ==
    ASSUME NEW f \in [Credential -> Nat], NEW c \in Credential, now \in Nat,
           NEW span \in CooldownSpan \cup OutageSpan
    PROVE  [f EXCEPT ![c] = CooledDown(@, span)] \in [Credential -> Nat]
  BY TimingAssumption DEF CooledDown, LaterOf

\* Where the recursion of select is stopped, some of the credentials that are
\* reset again and again are marked.
LEMMA OverflowBooks ==
    ASSUME NEW b \in Books, NEW X, NEW M
    PROVE  [b EXCEPT !.exhausted =
               [c \in Credential |-> IF c \in X THEN c \in M ELSE @[c]]] \in Books
<1> DEFINE E == [c \in Credential |-> IF c \in X THEN c \in M ELSE b.exhausted[c]]
<1>1. b.exhausted \in [Credential -> BOOLEAN]
  BY DEF Books
<1>2. \A c \in Credential :
          (IF c \in X THEN c \in M ELSE b.exhausted[c]) \in BOOLEAN
  <2> TAKE c \in Credential
  <2>1. b.exhausted[c] \in BOOLEAN
    BY <1>1
  <2>2. (c \in M) \in BOOLEAN
    BY SMT
  <2>3. CASE c \in X
    BY <2>2, <2>3, Zenon
  <2>4. CASE c \notin X
    BY <2>1, <2>4, Zenon
  <2> QED BY <2>3, <2>4
<1>3. E \in [Credential -> BOOLEAN]
  BY <1>2, Zenon
<1>4. [b EXCEPT !.exhausted = [c \in Credential |-> IF c \in X THEN c \in M ELSE @[c]]]
         = [b EXCEPT !.exhausted = E]
  BY DEF Books
<1> HIDE DEF E
<1>5. [b EXCEPT !.exhausted = E] \in Books
  BY <1>3 DEF Books
<1> QED BY <1>4, <1>5

\* What every recording step does to the request.
LEMMA FinishedRequest ==
    ASSUME TypeInv, NEW r \in Request, Finish(r), EndOrRotate(r) \/ EndRequest(r),
           fc' \in Books, cooldown' \in [Credential -> Nat], outage' \in [Credential -> Nat]
    PROVE  TypeInv'
BY DEF TypeInv, TypeOK, HoldsLease, Finish, EndOrRotate, EndRequest, Rotate

\* TypeInv is inductive.
THEOREM TypeInvariant == Spec => []TypeInv
<1>1. Init => TypeInv
  BY DEF Init, TypeInv, TypeOK, HoldsLease, Books, NoCycle
<1>2. TypeInv /\ [Next]_vars => TypeInv'
  <2> SUFFICES ASSUME TypeInv, [Next]_vars PROVE TypeInv'
    OBVIOUS
  <2> TypeOK
    BY DEF TypeInv
  <2>1. ASSUME NEW r \in Request, Arrive(r) PROVE TypeInv'
    BY <2>1 DEF Arrive, cooldowns, TypeInv, TypeOK, HoldsLease
  <2>2. ASSUME NEW r \in Request, Grant(r) PROVE TypeInv'
    <3>1. Untried(r) \in Candidates
      BY <2>2 DEF Grant, Untried, Candidates
    <3>2. fc' \in Books
      BY <2>2, <3>1, TurnedBooks DEF Grant
    <3>3. PICK c \in Open(fc', Untried(r)) :
             /\ lease' = [lease EXCEPT ![r] = c]
             /\ tried' = [tried EXCEPT ![r] = @ \cup {c}]
      BY <2>2 DEF Grant
    <3>4. c \in Credential
      BY DEF Open, Reached, Untried
    <3> QED BY <2>2, <3>2, <3>3, <3>4 DEF Grant, cooldowns, TypeInv, TypeOK, HoldsLease
  <2>3. ASSUME NEW r \in Request, Refuse(r) PROVE TypeInv'
    <3>1. Untried(r) \in Candidates
      BY <2>3 DEF Refuse, Untried, Candidates
    <3>2. fc' \in Books
      BY <2>3, <3>1, TurnedBooks DEF Refuse
    <3> QED BY <2>3, <3>2 DEF Refuse, request, cooldowns, TypeInv, TypeOK, HoldsLease
  <2>4. ASSUME NEW r \in Request, GiveUp(r) \/ Overflow(r) PROVE TypeInv'
    <3>1. CASE GiveUp(r)
      BY <3>1 DEF GiveUp, EndRequest, cooldowns, TypeInv, TypeOK, HoldsLease
    <3>2. CASE Overflow(r)
      <4>1. Untried(r) \in Candidates
        BY <3>2 DEF Overflow, Untried, Candidates
      <4>2. Turned(fc, Untried(r)) \in Books
        BY <4>1, TurnedBooks
      <4> DEFINE turned == Turned(fc, Untried(r))
                 again  == UNION ToReset(turned, Untried(r))
      <4>3. PICK marked \in SUBSET again :
               fc' = [turned EXCEPT !.exhausted =
                         [c \in Credential |-> IF c \in again THEN c \in marked ELSE @[c]]]
        BY <3>2 DEF Overflow
      <4> HIDE DEF turned, again
      <4>4. turned \in Books
        BY <4>2 DEF turned
      <4>5. fc' \in Books
        BY <4>3, <4>4, OverflowBooks
      <4> QED BY <3>2, <4>5 DEF Overflow, EndRequest, cooldowns, TypeInv, TypeOK, HoldsLease
    <3> QED BY <2>4, <3>1, <3>2
  <2>5. ASSUME NEW r \in Request, Release(r) PROVE TypeInv'
    BY <2>5 DEF Release, cooldowns, TypeInv, TypeOK, HoldsLease
  <2>6. ASSUME NEW r \in Request, Finish(r) PROVE lease[r] \in Credential
    BY <2>6 DEF Finish, TypeInv, HoldsLease
  <2>7. /\ fc \in Books /\ now \in Nat
        /\ cooldown \in [Credential -> Nat] /\ outage \in [Credential -> Nat]
    BY DEF TypeOK
  <2>8. ASSUME NEW c \in Credential, NEW n \in Nat
        PROVE  Counted(fc, c, n) \in Books /\ \A until : AfterCooldown(fc, c, until) \in Books
                  /\ AfterCooldown(Counted(fc, c, n), c, until) \in Books
    BY <2>7, RecordedBooks
  <2>9. ASSUME NEW r \in Request, RecordSuccess(r) PROVE TypeInv'
    BY <2>6, <2>7, <2>8, <2>9, FinishedRequest DEF RecordSuccess, cooldowns
  <2>10. ASSUME NEW r \in Request, RecordTransient(r) PROVE TypeInv'
    BY <2>6, <2>7, <2>8, <2>10, FinishedRequest DEF RecordTransient, cooldowns
  <2>11. ASSUME NEW r \in Request, RecordLimited(r) PROVE TypeInv'
    <3>1. lease[r] \in Credential
      BY <2>6, <2>11 DEF RecordLimited
    <3>2. fc' \in Books
      BY <2>8, <2>11, <3>1 DEF RecordLimited
    <3>3. cooldown' \in [Credential -> Nat]
      BY <2>7, <2>11, <3>1, CooldownType DEF RecordLimited
    <3> QED BY <2>7, <2>11, <3>2, <3>3, FinishedRequest DEF RecordLimited
  <2>12. ASSUME NEW r \in Request, RecordAuthFailure(r) PROVE TypeInv'
    <3>1. lease[r] \in Credential
      BY <2>6, <2>12 DEF RecordAuthFailure
    <3>2. fc' \in Books
      BY <2>7, <2>8, <2>12, <3>1 DEF RecordAuthFailure
    <3>3. outage' \in [Credential -> Nat]
      BY <2>7, <2>12, <3>1, CooldownType DEF RecordAuthFailure
    <3> QED BY <2>7, <2>12, <3>2, <3>3, FinishedRequest DEF RecordAuthFailure
  <2>13. ASSUME NEW c \in Credential, BaselineFresh(c) PROVE TypeInv'
    <3>1. fc.exhausted \in [Credential -> BOOLEAN] /\ fc.requests \in [Credential -> Nat]
      BY <2>7 DEF Books
    <3>2. fc' \in Books
      BY <2>7, <2>13, <3>1 DEF BaselineFresh, Books
    <3> QED BY <2>13, <3>2 DEF BaselineFresh, request, cooldowns, TypeInv, TypeOK, HoldsLease
  <2>14. ASSUME NEW c \in Credential, BaselineExhausted(c) PROVE TypeInv'
    <3>1. fc' \in Books
      BY <2>8, <2>14 DEF BaselineExhausted
    <3>2. cooldown' \in [Credential -> Nat]
      BY <2>7, <2>14, CooldownType DEF BaselineExhausted
    <3> QED BY <2>14, <3>1, <3>2 DEF BaselineExhausted, request, TypeInv, TypeOK, HoldsLease
  <2>15. ASSUME Tick PROVE TypeInv'
    BY <2>15 DEF Tick, request, cooldowns, TypeInv, TypeOK, HoldsLease
  <2>16. ASSUME UNCHANGED vars PROVE TypeInv'
    BY <2>16 DEF vars, request, cooldowns, TypeInv, TypeOK, HoldsLease
  <2> QED BY <2>1, <2>2, <2>3, <2>4, <2>5, <2>9, <2>10, <2>11, <2>12, <2>13,
             <2>14, <2>15, <2>16 DEF Next, Step
<1> QED BY <1>1, <1>2, PTL DEF Spec

\* Every variable keeps its type, in particular no counter goes negative.
THEOREM TypeCorrect == Spec => []TypeOK
<1>1. TypeInv => TypeOK
  BY DEF TypeInv
<1> QED BY <1>1, TypeInvariant, PTL
------------------------------------------------------------------------------------
(* The recursion of select ends, and the cycle does not block for ever.    *)

\* The second turn marks nothing that the first has not, and marks again only
\* what has no quota at all.
LEMMA SecondTurn ==
    ASSUME TypeOK, NEW S \in Candidates, ToReset(Checked(fc, S), S) # {}
    PROVE  \A c \in Credential : Turned(fc, S).exhausted[c] =>
              /\ Checked(fc, S).exhausted[c]
              /\ c \in UNION ToReset(Checked(fc, S), S) => NoQuota(c)
<1> DEFINE first == Checked(fc, S)
           U     == UNION ToReset(first, S)
           clear == Reset(first, U)
           again == Checked(clear, S)
<1>1. S \in SUBSET Credential /\ fc \in Books
  BY DEF Candidates, TypeOK
<1>2. /\ first \in Books
      /\ first.requests = fc.requests /\ first.tracked = fc.tracked
      /\ \A c \in Credential : first.exhausted[c] =
            (fc.exhausted[c] \/ (c \in Reached(S) /\ QuotaReached(fc, c)))
  BY <1>1, CheckedBooks
<1>3. U \in SUBSET Credential /\ \A c \in U : first.exhausted[c]
  BY <1>1, GroupsOfCandidates DEF ToReset, AllExhausted
<1>4. /\ clear \in Books
      /\ \A c \in Credential :
            /\ c \in U => ~clear.exhausted[c]
            /\ c \in U /\ QuotaReached(clear, c) => NoQuota(c)
            /\ c \notin U =>
                  /\ clear.exhausted[c] = first.exhausted[c]
                  /\ QuotaReached(clear, c) = QuotaReached(first, c)
  BY <1>2, <1>3, ResetBooks
<1>5. \A c \in Credential : again.exhausted[c] =
          (clear.exhausted[c] \/ (c \in Reached(S) /\ QuotaReached(clear, c)))
  BY <1>1, <1>4, CheckedBooks
<1>6. \A c \in Credential : QuotaReached(first, c) = QuotaReached(fc, c)
  BY <1>2 DEF QuotaReached
<1>7. Turned(fc, S) = again
  BY DEF Turned
<1> HIDE DEF first, U, clear, again
<1>8. ASSUME NEW c \in Credential, again.exhausted[c]
      PROVE  first.exhausted[c] /\ (c \in U => NoQuota(c))
  <2>1. CASE c \in U
    BY <1>3, <1>4, <1>5, <1>8, <2>1, Zenon
  <2>2. CASE c \notin U
    BY <1>2, <1>4, <1>5, <1>6, <1>8, <2>2, Zenon
  <2> QED BY <2>1, <2>2
<1> QED BY <1>7, <1>8, Zenon DEF first, U

\* Whatever the candidates, a reset is followed by another one only of groups
\* in which no candidate has a quota threshold above 0: for all others the
\* recursion of select (engine.py:118-142) ends after one turn.
THEOREM RecursionEnds == Spec => []SelectReturns
<1>1. TypeOK => SelectReturns
  <2> SUFFICES ASSUME TypeOK, NEW S \in Candidates,
                      NEW T \in ToReset(Turned(fc, S), S),
                      NEW c \in T, ~NoQuota(c)
               PROVE  FALSE
    BY DEF SelectReturns
  <2> DEFINE first == Checked(fc, S)
             reset == ToReset(first, S)
  <2>1. reset # {}
    BY DEF Turned
  <2>2. T \in Groups(S) /\ AllExhausted(Turned(fc, S), T) /\ ~HasShortCooldown(T)
    BY DEF ToReset
  <2>3. T \subseteq S /\ S \subseteq Credential
    BY <2>2, GroupsOfCandidates DEF Candidates
  <2>4. AllExhausted(first, T) /\ c \notin UNION reset
    BY <2>1, <2>2, <2>3, SecondTurn DEF AllExhausted
  <2>5. Open(first, S) = {} /\ Blocked(first, S) # {}
    BY <2>1 DEF ToReset
  <2>6. T \in reset
    BY <2>2, <2>4, <2>5 DEF ToReset
  <2> QED BY <2>4, <2>6
<1> QED BY <1>1, TypeCorrect, PTL

\* A tier none of whose candidates cools down or is at its ceiling yields a
\* credential, if the quota threshold of one of them is above 0: the fair cycle
\* delays requests, it never strands them.
THEOREM CycleNeverStrands == Spec => []NeverStuck
<1>1. TypeOK => NeverStuck
  <2> SUFFICES ASSUME TypeOK, NEW S \in Candidates, NEW T \in Groups(S),
                      T \subseteq Reached(S), NEW c \in T, ~NoQuota(c),
                      Open(Turned(fc, S), S) = {}
               PROVE  FALSE
    BY DEF NeverStuck
  <2> DEFINE first == Checked(fc, S)
             reset == ToReset(first, S)
  <2>1. T \subseteq S /\ S \subseteq Credential
    BY GroupsOfCandidates DEF Candidates
  <2>2. ~HasShortCooldown(T)
    BY DEF HasShortCooldown, Reached, CoolingDown
  <2>3. Open(first, S) = {}
    BY DEF Turned, ToReset
  <2>4. \A d \in T : first.exhausted[d] /\ ~Expired(first)
    BY <2>3 DEF Open
  <2>5. Blocked(first, S) # {}
    BY <2>1, <2>4 DEF Blocked
  <2>6. T \in reset
    BY <2>2, <2>3, <2>4, <2>5 DEF ToReset, AllExhausted
  <2>7. c \in Reached(S) /\ c \in Credential /\ c \in UNION reset
    BY <2>1, <2>6
  <2>8. ~Turned(fc, S).exhausted[c]
    BY <2>6, <2>7, SecondTurn
  <2> QED BY <2>7, <2>8 DEF Open
<1> QED BY <1>1, TypeCorrect, PTL
------------------------------------------------------------------------------------
(* What a step may do to the cycle.                                        *)

\* A quota threshold is a number of requests.
LEMMA ThresholdType == ASSUME NEW c \in Credential PROVE Threshold(c) \in Int
<1> DEFINE n == Limit[c] * ThresholdNum
<1>1. n \in Int /\ ThresholdDen \in Nat \ {0}
  BY QuotaAssumption
<1> HIDE DEF n
<1>2. n \div ThresholdDen \in Int
  BY <1>1
<1> QED BY <1>2 DEF Threshold, n

\* In a cycle that has not outlived its duration no spent credential is
\* selected (fair_cycle.py:79-115), whatever is released and not yet recorded.
THEOREM SpentAreSkipped == Spec => SelectedHasQuota
<1>1. ASSUME TypeOK, Next, NEW r \in Request, Selected(r), ~Expired(fc)
      PROVE  /\ ~fc'.exhausted[lease'[r]]
             /\ lease'[r] \in fc'.tracked /\ Limit[lease'[r]] > 0 =>
                  fc'.requests[lease'[r]] < Threshold(lease'[r])
  <2>1. Grant(r)
    <3>1. pc[r] = "select" /\ pc'[r] = "running" /\ pc \in [Request ->
              {"idle", "select", "running", "record", "done"}]
      BY <1>1 DEF Selected, TypeOK
    <3>2. \A q \in Request : Grant(q) => q = r
      BY <3>1 DEF Grant
    <3>3. \E q \in Request : Grant(q)
      BY <1>1, <3>1 DEF Next, Step, Arrive, Refuse, GiveUp, Release, RecordSuccess,
         Overflow, RecordTransient, RecordLimited, RecordAuthFailure, Finish, EndOrRotate,
         EndRequest, Rotate, BaselineFresh, BaselineExhausted, Tick, request
    <3> QED BY <3>2, <3>3
  <2> DEFINE S == Untried(r)
  <2>2. S \in Candidates /\ S \subseteq Credential
    BY <2>1 DEF Grant, Untried, Candidates
  <2>3. PICK c \in Open(fc', S) : lease' = [lease EXCEPT ![r] = c]
    BY <2>1 DEF Grant
  <2>4. lease'[r] = c /\ c \in Reached(S) /\ c \in Credential
    BY <1>1, <2>2, <2>3 DEF TypeOK, Open, Reached
  <2>5. /\ fc' \in Books
        /\ fc'.start \in {fc.start, now}
        /\ QuotaReached(fc', c) => fc'.exhausted[c]
    BY <1>1, <2>1, <2>2, <2>4, TurnedBooks DEF Grant
  <2>6. ~(fc'.start # NoCycle /\ now >= fc'.start + Duration)
    BY <1>1, <2>5, TimingAssumption DEF Expired, TypeOK, NoCycle
  <2>7. ~fc'.exhausted[c]
    BY <2>3, <2>6 DEF Open, Expired
  <2>8. ~QuotaReached(fc', c)
    BY <2>5, <2>7
  <2>9. c \in fc'.tracked /\ Limit[c] > 0 => fc'.requests[c] < Threshold(c)
    <3>1. fc'.requests[c] \in Nat /\ Threshold(c) \in Int
      BY <2>4, <2>5, ThresholdType DEF Books
    <3> QED BY <2>8, <3>1 DEF QuotaReached
  <2> QED BY <2>4, <2>7, <2>9
<1>2. TypeOK /\ [Next]_vars =>
        [\A r \in Request : Selected(r) /\ ~Expired(fc) =>
          /\ ~fc'.exhausted[lease'[r]]
          /\ lease'[r] \in fc'.tracked /\ Limit[lease'[r]] > 0 =>
                fc'.requests[lease'[r]] < Threshold(lease'[r])]_vars
  BY <1>1
<1> QED BY <1>2, TypeCorrect, PTL DEF Spec, SelectedHasQuota

\* An exhausted credential is put back while another of its tier is not
\* exhausted only by a baseline, or by a request that has tried that other one
\* (engine.py:397-513 sees the untried candidates only).
THEOREM EarlyResets == Spec => EarlyResetOnlyOnRotation
<1>1. ASSUME TypeOK, HoldsLease, Next, NEW c \in Credential, NEW d \in Credential,
             PutBackEarly(c, d)
      PROVE  \/ BaselineFresh(c)
             \/ \E r \in Request : pc[r] = "select" /\ d \in tried[r]
  <2>1. Tier[c] = Tier[d] /\ fc.exhausted[c] /\ ~fc'.exhausted[c]
        /\ ~fc.exhausted[d] /\ ~QuotaReached(fc, d)
    BY <1>1 DEF PutBackEarly
  <2>2. fc \in Books /\ fc.exhausted \in [Credential -> BOOLEAN]
        /\ fc.requests \in [Credential -> Nat]
    BY <1>1 DEF TypeOK, Books
  <2>3. ASSUME NEW r \in Request, pc[r] = "select", Untried(r) # {},
               NEW T \in Groups(Untried(r)),
               c \in T, AllExhausted(Checked(fc, Untried(r)), T)
        PROVE  d \in tried[r]
    <3> DEFINE S == Untried(r)
    <3>1. S \in Candidates /\ S \subseteq Credential
      BY <2>3 DEF Untried, Candidates
    <3>3. Checked(fc, S).exhausted[d] =
             (fc.exhausted[d] \/ (d \in Reached(S) /\ QuotaReached(fc, d)))
      BY <1>1, <2>2, <3>1, CheckedBooks
    <3>4. ~Checked(fc, S).exhausted[d]
      BY <2>1, <3>3, Zenon
    <3>5. d \notin T
      BY <2>3, <3>4 DEF AllExhausted
    <3>6. d \in S => d \in T
      BY <2>1, <2>3 DEF Groups
    <3> QED BY <3>5, <3>6 DEF Untried
  <2>4. ASSUME NEW k \in Credential, NEW n \in Nat
        PROVE  /\ Counted(fc, k, n).exhausted[c]
               /\ \A until : AfterCooldown(fc, k, until).exhausted[c]
               /\ \A until : AfterCooldown(Counted(fc, k, n), k, until).exhausted[c]
    <3>1. Counted(fc, k, n) \in Books /\ Counted(fc, k, n).exhausted = fc.exhausted
      BY <2>2, RecordedBooks
    <3> QED BY <2>1, <2>2, <3>1, RecordedBooks
  <2>5. ASSUME NEW r \in Request, Finish(r) PROVE lease[r] \in Credential
    BY <1>1, <2>5 DEF Finish, HoldsLease
  <2>6. ASSUME fc' = fc PROVE FALSE
    BY <2>1, <2>6
  <2>7. ASSUME NEW r \in Request, RecordSuccess(r) \/ RecordTransient(r) \/ RecordLimited(r)
                                      \/ RecordAuthFailure(r)
        PROVE  FALSE
    BY <2>1, <2>4, <2>5, <2>6, <2>7
       DEF RecordSuccess, RecordTransient, RecordLimited, RecordAuthFailure
  <2>8. ASSUME NEW k \in Credential, BaselineExhausted(k) PROVE FALSE
    BY <2>1, <2>4, <2>8 DEF BaselineExhausted
  <2>9. ASSUME NEW k \in Credential, BaselineFresh(k) PROVE BaselineFresh(c)
    <3>1. k # c => fc'.exhausted[c] = fc.exhausted[c]
      BY <2>2, <2>9 DEF BaselineFresh, Books
    <3> QED BY <2>1, <2>9, <3>1
  <2>10. ASSUME NEW r \in Request, Grant(r) \/ Refuse(r)
         PROVE  pc[r] = "select" /\ d \in tried[r]
    <3>1. /\ pc[r] = "select" /\ Untried(r) \in Candidates /\ Untried(r) # {}
          /\ fc' = Turned(fc, Untried(r))
      BY <2>10 DEF Grant, Refuse, Untried, Candidates
    <3>2. \E T \in Groups(Untried(r)) : c \in T /\ AllExhausted(Checked(fc, Untried(r)), T)
      BY <1>1, <2>1, <3>1, TurnedBooks
    <3> QED BY <2>3, <3>1, <3>2
  <2>11. ASSUME NEW r \in Request, Overflow(r)
         PROVE  pc[r] = "select" /\ d \in tried[r]
    <3> DEFINE S == Untried(r)
               again == UNION ToReset(Turned(fc, S), S)
    <3>1. pc[r] = "select" /\ S \in Candidates /\ S # {} /\ S \in SUBSET Credential
      BY <2>11 DEF Overflow, Untried, Candidates
    <3>2. PICK marked \in SUBSET again :
             fc' = [Turned(fc, S) EXCEPT !.exhausted =
                       [k \in Credential |-> IF k \in again THEN k \in marked ELSE @[k]]]
      BY <2>11 DEF Overflow
    <3>3. Turned(fc, S) \in Books
      BY <1>1, <3>1, TurnedBooks
    <3>4. CASE c \in again
      <4>1. PICK T \in Groups(S) : c \in T /\ AllExhausted(Turned(fc, S), T)
        BY <3>4 DEF ToReset
      <4>2. T \subseteq Credential
        BY <3>1, GroupsOfCandidates
      <4>3. AllExhausted(Checked(fc, S), T)
        BY <1>1, <3>1, <4>1, <4>2, SecondTurn DEF AllExhausted, Turned
      <4> QED BY <2>3, <3>1, <4>1, <4>3
    <3>5. CASE c \notin again
      <4>1. ~Turned(fc, S).exhausted[c]
        BY <2>1, <3>2, <3>3, <3>5 DEF Books
      <4>2. \E T \in Groups(S) : c \in T /\ AllExhausted(Checked(fc, S), T)
        BY <1>1, <2>1, <3>1, <4>1, TurnedBooks
      <4> QED BY <2>3, <3>1, <4>2
    <3> QED BY <3>4, <3>5
  <2>12. ASSUME NEW r \in Request, Arrive(r) \/ GiveUp(r) \/ Release(r) PROVE FALSE
    BY <2>6, <2>12 DEF Arrive, GiveUp, Release
  <2>13. ASSUME Tick PROVE FALSE
    BY <2>6, <2>13 DEF Tick
  <2> QED BY <1>1, <2>7, <2>8, <2>9, <2>10, <2>11, <2>12, <2>13 DEF Next, Step
<1>2. TypeOK /\ HoldsLease /\ [Next]_vars =>
        [\A c, d \in Credential : PutBackEarly(c, d) =>
          \/ BaselineFresh(c)
          \/ \E r \in Request : pc[r] = "select" /\ d \in tried[r]]_vars
  BY <1>1
<1> QED BY <1>2, TypeInvariant, PTL DEF Spec, EarlyResetOnlyOnRotation, TypeInv
====================================================================================
