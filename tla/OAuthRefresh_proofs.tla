----------------------------- MODULE OAuthRefresh_proofs -----------------------------
(* Proofs about refreshing tokens, for any number of credentials, requests, *)
(* attempts and retries.                                                    *)
EXTENDS OAuthRefreshProps, SequenceTheorems, TLAPS

Resting == {"none", "idle", "timedOut", "pause"}
Holding == {"post", "refused", "granted", "check"}
Busy    == Holding \cup {"lock"}

LEMMA OffType ==
    /\ Off \in Op /\ Off.pc = "none" /\ Off.current = TRUE
    /\ Idle \in Op /\ Idle.pc = "idle" /\ Idle.current = TRUE
  <1>1. (CHOOSE c \in Credential : TRUE) \in Credential
    BY OAuthAssumption
  <1>2. Off \in Op /\ Off.pc = "none" /\ Off.current = TRUE
    BY <1>1, OAuthAssumption DEF Off, Op, None
  <1> QED BY <1>2 DEF Idle, Op

LEMMA AfterType ==
    ASSUME NEW t
    PROVE  After(t) \in Op /\ After(t).pc \in Resting /\ After(t).current = TRUE
  BY OffType DEF After, Op, Resting

\* A task that begins to refresh c with the cached dict.
Begun(c) == [Idle EXCEPT !.pc = "lock", !.cred = c]

LEMMA BegunType ==
    ASSUME NEW c \in Credential
    PROVE  /\ Begun(c) \in Op
           /\ Begun(c).pc = "lock" /\ Begun(c).cred = c /\ Begun(c).current = TRUE
  BY OffType DEF Begun, Op

\* The effect of swapping the dicts of c on what a task is in.
LEMMA SwappedType ==
    ASSUME op \in [Task -> Op], NEW c \in Credential
    PROVE  /\ Swapped(c) \in [Task -> Op]
           /\ \A t \in Task :
                /\ Swapped(c)[t].pc = op[t].pc
                /\ Swapped(c)[t].cred = op[t].cred
                /\ Swapped(c)[t].token = op[t].token
                /\ Swapped(c)[t].new = op[t].new
                /\ op[t].cred = c /\ op[t].pc \in Busy
                      => Swapped(c)[t].current = ~op[t].current
                /\ ~(op[t].cred = c /\ op[t].pc \in Busy)
                      => Swapped(c)[t].current = op[t].current
  <1> SUFFICES ASSUME NEW t \in Task
               PROVE  /\ Swapped(c)[t] \in Op
                      /\ Swapped(c)[t].pc = op[t].pc
                      /\ Swapped(c)[t].cred = op[t].cred
                      /\ Swapped(c)[t].token = op[t].token
                      /\ Swapped(c)[t].new = op[t].new
                      /\ op[t].cred = c /\ op[t].pc \in Busy
                            => Swapped(c)[t].current = ~op[t].current
                      /\ ~(op[t].cred = c /\ op[t].pc \in Busy)
                            => Swapped(c)[t].current = op[t].current
    BY DEF Swapped
  <1>1. Refreshing(t, c) <=> op[t].cred = c /\ op[t].pc \in Busy
    BY DEF Refreshing, Holds, Busy, Holding
  <1>2. op[t] \in Op
    OBVIOUS
  <1>3. CASE Refreshing(t, c)
    <2>1. Swapped(c)[t] = [op[t] EXCEPT !.current = ~@]
      BY <1>3 DEF Swapped
    <2> QED BY <1>1, <1>2, <1>3, <2>1 DEF Op
  <1>4. CASE ~Refreshing(t, c)
    <2>1. Swapped(c)[t] = op[t]
      BY <1>4 DEF Swapped
    <2> QED BY <1>1, <1>2, <1>4, <2>1
  <1> QED BY <1>3, <1>4
----------------------------------------------------------------------------------------
(* What a step does to the tasks and to the dicts; several actions do the   *)
(* same.                                                                    *)

Quiet == UNCHANGED <<kind, memory, former, disk, known>>

\* A task ends its refresh, or goes from one rest to another; what it has
\* changed and not saved is noted.
Rests(t) ==
    /\ Quiet
    /\ \E x \in Op : x.pc \in Resting /\ op' = [op EXCEPT ![t] = x]
    /\ \A c \in Credential : apart[c] => apart'[c]
    /\ op[t].pc = "check" => apart'[op[t].cred]

Begins(t) ==
    /\ Quiet /\ UNCHANGED apart
    /\ op[t].pc \in Resting
    /\ \E c \in Credential : op' = [op EXCEPT ![t] = Begun(c)]

Posts(t) ==
    /\ Quiet /\ UNCHANGED apart
    /\ op[t].pc = "lock" /\ LockFree(op[t].cred) /\ ~Fresh(op[t].cred)
    /\ op' = [op EXCEPT ![t].pc = "post", ![t].attempt = 1, ![t].token = Dict(t).token]

\* The provider answers, or is asked again.
Proceeds(t) ==
    /\ Quiet /\ UNCHANGED apart
    /\ op[t].pc \in {"post", "refused", "granted"}
    /\ \E x \in Op :
         /\ x.pc \in {"post", "refused", "granted"}
         /\ x.cred = op[t].cred /\ x.current = op[t].current /\ x.token = op[t].token
         /\ x.pc = "granted" => x.new \in Token
         /\ op' = [op EXCEPT ![t] = x]

GrantedInPlace(t)  == kind = "google" /\ Granted(t)
GrantedAndSaved(t) == kind = "openai" /\ Granted(t)

\* Nothing but queues, marks and the provider's side changes.
Elsewhere == Quiet /\ UNCHANGED <<op, apart>>

LEMMA FailedRests ==
    ASSUME TypeOK, NEW t \in Task, NEW marks, Failed(t, marks), Quiet,
           \A c \in Credential : apart[c] => apart'[c],
           op[t].pc = "check" => apart'[op[t].cred]
    PROVE  Rests(t)
  BY AfterType DEF Failed, Rests

LEMMA SucceededRests ==
    ASSUME TypeOK, NEW t \in Task, Succeeded(t, op), Quiet, UNCHANGED apart, op[t].pc # "check"
    PROVE  Rests(t)
  BY AfterType DEF Succeeded, Rests

LEMMA TickEffect ==
    ASSUME TypeOK, NEW c \in Credential, Tick(c)
    PROVE  Rests(Processor) \/ Elsewhere
  <1>1. Quiet /\ UNCHANGED apart
    BY DEF Tick, Quiet, caches, history
  <1>2. CASE op[Processor].pc = "none"
    <2>1. op' = [op EXCEPT ![Processor] = Idle]
      BY <1>2 DEF Tick
    <2> QED BY <1>1, <1>2, <2>1, OffType DEF Rests, Resting
  <1>3. CASE op[Processor].pc # "none"
    BY <1>1, <1>3 DEF Tick, Elsewhere
  <1> QED BY <1>2, <1>3

LEMMA TakeEffect ==
    ASSUME TypeOK, Take
    PROVE  Begins(Processor) \/ Elsewhere
  <1>1. Quiet /\ UNCHANGED apart
    BY DEF Take, Quiet, caches, history
  <1>2. Head(queue) \in Credential
    BY DEF Take, TypeOK
  <1>3. op' = op \/ op' = [op EXCEPT ![Processor] = Begun(Head(queue))]
    BY DEF Take, Begun
  <1>4. op[Processor].pc \in Resting
    BY DEF Take, Resting
  <1> QED BY <1>1, <1>2, <1>3, <1>4 DEF Begins, Elsewhere

LEMMA ProcessorEffect ==
    ASSUME TypeOK, IdleTimer \/ IdleExit \/ WakeUp
    PROVE  Rests(Processor)
  <1>1. Quiet /\ UNCHANGED apart /\ op[Processor].pc # "check"
    BY DEF IdleTimer, IdleExit, WakeUp, Quiet, caches, history
  <1>2. op[Processor] \in Op
    BY DEF TypeOK, Task
  <1>3. CASE IdleTimer
    <2>1. op' = [op EXCEPT ![Processor] = [op[Processor] EXCEPT !.pc = "timedOut"]]
      BY <1>3 DEF IdleTimer
    <2>2. [op[Processor] EXCEPT !.pc = "timedOut"] \in Op
      BY <1>2 DEF Op
    <2>3. [op[Processor] EXCEPT !.pc = "timedOut"].pc \in Resting
      BY <1>2 DEF Op, Resting
    <2> QED BY <1>1, <2>1, <2>2, <2>3 DEF Rests
  <1>4. CASE IdleExit
    BY <1>1, <1>4, OffType DEF IdleExit, Rests, Resting
  <1>5. CASE WakeUp
    BY <1>1, <1>5, OffType DEF WakeUp, Rests, Resting
  <1> QED BY <1>3, <1>4, <1>5

LEMMA AcquireEffect ==
    ASSUME TypeOK, NEW t \in Task, Acquire(t)
    PROVE  Rests(t) \/ Posts(t)
  <1>1. Quiet /\ UNCHANGED apart /\ op[t].pc = "lock" /\ LockFree(op[t].cred)
    BY DEF Acquire, Quiet, caches, history
  <1>2. CASE Succeeded(t, op)
    BY <1>1, <1>2, SucceededRests
  <1>3. CASE ~Succeeded(t, op)
    BY <1>1, <1>3 DEF Acquire, Posts
  <1> QED BY <1>2, <1>3

LEMMA AnswerEffect ==
    ASSUME TypeOK, NEW t \in Task, Answer(t)
    PROVE  Proceeds(t)
  <1> DEFINE c == op[t].cred
  <1>1. Quiet /\ UNCHANGED apart /\ op[t].pc = "post"
    BY DEF Answer, Quiet, caches, history
  <1>2. op[t] \in Op /\ c \in Credential /\ valid[c] \subseteq Token /\ issued[c] \in Token
    BY DEF TypeOK, Op
  <1>3. ASSUME op' = [op EXCEPT ![t].pc = "refused"] PROVE Proceeds(t)
    <2> DEFINE x == [op[t] EXCEPT !.pc = "refused"]
    <2>1. op' = [op EXCEPT ![t] = x]
      BY <1>3
    <2>2. x \in Op /\ x.pc = "refused" /\ x.cred = c /\ x.current = op[t].current
            /\ x.token = op[t].token
      BY <1>2 DEF Op
    <2> HIDE DEF x
    <2> QED BY <1>1, <2>1, <2>2 DEF Proceeds
  <1>4. ASSUME NEW new \in Token, op' = [op EXCEPT ![t].pc = "granted", ![t].new = new]
        PROVE  Proceeds(t)
    <2> DEFINE x == [op[t] EXCEPT !.pc = "granted", !.new = new]
    <2>1. op' = [op EXCEPT ![t] = x]
      BY <1>4
    <2>2. x \in Op /\ x.pc = "granted" /\ x.cred = c /\ x.current = op[t].current
            /\ x.token = op[t].token /\ x.new = new
      BY <1>2 DEF Op
    <2> HIDE DEF x
    <2> QED BY <1>1, <2>1, <2>2 DEF Proceeds
  <1>5. issued[c] < MaxToken /\ issued' = [issued EXCEPT ![c] = @ + 1] => issued'[c] \in Token
    BY <1>2, OAuthAssumption DEF TypeOK, Token
  <1> HIDE DEF c
  <1>6. \/ op' = [op EXCEPT ![t].pc = "refused"]
        \/ \E new \in Token : op' = [op EXCEPT ![t].pc = "granted", ![t].new = new]
    BY <1>2, <1>5 DEF Answer, c
  <1> QED BY <1>3, <1>4, <1>6

LEMMA TransientEffect ==
    ASSUME TypeOK, NEW t \in Task, Transient(t)
    PROVE  Rests(t) \/ Proceeds(t)
  <1>1. Quiet /\ UNCHANGED apart /\ op[t].pc \in {"post", "refused", "granted"}
    BY DEF Transient, Quiet, caches, history
  <1>2. CASE Failed(t, queued)
    BY <1>1, <1>2, FailedRests
  <1>3. CASE ~Failed(t, queued)
    <2> DEFINE x == [op[t] EXCEPT !.pc = "post", !.new = None, !.attempt = @ + 1]
    <2>1. op[t].attempt < MaxAttempts /\ op' = [op EXCEPT ![t] = x]
      BY <1>3 DEF Transient
    <2>2. op[t] \in Op
      BY DEF TypeOK
    <2>3. op[t].attempt + 1 \in 0 .. MaxAttempts
      <3>1. op[t].attempt \in 0 .. MaxAttempts
        BY <2>2 DEF Op
      <3> QED BY <2>1, <3>1, OAuthAssumption
    <2>4. x \in Op
      BY <2>2, <2>3 DEF Op
    <2>5. x.pc = "post" /\ x.cred = op[t].cred /\ x.current = op[t].current
            /\ x.token = op[t].token
      BY <2>2 DEF Op
    <2> HIDE DEF x
    <2> QED BY <1>1, <2>1, <2>4, <2>5 DEF Proceeds
  <1> QED BY <1>2, <1>3

LEMMA CutEffect ==
    ASSUME TypeOK, NEW t \in Task, Refused(t) \/ Cut(t)
    PROVE  Rests(t)
  <1>1. Quiet
    BY DEF Refused, Cut, Quiet, caches, history
  <1>2. CASE Refused(t)
    <2>1. UNCHANGED apart /\ op[t].pc # "check"
      BY <1>2 DEF Refused, history
    <2>2. \E marks \in {queued, queued \ {op[t].cred}} : Failed(t, marks)
      BY <1>2 DEF Refused
    <2> QED BY <1>1, <2>1, <2>2, FailedRests
  <1>3. CASE Cut(t)
    <2>1. Failed(t, queued) /\ op[t].cred \in Credential
      BY <1>3 DEF Cut, TypeOK, Op
    <2>2. apart' = [apart EXCEPT ![op[t].cred] = @ \/ op[t].pc = "check"]
      BY <1>3 DEF Cut
    <2>3. \A c \in Credential : apart[c] => apart'[c]
      BY <2>2 DEF TypeOK
    <2>4. op[t].pc = "check" => apart'[op[t].cred]
      BY <2>1, <2>2 DEF TypeOK
    <2> QED BY <1>1, <2>1, <2>3, <2>4, FailedRests
  <1> QED BY <1>2, <1>3

\* The steps of the next-state relation, by their effect.
LEMMA Steps ==
    ASSUME TypeOK, [Next]_vars
    PROVE \/ \E t \in Task : Rests(t)
          \/ \E t \in Task : Begins(t)
          \/ \E t \in Task : Posts(t)
          \/ \E t \in Task : Proceeds(t)
          \/ \E t \in Task : GrantedInPlace(t)
          \/ \E t \in Task : GrantedAndSaved(t)
          \/ \E t \in Task : Checked(t)
          \/ \E c \in Credential : LoginSucceeds(c)
          \/ \E c \in Credential : WebLogin(c)
          \/ \E c \in Credential : Persist(c)
          \/ \E c \in Credential : Expire(c)
          \/ Restart
          \/ Elsewhere
  <1>1. Processor \in Task /\ Reader \subseteq Task
    BY DEF Task
  <1>2. ASSUME NEW c \in Credential, Escalate(c) \/ LoginFails(c) \/ Revoke(c) PROVE Elsewhere
    BY <1>2 DEF Escalate, LoginFails, Revoke, Elsewhere, Quiet, caches, history
  <1>3. ASSUME TakeLogin \/ LoginIdle \/ UNCHANGED vars PROVE Elsewhere
    BY <1>3 DEF TakeLogin, LoginIdle, vars, Elsewhere, Quiet, caches, history
  <1>4. ASSUME NEW r \in Reader, NEW c \in Credential, Start(r, c) PROVE Begins(r)
    BY <1>4 DEF Start, Begins, Begun, Quiet, caches, history, Resting
  <1>5. ASSUME NEW t \in Task, Granted(t) PROVE GrantedInPlace(t) \/ GrantedAndSaved(t)
    BY <1>5 DEF Granted, GrantedInPlace, GrantedAndSaved
  <1>6. ASSUME NEW t \in Task, Refresh(t) \/ Cut(t)
        PROVE  \/ Rests(t) \/ Posts(t) \/ Proceeds(t)
               \/ GrantedInPlace(t) \/ GrantedAndSaved(t) \/ Checked(t)
    BY <1>5, <1>6, AcquireEffect, AnswerEffect, TransientEffect, CutEffect DEF Refresh
  <1>7. CASE Take \/ IdleTimer \/ IdleExit \/ WakeUp
    BY <1>1, <1>7, TakeEffect, ProcessorEffect
  <1>8. CASE \E c \in Credential :
               Tick(c) \/ Escalate(c) \/ WebLogin(c) \/ Persist(c) \/ Expire(c) \/ Revoke(c)
    BY <1>1, <1>2, <1>8, TickEffect
  <1>9. CASE Relogin
    BY <1>2, <1>3, <1>9 DEF Relogin
  <1> QED BY <1>1, <1>3, <1>4, <1>6, <1>7, <1>8, <1>9 DEF Next
----------------------------------------------------------------------------------------
(* The invariant.                                                           *)

\* A dict that is not the cached one exists as long as a task works on it.
FormerExists ==
    \A t \in Task : op[t].pc \in Busy /\ ~op[t].current => former[op[t].cred] \in Creds

GrantIsToken == \A t \in Task : op[t].pc = "granted" => op[t].new \in Token

\* The lock of a credential.
Exclusive ==
    \A t, u \in Task :
        op[t].pc \in Holding /\ op[u].pc \in Holding /\ op[t].cred = op[u].cred => t = u

\* What is being validated is the newest token, unless the user has logged in
\* on the web page meanwhile, and it is not saved yet.
CheckedIsNewest ==
    \A t \in Task :
        op[t].pc = "check" =>
            /\ kind = "google"
            /\ Dict(t).token = known[op[t].cred] \/ apart[op[t].cred]
            /\ Dict(t).fresh = TRUE

Unsaved(c) == \E t \in Task : op[t].cred = c /\ op[t].pc = "check"

MemoryIsNewest == \A c \in Credential : memory[c].token = known[c] \/ apart[c] \/ Unsaved(c)

\* A former dict with a replaced token is not sent: the cached one is fresh,
\* and stays so while anybody refreshes.
FormerIsNewest ==
    \A t \in Task :
        LET c == op[t].cred
        IN  kind = "google" /\ op[t].pc \in Busy /\ ~op[t].current =>
                former[c].token = known[c] \/ apart[c] \/ memory[c].fresh = TRUE

\* Google's refusals are final: nobody is asked to log in.
NoLogins == kind = "google" => due = {} /\ logins = <<>> /\ login.pc # "flow"

Kept ==
    /\ FormerExists /\ GrantIsToken /\ Exclusive /\ CheckedIsNewest
    /\ MemoryIsNewest /\ FormerIsNewest
    /\ FileMatchesMemory /\ InFlightIsNewest

LEMMA OpOf ==
    ASSUME TypeOK, NEW t \in Task
    PROVE  /\ op[t] \in Op /\ op[t].cred \in Credential /\ op[t].token \in Token \cup {None}
           /\ op[t].current \in BOOLEAN
  BY DEF TypeOK, Op

LEMMA HoldsIsHolding ==
    ASSUME NEW t, NEW c
    PROVE  Holds(t, c) <=> op[t].cred = c /\ op[t].pc \in Holding
  BY DEF Holds, Holding
----------------------------------------------------------------------------------------
\* A task that stops, or begins, leaves the others and the dicts alone.
LEMMA RestsKeeps ==
    ASSUME TypeOK, Kept, NEW t \in Task, Rests(t)
    PROVE  Kept'
  <1>1. PICK x \in Op : x.pc \in Resting /\ op' = [op EXCEPT ![t] = x]
    BY DEF Rests
  <1>2. /\ op'[t] = x
        /\ \A u \in Task \ {t} : op'[u] = op[u]
    BY <1>1 DEF TypeOK
  <1>3. op'[t].pc \notin Busy /\ op'[t].pc \notin Holding /\ op'[t].pc \notin {"check", "granted"}
    BY <1>1, <1>2 DEF Busy, Holding, Resting
  <1>4. UNCHANGED <<kind, memory, former, disk, known>> /\ \A c \in Credential : apart[c] => apart'[c]
    BY DEF Rests, Quiet
  <1>5. \A c \in Credential : Unsaved(c) => Unsaved(c)' \/ apart'[c]
    BY <1>2 DEF Unsaved, Rests
  <1>6. \A u \in Task \ {t} : Dict(u)' = Dict(u)
    BY <1>2, <1>4 DEF Dict
  <1>7. FormerExists' /\ GrantIsToken' /\ Exclusive'
    BY <1>2, <1>3, <1>4 DEF Kept, FormerExists, GrantIsToken, Exclusive
  <1>8. CheckedIsNewest'
    BY <1>2, <1>3, <1>4, <1>6, OpOf DEF Kept, CheckedIsNewest
  <1>9. MemoryIsNewest'
    BY <1>4, <1>5 DEF Kept, MemoryIsNewest
  <1>10. FormerIsNewest'
    BY <1>2, <1>3, <1>4, OpOf DEF Kept, FormerIsNewest
  <1>11. FileMatchesMemory'
    BY <1>4, <1>5 DEF Kept, FileMatchesMemory, Unsaved
  <1>12. InFlightIsNewest'
    BY <1>2, <1>3, <1>4, OpOf DEF Kept, InFlightIsNewest, Holds, Holding
  <1> QED BY <1>7, <1>8, <1>9, <1>10, <1>11, <1>12 DEF Kept

LEMMA BeginsKeeps ==
    ASSUME TypeOK, Kept, NEW t \in Task, Begins(t)
    PROVE  Kept'
  <1>1. PICK c \in Credential : op' = [op EXCEPT ![t] = Begun(c)]
    BY DEF Begins
  <1>2. /\ op'[t].pc = "lock" /\ op'[t].current = TRUE
        /\ \A u \in Task \ {t} : op'[u] = op[u]
    BY <1>1, BegunType DEF TypeOK
  <1>3. UNCHANGED <<kind, memory, former, disk, known, apart>> /\ op[t].pc # "check"
    BY DEF Begins, Quiet, Resting
  <1>4. \A d \in Credential : Unsaved(d) => Unsaved(d)'
    BY <1>2, <1>3 DEF Unsaved
  <1>5. \A u \in Task \ {t} : Dict(u)' = Dict(u)
    BY <1>2, <1>3 DEF Dict
  <1>6. FormerExists' /\ GrantIsToken' /\ Exclusive'
    BY <1>2, <1>3 DEF Kept, FormerExists, GrantIsToken, Exclusive, Holding
  <1>7. CheckedIsNewest'
    BY <1>2, <1>3, <1>5 DEF Kept, CheckedIsNewest
  <1>8. MemoryIsNewest'
    BY <1>3, <1>4 DEF Kept, MemoryIsNewest
  <1>9. FormerIsNewest'
    BY <1>2, <1>3 DEF Kept, FormerIsNewest
  <1>10. FileMatchesMemory'
    BY <1>3, <1>4 DEF Kept, FileMatchesMemory, Unsaved
  <1>11. InFlightIsNewest'
    BY <1>2, <1>3 DEF Kept, InFlightIsNewest, Holds
  <1> QED BY <1>6, <1>7, <1>8, <1>9, <1>10, <1>11 DEF Kept

\* With the lock, and the token expired, the dict holds the newest token.
LEMMA PostsKeeps ==
    ASSUME TypeOK, Kept, NEW t \in Task, Posts(t)
    PROVE  Kept'
  <1> DEFINE c == op[t].cred
  <1>1. op[t] \in Op /\ c \in Credential /\ op[t].pc = "lock"
    BY OpOf DEF Posts
  <1>2. /\ op'[t].pc = "post" /\ op'[t].cred = c /\ op'[t].current = op[t].current
        /\ op'[t].token = Dict(t).token
        /\ \A u \in Task \ {t} : op'[u] = op[u]
    BY <1>1 DEF TypeOK, Posts, Op
  <1>3. UNCHANGED <<kind, memory, former, disk, known, apart>>
    BY DEF Posts, Quiet
  <1>4. \A u \in Task : ~(op[u].cred = c /\ op[u].pc \in Holding)
    BY HoldsIsHolding DEF Posts, LockFree
  <1>5. \A d \in Credential : Unsaved(d) => Unsaved(d)'
    BY <1>1, <1>2 DEF Unsaved
  <1>6. \A u \in Task \ {t} : Dict(u)' = Dict(u)
    BY <1>2, <1>3 DEF Dict
  <1>7. \/ Dict(t).token = known[c] \/ apart[c]
        \/ kind = "openai" /\ ~op[t].current
    <2>1. ~Unsaved(c)
      BY <1>4 DEF Unsaved, Holding
    <2>2. memory[c].token = known[c] \/ apart[c]
      BY <1>1, <2>1 DEF Kept, MemoryIsNewest
    <2>3. memory[c].fresh # TRUE
      BY DEF Posts, Fresh
    <2>4. kind = "google" /\ ~op[t].current => former[c].token = known[c] \/ apart[c]
      BY <1>1, <2>3 DEF Kept, FormerIsNewest, Busy
    <2> QED BY <2>2, <2>4 DEF Dict, TypeOK
  <1>8. FormerExists' /\ GrantIsToken'
    BY <1>1, <1>2, <1>3 DEF Kept, FormerExists, GrantIsToken, Busy
  <1>9. Exclusive'
    BY <1>2, <1>4 DEF Kept, Exclusive
  <1>10. CheckedIsNewest'
    BY <1>2, <1>3, <1>6 DEF Kept, CheckedIsNewest
  <1>11. MemoryIsNewest'
    BY <1>3, <1>5 DEF Kept, MemoryIsNewest
  <1>12. FormerIsNewest'
    BY <1>1, <1>2, <1>3 DEF Kept, FormerIsNewest, Busy
  <1>13. FileMatchesMemory'
    BY <1>3, <1>5 DEF Kept, FileMatchesMemory, Unsaved
  <1>14. InFlightIsNewest'
    BY <1>2, <1>3, <1>7 DEF Kept, InFlightIsNewest, Holds
  <1> QED BY <1>8, <1>9, <1>10, <1>11, <1>12, <1>13, <1>14 DEF Kept

LEMMA ProceedsKeeps ==
    ASSUME TypeOK, Kept, NEW t \in Task, Proceeds(t)
    PROVE  Kept'
  <1> DEFINE c == op[t].cred
  <1>1. PICK x \in Op :
             /\ x.pc \in {"post", "refused", "granted"}
             /\ x.cred = c /\ x.current = op[t].current /\ x.token = op[t].token
             /\ x.pc = "granted" => x.new \in Token
             /\ op' = [op EXCEPT ![t] = x]
    BY DEF Proceeds
  <1>2. op'[t] = x /\ \A u \in Task \ {t} : op'[u] = op[u]
    BY <1>1 DEF TypeOK
  <1>3. UNCHANGED <<kind, memory, former, disk, known, apart>>
    BY DEF Proceeds, Quiet
  <1>4. op[t].pc \in {"post", "refused", "granted"}
    BY DEF Proceeds
  <1>5. \A d \in Credential : Unsaved(d) => Unsaved(d)'
    BY <1>2, <1>4 DEF Unsaved
  <1>6. \A u \in Task \ {t} : Dict(u)' = Dict(u)
    BY <1>2, <1>3 DEF Dict
  <1>7. FormerExists' /\ GrantIsToken'
    BY <1>1, <1>2, <1>3, <1>4 DEF Kept, FormerExists, GrantIsToken, Busy, Holding
  <1>8. Exclusive'
    BY <1>1, <1>2, <1>4 DEF Kept, Exclusive, Holding
  <1>9. CheckedIsNewest'
    BY <1>1, <1>2, <1>3, <1>6 DEF Kept, CheckedIsNewest
  <1>10. MemoryIsNewest'
    BY <1>3, <1>5 DEF Kept, MemoryIsNewest
  <1>11. FormerIsNewest'
    BY <1>1, <1>2, <1>3, <1>4 DEF Kept, FormerIsNewest, Busy, Holding
  <1>12. FileMatchesMemory'
    BY <1>3, <1>5 DEF Kept, FileMatchesMemory, Unsaved
  <1>13. InFlightIsNewest'
    BY <1>1, <1>2, <1>3, <1>4 DEF Kept, InFlightIsNewest, Holds
  <1> QED BY <1>7, <1>8, <1>9, <1>10, <1>11, <1>12, <1>13 DEF Kept

LEMMA ElsewhereKeeps ==
    ASSUME Kept, Elsewhere
    PROVE  Kept'
  <1>1. UNCHANGED <<kind, memory, former, disk, known, op, apart>>
    BY DEF Elsewhere, Quiet
  <1> QED BY <1>1 DEF Kept, FormerExists, GrantIsToken, Exclusive, CheckedIsNewest,
       MemoryIsNewest, FormerIsNewest, FileMatchesMemory, InFlightIsNewest, Unsaved, Dict, Holds
----------------------------------------------------------------------------------------
\* A new token arrives.  Google's base puts it into the dict of the refresh.
LEMMA GrantedInPlaceKeeps ==
    ASSUME TypeOK, Kept, NEW t \in Task, GrantedInPlace(t)
    PROVE  Kept'
  <1> DEFINE c == op[t].cred
             r == [token |-> op[t].new, fresh |-> TRUE]
  <1>1. op[t] \in Op /\ c \in Credential /\ op[t].pc = "granted" /\ op[t].new \in Token
    BY OpOf DEF GrantedInPlace, Granted, Kept, GrantIsToken
  <1>2. r \in Creds /\ r.token = op[t].new /\ r.fresh = TRUE
    BY <1>1 DEF Creds
  <1>3. /\ op'[t].pc = "check" /\ op'[t].cred = c /\ op'[t].current = op[t].current
        /\ \A u \in Task \ {t} : op'[u] = op[u]
    BY <1>1 DEF TypeOK, GrantedInPlace, Granted, Op
  <1>4. /\ kind = "google" /\ kind' = kind /\ UNCHANGED <<disk, apart>>
        /\ known' = [known EXCEPT ![c] = op[t].new]
        /\ op[t].current => memory' = [memory EXCEPT ![c] = r] /\ former' = former
        /\ ~op[t].current => memory' = memory /\ former' = [former EXCEPT ![c] = r]
    BY DEF GrantedInPlace, Granted
  <1> HIDE DEF r
  <1>5. /\ known'[c] = op[t].new
        /\ op[t].current => memory'[c] = r
        /\ ~op[t].current => former'[c] = r
        /\ \A d \in Credential \ {c} :
             known'[d] = known[d] /\ memory'[d] = memory[d] /\ former'[d] = former[d]
    BY <1>1, <1>4 DEF TypeOK
  <1>6. \A u \in Task \ {t} : op[u].cred = c => op[u].pc \notin Holding
    BY <1>1 DEF Kept, Exclusive, Holding
  <1>7. \A u \in Task \ {t} : op[u].cred # c => Dict(u)' = Dict(u)
    BY <1>3, <1>5, OpOf DEF Dict
  <1>8. \A d \in Credential : Unsaved(d) \/ d = c => Unsaved(d)'
    BY <1>1, <1>3 DEF Unsaved
  <1>9. FormerExists'
    BY <1>1, <1>2, <1>3, <1>4, <1>5, OpOf DEF Kept, FormerExists, Busy, Holding
  <1>10. GrantIsToken' /\ Exclusive'
    BY <1>1, <1>3 DEF Kept, GrantIsToken, Exclusive, Holding
  <1>11. CheckedIsNewest'
    <2>1. Dict(t)' = r
      BY <1>3, <1>5 DEF Dict
    <2>2. \A u \in Task \ {t} : op[u].pc = "check" => op[u].cred # c
      BY <1>6 DEF Holding
    <2>3. \A u \in Task \ {t} : op[u].pc = "check" =>
            /\ kind' = "google" /\ Dict(u)'.fresh = TRUE
            /\ Dict(u)'.token = known'[op[u].cred] \/ apart'[op[u].cred]
      BY <1>4, <1>5, <1>7, <2>2, OpOf DEF Kept, CheckedIsNewest
    <2> QED BY <1>2, <1>3, <1>4, <1>5, <2>1, <2>3 DEF CheckedIsNewest
  <1>12. MemoryIsNewest'
    BY <1>4, <1>5, <1>8 DEF Kept, MemoryIsNewest
  <1>13. FormerIsNewest'
    <2>1. ASSUME NEW u \in Task, op'[u].pc \in Busy, ~op'[u].current
          PROVE  LET d == op'[u].cred
                 IN  former'[d].token = known'[d] \/ apart'[d] \/ memory'[d].fresh = TRUE
      <3>1. CASE op'[u].cred = c
        BY <1>2, <1>4, <1>5, <3>1
      <3>2. CASE op'[u].cred # c
        BY <1>3, <1>4, <1>5, <2>1, <3>2, OpOf DEF Kept, FormerIsNewest
      <3> QED BY <3>1, <3>2
    <2> QED BY <2>1 DEF FormerIsNewest
  <1>14. FileMatchesMemory'
    BY <1>4, <1>5, <1>8 DEF Kept, FileMatchesMemory, Unsaved
  <1>15. InFlightIsNewest'
    BY <1>3, <1>4, <1>5, <1>6, OpOf DEF Kept, InFlightIsNewest, Holds, Holding
  <1> QED BY <1>9, <1>10, <1>11, <1>12, <1>13, <1>14, <1>15 DEF Kept

\* A refresh that caches its dict swaps the dicts of the others, if it was
\* the former one, and ends.
LEMMA CachingOps ==
    ASSUME TypeOK, NEW t \in Task,
           op' = [OthersAfterCaching(t) EXCEPT ![t] = After(t)]
    PROVE  /\ op' \in [Task -> Op]
           /\ op'[t].pc \in Resting
           /\ \A u \in Task \ {t} :
                /\ op'[u].pc = op[u].pc /\ op'[u].cred = op[u].cred
                /\ op'[u].token = op[u].token /\ op'[u].new = op[u].new
                /\ op'[u].current = IF op[u].cred = op[t].cred /\ op[u].pc \in Busy
                                       /\ ~op[t].current
                                    THEN ~op[u].current ELSE op[u].current
  <1>1. op \in [Task -> Op] /\ op[t].cred \in Credential /\ op[t].current \in BOOLEAN
    BY OpOf DEF TypeOK
  <1>2. CASE op[t].current
    <2>1. op' = [op EXCEPT ![t] = After(t)]
      BY <1>2 DEF OthersAfterCaching
    <2>2. After(t) \in Op /\ After(t).pc \in Resting
      BY AfterType
    <2>3. op'[t] = After(t) /\ \A u \in Task \ {t} : op'[u] = op[u]
      BY <1>1, <2>1
    <2>4. op' \in [Task -> Op]
      BY <1>1, <2>1, <2>2
    <2> QED BY <1>2, <2>2, <2>3, <2>4
  <1>3. CASE ~op[t].current
    <2>1. op' = [Swapped(op[t].cred) EXCEPT ![t] = After(t)]
      BY <1>3 DEF OthersAfterCaching
    <2>2. After(t) \in Op /\ After(t).pc \in Resting
      BY AfterType
    <2>3. Swapped(op[t].cred) \in [Task -> Op]
      BY <1>1, SwappedType
    <2>4. op'[t] = After(t) /\ \A u \in Task \ {t} : op'[u] = Swapped(op[t].cred)[u]
      BY <2>1, <2>3
    <2>5. op' \in [Task -> Op]
      BY <2>1, <2>2, <2>3
    <2> QED BY <1>1, <1>3, <2>2, <2>4, <2>5, SwappedType
  <1> QED BY <1>2, <1>3

LEMMA CachingCaches ==
    ASSUME TypeOK, NEW t \in Task, NEW r, Cache(t, r), Write(op[t].cred, r)
    PROVE  LET c == op[t].cred
           IN  /\ memory'[c] = r /\ disk'[c] = r /\ (apart'[c] <=> r.token # known'[c])
               /\ op[t].current => former' = former
               /\ ~op[t].current => former'[c] = memory[c]
               /\ \A d \in Credential \ {c} :
                    /\ memory'[d] = memory[d] /\ disk'[d] = disk[d]
                    /\ former'[d] = former[d] /\ apart'[d] = apart[d]
  <1> DEFINE c == op[t].cred
  <1>1. c \in Credential
    BY OpOf
  <1>2. PICK b : b = (r.token # known'[c])
    OBVIOUS
  <1>3. b \in BOOLEAN /\ apart' = [apart EXCEPT ![c] = b]
    BY <1>2, Zenon DEF Write
  <1>4. apart'[c] = b /\ \A d \in Credential \ {c} : apart'[d] = apart[d]
    BY <1>1, <1>3 DEF TypeOK
  <1>5. apart'[c] <=> r.token # known'[c]
    BY <1>2, <1>4, Zenon
  <1>6. /\ memory'[c] = r /\ disk'[c] = r
        /\ op[t].current => former' = former
        /\ ~op[t].current => former'[c] = memory[c]
        /\ \A d \in Credential \ {c} :
             memory'[d] = memory[d] /\ disk'[d] = disk[d] /\ former'[d] = former[d]
    BY <1>1 DEF TypeOK, Cache, Write
  <1> QED BY <1>4, <1>5, <1>6

LEMMA CachingKeeps ==
    ASSUME TypeOK, Kept, NEW t \in Task, op[t].pc \in Holding,
           NEW r \in Creds, r.fresh = TRUE,
           Cache(t, r), Write(op[t].cred, r), UNCHANGED kind,
           \A d \in Credential \ {op[t].cred} : known'[d] = known[d],
           op' = [OthersAfterCaching(t) EXCEPT ![t] = After(t)]
    PROVE  Kept'
  <1>1. PICK c \in Credential : c = op[t].cred
    BY OpOf
  <1>2. /\ memory'[c] = r /\ disk'[c] = r /\ (apart'[c] <=> r.token # known'[c])
        /\ op[t].current => former' = former
        /\ ~op[t].current => former'[c] = memory[c]
        /\ \A d \in Credential \ {c} :
             /\ memory'[d] = memory[d] /\ disk'[d] = disk[d]
             /\ former'[d] = former[d] /\ apart'[d] = apart[d]
    BY <1>1, CachingCaches
  <1>3. /\ op'[t].pc \notin Busy /\ op'[t].pc \notin Holding
        /\ op'[t].pc \notin {"check", "granted"}
        /\ \A u \in Task \ {t} :
             /\ op'[u].pc = op[u].pc /\ op'[u].cred = op[u].cred
             /\ op'[u].token = op[u].token /\ op'[u].new = op[u].new
             /\ op'[u].current = IF op[u].cred = c /\ op[u].pc \in Busy /\ ~op[t].current
                                 THEN ~op[u].current ELSE op[u].current
    BY <1>1, CachingOps DEF Busy, Holding, Resting
  <1>4. \A u \in Task \ {t} : op[u].pc \in Holding =>
            op[u].cred # c /\ op'[u].current = op[u].current /\ op[u].cred \in Credential
    BY <1>1, <1>3, OpOf DEF Kept, Exclusive
  <1>5. \A d \in Credential \ {c} : Unsaved(d) => Unsaved(d)'
    BY <1>1, <1>3 DEF Unsaved
  <1>6. FormerExists'
    <2>1. ASSUME NEW u \in Task \ {t}, op[u].pc \in Busy, ~op'[u].current
          PROVE  former'[op[u].cred] \in Creds
      <3>1. CASE op[u].cred # c
        BY <1>2, <1>3, <2>1, <3>1, OpOf DEF Kept, FormerExists
      <3>2. CASE op[u].cred = c /\ op[t].current
        BY <1>2, <1>3, <2>1, <3>2 DEF Kept, FormerExists
      <3>3. CASE op[u].cred = c /\ ~op[t].current
        BY <1>2, <3>3 DEF TypeOK
      <3> QED BY <3>1, <3>2, <3>3
    <2> QED BY <1>3, <2>1 DEF FormerExists
  <1>7. GrantIsToken' /\ Exclusive'
    BY <1>3 DEF Kept, GrantIsToken, Exclusive
  <1>8. CheckedIsNewest'
    <2>1. ASSUME NEW u \in Task \ {t}, op[u].pc = "check"
          PROVE  Dict(u)' = Dict(u)
      <3>1. op[u].cred # c /\ op[u].cred \in Credential /\ op'[u].current = op[u].current
        BY <1>4, <2>1 DEF Holding
      <3> QED BY <1>2, <1>3, <3>1 DEF Dict
    <2> QED BY <1>1, <1>2, <1>3, <1>4, <2>1 DEF Kept, CheckedIsNewest, Holding
  <1>9. MemoryIsNewest'
    BY <1>1, <1>2, <1>5 DEF Kept, MemoryIsNewest
  <1>10. FormerIsNewest'
    <2>1. ASSUME NEW u \in Task \ {t}, kind = "google", op[u].pc \in Busy, ~op'[u].current,
                 op[u].cred # c
          PROVE  LET d == op[u].cred
                 IN  former[d].token = known[d] \/ apart[d] \/ memory[d].fresh = TRUE
      BY <1>3, <2>1 DEF Kept, FormerIsNewest
    <2>2. ASSUME NEW u \in Task \ {t}, kind = "google", op[u].pc \in Busy, ~op'[u].current
          PROVE  LET d == op[u].cred
                 IN  former'[d].token = known'[d] \/ apart'[d] \/ memory'[d].fresh = TRUE
      BY <1>1, <1>2, <2>1, <2>2, OpOf
    <2> QED BY <1>3, <2>2 DEF FormerIsNewest
  <1>11. FileMatchesMemory'
    BY <1>2, <1>5 DEF Kept, FileMatchesMemory, Unsaved
  <1>12. InFlightIsNewest'
    BY <1>1, <1>2, <1>3, <1>4 DEF Kept, InFlightIsNewest, Holds, Holding
  <1> QED BY <1>6, <1>7, <1>8, <1>9, <1>10, <1>11, <1>12 DEF Kept

LEMMA CheckedKeeps ==
    ASSUME TypeOK, Kept, NEW t \in Task, Checked(t)
    PROVE  Kept'
  <1>1. op[t].pc = "check" /\ op[t].pc \in Holding /\ op[t].cred \in Credential
    BY OpOf DEF Checked, Holding
  <1>2. Dict(t) \in Creds
    BY <1>1, OpOf DEF Kept, FormerExists, TypeOK, Dict, Busy
  <1>3. Dict(t).fresh = TRUE
    BY <1>1 DEF Kept, CheckedIsNewest
  <1>4. /\ Cache(t, Dict(t)) /\ Write(op[t].cred, Dict(t)) /\ UNCHANGED <<kind, known>>
        /\ op' = [OthersAfterCaching(t) EXCEPT ![t] = After(t)]
    BY DEF Checked, Succeeded
  <1> QED BY <1>1, <1>2, <1>3, <1>4, CachingKeeps

LEMMA GrantedAndSavedKeeps ==
    ASSUME TypeOK, Kept, NEW t \in Task, GrantedAndSaved(t)
    PROVE  Kept'
  <1> DEFINE r == [token |-> op[t].new, fresh |-> TRUE]
  <1>1. op[t].pc = "granted" /\ op[t].pc \in Holding /\ op[t].cred \in Credential
    BY OpOf DEF GrantedAndSaved, Granted, Holding
  <1>2. r \in Creds /\ r.fresh = TRUE /\ r.token = op[t].new
    BY <1>1 DEF Kept, GrantIsToken, Creds
  <1>3. /\ Cache(t, r) /\ Write(op[t].cred, r) /\ UNCHANGED kind
        /\ op' = [OthersAfterCaching(t) EXCEPT ![t] = After(t)]
        /\ known' = [known EXCEPT ![op[t].cred] = op[t].new]
    BY DEF GrantedAndSaved, Granted, Succeeded
  <1>4. /\ known'[op[t].cred] = op[t].new
        /\ \A d \in Credential \ {op[t].cred} : known'[d] = known[d]
    BY <1>1, <1>3 DEF TypeOK
  <1> HIDE DEF r
  <1> QED BY <1>1, <1>2, <1>3, <1>4, CachingKeeps
----------------------------------------------------------------------------------------
\* Another dict becomes the cached one while tasks work on the old one.
LEMMA ReplacingOps ==
    ASSUME TypeOK, NEW c \in Credential, NEW r \in Creds, Replace(c, r)
    PROVE  /\ op' \in [Task -> Op]
           /\ \A u \in Task :
                /\ op'[u].pc = op[u].pc /\ op'[u].cred = op[u].cred
                /\ op'[u].token = op[u].token /\ op'[u].new = op[u].new
                /\ op[u].cred = c /\ op[u].pc \in Busy
                      => op[u].current /\ ~op'[u].current /\ former'[c] = memory[c]
                /\ op[u].cred # c => op'[u].current = op[u].current
           /\ memory'[c] = r
           /\ \A d \in Credential \ {c} : memory'[d] = memory[d] /\ former'[d] = former[d]
  <1>1. op \in [Task -> Op] /\ op' = Swapped(c)
    BY DEF TypeOK, Replace
  <1>2. \A u \in Task : Refreshing(u, c) <=> op[u].cred = c /\ op[u].pc \in Busy
    BY DEF Refreshing, Holds, Busy, Holding
  <1>3. /\ memory'[c] = r
        /\ \A d \in Credential \ {c} : memory'[d] = memory[d] /\ former'[d] = former[d]
        /\ (\E u \in Task : Refreshing(u, c)) => former'[c] = memory[c]
        /\ \A u \in Task : Refreshing(u, c) => op[u].current
    BY DEF TypeOK, Replace
  <1>4. op' \in [Task -> Op]
    BY <1>1, SwappedType
  <1>5. ASSUME NEW u \in Task
        PROVE  /\ op'[u].pc = op[u].pc /\ op'[u].cred = op[u].cred
               /\ op'[u].token = op[u].token /\ op'[u].new = op[u].new
               /\ op[u].cred = c /\ op[u].pc \in Busy => op'[u].current = ~op[u].current
               /\ op[u].cred # c => op'[u].current = op[u].current
    BY <1>1, <1>5, SwappedType
  <1>6. ASSUME NEW u \in Task, op[u].cred = c, op[u].pc \in Busy
        PROVE  op[u].current /\ ~op'[u].current /\ former'[c] = memory[c]
    BY <1>2, <1>3, <1>5, <1>6
  <1> QED BY <1>3, <1>4, <1>5, <1>6

LEMMA LoginKeeps ==
    ASSUME TypeOK, Kept, NoLogins, NEW c \in Credential, LoginSucceeds(c)
    PROVE  Kept'
  <1> DEFINE r == [token |-> issued'[c], fresh |-> TRUE]
  <1>1. kind # "google" /\ kind = "openai" /\ kind' = kind
    BY DEF LoginSucceeds, LoginEnds, NoLogins, TypeOK
  <1>2. issued'[c] \in Token
    <2>1. issued'[c] = issued[c] + 1 /\ issued[c] \in Token /\ issued[c] < MaxToken
      BY DEF TypeOK, LoginSucceeds, LoggedIn
    <2> QED BY <2>1, OAuthAssumption DEF Token
  <1>3. r \in Creds /\ r.token = issued'[c]
    BY <1>2 DEF Creds
  <1>4. Replace(c, r) /\ Write(c, r) /\ known' = [known EXCEPT ![c] = issued'[c]]
    BY DEF LoginSucceeds, LoggedIn
  <1> HIDE DEF r
  <1>5. /\ disk'[c] = r /\ known'[c] = issued'[c]
        /\ \A d \in Credential \ {c} :
             disk'[d] = disk[d] /\ apart'[d] = apart[d] /\ known'[d] = known[d]
    BY <1>4 DEF TypeOK, Write, LoggedIn
  <1>6. /\ \A u \in Task :
             /\ op'[u].pc = op[u].pc /\ op'[u].cred = op[u].cred
             /\ op'[u].token = op[u].token /\ op'[u].new = op[u].new
             /\ op[u].cred = c /\ op[u].pc \in Busy
                   => op[u].current /\ ~op'[u].current /\ former'[c] = memory[c]
             /\ op[u].cred # c => op'[u].current = op[u].current
        /\ memory'[c] = r
        /\ \A d \in Credential \ {c} : memory'[d] = memory[d] /\ former'[d] = former[d]
    BY <1>3, <1>4, ReplacingOps
  <1>7. \A u \in Task : op[u].pc # "check"
    BY <1>1 DEF Kept, CheckedIsNewest
  <1>8. FormerExists'
    <2>1. ASSUME NEW u \in Task, op[u].pc \in Busy, ~op'[u].current
          PROVE  former'[op[u].cred] \in Creds
      <3>1. CASE op[u].cred = c
        BY <1>6, <2>1, <3>1 DEF TypeOK
      <3>2. CASE op[u].cred # c
        BY <1>6, <2>1, <3>2, OpOf DEF Kept, FormerExists
      <3> QED BY <3>1, <3>2
    <2> QED BY <1>6, <2>1 DEF FormerExists
  <1>9. GrantIsToken' /\ Exclusive'
    BY <1>6 DEF Kept, GrantIsToken, Exclusive
  <1>10. CheckedIsNewest' /\ FormerIsNewest'
    BY <1>1, <1>6, <1>7 DEF CheckedIsNewest, FormerIsNewest
  <1>11. MemoryIsNewest'
    BY <1>3, <1>5, <1>6, <1>7 DEF Kept, MemoryIsNewest, Unsaved
  <1>12. FileMatchesMemory'
    BY <1>5, <1>6, <1>7 DEF Kept, FileMatchesMemory
  <1>13. InFlightIsNewest'
    BY <1>1, <1>5, <1>6, OpOf DEF Kept, InFlightIsNewest, Holds, Busy, Holding
  <1> QED BY <1>8, <1>9, <1>10, <1>11, <1>12, <1>13 DEF Kept

LEMMA WebLoginKeeps ==
    ASSUME TypeOK, Kept, NEW c \in Credential, WebLogin(c)
    PROVE  Kept'
  <1>1. UNCHANGED <<kind, memory, former, op>>
    BY DEF WebLogin, caches
  <1>2. /\ apart'[c]
        /\ \A d \in Credential \ {c} :
             disk'[d] = disk[d] /\ apart'[d] = apart[d] /\ known'[d] = known[d]
    BY DEF TypeOK, WebLogin, LoggedIn
  <1>3. \A d \in Credential : apart[d] => apart'[d]
    BY <1>2
  <1>4. FormerExists' /\ GrantIsToken' /\ Exclusive'
    BY <1>1 DEF Kept, FormerExists, GrantIsToken, Exclusive
  <1>5. \A u \in Task : Dict(u)' = Dict(u)
    BY <1>1 DEF Dict
  <1>6. CheckedIsNewest'
    BY <1>1, <1>2, <1>5, OpOf DEF Kept, CheckedIsNewest
  <1>7. MemoryIsNewest' /\ FileMatchesMemory'
    BY <1>1, <1>2 DEF Kept, MemoryIsNewest, FileMatchesMemory, Unsaved
  <1>8. FormerIsNewest'
    BY <1>1, <1>2, OpOf DEF Kept, FormerIsNewest
  <1>9. InFlightIsNewest'
    BY <1>1, <1>2, OpOf DEF Kept, InFlightIsNewest, Holds
  <1> QED BY <1>4, <1>6, <1>7, <1>8, <1>9 DEF Kept

LEMMA PersistKeeps ==
    ASSUME TypeOK, Kept, NEW c \in Credential, Persist(c)
    PROVE  Kept'
  <1>1. disk[c] \in Creds /\ Replace(c, disk[c])
    BY DEF Persist, TypeOK
  <1>2. /\ \A u \in Task :
             /\ op'[u].pc = op[u].pc /\ op'[u].cred = op[u].cred
             /\ op'[u].token = op[u].token /\ op'[u].new = op[u].new
             /\ op[u].cred = c /\ op[u].pc \in Busy
                   => op[u].current /\ ~op'[u].current /\ former'[c] = memory[c]
             /\ op[u].cred # c => op'[u].current = op[u].current
        /\ memory'[c] = disk[c]
        /\ \A d \in Credential \ {c} : memory'[d] = memory[d] /\ former'[d] = former[d]
    BY <1>1, ReplacingOps
  <1>3. kind = "google" /\ UNCHANGED <<kind, disk, known, apart>>
    BY DEF Persist, history
  <1>4. \A d \in Credential : Unsaved(d) => Unsaved(d)'
    BY <1>2 DEF Unsaved
  <1>5. \A u \in Task : op[u].pc = "check" => Dict(u)' = Dict(u)
    BY <1>2, OpOf DEF Dict, Busy, Holding
  <1>6. Unsaved(c) => memory[c].token = known[c] \/ apart[c]
    BY <1>2 DEF Kept, CheckedIsNewest, Unsaved, Dict, Busy, Holding
  <1>7. FormerExists'
    <2>1. ASSUME NEW u \in Task, op[u].pc \in Busy, ~op'[u].current
          PROVE  former'[op[u].cred] \in Creds
      <3>1. CASE op[u].cred = c
        BY <1>2, <2>1, <3>1 DEF TypeOK
      <3>2. CASE op[u].cred # c
        BY <1>2, <2>1, <3>2, OpOf DEF Kept, FormerExists
      <3> QED BY <3>1, <3>2
    <2> QED BY <1>2, <2>1 DEF FormerExists
  <1>8. GrantIsToken' /\ Exclusive'
    BY <1>2 DEF Kept, GrantIsToken, Exclusive
  <1>9. CheckedIsNewest'
    BY <1>2, <1>3, <1>5 DEF Kept, CheckedIsNewest
  <1>10. MemoryIsNewest'
    BY <1>2, <1>3, <1>4 DEF Kept, MemoryIsNewest, FileMatchesMemory, Unsaved
  <1>11. FormerIsNewest'
    <2>1. ASSUME NEW u \in Task, op[u].pc \in Busy, ~op'[u].current
          PROVE  LET d == op[u].cred
                 IN  former'[d].token = known[d] \/ apart[d] \/ memory'[d].fresh = TRUE
      <3>1. CASE op[u].cred = c
        BY <1>2, <1>6, <2>1, <3>1 DEF Kept, MemoryIsNewest
      <3>2. CASE op[u].cred # c
        BY <1>2, <1>3, <2>1, <3>2, OpOf DEF Kept, FormerIsNewest
      <3> QED BY <3>1, <3>2
    <2> QED BY <1>2, <1>3, <2>1 DEF FormerIsNewest
  <1>12. FileMatchesMemory'
    BY <1>2, <1>3, <1>4 DEF Kept, FileMatchesMemory, Unsaved
  <1>13. InFlightIsNewest'
    BY <1>2, <1>3 DEF Kept, InFlightIsNewest, Holds
  <1> QED BY <1>7, <1>8, <1>9, <1>10, <1>11, <1>12, <1>13 DEF Kept
----------------------------------------------------------------------------------------
LEMMA ExpireKeeps ==
    ASSUME TypeOK, Kept, NEW c \in Credential, Expire(c)
    PROVE  Kept'
  <1>1. \A u \in Task : op[u].pc \in Busy => op[u].cred # c
    BY DEF Expire, Refreshing, Holds, Busy, Holding
  <1>2. UNCHANGED <<kind, op, known, apart>>
    BY DEF Expire, history
  <1>3. PICK r \in {memory[c], disk[c]} :
             /\ memory' = [memory EXCEPT ![c] = Expired(@, r)]
             /\ disk' = [disk EXCEPT ![c] = Expired(@, r)]
             /\ former' = [former EXCEPT ![c] = NoCreds]
    BY DEF Expire
  <1>12. /\ memory'[c] = Expired(memory[c], r) /\ disk'[c] = Expired(disk[c], r)
         /\ \A d \in Credential \ {c} :
              memory'[d] = memory[d] /\ former'[d] = former[d] /\ disk'[d] = disk[d]
    BY <1>3 DEF TypeOK
  <1>4. memory[c] \in Creds /\ memory'[c].token = memory[c].token
    BY <1>12 DEF TypeOK, Creds, Expired
  <1>5. \A u \in Task : op[u].pc = "check" => Dict(u)' = Dict(u)
    BY <1>1, <1>2, <1>12, OpOf DEF Dict, Busy, Holding
  <1>6. FormerExists' /\ GrantIsToken' /\ Exclusive'
    BY <1>1, <1>2, <1>12, OpOf DEF Kept, FormerExists, GrantIsToken, Exclusive
  <1>7. CheckedIsNewest'
    BY <1>2, <1>5 DEF Kept, CheckedIsNewest
  <1>8. MemoryIsNewest'
    BY <1>2, <1>12, <1>4 DEF Kept, MemoryIsNewest, Unsaved
  <1>9. FormerIsNewest'
    BY <1>1, <1>2, <1>12, OpOf DEF Kept, FormerIsNewest
  <1>10. FileMatchesMemory'
    <2>1. ASSUME NEW d \in Credential, d # c
          PROVE  disk'[d] = memory'[d] \/ apart'[d] \/ Unsaved(d)'
      BY <1>2, <1>12, <2>1 DEF Kept, FileMatchesMemory, Unsaved
    <2>2. ~Unsaved(c)
      BY <1>1 DEF Unsaved, Busy, Holding
    <2>3. disk[c] = memory[c] \/ apart[c]
      BY <2>2 DEF Kept, FileMatchesMemory, Unsaved
    <2>4. disk'[c] = memory'[c] \/ apart'[c]
      BY <1>2, <1>12, <2>3
    <2> QED BY <2>1, <2>4 DEF FileMatchesMemory, Unsaved
  <1>11. InFlightIsNewest'
    BY <1>2 DEF Kept, InFlightIsNewest, Holds
  <1> QED BY <1>6, <1>7, <1>8, <1>9, <1>10, <1>11 DEF Kept

LEMMA RestartKeeps ==
    ASSUME TypeOK, Restart
    PROVE  Kept'
  <1>1. \A u \in Task : op'[u].pc \in Resting
    BY OffType DEF Restart, Resting
  <1>2. /\ memory' = disk /\ disk' = disk /\ known' = known
        /\ \A c \in Credential : apart'[c] = (disk[c].token # known[c])
    BY DEF Restart
  <1>3. \A u \in Task : op'[u].pc \notin Busy /\ op'[u].pc \notin Holding
                        /\ op'[u].pc \notin {"check", "granted"}
    BY <1>1 DEF Busy, Holding, Resting
  <1>4. FormerExists' /\ GrantIsToken' /\ Exclusive' /\ CheckedIsNewest' /\ FormerIsNewest'
    BY <1>3 DEF FormerExists, GrantIsToken, Exclusive, CheckedIsNewest, FormerIsNewest
  <1>5. MemoryIsNewest' /\ FileMatchesMemory'
    BY <1>2 DEF MemoryIsNewest, FileMatchesMemory
  <1>6. InFlightIsNewest'
    BY <1>3 DEF InFlightIsNewest, Holds, Holding
  <1> QED BY <1>4, <1>5, <1>6 DEF Kept

LEMMA InitKept == Init => Kept
  <1> SUFFICES ASSUME Init PROVE Kept
    OBVIOUS
  <1>1. \A u \in Task : op[u].pc \in Resting
    BY OffType DEF Init, Resting
  <1>2. \A c \in Credential : disk[c].token = 1 /\ memory[c] = disk[c] /\ known[c] = 1
    BY DEF Init
  <1>3. \A u \in Task : op[u].pc \notin Busy /\ op[u].pc \notin Holding
                        /\ op[u].pc \notin {"check", "granted"}
    BY <1>1 DEF Busy, Holding, Resting
  <1>4. FormerExists /\ GrantIsToken /\ Exclusive /\ CheckedIsNewest /\ FormerIsNewest
    BY <1>3 DEF FormerExists, GrantIsToken, Exclusive, CheckedIsNewest, FormerIsNewest
  <1>5. MemoryIsNewest /\ FileMatchesMemory
    BY <1>2 DEF MemoryIsNewest, FileMatchesMemory
  <1>6. InFlightIsNewest
    BY <1>3 DEF InFlightIsNewest, Holds, Holding
  <1> QED BY <1>4, <1>5, <1>6 DEF Kept

LEMMA StepKeeps ==
    ASSUME TypeOK, NoLogins, Kept, [Next]_vars
    PROVE  Kept'
  BY Steps, RestsKeeps, BeginsKeeps, PostsKeeps, ProceedsKeeps, GrantedInPlaceKeeps,
     GrantedAndSavedKeeps, CheckedKeeps, LoginKeeps, WebLoginKeeps, PersistKeeps, ExpireKeeps,
     RestartKeeps, ElsewhereKeeps
----------------------------------------------------------------------------------------
(* Types.                                                                   *)

TaskTypes ==
    /\ kind \in {"google", "openai"}
    /\ memory \in [Credential -> Creds]
    /\ former \in [Credential -> Creds \cup {NoCreds}]
    /\ disk \in [Credential -> Creds]
    /\ op \in [Task -> Op]
    /\ known \in [Credential -> Token]

ProviderTypes ==
    /\ valid \in [Credential -> SUBSET Token]
    /\ issued \in [Credential -> Token]

QueueTypes ==
    /\ queue \in Seq(Credential)
    /\ queued \in SUBSET Credential
    /\ retry \in [Credential -> 0 .. MaxRetries - 1]

LoginTypes ==
    /\ rejected \in SUBSET Credential
    /\ due \in SUBSET Credential
    /\ logins \in Seq(Credential)
    /\ login \in [pc: {"none", "idle", "timedOut", "flow"}, cred: Credential]

NoteTypes == apart \in [Credential -> BOOLEAN] /\ crashes \in 0 .. MaxCrash

LEMMA TypeParts ==
    TypeOK <=> TaskTypes /\ ProviderTypes /\ QueueTypes /\ LoginTypes /\ NoteTypes
  BY DEF TypeOK, TaskTypes, ProviderTypes, QueueTypes, LoginTypes, NoteTypes

\* The actions of the next-state relation.
LEMMA Actions ==
    ASSUME [Next]_vars
    PROVE \/ \E c \in Credential :
               Tick(c) \/ Escalate(c) \/ WebLogin(c) \/ Persist(c) \/ Expire(c) \/ Revoke(c)
                 \/ LoginSucceeds(c) \/ LoginFails(c)
          \/ Take \/ IdleTimer \/ IdleExit \/ WakeUp
          \/ \E t \in Task : Refresh(t) \/ Cut(t)
          \/ \E r \in Reader, c \in Credential : Start(r, c)
          \/ TakeLogin \/ LoginIdle
          \/ Restart
          \/ UNCHANGED vars
  BY DEF Next, Relogin

LEMMA InitTypes == Init => TypeOK
  <1> SUFFICES ASSUME Init PROVE TypeOK
    OBVIOUS
  <1> USE OAuthAssumption
  <1>1. 1 \in Token
    BY DEF Token
  <1>2. disk \in [Credential -> Creds]
    <2>1. {[token |-> 1, fresh |-> b] : b \in BOOLEAN} \subseteq Creds
      BY <1>1 DEF Creds
    <2> QED BY <2>1 DEF Init
  <1>3. op \in [Task -> Op]
    BY OffType DEF Init
  <1>4. TaskTypes
    BY <1>1, <1>2, <1>3 DEF Init, TaskTypes
  <1>5. ProviderTypes
    BY <1>1 DEF Init, ProviderTypes
  <1>6. QueueTypes
    BY DEF Init, QueueTypes
  <1>7. LoginTypes
    <2>1. Off.cred \in Credential
      BY OffType DEF Op
    <2> QED BY <2>1 DEF Init, LoginTypes
  <1>8. NoteTypes
    BY DEF Init, NoteTypes
  <1> QED BY <1>4, <1>5, <1>6, <1>7, <1>8, TypeParts

LEMMA TaskTypesStep ==
    ASSUME TypeOK, Kept, [Next]_vars
    PROVE  TaskTypes'
  <1> USE DEF Quiet
  <1>1. TaskTypes
    BY TypeParts
  <1>2. ASSUME NEW t \in Task, Rests(t) \/ Proceeds(t) PROVE TaskTypes'
    BY <1>1, <1>2 DEF Rests, Proceeds, TaskTypes
  <1>3. ASSUME NEW t \in Task, Begins(t) PROVE TaskTypes'
    BY <1>1, <1>3, BegunType DEF Begins, TaskTypes
  <1>4. ASSUME NEW t \in Task, Posts(t) PROVE TaskTypes'
    <2> DEFINE x == [op[t] EXCEPT !.pc = "post", !.attempt = 1, !.token = Dict(t).token]
    <2>1. op' = [op EXCEPT ![t] = x]
      BY <1>4 DEF Posts
    <2>2. Dict(t).token \in Token \cup {None}
      <3>1. Dict(t) \in Creds \cup {NoCreds}
        BY OpOf DEF TypeOK, Dict
      <3> QED BY <3>1 DEF Creds, NoCreds
    <2>3. 1 \in 0 .. MaxAttempts
      BY OAuthAssumption
    <2>4. x \in Op
      BY <2>2, <2>3, OpOf DEF Op
    <2> HIDE DEF x
    <2> QED BY <1>1, <1>4, <2>1, <2>4 DEF Posts, TaskTypes
  <1>5. ASSUME NEW t \in Task, Granted(t)
        PROVE  op[t].cred \in Credential /\ op[t].new \in Token
                 /\ [token |-> op[t].new, fresh |-> TRUE] \in Creds
    BY <1>5, OpOf DEF Granted, Kept, GrantIsToken, Creds
  <1>6. ASSUME NEW t \in Task, GrantedInPlace(t) PROVE TaskTypes'
    <2> DEFINE r == [token |-> op[t].new, fresh |-> TRUE]
               x == [op[t] EXCEPT !.pc = "check"]
    <2>1. op[t].cred \in Credential /\ op[t].new \in Token /\ r \in Creds
      BY <1>5, <1>6 DEF GrantedInPlace
    <2>2. /\ UNCHANGED <<kind, disk>> /\ op' = [op EXCEPT ![t] = x]
          /\ known' = [known EXCEPT ![op[t].cred] = op[t].new]
          /\ memory' \in {memory, [memory EXCEPT ![op[t].cred] = r]}
          /\ former' \in {former, [former EXCEPT ![op[t].cred] = r]}
      BY <1>6 DEF GrantedInPlace, Granted
    <2>3. x \in Op
      BY OpOf DEF Op
    <2> HIDE DEF r, x
    <2> QED BY <1>1, <2>1, <2>2, <2>3 DEF TaskTypes
  <1>7. ASSUME NEW t \in Task, NEW r \in Creds, Cache(t, r), Write(op[t].cred, r),
               UNCHANGED kind, known' \in [Credential -> Token],
               op' = [OthersAfterCaching(t) EXCEPT ![t] = After(t)]
        PROVE  TaskTypes'
    <2>1. op' \in [Task -> Op]
      BY <1>7, CachingOps
    <2>2. op[t].cred \in Credential /\ memory[op[t].cred] \in Creds
      BY <1>1, OpOf DEF TaskTypes
    <2> QED BY <1>1, <1>7, <2>1, <2>2 DEF TaskTypes, Cache, Write
  <1>8. ASSUME NEW t \in Task, GrantedAndSaved(t) PROVE TaskTypes'
    <2> DEFINE r == [token |-> op[t].new, fresh |-> TRUE]
    <2>1. op[t].cred \in Credential /\ op[t].new \in Token /\ r \in Creds
      BY <1>5, <1>8 DEF GrantedAndSaved
    <2>2. /\ Cache(t, r) /\ Write(op[t].cred, r) /\ UNCHANGED kind
          /\ op' = [OthersAfterCaching(t) EXCEPT ![t] = After(t)]
          /\ known' = [known EXCEPT ![op[t].cred] = op[t].new]
      BY <1>8 DEF GrantedAndSaved, Granted, Succeeded
    <2>3. known' \in [Credential -> Token]
      BY <1>1, <2>1, <2>2 DEF TaskTypes
    <2> HIDE DEF r
    <2> QED BY <1>7, <2>1, <2>2, <2>3
  <1>9. ASSUME NEW t \in Task, Checked(t) PROVE TaskTypes'
    <2>1. Dict(t) \in Creds
      BY <1>9, OpOf DEF Checked, Kept, FormerExists, TypeOK, Dict, Busy, Holding
    <2>2. /\ Cache(t, Dict(t)) /\ Write(op[t].cred, Dict(t)) /\ UNCHANGED <<kind, known>>
          /\ op' = [OthersAfterCaching(t) EXCEPT ![t] = After(t)]
      BY <1>9 DEF Checked, Succeeded
    <2> QED BY <1>1, <1>7, <2>1, <2>2 DEF TaskTypes
  <1>10. ASSUME NEW c \in Credential, NEW r \in Creds, Replace(c, r)
         PROVE  /\ op' \in [Task -> Op]
                /\ memory' \in [Credential -> Creds]
                /\ former' \in [Credential -> Creds \cup {NoCreds}]
    <2>1. op' \in [Task -> Op]
      BY <1>10, ReplacingOps
    <2>2. memory[c] \in Creds
      BY <1>1 DEF TaskTypes
    <2> QED BY <1>1, <1>10, <2>1, <2>2 DEF TaskTypes, Replace
  <1>11. ASSUME NEW c \in Credential, LoginSucceeds(c) PROVE TaskTypes'
    <2> DEFINE r == [token |-> issued'[c], fresh |-> TRUE]
    <2>1. issued'[c] \in Token
      <3>1. issued'[c] = issued[c] + 1 /\ issued[c] \in Token /\ issued[c] < MaxToken
        BY <1>11 DEF TypeOK, LoginSucceeds, LoggedIn
      <3> QED BY <3>1, OAuthAssumption DEF Token
    <2>2. r \in Creds
      BY <2>1 DEF Creds
    <2>3. /\ Replace(c, r) /\ Write(c, r) /\ UNCHANGED kind
          /\ known' = [known EXCEPT ![c] = issued'[c]]
      BY <1>11 DEF LoginSucceeds, LoginEnds, LoggedIn
    <2> HIDE DEF r
    <2> QED BY <1>1, <1>10, <2>1, <2>2, <2>3 DEF TaskTypes, Write
  <1>12. ASSUME NEW c \in Credential, Persist(c) PROVE TaskTypes'
    <2>1. disk[c] \in Creds /\ Replace(c, disk[c]) /\ UNCHANGED <<kind, disk, known>>
      BY <1>12 DEF Persist, TypeOK, history
    <2> QED BY <1>1, <1>10, <2>1 DEF TaskTypes
  <1>13. ASSUME NEW c \in Credential, Expire(c) PROVE TaskTypes'
    <2>1. \A r : Expired(memory[c], r) \in Creds /\ Expired(disk[c], r) \in Creds
      BY <1>1 DEF TaskTypes, Creds, Expired
    <2>2. PICK r \in {memory[c], disk[c]} :
               /\ memory' = [memory EXCEPT ![c] = Expired(@, r)]
               /\ disk' = [disk EXCEPT ![c] = Expired(@, r)]
               /\ former' = [former EXCEPT ![c] = NoCreds]
               /\ UNCHANGED <<kind, op, known>>
      BY <1>13 DEF Expire, history
    <2> QED BY <1>1, <2>1, <2>2 DEF TaskTypes
  <1>16. ASSUME NEW c \in Credential, WebLogin(c) PROVE TaskTypes'
    <2> DEFINE r == [token |-> issued'[c], fresh |-> TRUE]
    <2>1. issued'[c] \in Token
      <3>1. issued'[c] = issued[c] + 1 /\ issued[c] \in Token /\ issued[c] < MaxToken
        BY <1>16 DEF TypeOK, WebLogin, LoggedIn
      <3> QED BY <3>1, OAuthAssumption DEF Token
    <2>2. r \in Creds
      BY <2>1 DEF Creds
    <2>3. /\ UNCHANGED <<kind, memory, former, op>> /\ disk' = [disk EXCEPT ![c] = r]
          /\ known' = [known EXCEPT ![c] = issued'[c]]
      BY <1>16 DEF WebLogin, LoggedIn, caches
    <2> HIDE DEF r
    <2> QED BY <1>1, <2>1, <2>2, <2>3 DEF TaskTypes
  <1>14. CASE Restart
    BY <1>1, <1>14, OffType DEF Restart, TaskTypes
  <1>15. CASE Elsewhere
    BY <1>1, <1>15 DEF Elsewhere, TaskTypes
  <1> QED BY Steps, <1>2, <1>3, <1>4, <1>6, <1>8, <1>9, <1>11, <1>12, <1>13, <1>14, <1>15,
             <1>16

LEMMA ProviderTypesStep ==
    ASSUME TypeOK, [Next]_vars
    PROVE  ProviderTypes'
  <1>1. ProviderTypes
    BY TypeParts
  <1>2. ASSUME NEW c \in Credential, issued[c] < MaxToken,
               issued' = [issued EXCEPT ![c] = @ + 1]
        PROVE  issued'[c] \in Token /\ issued' \in [Credential -> Token]
    <2>1. issued[c] \in Token /\ issued'[c] = issued[c] + 1
      BY <1>1, <1>2 DEF ProviderTypes
    <2>2. issued'[c] \in Token
      BY <1>2, <2>1, OAuthAssumption DEF Token
    <2> QED BY <1>1, <1>2, <2>1, <2>2 DEF ProviderTypes
  <1>3. ASSUME NEW t \in Task, Answer(t) PROVE ProviderTypes'
    <2>1. op[t].cred \in Credential
      BY OpOf
    <2>2. CASE UNCHANGED provider
      BY <1>1, <2>2 DEF provider, ProviderTypes
    <2>3. CASE ~UNCHANGED provider
      <3>1. /\ issued[op[t].cred] < MaxToken
            /\ issued' = [issued EXCEPT ![op[t].cred] = @ + 1]
            /\ valid' = [valid EXCEPT ![op[t].cred] =
                            (@ \ {op[t].token}) \cup {issued'[op[t].cred]}]
        BY <1>3, <2>3 DEF Answer
      <3> QED BY <1>1, <1>2, <2>1, <3>1 DEF ProviderTypes
    <2> QED BY <2>2, <2>3
  <1>4. ASSUME NEW c \in Credential, LoginSucceeds(c) \/ WebLogin(c) PROVE ProviderTypes'
    <2>1. /\ issued[c] < MaxToken /\ issued' = [issued EXCEPT ![c] = @ + 1]
          /\ valid' = [valid EXCEPT ![c] = @ \cup {issued'[c]}]
      BY <1>4 DEF LoginSucceeds, WebLogin, LoggedIn
    <2> QED BY <1>1, <1>2, <2>1 DEF ProviderTypes
  <1>5. ASSUME NEW c \in Credential, Revoke(c) PROVE ProviderTypes'
    BY <1>1, <1>5 DEF Revoke, ProviderTypes
  <1>6. ASSUME UNCHANGED provider PROVE ProviderTypes'
    BY <1>1, <1>6 DEF provider, ProviderTypes
  <1>7. ASSUME NEW t \in Task, Refresh(t) \/ Cut(t) PROVE ProviderTypes'
    BY <1>3, <1>6, <1>7 DEF Refresh, Cut, Acquire, Transient, Refused, Granted, Checked
  <1>8. ASSUME NEW c \in Credential,
               Tick(c) \/ Escalate(c) \/ Persist(c) \/ Expire(c) \/ LoginFails(c)
        PROVE  ProviderTypes'
    BY <1>6, <1>8 DEF Tick, Escalate, Persist, Expire, LoginFails
  <1>9. CASE Take \/ IdleTimer \/ IdleExit \/ WakeUp \/ TakeLogin \/ LoginIdle \/ Restart
    BY <1>6, <1>9 DEF Take, IdleTimer, IdleExit, WakeUp, TakeLogin, LoginIdle, Restart
  <1>10. ASSUME NEW r \in Reader, NEW c \in Credential, Start(r, c) PROVE ProviderTypes'
    BY <1>6, <1>10 DEF Start
  <1>11. CASE UNCHANGED vars
    BY <1>6, <1>11 DEF vars
  <1> QED BY Actions, <1>4, <1>5, <1>7, <1>8, <1>9, <1>10, <1>11

LEMMA QueueTypesStep ==
    ASSUME TypeOK, [Next]_vars
    PROVE  QueueTypes'
  <1>1. QueueTypes
    BY TypeParts
  <1>2. 0 \in 0 .. MaxRetries - 1
    BY OAuthAssumption
  <1>3. ASSUME NEW t \in Task, NEW ops, Succeeded(t, ops) PROVE QueueTypes'
    BY <1>1, <1>2, <1>3 DEF Succeeded, QueueTypes
  <1>4. ASSUME NEW t \in Task, NEW marks \in SUBSET Credential, Failed(t, marks)
        PROVE  QueueTypes'
    <2> DEFINE c == op[t].cred
    <2>1. c \in Credential
      BY OpOf
    <2>2. CASE t # Processor /\ queued' = marks /\ UNCHANGED <<queue, retry>>
      BY <1>1, <2>2 DEF QueueTypes
    <2>3. CASE KickedOut(c, marks)
      BY <1>1, <1>2, <2>1, <2>3 DEF KickedOut, QueueTypes
    <2>4. CASE /\ ~LastRetry(c) /\ retry' = [retry EXCEPT ![c] = @ + 1]
               /\ queue' = Append(queue, c) /\ queued' = marks
      <3>1. retry[c] + 1 \in 0 .. MaxRetries - 1
        BY <1>1, <2>1, <2>4, OAuthAssumption DEF QueueTypes, LastRetry
      <3>2. retry' \in [Credential -> 0 .. MaxRetries - 1]
        BY <1>1, <2>4, <3>1 DEF QueueTypes
      <3>3. queue' \in Seq(Credential)
        BY <1>1, <2>1, <2>4 DEF QueueTypes
      <3> QED BY <2>4, <3>2, <3>3 DEF QueueTypes
    <2> QED BY <1>4, <2>2, <2>3, <2>4 DEF Failed
  <1>5. ASSUME UNCHANGED books PROVE QueueTypes'
    BY <1>1, <1>5 DEF books, QueueTypes
  <1>6. ASSUME NEW t \in Task, Refresh(t) \/ Cut(t) PROVE QueueTypes'
    <2>1. queued \in SUBSET Credential /\ queued \ {op[t].cred} \in SUBSET Credential
      BY <1>1 DEF QueueTypes
    <2>2. CASE Acquire(t) \/ Answer(t) \/ Granted(t) \/ Checked(t)
      BY <1>3, <1>5, <2>2 DEF Acquire, Answer, Granted, Checked
    <2>3. CASE Transient(t) \/ Refused(t) \/ Cut(t)
      BY <1>4, <1>5, <2>1, <2>3 DEF Transient, Refused, Cut
    <2> QED BY <1>6, <2>2, <2>3 DEF Refresh
  <1>7. ASSUME NEW c \in Credential,
               Escalate(c) \/ WebLogin(c) \/ Persist(c) \/ Expire(c) \/ Revoke(c)
                 \/ LoginSucceeds(c) \/ LoginFails(c)
        PROVE  QueueTypes'
    <2>1. queue' = queue /\ retry' = retry /\ queued' \in {queued, queued \cup {c}, queued \ {c}}
      BY <1>7 DEF Escalate, WebLogin, Persist, Expire, Revoke, LoginSucceeds, LoginFails,
                  LoginEnds, books
    <2> QED BY <1>1, <2>1 DEF QueueTypes
  <1>8. ASSUME NEW c \in Credential, Tick(c) PROVE QueueTypes'
    BY <1>1, <1>8 DEF Tick, QueueTypes
  <1>9. CASE Take
    <2>1. queue # <<>> /\ Head(queue) \in Credential /\ Tail(queue) \in Seq(Credential)
      BY <1>1, <1>9 DEF Take, QueueTypes
    <2>2. queue' = Tail(queue)
      BY <1>9 DEF Take
    <2>3. \/ UNCHANGED <<queued, retry>>
          \/ /\ retry' = [retry EXCEPT ![Head(queue)] = 0]
             /\ queued' = queued \ {Head(queue)}
      BY <1>9 DEF Take
    <2> QED BY <1>1, <1>2, <2>1, <2>2, <2>3 DEF QueueTypes
  <1>10. CASE IdleExit \/ Restart
    <2>1. (queue' = queue \/ queue' = <<>>) /\ queued' = {} /\ retry' = [c \in Credential |-> 0]
      BY <1>10 DEF IdleExit, Restart
    <2>2. queue' \in Seq(Credential)
      <3>1. <<>> \in Seq(Credential) /\ queue \in Seq(Credential)
        BY <1>1 DEF QueueTypes
      <3> QED BY <2>1, <3>1, Zenon
    <2>3. retry' \in [Credential -> 0 .. MaxRetries - 1]
      BY <1>2, <2>1
    <2> QED BY <2>1, <2>2, <2>3 DEF QueueTypes
  <1>11. CASE IdleTimer \/ WakeUp \/ TakeLogin \/ LoginIdle \/ UNCHANGED vars
    BY <1>5, <1>11 DEF IdleTimer, WakeUp, TakeLogin, LoginIdle, vars
  <1>12. ASSUME NEW r \in Reader, NEW c \in Credential, Start(r, c) PROVE QueueTypes'
    BY <1>5, <1>12 DEF Start
  <1> QED BY Actions, <1>6, <1>7, <1>8, <1>9, <1>10, <1>11, <1>12

LEMMA LoginTypesStep ==
    ASSUME TypeOK, NoLogins, [Next]_vars
    PROVE  LoginTypes' /\ NoLogins'
  <1>1. LoginTypes
    BY TypeParts
  <1>2. ASSUME UNCHANGED reauth, UNCHANGED kind, rejected' \in SUBSET Credential
        PROVE  LoginTypes' /\ NoLogins'
    BY <1>1, <1>2 DEF reauth, LoginTypes, NoLogins
  <1>3. Off.cred \in Credential
    BY OffType DEF Op
  <1>4. ASSUME NEW c \in Credential, Escalate(c) PROVE LoginTypes' /\ NoLogins'
    <2>1. c \in due /\ kind' = kind
      BY <1>4 DEF Escalate
    <2>2. kind # "google"
      BY <2>1 DEF NoLogins
    <2>3. logins' = Append(logins, c) /\ due' = due \ {c} /\ rejected' = rejected \cup {c}
      BY <1>4 DEF Escalate
    <2>4. login' = login \/ login' = [login EXCEPT !.pc = "idle"]
      BY <1>4 DEF Escalate
    <2> QED BY <1>1, <2>1, <2>2, <2>3, <2>4 DEF LoginTypes, NoLogins
  <1>5. CASE TakeLogin
    <2>1. logins # <<>> /\ Head(logins) \in Credential /\ Tail(logins) \in Seq(Credential)
      BY <1>1, <1>5 DEF TakeLogin, LoginTypes
    <2>2. kind # "google"
      BY <2>1 DEF NoLogins
    <2> QED BY <1>1, <1>5, <2>1, <2>2 DEF TakeLogin, LoginTypes, NoLogins
  <1>6. CASE LoginIdle
    <2>1. login' \in {[login EXCEPT !.pc = "timedOut"], [login EXCEPT !.pc = "none"]}
            /\ UNCHANGED <<kind, rejected, due, logins>>
      BY <1>6 DEF LoginIdle
    <2> QED BY <1>1, <2>1 DEF LoginTypes, NoLogins
  <1>7. ASSUME NEW c \in Credential, LoginSucceeds(c) \/ LoginFails(c)
        PROVE  LoginTypes' /\ NoLogins'
    <2>1. login' = [pc |-> "idle", cred |-> Off.cred] /\ UNCHANGED <<kind, due, logins>>
            /\ rejected' \in {rejected, rejected \ {c}}
      BY <1>7 DEF LoginSucceeds, LoginFails, LoginEnds
    <2> QED BY <1>1, <1>3, <2>1 DEF LoginTypes, NoLogins
  <1>8. ASSUME NEW t \in Task, Refused(t) PROVE LoginTypes' /\ NoLogins'
    <2>1. op[t].cred \in Credential
      BY OpOf
    <2>2. /\ UNCHANGED <<kind, logins, login>>
          /\ \/ kind = "google" /\ rejected' = rejected \cup {op[t].cred} /\ due' = due
             \/ kind = "openai" /\ due' = due \cup {op[t].cred} /\ rejected' = rejected
      BY <1>8 DEF Refused
    <2> QED BY <1>1, <2>1, <2>2 DEF LoginTypes, NoLogins
  <1>9. ASSUME NEW t \in Task,
               Acquire(t) \/ Answer(t) \/ Transient(t) \/ Granted(t) \/ Checked(t) \/ Cut(t)
        PROVE  LoginTypes' /\ NoLogins'
    BY <1>1, <1>2, <1>9 DEF Acquire, Answer, Transient, Granted, Checked, Cut, LoginTypes
  <1>10. ASSUME NEW c \in Credential,
                Tick(c) \/ WebLogin(c) \/ Persist(c) \/ Expire(c) \/ Revoke(c)
         PROVE  LoginTypes' /\ NoLogins'
    BY <1>1, <1>2, <1>10 DEF Tick, WebLogin, Persist, Expire, Revoke, LoginTypes
  <1>11. CASE Take \/ IdleTimer \/ IdleExit \/ WakeUp \/ UNCHANGED vars
    BY <1>1, <1>2, <1>11 DEF Take, IdleTimer, IdleExit, WakeUp, vars, LoginTypes
  <1>12. ASSUME NEW r \in Reader, NEW c \in Credential, Start(r, c)
         PROVE  LoginTypes' /\ NoLogins'
    BY <1>1, <1>2, <1>12 DEF Start, LoginTypes
  <1>13. CASE Restart
    BY <1>3, <1>13 DEF Restart, LoginTypes, NoLogins
  <1> QED BY Actions, <1>4, <1>5, <1>6, <1>7, <1>8, <1>9, <1>10, <1>11, <1>12, <1>13 DEF Refresh

LEMMA NoteTypesStep ==
    ASSUME TypeOK, [Next]_vars
    PROVE  NoteTypes'
  <1>1. NoteTypes
    BY TypeParts
  <1>2. ASSUME UNCHANGED <<apart, crashes>> PROVE NoteTypes'
    BY <1>1, <1>2 DEF NoteTypes
  <1>3. ASSUME NEW c \in Credential, NEW b \in BOOLEAN, apart' = [apart EXCEPT ![c] = b],
               UNCHANGED crashes
        PROVE  NoteTypes'
    BY <1>1, <1>3 DEF NoteTypes
  <1>4. ASSUME NEW t \in Task, Granted(t) \/ Checked(t) PROVE NoteTypes'
    <2>1. op[t].cred \in Credential
      BY OpOf
    <2>2. apart' = apart \/ \E b \in BOOLEAN : apart' = [apart EXCEPT ![op[t].cred] = b]
      <3>1. \A r : (r.token # known'[op[t].cred]) \in BOOLEAN
        BY Zenon
      <3> QED BY <1>4, <3>1, Zenon DEF Granted, Checked, Write
    <2>3. UNCHANGED crashes
      BY <1>4 DEF Granted, Checked
    <2> QED BY <1>2, <1>3, <2>1, <2>2, <2>3
  <1>5. ASSUME NEW t \in Task, Cut(t) PROVE NoteTypes'
    <2>1. op[t].cred \in Credential
      BY OpOf
    <2>2. apart' = [apart EXCEPT ![op[t].cred] = @ \/ op[t].pc = "check"] /\ UNCHANGED crashes
      BY <1>5 DEF Cut
    <2> QED BY <1>1, <2>1, <2>2 DEF NoteTypes
  <1>6. ASSUME NEW c \in Credential, LoginSucceeds(c) \/ WebLogin(c) PROVE NoteTypes'
    <2>1. \E b \in BOOLEAN : apart' = [apart EXCEPT ![c] = b]
      <3>1. \A r : (r.token # known'[c]) \in BOOLEAN /\ TRUE \in BOOLEAN
        BY Zenon
      <3> QED BY <1>6, <3>1, Zenon DEF LoginSucceeds, WebLogin, Write
    <2>2. UNCHANGED crashes
      BY <1>6 DEF LoginSucceeds, WebLogin
    <2> QED BY <1>3, <2>1, <2>2
  <1>7. CASE Restart
    <2>1. apart' \in [Credential -> BOOLEAN]
      BY <1>7 DEF Restart
    <2>2. crashes' \in 0 .. MaxCrash
      BY <1>1, <1>7, OAuthAssumption DEF Restart, NoteTypes
    <2> QED BY <2>1, <2>2 DEF NoteTypes
  <1>8. ASSUME NEW t \in Task, Acquire(t) \/ Answer(t) \/ Transient(t) \/ Refused(t)
        PROVE  NoteTypes'
    BY <1>2, <1>8 DEF Acquire, Answer, Transient, Refused, history
  <1>9. ASSUME NEW c \in Credential,
               Tick(c) \/ Escalate(c) \/ Persist(c) \/ Expire(c) \/ Revoke(c) \/ LoginFails(c)
        PROVE  NoteTypes'
    BY <1>2, <1>9 DEF Tick, Escalate, Persist, Expire, Revoke, LoginFails, history
  <1>10. CASE \/ Take \/ IdleTimer \/ IdleExit \/ WakeUp \/ TakeLogin \/ LoginIdle
              \/ UNCHANGED vars
    BY <1>2, <1>10 DEF Take, IdleTimer, IdleExit, WakeUp, TakeLogin, LoginIdle, vars, history
  <1>11. ASSUME NEW r \in Reader, NEW c \in Credential, Start(r, c) PROVE NoteTypes'
    BY <1>2, <1>11 DEF Start, history
  <1> QED BY Actions, <1>4, <1>5, <1>6, <1>7, <1>8, <1>9, <1>10, <1>11 DEF Refresh
----------------------------------------------------------------------------------------
(* What is marked as queued is on its way.                                  *)

Waits(c)  == op[Processor].pc # "none" /\ InQueue(c, queue)
Works(c)  == op[Processor].cred = c /\ op[Processor].pc \in Busy
LogsIn(c) == InQueue(c, logins) \/ (login.pc = "flow" /\ login.cred = c)

LEMMA PendingParts ==
    MarkedIsPending <=> \A c \in queued : Waits(c) \/ Works(c) \/ LogsIn(c)
  BY DEF MarkedIsPending, Waits, Works, LogsIn, Refreshing, Holds, Busy, Holding

LEMMA InAppended ==
    ASSUME NEW q \in Seq(Credential), NEW d \in Credential
    PROVE  /\ InQueue(d, Append(q, d))
           /\ \A c : InQueue(c, q) => InQueue(c, Append(q, d))
  <1>1. /\ Append(q, d) \in Seq(Credential) /\ Len(Append(q, d)) = Len(q) + 1
        /\ \A i \in 1 .. Len(q) : Append(q, d)[i] = q[i]
        /\ Append(q, d)[Len(q) + 1] = d
    BY AppendProperties
  <1>2. DOMAIN q = 1 .. Len(q) /\ DOMAIN Append(q, d) = 1 .. Len(q) + 1 /\ Len(q) \in Nat
    BY <1>1
  <1> HIDE DEF InQueue
  <1>3. InQueue(d, Append(q, d))
    BY <1>1, <1>2 DEF InQueue
  <1>4. ASSUME NEW c, InQueue(c, q) PROVE InQueue(c, Append(q, d))
    BY <1>1, <1>2, <1>4 DEF InQueue
  <1> QED BY <1>3, <1>4

LEMMA InTail ==
    ASSUME NEW q \in Seq(Credential), q # <<>>, NEW c, InQueue(c, q), c # Head(q)
    PROVE  InQueue(c, Tail(q))
  <1>1. /\ Tail(q) \in Seq(Credential) /\ Len(Tail(q)) = Len(q) - 1
        /\ \A i \in 1 .. Len(Tail(q)) : Tail(q)[i] = q[i + 1]
    BY HeadTailProperties
  <1>2. PICK i \in 1 .. Len(q) : q[i] = c
    BY DEF InQueue
  <1>3. i # 1 /\ Len(q) \in Nat
    BY <1>2
  <1>4. i - 1 \in 1 .. Len(Tail(q)) /\ (i - 1) + 1 = i
    BY <1>1, <1>2, <1>3
  <1>5. Tail(q)[i - 1] = c /\ i - 1 \in DOMAIN Tail(q)
    BY <1>1, <1>2, <1>4
  <1> QED BY <1>5 DEF InQueue

\* A step that adds nothing to the marked, and that the processor's work
\* survives.
LEMMA NothingLost ==
    ASSUME MarkedIsPending, UNCHANGED <<queue, logins, login>>, queued' \subseteq queued,
           op[Processor].pc # "none" => op'[Processor].pc # "none",
           \A c \in queued' : Works(c) => Works(c)'
    PROVE  MarkedIsPending'
  <1> SUFFICES ASSUME NEW c \in queued' PROVE Waits(c)' \/ Works(c)' \/ LogsIn(c)'
    BY PendingParts DEF MarkedIsPending, Waits, Works, LogsIn, Refreshing, Holds, Busy, Holding
  <1>1. Waits(c) \/ Works(c) \/ LogsIn(c)
    BY PendingParts
  <1>2. Waits(c) => Waits(c)'
    BY DEF Waits, InQueue
  <1>3. LogsIn(c) => LogsIn(c)'
    BY DEF LogsIn, InQueue
  <1> QED BY <1>1, <1>2, <1>3

LEMMA ProcessorAside ==
    ASSUME MarkedIsPending, UNCHANGED <<queue, logins, login>>, queued' \subseteq queued,
           op'[Processor].pc = op[Processor].pc, op'[Processor].cred = op[Processor].cred
    PROVE  MarkedIsPending'
  BY NothingLost DEF Works

LEMMA ProcessorFails ==
    ASSUME TypeOK, MarkedIsPending, NEW marks \in SUBSET queued, Failed(Processor, marks),
           Works(op[Processor].cred), UNCHANGED <<logins, login>>
    PROVE  MarkedIsPending'
  <1> DEFINE c == op[Processor].cred
  <1>1. Processor \in Task /\ c \in Credential /\ op \in [Task -> Op]
    BY OpOf DEF Task, TypeOK
  <1>2. op' = [op EXCEPT ![Processor] = After(Processor)]
    BY DEF Failed
  <1>3. op'[Processor].pc = "pause"
    BY <1>1, <1>2, OffType DEF After, Op
  <1>4. \A d : Works(d) => d = c
    BY DEF Works
  <1>5. CASE KickedOut(c, marks)
    <2>1. queue' = queue /\ queued' \subseteq queued /\ c \notin queued'
      BY <1>5 DEF KickedOut
    <2> HIDE DEF c
    <2> QED BY <1>3, <1>4, <2>1, NothingLost
  <1>6. CASE queue' = Append(queue, c) /\ queued' = marks
    <2> SUFFICES ASSUME NEW d \in queued' PROVE Waits(d)' \/ Works(d)' \/ LogsIn(d)'
      BY DEF MarkedIsPending, Waits, Works, LogsIn, Refreshing, Holds, Busy, Holding
    <2>1. Waits(d) \/ Works(d) \/ LogsIn(d)
      BY <1>6, PendingParts
    <2>2. queue \in Seq(Credential)
      BY DEF TypeOK
    <2>3. InQueue(c, queue') /\ \A e : InQueue(e, queue) => InQueue(e, queue')
      BY <1>1, <1>6, <2>2, InAppended
    <2>4. Waits(d) \/ Works(d) => Waits(d)'
      BY <1>3, <1>4, <2>3 DEF Waits, InQueue
    <2>5. LogsIn(d) => LogsIn(d)'
      BY DEF LogsIn, InQueue
    <2> QED BY <2>1, <2>4, <2>5
  <1> QED BY <1>5, <1>6 DEF Failed

LEMMA ProcessorSucceeds ==
    ASSUME TypeOK, MarkedIsPending, NEW ops \in [Task -> Op], Succeeded(Processor, ops),
           UNCHANGED <<logins, login>>
    PROVE  MarkedIsPending'
  <1>1. Processor \in Task
    BY DEF Task
  <1>2. op'[Processor].pc = "pause"
    BY <1>1, OffType DEF Succeeded, After, Op
  <1>3. queue' = queue /\ queued' = queued \ {op[Processor].cred}
    BY DEF Succeeded
  <1> QED BY <1>2, <1>3, NothingLost DEF Works

LEMMA RefreshKeepsPending ==
    ASSUME TypeOK, MarkedIsPending, NEW t \in Task, Refresh(t) \/ Cut(t)
    PROVE  MarkedIsPending'
  <1>1. Processor \in Task /\ op \in [Task -> Op] /\ UNCHANGED <<logins, login>>
    BY DEF Task, TypeOK, Refresh, Acquire, Answer, Transient, Refused, Granted, Checked, Cut, reauth
  <1>2. op[t] \in Op /\ op[t].cred \in Credential
    BY OpOf
  <1>3. OthersAfterCaching(t) \in [Task -> Op]
    BY <1>1, <1>2, SwappedType DEF OthersAfterCaching
  <1>4. ASSUME t # Processor, UNCHANGED queue, queued' \subseteq queued,
               op' \in [Task -> Op], op'[Processor].pc = op[Processor].pc,
               op'[Processor].cred = op[Processor].cred
        PROVE  MarkedIsPending'
    BY <1>1, <1>4, ProcessorAside
  <1>5. ASSUME Failed(t, queued) \/ Failed(t, queued \ {op[t].cred}), op[t].pc \in Busy
        PROVE  MarkedIsPending'
    <2>1. CASE t = Processor
      BY <1>1, <1>5, <2>1, ProcessorFails DEF Works
    <2>2. CASE t # Processor
      <3>1. op' = [op EXCEPT ![t] = After(t)] /\ UNCHANGED queue /\ queued' \subseteq queued
        BY <1>5, <2>2 DEF Failed
      <3>2. op'[Processor] = op[Processor]
        BY <1>1, <2>2, <3>1
      <3> QED BY <1>1, <2>2, <3>1, <3>2, ProcessorAside
    <2> QED BY <2>1, <2>2
  <1>6. ASSUME Succeeded(t, op) PROVE MarkedIsPending'
    <2>1. CASE t = Processor
      BY <1>1, <1>6, <2>1, ProcessorSucceeds
    <2>2. CASE t # Processor
      <3>1. op' = [op EXCEPT ![t] = After(t)] /\ UNCHANGED <<queue, queued>>
        BY <1>6, <2>2 DEF Succeeded
      <3>2. op'[Processor] = op[Processor]
        BY <1>1, <2>2, <3>1
      <3> QED BY <1>1, <2>2, <3>1, <3>2, ProcessorAside
    <2> QED BY <2>1, <2>2
  <1>7. ASSUME Succeeded(t, OthersAfterCaching(t)) PROVE MarkedIsPending'
    <2>1. CASE t = Processor
      BY <1>1, <1>3, <1>7, <2>1, ProcessorSucceeds
    <2>2. CASE t # Processor
      <3>1. op' = [OthersAfterCaching(t) EXCEPT ![t] = After(t)] /\ UNCHANGED <<queue, queued>>
        BY <1>7, <2>2 DEF Succeeded
      <3>2. op'[Processor].pc = op[Processor].pc /\ op'[Processor].cred = op[Processor].cred
        BY <1>1, <2>2, <3>1, CachingOps
      <3> QED BY <1>1, <3>1, <3>2, ProcessorAside
    <2> QED BY <2>1, <2>2
  <1>8. ASSUME NEW x \in Op, op' = [op EXCEPT ![t] = x], x.cred = op[t].cred,
               x.pc \in Busy, op[t].pc \in Busy, UNCHANGED <<queue, queued>>
        PROVE  MarkedIsPending'
    <2>1. CASE t = Processor
      <3>1. op'[Processor] = x
        BY <1>1, <1>8, <2>1
      <3>2. op'[Processor].pc # "none"
        BY <1>8, <3>1 DEF Busy, Holding
      <3>3. \A c : Works(c) => Works(c)'
        BY <1>8, <2>1, <3>1 DEF Works
      <3> QED BY <1>1, <1>8, <3>2, <3>3, NothingLost
    <2>2. CASE t # Processor
      <3>1. op'[Processor] = op[Processor]
        BY <1>1, <1>8, <2>2
      <3> QED BY <1>1, <1>8, <3>1, ProcessorAside
    <2> QED BY <2>1, <2>2
  <1>9. CASE Acquire(t)
    <2>1. CASE Succeeded(t, op)
      BY <1>6, <2>1
    <2>2. CASE ~Succeeded(t, op)
      <3> DEFINE x == [op[t] EXCEPT !.pc = "post", !.attempt = 1, !.token = Dict(t).token]
      <3>1. op[t].pc = "lock" /\ UNCHANGED <<queue, queued>>
              /\ op' = [op EXCEPT ![t].pc = "post", ![t].attempt = 1, ![t].token = Dict(t).token]
        BY <1>9, <2>2 DEF Acquire, books
      <3>2. op' = [op EXCEPT ![t] = x]
        BY <3>1
      <3>3. x.cred = op[t].cred /\ x.pc = "post"
        BY <1>2 DEF Op
      <3>4. op'[t] = x /\ \A u \in Task \ {t} : op'[u] = op[u]
        BY <1>1, <3>2
      <3>5. CASE t = Processor
        <4>1. op'[Processor].pc = "post" /\ op'[Processor].cred = op[Processor].cred
          BY <3>3, <3>4, <3>5
        <4>2. \A c : Works(c) => Works(c)'
          BY <4>1 DEF Works, Busy, Holding
        <4> QED BY <1>1, <3>1, <4>1, <4>2, NothingLost
      <3>6. CASE t # Processor
        BY <1>1, <3>1, <3>4, <3>6, ProcessorAside
      <3> QED BY <3>5, <3>6
    <2> QED BY <2>1, <2>2
  <1>10. CASE Answer(t)
    <2>1. Proceeds(t) /\ UNCHANGED <<queue, queued>>
      BY <1>10, AnswerEffect DEF Answer, books
    <2> QED BY <1>8, <2>1 DEF Proceeds, Busy, Holding
  <1>11. CASE Transient(t)
    <2>1. op[t].pc \in Busy
      BY <1>11 DEF Transient, Busy, Holding
    <2>2. CASE Failed(t, queued)
      BY <1>5, <2>1, <2>2
    <2>3. CASE /\ op[t].attempt < MaxAttempts /\ UNCHANGED books
               /\ op' = [op EXCEPT ![t].pc = "post", ![t].new = None, ![t].attempt = @ + 1]
      <3> DEFINE x == [op[t] EXCEPT !.pc = "post", !.new = None, !.attempt = @ + 1]
      <3>1. op' = [op EXCEPT ![t] = x]
        BY <2>3
      <3>2. op[t].attempt + 1 \in 0 .. MaxAttempts
        <4>1. op[t].attempt \in 0 .. MaxAttempts
          BY <1>2 DEF Op
        <4> QED BY <2>3, <4>1, OAuthAssumption
      <3>3. x \in Op /\ x.cred = op[t].cred /\ x.pc = "post"
        BY <1>2, <3>2 DEF Op
      <3> HIDE DEF x
      <3> QED BY <1>8, <2>1, <2>3, <3>1, <3>3 DEF books, Busy, Holding
    <2> QED BY <1>11, <2>2, <2>3 DEF Transient
  <1>12. CASE Refused(t)
    BY <1>5, <1>12 DEF Refused, Busy, Holding
  <1>13. CASE Granted(t)
    <2>1. CASE Succeeded(t, OthersAfterCaching(t))
      BY <1>7, <2>1
    <2>2. CASE ~Succeeded(t, OthersAfterCaching(t))
      <3> DEFINE x == [op[t] EXCEPT !.pc = "check"]
      <3>1. op[t].pc = "granted" /\ UNCHANGED <<queue, queued>>
              /\ op' = [op EXCEPT ![t].pc = "check"]
        BY <1>13, <2>2 DEF Granted, books
      <3>2. op' = [op EXCEPT ![t] = x]
        BY <3>1
      <3>3. x \in Op /\ x.cred = op[t].cred /\ x.pc = "check"
        BY <1>2 DEF Op
      <3> HIDE DEF x
      <3> QED BY <1>8, <3>1, <3>2, <3>3 DEF Busy, Holding
    <2> QED BY <2>1, <2>2
  <1>14. CASE Checked(t)
    BY <1>7, <1>14 DEF Checked
  <1>15. CASE Cut(t)
    BY <1>5, <1>15 DEF Cut, Refreshing, Holds, Busy, Holding
  <1> QED BY <1>9, <1>10, <1>11, <1>12, <1>13, <1>14, <1>15 DEF Refresh

LEMMA QueueKeepsPending ==
    ASSUME TypeOK, MarkedIsPending,
           Take \/ IdleTimer \/ IdleExit \/ WakeUp \/ Restart
             \/ \E c \in Credential : Tick(c)
    PROVE  MarkedIsPending'
  <1>1. Processor \in Task /\ op \in [Task -> Op] /\ queue \in Seq(Credential)
    BY DEF Task, TypeOK
  <1>2. op[Processor] \in Op
    BY <1>1
  <1>3. CASE IdleExit \/ Restart
    BY <1>3 DEF IdleExit, Restart, MarkedIsPending
  <1>4. CASE IdleTimer \/ WakeUp
    <2>1. op[Processor].pc \in {"idle", "pause"} /\ UNCHANGED <<queue, queued, logins, login>>
      BY <1>4 DEF IdleTimer, WakeUp, books, reauth
    <2>2. op'[Processor].pc \in {"idle", "timedOut"}
      BY <1>1, <1>2, <1>4, OffType DEF IdleTimer, WakeUp, Op
    <2> QED BY <2>1, <2>2, NothingLost DEF Works, Busy, Holding
  <1>5. CASE Take
    <2>1. /\ op[Processor].pc = "idle" /\ queue # <<>> /\ queue' = Tail(queue)
          /\ UNCHANGED <<logins, login>>
      BY <1>5 DEF Take, reauth
    <2> DEFINE h == Head(queue)
    <2>2. h \in Credential
      BY <1>1, <2>1
    <2>3. \/ queued' = queued \ {h} /\ op' = op
          \/ queued' = queued /\ op' = [op EXCEPT ![Processor] = Begun(h)]
      BY <1>5 DEF Take, Begun
    <2> HIDE DEF h
    <2>4. Begun(h).pc = "lock" /\ Begun(h).cred = h
      BY <2>2, BegunType
    <2>5. /\ op'[Processor].pc # "none"
          /\ queued' = queued \ {h} \/ (op'[Processor].cred = h /\ op'[Processor].pc = "lock")
      BY <1>1, <2>1, <2>3, <2>4
    <2> SUFFICES ASSUME NEW c \in queued' PROVE Waits(c)' \/ Works(c)' \/ LogsIn(c)'
      BY DEF MarkedIsPending, Waits, Works, LogsIn, Refreshing, Holds, Busy, Holding
    <2>6. Waits(c) \/ LogsIn(c)
      BY <2>1, <2>3, PendingParts DEF Works, Busy, Holding
    <2>7. Waits(c) /\ c # h => Waits(c)'
      BY <1>1, <2>1, <2>5, InTail DEF Waits, InQueue, h
    <2>8. LogsIn(c) => LogsIn(c)'
      BY <2>1 DEF LogsIn, InQueue
    <2>9. c = h => Works(c)'
      BY <2>5 DEF Works, Busy
    <2> QED BY <2>6, <2>7, <2>8, <2>9
  <1>6. ASSUME NEW c \in Credential, Tick(c) PROVE MarkedIsPending'
    <2>1. /\ queued' = queued \cup {c} /\ queue' = Append(queue, c)
          /\ UNCHANGED <<logins, login>>
      BY <1>6 DEF Tick, reauth
    <2>2. \/ op' = op /\ op[Processor].pc # "none"
          \/ op' = [op EXCEPT ![Processor] = Idle] /\ op[Processor].pc = "none"
      BY <1>6 DEF Tick
    <2>3. op'[Processor].pc # "none" /\ \A d : Works(d) => Works(d)'
      BY <1>1, <2>2, OffType DEF Works, Busy, Holding
    <2>4. InQueue(c, queue') /\ \A d : InQueue(d, queue) => InQueue(d, queue')
      BY <1>1, <2>1, InAppended
    <2> SUFFICES ASSUME NEW d \in queued' PROVE Waits(d)' \/ Works(d)' \/ LogsIn(d)'
      BY DEF MarkedIsPending, Waits, Works, LogsIn, Refreshing, Holds, Busy, Holding
    <2>5. d = c \/ Waits(d) \/ Works(d) \/ LogsIn(d)
      BY <2>1, PendingParts
    <2>6. Waits(d) \/ d = c => Waits(d)'
      BY <2>3, <2>4 DEF Waits, InQueue
    <2>7. LogsIn(d) => LogsIn(d)'
      BY <2>1 DEF LogsIn, InQueue
    <2> QED BY <2>3, <2>5, <2>6, <2>7
  <1> QED BY <1>3, <1>4, <1>5, <1>6

LEMMA LoginsKeepPending ==
    ASSUME TypeOK, MarkedIsPending,
           TakeLogin \/ LoginIdle
             \/ \E c \in Credential : Escalate(c) \/ LoginSucceeds(c) \/ LoginFails(c)
    PROVE  MarkedIsPending'
  <1>1. logins \in Seq(Credential) /\ queue' = queue
    BY DEF TypeOK, TakeLogin, LoginIdle, Escalate, LoginSucceeds, LoginFails, books
  <1>2. op'[Processor].pc = op[Processor].pc /\ op'[Processor].cred = op[Processor].cred
    <2>1. op' = op \/ \E c \in Credential : op' = Swapped(c)
      BY DEF TakeLogin, LoginIdle, Escalate, LoginSucceeds, LoginFails, Replace
    <2> QED BY <2>1, SwappedType DEF TypeOK, Task
  <1>3. ASSUME NEW c, Waits(c) \/ Works(c) PROVE Waits(c)' \/ Works(c)'
    BY <1>1, <1>2, <1>3 DEF Waits, Works, InQueue
  <1> SUFFICES ASSUME NEW c \in queued' PROVE (Waits(c)' \/ Works(c)') \/ LogsIn(c)'
    BY DEF MarkedIsPending, Waits, Works, LogsIn, Refreshing, Holds, Busy, Holding
  <1>4. CASE TakeLogin
    <2>1. /\ login.pc = "idle" /\ logins # <<>> /\ logins' = Tail(logins)
          /\ login'.pc = "flow" /\ login'.cred = Head(logins) /\ queued' = queued
      BY <1>4 DEF TakeLogin, books
    <2>2. LogsIn(c) => LogsIn(c)'
      BY <1>1, <2>1, InTail DEF LogsIn, InQueue
    <2> QED BY <1>3, <2>1, <2>2, PendingParts
  <1>5. CASE LoginIdle
    <2>1. login.pc # "flow" /\ logins' = logins /\ queued' = queued
      BY <1>5 DEF LoginIdle, books
    <2>2. LogsIn(c) => LogsIn(c)'
      BY <2>1 DEF LogsIn, InQueue
    <2> QED BY <1>3, <2>1, <2>2, PendingParts
  <1>6. ASSUME NEW d \in Credential, Escalate(d)
        PROVE  (Waits(c)' \/ Works(c)') \/ LogsIn(c)'
    <2>1. queued' = queued \cup {d} /\ logins' = Append(logins, d)
      BY <1>6 DEF Escalate
    <2>2. login' = login \/ (login.pc = "none" /\ login' = [login EXCEPT !.pc = "idle"])
      BY <1>6 DEF Escalate
    <2>3. InQueue(d, logins') /\ \A e : InQueue(e, logins) => InQueue(e, logins')
      BY <1>1, <2>1, InAppended
    <2>4. LogsIn(c) \/ c = d => LogsIn(c)'
      BY <2>2, <2>3 DEF LogsIn, InQueue
    <2> QED BY <1>3, <2>1, <2>4, PendingParts
  <1>7. ASSUME NEW d \in Credential, LoginSucceeds(d) \/ LoginFails(d)
        PROVE  (Waits(c)' \/ Works(c)') \/ LogsIn(c)'
    <2>1. login.cred = d /\ queued' = queued \ {d} /\ logins' = logins
      BY <1>7 DEF LoginSucceeds, LoginFails, LoginEnds
    <2>2. LogsIn(c) => LogsIn(c)'
      BY <2>1 DEF LogsIn, InQueue
    <2> QED BY <1>3, <2>1, <2>2, PendingParts
  <1> QED BY <1>4, <1>5, <1>6, <1>7

LEMMA OthersKeepPending ==
    ASSUME TypeOK, MarkedIsPending,
           \/ \E c \in Credential : WebLogin(c) \/ Persist(c) \/ Expire(c) \/ Revoke(c)
           \/ \E r \in Reader, c \in Credential : Start(r, c)
           \/ UNCHANGED vars
    PROVE  MarkedIsPending'
  <1>1. Processor \in Task /\ op \in [Task -> Op] /\ Reader \subseteq Task
    BY DEF Task, TypeOK
  <1>2. UNCHANGED <<queue, queued, logins, login>>
    BY DEF WebLogin, Persist, Expire, Revoke, Start, vars, books, reauth
  <1>3. CASE \E c \in Credential : Persist(c)
    <2>1. PICK c \in Credential : op' = Swapped(c)
      BY <1>3 DEF Persist, Replace
    <2> QED BY <1>1, <1>2, <2>1, SwappedType, ProcessorAside
  <1>4. CASE \E r \in Reader, c \in Credential : Start(r, c)
    <2>1. PICK r \in Reader, c \in Credential : Start(r, c)
      BY <1>4
    <2>2. r # Processor
      BY OAuthAssumption
    <2>3. op'[Processor] = op[Processor]
      BY <1>1, <2>1, <2>2 DEF Start
    <2> QED BY <1>2, <2>3, ProcessorAside
  <1>5. CASE UNCHANGED op
    BY <1>2, <1>5, ProcessorAside
  <1> QED BY <1>3, <1>4, <1>5 DEF WebLogin, Expire, Revoke, vars
----------------------------------------------------------------------------------------
IInv == TypeOK /\ NoLogins /\ Kept

LEMMA Invariant == Spec => []IInv
  <1>1. Init => IInv
    BY InitTypes, InitKept DEF IInv, NoLogins, Init
  <1>2. ASSUME TypeOK, NoLogins, Kept, [Next]_vars PROVE IInv'
    <2>1. TaskTypes' /\ ProviderTypes' /\ QueueTypes' /\ LoginTypes' /\ NoteTypes'
      BY <1>2, TaskTypesStep, ProviderTypesStep, QueueTypesStep, LoginTypesStep, NoteTypesStep
    <2>2. TypeOK'
      BY <2>1 DEF TypeOK, TaskTypes, ProviderTypes, QueueTypes, LoginTypes, NoteTypes
    <2> QED BY <1>2, <2>2, LoginTypesStep, StepKeeps DEF IInv
  <1>3. IInv /\ [Next]_vars => IInv'
    BY <1>2 DEF IInv
  <1> QED BY <1>1, <1>3, PTL DEF Spec

\* Every variable keeps its type: among others, a failing refresh is retried
\* a bounded number of times (google_oauth_base.py:862-889).
THEOREM TypeCorrect == Spec => []TypeOK
  <1>1. IInv => TypeOK
    BY DEF IInv
  <1> QED BY <1>1, Invariant, PTL

\* However many tasks refresh a credential, none sends a refresh token that
\* the proxy knows to be replaced (google_oauth_base.py:435-450), with the
\* exceptions InFlightIsNewest states: a token that was lost before it was
\* saved, one that a login has replaced, one that a login on the web page has
\* put past the cache (proxy_app/api/oauth.py:806-849).
THEOREM NewestIsSent == Spec => []InFlightIsNewest
  <1>1. IInv => InFlightIsNewest
    BY DEF IInv, Kept
  <1> QED BY <1>1, Invariant, PTL

\* Between refreshes the file holds what is in memory, unless a refresh was
\* cut off before it saved (google_oauth_base.py:402-411, 1316-1317) or, until
\* the next save, the user has logged in on the web page
\* (proxy_app/api/oauth.py:806-849).
THEOREM FileKeepsUp == Spec => []FileMatchesMemory
  <1>1. IInv => FileMatchesMemory
    BY DEF IInv, Kept
  <1> QED BY <1>1, Invariant, PTL

\* A credential that is marked as queued, and that ticks therefore skip, is
\* on its way; nothing is left marked and forgotten
\* (google_oauth_base.py:743-750, 818-860).
THEOREM MarkedNeverForgotten == Spec => []MarkedIsPending
  <1>1. Init => MarkedIsPending
    BY DEF Init, MarkedIsPending
  <1>2. TypeOK /\ MarkedIsPending /\ [Next]_vars => MarkedIsPending'
    BY Actions, RefreshKeepsPending, QueueKeepsPending, LoginsKeepPending, OthersKeepPending
  <1> QED BY <1>1, <1>2, TypeCorrect, PTL DEF Spec
========================================================================================
