------------------------------- MODULE OAuthRefresh -------------------------------
(***************************************************************************)
(* Refreshing OAuth tokens while the proxy runs                            *)
(* (providers/google_oauth_base.py, openai_oauth_base.py; the Anthropic    *)
(* base is a copy of the latter): the background refresher's ticks, the    *)
(* refresh queue with its lazily started processor, requests that refresh  *)
(* on their own, the lock of each credential, and what follows when the    *)
(* provider refuses a refresh token.  The two families differ in that,     *)
(* and in how a refresh ends; `kind' tells them apart.                     *)
(*                                                                         *)
(* An action is the code between two awaits that can suspend.  A token     *)
(* expires an hour or more after it was issued, a refresh takes seconds:   *)
(* hence no credential expires while a task is refreshing it.  Files are   *)
(* written by the writers of resilient_io.py, here without failures.       *)
(***************************************************************************)
EXTENDS Integers, Sequences, FiniteSets

CONSTANTS
    Credential,      \* credential paths
    Reader,          \* requests that need an authorization header
    Processor,       \* the task _process_refresh_queue
    MaxAttempts,     \* max_retries of _refresh_token
    MaxRetries,      \* _refresh_max_retries
    MaxToken,        \* bound: refresh tokens the provider issues for a credential
    QueueLimit,      \* bound: length of a queue when an entry is added
    MaxCrash         \* bound: restarts of the proxy

ASSUME OAuthAssumption ==
    /\ Credential # {} /\ Processor \notin Reader
    /\ MaxAttempts \in Nat \ {0} /\ MaxRetries \in Nat \ {0}
    /\ MaxToken \in Nat \ {0} /\ QueueLimit \in Nat /\ MaxCrash \in Nat

VARIABLES
    kind,        \* "google" or "openai"
    valid,       \* refresh tokens the provider accepts
    issued,      \* the last refresh token it has issued
    memory,      \* the dicts in _credentials_cache
    former,      \* a dict that was there before and is still in use
    disk,        \* the credential file
    op,          \* the refresh each task is in
    queue,       \* _refresh_queue
    queued,      \* _queued_credentials
    retry,       \* _queue_retry_count
    rejected,    \* _permanently_expired_credentials, _unavailable_credentials
    due,         \* created tasks _queue_refresh(path, needs_reauth=True)
    logins,      \* _reauth_queue
    login,       \* the task _process_reauth_queue
    known,       \* the last refresh token the proxy has received
    apart,       \* history: the last token received did not get into both cache and file
    crashes

provider == <<valid, issued>>
caches   == <<memory, former>>
books    == <<queue, queued, retry>>
reauth   == <<due, logins, login>>
history  == <<known, apart>>
vars == <<kind, provider, caches, disk, op, books, rejected, reauth, history, crashes>>

Task  == Reader \cup {Processor}
Token == 1 .. MaxToken
None  == 0

Creds   == [token: Token, fresh: BOOLEAN]
NoCreds == [token |-> None, fresh |-> FALSE]

\* A task that refreshes nothing; its dict is the cached one or the former.
Off  == [pc |-> "none", cred |-> CHOOSE c \in Credential: TRUE,
         current |-> TRUE, token |-> None, new |-> None, attempt |-> 0]
Idle == [Off EXCEPT !.pc = "idle"]

\* A processor that is idle may find its wait of 60 s over (timedOut), then
\* runs; only the queue's processors pause.
Op == [pc: {"none", "idle", "timedOut", "lock", "post", "refused", "granted", "check", "pause"},
       cred: Credential, current: BOOLEAN, token: Token \cup {None}, new: Token \cup {None},
       attempt: 0 .. MaxAttempts]

TypeOK ==
    /\ kind \in {"google", "openai"}
    /\ valid \in [Credential -> SUBSET Token]
    /\ issued \in [Credential -> Token]
    /\ memory \in [Credential -> Creds]
    /\ former \in [Credential -> Creds \cup {NoCreds}]
    /\ disk \in [Credential -> Creds]
    /\ op \in [Task -> Op]
    /\ queue \in Seq(Credential)
    /\ queued \in SUBSET Credential
    /\ retry \in [Credential -> 0 .. MaxRetries - 1]
    /\ rejected \in SUBSET Credential
    /\ due \in SUBSET Credential
    /\ logins \in Seq(Credential)
    /\ login \in [pc: {"none", "idle", "timedOut", "flow"}, cred: Credential]
    /\ known \in [Credential -> Token]
    /\ apart \in [Credential -> BOOLEAN]
    /\ crashes \in 0 .. MaxCrash

Init ==
    /\ kind \in {"google", "openai"}
    /\ valid = [c \in Credential |-> {1}]
    /\ issued = [c \in Credential |-> 1]
    /\ disk \in [Credential -> {[token |-> 1, fresh |-> b]: b \in BOOLEAN}]
    /\ memory = disk
    /\ former = [c \in Credential |-> NoCreds]
    /\ op = [t \in Task |-> IF t = Processor THEN Off ELSE Idle]
    /\ queue = <<>> /\ queued = {} /\ retry = [c \in Credential |-> 0]
    /\ rejected = {} /\ due = {}
    /\ logins = <<>> /\ login = [pc |-> "none", cred |-> Off.cred]
    /\ known = [c \in Credential |-> 1]
    /\ apart = [c \in Credential |-> FALSE]
    /\ crashes = 0
-----------------------------------------------------------------------------------
(* The caches.                                                             *)

Fresh(c) == memory[c].fresh          \* ~_is_token_expired

Holds(t, c)      == op[t].cred = c /\ op[t].pc \in {"post", "refused", "granted", "check"}
Refreshing(t, c) == Holds(t, c) \/ (op[t].cred = c /\ op[t].pc = "lock")

\* The dict that a refresh was given, and changes in place.
Dict(t) == IF op[t].current THEN memory[op[t].cred] ELSE former[op[t].cred]

\* The refreshes of c after the cached dict has been swapped with the former.
Swapped(c) == [t \in Task |->
    IF Refreshing(t, c) THEN [op[t] EXCEPT !.current = ~@] ELSE op[t]]

\* _credentials_cache[path] = another dict.  Bound: no two former dicts of a
\* credential are in use at a time.
Replace(c, r) ==
    /\ \A t \in Task: Refreshing(t, c) => op[t].current
    /\ memory' = [memory EXCEPT ![c] = r]
    /\ former' = [former EXCEPT ![c] =
                     IF \E t \in Task: Refreshing(t, c) THEN memory[c] ELSE NoCreds]
    /\ op' = Swapped(c)

\* The dict of t, which holds r by now, becomes the cached one.
Cache(t, r) ==
    LET c == op[t].cred
    IN  /\ memory' = [memory EXCEPT ![c] = r]
        /\ former' = IF op[t].current THEN former ELSE [former EXCEPT ![c] = memory[c]]

OthersAfterCaching(t) == IF op[t].current THEN op ELSE Swapped(op[t].cred)

Write(c, r) ==
    /\ disk' = [disk EXCEPT ![c] = r]
    /\ apart' = [apart EXCEPT ![c] = r.token # known'[c]]
-----------------------------------------------------------------------------------
(* The refresh queue: _queue_refresh and _process_refresh_queue.           *)

\* proactively_refresh of one path, called by the background refresher.
Tick(c) ==
    /\ ~Fresh(c) /\ c \notin queued
    /\ Len(queue) < QueueLimit \/ op[Processor].pc = "none"
    /\ queued' = queued \cup {c}
    /\ queue' = Append(queue, c)
    /\ op' = IF op[Processor].pc = "none" THEN [op EXCEPT ![Processor] = Idle] ELSE op
    /\ UNCHANGED <<kind, provider, caches, disk, retry, rejected, reauth, history, crashes>>

\* The next entry; one that has been refreshed meanwhile is dropped.
Take ==
    /\ op[Processor].pc = "idle" /\ queue # <<>>
    /\ queue' = Tail(queue)
    /\ LET c == Head(queue)
       IN  \/ /\ Fresh(c)
              /\ retry' = [retry EXCEPT ![c] = 0]
              /\ queued' = queued \ {c}
              /\ op' = op
           \/ /\ ~Fresh(c)
              /\ op' = [op EXCEPT ![Processor] =
                           [Idle EXCEPT !.pc = "lock", !.cred = c]]
              /\ UNCHANGED <<queued, retry>>
    /\ UNCHANGED <<kind, provider, caches, disk, rejected, reauth, history, crashes>>

\* The timer of wait_for fires; the task has still to run.
IdleTimer ==
    /\ op[Processor].pc = "idle" /\ queue = <<>>
    /\ op' = [op EXCEPT ![Processor].pc = "timedOut"]
    /\ UNCHANGED <<kind, provider, caches, disk, books, rejected, reauth, history, crashes>>

IdleExitForgetful == \* mutant
    /\ op[Processor].pc = "timedOut"
    /\ op' = [op EXCEPT ![Processor] = Off]
    /\ retry' = [c \in Credential |-> 0]
    /\ UNCHANGED <<kind, provider, caches, disk, queue, queued, rejected, reauth, history, crashes>>
\* What was added since the timer fired stays in the queue without a processor.
IdleExit ==
    /\ op[Processor].pc = "timedOut"
    /\ op' = [op EXCEPT ![Processor] = Off]
    /\ retry' = [c \in Credential |-> 0]
    /\ queued' = {}
    /\ UNCHANGED <<kind, provider, caches, disk, queue, rejected, reauth, history, crashes>>

WakeUp ==
    /\ op[Processor].pc = "pause"
    /\ op' = [op EXCEPT ![Processor] = Idle]
    /\ UNCHANGED <<kind, provider, caches, disk, books, rejected, reauth, history, crashes>>
-----------------------------------------------------------------------------------
(* How a refresh ends for the task that asked for it.                      *)

\* The processor pauses before the next entry; a request goes on.
After(t) == IF t = Processor THEN [Idle EXCEPT !.pc = "pause"] ELSE Idle

\* ops is what the other tasks are in.
Succeeded(t, ops) ==
    /\ op' = [ops EXCEPT ![t] = After(t)]
    /\ IF t = Processor THEN /\ retry' = [retry EXCEPT ![op[t].cred] = 0]
                             /\ queued' = queued \ {op[t].cred}
                        ELSE UNCHANGED <<queued, retry>>
    /\ queue' = queue

KickedOutMarked(c, marks) == \* mutant
    /\ retry' = [retry EXCEPT ![c] = 0]
    /\ queued' = marks
    /\ queue' = queue
\* _handle_refresh_failure with the last retry used up; marks is what is left
\* of _queued_credentials.
KickedOut(c, marks) ==
    /\ retry' = [retry EXCEPT ![c] = 0]
    /\ queued' = marks \ {c}
    /\ queue' = queue

LastRetryLate(c) == retry[c] + 1 > MaxRetries \* mutant
LastRetry(c) == retry[c] + 1 >= MaxRetries

\* _handle_refresh_failure: the entry goes to the back of the queue.
Failed(t, marks) ==
    /\ op' = [op EXCEPT ![t] = After(t)]
    /\ LET c == op[t].cred
       IN  \/ /\ t # Processor
              /\ queued' = marks
              /\ UNCHANGED <<queue, retry>>
           \/ /\ t = Processor /\ LastRetry(c)
              /\ KickedOut(c, marks)
           \/ /\ t = Processor /\ ~LastRetry(c)
              /\ retry' = [retry EXCEPT ![c] = @ + 1]
              /\ queue' = Append(queue, c)
              /\ queued' = marks
-----------------------------------------------------------------------------------
(* _refresh_token.                                                         *)

\* get_auth_header of a request that finds the token expired.
Start(r, c) ==
    /\ op[r].pc = "idle" /\ ~Fresh(c)
    /\ op' = [op EXCEPT ![r] = [Idle EXCEPT !.pc = "lock", !.cred = c]]
    /\ UNCHANGED <<kind, provider, caches, disk, books, rejected, reauth, history, crashes>>

LockIgnored(c) == TRUE \* mutant
LockFree(c) == \A t \in Task: ~Holds(t, c)

\* With the lock, somebody else may have done the work.
Acquire(t) ==
    LET c == op[t].cred
    IN  /\ op[t].pc = "lock" /\ LockFree(c)
        /\ \/ /\ Fresh(c)
              /\ Succeeded(t, op)
           \/ /\ ~Fresh(c)
              /\ op' = [op EXCEPT ![t].pc = "post", ![t].attempt = 1,
                                  ![t].token = Dict(t).token]
              /\ UNCHANGED books
        /\ UNCHANGED <<kind, provider, caches, disk, rejected, reauth, history, crashes>>

\* The provider answers; it may issue a new refresh token, and then does not
\* accept the one it was sent any more.
Answer(t) ==
    LET c == op[t].cred
        grant(new) == op' = [op EXCEPT ![t].pc = "granted", ![t].new = new]
    IN  /\ op[t].pc = "post"
        /\ \/ /\ op[t].token \notin valid[c]
              /\ op' = [op EXCEPT ![t].pc = "refused"]
              /\ UNCHANGED provider
           \/ /\ op[t].token \in valid[c]
              /\ grant(op[t].token)
              /\ UNCHANGED provider
           \/ /\ op[t].token \in valid[c] /\ issued[c] < MaxToken
              /\ issued' = [issued EXCEPT ![c] = @ + 1]
              /\ valid' = [valid EXCEPT ![c] = (@ \ {op[t].token}) \cup {issued'[c]}]
              /\ grant(issued'[c])
        /\ UNCHANGED <<kind, caches, disk, books, rejected, reauth, history, crashes>>

\* HTTP 429 and 5xx, or a network error before or after the provider has
\* answered: after a sleep the same token is sent again.
Transient(t) ==
    /\ op[t].pc \in {"post", "refused", "granted"}
    /\ \/ /\ op[t].attempt < MaxAttempts
          /\ op' = [op EXCEPT ![t].pc = "post", ![t].new = None, ![t].attempt = @ + 1]
          /\ UNCHANGED books
       \/ /\ op[t].attempt = MaxAttempts
          /\ Failed(t, queued)
    /\ UNCHANGED <<kind, provider, caches, disk, rejected, reauth, history, crashes>>

\* The refusal (HTTP 400 invalid_grant, 401, 403) arrives.  A Google
\* credential is marked for good; otherwise a task is created that will queue
\* it for re-authentication.  For the processor it is a failure like others.
Refused(t) ==
    LET c == op[t].cred
    IN  /\ op[t].pc = "refused"
        /\ \/ /\ kind = "google"
              /\ rejected' = rejected \cup {c}
              /\ Failed(t, queued \ {c})
              /\ due' = due
           \/ /\ kind = "openai"
              /\ due' = due \cup {c}
              /\ Failed(t, queued)
              /\ rejected' = rejected
        /\ UNCHANGED <<kind, provider, caches, disk, logins, login, history, crashes>>

\* The new token arrives.  Google's base changes the dict in place and tries
\* the token before it saves; the others save at once.
Granted(t) ==
    LET c == op[t].cred
        r == [token |-> op[t].new, fresh |-> TRUE]
    IN  /\ op[t].pc = "granted"
        /\ known' = [known EXCEPT ![c] = op[t].new]
        /\ \/ /\ kind = "google"
              /\ IF op[t].current THEN memory' = [memory EXCEPT ![c] = r] /\ former' = former
                                  ELSE former' = [former EXCEPT ![c] = r] /\ memory' = memory
              /\ op' = [op EXCEPT ![t].pc = "check"]
              /\ UNCHANGED <<disk, apart, books>>
           \/ /\ kind = "openai"
              /\ Cache(t, r) /\ Write(c, r)
              /\ Succeeded(t, OthersAfterCaching(t))
        /\ UNCHANGED <<kind, provider, rejected, reauth, crashes>>

CheckedUncached(t) == \* mutant
    /\ op[t].pc = "check"
    /\ known' = known
    /\ Write(op[t].cred, Dict(t))
    /\ Succeeded(t, op)
    /\ UNCHANGED <<kind, provider, caches, rejected, reauth, crashes>>
\* Whatever the validation says, the refresh has succeeded.
Checked(t) ==
    /\ op[t].pc = "check"
    /\ known' = known
    /\ Cache(t, Dict(t)) /\ Write(op[t].cred, Dict(t))
    /\ Succeeded(t, OthersAfterCaching(t))
    /\ UNCHANGED <<kind, provider, rejected, reauth, crashes>>

\* The processor's timeout, or a client that leaves, ends a refresh anywhere
\* but where it need not wait.
Cut(t) ==
    LET c == op[t].cred
    IN  /\ Refreshing(t, c) /\ ~(op[t].pc = "lock" /\ LockFree(c))
        /\ Failed(t, queued)
        /\ apart' = [apart EXCEPT ![c] = @ \/ op[t].pc = "check"]
        /\ UNCHANGED <<kind, provider, caches, disk, rejected, reauth, known, crashes>>
-----------------------------------------------------------------------------------
(* Re-authentication (_process_reauth_queue).                              *)

\* _queue_refresh(path, force=True, needs_reauth=True)
Escalate(c) ==
    /\ c \in due /\ Len(logins) < QueueLimit
    /\ due' = due \ {c}
    /\ queued' = queued \cup {c}
    /\ rejected' = rejected \cup {c}
    /\ logins' = Append(logins, c)
    /\ login' = IF login.pc = "none" THEN [login EXCEPT !.pc = "idle"] ELSE login
    /\ UNCHANGED <<kind, provider, caches, disk, op, queue, retry, history, crashes>>

TakeLogin ==
    /\ login.pc = "idle" /\ logins # <<>>
    /\ logins' = Tail(logins)
    /\ login' = [pc |-> "flow", cred |-> Head(logins)]
    /\ UNCHANGED <<kind, provider, caches, disk, op, books, rejected, due, history, crashes>>

LoginIdle ==
    /\ \/ /\ login.pc = "idle" /\ logins = <<>>
          /\ login' = [login EXCEPT !.pc = "timedOut"]
       \/ /\ login.pc = "timedOut"
          /\ login' = [login EXCEPT !.pc = "none"]
    /\ UNCHANGED <<kind, provider, caches, disk, op, books, rejected, due, logins, history, crashes>>

LoginEnds(c) ==
    /\ login.pc = "flow" /\ login.cred = c
    /\ login' = [pc |-> "idle", cred |-> Off.cred]
    /\ queued' = queued \ {c}

\* The provider issues a refresh token to the user who logs in.
LoggedIn(c) ==
    /\ issued[c] < MaxToken
    /\ issued' = [issued EXCEPT ![c] = @ + 1]
    /\ valid' = [valid EXCEPT ![c] = @ \cup {issued'[c]}]
    /\ known' = [known EXCEPT ![c] = issued'[c]]

\* The user logs in: a new dict in the cache and in the file.
LoginSucceeds(c) ==
    /\ LoginEnds(c) /\ LoggedIn(c)
    /\ Replace(c, [token |-> issued'[c], fresh |-> TRUE])
    /\ Write(c, [token |-> issued'[c], fresh |-> TRUE])
    /\ rejected' = rejected \ {c}
    /\ UNCHANGED <<kind, queue, retry, due, logins, crashes>>

\* Nobody logs in within the timeout, or the proxy runs without a display.
LoginFails(c) ==
    /\ LoginEnds(c)
    /\ UNCHANGED <<kind, provider, caches, disk, op, queue, retry, rejected, due, logins, history,
                   crashes>>
\* The user logs in on the web page of the running proxy instead: the file is
\* replaced, and no cache learns of it.
WebLogin(c) ==
    /\ LoggedIn(c)
    /\ disk' = [disk EXCEPT ![c] = [token |-> issued'[c], fresh |-> TRUE]]
    /\ apart' = [apart EXCEPT ![c] = TRUE]
    /\ UNCHANGED <<kind, caches, op, books, rejected, reauth, crashes>>
-----------------------------------------------------------------------------------
(* The rest of the world.                                                  *)

\* _persist_project_metadata puts what the file holds into the cache.
Persist(c) ==
    /\ kind = "google"
    /\ Replace(c, disk[c])
    /\ UNCHANGED <<kind, provider, disk, books, rejected, reauth, history, crashes>>

\* One and the same token expires in memory and in the file.
Expired(x, r) == IF x = r THEN [x EXCEPT !.fresh = FALSE] ELSE x
Expire(c) ==
    /\ \A t \in Task: ~Refreshing(t, c)
    /\ \E r \in {memory[c], disk[c]}:
         /\ r.fresh
         /\ memory' = [memory EXCEPT ![c] = Expired(@, r)]
         /\ disk' = [disk EXCEPT ![c] = Expired(@, r)]
    /\ former' = [former EXCEPT ![c] = NoCreds]
    /\ UNCHANGED <<kind, provider, op, books, rejected, reauth, history, crashes>>

\* The user or the provider revokes what has been issued.
Revoke(c) ==
    /\ valid[c] # {}
    /\ valid' = [valid EXCEPT ![c] = {}]
    /\ UNCHANGED <<kind, issued, caches, disk, op, books, rejected, reauth, history, crashes>>

\* The proxy ends, or crashes, and starts again with what the files hold.
Restart ==
    /\ crashes < MaxCrash
    /\ crashes' = crashes + 1
    /\ memory' = disk
    /\ former' = [c \in Credential |-> NoCreds]
    /\ op' = [t \in Task |-> IF t = Processor THEN Off ELSE Idle]
    /\ queue' = <<>> /\ queued' = {} /\ retry' = [c \in Credential |-> 0]
    /\ rejected' = {} /\ due' = {}
    /\ logins' = <<>> /\ login' = [pc |-> "none", cred |-> Off.cred]
    /\ apart' = [c \in Credential |-> disk[c].token # known[c]]
    /\ UNCHANGED <<kind, provider, disk, known>>
-----------------------------------------------------------------------------------
Refresh(t) ==
    \/ Acquire(t) \/ Answer(t) \/ Transient(t) \/ Refused(t) \/ Granted(t) \/ Checked(t)

Relogin == TakeLogin \/ LoginIdle \/ \E c \in Credential: LoginSucceeds(c) \/ LoginFails(c)

Next ==
    \/ \E c \in Credential:
         Tick(c) \/ Escalate(c) \/ WebLogin(c) \/ Persist(c) \/ Expire(c) \/ Revoke(c)
    \/ Take \/ IdleTimer \/ IdleExit \/ WakeUp
    \/ \E t \in Task: Refresh(t) \/ Cut(t)
    \/ \E r \in Reader, c \in Credential: Start(r, c)
    \/ Relogin
    \/ Restart

Spec == Init /\ [][Next]_vars

\* The refresher's ticks come back for good; the event loop runs the processor
\* and the requests when they are ready, and their HTTP calls have timeouts.
\* Logins are not relied on.
Fairness ==
    /\ \A c \in Credential: SF_vars(Tick(c))
    /\ WF_vars(Take \/ IdleExit \/ WakeUp \/ Refresh(Processor))
    /\ \A r \in Reader: WF_vars(Refresh(r))

FairSpec == Spec /\ Fairness
===================================================================================
