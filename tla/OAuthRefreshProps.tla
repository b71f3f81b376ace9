----------------------------- MODULE OAuthRefreshProps -----------------------------
(* What refreshing the tokens promises.                                    *)
EXTENDS OAuthRefresh

InQueue(c, q) == \E i \in DOMAIN q: q[i] = c

\* A credential that is marked as queued, and that ticks therefore skip, is
\* on its way: it waits for a processor that is alive, or is being refreshed,
\* or waits for a login (google_oauth_base.py:743-750, 818-860).
MarkedIsPending ==
    \A c \in queued:
        \/ op[Processor].pc # "none" /\ InQueue(c, queue)
        \/ Refreshing(Processor, c)
        \/ InQueue(c, logins)
        \/ login.pc = "flow" /\ login.cred = c

\* No task sends a refresh token that the proxy knows to be replaced, which a
\* provider that rotates tokens would refuse, whoever else refreshes the
\* credential (google_oauth_base.py:435-450).  The exceptions: a timeout or a
\* restart has lost the new one; a login has replaced it meanwhile; or, until
\* the next save, a login on the web page has put the new one in the file and
\* left the cache alone (proxy_app/api/oauth.py:806-849).
InFlightIsNewest ==
    \A t \in Task: LET c == op[t].cred
                   IN  Holds(t, c) /\ op[t].pc # "check" =>
                          \/ op[t].token = known[c]
                          \/ apart[c]
                          \/ kind = "openai" /\ ~op[t].current

\* Between refreshes the file holds what is in memory, so that a restart
\* needs no login (google_oauth_base.py:402-411, 1316-1317); except when a
\* refresh has been cut off before it saved, and from a login on the web page
\* to the next save (proxy_app/api/oauth.py:806-849).
FileMatchesMemory ==
    \A c \in Credential:
        \/ disk[c] = memory[c]
        \/ apart[c]
        \/ \E t \in Task: op[t].cred = c /\ op[t].pc = "check"

\* An expired credential with a good refresh token is refreshed, or at least
\* tried, unless it waits for a login: the processor may end just when an
\* entry is added, and retries may run out, but the refresher comes back
\* (google_oauth_base.py:724-750, 771-782).
Tried(c) == \E t \in Task: op[t].cred = c /\ op[t].pc = "post"
Refreshable(c) ==
    ~Fresh(c) /\ memory[c].token \in valid[c] /\ c \notin due /\ ~InQueue(c, logins)
        /\ login.pc # "flow"
ExpiredIsTried == \A c \in Credential: Refreshable(c) ~> Tried(c) \/ ~Refreshable(c)
====================================================================================
