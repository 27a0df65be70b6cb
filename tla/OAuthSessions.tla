--------------------------- MODULE OAuthSessions ---------------------------
(***************************************************************************)
(* Sessions of one user who signs in through an OAuth provider, in one or  *)
(* more browsers: auth/auth_abstract_oauth.py, auth/oauth_token_manager.py *)
(* and the parts of auth/tornado_auth.py and web/web_auth_utils.py that    *)
(* call them. The server keeps one state and one set of tokens for him,    *)
(* each browser its own cookies.                                           *)
(*                                                                         *)
(* The server is one event loop: what a coroutine does between two awaits  *)
(* is one action, and requests, refreshes and checks interleave at their   *)
(* awaits.  A token is the number of the provider's response it came with  *)
(* (the response holds an access token and a refresh token).  One unit of  *)
(* the clock is longer than any call, so the clock advances only when      *)
(* nothing is in flight and no refresh is due.                             *)
(***************************************************************************)
EXTENDS Integers, Sequences, FiniteSets

CONSTANTS
    Browsers,       \* the browsers of the user
    First,          \* bound: the one in which he signs in first (they are all alike)
    Requests,       \* slots for requests in flight
    HasDump,        \* whether a state_dump_file is configured
    WebSockets,     \* the slots of websocket requests: they cannot set cookies
    AuthTtl,        \* auth_info_ttl
    SessionLife,    \* session_expire
    AccessLife,     \* how long an access token is valid
    RefreshLife,    \* how long a refresh token is valid
    MaxWork,        \* how many requests and checks may be in flight
    MaxClock, MaxTokens,
    SignIns,        \* bound: the moments at which the user may sign in
    Troubles,       \* bound: the moments at which something may go wrong,
    MaxFaults       \* and how often: failures of the provider, restarts, further sign-ins

ASSUME LivesAssumption ==
    /\ IsFiniteSet(Browsers) /\ First \in Browsers
    /\ IsFiniteSet(Requests) /\ WebSockets \subseteq Requests /\ HasDump \in BOOLEAN
    /\ {AuthTtl, SessionLife, AccessLife, RefreshLife} \subseteq Nat \ {0}
    /\ {MaxWork, MaxClock, MaxTokens, MaxFaults} \subseteq Nat

\* The refresh is scheduled by the time of the access token alone, so that it
\* comes in time only where a refresh token does not expire before.
ASSUME RefreshAssumption == AccessLife <= RefreshLife

VARIABLES
    clock,
    issued,     \* the provider: when each token was issued
    provider,   \* the provider's record of the user: enabled, groups
    browser,    \* the cookies of each browser: username, token and token_details
    users,      \* _users[user]: a state object, or None
    states,     \* the _UserState objects: last_auth_update, last_visit, groups
    refresh,    \* _refresh_tokens[user], or None
    pending,    \* _pending_access_tokens[user], or None
    jobs,       \* refreshes in the scheduler
    refreshing, \* refreshes waiting for the provider
    checks,     \* _do_update_user_auth_async: the queue of the user's lock
    req,        \* requests being validated
    sent,       \* the slots used in this unit of time
    login,      \* the login in progress in each browser
    dump,       \* the dump file: the user's state, if there is one
    logins,     \* logins so far
    faults,     \* failures of the provider, restarts and further logins so far
    excused,    \* whether something came up for which a refusal is right, or unavoidable
    refused     \* whether a request was refused before anything did

vars == <<clock, issued, provider, browser, users, states, refresh, pending,
          jobs, refreshing, checks, req, sent, login, dump, logins, faults,
          excused, refused>>

tokens == <<refresh, pending, jobs>>
world == <<clock, provider, logins, faults>>

None == 0
Never == -1
Tokens == 1..MaxTokens
\* One object per coroutine that can hold one, one in _users and a new one.
States == 1..(MaxWork + Cardinality(Browsers) + 2)
NoState == [auth |-> Never, visit |-> Never, groups |-> 0]
Cookies == [user : BOOLEAN, token : Tokens \cup {None}, details : Tokens \cup {None}]
NoCookies == [user |-> FALSE, token |-> None, details |-> None]
Idle == [pc |-> "idle", browser |-> None, cookies |-> NoCookies, state |-> None]
NoLogin == [pc |-> "idle", state |-> None, token |-> None]

Init ==
    /\ clock = 0
    /\ issued = <<>>
    /\ provider = [enabled |-> TRUE, groups |-> 1]
    /\ browser = [b \in Browsers |-> NoCookies]
    /\ users = None
    /\ states = [s \in States |-> NoState]
    /\ refresh = None
    /\ pending = None
    /\ jobs = {}
    /\ refreshing = {}
    /\ checks = <<>>
    /\ req = [r \in Requests |-> Idle]
    /\ sent = {}
    /\ login = [b \in Browsers |-> NoLogin]
    /\ dump = <<>>
    /\ logins = 0
    /\ faults = 0
    /\ excused = FALSE
    /\ refused = FALSE

-----------------------------------------------------------------------------
(* Tokens and state objects *)

AccessExpired(n) == issued[n] + AccessLife <= clock
RefreshExpired(n) == issued[n] + RefreshLife <= clock

\* The scheduler runs the refresh a minute before the access token expires.
Due(n) == issued[n] + AccessLife - 1 <= clock

\* What the provider answers when a token is presented.
Accepts(n) == provider.enabled /\ ~AccessExpired(n)
Renews(n) == provider.enabled /\ ~RefreshExpired(n)
NewToken == Len(issued) + 1

TtlExpired(s) == states[s].auth = Never \/ states[s].auth + AuthTtl < clock
SessionExpired(s) == states[s].visit = Never \/ states[s].visit + SessionLife < clock

InUse == {users} \cup {login[b].state : b \in Browsers} \cup {req[r].state : r \in Requests}
         \cup {checks[i].state : i \in 1..Len(checks)}
FreeState == CHOOSE s \in States \ InUse : TRUE

\* Mutant: the token manager is not told that the user is removed.
RemoveState ==
    /\ users' = None
    /\ UNCHANGED <<refresh, pending>>

\* _remove_user: the tokens go only together with a state.
RemoveUser ==
    /\ users' = None
    /\ refresh' = IF users = None THEN refresh ELSE None
    /\ pending' = IF users = None THEN pending ELSE None

SetCookies(b, cookies) == browser' = [browser EXCEPT ![b] = cookies]

\* update_tokens: the cookies are written, and a refresh token that is new
\* gets its refresh scheduled.
UpdateTokens(b, user, n) ==
    /\ SetCookies(b, [user |-> user, token |-> n, details |-> n])
    /\ refresh' = n
    /\ jobs' = IF refresh = n THEN jobs ELSE jobs \cup {n}

Excuse == excused' = TRUE

\* The provider fails, the server stops or the user signs in once more.
Fault ==
    /\ clock \in Troubles /\ faults < MaxFaults
    /\ faults' = faults + 1
    /\ Excuse

-----------------------------------------------------------------------------
(* Signing in and out *)

\* authenticate: the code is exchanged for a token and the user's info is
\* read; the new state is stored before its groups are, in the place of one
\* that he may have, from this browser or from another.
LoginStart(b) ==
    /\ login[b] = NoLogin
    /\ provider.enabled
    /\ clock \in SignIns /\ (logins = 0 => b = First)
    /\ logins' = logins + 1
    /\ IF logins = 0 THEN UNCHANGED <<faults, excused>>
       ELSE Fault
    /\ NewToken \in Tokens
    /\ issued' = Append(issued, clock)
    /\ users' = FreeState
    /\ states' = [states EXCEPT ![FreeState] = NoState]
    /\ login' = [login EXCEPT ![b] =
                    [pc |-> "groups", state |-> FreeState, token |-> NewToken]]
    /\ UNCHANGED <<clock, provider, browser, tokens, refreshing, checks, req, sent, dump, refused>>

\* The groups are loaded, the tokens stored and the cookies set.
LoginEnd(b) ==
    /\ login[b].pc = "groups"
    /\ states' = [states EXCEPT ![login[b].state] =
                    [auth |-> clock, visit |-> clock, groups |-> provider.groups]]
    /\ UpdateTokens(b, TRUE, login[b].token)
    /\ login' = [login EXCEPT ![b] = NoLogin]
    /\ UNCHANGED <<world, issued, users, pending, refreshing, checks, req, sent, dump, refused, excused>>

\* The provider fails to give the groups: the state stays behind.
LoginFail(b) ==
    /\ login[b].pc = "groups"
    /\ Fault
    /\ login' = [login EXCEPT ![b] = NoLogin]
    /\ UNCHANGED <<clock, provider, logins, issued, browser, users, states, tokens, refreshing,
                   checks, req, sent, dump, refused>>

\* TornadoAuth.logout on a request of the user.
Logout(b) ==
    /\ browser[b].user
    /\ SetCookies(b, NoCookies)
    /\ RemoveUser
    /\ dump' = <<>>
    /\ Excuse
    /\ UNCHANGED <<world, issued, states, jobs, refreshing, checks, req, sent, login, refused>>

-----------------------------------------------------------------------------
(* Requests *)

Send(r, b) ==
    /\ req[r] = Idle
    /\ Cardinality({q \in Requests : req[q] # Idle}) + Len(checks) < MaxWork
    /\ browser[b].user
    /\ r \notin sent \/ clock = MaxClock
    /\ sent' = sent \cup {r}
    /\ req' = [req EXCEPT ![r] = [pc |-> "sent", browser |-> b,
                                    cookies |-> browser[b], state |-> None]]
    /\ UNCHANGED <<world, issued, browser, users, states, tokens, refreshing, checks, login,
                   dump, refused, excused>>

\* update_user_auth: a check is started when the last one is too old.
StartCheck(s, n, now) ==
    checks' = IF now[s].auth = Never \/ now[s].auth + AuthTtl < clock
              THEN Append(checks, [state |-> s, token |-> n, pc |-> "lock"])
              ELSE checks

Admit(r, s, n, now) ==
    /\ StartCheck(s, n, now)
    /\ req' = [req EXCEPT ![r] = Idle]
    /\ UNCHANGED refused

\* is_authenticated logs an inactive user out, if it can clear the cookies.
Refuse(r) ==
    /\ RemoveUser
    /\ req' = [req EXCEPT ![r] = Idle]
    /\ refused' = (refused \/ ~excused')
    /\ IF r \in WebSockets THEN UNCHANGED <<browser, dump>>
       ELSE SetCookies(req[r].browser, NoCookies) /\ dump' = <<>>

\* validate_user refuses before it asks for tokens.
TurnedAway(r) ==
    IF r \in WebSockets
    THEN /\ req' = [req EXCEPT ![r] = Idle]
         /\ refused' = (refused \/ ~excused')
         /\ UNCHANGED <<users, refresh, pending, browser, dump>>
    ELSE Refuse(r)

CanRestore(c) == c.token # None /\ c.details # None /\ ~RefreshExpired(c.details)

\* Mutant: a websocket request takes the token too, and sets no cookie.
TakePendingAlways(r) ==
    /\ pending' = None
    /\ IF r \in WebSockets
       THEN UNCHANGED <<browser, refresh, jobs>>
       ELSE UpdateTokens(req[r].browser, browser[req[r].browser].user, pending)

\* The pending token replaces the browser's, if the request can set cookies.
TakePending(r) ==
    IF r \in WebSockets
    THEN UNCHANGED <<browser, tokens>>
    ELSE pending' = None /\ UpdateTokens(req[r].browser, browser[req[r].browser].user, pending)

\* synchronize_user_tokens once the user's state is s: the pending token,
\* the token of the cookie, or a restored or renewed one after a restart.
Synchronize(r, s, now) ==
    LET c == req[r].cookies
        restore == refresh = None /\ c.details # None
    IN  \/ /\ pending # None
           /\ Admit(r, s, pending, now)
           /\ users' = s
           /\ TakePending(r)
           /\ UNCHANGED dump
        \/ /\ pending = None
           /\ restore /\ RefreshExpired(c.details)
           /\ Refuse(r)
           /\ UNCHANGED <<jobs, checks>>
        \/ /\ pending = None
           /\ restore /\ ~RefreshExpired(c.details) /\ AccessExpired(c.details)
           /\ users' = s
           /\ req' = [req EXCEPT ![r].pc = "renewing", ![r].state = s]
           /\ UNCHANGED <<browser, tokens, checks, dump, refused>>
        \/ /\ pending = None
           /\ restore /\ ~RefreshExpired(c.details) /\ ~AccessExpired(c.details)
           /\ Admit(r, s, c.token, now)
           /\ users' = s
           /\ refresh' = c.details
           /\ jobs' = jobs \cup {c.details}
           /\ UNCHANGED <<browser, pending, dump>>
        \/ /\ pending = None
           /\ ~restore
           /\ Admit(r, s, c.token, now)
           /\ users' = s
           /\ UNCHANGED <<browser, tokens, dump>>

\* The session's time is over, or its last refresh token's.
ExpiryExcuse ==
    excused' = \/ excused
               \/ users # None /\ SessionExpired(users) /\ states[users].visit # Never
               \/ RefreshExpired(Len(issued))

\* validate_user, from its start to its first await.
Validate(r) ==
    /\ req[r].pc = "sent"
    /\ ExpiryExcuse
    /\ \/ /\ users # None
          /\ SessionExpired(users)
          /\ TurnedAway(r)
          /\ UNCHANGED <<states, jobs, checks>>
       \/ /\ users # None
          /\ ~SessionExpired(users)
          /\ states' = [states EXCEPT ![users].visit = clock]
          /\ Synchronize(r, users, states')
       \/ /\ users = None
          /\ ~CanRestore(req[r].cookies)
          /\ TurnedAway(r)
          /\ UNCHANGED <<states, jobs, checks>>
       \/ /\ users = None
          /\ CanRestore(req[r].cookies)
          /\ states' = [states EXCEPT ![FreeState] = [NoState EXCEPT !.visit = clock]]
          /\ Synchronize(r, FreeState, states')
    /\ UNCHANGED <<world, issued, refreshing, sent, login>>

\* The forced refresh of a request is answered: the new token is used for
\* this request and the browser keeps the old one.
Renewed(r) ==
    /\ req[r].pc = "renewing"
    /\ Renews(req[r].cookies.details)
    /\ NewToken \in Tokens
    /\ issued' = Append(issued, clock)
    /\ refresh' = NewToken
    /\ pending' = None
    /\ jobs' = jobs \cup {NewToken}
    /\ Admit(r, req[r].state, NewToken, states)
    /\ UNCHANGED <<world, browser, users, states, refreshing, sent, login, dump, excused>>

\* AuthFailureError: the provider does not renew the token, answers with an
\* error, or has given all the tokens of a run (a bound).
Refused(n) ==
    \/ ~Renews(n) /\ UNCHANGED <<faults, excused>>
    \/ NewToken \notin Tokens /\ Excuse /\ UNCHANGED faults
    \/ Fault

NotRenewed(r) ==
    /\ req[r].pc = "renewing"
    /\ Refused(req[r].cookies.details)
    /\ \/ /\ users = None /\ pending # None
          /\ Admit(r, req[r].state, pending, states)
          /\ pending' = None
          /\ UNCHANGED <<browser, users, refresh, dump>>
       \/ /\ ~(users = None /\ pending # None)
          /\ Refuse(r)
          /\ UNCHANGED checks
    /\ UNCHANGED <<clock, provider, logins, issued, states, jobs, refreshing, sent, login>>

\* The provider cannot be reached: the error leaves validate_user, the request
\* fails with it and the user stays.
NotReached(r) ==
    /\ req[r].pc = "renewing"
    /\ Fault
    /\ req' = [req EXCEPT ![r] = Idle]
    /\ UNCHANGED <<clock, provider, logins, issued, browser, users, states, tokens, refreshing,
                   checks, sent, login, dump, refused>>

-----------------------------------------------------------------------------
(* The scheduled refresh: OAuthTokenManager._refresh_token *)

\* What comes due at the last moment of a run is left.
RefreshStart(n) ==
    /\ n \in jobs
    /\ Due(n) /\ clock < MaxClock
    /\ jobs' = jobs \ {n}
    /\ refreshing' = IF refresh = n /\ users # None THEN refreshing \cup {n} ELSE refreshing
    /\ UNCHANGED <<world, issued, browser, users, states, refresh, pending, checks, req, sent,
                   login, dump, refused, excused>>

\* The answer is stored whatever happened while it was awaited.
Refreshed(n) ==
    /\ n \in refreshing
    /\ Renews(n)
    /\ NewToken \in Tokens
    /\ issued' = Append(issued, clock)
    /\ refreshing' = refreshing \ {n}
    /\ refresh' = NewToken
    /\ pending' = NewToken
    /\ jobs' = jobs \cup {NewToken}
    /\ UNCHANGED <<world, browser, users, states, checks, req, sent, login, dump, refused, excused>>

NotRefreshed(n) ==
    /\ n \in refreshing
    /\ Refused(n)
    /\ refreshing' = refreshing \ {n}
    /\ RemoveUser
    /\ UNCHANGED <<clock, provider, logins, issued, browser, states, jobs, checks, req, sent, login, dump,
                   refused>>

\* The provider cannot be reached: any other error is not caught. The user
\* stays with the token he has, and no refresh is scheduled any more.
RefreshLost(n) ==
    /\ n \in refreshing
    /\ Fault
    /\ refreshing' = refreshing \ {n}
    /\ UNCHANGED <<clock, provider, logins, issued, browser, users, states, tokens, checks, req,
                   sent, login, dump, refused>>

-----------------------------------------------------------------------------
(* The check of the user's info and groups: _do_update_user_auth_async *)

Unchecked == <<clock, provider, logins, issued, browser, jobs, refreshing, req, sent, login, dump,
               refused>>
Rest == Tail(checks)

\* Mutant: the check is made although another one has just been made.
CheckUnconditionally ==
    /\ checks # <<>> /\ Head(checks).pc = "lock"
    /\ checks' = <<[Head(checks) EXCEPT !.pc = "info"]>> \o Rest
    /\ UNCHANGED <<Unchecked, users, states, refresh, pending, faults, excused>>

\* The head of the queue holds the lock: another check may have been made.
CheckLocked ==
    /\ checks # <<>> /\ Head(checks).pc = "lock"
    /\ checks' = IF TtlExpired(Head(checks).state)
                 THEN <<[Head(checks) EXCEPT !.pc = "info"]>> \o Rest
                 ELSE Rest
    /\ UNCHANGED <<Unchecked, users, states, refresh, pending, faults, excused>>

\* Mutant: the check ends with the user's info and loads no groups.
CheckInfoOnly ==
    /\ checks # <<>> /\ Head(checks).pc = "info"
    /\ checks' = Rest
    /\ IF Accepts(Head(checks).token)
       THEN /\ states' = [states EXCEPT ![Head(checks).state].auth = clock]
            /\ UNCHANGED <<users, refresh, pending>>
       ELSE RemoveUser /\ UNCHANGED states
    /\ UNCHANGED <<Unchecked, faults, excused>>

CheckInfo ==
    /\ checks # <<>> /\ Head(checks).pc = "info"
    /\ IF Accepts(Head(checks).token)
       THEN /\ checks' = <<[Head(checks) EXCEPT !.pc = "groups"]>> \o Rest
            /\ UNCHANGED <<users, refresh, pending>>
       ELSE checks' = Rest /\ RemoveUser
    /\ UNCHANGED <<Unchecked, states, faults, excused>>

\* Mutant: the next check is put off by one unit.
CheckGroupsAhead ==
    /\ checks # <<>> /\ Head(checks).pc = "groups"
    /\ checks' = Rest
    /\ states' = [states EXCEPT ![Head(checks).state].auth = clock + 1,
                                ![Head(checks).state].groups = provider.groups]
    /\ UNCHANGED <<Unchecked, users, refresh, pending, faults, excused>>

CheckGroups ==
    /\ checks # <<>> /\ Head(checks).pc = "groups"
    /\ checks' = Rest
    /\ states' = [states EXCEPT ![Head(checks).state].auth = clock,
                                ![Head(checks).state].groups = provider.groups]
    /\ UNCHANGED <<Unchecked, users, refresh, pending, faults, excused>>

\* An error of the provider: the check is given up, or the user is removed
\* (an answer without a name, an AuthFailureError of the groups).
CheckFail ==
    /\ checks # <<>> /\ Head(checks).pc \in {"info", "groups"}
    /\ Fault
    /\ checks' = Rest
    /\ RemoveUser \/ UNCHANGED <<users, refresh, pending>>
    /\ UNCHANGED <<Unchecked, states>>

-----------------------------------------------------------------------------
(* The world *)

Quiet == /\ \A r \in Requests : req[r] = Idle
         /\ \A b \in Browsers : login[b] = NoLogin
         /\ checks = <<>> /\ refreshing = {}
         /\ \A n \in jobs : ~Due(n)

\* State objects nobody refers to any more are gone.
Tick ==
    /\ clock < MaxClock
    /\ Quiet
    /\ clock' = clock + 1
    /\ sent' = {}
    /\ states' = [s \in States |-> IF s = users THEN states[s] ELSE NoState]
    /\ UNCHANGED <<issued, provider, browser, users, tokens, refreshing, checks, req,
                   login, dump, logins, faults, refused, excused>>

\* The bounds leave the time to see what comes of it.
Deactivate ==
    /\ provider.enabled
    /\ clock + AccessLife <= MaxClock /\ clock + AuthTtl < MaxClock
    /\ provider' = [provider EXCEPT !.enabled = FALSE]
    /\ Excuse
    /\ UNCHANGED <<clock, issued, browser, users, states, tokens, refreshing, checks, req, sent,
                   login, dump, logins, faults, refused>>

ChangeGroups ==
    /\ provider.groups = 1
    /\ clock + AuthTtl < MaxClock
    /\ provider' = [provider EXCEPT !.groups = 2]
    /\ UNCHANGED <<clock, issued, browser, users, states, tokens, refreshing, checks, req, sent,
                   login, dump, logins, faults, refused, excused>>

\* The dump timer's thread; a dump that no restart can read any more is left out.
DumpState ==
    /\ HasDump
    /\ faults < MaxFaults /\ \E t \in Troubles : clock <= t
    /\ dump' = IF users = None THEN <<>> ELSE <<states[users]>>
    /\ dump' # dump
    /\ UNCHANGED <<world, issued, browser, users, states, tokens, refreshing, checks, req, sent,
                   login, refused, excused>>

\* The server stops and starts again: the states come back from the dump,
\* the tokens do not, and requests in flight are lost.
Restart ==
    /\ Fault
    /\ users' = Len(dump)
    /\ states' = [s \in States |-> IF s = users' THEN dump[1] ELSE NoState]
    /\ refresh' = None
    /\ pending' = None
    /\ jobs' = {}
    /\ refreshing' = {}
    /\ checks' = <<>>
    /\ req' = [r \in Requests |-> Idle]
    /\ sent' = {}
    /\ login' = [b \in Browsers |-> NoLogin]
    /\ UNCHANGED <<clock, provider, logins, issued, browser, dump, refused>>

Login(b) == LoginStart(b) \/ LoginEnd(b) \/ LoginFail(b)
Serve(r) == Validate(r) \/ Renewed(r) \/ NotRenewed(r) \/ NotReached(r)
Refresh(n) == RefreshStart(n) \/ Refreshed(n) \/ NotRefreshed(n) \/ RefreshLost(n)
Check == CheckLocked \/ CheckInfo \/ CheckGroups

Next ==
    \/ \E b \in Browsers : Login(b) \/ Logout(b)
    \/ \E r \in Requests : Serve(r) \/ \E b \in Browsers : Send(r, b)
    \/ \E n \in Tokens : Refresh(n)
    \/ Check \/ CheckFail
    \/ Tick \/ Deactivate \/ ChangeGroups \/ DumpState \/ Restart

Spec == Init /\ [][Next]_vars

\* The event loop and the provider go on, time passes, and each browser that
\* is signed in keeps sending requests.
FairSpec ==
    /\ Spec
    /\ \A b \in Browsers : WF_vars(LoginEnd(b))
    /\ WF_vars(Check) /\ WF_vars(Tick)
    /\ WF_vars(\E n \in Tokens : Refresh(n))
    /\ \A r \in Requests : WF_vars(Serve(r))
    /\ \A r \in Requests \ WebSockets, b \in Browsers : SF_vars(Send(r, b))
-----------------------------------------------------------------------------
\* Users, tokens, cookies and the calls under way are of the kinds the code
\* puts there.
TypeOK ==
    /\ clock \in 0..MaxClock
    /\ issued \in Seq(0..MaxClock) /\ Len(issued) <= MaxTokens
    /\ provider \in [enabled : BOOLEAN, groups : 1..2]
    /\ browser \in [Browsers -> Cookies]
    /\ users \in States \cup {None}
    /\ \A s \in States : states[s] \in
          [auth : 0..MaxClock \cup {Never}, visit : 0..MaxClock \cup {Never}, groups : 0..2]
    /\ {refresh, pending} \subseteq Tokens \cup {None}
    /\ jobs \cup refreshing \subseteq Tokens
    /\ \A r \in Requests : req[r].pc \in {"idle", "sent", "renewing"}
    /\ refused \in BOOLEAN

\* A user whom the provider never rejected or failed, and who did not sign out
\* or sign in once more, is not refused: the newest token reaches his browser
\* before the old one is of no use, whichever of its requests takes it. A second
\* sign-in is a cause, in this browser or in another: authenticate puts a state
\* without a last visit in the place of the first while it awaits the groups, and
\* only one browser gets the pending token.
StaysSignedIn == ~refused

\* Nor is his state removed without one of these causes: no check presents an
\* old token that another request of the browser has already replaced.
RemovedForCause == [][users # None /\ users' = None => excused']_vars

\* A user the provider deactivated leaves: every browser loses its session.
DeactivatedLeaves == \A b \in Browsers : ~provider.enabled ~> ~browser[b].user

OldGroups ==
    (\E b \in Browsers : browser[b].user) /\ users # None /\ states[users].groups # provider.groups

\* A change of the user's groups reaches his session, also when he signs in anew.
GroupsCatchUp == OldGroups ~> ~OldGroups

\* The session of a user whom nothing speaks against is kept, whatever calls
\* of his are under way.
SessionKept == TypeOK /\ StaysSignedIn

\* What the provider says of a user gets through to his session.
ProviderHeard == DeactivatedLeaves /\ GroupsCatchUp
=============================================================================
