----------------------- MODULE OAuthSessions_proofs -----------------------
(***************************************************************************)
(* Proofs about OAuthSessions, for any number of browsers, of requests in  *)
(* flight, of tokens, sign-ins and failures, for any lives of sessions and *)
(* for any of tokens with AccessLife <= RefreshLife.                       *)
(***************************************************************************)
EXTENDS OAuthSessions, FiniteSetTheorems, SequenceTheorems, TLAPS

-----------------------------------------------------------------------------
(* The inductive invariant, in named parts. *)

StateRecord ==
    [auth : 0..MaxClock \cup {Never}, visit : 0..MaxClock \cup {Never}, groups : 0..2]
ReqRecord ==
    [pc : {"idle", "sent", "renewing"}, browser : Browsers \cup {None},
     cookies : Cookies, state : States \cup {None}]
CheckRecord ==
    [state : States, token : Tokens \cup {None}, pc : {"lock", "info", "groups"}]
LoginRecord ==
    [pc : {"idle", "groups"}, state : States \cup {None}, token : Tokens \cup {None}]

(* The types of the server's state, of the browsers' cookies and of the    *)
(* calls under way.                                                        *)
ServerTypes ==
    /\ clock \in 0..MaxClock
    /\ issued \in Seq(0..MaxClock) /\ Len(issued) <= MaxTokens
    /\ provider \in [enabled : BOOLEAN, groups : 1..2]
    /\ users \in States \cup {None}
    /\ states \in [States -> StateRecord]
    /\ refresh \in Tokens \cup {None} /\ pending \in Tokens \cup {None}
    /\ jobs \subseteq Tokens /\ refreshing \subseteq Tokens
    /\ dump \in Seq(StateRecord) /\ Len(dump) <= 1
    /\ refused \in BOOLEAN

CallTypes ==
    /\ browser \in [Browsers -> Cookies]
    /\ checks \in Seq(CheckRecord)
    /\ req \in [Requests -> ReqRecord]
    /\ login \in [Browsers -> LoginRecord]
    /\ \A b \in Browsers :
          /\ login[b].pc = "groups" => login[b].state \in States /\ login[b].token \in Tokens
          /\ login[b].pc = "idle" => login[b] = NoLogin
    /\ \A r \in Requests : /\ req[r].pc = "idle" => req[r] = Idle
                           /\ req[r].pc # "idle" => req[r].browser \in Browsers
                           /\ req[r].pc = "sent" => req[r].state = None
                           /\ req[r].pc = "renewing" =>
                                req[r].state \in States /\ req[r].cookies.details \in Tokens

Busy == {r \in Requests : req[r] # Idle}

(* So many calls that each has a state object of its own. *)
Bounded == Cardinality(Busy) + Len(checks) <= MaxWork

Types == ServerTypes /\ CallTypes /\ Bounded

(* Nothing of the user is on the server before he signs in. *)
Outside ==
    /\ \A b \in Browsers : ~browser[b].user
    /\ Busy = {} /\ checks = <<>>
    /\ refresh = None /\ pending = None /\ jobs = {} /\ refreshing = {}

NotSigned == users = None /\ logins = 0 /\ \A b \in Browsers : login[b].pc = "idle"

(* He signs in in one browser. *)
SigningAt(b) ==
    /\ login[b].pc = "groups" /\ users = login[b].state /\ logins # 0
    /\ login[b].token = Len(issued) /\ issued[Len(issued)] = clock
    /\ \A other \in Browsers \ {b} : login[other].pc = "idle"

SigningIn == Outside /\ (NotSigned \/ \E b \in Browsers : SigningAt(b))

(* The tokens that the provider accepts, if it accepts the user. *)
Good == {n \in 1..Len(issued) : ~AccessExpired(n)}

(* The newest token is the one to refresh, in time. *)
TokensCurrent(b) ==
    /\ refresh = Len(issued) /\ refresh \in Good
    /\ jobs \cup refreshing = {refresh} /\ jobs \cap refreshing = {}
    /\ pending \in {None, refresh}
    /\ pending = None => browser[b].token = refresh

JustChecked == ~TtlExpired(users)

(* A call that holds a token that is of no use any more will not present   *)
(* it: a check has just been made, or one with a good token comes first.   *)
CallsCovered ==
    /\ \A r \in Requests : req[r].pc \in {"idle", "sent"}
    /\ pending = None /\ ~JustChecked =>
          \A r \in Requests : req[r].pc = "sent" /\ req[r].cookies.token \notin Good =>
             \E i \in 1..Len(checks) : checks[i].token \in Good
    /\ \A i \in 1..Len(checks) :
          /\ checks[i].state = users
          /\ checks[i].token \notin Good =>
                /\ checks[i].pc = "lock"
                /\ JustChecked \/ \E j \in 1..i - 1 : checks[j].token \in Good

(* The browser that is signed in; all calls are its own. *)
SignedAt(b) ==
    /\ browser[b].user /\ \A other \in Browsers \ {b} : ~browser[other].user
    /\ \A r \in Requests : req[r].pc = "sent" => req[r].browser = b
    /\ TokensCurrent(b)

SignedIn ==
    /\ logins # 0 /\ \A b \in Browsers : login[b].pc = "idle"
    /\ users # None /\ states[users].visit # Never
    /\ CallsCovered
    /\ \E b \in Browsers : SignedAt(b)

(* While nothing speaks against the user, he is outside or signed in. *)
Welcome == ~refused /\ provider.enabled /\ (SigningIn \/ SignedIn)

Innocent == ~refused /\ (~excused => Welcome)

SessionInv == Types /\ Innocent
-----------------------------------------------------------------------------
(* There is a state object for every call. *)

LEMMA Constants ==
    /\ MaxWork \in Nat /\ MaxClock \in Nat /\ MaxTokens \in Nat
    /\ AccessLife \in Nat /\ AccessLife >= 1 /\ RefreshLife \in Nat
    /\ AuthTtl \in Nat /\ SessionLife \in Nat /\ AccessLife <= RefreshLife
    /\ 1 \in States /\ None \notin States /\ None \notin Tokens
    /\ IsFiniteSet(Requests)
    /\ IsFiniteSet(Browsers) /\ Cardinality(Browsers) \in Nat
BY FS_CardinalityType, LivesAssumption, RefreshAssumption DEF States, None, Tokens

LEMMA BusyFinite == IsFiniteSet(Busy) /\ Cardinality(Busy) \in Nat
<1>1. Busy \in SUBSET Requests
  BY DEF Busy
<1>2. IsFiniteSet(Busy)
  BY <1>1, Constants, FS_Subset
<1> QED BY <1>2, FS_CardinalityType

LEMMA FreeStateIsFree ==
    ASSUME Types
    PROVE  FreeState \in States /\ FreeState # None /\ FreeState \notin InUse
<1> DEFINE C == {login[b].state : b \in Browsers}
           A == {req[r].state : r \in Busy}
           B == {checks[i].state : i \in 1..Len(checks)}
<1>1. Len(checks) \in Nat
  BY DEF Types, CallTypes
<1>2. IsFiniteSet(A) /\ Cardinality(A) <= Cardinality(Busy)
  <2>1. [r \in Busy |-> req[r].state] \in Surjection(Busy, A)
    BY DEF Surjection
  <2> QED BY <2>1, BusyFinite, FS_Surjection
<1>3. IsFiniteSet(B) /\ Cardinality(B) <= Len(checks)
  <2>1. [i \in 1..Len(checks) |-> checks[i].state] \in Surjection(1..Len(checks), B)
    BY DEF Surjection
  <2>2. IsFiniteSet(1..Len(checks)) /\ Cardinality(1..Len(checks)) = Len(checks)
    <3>1. \A n \in Nat : IsFiniteSet(1..n) /\ Cardinality(1..n) = n
      BY ONLY FS_Interval
    <3> QED BY ONLY <1>1, <3>1
  <2> HIDE DEF B
  <2>3. IsFiniteSet(B) /\ Cardinality(B) <= Cardinality(1..Len(checks))
    BY <2>1, <2>2, FS_Surjection
  <2> QED BY <2>2, <2>3
<1>9. IsFiniteSet(C) /\ Cardinality(C) <= Cardinality(Browsers)
  <2>1. [b \in Browsers |-> login[b].state] \in Surjection(Browsers, C)
    BY DEF Surjection
  <2> QED BY <2>1, Constants, FS_Surjection
<1>4. InUse \cap States \subseteq ((A \cup B) \cup C) \cup {users}
  <2>1. \A r \in Requests : r \notin Busy => req[r].state = None
    BY DEF Busy, Idle
  <2> QED BY <2>1, Constants DEF InUse
<1> HIDE DEF A, B, C
<1>5. /\ IsFiniteSet(((A \cup B) \cup C) \cup {users})
      /\ Cardinality(((A \cup B) \cup C) \cup {users}) <= MaxWork + Cardinality(Browsers) + 1
  <2>0. \A S, T : IsFiniteSet(S) /\ IsFiniteSet(T) =>
           /\ IsFiniteSet(S \cup T)
           /\ Cardinality(S) \in Nat /\ Cardinality(T) \in Nat /\ Cardinality(S \cup T) \in Nat
           /\ Cardinality(S \cup T) <= Cardinality(S) + Cardinality(T)
    <3> SUFFICES ASSUME NEW S, NEW T, IsFiniteSet(S), IsFiniteSet(T)
                 PROVE  /\ IsFiniteSet(S \cup T)
                        /\ Cardinality(S) \in Nat /\ Cardinality(T) \in Nat
                        /\ Cardinality(S \cup T) \in Nat
                        /\ Cardinality(S \cup T) <= Cardinality(S) + Cardinality(T)
      OBVIOUS
    <3>1. IsFiniteSet(S \cap T) /\ Cardinality(S \cap T) \in Nat
      BY FS_Intersection, FS_CardinalityType
    <3>2. /\ IsFiniteSet(S \cup T)
          /\ Cardinality(S \cup T) = Cardinality(S) + Cardinality(T) - Cardinality(S \cap T)
      BY FS_Union
    <3>3. Cardinality(S) \in Nat /\ Cardinality(T) \in Nat /\ Cardinality(S \cup T) \in Nat
      BY <3>2, FS_CardinalityType
    <3> QED BY <3>1, <3>2, <3>3
  <2>1. Cardinality(Busy) + Len(checks) <= MaxWork
    BY DEF Types, Bounded
  <2>2. /\ IsFiniteSet(A \cup B) /\ Cardinality(A \cup B) \in Nat
        /\ Cardinality(A \cup B) <= Cardinality(A) + Cardinality(B)
        /\ Cardinality(A) \in Nat /\ Cardinality(B) \in Nat
    BY <1>2, <1>3, <2>0
  <2>3. Cardinality(A \cup B) <= MaxWork
    BY <1>1, <1>2, <1>3, <2>1, <2>2, BusyFinite, Constants
  <2>4. /\ IsFiniteSet((A \cup B) \cup C) /\ Cardinality((A \cup B) \cup C) \in Nat
        /\ Cardinality((A \cup B) \cup C) <= Cardinality(A \cup B) + Cardinality(C)
        /\ Cardinality(C) \in Nat
    BY <1>9, <2>0, <2>2
  <2>5. /\ IsFiniteSet(((A \cup B) \cup C) \cup {users})
        /\ Cardinality(((A \cup B) \cup C) \cup {users}) =
              IF users \in (A \cup B) \cup C THEN Cardinality((A \cup B) \cup C)
              ELSE Cardinality((A \cup B) \cup C) + 1
    BY <2>4, FS_AddElement
  <2> QED BY <1>9, <2>2, <2>3, <2>4, <2>5, Constants
<1>6. IsFiniteSet(States) /\ Cardinality(States) = MaxWork + Cardinality(Browsers) + 2
  <2>1. MaxWork + Cardinality(Browsers) + 2 \in Nat
    BY Constants
  <2>2. PICK m \in Nat : m = MaxWork + Cardinality(Browsers) + 2
    BY <2>1
  <2>3. IsFiniteSet(1..m) /\ Cardinality(1..m) = m
    <3>1. \A n \in Nat : IsFiniteSet(1..n) /\ Cardinality(1..n) = n
      BY ONLY FS_Interval
    <3> QED BY <3>1
  <2> QED BY <2>2, <2>3 DEF States
<1>7. States \ InUse # {}
  <2> SUFFICES ASSUME States \ InUse = {}
               PROVE  FALSE
    OBVIOUS
  <2>1. States \in SUBSET (((A \cup B) \cup C) \cup {users})
    BY <1>4
  <2>2. Cardinality(States) <= Cardinality(((A \cup B) \cup C) \cup {users})
    BY <1>5, <2>1, FS_Subset
  <2>3. Cardinality(((A \cup B) \cup C) \cup {users}) \in Nat
    BY <1>5, FS_CardinalityType
  <2> QED BY <1>5, <1>6, <2>2, <2>3, Constants
<1> QED BY <1>7, Constants DEF FreeState

-----------------------------------------------------------------------------
(* Types. *)

(* What moves a check through the queue. *)
LEMMA QueueMoves ==
    ASSUME checks \in Seq(CheckRecord), checks # <<>>,
           NEW label \in {"lock", "info", "groups"}
    PROVE  /\ Head(checks) = checks[1] /\ Head(checks) \in CheckRecord
           /\ Len(checks) \in Nat /\ Len(checks) >= 1
           /\ Rest \in Seq(CheckRecord) /\ Len(Rest) = Len(checks) - 1
           /\ \A i \in 1..Len(Rest) : Rest[i] = checks[i + 1]
           /\ LET moved == <<[Head(checks) EXCEPT !.pc = label]>> \o Rest
              IN  /\ moved \in Seq(CheckRecord) /\ Len(moved) = Len(checks)
                  /\ moved[1].state = checks[1].state /\ moved[1].token = checks[1].token
                  /\ moved[1].pc = label
                  /\ \A i \in 2..Len(checks) : moved[i] = checks[i]
<1>1. Len(checks) \in Nat /\ Len(checks) >= 1 /\ Head(checks) = checks[1]
  BY EmptySeq
<1>2. /\ Head(checks) \in CheckRecord /\ Rest \in Seq(CheckRecord)
      /\ Len(Rest) = Len(checks) - 1
      /\ \A i \in 1..Len(Rest) : Rest[i] = checks[i + 1]
  BY HeadTailProperties DEF Rest
<1>3. PICK h \in CheckRecord :
        /\ h = [Head(checks) EXCEPT !.pc = label]
        /\ h.state = checks[1].state /\ h.token = checks[1].token /\ h.pc = label
  <2>1. PICK c \in CheckRecord : c = Head(checks) /\ c = checks[1]
    BY <1>1, <1>2
  <2>2. PICK g : g = [c EXCEPT !.pc = label]
    OBVIOUS
  <2>3. g \in CheckRecord /\ g.state = c.state /\ g.token = c.token /\ g.pc = label
    BY <2>2 DEF CheckRecord
  <2> QED BY <2>1, <2>2, <2>3
<1>4. <<h>> \in Seq(CheckRecord) /\ Len(<<h>>) = 1 /\ <<h>>[1] = h
  OBVIOUS
<1>5. /\ <<h>> \o Rest \in Seq(CheckRecord) /\ Len(<<h>> \o Rest) = 1 + Len(Rest)
      /\ \A i \in 1..1 + Len(Rest) :
            (<<h>> \o Rest)[i] = IF i <= 1 THEN <<h>>[i] ELSE Rest[i - 1]
  BY <1>2, <1>4, ConcatProperties
<1>6. Len(<<h>> \o Rest) = Len(checks) /\ (<<h>> \o Rest)[1] = h
  BY <1>1, <1>2, <1>4, <1>5
<1>7. ASSUME NEW i \in 2..Len(checks)
      PROVE  (<<h>> \o Rest)[i] = checks[i]
  <2>1. i \in 1..1 + Len(Rest) /\ ~(i <= 1) /\ i - 1 \in 1..Len(Rest) /\ (i - 1) + 1 = i
    BY <1>1, <1>2
  <2> QED BY <1>2, <1>5, <2>1
<1> QED BY <1>1, <1>2, <1>3, <1>5, <1>6, <1>7

(* A call that comes, waits or goes. *)
LEMMA CallGoes ==
    ASSUME Types, NEW r \in Requests, req[r].pc # "idle", req' = [req EXCEPT ![r] = Idle]
    PROVE  /\ req' \in [Requests -> ReqRecord] /\ Busy' = Busy \ {r}
           /\ req'[r] = Idle /\ \A q \in Requests : q # r => req'[q] = req[q]
           /\ Cardinality(Busy') = Cardinality(Busy) - 1
<1>1. r \in Busy
  BY DEF Busy, Idle
<1>2. Idle \in ReqRecord
  BY DEF Idle, ReqRecord, Cookies, NoCookies, None
<1>3. req' \in [Requests -> ReqRecord] /\ req'[r] = Idle /\ \A q \in Requests : q # r => req'[q] = req[q]
  BY <1>2 DEF Types, CallTypes
<1>4. Busy' = Busy \ {r}
  BY <1>3 DEF Busy
<1> QED BY <1>1, <1>3, <1>4, BusyFinite, FS_RemoveElement

(* A request is done with, which may start a check, or waits for a token. *)
Handled(r) ==
    \/ /\ req' = [req EXCEPT ![r] = Idle]
       /\ checks' = checks \/ \E c \in CheckRecord : checks' = Append(checks, c)
    \/ /\ checks' = checks /\ req[r].cookies.details \in Tokens
       /\ \E s \in States : req' = [req EXCEPT ![r].pc = "renewing", ![r].state = s]

LEMMA HandledCalls ==
    ASSUME Types, NEW r \in Requests, req[r].pc # "idle", Handled(r),
           login' = login, browser' \in [Browsers -> Cookies]
    PROVE  CallTypes' /\ Bounded'
<1>1. /\ checks \in Seq(CheckRecord) /\ Len(checks) \in Nat
      /\ req \in [Requests -> ReqRecord]
      /\ Cardinality(Busy) + Len(checks) <= MaxWork
  BY DEF Types, CallTypes, Bounded
<1>2. CASE req' = [req EXCEPT ![r] = Idle]
  <2>1. /\ req' \in [Requests -> ReqRecord] /\ req'[r] = Idle
        /\ \A q \in Requests : q # r => req'[q] = req[q]
        /\ Cardinality(Busy') = Cardinality(Busy) - 1
    BY <1>2, CallGoes
  <2>2. checks' \in Seq(CheckRecord) /\ Len(checks') <= Len(checks) + 1 /\ Len(checks') \in Nat
    <3>1. CASE checks' = checks
      BY <1>1, <3>1
    <3>2. CASE \E c \in CheckRecord : checks' = Append(checks, c)
      BY <1>1, <3>2
    <3> QED BY <3>1, <3>2 DEF Handled
  <2>3. Bounded'
    BY <1>1, <2>1, <2>2, BusyFinite, Constants DEF Bounded
  <2>4. \A q \in Requests : /\ req'[q].pc = "idle" => req'[q] = Idle
                            /\ req'[q].pc # "idle" => req'[q].browser \in Browsers
                            /\ req'[q].pc = "sent" => req'[q].state = None
                            /\ req'[q].pc = "renewing" =>
                                 req'[q].state \in States /\ req'[q].cookies.details \in Tokens
    BY <2>1 DEF Types, CallTypes, Idle
  <2> QED BY <2>1, <2>2, <2>3, <2>4 DEF Types, CallTypes
<1>3. CASE \E s \in States : /\ req' = [req EXCEPT ![r].pc = "renewing", ![r].state = s]
                             /\ checks' = checks /\ req[r].cookies.details \in Tokens
  <2>1. PICK s \in States : req' = [req EXCEPT ![r].pc = "renewing", ![r].state = s]
    BY <1>3
  <2>2. PICK e \in ReqRecord : e = req[r]
    BY <1>1
  <2>3. PICK f : f = [e EXCEPT !.pc = "renewing", !.state = s]
    OBVIOUS
  <2>4. f \in ReqRecord /\ f.pc = "renewing" /\ f.state = s /\ f.cookies = e.cookies /\ f.browser = e.browser
    BY <2>3 DEF ReqRecord
  <2>5. /\ req' \in [Requests -> ReqRecord] /\ req'[r] = f
        /\ \A q \in Requests : q # r => req'[q] = req[q]
    <3>1. req' = [req EXCEPT ![r] = f]
      BY <1>1, <2>1, <2>2, <2>3
    <3> QED BY <1>1, <2>4, <3>1
  <2>6. req[r] # Idle /\ f # Idle
    BY <2>4 DEF Idle
  <2>7. Busy' = Busy
    BY <2>5, <2>6 DEF Busy
  <2>8. Bounded'
    BY <1>1, <1>3, <2>7 DEF Bounded
  <2>9. \A q \in Requests : /\ req'[q].pc = "idle" => req'[q] = Idle
                            /\ req'[q].pc # "idle" => req'[q].browser \in Browsers
                            /\ req'[q].pc = "sent" => req'[q].state = None
                            /\ req'[q].pc = "renewing" =>
                                 req'[q].state \in States /\ req'[q].cookies.details \in Tokens
    BY <1>3, <2>2, <2>4, <2>5 DEF Types, CallTypes
  <2> QED BY <1>3, <2>5, <2>8, <2>9 DEF Types, CallTypes
<1> QED BY <1>2, <1>3 DEF Handled

(* What a request leaves of the tokens and the user. *)
Left ==
    /\ refresh' \in Tokens \cup {None} /\ pending' \in Tokens \cup {None}
    /\ jobs' \subseteq Tokens /\ browser' \in [Browsers -> Cookies] /\ refused' \in BOOLEAN
    /\ users' \in States \cup {None}
    /\ dump' \in {dump, <<>>}

LEMMA RefusedLeaves ==
    ASSUME Types, NEW r \in Requests, req[r].pc # "idle", Refuse(r) \/ TurnedAway(r), UNCHANGED <<jobs, checks>>
    PROVE  Left /\ Handled(r)
<1>1. NoCookies \in Cookies
  BY DEF NoCookies, Cookies
<1>2. CASE Refuse(r)
  <2>1. browser' \in [Browsers -> Cookies]
    BY <1>1, <1>2 DEF Types, CallTypes, Refuse, SetCookies
  <2> QED BY <1>2, <2>1 DEF Types, ServerTypes, Refuse, RemoveUser, Left, Handled
<1>3. CASE TurnedAway(r) /\ r \in WebSockets
  BY <1>3 DEF Types, ServerTypes, CallTypes, TurnedAway, Left, Handled
<1> QED BY <1>2, <1>3 DEF TurnedAway

LEMMA TakenLeaves ==
    ASSUME Types, NEW r \in Requests, req[r].pc # "idle", pending # None, TakePending(r)
    PROVE  /\ refresh' \in Tokens \cup {None} /\ pending' \in Tokens \cup {None}
           /\ jobs' \subseteq Tokens /\ browser' \in [Browsers -> Cookies]
<1>1. PICK b \in Browsers : b = req[r].browser
  BY DEF Types, CallTypes
<1>2. browser \in [Browsers -> Cookies] /\ browser[b].user \in BOOLEAN /\ pending \in Tokens
  BY DEF Types, ServerTypes, CallTypes, Cookies
<1>3. [user |-> browser[b].user, token |-> pending, details |-> pending] \in Cookies
  BY <1>2 DEF Cookies
<1> QED BY <1>1, <1>2, <1>3 DEF Types, ServerTypes, TakePending, UpdateTokens, SetCookies, tokens

LEMMA SynchronizeLeaves ==
    ASSUME Types, NEW r \in Requests, NEW s \in States, NEW now, req[r].pc # "idle",
           Synchronize(r, s, now)
    PROVE  Left /\ Handled(r)
<1> DEFINE c == req[r].cookies
           restore == refresh = None /\ c.details # None
<1>1. c \in Cookies /\ c.token \in Tokens \cup {None} /\ c.details \in Tokens \cup {None}
  BY DEF Types, CallTypes, ReqRecord, Cookies
<1>2. /\ pending \in Tokens \cup {None} /\ refresh \in Tokens \cup {None} /\ jobs \subseteq Tokens
      /\ browser \in [Browsers -> Cookies] /\ refused \in BOOLEAN
  BY DEF Types, ServerTypes, CallTypes
<1>3. ASSUME NEW n \in Tokens \cup {None}, Admit(r, s, n, now)
      PROVE  Handled(r) /\ refused' = refused
  <2>1. [state |-> s, token |-> n, pc |-> "lock"] \in CheckRecord
    BY DEF CheckRecord
  <2> QED BY <1>3, <2>1 DEF Admit, StartCheck, Handled
<1>4. CASE /\ pending # None /\ Admit(r, s, pending, now) /\ users' = s
           /\ TakePending(r) /\ UNCHANGED dump
  BY <1>2, <1>3, <1>4, TakenLeaves DEF Left
<1>5. CASE Refuse(r) /\ UNCHANGED <<jobs, checks>>
  BY <1>5, RefusedLeaves
<1>6. CASE /\ restore /\ users' = s
           /\ req' = [req EXCEPT ![r].pc = "renewing", ![r].state = s]
           /\ UNCHANGED <<browser, tokens, checks, dump, refused>>
  BY <1>1, <1>2, <1>6 DEF Left, Handled, tokens
<1>7. CASE /\ restore /\ Admit(r, s, c.token, now) /\ users' = s
           /\ refresh' = c.details /\ jobs' = jobs \cup {c.details}
           /\ UNCHANGED <<browser, pending, dump>>
  BY <1>1, <1>2, <1>3, <1>7 DEF Left
<1>8. CASE Admit(r, s, c.token, now) /\ users' = s /\ UNCHANGED <<browser, tokens, dump>>
  BY <1>1, <1>2, <1>3, <1>8 DEF Left, tokens
<1> QED BY <1>4, <1>5, <1>6, <1>7, <1>8 DEF Synchronize

LEMMA LeftTypes ==
    ASSUME Types, NEW r \in Requests, req[r].pc # "idle", Left, Handled(r),
           states' \in [States -> StateRecord],
           issued' \in Seq(0..MaxClock), Len(issued') <= MaxTokens,
           UNCHANGED <<clock, provider, refreshing, login>>
    PROVE  Types'
<1>1. CallTypes' /\ Bounded'
  BY HandledCalls DEF Left
<1>2. dump' \in Seq(StateRecord) /\ Len(dump') <= 1
  <2>1. CASE dump' = dump
    BY <2>1 DEF Types, ServerTypes
  <2>2. CASE dump' = <<>>
    BY <2>2
  <2> QED BY <2>1, <2>2 DEF Left
<1>3. ServerTypes'
  BY <1>2 DEF Types, ServerTypes, Left
<1> QED BY <1>1, <1>3 DEF Types

(* The token that comes next. *)
LEMMA NewTokenTypes ==
    ASSUME Types, NewToken \in Tokens, issued' = Append(issued, clock)
    PROVE  /\ issued' \in Seq(0..MaxClock) /\ Len(issued') = NewToken /\ Len(issued') <= MaxTokens
           /\ issued'[NewToken] = clock
           /\ \A n \in 1..Len(issued) : issued'[n] = issued[n]
BY Constants DEF Types, ServerTypes, NewToken, Tokens

LEMMA ServeTypes ==
    ASSUME Types, NEW r \in Requests, Serve(r)
    PROVE  Types'
<1>1. CASE Validate(r)
  <2>1. UNCHANGED <<clock, provider, issued, refreshing, login>> /\ req[r].pc = "sent"
    BY <1>1 DEF Validate, world
  <2>2. issued' \in Seq(0..MaxClock) /\ Len(issued') <= MaxTokens
    BY <2>1 DEF Types, ServerTypes
  <2>3. clock \in 0..MaxClock /\ states \in [States -> StateRecord]
    BY DEF Types, ServerTypes
  <2>4. CASE TurnedAway(r) /\ UNCHANGED <<states, jobs, checks>>
    BY <2>1, <2>2, <2>3, <2>4, RefusedLeaves, LeftTypes
  <2>5. CASE /\ users # None /\ states' = [states EXCEPT ![users].visit = clock]
             /\ Synchronize(r, users, states')
    <3>1. users \in States
      BY <2>5 DEF Types, ServerTypes
    <3>2. states' \in [States -> StateRecord]
      BY <2>3, <2>5, <3>1 DEF StateRecord
    <3> QED BY <2>1, <2>2, <2>5, <3>1, <3>2, SynchronizeLeaves, LeftTypes
  <2>6. CASE /\ users = None
             /\ states' = [states EXCEPT ![FreeState] = [NoState EXCEPT !.visit = clock]]
             /\ Synchronize(r, FreeState, states')
    <3>1. FreeState \in States
      BY <2>6, FreeStateIsFree
    <3>2. [NoState EXCEPT !.visit = clock] \in StateRecord
      BY <2>3 DEF NoState, StateRecord
    <3>3. states' \in [States -> StateRecord]
      BY <2>3, <2>6, <3>2
    <3> QED BY <2>1, <2>2, <2>6, <3>1, <3>3, SynchronizeLeaves, LeftTypes
  <2> QED BY <1>1, <2>4, <2>5, <2>6 DEF Validate
<1>2. ASSUME NEW n \in Tokens \cup {None}, Admit(r, req[r].state, n, states),
             req[r].pc = "renewing"
      PROVE  Handled(r) /\ refused' = refused
  <2>1. [state |-> req[r].state, token |-> n, pc |-> "lock"] \in CheckRecord
    BY <1>2 DEF CheckRecord, Types, CallTypes
  <2> QED BY <1>2, <2>1 DEF Admit, StartCheck, Handled
<1>3. CASE Renewed(r)
  <2>1. /\ issued' \in Seq(0..MaxClock) /\ Len(issued') <= MaxTokens /\ NewToken \in Tokens
        /\ req[r].pc = "renewing"
    BY <1>3, NewTokenTypes DEF Renewed
  <2>2. Left /\ Handled(r)
    BY <1>2, <1>3, <2>1 DEF Renewed, Left, Types, ServerTypes, CallTypes
  <2>3. states' \in [States -> StateRecord] /\ UNCHANGED <<clock, provider, refreshing, login>>
    BY <1>3 DEF Renewed, Types, ServerTypes, world
  <2> QED BY <2>1, <2>2, <2>3, LeftTypes
<1>4. CASE NotRenewed(r)
  <2>1. /\ UNCHANGED <<clock, provider, issued, states, jobs, refreshing, login>>
        /\ req[r].pc = "renewing"
    BY <1>4 DEF NotRenewed
  <2>2. CASE /\ Admit(r, req[r].state, pending, states) /\ pending' = None
             /\ UNCHANGED <<browser, users, refresh, dump>>
    <3>1. Left /\ Handled(r)
      BY <1>2, <2>1, <2>2 DEF Left, Types, ServerTypes, CallTypes
    <3> QED BY <2>1, <3>1, LeftTypes DEF Types, ServerTypes
  <2>3. CASE Refuse(r) /\ UNCHANGED checks
    <3>1. Left /\ Handled(r)
      BY <2>1, <2>3, RefusedLeaves
    <3> QED BY <2>1, <3>1, LeftTypes DEF Types, ServerTypes
  <2> QED BY <1>4, <2>2, <2>3 DEF NotRenewed
<1>5. CASE NotReached(r)
  <2>1. /\ UNCHANGED <<clock, provider, issued, browser, users, states, refresh, pending, jobs,
                       refreshing, checks, login, dump, refused>>
        /\ req' = [req EXCEPT ![r] = Idle] /\ req[r].pc = "renewing"
    BY <1>5 DEF NotReached, tokens
  <2>2. Left /\ Handled(r)
    BY <2>1 DEF Left, Handled, Types, ServerTypes, CallTypes
  <2> QED BY <2>1, <2>2, LeftTypes DEF Types, ServerTypes
<1> QED BY <1>1, <1>3, <1>4, <1>5 DEF Serve

LEMMA LoginTypes ==
    ASSUME Types, NEW b \in Browsers, Login(b) \/ Logout(b)
    PROVE  Types'
<1>0. login \in [Browsers -> LoginRecord] /\ browser \in [Browsers -> Cookies]
  BY DEF Types, CallTypes
<1>1. CASE LoginStart(b)
  <2>1. /\ NewToken \in Tokens /\ issued' = Append(issued, clock)
        /\ users' = FreeState /\ states' = [states EXCEPT ![FreeState] = NoState]
        /\ login' = [login EXCEPT ![b] =
                        [pc |-> "groups", state |-> FreeState, token |-> NewToken]]
        /\ UNCHANGED <<clock, provider, browser, refresh, pending, jobs, refreshing, checks, req,
                       dump, refused>>
    BY <1>1 DEF LoginStart, tokens
  <2>2. FreeState \in States
    BY FreeStateIsFree
  <2>3. NoState \in StateRecord
    BY DEF NoState, StateRecord
  <2>4. issued' \in Seq(0..MaxClock) /\ Len(issued') <= MaxTokens
    BY <2>1, NewTokenTypes
  <2>5. ServerTypes'
    BY <2>1, <2>2, <2>3, <2>4 DEF Types, ServerTypes
  <2>6. PICK e \in LoginRecord :
           /\ e = [pc |-> "groups", state |-> FreeState, token |-> NewToken]
           /\ e.pc = "groups" /\ e.state \in States /\ e.token \in Tokens
    <3>1. PICK e : e = [pc |-> "groups", state |-> FreeState, token |-> NewToken]
      OBVIOUS
    <3>2. e.pc = "groups" /\ e.state \in States /\ e.token \in Tokens
      BY <2>1, <2>2, <3>1
    <3>3. e \in LoginRecord
      BY <3>1, <3>2 DEF LoginRecord
    <3> QED BY <3>1, <3>2, <3>3
  <2>7. CallTypes'
    BY <1>0, <2>1, <2>6 DEF Types, CallTypes
  <2>8. Bounded'
    BY <2>1 DEF Types, Bounded, Busy
  <2> QED BY <2>5, <2>7, <2>8 DEF Types
<1>2. CASE LoginEnd(b)
  <2>1. /\ states' = [states EXCEPT ![login[b].state] =
                        [auth |-> clock, visit |-> clock, groups |-> provider.groups]]
        /\ browser' = [browser EXCEPT ![b] =
                         [user |-> TRUE, token |-> login[b].token, details |-> login[b].token]]
        /\ refresh' = login[b].token
        /\ jobs' = jobs \/ jobs' = jobs \cup {login[b].token}
        /\ login' = [login EXCEPT ![b] = NoLogin]
        /\ UNCHANGED <<clock, provider, issued, users, pending, refreshing, checks, req, dump, refused>>
    BY <1>2 DEF LoginEnd, UpdateTokens, SetCookies, world
  <2>2. login[b].state \in States /\ login[b].token \in Tokens
    BY <1>2 DEF LoginEnd, Types, CallTypes
  <2>3. [auth |-> clock, visit |-> clock, groups |-> provider.groups] \in StateRecord
    <3>1. provider.groups \in 1..2 /\ clock \in 0..MaxClock
      BY DEF Types, ServerTypes
    <3> QED BY <3>1 DEF StateRecord
  <2>4. ServerTypes'
    BY <2>1, <2>2, <2>3 DEF Types, ServerTypes
  <2>5. /\ [user |-> TRUE, token |-> login[b].token, details |-> login[b].token] \in Cookies
        /\ NoLogin \in LoginRecord /\ NoLogin.pc = "idle"
    BY <2>2 DEF Cookies, LoginRecord, NoLogin
  <2>6. CallTypes'
    BY <1>0, <2>1, <2>5 DEF Types, CallTypes
  <2>7. Bounded'
    BY <2>1 DEF Types, Bounded, Busy
  <2> QED BY <2>4, <2>6, <2>7 DEF Types
<1>3. CASE LoginFail(b)
  <2>1. /\ login' = [login EXCEPT ![b] = NoLogin]
        /\ UNCHANGED <<clock, provider, issued, browser, users, states, refresh,
                       pending, jobs, refreshing, checks, req, dump, refused>>
    BY <1>3 DEF LoginFail, tokens
  <2>2. NoLogin \in LoginRecord /\ NoLogin.pc = "idle"
    BY DEF LoginRecord, NoLogin
  <2>3. CallTypes'
    BY <1>0, <2>1, <2>2 DEF Types, CallTypes
  <2> QED BY <2>1, <2>3 DEF Types, ServerTypes, Bounded, Busy
<1>4. CASE Logout(b)
  <2>1. /\ browser' = [browser EXCEPT ![b] = NoCookies] /\ dump' = <<>> /\ users' = None
        /\ refresh' \in {refresh, None} /\ pending' \in {pending, None}
        /\ UNCHANGED <<clock, provider, issued, states, jobs, refreshing, checks, req, login, refused>>
    BY <1>4 DEF Logout, RemoveUser, SetCookies, world
  <2>2. NoCookies \in Cookies
    BY DEF NoCookies, Cookies
  <2>3. dump' \in Seq(StateRecord) /\ Len(dump') <= 1
    BY <2>1
  <2>4. ServerTypes'
    BY <2>1, <2>3 DEF Types, ServerTypes
  <2> QED BY <1>0, <2>1, <2>2, <2>4 DEF Types, CallTypes, Bounded, Busy
<1> QED BY <1>1, <1>2, <1>3, <1>4 DEF Login

LEMMA SendTypes ==
    ASSUME Types, NEW r \in Requests, NEW b \in Browsers, Send(r, b)
    PROVE  Types'
<1>1. /\ req[r] = Idle
      /\ Cardinality(Busy) + Len(checks) < MaxWork
      /\ req' = [req EXCEPT ![r] = [pc |-> "sent", browser |-> b,
                                      cookies |-> browser[b], state |-> None]]
      /\ UNCHANGED <<clock, provider, issued, browser, users, states, refresh, pending, jobs,
                     refreshing, checks, login, dump, refused>>
  BY DEF Send, world, tokens, Busy
<1>2. PICK e \in ReqRecord :
         /\ e = [pc |-> "sent", browser |-> b, cookies |-> browser[b], state |-> None]
         /\ e.pc = "sent" /\ e.state = None /\ e.browser = b /\ e # Idle
  <2>1. browser[b] \in Cookies
    BY DEF Types, CallTypes
  <2>2. PICK e : e = [pc |-> "sent", browser |-> b, cookies |-> browser[b], state |-> None]
    OBVIOUS
  <2>3. e.pc = "sent" /\ e.state = None /\ e.browser = b /\ Idle.pc = "idle"
    BY <2>2 DEF Idle
  <2>4. e \in ReqRecord
    BY <2>1, <2>2 DEF ReqRecord
  <2> QED BY <2>2, <2>3, <2>4
<1>3. /\ req' \in [Requests -> ReqRecord] /\ req'[r] = e
      /\ \A q \in Requests : q # r => req'[q] = req[q]
  BY <1>1, <1>2 DEF Types, CallTypes
<1>4. Busy' = Busy \cup {r}
  BY <1>1, <1>2, <1>3 DEF Busy
<1>5. Bounded'
  <2>1. Cardinality(Busy') <= Cardinality(Busy) + 1 /\ Cardinality(Busy') \in Nat
    <3>1. /\ Cardinality(Busy \cup {r}) =
              IF r \in Busy THEN Cardinality(Busy) ELSE Cardinality(Busy) + 1
          /\ IsFiniteSet(Busy \cup {r})
      BY BusyFinite, FS_AddElement
    <3>2. Cardinality(Busy \cup {r}) \in Nat
      BY <3>1, FS_CardinalityType
    <3> QED BY <1>4, <3>1, <3>2, BusyFinite
  <2>2. Len(checks) \in Nat
    BY DEF Types, CallTypes
  <2> QED BY <1>1, <2>1, <2>2, BusyFinite, Constants DEF Bounded
<1>6. CallTypes'
  BY <1>1, <1>2, <1>3 DEF Types, CallTypes, Idle
<1>7. ServerTypes'
  BY <1>1 DEF Types, ServerTypes
<1> QED BY <1>5, <1>6, <1>7 DEF Types

LEMMA RefreshTypes ==
    ASSUME Types, NEW n \in Tokens, Refresh(n)
    PROVE  Types'
<1>1. UNCHANGED <<clock, provider, browser, states, checks, req, login, dump, refused>>
  BY DEF Refresh, RefreshStart, Refreshed, NotRefreshed, RefreshLost, world
<1>2. CallTypes' /\ Bounded'
  BY <1>1 DEF Types, CallTypes, Bounded, Busy
<1>3. CASE RefreshStart(n)
  <2>1. /\ UNCHANGED <<issued, users, refresh, pending>>
        /\ jobs' \subseteq jobs /\ refreshing' \subseteq refreshing \cup {n}
    BY <1>3 DEF RefreshStart
  <2> QED BY <1>1, <1>2, <2>1 DEF Types, ServerTypes
<1>4. CASE NotRefreshed(n)
  <2>1. /\ UNCHANGED <<issued, jobs>> /\ refreshing' \subseteq refreshing
        /\ users' = None /\ refresh' \in {refresh, None} /\ pending' \in {pending, None}
    BY <1>4 DEF NotRefreshed, RemoveUser
  <2> QED BY <1>1, <1>2, <2>1 DEF Types, ServerTypes
<1>5. CASE Refreshed(n)
  <2>1. NewToken \in Tokens /\ issued' \in Seq(0..MaxClock) /\ Len(issued') <= MaxTokens
    BY <1>5, NewTokenTypes DEF Refreshed
  <2>2. /\ refresh' = NewToken /\ pending' = NewToken /\ jobs' = jobs \cup {NewToken}
        /\ refreshing' \subseteq refreshing /\ users' = users
    BY <1>5 DEF Refreshed
  <2>3. jobs' \subseteq Tokens /\ refreshing' \subseteq Tokens
    BY <2>1, <2>2 DEF Types, ServerTypes
  <2> QED BY <1>1, <1>2, <2>1, <2>2, <2>3 DEF Types, ServerTypes
<1>6. CASE RefreshLost(n)
  <2>1. UNCHANGED <<issued, users, refresh, pending, jobs>> /\ refreshing' \subseteq refreshing
    BY <1>6 DEF RefreshLost, tokens
  <2> QED BY <1>1, <1>2, <2>1 DEF Types, ServerTypes
<1> QED BY <1>3, <1>4, <1>5, <1>6 DEF Refresh

LEMMA CheckTypes ==
    ASSUME Types, Check \/ CheckFail
    PROVE  Types'
<1>1. /\ checks # <<>>
      /\ UNCHANGED <<clock, provider, issued, browser, jobs, refreshing, req, login, dump, refused>>
  BY DEF Check, CheckLocked, CheckInfo, CheckGroups, CheckFail, Unchecked
<1>2. /\ checks \in Seq(CheckRecord) /\ Len(checks) \in Nat
      /\ Head(checks) \in CheckRecord /\ Head(checks).state \in States
  BY <1>1, QueueMoves DEF Types, CallTypes, CheckRecord
<1>3. /\ checks' \in Seq(CheckRecord) /\ Len(checks') \in Nat /\ Len(checks') <= Len(checks)
  <2>1. \/ checks' = Rest
        \/ \E label \in {"info", "groups"} :
              checks' = <<[Head(checks) EXCEPT !.pc = label]>> \o Rest
    BY DEF Check, CheckLocked, CheckInfo, CheckGroups, CheckFail
  <2>2. CASE checks' = Rest
    BY <1>1, <1>2, <2>2, QueueMoves
  <2>3. CASE \E label \in {"info", "groups"} :
                checks' = <<[Head(checks) EXCEPT !.pc = label]>> \o Rest
    <3>2. PICK label \in {"info", "groups"} :
                checks' = <<[Head(checks) EXCEPT !.pc = label]>> \o Rest
      BY <2>3
    <3>1. /\ <<[Head(checks) EXCEPT !.pc = label]>> \o Rest \in Seq(CheckRecord)
          /\ Len(<<[Head(checks) EXCEPT !.pc = label]>> \o Rest) = Len(checks)
      BY <1>1, <1>2, QueueMoves
    <3>3. checks' \in Seq(CheckRecord) /\ Len(checks') = Len(checks)
      BY <3>1, <3>2
    <3> QED BY <1>2, <3>3
  <2> QED BY <2>1, <2>2, <2>3
<1>4. CallTypes' /\ Bounded'
  BY <1>1, <1>2, <1>3, BusyFinite, Constants DEF Types, CallTypes, Bounded, Busy
<1>5. states' \in [States -> StateRecord]
  <2>1. CASE CheckGroups
    <3>1. PICK s \in States : s = Head(checks).state
      BY <1>2
    <3>2. states' = [states EXCEPT ![s].auth = clock, ![s].groups = provider.groups]
      BY <2>1, <3>1 DEF CheckGroups
    <3>3. clock \in 0..MaxClock /\ provider.groups \in 0..2 /\ states \in [States -> StateRecord]
      BY DEF Types, ServerTypes
    <3> QED BY <3>1, <3>2, <3>3 DEF StateRecord
  <2>2. CASE states' = states
    BY <2>2 DEF Types, ServerTypes
  <2> QED BY <2>1, <2>2 DEF Check, CheckLocked, CheckInfo, CheckFail
<1>6. /\ users' \in {users, None} /\ refresh' \in {refresh, None} /\ pending' \in {pending, None}
  BY DEF Check, CheckLocked, CheckInfo, CheckGroups, CheckFail, RemoveUser
<1>7. ServerTypes'
  BY <1>1, <1>5, <1>6 DEF Types, ServerTypes
<1> QED BY <1>4, <1>7 DEF Types

LEMMA WorldTypes ==
    ASSUME Types, Tick \/ Deactivate \/ ChangeGroups \/ DumpState \/ Restart
    PROVE  Types'
<1>1. NoState \in StateRecord
  BY DEF NoState, StateRecord
<1>2. CASE Tick
  <2>1. /\ clock < MaxClock /\ clock' = clock + 1
        /\ states' = [s \in States |-> IF s = users THEN states[s] ELSE NoState]
        /\ UNCHANGED <<issued, provider, browser, users, refresh, pending, jobs, refreshing, checks,
                       req, login, dump, refused>>
    BY <1>2 DEF Tick, tokens
  <2>2. clock' \in 0..MaxClock
    BY <2>1, Constants DEF Types, ServerTypes
  <2>3. ServerTypes'
    BY <1>1, <2>1, <2>2 DEF Types, ServerTypes
  <2> QED BY <2>1, <2>3 DEF Types, CallTypes, Bounded, Busy
<1>3. CASE Deactivate \/ ChangeGroups
  <2>1. /\ UNCHANGED <<clock, issued, browser, users, states, refresh, pending, jobs, refreshing,
                       checks, req, login, dump, refused>>
        /\ \/ provider' = [provider EXCEPT !.enabled = FALSE]
           \/ provider' = [provider EXCEPT !.groups = 2]
    BY <1>3 DEF Deactivate, ChangeGroups, tokens
  <2>4. provider' \in [enabled : BOOLEAN, groups : 1..2]
    <3>1. provider \in [enabled : BOOLEAN, groups : 1..2]
      BY DEF Types, ServerTypes
    <3>2. [provider EXCEPT !.enabled = FALSE] \in [enabled : BOOLEAN, groups : 1..2]
      BY <3>1
    <3>3. [provider EXCEPT !.groups = 2] \in [enabled : BOOLEAN, groups : 1..2]
      BY <3>1
    <3> QED BY <2>1, <3>2, <3>3
  <2>2. ServerTypes'
    BY <2>1, <2>4 DEF Types, ServerTypes
  <2> QED BY <2>1, <2>2 DEF Types, CallTypes, Bounded, Busy
<1>4. CASE DumpState
  <2>1. /\ dump' = IF users = None THEN <<>> ELSE <<states[users]>>
        /\ UNCHANGED <<clock, provider, issued, browser, users, states, refresh, pending, jobs,
                       refreshing, checks, req, login, refused>>
    BY <1>4 DEF DumpState, tokens, world
  <2>2. dump' \in Seq(StateRecord) /\ Len(dump') <= 1
    <3>1. CASE users = None
      BY <2>1, <3>1
    <3>2. CASE users # None
      <4>1. states[users] \in StateRecord
        BY <3>2 DEF Types, ServerTypes
      <4> QED BY <2>1, <3>2, <4>1
    <3> QED BY <3>1, <3>2
  <2>3. ServerTypes'
    BY <2>1, <2>2 DEF Types, ServerTypes
  <2> QED BY <2>1, <2>3 DEF Types, CallTypes, Bounded, Busy
<1>5. CASE Restart
  <2>1. /\ users' = Len(dump)
        /\ states' = [s \in States |-> IF s = users' THEN dump[1] ELSE NoState]
        /\ refresh' = None /\ pending' = None /\ jobs' = {} /\ refreshing' = {}
        /\ checks' = <<>> /\ req' = [r \in Requests |-> Idle]
        /\ login' = [b \in Browsers |-> NoLogin]
        /\ UNCHANGED <<clock, provider, issued, browser, dump, refused>>
    BY <1>5 DEF Restart
  <2>2. users' \in States \cup {None} /\ states' \in [States -> StateRecord]
    <3>1. Len(dump) \in {0, 1} /\ (Len(dump) = 1 => dump[1] \in StateRecord)
      <4>1. dump \in Seq(StateRecord) /\ Len(dump) <= 1 /\ Len(dump) \in Nat
        BY DEF Types, ServerTypes
      <4>2. Len(dump) = 1 => dump[1] \in StateRecord
        BY <4>1, ElementOfSeq
      <4>3. \A k \in Nat : k <= 1 => k \in {0, 1}
        OBVIOUS
      <4> QED BY <4>1, <4>2, <4>3
    <3>2. \A s \in States : s = Len(dump) => Len(dump) = 1
      BY <3>1, Constants DEF None
    <3> QED BY <1>1, <2>1, <3>1, <3>2, Constants DEF None
  <2>3. ServerTypes'
    BY <2>1, <2>2 DEF Types, ServerTypes
  <2>4. Idle \in ReqRecord /\ NoLogin \in LoginRecord
    BY DEF Idle, ReqRecord, Cookies, NoCookies, NoLogin, LoginRecord
  <2>5. CallTypes'
    BY <2>1, <2>4 DEF Types, CallTypes, Idle, NoLogin
  <2>6. Bounded'
    <3>1. Busy' = {}
      BY <2>1 DEF Busy
    <3>2. Len(checks') = 0
      BY <2>1
    <3> QED BY <3>1, <3>2, FS_EmptySet, Constants DEF Bounded
  <2> QED BY <2>3, <2>5, <2>6 DEF Types
<1> QED BY <1>2, <1>3, <1>4, <1>5

LEMMA TypesInitial ==
    ASSUME Init
    PROVE  Types
<1>1. Idle \in ReqRecord /\ NoLogin \in LoginRecord /\ NoCookies \in Cookies /\ NoState \in StateRecord
  BY DEF Idle, ReqRecord, Cookies, NoCookies, NoLogin, LoginRecord, NoState, StateRecord
<1>2. ServerTypes
  <2>1. /\ clock = 0 /\ issued = <<>> /\ provider = [enabled |-> TRUE, groups |-> 1]
        /\ users = None /\ states = [s \in States |-> NoState] /\ refresh = None /\ pending = None
        /\ jobs = {} /\ refreshing = {} /\ dump = <<>> /\ refused = FALSE
    BY DEF Init
  <2>2. /\ issued \in Seq(0..MaxClock) /\ Len(issued) = 0
        /\ dump \in Seq(StateRecord) /\ Len(dump) = 0
    BY <2>1
  <2>3. clock \in 0..MaxClock /\ 0 <= MaxTokens
    BY <2>1, Constants
  <2>4. provider \in [enabled : BOOLEAN, groups : 1..2] /\ states \in [States -> StateRecord]
    BY <1>1, <2>1
  <2>5. Len(issued) <= MaxTokens /\ Len(dump) <= 1
    BY <2>2, <2>3
  <2>6. /\ users \in States \cup {None} /\ refresh \in Tokens \cup {None}
        /\ pending \in Tokens \cup {None} /\ jobs \subseteq Tokens /\ refreshing \subseteq Tokens
        /\ refused \in BOOLEAN
    BY <2>1
  <2> QED BY <2>2, <2>3, <2>4, <2>5, <2>6 DEF ServerTypes
<1>3. CallTypes
  BY <1>1 DEF Init, CallTypes, Idle, NoLogin
<1>4. Bounded
  <2>1. Busy = {} /\ Len(checks) = 0
    BY DEF Init, Busy
  <2> QED BY <2>1, FS_EmptySet, Constants DEF Bounded
<1> QED BY <1>2, <1>3, <1>4 DEF Types

LEMMA TypesKept ==
    ASSUME Types, [Next]_vars
    PROVE  Types'
<1>1. CASE UNCHANGED vars
  <2>1. UNCHANGED <<clock, issued, provider, browser, users, states, refresh, pending, jobs,
                    refreshing, checks, req, login, dump, refused>>
    BY <1>1 DEF vars
  <2> QED BY <2>1 DEF Types, ServerTypes, CallTypes, Bounded, Busy
<1>2. CASE Next
  BY <1>2, LoginTypes, SendTypes, ServeTypes, RefreshTypes, CheckTypes, WorldTypes DEF Next
<1> QED BY <1>1, <1>2

-----------------------------------------------------------------------------
(* The user stays, unless a step gives an excuse. *)

Stays == Welcome' /\ (users # None => users' # None)

(* A token that is good stays good until the clock advances.               *)
LEMMA GoodKept ==
    ASSUME Types, clock' = clock,
           issued' = issued \/ (NewToken \in Tokens /\ issued' = Append(issued, clock))
    PROVE  /\ Good \subseteq Good'
           /\ issued' = issued => Good' = Good
           /\ issued' # issued => NewToken \in Good' /\ NewToken = Len(issued')
<1>1. issued \in Seq(0..MaxClock) /\ Len(issued) \in Nat /\ clock \in 0..MaxClock
  BY DEF Types, ServerTypes
<1>2. CASE issued' = issued
  BY <1>2 DEF Good, AccessExpired
<1>3. CASE NewToken \in Tokens /\ issued' = Append(issued, clock)
  <2>1. /\ Len(issued') = NewToken /\ issued'[NewToken] = clock
        /\ \A n \in 1..Len(issued) : issued'[n] = issued[n]
    BY <1>3, NewTokenTypes
  <2>2. NewToken = Len(issued) + 1 /\ NewToken \in 1..Len(issued')
    BY <1>1, <2>1 DEF NewToken
  <2>3. ~(clock + AccessLife <= clock)
    BY <1>1, Constants
  <2>4. NewToken \in Good'
    BY <2>1, <2>2, <2>3 DEF Good, AccessExpired
  <2>5. Good \subseteq Good'
    <3>1. ASSUME NEW n \in Good
          PROVE  n \in Good'
      <4>1. n \in 1..Len(issued) /\ ~(issued[n] + AccessLife <= clock)
        BY DEF Good, AccessExpired
      <4>2. n \in 1..Len(issued') /\ issued'[n] = issued[n]
        BY <1>1, <2>1, <2>2, <4>1
      <4> QED BY <4>1, <4>2 DEF Good, AccessExpired
    <3> QED BY <3>1
  <2>6. Len(issued') # Len(issued)
    BY <1>1, <2>1, <2>2
  <2> QED BY <2>1, <2>4, <2>5, <2>6
<1> QED BY <1>2, <1>3

(* Who is signed in has a good token to refresh, and no cause to restore.  *)
LEMMA Current ==
    ASSUME Types, SignedIn
    PROVE  /\ refresh \in Good /\ refresh = Len(issued) /\ refresh # None /\ refresh \in Tokens
           /\ ~AccessExpired(refresh) /\ ~RefreshExpired(refresh)
           /\ users \in States /\ users # None
           /\ states[users] \in StateRecord
<1>1. refresh \in 1..Len(issued) /\ ~(issued[refresh] + AccessLife <= clock)
  BY DEF SignedIn, SignedAt, TokensCurrent, Good, AccessExpired
<1>2. issued \in Seq(0..MaxClock) /\ Len(issued) \in Nat /\ clock \in 0..MaxClock
  BY DEF Types, ServerTypes
<1>3. issued[refresh] \in 0..MaxClock
  BY <1>1, <1>2, ElementOfSeq
<1>4. ~(issued[refresh] + RefreshLife <= clock)
  BY <1>1, <1>2, <1>3, Constants
<1>5. refresh # None
  BY <1>1, <1>2 DEF None
<1> QED BY <1>1, <1>4, <1>5 DEF SignedIn, SignedAt, TokensCurrent, Types, ServerTypes, AccessExpired,
                                RefreshExpired

(* A step that touches neither the user nor his tokens nor his calls.      *)
LEMMA NothingMoves ==
    ASSUME Types, Welcome, provider'.enabled = provider.enabled,
           UNCHANGED <<clock, issued, browser, users, states, refresh, pending, jobs, refreshing,
                       checks, req, login, logins, refused>>
    PROVE  Stays
<1>1. Good' = Good /\ JustChecked' = JustChecked
  BY DEF Good, AccessExpired, JustChecked, TtlExpired
<1>2. SigningIn => SigningIn'
  BY DEF SigningIn, Outside, NotSigned, SigningAt, Busy
<1>3. SignedIn => SignedIn'
  BY <1>1 DEF SignedIn, SignedAt, TokensCurrent, CallsCovered
<1> QED BY <1>2, <1>3 DEF Stays, Welcome

LEMMA LoginStays ==
    ASSUME Types, Welcome, NEW b \in Browsers, LoginStart(b) \/ LoginEnd(b), ~excused'
    PROVE  Stays
<1>0. ~refused /\ provider.enabled /\ login \in [Browsers -> LoginRecord]
  BY DEF Welcome, Types, CallTypes
<1>1. CASE LoginStart(b)
  <2>1. /\ logins = 0 /\ logins' = 1 /\ NewToken \in Tokens
        /\ issued' = Append(issued, clock) /\ users' = FreeState
        /\ login' = [login EXCEPT ![b] =
                        [pc |-> "groups", state |-> FreeState, token |-> NewToken]]
        /\ UNCHANGED <<clock, provider, browser, refresh, pending, jobs, refreshing, checks, req,
                       refused>>
    BY <1>1 DEF LoginStart, tokens, Fault, Excuse
  <2>2. Outside /\ NotSigned
    BY <2>1 DEF Welcome, SignedIn, SigningIn, SigningAt
  <2>3. Outside'
    BY <2>1, <2>2 DEF Outside, Busy
  <2>4. users' # None
    BY <2>1, FreeStateIsFree
  <2>5. issued'[Len(issued')] = clock' /\ Len(issued') = NewToken
    BY <2>1, NewTokenTypes
  <2>6. PICK e : e = [pc |-> "groups", state |-> FreeState, token |-> NewToken]
    OBVIOUS
  <2>7. e.pc = "groups" /\ e.state = users' /\ e.token = NewToken
    BY <2>1, <2>6
  <2>8. login'[b] = e /\ \A other \in Browsers \ {b} : login'[other] = login[other]
    BY <1>0, <2>1, <2>6
  <2>9. SigningAt(b)'
    BY <2>1, <2>2, <2>5, <2>7, <2>8 DEF SigningAt, NotSigned
  <2> QED BY <1>0, <2>1, <2>3, <2>4, <2>9 DEF Stays, Welcome, SigningIn
<1>2. CASE LoginEnd(b)
  <2>1. /\ login[b].pc = "groups"
        /\ states' = [states EXCEPT ![login[b].state] =
                        [auth |-> clock, visit |-> clock, groups |-> provider.groups]]
        /\ browser' = [browser EXCEPT ![b] =
                         [user |-> TRUE, token |-> login[b].token, details |-> login[b].token]]
        /\ refresh' = login[b].token
        /\ jobs' = IF refresh = login[b].token THEN jobs ELSE jobs \cup {login[b].token}
        /\ login' = [login EXCEPT ![b] = NoLogin]
        /\ UNCHANGED <<clock, provider, logins, issued, users, pending, refreshing, checks, req,
                       refused>>
    BY <1>2 DEF LoginEnd, UpdateTokens, SetCookies, world
  <2>2. Outside /\ SigningAt(b)
    BY <2>1 DEF Welcome, SignedIn, SigningIn, SigningAt, NotSigned
  <2>3. /\ login[b].state \in States /\ login[b].token \in Tokens /\ login[b].token # None
        /\ users = login[b].state /\ users # None /\ logins # 0
        /\ login[b].token = Len(issued) /\ issued[Len(issued)] = clock
    BY <2>1, <2>2, Constants DEF Types, CallTypes, SigningAt
  <2>4. refresh = None /\ pending = None /\ jobs = {} /\ refreshing = {} /\ checks = <<>>
    BY <2>2 DEF Outside
  <2>5. refresh' = Len(issued') /\ refresh' \in Good'
    <3>1. clock \in 0..MaxClock /\ login[b].token \in 1..Len(issued)
      BY <2>3 DEF Types, ServerTypes, Tokens
    <3>2. ~(issued[login[b].token] + AccessLife <= clock)
      BY <2>3, <3>1, Constants
    <3> QED BY <2>1, <2>3, <3>1, <3>2 DEF Good, AccessExpired
  <2>6. /\ browser'[b].token = refresh' /\ browser'[b].user
        /\ \A other \in Browsers \ {b} : ~browser'[other].user
    <3>1. PICK c : c = [user |-> TRUE, token |-> login[b].token, details |-> login[b].token]
      OBVIOUS
    <3>2. c.user /\ c.token = refresh'
      BY <2>1, <3>1
    <3>3. browser' = [browser EXCEPT ![b] = c] /\ browser \in [Browsers -> Cookies]
      BY <2>1, <3>1 DEF Types, CallTypes
    <3>4. browser'[b] = c /\ \A other \in Browsers \ {b} : browser'[other] = browser[other]
      BY <3>3
    <3> QED BY <2>2, <3>2, <3>4 DEF Outside
  <2>7. TokensCurrent(b)'
    <3>1. jobs' = {refresh'} /\ refreshing' = {} /\ pending' = None
      BY <2>1, <2>3, <2>4
    <3> QED BY <2>5, <2>6, <3>1 DEF TokensCurrent
  <2>8. \A r \in Requests : req'[r].pc = "idle"
    BY <2>1, <2>2 DEF Outside, Busy, Idle
  <2>9. CallsCovered'
    <3>1. Len(checks') = 0
      BY <2>1, <2>4
    <3> QED BY <2>8, <3>1 DEF CallsCovered
  <2>10. states'[users'].visit # Never
    <3>1. clock \in 0..MaxClock /\ states \in [States -> StateRecord]
      BY DEF Types, ServerTypes
    <3>2. states'[users'].visit = clock
      BY <2>1, <2>3, <3>1
    <3> QED BY <3>1, <3>2 DEF Never
  <2>11. \A other \in Browsers : login'[other].pc = "idle"
    <3>1. NoLogin.pc = "idle"
      BY DEF NoLogin
    <3> QED BY <1>0, <2>1, <2>2, <3>1 DEF SigningAt
  <2>12. SignedAt(b)'
    BY <2>6, <2>7, <2>8 DEF SignedAt
  <2>13. SignedIn'
    BY <2>1, <2>3, <2>9, <2>10, <2>11, <2>12 DEF SignedIn
  <2> QED BY <1>0, <2>1, <2>3, <2>13 DEF Stays, Welcome
<1> QED BY <1>1, <1>2

LEMMA SendStays ==
    ASSUME Types, Welcome, NEW r \in Requests, NEW b \in Browsers, Send(r, b)
    PROVE  Stays
<1>1. /\ browser[b].user
      /\ req' = [req EXCEPT ![r] = [pc |-> "sent", browser |-> b,
                                      cookies |-> browser[b], state |-> None]]
      /\ UNCHANGED <<clock, provider, logins, issued, browser, users, states, refresh, pending, jobs,
                     refreshing, checks, login, refused>>
  BY DEF Send, world, tokens
<1>2. SignedIn /\ ~refused /\ provider.enabled
  BY <1>1 DEF Welcome, SigningIn, Outside
<1>3. SignedAt(b)
  BY <1>1, <1>2 DEF SignedIn, SignedAt
<1>4. /\ req'[r].pc = "sent" /\ req'[r].cookies = browser[b] /\ req'[r].browser = b
      /\ \A q \in Requests : q # r => req'[q] = req[q]
  <2>1. PICK e : e = [pc |-> "sent", browser |-> b, cookies |-> browser[b], state |-> None]
    OBVIOUS
  <2>2. e.pc = "sent" /\ e.cookies = browser[b] /\ e.browser = b
    BY <2>1
  <2> QED BY <1>1, <2>1, <2>2 DEF Types, CallTypes
<1>5. Good' = Good /\ JustChecked' = JustChecked /\ TokensCurrent(b)'
  BY <1>1, <1>3 DEF Good, AccessExpired, JustChecked, TtlExpired, SignedAt, TokensCurrent
<1>6. pending = None => browser[b].token \in Good
  BY <1>3 DEF SignedAt, TokensCurrent
<1>7. CallsCovered'
  <2>1. CallsCovered
    BY <1>2 DEF SignedIn
  <2>2. \A q \in Requests : req'[q].pc \in {"idle", "sent"}
    BY <1>4, <2>1 DEF CallsCovered
  <2>3. ASSUME pending' = None, ~JustChecked', NEW q \in Requests,
               req'[q].pc = "sent", req'[q].cookies.token \notin Good'
        PROVE  \E i \in 1..Len(checks') : checks'[i].token \in Good'
    <3>1. q # r
      BY <1>1, <1>4, <1>5, <1>6, <2>3
    <3> QED BY <1>1, <1>4, <1>5, <2>1, <2>3, <3>1 DEF CallsCovered
  <2> QED BY <1>1, <1>5, <2>1, <2>2, <2>3 DEF CallsCovered
<1>8. SignedAt(b)'
  BY <1>1, <1>3, <1>4, <1>5 DEF SignedAt
<1> QED BY <1>1, <1>2, <1>7, <1>8 DEF Stays, Welcome, SignedIn

(* A request that is let in: a check of its token is started if the last   *)
(* one is too old, and the tokens it leaves are current.                   *)
LEMMA AdmitStays ==
    ASSUME Types, SignedIn, NEW r \in Requests, NEW n \in Tokens \cup {None},
           req' = [req EXCEPT ![r] = Idle],
           checks' = IF ~JustChecked
                     THEN Append(checks, [state |-> users, token |-> n, pc |-> "lock"])
                     ELSE checks,
           UNCHANGED <<clock, issued, users>>, JustChecked' = JustChecked,
           n \in Good \/ JustChecked \/ \E i \in 1..Len(checks) : checks[i].token \in Good,
           pending # None => n \in Good
    PROVE  CallsCovered'
<1>1. Good' = Good
  BY GoodKept
<1>2. CallsCovered
  BY DEF SignedIn
<1>3. /\ req'[r] = Idle /\ Idle.pc = "idle"
      /\ \A q \in Requests : q # r => req'[q] = req[q]
  BY DEF Types, CallTypes, Idle
<1>4. \A q \in Requests : req'[q].pc \in {"idle", "sent"}
  BY <1>2, <1>3 DEF CallsCovered
<1>5. CASE JustChecked
  <2>1. checks' = checks
    BY <1>5
  <2> QED BY <1>1, <1>2, <1>4, <1>5, <2>1 DEF CallsCovered
<1>6. CASE ~JustChecked
  <2> DEFINE L == Len(checks)
  <2>1. PICK c \in CheckRecord : c = [state |-> users, token |-> n, pc |-> "lock"]
    <3>1. users \in States
      BY Current
    <3> QED BY <3>1 DEF CheckRecord
  <2>2. c.state = users /\ c.token = n /\ c.pc = "lock"
    BY <2>1
  <2>3. checks \in Seq(CheckRecord) /\ L \in Nat /\ checks' = Append(checks, c)
    BY <1>6, <2>1 DEF Types, CallTypes
  <2>4. Len(checks') = L + 1 /\ checks'[L + 1] = c /\ \A i \in 1..L : checks'[i] = checks[i]
    BY <2>3
  <2>5. 1..L \subseteq 1..Len(checks') /\ L + 1 \in 1..Len(checks')
    BY <2>3, <2>4
  <2> HIDE DEF L
  <2>6. \/ n \in Good
        \/ \E i \in 1..L : checks'[i].token \in Good
    BY <1>6, <2>4 DEF L
  <2>7. \E i \in 1..Len(checks') : checks'[i].token \in Good'
    BY <1>1, <2>2, <2>4, <2>5, <2>6
  <2>8. ASSUME NEW i \in 1..Len(checks')
        PROVE  /\ checks'[i].state = users'
               /\ checks'[i].token \notin Good' =>
                     /\ checks'[i].pc = "lock"
                     /\ JustChecked' \/ \E j \in 1..i - 1 : checks'[j].token \in Good'
    <3>1. CASE i \in 1..L
      <4>1. \A j \in 1..i - 1 : j \in 1..L
        BY <2>3, <3>1
      <4>2. /\ checks[i].state = users
            /\ checks[i].token \notin Good =>
                  /\ checks[i].pc = "lock"
                  /\ JustChecked \/ \E j \in 1..i - 1 : checks[j].token \in Good
        BY <1>2, <3>1 DEF CallsCovered, L
      <4> QED BY <1>1, <1>6, <2>4, <3>1, <4>1, <4>2
    <3>2. CASE i = L + 1
      <4>1. i - 1 = L
        BY <2>3, <3>2
      <4> QED BY <1>1, <2>2, <2>4, <2>6, <3>2, <4>1
    <3> QED BY <2>3, <2>4, <3>1, <3>2
  <2> QED BY <1>4, <2>7, <2>8 DEF CallsCovered
<1> QED BY <1>5, <1>6

LEMMA SynchronizeStays ==
    ASSUME Types, Welcome, SignedIn, NEW r \in Requests, req[r].pc = "sent",
           states' = [states EXCEPT ![users].visit = clock], Synchronize(r, users, states'),
           UNCHANGED <<clock, provider, logins, issued, refreshing, login>>
    PROVE  Stays
<1> DEFINE c == req[r].cookies
<1>0. ~refused /\ provider.enabled
  BY DEF Welcome
<1>1. /\ refresh \in Good /\ refresh # None /\ users \in States /\ users # None
      /\ states[users] \in StateRecord
  BY Current
<1>2. states'[users].auth = states[users].auth /\ states'[users].visit = clock
  BY <1>1 DEF Types, ServerTypes, StateRecord
<1>3. clock \in 0..MaxClock /\ clock # Never
  BY DEF Types, ServerTypes, Never
<1>4. Good' = Good
  BY GoodKept
<1>5. c.token \in Tokens \cup {None}
  BY DEF Types, CallTypes, ReqRecord, Cookies
<1>6. ASSUME NEW n \in Tokens \cup {None}, Admit(r, users, n, states'), users' = users
      PROVE  /\ req' = [req EXCEPT ![r] = Idle]
             /\ refused' = refused /\ JustChecked' = JustChecked
             /\ checks' = IF ~JustChecked
                          THEN Append(checks, [state |-> users, token |-> n, pc |-> "lock"])
                          ELSE checks
  BY <1>2, <1>6 DEF Admit, StartCheck, JustChecked, TtlExpired
<1>9. PICK b \in Browsers : SignedAt(b) /\ req[r].browser = b
  BY DEF SignedIn, SignedAt
<1>10. ASSUME req' = [req EXCEPT ![r] = Idle]
       PROVE  \A q \in Requests : req'[q].pc = "sent" => req'[q].browser = b
  <2>1. \A q \in Requests : req'[q] = IF q = r THEN Idle ELSE req[q]
    BY <1>10 DEF Types, CallTypes
  <2> QED BY <1>9, <2>1 DEF SignedAt, Idle
<1>11. ASSUME users' = users, refused' = refused, CallsCovered', SignedAt(b)'
       PROVE  Stays
  <2>1. states'[users].visit # Never
    BY <1>2, <1>3
  <2>2. SignedIn'
    BY <1>1, <1>9, <1>11, <2>1 DEF SignedIn
  <2> QED BY <1>0, <1>1, <1>11, <2>2 DEF Stays, Welcome
<1>7. CASE /\ pending # None /\ Admit(r, users, pending, states')
           /\ users' = users /\ TakePending(r)
  <2>1. pending = refresh /\ pending \in Good /\ pending \in Tokens \cup {None}
    BY <1>1, <1>7, <1>9 DEF SignedAt, TokensCurrent, Types, ServerTypes
  <2>2. CallsCovered' /\ \A q \in Requests : req'[q].pc = "sent" => req'[q].browser = b
    BY <1>6, <1>7, <1>10, <2>1, AdmitStays
  <2>3. CASE r \in WebSockets
    <3>1. UNCHANGED <<browser, refresh, pending, jobs>>
      BY <1>7, <2>3 DEF TakePending, tokens
    <3>2. SignedAt(b)'
      BY <1>4, <1>9, <2>2, <3>1 DEF SignedAt, TokensCurrent
    <3> QED BY <1>6, <1>7, <1>11, <2>1, <2>2, <3>2
  <2>4. CASE r \notin WebSockets
    <3>1. /\ pending' = None /\ refresh' = pending /\ jobs' = jobs
          /\ browser' = [browser EXCEPT ![b] =
                           [user |-> browser[b].user, token |-> pending, details |-> pending]]
      BY <1>7, <1>9, <2>1, <2>4 DEF TakePending, UpdateTokens, SetCookies
    <3>2. /\ browser'[b].token = refresh' /\ browser'[b].user = browser[b].user
          /\ \A other \in Browsers \ {b} : browser'[other] = browser[other]
      <4>1. PICK e : e = [user |-> browser[b].user, token |-> pending, details |-> pending]
        OBVIOUS
      <4>2. e.user = browser[b].user /\ e.token = pending
        BY <4>1
      <4>3. browser' = [browser EXCEPT ![b] = e] /\ browser \in [Browsers -> Cookies]
        BY <3>1, <4>1 DEF Types, CallTypes
      <4>4. browser'[b] = e /\ \A other \in Browsers \ {b} : browser'[other] = browser[other]
        BY <4>3
      <4> QED BY <3>1, <4>2, <4>4
    <3>3. TokensCurrent(b)'
      BY <1>4, <1>9, <2>1, <3>1, <3>2 DEF SignedAt, TokensCurrent
    <3>4. SignedAt(b)'
      BY <1>9, <2>2, <3>2, <3>3 DEF SignedAt
    <3> QED BY <1>6, <1>7, <1>11, <2>1, <2>2, <3>4
  <2> QED BY <2>3, <2>4
<1>8. CASE /\ pending = None /\ Admit(r, users, c.token, states')
           /\ users' = users /\ UNCHANGED <<browser, tokens>>
  <2>1. \/ c.token \in Good \/ JustChecked
        \/ \E i \in 1..Len(checks) : checks[i].token \in Good
    BY <1>8 DEF SignedIn, CallsCovered
  <2>2. CallsCovered' /\ \A q \in Requests : req'[q].pc = "sent" => req'[q].browser = b
    BY <1>5, <1>6, <1>8, <1>10, <2>1, AdmitStays
  <2>3. TokensCurrent(b)'
    BY <1>4, <1>8, <1>9 DEF SignedAt, TokensCurrent, tokens
  <2>4. SignedAt(b)'
    BY <1>8, <1>9, <2>2, <2>3 DEF SignedAt
  <2> QED BY <1>5, <1>6, <1>8, <1>11, <2>2, <2>4
<1> QED BY <1>1, <1>7, <1>8 DEF Synchronize

LEMMA ServeStays ==
    ASSUME Types, Welcome, NEW r \in Requests, Serve(r), ~excused'
    PROVE  Stays
<1>1. req[r].pc # "idle"
  BY DEF Serve, Validate, Renewed, NotRenewed, NotReached
<1>2. SignedIn
  <2>1. r \in Busy
    BY <1>1 DEF Busy, Idle
  <2> QED BY <2>1 DEF Welcome, SigningIn, Outside
<1>3. req[r].pc # "renewing"
  BY <1>2 DEF SignedIn, CallsCovered
<1>4. Validate(r)
  BY <1>3 DEF Serve, Renewed, NotRenewed, NotReached
<1>5. ~SessionExpired(users)
  <2>1. users # None /\ states[users].visit # Never
    BY <1>2 DEF SignedIn
  <2>2. ExpiryExcuse
    BY <1>4 DEF Validate
  <2> QED BY <2>1, <2>2 DEF ExpiryExcuse
<1>6. /\ req[r].pc = "sent"
      /\ states' = [states EXCEPT ![users].visit = clock]
      /\ Synchronize(r, users, states')
      /\ UNCHANGED <<clock, provider, logins, issued, refreshing, login>>
  <2>1. users # None
    BY <1>2 DEF SignedIn
  <2> QED BY <1>4, <1>5, <2>1 DEF Validate, world
<1> QED BY <1>2, <1>6, SynchronizeStays

LEMMA RefreshStays ==
    ASSUME Types, Welcome, NEW n \in Tokens, Refresh(n), ~excused'
    PROVE  Stays
<1>1. /\ UNCHANGED <<clock, browser, states, checks, req, login, logins, refused>>
      /\ provider' = provider
  BY DEF Refresh, RefreshStart, Refreshed, NotRefreshed, RefreshLost, world
<1>2. n \in jobs \cup refreshing
  BY DEF Refresh, RefreshStart, Refreshed, NotRefreshed, RefreshLost
<1>3. SignedIn /\ ~refused /\ provider.enabled
  BY <1>2 DEF Welcome, SigningIn, Outside
<1>9. PICK b \in Browsers : SignedAt(b)
  BY <1>3 DEF SignedIn
<1>4. n = refresh /\ users # None /\ TokensCurrent(b)
  BY <1>2, <1>3, <1>9 DEF SignedIn, SignedAt, TokensCurrent
<1>10. ASSUME users' = users, TokensCurrent(b)', CallsCovered'
       PROVE  Stays
  <2>1. SignedAt(b)'
    BY <1>1, <1>9, <1>10 DEF SignedAt
  <2>2. SignedIn'
    BY <1>1, <1>3, <1>9, <1>10, <2>1 DEF SignedIn
  <2> QED BY <1>1, <1>3, <1>10, <2>2 DEF Stays, Welcome
<1>5. CASE RefreshStart(n)
  <2>1. /\ UNCHANGED <<issued, users, refresh, pending>>
        /\ jobs' = jobs \ {n} /\ refreshing' = refreshing \cup {n} /\ n \in jobs
    BY <1>4, <1>5 DEF RefreshStart
  <2>2. Good' = Good /\ JustChecked' = JustChecked
    BY <1>1, <2>1 DEF Good, AccessExpired, JustChecked, TtlExpired
  <2>3. TokensCurrent(b)'
    BY <1>1, <1>4, <2>1, <2>2 DEF TokensCurrent
  <2>4. CallsCovered'
    BY <1>1, <1>3, <2>1, <2>2 DEF SignedIn, CallsCovered
  <2> QED BY <1>10, <2>1, <2>3, <2>4
<1>6. CASE Refreshed(n)
  <2>1. /\ NewToken \in Tokens /\ issued' = Append(issued, clock)
        /\ refreshing' = refreshing \ {n} /\ n \in refreshing
        /\ refresh' = NewToken /\ pending' = NewToken /\ jobs' = jobs \cup {NewToken}
        /\ users' = users
    BY <1>6 DEF Refreshed
  <2>2. issued' # issued
    <3>1. issued \in Seq(0..MaxClock) /\ Len(issued) \in Nat /\ clock \in 0..MaxClock
      BY DEF Types, ServerTypes
    <3>2. Len(issued') = Len(issued) + 1
      BY <2>1, <3>1
    <3> QED BY <3>1, <3>2
  <2>3. Good \subseteq Good' /\ NewToken \in Good' /\ NewToken = Len(issued') /\ NewToken # None
    BY <1>1, <2>1, <2>2, GoodKept, Constants
  <2>4. jobs = {} /\ refreshing = {n}
    BY <1>4, <2>1 DEF TokensCurrent
  <2>5. TokensCurrent(b)'
    BY <2>1, <2>3, <2>4 DEF TokensCurrent
  <2>6. JustChecked' = JustChecked
    BY <1>1, <2>1 DEF JustChecked, TtlExpired
  <2>7. CallsCovered'
    <3>1. CallsCovered
      BY <1>3 DEF SignedIn
    <3>2. ASSUME NEW i \in 1..Len(checks)
          PROVE  /\ checks[i].state = users
                 /\ checks[i].token \notin Good' =>
                       /\ checks[i].pc = "lock"
                       /\ JustChecked \/ \E j \in 1..i - 1 : checks[j].token \in Good'
      BY <2>3, <3>1 DEF CallsCovered
    <3> QED BY <1>1, <2>1, <2>3, <2>6, <3>1, <3>2 DEF CallsCovered
  <2> QED BY <1>10, <2>1, <2>5, <2>7
<1>7. ~NotRefreshed(n)
  <2>1. Renews(n)
    BY <1>3, <1>4, Current DEF Renews
  <2> QED BY <2>1 DEF NotRefreshed, Refused, Fault, Excuse
<1>8. ~RefreshLost(n)
  BY DEF RefreshLost, Fault, Excuse
<1> QED BY <1>5, <1>6, <1>7, <1>8 DEF Refresh

LEMMA CheckStays ==
    ASSUME Types, Welcome, Check
    PROVE  Stays
<1>1. /\ checks # <<>>
      /\ UNCHANGED <<clock, provider, issued, browser, jobs, refreshing, req, login, logins, refused>>
  BY DEF Check, CheckLocked, CheckInfo, CheckGroups, Unchecked
<1>2. SignedIn /\ ~refused /\ provider.enabled
  BY <1>1 DEF Welcome, SigningIn, Outside
<1>3. CallsCovered /\ Good' = Good /\ refresh \in Good /\ users # None /\ users \in States
  BY <1>1, <1>2, Current, GoodKept DEF SignedIn
<1>4. /\ checks \in Seq(CheckRecord) /\ Len(checks) \in Nat /\ Len(checks) >= 1
      /\ Head(checks) = checks[1]
  BY <1>1, QueueMoves DEF Types, CallTypes
<1>5. /\ Head(checks).state = users
      /\ Head(checks).token \notin Good => Head(checks).pc = "lock" /\ JustChecked
  <2>1. 1 \in 1..Len(checks) /\ 1..1 - 1 = {}
    BY <1>4
  <2> QED BY <1>3, <1>4, <2>1 DEF CallsCovered
<1>6. \A r \in Requests : req'[r].pc \in {"idle", "sent"}
  BY <1>1, <1>3 DEF CallsCovered
<1>7. ASSUME JustChecked', checks' = Rest, users' = users, pending' = pending
      PROVE  CallsCovered'
  <2>1. Len(Rest) = Len(checks) - 1 /\ \A i \in 1..Len(Rest) : Rest[i] = checks[i + 1]
    BY <1>1, <1>4, QueueMoves
  <2>2. ASSUME NEW i \in 1..Len(Rest)
        PROVE  /\ Rest[i].state = users
               /\ Rest[i].token \notin Good => Rest[i].pc = "lock"
    <3>1. i + 1 \in 1..Len(checks) /\ Rest[i] = checks[i + 1]
      BY <1>4, <2>1, <2>2
    <3> QED BY <1>3, <3>1 DEF CallsCovered
  <2> QED BY <1>3, <1>6, <1>7, <2>2 DEF CallsCovered
<1>8. ASSUME NEW label \in {"info", "groups"}, Head(checks).token \in Good,
             checks' = <<[Head(checks) EXCEPT !.pc = label]>> \o Rest,
             UNCHANGED <<users, pending>>
      PROVE  CallsCovered'
  <2>1. /\ Len(checks') = Len(checks)
        /\ checks'[1].state = checks[1].state /\ checks'[1].token = checks[1].token
        /\ \A i \in 2..Len(checks) : checks'[i] = checks[i]
    BY <1>1, <1>4, <1>8, QueueMoves
  <2>2. checks'[1].token \in Good' /\ 1 \in 1..Len(checks')
    BY <1>3, <1>4, <1>8, <2>1
  <2>3. ASSUME NEW i \in 1..Len(checks')
        PROVE  /\ checks'[i].state = users
               /\ checks'[i].token \notin Good' =>
                     /\ checks'[i].pc = "lock"
                     /\ \E j \in 1..i - 1 : checks'[j].token \in Good'
    <3>1. CASE i = 1
      BY <1>4, <1>5, <2>1, <2>2, <3>1
    <3>2. CASE i # 1
      <4>1. i \in 2..Len(checks) /\ i \in 1..Len(checks) /\ 1 \in 1..i - 1
        BY <1>4, <2>1, <3>2
      <4>2. checks'[i] = checks[i]
        BY <2>1, <4>1
      <4> QED BY <1>3, <2>2, <4>1, <4>2 DEF CallsCovered
    <3> QED BY <3>1, <3>2
  <2> QED BY <1>6, <1>8, <2>2, <2>3 DEF CallsCovered
<1>9. ASSUME UNCHANGED <<users, refresh, pending>>, CallsCovered',
             states'[users].visit # Never
      PROVE  Stays
  <2>1. PICK b \in Browsers : SignedAt(b)
    BY <1>2 DEF SignedIn
  <2>2. SignedAt(b)'
    BY <1>1, <1>3, <1>9, <2>1 DEF SignedAt, TokensCurrent
  <2>3. SignedIn'
    BY <1>1, <1>2, <1>9, <2>1, <2>2 DEF SignedIn
  <2> QED BY <1>1, <1>2, <1>9, <2>3 DEF Stays, Welcome
<1>10. states[users].visit # Never
  BY <1>2 DEF SignedIn
<1>11. CASE CheckLocked
  <2>1. UNCHANGED <<users, states, refresh, pending>>
    BY <1>11 DEF CheckLocked
  <2>2. JustChecked' = JustChecked
    BY <1>1, <2>1 DEF JustChecked, TtlExpired
  <2>3. CASE TtlExpired(users)
    <3>1. checks' = <<[Head(checks) EXCEPT !.pc = "info"]>> \o Rest
      BY <1>5, <1>11, <2>3 DEF CheckLocked
    <3>2. Head(checks).token \in Good
      BY <1>5, <2>3 DEF JustChecked
    <3>3. CallsCovered'
      BY <1>8, <2>1, <3>1, <3>2
    <3> QED BY <1>9, <1>10, <2>1, <3>3
  <2>4. CASE ~TtlExpired(users)
    <3>1. checks' = Rest
      BY <1>5, <1>11, <2>4 DEF CheckLocked
    <3>2. CallsCovered'
      BY <1>7, <2>1, <2>2, <2>4, <3>1 DEF JustChecked
    <3> QED BY <1>9, <1>10, <2>1, <3>2
  <2> QED BY <2>3, <2>4
<1>12. CASE CheckInfo
  <2>1. Head(checks).pc = "info" /\ states' = states
    BY <1>12 DEF CheckInfo
  <2>2. Head(checks).token \in Good
    BY <1>5, <2>1
  <2>3. Accepts(Head(checks).token)
    BY <1>2, <2>2 DEF Accepts, Good
  <2>4. /\ checks' = <<[Head(checks) EXCEPT !.pc = "groups"]>> \o Rest
        /\ UNCHANGED <<users, refresh, pending>>
    BY <1>12, <2>3 DEF CheckInfo
  <2>5. CallsCovered'
    BY <1>8, <2>2, <2>4
  <2> QED BY <1>9, <1>10, <2>1, <2>4, <2>5
<1>13. CASE CheckGroups
  <2>1. /\ checks' = Rest /\ UNCHANGED <<users, refresh, pending>>
        /\ states' = [states EXCEPT ![users].auth = clock, ![users].groups = provider.groups]
    BY <1>5, <1>13 DEF CheckGroups
  <2>2. states \in [States -> StateRecord] /\ clock \in 0..MaxClock
    BY DEF Types, ServerTypes
  <2>3. states'[users].auth = clock /\ states'[users].visit = states[users].visit
    <3>1. PICK t \in StateRecord : t = states[users]
      BY <1>3, <2>2
    <3>2. PICK g : g = [t EXCEPT !.auth = clock, !.groups = provider.groups]
      OBVIOUS
    <3>3. g.auth = clock /\ g.visit = t.visit
      BY <3>2 DEF StateRecord
    <3>4. states' = [states EXCEPT ![users] = g]
      BY <1>3, <2>1, <2>2, <3>1, <3>2
    <3> QED BY <1>3, <2>2, <3>1, <3>3, <3>4
  <2>4. JustChecked'
    <3>1. clock # Never /\ ~(clock + AuthTtl < clock)
      BY <2>2, Constants DEF Never
    <3> QED BY <1>1, <2>1, <2>3, <3>1 DEF JustChecked, TtlExpired
  <2>5. CallsCovered'
    BY <1>7, <2>1, <2>4
  <2> QED BY <1>9, <1>10, <2>1, <2>3, <2>5
<1> QED BY <1>11, <1>12, <1>13 DEF Check

LEMMA TickStays ==
    ASSUME Types, Welcome, Tick
    PROVE  Stays
<1>1. /\ clock' = clock + 1
      /\ states' = [s \in States |-> IF s = users THEN states[s] ELSE NoState]
      /\ UNCHANGED <<issued, provider, browser, users, refresh, pending, jobs, refreshing, checks,
                     req, login, logins, refused>>
      /\ \A r \in Requests : req[r] = Idle
      /\ \A b \in Browsers : login[b] = NoLogin
      /\ checks = <<>> /\ refreshing = {} /\ \A n \in jobs : ~Due(n)
  BY DEF Tick, Quiet, tokens
<1>2. ~refused /\ provider.enabled
  BY DEF Welcome
<1>3. CASE SigningIn
  <2>1. SigningIn'
    BY <1>1, <1>3 DEF SigningIn, NotSigned, SigningAt, Outside, Busy, NoLogin
  <2> QED BY <1>1, <1>2, <2>1 DEF Stays, Welcome
<1>4. CASE SignedIn
  <2>6. PICK b \in Browsers : SignedAt(b)
    BY <1>4 DEF SignedIn
  <2>1. refresh \in jobs /\ ~Due(refresh) /\ refresh \in 1..Len(issued) /\ users \in States /\ users # None
    BY <1>1, <1>4, <2>6, Current DEF SignedAt, TokensCurrent, Good
  <2>2. refresh' \in Good'
    <3>1. issued \in Seq(0..MaxClock) /\ Len(issued) \in Nat /\ clock \in 0..MaxClock
      BY DEF Types, ServerTypes
    <3>2. issued[refresh] \in 0..MaxClock
      BY <2>1, <3>1, ElementOfSeq
    <3>3. ~(issued[refresh] + AccessLife - 1 <= clock)
      BY <2>1 DEF Due
    <3>4. ~(issued[refresh] + AccessLife <= clock + 1)
      BY <3>1, <3>2, <3>3, Constants
    <3> QED BY <1>1, <2>1, <3>4 DEF Good, AccessExpired
  <2>3. SignedAt(b)'
    BY <1>1, <2>2, <2>6 DEF SignedAt, TokensCurrent
  <2>4. CallsCovered'
    <3>1. Len(checks') = 0 /\ \A r \in Requests : req'[r].pc = "idle"
      BY <1>1 DEF Idle
    <3> QED BY <3>1 DEF CallsCovered
  <2>5. states'[users] = states[users]
    BY <1>1, <2>1
  <2>7. SignedIn'
    BY <1>1, <1>4, <2>1, <2>3, <2>4, <2>5, <2>6 DEF SignedIn
  <2> QED BY <1>1, <1>2, <2>7 DEF Stays, Welcome
<1> QED BY <1>3, <1>4 DEF Welcome

(* Each step keeps the user, or gives an excuse.                           *)
LEMMA StepStays ==
    ASSUME Types, Welcome, [Next]_vars, ~excused'
    PROVE  Stays
<1>1. CASE UNCHANGED vars
  <2>1. UNCHANGED <<clock, issued, provider, browser, users, states, refresh, pending, jobs,
                    refreshing, checks, req, login, logins, refused>>
    BY <1>1 DEF vars
  <2> QED BY <2>1, NothingMoves
<1>2. ASSUME NEW b \in Browsers, Login(b) \/ Logout(b)
      PROVE  Stays
  <2>1. LoginStart(b) \/ LoginEnd(b)
    BY <1>2 DEF Login, LoginFail, Logout, Fault, Excuse
  <2> QED BY <2>1, LoginStays
<1>3. CASE CheckFail \/ Deactivate \/ Restart
  BY <1>3 DEF CheckFail, Deactivate, Restart, Fault, Excuse
<1>4. CASE \E r \in Requests : Serve(r) \/ \E b \in Browsers : Send(r, b)
  BY <1>4, SendStays, ServeStays
<1>5. CASE \E n \in Tokens : Refresh(n)
  BY <1>5, RefreshStays
<1>6. CASE Check
  BY <1>6, CheckStays
<1>7. CASE Tick
  BY <1>7, TickStays
<1>8. CASE ChangeGroups
  <2>1. provider'.enabled = provider.enabled
    <3>1. PICK p \in [enabled : BOOLEAN, groups : 1..2] : p = provider
      BY DEF Types, ServerTypes
    <3>2. provider' = [p EXCEPT !.groups = 2]
      BY <1>8, <3>1 DEF ChangeGroups
    <3> QED BY <3>1, <3>2
  <2> QED BY <1>8, <2>1, NothingMoves DEF ChangeGroups, tokens
<1>9. CASE DumpState
  BY <1>9, NothingMoves DEF DumpState, tokens, world
<1> QED BY <1>1, <1>2, <1>3, <1>4, <1>5, <1>6, <1>7, <1>8, <1>9 DEF Next

(* An excuse is not taken back.                                            *)
LEMMA ExcusesStay ==
    ASSUME [Next]_vars, excused
    PROVE  excused'
<1>1. CASE UNCHANGED vars
  BY <1>1 DEF vars
<1>2. ASSUME NEW b \in Browsers, Login(b) \/ Logout(b)
      PROVE  excused'
  BY <1>2 DEF Login, LoginStart, LoginEnd, LoginFail, Logout, Fault, Excuse
<1>3. ASSUME NEW r \in Requests, Serve(r) \/ \E b \in Browsers : Send(r, b)
      PROVE  excused'
  BY <1>3 DEF Send, Serve, Validate, Renewed, NotRenewed, NotReached, Refused, ExpiryExcuse, Fault,
              Excuse
<1>4. ASSUME NEW n \in Tokens, Refresh(n)
      PROVE  excused'
  BY <1>4 DEF Refresh, RefreshStart, Refreshed, NotRefreshed, RefreshLost, Refused, Fault, Excuse
<1>5. CASE Check \/ CheckFail
  BY <1>5 DEF Check, CheckLocked, CheckInfo, CheckGroups, CheckFail, Fault, Excuse
<1>6. CASE Tick \/ Deactivate \/ ChangeGroups \/ DumpState \/ Restart
  BY <1>6 DEF Tick, Deactivate, ChangeGroups, DumpState, Restart, Fault, Excuse
<1> QED BY <1>1, <1>2, <1>3, <1>4, <1>5, <1>6 DEF Next

(* With an excuse a refusal is not held against anybody.                   *)
LEMMA ExcusedRefusal ==
    ASSUME [Next]_vars, excused', refused'
    PROVE  refused
<1>1. CASE UNCHANGED vars
  BY <1>1 DEF vars
<1>2. ASSUME NEW b \in Browsers, Login(b) \/ Logout(b)
      PROVE  refused
  BY <1>2 DEF Login, LoginStart, LoginEnd, LoginFail, Logout
<1>3. ASSUME NEW r \in Requests, Serve(r) \/ \E b \in Browsers : Send(r, b)
      PROVE  refused
  <2>1. Refuse(r) \/ TurnedAway(r) => refused
    BY DEF Refuse, TurnedAway
  <2>2. ASSUME NEW s, NEW n, NEW now, Admit(r, s, n, now)
        PROVE  refused
    BY <2>2 DEF Admit
  <2>3. ASSUME NEW s, NEW now, Synchronize(r, s, now)
        PROVE  refused
    BY <2>1, <2>2, <2>3 DEF Synchronize
  <2>4. CASE Validate(r)
    BY <2>1, <2>3, <2>4 DEF Validate
  <2>5. CASE Renewed(r) \/ NotRenewed(r) \/ NotReached(r)
    BY <2>1, <2>2, <2>5 DEF Renewed, NotRenewed, NotReached
  <2> QED BY <1>3, <2>4, <2>5 DEF Serve, Send
<1>4. ASSUME NEW n \in Tokens, Refresh(n)
      PROVE  refused
  BY <1>4 DEF Refresh, RefreshStart, Refreshed, NotRefreshed, RefreshLost
<1>5. CASE Check \/ CheckFail
  BY <1>5 DEF Check, CheckLocked, CheckInfo, CheckGroups, CheckFail, Unchecked
<1>6. CASE Tick \/ Deactivate \/ ChangeGroups \/ DumpState \/ Restart
  BY <1>6 DEF Tick, Deactivate, ChangeGroups, DumpState, Restart
<1> QED BY <1>1, <1>2, <1>3, <1>4, <1>5, <1>6 DEF Next

-----------------------------------------------------------------------------
(* The inductive invariant holds: types, and the user against whom nothing *)
(* speaks is outside, signing in or signed in with a token that will do.   *)
THEOREM SessionInvariant == Spec => []SessionInv
<1>1. Init => SessionInv
  <2> SUFFICES ASSUME Init
               PROVE  SessionInv
    OBVIOUS
  <2>1. Types
    BY TypesInitial
  <2>2. Busy = {}
    BY DEF Init, Busy
  <2>3. Welcome
    BY <2>2 DEF Init, Welcome, SigningIn, NotSigned, Outside, NoCookies, NoLogin
  <2> QED BY <2>1, <2>3 DEF SessionInv, Innocent, Welcome
<1>2. SessionInv /\ [Next]_vars => SessionInv'
  <2> SUFFICES ASSUME SessionInv, [Next]_vars
               PROVE  SessionInv'
    OBVIOUS
  <2>1. Types'
    BY TypesKept DEF SessionInv
  <2>2. ASSUME ~excused'
        PROVE  Welcome'
    <3>1. Welcome
      BY <2>2, ExcusesStay DEF SessionInv, Innocent
    <3> QED BY <2>2, <3>1, StepStays DEF SessionInv, Stays
  <2>3. ~refused'
    <3>1. CASE excused'
      BY <3>1, ExcusedRefusal DEF SessionInv, Innocent
    <3>2. CASE ~excused'
      BY <2>2, <3>2 DEF Welcome
    <3> QED BY <3>1, <3>2
  <2> QED BY <2>1, <2>2, <2>3 DEF SessionInv, Innocent
<1> QED BY <1>1, <1>2, PTL DEF Spec

(* The session is kept: a request of a signed-in browser is refused only   *)
(* if there is an excuse, however the requests, the scheduled refreshes    *)
(* and the checks of _do_update_user_auth_async interleave.                *)
THEOREM SessionIsKept == Spec => []SessionKept
<1>1. SessionInv => SessionKept
  <2> SUFFICES ASSUME SessionInv
               PROVE  SessionKept
    OBVIOUS
  <2>1. /\ \A s \in States : states[s] \in StateRecord
        /\ \A r \in Requests : req[r].pc \in {"idle", "sent", "renewing"}
        /\ browser \in [Browsers -> Cookies]
    BY DEF SessionInv, Types, ServerTypes, CallTypes, ReqRecord
  <2>2. TypeOK
    <3>1. ServerTypes
      BY DEF SessionInv, Types
    <3>2. \A s \in States : states[s] \in
              [auth : 0..MaxClock \cup {Never}, visit : 0..MaxClock \cup {Never}, groups : 0..2]
      BY <2>1 DEF StateRecord
    <3>3. /\ clock \in 0..MaxClock
          /\ issued \in Seq(0..MaxClock) /\ Len(issued) <= MaxTokens
          /\ provider \in [enabled : BOOLEAN, groups : 1..2]
          /\ users \in States \cup {None} /\ refused \in BOOLEAN
      BY <3>1 DEF ServerTypes
    <3>4. {refresh, pending} \subseteq Tokens \cup {None} /\ jobs \cup refreshing \subseteq Tokens
      BY <3>1 DEF ServerTypes
    <3> QED BY <2>1, <3>2, <3>3, <3>4 DEF TypeOK
  <2>3. StaysSignedIn
    BY DEF SessionInv, Innocent, StaysSignedIn
  <2> QED BY <2>2, <2>3 DEF SessionKept
<1> QED BY <1>1, SessionInvariant, PTL

(* Nor does any of them remove his state from _users: no check presents a  *)
(* token that is of no use any more while a better one is held.            *)
THEOREM RemovalHasCause == Spec => RemovedForCause
<1>1. SessionInv /\ [Next]_vars => [users # None /\ users' = None => excused']_vars
  <2> SUFFICES ASSUME SessionInv, [Next]_vars, users # None, users' = None, ~excused'
               PROVE  FALSE
    OBVIOUS
  <2>1. Types /\ Welcome
    BY ExcusesStay DEF SessionInv, Innocent
  <2> QED BY <2>1, StepStays DEF Stays
<1> QED BY <1>1, SessionInvariant, PTL DEF Spec, RemovedForCause
=============================================================================
