------------------------------ MODULE AuthBroker ------------------------------
(***************************************************************************)
(* Brokered GILid login (coordinator/auth.go, admin_auth.go, oauthCallback *)
(* in main.go).  A desktop client starts a login, polls it by request id   *)
(* and is handed a bearer token once; an operator signs in to the admin    *)
(* dashboard by cookie.  Both come back through one OAuth callback, which  *)
(* talks to GILid between two critical sections.                           *)
(*                                                                         *)
(* A login attempt r stands for its request id and its OAuth state, which  *)
(* are random, used once and never confused.  Times are times left, as in  *)
(* LeaseStore; nothing here is persisted, so a restart forgets everything. *)
(***************************************************************************)
EXTENDS Naturals, FiniteSets

CONSTANTS
  Login,           \* login attempts
  Token,           \* bearer tokens and admin cookies (randomID)
  User,            \* GILid accounts
  Admins,          \* the accounts with is_admin
  DevUser,         \* the owner "dev:<device>" of a development login
  DevAuthEnabled,  \* devAuthEnabled
  Slot,            \* callback handlers waiting for GILid
  AuthLifetime,    \* authRequestLifetime
  SessionLifetime, \* coordinatorSessionLifetime
  None

ASSUME AuthAssumption ==
  /\ AuthLifetime \in Nat \ {0} /\ SessionLifetime \in Nat
  /\ AuthLifetime < SessionLifetime
  /\ Admins \subseteq User
  /\ DevUser \notin User
  /\ DevAuthEnabled \in BOOLEAN
  /\ None \notin User \cup Token \cup {DevUser}

VARIABLES
  pending,       \* b.pending: client logins in progress
  open,          \* b.stateToRequest: logins whose OAuth state is not used yet
  sessions,      \* b.sessions
  adminPending,  \* a.pending: time left, or None
  adminSessions, \* a.sessions
  callback,      \* what each callback handler is exchanging
  started,       \* history: the logins started so far
  signed,        \* history: the accounts that came back from GILid for a login
  delivered      \* history: the tokens a Status reply has carried

broker == <<pending, open, sessions>>
admin == <<adminPending, adminSessions>>
history == <<started, signed, delivered>>
vars == <<pending, open, sessions, adminPending, adminSessions, callback,
          started, signed, delivered>>

Owners == User \cup {DevUser}

Pending ==
  [st : {"waiting", "failed"}, left : 0..AuthLifetime]
  \cup [st : {"done"}, left : 0..AuthLifetime, token : Token, owner : User]

Session == [owner : Owners, left : 0..SessionLifetime]

Exchange == [flow : {"client", "admin"}, login : Login, user : User, left : 0..SessionLifetime]

\* None is a value of its own: a Go map that has no entry.
ASSUME NoneAssumption == None \notin Pending \cup Session \cup Exchange \cup 0..AuthLifetime

TypeOK ==
  /\ pending \in [Login -> Pending \cup {None}]
  /\ open \subseteq Login
  /\ sessions \in [Token -> Session \cup {None}]
  /\ adminPending \in [Login -> 0..AuthLifetime \cup {None}]
  /\ adminSessions \in [Token -> Session \cup {None}]
  /\ callback \in [Slot -> Exchange \cup {None}]
  /\ started \subseteq Login
  /\ signed \in [Login -> SUBSET User]
  /\ delivered \subseteq Token

-------------------------------------------------------------------------------
(* cleanupLocked, in both tables *)

ExpiredLogins_keepsUnanswered == {r \in Login : pending[r] # None /\ pending[r].left = 0 /\ pending[r].st # "waiting"}
ExpiredLogins == {r \in Login : pending[r] # None /\ pending[r].left = 0}

CleanPending == [r \in Login |-> IF r \in ExpiredLogins THEN None ELSE pending[r]]
CleanOpen == open \ ExpiredLogins
Unexpired(ss) == [t \in Token |-> IF ss[t] # None /\ ss[t].left = 0 THEN None ELSE ss[t]]
CleanAdminPending ==
  [r \in Login |-> IF adminPending[r] # None /\ adminPending[r] = 0 THEN None ELSE adminPending[r]]

AdminCleanup ==
  /\ adminPending' = CleanAdminPending
  /\ adminSessions' = Unexpired(adminSessions)

FreshToken ==
  {t \in Token : sessions[t] = None /\ adminSessions[t] = None /\ t \notin delivered}

SessionFor_shortLived(u) == [owner |-> u, left |-> 1]
SessionFor(u) == [owner |-> u, left |-> SessionLifetime]

Init ==
  /\ pending = [r \in Login |-> None]
  /\ open = {}
  /\ sessions = [t \in Token |-> None]
  /\ adminPending = [r \in Login |-> None]
  /\ adminSessions = [t \in Token |-> None]
  /\ callback = [s \in Slot |-> None]
  /\ started = {} /\ delivered = {}
  /\ signed = [r \in Login |-> {}]

-------------------------------------------------------------------------------
(* AuthBroker *)

Start(r) ==
  /\ r \notin started
  /\ started' = started \cup {r}
  /\ pending' = [CleanPending EXCEPT ![r] = [st |-> "waiting", left |-> AuthLifetime]]
  /\ open' = CleanOpen \cup {r}
  /\ sessions' = Unexpired(sessions)
  /\ UNCHANGED <<admin, callback, signed, delivered>>

\* What is left of the pending table once login r has been answered.
Answered_keepsToken(r) ==
  IF CleanPending[r] # None /\ CleanPending[r].st = "failed"
  THEN [CleanPending EXCEPT ![r] = None] ELSE CleanPending
Answered(r) ==
  IF CleanPending[r] # None /\ CleanPending[r].st # "waiting"
  THEN [CleanPending EXCEPT ![r] = None] ELSE CleanPending

\* Status: 404 for an unknown login, an error and a token are reported once.
Status(r) ==
  LET p == CleanPending[r]
      done == p # None /\ p.st = "done" IN
  /\ pending' = Answered(r)
  /\ open' = IF done THEN CleanOpen \ {r} ELSE CleanOpen
  /\ delivered' = IF done THEN delivered \cup {p.token} ELSE delivered
  /\ sessions' = Unexpired(sessions)
  /\ UNCHANGED <<admin, callback, started, signed>>

\* The OAuth states still usable after a callback has used r's.
Consumed_notYet(r) == open
Consumed(r) == open \ {r}

\* failPending
Failed(r) ==
  IF pending[r] # None THEN [pending EXCEPT ![r] = [st |-> "failed", left |-> @.left]]
  ELSE pending

\* oauthCallback for a client's login: AdminAuth.Callback does not know the
\* state, so AuthBroker.Callback looks it up and uses it up.  A state that is
\* unknown, used or expired is refused; a denied login or a missing code fails
\* the login; otherwise user u's code is exchanged.
CallbackBegin(s, r, u) ==
  /\ callback[s] = None
  /\ CleanAdminPending[r] = None
  /\ AdminCleanup
  /\ IF r \in open /\ pending[r] # None
     THEN /\ open' = Consumed(r)
          /\ \/ pending[r].left = 0 /\ UNCHANGED <<pending, callback>>
             \/ pending[r].left > 0 /\ pending' = Failed(r) /\ UNCHANGED callback
             \/ /\ pending[r].left > 0
                /\ callback' = [callback EXCEPT ![s] =
                     [flow |-> "client", login |-> r, user |-> u, left |-> SessionLifetime]]
                /\ UNCHANGED pending
     ELSE UNCHANGED <<open, pending, callback>>
  /\ UNCHANGED <<sessions, history>>

\* exchangeAndLoadProfile came back with the profile of the user: the login, if
\* it still exists, gets a token and the token a session.
CallbackDone(s) ==
  LET c == callback[s] IN
  /\ c # None /\ c.flow = "client"
  /\ signed' = [signed EXCEPT ![c.login] = @ \cup {c.user}]
  /\ \/ /\ pending[c.login] # None
        /\ \E t \in FreshToken :
             /\ pending' = [pending EXCEPT ![c.login] =
                  [st |-> "done", left |-> @.left, token |-> t, owner |-> c.user]]
             /\ sessions' = [sessions EXCEPT ![t] = SessionFor(c.user)]
     \/ pending[c.login] = None /\ UNCHANGED <<pending, sessions>>
  /\ callback' = [callback EXCEPT ![s] = None]
  /\ UNCHANGED <<open, admin, started, delivered>>

CallbackFails(s) ==
  /\ callback[s] # None
  /\ pending' = IF callback[s].flow = "client" THEN Failed(callback[s].login) ELSE pending
  /\ callback' = [callback EXCEPT ![s] = None]
  /\ UNCHANGED <<open, sessions, admin, history>>

\* DevLogin does not clean up.
DevLogin ==
  /\ DevAuthEnabled
  /\ \E t \in FreshToken : sessions' = [sessions EXCEPT ![t] = SessionFor(DevUser)]
  /\ UNCHANGED <<pending, open, admin, callback, history>>

\* AuthenticateToken and ProfileForOwner clean up and answer.
AuthenticateToken ==
  /\ pending' = CleanPending
  /\ open' = CleanOpen
  /\ sessions' = Unexpired(sessions)
  /\ UNCHANGED <<admin, callback, history>>

-------------------------------------------------------------------------------
(* AdminAuth *)

AdminStart(r) ==
  /\ r \notin started
  /\ started' = started \cup {r}
  /\ adminPending' = [CleanAdminPending EXCEPT ![r] = AuthLifetime]
  /\ adminSessions' = Unexpired(adminSessions)
  /\ UNCHANGED <<broker, callback, signed, delivered>>

AdminCallbackBegin(s, r, u) ==
  /\ callback[s] = None
  /\ CleanAdminPending[r] # None
  /\ adminPending' = [CleanAdminPending EXCEPT ![r] = None]
  /\ adminSessions' = Unexpired(adminSessions)
  /\ \/ UNCHANGED callback          \* denied, or no code
     \/ callback' = [callback EXCEPT ![s] =
          [flow |-> "admin", login |-> r, user |-> u, left |-> SessionLifetime]]
  /\ UNCHANGED <<broker, history>>

MayAdminister_anyone(u) == TRUE
MayAdminister(u) == u \in Admins

\* The session runs from the time the callback arrived.
AdminCallbackDone(s) ==
  LET c == callback[s] IN
  /\ c # None /\ c.flow = "admin"
  /\ signed' = [signed EXCEPT ![c.login] = @ \cup {c.user}]
  /\ \/ /\ MayAdminister(c.user)
        /\ \E t \in FreshToken :
             adminSessions' = [adminSessions EXCEPT ![t] = [owner |-> c.user, left |-> c.left]]
     \/ ~MayAdminister(c.user) /\ UNCHANGED adminSessions
  /\ callback' = [callback EXCEPT ![s] = None]
  /\ UNCHANGED <<broker, adminPending, started, delivered>>

AdminAuthenticate ==
  /\ AdminCleanup
  /\ UNCHANGED <<broker, callback, history>>

Logout(t) ==
  /\ adminSessions' = [adminSessions EXCEPT ![t] = None]
  /\ UNCHANGED <<broker, adminPending, callback, history>>

-------------------------------------------------------------------------------

\* A restart forgets every login and every session.
Restart ==
  /\ pending' = [r \in Login |-> None]
  /\ open' = {}
  /\ sessions' = [t \in Token |-> None]
  /\ adminPending' = [r \in Login |-> None]
  /\ adminSessions' = [t \in Token |-> None]
  /\ callback' = [s \in Slot |-> None]
  /\ UNCHANGED history

Less(n) == IF n > 0 THEN n - 1 ELSE 0
Older(f) == [x \in DOMAIN f |-> IF f[x] = None THEN None ELSE [f[x] EXCEPT !.left = Less(@)]]

Tick ==
  /\ pending' = Older(pending)
  /\ sessions' = Older(sessions)
  /\ adminPending' = [r \in Login |-> IF adminPending[r] = None THEN None ELSE Less(adminPending[r])]
  /\ adminSessions' = Older(adminSessions)
  /\ callback' = Older(callback)
  /\ UNCHANGED <<open, history>>

Next ==
  \/ \E r \in Login : Start(r) \/ AdminStart(r)
  \/ \E r \in started : Status(r)
  \/ \E s \in Slot :
       \/ \E r \in started, u \in User : CallbackBegin(s, r, u) \/ AdminCallbackBegin(s, r, u)
       \/ CallbackDone(s) \/ CallbackFails(s) \/ AdminCallbackDone(s)
  \/ DevLogin
  \/ AuthenticateToken
  \/ AdminAuthenticate
  \/ \E t \in Token : Logout(t)
  \/ Restart
  \/ Tick

Spec == Init /\ [][Next]_vars

-------------------------------------------------------------------------------
(* Properties *)

\* "Consume the OAuth state before making network requests so a callback cannot
\* be replayed or raced against itself" (auth.go): a login is exchanged by at
\* most one callback, and its state cannot be used again during or after that.
StateSingleUse ==
  /\ \A s, t \in Slot :
       callback[s] # None /\ callback[t] # None /\ callback[s].login = callback[t].login => s = t
  /\ \A r \in open :
       /\ pending[r] # None /\ pending[r].st = "waiting"
       /\ \A s \in Slot : callback[s] # None => callback[s].login # r
       /\ signed[r] = {}

\* The types, and the one use of a state.
AuthInv == TypeOK /\ StateSingleUse

\* The token waiting for a client authenticates the one account that signed in
\* for that client's login, and it has not run out.
TokenWorks ==
  \A r \in Login :
    pending[r] # None /\ pending[r].st = "done" /\ pending[r].left > 0 =>
      LET s == sessions[pending[r].token] IN
      /\ s # None /\ s.left > 0
      /\ s.owner = pending[r].owner
      /\ signed[r] = {pending[r].owner}

\* A token leaves the coordinator once: it is never waiting again after a Status
\* reply carried it, nor waiting for two logins.
TokenOnce ==
  \A r \in Login : pending[r] # None /\ pending[r].st = "done" =>
    /\ pending[r].token \notin delivered
    /\ \A q \in Login : pending[q] # None /\ pending[q].st = "done"
                          /\ pending[q].token = pending[r].token => q = r

\* What a login is answered with: a working token, once (Callback, Status).
TokenGood == TokenWorks /\ TokenOnce

\* Only an administrator's sign-in at the dashboard gives an admin session, and
\* no client token is an admin cookie.
AdminOnly ==
  \A t \in Token : adminSessions[t] # None =>
    /\ adminSessions[t].owner \in Admins
    /\ sessions[t] = None /\ t \notin delivered

-------------------------------------------------------------------------------
(* Liveness *)

\* Time passes and the client polls its login until it is answered.
FairSpec ==
  /\ Spec
  /\ WF_vars(Tick)
  /\ \A r \in Login : WF_vars(r \in started /\ Status(r))

\* Every login ends: with a token, an error, or as unknown when it has expired.
LoginEnds == \A r \in Login : pending[r] # None ~> pending[r] = None
===============================================================================
