--------------------------- MODULE AuthBrokerProofs ---------------------------
(***************************************************************************)
(* Brokered login, for every value of the constants of AuthBroker: however *)
(* many logins, tokens, accounts and callback handlers there are.          *)
(***************************************************************************)
EXTENDS AuthBroker, TLAPS

\* Nobody is exchanging login r's code.
Idle(r) == \A s \in Slot : callback[s] # None => callback[s].login # r

Done(r) == pending[r] # None /\ pending[r].st = "done"

\* A login that nobody has started has left no trace.
UnusedInv == \A r \in Login \ started :
  /\ pending[r] = None /\ adminPending[r] = None /\ r \notin open
  /\ Idle(r) /\ signed[r] = {}

\* A client's login whose state is unused is waiting, and only that.
OpenInv == \A r \in open :
  /\ pending[r] # None /\ pending[r].st = "waiting"
  /\ adminPending[r] = None /\ Idle(r) /\ signed[r] = {}

\* An operator's login whose state is unused is not a client's login.
AdminInv == \A r \in Login : adminPending[r] # None =>
  /\ pending[r] = None /\ r \notin open
  /\ Idle(r) /\ signed[r] = {}

\* A login being exchanged has no usable state in either table, no account, no
\* token, and no other callback.
Exchanging(s) ==
  LET r == callback[s].login IN
  /\ r \in started /\ r \notin open /\ adminPending[r] = None
  /\ signed[r] = {} /\ ~Done(r)
  /\ callback[s].flow = "admin" => pending[r] = None
  /\ \A t \in Slot : callback[t] # None /\ callback[t].login = r => t = s

CallbackInv == \A s \in Slot : callback[s] # None => Exchanging(s)

\* A login with a token has the session of that token, of the one account that
\* signed in for it, at least for as long as the login is kept.
HasToken(r) ==
  LET s == sessions[pending[r].token] IN
  /\ s # None /\ s.owner = pending[r].owner /\ pending[r].left <= s.left
  /\ signed[r] = {pending[r].owner}
  /\ pending[r].token \notin delivered
  /\ \A q \in Login : Done(q) /\ pending[q].token = pending[r].token => q = r

DoneInv == \A r \in Login : Done(r) => HasToken(r)

IInv ==
  /\ TypeOK /\ UnusedInv /\ OpenInv /\ AdminInv /\ CallbackInv /\ DoneInv
  /\ AdminOnly

-------------------------------------------------------------------------------
(* Records *)

LEMMA PendingFields ==
  ASSUME NEW p \in Pending
  PROVE  /\ p # None
         /\ p.left \in 0..AuthLifetime
         /\ p.st \in {"waiting", "failed", "done"}
         /\ p.st = "done" => p.token \in Token /\ p.owner \in User
BY NoneAssumption DEF Pending

\* What a login's entry is replaced with.
LEMMA NewPending ==
  ASSUME NEW n \in 0..AuthLifetime
  PROVE  /\ [st |-> "waiting", left |-> n] \in Pending
         /\ [st |-> "failed", left |-> n] \in Pending
         /\ \A t \in Token, u \in User :
              [st |-> "done", left |-> n, token |-> t, owner |-> u] \in Pending
BY DEF Pending

LEMMA SessionFields ==
  ASSUME NEW s \in Session
  PROVE  s # None /\ s.left \in 0..SessionLifetime /\ s.owner \in Owners
BY NoneAssumption DEF Session

LEMMA ExchangeFields ==
  ASSUME NEW c \in Exchange
  PROVE  /\ c # None /\ c.flow \in {"client", "admin"} /\ c.login \in Login
         /\ c.user \in User /\ c.left \in 0..SessionLifetime
BY NoneAssumption DEF Exchange

LEMMA LessType ==
  ASSUME NEW m \in Nat, NEW n \in 0..m
  PROVE  Less(n) \in 0..m /\ Less(n) <= n
BY DEF Less

\* A tick changes the time left and nothing else.
LEMMA AgePending ==
  ASSUME NEW p \in Pending
  PROVE  LET q == [p EXCEPT !.left = Less(@)] IN
         /\ q \in Pending /\ q.left = Less(p.left) /\ q.st = p.st
         /\ p.st = "done" => q.token = p.token /\ q.owner = p.owner
<1>a. AuthLifetime \in Nat
  BY AuthAssumption
<1>1. p.left \in 0..AuthLifetime /\ Less(p.left) \in 0..AuthLifetime
  BY PendingFields, LessType, <1>a
<1>2. CASE p \in [st : {"waiting", "failed"}, left : 0..AuthLifetime]
  BY <1>1, <1>2 DEF Pending
<1>3. CASE p \in [st : {"done"}, left : 0..AuthLifetime, token : Token, owner : User]
  BY <1>1, <1>3 DEF Pending
<1>4. QED
  BY <1>2, <1>3 DEF Pending

LEMMA AgeSession ==
  ASSUME NEW s \in Session
  PROVE  LET q == [s EXCEPT !.left = Less(@)] IN
         q \in Session /\ q.left = Less(s.left) /\ q.owner = s.owner
<1>1. Less(s.left) \in 0..SessionLifetime
  BY SessionFields, LessType, AuthAssumption
<1>2. QED
  BY <1>1 DEF Session

LEMMA AgeExchange ==
  ASSUME NEW c \in Exchange
  PROVE  LET q == [c EXCEPT !.left = Less(@)] IN
         q \in Exchange /\ q.login = c.login /\ q.flow = c.flow /\ q.user = c.user
<1>1. Less(c.left) \in 0..SessionLifetime
  BY ExchangeFields, LessType, AuthAssumption
<1>2. QED
  BY <1>1 DEF Exchange

-------------------------------------------------------------------------------
(* cleanupLocked *)

\* It drops the logins whose time is up, with their states, and no others.
LEMMA Cleaned ==
  ASSUME TypeOK
  PROVE  /\ CleanPending \in [Login -> Pending \cup {None}]
         /\ CleanOpen \subseteq open
         /\ \A r \in Login : CleanPending[r] \in {pending[r], None}
         /\ \A r \in Login : CleanPending[r] # None => CleanPending[r].left > 0
         /\ \A r \in CleanOpen : CleanPending[r] = pending[r]
         /\ CleanAdminPending \in [Login -> 0..AuthLifetime \cup {None}]
         /\ \A r \in Login : CleanAdminPending[r] \in {adminPending[r], None}
<1> USE DEF TypeOK, CleanPending, CleanOpen, ExpiredLogins
<1>a. \A r \in Login : pending[r] # None => pending[r].left \in Nat
  <2> SUFFICES ASSUME NEW r \in Login, pending[r] # None
               PROVE  pending[r].left \in Nat
    OBVIOUS
  <2>1. pending[r] \in Pending
    OBVIOUS
  <2>2. QED
    BY <2>1, PendingFields, AuthAssumption
<1>1. CleanPending \in [Login -> Pending \cup {None}]
  OBVIOUS
<1>2. CleanOpen \subseteq open
  OBVIOUS
<1>3. \A r \in Login : CleanPending[r] \in {pending[r], None}
  OBVIOUS
<1>4. \A r \in Login : CleanPending[r] # None => CleanPending[r].left > 0
  BY <1>a
<1>5. \A r \in CleanOpen : CleanPending[r] = pending[r]
  OBVIOUS
<1>6. /\ CleanAdminPending \in [Login -> 0..AuthLifetime \cup {None}]
      /\ \A r \in Login : CleanAdminPending[r] \in {adminPending[r], None}
  BY DEF CleanAdminPending
<1>7. QED
  BY <1>1, <1>2, <1>3, <1>4, <1>5, <1>6

\* It drops the sessions whose time is up, and no others.
LEMMA CleanedSessions ==
  ASSUME NEW ss \in [Token -> Session \cup {None}]
  PROVE  /\ Unexpired(ss) \in [Token -> Session \cup {None}]
         /\ \A t \in Token : Unexpired(ss)[t] \in {ss[t], None}
         /\ \A t \in Token : ss[t] # None /\ ss[t].left > 0 => Unexpired(ss)[t] = ss[t]
BY DEF Unexpired

\* A token that a login still carries after the cleanup has its session still.
LEMMA CleanedDone ==
  ASSUME TypeOK, DoneInv
  PROVE  \A r \in Login : CleanPending[r] # None /\ Done(r) =>
           Unexpired(sessions)[pending[r].token] = sessions[pending[r].token]
<1> SUFFICES ASSUME NEW r \in Login, CleanPending[r] # None, Done(r)
             PROVE  Unexpired(sessions)[pending[r].token] = sessions[pending[r].token]
  OBVIOUS
<1> DEFINE t == pending[r].token
<1>1. CleanPending[r] = pending[r] /\ pending[r].left > 0
  BY Cleaned
<1>2. pending[r] \in Pending
  BY DEF TypeOK, Done
<1>3. t \in Token /\ pending[r].left \in Nat
  BY <1>2, PendingFields, AuthAssumption DEF Done
<1>4. sessions[t] # None /\ pending[r].left <= sessions[t].left
  BY DEF DoneInv, HasToken
<1>5. sessions[t] \in Session
  BY <1>3, <1>4 DEF TypeOK
<1>6. sessions[t].left \in Nat
  BY <1>5, SessionFields, AuthAssumption
<1>7. sessions[t].left > 0
  BY <1>1, <1>3, <1>4, <1>6
<1>8. QED
  BY <1>3, <1>4, <1>7, CleanedSessions DEF TypeOK

-------------------------------------------------------------------------------
(* Steps *)

\* A step that only forgets keeps the invariant, when it forgets no session a
\* login still carries the token of, and delivers no token a login still carries.
LEMMA Forgetting ==
  ASSUME IInv, TypeOK', UNCHANGED <<started, signed>>,
         \A s \in Slot : callback'[s] \in {callback[s], None},
         \A r \in Login : pending'[r] \in {pending[r], None},
         \A r \in open' : r \in open /\ pending'[r] = pending[r],
         \A r \in Login : adminPending'[r] \in {adminPending[r], None},
         \A t \in Token : sessions'[t] \in {sessions[t], None},
         \A t \in Token : adminSessions'[t] \in {adminSessions[t], None},
         \A r \in Login : pending'[r] # None /\ Done(r) =>
           sessions'[pending[r].token] = sessions[pending[r].token],
         \A t \in delivered' : t \in delivered \/
           \E r \in Login : Done(r) /\ pending[r].token = t /\ pending'[r] = None
  PROVE  IInv'
<1> USE DEF IInv
<1>1. \A r \in Login : Idle(r) => Idle(r)'
  BY DEF Idle
<1>2. \A r \in Login : Done(r)' => Done(r) /\ pending'[r] = pending[r]
  BY DEF Done
<1>3. UnusedInv'
  BY <1>1 DEF UnusedInv
<1>4. OpenInv'
  BY <1>1 DEF OpenInv, TypeOK
<1>5. AdminInv'
  BY <1>1 DEF AdminInv
<1>6. CallbackInv'
  <2> SUFFICES ASSUME NEW s \in Slot, callback'[s] # None
               PROVE  Exchanging(s)'
    BY DEF CallbackInv
  <2>1. callback'[s] = callback[s] /\ Exchanging(s)
    BY DEF CallbackInv
  <2>2. callback[s].login \in Login
    BY <2>1, ExchangeFields DEF TypeOK
  <2>3. QED
    BY <1>2, <2>1, <2>2 DEF Exchanging
<1>7. DoneInv'
  <2> SUFFICES ASSUME NEW r \in Login, Done(r)'
               PROVE  HasToken(r)'
    BY DEF DoneInv
  <2>1. Done(r) /\ HasToken(r) /\ pending'[r] = pending[r] /\ pending'[r] # None
    BY <1>2 DEF DoneInv, Done
  <2>2. sessions'[pending[r].token] = sessions[pending[r].token]
    BY <2>1
  <2>3. pending[r].token \notin delivered'
    BY <2>1 DEF HasToken
  <2>4. \A q \in Login : Done(q)' /\ pending'[q].token = pending'[r].token => q = r
    BY <1>2, <2>1 DEF HasToken
  <2>5. QED
    BY <2>1, <2>2, <2>3, <2>4 DEF HasToken
<1>8. AdminOnly'
  BY DEF AdminOnly, DoneInv, HasToken
<1>9. QED
  BY <1>3, <1>4, <1>5, <1>6, <1>7, <1>8

LEMMA StatusStep ==
  ASSUME IInv, NEW r \in Login, Status(r)
  PROVE  IInv'
<1> USE DEF IInv
<1>1. TypeOK
  OBVIOUS
<1>2. \A q \in Login : pending'[q] \in {CleanPending[q], None}
  BY <1>1, Cleaned DEF Status, Answered
<1>3. CleanPending[r] # None => CleanPending[r] = pending[r] /\ pending[r] \in Pending
  BY <1>1, Cleaned DEF TypeOK
<1>4. ~Done(r) => delivered' = delivered
  BY <1>3 DEF Status, Done
<1>5. Done(r) => pending'[r] = None /\ delivered' \subseteq delivered \cup {pending[r].token}
  BY <1>1, <1>3, Cleaned DEF Status, Answered, Done
<1>6. TypeOK'
  <2>1. pending' \in [Login -> Pending \cup {None}] /\ open' \subseteq Login
    BY <1>1, Cleaned DEF Status, Answered, TypeOK
  <2>2. delivered' \subseteq Token
    BY <1>1, <1>3, <1>4, <1>5, PendingFields DEF TypeOK, Done
  <2>3. QED
    BY <1>1, <2>1, <2>2, CleanedSessions DEF Status, admin, TypeOK
<1>7. \A q \in open' : q \in open /\ pending'[q] = pending[q]
  <2> SUFFICES ASSUME NEW q \in open'
               PROVE  q \in open /\ pending'[q] = pending[q]
    OBVIOUS
  <2>1. q \in CleanOpen
    BY DEF Status
  <2>2. CleanPending[q] = pending[q] /\ pending[q].st = "waiting"
    BY <1>1, <2>1, Cleaned DEF OpenInv
  <2>3. pending'[q] = CleanPending[q]
    BY <1>1, <2>2, Cleaned DEF Status, Answered
  <2>4. QED
    BY <1>1, <2>1, <2>2, <2>3, Cleaned
<1>8. \A q \in Login : pending'[q] # None /\ Done(q) =>
        sessions'[pending[q].token] = sessions[pending[q].token]
  BY <1>1, <1>2, CleanedDone DEF Status
<1>9. QED
  BY <1>1, <1>2, <1>4, <1>5, <1>6, <1>7, <1>8, Cleaned, CleanedSessions, Forgetting
     DEF Status, admin, TypeOK

LEMMA AuthenticateTokenStep ==
  ASSUME IInv, AuthenticateToken
  PROVE  IInv'
<1> USE DEF IInv, AuthenticateToken, admin, history
<1>1. TypeOK'
  BY Cleaned, CleanedSessions DEF TypeOK
<1>2. \A r \in Login : pending'[r] # None /\ Done(r) =>
        sessions'[pending[r].token] = sessions[pending[r].token]
  BY CleanedDone
<1>3. QED
  BY <1>1, <1>2, Cleaned, CleanedSessions, Forgetting DEF TypeOK

\* AdminAuthenticate, Logout and Restart forget entries of the admin's tables, or
\* everything.
LEMMA AdminForgets ==
  ASSUME IInv, AdminAuthenticate \/ (\E t \in Token : Logout(t))
  PROVE  IInv'
<1> USE DEF IInv, AdminAuthenticate, AdminCleanup, Logout, broker, history
<1>1. TypeOK'
  BY Cleaned, CleanedSessions DEF TypeOK
<1>2. \A r \in Login : adminPending'[r] \in {adminPending[r], None}
  BY Cleaned DEF TypeOK
<1>3. \A t \in Token : adminSessions'[t] \in {adminSessions[t], None}
  BY CleanedSessions DEF TypeOK
<1>4. QED
  BY <1>1, <1>2, <1>3, Forgetting DEF TypeOK

LEMMA RestartStep ==
  ASSUME IInv, Restart
  PROVE  IInv'
BY Forgetting DEF IInv, Restart, TypeOK, history

\* A login is started once: nothing of the old tables is about it.
LEMMA StartStep ==
  ASSUME IInv, NEW r \in Login, Start(r)
  PROVE  IInv'
<1> USE DEF IInv, Start, admin
<1>1. TypeOK /\ r \notin started
  OBVIOUS
<1>2. pending'[r] \in Pending /\ pending'[r].st = "waiting"
  <2>1. AuthLifetime \in 0..AuthLifetime
    BY AuthAssumption
  <2>2. pending'[r] = [st |-> "waiting", left |-> AuthLifetime]
    BY <1>1, Cleaned
  <2>3. [st |-> "waiting", left |-> AuthLifetime] \in Pending
    BY <2>1, NewPending
  <2>4. QED
    BY <2>2, <2>3
<1>3. \A q \in Login : q # r => pending'[q] = CleanPending[q]
  BY <1>1, Cleaned
<1>4. TypeOK'
  BY <1>1, <1>2, <1>3, Cleaned, CleanedSessions, NewPending, AuthAssumption DEF TypeOK
<1>5. \A q \in Login : Done(q)' => q # r /\ Done(q) /\ pending'[q] = pending[q] /\ CleanPending[q] # None
  BY <1>1, <1>2, <1>3, Cleaned DEF Done
<1>6. UnusedInv'
  BY <1>1, <1>3, Cleaned DEF UnusedInv, Idle
<1>7. OpenInv'
  BY <1>1, <1>2, <1>3, Cleaned, NoneAssumption DEF UnusedInv, OpenInv, Idle
<1>8. AdminInv'
  BY <1>1, <1>3, Cleaned DEF UnusedInv, AdminInv, Idle
<1>9. CallbackInv'
  <2> SUFFICES ASSUME NEW s \in Slot, callback[s] # None
               PROVE  Exchanging(s)'
    BY DEF CallbackInv
  <2>1. callback[s].login \in Login /\ callback[s].login # r
    BY <1>1, ExchangeFields DEF TypeOK, UnusedInv, Idle
  <2>2. QED
    BY <1>1, <1>3, <1>5, <2>1, Cleaned DEF CallbackInv, Exchanging
<1>10. DoneInv'
  <2> SUFFICES ASSUME NEW q \in Login, Done(q)'
               PROVE  HasToken(q)'
    BY DEF DoneInv
  <2>1. HasToken(q) /\ pending'[q] = pending[q]
    BY <1>5 DEF DoneInv
  <2>2. sessions'[pending[q].token] = sessions[pending[q].token]
    BY <1>1, <1>5, CleanedDone
  <2>3. QED
    BY <1>5, <2>1, <2>2 DEF HasToken
<1>11. AdminOnly'
  BY <1>1, CleanedSessions DEF AdminOnly, TypeOK
<1>12. QED
  BY <1>4, <1>6, <1>7, <1>8, <1>9, <1>10, <1>11

LEMMA AdminStartStep ==
  ASSUME IInv, NEW r \in Login, AdminStart(r)
  PROVE  IInv'
<1> USE DEF IInv, AdminStart, broker
<1>1. TypeOK /\ r \notin started
  OBVIOUS
<1>2. \A q \in Login : q # r => adminPending'[q] \in {adminPending[q], None}
  BY <1>1, Cleaned
<1>3. TypeOK'
  BY <1>1, Cleaned, CleanedSessions, AuthAssumption DEF TypeOK
<1>4. \A q \in Login : Done(q)' <=> Done(q)
  BY DEF Done
<1>5. UnusedInv'
  BY <1>1, <1>2, Cleaned DEF UnusedInv, Idle
<1>6. OpenInv'
  BY <1>1, <1>2, Cleaned DEF UnusedInv, OpenInv, Idle, TypeOK
<1>7. AdminInv'
  BY <1>1, <1>2, Cleaned DEF UnusedInv, AdminInv, Idle
<1>8. CallbackInv'
  <2> SUFFICES ASSUME NEW s \in Slot, callback[s] # None
               PROVE  Exchanging(s)'
    BY DEF CallbackInv
  <2>1. callback[s].login \in Login /\ callback[s].login # r
    BY <1>1, ExchangeFields DEF TypeOK, UnusedInv, Idle
  <2>2. QED
    BY <1>1, <1>2, <1>4, <2>1, Cleaned DEF CallbackInv, Exchanging
<1>9. DoneInv'
  BY <1>4 DEF DoneInv, HasToken
<1>10. AdminOnly'
  BY <1>1, CleanedSessions DEF AdminOnly, TypeOK
<1>11. QED
  BY <1>3, <1>5, <1>6, <1>7, <1>8, <1>9, <1>10

LEMMA DevLoginStep ==
  ASSUME IInv, DevLogin
  PROVE  IInv'
<1> USE DEF IInv, DevLogin, admin, history
<1> PICK t \in FreshToken : sessions' = [sessions EXCEPT ![t] = SessionFor(DevUser)]
  OBVIOUS
<1>1. SessionFor(DevUser) \in Session
  BY AuthAssumption DEF SessionFor, Session, Owners
<1>2. t \in Token /\ sessions[t] = None /\ adminSessions[t] = None /\ t \notin delivered
  BY DEF FreshToken
<1>3. TypeOK'
  BY <1>1, <1>2 DEF TypeOK
<1>4. \A r \in Login : Done(r) => pending[r].token # t
  BY <1>2 DEF DoneInv, HasToken
<1>5. UnusedInv' /\ OpenInv' /\ AdminInv' /\ CallbackInv'
  BY DEF UnusedInv, OpenInv, AdminInv, CallbackInv, Exchanging, Idle, Done
<1>6. DoneInv'
  BY <1>2, <1>4 DEF DoneInv, HasToken, Done, TypeOK
<1>7. AdminOnly'
  BY <1>2 DEF AdminOnly, TypeOK
<1>8. QED
  BY <1>3, <1>5, <1>6, <1>7

\* Failing a login loses its token, if it had one, and no other login's.
LEMMA FailedType ==
  ASSUME TypeOK, NEW r \in Login
  PROVE  /\ Failed(r) \in [Login -> Pending \cup {None}]
         /\ \A q \in Login : q # r => Failed(r)[q] = pending[q]
         /\ Failed(r)[r] # None => Failed(r)[r].st = "failed"
         /\ Failed(r)[r] = None <=> pending[r] = None
<1>1. CASE pending[r] = None
  BY <1>1 DEF Failed, TypeOK
<1>2. CASE pending[r] # None
  <2>1. [st |-> "failed", left |-> pending[r].left] \in Pending
    BY <1>2, PendingFields, NewPending DEF TypeOK
  <2>2. [st |-> "failed", left |-> pending[r].left] # None
    BY <2>1, PendingFields
  <2>3. QED
    BY <1>2, <2>1, <2>2 DEF Failed, TypeOK
<1>3. QED
  BY <1>1, <1>2

\* The client's callback uses the state up before it asks GILid.
LEMMA CallbackBeginStep ==
  ASSUME IInv, NEW s \in Slot, NEW r \in started, NEW u \in User, CallbackBegin(s, r, u)
  PROVE  IInv'
<1> USE DEF IInv
<1> DEFINE c == [flow |-> "client", login |-> r, user |-> u, left |-> SessionLifetime]
<1>1. TypeOK /\ r \in Login
  BY DEF TypeOK
<1>2. /\ \A q \in Login : adminPending'[q] \in {adminPending[q], None}
      /\ adminPending' \in [Login -> 0..AuthLifetime \cup {None}]
      /\ \A t \in Token : adminSessions'[t] \in {adminSessions[t], None}
      /\ adminSessions' \in [Token -> Session \cup {None}]
      /\ adminPending'[r] = None
  BY <1>1, Cleaned, CleanedSessions DEF CallbackBegin, AdminCleanup, TypeOK
<1>3. UNCHANGED <<sessions, started, signed, delivered>>
  BY DEF CallbackBegin, history
<1>4. CASE UNCHANGED callback /\ open' \subseteq open /\ (pending' = pending \/ (pending' = Failed(r) /\ open' = open \ {r}))
  <2>1. TypeOK'
    BY <1>1, <1>2, <1>3, <1>4, FailedType DEF TypeOK
  <2>2. \A q \in Login : Done(q)' => Done(q) /\ pending'[q] = pending[q]
    BY <1>1, <1>4, FailedType DEF Done
  <2>3. \A q \in Login : pending[q] = None <=> pending'[q] = None
    BY <1>1, <1>4, FailedType
  <2>4. UnusedInv'
    BY <1>2, <1>3, <1>4, <2>3 DEF UnusedInv, Idle
  <2>5. OpenInv'
    BY <1>1, <1>2, <1>3, <1>4, FailedType DEF OpenInv, Idle, TypeOK
  <2>6. AdminInv'
    BY <1>2, <1>3, <1>4, <2>3 DEF AdminInv, Idle
  <2>7. CallbackInv'
    <3> SUFFICES ASSUME NEW k \in Slot, callback[k] # None
                 PROVE  Exchanging(k)'
      BY <1>4 DEF CallbackInv
    <3>1. callback[k].login \in Login /\ Exchanging(k)
      BY <1>1, ExchangeFields DEF TypeOK, CallbackInv
    <3>2. QED
      BY <1>2, <1>3, <1>4, <2>2, <2>3, <3>1 DEF Exchanging
  <2>8. DoneInv'
    <3> SUFFICES ASSUME NEW q \in Login, Done(q)'
                 PROVE  HasToken(q)'
      BY DEF DoneInv
    <3>1. HasToken(q) /\ pending'[q] = pending[q]
      BY <2>2 DEF DoneInv
    <3>2. QED
      BY <1>3, <2>2, <3>1 DEF HasToken
  <2>9. AdminOnly'
    BY <1>2, <1>3 DEF AdminOnly
  <2>10. QED
    BY <2>1, <2>4, <2>5, <2>6, <2>7, <2>8, <2>9
<1>5. CASE /\ r \in open /\ callback[s] = None
           /\ open' = open \ {r} /\ UNCHANGED pending
           /\ callback' = [callback EXCEPT ![s] = c]
  <2>1. c \in Exchange /\ c # None
    BY <1>1, AuthAssumption, NoneAssumption DEF Exchange
  <2>2. TypeOK'
    BY <1>1, <1>2, <1>3, <1>5, <2>1 DEF TypeOK
  <2>3. \A q \in Login : q # r => (Idle(q)' <=> Idle(q))
    BY <1>1, <1>5 DEF Idle, TypeOK
  <2>4. pending[r] # None /\ pending[r].st = "waiting" /\ Idle(r) /\ signed[r] = {}
    BY <1>5 DEF OpenInv
  <2>5. UnusedInv'
    BY <1>1, <1>2, <1>3, <1>5, <2>3 DEF UnusedInv
  <2>6. OpenInv'
    BY <1>1, <1>2, <1>3, <1>5, <2>3 DEF OpenInv, TypeOK
  <2>7. AdminInv'
    BY <1>1, <1>2, <1>3, <1>5, <2>3 DEF AdminInv
  <2>8. CallbackInv'
    <3> SUFFICES ASSUME NEW k \in Slot, callback'[k] # None
                 PROVE  Exchanging(k)'
      BY DEF CallbackInv
    <3>1. CASE k = s
      BY <1>1, <1>2, <1>3, <1>5, <2>1, <2>4, <3>1 DEF Exchanging, Idle, Done, TypeOK
    <3>2. CASE k # s
      <4>1. callback'[k] = callback[k] /\ Exchanging(k)
        BY <1>1, <1>5, <3>2 DEF CallbackInv, TypeOK
      <4>2. callback[k].login \in Login /\ callback[k].login # r
        BY <1>1, <2>4, <4>1, ExchangeFields DEF TypeOK, Idle
      <4>3. QED
        BY <1>1, <1>2, <1>3, <1>5, <4>1, <4>2 DEF Exchanging, Done, TypeOK
    <3>3. QED
      BY <3>1, <3>2
  <2>9. DoneInv'
    BY <1>3, <1>5 DEF DoneInv, HasToken, Done
  <2>10. AdminOnly'
    BY <1>2, <1>3 DEF AdminOnly
  <2>11. QED
    BY <2>2, <2>5, <2>6, <2>7, <2>8, <2>9, <2>10
<1>6. QED
  BY <1>1, <1>4, <1>5 DEF CallbackBegin, Consumed

\* The callback that ends is the only one its login had.
LEMMA CallbackEnds ==
  ASSUME TypeOK, CallbackInv, NEW s \in Slot, callback[s] # None,
         callback' = [callback EXCEPT ![s] = None]
  PROVE  /\ callback[s].login \in Login /\ callback[s].user \in User
         /\ callback[s].left \in 0..SessionLifetime /\ Exchanging(s)
         /\ \A k \in Slot : callback'[k] # None =>
              /\ k # s /\ callback'[k] = callback[k] /\ Exchanging(k)
              /\ callback[k].login \in Login /\ callback[k].login # callback[s].login
         /\ \A q \in Login : Idle(q) => Idle(q)'
         /\ callback' \in [Slot -> Exchange \cup {None}]
<1>1. /\ callback[s].login \in Login /\ callback[s].user \in User
      /\ callback[s].left \in 0..SessionLifetime
  BY ExchangeFields DEF TypeOK
<1>2. \A k \in Slot : callback'[k] # None => k # s /\ callback'[k] = callback[k]
  BY DEF TypeOK
<1>3. \A k \in Slot : callback[k] # None /\ k # s =>
        callback[k].login \in Login /\ callback[k].login # callback[s].login
  BY ExchangeFields DEF TypeOK, CallbackInv, Exchanging
<1>4. QED
  BY <1>1, <1>2, <1>3 DEF CallbackInv, Idle, TypeOK

LEMMA CallbackFailsStep ==
  ASSUME IInv, NEW s \in Slot, CallbackFails(s)
  PROVE  IInv'
<1> USE DEF IInv
<1>1. TypeOK /\ callback[s] # None /\ callback' = [callback EXCEPT ![s] = None]
  BY DEF CallbackFails
<1>2. UNCHANGED <<open, sessions, adminPending, adminSessions, started, signed, delivered>>
  BY DEF CallbackFails, admin, history
<1>3. /\ callback[s].login \in Login /\ Exchanging(s)
      /\ \A k \in Slot : callback'[k] # None =>
           callback'[k] = callback[k] /\ Exchanging(k) /\ callback[k].login \in Login
      /\ \A q \in Login : Idle(q) => Idle(q)'
      /\ callback' \in [Slot -> Exchange \cup {None}]
  BY <1>1, CallbackEnds
<1>4. /\ pending' \in [Login -> Pending \cup {None}]
      /\ \A q \in Login : q # callback[s].login => pending'[q] = pending[q]
      /\ \A q \in Login : pending[q] = None <=> pending'[q] = None
      /\ \A q \in Login : Done(q)' => Done(q) /\ pending'[q] = pending[q]
  <2>1. CASE callback[s].flow = "client"
    BY <1>1, <1>3, <2>1, FailedType DEF CallbackFails, Done
  <2>2. CASE callback[s].flow # "client"
    BY <1>1, <2>2 DEF CallbackFails, Done, TypeOK
  <2>3. QED
    BY <2>1, <2>2
<1>5. TypeOK'
  BY <1>1, <1>2, <1>3, <1>4 DEF TypeOK
<1>6. UnusedInv'
  BY <1>2, <1>3, <1>4 DEF UnusedInv
<1>7. OpenInv'
  BY <1>1, <1>2, <1>3, <1>4 DEF OpenInv, Exchanging, TypeOK
<1>8. AdminInv'
  BY <1>2, <1>3, <1>4 DEF AdminInv
<1>9. CallbackInv'
  <2> SUFFICES ASSUME NEW k \in Slot, callback'[k] # None
               PROVE  Exchanging(k)'
    BY DEF CallbackInv
  <2>1. QED
    BY <1>2, <1>3, <1>4 DEF Exchanging
<1>10. DoneInv'
  <2> SUFFICES ASSUME NEW q \in Login, Done(q)'
               PROVE  HasToken(q)'
    BY DEF DoneInv
  <2>1. HasToken(q) /\ pending'[q] = pending[q]
    BY <1>4 DEF DoneInv
  <2>2. QED
    BY <1>2, <1>4, <2>1 DEF HasToken
<1>11. AdminOnly'
  BY <1>2 DEF AdminOnly
<1>12. QED
  BY <1>5, <1>6, <1>7, <1>8, <1>9, <1>10, <1>11

\* A login gets its account and its token in one step, and its token is new.
LEMMA CallbackDoneStep ==
  ASSUME IInv, NEW s \in Slot, CallbackDone(s)
  PROVE  IInv'
<1> USE DEF IInv
<1>1. TypeOK /\ callback[s] # None /\ callback' = [callback EXCEPT ![s] = None]
  BY DEF CallbackDone
<1> PICK r \in Login, u \in User : callback[s].login = r /\ callback[s].user = u
  BY <1>1, CallbackEnds
<1>2. UNCHANGED <<open, adminPending, adminSessions, started, delivered>>
  BY DEF CallbackDone, admin
<1>3. /\ Exchanging(s)
      /\ \A k \in Slot : callback'[k] # None =>
           /\ callback'[k] = callback[k] /\ Exchanging(k)
           /\ callback[k].login \in Login /\ callback[k].login # r
      /\ \A q \in Login : Idle(q) => Idle(q)'
      /\ callback' \in [Slot -> Exchange \cup {None}]
  BY <1>1, CallbackEnds
<1>4. /\ r \in started /\ r \notin open /\ adminPending[r] = None
      /\ signed[r] = {} /\ ~Done(r)
  BY <1>3 DEF Exchanging
<1>5. /\ signed' \in [Login -> SUBSET User]
      /\ \A q \in Login : q # r => signed'[q] = signed[q]
      /\ signed'[r] = {u}
  BY <1>1, <1>3, <1>4 DEF CallbackDone, TypeOK
<1>6. /\ pending' \in [Login -> Pending \cup {None}]
      /\ sessions' \in [Token -> Session \cup {None}]
      /\ \A q \in Login : q # r => pending'[q] = pending[q]
      /\ DoneInv' /\ AdminOnly'
  <2>1. CASE pending[r] = None /\ UNCHANGED <<pending, sessions>>
    <3>1. \A q \in Login : Done(q)' <=> Done(q)
      BY <2>1 DEF Done
    <3>2. DoneInv'
      BY <1>2, <1>4, <1>5, <2>1, <3>1 DEF DoneInv, HasToken
    <3>3. QED
      BY <1>1, <1>2, <2>1, <3>2 DEF TypeOK, AdminOnly
  <2>2. ASSUME NEW t \in FreshToken, pending[r] # None,
               pending' = [pending EXCEPT ![r] =
                 [st |-> "done", left |-> @.left, token |-> t, owner |-> u]],
               sessions' = [sessions EXCEPT ![t] = SessionFor(u)]
        PROVE  /\ pending' \in [Login -> Pending \cup {None}]
               /\ sessions' \in [Token -> Session \cup {None}]
               /\ \A q \in Login : q # r => pending'[q] = pending[q]
               /\ DoneInv' /\ AdminOnly'
    <3> DEFINE p == [st |-> "done", left |-> pending[r].left, token |-> t, owner |-> u]
    <3>1. t \in Token /\ sessions[t] = None /\ adminSessions[t] = None /\ t \notin delivered
      BY DEF FreshToken
    <3>2. pending[r].left \in 0..AuthLifetime
      BY <1>1, <1>3, <2>2, PendingFields DEF TypeOK
    <3>3. p \in Pending
      BY <1>3, <3>1, <3>2, NewPending
    <3>4. SessionFor(u) \in Session
      BY <1>3, AuthAssumption DEF SessionFor, Session, Owners
    <3>5. /\ pending' \in [Login -> Pending \cup {None}]
          /\ pending'[r] = p
          /\ \A q \in Login : q # r => pending'[q] = pending[q]
      BY <1>1, <1>3, <2>2, <3>3 DEF TypeOK
    <3>6. /\ sessions' \in [Token -> Session \cup {None}]
          /\ sessions'[t] = SessionFor(u)
          /\ \A k \in Token : k # t => sessions'[k] = sessions[k]
      BY <1>1, <2>2, <3>1, <3>4 DEF TypeOK
    <3>7. \A q \in Login : Done(q)' /\ q # r => Done(q) /\ HasToken(q) /\ pending[q].token # t
      BY <3>1, <3>5 DEF Done, DoneInv, HasToken
    <3>8. HasToken(r)'
      <4>1. SessionFor(u) # None /\ p # None
        BY <3>3, <3>4, PendingFields, SessionFields
      <4>2. pending'[r] = p /\ p.token = t /\ p.owner = u
        BY <3>5
      <4>3. p.left <= SessionFor(u).left /\ SessionFor(u).owner = u
        BY <3>2, AuthAssumption DEF SessionFor
      <4>4. \A q \in Login : Done(q)' /\ pending'[q].token = t => q = r
        BY <3>5, <3>7
      <4>5. QED
        BY <1>2, <1>5, <3>1, <3>6, <4>1, <4>2, <4>3, <4>4 DEF HasToken
    <3>9. DoneInv'
      <4> SUFFICES ASSUME NEW q \in Login, Done(q)', q # r
                   PROVE  HasToken(q)'
        BY <3>8 DEF DoneInv
      <4>1. pending'[q] = pending[q] /\ pending[q].token \in Token
        BY <1>1, <3>5, <3>7, PendingFields DEF Done, TypeOK
      <4>2. sessions'[pending[q].token] = sessions[pending[q].token]
        BY <3>6, <3>7, <4>1
      <4>3. \A k \in Login : Done(k)' /\ pending'[k].token = pending[q].token => k = q
        BY <3>5, <3>7, <4>1 DEF HasToken
      <4>4. QED
        BY <1>2, <1>5, <3>7, <4>1, <4>2, <4>3 DEF HasToken
    <3>10. AdminOnly'
      BY <1>2, <3>1, <3>6 DEF AdminOnly
    <3>11. QED
      BY <3>5, <3>6, <3>9, <3>10
  <2>3. QED
    BY <2>1, <2>2 DEF CallbackDone
<1>7. TypeOK'
  BY <1>1, <1>2, <1>3, <1>5, <1>6 DEF TypeOK
<1>8. UnusedInv'
  BY <1>2, <1>3, <1>4, <1>5, <1>6 DEF UnusedInv
<1>9. OpenInv'
  BY <1>1, <1>2, <1>3, <1>4, <1>5, <1>6 DEF OpenInv, TypeOK
<1>10. AdminInv'
  BY <1>2, <1>3, <1>4, <1>5, <1>6 DEF AdminInv
<1>11. CallbackInv'
  <2> SUFFICES ASSUME NEW k \in Slot, callback'[k] # None
               PROVE  Exchanging(k)'
    BY DEF CallbackInv
  <2> PICK q \in Login : q = callback[k].login /\ q # r
    BY <1>3
  <2>1. callback'[k] = callback[k] /\ Exchanging(k)
    BY <1>3
  <2>2. pending'[q] = pending[q] /\ signed'[q] = signed[q]
    BY <1>5, <1>6
  <2>3. \A j \in Slot : callback'[j] # None /\ callback'[j].login = q => j = k
    BY <1>3, <2>1 DEF Exchanging
  <2>4. QED
    BY <1>2, <2>1, <2>2, <2>3 DEF Exchanging, Done
<1>12. QED
  BY <1>6, <1>7, <1>8, <1>9, <1>10, <1>11

LEMMA AdminCallbackBeginStep ==
  ASSUME IInv, NEW s \in Slot, NEW r \in started, NEW u \in User, AdminCallbackBegin(s, r, u)
  PROVE  IInv'
<1> USE DEF IInv
<1> DEFINE c == [flow |-> "admin", login |-> r, user |-> u, left |-> SessionLifetime]
<1>1. TypeOK /\ r \in Login /\ callback[s] = None
  BY DEF TypeOK, AdminCallbackBegin
<1>2. /\ \A q \in Login : adminPending'[q] \in {adminPending[q], None}
      /\ adminPending' \in [Login -> 0..AuthLifetime \cup {None}]
      /\ \A t \in Token : adminSessions'[t] \in {adminSessions[t], None}
      /\ adminSessions' \in [Token -> Session \cup {None}]
      /\ adminPending[r] # None /\ adminPending'[r] = None
  BY <1>1, Cleaned, CleanedSessions DEF AdminCallbackBegin, TypeOK
<1>3. UNCHANGED <<pending, open, sessions, started, signed, delivered>>
  BY DEF AdminCallbackBegin, broker, history
<1>4. pending[r] = None /\ r \notin open /\ Idle(r) /\ signed[r] = {}
  BY <1>1, <1>2 DEF AdminInv
<1>5. c \in Exchange /\ c # None
  BY <1>1, AuthAssumption, NoneAssumption DEF Exchange
<1>6. /\ callback' \in [Slot -> Exchange \cup {None}]
      /\ \A k \in Slot : callback'[k] = callback[k] \/ (k = s /\ callback'[k] = c)
  BY <1>1, <1>5 DEF AdminCallbackBegin, TypeOK
<1>7. TypeOK'
  BY <1>1, <1>2, <1>3, <1>6 DEF TypeOK
<1>8. \A q \in Login : q # r => (Idle(q) => Idle(q)')
  BY <1>6 DEF Idle
<1>9. UnusedInv'
  BY <1>2, <1>3, <1>8 DEF UnusedInv
<1>10. OpenInv'
  BY <1>1, <1>2, <1>3, <1>4, <1>8 DEF OpenInv, TypeOK
<1>11. AdminInv'
  BY <1>2, <1>3, <1>8 DEF AdminInv
<1>12. CallbackInv'
  <2> SUFFICES ASSUME NEW k \in Slot, callback'[k] # None
               PROVE  Exchanging(k)'
    BY DEF CallbackInv
  <2>1. CASE callback'[k] = callback[k]
    <3>1. Exchanging(k)
      BY <2>1 DEF CallbackInv
    <3>2. PICK q \in Login : q = callback[k].login /\ q # r
      BY <1>1, <1>4, <2>1, ExchangeFields DEF TypeOK, Idle
    <3>3. \A j \in Slot : callback'[j] # None /\ callback'[j].login = q => j = k
      BY <1>6, <3>1, <3>2 DEF Exchanging
    <3>4. QED
      BY <1>2, <1>3, <2>1, <3>1, <3>2, <3>3 DEF Exchanging, Done
  <2>2. CASE k = s /\ callback'[k] = c
    BY <1>2, <1>3, <1>4, <1>6, <2>2 DEF Exchanging, Idle, Done
  <2>3. QED
    BY <1>6, <2>1, <2>2
<1>13. DoneInv'
  BY <1>3 DEF DoneInv, HasToken, Done
<1>14. AdminOnly'
  BY <1>2, <1>3 DEF AdminOnly
<1>15. QED
  BY <1>7, <1>9, <1>10, <1>11, <1>12, <1>13, <1>14

\* Only an administrator is given a cookie, and the cookie is no client's token.
LEMMA AdminCallbackDoneStep ==
  ASSUME IInv, NEW s \in Slot, AdminCallbackDone(s)
  PROVE  IInv'
<1> USE DEF IInv
<1>1. /\ TypeOK /\ callback[s] # None /\ callback[s].flow = "admin"
      /\ callback' = [callback EXCEPT ![s] = None]
  BY DEF AdminCallbackDone
<1> PICK r \in Login, u \in User : callback[s].login = r /\ callback[s].user = u
  BY <1>1, CallbackEnds
<1>2. UNCHANGED <<pending, open, sessions, adminPending, started, delivered>>
  BY DEF AdminCallbackDone, broker
<1>3. /\ Exchanging(s) /\ callback[s].left \in 0..SessionLifetime
      /\ \A k \in Slot : callback'[k] # None =>
           /\ callback'[k] = callback[k] /\ Exchanging(k)
           /\ callback[k].login \in Login /\ callback[k].login # r
      /\ \A q \in Login : Idle(q) => Idle(q)'
      /\ callback' \in [Slot -> Exchange \cup {None}]
  BY <1>1, CallbackEnds
<1>4. /\ r \in started /\ r \notin open /\ adminPending[r] = None /\ pending[r] = None
  BY <1>1, <1>3 DEF Exchanging
<1>5. /\ signed' \in [Login -> SUBSET User]
      /\ \A q \in Login : q # r => signed'[q] = signed[q]
  BY <1>1 DEF AdminCallbackDone, TypeOK
<1>6. adminSessions' \in [Token -> Session \cup {None}] /\ AdminOnly'
  <2>1. CASE UNCHANGED adminSessions
    BY <1>1, <1>2, <2>1 DEF TypeOK, AdminOnly
  <2>2. ASSUME NEW t \in FreshToken, u \in Admins,
               adminSessions' = [adminSessions EXCEPT ![t] = [owner |-> u, left |-> callback[s].left]]
        PROVE  adminSessions' \in [Token -> Session \cup {None}] /\ AdminOnly'
    <3>1. [owner |-> u, left |-> callback[s].left] \in Session
      BY <1>3 DEF Session, Owners
    <3>2. t \in Token /\ sessions[t] = None /\ t \notin delivered
      BY DEF FreshToken
    <3>3. QED
      BY <1>1, <1>2, <2>2, <3>1, <3>2 DEF TypeOK, AdminOnly
  <2>3. QED
    BY <2>1, <2>2 DEF AdminCallbackDone, MayAdminister
<1>7. TypeOK'
  BY <1>1, <1>2, <1>3, <1>5, <1>6 DEF TypeOK
<1>8. UnusedInv'
  BY <1>2, <1>3, <1>4, <1>5 DEF UnusedInv
<1>9. OpenInv'
  BY <1>1, <1>2, <1>3, <1>4, <1>5 DEF OpenInv, TypeOK
<1>10. AdminInv'
  BY <1>2, <1>3, <1>4, <1>5 DEF AdminInv
<1>11. CallbackInv'
  <2> SUFFICES ASSUME NEW k \in Slot, callback'[k] # None
               PROVE  Exchanging(k)'
    BY DEF CallbackInv
  <2> PICK q \in Login : q = callback[k].login /\ q # r
    BY <1>3
  <2>1. callback'[k] = callback[k] /\ Exchanging(k) /\ signed'[q] = signed[q]
    BY <1>3, <1>5
  <2>2. \A j \in Slot : callback'[j] # None /\ callback'[j].login = q => j = k
    BY <1>3, <2>1 DEF Exchanging
  <2>3. QED
    BY <1>2, <2>1, <2>2 DEF Exchanging, Done
<1>12. DoneInv'
  BY <1>2, <1>4, <1>5 DEF DoneInv, HasToken, Done
<1>13. QED
  BY <1>6, <1>7, <1>8, <1>9, <1>10, <1>11, <1>12

LEMMA TickStep ==
  ASSUME IInv, Tick
  PROVE  IInv'
<1> USE DEF IInv
<1>1. TypeOK /\ UNCHANGED <<open, started, signed, delivered>>
  BY DEF Tick, history
<1>2. /\ pending' \in [Login -> Pending \cup {None}]
      /\ \A r \in Login : pending[r] = None <=> pending'[r] = None
      /\ \A r \in Login : pending[r] # None =>
           /\ pending'[r].left = Less(pending[r].left) /\ pending'[r].st = pending[r].st
           /\ pending[r].st = "done" => /\ pending'[r].token = pending[r].token
                                        /\ pending'[r].owner = pending[r].owner
  <2> SUFFICES ASSUME NEW r \in Login
               PROVE  /\ pending[r] = None => pending'[r] = None
                      /\ pending[r] # None =>
                           /\ pending'[r] \in Pending /\ pending'[r] # None
                           /\ pending'[r].left = Less(pending[r].left) /\ pending'[r].st = pending[r].st
                           /\ pending[r].st = "done" => /\ pending'[r].token = pending[r].token
                                                        /\ pending'[r].owner = pending[r].owner
    BY <1>1 DEF Tick, Older, TypeOK
  <2>1. CASE pending[r] = None
    BY <1>1, <2>1 DEF Tick, Older, TypeOK
  <2>2. CASE pending[r] # None
    <3>1. pending[r] \in Pending
      BY <1>1, <2>2 DEF TypeOK
    <3>2. pending'[r] = [pending[r] EXCEPT !.left = Less(@)]
      BY <1>1, <2>2 DEF Tick, Older, TypeOK
    <3>3. pending'[r] \in Pending
      BY <3>1, <3>2, AgePending
    <3>4. QED
      BY <2>2, <3>1, <3>2, <3>3, AgePending, PendingFields
  <2>3. QED
    BY <2>1, <2>2
<1>3. /\ sessions' \in [Token -> Session \cup {None}]
      /\ adminSessions' \in [Token -> Session \cup {None}]
      /\ \A t \in Token : sessions[t] = None <=> sessions'[t] = None
      /\ \A t \in Token : sessions[t] # None =>
           sessions'[t].left = Less(sessions[t].left) /\ sessions'[t].owner = sessions[t].owner
      /\ \A t \in Token : adminSessions[t] = None <=> adminSessions'[t] = None
      /\ \A t \in Token : adminSessions[t] # None => adminSessions'[t].owner = adminSessions[t].owner
  <2>1. ASSUME NEW ss \in [Token -> Session \cup {None}]
        PROVE  /\ Older(ss) \in [Token -> Session \cup {None}]
               /\ \A t \in Token : ss[t] = None <=> Older(ss)[t] = None
               /\ \A t \in Token : ss[t] # None =>
                    Older(ss)[t].left = Less(ss[t].left) /\ Older(ss)[t].owner = ss[t].owner
    <3>1. ASSUME NEW t \in Token, ss[t] # None
          PROVE  LET q == [ss[t] EXCEPT !.left = Less(@)] IN
                 /\ Older(ss)[t] = q /\ q \in Session /\ q # None
                 /\ q.left = Less(ss[t].left) /\ q.owner = ss[t].owner
      <4>1. ss[t] \in Session
        BY <3>1
      <4>2. Older(ss)[t] = [ss[t] EXCEPT !.left = Less(@)]
        BY <3>1 DEF Older
      <4>3. QED
        BY <4>1, <4>2, AgeSession, SessionFields
    <3>2. \A t \in Token : ss[t] = None => Older(ss)[t] = None
      BY DEF Older
    <3>3. QED
      BY <3>1, <3>2 DEF Older
  <2>2. QED
    BY <1>1, <2>1 DEF Tick, TypeOK
<1>4. /\ callback' \in [Slot -> Exchange \cup {None}]
      /\ \A s \in Slot : callback[s] = None <=> callback'[s] = None
      /\ \A s \in Slot : callback[s] # None =>
           callback'[s].login = callback[s].login /\ callback'[s].flow = callback[s].flow
  <2>1. ASSUME NEW s \in Slot, callback[s] # None
        PROVE  /\ callback'[s] \in Exchange /\ callback'[s] # None
               /\ callback'[s].login = callback[s].login /\ callback'[s].flow = callback[s].flow
    <3>1. callback[s] \in Exchange
      BY <1>1, <2>1 DEF TypeOK
    <3>2. callback'[s] = [callback[s] EXCEPT !.left = Less(@)]
      BY <1>1, <2>1 DEF Tick, Older, TypeOK
    <3>3. QED
      BY <3>1, <3>2, AgeExchange, ExchangeFields
  <2>2. \A s \in Slot : callback[s] = None => callback'[s] = None
    BY <1>1 DEF Tick, Older, TypeOK
  <2>3. DOMAIN callback' = Slot /\ callback' = [s \in Slot |-> callback'[s]]
    BY <1>1 DEF Tick, Older, TypeOK
  <2>4. QED
    BY <2>1, <2>2, <2>3
<1>5. /\ adminPending' \in [Login -> 0..AuthLifetime \cup {None}]
      /\ \A r \in Login : adminPending'[r] # None => adminPending[r] # None
  BY <1>1, LessType, AuthAssumption DEF Tick, TypeOK
<1>6. TypeOK'
  BY <1>1, <1>2, <1>3, <1>4, <1>5 DEF TypeOK
<1>7. /\ \A r \in Login : Idle(r) => Idle(r)'
      /\ \A r \in Login : Done(r)' <=> Done(r)
  BY <1>2, <1>4 DEF Idle, Done
<1>8. UnusedInv' /\ AdminInv'
  BY <1>1, <1>2, <1>5, <1>7 DEF UnusedInv, AdminInv
<1>9. OpenInv'
  BY <1>1, <1>2, <1>5, <1>7 DEF OpenInv, TypeOK
<1>10. CallbackInv'
  <2> SUFFICES ASSUME NEW s \in Slot, callback'[s] # None
               PROVE  Exchanging(s)'
    BY DEF CallbackInv
  <2> PICK r \in Login : r = callback[s].login
    BY <1>1, <1>4, ExchangeFields DEF TypeOK
  <2>1. Exchanging(s) /\ callback'[s].login = r /\ callback'[s].flow = callback[s].flow
    BY <1>4 DEF CallbackInv
  <2>2. \A t \in Slot : callback'[t] # None /\ callback'[t].login = r => t = s
    BY <1>4, <2>1 DEF Exchanging
  <2>3. QED
    BY <1>1, <1>2, <1>5, <1>7, <2>1, <2>2 DEF Exchanging
<1>11. DoneInv'
  <2> SUFFICES ASSUME NEW r \in Login, Done(r)'
               PROVE  HasToken(r)'
    BY DEF DoneInv
  <2>1. Done(r) /\ HasToken(r) /\ pending[r] \in Pending /\ pending[r].st = "done"
    BY <1>1, <1>7 DEF DoneInv, Done, TypeOK
  <2>2. PICK t \in Token : t = pending[r].token /\ pending'[r].token = t
    BY <1>2, <2>1, PendingFields DEF Done
  <2>3. sessions[t] # None /\ sessions[t] \in Session /\ pending[r].left <= sessions[t].left
    BY <1>1, <2>1, <2>2 DEF HasToken, TypeOK
  <2>4. Less(pending[r].left) <= Less(sessions[t].left)
    BY <2>1, <2>3, PendingFields, SessionFields, AuthAssumption DEF Less
  <2>5. \A q \in Login : Done(q)' /\ pending'[q].token = t => q = r
    BY <1>2, <1>7, <2>1, <2>2 DEF HasToken, Done
  <2>6. QED
    BY <1>1, <1>2, <1>3, <2>1, <2>2, <2>3, <2>4, <2>5 DEF HasToken, Done
<1>12. AdminOnly'
  BY <1>1, <1>3 DEF AdminOnly
<1>13. QED
  BY <1>6, <1>8, <1>9, <1>10, <1>11, <1>12

-------------------------------------------------------------------------------
(* The invariant *)

LEMMA InitIInv == Init => IInv
BY DEF Init, IInv, TypeOK, UnusedInv, OpenInv, AdminInv, CallbackInv, DoneInv, Done, Idle, AdminOnly

LEMMA NextIInv == IInv /\ [Next]_vars => IInv'
<1> SUFFICES ASSUME IInv, [Next]_vars
             PROVE  IInv'
  OBVIOUS
<1>1. ASSUME NEW r \in Login, Start(r) \/ AdminStart(r)
      PROVE  IInv'
  BY <1>1, StartStep, AdminStartStep
<1>2. ASSUME NEW r \in started, Status(r)
      PROVE  IInv'
  BY <1>2, StatusStep DEF IInv, TypeOK
<1>3. ASSUME NEW s \in Slot, NEW r \in started, NEW u \in User,
             CallbackBegin(s, r, u) \/ AdminCallbackBegin(s, r, u)
      PROVE  IInv'
  BY <1>3, CallbackBeginStep, AdminCallbackBeginStep
<1>4. ASSUME NEW s \in Slot, CallbackDone(s) \/ CallbackFails(s) \/ AdminCallbackDone(s)
      PROVE  IInv'
  BY <1>4, CallbackDoneStep, CallbackFailsStep, AdminCallbackDoneStep
<1>5. CASE UNCHANGED vars
  BY <1>5 DEF vars, IInv, TypeOK, UnusedInv, OpenInv, AdminInv, CallbackInv, Exchanging,
              DoneInv, HasToken, Done, Idle, AdminOnly
<1>6. QED
  BY <1>1, <1>2, <1>3, <1>4, <1>5, DevLoginStep, AuthenticateTokenStep, AdminForgets,
     RestartStep, TickStep DEF Next

LEMMA Invariance == Spec => []IInv
BY InitIInv, NextIInv, PTL DEF Spec

\* Types, and the one use of a state: the callback uses the OAuth state up under
\* the lock, before it asks GILid, so no login is ever exchanged twice.
THEOREM StatesUsedOnce == Spec => []AuthInv
<1>1. IInv => AuthInv
  <2> SUFFICES ASSUME IInv
               PROVE  AuthInv
    OBVIOUS
  <2>1. TypeOK
    BY DEF IInv
  <2>2. \A s, t \in Slot :
          callback[s] # None /\ callback[t] # None /\ callback[s].login = callback[t].login => s = t
    BY DEF IInv, CallbackInv, Exchanging
  <2>3. QED
    BY <2>1, <2>2 DEF AuthInv, StateSingleUse, IInv, OpenInv, Idle
<1>2. QED
  BY <1>1, Invariance, PTL

\* A login is answered with a token that works and belongs to the one account
\* that signed in for it (Callback, cleanupLocked), and once (Status).
THEOREM TokensGood == Spec => []TokenGood
<1>1. IInv => TokenGood
  <2> SUFFICES ASSUME IInv, NEW r \in Login, Done(r)
               PROVE  /\ pending[r].left > 0 =>
                           LET s == sessions[pending[r].token] IN
                           /\ s # None /\ s.left > 0
                           /\ s.owner = pending[r].owner
                           /\ signed[r] = {pending[r].owner}
                      /\ pending[r].token \notin delivered
                      /\ \A q \in Login : pending[q] # None /\ pending[q].st = "done"
                           /\ pending[q].token = pending[r].token => q = r
    BY DEF TokenGood, TokenWorks, TokenOnce, Done
  <2>1. HasToken(r) /\ pending[r] \in Pending /\ pending[r].token \in Token
    BY PendingFields DEF IInv, DoneInv, TypeOK, Done
  <2>2. sessions[pending[r].token] \in Session
    BY <2>1 DEF HasToken, IInv, TypeOK
  <2>3. pending[r].left \in Nat /\ sessions[pending[r].token].left \in Nat
    BY <2>1, <2>2, PendingFields, SessionFields, AuthAssumption
  <2>4. pending[r].left > 0 => sessions[pending[r].token].left > 0
    BY <2>1, <2>3 DEF HasToken
  <2>5. QED
    BY <2>1, <2>4 DEF HasToken, Done
<1>2. QED
  BY <1>1, Invariance, PTL

\* A dashboard session belongs to an administrator and is no client's token
\* (AdminAuth.Callback).
THEOREM AdminsOnly == Spec => []AdminOnly
<1>1. IInv => AdminOnly
  BY DEF IInv
<1>2. QED
  BY <1>1, Invariance, PTL
====
