---------------------------- MODULE GilCoordinator ----------------------------
(***************************************************************************)
(* The client's account and reservation logic (app/backend/gilcoordinator, *)
(* with the QML that drives it: LoginView, main, SettingsView).            *)
(*                                                                         *)
(* Everything runs on the Qt main thread, so a handler is one step; what   *)
(* interleaves is the handlers: clicks, two timers, the replies to the     *)
(* requests in flight and the route probes.  A work slot is one thing the  *)
(* client waits for: a request with its reply once the coordinator has     *)
(* answered, or the probe that a lease reply turns into.  The coordinator  *)
(* (srv, valid, opened) is external: it does what LeaseStore and           *)
(* AuthBroker do, seen by the one device this client runs on.  Status      *)
(* texts, the profile, the pairing PIN and the login of debug builds are   *)
(* left out.                                                               *)
(***************************************************************************)
EXTENDS Naturals, Sequences

CONSTANTS
  Account,    \* GILid accounts; a bearer token is named by its account
  LeaseId,    \* lease ids
  Slot,       \* what the client can wait for at once
  Login,      \* login request ids
  MaxViews,   \* bound: depth of the view stack
  None

ASSUME ClientAssumption ==
  /\ MaxViews \in Nat \ {0}
  /\ None \notin Account \cup LeaseId \cup Login

VARIABLES
  busy,      \* m_Busy
  loginId,   \* m_LoginRequestId
  polling,   \* m_LoginPollTimer is running
  token,     \* m_AccessToken
  saved,     \* accessToken in QSettings
  lease,     \* m_LeaseId
  beating,   \* m_HeartbeatTimer is running
  bridge,    \* the lease m_RelayBridge runs for
  lan,       \* m_UseLanCoordinator
  restored,  \* m_RestoreAttempted
  work,      \* requests and probes in flight
  earlier,   \* those of them the heartbeat timer will outlast
  host,      \* the address ComputerManager is authorized for
  views,     \* stackView, top last
  srv,       \* external: the lease the coordinator holds for each account
  used,      \* external: lease ids given out
  valid,     \* external: accounts whose token the coordinator accepts
  opened,    \* external: login requests it can still answer
  logins     \* external: login requests it has opened

session == <<token, saved>>
login == <<loginId, polling>>
reservation == <<lease, beating, bridge>>
gui == <<host, views>>
coordinator == <<srv, used, valid, opened, logins>>
vars == <<busy, loginId, polling, token, saved, lease, beating, bridge, lan,
          restored, work, earlier, host, views, srv, used, valid, opened, logins>>

\* What the client waits for, with the answers each request may get.
Work ==
  [k : {"start"}, ans : Login \cup {"error", None}]
  \cup [k : {"poll"}, login : Login, ans : Account \cup {"pending", "error", None}]
  \cup [k : {"lease"}, tok : Account, ans : LeaseId \cup {"unauthorized", "error", None}]
  \cup [k : {"beat"}, tok : Account, id : LeaseId, ans : {"ok", "unauthorized", "error", None}]
  \cup [k : {"delete"}, tok : Account, id : LeaseId, ans : {None}]
  \cup [k : {"probe"}, id : LeaseId]

TypeOK ==
  /\ busy \in BOOLEAN /\ polling \in BOOLEAN /\ beating \in BOOLEAN
  /\ lan \in BOOLEAN /\ restored \in BOOLEAN
  /\ loginId \in Login \cup {None}
  /\ token \in Account \cup {None} /\ saved \in Account \cup {None}
  /\ lease \in LeaseId \cup {None} /\ bridge \in LeaseId \cup {None}
  /\ work \in [Slot -> Work \cup {None}] /\ earlier \subseteq Slot
  /\ host \in [id : LeaseId, via : {"direct", "relay"}] \cup {None}
  /\ views \in Seq({"login", "pc", "settings"}) /\ Len(views) \in 1..MaxViews
  /\ srv \in [Account -> LeaseId \cup {None}] /\ used \subseteq LeaseId
  /\ valid \subseteq Account /\ opened \subseteq logins /\ logins \subseteq Login

-------------------------------------------------------------------------------
(* Requests and the view stack *)

Top == views[Len(views)]
OnScreen(v) == \E i \in 1..Len(views) : views[i] = v
Waiting(k) == \E s \in Slot : work[s] # None /\ work[s].k = k

\* The heartbeat timer fires 30 s after it was started or last fired, and what
\* was in flight then is over by that time: a request lasts 20 s at most and
\* a probe 1.8 s.
TimerStarted == earlier' = {s \in Slot : work'[s] # None}
TimerRunsOn ==
  earlier' = IF ~beating' THEN {}
             ELSE {s \in earlier : work'[s] # None /\ work'[s].k \in {work[s].k, "probe"}}

Send(w, m) == \E s \in Slot : w[s] = None /\ work' = [w EXCEPT ![s] = m]
Done(s) == [work EXCEPT ![s] = None]

\* requestVm, once the token is known to be there.
RequestVm(tok, w) ==
  /\ busy' = TRUE
  /\ Send(w, [k |-> "lease", tok |-> tok, ans |-> None])

\* assignmentRevoked: main.qml drops the host and shows a fresh LoginView
\* unless one is on top; a fresh LoginView resumes the saved session.
AssignmentRevoked(tok, tried, b, w) ==
  /\ host' = None
  /\ views' = IF Top = "login" THEN views ELSE <<"login">>
  /\ \/ /\ Top # "login" /\ ~tried /\ tok # None
        /\ restored' = TRUE
        /\ RequestVm(tok, w)
     \/ /\ Top = "login" \/ tried \/ tok = None
        /\ restored' = tried /\ busy' = b /\ work' = w

\* assignedHost: a LoginView anywhere in the stack takes the host and replaces
\* whatever is on top by PcView; without one nobody listens.
AssignedHost(id, via) ==
  IF OnScreen("login")
  THEN host' = [id |-> id, via |-> via] /\ views' = [views EXCEPT ![Len(views)] = "pc"]
  ELSE UNCHANGED gui

clearSession == token' = None /\ saved' = None

fail_statusOnly == UNCHANGED busy
fail == busy' = FALSE

Boot(tok) ==
  /\ loginId' = None /\ polling' = FALSE /\ UNCHANGED session
  /\ lease' = None /\ beating' = FALSE /\ bridge' = None
  /\ host' = None /\ views' = <<"login">>
  /\ restored' = (tok # None) /\ busy' = (tok # None)
  /\ LET idle == [s \in Slot |-> None] IN
     IF tok = None THEN work' = idle
     ELSE Send(idle, [k |-> "lease", tok |-> tok, ans |-> None])

Init ==
  /\ busy = FALSE /\ loginId = None /\ polling = FALSE
  /\ token = None /\ saved = None
  /\ lease = None /\ beating = FALSE /\ bridge = None
  /\ lan = FALSE /\ restored = FALSE
  /\ work = [s \in Slot |-> None] /\ earlier = {}
  /\ host = None /\ views = <<"login">>
  /\ srv = [a \in Account |-> None] /\ used = {}
  /\ valid = {} /\ opened = {} /\ logins = {}

-------------------------------------------------------------------------------
(* Clicks *)

startLogin ==
  /\ Top = "login" /\ token = None /\ ~busy
  /\ busy' = TRUE
  /\ Send(work, [k |-> "start", ans |-> None])
  /\ UNCHANGED <<session, login, reservation, lan, restored, gui, coordinator>>
  /\ TimerRunsOn

\* "Try another VM"
requestVm ==
  /\ Top = "login" /\ token # None /\ ~busy
  /\ RequestVm(token, work)
  /\ UNCHANGED <<session, login, reservation, lan, restored, gui, coordinator>>
  /\ TimerRunsOn

\* The profile menu is there whenever the client is authenticated.
logout ==
  /\ token # None
  /\ loginId' = None /\ polling' = FALSE
  /\ lease' = None /\ beating' = FALSE /\ bridge' = None
  /\ clearSession
  /\ \E w \in IF lease = None THEN {work}
              ELSE {[work EXCEPT ![s] = [k |-> "delete", tok |-> token, id |-> lease, ans |-> None]] :
                    s \in {t \in Slot : work[t] = None}} :
       AssignmentRevoked(None, restored, FALSE, w)
  /\ UNCHANGED <<lan, coordinator>>
  /\ TimerRunsOn

\* Every reply is disconnected and aborted; a probe is not a reply.
Aborted == [s \in Slot |-> IF work[s] # None /\ work[s].k = "probe" THEN work[s] ELSE None]

setUseLanCoordinator ==
  /\ Top = "settings"
  /\ lan' = ~lan
  /\ loginId' = None /\ polling' = FALSE
  /\ lease' = None /\ beating' = FALSE /\ bridge' = None
  /\ AssignmentRevoked(token, FALSE, FALSE, Aborted)
  /\ UNCHANGED <<session, coordinator>>
  /\ TimerRunsOn

OpenSettings ==
  /\ ~OnScreen("settings") /\ Len(views) < MaxViews
  /\ views' = Append(views, "settings")
  /\ UNCHANGED <<busy, session, login, reservation, lan, restored, work, host, coordinator>>
  /\ TimerRunsOn

GoBack ==
  /\ Len(views) > 1
  /\ views' = SubSeq(views, 1, Len(views) - 1)
  /\ UNCHANGED <<busy, session, login, reservation, lan, restored, work, host, coordinator>>
  /\ TimerRunsOn

\* Quit or crash, and start again.  On a quit releaseLease may still get its
\* DELETE out.
Restart ==
  /\ Boot(saved)
  /\ \/ UNCHANGED srv
     \/ /\ token \in valid /\ lease # None /\ srv[token] = lease
        /\ srv' = [srv EXCEPT ![token] = None]
  /\ UNCHANGED <<lan, used, valid, opened, logins>>
  /\ TimerRunsOn

-------------------------------------------------------------------------------
(* Timers *)

\* Fires every 2 s, while a request may take 20 s: polls can overlap.
pollLogin ==
  /\ polling
  /\ IF loginId = None THEN polling' = FALSE /\ UNCHANGED work
     ELSE Send(work, [k |-> "poll", login |-> loginId, ans |-> None]) /\ UNCHANGED polling
  /\ UNCHANGED <<busy, loginId, session, reservation, lan, restored, gui, coordinator>>
  /\ TimerRunsOn

sendHeartbeat ==
  /\ beating /\ earlier = {}
  /\ lease # None /\ token # None
  /\ Send(work, [k |-> "beat", tok |-> token, id |-> lease, ans |-> None])
  /\ TimerStarted
  /\ UNCHANGED <<busy, session, login, reservation, lan, restored, gui, coordinator>>

-------------------------------------------------------------------------------
(* Replies *)

Replied(s, k) == work[s] # None /\ work[s].k = k /\ work[s].ans # None

startReply(s) ==
  /\ Replied(s, "start")
  /\ work' = Done(s)
  /\ \/ /\ work[s].ans = "error"
        /\ fail /\ UNCHANGED login
     \/ /\ work[s].ans # "error"
        /\ loginId' = work[s].ans
        /\ \/ polling' = TRUE /\ UNCHANGED busy
           \/ fail /\ UNCHANGED polling   \* openUrl fails
  /\ UNCHANGED <<session, reservation, lan, restored, gui, coordinator>>
  /\ TimerRunsOn

\* handleAuthenticationResponse on success: the session is saved and a VM requested.
Authenticated(s, a) ==
  /\ token' = a /\ saved' = a
  /\ RequestVm(a, Done(s))

pollReply(s) ==
  /\ Replied(s, "poll")
  /\ \/ /\ work[s].ans = "pending"
        /\ work' = Done(s) /\ UNCHANGED <<polling, busy, session>>
     \/ /\ work[s].ans = "error"
        /\ polling' = FALSE /\ fail
        /\ work' = Done(s) /\ UNCHANGED session
     \/ /\ work[s].ans \in Account
        /\ polling' = FALSE
        /\ Authenticated(s, work[s].ans)
  /\ UNCHANGED <<loginId, reservation, lan, restored, gui, coordinator>>
  /\ TimerRunsOn

\* completeAssignment, when the lease it was made for is still the client's.
StillWanted_leaseOnly(id, mine) == mine = id
StillWanted(id, mine) == mine = id /\ token # None

completeAssignment(id, mine, useRelay) ==
  \/ /\ StillWanted(id, mine)
     /\ bridge' = IF useRelay THEN id ELSE None
     /\ busy' = FALSE /\ beating' = TRUE /\ TimerStarted
     /\ AssignedHost(id, IF useRelay THEN "relay" ELSE "direct")
  \/ /\ StillWanted(id, mine) /\ useRelay           \* m_RelayBridge.start fails
     /\ bridge' = None /\ fail
     /\ UNCHANGED <<beating, gui>> /\ TimerRunsOn
  \/ /\ ~StillWanted(id, mine)
     /\ UNCHANGED <<busy, beating, bridge, gui>> /\ TimerRunsOn

leaseRefused(s) ==
  /\ Replied(s, "lease")
  /\ \/ /\ work[s].ans = "unauthorized"
        /\ bridge' = None
        /\ clearSession
        /\ AssignmentRevoked(None, restored, FALSE, Done(s))
     \/ /\ work[s].ans = "error"
        /\ fail /\ work' = Done(s)
        /\ UNCHANGED <<session, bridge, restored, gui>>
  /\ UNCHANGED <<login, lease, beating, lan, coordinator>>
  /\ TimerRunsOn

leaseGranted(s) ==
  /\ Replied(s, "lease") /\ work[s].ans \in LeaseId
  /\ lease' = work[s].ans
  /\ IF lan THEN work' = Done(s) /\ completeAssignment(work[s].ans, work[s].ans, FALSE)
     ELSE /\ work' = [work EXCEPT ![s] = [k |-> "probe", id |-> work[s].ans]]
          /\ UNCHANGED <<busy, beating, bridge, gui>> /\ TimerRunsOn
  /\ UNCHANGED <<session, login, lan, restored, coordinator>>

\* Connected, refused, or 1.8 s are over.
probeEnds(s) ==
  /\ work[s] # None /\ work[s].k = "probe"
  /\ work' = Done(s)
  /\ UNCHANGED lease
  /\ \E useRelay \in BOOLEAN : completeAssignment(work[s].id, lease, useRelay)
  /\ UNCHANGED <<session, login, lan, restored, coordinator>>

beatReply(s) ==
  /\ Replied(s, "beat")
  /\ \/ /\ work[s].ans = "ok"
        /\ work' = Done(s)
        /\ UNCHANGED <<busy, session, reservation, restored, gui>>
     \/ /\ work[s].ans # "ok"
        /\ beating' = FALSE /\ lease' = None /\ bridge' = None
        /\ IF work[s].ans = "unauthorized" THEN clearSession ELSE UNCHANGED session
        /\ AssignmentRevoked(IF work[s].ans = "unauthorized" THEN None ELSE token,
                             restored, busy, Done(s))
  /\ UNCHANGED <<login, lan, coordinator>>
  /\ TimerRunsOn

-------------------------------------------------------------------------------
(* External: the coordinator and the network *)

Unanswered(s, k) == work[s] # None /\ work[s].k = k /\ work[s].ans = None
Reply(s, a) == work' = [work EXCEPT ![s].ans = a]
client == <<busy, session, login, reservation, lan, restored, gui>>

ServeStart(s) ==
  /\ Unanswered(s, "start")
  /\ \E n \in Login \ logins :
       /\ logins' = logins \cup {n} /\ opened' = opened \cup {n}
       /\ Reply(s, n)
  /\ UNCHANGED <<client, srv, used, valid>>
  /\ TimerRunsOn

\* The token is handed out once; the login is then forgotten.
ServePoll(s) ==
  /\ Unanswered(s, "poll")
  /\ \/ work[s].login \in opened /\ Reply(s, "pending") /\ UNCHANGED <<valid, opened>>
     \/ \E a \in Account :
          /\ work[s].login \in opened
          /\ Reply(s, a)
          /\ valid' = valid \cup {a} /\ opened' = opened \ {work[s].login}
     \/ /\ Reply(s, "error")
        /\ opened' = opened \ {work[s].login} /\ UNCHANGED valid
  /\ UNCHANGED <<client, srv, used, logins>>
  /\ TimerRunsOn

\* CreateOrRecover for this device.
ServeLease(s) ==
  /\ Unanswered(s, "lease")
  /\ LET a == work[s].tok IN
     \/ a \notin valid /\ Reply(s, "unauthorized") /\ UNCHANGED <<srv, used>>
     \/ a \in valid /\ srv[a] # None /\ Reply(s, srv[a]) /\ UNCHANGED <<srv, used>>
     \/ \E id \in LeaseId \ used :
          /\ a \in valid /\ srv[a] = None
          /\ srv' = [srv EXCEPT ![a] = id] /\ used' = used \cup {id}
          /\ Reply(s, id)
  /\ UNCHANGED <<client, valid, opened, logins>>
  /\ TimerRunsOn

ServeBeat(s) ==
  /\ Unanswered(s, "beat")
  /\ Reply(s, IF work[s].tok \notin valid THEN "unauthorized"
              ELSE IF srv[work[s].tok] = work[s].id THEN "ok" ELSE "error")
  /\ UNCHANGED <<client, coordinator>>
  /\ TimerRunsOn

\* Nobody reads the reply of a DELETE.
ServeDelete(s) ==
  /\ Unanswered(s, "delete")
  /\ work' = Done(s)
  /\ srv' = IF work[s].tok \in valid /\ srv[work[s].tok] = work[s].id
            THEN [srv EXCEPT ![work[s].tok] = None] ELSE srv
  /\ UNCHANGED <<client, used, valid, opened, logins>>
  /\ TimerRunsOn

\* An error of the coordinator or of the network, or the 20 s transfer
\* timeout, before or after the coordinator acted.
RequestFails(s) ==
  /\ work[s] # None /\ work[s].k # "probe"
  /\ IF work[s].k = "delete" THEN work' = Done(s)
     ELSE work[s].ans # "error" /\ Reply(s, "error")
  /\ UNCHANGED <<client, coordinator>>
  /\ TimerRunsOn

Serve(s) == ServeStart(s) \/ ServePoll(s) \/ ServeLease(s) \/ ServeBeat(s) \/ ServeDelete(s)

\* The lease runs out or an operator takes it back; the session runs out or
\* the coordinator restarts; the login is given up.
LoseLease(a) ==
  /\ srv[a] # None /\ srv' = [srv EXCEPT ![a] = None]
  /\ UNCHANGED <<client, work, used, valid, opened, logins>>
  /\ TimerRunsOn

LoseSession(a) ==
  /\ a \in valid /\ valid' = valid \ {a}
  /\ UNCHANGED <<client, work, srv, used, opened, logins>>
  /\ TimerRunsOn

LoginExpires(n) ==
  /\ n \in opened /\ opened' = opened \ {n}
  /\ UNCHANGED <<client, work, srv, used, valid, logins>>
  /\ TimerRunsOn

Replies(s) ==
  \/ startReply(s) \/ pollReply(s)
  \/ leaseRefused(s) \/ leaseGranted(s) \/ beatReply(s)

Next ==
  \/ startLogin \/ requestVm \/ logout
  \/ setUseLanCoordinator \/ OpenSettings \/ GoBack \/ Restart
  \/ pollLogin \/ sendHeartbeat
  \/ \E s \in Slot : Replies(s) \/ probeEnds(s) \/ Serve(s) \/ RequestFails(s)
  \/ \E a \in Account : LoseLease(a) \/ LoseSession(a)
  \/ \E n \in Login : LoginExpires(n)

Spec == Init /\ [][Next]_vars

\* Requests end (transfer timeout), probes end (1.8 s), the timers keep firing
\* while they run, and the coordinator forgets a login it cannot finish.
Fairness ==
  /\ \A s \in Slot : WF_vars(Replies(s)) /\ WF_vars(probeEnds(s)) /\ WF_vars(Serve(s) \/ RequestFails(s))
  /\ SF_vars(pollLogin) /\ SF_vars(sendHeartbeat)
  /\ \A n \in Login : WF_vars(LoginExpires(n))

FairSpec == Spec /\ Fairness

-------------------------------------------------------------------------------
(* Properties *)

\* The user is in PcView with a host to stream from.
Using == host # None /\ OnScreen("pc")

\* While the user has a host to stream from, the client is signed in, holds a
\* lease id and renews it: no order of replies, timers and clicks leaves
\* PcView up without heartbeats (completeAssignment, sendHeartbeat's reply,
\* requestVm's 401, logout, setUseLanCoordinator).
HostIsKeptAlive == Using => beating /\ lease # None /\ token # None

\* The relay bridge runs only for a signed-in client that is renewing a lease
\* (every path that drops the lease or the token stops m_RelayBridge).
BridgeIsBacked == bridge # None => beating /\ lease # None /\ token # None

\* The types, and both uses of a lease backed by its renewal.
ClientInv == TypeOK /\ HostIsKeptAlive /\ BridgeIsBacked

\* The user lets the client get on with it: no restart, no endpoint switch.
Undisturbed == ~Restart /\ ~setUseLanCoordinator

\* Left alone, the UI does not stay busy for ever (the comment in requestFor).
BusyEnds == <>[][Undisturbed]_vars => (busy ~> ~busy)

\* A heartbeat has failed while a VM is being requested or its route probed.
BeatLostInRequest ==
  /\ Waiting("probe") \/ Waiting("lease")
  /\ \E s \in Slot : Replied(s, "beat") /\ work[s].ans # "ok"

\* The UI does not stay busy for ever unless a heartbeat fails while a VM is
\* requested or its route probed, the one case in which completeAssignment
\* returns with m_Busy set and nobody else to clear it.
BusyEndsOutsideRace == []~BeatLostInRequest => BusyEnds
===============================================================================
