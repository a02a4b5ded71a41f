------------------------ MODULE GilCoordinatorProofs ------------------------
(***************************************************************************)
(* The client never shows a host, or bridges to one, without the lease it  *)
(* renews for it, for every number of accounts, leases, logins and         *)
(* requests in flight and every depth of the view stack.                   *)
(***************************************************************************)
EXTENDS GilCoordinator, TLAPS

\* The client has a host to stream from only while it renews a lease for it:
\* HostIsKeptAlive without what the view stack shows, which no handler reads
\* before it takes the host back.
Kept == host # None => beating /\ lease # None /\ token # None

IInv == TypeOK /\ Kept /\ BridgeIsBacked

\* The work slots after a step.
WorkTyped(w) == w \in [Slot -> Work \cup {None}]

\* The parts of TypeOK that a handler sets with what it has at hand.
SessionTyped == token \in Account \cup {None} /\ saved \in Account \cup {None}
LoginTyped == loginId \in Login \cup {None} /\ polling \in BOOLEAN
LeaseTyped == lease \in LeaseId \cup {None} /\ bridge \in LeaseId \cup {None} /\ beating \in BOOLEAN
HostTyped == host \in [id : LeaseId, via : {"direct", "relay"}] \cup {None}
ViewsTyped == views \in Seq({"login", "pc", "settings"}) /\ Len(views) \in 1..MaxViews
FlagsTyped == busy \in BOOLEAN /\ lan \in BOOLEAN /\ restored \in BOOLEAN
CoordinatorTyped ==
  /\ srv \in [Account -> LeaseId \cup {None}] /\ used \subseteq LeaseId
  /\ valid \subseteq Account /\ opened \subseteq logins /\ logins \subseteq Login

LEMMA TypeParts ==
  TypeOK <=> /\ SessionTyped /\ LoginTyped /\ LeaseTyped /\ HostTyped /\ ViewsTyped
             /\ FlagsTyped /\ CoordinatorTyped /\ WorkTyped(work) /\ earlier \subseteq Slot
BY DEF TypeOK, SessionTyped, LoginTyped, LeaseTyped, HostTyped, ViewsTyped, FlagsTyped,
       CoordinatorTyped, WorkTyped

-----------------------------------------------------------------------------
(* The operators a handler is built from.                                  *)

\* What a piece of work holds, by its kind.
LEMMA WorkFields ==
  ASSUME NEW w \in Work
  PROVE  /\ w.k \in {"start", "poll", "lease", "beat", "delete", "probe"}
         /\ w.k = "start" => w.ans \in Login \cup {"error", None}
         /\ w.k = "poll" => w.login \in Login
         /\ w.k \in {"lease", "beat", "delete"} => w.tok \in Account
         /\ w.k \in {"beat", "delete", "probe"} => w.id \in LeaseId
BY DEF Work

\* An answer that fits the request.
LEMMA AnswerTyped ==
  ASSUME NEW w \in Work, NEW a,
         \/ w.k = "start" /\ a \in Login \cup {"error"}
         \/ w.k = "poll" /\ a \in Account \cup {"pending", "error"}
         \/ w.k = "lease" /\ a \in LeaseId \cup {"unauthorized", "error"}
         \/ w.k = "beat" /\ a \in {"ok", "unauthorized", "error"}
  PROVE  [w EXCEPT !.ans = a] \in Work
<1>1. CASE w.k = "start"
  <2>1. w \in [k : {"start"}, ans : Login \cup {"error", None}]
    BY <1>1 DEF Work
  <2>2. [w EXCEPT !.ans = a] \in [k : {"start"}, ans : Login \cup {"error", None}]
    BY <1>1, <2>1
  <2> QED
    BY <2>2 DEF Work
<1>2. CASE w.k = "poll"
  <2>1. w \in [k : {"poll"}, login : Login, ans : Account \cup {"pending", "error", None}]
    BY <1>2 DEF Work
  <2>2. [w EXCEPT !.ans = a]
          \in [k : {"poll"}, login : Login, ans : Account \cup {"pending", "error", None}]
    BY <1>2, <2>1
  <2> QED
    BY <2>2 DEF Work
<1>3. CASE w.k = "lease"
  <2>1. w \in [k : {"lease"}, tok : Account, ans : LeaseId \cup {"unauthorized", "error", None}]
    BY <1>3 DEF Work
  <2>2. [w EXCEPT !.ans = a]
          \in [k : {"lease"}, tok : Account, ans : LeaseId \cup {"unauthorized", "error", None}]
    BY <1>3, <2>1
  <2> QED
    BY <2>2 DEF Work
<1>4. CASE w.k = "beat"
  <2>1. w \in [k : {"beat"}, tok : Account, id : LeaseId, ans : {"ok", "unauthorized", "error", None}]
    BY <1>4 DEF Work
  <2>2. [w EXCEPT !.ans = a]
          \in [k : {"beat"}, tok : Account, id : LeaseId, ans : {"ok", "unauthorized", "error", None}]
    BY <1>4, <2>1
  <2> QED
    BY <2>2 DEF Work
<1> QED
  BY <1>1, <1>2, <1>3, <1>4

LEMMA ReplyTyped ==
  ASSUME WorkTyped(work), NEW s \in Slot, work[s] # None, NEW a, Reply(s, a),
         \/ work[s].k = "start" /\ a \in Login \cup {"error"}
         \/ work[s].k = "poll" /\ a \in Account \cup {"pending", "error"}
         \/ work[s].k = "lease" /\ a \in LeaseId \cup {"unauthorized", "error"}
         \/ work[s].k = "beat" /\ a \in {"ok", "unauthorized", "error"}
  PROVE  WorkTyped(work')
<1>1. work[s] \in Work
  BY DEF WorkTyped
<1>2. [work[s] EXCEPT !.ans = a] \in Work
  BY <1>1, AnswerTyped
<1>3. work' = [work EXCEPT ![s] = [work[s] EXCEPT !.ans = a]]
  BY DEF Reply
<1> QED
  BY <1>2, <1>3 DEF WorkTyped

LEMMA SendTyped ==
  ASSUME NEW w, WorkTyped(w), NEW m \in Work, Send(w, m)
  PROVE  WorkTyped(work')
BY DEF WorkTyped, Send

LEMMA DoneTyped ==
  ASSUME WorkTyped(work), NEW s \in Slot
  PROVE  WorkTyped(Done(s))
BY DEF WorkTyped, Done

\* requestVm with a token.
LEMMA RequestTyped ==
  ASSUME NEW w, WorkTyped(w), NEW tok \in Account, RequestVm(tok, w)
  PROVE  busy' \in BOOLEAN /\ WorkTyped(work')
<1>1. [k |-> "lease", tok |-> tok, ans |-> None] \in Work
  BY DEF Work
<1> QED
  BY <1>1, SendTyped DEF RequestVm

\* assignmentRevoked takes the host, and leaves the stack with a LoginView.
LEMMA RevokedTyped ==
  ASSUME TypeOK, NEW w, WorkTyped(w), NEW tok \in Account \cup {None},
         NEW tried \in BOOLEAN, NEW b \in BOOLEAN,
         AssignmentRevoked(tok, tried, b, w)
  PROVE  /\ host' = None
         /\ ViewsTyped' /\ HostTyped' /\ WorkTyped(work')
         /\ restored' \in BOOLEAN /\ busy' \in BOOLEAN
<1>1. host' = None /\ HostTyped'
  BY DEF AssignmentRevoked, HostTyped
<1>2. ViewsTyped'
  <2>1. <<"login">> \in Seq({"login", "pc", "settings"}) /\ Len(<<"login">>) = 1
    OBVIOUS
  <2>2. 1 \in 1..MaxViews
    BY ClientAssumption
  <2> QED
    BY <2>1, <2>2 DEF AssignmentRevoked, TypeOK, ViewsTyped
<1>3. CASE Top # "login" /\ ~tried /\ tok # None /\ restored' = TRUE /\ RequestVm(tok, w)
  BY <1>1, <1>2, <1>3, RequestTyped
<1>4. CASE restored' = tried /\ busy' = b /\ work' = w
  BY <1>1, <1>2, <1>4
<1> QED
  BY <1>3, <1>4 DEF AssignmentRevoked

\* assignedHost gives the host to a LoginView, or to nobody.
LEMMA AssignedTyped ==
  ASSUME TypeOK, NEW id \in LeaseId, NEW via \in {"direct", "relay"}, AssignedHost(id, via)
  PROVE  ViewsTyped' /\ HostTyped'
<1>1. CASE host' = [id |-> id, via |-> via] /\ views' = [views EXCEPT ![Len(views)] = "pc"]
  <2>1. views' \in Seq({"login", "pc", "settings"}) /\ Len(views') = Len(views)
    BY <1>1 DEF TypeOK
  <2> QED
    BY <1>1, <2>1 DEF TypeOK, ViewsTyped, HostTyped
<1>2. CASE UNCHANGED gui
  BY <1>2 DEF gui, TypeOK, ViewsTyped, HostTyped
<1> QED
  BY <1>1, <1>2 DEF AssignedHost

\* The heartbeat timer outlasts work that is there.
LEMMA TimerTyped ==
  ASSUME earlier \subseteq Slot, TimerStarted \/ TimerRunsOn
  PROVE  earlier' \subseteq Slot
BY DEF TimerStarted, TimerRunsOn

\* What completeAssignment leaves behind.
LEMMA CompleteKeeps ==
  ASSUME TypeOK, Kept, BridgeIsBacked, NEW id \in LeaseId,
         NEW useRelay \in BOOLEAN,
         lease' \in LeaseId \cup {None},
         \/ lease' = id
         \/ lease' = lease,
         UNCHANGED token,
         completeAssignment(id, lease', useRelay)
  PROVE  /\ Kept' /\ BridgeIsBacked' /\ LeaseTyped' /\ HostTyped' /\ ViewsTyped'
         /\ busy' \in BOOLEAN /\ earlier' \subseteq Slot
<1>n. id # None
  BY ClientAssumption
<1>1. CASE /\ StillWanted(id, lease')
           /\ bridge' = IF useRelay THEN id ELSE None
           /\ busy' = FALSE /\ beating' = TRUE /\ TimerStarted
           /\ AssignedHost(id, IF useRelay THEN "relay" ELSE "direct")
  <2>1. lease' # None /\ token' # None /\ beating'
    BY <1>1, <1>n DEF StillWanted
  <2>2. ViewsTyped' /\ HostTyped'
    BY <1>1, AssignedTyped
  <2>3. earlier' \subseteq Slot
    BY <1>1, TimerTyped DEF TypeOK
  <2> QED
    BY <1>1, <2>1, <2>2, <2>3 DEF Kept, BridgeIsBacked, LeaseTyped
<1>2. CASE /\ StillWanted(id, lease') /\ useRelay
           /\ bridge' = None /\ fail
           /\ UNCHANGED <<beating, gui>> /\ TimerRunsOn
  <2>1. lease' # None /\ token' # None
    BY <1>2, <1>n DEF StillWanted
  <2>2. earlier' \subseteq Slot
    BY <1>2, TimerTyped DEF TypeOK
  <2> QED
    BY <1>2, <2>1, <2>2
    DEF fail, gui, TypeOK, Kept, BridgeIsBacked, LeaseTyped, HostTyped, ViewsTyped
<1>3. CASE /\ ~StillWanted(id, lease')
           /\ UNCHANGED <<busy, beating, bridge, gui>> /\ TimerRunsOn
  <2>1. earlier' \subseteq Slot
    BY <1>3, TimerTyped DEF TypeOK
  <2>2. (host # None \/ bridge # None) => lease' # None
    BY <1>n DEF Kept, BridgeIsBacked
  <2> QED
    BY <1>3, <2>1, <2>2
    DEF gui, TypeOK, Kept, BridgeIsBacked, LeaseTyped, HostTyped, ViewsTyped
<1> QED
  BY <1>1, <1>2, <1>3 DEF completeAssignment

-----------------------------------------------------------------------------
(* The steps.                                                              *)

LEMMA InitIInv == Init => IInv
<1> SUFFICES ASSUME Init PROVE IInv
  OBVIOUS
<1>1. <<"login">> \in Seq({"login", "pc", "settings"}) /\ Len(<<"login">>) = 1
  OBVIOUS
<1>2. 1 \in 1..MaxViews
  BY ClientAssumption
<1> QED
  BY <1>1, <1>2 DEF Init, IInv, TypeOK, Kept, BridgeIsBacked

\* A step that leaves the user's side alone and takes up or ends some work.
LEMMA QuietKeeps ==
  ASSUME IInv,
         UNCHANGED <<session, reservation, gui, lan, restored, coordinator>>,
         busy' \in BOOLEAN, LoginTyped', WorkTyped(work'), TimerStarted \/ TimerRunsOn
  PROVE  IInv'
<1>1. earlier' \subseteq Slot
  BY TimerTyped DEF IInv, TypeOK
<1> QED
  BY <1>1
  DEF IInv, TypeOK, Kept, BridgeIsBacked, session, reservation, gui, coordinator, LoginTyped,
      WorkTyped

\* A step that takes the host and stops the bridge.
LEMMA RevokedKeeps ==
  ASSUME IInv, host' = None, bridge' = None,
         UNCHANGED <<lan, coordinator>>,
         SessionTyped', LoginTyped', lease' \in LeaseId \cup {None}, beating' \in BOOLEAN,
         ViewsTyped', HostTyped', busy' \in BOOLEAN, restored' \in BOOLEAN,
         WorkTyped(work'), TimerStarted \/ TimerRunsOn
  PROVE  IInv'
<1>1. earlier' \subseteq Slot
  BY TimerTyped DEF IInv, TypeOK
<1> QED
  BY <1>1
  DEF IInv, TypeOK, Kept, BridgeIsBacked, coordinator, SessionTyped, LoginTyped, ViewsTyped,
      HostTyped, WorkTyped

\* Clicks on the login view and on the stack.
LEMMA ClickKeeps ==
  ASSUME IInv, startLogin \/ requestVm \/ OpenSettings \/ GoBack
  PROVE  IInv'
<1>t. WorkTyped(work) /\ LoginTyped
  BY DEF IInv, TypeOK, WorkTyped, LoginTyped
<1>1. CASE startLogin
  <2>1. [k |-> "start", ans |-> None] \in Work
    BY DEF Work
  <2>2. WorkTyped(work')
    BY <1>1, <1>t, <2>1, SendTyped DEF startLogin
  <2> QED
    BY <1>1, <1>t, <2>2, QuietKeeps DEF startLogin, login, LoginTyped
<1>2. CASE requestVm
  <2>1. token \in Account
    BY <1>2 DEF requestVm, IInv, TypeOK
  <2>2. busy' \in BOOLEAN /\ WorkTyped(work')
    BY <1>2, <1>t, <2>1, RequestTyped DEF requestVm
  <2> QED
    BY <1>2, <1>t, <2>2, QuietKeeps DEF requestVm, login, LoginTyped
<1>3. CASE OpenSettings
  <2>1. Append(views, "settings") \in Seq({"login", "pc", "settings"})
        /\ Len(Append(views, "settings")) = Len(views) + 1
    BY DEF IInv, TypeOK
  <2>2. Len(views) \in Nat /\ Len(views) \in 1..MaxViews /\ Len(views) < MaxViews /\ MaxViews \in Nat
    BY <1>3, ClientAssumption DEF OpenSettings, IInv, TypeOK
  <2>3. ViewsTyped'
    BY <1>3, <2>1, <2>2 DEF OpenSettings, ViewsTyped
  <2>4. earlier' \subseteq Slot
    BY <1>3, TimerTyped DEF OpenSettings, IInv, TypeOK
  <2> QED
    BY <1>3, <2>3, <2>4
    DEF OpenSettings, IInv, TypeOK, Kept, BridgeIsBacked, ViewsTyped, session, login, reservation,
        coordinator
<1>4. CASE GoBack
  <2>1. Len(views) \in Nat /\ Len(views) \in 1..MaxViews /\ Len(views) > 1 /\ MaxViews \in Nat
    BY <1>4, ClientAssumption DEF GoBack, IInv, TypeOK
  <2>2. SubSeq(views, 1, Len(views) - 1) \in Seq({"login", "pc", "settings"})
        /\ Len(SubSeq(views, 1, Len(views) - 1)) = Len(views) - 1
    BY <2>1 DEF IInv, TypeOK
  <2>3. ViewsTyped'
    BY <1>4, <2>1, <2>2 DEF GoBack, ViewsTyped
  <2>4. earlier' \subseteq Slot
    BY <1>4, TimerTyped DEF GoBack, IInv, TypeOK
  <2> QED
    BY <1>4, <2>3, <2>4
    DEF GoBack, IInv, TypeOK, Kept, BridgeIsBacked, ViewsTyped, session, login, reservation,
        coordinator
<1> QED
  BY <1>1, <1>2, <1>3, <1>4

LEMMA LogoutKeeps == ASSUME IInv, logout PROVE IInv'
<1>t. TypeOK /\ WorkTyped(work) /\ restored \in BOOLEAN
  BY DEF IInv, TypeOK, WorkTyped
<1>1. PICK w : /\ w \in IF lease = None THEN {work}
                        ELSE {[work EXCEPT ![s] = [k |-> "delete", tok |-> token, id |-> lease,
                                                   ans |-> None]] :
                              s \in {t \in Slot : work[t] = None}}
               /\ AssignmentRevoked(None, restored, FALSE, w)
  BY DEF logout
<1>2. WorkTyped(w)
  <2>1. CASE lease = None
    BY <1>1, <1>t, <2>1
  <2>2. CASE lease # None
    <3>1. [k |-> "delete", tok |-> token, id |-> lease, ans |-> None] \in Work
      BY <2>2 DEF logout, IInv, TypeOK, Work
    <3> QED
      BY <1>1, <1>t, <2>2, <3>1 DEF WorkTyped
  <2> QED
    BY <2>1, <2>2
<1>3. /\ host' = None /\ ViewsTyped' /\ HostTyped' /\ WorkTyped(work')
      /\ restored' \in BOOLEAN /\ busy' \in BOOLEAN
  BY <1>1, <1>2, <1>t, RevokedTyped
<1> QED
  BY <1>3, RevokedKeeps DEF logout, clearSession, SessionTyped, LoginTyped

LEMMA SwitchKeeps == ASSUME IInv, setUseLanCoordinator PROVE IInv'
<1>t. TypeOK /\ token \in Account \cup {None}
  BY DEF IInv, TypeOK
<1>1. WorkTyped(Aborted)
  BY <1>t DEF TypeOK, WorkTyped, Aborted
<1>2. /\ host' = None /\ ViewsTyped' /\ HostTyped' /\ WorkTyped(work')
      /\ restored' \in BOOLEAN /\ busy' \in BOOLEAN
  BY <1>1, <1>t, RevokedTyped DEF setUseLanCoordinator
<1>3. earlier' \subseteq Slot
  BY <1>t, TimerTyped DEF setUseLanCoordinator, TypeOK
<1> QED
  BY <1>2, <1>3
  DEF setUseLanCoordinator, IInv, TypeOK, Kept, BridgeIsBacked, session, coordinator, ViewsTyped,
      HostTyped, WorkTyped

LEMMA RestartKeeps == ASSUME IInv, Restart PROVE IInv'
<1>t. TypeOK
  BY DEF IInv
<1>1. PICK idle : /\ idle = [s \in Slot |-> None]
                  /\ IF saved = None THEN work' = idle
                     ELSE Send(idle, [k |-> "lease", tok |-> saved, ans |-> None])
  BY DEF Restart, Boot
<1>2. WorkTyped(idle)
  BY <1>1 DEF WorkTyped
<1>3. WorkTyped(work')
  <2>1. CASE saved = None
    BY <1>1, <1>2, <2>1
  <2>2. CASE saved # None
    <3>1. [k |-> "lease", tok |-> saved, ans |-> None] \in Work
      BY <1>t, <2>2 DEF TypeOK, Work
    <3> QED
      BY <1>1, <1>2, <2>2, <3>1, SendTyped
  <2> QED
    BY <2>1, <2>2
<1>4. ViewsTyped'
  <2>1. <<"login">> \in Seq({"login", "pc", "settings"}) /\ Len(<<"login">>) = 1
    OBVIOUS
  <2>2. 1 \in 1..MaxViews
    BY ClientAssumption
  <2> QED
    BY <2>1, <2>2 DEF Restart, Boot, ViewsTyped
<1>5. srv' \in [Account -> LeaseId \cup {None}]
  BY <1>t DEF Restart, TypeOK
<1>6. earlier' \subseteq Slot
  BY <1>t, TimerTyped DEF Restart, TypeOK
<1> QED
  BY <1>3, <1>4, <1>5, <1>6
  DEF Restart, Boot, IInv, TypeOK, Kept, BridgeIsBacked, session, ViewsTyped, WorkTyped

LEMMA TimersKeep ==
  ASSUME IInv, pollLogin \/ sendHeartbeat
  PROVE  IInv'
<1>t. WorkTyped(work) /\ LoginTyped /\ busy \in BOOLEAN
  BY DEF IInv, TypeOK, WorkTyped, LoginTyped
<1>1. CASE pollLogin
  <2>1. CASE loginId = None
    <3>1. polling' = FALSE /\ UNCHANGED <<work, loginId, busy>>
      BY <1>1, <2>1 DEF pollLogin
    <3> QED
      BY <1>1, <1>t, <3>1, QuietKeeps DEF pollLogin, LoginTyped
  <2>2. CASE loginId # None
    <3>1. [k |-> "poll", login |-> loginId, ans |-> None] \in Work
      BY <1>t, <2>2 DEF LoginTyped, Work
    <3>2. WorkTyped(work') /\ UNCHANGED <<polling, loginId, busy>>
      BY <1>1, <1>t, <2>2, <3>1, SendTyped DEF pollLogin
    <3> QED
      BY <1>1, <1>t, <3>2, QuietKeeps DEF pollLogin, LoginTyped
  <2> QED
    BY <2>1, <2>2
<1>2. CASE sendHeartbeat
  <2>1. [k |-> "beat", tok |-> token, id |-> lease, ans |-> None] \in Work
    BY <1>2 DEF sendHeartbeat, IInv, TypeOK, Work
  <2>2. WorkTyped(work')
    BY <1>2, <1>t, <2>1, SendTyped DEF sendHeartbeat
  <2> QED
    BY <1>2, <1>t, <2>2, QuietKeeps DEF sendHeartbeat, login, LoginTyped
<1> QED
  BY <1>1, <1>2

-----------------------------------------------------------------------------
(* The replies and the probes.                                             *)

LEMMA StartReplyKeeps ==
  ASSUME IInv, NEW s \in Slot, startReply(s)
  PROVE  IInv'
<1>t. WorkTyped(work) /\ LoginTyped /\ busy \in BOOLEAN
  BY DEF IInv, TypeOK, WorkTyped, LoginTyped
<1>1. WorkTyped(work')
  BY <1>t, DoneTyped DEF startReply
<1>2. work[s] \in Work /\ work[s].k = "start" /\ work[s].ans # None
  BY <1>t DEF startReply, Replied, WorkTyped
<1>3. work[s].ans \in Login \cup {"error"}
  BY <1>2, WorkFields
<1>4. LoginTyped' /\ busy' \in BOOLEAN
  BY <1>t, <1>3 DEF startReply, login, fail, LoginTyped
<1> QED
  BY <1>1, <1>4, QuietKeeps DEF startReply

LEMMA PollReplyKeeps ==
  ASSUME IInv, NEW s \in Slot, pollReply(s)
  PROVE  IInv'
<1>t. WorkTyped(work) /\ LoginTyped /\ busy \in BOOLEAN /\ WorkTyped(Done(s))
  BY DoneTyped DEF IInv, TypeOK, WorkTyped, LoginTyped
<1>1. CASE work[s].ans \in Account /\ polling' = FALSE /\ Authenticated(s, work[s].ans)
  <2>1. busy' \in BOOLEAN /\ WorkTyped(work')
    BY <1>1, <1>t, RequestTyped DEF Authenticated
  <2>2. token' \in Account /\ saved' \in Account /\ token' # None
    BY <1>1, ClientAssumption DEF Authenticated
  <2>3. earlier' \subseteq Slot
    BY TimerTyped DEF pollReply, IInv, TypeOK
  <2> QED
    BY <1>1, <2>1, <2>2, <2>3
    DEF pollReply, IInv, TypeOK, Kept, BridgeIsBacked, WorkTyped, reservation, gui, coordinator
<1>2. CASE work' = Done(s) /\ polling' \in {polling, FALSE} /\ busy' \in {busy, FALSE}
           /\ UNCHANGED session
  BY <1>2, <1>t, QuietKeeps DEF pollReply, LoginTyped
<1> QED
  BY <1>1, <1>2 DEF pollReply, fail

LEMMA LeaseReplyKeeps ==
  ASSUME IInv, NEW s \in Slot, leaseRefused(s) \/ leaseGranted(s)
  PROVE  IInv'
<1>t. /\ TypeOK /\ Kept /\ BridgeIsBacked /\ WorkTyped(work) /\ LoginTyped
      /\ busy \in BOOLEAN /\ restored \in BOOLEAN /\ WorkTyped(Done(s))
  BY DoneTyped DEF IInv, TypeOK, WorkTyped, LoginTyped
<1>1. CASE leaseRefused(s) /\ work[s].ans = "unauthorized"
           /\ bridge' = None /\ clearSession /\ AssignmentRevoked(None, restored, FALSE, Done(s))
  <2>1. /\ host' = None /\ ViewsTyped' /\ HostTyped' /\ WorkTyped(work')
        /\ restored' \in BOOLEAN /\ busy' \in BOOLEAN
    BY <1>1, <1>t, RevokedTyped
  <2>2. UNCHANGED <<login, lease, beating, lan, coordinator>> /\ TimerRunsOn
    BY <1>1 DEF leaseRefused
  <2> QED
    BY <1>1, <1>t, <2>1, <2>2, RevokedKeeps
    DEF clearSession, SessionTyped, LoginTyped, login, TypeOK
<1>2. CASE leaseRefused(s) /\ fail /\ work' = Done(s)
           /\ UNCHANGED <<session, bridge, restored, gui>>
  BY <1>2, <1>t, QuietKeeps DEF leaseRefused, fail, reservation, login, LoginTyped
<1>3. CASE leaseGranted(s)
  <2>1. work[s].ans \in LeaseId /\ lease' = work[s].ans /\ work[s].ans # None
    BY <1>3, ClientAssumption DEF leaseGranted
  <2>2. CASE lan
    <3>1. WorkTyped(work') /\ completeAssignment(work[s].ans, lease', FALSE)
          /\ UNCHANGED token
      BY <1>3, <1>t, <2>1, <2>2 DEF leaseGranted, session
    <3>2. /\ Kept' /\ BridgeIsBacked' /\ LeaseTyped' /\ HostTyped' /\ ViewsTyped'
          /\ busy' \in BOOLEAN /\ earlier' \subseteq Slot
      BY <1>t, <2>1, <3>1, CompleteKeeps
    <3> QED
      BY <1>3, <1>t, <3>1, <3>2
      DEF leaseGranted, IInv, TypeOK, LeaseTyped, HostTyped, ViewsTyped, WorkTyped, session,
          login, coordinator
  <2>3. CASE ~lan
    <3>1. [k |-> "probe", id |-> work[s].ans] \in Work
      BY <2>1 DEF Work
    <3>2. WorkTyped(work')
      BY <1>3, <1>t, <2>3, <3>1 DEF leaseGranted, WorkTyped
    <3>3. earlier' \subseteq Slot
      BY <1>3, <1>t, <2>3, TimerTyped DEF leaseGranted, TypeOK
    <3> QED
      BY <1>3, <1>t, <2>1, <2>3, <3>2, <3>3
      DEF leaseGranted, IInv, TypeOK, Kept, BridgeIsBacked, WorkTyped, session, login, gui,
          coordinator
  <2> QED
    BY <2>2, <2>3
<1> QED
  BY <1>1, <1>2, <1>3 DEF leaseRefused

LEMMA ProbeKeeps ==
  ASSUME IInv, NEW s \in Slot, probeEnds(s)
  PROVE  IInv'
<1>t. TypeOK /\ Kept /\ BridgeIsBacked /\ WorkTyped(work) /\ WorkTyped(Done(s))
  BY DoneTyped DEF IInv, TypeOK, WorkTyped
<1>1. work[s] \in Work /\ work[s].k = "probe"
  BY <1>t DEF probeEnds, WorkTyped
<1>2. work[s].id \in LeaseId
  BY <1>1, WorkFields
<1>3. PICK useRelay \in BOOLEAN : completeAssignment(work[s].id, lease, useRelay)
  BY DEF probeEnds
<1>4. lease' = lease /\ UNCHANGED token /\ lease' \in LeaseId \cup {None}
      /\ completeAssignment(work[s].id, lease', useRelay)
  BY <1>t, <1>3 DEF probeEnds, session, TypeOK
<1>5. /\ Kept' /\ BridgeIsBacked' /\ LeaseTyped' /\ HostTyped' /\ ViewsTyped'
      /\ busy' \in BOOLEAN /\ earlier' \subseteq Slot
  BY <1>t, <1>2, <1>4, CompleteKeeps
<1> QED
  BY <1>t, <1>5
  DEF probeEnds, IInv, TypeOK, LeaseTyped, HostTyped, ViewsTyped, WorkTyped, session, login,
      coordinator

LEMMA BeatReplyKeeps ==
  ASSUME IInv, NEW s \in Slot, beatReply(s)
  PROVE  IInv'
<1>t. /\ TypeOK /\ WorkTyped(work) /\ LoginTyped /\ token \in Account \cup {None}
      /\ busy \in BOOLEAN /\ restored \in BOOLEAN /\ WorkTyped(Done(s))
  BY DoneTyped DEF IInv, TypeOK, WorkTyped, LoginTyped
<1>1. CASE work' = Done(s) /\ UNCHANGED <<busy, session, reservation, restored, gui>>
  BY <1>1, <1>t, QuietKeeps DEF beatReply, login, LoginTyped
<1>2. CASE /\ beating' = FALSE /\ lease' = None /\ bridge' = None
           /\ IF work[s].ans = "unauthorized" THEN clearSession ELSE UNCHANGED session
           /\ AssignmentRevoked(IF work[s].ans = "unauthorized" THEN None ELSE token,
                                restored, busy, Done(s))
  <2>1. PICK tok \in Account \cup {None} : AssignmentRevoked(tok, restored, busy, Done(s))
    BY <1>2, <1>t
  <2>2. /\ host' = None /\ ViewsTyped' /\ HostTyped' /\ WorkTyped(work')
        /\ restored' \in BOOLEAN /\ busy' \in BOOLEAN
    BY <2>1, <1>t, RevokedTyped
  <2>3. SessionTyped'
    BY <1>2, <1>t DEF clearSession, session, SessionTyped, TypeOK
  <2>4. LoginTyped' /\ UNCHANGED <<lan, coordinator>> /\ TimerRunsOn
    BY <1>t DEF beatReply, login, LoginTyped
  <2> QED
    BY <1>2, <2>2, <2>3, <2>4, RevokedKeeps
<1> QED
  BY <1>1, <1>2 DEF beatReply

-----------------------------------------------------------------------------
(* The coordinator and the network.                                        *)

\* A step of the coordinator, which changes what it keeps and some reply.
LEMMA ExternalKeeps ==
  ASSUME IInv, UNCHANGED client, CoordinatorTyped', WorkTyped(work'), TimerRunsOn
  PROVE  IInv'
<1>1. earlier' \subseteq Slot
  BY TimerTyped DEF IInv, TypeOK
<1> QED
  BY <1>1
  DEF client, IInv, TypeOK, Kept, BridgeIsBacked, CoordinatorTyped, WorkTyped, session, login,
      reservation, gui

LEMMA ServeKeeps ==
  ASSUME IInv, NEW s \in Slot, Serve(s)
  PROVE  IInv'
<1>t. WorkTyped(work) /\ CoordinatorTyped /\ WorkTyped(Done(s))
  BY DoneTyped DEF IInv, TypeOK, WorkTyped, CoordinatorTyped
<1>w. work[s] # None => work[s] \in Work
  BY <1>t DEF WorkTyped
<1>1. CASE ServeStart(s)
  <2>1. PICK n \in Login \ logins : /\ logins' = logins \cup {n} /\ opened' = opened \cup {n}
                                    /\ Reply(s, n)
    BY <1>1 DEF ServeStart
  <2>2. WorkTyped(work')
    BY <1>1, <1>t, <2>1, ReplyTyped DEF ServeStart, Unanswered
  <2>3. CoordinatorTyped'
    BY <1>1, <1>t, <2>1 DEF ServeStart, CoordinatorTyped
  <2> QED
    BY <1>1, <2>2, <2>3, ExternalKeeps DEF ServeStart
<1>2. CASE ServePoll(s)
  <2>1. work[s] # None /\ work[s].k = "poll"
    BY <1>2 DEF ServePoll, Unanswered
  <2>2. WorkTyped(work')
    BY <1>2, <1>t, <2>1, ReplyTyped DEF ServePoll
  <2>3. CoordinatorTyped'
    BY <1>2, <1>t DEF ServePoll, CoordinatorTyped
  <2> QED
    BY <1>2, <2>2, <2>3, ExternalKeeps DEF ServePoll
<1>3. CASE ServeLease(s)
  <2>1. work[s] # None /\ work[s].k = "lease" /\ work[s].tok \in Account
    BY <1>3, <1>w, WorkFields DEF ServeLease, Unanswered
  <2>2. PICK a \in LeaseId \cup {"unauthorized"} : Reply(s, a)
    BY <1>3, <1>t, <2>1 DEF ServeLease, CoordinatorTyped
  <2>3. WorkTyped(work')
    BY <1>t, <2>1, <2>2, ReplyTyped
  <2>4. CoordinatorTyped'
    BY <1>3, <1>t, <2>1 DEF ServeLease, CoordinatorTyped
  <2> QED
    BY <1>3, <2>3, <2>4, ExternalKeeps DEF ServeLease
<1>4. CASE ServeBeat(s)
  <2>1. work[s] # None /\ work[s].k = "beat"
    BY <1>4 DEF ServeBeat, Unanswered
  <2>2. PICK a \in {"ok", "unauthorized", "error"} : Reply(s, a)
    BY <1>4 DEF ServeBeat
  <2>3. WorkTyped(work')
    BY <1>t, <2>1, <2>2, ReplyTyped
  <2> QED
    BY <1>4, <1>t, <2>3, ExternalKeeps DEF ServeBeat, coordinator, CoordinatorTyped
<1>5. CASE ServeDelete(s)
  <2>1. WorkTyped(work')
    BY <1>5, <1>t DEF ServeDelete
  <2>2. CoordinatorTyped'
    BY <1>5, <1>t DEF ServeDelete, CoordinatorTyped
  <2> QED
    BY <1>5, <2>1, <2>2, ExternalKeeps DEF ServeDelete
<1> QED
  BY <1>1, <1>2, <1>3, <1>4, <1>5 DEF Serve

LEMMA FailureKeeps ==
  ASSUME IInv, NEW s \in Slot, RequestFails(s)
  PROVE  IInv'
<1>t. WorkTyped(work) /\ CoordinatorTyped /\ WorkTyped(Done(s))
  BY DoneTyped DEF IInv, TypeOK, WorkTyped, CoordinatorTyped
<1>1. work[s] \in Work /\ work[s] # None /\ work[s].k # "probe"
  BY <1>t DEF RequestFails, WorkTyped
<1>2. work[s].k \in {"start", "poll", "lease", "beat", "delete"}
  BY <1>1, WorkFields
<1>3. WorkTyped(work')
  <2>1. CASE work[s].k = "delete"
    BY <1>t, <2>1 DEF RequestFails
  <2>2. CASE work[s].k # "delete"
    <3>1. Reply(s, "error")
      BY <2>2 DEF RequestFails
    <3> QED
      BY <1>1, <1>2, <1>t, <2>2, <3>1, ReplyTyped
  <2> QED
    BY <2>1, <2>2
<1> QED
  BY <1>3, <1>t, ExternalKeeps DEF RequestFails, coordinator, CoordinatorTyped

LEMMA LossKeeps ==
  ASSUME IInv,
         \/ \E a \in Account : LoseLease(a) \/ LoseSession(a)
         \/ \E n \in Login : LoginExpires(n)
  PROVE  IInv'
<1>t. WorkTyped(work) /\ CoordinatorTyped
  BY DEF IInv, TypeOK, WorkTyped, CoordinatorTyped
<1>1. ASSUME NEW a \in Account, LoseLease(a) PROVE IInv'
  BY <1>1, <1>t, ExternalKeeps DEF LoseLease, CoordinatorTyped
<1>2. ASSUME NEW a \in Account, LoseSession(a) PROVE IInv'
  BY <1>2, <1>t, ExternalKeeps DEF LoseSession, CoordinatorTyped
<1>3. ASSUME NEW n \in Login, LoginExpires(n) PROVE IInv'
  BY <1>3, <1>t, ExternalKeeps DEF LoginExpires, CoordinatorTyped
<1> QED
  BY <1>1, <1>2, <1>3

-----------------------------------------------------------------------------
\* Every step keeps the invariant.
LEMMA NextIInv == IInv /\ [Next]_vars => IInv'
<1> SUFFICES ASSUME IInv, [Next]_vars PROVE IInv'
  OBVIOUS
<1>1. CASE startLogin \/ requestVm \/ OpenSettings \/ GoBack
  BY <1>1, ClickKeeps
<1>2. CASE logout
  BY <1>2, LogoutKeeps
<1>3. CASE setUseLanCoordinator
  BY <1>3, SwitchKeeps
<1>4. CASE Restart
  BY <1>4, RestartKeeps
<1>5. CASE pollLogin \/ sendHeartbeat
  BY <1>5, TimersKeep
<1>6. ASSUME NEW s \in Slot, Replies(s) PROVE IInv'
  BY <1>6, StartReplyKeeps, PollReplyKeeps, LeaseReplyKeeps, BeatReplyKeeps DEF Replies
<1>7. ASSUME NEW s \in Slot, probeEnds(s) \/ Serve(s) \/ RequestFails(s) PROVE IInv'
  BY <1>7, ProbeKeeps, ServeKeeps, FailureKeeps
<1>8. CASE \/ \E a \in Account : LoseLease(a) \/ LoseSession(a)
           \/ \E n \in Login : LoginExpires(n)
  BY <1>8, LossKeeps
<1>9. CASE UNCHANGED vars
  BY <1>9 DEF vars, IInv, TypeOK, Kept, BridgeIsBacked
<1> QED
  BY <1>1, <1>2, <1>3, <1>4, <1>5, <1>6, <1>7, <1>8, <1>9 DEF Next

\* Whatever the order of replies, timers, clicks and failures, a user with a
\* host to stream from, and a running relay bridge, have a lease that a
\* signed-in client renews (GilCoordinator's reply handlers, logout and
\* setUseLanCoordinator).
THEOREM HostIsBacked == Spec => []ClientInv
<1>1. IInv => ClientInv
  BY DEF IInv, ClientInv, Kept, HostIsKeptAlive, Using
<1> QED
  BY <1>1, InitIInv, NextIInv, PTL DEF Spec
=============================================================================
