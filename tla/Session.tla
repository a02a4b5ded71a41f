------------------------------- MODULE Session -------------------------------
(***************************************************************************)
(* One streaming session after another in the client (streaming/session,   *)
(* StreamSegue.qml, SdlGamepadKeyNavigation, the signal thread of main).   *)
(*                                                                         *)
(* Five actors share the Session object: the main thread, which runs Qt's  *)
(* loop, then the SDL loop, then Qt's again; the thread that connects; the *)
(* callbacks of moonlight-common-c; the clean-up task on the thread pool;  *)
(* and the signal thread.  They meet in the SDL event queue, in the        *)
(* signals posted to the main thread, in the decoder lock and in the       *)
(* semaphore that lets one session be active.                              *)
(*                                                                         *)
(* moonlight-common-c (conn) and the window system are external.  Its      *)
(* callbacks come between LiStartConnection and LiStopConnection only.     *)
(* The input, audio and overlay parts of a handler are left out.           *)
(***************************************************************************)
EXTENDS Naturals, Integers, Sequences, SequencesExt

CONSTANTS
  Platforms,   \* builds to consider, from "windows", "mac", "linux"
  MaxSessions, \* bound: sessions the user can start
  Budgets      \* bounds on the environment: how many sessions are started,
               \* how many inputs (window events, key combos, device losses)
               \* and signals come, how often the host changes its HDR mode

ASSUME SessionAssumption ==
  /\ Platforms \subseteq {"windows", "mac", "linux"}
  /\ MaxSessions \in Nat
  /\ Budgets \subseteq [sessions : 0..MaxSessions, inputs : Nat, signals : Nat, hdr : Nat]

VARIABLES
  platform,  \* the build
  cli,       \* StreamSegue.quitAfter: the command line started the stream
  quitAfter, \* StreamingPreferences.quitAppAfter
  main,      \* where the main thread is
  cur,       \* the session it last created
  active,    \* s_ActiveSession, 0 for nullptr
  sem,       \* s_ActiveSessionSemaphore
  ses,       \* the fields of each session
  async,     \* where AsyncConnectionStartThread is
  conn,      \* external: the connection of moonlight-common-c
  posted,    \* signals and calls queued for the main thread's Qt loop
  queue,     \* the SDL event queue
  video,     \* the session holds the SDL video subsystem
  nav,       \* SdlGamepadKeyNavigation is enabled
  decoder,   \* m_VideoDecoder: "none", or the HDR mode it was given
  minimized, \* the streaming window is minimized
  cleanup,   \* where DeferredSessionCleanupTask is
  error,     \* streamSegueErrorDialog.text is not empty
  dialog,    \* streamSegueErrorDialog is open
  sig,       \* lastSession and requestedQuit of signalHandlerThread
  hdrRace,   \* history: an HDR change was dropped between its read and the unlock
  left       \* what is left of the budget

ui == <<error, dialog>>
vars == <<platform, cli, quitAfter, main, cur, active, sem, ses, async, conn, posted,
          queue, video, nav, decoder, minimized, cleanup, error, dialog, sig,
          hdrRace, left>>
fixed == <<platform, cli>>

Id == 1..MaxSessions

\* Event types of the SDL queue; STALE is a RESET whose decoder is gone.
EventType == {"QUIT", "BARRIER", "RESET", "STALE", "SHOWN", "SIZE", "DISPLAY",
              "KEY_QUIT", "KEY_EXIT", "KEY_FULL"}

Post == {"error", "exec", "quitStarting", "finished", "quit"}

\* A fresh Session object.
NewSession ==
  [unexpected |-> TRUE,   \* m_UnexpectedTermination
   exit       |-> FALSE,  \* m_ShouldExit
   ok         |-> FALSE,  \* m_AsyncConnectionSuccess
   cancelled  |-> FALSE,  \* m_FirstFrameWaitCancelled
   flush      |-> 0]      \* m_FlushingWindowEventsRef

NoConn == [phase |-> "down", frame |-> FALSE, term |-> FALSE, hdr |-> FALSE]

Init ==
  /\ platform \in Platforms
  /\ cli \in BOOLEAN
  /\ quitAfter \in BOOLEAN
  /\ main = "ui" /\ cur = 0 /\ active = 0 /\ sem = 1
  /\ ses = [s \in Id |-> NewSession]
  /\ async = "idle" /\ conn = NoConn /\ posted = <<>>
  /\ queue = <<>> /\ video = FALSE /\ nav = TRUE
  /\ decoder = "none" /\ minimized = FALSE
  /\ cleanup = "idle" /\ error = FALSE /\ dialog = FALSE
  /\ sig = [last |-> 0, quit |-> FALSE]
  /\ hdrRace = FALSE
  /\ left \in Budgets

-----------------------------------------------------------------------------
(* The SDL event queue.  SDL keeps it while a subsystem that needs events  *)
(* is initialized and empties it when the last one quits.                  *)

\* The Windows build initializes SDL video in main() for the program's life.
KeepsVideo == platform = "windows"

\* The builds whose toggleFullscreen() destroys the decoder first.
DestroysOnToggle == platform \in {"windows", "mac"}

\* SDL_PushEvent(): the queue after an event of type e.
Pushed(q, e) == IF KeepsVideo \/ video \/ nav THEN Append(q, e) ELSE q

\* delete m_VideoDecoder: resets it asked for are now asked for by nobody.
Orphaned(q) == [i \in DOMAIN q |-> IF q[i] = "RESET" THEN "STALE" ELSE q[i]]

\* SDL_FlushEvent() of the reset requests: what is left of the queue.
Flushed(q) ==
  LET Kept[i \in 0..Len(q)] ==
        IF i = 0 THEN <<>>
        ELSE IF q[i] \in {"RESET", "STALE"} THEN Kept[i - 1] ELSE Append(Kept[i - 1], q[i])
  IN  Kept[Len(q)]

\* SDL_QuitSubSystem(SDL_INIT_VIDEO) at the end of a session.
AfterVideoQuit(q) == IF KeepsVideo \/ nav THEN q ELSE <<>>

\* The lock is held from the old decoder's destruction to the unlock.
DecoderLocked == main \in {"recreate", "unlock"}

\* The states in which the main thread runs Qt's event loop.
InQt == main \in {"ui", "launching", "connecting", "returning"}

InLoop == main \in {"loop", "recreate", "unlock"}

HdrMode(enabled) == IF enabled THEN "hdr" ELSE "sdr"

-----------------------------------------------------------------------------
(* StreamSegue.qml and Session::start().                                   *)

\* sessionFinished(): the gamepad is the GUI's again; the program quits
\* after a command line stream that left no error, or shows the error.
Finished ==
  /\ nav' = TRUE
  /\ main' = IF cli /\ ~error THEN "exited" ELSE "ui"
  /\ dialog' = error
  /\ UNCHANGED error

\* The user, or the command line, opens a StreamSegue for a new Session.
NewStream ==
  /\ main = "ui" /\ ~dialog /\ left.sessions > 0
  /\ cur' = cur + 1
  /\ left' = [left EXCEPT !.sessions = @ - 1]

\* streamLoader.onLoaded when session.initialize() fails, with a message
\* from validateLaunch() or without one.
InitializeFails ==
  /\ NewStream
  /\ \E message \in BOOLEAN :
       /\ error' = (error \/ message)
       /\ dialog' = error'
       /\ main' = IF cli /\ ~error' THEN "exited" ELSE "ui"
  /\ queue' = IF KeepsVideo THEN queue ELSE <<>>
  /\ nav' = TRUE
  /\ UNCHANGED <<fixed, quitAfter, active, sem, ses, async, conn, posted, video,
                 decoder, minimized, cleanup, sig, hdrRace>>

\* streamLoader.onLoaded: the gamepad is given up, the session holds video.
Initialize ==
  /\ NewStream
  /\ main' = "launching"
  /\ nav' = FALSE /\ video' = TRUE
  /\ queue' = IF KeepsVideo THEN queue ELSE <<>>
  /\ UNCHANGED <<fixed, quitAfter, active, sem, ses, async, conn, posted, decoder,
                 minimized, cleanup, ui, sig, hdrRace>>

\* startSessionTimer fires and start() waits for the semaphore.
StartTimer ==
  /\ main = "launching"
  /\ main' = "acquire"
  /\ UNCHANGED <<fixed, quitAfter, cur, active, sem, ses, async, conn, posted, queue,
                 video, nav, decoder, minimized, cleanup, ui, sig, hdrRace, left>>

\* The rest of start(): this session is active and its thread connects.
Start ==
  /\ main = "acquire" /\ sem > 0
  /\ sem' = sem - 1 /\ active' = cur
  /\ async' = "http" /\ main' = "connecting"
  /\ UNCHANGED <<fixed, quitAfter, cur, ses, conn, posted, queue, video, nav, decoder,
                 minimized, cleanup, ui, sig, hdrRace, left>>

-----------------------------------------------------------------------------
(* startConnectionAsync() and the connection it makes.                     *)

asyncOnly == <<fixed, quitAfter, main, cur, active, sem, queue, video, nav, decoder,
               minimized, cleanup, ui, sig, hdrRace, left>>

\* http.startApp() throws: displayLaunchError(), return false.
StartAppFails ==
  /\ async = "http"
  /\ async' = "idle" /\ posted' = posted \o <<"error", "exec">>
  /\ UNCHANGED <<asyncOnly, ses, conn>>

\* http.startApp() returns and LiStartConnection() begins.
StartApp ==
  /\ async = "http"
  /\ async' = "li" /\ conn' = [NoConn EXCEPT !.phase = "starting"]
  /\ UNCHANGED <<asyncOnly, ses, posted>>

\* A stage fails, by itself or because it was interrupted: clStageFailed()
\* has told the GUI when LiStartConnection() returns.
StageFails ==
  /\ async = "li"
  /\ async' = "idle" /\ conn' = [conn EXCEPT !.phase = "down"]
  /\ posted' = posted \o <<"error", "exec">>
  /\ UNCHANGED <<asyncOnly, ses>>

\* LiStartConnection() returns 0; an interrupt may have come too late for it.
Connected ==
  /\ async = "li"
  /\ async' = "wait" /\ conn' = [conn EXCEPT !.phase = "up"]
  /\ UNCHANGED <<asyncOnly, ses, posted>>

\* Mutant: only a frame ends the wait.
FirstFrameWait_frameOnly ==
  /\ async = "wait"
  /\ conn.frame
  /\ ses' = [ses EXCEPT ![active].ok = conn.frame]
  /\ async' = "idle" /\ posted' = Append(posted, "exec")
  /\ UNCHANGED <<asyncOnly, conn>>

\* The wait for the first frame ends; the frame decides.
FirstFrameWait ==
  /\ async = "wait"
  /\ conn.frame \/ ses[active].cancelled
  /\ ses' = [ses EXCEPT ![active].ok = conn.frame]
  /\ async' = "idle" /\ posted' = Append(posted, "exec")
  /\ UNCHANGED <<asyncOnly, conn>>

-----------------------------------------------------------------------------
(* Callbacks of moonlight-common-c.                                        *)

\* External: the first complete frame is reassembled.
FirstFrame ==
  /\ conn.phase = "up" /\ ~conn.frame /\ ~conn.term
  /\ conn' = [conn EXCEPT !.frame = TRUE]
  /\ UNCHANGED <<asyncOnly, ses, async, posted>>

\* Mutant: the SDL loop is not told.
ConnectionTerminated_noQuit(graceful) ==
  /\ conn.phase = "up" /\ ~conn.term
  /\ conn' = [conn EXCEPT !.term = TRUE]
  /\ ses' = [ses EXCEPT
       ![active].unexpected = @ \/ ~graceful,
       ![active].cancelled = TRUE]
  /\ posted' = IF graceful THEN posted ELSE Append(posted, "error")
  /\ queue' = queue
  /\ UNCHANGED <<fixed, quitAfter, main, cur, active, sem, async, video, nav, decoder,
                 minimized, cleanup, ui, sig, hdrRace, left>>

\* clConnectionTerminated(): an error is shown unless the end is graceful;
\* the SDL loop is told to quit and the wait for a frame is released.
ConnectionTerminated(graceful) ==
  /\ conn.phase = "up" /\ ~conn.term
  /\ conn' = [conn EXCEPT !.term = TRUE]
  /\ ses' = [ses EXCEPT
       ![active].unexpected = @ \/ ~graceful,
       ![active].cancelled = TRUE]
  /\ posted' = IF graceful THEN posted ELSE Append(posted, "error")
  /\ queue' = Pushed(queue, "QUIT")
  /\ UNCHANGED <<fixed, quitAfter, main, cur, active, sem, async, video, nav, decoder,
                 minimized, cleanup, ui, sig, hdrRace, left>>

\* The host changes its mode and clSetHdrMode() passes it to the decoder,
\* unless the main thread has the lock.
SetHdrMode ==
  /\ conn.phase = "up" /\ left.hdr > 0
  /\ left' = [left EXCEPT !.hdr = @ - 1]
  /\ conn' = [conn EXCEPT !.hdr = ~@]
  /\ decoder' = IF DecoderLocked \/ decoder = "none" THEN decoder ELSE HdrMode(~conn.hdr)
  /\ hdrRace' = (main = "unlock" \/ (hdrRace /\ DecoderLocked))
  /\ UNCHANGED <<fixed, quitAfter, main, cur, active, sem, ses, async, posted, queue,
                 video, nav, minimized, cleanup, ui, sig>>

-----------------------------------------------------------------------------
(* Session::exec().                                                        *)

\* Mutant: the decoder is left to the Session's destructor.
EndExec_keepsDecoder(q) ==
  /\ decoder' = decoder /\ video' = FALSE
  /\ queue' = AfterVideoQuit(Orphaned(q))
  /\ cleanup' = "run" /\ main' = "returning"

\* What is common to the ends of exec(): the input handler and the decoder
\* are destroyed, video is given back and the clean-up task is dispatched.
EndExec(q) ==
  /\ decoder' = "none" /\ video' = FALSE
  /\ queue' = AfterVideoQuit(Orphaned(q))
  /\ cleanup' = "run" /\ main' = "returning"

\* exec() when the connection failed, or when no window could be created.
ExecFails ==
  /\ main = "connecting" /\ posted # <<>> /\ Head(posted) = "exec"
  /\ posted' = Tail(posted)
  /\ EndExec(queue)
  /\ UNCHANGED <<fixed, quitAfter, cur, active, sem, ses, async, conn, nav, minimized,
                 ui, sig, hdrRace, left>>

\* exec() up to the SDL loop: the window is shown; from here on a quit
\* event is expected.
EnterLoop ==
  /\ main = "connecting" /\ posted # <<>> /\ Head(posted) = "exec"
  /\ ses[cur].ok
  /\ posted' = Tail(posted)
  /\ queue' = Pushed(queue, "SHOWN")
  /\ ses' = [ses EXCEPT ![cur].unexpected = FALSE]
  /\ main' = "loop" /\ minimized' = FALSE
  /\ UNCHANGED <<fixed, quitAfter, cur, active, sem, async, conn, video, nav, decoder,
                 cleanup, ui, sig, hdrRace, left>>

loopOnly == <<fixed, cur, active, sem, async, conn, posted, nav, sig, left>>

\* The event the SDL loop takes next.
Takes(types) == main = "loop" /\ queue # <<>> /\ Head(queue) \in types

\* SDL_QUIT: leave the loop.
HandleQuit ==
  /\ Takes({"QUIT"})
  /\ EndExec(Tail(queue))
  /\ UNCHANGED <<loopOnly, quitAfter, ses, minimized, ui, hdrRace>>

\* SDL_CODE_FLUSH_WINDOW_EVENT_BARRIER.
HandleBarrier ==
  /\ Takes({"BARRIER"})
  /\ queue' = Tail(queue)
  /\ ses' = [ses EXCEPT ![cur].flush = @ - 1]
  /\ UNCHANGED <<loopOnly, quitAfter, main, video, decoder, minimized, cleanup, ui, hdrRace>>

\* performSpecialKeyCombo() for the two quit combos; the second one also
\* quits the host's app and exits.
HandleQuitCombo ==
  /\ Takes({"KEY_QUIT", "KEY_EXIT"})
  /\ queue' = Pushed(Tail(queue), "QUIT")
  /\ LET exits == Head(queue) = "KEY_EXIT" IN
       /\ ses' = [ses EXCEPT ![cur].exit = @ \/ exits]
       /\ quitAfter' = (quitAfter \/ exits)
  /\ UNCHANGED <<loopOnly, main, video, decoder, minimized, cleanup, ui, hdrRace>>

\* toggleFullscreen(): the window system answers with the new size.
ToggleFullscreen ==
  /\ Takes({"KEY_FULL"})
  /\ decoder' = IF DestroysOnToggle THEN "none" ELSE decoder
  /\ queue' = Pushed(IF DestroysOnToggle THEN Orphaned(Tail(queue)) ELSE Tail(queue), "SIZE")
  /\ UNCHANGED <<loopOnly, quitAfter, ses, main, video, minimized, cleanup, ui, hdrRace>>

\* Mutant: SDL_WINDOWEVENT_RESIZED, which a toggle need not send, is waited for.
Recreating_shownOnly(e) ==
  /\ \/ e = "DISPLAY"
     \/ /\ e = "SHOWN" /\ decoder = "none"
        /\ ~(platform = "windows" /\ minimized)
  /\ ses[cur].flush <= 0

\* The window events that recreate the decoder: a resize, a first showing,
\* another display.  On Windows the first two do not while minimized.
Recreating(e) ==
  /\ \/ e = "DISPLAY"
     \/ /\ e = "SIZE" \/ (e = "SHOWN" /\ decoder = "none")
        /\ ~(platform = "windows" /\ minimized)
  /\ ses[cur].flush <= 0

\* A window event that changes nothing, or that the renderer adapts to.
IgnoreWindowEvent ==
  /\ Takes({"SHOWN", "SIZE", "DISPLAY"})
  /\ Recreating(Head(queue)) => decoder # "none"
  /\ queue' = Tail(queue)
  /\ UNCHANGED <<loopOnly, quitAfter, ses, main, video, decoder, minimized, cleanup, ui, hdrRace>>

\* Mutant: reset requests of the old decoder are not flushed.
DestroyDecoder_noFlush ==
  /\ \/ Takes({"SHOWN", "SIZE", "DISPLAY"}) /\ Recreating(Head(queue))
     \/ Takes({"RESET", "STALE"})
  /\ decoder' = "none" /\ main' = "recreate"
  /\ queue' = Pushed(Orphaned(Tail(queue)), "BARRIER")
  /\ ses' = [ses EXCEPT ![cur].flush = @ + 1]
  /\ UNCHANGED <<loopOnly, quitAfter, video, minimized, cleanup, ui, hdrRace>>

\* The window event or reset request that recreates the decoder: lock,
\* delete, barrier behind what is queued, pending reset requests flushed.
DestroyDecoder ==
  /\ \/ Takes({"SHOWN", "SIZE", "DISPLAY"}) /\ Recreating(Head(queue))
     \/ Takes({"RESET", "STALE"})
  /\ decoder' = "none" /\ main' = "recreate"
  /\ queue' = Flushed(Pushed(Tail(queue), "BARRIER"))
  /\ ses' = [ses EXCEPT ![cur].flush = @ + 1]
  /\ UNCHANGED <<loopOnly, quitAfter, video, minimized, cleanup, ui, hdrRace>>

\* Mutant: the callback missed during recreation is not made up for.
ChooseDecoder_noHdr ==
  /\ main = "recreate"
  /\ decoder' = HdrMode(FALSE) /\ hdrRace' = FALSE
  /\ main' = "unlock"
  /\ \/ UNCHANGED <<queue, ses>>
     \/ /\ queue' = Pushed(queue, "BARRIER")
        /\ ses' = [ses EXCEPT ![cur].flush = @ + 1]
  /\ UNCHANGED <<loopOnly, quitAfter, video, minimized, cleanup, ui>>

\* chooseDecoder() succeeds (some renderers flush window events once more)
\* and the decoder is given the host's HDR mode.
ChooseDecoder ==
  /\ main = "recreate"
  /\ decoder' = HdrMode(conn.hdr) /\ hdrRace' = FALSE
  /\ main' = "unlock"
  /\ \/ UNCHANGED <<queue, ses>>
     \/ /\ queue' = Pushed(queue, "BARRIER")
        /\ ses' = [ses EXCEPT ![cur].flush = @ + 1]
  /\ UNCHANGED <<loopOnly, quitAfter, video, minimized, cleanup, ui>>

\* SDL_UnlockMutex(m_DecoderLock).
UnlockDecoder ==
  /\ main = "unlock"
  /\ main' = "loop"
  /\ UNCHANGED <<loopOnly, quitAfter, ses, queue, video, decoder, minimized, cleanup, ui, hdrRace>>

\* chooseDecoder() fails: unlock, displayLaunchError(), leave the loop.
ChooseDecoderFails ==
  /\ main = "recreate"
  /\ error' = TRUE
  /\ EndExec(queue)
  /\ UNCHANGED <<loopOnly, quitAfter, ses, minimized, dialog, hdrRace>>

-----------------------------------------------------------------------------
(* DeferredSessionCleanupTask, on the thread pool.                         *)

cleanupOnly == <<fixed, quitAfter, main, cur, async, queue, video, nav, decoder,
                 minimized, ui, sig, hdrRace, left>>

\* Decide whether to quit the host's app, and tell the GUI.
Cleanup ==
  /\ cleanup = "run"
  /\ \/ /\ ~ses[active].unexpected /\ quitAfter
        /\ cleanup' = "stop_quit" /\ posted' = Append(posted, "quitStarting")
     \/ /\ ses[active].unexpected \/ ~quitAfter
        /\ cleanup' = "stop" /\ posted' = Append(posted, "finished")
  /\ UNCHANGED <<cleanupOnly, active, sem, ses, conn>>

\* LiStopConnection().
StopConnection ==
  /\ cleanup \in {"stop", "stop_quit"}
  /\ conn' = [conn EXCEPT !.phase = "down"]
  /\ cleanup' = IF cleanup = "stop" THEN "exit" ELSE "quit"
  /\ UNCHANGED <<cleanupOnly, active, sem, ses, posted>>

\* http.quitApp(), whatever it answers.
QuitApp ==
  /\ cleanup = "quit"
  /\ posted' = Append(posted, "finished") /\ cleanup' = "exit"
  /\ UNCHANGED <<cleanupOnly, active, sem, ses, conn>>

\* The end of run() and the destructor: quit if asked to, let go of the
\* session, which readyForDeletion() lets the GUI delete.
Release ==
  /\ cleanup = "exit"
  /\ posted' = IF ses[active].exit THEN Append(posted, "quit") ELSE posted
  /\ active' = 0 /\ sem' = sem + 1 /\ cleanup' = "idle"
  /\ ses' = [ses EXCEPT ![active] = NewSession] /\ conn' = NoConn
  /\ UNCHANGED cleanupOnly

-----------------------------------------------------------------------------
(* The Qt loop.                                                            *)

qtOnly == <<fixed, quitAfter, cur, active, sem, ses, async, conn, video, decoder,
            minimized, cleanup, sig, hdrRace, left>>

\* displayLaunchError() and stageFailed() of StreamSegue.
OnError ==
  /\ InQt /\ posted # <<>> /\ Head(posted) = "error"
  /\ posted' = Tail(posted) /\ error' = TRUE
  /\ UNCHANGED <<qtOnly, main, queue, nav, dialog>>

\* quitStarting(): the segue is replaced, which gives the gamepad back.
OnQuitStarting ==
  /\ InQt /\ posted # <<>> /\ Head(posted) = "quitStarting"
  /\ posted' = Tail(posted) /\ nav' = TRUE
  /\ UNCHANGED <<qtOnly, main, queue, ui>>

OnFinished ==
  /\ InQt /\ posted # <<>> /\ Head(posted) = "finished"
  /\ posted' = Tail(posted)
  /\ Finished
  /\ UNCHANGED <<qtOnly, queue>>

\* QCoreApplication::quit() of another thread.
OnQuit ==
  /\ InQt /\ posted # <<>> /\ Head(posted) = "quit"
  /\ posted' = Tail(posted) /\ main' = "exited"
  /\ UNCHANGED <<qtOnly, queue, nav, ui>>

\* streamSegueErrorDialog.onClosed.
CloseDialog ==
  /\ main = "ui" /\ dialog
  /\ dialog' = FALSE /\ error' = FALSE
  /\ main' = IF cli THEN "exited" ELSE "ui"
  /\ UNCHANGED <<qtOnly, posted, queue, nav>>

\* onPollingTimerFired() while the GUI has the focus: every event is taken;
\* a quit event quits the program.
PollGamepads ==
  /\ InQt /\ nav /\ queue # <<>>
  /\ queue' = <<>>
  /\ main' = IF Contains(queue, "QUIT") THEN "exited" ELSE main
  /\ UNCHANGED <<qtOnly, posted, nav, ui>>

-----------------------------------------------------------------------------
(* The signal thread and the window system.                                *)

\* signalHandlerThread(), in the Unix builds: the first signal interrupts
\* the active session or quits the program, a second one exits at once.
\* LiInterruptConnection() makes the stage that runs fail (StageFails).
Signal(term) ==
  /\ main # "exited" /\ platform # "windows" /\ left.signals > 0
  /\ left' = [left EXCEPT !.signals = @ - 1]
  /\ LET again == sig.quit \/ (active # 0 /\ active = sig.last) IN
     IF again
     THEN /\ main' = "exited"
          /\ UNCHANGED <<ses, conn, posted, queue, sig>>
     ELSE IF active = 0
     THEN /\ posted' = Append(posted, "quit")
          /\ sig' = [sig EXCEPT !.quit = TRUE]
          /\ UNCHANGED <<main, ses, conn, queue>>
     ELSE /\ sig' = [last |-> active, quit |-> term]
          /\ ses' = [ses EXCEPT ![active].exit = @ \/ term, ![active].cancelled = TRUE]
          /\ queue' = Pushed(queue, "QUIT")
          /\ UNCHANGED <<main, conn, posted>>
  /\ UNCHANGED <<fixed, quitAfter, cur, active, sem, async, video, nav, decoder,
                 minimized, cleanup, ui, hdrRace>>

windowOnly == <<fixed, quitAfter, main, cur, active, sem, ses, async, conn, posted,
                video, nav, decoder, cleanup, ui, sig, hdrRace>>

\* External: the user presses a combo, closes, resizes or moves the window.
Input(e) ==
  /\ InLoop /\ left.inputs > 0
  /\ left' = [left EXCEPT !.inputs = @ - 1]
  /\ queue' = Pushed(queue, e)
  /\ UNCHANGED <<windowOnly, minimized>>

\* External: the window is minimized, or restored to a size it reports.
Minimize ==
  /\ InLoop /\ left.inputs > 0
  /\ left' = [left EXCEPT !.inputs = @ - 1]
  /\ minimized' = ~minimized
  /\ queue' = IF minimized THEN Pushed(queue, "SIZE") ELSE queue
  /\ UNCHANGED windowOnly

\* A renderer loses its device and asks for a new decoder.
DeviceLost ==
  /\ InLoop /\ decoder # "none" /\ left.inputs > 0
  /\ left' = [left EXCEPT !.inputs = @ - 1]
  /\ queue' = Pushed(queue, "RESET")
  /\ UNCHANGED <<windowOnly, minimized>>

\* Nothing is left to do.
Idle ==
  /\ \/ main = "exited"
     \/ main = "ui" /\ left.sessions = 0 /\ ~dialog /\ posted = <<>> /\ cleanup = "idle"
  /\ UNCHANGED vars

-----------------------------------------------------------------------------
Qt == OnError \/ OnQuitStarting \/ OnFinished \/ OnQuit \/ ExecFails \/ EnterLoop

Loop == HandleQuit \/ HandleBarrier \/ HandleQuitCombo \/ ToggleFullscreen
        \/ IgnoreWindowEvent \/ DestroyDecoder

Decoder == ChooseDecoder \/ ChooseDecoderFails \/ UnlockDecoder

Connect == StartAppFails \/ StartApp \/ StageFails \/ Connected \/ FirstFrameWait

CleanupTask == Cleanup \/ StopConnection \/ QuitApp \/ Release

Host == FirstFrame \/ (\E g \in BOOLEAN : ConnectionTerminated(g))

Step ==
  \/ InitializeFails \/ Initialize \/ StartTimer \/ Start
  \/ Connect \/ Host \/ SetHdrMode
  \/ Qt \/ Loop \/ Decoder \/ CleanupTask
  \/ CloseDialog \/ PollGamepads
  \/ \E term \in BOOLEAN : Signal(term)
  \/ \E e \in {"QUIT", "SIZE", "DISPLAY", "KEY_QUIT", "KEY_EXIT", "KEY_FULL"} : Input(e)
  \/ Minimize \/ DeviceLost

Next == (main # "exited" /\ Step) \/ Idle

Spec == Init /\ [][Next]_vars

\* Every thread goes on; the host sends a frame or the library's timeout
\* terminates the connection.  The user and the host owe nothing else.
Fairness ==
  /\ WF_vars(main # "exited" /\ (StartTimer \/ Start))
  /\ WF_vars(main # "exited" /\ Qt)
  /\ WF_vars(main # "exited" /\ Loop)
  /\ WF_vars(main # "exited" /\ Decoder)
  /\ WF_vars(main # "exited" /\ Connect)
  /\ WF_vars(main # "exited" /\ CleanupTask)
  /\ WF_vars(main # "exited" /\ async = "wait" /\ Host)

FairSpec == Spec /\ Fairness

-----------------------------------------------------------------------------
TypeOK ==
  /\ platform \in Platforms /\ cli \in BOOLEAN /\ quitAfter \in BOOLEAN
  /\ main \in {"ui", "launching", "acquire", "connecting", "loop", "recreate",
               "unlock", "returning", "exited"}
  /\ cur \in 0..MaxSessions /\ active \in 0..MaxSessions /\ sem \in 0..1
  /\ \A s \in Id :
       /\ ses[s].flush \in Int
       /\ \A f \in DOMAIN NewSession \ {"flush"} : ses[s][f] \in BOOLEAN
  /\ async \in {"idle", "http", "li", "wait"}
  /\ conn.phase \in {"down", "starting", "up"}
  /\ posted \in Seq(Post) /\ queue \in Seq(EventType)
  /\ decoder \in {"none", "sdr", "hdr"}
  /\ cleanup \in {"idle", "run", "stop", "stop_quit", "quit", "exit"}
  /\ sig.last \in 0..MaxSessions

\* The connection belongs to the active session, and the next session waits:
\* moonlight-common-c's callbacks, which use s_ActiveSession, find the
\* session that connected, and its decoder lives inside the connection.
OneStream ==
  /\ conn.phase # "down" => active # 0 /\ sem = 0
  /\ decoder # "none" => conn.phase = "up" /\ active = cur

\* The types, and one stream at a time.
SessionInv == TypeOK /\ OneStream

\* While a decoder lives, no reset request of a deleted one is pending: it
\* would throw the new decoder away.
NoStaleReset == decoder # "none" => ~Contains(queue, "STALE")

\* The barriers among the first i events of the queue q.
Barriers(q, i) == Cardinality({j \in 1..i : q[j] = "BARRIER"})

\* A position of the queue that will bring the decoder back: a reset
\* request, or a window event that no barrier behind it makes the loop drop.
BringsBack(i) ==
  \/ queue[i] \in {"RESET", "STALE", "QUIT"}
  \/ /\ queue[i] \in {"SHOWN", "SIZE"}
     /\ ses[cur].flush <= Barriers(queue, i)

\* The picture comes back: in the loop without a decoder, and not minimized,
\* something that recreates it, or ends the stream, is on its way.
DecoderComesBack ==
  main = "loop" /\ decoder = "none" /\ ~minimized => \E i \in DOMAIN queue : BringsBack(i)

\* The decoder has the host's HDR mode whenever the lock is free, although
\* callbacks are dropped while it is held; but for a change that comes
\* between ChooseDecoder and the unlock.
HdrIsApplied == main = "loop" /\ decoder # "none" /\ ~hdrRace => decoder = HdrMode(conn.hdr)

\* Whatever a session is waiting for, it stops once it is interrupted or
\* its connection has ended, and the next one can start.
SessionEnds == \A s \in Id : ses[s].cancelled ~> active # s \/ main = "exited"

\* Preparing a stream ends: no launch hangs in start() or in the wait for
\* the first frame.
LaunchEnds == main \in {"launching", "acquire", "connecting"} ~> main \in {"loop", "returning", "exited"}
=============================================================================
