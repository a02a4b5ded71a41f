-------------------------------- MODULE Pacer --------------------------------
(***************************************************************************)
(* The way of a video frame through the client: the decoder thread         *)
(* (FFmpegVideoDecoder) gets it from the codec and gives it to the Pacer,   *)
(* whose V-sync thread moves it from the pacing to the render queue, from  *)
(* where the render thread, or the main thread, shows it.  The main thread *)
(* stops the three threads one after the other when it deletes the decoder.*)
(*                                                                         *)
(* A step is what a thread does from taking m_FrameQueueLock to giving it  *)
(* back.  The wake-ups, which the code sends without the lock, are steps   *)
(* of their own.  The codec, the host and the display are external.        *)
(***************************************************************************)
EXTENDS Naturals, Sequences, FiniteSets

CONSTANTS
  Modes,          \* the renderers to consider: is there a V-sync source, a render
                  \* thread, RENDERER_ATTRIBUTE_NO_BUFFERING, a stream that may have
                  \* more frames than the display shows; and, as a bound, how many
                  \* decode units the host sends
  HistoryLen,     \* frames in 500 ms, the length of the two histories
  ResetThreshold, \* FAILED_DECODES_RESET_THRESHOLD
  CodecDepth,     \* external: frames the codec holds back at most
  MaxUnits        \* bound: decode units the host sends, in any mode

ASSUME PacerAssumption ==
  /\ Modes \subseteq [vsync : BOOLEAN, thread : BOOLEAN, noBuffering : BOOLEAN,
                    lenient : BOOLEAN, units : 0..MaxUnits]
  /\ HistoryLen \in Nat \ {0} /\ ResetThreshold \in Nat \ {0} /\ CodecDepth \in Nat \ {0}
  /\ MaxUnits \in Nat

\* Mutant: one frame more.
MAX_QUEUED_FRAMES_off == 4

MAX_QUEUED_FRAMES == 3

PACER_MAX_OUTSTANDING_FRAMES == 3 + 1 + 1

VARIABLES
  mode,
  main,     \* where the main thread is: "run", or which step of the shutdown
  units,    \* decode units the host has sent
  started,  \* m_FramesIn # 0
  pending,  \* m_FramesIn - m_FramesOut, and the length of m_FrameInfoQueue
  codec,    \* external: frames inside the codec
  fails,    \* m_ConsecutiveFailedDecodes
  quit,     \* m_DecoderThreadShouldQuit
  resets,   \* SDL_RENDER_DEVICE_RESET events this decoder has pushed
  out,      \* frames it has put out; a frame is its number
  dec, vs, rt, \* where the decoder, V-sync and render threads are
  pacing, render,       \* m_PacingQueue, m_RenderQueue
  pacingHist, renderHist, \* the histories, of whether the queue was short
  vsTarget, rtTarget,   \* frameDropTarget of the two trimming loops
  vsHand, rtHand,       \* the frame a thread has taken out of a queue, 0 for none
  deferred, \* m_DeferredFreeFrame, 0 for nullptr
  live,     \* frames not freed
  events,   \* SDL_CODE_FRAME_READY events in the SDL queue
  stopping, \* m_Stopping
  missed,   \* history: the wake-up of the render thread came before its wait
  crashed   \* a frame was taken from an empty queue

decVars == <<units, started, pending, codec, fails, quit, resets, out>>
vsVars == <<pacingHist, vsTarget, vsHand>>
rtVars == <<renderHist, rtTarget, rtHand, deferred>>
endVars == <<main, stopping, missed>>
vars == <<mode, decVars, vsVars, rtVars, endVars, dec, vs, rt, pacing, render, live, events, crashed>>

Init ==
  /\ mode \in Modes
  /\ main = "run" /\ units = 0 /\ started = FALSE /\ pending = 0 /\ codec = 0
  /\ fails = 0 /\ quit = FALSE /\ resets = 0 /\ out = 0
  /\ dec = "run" /\ rt = "top"
  /\ vs = IF mode.vsync THEN "wait" ELSE "ended"
  /\ pacing = <<>> /\ render = <<>> /\ pacingHist = <<>> /\ renderHist = <<>>
  /\ vsTarget = 0 /\ rtTarget = 0 /\ vsHand = 0 /\ rtHand = 0 /\ deferred = 0
  /\ live = {} /\ events = 0
  /\ stopping = FALSE /\ missed = FALSE /\ crashed = FALSE

-----------------------------------------------------------------------------
\* The render thread keeps m_FrameQueueLock from its test to its wait.
LockFree == rt # "sleep"

Freed(f) == live \ {f}

\* dropFrameForEnqueue() and enqueue().
Enqueued(q, f) == Append(IF Len(q) = MAX_QUEUED_FRAMES THEN Tail(q) ELSE q, f)

\* The frame dropFrameForEnqueue() frees.
Overflow(q) == IF Len(q) = MAX_QUEUED_FRAMES THEN {Head(q)} ELSE {}

\* A history after the queue was found short, or not.
Noted(hist, short) == Append(IF Len(hist) = HistoryLen THEN Tail(hist) ELSE hist, short)

SomeShort(hist) == \E i \in DOMAIN hist : hist[i]

\* wakeOne() or wakeAll() of m_RenderQueueNotEmpty.
WakeRender == rt' = IF rt = "asleep" THEN "test" ELSE rt

\* wakeOne() or wakeAll() of m_PacingQueueNotEmpty.
WakeVsync == vs' = IF vs = "frame" THEN "woken" ELSE vs

-----------------------------------------------------------------------------
(* The decoder thread.                                                     *)

\* One more failed decode: at the threshold a reset is asked for, and the
\* decoder thread takes no more data.
CountFailure ==
  /\ fails' = fails + 1
  /\ IF fails + 1 = ResetThreshold
     THEN resets' = resets + 1 /\ quit' = TRUE
     ELSE UNCHANGED <<resets, quit>>

\* submitDecodeUnit() of a unit that LiWaitForNextVideoFrame() or
\* LiPollNextVideoFrame() returned.
SubmitDecodeUnit(idr) ==
  /\ dec = "run" /\ ~quit /\ units < mode.units
  /\ units' = units + 1
  /\ \/ ~started /\ ~idr /\ UNCHANGED <<started, pending, codec, fails, quit, resets>>
     \/ /\ started \/ idr
        /\ \/ CountFailure /\ UNCHANGED <<started, pending, codec>>
           \/ /\ codec < CodecDepth
              /\ started' = TRUE /\ pending' = pending + 1 /\ codec' = codec + 1
              /\ UNCHANGED <<fails, quit, resets>>
  /\ UNCHANGED <<mode, out, vsVars, rtVars, endVars, dec, vs, rt, pacing, render, live, events, crashed>>

\* Mutant: the frame goes past those that wait for their V-sync.
SubmitFrame_direct(f) ==
  IF mode.vsync /\ Len(pacing) < MAX_QUEUED_FRAMES
  THEN /\ pacing' = Enqueued(pacing, f)
       /\ live' = (live \union {f}) \ Overflow(pacing)
       /\ UNCHANGED render
  ELSE /\ render' = Enqueued(render, f)
       /\ live' = (live \union {f}) \ Overflow(render)
       /\ UNCHANGED pacing

\* Pacer::submitFrame() up to the unlock.
SubmitFrame(f) ==
  IF mode.vsync
  THEN /\ pacing' = Enqueued(pacing, f)
       /\ live' = (live \union {f}) \ Overflow(pacing)
       /\ UNCHANGED render
  ELSE /\ render' = Enqueued(render, f)
       /\ live' = (live \union {f}) \ Overflow(render)
       /\ UNCHANGED pacing

\* avcodec_receive_frame() returns a frame.
ReceiveFrame ==
  /\ dec = "run" /\ ~quit /\ pending > 0 /\ codec > 0 /\ LockFree
  /\ pending' = pending - 1 /\ codec' = codec - 1 /\ fails' = 0
  /\ out' = out + 1
  /\ SubmitFrame(out + 1)
  /\ dec' = "notify"
  /\ UNCHANGED <<mode, units, started, quit, resets, vsVars, rtVars, endVars, vs, rt, events, crashed>>

\* avcodec_receive_frame() fails; the codec may have lost a frame, which
\* m_FramesIn still counts.
ReceiveFails ==
  /\ dec = "run" /\ ~quit /\ pending > 0
  /\ codec' \in {codec} \union (IF codec > 0 THEN {codec - 1} ELSE {})
  /\ CountFailure
  /\ UNCHANGED <<mode, units, started, pending, out, vsVars, rtVars, endVars, dec, vs, rt,
                 pacing, render, live, events, crashed>>

\* What a thread does after it has put a frame into the render queue.
NotifyRender ==
  IF mode.thread
  THEN WakeRender /\ UNCHANGED events
  ELSE events' = events + 1 /\ UNCHANGED rt

\* Mutant: nobody is told of the frame.
DecNotify_silent ==
  /\ dec = "notify"
  /\ dec' = "run"
  /\ UNCHANGED <<vs, rt, events>>
  /\ UNCHANGED <<mode, decVars, vsVars, rtVars, endVars, pacing, render, live, crashed>>

\* The end of submitFrame(), after the unlock.
DecNotify ==
  /\ dec = "notify"
  /\ dec' = "run"
  /\ IF mode.vsync THEN WakeVsync /\ UNCHANGED <<rt, events>> ELSE NotifyRender /\ UNCHANGED vs
  /\ UNCHANGED <<mode, decVars, vsVars, rtVars, endVars, pacing, render, live, crashed>>

DecEnd ==
  /\ dec = "run" /\ quit
  /\ dec' = "ended"
  /\ UNCHANGED <<mode, decVars, vsVars, rtVars, endVars, vs, rt, pacing, render, live, events, crashed>>

-----------------------------------------------------------------------------
(* The V-sync thread.                                                      *)

vsOnly == <<mode, decVars, rtVars, endVars, dec, crashed>>

\* The display's V-sync, or the 100 ms timeout; m_Stopping ends the loop.
Vsync ==
  /\ vs = "wait"
  /\ vs' = IF stopping THEN "ended" ELSE "handle"
  /\ UNCHANGED <<vsOnly, vsVars, rt, pacing, render, live, events>>

\* handleVsync() up to its trimming loop.
HandleVsync ==
  /\ vs = "handle" /\ LockFree
  /\ IF mode.lenient
     THEN /\ vsTarget' = IF SomeShort(pacingHist) THEN 3 ELSE 1
          /\ pacingHist' = Noted(pacingHist, Len(pacing) <= 1)
     ELSE vsTarget' = 1 /\ UNCHANGED pacingHist
  /\ vs' = "trim"
  /\ UNCHANGED <<vsOnly, vsHand, rt, pacing, render, live, events>>

\* The trimming loop takes a frame, which it frees without the lock.
TrimPacing ==
  /\ vs = "trim" /\ LockFree /\ Len(pacing) > vsTarget
  /\ vsHand' = Head(pacing) /\ pacing' = Tail(pacing)
  /\ vs' = "free"
  /\ UNCHANGED <<vsOnly, pacingHist, vsTarget, rt, render, live, events>>

\* Mutant: the dropped frame is not freed.
FreePacing_leak ==
  /\ vs = "free"
  /\ vsHand' = 0 /\ vs' = "trim"
  /\ UNCHANGED <<vsOnly, pacingHist, vsTarget, rt, pacing, render, live, events>>

FreePacing ==
  /\ vs = "free"
  /\ live' = Freed(vsHand) /\ vsHand' = 0 /\ vs' = "trim"
  /\ UNCHANGED <<vsOnly, pacingHist, vsTarget, rt, pacing, render, events>>

\* enqueueFrameForRenderingAndUnlock(m_PacingQueue.dequeue()) up to the unlock.
MoveFrame ==
  /\ render' = Enqueued(render, Head(pacing))
  /\ live' = live \ Overflow(render)
  /\ pacing' = Tail(pacing)
  /\ vs' = "notify"

\* The loop is over and there is a frame to show, or one to wait for.
TakeFrame ==
  /\ vs = "trim" /\ LockFree /\ Len(pacing) <= vsTarget
  /\ IF pacing = <<>>
     THEN vs' = "frame" /\ UNCHANGED <<pacing, render, live>>
     ELSE MoveFrame
  /\ UNCHANGED <<vsOnly, vsVars, rt, events>>

\* The wait for a frame times out.
FrameTimeout ==
  /\ vs = "frame" /\ LockFree
  /\ vs' = "wait"
  /\ UNCHANGED <<vsOnly, vsVars, rt, pacing, render, live, events>>

\* The wait was woken.  The queue may be empty again: dequeue() of an empty
\* queue is undefined.
FrameArrived ==
  /\ vs = "woken" /\ LockFree
  /\ IF stopping
     THEN vs' = "wait" /\ UNCHANGED <<pacing, render, live, crashed>>
     ELSE IF pacing = <<>>
     THEN crashed' = TRUE /\ UNCHANGED <<vs, pacing, render, live>>
     ELSE MoveFrame /\ UNCHANGED crashed
  /\ UNCHANGED <<mode, decVars, rtVars, endVars, dec, vsVars, rt, events>>

\* The end of enqueueFrameForRenderingAndUnlock().
VsNotify ==
  /\ vs = "notify"
  /\ vs' = "wait"
  /\ NotifyRender
  /\ UNCHANGED <<vsOnly, vsVars, pacing, render, live>>

-----------------------------------------------------------------------------
(* Rendering, on the render thread or on the main thread.                  *)

rtOnly == <<mode, decVars, vsVars, dec, vs, pacing, crashed>>

\* The render thread's loop: m_Stopping, then waitToRender().
RenderTop ==
  /\ mode.thread /\ rt = "top"
  /\ rt' = IF stopping THEN "ended" ELSE "test"
  /\ UNCHANGED <<rtOnly, rtVars, endVars, render, live, events>>

\* Mutant: only the queue is tested before the wait.
RenderTest_queueOnly ==
  /\ rt = "test"
  /\ \/ /\ render # <<>>
        /\ rtHand' = Head(render) /\ render' = Tail(render) /\ rt' = "show"
     \/ render = <<>> /\ rt' = "sleep" /\ UNCHANGED <<render, rtHand>>
  /\ UNCHANGED <<rtOnly, renderHist, rtTarget, deferred, endVars, live, events>>

\* With the lock: end, take a frame, or go to sleep.
RenderTest ==
  /\ rt = "test"
  /\ \/ stopping /\ rt' = "ended" /\ UNCHANGED <<render, rtHand>>
     \/ /\ ~stopping /\ render # <<>>
        /\ rtHand' = Head(render) /\ render' = Tail(render) /\ rt' = "show"
     \/ ~stopping /\ render = <<>> /\ rt' = "sleep" /\ UNCHANGED <<render, rtHand>>
  /\ UNCHANGED <<rtOnly, renderHist, rtTarget, deferred, endVars, live, events>>

\* m_RenderQueueNotEmpty.wait() gives the lock back.
RenderSleep ==
  /\ rt = "sleep"
  /\ rt' = "asleep"
  /\ UNCHANGED <<rtOnly, rtVars, endVars, render, live, events>>

\* SDL_CODE_FRAME_READY: renderOnMainThread().
RenderOnMainThread ==
  /\ ~mode.thread /\ main = "run" /\ rt = "top" /\ events > 0
  /\ events' = events - 1
  /\ IF render = <<>>
     THEN UNCHANGED <<rt, rtHand, render>>
     ELSE rtHand' = Head(render) /\ render' = Tail(render) /\ rt' = "show"
  /\ UNCHANGED <<rtOnly, renderHist, rtTarget, deferred, endVars, live>>

\* renderFrame(): the frame is shown and the one shown before is freed.
RenderFrame ==
  /\ rt = "show"
  /\ live' = Freed(deferred)
  /\ deferred' = rtHand /\ rtHand' = 0 /\ rt' = "trim_first"
  /\ UNCHANGED <<rtOnly, renderHist, rtTarget, endVars, render, events>>

\* renderFrame(): how many frames may wait.
RenderTarget ==
  /\ rt = "trim_first"
  /\ IF mode.noBuffering
     THEN rtTarget' = 1 /\ UNCHANGED renderHist
     ELSE /\ rtTarget' = IF SomeShort(renderHist) THEN 2 ELSE 0
          /\ renderHist' = Noted(renderHist, render = <<>>)
  /\ rt' = "trim"
  /\ UNCHANGED <<rtOnly, rtHand, deferred, endVars, render, live, events>>

TrimRender ==
  /\ rt = "trim"
  /\ IF Len(render) > rtTarget
     THEN rtHand' = Head(render) /\ render' = Tail(render) /\ rt' = "free"
     ELSE rt' = "top" /\ UNCHANGED <<render, rtHand>>
  /\ UNCHANGED <<rtOnly, renderHist, rtTarget, deferred, endVars, live, events>>

FreeRender ==
  /\ rt = "free"
  /\ live' = Freed(rtHand) /\ rtHand' = 0 /\ rt' = "trim"
  /\ UNCHANGED <<rtOnly, renderHist, rtTarget, deferred, endVars, render, events>>

-----------------------------------------------------------------------------
(* FFmpegVideoDecoder::reset() and ~Pacer(), on the main thread.           *)

mainOnly == <<mode, vsVars, units, started, codec, fails, resets, out, crashed>>

\* The main thread is not in renderOnMainThread().
MainFree == mode.thread \/ rt = "top"

Reset ==
  /\ main = "run" /\ MainFree
  /\ quit' = TRUE /\ main' = "join_dec"
  /\ UNCHANGED <<mainOnly, pending, rtVars, dec, vs, rt, pacing, render, live, events, stopping, missed>>

StopPacer ==
  /\ main = "join_dec" /\ dec = "ended"
  /\ stopping' = TRUE /\ pending' = 0 /\ main' = "wake_vs"
  /\ UNCHANGED <<mainOnly, quit, rtVars, dec, vs, rt, pacing, render, live, events, missed>>

StopVsync ==
  /\ main = "wake_vs"
  /\ WakeVsync /\ main' = "join_vs"
  /\ UNCHANGED <<mainOnly, quit, pending, rtVars, dec, rt, pacing, render, live, events, stopping, missed>>

\* wakeAll() for the render thread, without the lock: the thread may be
\* between its test and its wait.
StopRender ==
  /\ main = "join_vs" /\ vs = "ended"
  /\ WakeRender
  /\ missed' = (rt = "sleep")
  /\ main' = "join_rt"
  /\ UNCHANGED <<mainOnly, quit, pending, rtVars, dec, vs, pacing, render, live, events, stopping>>

\* The frames left are freed.
FreeRest ==
  /\ main = "join_rt" /\ (mode.thread => rt = "ended")
  /\ live' = {f \in live : ~(\E i \in DOMAIN render : render[i] = f)
                           /\ ~(\E i \in DOMAIN pacing : pacing[i] = f)
                           /\ f # deferred}
  /\ render' = <<>> /\ pacing' = <<>> /\ deferred' = 0
  /\ rt' = "ended" /\ main' = "done"
  /\ UNCHANGED <<mainOnly, quit, pending, renderHist, rtTarget, rtHand, dec, vs, events, stopping, missed>>

\* Nothing left to do, the program has crashed, or the render thread sleeps
\* through the wake-up it missed.
Idle ==
  /\ \/ main = "done" \/ crashed
     \/ main = "join_rt" /\ rt = "asleep" /\ missed
  /\ UNCHANGED vars

-----------------------------------------------------------------------------
DecoderThread == ReceiveFrame \/ ReceiveFails \/ DecNotify \/ DecEnd
                 \/ \E idr \in BOOLEAN : SubmitDecodeUnit(idr)

VsyncThread == Vsync \/ HandleVsync \/ TrimPacing \/ FreePacing \/ TakeFrame
               \/ FrameArrived \/ VsNotify \/ FrameTimeout

Rendering == RenderTop \/ RenderTest \/ RenderSleep \/ RenderOnMainThread
             \/ RenderFrame \/ RenderTarget \/ TrimRender \/ FreeRender

Shutdown == StopPacer \/ StopVsync \/ StopRender \/ FreeRest

Next == (~crashed /\ (DecoderThread \/ VsyncThread \/ Rendering \/ Reset \/ Shutdown)) \/ Idle

Spec == Init /\ [][Next]_vars

\* The threads run; V-syncs, or their timeouts, keep coming; a requested
\* reset reaches the main thread.
Fairness ==
  /\ WF_vars(~crashed /\ (DecNotify \/ DecEnd))
  /\ WF_vars(~crashed /\ VsyncThread)
  /\ WF_vars(~crashed /\ Rendering)
  /\ WF_vars(~crashed /\ Shutdown)
  /\ SF_vars(~crashed /\ resets > 0 /\ Reset)

FairSpec == Spec /\ Fairness

-----------------------------------------------------------------------------
TypeOK ==
  /\ mode \in Modes
  /\ main \in {"run", "join_dec", "wake_vs", "join_vs", "join_rt", "done"}
  /\ units \in 0..MaxUnits /\ out \in 0..MaxUnits /\ codec \in 0..MaxUnits /\ pending \in 0..MaxUnits
  /\ fails \in 0..ResetThreshold /\ resets \in 0..1
  /\ started \in BOOLEAN /\ quit \in BOOLEAN /\ stopping \in BOOLEAN
  /\ missed \in BOOLEAN /\ crashed \in BOOLEAN
  /\ dec \in {"run", "notify", "ended"}
  /\ vs \in {"wait", "handle", "trim", "free", "frame", "woken", "notify", "ended"}
  /\ rt \in {"top", "test", "sleep", "asleep", "show", "trim_first", "trim", "free", "ended"}
  /\ pacing \in Seq(1..MaxUnits) /\ render \in Seq(1..MaxUnits)
  /\ pacingHist \in Seq(BOOLEAN) /\ renderHist \in Seq(BOOLEAN)
  /\ vsTarget \in 0..3 /\ rtTarget \in 0..2
  /\ vsHand \in 0..MaxUnits /\ rtHand \in 0..MaxUnits /\ deferred \in 0..MaxUnits
  /\ live \subseteq 1..MaxUnits /\ events \in 0..MaxUnits

\* The frames in a queue.
InQueue(q) == {q[i] : i \in DOMAIN q}

\* The frames the pacer holds: queued, in a thread's hands, or kept because
\* they are on the screen.
Held == InQueue(pacing) \union InQueue(render) \union ({vsHand, rtHand, deferred} \ {0})

\* How many frames a hand holds, and how many places hold a frame.
Holds(hand) == IF hand = 0 THEN 0 ELSE 1
Places == Len(pacing) + Len(render) + Holds(vsHand) + Holds(rtHand) + Holds(deferred)

\* Every frame that is not freed is in exactly one place, and no place holds
\* a freed frame: none is leaked, freed twice, or shown after it was freed,
\* and none is left when the pacer is gone.
OwnedOnce == Held = live /\ Places = Cardinality(live) /\ (main = "done" => live = {})

\* The types, and the frames in their places.
PacerInv == TypeOK /\ OwnedOnce

\* Frames are shown in the order the codec put them out, whatever was
\* dropped on the way.
InOrder ==
  LET way == (IF deferred = 0 THEN <<>> ELSE <<deferred>>)
             \o (IF rtHand = 0 THEN <<>> ELSE <<rtHand>>) \o render \o pacing
  IN \A i, j \in DOMAIN way : i < j => way[i] < way[j]

\* "3 frames in the pacing queue, 1 frame removed from the render queue in
\* the process of rendering, 1 frame for deferred free": without a V-sync
\* source the pacer holds no more frames than the codec has spare surfaces.
FramesBounded == ~mode.vsync => Cardinality(live) <= PACER_MAX_OUTSTANDING_FRAMES

\* When the host pauses, the queues drain: the last frame it sent is shown,
\* or dropped for a newer one, and does not wait for the next.
QueuesDrain ==
  pacing # <<>> \/ render # <<>> ~> (pacing = <<>> /\ render = <<>>) \/ crashed \/ missed

\* A decoder that asked for a reset, or that the main thread deletes, goes:
\* no thread waits for another for ever, but for the wake-up that comes
\* between the render thread's test and its wait.
DecoderGoes == (resets > 0 \/ main # "run") ~> main = "done" \/ crashed \/ missed
=============================================================================
