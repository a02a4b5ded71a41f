------------------------------- MODULE MCPacer -------------------------------
(* Modes of the pacer to check. *)
EXTENDS Pacer

Renderer(v, t, n, l, u) ==
  [vsync |-> v, thread |-> t, noBuffering |-> n, lenient |-> l, units |-> u]

\* Without a V-sync source, on the render thread and on the main thread, one
\* frame more than the pacer may hold; a renderer that does not buffer; then
\* with a V-sync source, for a stream faster and slower than the display.
MCModes ==
  {Renderer(FALSE, t, FALSE, TRUE, 6) : t \in BOOLEAN}
  \union {Renderer(FALSE, TRUE, TRUE, TRUE, 5)}
  \union {Renderer(TRUE, TRUE, FALSE, TRUE, 4), Renderer(TRUE, TRUE, FALSE, FALSE, 3)}
  \union {Renderer(TRUE, FALSE, FALSE, TRUE, 3)}
=============================================================================
