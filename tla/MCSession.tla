------------------------------ MODULE MCSession ------------------------------
EXTENDS Session

\* Two sessions in a row, with a signal; one session with the window busy.
MCBudgets ==
  {[sessions |-> 2, inputs |-> 1, signals |-> 1, hdr |-> 0],
   [sessions |-> 1, inputs |-> 2, signals |-> 0, hdr |-> 1]}
=============================================================================
