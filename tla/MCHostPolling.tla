--------------------------- MODULE MCHostPolling ---------------------------
(***************************************************************************)
(* Two VMs at the relay's address, one of them also at its own.            *)
(***************************************************************************)
EXTENDS HostPolling

CONSTANTS h1, h2, relay, lan

MCLeases == {<<relay, h1>>, <<relay, h2>>, <<lan, h1>>}
=============================================================================
