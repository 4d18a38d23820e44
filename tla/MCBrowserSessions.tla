------------------------- MODULE MCBrowserSessions -------------------------
(* Instances of BrowserSessions for TLC. *)
EXTENDS BrowserSessions
=============================================================================
