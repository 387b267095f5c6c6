--------------------------- MODULE MCBrowserSession ---------------------------
(* An instance of BrowserSession for TLC. *)
EXTENDS BrowserSession
CONSTANTS o1, o2
=============================================================================
