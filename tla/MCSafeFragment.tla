---------------------------- MODULE MCSafeFragment ----------------------------
(* An instance of SafeFragment for TLC: cells, an element that is removed, and *)
(* one that is void as well.                                                   *)
EXTENDS SafeFragment
=============================================================================
