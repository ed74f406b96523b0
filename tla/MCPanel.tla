------------------------------ MODULE MCPanel ------------------------------
(***************************************************************************)
(* An instance of Panel for TLC.                                           *)
(***************************************************************************)
EXTENDS Panel, TLC

\* Bound: no page is open while a request for the first setup is under way.  With
\* an administrator, such a request only fails, and no page can tell.
PagesAfterSetup == stream.at = "closed" \/ setups = 0
=============================================================================
