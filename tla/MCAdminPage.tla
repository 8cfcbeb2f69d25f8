---------------------------- MODULE MCAdminPage -----------------------------
(***************************************************************************)
(* An instance of AdminPage for TLC.                                       *)
(***************************************************************************)
EXTENDS AdminPage

CONSTANTS ticker, answer1, page1, page2, n1, n2
=============================================================================
