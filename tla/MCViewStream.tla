---------------------------- MODULE MCViewStream ----------------------------
(***************************************************************************)
(* An instance of ViewStream for TLC: the refresh ticker and one handler,  *)
(* one page, one name that is looked up.                                   *)
(***************************************************************************)
EXTENDS ViewStream

CONSTANTS ticker, handler, page1, page2, empty, listed, row1, row2
=============================================================================
