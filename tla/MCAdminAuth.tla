----------------------------- MODULE MCAdminAuth -----------------------------
(***************************************************************************)
(* An instance of AdminAuth for TLC: two operators who want one username,  *)
(* two handlers, two tokens for them to issue and two to sweep, so that    *)
(* their sweeps can wait for each other.  Nothing is symmetric, because    *)
(* liveness is checked too.                                                *)
(***************************************************************************)
EXTENDS AdminAuth
=============================================================================
