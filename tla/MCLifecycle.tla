---------------------------- MODULE MCLifecycle ----------------------------
(***************************************************************************)
(* Small instances of Lifecycle.                                           *)
(***************************************************************************)
EXTENDS Lifecycle

AllComponents == {"api", "metrics", "turn"}
ApiOnly       == {"api"}
=============================================================================
