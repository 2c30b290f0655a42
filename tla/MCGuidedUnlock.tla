---------------------------- MODULE MCGuidedUnlock ----------------------------
(* Small instances of GuidedUnlock. *)
EXTENDS GuidedUnlock, TLC
=============================================================================
