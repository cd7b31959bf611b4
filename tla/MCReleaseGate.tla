--------------------------- MODULE MCReleaseGate ----------------------------
(* Two commits, any two trees of one or two versions, two tags, and pushes  *)
(* in every order.                                                          *)
EXTENDS ReleaseGate

MCRelease == {"v1"}
MCOtherTag == {"nightly"}
=============================================================================
