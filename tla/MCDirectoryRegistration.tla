---------------------- MODULE MCDirectoryRegistration -----------------------
(* Two clients that compete for one slot, or one client that moves and      *)
(* renews for three minutes.                                                *)
EXTENDS DirectoryRegistration, TLC

CONSTANTS k1, k2, e1, e2
MCKey == {k1, k2}
MCEndpoint == {e1, e2}
MCSymmetry == Permutations(MCKey) \cup Permutations(MCEndpoint)
=============================================================================
