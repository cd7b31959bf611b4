------------------------- MODULE MCRevocationRules -------------------------
(* One service with two grants.  A command for the whole service, a fresh   *)
(* one that extends it, and one for a single grant of the service;          *)
(* deadlines on both sides of the cache's retention and of the grants'      *)
(* expiry, and one command too early for its window.                        *)
EXTENDS RevocationRules, TLC

CONSTANTS g1, g2, extend, whole, one

MCGrant == {g1, g2}
MCGrantClaims ==
  (g1 :> [service |-> "s1", channel |-> 7, exp |-> 4, talks |-> TRUE])
  @@ (g2 :> [service |-> "s1", channel |-> 7, exp |-> 6, talks |-> TRUE])

MCCommand == {whole, extend, one}
MCCommandBody ==
  (whole :> [channel |-> 7, service |-> "s1", grant |-> Unset, until |-> 2])
  @@ (extend :> [channel |-> 7, service |-> "s1", grant |-> Unset, until |-> 5])
  @@ (one :> [channel |-> 7, service |-> "s1", grant |-> g1, until |-> 4])
=============================================================================
