------------------------ MODULE MC_MicroBlockSync ------------------------
(* Two key blocks that may come at any time, two microblocks on the first of
   them, of which one peer that answers announces one and a peer that may not
   answer announces both.  That peer also sends an inventory with a wrong
   signature, which closes its channel at any time. *)
EXTENDS MicroBlockSync, TLC

CONSTANTS k, k2, k3, m1, m2, f1, a, b

RefChain == (m1 :> k2) @@ (m2 :> k) @@ (f1 :> k2)
Invs == {<<a, m1>>, <<b, m1>>, <<b, f1>>, <<b, m2>>}
BadInvs == {<<b, m2>>}
==========================================================================
