------------------------------ MODULE MCGossip ------------------------------
(***************************************************************************)
(* Gossip on three nodes: b starts from a, and c from b, whose list is soon *)
(* full: only an operator who connects c to a lets a claim reach c.         *)
(***************************************************************************)
EXTENDS Gossip, TLC

CONSTANTS a, b, c

MCNodes == {a, b, c}
MCSeeds == (a :> {}) @@ (b :> {a}) @@ (c :> {b})
MCContacts == {<<c, a>>}
MCEntries == {a, b}
=============================================================================
