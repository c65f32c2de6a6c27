----------------------------- MODULE MCRamMarket -----------------------------
(***************************************************************************)
(* Two accounts with a few tokens each, on a market that starts with a     *)
(* small virtual quote.                                                    *)
(***************************************************************************)
EXTENDS RamMarket
CONSTANTS alice, bob
MCAccounts == {alice, bob}
MCTokens == [h \in Holders |-> CASE h = alice -> 9 [] h = bob -> 2 [] OTHER -> 0]
=============================================================================
