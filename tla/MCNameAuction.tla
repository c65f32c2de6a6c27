---------------------------- MODULE MCNameAuction ----------------------------
(***************************************************************************)
(* Two bidders, two names that are sold and one below the first.           *)
(***************************************************************************)
EXTENDS NameAuction
CONSTANTS alice, bob, com, net, x_com
MCBidders == {alice, bob}
MCTopNames == {com, net}
MCSubNames == {x_com}
MCSuffix == [n \in MCSubNames |-> com]
MCRank == [n \in MCTopNames |-> IF n = com THEN 1 ELSE 2]
MCTokens == [h \in Holders |-> CASE h = alice -> 4 [] h = bob -> 4 [] OTHER -> 0]
MCBids == [n \in MCTopNames |-> IF n = com THEN {1, 2, 3, 4} ELSE {1}]
=============================================================================
