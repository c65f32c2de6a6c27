----------------------------- MODULE MCStaking -----------------------------
(***************************************************************************)
(* Two accounts, one with three tokens and one with one, neither of which  *)
(* is a voter at first.                                                    *)
(***************************************************************************)
EXTENDS StakingHistory
CONSTANTS alice, bob
MCAccounts == {alice, bob}
MCTokens == [h \in Holders |-> CASE h = alice -> 3 [] h = bob -> 1 [] OTHER -> 0]
MCVoters == [a \in MCAccounts |-> NoRow]
=============================================================================
