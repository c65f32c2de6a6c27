------------------------------ MODULE MCToken ------------------------------
(***************************************************************************)
(* Two accounts, a name that is no account, one or two symbols and amounts *)
(* up to MaxAmount: every quantity of asset range is tried in every action.*)
(***************************************************************************)
EXTENDS Token
CONSTANTS alice, bob, ghost
MCNames == {alice, bob, ghost}
MCAccounts == {alice, bob}
============================================================================
