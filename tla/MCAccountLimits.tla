--------------------------- MODULE MCAccountLimits ---------------------------
(***************************************************************************)
(* One account, which no other account has a part in.                      *)
(***************************************************************************)
EXTENDS AccountLimits
MCSettings == {Unlimited, 0, 7}
=============================================================================
