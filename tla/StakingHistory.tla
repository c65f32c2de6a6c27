--------------------------- MODULE StakingHistory ---------------------------
(***************************************************************************)
(* Staking with a history variable: when each account last undelegated.    *)
(* The contract keeps no such record, only the request_time of one refund  *)
(* request per owner, which a second undelegation, a stake that is settled *)
(* against the request and a refund all rewrite or erase.  How long        *)
(* unstaked tokens wait is stated over the history, so that it does not    *)
(* rest on the field that refund itself looks at.                          *)
(***************************************************************************)
EXTENDS Staking

ASSUME HistoryAssumption == NoRow \notin Nat

VARIABLE undelegated  \* owner -> time of its last undelegation, or NoRow

historyVars == <<stakingVars, undelegated>>

\* The step is an undelegation by the account, of whatever and from whomever.
Undelegates(owner) ==
  \E receiver \in Accounts, q \in Quantities : undelegatebw(owner, receiver, q)

HistoryInit ==
  /\ StakingInit
  /\ undelegated = [a \in Accounts |-> NoRow]

HistoryNext ==
  /\ StakingNext
  /\ undelegated' = [a \in Accounts |-> IF Undelegates(a) THEN now ELSE undelegated[a]]

HistorySpec == HistoryInit /\ [][HistoryNext]_historyVars

-----------------------------------------------------------------------------
\* No account receives tokens from eosio.stake, pushed by itself or by the
\* deferred transaction, within the delay after its last undelegation: a second
\* undelegation restarts the delay of everything that is pending, and no stake
\* in between that is settled against the request shortens it.
NoEarlyRefund ==
  [][\A a \in Accounts :
       tokens'[a] > tokens[a] =>
         undelegated[a] # NoRow /\ undelegated[a] + RefundDelay <= now]_historyVars
=============================================================================
