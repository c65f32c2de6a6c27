------------------------------- MODULE Staking -------------------------------
(***************************************************************************)
(* Staking for bandwidth in eosio.system: delegatebw, undelegatebw and     *)
(* refund, the refund transaction the contract defers on the owner's       *)
(* behalf, and the four tables they keep in step: what each account has    *)
(* delegated to whom, what each account has been given in total, what is   *)
(* being refunded, and the stake each voter counts.                        *)
(*                                                                         *)
(* Amounts of NET and CPU go together as a function on Resource.  A row    *)
(* that the code erases when it becomes empty is a row of zeros here.      *)
(* Time advances in ticks.  Limits passed to the resource manager, RAM and *)
(* the votes computed from the stake are not in this module.               *)
(***************************************************************************)
EXTENDS Integers, FiniteSets, Functions

CONSTANTS Accounts,      \* user accounts
          StakeAccount,  \* eosio.stake, which holds all staked tokens
          OtherHolders,  \* further system accounts that hold core tokens
          NoRow,         \* a row that does not exist
          InitTokens,    \* core tokens each account starts with
          InitVoters,    \* voter rows left from an earlier life of the chain
          Amounts,       \* amounts an action may carry for one resource
          RefundDelay,   \* refund_delay_sec in ticks
          MaxTime        \* bound of the clock

Holders == Accounts \cup {StakeAccount} \cup OtherHolders

Resource == {"net", "cpu"}

RefundRequest == [amount : [Resource -> Nat], request_time : Nat]

VoterInfo == [staked : Int, votes : BOOLEAN]

ASSUME StakingAssumption ==
  /\ IsFiniteSet(Accounts) /\ IsFiniteSet(OtherHolders)
  /\ StakeAccount \notin Accounts \cup OtherHolders
  /\ Accounts \cap OtherHolders = {}
  /\ InitTokens \in [Holders -> Nat]
  /\ InitTokens[StakeAccount] = 0
  /\ NoRow \notin VoterInfo \cup RefundRequest
  /\ InitVoters \in [Accounts -> VoterInfo \cup {NoRow}]
  /\ \A a \in Accounts : InitVoters[a] = NoRow \/ InitVoters[a].staked = 0
  /\ Amounts \subseteq Nat
  /\ RefundDelay \in Nat
  /\ MaxTime \in Nat

VARIABLES now,       \* block time
          tokens,    \* core token balances
          delband,   \* <<from, to>> -> delegated_bandwidth
          userres,   \* receiver -> user_resources
          refunds,   \* owner -> refund_request or NoRow
          deferred,  \* owner -> time its deferred refund is due, or NoRow
          voters,    \* owner -> voter_info or NoRow
          activated  \* total_activated_stake >= min_activated_stake

stakingVars == <<now, tokens, delband, userres, refunds, deferred, voters, activated>>

Weight == [Resource -> Int]

Zero == [r \in Resource |-> 0]

Sum(w) == w["net"] + w["cpu"]

Plus(w, d) == [r \in Resource |-> w[r] + d[r]]

NonNegative(w) == \A r \in Resource : w[r] >= 0

Negative(w) == [r \in Resource |-> - w[r]]

StakingInit ==
  /\ now = 0
  /\ tokens = InitTokens
  /\ delband = [p \in Accounts \X Accounts |-> Zero]
  /\ userres = [a \in Accounts |-> Zero]
  /\ refunds = [a \in Accounts |-> NoRow]
  /\ deferred = [a \in Accounts |-> NoRow]
  /\ voters = InitVoters
  /\ activated = FALSE

-----------------------------------------------------------------------------
(***************************************************************************)
(* Helpers                                                                 *)
(***************************************************************************)
\* The inline transfer of the token contract.
CanPay(from, amount) == tokens[from] >= amount

Pay(from, to, amount) ==
  tokens' = [tokens EXCEPT ![from] = @ - amount, ![to] = @ + amount]

\* update_voting_power: the voter row is created when missing.
Staked(voter) == IF voters[voter] = NoRow THEN 0 ELSE voters[voter].staked

\* MUTANT: the first stake of a new voter is not recorded.
WithStakeLost(voter, stake) ==
  IF voters[voter] = NoRow
  THEN [staked |-> 0, votes |-> FALSE]
  ELSE [voters[voter] EXCEPT !.staked = stake]

WithStake(voter, stake) ==
  IF voters[voter] = NoRow
  THEN [staked |-> stake, votes |-> FALSE]
  ELSE [voters[voter] EXCEPT !.staked = stake]

\* MUTANT: the totals only ever grow.
TotalAfterGrowing(receiver, delta) ==
  [r \in Resource |-> userres[receiver][r] + (IF delta[r] > 0 THEN delta[r] ELSE 0)]

\* The totals of the receiver after a change of stake.
TotalAfter(receiver, delta) == Plus(userres[receiver], delta)

\* MUTANT: stake is paid in full although the refund covers a part of it.
SettleTwice(req, delta) ==
  LET owed == [r \in Resource |-> (IF req = NoRow THEN 0 ELSE req.amount[r]) - delta[r]]
      left == [r \in Resource |-> IF owed[r] < 0 THEN 0 ELSE owed[r]]
  IN  [pay     |-> [r \in Resource |-> IF delta[r] > 0 THEN delta[r] ELSE 0],
       request |-> IF left = Zero THEN NoRow
                   ELSE [amount |-> left,
                         request_time |-> IF NonNegative(delta) THEN req.request_time ELSE now]]

\* MUTANT: a second undelegation keeps the time of the request it adds to.
SettleOldTime(req, delta) ==
  LET owed == [r \in Resource |-> (IF req = NoRow THEN 0 ELSE req.amount[r]) - delta[r]]
      left == [r \in Resource |-> IF owed[r] < 0 THEN 0 ELSE owed[r]]
  IN  [pay     |-> [r \in Resource |-> IF owed[r] < 0 THEN - owed[r] ELSE 0],
       request |-> IF left = Zero THEN NoRow
                   ELSE [amount |-> left,
                         request_time |-> IF req # NoRow THEN req.request_time ELSE now]]

\* How changebw settles a change of stake with a pending refund: the request
\* that remains and the amounts that must still be paid in.
Settle(req, delta) ==
  LET owed == [r \in Resource |-> (IF req = NoRow THEN 0 ELSE req.amount[r]) - delta[r]]
      left == [r \in Resource |-> IF owed[r] < 0 THEN 0 ELSE owed[r]]
  IN  [pay     |-> [r \in Resource |-> IF owed[r] < 0 THEN - owed[r] ELSE 0],
       request |-> IF left = Zero THEN NoRow
                   ELSE [amount |-> left,
                         request_time |-> IF NonNegative(delta) THEN req.request_time ELSE now]]

\* MUTANT: a refund already scheduled keeps its time when the request is reset.
ScheduleKept(owner, touched, request) ==
  IF touched /\ request # NoRow
  THEN IF deferred[owner] # NoRow THEN deferred[owner] ELSE now + RefundDelay
  ELSE NoRow

\* The deferred refund of an owner after a change of stake.
Schedule(owner, touched, request) ==
  IF touched /\ request # NoRow THEN now + RefundDelay ELSE NoRow

\* Only undelegating, or staking for oneself, touches the refund request.
TouchesRefund(from, receiver, delta, transfer) ==
  Sum(delta) < 0 \/ (~ transfer /\ from = receiver)

-----------------------------------------------------------------------------
(***************************************************************************)
(* changebw.  With the transfer flag the stake belongs to the receiver and *)
(* source pays.  The deferred refund is replaced when the request needs    *)
(* one, and otherwise cancelled.  rexDelta is what update_rex_stake adds   *)
(* to the stake of a voter who holds REX, zero in this module.             *)
(***************************************************************************)
changebw(source, receiver, delta, transfer, rexDelta) ==
  LET from    == IF transfer THEN receiver ELSE source
      touched == TouchesRefund(from, receiver, delta, transfer)
      settled == IF touched THEN Settle(refunds[from], delta)
                 ELSE [pay |-> delta, request |-> refunds[from]]
      row     == Plus(delband[<<from, receiver>>], delta)
      total   == TotalAfter(receiver, delta)
      staked  == Staked(from) + (IF voters[from] = NoRow THEN 0 ELSE rexDelta) + Sum(delta)
  IN  /\ NonNegative(row)
      /\ NonNegative(total)
      /\ staked >= 0
      /\ CanPay(source, Sum(settled.pay))
      /\ delband' = [delband EXCEPT ![<<from, receiver>>] = row]
      /\ userres' = [userres EXCEPT ![receiver] = total]
      /\ refunds' = [refunds EXCEPT ![from] = settled.request]
      /\ deferred' = [deferred EXCEPT ![from] = Schedule(from, touched, settled.request)]
      /\ Pay(source, StakeAccount, Sum(settled.pay))
      /\ voters' = [voters EXCEPT ![from] = WithStake(from, staked)]

CanDelegate(from, receiver, quantity, transfer) ==
  /\ NonNegative(quantity)
  /\ Sum(quantity) > 0
  /\ ~ transfer \/ from # receiver

delegatebw(from, receiver, quantity, transfer) ==
  /\ CanDelegate(from, receiver, quantity, transfer)
  /\ changebw(from, receiver, quantity, transfer, 0)
  /\ UNCHANGED <<now, activated>>

CanUndelegate(quantity) ==
  /\ NonNegative(quantity)
  /\ Sum(quantity) > 0
  /\ activated

undelegatebw(from, receiver, quantity) ==
  /\ CanUndelegate(quantity)
  /\ changebw(from, receiver, Negative(quantity), FALSE, 0)
  /\ UNCHANGED <<now, activated>>

RefundDue(owner) ==
  /\ refunds[owner] # NoRow
  /\ refunds[owner].request_time + RefundDelay <= now

PayRefund(owner) ==
  /\ Pay(StakeAccount, owner, Sum(refunds[owner].amount))
  /\ refunds' = [refunds EXCEPT ![owner] = NoRow]

\* refund pushed by the owner; the deferred transaction stays scheduled.
refund(owner) ==
  /\ RefundDue(owner)
  /\ CanPay(StakeAccount, Sum(refunds[owner].amount))
  /\ PayRefund(owner)
  /\ UNCHANGED <<now, delband, userres, deferred, voters, activated>>

\* The chain runs a due deferred transaction once; when refund fails in it,
\* nothing but the schedule changes.
DeferredRefund(owner) ==
  /\ deferred[owner] # NoRow
  /\ deferred[owner] <= now
  /\ deferred' = [deferred EXCEPT ![owner] = NoRow]
  /\ IF RefundDue(owner) /\ CanPay(StakeAccount, Sum(refunds[owner].amount))
     THEN PayRefund(owner)
     ELSE UNCHANGED <<tokens, refunds>>
  /\ UNCHANGED <<now, delband, userres, voters, activated>>

\* Enough voters have voted once: total_activated_stake only ever grows.
Activate ==
  /\ ~ activated
  /\ activated' = TRUE
  /\ UNCHANGED <<now, tokens, delband, userres, refunds, deferred, voters>>

AdvanceTime ==
  /\ now < MaxTime
  /\ now' = now + 1
  /\ UNCHANGED <<tokens, delband, userres, refunds, deferred, voters, activated>>

Quantities == [Resource -> Amounts]

StakingNext ==
  \/ \E from, receiver \in Accounts, q \in Quantities, transfer \in BOOLEAN :
        delegatebw(from, receiver, q, transfer)
  \/ \E from, receiver \in Accounts, q \in Quantities : undelegatebw(from, receiver, q)
  \/ \E owner \in Accounts : refund(owner)
  \/ \E owner \in Accounts : DeferredRefund(owner)
  \/ Activate
  \/ AdvanceTime

StakingSpec == StakingInit /\ [][StakingNext]_stakingVars

-----------------------------------------------------------------------------
\* The shape of the tables; a refund request is never negative, although a
\* change of stake is subtracted from it.
StakingTypeOK ==
  /\ now \in 0..MaxTime
  /\ tokens \in [Holders -> Int]
  /\ delband \in [Accounts \X Accounts -> Weight]
  /\ userres \in [Accounts -> Weight]
  /\ refunds \in [Accounts -> RefundRequest \cup {NoRow}]
  /\ deferred \in [Accounts -> Nat \cup {NoRow}]
  /\ voters \in [Accounts -> VoterInfo \cup {NoRow}]
  /\ activated \in BOOLEAN

DelegatedBy(a) == SumFunctionOnSet([b \in Accounts |-> Sum(delband[<<a, b>>])], Accounts)

DelegatedTo(a) ==
  [r \in Resource |-> SumFunctionOnSet([b \in Accounts |-> delband[<<b, a>>][r]], Accounts)]

RefundOwed(a) == IF refunds[a] = NoRow THEN 0 ELSE Sum(refunds[a].amount)

\* eosio.stake holds exactly what is delegated plus what is being refunded: no
\* path through changebw pays in twice, or not at all, when a change of stake
\* is settled against a pending refund.
StakeBacked ==
  tokens[StakeAccount] =
    SumFunctionOnSet([a \in Accounts |-> DelegatedBy(a) + RefundOwed(a)], Accounts)

\* The total given to an account is what all delegators gave it, so that the
\* check "insufficient staked total" can never block an undelegation.
TotalsMatch == \A a \in Accounts : userres[a] = DelegatedTo(a)

\* A voter counts exactly the tokens it has delegated: a transfer of stake
\* moves the vote to the receiver, and a refund does not count.
StakeCounted == \A a \in Accounts : Staked(a) = DelegatedBy(a)

\* A scheduled refund transaction never comes due before the request it serves
\* does, so it does not fail for being early and is not wasted.
DeferredNotEarly ==
  \A a \in Accounts : deferred[a] # NoRow /\ refunds[a] # NoRow =>
     deferred[a] >= refunds[a].request_time + RefundDelay

\* The tables of stake, totals and refunds, and the tokens, agree.
StakingSound == StakingTypeOK /\ StakeBacked /\ TotalsMatch /\ DeferredNotEarly

\* What the README and the header say of undelegatebw: the unstaked tokens are
\* transferred by a deferred transaction, so a pending request has one.
RefundScheduled == \A a \in Accounts : refunds[a] # NoRow => deferred[a] # NoRow
=============================================================================
