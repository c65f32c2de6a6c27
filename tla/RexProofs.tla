------------------------------ MODULE RexProofs ------------------------------
(***************************************************************************)
(* What the actions of Staking and Rex preserve, for all accounts, amounts *)
(* and times.  The parts: Staking by itself; the actions of Rex, each of   *)
(* which keeps the inductive invariant RexInv, by what RunrexProofs says   *)
(* of maintenance and of the helpers; the properties RexInv implies; and   *)
(* that maintenance works.                                                 *)
(***************************************************************************)
EXTENDS RunrexProofs, StakingHistory

\* No request is from the future; DeferredNotEarly is not inductive without it.
RequestsPast == \A a \in Accounts : refunds[a] # NoRow => refunds[a].request_time <= now

\* The invariant that every action preserves.
StakingInv ==
  /\ StakingTypeOK
  /\ StakeBacked
  /\ TotalsMatch
  /\ StakeCounted
  /\ DeferredNotEarly
  /\ RequestsPast

\* What a refund request is about.
Owed(request) == IF request = NoRow THEN 0 ELSE Sum(request.amount)

(***************************************************************************)
(* Staking: settling a change of stake with a pending request.             *)
(***************************************************************************)
\* What is paid for a change of stake and what remains to be refunded differ
\* from before by the change; the request that remains is not from the future.
LEMMA Settled ==
  ASSUME NEW req \in RefundRequest \cup {NoRow}, NEW delta \in Weight, now \in Nat,
         req # NoRow => req.request_time <= now
  PROVE  /\ Settle(req, delta).pay \in [Resource -> Nat]
         /\ Settle(req, delta).request \in RefundRequest \cup {NoRow}
         /\ Sum(Settle(req, delta).pay) + Owed(req) = Sum(delta) + Owed(Settle(req, delta).request)
         /\ Settle(req, delta).request # NoRow => Settle(req, delta).request.request_time <= now
<1> DEFINE old == [r \in Resource |-> IF req = NoRow THEN 0 ELSE req.amount[r]]
           owed == [r \in Resource |-> (IF req = NoRow THEN 0 ELSE req.amount[r]) - delta[r]]
           left == [r \in Resource |-> IF owed[r] < 0 THEN 0 ELSE owed[r]]
           pay == [r \in Resource |-> IF owed[r] < 0 THEN - owed[r] ELSE 0]
           time == IF NonNegative(delta) THEN req.request_time ELSE now
           request == IF left = Zero THEN NoRow ELSE [amount |-> left, request_time |-> time]
<1>1. old \in [Resource -> Nat] /\ Sum(old) = Owed(req)
  BY DEF RefundRequest, Owed, Sum, Resource
<1>2. delta \in [Resource -> Int]
  BY DEF Weight
<1>3. owed \in [Resource -> Int] /\ \A r \in Resource : owed[r] = old[r] - delta[r]
  BY <1>1, <1>2
<1>4. Settle(req, delta) = [pay |-> pay, request |-> request]
  BY DEF Settle
<1> HIDE DEF old, owed
<1>5. /\ left \in [Resource -> Nat] /\ pay \in [Resource -> Nat]
      /\ \A r \in Resource : pay[r] + old[r] = delta[r] + left[r]
  BY <1>1, <1>2, <1>3
<1>6. \A r \in Resource : NonNegative(delta) /\ req = NoRow => left[r] = 0
  <2>1. req = NoRow => \A r \in Resource : old[r] = 0
    BY DEF old
  <2> QED
    BY <2>1, <1>1, <1>2, <1>3 DEF NonNegative
<1> HIDE DEF left, pay
<1>7. Sum(pay) + Sum(old) = Sum(delta) + Sum(left)
  <2>1. pay["net"] + old["net"] = delta["net"] + left["net"]
    BY <1>5 DEF Resource
  <2>2. pay["cpu"] + old["cpu"] = delta["cpu"] + left["cpu"]
    BY <1>5 DEF Resource
  <2>3. /\ pay["net"] \in Int /\ pay["cpu"] \in Int /\ old["net"] \in Int /\ old["cpu"] \in Int
        /\ delta["net"] \in Int /\ delta["cpu"] \in Int /\ left["net"] \in Int /\ left["cpu"] \in Int
    BY <1>1, <1>2, <1>5 DEF Resource
  <2> QED
    BY <2>1, <2>2, <2>3 DEF Sum
<1>8. CASE left = Zero
  <2>1. request = NoRow /\ Sum(left) = 0
    BY <1>8 DEF Zero, Sum, Resource
  <2> QED
    BY <1>1, <1>4, <1>5, <1>7, <2>1 DEF Owed
<1>9. CASE left # Zero
  <2>1. ~ (NonNegative(delta) /\ req = NoRow)
    BY <1>5, <1>6, <1>9 DEF Zero
  <2>2. time \in Nat /\ time <= now
    BY <2>1 DEF RefundRequest
  <2>3. request = [amount |-> left, request_time |-> time]
    BY <1>9
  <2> HIDE DEF time, request
  <2>4. request \in RefundRequest /\ request.amount = left /\ request.request_time = time
    BY <1>5, <2>2, <2>3 DEF RefundRequest
  <2>5. request # NoRow
    BY <2>4, StakingAssumption DEF StakingAssumption
  <2>6. Owed(request) = Sum(left)
    BY <2>4, <2>5 DEF Owed
  <2> QED
    BY <1>1, <1>4, <1>5, <1>7, <2>2, <2>4, <2>6
<1> QED
  BY <1>8, <1>9

(***************************************************************************)
(* Staking: the sums over the table of delegations.                        *)
(***************************************************************************)
\* A change of one delegation.
Delegated(from, receiver, delta) ==
  delband' = [delband EXCEPT ![<<from, receiver>>] = Plus(@, delta)]

\* The amounts of both resources add up separately.
LEMMA PlusSums ==
  ASSUME NEW w \in Weight, NEW delta \in Weight
  PROVE  /\ Plus(w, delta) \in Weight
         /\ Sum(Plus(w, delta)) = Sum(w) + Sum(delta)
         /\ Sum(w) \in Int
         /\ \A r \in Resource : Plus(w, delta)[r] = w[r] + delta[r]
BY DEF Weight, Plus, Sum, Resource

\* What a delegator has delegated changes by as much.
LEMMA DelegatedByChanges ==
  ASSUME StakingTypeOK, NEW from \in Accounts, NEW receiver \in Accounts, NEW delta \in Weight,
         Delegated(from, receiver, delta)
  PROVE  /\ DelegatedBy(from)' = DelegatedBy(from) + Sum(delta)
         /\ \A a \in Accounts \ {from} : DelegatedBy(a)' = DelegatedBy(a)
<1> DEFINE f(a) == [b \in Accounts |-> Sum(delband[<<a, b>>])]
           h(a) == [b \in Accounts |-> Sum(delband'[<<a, b>>])]
<1>1. \A a, b \in Accounts : delband[<<a, b>>] \in Weight
  BY DEF StakingTypeOK
<1>2. \A a, b \in Accounts :
        delband'[<<a, b>>] = IF a = from /\ b = receiver
                             THEN Plus(delband[<<a, b>>], delta) ELSE delband[<<a, b>>]
  BY DEF StakingTypeOK, Delegated
<1>3. \A a \in Accounts : f(a) \in [Accounts -> Int]
  BY <1>1, PlusSums
<1>4. h(from) \in [Accounts -> Int] /\ Sum(delta) \in Int
  BY <1>1, <1>2, PlusSums
<1>5. h(from)[receiver] = f(from)[receiver] + Sum(delta)
  BY <1>1, <1>2, PlusSums
<1>6. \A b \in Accounts \ {receiver} : h(from)[b] = f(from)[b]
  BY <1>2
<1>7. \A a \in Accounts \ {from} : h(a) = f(a)
  BY <1>2
<1>8. \A a \in Accounts : DelegatedBy(a) = SumFunctionOnSet(f(a), Accounts)
  BY DEF DelegatedBy
<1>9. \A a \in Accounts : DelegatedBy(a)' = SumFunctionOnSet(h(a), Accounts)
  BY DEF DelegatedBy
<1> HIDE DEF f, h
<1>10. SumFunctionOnSet(h(from), Accounts) = SumFunctionOnSet(f(from), Accounts) + Sum(delta)
  BY <1>3, <1>4, <1>5, <1>6, SumUpdate, StakingAssumption DEF StakingAssumption
<1> QED
  BY <1>7, <1>8, <1>9, <1>10

\* What a receiver is given changes by as much, resource by resource.
LEMMA DelegatedToChanges ==
  ASSUME StakingTypeOK, NEW from \in Accounts, NEW receiver \in Accounts, NEW delta \in Weight,
         Delegated(from, receiver, delta)
  PROVE  /\ DelegatedTo(receiver)' = Plus(DelegatedTo(receiver), delta)
         /\ \A a \in Accounts \ {receiver} : DelegatedTo(a)' = DelegatedTo(a)
<1> DEFINE f(a, r) == [b \in Accounts |-> delband[<<b, a>>][r]]
           h(a, r) == [b \in Accounts |-> delband'[<<b, a>>][r]]
<1>1. \A a, b \in Accounts : delband[<<a, b>>] \in Weight
  BY DEF StakingTypeOK
<1>2. \A a, b \in Accounts :
        delband'[<<a, b>>] = IF a = from /\ b = receiver
                             THEN Plus(delband[<<a, b>>], delta) ELSE delband[<<a, b>>]
  BY DEF StakingTypeOK, Delegated
<1>3. \A a \in Accounts : \A r \in Resource : f(a, r) \in [Accounts -> Int]
  BY <1>1 DEF Weight
<1>4. ASSUME NEW r \in Resource
      PROVE  SumFunctionOnSet(h(receiver, r), Accounts)
               = SumFunctionOnSet(f(receiver, r), Accounts) + delta[r]
  <2>1. delta[r] \in Int /\ h(receiver, r) \in [Accounts -> Int]
    BY <1>1, <1>2, PlusSums DEF Weight
  <2>2. h(receiver, r)[from] = f(receiver, r)[from] + delta[r]
    BY <1>1, <1>2, PlusSums
  <2>3. \A b \in Accounts \ {from} : h(receiver, r)[b] = f(receiver, r)[b]
    BY <1>2
  <2>4. f(receiver, r) \in [Accounts -> Int]
    BY <1>3
  <2>5. IsFiniteSet(Accounts)
    BY StakingAssumption DEF StakingAssumption
  <2> DEFINE F == f(receiver, r)
             H == h(receiver, r)
  <2> HIDE DEF F, H
  <2>6. /\ F \in [Accounts -> Int] /\ H \in [Accounts -> Int]
        /\ H[from] = F[from] + delta[r]
        /\ \A b \in Accounts \ {from} : H[b] = F[b]
    BY <2>1, <2>2, <2>3, <2>4 DEF F, H
  <2>7. SumFunctionOnSet(H, Accounts) = SumFunctionOnSet(F, Accounts) + delta[r]
    BY <2>1, <2>5, <2>6, SumUpdate
  <2> QED
    BY <2>7 DEF F, H
<1>5. \A a \in Accounts \ {receiver} : \A r \in Resource : h(a, r) = f(a, r)
  BY <1>2
<1>6. \A a \in Accounts :
        DelegatedTo(a) = [r \in Resource |-> SumFunctionOnSet(f(a, r), Accounts)]
  BY DEF DelegatedTo
<1>7. \A a \in Accounts :
        DelegatedTo(a)' = [r \in Resource |-> SumFunctionOnSet(h(a, r), Accounts)]
  BY DEF DelegatedTo
<1> HIDE DEF f, h
<1>8. DelegatedTo(receiver)' = Plus(DelegatedTo(receiver), delta)
  BY <1>4, <1>6, <1>7 DEF Plus
<1>9. \A a \in Accounts \ {receiver} : DelegatedTo(a)' = DelegatedTo(a)
  BY <1>5, <1>6, <1>7
<1> QED
  BY <1>8, <1>9

(***************************************************************************)
(* Staking: changebw.                                                      *)
(***************************************************************************)
\* What changebw does to the tables: source pays for a change of what from has
\* delegated to receiver; a request and a scheduled refund remain.
Changed(source, from, receiver, delta, pay, request, due) ==
  /\ Delegated(from, receiver, delta)
  /\ userres' = [userres EXCEPT ![receiver] = Plus(@, delta)]
  /\ refunds' = [refunds EXCEPT ![from] = request]
  /\ deferred' = [deferred EXCEPT ![from] = due]
  /\ Pay(source, StakeAccount, pay)
  /\ voters' = [voters EXCEPT ![from] = WithStake(from, Staked(from) + Sum(delta))]

\* What is paid and what remains to be refunded balance the change of stake.
Balanced(from, delta, pay, request, due) ==
  /\ pay + RefundOwed(from) = Sum(delta) + Owed(request)
  /\ request # NoRow => request.request_time <= now
  /\ due # NoRow /\ request # NoRow => due >= request.request_time + RefundDelay

\* The balances of tokens after a payment into eosio.stake.
LEMMA PaidIn ==
  ASSUME StakingTypeOK, NEW source \in Accounts, NEW pay \in Nat, Pay(source, StakeAccount, pay)
  PROVE  /\ tokens' \in [Holders -> Int]
         /\ tokens'[StakeAccount] = tokens[StakeAccount] + pay
         /\ \A a \in Accounts : tokens'[a] <= tokens[a]
<1>1. /\ StakeAccount \notin Accounts /\ StakeAccount \in Holders /\ source \in Holders
      /\ Accounts \subseteq Holders
  BY StakingAssumption DEF StakingAssumption, Holders
<1>2. tokens \in [Holders -> Int] /\ source # StakeAccount
  BY <1>1 DEF StakingTypeOK
<1>3. tokens' = [tokens EXCEPT ![source] = tokens[source] - pay,
                               ![StakeAccount] = tokens[StakeAccount] + pay]
  BY <1>1, <1>2 DEF Pay
<1>4. tokens[source] \in Int /\ tokens[source] - pay \in Int
      /\ tokens[StakeAccount] + pay \in Int /\ tokens[source] - pay <= tokens[source]
  BY <1>1, <1>2
<1>5. /\ tokens'[StakeAccount] = tokens[StakeAccount] + pay
      /\ tokens'[source] = tokens[source] - pay
      /\ \A a \in Accounts \ {source} : tokens'[a] = tokens[a]
  BY <1>1, <1>2, <1>3
<1>6. tokens' \in [Holders -> Int]
  BY <1>1, <1>2, <1>3, <1>4
<1>7. \A a \in Accounts : tokens[a] \in Int
  BY <1>1, <1>2
<1> QED
  BY <1>4, <1>5, <1>6, <1>7

\* The balances of tokens after a payment from eosio.stake.
LEMMA PaidOut ==
  ASSUME StakingTypeOK, NEW owner \in Accounts, NEW pay \in Nat, Pay(StakeAccount, owner, pay)
  PROVE  /\ tokens' \in [Holders -> Int]
         /\ tokens'[StakeAccount] = tokens[StakeAccount] - pay
         /\ \A a \in Accounts \ {owner} : tokens'[a] = tokens[a]
<1>1. /\ StakeAccount \notin Accounts /\ StakeAccount \in Holders /\ owner \in Holders
      /\ Accounts \subseteq Holders
  BY StakingAssumption DEF StakingAssumption, Holders
<1> QED
  BY <1>1 DEF StakingTypeOK, Pay

\* A voter's stake is a number, and the row written for it holds that number.
LEMMA StakedIsInt ==
  ASSUME StakingTypeOK, NEW a \in Accounts
  PROVE  Staked(a) \in Int
<1>1. voters[a] = NoRow \/ voters[a] \in VoterInfo
  BY DEF StakingTypeOK
<1> QED
  BY <1>1 DEF Staked, VoterInfo

\* The row written for a changed stake is a voter's row.
LEMMA WithStakeType ==
  ASSUME StakingTypeOK, NEW a \in Accounts, NEW stake \in Int
  PROVE  WithStake(a, stake) \in VoterInfo /\ WithStake(a, stake).staked = stake
<1>1. voters[a] = NoRow \/ voters[a] \in VoterInfo
  BY DEF StakingTypeOK
<1>2. CASE voters[a] = NoRow
  BY <1>2 DEF WithStake, VoterInfo
<1>3. CASE voters[a] # NoRow
  <2>1. WithStake(a, stake) = [voters[a] EXCEPT !.staked = stake] /\ voters[a] \in VoterInfo
    BY <1>1, <1>3 DEF WithStake
  <2> QED
    BY <2>1 DEF VoterInfo
<1> QED
  BY <1>2, <1>3

\* Every run of changebw is such a change, and balanced.
LEMMA ChangebwChanges ==
  ASSUME StakingInv, NEW source \in Accounts, NEW receiver \in Accounts, NEW delta \in Weight,
         NEW transfer \in BOOLEAN, changebw(source, receiver, delta, transfer, 0)
  PROVE  \E from \in Accounts, pay \in Nat, request \in RefundRequest \cup {NoRow},
            due \in Nat \cup {NoRow} :
           /\ Changed(source, from, receiver, delta, pay, request, due)
           /\ Balanced(from, delta, pay, request, due)
<1> DEFINE from == IF transfer THEN receiver ELSE source
           touched == TouchesRefund(from, receiver, delta, transfer)
           settled == IF touched THEN Settle(refunds[from], delta)
                      ELSE [pay |-> delta, request |-> refunds[from]]
           due == Schedule(from, touched, settled.request)
<1>1. from \in Accounts
  OBVIOUS
<1>2. /\ delband' = [delband EXCEPT ![<<from, receiver>>] = Plus(delband[<<from, receiver>>], delta)]
      /\ userres' = [userres EXCEPT ![receiver] = Plus(userres[receiver], delta)]
      /\ refunds' = [refunds EXCEPT ![from] = settled.request]
      /\ deferred' = [deferred EXCEPT ![from] = due]
      /\ Pay(source, StakeAccount, Sum(settled.pay))
      /\ voters' = [voters EXCEPT ![from] =
           WithStake(from, Staked(from) + (IF voters[from] = NoRow THEN 0 ELSE 0) + Sum(delta))]
  BY DEF changebw, TotalAfter
<1> HIDE DEF from
<1>3. Staked(from) \in Int /\ Sum(delta) \in Int
  BY <1>1, PlusSums, StakedIsInt DEF StakingInv
<1>4. Staked(from) + (IF voters[from] = NoRow THEN 0 ELSE 0) + Sum(delta) = Staked(from) + Sum(delta)
  BY <1>3
<1>5. /\ now \in Nat /\ RefundDelay \in Nat
      /\ refunds[from] \in RefundRequest \cup {NoRow}
      /\ refunds[from] # NoRow => refunds[from].request_time <= now
      /\ RefundOwed(from) = Owed(refunds[from])
  BY <1>1, StakingAssumption
  DEF StakingInv, StakingTypeOK, RequestsPast, RefundOwed, Owed, StakingAssumption
<1>6. /\ Sum(settled.pay) \in Nat
      /\ settled.request \in RefundRequest \cup {NoRow}
      /\ Sum(settled.pay) + Owed(refunds[from]) = Sum(delta) + Owed(settled.request)
      /\ settled.request # NoRow => settled.request.request_time <= now
  <2>1. CASE touched
    <3>1. settled = Settle(refunds[from], delta)
      BY <2>1
    <3>2. settled.pay \in [Resource -> Nat]
      BY <1>5, <3>1, Settled
    <3>3. Sum(settled.pay) \in Nat
      BY <3>2 DEF Sum, Resource
    <3> QED
      BY <1>5, <3>1, <3>3, Settled
  <2>2. CASE ~ touched
    <3>1. settled.pay = delta /\ settled.request = refunds[from]
      BY <2>2
    <3>2. Sum(delta) >= 0
      BY <1>3, <2>2 DEF TouchesRefund
    <3> QED
      BY <1>3, <1>5, <3>1, <3>2
  <2> QED
    BY <2>1, <2>2
<1>7. /\ due \in Nat \cup {NoRow}
      /\ due # NoRow /\ settled.request # NoRow => due >= settled.request.request_time + RefundDelay
  <2>1. settled.request # NoRow => settled.request.request_time \in Nat
    BY <1>6 DEF RefundRequest
  <2> QED
    BY <1>5, <1>6, <2>1 DEF Schedule
<1> HIDE DEF settled, due
<1>8. Changed(source, from, receiver, delta, Sum(settled.pay), settled.request, due)
  BY <1>2, <1>4 DEF Changed, Delegated
<1>9. Balanced(from, delta, Sum(settled.pay), settled.request, due)
  BY <1>5, <1>6, <1>7 DEF Balanced
<1> QED
  BY <1>1, <1>6, <1>7, <1>8, <1>9

\* A balanced change keeps the types and each of the invariants, and no account
\* has more tokens after it.
LEMMA ChangeKeeps ==
  ASSUME StakingInv, NEW source \in Accounts, NEW from \in Accounts, NEW receiver \in Accounts,
         NEW delta \in Weight, NEW pay \in Nat, NEW request \in RefundRequest \cup {NoRow},
         NEW due \in Nat \cup {NoRow},
         Changed(source, from, receiver, delta, pay, request, due),
         Balanced(from, delta, pay, request, due),
         UNCHANGED <<now, activated>>
  PROVE  StakingInv' /\ \A a \in Accounts : tokens'[a] <= tokens[a]
<1>0. /\ StakingTypeOK /\ IsFiniteSet(Accounts) /\ Delegated(from, receiver, delta)
      /\ Sum(delta) \in Int
  BY StakingAssumption, PlusSums DEF StakingInv, StakingAssumption, Changed
<1>1. /\ tokens' \in [Holders -> Int]
      /\ tokens'[StakeAccount] = tokens[StakeAccount] + pay
      /\ \A a \in Accounts : tokens'[a] <= tokens[a]
  BY <1>0, PaidIn DEF Changed
<1>2. /\ refunds' \in [Accounts -> RefundRequest \cup {NoRow}]
      /\ refunds'[from] = request
      /\ \A a \in Accounts \ {from} : refunds'[a] = refunds[a]
  BY <1>0 DEF StakingTypeOK, Changed
<1>3. \A a \in Accounts : Staked(a) \in Int
  BY <1>0, StakedIsInt
<1>4. WithStake(from, Staked(from) + Sum(delta)) \in VoterInfo
      /\ WithStake(from, Staked(from) + Sum(delta)).staked = Staked(from) + Sum(delta)
  <2>1. Staked(from) + Sum(delta) \in Int
    BY <1>0, <1>3
  <2> QED
    BY <1>0, <2>1, WithStakeType
<1>5. /\ voters' \in [Accounts -> VoterInfo \cup {NoRow}]
      /\ Staked(from)' = Staked(from) + Sum(delta)
      /\ \A a \in Accounts \ {from} : Staked(a)' = Staked(a)
  <2>1. /\ voters' \in [Accounts -> VoterInfo \cup {NoRow}]
        /\ voters'[from] = WithStake(from, Staked(from) + Sum(delta))
        /\ \A a \in Accounts \ {from} : voters'[a] = voters[a]
    BY <1>0, <1>4 DEF StakingTypeOK, Changed
  <2>2. voters'[from] # NoRow
    BY <1>4, <2>1, StakingAssumption DEF StakingAssumption
  <2> QED
    BY <1>4, <2>1, <2>2 DEF Staked
<1>6. StakingTypeOK'
  <2>1. delband' \in [Accounts \X Accounts -> Weight]
    BY <1>0, PlusSums DEF StakingTypeOK, Delegated
  <2>2. userres' \in [Accounts -> Weight]
    BY <1>0, PlusSums DEF StakingTypeOK, Changed
  <2>3. deferred' \in [Accounts -> Nat \cup {NoRow}]
    BY <1>0 DEF StakingTypeOK, Changed
  <2> QED
    BY <1>0, <1>1, <1>2, <1>5, <2>1, <2>2, <2>3 DEF StakingTypeOK
<1>7. StakeBacked'
  <2> DEFINE f == [a \in Accounts |-> DelegatedBy(a) + RefundOwed(a)]
             h == [a \in Accounts |-> DelegatedBy(a)' + RefundOwed(a)']
  <2>1. \A a \in Accounts : DelegatedBy(a) \in Int /\ RefundOwed(a) \in Int
    <3>1. \A a \in Accounts : DelegatedBy(a) \in Int
      BY <1>3 DEF StakingInv, StakeCounted
    <3>2. \A a \in Accounts : RefundOwed(a) \in Int
      BY <1>0 DEF StakingTypeOK, RefundOwed, RefundRequest, Sum, Resource
    <3> QED
      BY <3>1, <3>2
  <2>2. /\ DelegatedBy(from)' = DelegatedBy(from) + Sum(delta)
        /\ \A a \in Accounts \ {from} : DelegatedBy(a)' = DelegatedBy(a)
    BY <1>0, DelegatedByChanges
  <2>3. RefundOwed(from)' = Owed(request) /\ \A a \in Accounts \ {from} : RefundOwed(a)' = RefundOwed(a)
    BY <1>2 DEF RefundOwed, Owed
  <2>4. Owed(request) \in Int
    BY DEF Owed, RefundRequest, Sum, Resource
  <2>5. pay + RefundOwed(from) = Sum(delta) + Owed(request)
    BY DEF Balanced
  <2>6. f \in [Accounts -> Int]
    BY <2>1
  <2>7. h[from] = f[from] + pay
    BY <1>0, <2>1, <2>2, <2>3, <2>4, <2>5
  <2>8. \A a \in Accounts \ {from} : h[a] = f[a]
    BY <2>2, <2>3
  <2>9. h \in [Accounts -> Int]
    BY <2>6, <2>7, <2>8
  <2>10. tokens[StakeAccount] = SumFunctionOnSet(f, Accounts)
    BY DEF StakingInv, StakeBacked
  <2> HIDE DEF f, h
  <2>11. SumFunctionOnSet(h, Accounts) = SumFunctionOnSet(f, Accounts) + pay
    BY <1>0, <2>6, <2>7, <2>8, <2>9, SumUpdate
  <2>12. tokens'[StakeAccount] = SumFunctionOnSet(h, Accounts)
    BY <1>1, <2>10, <2>11
  <2> QED
    BY <2>12 DEF StakeBacked, h
<1>8. TotalsMatch'
  <2>1. /\ DelegatedTo(receiver)' = Plus(DelegatedTo(receiver), delta)
        /\ \A a \in Accounts \ {receiver} : DelegatedTo(a)' = DelegatedTo(a)
    BY <1>0, DelegatedToChanges
  <2>2. \A a \in Accounts : userres[a] = DelegatedTo(a)
    BY DEF StakingInv, TotalsMatch
  <2>3. /\ userres'[receiver] = Plus(userres[receiver], delta)
        /\ \A a \in Accounts \ {receiver} : userres'[a] = userres[a]
    BY <1>0 DEF StakingTypeOK, Changed
  <2>4. \A a \in Accounts : userres'[a] = DelegatedTo(a)'
    BY <2>1, <2>2, <2>3
  <2> QED
    BY <2>4 DEF TotalsMatch
<1>9. StakeCounted'
  <2>1. /\ DelegatedBy(from)' = DelegatedBy(from) + Sum(delta)
        /\ \A a \in Accounts \ {from} : DelegatedBy(a)' = DelegatedBy(a)
    BY <1>0, DelegatedByChanges
  <2>2. \A a \in Accounts : Staked(a)' = DelegatedBy(a)'
    BY <1>5, <2>1 DEF StakingInv, StakeCounted
  <2> QED
    BY <2>2 DEF StakeCounted
<1>10. DeferredNotEarly' /\ RequestsPast'
  <2>1. deferred'[from] = due /\ \A a \in Accounts \ {from} : deferred'[a] = deferred[a]
    BY <1>0 DEF StakingTypeOK, Changed
  <2> QED
    BY <1>2, <2>1 DEF StakingInv, DeferredNotEarly, RequestsPast, Balanced
<1> QED
  BY <1>1, <1>6, <1>7, <1>8, <1>9, <1>10 DEF StakingInv

(***************************************************************************)
(* Staking: the actions.                                                   *)
(***************************************************************************)
\* Only an account whose request is due receives tokens.
NotEarly == \A a \in Accounts : tokens'[a] > tokens[a] => RefundDue(a)

\* Staking pays nobody.
LEMMA ChangebwKeeps ==
  ASSUME StakingInv, NEW source \in Accounts, NEW receiver \in Accounts, NEW delta \in Weight,
         NEW transfer \in BOOLEAN, changebw(source, receiver, delta, transfer, 0),
         UNCHANGED <<now, activated>>
  PROVE  StakingInv' /\ NotEarly
<1>1. PICK from \in Accounts, pay \in Nat, request \in RefundRequest \cup {NoRow},
           due \in Nat \cup {NoRow} :
             /\ Changed(source, from, receiver, delta, pay, request, due)
             /\ Balanced(from, delta, pay, request, due)
  BY ChangebwChanges
<1>2. StakingInv' /\ \A a \in Accounts : tokens'[a] <= tokens[a]
  BY <1>1, ChangeKeeps
<1>3. \A a \in Accounts : tokens[a] \in Int /\ tokens'[a] \in Int
  BY <1>2, StakingAssumption DEF StakingInv, StakingTypeOK, Holders
<1> QED
  BY <1>2, <1>3 DEF NotEarly

\* A refund that is due and paid, by the owner or by the deferred transaction.
LEMMA RefundKeeps ==
  ASSUME StakingInv, NEW owner \in Accounts, RefundDue(owner), PayRefund(owner),
         deferred' \in {deferred, [deferred EXCEPT ![owner] = NoRow]},
         UNCHANGED <<now, delband, userres, voters, activated>>
  PROVE  StakingInv' /\ NotEarly
<1> DEFINE pay == Sum(refunds[owner].amount)
<1>0. StakingTypeOK /\ IsFiniteSet(Accounts)
  BY StakingAssumption DEF StakingInv, StakingAssumption
<1>1. refunds[owner] # NoRow /\ refunds[owner] \in RefundRequest
  BY <1>0 DEF RefundDue, StakingTypeOK
<1>2. pay \in Nat /\ RefundOwed(owner) = pay
  BY <1>1 DEF RefundRequest, Sum, Resource, RefundOwed
<1>3. Pay(StakeAccount, owner, pay)
  BY DEF PayRefund
<1>4. /\ refunds' \in [Accounts -> RefundRequest \cup {NoRow}]
      /\ refunds'[owner] = NoRow
      /\ \A a \in Accounts \ {owner} : refunds'[a] = refunds[a]
  BY <1>0 DEF StakingTypeOK, PayRefund
<1> HIDE DEF pay
<1>5. /\ tokens' \in [Holders -> Int]
      /\ tokens'[StakeAccount] = tokens[StakeAccount] - pay
      /\ \A a \in Accounts \ {owner} : tokens'[a] = tokens[a]
  BY <1>0, <1>2, <1>3, PaidOut
<1>6. deferred' \in [Accounts -> Nat \cup {NoRow}] /\ \A a \in Accounts \ {owner} : deferred'[a] = deferred[a]
  BY <1>0 DEF StakingTypeOK
<1>7. StakingTypeOK'
  BY <1>0, <1>4, <1>5, <1>6 DEF StakingTypeOK
<1>8. \A a \in Accounts : /\ DelegatedBy(a)' = DelegatedBy(a)
                          /\ DelegatedTo(a)' = DelegatedTo(a)
                          /\ Staked(a)' = Staked(a)
  BY DEF DelegatedBy, DelegatedTo, Staked
<1>9. TotalsMatch' /\ StakeCounted'
  BY <1>8 DEF StakingInv, TotalsMatch, StakeCounted
<1>10. StakeBacked'
  <2> DEFINE f == [a \in Accounts |-> DelegatedBy(a) + RefundOwed(a)]
             h == [a \in Accounts |-> DelegatedBy(a)' + RefundOwed(a)']
  <2>1. \A a \in Accounts : DelegatedBy(a) \in Int
    BY <1>0, StakedIsInt DEF StakingInv, StakeCounted
  <2>2. \A a \in Accounts : RefundOwed(a) \in Int
    BY <1>0 DEF StakingTypeOK, RefundOwed, RefundRequest, Sum, Resource
  <2>3. RefundOwed(owner)' = 0 /\ \A a \in Accounts \ {owner} : RefundOwed(a)' = RefundOwed(a)
    BY <1>4 DEF RefundOwed
  <2>4. f \in [Accounts -> Int] /\ h \in [Accounts -> Int]
    BY <1>8, <2>1, <2>2, <2>3
  <2>5. h[owner] = f[owner] + (- pay) /\ - pay \in Int
    BY <1>2, <1>8, <2>1, <2>3
  <2>6. \A a \in Accounts \ {owner} : h[a] = f[a]
    BY <1>8, <2>3
  <2>7. tokens[StakeAccount] = SumFunctionOnSet(f, Accounts)
    BY DEF StakingInv, StakeBacked
  <2> HIDE DEF f, h
  <2>8. SumFunctionOnSet(h, Accounts) = SumFunctionOnSet(f, Accounts) + (- pay)
    BY <1>0, <2>4, <2>5, <2>6, SumUpdate
  <2>9. SumFunctionOnSet(f, Accounts) \in Int
    BY <1>0, <2>4, SumIsInt
  <2>10. tokens'[StakeAccount] = SumFunctionOnSet(h, Accounts)
    BY <1>2, <1>5, <2>7, <2>8, <2>9
  <2> QED
    BY <2>10 DEF StakeBacked, h
<1>11. DeferredNotEarly' /\ RequestsPast'
  BY <1>4, <1>6 DEF StakingInv, DeferredNotEarly, RequestsPast
<1>12. NotEarly
  <2>1. \A a \in Accounts : tokens[a] \in Int
    BY <1>0, StakingAssumption DEF StakingTypeOK, Holders
  <2> QED
    BY <1>5, <2>1 DEF NotEarly
<1> QED
  BY <1>7, <1>9, <1>10, <1>11, <1>12 DEF StakingInv

\* A scheduled transaction that fails is gone, and nothing else has changed.
LEMMA UnscheduleKeeps ==
  ASSUME StakingInv, NEW owner \in Accounts, deferred' = [deferred EXCEPT ![owner] = NoRow],
         UNCHANGED <<now, tokens, delband, userres, refunds, voters, activated>>
  PROVE  StakingInv' /\ NotEarly
<1>1. /\ deferred' \in [Accounts -> Nat \cup {NoRow}]
      /\ deferred'[owner] = NoRow
      /\ \A a \in Accounts \ {owner} : deferred'[a] = deferred[a]
  BY DEF StakingInv, StakingTypeOK
<1>2. StakingTypeOK'
  BY <1>1 DEF StakingInv, StakingTypeOK
<1>3. StakeBacked' /\ TotalsMatch' /\ StakeCounted'
  BY DEF StakingInv, StakeBacked, TotalsMatch, StakeCounted, DelegatedBy, DelegatedTo, RefundOwed, Staked
<1>4. DeferredNotEarly' /\ RequestsPast'
  BY <1>1 DEF StakingInv, DeferredNotEarly, RequestsPast
<1>5. NotEarly
  <2>1. \A a \in Accounts : tokens[a] \in Int
    BY DEF StakingInv, StakingTypeOK, Holders
  <2> QED
    BY <2>1 DEF NotEarly
<1> QED
  BY <1>2, <1>3, <1>4, <1>5 DEF StakingInv

\* Steps that leave the tables alone: activation, time, and no step at all.
LEMMA StakingTablesKept ==
  ASSUME StakingInv, now' \in 0 .. MaxTime, now' >= now, activated' \in BOOLEAN,
         UNCHANGED <<tokens, delband, userres, refunds, deferred, voters>>
  PROVE  StakingInv' /\ NotEarly
<1>1. StakingTypeOK'
  BY DEF StakingInv, StakingTypeOK
<1>2. StakeBacked' /\ TotalsMatch' /\ StakeCounted' /\ DeferredNotEarly'
  BY DEF StakingInv, StakeBacked, TotalsMatch, StakeCounted, DelegatedBy, DelegatedTo, RefundOwed, Staked,
         DeferredNotEarly
<1>3. RequestsPast'
  <2> SUFFICES ASSUME NEW a \in Accounts, refunds[a] # NoRow
               PROVE  refunds[a].request_time <= now'
    BY DEF RequestsPast
  <2>1. refunds[a] \in RefundRequest
    BY DEF StakingInv, StakingTypeOK
  <2>2. refunds[a].request_time \in Nat /\ refunds[a].request_time <= now /\ now \in Nat /\ now' \in Nat
    BY <2>1, StakingAssumption DEF RefundRequest, StakingInv, RequestsPast, StakingTypeOK, StakingAssumption
  <2> QED
    BY <2>2
<1>4. NotEarly
  <2>1. \A a \in Accounts : tokens[a] \in Int
    BY DEF StakingInv, StakingTypeOK, Holders
  <2> QED
    BY <2>1 DEF NotEarly
<1> QED
  BY <1>1, <1>2, <1>3, <1>4 DEF StakingInv

\* At first nothing is delegated, refunded or counted.
LEMMA StakingInitHolds ==
  StakingInit => StakingInv
<1> SUFFICES ASSUME StakingInit
             PROVE  StakingInv
  OBVIOUS
<1>0. IsFiniteSet(Accounts) /\ Zero \in Weight /\ Sum(Zero) = 0
  BY StakingAssumption DEF StakingAssumption, Zero, Weight, Sum, Resource
<1>1. StakingTypeOK
  <2>1. now \in 0 .. MaxTime
    BY StakingAssumption DEF StakingInit, StakingAssumption
  <2>2. tokens \in [Holders -> Int]
    BY StakingAssumption DEF StakingInit, StakingAssumption
  <2>3. delband \in [Accounts \X Accounts -> Weight] /\ userres \in [Accounts -> Weight]
    BY <1>0 DEF StakingInit
  <2>4. /\ refunds \in [Accounts -> RefundRequest \cup {NoRow}]
        /\ deferred \in [Accounts -> Nat \cup {NoRow}]
    BY DEF StakingInit
  <2>5. voters \in [Accounts -> VoterInfo \cup {NoRow}] /\ activated \in BOOLEAN
    BY StakingAssumption DEF StakingInit, StakingAssumption
  <2> QED
    BY <2>1, <2>2, <2>3, <2>4, <2>5 DEF StakingTypeOK
<1>2. \A a, b \in Accounts : delband[<<a, b>>] = Zero
  BY DEF StakingInit
<1>3. ASSUME NEW a \in Accounts
      PROVE  DelegatedBy(a) = 0
  <2> DEFINE f == [b \in Accounts |-> Sum(delband[<<a, b>>])]
  <2>1. f \in [Accounts -> Int] /\ \A b \in Accounts : f[b] = 0
    BY <1>0, <1>2
  <2> HIDE DEF f
  <2>2. SumFunctionOnSet(f, Accounts) = 0
    BY <1>0, <2>1, SumZero
  <2> QED
    BY <2>2 DEF DelegatedBy, f
<1>4. ASSUME NEW a \in Accounts
      PROVE  DelegatedTo(a) = Zero
  <2>1. ASSUME NEW r \in Resource
        PROVE  SumFunctionOnSet([b \in Accounts |-> delband[<<b, a>>][r]], Accounts) = 0
    <3> DEFINE f == [b \in Accounts |-> delband[<<b, a>>][r]]
    <3>1. f \in [Accounts -> Int] /\ \A b \in Accounts : f[b] = 0
      BY <1>2 DEF Zero
    <3> HIDE DEF f
    <3>2. SumFunctionOnSet(f, Accounts) = 0
      BY <1>0, <3>1, SumZero
    <3> QED
      BY <3>2 DEF f
  <2> QED
    BY <2>1 DEF DelegatedTo, Zero
<1>5. \A a \in Accounts : RefundOwed(a) = 0 /\ Staked(a) = 0
  BY StakingAssumption DEF StakingInit, RefundOwed, Staked, StakingAssumption
<1>6. StakeBacked
  <2> DEFINE f == [a \in Accounts |-> DelegatedBy(a) + RefundOwed(a)]
  <2>1. f \in [Accounts -> Int] /\ \A a \in Accounts : f[a] = 0
    BY <1>3, <1>5
  <2> HIDE DEF f
  <2>2. SumFunctionOnSet(f, Accounts) = 0
    BY <1>0, <2>1, SumZero
  <2>3. tokens[StakeAccount] = 0
    BY StakingAssumption DEF StakingInit, StakingAssumption
  <2> QED
    BY <2>2, <2>3 DEF StakeBacked, f
<1>7. TotalsMatch /\ StakeCounted
  BY <1>3, <1>4, <1>5 DEF StakingInit, TotalsMatch, StakeCounted
<1>8. DeferredNotEarly /\ RequestsPast
  BY DEF StakingInit, DeferredNotEarly, RequestsPast
<1> QED
  BY <1>1, <1>6, <1>7, <1>8 DEF StakingInv

\* The amounts of an action, and their negatives, are weights.
LEMMA QuantityTypes ==
  \A q \in Quantities : q \in Weight /\ Negative(q) \in Weight
<1> SUFFICES ASSUME NEW q \in Quantities
             PROVE  q \in Weight /\ Negative(q) \in Weight
  OBVIOUS
<1>1. q \in [Resource -> Amounts] /\ \A x \in Amounts : x \in Int
  BY StakingAssumption DEF Quantities, StakingAssumption
<1>2. q \in [Resource -> Int]
  BY <1>1, Zenon
<1>3. \A r \in Resource : - q[r] \in Int
  BY <1>2
<1> QED
  BY <1>2, <1>3 DEF Weight, Negative

\* Every step keeps the invariant, and pays no refund early.
LEMMA StakingNextKeeps ==
  ASSUME StakingInv, [StakingNext]_stakingVars
  PROVE  StakingInv' /\ NotEarly
<1>1. ASSUME NEW from \in Accounts, NEW receiver \in Accounts, NEW q \in Quantities,
             NEW transfer \in BOOLEAN, delegatebw(from, receiver, q, transfer)
      PROVE  StakingInv' /\ NotEarly
  BY <1>1, ChangebwKeeps, QuantityTypes DEF delegatebw
<1>2. ASSUME NEW from \in Accounts, NEW receiver \in Accounts, NEW q \in Quantities,
             undelegatebw(from, receiver, q)
      PROVE  StakingInv' /\ NotEarly
  BY <1>2, ChangebwKeeps, QuantityTypes DEF undelegatebw
<1>3. ASSUME NEW owner \in Accounts, refund(owner)
      PROVE  StakingInv' /\ NotEarly
  BY <1>3, RefundKeeps DEF refund
<1>4. ASSUME NEW owner \in Accounts, DeferredRefund(owner)
      PROVE  StakingInv' /\ NotEarly
  <2>1. CASE RefundDue(owner) /\ PayRefund(owner)
    BY <1>4, <2>1, RefundKeeps DEF DeferredRefund
  <2>2. CASE UNCHANGED <<tokens, refunds>>
    BY <1>4, <2>2, UnscheduleKeeps DEF DeferredRefund
  <2> QED
    BY <1>4, <2>1, <2>2 DEF DeferredRefund
<1>5. now \in 0 .. MaxTime /\ activated \in BOOLEAN /\ now \in Int /\ MaxTime \in Int
  BY StakingAssumption DEF StakingInv, StakingTypeOK, StakingAssumption
<1>6. CASE Activate
  BY <1>5, <1>6, StakingTablesKept DEF Activate
<1>7. CASE AdvanceTime
  <2>1. now' \in 0 .. MaxTime /\ now' >= now
    BY <1>5, <1>7 DEF AdvanceTime
  <2> QED
    BY <1>5, <1>7, <2>1, StakingTablesKept DEF AdvanceTime
<1>8. CASE UNCHANGED stakingVars
  BY <1>5, <1>8, StakingTablesKept DEF stakingVars
<1> QED
  BY <1>1, <1>2, <1>3, <1>4, <1>6, <1>7, <1>8 DEF StakingNext

\* The invariant holds of every reachable state.
LEMMA StakingInvariant ==
  StakingSpec => []StakingInv
<1>1. StakingInv /\ [StakingNext]_stakingVars => StakingInv'
  BY StakingNextKeeps
<1> QED
  BY <1>1, StakingInitHolds, PTL DEF StakingSpec

\* The tokens of eosio.stake are what is delegated and what is being refunded,
\* the totals are what all have delegated, and no scheduled refund is early.
THEOREM StakingIsSound ==
  StakingSpec => []StakingSound
<1>1. StakingInv => StakingSound
  BY DEF StakingInv, StakingSound
<1> QED
  BY <1>1, StakingInvariant, PTL

\* A voter counts exactly the tokens it has delegated.
THEOREM StakeIsCounted ==
  StakingSpec => []StakeCounted
<1>1. StakingInv => StakeCounted
  BY DEF StakingInv
<1> QED
  BY <1>1, StakingInvariant, PTL

(***************************************************************************)
(* Staking: what a request_time has to do with the last undelegation.      *)
(***************************************************************************)
\* No pending request is older than the last undelegation of its owner.
Noted ==
  \A a \in Accounts : refunds[a] # NoRow =>
    undelegated[a] \in Nat /\ undelegated[a] <= refunds[a].request_time

\* A request that remains after undelegating is of now; one that remains after
\* staking was there before, and keeps its time.
LEMMA SettledTime ==
  ASSUME NEW req \in RefundRequest \cup {NoRow}, NEW delta \in Weight,
         Settle(req, delta).request # NoRow
  PROVE  /\ ~ NonNegative(delta) => Settle(req, delta).request.request_time = now
         /\ NonNegative(delta) =>
              req # NoRow /\ Settle(req, delta).request.request_time = req.request_time
<1> DEFINE owed == [r \in Resource |-> (IF req = NoRow THEN 0 ELSE req.amount[r]) - delta[r]]
           left == [r \in Resource |-> IF owed[r] < 0 THEN 0 ELSE owed[r]]
           time == IF NonNegative(delta) THEN req.request_time ELSE now
<1>1. /\ Settle(req, delta).request = IF left = Zero THEN NoRow ELSE [amount |-> left, request_time |-> time]
      /\ left # Zero
  BY DEF Settle
<1>2. Settle(req, delta).request.request_time = time
  BY <1>1
<1>3. NonNegative(delta) => req # NoRow
  <2> SUFFICES ASSUME NonNegative(delta), req = NoRow
               PROVE  FALSE
    OBVIOUS
  <2>1. \A r \in Resource : delta[r] \in Int /\ delta[r] >= 0
    BY DEF Weight, NonNegative
  <2>2. \A r \in Resource : left[r] = 0
    BY <2>1
  <2> QED
    BY <1>1, <2>2 DEF Zero
<1> QED
  BY <1>2, <1>3

\* After undelegating a request that remains is of now.
LEMMA UndelegatedNow ==
  ASSUME StakingInv, NEW a \in Accounts, Undelegates(a), refunds'[a] # NoRow
  PROVE  refunds'[a].request_time = now
<1>1. PICK receiver \in Accounts, q \in Quantities : undelegatebw(a, receiver, q)
  BY DEF Undelegates
<1> DEFINE delta == Negative(q)
<1>2. q \in Weight /\ delta \in Weight
  BY QuantityTypes
<1>3. Sum(delta) < 0 /\ ~ NonNegative(delta)
  BY <1>1, <1>2 DEF undelegatebw, CanUndelegate, NonNegative, Negative, Sum, Resource, Weight
<1> HIDE DEF delta
<1>4. refunds' = [refunds EXCEPT ![a] = Settle(refunds[a], delta).request]
  BY <1>1, <1>3 DEF undelegatebw, changebw, TouchesRefund, delta
<1>5. refunds \in [Accounts -> RefundRequest \cup {NoRow}]
  BY DEF StakingInv, StakingTypeOK
<1>6. refunds'[a] = Settle(refunds[a], delta).request
  BY <1>4, <1>5
<1> QED
  BY <1>2, <1>3, <1>5, <1>6, SettledTime

\* Without an undelegation of its owner a request only stays, with its time and
\* perhaps with less in it, or goes.
LEMMA RequestStays ==
  ASSUME StakingInv, StakingNext, NEW a \in Accounts, ~ Undelegates(a), refunds'[a] # NoRow
  PROVE  refunds[a] # NoRow /\ refunds'[a].request_time = refunds[a].request_time
<1>1. refunds \in [Accounts -> RefundRequest \cup {NoRow}]
  BY DEF StakingInv, StakingTypeOK
<1>2. ASSUME NEW source \in Accounts, NEW receiver \in Accounts, NEW q \in Quantities,
             NEW transfer \in BOOLEAN, delegatebw(source, receiver, q, transfer)
      PROVE  refunds[a] # NoRow /\ refunds'[a].request_time = refunds[a].request_time
  <2> DEFINE from == IF transfer THEN receiver ELSE source
  <2>1. refunds' = [refunds EXCEPT ![from] =
          (IF TouchesRefund(from, receiver, q, transfer) THEN Settle(refunds[from], q)
           ELSE [pay |-> q, request |-> refunds[from]]).request]
    BY <1>2 DEF delegatebw, changebw
  <2>2. NonNegative(q) /\ q \in Weight
    BY <1>2, QuantityTypes DEF delegatebw, CanDelegate
  <2>3. from \in Accounts
    OBVIOUS
  <2> HIDE DEF from
  <2>4. CASE from # a
    BY <1>1, <2>1, <2>4
  <2>5. CASE from = a /\ TouchesRefund(from, receiver, q, transfer)
    <3>1. refunds'[a] = Settle(refunds[a], q).request
      BY <1>1, <2>1, <2>5
    <3> QED
      BY <1>1, <2>2, <3>1, SettledTime
  <2>6. CASE from = a /\ ~ TouchesRefund(from, receiver, q, transfer)
    BY <1>1, <2>1, <2>6
  <2> QED
    BY <2>4, <2>5, <2>6
<1>3. ASSUME NEW source \in Accounts, NEW receiver \in Accounts, NEW q \in Quantities,
             undelegatebw(source, receiver, q)
      PROVE  refunds[a] # NoRow /\ refunds'[a].request_time = refunds[a].request_time
  <2>1. source # a
    BY <1>3 DEF Undelegates
  <2>2. PICK request : refunds' = [refunds EXCEPT ![source] = request]
    BY <1>3 DEF undelegatebw, changebw
  <2> QED
    BY <1>1, <2>1, <2>2
<1>4. ASSUME NEW owner \in Accounts, refund(owner) \/ DeferredRefund(owner)
      PROVE  refunds[a] # NoRow /\ refunds'[a].request_time = refunds[a].request_time
  <2>1. refunds' = refunds \/ refunds' = [refunds EXCEPT ![owner] = NoRow]
    BY <1>4 DEF refund, DeferredRefund, PayRefund
  <2> QED
    BY <1>1, <2>1
<1>5. CASE Activate \/ AdvanceTime
  BY <1>5 DEF Activate, AdvanceTime
<1> QED
  BY <1>2, <1>3, <1>4, <1>5 DEF StakingNext

\* Every step keeps that no request is older than the last undelegation.
LEMMA HistoryKeeps ==
  ASSUME StakingInv, Noted, [HistoryNext]_historyVars
  PROVE  Noted'
<1>1. CASE UNCHANGED historyVars
  BY <1>1 DEF Noted, historyVars, stakingVars
<1>2. CASE HistoryNext
  <2> SUFFICES ASSUME NEW a \in Accounts, refunds'[a] # NoRow
               PROVE  undelegated'[a] \in Nat /\ undelegated'[a] <= refunds'[a].request_time
    BY DEF Noted
  <2>1. undelegated'[a] = IF Undelegates(a) THEN now ELSE undelegated[a]
    BY <1>2 DEF HistoryNext
  <2>2. now \in Nat
    BY StakingAssumption DEF StakingInv, StakingTypeOK, StakingAssumption
  <2>3. CASE Undelegates(a)
    BY <2>1, <2>2, <2>3, UndelegatedNow
  <2>4. CASE ~ Undelegates(a)
    BY <1>2, <2>1, <2>4, RequestStays DEF HistoryNext, Noted
  <2> QED
    BY <2>3, <2>4
<1> QED
  BY <1>1, <1>2

\* Neither of the two paths of a refund pays an account before the delay after
\* its last undelegation has passed.
THEOREM RefundsWait ==
  HistorySpec => NoEarlyRefund
<1>1. HistoryInit => StakingInv /\ Noted
  BY StakingInitHolds DEF HistoryInit, StakingInit, Noted
<1>2. StakingInv /\ Noted /\ [HistoryNext]_historyVars => StakingInv' /\ Noted'
  BY StakingNextKeeps, HistoryKeeps DEF HistoryNext, historyVars
<1>3. StakingInv /\ Noted /\ [HistoryNext]_historyVars =>
        [\A a \in Accounts :
           tokens'[a] > tokens[a] =>
             undelegated[a] # NoRow /\ undelegated[a] + RefundDelay <= now]_historyVars
  <2> SUFFICES ASSUME StakingInv, Noted, [HistoryNext]_historyVars,
                      NEW a \in Accounts, tokens'[a] > tokens[a]
               PROVE  undelegated[a] # NoRow /\ undelegated[a] + RefundDelay <= now
    OBVIOUS
  <2>1. RefundDue(a)
    BY StakingNextKeeps DEF NotEarly, HistoryNext, historyVars
  <2>2. /\ refunds[a] # NoRow /\ refunds[a] \in RefundRequest
        /\ refunds[a].request_time + RefundDelay <= now
        /\ undelegated[a] \in Nat /\ undelegated[a] <= refunds[a].request_time
    BY <2>1 DEF RefundDue, StakingInv, StakingTypeOK, Noted
  <2>3. refunds[a].request_time \in Nat /\ RefundDelay \in Nat /\ now \in Nat
    BY <2>2, StakingAssumption DEF RefundRequest, StakingInv, StakingTypeOK, StakingAssumption
  <2> QED
    BY <2>2, <2>3, HistoryAssumption
<1> QED
  BY <1>1, <1>2, <1>3, PTL DEF HistorySpec, NoEarlyRefund

-----------------------------------------------------------------------------
(***************************************************************************)
(* The actions of Rex.                                                     *)
(***************************************************************************)
\* Between actions the tables are good, nobody's tokens are unaccounted for, and
\* stake, limits and requests agree.
RexInv ==
  /\ Good(DB, now) /\ AllCovered(DB) /\ Surplus(DB) = 0 /\ VotesOK(DB) /\ NamesOK(DB)
  /\ StakingTypeOK /\ StakeBacked /\ ResourcesExplained /\ RequestsPast

\* What every action does to the tables.
Steps(db, e, t) ==
  /\ Good(e, t) /\ Keeps(db, e, 0) /\ AllCovered(e)
  /\ db.pool # NoRow => e.pool # NoRow
  /\ (\E a \in Accounts : IsOpen(db, a) /\ e.order[a] = db.order[a])
       => PoolOf(e).total_lent <= PoolOf(db).total_lent

\* What NeverDiluted and SellersFirst say of one step.
Undiluted == pool # NoRow /\ pool'.total_rex > 0 => NotCheaper(pool, pool')

SellersFirstStep ==
  (\E a \in Accounts : IsOpen(DB, a) /\ order'[a] = order[a]) => pool'.total_lent <= pool.total_lent

\* Who waits has shares, so there is a pool.
LEMMA PoolIsThere ==
  ASSUME NEW t \in Nat, NEW db, Good(db, t), NEW a \in Accounts, IsOpen(db, a), Covers(db, a)
  PROVE  db.pool # NoRow
<1>1. db.bal[a] # NoRow /\ RowGood(db.bal[a], t) /\ db.order[a].rex_requested > 0
      /\ db.order[a].rex_requested <= db.bal[a].matured_rex
      /\ db.bal[a] \in RexBalance /\ db.order[a] \in RexOrder
  <2>1. /\ db.bal[a] # NoRow /\ db.order[a].rex_requested > 0
        /\ db.order[a].rex_requested <= db.bal[a].matured_rex
    BY DEF Covers
  <2>2. RowGood(db.bal[a], t)
    BY <2>1 DEF Good, RowsGood
  <2>3. db \in Db /\ db.order[a] # NoRow
    BY DEF Good, IsOpen
  <2> QED
    BY <2>1, <2>2, <2>3, DbFields
<1>2. db.bal[a].rex_balance >= db.bal[a].matured_rex
  BY <1>1, GoodRowOK
<1>3. SharesOf(db, a) > 0
  <2>1. SharesOf(db, a) = db.bal[a].rex_balance
    BY <1>1 DEF SharesOf
  <2>2. PICK r \in Int, m \in Int, x \in Int :
          /\ r = db.bal[a].rex_balance /\ m = db.bal[a].matured_rex
          /\ x = db.order[a].rex_requested
    BY <1>1 DEF RexBalance, RexOrder
  <2>3. x > 0 /\ x <= m /\ r >= m
    BY <1>1, <1>2, <2>2
  <2> QED
    BY <2>1, <2>2, <2>3
<1>4. PoolOf(db).total_rex > 0
  <2>1. SharesOf(db, a) <= PoolOf(db).total_rex
    BY SharesBounded
  <2>2. PoolOf(db).total_rex \in Int /\ SharesOf(db, a) \in Int
    BY PoolOfType, PoolFields, EntriesAreInts DEF Good
  <2> QED
    BY <1>3, <2>1, <2>2
<1> QED
  BY <1>4 DEF PoolOf, EmptyPool

\* Installing good tables.
LEMMA Committed ==
  ASSUME RexInv, NEW e, Steps(DB, e, now), Commit(e), UNCHANGED stakingRest
  PROVE  RexInv' /\ Undiluted /\ SellersFirstStep
<1>1. now \in Nat /\ UNCHANGED <<now, delband, refunds, deferred, activated>>
  BY StakingAssumption DEF RexInv, StakingTypeOK, stakingRest, StakingAssumption
<1>2. /\ DB \in Db /\ e \in Db /\ e.ok /\ Good(e, now) /\ AllCovered(e) /\ Keeps(DB, e, 0)
      /\ DB.pool # NoRow => e.pool # NoRow
  BY DEF RexInv, Steps, Good, Commit
<1>3. /\ tokens' = e.tokens /\ userres' = e.userres /\ voters' = e.voters /\ pool' = e.pool
      /\ fund' = e.fund /\ bal' = e.bal /\ order' = e.order /\ loan' = e.loan
  BY DEF Commit
<1>4. DB' = e
  BY <1>2, <1>3 DEF DB, Db
<1>5. /\ DB.tokens = tokens /\ DB.userres = userres /\ DB.pool = pool /\ DB.order = order
  BY DEF DB
<1>6. Good(DB', now')
  BY <1>1, <1>2, <1>4
<1>7. AllCovered(DB')
  BY <1>2, <1>4
<1>8. Surplus(DB') = 0 /\ VotesOK(DB') /\ NamesOK(DB')
  <2>1. Surplus(DB) = 0 /\ VotesOK(DB) /\ NamesOK(DB)
    BY DEF RexInv
  <2>2. Surplus(e) = Surplus(DB) + 0 /\ VotesOK(e) /\ NamesOK(e)
    BY <1>2, <2>1 DEF Keeps
  <2> QED
    BY <1>4, <2>1, <2>2
<1>9. StakingTypeOK'
  BY <1>1, <1>2, <1>3, DbFields DEF RexInv, StakingTypeOK
<1>10. \A a \in Accounts : /\ DelegatedBy(a)' = DelegatedBy(a) /\ DelegatedTo(a)' = DelegatedTo(a)
                            /\ RefundOwed(a)' = RefundOwed(a)
  BY <1>1 DEF DelegatedBy, DelegatedTo, RefundOwed
<1>11. StakeBacked'
  <2>1. tokens'[StakeAccount] = tokens[StakeAccount]
    BY <1>2, <1>3, <1>5 DEF Keeps
  <2>2. [a \in Accounts |-> DelegatedBy(a)' + RefundOwed(a)']
          = [a \in Accounts |-> DelegatedBy(a) + RefundOwed(a)]
    BY <1>10
  <2>3. StakeBacked
    BY DEF RexInv
  <2> QED
    BY <2>1, <2>2, <2>3 DEF StakeBacked
<1>12. ResourcesExplained'
  <2> SUFFICES ASSUME NEW a \in Accounts, NEW r \in Resource
               PROVE  userres'[a][r] = DelegatedTo(a)'[r] + LentTo(DB', a, r)
    BY DEF ResourcesExplained
  <2>1. PICK u \in Int, v \in Int, l \in Int, m \in Int :
          /\ u = DB.userres[a][r] /\ v = e.userres[a][r]
          /\ l = LentTo(DB, a, r) /\ m = LentTo(e, a, r)
    BY <1>2, DbFields, SumsAreInts DEF Weight
  <2>2. v - m = u - l
    BY <1>2, <2>1 DEF Keeps, Unlent
  <2>3. u = DelegatedTo(a)[r] + l
    BY <1>5, <2>1 DEF RexInv, ResourcesExplained
  <2>4. DelegatedTo(a)[r] \in Int
    <3>1. StakingTypeOK /\ IsFiniteSet(Accounts)
      BY StakingAssumption DEF RexInv, StakingAssumption
    <3> DEFINE f == [b \in Accounts |-> delband[<<b, a>>][r]]
    <3>2. f \in [Accounts -> Int]
      BY <3>1 DEF StakingTypeOK, Weight
    <3>3. DelegatedTo(a)[r] = SumFunctionOnSet(f, Accounts)
      BY DEF DelegatedTo
    <3> HIDE DEF f
    <3> QED
      BY <3>1, <3>2, <3>3, SumIsInt
  <2>5. v = DelegatedTo(a)[r] + m
    BY <2>2, <2>3, <2>4
  <2> QED
    BY <1>3, <1>4, <1>10, <2>1, <2>5
<1>13. RequestsPast'
  BY <1>1 DEF RexInv, RequestsPast
<1>14. Undiluted
  <2> SUFFICES ASSUME pool # NoRow, pool'.total_rex > 0
               PROVE  NotCheaper(pool, pool')
    BY DEF Undiluted
  <2>1. PoolOf(DB) = pool /\ PoolOf(e) = pool'
    BY <1>2, <1>3, <1>5 DEF PoolOf
  <2> QED
    BY <1>2, <2>1 DEF Keeps
<1>15. SellersFirstStep
  <2> SUFFICES ASSUME NEW a \in Accounts, IsOpen(DB, a), order'[a] = order[a]
               PROVE  pool'.total_lent <= pool.total_lent
    BY DEF SellersFirstStep
  <2>1. e.order[a] = DB.order[a]
    BY <1>3, <1>5
  <2>2. PoolOf(e).total_lent <= PoolOf(DB).total_lent
    BY <2>1 DEF Steps
  <2>3. DB.pool # NoRow
    BY <1>1, PoolIsThere DEF RexInv, AllCovered
  <2>4. PoolOf(DB) = pool /\ PoolOf(e) = pool'
    BY <1>2, <1>3, <1>5, <2>3 DEF PoolOf
  <2> QED
    BY <2>2, <2>4
<1> QED
  BY <1>6, <1>7, <1>8, <1>9, <1>11, <1>12, <1>13, <1>14, <1>15 DEF RexInv

\* One helper's effect: the tables stay good and x more tokens are unclaimed.
Leads(db, d, x, t) == Good(d, t) /\ Keeps(db, d, x) /\ StaysEmpty(db, d)

\* Helpers that lend nothing and take nothing back.
Quiet(db, d) ==
  /\ PoolOf(d).total_lent = PoolOf(db).total_lent
  /\ db.pool # NoRow => d.pool # NoRow

\* Helpers one after the other add up what they move.
LEMMA LeadsOn ==
  ASSUME NEW t, NEW db, NEW d, NEW e, Good(db, t), NEW x \in Int, NEW y \in Int, NEW z \in Int,
         z = x + y, Leads(db, d, x, t), Leads(d, e, y, t)
  PROVE  Leads(db, e, z, t)
<1>1. Keeps(db, e, x + y)
  BY KeepsChain DEF Leads
<1> QED
  BY <1>1 DEF Leads, StaysEmpty

\* Apart from the pool, emptiness does not matter.
LEMMA LeadsAfterApart ==
  ASSUME NEW t, NEW db, NEW d, NEW e, Good(db, t), NEW x \in Int, NEW y \in Int, NEW z \in Int,
         z = x + y, Leads(db, d, x, t), d.pool = db.pool, Good(e, t), Keeps(d, e, y)
  PROVE  Keeps(db, e, z)
<1>1. Surplus(db) \in Int /\ Surplus(d) \in Int /\ Surplus(e) \in Int
  BY SurplusIsInt DEF Good, Leads
<1>2. Surplus(e) = Surplus(db) + z
  BY <1>1 DEF Leads, Keeps
<1>3. PoolOf(d) = PoolOf(db)
  BY DEF PoolOf
<1> QED
  BY <1>2, <1>3 DEF Leads, Keeps

\* A helper that leaves pool and loans alone.
LEMMA LeadsApart ==
  ASSUME NEW t, NEW db, NEW d, Good(db, t), NEW x \in Int, Apart(db, d, x)
  PROVE  Leads(db, d, x, t) /\ Quiet(db, d) /\ d.pool = db.pool /\ ProceedsGood(d) /\ d \in Db
  BY ApartKeeps DEF Leads, Quiet, Apart, Aside, PoolOf, Good

\* Steps that lend nothing.
LEMMA StepsQuiet ==
  ASSUME NEW t, NEW db, NEW e, Leads(db, e, 0, t), AllCovered(e), Quiet(db, e), db \in Db
  PROVE  Steps(db, e, t)
<1>1. PoolOf(db).total_lent \in Int
  BY PoolOfType, PoolFields
<1> QED
  BY <1>1 DEF Steps, Leads, Quiet

\* Steps that lend nothing after runrex.
LEMMA StepsRun ==
  ASSUME NEW t, NEW db, NEW run, NEW e, Leads(db, e, 0, t), AllCovered(e), RexRun(db, run), Quiet(run, e)
  PROVE  Steps(db, e, t)
  BY DEF Steps, Leads, Quiet, RexRun

\* Orders that are open were open, and shares stay.
LEMMA CoversKept ==
  ASSUME NEW db, NEW d, AllCovered(db), d.bal = db.bal,
         \A a \in Accounts : IsOpen(d, a) => d.order[a] = db.order[a]
  PROVE  AllCovered(d)
  BY DEF AllCovered, Covers, IsOpen

\* update_rex_account when nothing was sold.
LEMMA CollectKeeps ==
  ASSUME NEW t, NEW db, Good(db, t), NEW owner \in Accounts, NEW delta \in Int, NEW force,
         NEW d, d = update_rex_account(db, owner, 0, delta, force), d.ok
  PROVE  /\ Leads(db, d, 0, t) /\ Quiet(db, d) /\ db.ok /\ Collected(db, d, owner)
         /\ AllCovered(db) => AllCovered(d)
<1>1. db \in Db /\ ProceedsGood(db)
  BY DEF Good
<1>2. PICK x \in Int, z \in Int : x = 0 /\ z = - x /\ x >= 0
  OBVIOUS
<1>3. d = update_rex_account(db, owner, x, delta, force)
  BY <1>2
<1>4. Apart(db, d, - x) /\ Collected(db, d, owner) /\ db.ok
  BY <1>1, <1>2, <1>3, AccountUpdated
<1>5. Apart(db, d, z)
  BY <1>2, <1>4
<1>6. Leads(db, d, z, t) /\ Quiet(db, d)
  BY <1>5, LeadsApart
<1>7. Leads(db, d, 0, t)
  BY <1>2, <1>6
<1>8. d.bal = db.bal /\ \A a \in Accounts : IsOpen(d, a) => d.order[a] = db.order[a]
  BY <1>4 DEF Collected, SameRest, IsOpen
<1> QED
  BY <1>4, <1>6, <1>7, <1>8, CoversKept

\* A filled order's proceeds are collected.
CollectFilled(db, owner) == update_rex_account(db, owner, 0, 0, FALSE)

\* update_rex_account without proceeds of its own: it collects a filled order.
LEMMA FilledCollected ==
  ASSUME NEW t, NEW db, Good(db, t), NEW owner \in Accounts, NEW d, d = CollectFilled(db, owner), d.ok
  PROVE  /\ Leads(db, d, 0, t) /\ Quiet(db, d) /\ db.ok /\ Collected(db, d, owner)
         /\ AllCovered(db) => AllCovered(d)
<1>1. PICK z \in Int : z = 0
  OBVIOUS
<1>2. PICK force \in BOOLEAN : force = FALSE
  BY Zenon
<1>3. d = update_rex_account(db, owner, 0, z, force)
  BY <1>1, <1>2, Zenon DEF CollectFilled
<1> QED
  BY <1>3, CollectKeeps

\* What failed before fails still.
LEMMA CollectCarries ==
  ASSUME NEW db, HasOk(db), NEW owner, NEW d, d = CollectFilled(db, owner)
  PROVE  HasOk(d) /\ (d.ok => db.ok)
<1>1. PICK force \in BOOLEAN : force = FALSE
  BY Zenon
<1>2. d = update_rex_account(db, owner, 0, 0, force)
  BY <1>1, Zenon DEF CollectFilled
<1> QED
  BY <1>2, AccountCarries DEF Carries, HasOk

\* What a state promises to the actions.
Sound(db, t) == Good(db, t) /\ AllCovered(db) /\ NamesOK(db) /\ VotesOK(db) /\ IsNow(t)

\* runrex as a helper.
LEMMA RunLeads ==
  ASSUME NEW t \in Nat, NEW db, Sound(db, t), NEW max \in Nat, NEW d, d = runrex(db, max), d.ok
  PROVE  /\ Leads(db, d, 0, t) /\ RexRun(db, d) /\ AllCovered(d) /\ Sound(d, t)
<1>1. Good(d, t) /\ Keeps(db, d, 0) /\ StaysEmpty(db, d) /\ RexRun(db, d) /\ AllCovered(d)
  BY RunrexKeeps DEF Sound
<1>2. VotesOK(d) /\ NamesOK(d)
  BY <1>1 DEF Keeps, Sound
<1> QED
  BY <1>1, <1>2 DEF Leads, Sound

\* deposit.
LEMMA DepositSteps ==
  ASSUME NEW t, NEW db, Sound(db, t), NEW owner \in Accounts, NEW amount \in Int,
         NEW e, e = transfer_to_fund(TokensMoved(db, owner, RexAccount, amount), owner, amount), e.ok
  PROVE  Steps(db, e, t)
<1>1. Good(db, t) /\ db \in Db /\ HasOk(db) /\ AllCovered(db)
  BY DbHasOk DEF Sound, Good
<1>2. PICK m : m = TokensMoved(db, owner, RexAccount, amount)
  OBVIOUS
<1>3. HasOk(m) /\ e = transfer_to_fund(m, owner, amount)
  BY <1>1, <1>2, HelpersCarry DEF Carries, HasOk
<1>4. m.ok
  BY <1>3, HelpersCarry DEF Carries
<1>5. /\ Good(m, t) /\ Keeps(db, m, amount) /\ StaysEmpty(db, m)
      /\ SameRest(db, m) /\ m.order = db.order
  BY <1>1, <1>2, <1>4, PaidToRex
<1>6. Apart(m, e, - amount) /\ SameRest(m, e) /\ e.order = m.order
  BY <1>3, <1>5, FundPaid DEF Good
<1>7. PICK y \in Int : y = - amount
  OBVIOUS
<1>8. Apart(m, e, y)
  BY <1>6, <1>7
<1>9. Leads(m, e, y, t)
  BY <1>5, <1>8, LeadsApart
<1>10. Leads(db, m, amount, t)
  BY <1>5 DEF Leads
<1>11. Leads(db, e, 0, t)
  <2>1. 0 = amount + y
    BY <1>7
  <2> QED
    BY <1>1, <1>9, <1>10, <2>1, LeadsOn
<1>12. e.pool = db.pool /\ e.bal = db.bal /\ e.order = db.order
  BY <1>5, <1>6 DEF SameRest
<1>13. AllCovered(e) /\ Quiet(db, e)
  BY <1>1, <1>12, CoversKept DEF Quiet, PoolOf
<1> QED
  BY <1>1, <1>11, <1>13, StepsQuiet

\* withdraw.
Withdrawn(db, owner, amount) ==
  TokensMoved(transfer_from_fund(CollectFilled(db, owner), owner, amount),
              RexAccount, owner, amount)

\* withdraw: collects, takes from the fund and pays the owner.
LEMMA WithdrawSteps ==
  ASSUME NEW t, NEW db, Sound(db, t), NEW owner \in Accounts, NEW amount \in Int,
         NEW e, e = Withdrawn(db, owner, amount), e.ok
  PROVE  Steps(db, e, t)
<1>1. Good(db, t) /\ db \in Db /\ HasOk(db) /\ AllCovered(db)
  BY DbHasOk DEF Sound, Good
<1>2. PICK c : c = CollectFilled(db, owner)
  OBVIOUS
<1>3. PICK m : m = transfer_from_fund(c, owner, amount)
  OBVIOUS
<1>4. e = TokensMoved(m, RexAccount, owner, amount)
  BY <1>2, <1>3 DEF Withdrawn
<1>5. HasOk(c) /\ HasOk(m)
  BY <1>1, <1>2, <1>3, CollectCarries, HelpersCarry DEF Carries, HasOk
<1>6. m.ok /\ c.ok
  BY <1>3, <1>4, <1>5, HelpersCarry DEF Carries
<1>7. Leads(db, c, 0, t) /\ Quiet(db, c) /\ AllCovered(c)
  BY <1>1, <1>2, <1>6, FilledCollected
<1>8. Good(c, t) /\ c \in Db /\ ProceedsGood(c)
  BY <1>7 DEF Leads, Good
<1>9. Apart(c, m, amount) /\ SameRest(c, m) /\ m.order = c.order
  BY <1>3, <1>6, <1>8, FundTaken
<1>10. Leads(c, m, amount, t)
  BY <1>8, <1>9, LeadsApart
<1>11. Leads(db, m, amount, t)
  <2>1. amount = 0 + amount
    OBVIOUS
  <2> QED
    BY <1>1, <1>7, <1>10, <2>1, LeadsOn
<1>12. /\ Good(e, t) /\ Keeps(m, e, - amount) /\ StaysEmpty(m, e)
       /\ SameRest(m, e) /\ e.order = m.order
  <2>1. Good(m, t)
    BY <1>11 DEF Leads
  <2> QED
    BY <1>4, <2>1, PaidFromRex
<1>13. PICK y \in Int : y = - amount
  OBVIOUS
<1>14. Leads(m, e, y, t)
  BY <1>12, <1>13 DEF Leads
<1>15. Leads(db, e, 0, t)
  <2>1. 0 = amount + y
    BY <1>13
  <2> QED
    BY <1>1, <1>11, <1>14, <2>1, LeadsOn
<1>16. e.pool = c.pool /\ e.bal = c.bal /\ e.order = c.order
  BY <1>9, <1>12 DEF SameRest
<1>17. AllCovered(e) /\ Quiet(db, e)
  BY <1>7, <1>16, CoversKept DEF Quiet, PoolOf
<1> QED
  BY <1>1, <1>15, <1>17, StepsQuiet

\* cnclrexorder.
LEMMA CancelSteps ==
  ASSUME NEW t, NEW db, Sound(db, t), NEW owner \in Accounts, IsOpen(db, owner),
         NEW e, e = EraseOrder(db, owner)
  PROVE  Steps(db, e, t)
<1>1. Good(db, t) /\ db \in Db /\ AllCovered(db) /\ ProceedsGood(db)
  BY DEF Sound, Good
<1>2. PICK x \in Int : x = 0
  OBVIOUS
<1>3. x = IF IsFilled(db, owner) THEN db.order[owner].proceeds ELSE 0
  BY <1>2 DEF IsFilled, IsOpen
<1>4. /\ Apart(db, e, x) /\ SameRest(db, e) /\ e.order = [db.order EXCEPT ![owner] = NoRow]
  BY <1>1, <1>3, OrderErased
<1>5. Leads(db, e, x, t) /\ Quiet(db, e)
  BY <1>1, <1>4, LeadsApart
<1>6. \A a \in Accounts : IsOpen(e, a) => e.order[a] = db.order[a]
  BY <1>1, <1>4, DbFields DEF IsOpen
<1>7. AllCovered(e)
  BY <1>1, <1>4, <1>6, CoversKept DEF SameRest
<1> QED
  BY <1>1, <1>2, <1>5, <1>7, StepsQuiet

\* rexexec.
LEMMA RexexecSteps ==
  ASSUME NEW t \in Nat, NEW db, Sound(db, t), NEW max \in Nat, NEW e, e = runrex(db, max), e.ok
  PROVE  Steps(db, e, t)
<1>1. Leads(db, e, 0, t) /\ RexRun(db, e) /\ AllCovered(e)
  BY RunLeads
<1>2. Quiet(e, e)
  BY DEF Quiet
<1> QED
  BY <1>1, <1>2, StepsRun

\* The pool gets what eosio.rex gets.
LEMMA PoolSteps ==
  ASSUME NEW t, NEW db, Sound(db, t), NEW l \in Int, NEW e, PoolTurns(db, e, l, l)
  PROVE  Steps(db, e, t)
<1>1. Good(db, t) /\ AllCovered(db) /\ db \in Db
  BY DEF Sound, Good
<1>2. Good(e, t) /\ Keeps(db, e, l - l) /\ StaysEmpty(db, e)
  BY <1>1, PoolTurned
<1>3. l - l = 0
  OBVIOUS
<1>4. Leads(db, e, 0, t)
  BY <1>2, <1>3 DEF Leads
<1>5. AllCovered(e) /\ Quiet(db, e)
  BY <1>1, CoversKept DEF PoolTurns, Quiet
<1> QED
  BY <1>1, <1>4, <1>5, StepsQuiet

\* setrex.
RentSet(p, n) == [p EXCEPT !.total_rent = n]

\* setrex moves no tokens.
LEMMA SetrexSteps ==
  ASSUME NEW t, NEW db, Sound(db, t), db.pool # NoRow, NEW n \in Nat,
         NEW e, e = PoolSet(db, RentSet(db.pool, n))
  PROVE  Steps(db, e, t)
<1>1. Good(db, t) /\ db \in Db /\ PoolOK(db.pool) /\ PoolOf(db) = db.pool /\ NamesOK(db)
  BY DEF Sound, Good, PoolGood, PoolOf
<1>2. PICK p : p = db.pool
  OBVIOUS
<1>3. PICK q : q = RentSet(p, n)
  OBVIOUS
<1>4. /\ q \in Pool /\ q.total_rent = n /\ q.total_unlent = p.total_unlent
      /\ q.total_lendable = p.total_lendable /\ q.total_lent = p.total_lent
      /\ q.total_rex = p.total_rex /\ q.loan_num = p.loan_num
      /\ q.namebid_proceeds = p.namebid_proceeds
  BY <1>1, <1>2, <1>3 DEF RentSet, PoolOK, Pool
<1>5. PoolOK(q)
  BY <1>1, <1>2, <1>4 DEF PoolOK
<1>6. NotCheaper(p, q)
  <2>1. NotCheaper(p, p)
    BY <1>1, <1>2, CheaperSame
  <2> QED
    BY <1>4, <2>1 DEF NotCheaper
<1>7. /\ e \in Db /\ e.pool # NoRow /\ PoolOf(e) = q
      /\ e.tokens = db.tokens /\ e.userres = db.userres /\ e.voters = db.voters
      /\ e.fund = db.fund /\ e.bal = db.bal /\ e.order = db.order /\ e.loan = db.loan
  <2>1. e = PoolSet(db, q)
    BY <1>2, <1>3
  <2> QED
    BY <1>1, <1>4, <2>1, PoolReplaced
<1>8. PICK z \in Int : z = 0
  OBVIOUS
<1>9. PoolTurns(db, e, z, z)
  <2>1. db.tokens[RexAccount] \in Int /\ p.total_lendable \in Int
    BY <1>1, <1>2, SurplusIsInt, PoolFields DEF PoolOK
  <2>2. NamesOK(e)
    BY <1>1, <1>2, <1>4, <1>7 DEF NamesOK
  <2> QED
    BY <1>1, <1>2, <1>4, <1>5, <1>6, <1>7, <1>8, <2>1, <2>2 DEF PoolTurns
<1> QED
  BY <1>9, PoolSteps

\* closebid: another promise, which eosio.names can keep.
LEMMA ClosebidSteps ==
  ASSUME NEW t, NEW db, Sound(db, t), rex_available(db), NEW n \in Int,
         db.tokens[NamesAccount] >= n, NEW e, e = PoolSet(db, NamebidsSet(db.pool, n))
  PROVE  Steps(db, e, t)
<1>1. /\ Good(db, t) /\ db \in Db /\ PoolOK(db.pool) /\ PoolOf(db) = db.pool
      /\ db.pool.total_rex > 0 /\ db.pool # NoRow
  BY DEF Sound, Good, PoolGood, PoolOf, rex_available, rex_system_initialized
<1>2. PICK q : q = NamebidsSet(db.pool, n)
  OBVIOUS
<1>3. /\ PoolOK(q) /\ NotCheaper(db.pool, q) /\ q.namebid_proceeds = n
      /\ q.total_lendable = db.pool.total_lendable /\ q.total_lent = db.pool.total_lent
      /\ q.total_rex = db.pool.total_rex /\ q.loan_num = db.pool.loan_num
  BY <1>1, <1>2, SetNamebids
<1>4. q \in Pool
  BY <1>3 DEF PoolOK
<1>5. /\ e \in Db /\ e.pool # NoRow /\ PoolOf(e) = q
      /\ e.tokens = db.tokens /\ e.userres = db.userres /\ e.voters = db.voters
      /\ e.fund = db.fund /\ e.bal = db.bal /\ e.order = db.order /\ e.loan = db.loan
  <2>1. e = PoolSet(db, q)
    BY <1>2
  <2> QED
    BY <1>1, <1>4, <2>1, PoolReplaced
<1>6. PICK z \in Int : z = 0
  OBVIOUS
<1>7. PoolTurns(db, e, z, z)
  <2>1. db.tokens[RexAccount] \in Int /\ db.pool.total_lendable \in Int
    BY <1>1, SurplusIsInt, PoolFields DEF PoolOK
  <2>2. NamesOK(e)
    BY <1>1, <1>3, <1>5 DEF NamesOK
  <2> QED
    BY <1>1, <1>3, <1>5, <1>6, <2>1, <2>2 DEF PoolTurns
<1> QED
  BY <1>7, PoolSteps

\* ramfee.
FeePaid(db, payer, fee) ==
  [TokensMoved(db, payer, RexAccount, fee) EXCEPT !.pool = Channelled(@, fee)]

\* ramfee: the payer's fee is channelled to the pool.
LEMMA FeeSteps ==
  ASSUME NEW t, NEW db, Sound(db, t), rex_available(db), NEW payer \in Accounts,
         NEW fee \in Nat, NEW e, e = FeePaid(db, payer, fee), e.ok
  PROVE  Steps(db, e, t)
<1>1. /\ Good(db, t) /\ db \in Db /\ PoolOK(db.pool) /\ PoolOf(db) = db.pool /\ NamesOK(db)
      /\ db.pool.total_rex > 0 /\ db.pool # NoRow /\ HasOk(db)
  BY DbHasOk DEF Sound, Good, PoolGood, PoolOf, rex_available, rex_system_initialized
<1>2. PICK m : m = TokensMoved(db, payer, RexAccount, fee)
  OBVIOUS
<1>3. e = [m EXCEPT !.pool = Channelled(@, fee)]
  BY <1>2 DEF FeePaid
<1>4. HasOk(m)
  BY <1>1, <1>2, HelpersCarry DEF Carries, HasOk
<1>5. m.ok
  BY <1>3, <1>4 DEF HasOk
<1>6. /\ payer \in Holders /\ RexAccount \in Holders /\ payer # RexAccount
      /\ StakeAccount \in Holders \ {payer, RexAccount}
      /\ NamesAccount \in Holders \ {payer, RexAccount}
  BY <1>1, SurplusIsInt, HoldersDiffer
<1>7. /\ m \in Db /\ m.tokens[RexAccount] = db.tokens[RexAccount] + fee
      /\ m.tokens[StakeAccount] = db.tokens[StakeAccount]
      /\ m.tokens[NamesAccount] = db.tokens[NamesAccount]
      /\ SameRest(db, m) /\ m.fund = db.fund /\ m.order = db.order /\ m.voters = db.voters
  <2>1. PICK from \in Holders, to \in Holders : from = payer /\ to = RexAccount /\ from # to
    BY <1>6
  <2>2. m = TokensMoved(db, from, to, fee)
    BY <1>2, <2>1
  <2> QED
    BY <1>1, <1>5, <1>6, <2>1, <2>2, TokensAfter
<1>8. PICK q : q = Channelled(db.pool, fee)
  OBVIOUS
<1>9. PoolMoves(db.pool, q, fee, 0, 0, 0) /\ q \in Pool
  BY <1>1, <1>8, ChannelledMoves DEF PoolOK, PoolMoves
<1>10. PoolOK(q) /\ NotCheaper(db.pool, q)
  BY <1>1, <1>8, ChannellingKeepsPool
<1>11. /\ e \in Db /\ e.pool # NoRow /\ PoolOf(e) = q
       /\ e.tokens = m.tokens /\ e.userres = m.userres /\ e.voters = m.voters
       /\ e.fund = m.fund /\ e.bal = m.bal /\ e.order = m.order /\ e.loan = m.loan
  <2>1. e = PoolSet(m, q)
    BY <1>3, <1>7, <1>8 DEF SameRest, PoolSet
  <2> QED
    BY <1>7, <1>9, <2>1, PoolReplaced
<1>12. PoolTurns(db, e, fee, fee)
  <2>1. /\ q.total_lendable = db.pool.total_lendable + fee
        /\ q.total_lent = db.pool.total_lent /\ q.total_rex = db.pool.total_rex
        /\ q.loan_num = db.pool.loan_num /\ q.namebid_proceeds = db.pool.namebid_proceeds
    <3>1. /\ db.pool.total_lent \in Int /\ db.pool.total_rex \in Int /\ db.pool.loan_num \in Int
      BY <1>1, PoolFields DEF PoolOK
    <3> QED
      BY <1>9, <3>1 DEF PoolMoves
  <2>2. NamesOK(e)
    BY <1>1, <1>7, <1>11, <2>1 DEF NamesOK
  <2> QED
    BY <1>1, <1>7, <1>10, <1>11, <2>1, <2>2 DEF PoolTurns, SameRest
<1> QED
  BY <1>12, PoolSteps

\* A loan with another balance.
BalanceSet(row, n) == [row EXCEPT !.balance = n]

\* The funds of a loan change, by f.
LEMMA LoanFunded ==
  ASSUME NEW t, NEW db, Good(db, t), NEW id \in LoanIds, db.loan[id] # NoRow,
         NEW n \in Nat, NEW f \in Int, f = n - db.loan[id].balance,
         NEW d, d = LoanSet(db, id, BalanceSet(db.loan[id], n)), NEW x \in Int, x = - f
  PROVE  /\ Leads(db, d, x, t) /\ Quiet(db, d) /\ d.ok = db.ok
         /\ d.bal = db.bal /\ d.order = db.order
<1>1. db \in Db /\ PoolOK(PoolOf(db))
  BY DEF Good, PoolGood
<1>2. PICK row \in RexLoan, pay \in Nat, balance \in Nat, staked \in Nat :
        LoanIs(db, id, row, pay, balance, staked) /\ pay > 0 /\ staked > 0
        /\ staked <= PoolOf(db).total_lent
  BY LoanFields
<1>3. /\ db.loan[id] = row /\ row # NoRow /\ row.payment = pay /\ row.balance = balance
      /\ row.total_staked = staked
  BY <1>2 DEF LoanIs
<1>4. PICK next : next = BalanceSet(row, n)
  OBVIOUS
<1>5. /\ next \in RexLoan /\ next.kind = row.kind /\ next.receiver = row.receiver
      /\ next.payment = pay /\ next.balance = n /\ next.total_staked = staked
      /\ next.from = row.from /\ next.expiration = row.expiration
  <2>1. next = [row EXCEPT !.balance = n]
    BY <1>4 DEF BalanceSet
  <2>2. next \in RexLoan
    BY <2>1 DEF RexLoan
  <2>3. next.kind = row.kind /\ next.receiver = row.receiver
    BY <2>1 DEF RexLoan
  <2>6. next.from = row.from /\ next.expiration = row.expiration
    BY <2>1 DEF RexLoan
  <2>4. next.payment = row.payment /\ next.total_staked = row.total_staked
    BY <2>1 DEF RexLoan
  <2>5. next.balance = n
    BY <2>1 DEF RexLoan
  <2> QED
    BY <1>3, <2>2, <2>3, <2>4, <2>5, <2>6
<1>6. next # NoRow
  BY <1>5, NoRowIsNone
<1>7. d = LoanSet(db, id, next)
  BY <1>3, <1>4
<1>8. /\ d \in Db /\ d.loan[id] = next /\ \A i \in LoanIds \ {id} : d.loan[i] = db.loan[i]
      /\ d.ok = db.ok /\ d.tokens = db.tokens /\ d.userres = db.userres /\ d.voters = db.voters
      /\ d.fund = db.fund /\ d.bal = db.bal /\ d.order = db.order /\ d.pool = db.pool
  <2>1. db \in Db /\ next \in RexLoan \cup {NoRow}
    BY <1>1, <1>5
  <2>2. /\ d \in Db /\ d.loan[id] = next /\ \A i \in LoanIds \ {id} : d.loan[i] = db.loan[i]
        /\ d.ok = db.ok /\ d.pool = db.pool
    BY <1>7, <2>1, LoanReplaced
  <2>3. /\ d.tokens = db.tokens /\ d.userres = db.userres /\ d.voters = db.voters
        /\ d.fund = db.fund /\ d.bal = db.bal /\ d.order = db.order
    BY <1>7, <2>1, LoanReplaced
  <2> QED
    BY <2>2, <2>3
<1>9. db.pool # NoRow
  <2>1. id <= PoolOf(db).loan_num /\ id > 0
    BY <1>3 DEF Good, LoanGood, LoanIds
  <2> QED
    BY <2>1 DEF PoolOf, EmptyPool, LoanIds
<1>10. PoolOf(d) = PoolOf(db)
  BY <1>8 DEF PoolOf
<1>11. Claims(d) = Claims(db) + 0
  <2>1. Claims(d) = Claims(db)
    BY <1>8 DEF Claims, FundOf, IsFilled
  <2> QED
    BY <1>1, <2>1, SumsAreInts
<1>12. /\ LoanFund(d, id) = n /\ LoanFund(db, id) = balance
       /\ LoanStake(d, id) = staked /\ LoanStake(db, id) = staked
       /\ \A a \in Accounts : \A r \in Resource : StakeTo(d, id, a, r) = StakeTo(db, id, a, r)
  BY <1>3, <1>5, <1>6, <1>8 DEF LoanFund, LoanStake, StakeTo
<1>13. PICK z \in Int : z = 0
  OBVIOUS
<1>14. LoanTurns(db, d, id, z, f, z, z, z)
  <2>1. LoanFund(d, id) = LoanFund(db, id) + f /\ LoanStake(d, id) = LoanStake(db, id) + z
    BY <1>3, <1>12, <1>13
  <2>2. ASSUME NEW a \in Accounts, NEW r \in Resource
        PROVE  d.userres[a][r] = db.userres[a][r] + (StakeTo(d, id, a, r) - StakeTo(db, id, a, r))
    <3>1. db.userres[a][r] \in Int /\ StakeTo(db, id, a, r) \in Int
      BY <1>1, DbFields, EntriesAreInts DEF Weight
    <3> QED
      BY <1>8, <1>12, <3>1
  <2>3. LoanGood(d, id)
    <3>1. id <= PoolOf(db).loan_num
      BY <1>3 DEF Good, LoanGood
    <3> QED
      BY <1>2, <1>5, <1>8, <1>10, <3>1 DEF LoanGood
  <2>4. PoolOK(PoolOf(d)) /\ NotCheaper(PoolOf(db), PoolOf(d))
    BY <1>1, <1>10, CheaperSame
  <2>5. PoolMoves(PoolOf(db), PoolOf(d), z, z, 0, z)
    <3>1. /\ PoolOf(db) \in Pool /\ PoolOf(db).total_lendable \in Int
          /\ PoolOf(db).total_lent \in Int /\ PoolOf(db).total_rex \in Int
          /\ PoolOf(db).loan_num \in Int
      BY <1>1, PoolFields DEF PoolOK
    <3> QED
      BY <1>10, <1>13, <3>1 DEF PoolMoves
  <2>6. Claims(d) = Claims(db) + z /\ z >= 0
    BY <1>11, <1>13
  <2> QED
    BY <1>8, <1>9, <2>1, <2>2, <2>3, <2>4, <2>5, <2>6 DEF LoanTurns
<1>15. Good(d, t) /\ Keeps(db, d, x) /\ StaysEmpty(db, d)
  <2>1. x = - (z + f + z)
    BY <1>13
  <2>2. OrdersStay(db, d) /\ FundsStay(db, d)
    BY <1>8, SameStay
  <2>3. ASSUME NEW i \in LoanIds, d.loan[i] # NoRow
        PROVE  /\ db.loan[i] # NoRow /\ d.loan[i].from = db.loan[i].from
               /\ d.loan[i].expiration = db.loan[i].expiration
    BY <1>3, <1>5, <1>8, <2>3
  <2>4. Timely(d, t)
    BY <1>1, <2>2, <2>3, TimelyStays DEF Good
  <2> QED
    BY <1>13, <1>14, <2>1, <2>4, LoanTurned
<1> QED
  BY <1>8, <1>10, <1>15 DEF Leads, Quiet

\* fundcpuloan and fundnetloan: what leaves the owner's fund is the loan's.
LoanPaid(db, from, id, payment) ==
  [transfer_from_fund(db, from, payment) EXCEPT !.loan[id].balance = @ + payment]

\* What funds a loan leaves its owner's fund.
LEMMA FundloanSteps ==
  ASSUME NEW t, NEW db, Sound(db, t), NEW from \in Accounts, NEW id \in LoanIds,
         db.loan[id] # NoRow, NEW payment \in Int, NEW e, e = LoanPaid(db, from, id, payment), e.ok
  PROVE  Steps(db, e, t)
<1>1. Good(db, t) /\ db \in Db /\ HasOk(db) /\ AllCovered(db) /\ ProceedsGood(db)
  BY DbHasOk DEF Sound, Good
<1>2. PICK m : m = transfer_from_fund(db, from, payment)
  OBVIOUS
<1>3. e = [m EXCEPT !.loan[id].balance = @ + payment]
  BY <1>2 DEF LoanPaid
<1>4. m.ok
  <2>1. HasOk(m)
    BY <1>1, <1>2, HelpersCarry DEF Carries, HasOk
  <2> QED
    BY <1>3, <2>1 DEF HasOk
<1>5. /\ Apart(db, m, payment) /\ payment > 0
      /\ m.loan = db.loan /\ m.pool = db.pool /\ m.bal = db.bal /\ m.order = db.order
  BY <1>1, <1>2, <1>4, FundTaken DEF SameRest
<1>6. Leads(db, m, payment, t) /\ Good(m, t) /\ m \in Db
  BY <1>1, <1>5, LeadsApart DEF Leads
<1>7. m.loan[id] \in RexLoan /\ m.loan[id] # NoRow /\ m.loan[id].balance \in Int
      /\ m.loan[id].balance >= 0
  BY <1>5, <1>6, DbFields DEF Good, LoanGood, RexLoan
<1>8. PICK b \in Nat, n \in Nat : b = m.loan[id].balance /\ n = b + payment
  BY <1>5, <1>7
<1>9. e = LoanSet(m, id, BalanceSet(m.loan[id], n))
  <2>1. PICK row : row = m.loan[id]
    OBVIOUS
  <2>2. "balance" \in DOMAIN row /\ id \in DOMAIN m.loan /\ "loan" \in DOMAIN m
    BY <1>6, <1>7, <2>1, DbFields DEF RexLoan, Db
  <2>3. e = [m EXCEPT !.loan[id] = [row EXCEPT !.balance = n]]
    BY <1>3, <1>8, <2>1, <2>2
  <2> QED
    BY <2>1, <2>3 DEF LoanSet, BalanceSet
<1>10. PICK y \in Int : y = - payment
  OBVIOUS
<1>11. Leads(m, e, y, t) /\ Quiet(m, e) /\ e.bal = m.bal /\ e.order = m.order
  <2>1. payment = n - m.loan[id].balance
    BY <1>8
  <2> QED
    BY <1>6, <1>7, <1>9, <1>10, <2>1, LoanFunded
<1>12. Leads(db, e, 0, t)
  <2>1. 0 = payment + y
    BY <1>10
  <2> QED
    BY <1>1, <1>6, <1>11, <2>1, LeadsOn
<1>13. Quiet(db, e)
  BY <1>5, <1>11 DEF Quiet, PoolOf
<1>14. AllCovered(e)
  <2>1. e.bal = db.bal /\ \A a \in Accounts : IsOpen(e, a) => e.order[a] = db.order[a]
    BY <1>5, <1>11
  <2> QED
    BY <1>1, <2>1, CoversKept
<1> QED
  BY <1>1, <1>12, <1>13, <1>14, StepsQuiet

\* defcpuloan and defnetloan: and back.
LoanDefunded(db, from, id, amount) ==
  [transfer_to_fund(db, from, amount) EXCEPT !.loan[id].balance = @ - amount]

\* What a loan gives back was in its balance.
LEMMA DefloanSteps ==
  ASSUME NEW t, NEW db, Sound(db, t), NEW from \in Accounts, NEW id \in LoanIds,
         db.loan[id] # NoRow, NEW amount \in Int, db.loan[id].balance >= amount,
         NEW e, e = LoanDefunded(db, from, id, amount), e.ok
  PROVE  Steps(db, e, t)
<1>1. Good(db, t) /\ db \in Db /\ HasOk(db) /\ AllCovered(db) /\ ProceedsGood(db)
  BY DbHasOk DEF Sound, Good
<1>2. PICK m : m = transfer_to_fund(db, from, amount)
  OBVIOUS
<1>3. e = [m EXCEPT !.loan[id].balance = @ - amount]
  BY <1>2 DEF LoanDefunded
<1>4. m.ok
  <2>1. HasOk(m)
    BY <1>1, <1>2, HelpersCarry DEF Carries, HasOk
  <2> QED
    BY <1>3, <2>1 DEF HasOk
<1>5. PICK y \in Int : y = - amount
  OBVIOUS
<1>6. /\ Apart(db, m, y) /\ amount > 0
      /\ m.loan = db.loan /\ m.pool = db.pool /\ m.bal = db.bal /\ m.order = db.order
  BY <1>1, <1>2, <1>4, <1>5, FundPaid DEF SameRest
<1>7. Leads(db, m, y, t) /\ Good(m, t) /\ m \in Db
  BY <1>1, <1>6, LeadsApart DEF Leads
<1>8. m.loan[id] \in RexLoan /\ m.loan[id] # NoRow /\ m.loan[id].balance \in Int
      /\ m.loan[id].balance >= amount
  BY <1>6, <1>7, DbFields DEF Good, LoanGood, RexLoan
<1>9. PICK b \in Nat, n \in Nat : b = m.loan[id].balance /\ n = b - amount
  BY <1>6, <1>8
<1>10. e = LoanSet(m, id, BalanceSet(m.loan[id], n))
  <2>1. PICK row : row = m.loan[id]
    OBVIOUS
  <2>2. "balance" \in DOMAIN row /\ id \in DOMAIN m.loan /\ "loan" \in DOMAIN m
    BY <1>7, <1>8, <2>1, DbFields DEF RexLoan, Db
  <2>3. e = [m EXCEPT !.loan[id] = [row EXCEPT !.balance = n]]
    BY <1>3, <1>9, <2>1, <2>2
  <2> QED
    BY <2>1, <2>3 DEF LoanSet, BalanceSet
<1>11. Leads(m, e, amount, t) /\ Quiet(m, e) /\ e.bal = m.bal /\ e.order = m.order
  <2>1. y = n - m.loan[id].balance /\ amount = - y
    BY <1>5, <1>9
  <2> QED
    BY <1>7, <1>8, <1>10, <2>1, LoanFunded
<1>12. Leads(db, e, 0, t)
  <2>1. 0 = y + amount
    BY <1>5
  <2> QED
    BY <1>1, <1>7, <1>11, <2>1, LeadsOn
<1>13. Quiet(db, e)
  BY <1>6, <1>11 DEF Quiet, PoolOf
<1>14. AllCovered(e)
  <2>1. e.bal = db.bal /\ \A a \in Accounts : IsOpen(e, a) => e.order[a] = db.order[a]
    BY <1>6, <1>11
  <2> QED
    BY <1>1, <2>1, CoversKept
<1> QED
  BY <1>1, <1>12, <1>13, <1>14, StepsQuiet

\* What rentcpu and rentnet read and write: a row of a new loan, numbered id.
NewLoan(kind, from, receiver, payment, balance, staked, expiration) ==
  [kind |-> kind, from |-> from, receiver |-> receiver, payment |-> payment,
   balance |-> balance, total_staked |-> staked, expiration |-> expiration]

Rental(db, from, receiver, kind, payment, loan_fund, row, run, paid, rented, id, lent, added, e) ==
  /\ run = runrex(db, 2)
  /\ paid = transfer_from_fund(run, from, payment + loan_fund)
  /\ rented = RentedTokens(paid.pool, payment)
  /\ id = paid.pool.loan_num + 1
  /\ lent = PoolSet(paid, LoanAdded(paid.pool, payment, rented, TRUE))
  /\ added = LoanSet(lent, id, row)
  /\ id <= MaxLoans
  /\ rex_loans_available(paid)
  /\ payment < rented
  /\ e = update_resource_limits(added, receiver, kind, rented)
  /\ e.ok

\* The checks of a rental were all passed.
LEMMA RentalCarries ==
  ASSUME NEW db \in Db, NEW from, NEW receiver, NEW kind, NEW payment, NEW loan_fund, NEW row,
         NEW run, NEW paid, NEW rented, NEW id, NEW lent, NEW added, NEW e,
         Rental(db, from, receiver, kind, payment, loan_fund, row, run, paid, rented, id, lent, added, e),
         HasOk(run)
  PROVE  paid.ok /\ run.ok
<1>1. HasOk(paid) /\ (paid.ok => run.ok)
  BY HelpersCarry DEF Rental, Carries, HasOk
<1>2. HasOk(lent) /\ lent.ok = paid.ok
  BY <1>1 DEF Rental, PoolSet, HasOk
<1>3. HasOk(added) /\ added.ok = lent.ok
  BY <1>2 DEF Rental, LoanSet, HasOk
<1>4. added.ok
  BY <1>3, HelpersCarry DEF Rental, Carries
<1> QED
  BY <1>1, <1>2, <1>3, <1>4

\* runrex does not lose the checks, nor make a failed one good.
LEMMA RunCarries ==
  ASSUME NEW db, HasOk(db), NEW max \in Nat, NEW d, d = runrex(db, max)
  PROVE  HasOk(d) /\ (d.ok => db.ok)
<1>1. CASE ~ rex_system_initialized(db)
  <2>1. d = Require(db, FALSE)
    BY <1>1 DEF runrex
  <2> QED
    BY <2>1, HelpersCarry DEF Carries, HasOk
<1>2. CASE rex_system_initialized(db)
  <2>1. PICK named : named = ChannelNamebids(db)
    OBVIOUS
  <2>2. PICK cpu : cpu = ProcessLoans(named, "cpu", max)
    OBVIOUS
  <2>3. PICK net : net = ProcessLoans(cpu, "net", max)
    OBVIOUS
  <2>4. d = ProcessOrders(net, max)
    BY <1>2, <2>1, <2>2, <2>3 DEF runrex
  <2>5. HasOk(named) /\ (named.ok => db.ok)
    <3>1. PICK m : m = TokensMoved(db, NamesAccount, RexAccount, db.pool.namebid_proceeds)
      OBVIOUS
    <3>2. HasOk(m) /\ (m.ok => db.ok)
      BY <3>1, HelpersCarry DEF Carries, HasOk
    <3>3. PICK paid : paid = IF rex_available(db)
                             THEN [m EXCEPT !.pool = Channelled(@, db.pool.namebid_proceeds)]
                             ELSE db
      OBVIOUS
    <3>4. HasOk(paid) /\ (paid.ok => db.ok)
      BY <3>2, <3>3 DEF HasOk
    <3>5. named = IF db.pool.namebid_proceeds > 0 THEN [paid EXCEPT !.pool.namebid_proceeds = 0] ELSE db
      <4>1. named = LET amount == db.pool.namebid_proceeds
                        given == IF rex_available(db)
                                 THEN [TokensMoved(db, NamesAccount, RexAccount, amount)
                                         EXCEPT !.pool = Channelled(@, amount)]
                                 ELSE db
                    IN  IF amount > 0 THEN [given EXCEPT !.pool.namebid_proceeds = 0] ELSE db
        BY <2>1, Zenon DEF ChannelNamebids
      <4> QED
        BY <4>1, <3>1, <3>3
    <3> QED
      BY <3>4, <3>5 DEF HasOk
  <2>6. HasOk(cpu) /\ (cpu.ok => named.ok)
    <3>1. LoansGood(named, 0, named)
      BY <2>5, LoansStart
    <3> QED
      BY <2>2, <3>1, LoansKeep DEF LoansGood
  <2>7. HasOk(net) /\ (net.ok => cpu.ok)
    <3>1. LoansGood(cpu, 0, cpu)
      BY <2>6, LoansStart
    <3> QED
      BY <2>3, <3>1, LoansKeep DEF LoansGood
  <2> QED
    BY <2>4, <2>5, <2>6, <2>7, OrdersCarry
<1> QED
  BY <1>1, <1>2

\* Only a fund that is there is taken from.
LEMMA FundThere ==
  ASSUME NEW db, HasOk(db), NEW owner, NEW amount,
         NEW d, d = transfer_from_fund(db, owner, amount), d.ok
  PROVE  db.fund[owner] # NoRow
<1>1. PICK m : m = Require(db, amount > 0 /\ db.fund[owner] # NoRow /\ FundOf(db, owner) >= amount)
  OBVIOUS
<1>2. HasOk(m) /\ (m.ok => db.fund[owner] # NoRow)
  BY <1>1 DEF Require, HasOk
<1>3. d.ok = m.ok
  BY <1>1, <1>2 DEF transfer_from_fund, HasOk
<1> QED
  BY <1>2, <1>3

\* rentcpu and rentnet.
LEMMA RentSteps ==
  ASSUME NEW t \in Nat, NEW db, Sound(db, t), NEW from \in Accounts, NEW receiver \in Accounts,
         NEW kind \in Resource, NEW payment \in Nat, payment > 0, NEW loan_fund \in Nat,
         NEW expiration \in Nat, expiration <= t + LoanTerm,
         NEW row, NEW run, NEW paid, NEW rented, NEW id, NEW lent, NEW added, NEW e,
         row = NewLoan(kind, from, receiver, payment, loan_fund, rented, expiration),
         Rental(db, from, receiver, kind, payment, loan_fund, row, run, paid, rented, id, lent, added, e)
  PROVE  Steps(db, e, t)
<1>1. Good(db, t) /\ db \in Db /\ HasOk(db)
  BY DbHasOk DEF Sound, Good
<1>2. HasOk(run)
  BY <1>1, RunCarries DEF Rental
<1>3. paid.ok /\ run.ok
  BY <1>1, <1>2, RentalCarries
<1>4. Leads(db, run, 0, t) /\ RexRun(db, run) /\ AllCovered(run) /\ Good(run, t) /\ run \in Db
      /\ ProceedsGood(run)
  <2>1. run = runrex(db, 2)
    BY DEF Rental
  <2> QED
    BY <1>3, <2>1, RunLeads DEF Sound, Good
<1>5. PICK total \in Nat : total = payment + loan_fund
  OBVIOUS
<1>6. /\ Apart(run, paid, total)
      /\ paid.loan = run.loan /\ paid.pool = run.pool /\ paid.bal = run.bal /\ paid.order = run.order
  <2>1. paid = transfer_from_fund(run, from, total)
    BY <1>5 DEF Rental
  <2> QED
    BY <1>3, <1>4, <2>1, FundTaken DEF SameRest
<1>7. Leads(run, paid, total, t) /\ Good(paid, t) /\ paid \in Db
  BY <1>4, <1>6, LeadsApart DEF Leads
<1>8. PICK p : p = paid.pool
  OBVIOUS
<1>9. /\ p \in Pool /\ PoolOK(p) /\ p.total_rex > 0 /\ PoolOf(paid) = p /\ p.loan_num \in Int
      /\ p.loan_num >= 0
  BY <1>7, <1>8, PoolFields DEF Rental, rex_loans_available, rex_available, rex_system_initialized,
     Good, PoolGood, PoolOf, PoolOK
<1>10. id \in LoanIds /\ id = p.loan_num + 1
  BY <1>8, <1>9, RexAssumption DEF Rental, LoanIds, RexAssumption
<1>11. paid.loan[id] = NoRow
  BY <1>7, <1>9, <1>10 DEF Good, LoanGood
<1>12. PICK q : q = LoanAdded(p, payment, rented, TRUE)
  OBVIOUS
<1>13. /\ PoolOK(q) /\ NotCheaper(p, q) /\ PoolMoves(p, q, payment, rented, 0, 1) /\ rented \in Nat
       /\ q \in Pool
  <2>1. rented = RentedTokens(p, payment)
    BY <1>8 DEF Rental
  <2>2. PICK n \in Int : n = 1
    OBVIOUS
  <2>3. PICK new_loan \in BOOLEAN : new_loan = TRUE
    BY Zenon
  <2>4. n = IF new_loan THEN 1 ELSE 0
    BY <2>2, <2>3, Zenon
  <2>5. q = LoanAdded(p, payment, rented, new_loan)
    BY <1>12, <2>3, Zenon
  <2>6. PoolOK(q) /\ NotCheaper(p, q) /\ PoolMoves(p, q, payment, rented, 0, n) /\ rented \in Nat
    BY <1>9, <2>1, <2>4, <2>5, PoolWith
  <2> QED
    BY <2>2, <2>6 DEF PoolMoves
<1>14. /\ row \in RexLoan /\ row.kind = kind /\ row.receiver = receiver /\ row.payment = payment
       /\ row.balance = loan_fund /\ row.total_staked = rented
       /\ row.from = from /\ row.expiration = expiration
  BY <1>13 DEF NewLoan, RexLoan
<1>15. row # NoRow
  BY <1>14, NoRowIsNone
<1>16. /\ lent \in Db /\ lent.pool = q /\ lent.tokens = paid.tokens /\ lent.userres = paid.userres
       /\ lent.voters = paid.voters /\ lent.fund = paid.fund /\ lent.bal = paid.bal
       /\ lent.order = paid.order /\ lent.loan = paid.loan
  <2>1. lent = PoolSet(paid, q)
    BY <1>8, <1>12 DEF Rental
  <2> QED
    BY <1>7, <1>13, <2>1, PoolReplaced
<1>17. /\ added \in Db /\ added.pool = q /\ added.tokens = paid.tokens /\ added.userres = paid.userres
       /\ added.voters = paid.voters /\ added.fund = paid.fund /\ added.bal = paid.bal
       /\ added.order = paid.order /\ added.loan[id] = row
       /\ \A i \in LoanIds \ {id} : added.loan[i] = paid.loan[i]
  <2>1. added = LoanSet(lent, id, row)
    BY DEF Rental
  <2> QED
    BY <1>10, <1>14, <1>16, <2>1, LoanReplaced
<1>18. PICK s \in Int : s = rented
  BY <1>13
<1>19. /\ e \in Db
       /\ \A a \in Accounts : \A r \in Resource :
            e.userres[a][r] = paid.userres[a][r] + (IF a = receiver /\ r = kind THEN s ELSE 0)
       /\ e.tokens = paid.tokens /\ e.voters = paid.voters /\ e.pool = q /\ e.fund = paid.fund
       /\ e.bal = paid.bal /\ e.order = paid.order /\ e.loan = added.loan
  <2>1. e = update_resource_limits(added, receiver, kind, s) /\ e.ok
    BY <1>18 DEF Rental
  <2> QED
    BY <1>17, <2>1, LimitsUpdated
<1>20. e.pool # NoRow /\ PoolOf(e) = q
  BY <1>13, <1>19, NoRowIsNone DEF PoolOf
<1>21. PICK z \in Int, n \in Int : z = 0 /\ n = 1
  OBVIOUS
<1>22. PICK f \in Int, l \in Int : f = loan_fund /\ l = payment
  OBVIOUS
<1>23. LoanTurns(paid, e, id, z, f, l, s, n)
  <2>1. Claims(e) = Claims(paid) + z
    <3>1. Claims(e) = Claims(paid)
      BY <1>19 DEF Claims, FundOf, IsFilled
    <3> QED
      BY <1>7, <1>21, <3>1, SumsAreInts
  <2>2. LoanFund(e, id) = LoanFund(paid, id) + f /\ LoanStake(e, id) = LoanStake(paid, id) + s
    BY <1>11, <1>14, <1>15, <1>17, <1>18, <1>19, <1>22 DEF LoanFund, LoanStake
  <2>3. ASSUME NEW a \in Accounts, NEW r \in Resource
        PROVE  e.userres[a][r] = paid.userres[a][r] + (StakeTo(e, id, a, r) - StakeTo(paid, id, a, r))
    <3>1. e.userres[a][r] = paid.userres[a][r] + (IF a = receiver /\ r = kind THEN s ELSE 0)
      BY <1>19
    <3>2. /\ StakeTo(e, id, a, r) = (IF a = receiver /\ r = kind THEN rented ELSE 0)
          /\ StakeTo(paid, id, a, r) = 0
      BY <1>11, <1>14, <1>15, <1>17, <1>19 DEF StakeTo
    <3>3. paid.userres[a][r] \in Int
      BY <1>7, DbFields DEF Weight
    <3> QED
      BY <1>18, <3>1, <3>2, <3>3
  <2>4. PoolMoves(PoolOf(paid), PoolOf(e), l, s, 0, n) /\ n >= 0
    BY <1>9, <1>13, <1>18, <1>20, <1>21, <1>22
  <2>5. LoanGood(e, id)
    <3>1. id <= q.loan_num
      BY <1>9, <1>10, <1>13 DEF PoolMoves
    <3>2. e.loan[id] = row
      BY <1>17, <1>19
    <3>3. rented > 0
      BY <1>13 DEF Rental
    <3> QED
      BY <1>14, <1>20, <3>1, <3>2, <3>3 DEF LoanGood
  <2>6. PoolOK(PoolOf(e)) /\ NotCheaper(PoolOf(paid), PoolOf(e))
    BY <1>9, <1>13, <1>20
  <2>7. \A i \in LoanIds \ {id} : e.loan[i] = paid.loan[i]
    BY <1>17, <1>19
  <2> QED
    BY <1>19, <1>20, <2>1, <2>2, <2>3, <2>4, <2>5, <2>6, <2>7 DEF LoanTurns
<1>24. PICK y \in Int : y = - total
  OBVIOUS
<1>29. Timely(e, t)
  <2>1. run.fund[from] # NoRow
    <3>1. paid = transfer_from_fund(run, from, total)
      BY <1>5 DEF Rental
    <3> QED
      BY <1>2, <1>3, <3>1, FundThere
  <2>2. e.fund[from] # NoRow
    BY <1>6, <1>19, <2>1 DEF Apart, Aside, FundsStay
  <2>3. \A a \in Accounts : ~ IsOpen(e, a)
    <3>1. \A a \in Accounts : ~ IsOpen(paid, a)
      BY Zenon DEF Rental, rex_loans_available, IsOpen
    <3> QED
      BY <1>19, <3>1 DEF IsOpen
  <2>4. TimelyLoan(e, id, t)
    BY <1>14, <1>17, <1>19, <2>2, <2>3 DEF TimelyLoan
  <2>5. ASSUME NEW i \in LoanIds, i # id PROVE TimelyLoan(e, i, t)
    <3>1. e.loan[i] = paid.loan[i]
      BY <1>17, <1>19, <2>5
    <3>2. TimelyLoan(paid, i, t)
      BY <1>7 DEF Good, Timely
    <3> QED
      BY <1>19, <2>3, <3>1, <3>2 DEF TimelyLoan
  <2> QED
    BY <2>4, <2>5 DEF Timely
<1>25. Leads(paid, e, y, t)
  <2>1. y = - (z + f + l)
    BY <1>5, <1>21, <1>22, <1>24
  <2>2. Good(e, t) /\ Keeps(paid, e, y) /\ StaysEmpty(paid, e)
    BY <1>7, <1>10, <1>18, <1>21, <1>22, <1>23, <1>24, <1>29, <2>1, LoanTurned
  <2> QED
    BY <2>2 DEF Leads
<1>26. Leads(db, e, 0, t)
  <2>1. total = 0 + total /\ 0 = total + y
    BY <1>24
  <2>2. Leads(db, paid, total, t)
    BY <1>1, <1>4, <1>7, <2>1, LeadsOn
  <2> QED
    BY <1>1, <1>24, <1>25, <2>1, <2>2, LeadsOn
<1>27. AllCovered(e)
  <2>1. e.bal = run.bal /\ \A a \in Accounts : IsOpen(e, a) => e.order[a] = run.order[a]
    BY <1>6, <1>19
  <2> QED
    BY <1>4, <2>1, CoversKept
<1>28. \A a \in Accounts : ~ (IsOpen(db, a) /\ e.order[a] = db.order[a])
  <2>1. \A a \in Accounts : ~ IsOpen(paid, a)
    BY DEF Rental, rex_loans_available
  <2>2. e.order = paid.order
    BY <1>19
  <2> QED
    BY <2>1, <2>2, Zenon DEF IsOpen
<1> QED
  BY <1>20, <1>26, <1>27, <1>28 DEF Steps, Leads

\* A row of shares is replaced by one that still covers the owner's order.
LEMMA RowLeads ==
  ASSUME NEW t, NEW db, Good(db, t), AllCovered(db), NEW owner \in Accounts, db.bal[owner] # NoRow,
         NEW row, RowGood(row, t), row.rex_balance = db.bal[owner].rex_balance,
         IsOpen(db, owner) => db.order[owner].rex_requested <= row.matured_rex,
         NEW d, d = RowSet(db, owner, row)
  PROVE  /\ Leads(db, d, 0, t) /\ Quiet(db, d) /\ AllCovered(d) /\ d.ok = db.ok
         /\ d.bal[owner] = row /\ Rerowed(db, d, owner)
<1>1. row \in RexBalance
  BY DEF RowGood
<1>2. /\ Good(d, t) /\ Keeps(db, d, 0) /\ StaysEmpty(db, d) /\ Rerowed(db, d, owner)
      /\ d.bal[owner] = row /\ d.ok = db.ok
  BY <1>1, RowReplaced
<1>3. Quiet(db, d)
  BY <1>2 DEF Rerowed, Quiet, PoolOf
<1>4. ASSUME NEW a \in Accounts, IsOpen(d, a)
      PROVE  /\ d.bal[a] # NoRow /\ 0 < d.order[a].rex_requested
             /\ d.order[a].rex_requested <= d.bal[a].matured_rex
  <2>1. d.order = db.order /\ IsOpen(db, a)
    BY <1>2, <1>4 DEF Rerowed, IsOpen
  <2>2. /\ db.bal[a] # NoRow /\ 0 < db.order[a].rex_requested
        /\ db.order[a].rex_requested <= db.bal[a].matured_rex
    BY <2>1 DEF AllCovered, Covers
  <2>3. CASE a = owner
    BY <1>2, <2>1, <2>2, <2>3 DEF Rerowed
  <2>4. CASE a # owner
    BY <1>2, <2>1, <2>2, <2>4 DEF Rerowed
  <2> QED
    BY <2>3, <2>4
<1> QED
  BY <1>2, <1>3, <1>4 DEF Leads, AllCovered, Covers

\* What is for sale is covered by matured shares.
LEMMA ForSale ==
  ASSUME NEW t, NEW db, Good(db, t), AllCovered(db), NEW owner \in Accounts, db.bal[owner] # NoRow
  PROVE  /\ RexInSellOrder(db, owner) \in Nat
         /\ RexInSellOrder(db, owner) <= db.bal[owner].matured_rex
         /\ IsOpen(db, owner) => RexInSellOrder(db, owner) = db.order[owner].rex_requested
<1>1. RowGood(db.bal[owner], t) /\ db.bal[owner].matured_rex >= 0
  BY DEF Good, RowsGood, RowGood
<1>2. CASE IsOpen(db, owner)
  <2>1. /\ RexInSellOrder(db, owner) = db.order[owner].rex_requested
        /\ 0 < db.order[owner].rex_requested
        /\ db.order[owner].rex_requested <= db.bal[owner].matured_rex
    BY <1>2 DEF RexInSellOrder, AllCovered, Covers
  <2>2. db.order[owner].rex_requested \in Int
    BY <1>2, DbFields DEF Good, IsOpen, RexOrder
  <2> QED
    BY <2>1, <2>2
<1>3. CASE ~ IsOpen(db, owner)
  BY <1>1, <1>3 DEF RexInSellOrder
<1> QED
  BY <1>2, <1>3

\* The beginning of most handlers: maintenance, which leaves the owner its row.
LEMMA Begun ==
  ASSUME NEW t \in Nat, NEW db, Sound(db, t), NEW owner \in Accounts, db.bal[owner] # NoRow,
         NEW run, run = runrex(db, 2), run.ok
  PROVE  /\ Leads(db, run, 0, t) /\ RexRun(db, run) /\ AllCovered(run) /\ Good(run, t)
         /\ Sound(run, t) /\ run.bal[owner] # NoRow /\ RowGood(run.bal[owner], t)
<1>1. Leads(db, run, 0, t) /\ RexRun(db, run) /\ AllCovered(run) /\ Sound(run, t)
  BY RunLeads
<1>2. Good(run, t) /\ run.bal[owner] # NoRow
  BY <1>1 DEF Sound, RexRun
<1>3. RowGood(run.bal[owner], t)
  BY <1>2 DEF Good, RowsGood
<1> QED
  BY <1>1, <1>2, <1>3

\* A filled order is collected next.
LEMMA Prepared ==
  ASSUME NEW t \in Nat, NEW db, Sound(db, t), NEW owner \in Accounts, db.bal[owner] # NoRow,
         NEW run, run = runrex(db, 2), NEW c, c = CollectFilled(run, owner), c.ok
  PROVE  /\ Leads(db, c, 0, t) /\ Quiet(run, c) /\ RexRun(db, run) /\ AllCovered(c) /\ Good(c, t)
         /\ c.bal[owner] # NoRow /\ RowGood(c.bal[owner], t)
<1>1. Good(db, t) /\ HasOk(db)
  BY DbHasOk DEF Sound, Good
<1>2. run.ok
  <2>1. HasOk(run)
    BY <1>1, RunCarries
  <2> QED
    BY <2>1, CollectCarries
<1>3. /\ Leads(db, run, 0, t) /\ RexRun(db, run) /\ AllCovered(run) /\ Good(run, t)
      /\ run.bal[owner] # NoRow
  BY <1>2, Begun
<1>4. /\ Leads(run, c, 0, t) /\ Quiet(run, c) /\ Collected(run, c, owner) /\ AllCovered(c)
  BY <1>3, FilledCollected
<1>5. Leads(db, c, 0, t)
  <2>1. PICK z \in Int : z = 0 /\ z = z + z
    OBVIOUS
  <2>2. Leads(db, run, z, t) /\ Leads(run, c, z, t)
    BY <1>3, <1>4, <2>1
  <2>3. Leads(db, c, z, t)
    BY <1>1, <2>1, <2>2, LeadsOn
  <2> QED
    BY <2>1, <2>3
<1>6. c.bal[owner] # NoRow /\ Good(c, t)
  BY <1>3, <1>4 DEF Collected, SameRest, Leads
<1>7. RowGood(c.bal[owner], t)
  BY <1>6 DEF Good, RowsGood
<1> QED
  BY <1>3, <1>4, <1>5, <1>6, <1>7

\* And then the owner's row changes.
LEMMA RowSteps ==
  ASSUME NEW t \in Nat, NEW db, Good(db, t), NEW run, RexRun(db, run), NEW c,
         Leads(db, c, 0, t), Quiet(run, c), AllCovered(c), NEW owner \in Accounts,
         c.bal[owner] # NoRow, NEW row, RowGood(row, t), row.rex_balance = c.bal[owner].rex_balance,
         RexInSellOrder(c, owner) <= row.matured_rex,
         NEW e, e = RowSet(c, owner, row)
  PROVE  Steps(db, e, t)
<1>1. Good(c, t)
  BY DEF Leads
<1>2. IsOpen(c, owner) => c.order[owner].rex_requested <= row.matured_rex
  BY DEF RexInSellOrder
<1>3. Leads(c, e, 0, t) /\ Quiet(c, e) /\ AllCovered(e)
  BY <1>1, <1>2, RowLeads
<1>4. Leads(db, e, 0, t)
  <2>1. PICK z \in Int : z = 0 /\ z = z + z
    OBVIOUS
  <2>2. Leads(db, c, z, t) /\ Leads(c, e, z, t)
    BY <1>3, <2>1
  <2>3. Leads(db, e, z, t)
    BY <2>1, <2>2, LeadsOn
  <2> QED
    BY <2>1, <2>3
<1>5. Quiet(run, e)
  BY <1>3 DEF Quiet, RexRun
<1> QED
  BY <1>3, <1>4, <1>5, StepsRun

\* consolidate.
LEMMA ConsolidateSteps ==
  ASSUME NEW t \in 0 .. MaxTime, NEW db, Sound(db, t), NEW owner \in Accounts, db.bal[owner] # NoRow,
         NEW run, run = runrex(db, 2), NEW c, c = CollectFilled(run, owner),
         NEW row, row = consolidate_rex_balance(c.bal[owner], t, RexInSellOrder(c, owner)),
         NEW e, e = RowSet(c, owner, row), c.ok
  PROVE  Steps(db, e, t)
<1>1. /\ Leads(db, c, 0, t) /\ Quiet(run, c) /\ RexRun(db, run) /\ AllCovered(c) /\ Good(c, t)
      /\ c.bal[owner] # NoRow /\ RowGood(c.bal[owner], t)
  BY Prepared
<1>2. PICK x \in Nat : x = RexInSellOrder(c, owner) /\ x <= c.bal[owner].matured_rex
  BY <1>1, ForSale
<1>3. PICK old : old = c.bal[owner]
  OBVIOUS
<1>4. /\ RowGood(row, t) /\ row.rex_balance = c.bal[owner].rex_balance
      /\ row.matured_rex = RexInSellOrder(c, owner)
  <2>1. row = consolidate_rex_balance(old, t, x)
    BY <1>2, <1>3
  <2> QED
    BY <1>1, <1>2, <1>3, <2>1, ConsolidationKeepsRow
<1>5. RexInSellOrder(c, owner) <= row.matured_rex
  BY <1>2, <1>4
<1>6. Good(db, t)
  BY DEF Sound
<1> QED
  BY <1>1, <1>4, <1>5, <1>6, RowSteps

\* mvtosavings.
LEMMA SavingSteps ==
  ASSUME NEW t \in 0 .. MaxTime, NEW db, Sound(db, t), NEW owner \in Accounts, db.bal[owner] # NoRow,
         NEW rex \in Nat, NEW run, run = runrex(db, 2), NEW c, c = CollectFilled(run, owner),
         NEW row, row = MovedToSavings(c.bal[owner], t, rex),
         RexInSellOrder(c, owner) <= row.matured_rex,
         NEW e, e = RowSet(c, owner, row), c.ok
  PROVE  Steps(db, e, t)
<1>1. /\ Leads(db, c, 0, t) /\ Quiet(run, c) /\ RexRun(db, run) /\ AllCovered(c) /\ Good(c, t)
      /\ c.bal[owner] # NoRow /\ RowGood(c.bal[owner], t)
  BY Prepared
<1>2. PICK x \in Nat : x = RexInSellOrder(c, owner) /\ x <= c.bal[owner].matured_rex
  BY <1>1, ForSale
<1>3. PICK old : old = c.bal[owner]
  OBVIOUS
<1>4. RowGood(row, t) /\ row.rex_balance = c.bal[owner].rex_balance
  <2>1. row = MovedToSavings(old, t, rex)
    BY <1>3
  <2>2. x <= MovedToSavings(old, t, rex).matured_rex
    BY <1>2, <2>1
  <2> QED
    BY <1>1, <1>2, <1>3, <2>1, <2>2, SavingKeepsRow
<1>5. Good(db, t)
  BY DEF Sound
<1> QED
  BY <1>1, <1>4, <1>5, RowSteps

\* mvfrsavings.
LEMMA UnsavingSteps ==
  ASSUME NEW t \in 0 .. MaxTime, NEW db, Sound(db, t), NEW owner \in Accounts, db.bal[owner] # NoRow,
         NEW rex \in Nat, NEW run, run = runrex(db, 2), rex <= Savings(run.bal[owner].rex_maturities),
         NEW row, row = MovedFromSavings(run.bal[owner], t, rex),
         NEW d, d = RowSet(run, owner, row), NEW e, e = CollectFilled(d, owner), e.ok
  PROVE  Steps(db, e, t)
<1>1. Good(db, t) /\ HasOk(db)
  BY DbHasOk DEF Sound, Good
<1>2. run.ok /\ d.ok
  <2>1. HasOk(run)
    BY <1>1, RunCarries
  <2>2. HasOk(d) /\ d.ok = run.ok
    BY <2>1 DEF RowSet, HasOk
  <2> QED
    BY <2>2, CollectCarries
<1>3. /\ Leads(db, run, 0, t) /\ RexRun(db, run) /\ AllCovered(run) /\ Good(run, t)
      /\ run.bal[owner] # NoRow /\ RowGood(run.bal[owner], t)
  BY <1>2, Begun
<1>4. PICK old : old = run.bal[owner]
  OBVIOUS
<1>5. /\ RowGood(row, t) /\ row.rex_balance = run.bal[owner].rex_balance
      /\ row.matured_rex >= run.bal[owner].matured_rex
  <2>1. row = MovedFromSavings(old, t, rex) /\ rex <= Savings(old.rex_maturities)
    BY <1>4
  <2> QED
    BY <1>3, <1>4, <2>1, UnsavingKeepsRow
<1>6. IsOpen(run, owner) => run.order[owner].rex_requested <= row.matured_rex
  <2> SUFFICES ASSUME IsOpen(run, owner)
               PROVE  run.order[owner].rex_requested <= row.matured_rex
    OBVIOUS
  <2>1. run.order[owner].rex_requested <= run.bal[owner].matured_rex
    BY <1>3 DEF AllCovered, Covers
  <2>2. run.order[owner].rex_requested \in Int /\ row.matured_rex \in Int
        /\ run.bal[owner].matured_rex \in Int
    BY <1>3, <1>5, DbFields DEF Good, IsOpen, RexOrder, RowGood, RexBalance
  <2> QED
    BY <1>5, <2>1, <2>2
<1>7. Leads(run, d, 0, t) /\ Quiet(run, d) /\ AllCovered(d) /\ Good(d, t)
  BY <1>3, <1>5, <1>6, RowLeads DEF Leads
<1>8. Leads(d, e, 0, t) /\ Quiet(d, e) /\ AllCovered(e)
  BY <1>7, FilledCollected
<1>9. Leads(db, e, 0, t)
  <2>1. PICK z \in Int : z = 0 /\ z = z + z
    OBVIOUS
  <2>2. Leads(db, run, z, t) /\ Leads(run, d, z, t) /\ Leads(d, e, z, t)
    BY <1>3, <1>7, <1>8, <2>1
  <2>3. Leads(db, d, z, t)
    BY <1>1, <2>1, <2>2, LeadsOn
  <2>4. Leads(db, e, z, t)
    BY <1>1, <2>1, <2>2, <2>3, LeadsOn
  <2> QED
    BY <2>1, <2>4
<1>10. Quiet(run, e)
  BY <1>7, <1>8 DEF Quiet, RexRun
<1> QED
  BY <1>1, <1>3, <1>8, <1>9, <1>10, StepsRun

\* A row of shares that counts for another stake.
StakeSet(row, stake) == [row EXCEPT !.vote_stake = stake]

\* Such a row is as good as it was.
LEMMA StakeSetKeeps ==
  ASSUME NEW t, NEW row, RowGood(row, t), NEW stake \in Int
  PROVE  /\ RowGood(StakeSet(row, stake), t) /\ StakeSet(row, stake) \in RexBalance
         /\ StakeSet(row, stake).rex_balance = row.rex_balance
         /\ StakeSet(row, stake).matured_rex = row.matured_rex
         /\ StakeSet(row, stake).vote_stake = stake
<1>1. row \in RexBalance
  BY DEF RowGood
<1>2. PICK next : next = StakeSet(row, stake)
  OBVIOUS
<1>3. /\ next \in RexBalance /\ next.rex_balance = row.rex_balance
      /\ next.matured_rex = row.matured_rex /\ next.rex_maturities = row.rex_maturities
      /\ next.vote_stake = stake
  BY <1>1, <1>2 DEF StakeSet, RexBalance
<1>4. RowGood(next, t)
  BY <1>3 DEF RowGood
<1> QED
  BY <1>2, <1>3, <1>4

\* What shares are worth is a number, when there are any.
LEMMA ValueIsInt ==
  ASSUME NEW p, PoolOK(p), p.total_rex > 0, NEW rex \in Int
  PROVE  Value(p, rex) \in Int
<1>1. p.total_rex \in Int /\ p.total_lendable \in Int
  BY PoolFields DEF PoolOK
<1>2. PICK s \in Nat, l \in Int : s = p.total_rex /\ l = p.total_lendable /\ s > 0
  BY <1>1
<1>3. rex * l \in Int
  BY <1>2
<1>4. (rex * l) \div s \in Int
  BY <1>2, <1>3
<1> QED
  BY <1>2, <1>4 DEF Value

\* What updaterex does after maintenance.
Updating(db, owner, t, stake, set, voted, e) ==
  /\ stake = IF rex_available(db) THEN Value(db.pool, db.bal[owner].rex_balance) ELSE 0
  /\ set = RowSet(db, owner, StakeSet(db.bal[owner], stake))
  /\ voted = update_rex_account(set, owner, 0, stake - db.bal[owner].vote_stake, TRUE)
  /\ e = RowSet(voted, owner, process_rex_maturities(voted.bal[owner], t))
  /\ e.ok

\* The checks of updaterex were all passed.
LEMMA UpdatingCarries ==
  ASSUME NEW db, HasOk(db), NEW owner, NEW t, NEW stake, NEW set, NEW voted, NEW e,
         Updating(db, owner, t, stake, set, voted, e)
  PROVE  voted.ok /\ set.ok /\ db.ok
<1>1. HasOk(set) /\ set.ok = db.ok
  BY DEF Updating, RowSet, HasOk
<1>2. PICK delta : delta = stake - db.bal[owner].vote_stake
  OBVIOUS
<1>3. PICK force \in BOOLEAN : force = TRUE
  BY Zenon
<1>4. voted = update_rex_account(set, owner, 0, delta, force)
  BY <1>2, <1>3, Zenon DEF Updating
<1>5. HasOk(voted) /\ (voted.ok => set.ok)
  BY <1>1, <1>4, AccountCarries DEF Carries, HasOk
<1>6. e.ok = voted.ok
  BY <1>5 DEF Updating, RowSet, HasOk
<1>7. e.ok
  BY DEF Updating
<1> QED
  BY <1>1, <1>5, <1>6, <1>7

\* updaterex.
LEMMA UpdaterexSteps ==
  ASSUME NEW t \in 0 .. MaxTime, NEW db, Sound(db, t), NEW owner \in Accounts, db.bal[owner] # NoRow,
         NEW run, run = runrex(db, 2), NEW stake, NEW set, NEW voted, NEW e,
         Updating(run, owner, t, stake, set, voted, e)
  PROVE  Steps(db, e, t)
<1>1. Good(db, t) /\ HasOk(db)
  BY DbHasOk DEF Sound, Good
<1>2. voted.ok /\ set.ok /\ run.ok
  <2>1. HasOk(run)
    BY <1>1, RunCarries
  <2> QED
    BY <2>1, UpdatingCarries
<1>3. /\ Leads(db, run, 0, t) /\ RexRun(db, run) /\ AllCovered(run) /\ Good(run, t)
      /\ run.bal[owner] # NoRow /\ RowGood(run.bal[owner], t)
  BY <1>2, Begun
<1>4. PICK old : old = run.bal[owner] /\ old \in RexBalance
  BY <1>3 DEF RowGood
<1>5. stake \in Int
  <2>1. CASE rex_available(run)
    <3>1. PoolOK(run.pool) /\ run.pool.total_rex > 0
      BY <1>3, <2>1 DEF Good, PoolGood, PoolOf, rex_available, rex_system_initialized
    <3>2. old.rex_balance \in Int
      BY <1>4 DEF RexBalance
    <3>3. stake = Value(run.pool, old.rex_balance)
      <4>1. stake = IF rex_available(run) THEN Value(run.pool, run.bal[owner].rex_balance) ELSE 0
        BY Zenon DEF Updating
      <4> QED
        BY <1>4, <2>1, <4>1
    <3>4. PICK p : p = run.pool
      OBVIOUS
    <3>5. PICK n \in Int : n = old.rex_balance
      BY <3>2
    <3>6. PoolOK(p) /\ p.total_rex > 0
      BY <3>1, <3>4
    <3>7. Value(p, n) \in Int
      BY <3>6, ValueIsInt
    <3> QED
      BY <3>3, <3>4, <3>5, <3>7
  <2>2. CASE ~ rex_available(run)
    <3>1. stake = 0
      BY <2>2, Zenon DEF Updating
    <3> QED
      BY <3>1
  <2> QED
    BY <2>1, <2>2
<1>6. PICK row : row = StakeSet(old, stake)
  OBVIOUS
<1>7. RowGood(row, t) /\ row.rex_balance = old.rex_balance /\ row.matured_rex = old.matured_rex
  <2>1. RowGood(old, t) /\ stake \in Int
    BY <1>3, <1>4, <1>5
  <2>2. /\ RowGood(StakeSet(old, stake), t)
        /\ StakeSet(old, stake).rex_balance = old.rex_balance
        /\ StakeSet(old, stake).matured_rex = old.matured_rex
    BY <2>1, StakeSetKeeps, Zenon
  <2> QED
    BY <1>6, <2>2, Zenon
<1>8. /\ Leads(run, set, 0, t) /\ Quiet(run, set) /\ AllCovered(set) /\ Good(set, t)
      /\ set.bal[owner] = row
  <2>1. set = RowSet(run, owner, row)
    <3>1. set = RowSet(run, owner, StakeSet(run.bal[owner], stake))
      BY Zenon DEF Updating
    <3> QED
      BY <1>4, <1>6, <3>1
  <2>2. IsOpen(run, owner) => run.order[owner].rex_requested <= row.matured_rex
    BY <1>3, <1>4, <1>7 DEF AllCovered, Covers
  <2> QED
    BY <1>3, <1>4, <1>7, <2>1, <2>2, RowLeads DEF Leads
<1>9. PICK delta \in Int : delta = stake - old.vote_stake
  BY <1>4, <1>5 DEF RexBalance
<1>10. PICK force \in BOOLEAN : force = TRUE
  BY Zenon
<1>11. voted = update_rex_account(set, owner, 0, delta, force)
  <2>1. voted = update_rex_account(set, owner, 0, stake - run.bal[owner].vote_stake, TRUE)
    BY Zenon DEF Updating
  <2> QED
    BY <1>4, <1>9, <1>10, <2>1, Zenon
<1>12. /\ Leads(set, voted, 0, t) /\ Quiet(set, voted) /\ AllCovered(voted) /\ Good(voted, t)
       /\ voted.bal = set.bal
  <2>1. /\ Leads(set, voted, 0, t) /\ Quiet(set, voted) /\ AllCovered(voted)
        /\ Collected(set, voted, owner)
    BY <1>2, <1>8, <1>11, CollectKeeps
  <2> QED
    BY <2>1 DEF Leads, Collected, SameRest
<1>13. voted.bal[owner] = row /\ row # NoRow
  BY <1>7, <1>8, <1>12, NoRowIsNone DEF RowGood
<1>14. PICK last : last = process_rex_maturities(row, t)
  OBVIOUS
<1>15. RowGood(last, t) /\ last.rex_balance = row.rex_balance /\ last.matured_rex >= row.matured_rex
  BY <1>7, <1>14, RowProcessed
<1>16. e = RowSet(voted, owner, last)
  <2>1. e = RowSet(voted, owner, process_rex_maturities(voted.bal[owner], t))
    BY Zenon DEF Updating
  <2> QED
    BY <1>13, <1>14, <2>1
<1>17. Leads(db, voted, 0, t)
  <2>1. PICK z \in Int : z = 0 /\ z = z + z
    OBVIOUS
  <2>2. Leads(db, run, z, t) /\ Leads(run, set, z, t) /\ Leads(set, voted, z, t)
    BY <1>3, <1>8, <1>12, <2>1
  <2>3. Leads(db, set, z, t)
    BY <1>1, <2>1, <2>2, LeadsOn
  <2>4. Leads(db, voted, z, t)
    BY <1>1, <2>1, <2>2, <2>3, LeadsOn
  <2> QED
    BY <2>1, <2>4
<1>18. Quiet(run, voted)
  BY <1>8, <1>12 DEF Quiet
<1>19. RexInSellOrder(voted, owner) <= last.matured_rex
  <2>1. PICK x \in Nat : x = RexInSellOrder(voted, owner) /\ x <= voted.bal[owner].matured_rex
    BY <1>12, <1>13, ForSale
  <2>2. row.matured_rex \in Int /\ last.matured_rex \in Int
    BY <1>7, <1>15 DEF RowGood, RexBalance
  <2> QED
    BY <1>13, <1>15, <2>1, <2>2
<1> QED
  BY <1>1, <1>3, <1>12, <1>13, <1>15, <1>16, <1>17, <1>18, <1>19, RowSteps

\* A voter's row is replaced; who holds shares must still vote.
VoterSet(db, voter, row) == [db EXCEPT !.voters[voter] = row]

\* Whatever else the voter's row says, the pool and the funds stay.
LEMMA VoterReplaced ==
  ASSUME NEW t, NEW db, Good(db, t), NEW voter \in Accounts, NEW row \in VoterInfo \cup {NoRow},
         Holding(db, voter) /\ VotesOK(db) => row # NoRow /\ row.votes,
         NEW d, d = VoterSet(db, voter, row)
  PROVE  /\ Leads(db, d, 0, t) /\ Quiet(db, d) /\ d.ok = db.ok /\ d.tokens = db.tokens
         /\ d.bal = db.bal /\ d.order = db.order /\ d.pool = db.pool /\ d.fund = db.fund
         /\ d.loan = db.loan /\ d.userres = db.userres
         /\ d.voters[voter] = row /\ \A a \in Accounts \ {voter} : d.voters[a] = db.voters[a]
<1>1. db \in Db /\ PoolOK(PoolOf(db))
  BY DEF Good, PoolGood
<1>2. d = [db EXCEPT !.voters = [db.voters EXCEPT ![voter] = row]]
  BY DEF VoterSet
<1>3. /\ d.voters = [db.voters EXCEPT ![voter] = row] /\ d.ok = db.ok
      /\ d.pool = db.pool /\ d.loan = db.loan /\ d.userres = db.userres /\ d.tokens = db.tokens
      /\ d.fund = db.fund /\ d.order = db.order /\ d.bal = db.bal
  BY <1>1, <1>2 DEF Db
<1>4. /\ d.voters \in [Accounts -> VoterInfo \cup {NoRow}] /\ d.voters[voter] = row
      /\ \A a \in Accounts \ {voter} : d.voters[a] = db.voters[a]
  BY <1>1, <1>3, DbFields
<1>5. d \in Db
  BY <1>1, <1>2, <1>4 DEF Db
<1>6. /\ PoolOf(d) = PoolOf(db) /\ Claims(d) = Claims(db) /\ SharesOut(d) = SharesOut(db)
      /\ LoanFunds(d) = LoanFunds(db) /\ LoanStakes(d) = LoanStakes(db)
      /\ \A a \in Accounts : \A r \in Resource : LentTo(d, a, r) = LentTo(db, a, r)
  BY <1>3 DEF PoolOf, Claims, SharesOut, FundOf, IsFilled, LoanFunds, LoanStakes, LentTo
<1>13. Timely(d, t)
  BY <1>1, <1>3, SameStay, TimelyStays DEF Good
<1>7. Good(d, t)
  BY <1>3, <1>5, <1>6, <1>13 DEF Good, PoolGood, RowsGood, LoanGood, ProceedsGood, IsFilled
<1>8. Surplus(d) = Surplus(db) + 0
  <2>1. Surplus(d) = Surplus(db)
    BY <1>3, <1>6 DEF Surplus
  <2> QED
    BY <1>1, <2>1, SurplusIsInt
<1>9. VotesOK(db) => VotesOK(d)
  <2> SUFFICES ASSUME VotesOK(db), NEW a \in Accounts, Holding(d, a)
               PROVE  Voting(d, a)
    BY DEF VotesOK
  <2>1. Holding(db, a)
    BY <1>3 DEF Holding
  <2>2. CASE a = voter
    BY <1>4, <2>1, <2>2 DEF Voting
  <2>3. CASE a # voter
    BY <1>4, <2>1, <2>3 DEF VotesOK, Voting
  <2> QED
    BY <2>2, <2>3
<1>10. Keeps(db, d, 0)
  <2>1. NotCheaper(PoolOf(db), PoolOf(d))
    BY <1>1, <1>6, CheaperSame
  <2>2. \A a \in Accounts : \A r \in Resource : Unlent(d, a, r) = Unlent(db, a, r)
    BY <1>3, <1>6 DEF Unlent
  <2>3. NamesOK(db) => NamesOK(d)
    BY <1>3, <1>6 DEF NamesOK
  <2> QED
    BY <1>3, <1>8, <1>9, <2>1, <2>2, <2>3 DEF Keeps
<1> QED
  BY <1>3, <1>4, <1>6, <1>7, <1>10 DEF Leads, Quiet, StaysEmpty

\* update_rex_stake: the row of shares and the voter's row change by as much;
\* the vote does not.
LEMMA Revalued ==
  ASSUME NEW t, NEW db, Good(db, t), AllCovered(db), VotesOK(db), NEW voter \in Accounts,
         NEW d, d = update_rex_stake(db, voter)
  PROVE  /\ Leads(db, d, 0, t) /\ Quiet(db, d) /\ AllCovered(d) /\ d.ok = db.ok
         /\ d.tokens = db.tokens /\ d.userres = db.userres
         /\ d.order = db.order /\ d.pool = db.pool /\ d.fund = db.fund /\ d.loan = db.loan
         /\ \A a \in Accounts : Holding(d, a) => Holding(db, a)
         /\ \A a \in Accounts : d.voters[a] = NoRow <=> db.voters[a] = NoRow
         /\ \A a \in Accounts : d.voters[a] # NoRow => d.voters[a].votes = db.voters[a].votes
         /\ RexStakeDelta(db, voter) \in Int
<1>1. db \in Db /\ PoolOK(PoolOf(db))
  BY DEF Good, PoolGood
<1>2. PICK old : old = db.bal[voter]
  OBVIOUS
<1>3. PICK delta : delta = RexStakeDelta(db, voter)
  OBVIOUS
<1>4. CASE old # NoRow /\ rex_available(db)
  <2>1. /\ RowGood(old, t) /\ old \in RexBalance /\ old.rex_balance \in Int /\ old.vote_stake \in Int
    BY <1>2, <1>4 DEF Good, RowsGood, RowGood, RexBalance
  <2>2. delta = Value(db.pool, old.rex_balance) - old.vote_stake
    BY <1>2, <1>3, <1>4, Zenon DEF RexStakeDelta
  <2>3. Value(db.pool, old.rex_balance) \in Int
    <3>1. PoolOK(db.pool) /\ db.pool.total_rex > 0
      BY <1>1, <1>4 DEF PoolOf, rex_available, rex_system_initialized
    <3> QED
      BY <2>1, <3>1, ValueIsInt
  <2>4. delta \in Int
    BY <2>1, <2>2, <2>3
  <2>5. PICK stake \in Int : stake = old.vote_stake + delta
    BY <2>1, <2>4
  <2>6. PICK row : row = StakeSet(old, stake)
    OBVIOUS
  <2>7. RowGood(row, t) /\ row.rex_balance = old.rex_balance /\ row.matured_rex = old.matured_rex
    BY <2>1, <2>6, StakeSetKeeps
  <2>8. PICK m : m = RowSet(db, voter, row)
    OBVIOUS
  <2>9. /\ Leads(db, m, 0, t) /\ Quiet(db, m) /\ AllCovered(m) /\ m.ok = db.ok
        /\ Rerowed(db, m, voter) /\ Good(m, t) /\ m.bal[voter] = row
    <3>1. IsOpen(db, voter) => db.order[voter].rex_requested <= row.matured_rex
      BY <1>2, <2>7 DEF AllCovered, Covers
    <3>2. row.rex_balance = db.bal[voter].rex_balance /\ db.bal[voter] # NoRow
      BY <1>2, <1>4, <2>7
    <3> QED
      BY <2>7, <2>8, <3>1, <3>2, RowLeads DEF Leads
  <2>10. PICK info : info = db.voters[voter]
    OBVIOUS
  <2>11. info \in VoterInfo \cup {NoRow}
    BY <1>1, <2>10, DbFields
  <2>12. PICK next : next = VoterAdded(info, delta)
    OBVIOUS
  <2>13. /\ next \in VoterInfo \cup {NoRow} /\ (next = NoRow <=> info = NoRow)
         /\ next # NoRow => next.votes = info.votes
    <3>1. CASE info = NoRow
      BY <2>12, <3>1 DEF VoterAdded
    <3>2. CASE info # NoRow
      <4>1. PICK n \in Int : n = info.staked + delta
        BY <2>4, <2>11, <3>2 DEF VoterInfo
      <4>2. next = [info EXCEPT !.staked = n]
        BY <2>12, <3>2, <4>1 DEF VoterAdded
      <4>3. next \in VoterInfo /\ next.votes = info.votes
        BY <2>11, <3>2, <4>2 DEF VoterInfo
      <4> QED
        BY <3>2, <4>3, NoRowIsNone
    <3> QED
      BY <3>1, <3>2
  <2>14. d = IF delta = 0 THEN db ELSE VoterSet(m, voter, next)
    <3>1. CASE delta = 0
      BY <1>3, <3>1 DEF update_rex_stake
    <3>2. CASE delta # 0
      <4>1. d = [db EXCEPT !.bal[voter].vote_stake = @ + delta,
                           !.voters[voter] = VoterAdded(@, delta)]
        BY <1>3, <3>2 DEF update_rex_stake
      <4>2. d = [db EXCEPT !.bal = [db.bal EXCEPT ![voter] = row],
                           !.voters = [db.voters EXCEPT ![voter] = next]]
        <5>1. [db.bal EXCEPT ![voter].vote_stake = @ + delta] = [db.bal EXCEPT ![voter] = row]
          BY <1>2, <2>5, <2>6 DEF StakeSet
        <5>2. next = VoterAdded(db.voters[voter], delta)
          BY <2>10, <2>12
        <5> QED
          BY <4>1, <5>1, <5>2, Zenon
      <4>3. VoterSet(m, voter, next) = [db EXCEPT !.bal = [db.bal EXCEPT ![voter] = row],
                                                  !.voters = [db.voters EXCEPT ![voter] = next]]
        BY <1>1, <2>8 DEF VoterSet, RowSet, Db
      <4> QED
        BY <3>2, <4>2, <4>3
    <3> QED
      BY <3>1, <3>2
  <2>15. CASE delta = 0
    <3>1. d = db
      BY <2>14, <2>15
    <3>2. Leads(db, d, 0, t)
      BY <3>1, KeepsSame DEF Leads
    <3> QED
      BY <1>3, <2>4, <3>1, <3>2 DEF Quiet
  <2>16. CASE delta # 0
    <3>1. d = VoterSet(m, voter, next)
      BY <2>14, <2>16
    <3>2. Holding(m, voter) /\ VotesOK(m) => next # NoRow /\ next.votes
      <4>1. m.voters[voter] = info
        BY <2>9, <2>10 DEF Rerowed
      <4> QED
        BY <2>13, <4>1 DEF VotesOK, Voting
    <3>3. /\ Leads(m, d, 0, t) /\ Quiet(m, d) /\ d.ok = m.ok /\ d.tokens = m.tokens
          /\ d.bal = m.bal /\ d.order = m.order /\ d.pool = m.pool /\ d.fund = m.fund
          /\ d.loan = m.loan /\ d.userres = m.userres
          /\ d.voters[voter] = next /\ \A a \in Accounts \ {voter} : d.voters[a] = m.voters[a]
      BY <2>9, <2>13, <3>1, <3>2, VoterReplaced
    <3>4. Leads(db, d, 0, t)
      <4>1. PICK z \in Int : z = 0 /\ z = z + z
        OBVIOUS
      <4>2. Leads(db, m, z, t) /\ Leads(m, d, z, t)
        BY <2>9, <3>3, <4>1
      <4>3. Leads(db, d, z, t)
        BY <4>1, <4>2, LeadsOn
      <4> QED
        BY <4>1, <4>3
    <3>5. AllCovered(d) /\ Quiet(db, d)
      BY <2>9, <3>3, CoversKept DEF Quiet
    <3>6. \A a \in Accounts : Holding(d, a) => Holding(db, a)
      BY <2>9, <3>3, <1>2, <1>4 DEF Holding, Rerowed
    <3>7. \A a \in Accounts : d.voters[a] = NoRow <=> db.voters[a] = NoRow
      BY <2>9, <2>10, <2>13, <3>3 DEF Rerowed
    <3>8. \A a \in Accounts : d.voters[a] # NoRow => d.voters[a].votes = db.voters[a].votes
      BY <2>9, <2>10, <2>13, <3>3 DEF Rerowed
    <3>9. /\ d.ok = db.ok /\ d.tokens = db.tokens /\ d.userres = db.userres
          /\ d.order = db.order /\ d.pool = db.pool /\ d.fund = db.fund /\ d.loan = db.loan
      BY <2>9, <3>3 DEF Rerowed
    <3> QED
      BY <1>3, <2>4, <3>4, <3>5, <3>6, <3>7, <3>8, <3>9, Zenon
  <2> QED
    BY <2>15, <2>16
<1>5. CASE ~ (old # NoRow /\ rex_available(db))
  <2>1. RexStakeDelta(db, voter) = 0
    BY <1>2, <1>5, Zenon DEF RexStakeDelta
  <2>2. d = db
    BY <2>1 DEF update_rex_stake
  <2>3. Leads(db, d, 0, t)
    BY <2>2, KeepsSame DEF Leads
  <2> QED
    BY <2>1, <2>2, <2>3 DEF Quiet
<1> QED
  BY <1>4, <1>5

\* voteproducer: whoever holds shares votes for a proxy or for 21 producers.
LEMMA VoteSteps ==
  ASSUME NEW t, NEW db, Sound(db, t), NEW voter \in Accounts, db.voters[voter] # NoRow,
         NEW qualifies \in BOOLEAN, Holding(db, voter) => qualifies,
         NEW d, d = update_rex_stake(db, voter),
         NEW row, row = [d.voters[voter] EXCEPT !.votes = qualifies],
         NEW e, e = VoterSet(d, voter, row)
  PROVE  Steps(db, e, t)
<1>1. Good(db, t) /\ db \in Db /\ AllCovered(db) /\ VotesOK(db)
  BY DEF Sound, Good
<1>2. /\ Leads(db, d, 0, t) /\ Quiet(db, d) /\ AllCovered(d) /\ Good(d, t)
      /\ Holding(d, voter) => Holding(db, voter)
      /\ d.voters[voter] # NoRow
  BY <1>1, Revalued DEF Leads
<1>3. row \in VoterInfo /\ row.votes = qualifies
  <2>1. d.voters[voter] \in VoterInfo
    <3>1. d \in Db
      BY <1>2 DEF Good
    <3> QED
      BY <1>2, <3>1, DbFields
  <2>2. PICK info \in VoterInfo : info = d.voters[voter]
    BY <2>1
  <2>3. row = [info EXCEPT !.votes = qualifies]
    BY <2>2
  <2> QED
    BY <2>3 DEF VoterInfo
<1>4. row # NoRow
  BY <1>3, NoRowIsNone
<1>5. Leads(d, e, 0, t) /\ Quiet(d, e) /\ e.bal = d.bal /\ e.order = d.order
  <2>1. Holding(d, voter) /\ VotesOK(d) => row # NoRow /\ row.votes
    BY <1>2, <1>3, <1>4
  <2>2. PICK next \in VoterInfo \cup {NoRow} : next = row
    BY <1>3
  <2>3. Holding(d, voter) /\ VotesOK(d) => next # NoRow /\ next.votes
    BY <2>1, <2>2, Zenon
  <2>4. e = VoterSet(d, voter, next) /\ Good(d, t)
    BY <1>2, <2>2
  <2> QED
    BY <2>3, <2>4, VoterReplaced
<1>6. Leads(db, e, 0, t)
  <2>1. PICK z \in Int : z = 0 /\ z = z + z
    OBVIOUS
  <2>2. Leads(db, d, z, t) /\ Leads(d, e, z, t)
    BY <1>2, <1>5, <2>1
  <2>3. Leads(db, e, z, t)
    BY <1>1, <2>1, <2>2, LeadsOn
  <2> QED
    BY <2>1, <2>3
<1>7. AllCovered(e) /\ Quiet(db, e)
  BY <1>2, <1>5, CoversKept DEF Quiet
<1> QED
  BY <1>1, <1>6, <1>7, StepsQuiet

\* The rows that closerex leaves: none of shares, and f of the fund.
Closed(db, owner, f) == [db EXCEPT !.fund[owner] = f, !.bal[owner] = NoRow]

\* A row of shares is empty when it goes, and so is the row of a fund.
LEMMA ClosedLeads ==
  ASSUME NEW t \in Nat, NEW db, Good(db, t), AllCovered(db), NEW owner \in Accounts,
         SharesOf(db, owner) = 0, NEW f,
         f = db.fund[owner] \/ (f = NoRow /\ FundOf(db, owner) = 0 /\ ~ HasLoans(db, owner)),
         NEW d, d = Closed(db, owner, f)
  PROVE  Leads(db, d, 0, t) /\ Quiet(db, d) /\ AllCovered(d) /\ d.ok = db.ok
<1>1. db \in Db /\ PoolOK(PoolOf(db))
  BY DEF Good, PoolGood
<1>2. /\ d.fund = [db.fund EXCEPT ![owner] = f] /\ d.bal = [db.bal EXCEPT ![owner] = NoRow]
      /\ d.ok = db.ok /\ d.voters = db.voters /\ d.order = db.order
      /\ d.pool = db.pool /\ d.loan = db.loan /\ d.userres = db.userres /\ d.tokens = db.tokens
  BY <1>1 DEF Closed, Db
<1>3. /\ d.fund \in [Accounts -> Nat \cup {NoRow}] /\ d.fund[owner] = f
      /\ \A a \in Accounts \ {owner} : d.fund[a] = db.fund[a]
  BY <1>1, <1>2, DbFields
<1>4. /\ d.bal \in [Accounts -> RexBalance \cup {NoRow}] /\ d.bal[owner] = NoRow
      /\ \A a \in Accounts \ {owner} : d.bal[a] = db.bal[a]
  BY <1>1, <1>2, DbFields
<1>5. d \in Db
  BY <1>1, <1>2, <1>3, <1>4 DEF Closed, Db
<1>6. /\ PoolOf(d) = PoolOf(db)
      /\ LoanFunds(d) = LoanFunds(db) /\ LoanStakes(d) = LoanStakes(db)
      /\ \A a \in Accounts : \A r \in Resource : LentTo(d, a, r) = LentTo(db, a, r)
  BY <1>2 DEF PoolOf, LoanFunds, LoanStakes, LentTo
<1>7. SharesOut(d) = SharesOut(db)
  <2>1. SharesOut(d) = SharesOut(db) + (SharesOf(d, owner) - SharesOf(db, owner))
    BY <1>1, <1>4, <1>5, SharesChange
  <2>2. SharesOf(d, owner) = 0
    BY <1>4 DEF SharesOf
  <2> QED
    BY <1>1, <2>1, <2>2, SumsAreInts
<1>8. Claims(d) = Claims(db)
  <2>1. Claims(d) = Claims(db) + (ClaimOf(d, owner) - ClaimOf(db, owner))
    BY <1>1, <1>2, <1>3, <1>5, ClaimsChange
  <2>2. FundOf(d, owner) = FundOf(db, owner)
    BY <1>3 DEF FundOf
  <2>3. ClaimOf(d, owner) = ClaimOf(db, owner)
    BY <1>2, <2>2 DEF ClaimOf, IsFilled
  <2>4. Claims(db) \in Int /\ ClaimOf(db, owner) \in Int
    BY <1>1, SumsAreInts, EntriesAreInts
  <2> QED
    BY <2>1, <2>3, <2>4
<1>9. Good(d, t)
  <2>1. PoolGood(d) /\ ProceedsGood(d) /\ \A i \in LoanIds : LoanGood(d, i)
    BY <1>2, <1>6, <1>7 DEF Good, PoolGood, ProceedsGood, IsFilled, LoanGood
  <2>2. RowsGood(d, t)
    BY <1>4 DEF Good, RowsGood
  <2>3. ASSUME NEW i \in LoanIds PROVE TimelyLoan(d, i, t)
    <3>1. db.loan[i] # NoRow => d.fund[db.loan[i].from] # NoRow
      <4>1. SUFFICES ASSUME db.loan[i] # NoRow PROVE d.fund[db.loan[i].from] # NoRow
        OBVIOUS
      <4>2. db.loan[i].from \in Accounts /\ db.fund[db.loan[i].from] # NoRow
        BY <1>1, <4>1, DbFields DEF Good, Timely, TimelyLoan, RexLoan
      <4> QED
        BY <1>3, <4>1, <4>2 DEF HasLoans
    <3>2. TimelyLoan(db, i, t)
      BY DEF Good, Timely
    <3> QED
      BY <1>2, <3>1, <3>2 DEF TimelyLoan, IsOpen
  <2> QED
    BY <1>5, <2>1, <2>2, <2>3 DEF Good, Timely
<1>10. VotesOK(db) => VotesOK(d)
  BY <1>2, <1>4 DEF VotesOK, Voting, Holding
<1>11. Keeps(db, d, 0)
  <2>1. NotCheaper(PoolOf(db), PoolOf(d))
    BY <1>1, <1>6, CheaperSame
  <2>2. \A a \in Accounts : \A r \in Resource : Unlent(d, a, r) = Unlent(db, a, r)
    BY <1>2, <1>6 DEF Unlent
  <2>3. NamesOK(db) => NamesOK(d)
    BY <1>2, <1>6 DEF NamesOK
  <2>4. Surplus(d) = Surplus(db) + 0
    <3>1. Surplus(d) = Surplus(db)
      BY <1>2, <1>6, <1>8 DEF Surplus
    <3> QED
      BY <1>1, <3>1, SurplusIsInt
  <2> QED
    BY <1>2, <1>10, <2>1, <2>2, <2>3, <2>4 DEF Keeps
<1>12. ASSUME NEW a \in Accounts, IsOpen(d, a)
       PROVE  /\ d.bal[a] # NoRow /\ 0 < d.order[a].rex_requested
              /\ d.order[a].rex_requested <= d.bal[a].matured_rex
  <2>1. /\ IsOpen(db, a) /\ db.bal[a] # NoRow /\ 0 < db.order[a].rex_requested
        /\ db.order[a].rex_requested <= db.bal[a].matured_rex
    BY <1>2, <1>12 DEF AllCovered, Covers, IsOpen
  <2>2. a # owner
    <3>1. SUFFICES ASSUME a = owner
                   PROVE  FALSE
      OBVIOUS
    <3>2. RowGood(db.bal[a], t) /\ db.bal[a] \in RexBalance /\ db.order[a] \in RexOrder
      BY <1>1, <2>1, DbFields DEF Good, RowsGood, IsOpen
    <3>3. db.bal[a].rex_balance >= db.bal[a].matured_rex
      BY <3>2, GoodRowOK
    <3>4. db.bal[a].rex_balance = 0
      BY <2>1, <3>1 DEF SharesOf
    <3>5. db.order[a].rex_requested \in Int /\ db.bal[a].matured_rex \in Int
      BY <3>2 DEF RexBalance, RexOrder
    <3> QED
      BY <2>1, <3>3, <3>4, <3>5
  <2> QED
    BY <1>2, <1>4, <2>1, <2>2
<1> QED
  BY <1>2, <1>6, <1>9, <1>11, <1>12 DEF Leads, Quiet, StaysEmpty, AllCovered, Covers

\* closerex, with maintenance when there is a pool.
LEMMA CloserexSteps ==
  ASSUME NEW t \in Nat, NEW db, Sound(db, t), NEW owner \in Accounts,
         NEW run, run = IF rex_system_initialized(db) THEN runrex(db, 2) ELSE db,
         NEW c, c = CollectFilled(run, owner), c.ok, SharesOf(c, owner) = 0,
         NEW f,
         f = c.fund[owner] \/ (f = NoRow /\ FundOf(c, owner) = 0 /\ ~ HasLoans(c, owner)),
         NEW e, e = Closed(c, owner, f)
  PROVE  Steps(db, e, t)
<1>1. Good(db, t) /\ HasOk(db) /\ AllCovered(db) /\ db \in Db
  BY DbHasOk DEF Sound, Good
<1>2. HasOk(run)
  BY <1>1, RunCarries
<1>3. run.ok
  BY <1>2, CollectCarries
<1>4. /\ Leads(db, run, 0, t) /\ AllCovered(run) /\ Good(run, t)
      /\ rex_system_initialized(db) => RexRun(db, run)
      /\ ~ rex_system_initialized(db) => run = db
  <2>1. CASE rex_system_initialized(db)
    <3>1. run = runrex(db, 2)
      BY <2>1
    <3>2. Leads(db, run, 0, t) /\ RexRun(db, run) /\ AllCovered(run)
      BY <1>3, <3>1, RunLeads
    <3> QED
      BY <2>1, <3>2 DEF Leads
  <2>2. CASE ~ rex_system_initialized(db)
    <3>1. run = db
      BY <2>2
    <3>2. Leads(db, run, 0, t)
      BY <1>1, <3>1, KeepsSame DEF Leads
    <3> QED
      BY <1>1, <2>2, <3>1, <3>2
  <2> QED
    BY <2>1, <2>2
<1>5. Leads(run, c, 0, t) /\ Quiet(run, c) /\ AllCovered(c) /\ Good(c, t)
  BY <1>4, FilledCollected DEF Leads
<1>6. Leads(c, e, 0, t) /\ Quiet(c, e) /\ AllCovered(e)
  BY <1>5, ClosedLeads
<1>7. Leads(db, e, 0, t)
  <2>1. PICK z \in Int : z = 0 /\ z = z + z
    OBVIOUS
  <2>2. Leads(db, run, z, t) /\ Leads(run, c, z, t) /\ Leads(c, e, z, t)
    BY <1>4, <1>5, <1>6, <2>1
  <2>3. Leads(db, c, z, t)
    BY <1>1, <2>1, <2>2, LeadsOn
  <2>4. Leads(db, e, z, t)
    BY <1>1, <2>1, <2>2, <2>3, LeadsOn
  <2> QED
    BY <2>1, <2>4
<1>8. Quiet(run, e)
  BY <1>5, <1>6 DEF Quiet
<1>9. CASE rex_system_initialized(db)
  BY <1>4, <1>6, <1>7, <1>8, <1>9, StepsRun
<1>10. CASE ~ rex_system_initialized(db)
  BY <1>1, <1>4, <1>6, <1>7, <1>8, <1>10, StepsQuiet
<1> QED
  BY <1>9, <1>10

\* What sellrex does after its first checks.
Selling(db, owner, t, rex, run, matured, current, updated, e) ==
  /\ run = runrex(db, 2)
  /\ matured = RowSet(run, owner, process_rex_maturities(run.bal[owner], t))
  /\ current = fill_rex_order(matured, owner, rex)
  /\ updated = update_rex_account(current.db, owner, current.proceeds, current.stake_change, FALSE)
  /\ e = IF current.success THEN updated
         ELSE OrderSet(updated, owner, OrderWith(updated.order[owner], rex))
  /\ rex <= matured.bal[owner].matured_rex
  /\ RexInSellOrder(e, owner) <= e.bal[owner].matured_rex
  /\ e.ok

\* What fill_rex_order returns: the tables as they were, unless it sold.
LEMMA FillReturns ==
  ASSUME NEW db, HasOk(db), NEW owner, NEW rex, NEW r, r = fill_rex_order(db, owner, rex)
  PROVE  /\ HasOk(r.db) /\ r.db.ok = db.ok
         /\ ~ r.success => r.db = db /\ r.proceeds = 0 /\ r.stake_change = 0
<1>1. CASE CanFill(db.pool, rex)
  BY <1>1 DEF fill_rex_order, HasOk
<1>2. CASE ~ CanFill(db.pool, rex)
  BY <1>2 DEF fill_rex_order, HasOk
<1> QED
  BY <1>1, <1>2

\* The checks of a sale were all passed.
LEMMA SellingCarries ==
  ASSUME NEW db, NEW owner, NEW t, NEW rex, NEW run, NEW matured, NEW current, NEW updated, NEW e,
         Selling(db, owner, t, rex, run, matured, current, updated, e), HasOk(run)
  PROVE  run.ok /\ matured.ok /\ updated.ok
<1>1. HasOk(matured) /\ matured.ok = run.ok
  <2>1. matured = RowSet(run, owner, process_rex_maturities(run.bal[owner], t))
    BY Zenon DEF Selling
  <2> QED
    BY <2>1 DEF RowSet, HasOk
<1>2. HasOk(current.db) /\ current.db.ok = matured.ok
  <2>1. current = fill_rex_order(matured, owner, rex)
    BY Zenon DEF Selling
  <2> QED
    BY <1>1, <2>1, FillReturns
<1>3. PICK x, y : x = current.proceeds /\ y = current.stake_change
  OBVIOUS
<1>4. PICK force \in BOOLEAN : force = FALSE
  BY Zenon
<1>5. updated = update_rex_account(current.db, owner, x, y, force)
  BY <1>3, <1>4, Zenon DEF Selling
<1>6. HasOk(updated) /\ (updated.ok => current.db.ok)
  BY <1>2, <1>5, AccountCarries DEF Carries, HasOk
<1>7. e.ok = updated.ok
  <2>1. e = IF current.success THEN updated
            ELSE OrderSet(updated, owner, OrderWith(updated.order[owner], rex))
    BY Zenon DEF Selling
  <2>2. HasOk(updated) => OrderSet(updated, owner, OrderWith(updated.order[owner], rex)).ok = updated.ok
    BY DEF OrderSet, HasOk
  <2> QED
    BY <1>6, <2>1, <2>2, Zenon
<1>8. e.ok
  BY Zenon DEF Selling
<1> QED
  BY <1>1, <1>2, <1>6, <1>7, <1>8

\* What the order of an owner becomes, that cannot be filled now.
LEMMA OrderQueued ==
  ASSUME now \in Nat, NEW db \in Db, NEW owner \in Accounts, ~ IsFilled(db, owner),
         NEW rex \in Int, NEW row, row = OrderWith(db.order[owner], rex)
  PROVE  /\ row \in RexOrder /\ row.is_open
         /\ row.rex_requested = rex + RexInSellOrder(db, owner)
         /\ row.order_time = IF IsOpen(db, owner) THEN db.order[owner].order_time ELSE now
<1>1. db.order[owner] \in RexOrder \cup {NoRow}
  BY DbFields
<1>2. CASE db.order[owner] = NoRow
  <2>1. row = [rex_requested |-> rex, proceeds |-> 0, stake_change |-> 0,
               order_time |-> now, is_open |-> TRUE]
    BY <1>2 DEF OrderWith
  <2>2. RexInSellOrder(db, owner) = 0 /\ ~ IsOpen(db, owner)
    BY <1>2 DEF RexInSellOrder, IsOpen
  <2> QED
    BY <2>1, <2>2 DEF RexOrder
<1>3. CASE db.order[owner] # NoRow
  <2>1. PICK old \in RexOrder : old = db.order[owner] /\ old.is_open
    BY <1>1, <1>3 DEF IsFilled
  <2>2. PICK n \in Int : n = old.rex_requested + rex
    BY DEF RexOrder
  <2>3. row = [old EXCEPT !.rex_requested = n]
    BY <1>3, <2>1, <2>2 DEF OrderWith
  <2>4. row \in RexOrder /\ row.is_open /\ row.rex_requested = n
        /\ row.order_time = old.order_time
    BY <2>1, <2>3 DEF RexOrder
  <2>5. RexInSellOrder(db, owner) = old.rex_requested /\ IsOpen(db, owner)
    BY <1>3, <2>1 DEF RexInSellOrder, IsOpen
  <2>6. old.rex_requested \in Int
    BY DEF RexOrder
  <2> QED
    BY <2>1, <2>2, <2>4, <2>5, <2>6
<1> QED
  BY <1>2, <1>3

\* A sale at once: the proceeds, and those of an order filled before, are claims.
LEMMA SoldLeads ==
  ASSUME NEW t \in Nat, NEW db, Good(db, t), AllCovered(db), NEW owner \in Accounts,
         db.bal[owner] # NoRow, NEW rex \in Int, 0 < rex, rex <= db.bal[owner].matured_rex,
         db.pool # NoRow, PoolOf(db).namebid_proceeds <= 0,
         NEW r, r = fill_rex_order(db, owner, rex), r.success,
         NEW e, e = update_rex_account(r.db, owner, r.proceeds, r.stake_change, FALSE), e.ok,
         RexInSellOrder(e, owner) <= e.bal[owner].matured_rex
  PROVE  Leads(db, e, 0, t) /\ Quiet(db, e) /\ AllCovered(e)
<1>1. PICK d : d = r.db
  OBVIOUS
<1>2. /\ Good(d, t) /\ Keeps(db, d, r.proceeds) /\ StaysEmpty(db, d)
      /\ r.proceeds \in Nat /\ r.stake_change \in Int
      /\ SaleOnly(db, d, owner)
  BY <1>1, FillKeeps
<1>3. PICK x \in Int, y \in Int, z \in Int : x = r.proceeds /\ y = r.stake_change /\ z = - x /\ x >= 0
  BY <1>2
<1>4. PICK force \in BOOLEAN : force = FALSE
  BY Zenon
<1>5. e = update_rex_account(d, owner, x, y, force)
  BY <1>1, <1>3, <1>4, Zenon
<1>6. d \in Db /\ ProceedsGood(d)
  BY <1>2 DEF Good
<1>7. Apart(d, e, - x) /\ Collected(d, e, owner)
  BY <1>3, <1>5, <1>6, AccountUpdated
<1>8. Leads(d, e, z, t) /\ Quiet(d, e)
  <2>1. Apart(d, e, z)
    BY <1>3, <1>7
  <2> QED
    BY <1>2, <2>1, LeadsApart
<1>9. Leads(db, d, x, t)
  BY <1>2, <1>3 DEF Leads
<1>10. Leads(db, e, 0, t)
  <2>1. PICK o \in Int : o = 0 /\ o = x + z
    BY <1>3
  <2>2. Leads(db, e, o, t)
    BY <1>8, <1>9, <2>1, LeadsOn
  <2> QED
    BY <2>1, <2>2
<1>11. Quiet(db, e)
  BY <1>2, <1>8 DEF SaleOnly, Quiet
<1>12. /\ e.bal = d.bal /\ e.bal[owner] # NoRow
       /\ \A a \in Accounts \ {owner} : e.bal[a] = db.bal[a]
  BY <1>2, <1>7 DEF SaleOnly, Collected, SameRest
<1>13. ASSUME NEW a \in Accounts, IsOpen(e, a)
       PROVE  /\ e.bal[a] # NoRow /\ 0 < e.order[a].rex_requested
              /\ e.order[a].rex_requested <= e.bal[a].matured_rex
  <2>1. e.order[a] = db.order[a] /\ IsOpen(db, a)
    BY <1>2, <1>7, <1>13 DEF SaleOnly, Collected, IsOpen
  <2>2. /\ db.bal[a] # NoRow /\ 0 < db.order[a].rex_requested
        /\ db.order[a].rex_requested <= db.bal[a].matured_rex
    BY <2>1 DEF AllCovered, Covers
  <2>3. CASE a = owner
    BY <1>12, <1>13, <2>1, <2>2, <2>3 DEF RexInSellOrder
  <2>4. CASE a # owner
    BY <1>12, <2>1, <2>2, <2>4
  <2> QED
    BY <2>3, <2>4
<1> QED
  BY <1>10, <1>11, <1>13 DEF AllCovered, Covers

\* A sale that must wait.
LEMMA QueuedLeads ==
  ASSUME NEW t, IsNow(t), NEW db, Good(db, t), AllCovered(db), NEW owner \in Accounts,
         db.bal[owner] # NoRow, ~ IsFilled(db, owner), NEW rex \in Int, 0 < rex,
         NEW e, e = OrderSet(db, owner, OrderWith(db.order[owner], rex)),
         RexInSellOrder(e, owner) <= e.bal[owner].matured_rex
  PROVE  Leads(db, e, 0, t) /\ Quiet(db, e) /\ AllCovered(e)
<1>1. db \in Db /\ ProceedsGood(db)
  BY DEF Good
<1>2. PICK row : row = OrderWith(db.order[owner], rex)
  OBVIOUS
<1>3. /\ row \in RexOrder /\ row.is_open /\ row.rex_requested = rex + RexInSellOrder(db, owner)
      /\ row.order_time = IF IsOpen(db, owner) THEN db.order[owner].order_time ELSE t
  BY <1>1, <1>2, OrderQueued DEF IsNow
<1>4. PICK x \in Nat, z \in Int : x = 0 /\ z = - x /\ z = 0
  OBVIOUS
<1>5. e = OrderSet(db, owner, row)
  BY <1>2
<1>6. /\ Aside(db, e, - x) /\ SameRest(db, e) /\ e.order[owner] = row /\ e.fund = db.fund
      /\ \A a \in Accounts \ {owner} : e.order[a] = db.order[a]
  <2>1. x = IF row.is_open THEN 0 ELSE row.proceeds
    BY <1>3, <1>4
  <2> QED
    BY <1>1, <1>3, <1>5, <2>1, OrderChanged
<1>11. Timely(e, t)
  <2>1. ASSUME NEW i \in LoanIds, db.loan[i] # NoRow, NEW a \in Accounts, IsOpen(e, a)
        PROVE  db.loan[i].expiration <= e.order[a].order_time + LoanTerm
    <3>1. /\ db.loan[i].expiration <= t + LoanTerm
          /\ IsOpen(db, a) => db.loan[i].expiration <= db.order[a].order_time + LoanTerm
      BY <2>1 DEF Good, Timely, TimelyLoan
    <3>2. CASE a = owner
      BY <1>3, <1>6, <3>1, <3>2
    <3>3. CASE a # owner
      BY <1>6, <2>1, <3>1, <3>3 DEF IsOpen
    <3> QED
      BY <3>2, <3>3
  <2>2. \A i \in LoanIds : TimelyLoan(db, i, t)
    BY DEF Good, Timely
  <2> QED
    BY <1>6, <2>1, <2>2 DEF Timely, TimelyLoan, SameRest
<1>7. Leads(db, e, z, t) /\ Quiet(db, e)
  <2>1. Aside(db, e, z)
    BY <1>4, <1>6
  <2>2. Good(e, t) /\ Keeps(db, e, z) /\ StaysEmpty(db, e)
    BY <1>4, <1>11, <2>1, AsideKeeps
  <2> QED
    BY <1>6, <2>2 DEF Leads, Quiet, SameRest, PoolOf
<1>8. row # NoRow
  BY <1>3, NoRowIsNone
<1>9. row.rex_requested > 0
  <2>1. RexInSellOrder(db, owner) \in Nat
    BY ForSale
  <2> QED
    BY <1>3, <2>1
<1>10. ASSUME NEW a \in Accounts, IsOpen(e, a)
       PROVE  /\ e.bal[a] # NoRow /\ 0 < e.order[a].rex_requested
              /\ e.order[a].rex_requested <= e.bal[a].matured_rex
  <2>1. CASE a = owner
    <3>1. RexInSellOrder(e, owner) = row.rex_requested
      BY <1>6, <1>10, <2>1 DEF RexInSellOrder
    <3> QED
      BY <1>3, <1>6, <1>9, <2>1, <3>1 DEF SameRest, RexOrder
  <2>2. CASE a # owner
    BY <1>6, <1>10, <2>2 DEF AllCovered, Covers, IsOpen, SameRest
  <2> QED
    BY <2>1, <2>2
<1> QED
  BY <1>4, <1>7, <1>10 DEF AllCovered, Covers

\* sellrex: at once, or queued.
LEMMA SellrexSteps ==
  ASSUME NEW t \in 0 .. MaxTime, now \in Nat, NEW db, Sound(db, t), NEW owner \in Accounts,
         db.bal[owner] # NoRow, NEW rex \in Int, 0 < rex,
         NEW run, NEW matured, NEW current, NEW updated, NEW e,
         Selling(db, owner, t, rex, run, matured, current, updated, e)
  PROVE  Steps(db, e, t)
<1>1. Good(db, t) /\ HasOk(db) /\ t \in Nat
  BY DbHasOk DEF Sound, Good
<1>2. run = runrex(db, 2) /\ HasOk(run)
  <2>1. run = runrex(db, 2)
    BY Zenon DEF Selling
  <2> QED
    BY <1>1, <2>1, RunCarries
<1>3. run.ok /\ matured.ok /\ updated.ok /\ e.ok
  <2>1. run.ok /\ matured.ok /\ updated.ok
    BY <1>2, SellingCarries
  <2>2. e.ok
    BY Zenon DEF Selling
  <2> QED
    BY <2>1, <2>2
<1>4. /\ Leads(db, run, 0, t) /\ RexRun(db, run) /\ AllCovered(run) /\ Good(run, t)
      /\ run.bal[owner] # NoRow /\ RowGood(run.bal[owner], t)
  BY <1>2, <1>3, Begun
<1>5. PICK old : old = run.bal[owner]
  OBVIOUS
<1>6. PICK row : row = process_rex_maturities(old, t)
  OBVIOUS
<1>7. RowGood(row, t) /\ row.rex_balance = old.rex_balance /\ row.matured_rex >= old.matured_rex
  BY <1>4, <1>5, <1>6, RowProcessed
<1>8. IsOpen(run, owner) => run.order[owner].rex_requested <= row.matured_rex
  <2> SUFFICES ASSUME IsOpen(run, owner)
               PROVE  run.order[owner].rex_requested <= row.matured_rex
    OBVIOUS
  <2>1. run.order[owner].rex_requested <= old.matured_rex
    BY <1>4, <1>5 DEF AllCovered, Covers
  <2>2. run.order[owner].rex_requested \in Int /\ row.matured_rex \in Int /\ old.matured_rex \in Int
    BY <1>4, <1>5, <1>7, DbFields DEF Good, IsOpen, RexOrder, RowGood, RexBalance
  <2> QED
    BY <1>7, <2>1, <2>2
<1>9. /\ Leads(run, matured, 0, t) /\ Quiet(run, matured) /\ AllCovered(matured) /\ Good(matured, t)
      /\ matured.bal[owner] = row /\ Rerowed(run, matured, owner)
  <2>1. matured = RowSet(run, owner, row)
    BY <1>5, <1>6 DEF Selling
  <2> QED
    BY <1>4, <1>5, <1>7, <1>8, <2>1, RowLeads DEF Leads
<1>10. /\ matured.bal[owner] # NoRow /\ matured.pool # NoRow
       /\ PoolOf(matured).namebid_proceeds <= 0
  BY <1>4, <1>9 DEF Rerowed, RexRun, PoolOf
<1>11. /\ current = fill_rex_order(matured, owner, rex)
       /\ updated = update_rex_account(current.db, owner, current.proceeds, current.stake_change, FALSE)
       /\ rex <= matured.bal[owner].matured_rex
       /\ RexInSellOrder(e, owner) <= e.bal[owner].matured_rex
       /\ current.success => e = updated
       /\ ~ current.success => e = OrderSet(updated, owner, OrderWith(updated.order[owner], rex))
  BY Zenon DEF Selling
<1>12. CASE current.success
  <2>1. e = updated
    BY <1>11, <1>12
  <2>2. Leads(matured, e, 0, t) /\ Quiet(matured, e) /\ AllCovered(e)
    <3>1. /\ e = update_rex_account(current.db, owner, current.proceeds, current.stake_change, FALSE)
          /\ current = fill_rex_order(matured, owner, rex) /\ rex <= matured.bal[owner].matured_rex
          /\ RexInSellOrder(e, owner) <= e.bal[owner].matured_rex
      BY <1>11, <2>1, Zenon
    <3> QED
      BY <1>1, <1>3, <1>9, <1>10, <1>12, <3>1, SoldLeads, Zenon
  <2>3. PICK z \in Int : z = 0 /\ z = z + z
    OBVIOUS
  <2>4. Leads(db, run, z, t) /\ Leads(run, matured, z, t) /\ Leads(matured, e, z, t)
    BY <1>4, <1>9, <2>2, <2>3
  <2>5. Leads(db, matured, z, t)
    BY <1>1, <2>3, <2>4, LeadsOn
  <2>6. Leads(db, e, z, t)
    BY <1>1, <2>3, <2>4, <2>5, LeadsOn
  <2>7. Leads(db, e, 0, t) /\ Quiet(run, e)
    BY <1>9, <2>2, <2>3, <2>6 DEF Quiet
  <2> QED
    BY <1>1, <1>4, <2>2, <2>7, StepsRun
<1>13. CASE ~ current.success
  <2>1. HasOk(matured)
    BY <1>9, DbHasOk DEF Good
  <2>2. current.db = matured /\ current.proceeds = 0 /\ current.stake_change = 0
    BY <1>11, <1>13, <2>1, FillReturns
  <2>3. updated = CollectFilled(matured, owner)
    BY <1>11, <2>2, Zenon DEF CollectFilled
  <2>4. /\ Leads(matured, updated, 0, t) /\ Quiet(matured, updated) /\ AllCovered(updated)
        /\ Collected(matured, updated, owner) /\ Good(updated, t)
    BY <1>3, <1>9, <2>3, FilledCollected DEF Leads
  <2>5. ~ IsFilled(updated, owner) /\ updated.bal[owner] # NoRow
    BY <1>10, <2>4 DEF Collected, SameRest, IsFilled
  <2>6. e = OrderSet(updated, owner, OrderWith(updated.order[owner], rex))
    BY <1>11, <1>13
  <2>7. Leads(updated, e, 0, t) /\ Quiet(updated, e) /\ AllCovered(e)
    BY <1>1, <1>11, <2>4, <2>5, <2>6, QueuedLeads, Zenon DEF Sound
  <2>8. PICK z \in Int : z = 0 /\ z = z + z
    OBVIOUS
  <2>9. Leads(db, run, z, t) /\ Leads(run, matured, z, t) /\ Leads(matured, updated, z, t)
        /\ Leads(updated, e, z, t)
    BY <1>4, <1>9, <2>4, <2>7, <2>8
  <2>10. Leads(db, matured, z, t)
    BY <1>1, <2>8, <2>9, LeadsOn
  <2>11. Leads(db, updated, z, t)
    BY <1>1, <2>8, <2>9, <2>10, LeadsOn
  <2>12. Leads(db, e, z, t)
    BY <1>1, <2>8, <2>9, <2>11, LeadsOn
  <2>13. Leads(db, e, 0, t) /\ Quiet(run, e)
    BY <1>9, <2>4, <2>7, <2>8, <2>12 DEF Quiet
  <2> QED
    BY <1>1, <1>4, <2>7, <2>13, StepsRun
<1> QED
  BY <1>12, <1>13

\* The row of a buyer that counts its x new shares before it has put them anywhere.
BuyerRow(old, payment, q, x) ==
  IF old = NoRow
  THEN [vote_stake |-> payment, rex_balance |-> x, matured_rex |-> 0, rex_maturities |-> << >>]
  ELSE [old EXCEPT !.rex_balance = @ + x, !.vote_stake = Value(q, old.rex_balance + x)]

\* Such a row has x shares to put into a bucket.
LEMMA BuyerRowUnplaced ==
  ASSUME NEW t \in Nat, NEW old, old = NoRow \/ RowGood(old, t), NEW payment \in Int,
         NEW q, PoolOK(q), q.total_rex > 0, NEW x \in Nat,
         NEW row, row = BuyerRow(old, payment, q, x)
  PROVE  /\ Unplaced(row, t, x) /\ row.vote_stake \in Int
         /\ row.rex_balance = (IF old = NoRow THEN 0 ELSE old.rex_balance) + x
         /\ old # NoRow => row.matured_rex = old.matured_rex
<1>1. CASE old = NoRow
  <2>1. row = [vote_stake |-> payment, rex_balance |-> x, matured_rex |-> 0, rex_maturities |-> << >>]
    BY <1>1 DEF BuyerRow
  <2>2. /\ row \in RexBalance /\ row.matured_rex = 0 /\ row.rex_balance = x
        /\ row.vote_stake = payment /\ row.rex_maturities = << >>
    BY <2>1 DEF RexBalance
  <2>3. BucketsIn(row.rex_maturities, UpTo(t) \cup {EndOfDays}) /\ InBuckets(row.rex_maturities) = 0
    BY <2>2, NoBuckets
  <2>4. row.rex_balance = row.matured_rex + InBuckets(row.rex_maturities) + x
    BY <2>2, <2>3
  <2> QED
    BY <1>1, <2>2, <2>3, <2>4 DEF Unplaced
<1>2. CASE old # NoRow
  <2>1. RowGood(old, t) /\ old \in RexBalance /\ old.rex_balance \in Int /\ old.matured_rex \in Int
    BY <1>2 DEF RowGood, RexBalance
  <2>2. PICK n \in Int : n = old.rex_balance + x
    BY <2>1
  <2>3. PICK v \in Int : v = Value(q, n)
    BY <2>2, ValueIsInt
  <2>4. row = [old EXCEPT !.rex_balance = n, !.vote_stake = v]
    BY <1>2, <2>2, <2>3 DEF BuyerRow
  <2>5. /\ row \in RexBalance /\ row.matured_rex = old.matured_rex /\ row.rex_balance = n
        /\ row.vote_stake = v /\ row.rex_maturities = old.rex_maturities
    BY <2>1, <2>4 DEF RexBalance
  <2>6. InBuckets(old.rex_maturities) \in Int
    BY <2>1, InBucketsIsSum DEF RexBalance
  <2>7. /\ old.matured_rex >= 0 /\ BucketsIn(old.rex_maturities, UpTo(t) \cup {EndOfDays})
        /\ old.rex_balance = old.matured_rex + InBuckets(old.rex_maturities)
    BY <2>1 DEF RowGood
  <2>8. row.rex_balance = row.matured_rex + InBuckets(row.rex_maturities) + x
    BY <2>1, <2>2, <2>5, <2>6, <2>7
  <2> QED
    BY <1>2, <2>2, <2>5, <2>7, <2>8 DEF Unplaced
<1> QED
  BY <1>1, <1>2

\* What BuyShares reads and computes.
Buying(db, owner, payment, r, p, q, x, old, row, next) ==
  /\ r = BuyShares(db, owner, payment)
  /\ p = PoolOf(db)
  /\ q = AddedTo(p, payment)
  /\ x = q.total_rex - p.total_rex
  /\ old = db.bal[owner]
  /\ row = BuyerRow(old, payment, q, x)
  /\ next = WithBought(row, now, x)

Purchased(db, owner, q, next) == [db EXCEPT !.pool = q, !.bal[owner] = next]

\* What a purchase puts into the tables.
LEMMA BuyPuts ==
  ASSUME NEW db \in Db, NEW owner, NEW payment, NEW r, r.db.ok,
         NEW p, NEW q, NEW x, NEW old, NEW row, NEW next,
         Buying(db, owner, payment, r, p, q, x, old, row, next)
  PROVE  /\ r.db = Purchased(db, owner, q, next) /\ db.ok
         /\ r.delta = row.vote_stake - (IF old = NoRow THEN 0 ELSE old.vote_stake)
<1>1. /\ r.db = [Require(db, CanAddTo(p)) EXCEPT !.pool = q, !.bal[owner] = next]
      /\ r.delta = row.vote_stake - (IF old = NoRow THEN 0 ELSE old.vote_stake)
  BY DEF BuyShares, BuyerRow, Buying
<1>2. PICK can : can = CanAddTo(p)
  OBVIOUS
<1>3. PICK m : m = Require(db, can)
  OBVIOUS
<1>4. r.db = [m EXCEPT !.pool = q, !.bal[owner] = next]
  BY <1>1, <1>2, <1>3
<1>5. HasOk(m)
  BY <1>3, DbHasOk, HelpersCarry DEF Carries, HasOk
<1>6. r.db.ok = m.ok
  BY <1>4, <1>5 DEF HasOk
<1>7. db.ok /\ can
  BY <1>3, <1>6 DEF Require, Db
<1>8. m = db
  BY <1>3, <1>7 DEF Require, Db
<1> QED
  BY <1>1, <1>4, <1>7, <1>8 DEF Purchased

\* What a purchase does not touch.
PurchaseOnly(db, d, owner) ==
  /\ d.tokens = db.tokens /\ d.userres = db.userres /\ d.loan = db.loan
  /\ d.fund = db.fund /\ d.order = db.order /\ d.voters = db.voters
  /\ db.ok /\ d.pool # NoRow
  /\ \A a \in Accounts \ {owner} : d.bal[a] = db.bal[a]
  /\ d.bal[owner] # NoRow
  /\ PoolOf(d).total_lent = PoolOf(db).total_lent

\* add_to_rex_pool and add_to_rex_balance: the buyer, who votes, gets what the
\* pool gets more in shares, rounded in favor of the others.
LEMMA BuyKeeps ==
  ASSUME now \in 0 .. MaxTime, NEW db, Good(db, now), AllCovered(db), NEW owner \in Accounts,
         Voting(db, owner), NEW payment \in Nat, payment > 0,
         NEW r, r = BuyShares(db, owner, payment), NEW d, d = r.db, d.ok
  PROVE  /\ Good(d, now) /\ Keeps(db, d, - payment) /\ AllCovered(d)
         /\ PurchaseOnly(db, d, owner) /\ r.delta \in Int
<1>1. /\ db \in Db /\ PoolOK(PoolOf(db)) /\ now \in Nat
      /\ db.bal[owner] = NoRow \/ RowGood(db.bal[owner], now)
  BY StakingAssumption DEF Good, PoolGood, RowsGood, StakingAssumption
<1>2. PICK p : p = PoolOf(db)
  OBVIOUS
<1>3. PICK q : q = AddedTo(p, payment)
  OBVIOUS
<1>4. PICK x \in Nat : x = q.total_rex - p.total_rex /\ PoolMoves(p, q, payment, 0, x, 0)
  BY <1>1, <1>2, <1>3, BoughtMoves
<1>5. PoolOK(p) /\ PoolOK(q) /\ NotCheaper(p, q)
  BY <1>1, <1>2, <1>3, BuyingKeepsPool
<1>6. /\ q.total_lendable = p.total_lendable + payment /\ q.total_lent = p.total_lent
      /\ q.total_rex = p.total_rex + x /\ q.loan_num = p.loan_num
      /\ q.namebid_proceeds = p.namebid_proceeds /\ q \in Pool
      /\ p.total_lendable \in Int /\ p.total_lent \in Int /\ p.total_rex \in Int /\ p.loan_num \in Int
  <2>1. p.total_lendable \in Int /\ p.total_lent \in Int /\ p.total_rex \in Int /\ p.loan_num \in Int
    BY <1>5, PoolFields DEF PoolOK
  <2>2. /\ q.total_lendable = p.total_lendable + payment /\ q.total_lent = p.total_lent + 0
        /\ q.total_rex = p.total_rex + x /\ q.loan_num = p.loan_num + 0
        /\ q.namebid_proceeds = p.namebid_proceeds /\ q \in Pool
    BY <1>4 DEF PoolMoves
  <2> QED
    BY <2>1, <2>2
<1>7. q.total_rex > 0 /\ p.total_rex >= 0
  <2>1. /\ p.total_lendable = p.total_unlent + p.total_lent /\ p.total_unlent >= 0 /\ p.total_lent >= 0
        /\ p.total_unlent \in Int /\ p.total_rex >= 0
    BY <1>5, PoolFields DEF PoolOK
  <2>2. q.total_lendable > 0
    BY <1>6, <2>1
  <2>3. q.total_rex \in Int /\ q.total_rex >= 0 /\ (q.total_rex = 0 <=> q.total_lendable = 0)
    BY <1>5, PoolFields DEF PoolOK
  <2> QED
    BY <2>1, <2>2, <2>3
<1>8. PICK old : old = db.bal[owner]
  OBVIOUS
<1>9. PICK row : row = BuyerRow(old, payment, q, x)
  OBVIOUS
<1>10. /\ Unplaced(row, now, x) /\ row.vote_stake \in Int
       /\ row.rex_balance = (IF old = NoRow THEN 0 ELSE old.rex_balance) + x
       /\ old # NoRow => row.matured_rex = old.matured_rex
  BY <1>1, <1>5, <1>7, <1>8, <1>9, BuyerRowUnplaced
<1>11. PICK next : next = WithBought(row, now, x)
  OBVIOUS
<1>12. /\ RowGood(next, now) /\ next.rex_balance = row.rex_balance
       /\ next.matured_rex >= row.matured_rex /\ next \in RexBalance
  <2>1. /\ RowGood(next, now) /\ next.rex_balance = row.rex_balance
        /\ next.matured_rex >= row.matured_rex
    BY <1>10, <1>11, BoughtKeepsRow
  <2> QED
    BY <2>1 DEF RowGood
<1>13. /\ d = Purchased(db, owner, q, next) /\ db.ok
       /\ r.delta = row.vote_stake - (IF old = NoRow THEN 0 ELSE old.vote_stake)
  <2>1. r.db.ok /\ Buying(db, owner, payment, r, p, q, x, old, row, next)
    BY <1>2, <1>3, <1>4, <1>8, <1>9, <1>11, Zenon DEF Buying
  <2>2. /\ r.db = Purchased(db, owner, q, next) /\ db.ok
        /\ r.delta = row.vote_stake - (IF old = NoRow THEN 0 ELSE old.vote_stake)
    BY <1>1, <2>1, BuyPuts, Zenon
  <2> QED
    BY <2>2, Zenon
<1>14. /\ d.tokens = db.tokens /\ d.userres = db.userres /\ d.loan = db.loan
       /\ d.fund = db.fund /\ d.order = db.order /\ d.voters = db.voters
       /\ d.pool = q /\ d.bal = [db.bal EXCEPT ![owner] = next] /\ d.ok = db.ok
  BY <1>1, <1>13 DEF Db, Purchased
<1>15. q # NoRow /\ next # NoRow /\ PoolOf(d) = q
  BY <1>6, <1>12, <1>14, NoRowIsNone DEF PoolOf
<1>16. /\ d.bal \in [Accounts -> RexBalance \cup {NoRow}] /\ d.bal[owner] = next
       /\ \A a \in Accounts \ {owner} : d.bal[a] = db.bal[a]
  BY <1>1, <1>12, <1>14, DbFields
<1>17. d \in Db
  <2>1. PICK b : b = [db.bal EXCEPT ![owner] = next]
    OBVIOUS
  <2>2. b \in [Accounts -> RexBalance \cup {NoRow}]
    BY <1>14, <1>16, <2>1
  <2>3. PICK e : e = [db EXCEPT !.pool = q]
    OBVIOUS
  <2>4. d = [e EXCEPT !.bal = b]
    BY <1>1, <1>13, <2>1, <2>3 DEF Db, Purchased
  <2>5. e \in Db
    BY <1>1, <1>6, <2>3 DEF Db
  <2> QED
    BY <2>2, <2>4, <2>5 DEF Db
<1>18. SharesOut(d) = SharesOut(db) + x
  <2>1. SharesOut(d) = SharesOut(db) + (SharesOf(d, owner) - SharesOf(db, owner))
    BY <1>1, <1>16, <1>17, SharesChange
  <2>2. SharesOf(d, owner) = SharesOf(db, owner) + x
    BY <1>8, <1>10, <1>12, <1>15, <1>16 DEF SharesOf
  <2>3. SharesOut(db) \in Int /\ SharesOf(db, owner) \in Int
    BY <1>1, SumsAreInts, EntriesAreInts
  <2> QED
    BY <2>1, <2>2, <2>3
<1>19. /\ Claims(d) = Claims(db) /\ LoanFunds(d) = LoanFunds(db) /\ LoanStakes(d) = LoanStakes(db)
       /\ \A a \in Accounts : \A k \in Resource : LentTo(d, a, k) = LentTo(db, a, k)
  BY <1>14 DEF Claims, FundOf, IsFilled, LoanFunds, LoanStakes, LentTo
<1>20. Good(d, now)
  <2>1. PoolGood(d)
    BY <1>2, <1>5, <1>6, <1>15, <1>18, <1>19 DEF Good, PoolGood
  <2>2. RowsGood(d, now)
    BY <1>12, <1>16 DEF Good, RowsGood
  <2>3. \A i \in LoanIds : LoanGood(d, i)
    BY <1>2, <1>6, <1>14, <1>15 DEF Good, LoanGood
  <2>4. ProceedsGood(d)
    BY <1>14 DEF Good, ProceedsGood, IsFilled
  <2>5. Timely(d, now)
    BY <1>1, <1>14, SameStay, TimelyStays DEF Good
  <2> QED
    BY <1>17, <2>1, <2>2, <2>3, <2>4, <2>5 DEF Good
<1>21. Surplus(d) = Surplus(db) + (- payment)
  <2>1. PICK tk \in Int, c \in Int, f \in Int, l \in Int :
          tk = db.tokens[RexAccount] /\ c = Claims(db) /\ f = LoanFunds(db) /\ l = p.total_lendable
    BY <1>1, <1>6, SurplusIsInt, SumsAreInts
  <2>2. Surplus(db) = tk - (c + f + l) /\ Surplus(d) = tk - (c + f + (l + payment))
    BY <1>2, <1>6, <1>14, <1>15, <1>19, <2>1 DEF Surplus
  <2> QED
    BY <2>2
<1>22. \A a \in Accounts : \A k \in Resource : Unlent(d, a, k) = Unlent(db, a, k)
  BY <1>14, <1>19 DEF Unlent
<1>23. VotesOK(db) => VotesOK(d)
  <2>1. \A a \in Accounts : Voting(d, a) = Voting(db, a)
    BY <1>14 DEF Voting
  <2> QED
    BY <1>16, <2>1 DEF VotesOK, Holding
<1>24. NamesOK(db) => NamesOK(d)
  BY <1>2, <1>7, <1>6, <1>14, <1>15 DEF NamesOK
<1>25. Keeps(db, d, - payment)
  BY <1>2, <1>5, <1>14, <1>15, <1>21, <1>22, <1>23, <1>24 DEF Keeps
<1>26. PurchaseOnly(db, d, owner)
  BY <1>2, <1>6, <1>13, <1>14, <1>15, <1>16 DEF PurchaseOnly
<1>27. ASSUME NEW a \in Accounts, IsOpen(d, a)
       PROVE  /\ d.bal[a] # NoRow /\ 0 < d.order[a].rex_requested
              /\ d.order[a].rex_requested <= d.bal[a].matured_rex
  <2>1. /\ IsOpen(db, a) /\ d.order[a] = db.order[a] /\ db.bal[a] # NoRow
        /\ 0 < db.order[a].rex_requested /\ db.order[a].rex_requested <= db.bal[a].matured_rex
    BY <1>14, <1>27 DEF AllCovered, Covers, IsOpen
  <2>2. CASE a = owner
    <3>1. db.order[a].rex_requested \in Int
      BY <1>1, <2>1, DbFields DEF IsOpen, RexOrder
    <3>2. old.matured_rex \in Int /\ next.matured_rex \in Int /\ next.matured_rex >= old.matured_rex
      BY <1>1, <1>8, <1>10, <1>12, <2>1, <2>2 DEF RowGood, RexBalance
    <3> QED
      BY <1>8, <1>15, <1>16, <2>1, <2>2, <3>1, <3>2
  <2>3. CASE a # owner
    BY <1>16, <2>1, <2>3
  <2> QED
    BY <2>2, <2>3
<1>28. r.delta \in Int
  <2>1. old # NoRow => old.vote_stake \in Int
    BY <1>1, <1>8 DEF RowGood, RexBalance
  <2> QED
    BY <1>10, <1>13, <2>1
<1> QED
  BY <1>20, <1>25, <1>26, <1>27, <1>28 DEF AllCovered, Covers

\* A purchase, maintenance, and the buyer's account brought up to date.
Purchase(m, owner, amount, delta, force, r, run, e) ==
  /\ r = BuyShares(m, owner, amount)
  /\ run = runrex(r.db, 2)
  /\ e = update_rex_account(run, owner, 0, delta, force)
  /\ e.ok

\* The checks of a purchase were all passed.
LEMMA PurchaseCarries ==
  ASSUME NEW m, HasOk(m), NEW owner, NEW amount, NEW delta, NEW force, NEW r, NEW run, NEW e,
         Purchase(m, owner, amount, delta, force, r, run, e)
  PROVE  run.ok /\ r.db.ok /\ HasOk(run) /\ m.ok
<1>1. HasOk(r.db) /\ (r.db.ok => m.ok)
  <2>1. PICK can : can = CanAddTo(PoolOf(m))
    OBVIOUS
  <2>2. PICK q : q = AddedTo(PoolOf(m), amount)
    OBVIOUS
  <2>3. PICK k : k = Require(m, can)
    OBVIOUS
  <2>4. HasOk(k) /\ (k.ok => m.ok)
    BY <2>3, HelpersCarry DEF Carries, HasOk
  <2>5. \E next : r.db = [k EXCEPT !.pool = q, !.bal[owner] = next]
    BY <2>1, <2>2, <2>3 DEF Purchase, BuyShares
  <2> QED
    BY <2>4, <2>5 DEF HasOk
<1>2. run = runrex(r.db, 2)
  BY DEF Purchase
<1>3. HasOk(run) /\ (run.ok => r.db.ok)
  BY <1>1, <1>2, RunCarries
<1>4. e = update_rex_account(run, owner, 0, delta, force) /\ e.ok
  BY Zenon DEF Purchase
<1>5. run.ok
  BY <1>3, <1>4, AccountCarries, Zenon DEF Carries
<1> QED
  BY <1>1, <1>3, <1>5

\* What a purchase, with all that follows, leaves: the pool got the amount.
LEMMA PurchaseEnds ==
  ASSUME now \in 0 .. MaxTime, NEW m, Sound(m, now), NEW owner \in Accounts, Voting(m, owner),
         NEW amount \in Nat, amount > 0, NEW r, NEW run, NEW e, NEW delta, NEW force,
         delta = r.delta \/ delta = 0, Purchase(m, owner, amount, delta, force, r, run, e)
  PROVE  /\ Good(e, now) /\ Keeps(m, e, - amount) /\ AllCovered(e) /\ e.pool # NoRow /\ m.ok
         /\ (\E a \in Accounts : IsOpen(m, a) /\ e.order[a] = m.order[a])
              => PoolOf(e).total_lent <= PoolOf(m).total_lent
<1>1. /\ Good(m, now) /\ AllCovered(m) /\ HasOk(m) /\ now \in Nat /\ m \in Db
      /\ VotesOK(m) /\ NamesOK(m)
  BY StakingAssumption, DbHasOk DEF Sound, Good, StakingAssumption
<1>2. run.ok /\ r.db.ok
  BY <1>1, PurchaseCarries
<1>3. PICK d : d = r.db
  OBVIOUS
<1>4. r = BuyShares(m, owner, amount) /\ run = runrex(d, 2) /\ d.ok
  BY <1>2, <1>3 DEF Purchase
<1>5. /\ Good(d, now) /\ Keeps(m, d, - amount) /\ AllCovered(d)
      /\ PurchaseOnly(m, d, owner) /\ r.delta \in Int
  BY <1>1, <1>3, <1>4, BuyKeeps
<1>6. Sound(d, now)
  BY <1>1, <1>5 DEF Sound, Keeps
<1>7. Leads(d, run, 0, now) /\ RexRun(d, run) /\ AllCovered(run) /\ Good(run, now)
  BY <1>1, <1>2, <1>4, <1>6, RunLeads DEF Leads
<1>8. PICK x \in Int : x = delta
  BY <1>5
<1>9. e = update_rex_account(run, owner, 0, x, force) /\ e.ok
  BY <1>8, Zenon DEF Purchase
<1>10. /\ Leads(run, e, 0, now) /\ Quiet(run, e) /\ AllCovered(e)
       /\ Collected(run, e, owner)
  BY <1>7, <1>9, CollectKeeps
<1>11. Keeps(m, e, - amount) /\ Good(e, now)
  <2>1. PICK z \in Int, y \in Int : z = 0 /\ z = z + z /\ y = - amount /\ y = y + z
    OBVIOUS
  <2>2. Leads(d, run, z, now) /\ Leads(run, e, z, now)
    BY <1>7, <1>10, <2>1
  <2>3. Leads(d, e, z, now)
    BY <1>5, <2>1, <2>2, LeadsOn
  <2>4. Keeps(m, d, y)
    BY <1>5, <2>1
  <2>5. Keeps(m, e, y + z)
    BY <1>1, <1>5, <2>3, <2>4, KeepsChain DEF Leads
  <2> QED
    BY <2>1, <2>3, <2>5 DEF Leads
<1>12. e.pool # NoRow
  BY <1>7, <1>10 DEF RexRun, Quiet
<1>13. ASSUME NEW a \in Accounts, IsOpen(m, a)
       PROVE  PoolOf(e).total_lent <= PoolOf(m).total_lent
  <2>1. IsOpen(d, a) /\ PoolOf(d).total_lent = PoolOf(m).total_lent
    BY <1>5, <1>13 DEF PurchaseOnly, IsOpen
  <2>2. PoolOf(run).total_lent <= PoolOf(d).total_lent
    BY <1>7, <2>1 DEF RexRun
  <2> QED
    BY <1>10, <2>1, <2>2 DEF Quiet
<1>14. m.ok
  BY <1>5 DEF PurchaseOnly
<1> QED
  BY <1>10, <1>11, <1>12, <1>13, <1>14

\* buyrex: the payment comes from the buyer's fund.
LEMMA BuyrexSteps ==
  ASSUME now \in 0 .. MaxTime, NEW db, Sound(db, now), NEW owner \in Accounts, Voting(db, owner),
         NEW amount \in Nat, amount > 0, NEW m, m = transfer_from_fund(db, owner, amount),
         NEW r, NEW run, NEW e, NEW delta, NEW force, delta = r.delta \/ delta = 0,
         Purchase(m, owner, amount, delta, force, r, run, e)
  PROVE  Steps(db, e, now)
<1>1. /\ Good(db, now) /\ AllCovered(db) /\ db \in Db /\ ProceedsGood(db) /\ amount \in Int
      /\ HasOk(db)
  BY DbHasOk DEF Sound, Good
<1>1a. m.ok
  <2>1. HasOk(m)
    BY <1>1, HelpersCarry DEF Carries, HasOk
  <2> QED
    BY <2>1, PurchaseCarries
<1>2. /\ Apart(db, m, amount) /\ SameRest(db, m) /\ m.order = db.order
      /\ m.voters = db.voters
  BY <1>1, <1>1a, FundTaken
<1>3. Leads(db, m, amount, now) /\ m.pool = db.pool /\ Good(m, now)
  BY <1>1, <1>2, LeadsApart DEF Leads
<1>4. AllCovered(m)
  BY <1>1, <1>2, CoversKept DEF SameRest
<1>5. Sound(m, now) /\ Voting(m, owner)
  BY <1>2, <1>3, <1>4 DEF Leads, Keeps, Sound, Voting
<1>6. /\ Good(e, now) /\ Keeps(m, e, - amount) /\ AllCovered(e) /\ e.pool # NoRow
      /\ (\E a \in Accounts : IsOpen(m, a) /\ e.order[a] = m.order[a])
           => PoolOf(e).total_lent <= PoolOf(m).total_lent
  BY <1>5, PurchaseEnds, Zenon
<1>7. Keeps(db, e, 0)
  <2>1. PICK y \in Int, z \in Int : y = - amount /\ z = 0 /\ z = amount + y
    OBVIOUS
  <2>2. Keeps(m, e, y)
    BY <1>6, <2>1
  <2>3. Keeps(db, e, z)
    BY <1>1, <1>3, <1>6, <2>1, <2>2, LeadsAfterApart
  <2> QED
    BY <2>1, <2>3
<1>8. PoolOf(m) = PoolOf(db) /\ \A a \in Accounts : IsOpen(m, a) = IsOpen(db, a)
  BY <1>2, <1>3 DEF PoolOf, IsOpen
<1> QED
  BY <1>2, <1>6, <1>7, <1>8 DEF Steps

\* What is delegated and owed are numbers.
LEMMA DelegatedAreInts ==
  ASSUME StakingTypeOK
  PROVE  /\ \A a \in Accounts : DelegatedBy(a) \in Int /\ RefundOwed(a) \in Int
         /\ \A a \in Accounts : \A r \in Resource : DelegatedTo(a)[r] \in Int
<1>1. IsFiniteSet(Accounts) /\ \A a, b \in Accounts : delband[<<a, b>>] \in Weight
  BY StakingAssumption DEF StakingTypeOK, StakingAssumption
<1>2. ASSUME NEW a \in Accounts
      PROVE  DelegatedBy(a) \in Int
  <2>1. PICK f : f = [b \in Accounts |-> Sum(delband[<<a, b>>])]
    OBVIOUS
  <2>2. f \in [Accounts -> Int]
    BY <1>1, <2>1, PlusSums
  <2>3. DelegatedBy(a) = SumFunctionOnSet(f, Accounts)
    BY <2>1 DEF DelegatedBy
  <2> QED
    BY <1>1, <2>2, <2>3, SumIsInt
<1>3. \A a \in Accounts : RefundOwed(a) \in Int
  BY DEF StakingTypeOK, RefundOwed, RefundRequest, Sum, Resource
<1>4. ASSUME NEW a \in Accounts, NEW r \in Resource
      PROVE  DelegatedTo(a)[r] \in Int
  <2>1. PICK f : f = [b \in Accounts |-> delband[<<b, a>>][r]]
    OBVIOUS
  <2>2. f \in [Accounts -> Int]
    BY <1>1, <2>1 DEF Weight
  <2>3. DelegatedTo(a)[r] = SumFunctionOnSet(f, Accounts)
    BY <2>1 DEF DelegatedTo
  <2> QED
    BY <1>1, <2>2, <2>3, SumIsInt
<1> QED
  BY <1>2, <1>3, <1>4

\* eosio.stake stays backed by a payment that balances a change of stake.
LEMMA StakeStaysBacked ==
  ASSUME StakingTypeOK, StakeBacked, NEW from \in Accounts, NEW receiver \in Accounts,
         NEW delta \in Weight, Delegated(from, receiver, delta),
         NEW request \in RefundRequest \cup {NoRow}, refunds' = [refunds EXCEPT ![from] = request],
         NEW pay \in Int, tokens'[StakeAccount] = tokens[StakeAccount] + pay,
         pay + RefundOwed(from) = Sum(delta) + Owed(request)
  PROVE  StakeBacked'
<1>1. IsFiniteSet(Accounts) /\ refunds'[from] = request
      /\ \A a \in Accounts \ {from} : refunds'[a] = refunds[a]
  BY StakingAssumption DEF StakingTypeOK, StakingAssumption
<1>2. /\ DelegatedBy(from)' = DelegatedBy(from) + Sum(delta)
      /\ \A a \in Accounts \ {from} : DelegatedBy(a)' = DelegatedBy(a)
  BY DelegatedByChanges
<1>3. \A a \in Accounts : DelegatedBy(a) \in Int /\ RefundOwed(a) \in Int
  BY DelegatedAreInts
<1>4. RefundOwed(from)' = Owed(request) /\ \A a \in Accounts \ {from} : RefundOwed(a)' = RefundOwed(a)
  BY <1>1 DEF RefundOwed, Owed
<1>5. Owed(request) \in Int /\ Sum(delta) \in Int
  <2>1. Sum(delta) \in Int
    BY PlusSums
  <2> QED
    BY <2>1 DEF Owed, RefundRequest, Sum, Resource
<1>6. PICK f : f = [a \in Accounts |-> DelegatedBy(a) + RefundOwed(a)]
  OBVIOUS
<1>7. PICK h : h = [a \in Accounts |-> DelegatedBy(a)' + RefundOwed(a)']
  OBVIOUS
<1>8. f \in [Accounts -> Int]
  BY <1>3, <1>6
<1>9. h[from] = f[from] + pay
  BY <1>2, <1>3, <1>4, <1>5, <1>6, <1>7
<1>10. \A a \in Accounts \ {from} : h[a] = f[a]
  BY <1>2, <1>4, <1>6, <1>7
<1>11. h \in [Accounts -> Int]
  BY <1>7, <1>8, <1>9, <1>10
<1>12. SumFunctionOnSet(h, Accounts) = SumFunctionOnSet(f, Accounts) + pay
  BY <1>1, <1>8, <1>9, <1>10, <1>11, SumUpdate
<1>13. tokens[StakeAccount] = SumFunctionOnSet(f, Accounts)
  BY <1>6 DEF StakeBacked
<1>14. tokens'[StakeAccount] = SumFunctionOnSet(h, Accounts)
  BY <1>12, <1>13
<1> QED
  BY <1>7, <1>14 DEF StakeBacked

\* The limits of an account stay what was delegated and lent to it.
LEMMA LimitsStayExplained ==
  ASSUME StakingTypeOK, ResourcesExplained, NEW from \in Accounts, NEW receiver \in Accounts,
         NEW delta \in Weight, Delegated(from, receiver, delta), DB \in Db, NEW e \in Db, DB' = e,
         userres' = e.userres,
         \A a \in Accounts : \A r \in Resource :
           Unlent(e, a, r) = Unlent(DB, a, r) + (IF a = receiver THEN delta[r] ELSE 0)
  PROVE  ResourcesExplained'
<1>1. /\ DelegatedTo(receiver)' = Plus(DelegatedTo(receiver), delta)
      /\ \A a \in Accounts \ {receiver} : DelegatedTo(a)' = DelegatedTo(a)
  BY DelegatedToChanges
<1> SUFFICES ASSUME NEW a \in Accounts, NEW r \in Resource
             PROVE  userres'[a][r] = DelegatedTo(a)'[r] + LentTo(DB', a, r)
  BY DEF ResourcesExplained
<1>2a. PICK u \in Int : u = DB.userres[a][r]
  BY DbFields DEF Weight
<1>2b. PICK v \in Int : v = e.userres[a][r]
  BY DbFields DEF Weight
<1>2c. PICK l \in Int : l = LentTo(DB, a, r)
  BY SumsAreInts
<1>2d. PICK m \in Int : m = LentTo(e, a, r)
  BY SumsAreInts
<1>2e. PICK g \in Int : g = DelegatedTo(a)[r]
  BY DelegatedAreInts
<1>2f. PICK c \in Int : c = delta[r]
  BY DEF Weight
<1>2. /\ u = DB.userres[a][r] /\ v = e.userres[a][r]
      /\ l = LentTo(DB, a, r) /\ m = LentTo(e, a, r)
      /\ g = DelegatedTo(a)[r] /\ c = delta[r]
  BY <1>2a, <1>2b, <1>2c, <1>2d, <1>2e, <1>2f
<1>3. u = g + l
  BY <1>2 DEF ResourcesExplained, DB
<1>4. v - m = (u - l) + (IF a = receiver THEN c ELSE 0)
  BY <1>2 DEF Unlent
<1>5. DelegatedTo(a)'[r] = g + (IF a = receiver THEN c ELSE 0)
  BY <1>1, <1>2 DEF Plus
<1>6. v = g + (IF a = receiver THEN c ELSE 0) + m
  BY <1>3, <1>4
<1> QED
  BY <1>2, <1>5, <1>6

\* What unstaketorex takes from the limits and moves to eosio.rex.
Unstaking(receiver, q, freed, m) ==
  /\ freed = [Require(DB, NonNegative(TotalAfter(receiver, Negative(q))))
                EXCEPT !.userres[receiver] = TotalAfter(receiver, Negative(q))]
  /\ m = StakeToRex(freed, Sum(q))

\* The totals of the receiver are less, and nothing else is different.
LEMMA LimitsFreed ==
  ASSUME RexInv, NEW receiver \in Accounts, NEW q \in Weight, NEW freed, NEW m,
         Unstaking(receiver, q, freed, m)
  PROVE  /\ freed \in Db /\ freed.pool = pool /\ freed.bal = bal /\ freed.loan = loan
         /\ freed.tokens = tokens /\ freed.voters = voters /\ freed.fund = fund /\ freed.order = order
         /\ \A a \in Accounts : \A r \in Resource :
              freed.userres[a][r] = userres[a][r] + (IF a = receiver THEN Negative(q)[r] ELSE 0)
<1>1. DB \in Db /\ DB = [tokens |-> tokens, userres |-> userres, voters |-> voters, pool |-> pool,
       fund |-> fund, bal |-> bal, order |-> order, loan |-> loan, ok |-> TRUE]
  BY DEF RexInv, Good, DB
<1>2. PICK total : total = Plus(userres[receiver], Negative(q))
  OBVIOUS
<1>3. userres \in [Accounts -> Weight] /\ Negative(q) \in Weight
  <2>1. Negative(q) \in Weight
    BY DEF Negative, Weight
  <2> QED
    BY <2>1 DEF RexInv, StakingTypeOK
<1>4. /\ total \in Weight
      /\ \A r \in Resource : total[r] = userres[receiver][r] + Negative(q)[r]
  BY <1>2, <1>3, PlusSums
<1>5. PICK c \in BOOLEAN : c = NonNegative(total)
  BY Zenon DEF NonNegative
<1>6. freed = [[DB EXCEPT !.ok = DB.ok /\ c] EXCEPT !.userres[receiver] = total]
  BY <1>2, <1>5, Zenon DEF Unstaking, Require, TotalAfter
<1>7. freed = [tokens |-> tokens, userres |-> [userres EXCEPT ![receiver] = total],
               voters |-> voters, pool |-> pool, fund |-> fund, bal |-> bal, order |-> order,
               loan |-> loan, ok |-> freed.ok] /\ freed.ok \in BOOLEAN
  BY <1>1, <1>5, <1>6
<1>8. [userres EXCEPT ![receiver] = total] \in [Accounts -> Weight]
  BY <1>3, <1>4
<1>9. freed \in Db
  BY <1>1, <1>7, <1>8 DEF Db
<1>10. \A a \in Accounts : \A r \in Resource :
         freed.userres[a][r] = userres[a][r] + (IF a = receiver THEN Negative(q)[r] ELSE 0)
  BY <1>3, <1>4, <1>7 DEF Weight
<1> QED
  BY <1>1, <1>7, <1>9, <1>10

\* What the invariant promises to the actions.
LEMMA SoundNow ==
  ASSUME RexInv
  PROVE  /\ Sound(DB, now) /\ Good(DB, now) /\ DB \in Db /\ HasOk(DB)
         /\ now \in Nat /\ now \in 0 .. MaxTime
<1>1. now \in 0 .. MaxTime /\ MaxTime \in Nat
  BY StakingAssumption DEF RexInv, StakingTypeOK, StakingAssumption
<1>2. Good(DB, now) /\ DB \in Db
  BY DEF RexInv, Good
<1> QED
  BY <1>1, <1>2, DbHasOk DEF RexInv, Sound, IsNow

\* The tokens of the stake are eosio.rex's now, and nobody has a claim to them.
LEMMA UnstakeMoves ==
  ASSUME RexInv, NEW receiver \in Accounts, NEW q \in Weight, NEW freed, NEW m,
         Unstaking(receiver, q, freed, m), m.ok
  PROVE  /\ Sound(m, now) /\ m.pool = pool /\ m.order = order /\ m.voters = voters
         /\ m.tokens[StakeAccount] = tokens[StakeAccount] - Sum(q)
         /\ Surplus(m) = Sum(q)
         /\ \A a \in Accounts : \A r \in Resource :
              Unlent(m, a, r) = Unlent(DB, a, r) + (IF a = receiver THEN Negative(q)[r] ELSE 0)
<1>1. /\ freed \in Db /\ freed.pool = pool /\ freed.bal = bal /\ freed.loan = loan
      /\ freed.tokens = tokens /\ freed.voters = voters /\ freed.fund = fund /\ freed.order = order
      /\ \A a \in Accounts : \A r \in Resource :
           freed.userres[a][r] = userres[a][r] + (IF a = receiver THEN Negative(q)[r] ELSE 0)
  <2>1. freed \in Db
    BY LimitsFreed
  <2>2. freed.pool = pool /\ freed.bal = bal /\ freed.loan = loan
    BY LimitsFreed
  <2>3. freed.tokens = tokens /\ freed.voters = voters /\ freed.fund = fund /\ freed.order = order
    BY LimitsFreed
  <2>4. \A a \in Accounts : \A r \in Resource :
           freed.userres[a][r] = userres[a][r] + (IF a = receiver THEN Negative(q)[r] ELSE 0)
    BY LimitsFreed
  <2> QED
    BY <2>1, <2>2, <2>3, <2>4
<1>2. freed.pool = pool /\ freed.bal = bal /\ freed.loan = loan
  BY <1>1
<1>3. Sum(q) \in Int
  BY PlusSums
<1>4. PICK x \in Int : x = Sum(q)
  BY <1>3
<1>5. /\ StakeAccount \in Holders /\ RexAccount \in Holders /\ NamesAccount \in Holders
      /\ StakeAccount # RexAccount /\ NamesAccount # RexAccount /\ NamesAccount # StakeAccount
  BY <1>1, SurplusIsInt, HoldersDiffer
<1>6. m = TokensMoved(freed, StakeAccount, RexAccount, x)
  BY <1>4 DEF Unstaking, StakeToRex
<1>7. /\ m \in Db
      /\ m.tokens[StakeAccount] = freed.tokens[StakeAccount] - x
      /\ m.tokens[RexAccount] = freed.tokens[RexAccount] + x
      /\ m.tokens[NamesAccount] = freed.tokens[NamesAccount]
      /\ SameRest(freed, m) /\ m.fund = freed.fund /\ m.order = freed.order
      /\ m.voters = freed.voters
  BY <1>1, <1>5, <1>6, TokensAfter
<1>8. /\ m.pool = DB.pool /\ m.bal = DB.bal /\ m.loan = DB.loan /\ m.fund = DB.fund
      /\ m.order = DB.order /\ m.voters = DB.voters
      /\ m.tokens[RexAccount] = DB.tokens[RexAccount] + x
      /\ m.tokens[NamesAccount] = DB.tokens[NamesAccount]
      /\ m.userres = freed.userres
  BY <1>1, <1>2, <1>7 DEF SameRest, DB
<1>9. /\ DB \in Db /\ Good(DB, now) /\ AllCovered(DB) /\ Surplus(DB) = 0 /\ VotesOK(DB)
      /\ NamesOK(DB)
  BY DEF RexInv, Good
<1>10. /\ PoolOf(m) = PoolOf(DB) /\ Claims(m) = Claims(DB) /\ LoanFunds(m) = LoanFunds(DB)
       /\ SharesOut(m) = SharesOut(DB) /\ LoanStakes(m) = LoanStakes(DB)
       /\ \A a \in Accounts : \A r \in Resource : LentTo(m, a, r) = LentTo(DB, a, r)
  BY <1>8 DEF PoolOf, Claims, FundOf, IsFilled, LoanFunds, SharesOut, LoanStakes, LentTo
<1>11. Good(m, now)
  <2>1. PoolGood(m) /\ RowsGood(m, now) /\ ProceedsGood(m)
    BY <1>8, <1>9, <1>10 DEF Good, PoolGood, RowsGood, ProceedsGood, IsFilled
  <2>2. \A i \in LoanIds : LoanGood(m, i)
    BY <1>8, <1>9, <1>10 DEF Good, LoanGood
  <2>3. Timely(m, now)
    BY <1>8, <1>9, SameStay, TimelyStays DEF Good
  <2> QED
    BY <1>7, <2>1, <2>2, <2>3 DEF Good
<1>12. AllCovered(m)
  BY <1>8, <1>9, CoversKept
<1>13. VotesOK(m)
  BY <1>8, <1>9 DEF VotesOK, Holding, Voting
<1>14. NamesOK(m)
  BY <1>8, <1>9, <1>10 DEF NamesOK
<1>15. Surplus(m) = x
  <2>1. PICK v \in Int : v = DB.tokens[RexAccount]
    BY <1>9, SurplusIsInt
  <2>2. PICK c : c = Claims(DB) + LoanFunds(DB) + PoolOf(DB).total_lendable
    OBVIOUS
  <2>3. c \in Int
    <3>1. Claims(DB) \in Int /\ LoanFunds(DB) \in Int
      BY <1>9, SumsAreInts
    <3>2. PoolOf(DB).total_lendable \in Int
      BY <1>9, PoolOfType, PoolFields
    <3> QED
      BY <2>2, <3>1, <3>2
  <2>4. v - c = 0
    BY <1>9, <2>1, <2>2 DEF Surplus
  <2>5. Surplus(m) = (v + x) - c
    BY <1>8, <1>10, <2>1, <2>2 DEF Surplus
  <2> QED
    BY <2>3, <2>4, <2>5
<1>16. ASSUME NEW a \in Accounts, NEW r \in Resource
       PROVE  Unlent(m, a, r) = Unlent(DB, a, r) + (IF a = receiver THEN Negative(q)[r] ELSE 0)
  <2>1. PICK u \in Int : u = userres[a][r]
    BY DEF RexInv, StakingTypeOK, Weight
  <2>2. PICK l \in Int : l = LentTo(DB, a, r)
    BY <1>9, SumsAreInts
  <2>3. PICK n \in Int : n = Negative(q)[r]
    BY DEF Negative, Weight
  <2>4. Unlent(DB, a, r) = u - l
    BY <2>1, <2>2 DEF Unlent, DB
  <2>5. Unlent(m, a, r) = (u + (IF a = receiver THEN n ELSE 0)) - l
    BY <1>1, <1>8, <1>10, <2>1, <2>2, <2>3 DEF Unlent
  <2> QED
    BY <2>3, <2>4, <2>5
<1>17. Sound(m, now)
  BY <1>11, <1>12, <1>13, <1>14, SoundNow DEF Sound
<1>18. m.pool = pool /\ m.order = order /\ m.voters = voters
  BY <1>1, <1>2, <1>7 DEF SameRest
<1>19. m.tokens[StakeAccount] = tokens[StakeAccount] - Sum(q)
  BY <1>1, <1>4, <1>7
<1> QED
  BY <1>17, <1>18, <1>4, <1>15, <1>16, <1>19

\* The two amounts of a weight and of its negative.
LEMMA NegativeSums ==
  ASSUME NEW q \in Weight
  PROVE  /\ Negative(q) \in Weight
         /\ Sum(q) \in Int /\ Sum(Negative(q)) = - Sum(q)
<1>1. Negative(q) \in Weight
  BY DEF Negative, Weight
<1>2. q["net"] \in Int /\ q["cpu"] \in Int
      /\ Negative(q)["net"] = - q["net"] /\ Negative(q)["cpu"] = - q["cpu"]
  BY DEF Negative, Weight, Resource
<1> QED
  BY <1>1, <1>2 DEF Sum

\* What NeverDiluted and SellersFirst say of tables that were installed.
LEMMA StepShown ==
  ASSUME RexInv, NEW e, DB' = e, PoolOf(e).total_rex > 0 => NotCheaper(PoolOf(DB), PoolOf(e)), e.pool # NoRow,
         (\E a \in Accounts : IsOpen(DB, a) /\ e.order[a] = DB.order[a])
           => PoolOf(e).total_lent <= PoolOf(DB).total_lent
  PROVE  Undiluted /\ SellersFirstStep
<1>1. pool' = e.pool /\ order' = e.order /\ DB.pool = pool /\ DB.order = order
  BY DEF DB
<1>2. now \in Nat
  BY StakingAssumption DEF RexInv, StakingTypeOK, StakingAssumption
<1>3. PoolOf(e) = pool' /\ (pool # NoRow => PoolOf(DB) = pool)
  BY <1>1 DEF PoolOf
<1>4. Undiluted
  BY <1>3 DEF Undiluted
<1>5. SellersFirstStep
  <2> SUFFICES ASSUME NEW a \in Accounts, IsOpen(DB, a), order'[a] = order[a]
               PROVE  pool'.total_lent <= pool.total_lent
    BY DEF SellersFirstStep
  <2>1. PoolOf(e).total_lent <= PoolOf(DB).total_lent
    BY <1>1
  <2>2. pool # NoRow
    BY <1>1, <1>2, PoolIsThere DEF RexInv, AllCovered
  <2> QED
    BY <1>3, <2>1, <2>2
<1> QED
  BY <1>4, <1>5

\* unstaketorex: the stake that is given up becomes shares of the pool.
LEMMA UnstakeSteps ==
  ASSUME RexInv, NEW owner \in Accounts, NEW receiver \in Accounts, Voting(DB, owner),
         NEW q \in Weight, Sum(q) > 0, Delegated(owner, receiver, Negative(q)),
         NEW freed, NEW m, Unstaking(receiver, q, freed, m),
         NEW r, NEW run, NEW e, NEW delta, NEW force, delta = 0,
         Purchase(m, owner, Sum(q), delta, force, r, run, e), HasOk(m),
         Commit(e), UNCHANGED <<now, refunds, deferred, activated>>
  PROVE  RexInv' /\ Undiluted /\ SellersFirstStep
<1>1. now \in 0 .. MaxTime /\ StakingTypeOK /\ DB \in Db /\ StakeBacked /\ ResourcesExplained
      /\ Surplus(DB) = 0
  BY DEF RexInv, StakingTypeOK, Good
<1>2. m.ok
  BY PurchaseCarries
<1>3. /\ Sound(m, now) /\ m.pool = pool /\ m.order = order /\ m.voters = voters
      /\ m.tokens[StakeAccount] = tokens[StakeAccount] - Sum(q)
      /\ Surplus(m) = Sum(q)
      /\ \A a \in Accounts : \A k \in Resource :
           Unlent(m, a, k) = Unlent(DB, a, k) + (IF a = receiver THEN Negative(q)[k] ELSE 0)
  <2>1. Sound(m, now)
    BY <1>2, UnstakeMoves
  <2>2. m.pool = pool /\ m.order = order /\ m.voters = voters
    BY <1>2, UnstakeMoves
  <2>3. m.tokens[StakeAccount] = tokens[StakeAccount] - Sum(q)
    BY <1>2, UnstakeMoves
  <2>4. Surplus(m) = Sum(q)
    BY <1>2, UnstakeMoves
  <2>5. \A a \in Accounts : \A k \in Resource :
           Unlent(m, a, k) = Unlent(DB, a, k) + (IF a = receiver THEN Negative(q)[k] ELSE 0)
    BY <1>2, UnstakeMoves
  <2> QED
    BY <2>1, <2>2, <2>3, <2>4, <2>5
<1>4. Voting(m, owner)
  BY <1>3 DEF Voting, DB
<1>5. PICK x \in Nat : x = Sum(q) /\ x > 0
  BY NegativeSums
<1>6. Purchase(m, owner, x, delta, force, r, run, e)
  BY <1>5
<1>7. /\ Good(e, now) /\ Keeps(m, e, - x) /\ AllCovered(e) /\ e.pool # NoRow
      /\ (\E a \in Accounts : IsOpen(m, a) /\ e.order[a] = m.order[a])
           => PoolOf(e).total_lent <= PoolOf(m).total_lent
  BY <1>1, <1>3, <1>4, <1>5, <1>6, PurchaseEnds, Zenon
<1>8. e \in Db /\ e.ok /\ m \in Db
  BY <1>3, <1>7 DEF Commit, Good, Sound
<1>9. /\ tokens' = e.tokens /\ userres' = e.userres /\ voters' = e.voters /\ pool' = e.pool
      /\ fund' = e.fund /\ bal' = e.bal /\ order' = e.order /\ loan' = e.loan
  BY DEF Commit
<1>10. DB' = e
  BY <1>8, <1>9 DEF DB, Db
<1>11. Surplus(DB') = 0 /\ VotesOK(DB') /\ NamesOK(DB')
  <2>1. Surplus(e) = Surplus(m) + (- x) /\ VotesOK(e) /\ NamesOK(e)
    BY <1>3, <1>7 DEF Keeps, Sound
  <2> QED
    BY <1>3, <1>5, <1>10, <2>1
<1>12. /\ Negative(q) \in Weight /\ Sum(Negative(q)) = - x
  BY <1>5, NegativeSums
<1>13. StakingTypeOK'
  <2>1. \A a \in Accounts, b \in Accounts : delband[<<a, b>>] \in Weight
    BY <1>1 DEF StakingTypeOK
  <2>2. Plus(delband[<<owner, receiver>>], Negative(q)) \in Weight
    BY <1>12, <2>1, PlusSums
  <2>3. delband' \in [Accounts \X Accounts -> Weight]
    BY <1>1, <2>2 DEF Delegated, StakingTypeOK
  <2> QED
    BY <1>1, <1>8, <1>9, <2>3, DbFields DEF StakingTypeOK
<1>14. StakeBacked'
  <2>1. PICK request \in RefundRequest \cup {NoRow} : request = refunds[owner]
    BY <1>1 DEF StakingTypeOK
  <2>2. refunds' = [refunds EXCEPT ![owner] = request]
    BY <1>1, <2>1 DEF StakingTypeOK
  <2>3. PICK pay \in Int : pay = - x
    BY <1>5
  <2>4. e.tokens[StakeAccount] = m.tokens[StakeAccount] /\ tokens[StakeAccount] \in Int
    BY <1>1, <1>7, SurplusIsInt DEF Keeps, DB
  <2>5. tokens'[StakeAccount] = tokens[StakeAccount] + pay
    BY <1>3, <1>5, <1>9, <2>3, <2>4
  <2>6. RefundOwed(owner) = Owed(request)
    BY <2>1 DEF RefundOwed, Owed
  <2>7. pay + RefundOwed(owner) = Sum(Negative(q)) + Owed(request)
    BY <1>12, <2>3, <2>6
  <2> QED
    BY <1>1, <1>12, <2>2, <2>5, <2>7, StakeStaysBacked
<1>15. ResourcesExplained'
  <2>1. \A a \in Accounts : \A k \in Resource :
          Unlent(e, a, k) = Unlent(DB, a, k) + (IF a = receiver THEN Negative(q)[k] ELSE 0)
    BY <1>3, <1>7 DEF Keeps
  <2> QED
    BY <1>1, <1>8, <1>9, <1>10, <1>12, <2>1, LimitsStayExplained
<1>16. RequestsPast'
  BY DEF RexInv, RequestsPast
<1>17. RexInv'
  <2>1. Good(DB', now') /\ AllCovered(DB')
    BY <1>7, <1>10
  <2> QED
    BY <1>11, <1>13, <1>14, <1>15, <1>16, <2>1 DEF RexInv
<1>18. Undiluted /\ SellersFirstStep
  <2>1. Good(m, now) /\ Good(DB, now)
    BY <1>3 DEF Sound, RexInv
  <2>2. PoolOf(m) = PoolOf(DB) /\ m.order = DB.order
        /\ \A a \in Accounts : IsOpen(m, a) = IsOpen(DB, a)
    BY <1>3 DEF PoolOf, IsOpen, DB
  <2>3. PoolOf(e).total_rex > 0 => NotCheaper(PoolOf(DB), PoolOf(e))
    BY <1>7, <2>2 DEF Keeps
  <2>4. (\E a \in Accounts : IsOpen(DB, a) /\ e.order[a] = DB.order[a])
           => PoolOf(e).total_lent <= PoolOf(DB).total_lent
    BY <1>7, <2>2
  <2> QED
    BY <1>7, <1>10, <2>3, <2>4, StepShown
<1> QED
  BY <1>17, <1>18

\* Steps of staking: of the tables of REX only rows of shares may change, to d's,
\* by the stake they count for.
Beside(d) ==
  /\ Good(d, now') /\ AllCovered(d)
  /\ d.pool = pool /\ d.fund = fund /\ d.order = order /\ d.loan = loan
  /\ \A a \in Accounts : Holding(d, a) => Holding(DB, a)
  /\ bal' = d.bal /\ UNCHANGED <<pool, fund, order, loan>>
  /\ StakingTypeOK'
  /\ tokens'[RexAccount] = tokens[RexAccount] /\ tokens'[NamesAccount] = tokens[NamesAccount]
  /\ \A a \in Accounts : Voting(DB, a) => Voting(DB', a)

\* Such a step keeps all that REX promises.
LEMMA BesideKeeps ==
  ASSUME RexInv, NEW d, Beside(d)
  PROVE  /\ DB' \in Db /\ Good(DB', now') /\ AllCovered(DB') /\ Surplus(DB') = 0
         /\ VotesOK(DB') /\ NamesOK(DB')
         /\ \A a \in Accounts : \A r \in Resource : LentTo(DB', a, r) = LentTo(DB, a, r)
         /\ Undiluted /\ SellersFirstStep
<1>1. PICK e : e = DB'
  OBVIOUS
<1>2. /\ e = [tokens |-> tokens', userres |-> userres', voters |-> voters', pool |-> d.pool,
              fund |-> d.fund, bal |-> d.bal, order |-> d.order, loan |-> d.loan, ok |-> TRUE]
  BY <1>1 DEF DB, Beside
<1>3. /\ DB \in Db /\ d \in Db /\ Good(DB, now) /\ AllCovered(DB) /\ Surplus(DB) = 0 /\ VotesOK(DB)
      /\ NamesOK(DB) /\ Good(d, now') /\ AllCovered(d) /\ StakingTypeOK'
  BY DEF RexInv, Beside, Good
<1>4. e \in Db
  <2>1. /\ tokens' \in [Holders -> Int] /\ userres' \in [Accounts -> Weight]
        /\ voters' \in [Accounts -> VoterInfo \cup {NoRow}]
    BY <1>3 DEF StakingTypeOK
  <2> QED
    BY <1>2, <1>3, <2>1, DbFields DEF Db
<1>5. /\ e.pool = d.pool /\ e.fund = d.fund /\ e.bal = d.bal /\ e.order = d.order /\ e.loan = d.loan
      /\ e.tokens = tokens' /\ e.voters = voters'
  BY <1>2
<1>6. /\ d.pool = DB.pool /\ d.fund = DB.fund /\ d.order = DB.order /\ d.loan = DB.loan
      /\ DB.tokens = tokens
  BY DEF DB, Beside
<1>7. /\ PoolOf(e) = PoolOf(d) /\ SharesOut(e) = SharesOut(d) /\ LoanStakes(e) = LoanStakes(d)
  BY <1>5 DEF PoolOf, SharesOut, LoanStakes
<1>8. /\ PoolOf(e) = PoolOf(DB) /\ Claims(e) = Claims(DB) /\ LoanFunds(e) = LoanFunds(DB)
      /\ \A a \in Accounts : \A r \in Resource : LentTo(e, a, r) = LentTo(DB, a, r)
  BY <1>5, <1>6 DEF PoolOf, Claims, FundOf, IsFilled, LoanFunds, LentTo
<1>9. Good(e, now')
  <2>1. PoolGood(e) /\ RowsGood(e, now') /\ ProceedsGood(e)
    BY <1>3, <1>5, <1>7 DEF Good, PoolGood, RowsGood, ProceedsGood, IsFilled
  <2>2. \A i \in LoanIds : LoanGood(e, i)
    BY <1>3, <1>5, <1>7 DEF Good, LoanGood
  <2>3. Timely(e, now')
    BY <1>3, <1>5, SameStay, TimelyStays DEF Good
  <2> QED
    BY <1>4, <2>1, <2>2, <2>3 DEF Good
<1>10. AllCovered(e)
  BY <1>3, <1>5, CoversKept
<1>11. Surplus(e) = 0
  <2>1. e.tokens[RexAccount] = DB.tokens[RexAccount]
    BY <1>5, <1>6 DEF Beside
  <2> QED
    BY <1>3, <1>8, <2>1 DEF Surplus
<1>12. VotesOK(e)
  <2> SUFFICES ASSUME NEW a \in Accounts, Holding(e, a)
               PROVE  Voting(e, a)
    BY DEF VotesOK
  <2>1. Holding(DB, a)
    BY <1>5 DEF Holding, Beside
  <2> QED
    BY <1>1, <1>3, <2>1 DEF VotesOK, Beside
<1>13. NamesOK(e)
  <2>1. e.tokens[NamesAccount] = DB.tokens[NamesAccount]
    BY <1>5, <1>6 DEF Beside
  <2> QED
    BY <1>3, <1>8, <2>1 DEF NamesOK
<1>14. pool' = pool /\ order' = order /\ DB.pool = pool /\ DB.order = order
  BY DEF Beside, DB
<1>15. pool # NoRow => PoolOK(pool) /\ pool \in Pool
  BY <1>3, <1>14, DbFields DEF Good, PoolGood, PoolOf
<1>16. Undiluted
  BY <1>14, <1>15, CheaperSame DEF Undiluted
<1>17. SellersFirstStep
  <2> SUFFICES ASSUME NEW a \in Accounts, IsOpen(DB, a)
               PROVE  pool'.total_lent <= pool.total_lent
    BY DEF SellersFirstStep
  <2>1. now \in Nat
    BY StakingAssumption DEF RexInv, StakingTypeOK, StakingAssumption
  <2>2. pool # NoRow
    BY <1>3, <1>14, <2>1, PoolIsThere DEF AllCovered
  <2>3. pool.total_lent \in Int
    BY <1>15, <2>2, PoolFields
  <2> QED
    BY <1>14, <2>3
<1> QED
  BY <1>1, <1>4, <1>8, <1>9, <1>10, <1>11, <1>12, <1>13, <1>16, <1>17

\* What changebw does to the tables when the stake of a voter is revalued too.
Restaked(source, from, receiver, delta, pay, request, due, stake) ==
  /\ Delegated(from, receiver, delta)
  /\ userres' = [userres EXCEPT ![receiver] = Plus(@, delta)]
  /\ refunds' = [refunds EXCEPT ![from] = request]
  /\ deferred' = [deferred EXCEPT ![from] = due]
  /\ Pay(source, StakeAccount, pay)
  /\ voters' = [voters EXCEPT ![from] = WithStake(from, stake)]

\* Whose stake changes.
StakeOwner(source, receiver, transfer) == IF transfer THEN receiver ELSE source

\* Some such change for which payment and request make up.
Rebalanced(source, from, receiver, delta) ==
  \E pay \in Nat, request \in RefundRequest \cup {NoRow}, due \in Nat \cup {NoRow},
     stake \in Int :
       /\ Restaked(source, from, receiver, delta, pay, request, due, stake)
       /\ Balanced(from, delta, pay, request, due)

\* Every run of changebw is such a change, and balanced.
LEMMA ChangebwRestakes ==
  ASSUME RexInv, NEW source \in Accounts, NEW receiver \in Accounts, NEW delta \in Weight,
         NEW transfer \in BOOLEAN, NEW extra \in Int,
         changebw(source, receiver, delta, transfer, extra),
         NEW from \in Accounts, from = StakeOwner(source, receiver, transfer)
  PROVE  Rebalanced(source, from, receiver, delta)
<1> DEFINE touched == TouchesRefund(from, receiver, delta, transfer)
           settled == IF touched THEN Settle(refunds[from], delta)
                      ELSE [pay |-> delta, request |-> refunds[from]]
           due == Schedule(from, touched, settled.request)
           stake == Staked(from) + (IF voters[from] = NoRow THEN 0 ELSE extra) + Sum(delta)
<1>1. StakingTypeOK /\ RequestsPast
  BY DEF RexInv
<1>2. /\ delband' = [delband EXCEPT ![<<from, receiver>>] = Plus(delband[<<from, receiver>>], delta)]
      /\ userres' = [userres EXCEPT ![receiver] = Plus(userres[receiver], delta)]
      /\ refunds' = [refunds EXCEPT ![from] = settled.request]
      /\ deferred' = [deferred EXCEPT ![from] = due]
      /\ Pay(source, StakeAccount, Sum(settled.pay))
      /\ voters' = [voters EXCEPT ![from] = WithStake(from, stake)]
  BY DEF changebw, TotalAfter, StakeOwner
<1>3. Staked(from) \in Int /\ Sum(delta) \in Int
  BY <1>1, PlusSums, StakedIsInt
<1>4. stake \in Int
  BY <1>3
<1>5. /\ now \in Nat /\ RefundDelay \in Nat
      /\ refunds[from] \in RefundRequest \cup {NoRow}
      /\ refunds[from] # NoRow => refunds[from].request_time <= now
      /\ RefundOwed(from) = Owed(refunds[from])
  BY <1>1, StakingAssumption DEF StakingTypeOK, RequestsPast, RefundOwed, Owed, StakingAssumption
<1>6. /\ Sum(settled.pay) \in Nat
      /\ settled.request \in RefundRequest \cup {NoRow}
      /\ Sum(settled.pay) + Owed(refunds[from]) = Sum(delta) + Owed(settled.request)
      /\ settled.request # NoRow => settled.request.request_time <= now
  <2>1. CASE touched
    <3>1. settled = Settle(refunds[from], delta)
      BY <2>1
    <3>2. settled.pay \in [Resource -> Nat]
      BY <1>5, <3>1, Settled
    <3>3. Sum(settled.pay) \in Nat
      BY <3>2 DEF Sum, Resource
    <3> QED
      BY <1>5, <3>1, <3>3, Settled
  <2>2. CASE ~ touched
    <3>1. settled.pay = delta /\ settled.request = refunds[from]
      BY <2>2
    <3>2. Sum(delta) >= 0
      BY <1>3, <2>2 DEF TouchesRefund
    <3> QED
      BY <1>3, <1>5, <3>1, <3>2
  <2> QED
    BY <2>1, <2>2
<1>7. /\ due \in Nat \cup {NoRow}
      /\ due # NoRow /\ settled.request # NoRow => due >= settled.request.request_time + RefundDelay
  <2>1. settled.request # NoRow => settled.request.request_time \in Nat
    BY <1>6 DEF RefundRequest
  <2> QED
    BY <1>5, <1>6, <2>1 DEF Schedule
<1> HIDE DEF settled, due, stake
<1>8. Restaked(source, from, receiver, delta, Sum(settled.pay), settled.request, due, stake)
  BY <1>2 DEF Restaked, Delegated
<1>9. Balanced(from, delta, Sum(settled.pay), settled.request, due)
  BY <1>5, <1>6, <1>7 DEF Balanced
<1> QED
  BY <1>4, <1>6, <1>7, <1>8, <1>9 DEF Rebalanced

\* The balances besides those of the payer and of eosio.stake.
LEMMA PaidBeside ==
  ASSUME StakingTypeOK, NEW from \in Holders, NEW to \in Holders, NEW pay, Pay(from, to, pay),
         NEW h \in Holders, h # from, h # to
  PROVE  tokens'[h] = tokens[h]
  BY DEF StakingTypeOK, Pay

\* Delegating and undelegating, which revalue the shares of the account whose
\* stake changes, keep what REX and staking promise.
LEMMA RestakeKeeps ==
  ASSUME RexInv, NEW source \in Accounts, NEW from \in Accounts, NEW receiver \in Accounts,
         NEW delta \in Weight, NEW pay \in Nat, NEW request \in RefundRequest \cup {NoRow},
         NEW due \in Nat \cup {NoRow}, NEW stake \in Int,
         Restaked(source, from, receiver, delta, pay, request, due, stake),
         Balanced(from, delta, pay, request, due),
         UNCHANGED <<now, activated>>, RevalueShares(from)
  PROVE  RexInv' /\ Undiluted /\ SellersFirstStep
<1>1. /\ StakingTypeOK /\ StakeBacked /\ ResourcesExplained /\ RequestsPast
      /\ DB \in Db /\ Good(DB, now) /\ AllCovered(DB) /\ VotesOK(DB)
      /\ Delegated(from, receiver, delta) /\ Sum(delta) \in Int /\ Pay(source, StakeAccount, pay)
  BY PlusSums DEF RexInv, Restaked, Good
<1>2. /\ tokens' \in [Holders -> Int]
      /\ tokens'[StakeAccount] = tokens[StakeAccount] + pay
  BY <1>1, PaidIn
<1>3. tokens'[RexAccount] = tokens[RexAccount] /\ tokens'[NamesAccount] = tokens[NamesAccount]
  <2>1. /\ RexAccount \in Holders /\ NamesAccount \in Holders /\ StakeAccount \in Holders
        /\ source \in Holders /\ RexAccount # source /\ NamesAccount # source
        /\ RexAccount # StakeAccount /\ NamesAccount # StakeAccount
    BY <1>1, SurplusIsInt, HoldersDiffer
  <2> QED
    BY <1>1, <2>1, PaidBeside
<1>4. PICK row \in VoterInfo : row = WithStake(from, stake)
  <2>1. WithStake(from, stake) \in VoterInfo
    BY <1>1, WithStakeType
  <2> QED
    BY <2>1
<1>4a. voters[from] # NoRow => row.votes = voters[from].votes
  <2>1. voters[from] \in VoterInfo \cup {NoRow}
    BY <1>1 DEF StakingTypeOK
  <2> QED
    BY <1>4, <2>1 DEF WithStake, VoterInfo
<1>5. /\ voters' \in [Accounts -> VoterInfo \cup {NoRow}]
      /\ voters'[from] = row
      /\ \A a \in Accounts \ {from} : voters'[a] = voters[a]
  <2>1. voters' = [voters EXCEPT ![from] = row] /\ voters \in [Accounts -> VoterInfo \cup {NoRow}]
    BY <1>1, <1>4 DEF StakingTypeOK, Restaked
  <2> QED
    BY <2>1
<1>6. /\ userres' \in [Accounts -> Weight]
      /\ \A a \in Accounts : \A r \in Resource :
           userres'[a][r] = userres[a][r] + (IF a = receiver THEN delta[r] ELSE 0)
  <2>1. userres \in [Accounts -> Weight]
    BY <1>1 DEF StakingTypeOK
  <2>2. /\ Plus(userres[receiver], delta) \in Weight
        /\ \A r \in Resource : Plus(userres[receiver], delta)[r] = userres[receiver][r] + delta[r]
    BY <2>1, PlusSums
  <2>3. userres' = [userres EXCEPT ![receiver] = Plus(userres[receiver], delta)]
    BY DEF Restaked
  <2> QED
    BY <2>1, <2>2, <2>3 DEF Weight
<1>7. StakingTypeOK'
  <2>1. delband' \in [Accounts \X Accounts -> Weight]
    BY <1>1, PlusSums DEF StakingTypeOK, Delegated
  <2>2. refunds' \in [Accounts -> RefundRequest \cup {NoRow}]
    BY <1>1 DEF StakingTypeOK, Restaked
  <2>3. deferred' \in [Accounts -> Nat \cup {NoRow}]
    BY <1>1 DEF StakingTypeOK, Restaked
  <2> QED
    BY <1>1, <1>2, <1>5, <1>6, <2>1, <2>2, <2>3 DEF StakingTypeOK
<1>8. PICK d : d = update_rex_stake(DB, from)
  OBVIOUS
<1>9. /\ Leads(DB, d, 0, now) /\ AllCovered(d)
      /\ d.order = DB.order /\ d.pool = DB.pool /\ d.fund = DB.fund /\ d.loan = DB.loan
      /\ \A a \in Accounts : Holding(d, a) => Holding(DB, a)
  <2>1. PICK v \in Accounts : v = from
    OBVIOUS
  <2>2. d = update_rex_stake(DB, v)
    BY <1>8, <2>1
  <2>3. Leads(DB, d, 0, now) /\ AllCovered(d)
    BY <1>1, <2>2, Revalued
  <2>4. d.order = DB.order /\ d.pool = DB.pool /\ d.fund = DB.fund /\ d.loan = DB.loan
    BY <1>1, <2>2, Revalued
  <2>5. \A a \in Accounts : Holding(d, a) => Holding(DB, a)
    BY <1>1, <2>2, Revalued
  <2> QED
    BY <2>3, <2>4, <2>5
<1>10. ASSUME NEW a \in Accounts, Voting(DB, a)
       PROVE  Voting(DB', a)
  <2>1. PICK e : e = DB'
    OBVIOUS
  <2>2. DB.voters = voters /\ e.voters = voters'
    BY <2>1 DEF DB
  <2>3. voters[a] # NoRow /\ voters[a].votes
    BY <1>10, <2>2 DEF Voting
  <2>4. voters'[a] # NoRow /\ voters'[a].votes
    <3>1. CASE a = from
      <4>1. row # NoRow
        BY NoRowIsNone
      <4>2. voters'[from] = row /\ row.votes = voters[from].votes
        BY <1>4a, <1>5, <2>3, <3>1, Zenon
      <4> QED
        BY <2>3, <3>1, <4>1, <4>2, Zenon
    <3>2. CASE a # from
      BY <1>5, <2>3, <3>2
    <3> QED
      BY <3>1, <3>2
  <2>5. Voting(e, a)
    BY <2>2, <2>4 DEF Voting
  <2> QED
    BY <2>1, <2>5
<1>11. Beside(d)
  <2>1. DB.order = order /\ DB.pool = pool /\ DB.fund = fund /\ DB.loan = loan
    BY DEF DB
  <2>2. bal' = d.bal /\ UNCHANGED <<pool, fund, order, loan>>
    BY <1>8 DEF RevalueShares
  <2>3. Good(d, now')
    BY <1>9 DEF Leads
  <2> QED
    BY <1>3, <1>7, <1>9, <1>10, <2>1, <2>2, <2>3 DEF Beside
<1>12. /\ DB' \in Db /\ Good(DB', now') /\ AllCovered(DB') /\ Surplus(DB') = 0
       /\ VotesOK(DB') /\ NamesOK(DB')
       /\ \A a \in Accounts : \A r \in Resource : LentTo(DB', a, r) = LentTo(DB, a, r)
       /\ Undiluted /\ SellersFirstStep
  BY <1>11, BesideKeeps
<1>13. StakeBacked'
  <2>1. refunds' = [refunds EXCEPT ![from] = request]
    BY DEF Restaked
  <2>2. pay \in Int /\ pay + RefundOwed(from) = Sum(delta) + Owed(request)
    BY DEF Balanced
  <2> QED
    BY <1>1, <1>2, <2>1, <2>2, StakeStaysBacked
<1>14. ResourcesExplained'
  <2>1. PICK e \in Db : e = DB'
    BY <1>12
  <2>2. e.userres = userres' /\ DB.userres = userres
    BY <2>1 DEF DB
  <2>3. ASSUME NEW a \in Accounts, NEW r \in Resource
        PROVE  Unlent(e, a, r) = Unlent(DB, a, r) + (IF a = receiver THEN delta[r] ELSE 0)
    <3>1. PICK u \in Int : u = userres[a][r]
      BY <1>1 DEF StakingTypeOK, Weight
    <3>2. PICK l \in Int : l = LentTo(DB, a, r)
      BY <1>1, SumsAreInts
    <3>3. PICK c \in Int : c = delta[r]
      BY DEF Weight
    <3>4. Unlent(DB, a, r) = u - l
      BY <2>2, <3>1, <3>2 DEF Unlent
    <3>5. Unlent(e, a, r) = (u + (IF a = receiver THEN c ELSE 0)) - l
      BY <1>6, <1>12, <2>1, <2>2, <3>1, <3>2, <3>3 DEF Unlent
    <3> QED
      BY <3>3, <3>4, <3>5
  <2> QED
    BY <1>1, <2>1, <2>2, <2>3, LimitsStayExplained
<1>15. RequestsPast'
  <2>1. /\ refunds'[from] = request
        /\ \A a \in Accounts \ {from} : refunds'[a] = refunds[a]
    BY <1>1 DEF StakingTypeOK, Restaked
  <2> QED
    BY <1>1, <2>1 DEF RequestsPast, Balanced
<1> QED
  BY <1>7, <1>12, <1>13, <1>14, <1>15 DEF RexInv

\* A refund that is due and paid, by the owner or by the deferred transaction.
LEMMA RexRefundKeeps ==
  ASSUME RexInv, NEW owner \in Accounts, RefundDue(owner), PayRefund(owner),
         deferred' \in {deferred, [deferred EXCEPT ![owner] = NoRow]},
         UNCHANGED <<now, delband, userres, voters, activated>>, UNCHANGED rexVars
  PROVE  RexInv' /\ Undiluted /\ SellersFirstStep
<1>1. /\ StakingTypeOK /\ StakeBacked /\ ResourcesExplained /\ RequestsPast
      /\ DB \in Db /\ Good(DB, now) /\ AllCovered(DB) /\ IsFiniteSet(Accounts)
  BY StakingAssumption DEF RexInv, Good, StakingAssumption
<1>2. PICK old \in RefundRequest : old = refunds[owner]
  BY <1>1 DEF RefundDue, StakingTypeOK
<1>3. PICK pay \in Nat : pay = Sum(old.amount)
  BY DEF RefundRequest, Sum, Resource
<1>4. refunds[owner] # NoRow /\ RefundOwed(owner) = pay
  BY <1>2, <1>3 DEF RefundDue, RefundOwed
<1>5. Pay(StakeAccount, owner, pay)
  BY <1>2, <1>3 DEF PayRefund
<1>6. /\ tokens' \in [Holders -> Int]
      /\ tokens'[StakeAccount] = tokens[StakeAccount] - pay
  BY <1>1, <1>5, PaidOut
<1>7. tokens'[RexAccount] = tokens[RexAccount] /\ tokens'[NamesAccount] = tokens[NamesAccount]
  <2>1. /\ RexAccount \in Holders /\ NamesAccount \in Holders /\ StakeAccount \in Holders
        /\ owner \in Holders /\ RexAccount # owner /\ NamesAccount # owner
        /\ RexAccount # StakeAccount /\ NamesAccount # StakeAccount
    BY <1>1, SurplusIsInt, HoldersDiffer
  <2> QED
    BY <1>1, <1>5, <2>1, PaidBeside
<1>8. /\ refunds' \in [Accounts -> RefundRequest \cup {NoRow}]
      /\ refunds'[owner] = NoRow
      /\ \A a \in Accounts \ {owner} : refunds'[a] = refunds[a]
  BY <1>1 DEF StakingTypeOK, PayRefund
<1>9. StakingTypeOK'
  <2>1. deferred' \in [Accounts -> Nat \cup {NoRow}]
    BY <1>1 DEF StakingTypeOK
  <2> QED
    BY <1>1, <1>6, <1>8, <2>1 DEF StakingTypeOK
<1>10. Beside(DB)
  <2>1. \A a \in Accounts : Voting(DB, a) => Voting(DB', a)
    BY DEF Voting, DB
  <2>2. /\ DB.order = order /\ DB.pool = pool /\ DB.fund = fund /\ DB.loan = loan /\ DB.bal = bal
    BY DEF DB
  <2>3. bal' = bal /\ UNCHANGED <<pool, fund, order, loan>> /\ now' = now
    BY DEF rexVars
  <2> QED
    BY <1>1, <1>7, <1>9, <2>1, <2>2, <2>3 DEF Beside
<1>11. /\ DB' \in Db /\ Good(DB', now') /\ AllCovered(DB') /\ Surplus(DB') = 0
       /\ VotesOK(DB') /\ NamesOK(DB')
       /\ \A a \in Accounts : \A r \in Resource : LentTo(DB', a, r) = LentTo(DB, a, r)
       /\ Undiluted /\ SellersFirstStep
  BY <1>10, BesideKeeps
<1>12. \A a \in Accounts : /\ DelegatedBy(a)' = DelegatedBy(a)
                           /\ DelegatedTo(a)' = DelegatedTo(a)
  BY DEF DelegatedBy, DelegatedTo
<1>13. StakeBacked'
  <2>1. \A a \in Accounts : DelegatedBy(a) \in Int /\ RefundOwed(a) \in Int
    BY <1>1, DelegatedAreInts
  <2>2. RefundOwed(owner)' = 0 /\ \A a \in Accounts \ {owner} : RefundOwed(a)' = RefundOwed(a)
    BY <1>8 DEF RefundOwed
  <2>3. PICK f : f = [a \in Accounts |-> DelegatedBy(a) + RefundOwed(a)]
    OBVIOUS
  <2>4. PICK h : h = [a \in Accounts |-> DelegatedBy(a)' + RefundOwed(a)']
    OBVIOUS
  <2>5. f \in [Accounts -> Int] /\ h \in [Accounts -> Int]
    BY <1>12, <2>1, <2>2, <2>3, <2>4
  <2>6. PICK paid \in Int : paid = - pay
    OBVIOUS
  <2>7. h[owner] = f[owner] + paid
    BY <1>4, <1>12, <2>1, <2>2, <2>3, <2>4, <2>6
  <2>8. \A a \in Accounts \ {owner} : h[a] = f[a]
    BY <1>12, <2>2, <2>3, <2>4
  <2>9. SumFunctionOnSet(h, Accounts) = SumFunctionOnSet(f, Accounts) + paid
    BY <1>1, <2>5, <2>7, <2>8, SumUpdate
  <2>10. tokens[StakeAccount] = SumFunctionOnSet(f, Accounts)
    BY <1>1, <2>3 DEF StakeBacked
  <2>11. SumFunctionOnSet(f, Accounts) \in Int
    BY <1>1, <2>5, SumIsInt
  <2>12. tokens'[StakeAccount] = SumFunctionOnSet(h, Accounts)
    BY <1>6, <2>6, <2>9, <2>10, <2>11
  <2> QED
    BY <2>4, <2>12 DEF StakeBacked
<1>14. ResourcesExplained'
  BY <1>1, <1>11, <1>12 DEF ResourcesExplained
<1>15. RequestsPast'
  BY <1>1, <1>8 DEF RequestsPast
<1> QED
  BY <1>9, <1>11, <1>13, <1>14, <1>15 DEF RexInv

\* Good rows of shares stay good as time passes.
LEMMA GoodLater ==
  ASSUME NEW t \in 0 .. MaxTime, NEW s, s \in {t, t + 1}, NEW db, Good(db, t)
  PROVE  Good(db, s)
<1>1. RowsGood(db, s)
  BY GoodRowLater DEF Good, RowsGood
<1>2. ASSUME NEW i \in LoanIds PROVE TimelyLoan(db, i, s)
  <2>1. TimelyLoan(db, i, t)
    BY DEF Good, Timely
  <2>2. db.loan[i] # NoRow => db.loan[i].expiration \in Nat
    BY DbFields DEF Good, RexLoan
  <2>3. LoanTerm \in Nat /\ t \in Nat /\ (s = t \/ s = t + 1)
    BY RexAssumption, StakingAssumption DEF RexAssumption, StakingAssumption
  <2> QED
    BY <2>1, <2>2, <2>3 DEF TimelyLoan
<1> QED
  BY <1>1, <1>2 DEF Good, Timely

\* Steps that leave the tables alone: a transaction that fails when its time has
\* come, activation, time, and no step at all.
LEMMA RexTablesKept ==
  ASSUME RexInv, now' \in 0 .. MaxTime, now' \in {now, now + 1}, activated' \in BOOLEAN,
         deferred' \in [Accounts -> Nat \cup {NoRow}],
         UNCHANGED <<tokens, delband, userres, refunds, voters>>, UNCHANGED rexVars
  PROVE  RexInv' /\ Undiluted /\ SellersFirstStep
<1>1. /\ StakingTypeOK /\ StakeBacked /\ ResourcesExplained /\ RequestsPast
      /\ DB \in Db /\ Good(DB, now) /\ AllCovered(DB) /\ now \in 0 .. MaxTime
  BY DEF RexInv, Good, StakingTypeOK
<1>2. StakingTypeOK'
  BY <1>1 DEF StakingTypeOK
<1>3. Beside(DB)
  <2>1. \A a \in Accounts : Voting(DB, a) => Voting(DB', a)
    BY DEF Voting, DB
  <2>2. /\ DB.order = order /\ DB.pool = pool /\ DB.fund = fund /\ DB.loan = loan /\ DB.bal = bal
    BY DEF DB
  <2>3. bal' = bal /\ UNCHANGED <<pool, fund, order, loan>>
    BY DEF rexVars
  <2>4. Good(DB, now')
    BY <1>1, GoodLater
  <2> QED
    BY <1>1, <1>2, <2>1, <2>2, <2>3, <2>4 DEF Beside
<1>4. /\ DB' \in Db /\ Good(DB', now') /\ AllCovered(DB') /\ Surplus(DB') = 0
      /\ VotesOK(DB') /\ NamesOK(DB')
      /\ \A a \in Accounts : \A r \in Resource : LentTo(DB', a, r) = LentTo(DB, a, r)
      /\ Undiluted /\ SellersFirstStep
  BY <1>3, BesideKeeps
<1>5. StakeBacked' /\ ResourcesExplained'
  <2>1. \A a \in Accounts : /\ DelegatedBy(a)' = DelegatedBy(a) /\ DelegatedTo(a)' = DelegatedTo(a)
                            /\ RefundOwed(a)' = RefundOwed(a)
    BY DEF DelegatedBy, DelegatedTo, RefundOwed
  <2>2. [a \in Accounts |-> DelegatedBy(a)' + RefundOwed(a)']
          = [a \in Accounts |-> DelegatedBy(a) + RefundOwed(a)]
    BY <2>1
  <2> QED
    BY <1>1, <1>4, <2>1, <2>2 DEF StakeBacked, ResourcesExplained
<1>6. RequestsPast'
  <2> SUFFICES ASSUME NEW a \in Accounts, refunds[a] # NoRow
               PROVE  refunds[a].request_time <= now'
    BY DEF RequestsPast
  <2>1. refunds[a] \in RefundRequest
    BY <1>1 DEF StakingTypeOK
  <2>2. refunds[a].request_time \in Nat /\ refunds[a].request_time <= now
    BY <1>1, <2>1 DEF RefundRequest, RequestsPast
  <2> QED
    BY <1>1, <2>2
<1> QED
  BY <1>2, <1>4, <1>5, <1>6 DEF RexInv

\* At first there is no pool, and nobody has anything in REX.
LEMMA RexInitHolds ==
  Init => RexInv
<1> SUFFICES ASSUME Init
             PROVE  RexInv
  OBVIOUS
<1>1. StakingInv
  BY StakingInitHolds DEF Init
<1>2. /\ StakingTypeOK /\ StakeBacked /\ TotalsMatch /\ RequestsPast
      /\ IsFiniteSet(Accounts) /\ IsFiniteSet(LoanIds)
  <2>1. IsFiniteSet(LoanIds)
    BY FS_Interval, RexAssumption DEF LoanIds, RexAssumption
  <2> QED
    BY <1>1, <2>1, StakingAssumption DEF StakingInv, StakingAssumption
<1>3. PICK db : db = DB
  OBVIOUS
<1>4. /\ db = [tokens |-> tokens, userres |-> userres, voters |-> voters, pool |-> NoRow,
               fund |-> [a \in Accounts |-> NoRow], bal |-> [a \in Accounts |-> NoRow],
               order |-> [a \in Accounts |-> NoRow], loan |-> [i \in LoanIds |-> NoRow], ok |-> TRUE]
  BY <1>3 DEF DB, Init
<1>5. db \in Db
  BY <1>2, <1>4 DEF Db, StakingTypeOK
<1>6. /\ db.pool = NoRow
      /\ \A a \in Accounts : db.fund[a] = NoRow /\ db.bal[a] = NoRow /\ db.order[a] = NoRow
      /\ \A i \in LoanIds : db.loan[i] = NoRow
      /\ db.tokens = tokens /\ db.userres = userres /\ db.voters = voters
  BY <1>4
<1>7. PoolOf(db) = EmptyPool /\ PoolOK(EmptyPool)
  BY <1>6 DEF PoolOf, EmptyPool, PoolOK, Pool
<1>8. /\ \A a \in Accounts : SharesOf(db, a) = 0 /\ ClaimOf(db, a) = 0
      /\ \A i \in LoanIds : LoanFund(db, i) = 0 /\ LoanStake(db, i) = 0
      /\ \A i \in LoanIds : \A a \in Accounts : \A r \in Resource : StakeTo(db, i, a, r) = 0
  BY <1>6 DEF SharesOf, ClaimOf, FundOf, IsFilled, LoanFund, LoanStake, StakeTo
<1>9. /\ SharesOut(db) = 0 /\ Claims(db) = 0 /\ LoanFunds(db) = 0 /\ LoanStakes(db) = 0
  <2>1. PICK f : f = [a \in Accounts |-> SharesOf(db, a)]
    OBVIOUS
  <2>2. PICK g : g = [a \in Accounts |-> ClaimOf(db, a)]
    OBVIOUS
  <2>3. PICK h : h = [i \in LoanIds |-> LoanFund(db, i)]
    OBVIOUS
  <2>4. PICK s : s = [i \in LoanIds |-> LoanStake(db, i)]
    OBVIOUS
  <2>5. SumFunctionOnSet(f, Accounts) = 0
    BY <1>2, <1>8, <2>1, SumZero
  <2>6. SumFunctionOnSet(g, Accounts) = 0
    BY <1>2, <1>8, <2>2, SumZero
  <2>7. SumFunctionOnSet(h, LoanIds) = 0
    BY <1>2, <1>8, <2>3, SumZero
  <2>8. SumFunctionOnSet(s, LoanIds) = 0
    BY <1>2, <1>8, <2>4, SumZero
  <2> QED
    BY <1>5, <2>1, <2>2, <2>3, <2>4, <2>5, <2>6, <2>7, <2>8, SumsOfEntries
<1>10. ASSUME NEW a \in Accounts, NEW r \in Resource
       PROVE  LentTo(db, a, r) = 0
  <2>1. PICK f : f = [i \in LoanIds |-> StakeTo(db, i, a, r)]
    OBVIOUS
  <2>2. SumFunctionOnSet(f, LoanIds) = 0
    BY <1>2, <1>8, <2>1, SumZero
  <2> QED
    BY <1>5, <2>1, <2>2, SumsOfEntries
<1>11. Good(db, now)
  <2>1. PoolGood(db)
    BY <1>7, <1>9 DEF PoolGood, EmptyPool
  <2>2. RowsGood(db, now) /\ ProceedsGood(db) /\ \A i \in LoanIds : LoanGood(db, i)
    BY <1>6 DEF RowsGood, ProceedsGood, IsFilled, LoanGood
  <2>3. Timely(db, now)
    BY <1>6 DEF Timely, TimelyLoan
  <2> QED
    BY <1>5, <2>1, <2>2, <2>3 DEF Good
<1>12. AllCovered(db) /\ VotesOK(db) /\ NamesOK(db)
  BY <1>6, <1>7 DEF AllCovered, Covers, IsOpen, VotesOK, Holding, NamesOK, EmptyPool
<1>13. Surplus(db) = 0
  <2>1. tokens[RexAccount] = 0
    BY RexAssumption DEF RexAssumption, Init, StakingInit
  <2> QED
    BY <1>6, <1>7, <1>9, <2>1 DEF Surplus, EmptyPool
<1>14. ResourcesExplained
  <2> SUFFICES ASSUME NEW a \in Accounts, NEW r \in Resource
               PROVE  userres[a][r] = DelegatedTo(a)[r] + LentTo(DB, a, r)
    BY DEF ResourcesExplained
  <2>1. DelegatedTo(a) = userres[a] /\ userres[a][r] \in Int
    BY <1>2 DEF TotalsMatch, StakingTypeOK, Weight
  <2> QED
    BY <1>3, <1>10, <2>1
<1> QED
  BY <1>2, <1>3, <1>11, <1>12, <1>13, <1>14 DEF RexInv

\* Staking by accounts that hold shares.
LEMMA RexChangebwKeeps ==
  ASSUME RexInv, NEW source \in Accounts, NEW receiver \in Accounts, NEW delta \in Weight,
         NEW transfer \in BOOLEAN,
         NEW from \in Accounts, from = StakeOwner(source, receiver, transfer),
         changebw(source, receiver, delta, transfer, RexStakeDelta(DB, from)),
         RevalueShares(from), UNCHANGED <<now, activated>>
  PROVE  RexInv' /\ Undiluted /\ SellersFirstStep
<1>1. PICK extra \in Int : extra = RexStakeDelta(DB, from)
  <2>1. Good(DB, now) /\ AllCovered(DB) /\ VotesOK(DB)
    BY DEF RexInv
  <2>2. PICK d : d = update_rex_stake(DB, from)
    OBVIOUS
  <2>3. RexStakeDelta(DB, from) \in Int
    BY <2>1, <2>2, Revalued
  <2> QED
    BY <2>3
<1>2. changebw(source, receiver, delta, transfer, extra)
  BY <1>1
<1>3. PICK pay \in Nat, request \in RefundRequest \cup {NoRow}, due \in Nat \cup {NoRow},
           stake \in Int :
             /\ Restaked(source, from, receiver, delta, pay, request, due, stake)
             /\ Balanced(from, delta, pay, request, due)
  <2>1. Rebalanced(source, from, receiver, delta)
    BY <1>2, ChangebwRestakes
  <2> QED
    BY <2>1 DEF Rebalanced
<1> QED
  BY <1>3, RestakeKeeps

\* Delegating, undelegating, the two paths of a refund, activation and time.
LEMMA StakingStepKeeps ==
  ASSUME RexInv, StakingStep
  PROVE  RexInv' /\ Undiluted /\ SellersFirstStep
<1>1. StakingTypeOK
  BY DEF RexInv
<1>2. CASE \E from, receiver \in Accounts, q \in Quantities, transfer \in BOOLEAN :
             RexDelegatebw(from, receiver, q, transfer)
  <2>1. PICK source \in Accounts, receiver \in Accounts, q \in Quantities, transfer \in BOOLEAN :
          RexDelegatebw(source, receiver, q, transfer)
    BY <1>2
  <2>2. PICK from \in Accounts : from = StakeOwner(source, receiver, transfer)
    BY DEF StakeOwner
  <2>3. /\ changebw(source, receiver, q, transfer, RexStakeDelta(DB, from))
        /\ RevalueShares(from) /\ UNCHANGED <<now, activated>>
    BY <2>1, <2>2 DEF RexDelegatebw, StakeOwner
  <2>4. q \in Weight
    BY QuantityTypes
  <2> QED
    BY <2>2, <2>3, <2>4, RexChangebwKeeps
<1>3. CASE \E from, receiver \in Accounts, q \in Quantities : RexUndelegatebw(from, receiver, q)
  <2>1. PICK source \in Accounts, receiver \in Accounts, q \in Quantities :
          RexUndelegatebw(source, receiver, q)
    BY <1>3
  <2>2. PICK transfer \in BOOLEAN : transfer = FALSE
    BY Zenon
  <2>3. PICK delta \in Weight : delta = Negative(q)
    BY QuantityTypes
  <2>4. /\ changebw(source, receiver, delta, transfer, RexStakeDelta(DB, source))
        /\ RevalueShares(source) /\ UNCHANGED <<now, activated>>
    BY <2>1, <2>2, <2>3, Zenon DEF RexUndelegatebw
  <2>5. source = StakeOwner(source, receiver, transfer)
    BY <2>2 DEF StakeOwner
  <2> QED
    BY <2>4, <2>5, RexChangebwKeeps
<1>4. CASE \E owner \in Accounts : (refund(owner) \/ DeferredRefund(owner)) /\ UNCHANGED rexVars
  <2>1. PICK owner \in Accounts : (refund(owner) \/ DeferredRefund(owner)) /\ UNCHANGED rexVars
    BY <1>4
  <2>2. CASE refund(owner)
    BY <2>1, <2>2, RexRefundKeeps DEF refund
  <2>3. CASE DeferredRefund(owner) /\ PayRefund(owner) /\ RefundDue(owner)
    BY <2>1, <2>3, RexRefundKeeps DEF DeferredRefund
  <2>4. CASE DeferredRefund(owner) /\ UNCHANGED <<tokens, refunds>>
    <3>1. deferred' \in [Accounts -> Nat \cup {NoRow}]
      BY <1>1, <2>4 DEF DeferredRefund, StakingTypeOK
    <3>2. now' \in 0 .. MaxTime /\ now' \in {now, now + 1} /\ activated' \in BOOLEAN
      BY <1>1, <2>4 DEF DeferredRefund, StakingTypeOK
    <3> QED
      BY <2>1, <2>4, <3>1, <3>2, RexTablesKept DEF DeferredRefund
  <2> QED
    BY <2>1, <2>2, <2>3, <2>4 DEF DeferredRefund
<1>5. CASE (Activate \/ AdvanceTime) /\ UNCHANGED rexVars
  <2>1. now' \in 0 .. MaxTime /\ now' \in {now, now + 1} /\ activated' \in BOOLEAN
    <3>1. now \in 0 .. MaxTime /\ activated \in BOOLEAN /\ MaxTime \in Nat
      BY <1>1, StakingAssumption DEF StakingTypeOK, StakingAssumption
    <3>2. CASE Activate
      BY <3>1, <3>2 DEF Activate
    <3>3. CASE AdvanceTime
      BY <3>1, <3>3 DEF AdvanceTime
    <3> QED
      BY <1>5, <3>2, <3>3
  <2>2. deferred' \in [Accounts -> Nat \cup {NoRow}]
    BY <1>1, <1>5 DEF Activate, AdvanceTime, StakingTypeOK
  <2> QED
    BY <1>5, <2>1, <2>2, RexTablesKept DEF Activate, AdvanceTime
<1> QED
  BY <1>2, <1>3, <1>4, <1>5 DEF StakingStep

\* Paying into the fund.
LEMMA DepositInstalled ==
  ASSUME RexInv, NEW owner \in Accounts, NEW amount \in Int, deposit(owner, amount)
  PROVE  RexInv' /\ Undiluted /\ SellersFirstStep
<1>1. PICK e : e = transfer_to_fund(TokensMoved(DB, owner, RexAccount, amount), owner, amount)
  OBVIOUS
<1>2. Commit(e) /\ UNCHANGED stakingRest /\ e.ok
  BY <1>1 DEF deposit, Commit
<1>3. Steps(DB, e, now)
  BY <1>1, <1>2, SoundNow, DepositSteps
<1> QED
  BY <1>2, <1>3, Committed

\* Taking money out.
LEMMA WithdrawInstalled ==
  ASSUME RexInv, NEW owner \in Accounts, NEW amount \in Int, withdraw(owner, amount)
  PROVE  RexInv' /\ Undiluted /\ SellersFirstStep
<1>1. PICK e : e = Withdrawn(DB, owner, amount)
  OBVIOUS
<1>2. Commit(e) /\ UNCHANGED stakingRest /\ e.ok
  BY <1>1 DEF withdraw, Commit, Withdrawn, CollectFilled
<1>3. Steps(DB, e, now)
  BY <1>1, <1>2, SoundNow, WithdrawSteps
<1> QED
  BY <1>2, <1>3, Committed

\* Buying shares.
LEMMA BuyrexInstalled ==
  ASSUME RexInv, NEW owner \in Accounts, NEW amount \in Int, buyrex(owner, amount)
  PROVE  RexInv' /\ Undiluted /\ SellersFirstStep
<1>1. PICK m : m = transfer_from_fund(DB, owner, amount)
  OBVIOUS
<1>2. PICK r : r = BuyShares(m, owner, amount)
  OBVIOUS
<1>3. PICK run : run = runrex(r.db, 2)
  OBVIOUS
<1>4. PICK delta : delta = r.delta
  OBVIOUS
<1>5. PICK force : force = FALSE
  BY Zenon
<1>6. PICK e : e = update_rex_account(run, owner, 0, delta, force)
  OBVIOUS
<1>7. Commit(e) /\ UNCHANGED stakingRest
  <2>1. Commit(update_rex_account(run, owner, 0, delta, FALSE)) /\ UNCHANGED stakingRest
    BY <1>1, <1>2, <1>3, <1>4 DEF buyrex
  <2> QED
    BY <1>5, <1>6, <2>1, Zenon
<1>8. e.ok
  BY <1>7 DEF Commit
<1>9. Purchase(m, owner, amount, delta, force, r, run, e)
  BY <1>2, <1>3, <1>6, <1>8 DEF Purchase
<1>10. amount \in Nat /\ amount > 0 /\ Voting(DB, owner)
  BY DEF buyrex, check_voting_requirement, Voting
<1>11. now \in 0 .. MaxTime /\ Sound(DB, now)
  BY SoundNow
<1>12. Steps(DB, e, now)
  BY <1>1, <1>4, <1>9, <1>10, <1>11, BuyrexSteps
<1> QED
  BY <1>7, <1>12, Committed

\* Giving up stake for shares.
LEMMA UnstakeInstalled ==
  ASSUME RexInv, NEW owner \in Accounts, NEW receiver \in Accounts, NEW q \in Weight,
         unstaketorex(owner, receiver, q)
  PROVE  RexInv' /\ Undiluted /\ SellersFirstStep
<1>1. PICK freed : freed = [Require(DB, NonNegative(TotalAfter(receiver, Negative(q))))
                              EXCEPT !.userres[receiver] = TotalAfter(receiver, Negative(q))]
  OBVIOUS
<1>2. PICK m : m = StakeToRex(freed, Sum(q))
  OBVIOUS
<1>3. PICK r : r = BuyShares(m, owner, Sum(q))
  OBVIOUS
<1>4. PICK run : run = runrex(r.db, 2)
  OBVIOUS
<1>5. PICK delta : delta = 0
  OBVIOUS
<1>6. PICK force : force = TRUE
  BY Zenon
<1>7. PICK e : e = update_rex_account(run, owner, 0, delta, force)
  OBVIOUS
<1>8. Commit(e)
  <2>1. Commit(update_rex_account(run, owner, 0, 0, TRUE))
    BY <1>1, <1>2, <1>3, <1>4, Zenon DEF unstaketorex
  <2> QED
    BY <1>5, <1>6, <1>7, <2>1, Zenon
<1>9. /\ UNCHANGED <<now, refunds, deferred, activated>> /\ Sum(q) > 0 /\ Voting(DB, owner)
      /\ Delegated(owner, receiver, Negative(q))
  BY DEF unstaketorex, check_voting_requirement, Voting, Delegated
<1>10. Purchase(m, owner, Sum(q), delta, force, r, run, e)
  BY <1>3, <1>4, <1>7, <1>8 DEF Purchase, Commit
<1>11. Unstaking(receiver, q, freed, m)
  BY <1>1, <1>2 DEF Unstaking
<1>12. HasOk(m)
  <2>1. freed \in Db
    BY <1>11, LimitsFreed
  <2>2. HasOk(freed)
    BY <2>1, DbHasOk
  <2> QED
    BY <1>2, <2>2, HelpersCarry DEF StakeToRex, Carries, HasOk
<1> QED
  BY <1>5, <1>8, <1>9, <1>10, <1>11, <1>12, UnstakeSteps

\* Selling shares.
LEMMA SellrexInstalled ==
  ASSUME RexInv, NEW owner \in Accounts, NEW rex \in Int, sellrex(owner, rex)
  PROVE  RexInv' /\ Undiluted /\ SellersFirstStep
<1>1. PICK run : run = runrex(DB, 2)
  OBVIOUS
<1>2. PICK matured : matured = RowSet(run, owner, process_rex_maturities(run.bal[owner], now))
  OBVIOUS
<1>3. PICK current : current = fill_rex_order(matured, owner, rex)
  OBVIOUS
<1>4. PICK updated : updated = update_rex_account(current.db, owner, current.proceeds,
                                                  current.stake_change, FALSE)
  OBVIOUS
<1>5. PICK e : e = IF current.success THEN updated
                   ELSE OrderSet(updated, owner, OrderWith(updated.order[owner], rex))
  OBVIOUS
<1>6. /\ rex > 0 /\ bal[owner] # NoRow /\ UNCHANGED stakingRest
      /\ rex <= matured.bal[owner].matured_rex
      /\ RexInSellOrder(e, owner) <= e.bal[owner].matured_rex
      /\ Commit(e)
  <2>1. matured = [run EXCEPT !.bal[owner] = process_rex_maturities(@, now)]
    BY <1>2 DEF RowSet
  <2>2. Queued(updated, owner, rex) = OrderSet(updated, owner, OrderWith(updated.order[owner], rex))
    BY DEF Queued, OrderSet
  <2>3. e = IF current.success THEN updated ELSE Queued(updated, owner, rex)
    BY <1>5, <2>2
  <2> QED
    BY <1>1, <1>3, <1>4, <2>1, <2>3, Zenon DEF sellrex
<1>7. DB.bal[owner] # NoRow /\ e.ok
  <2>1. bal[owner] # NoRow /\ Commit(e)
    BY <1>6, Zenon
  <2>2. DB.bal = bal
    BY Zenon DEF DB
  <2>3. e.ok
    BY <2>1, Zenon DEF Commit
  <2> QED
    BY <2>1, <2>2, <2>3, Zenon
<1>8. Selling(DB, owner, now, rex, run, matured, current, updated, e)
  BY <1>1, <1>2, <1>3, <1>4, <1>5, <1>6, <1>7, Zenon DEF Selling
<1>9. Sound(DB, now) /\ now \in 0 .. MaxTime /\ now \in Nat
  BY SoundNow
<1>10. Steps(DB, e, now)
  BY <1>6, <1>7, <1>8, <1>9, SellrexSteps
<1> QED
  BY <1>6, <1>10, Committed

\* Withdrawing an order.
LEMMA CancelInstalled ==
  ASSUME RexInv, NEW owner \in Accounts, cnclrexorder(owner)
  PROVE  RexInv' /\ Undiluted /\ SellersFirstStep
<1>1. PICK e : e = EraseOrder(DB, owner)
  OBVIOUS
<1>2. Commit(e) /\ UNCHANGED stakingRest /\ IsOpen(DB, owner)
  BY <1>1 DEF cnclrexorder
<1>3. Steps(DB, e, now)
  BY <1>1, <1>2, SoundNow, CancelSteps
<1> QED
  BY <1>2, <1>3, Committed

\* Bringing the vote up to date.
LEMMA UpdaterexInstalled ==
  ASSUME RexInv, NEW owner \in Accounts, updaterex(owner)
  PROVE  RexInv' /\ Undiluted /\ SellersFirstStep
<1>1. PICK run : run = runrex(DB, 2)
  OBVIOUS
<1>2. PICK stake : stake = IF rex_available(run) THEN Value(run.pool, run.bal[owner].rex_balance) ELSE 0
  OBVIOUS
<1>3. PICK set : set = RowSet(run, owner, StakeSet(run.bal[owner], stake))
  OBVIOUS
<1>4. PICK voted : voted = update_rex_account(set, owner, 0, stake - run.bal[owner].vote_stake, TRUE)
  OBVIOUS
<1>5. PICK e : e = RowSet(voted, owner, process_rex_maturities(voted.bal[owner], now))
  OBVIOUS
<1>6. bal[owner] # NoRow /\ UNCHANGED stakingRest /\ Commit(e)
  <2>1. set = [run EXCEPT !.bal[owner].vote_stake = stake]
    BY <1>3 DEF RowSet, StakeSet
  <2>2. e = [voted EXCEPT !.bal[owner] = process_rex_maturities(@, now)]
    BY <1>5 DEF RowSet
  <2> QED
    BY <1>1, <1>2, <1>4, <2>1, <2>2, Zenon DEF updaterex
<1>7. DB.bal[owner] # NoRow /\ e.ok
  <2>1. DB.bal = bal
    BY Zenon DEF DB
  <2>2. Commit(e)
    BY <1>6, Zenon
  <2>3. e.ok
    BY <2>2, Zenon DEF Commit
  <2> QED
    BY <1>6, <2>1, <2>3, Zenon
<1>8. Updating(run, owner, now, stake, set, voted, e)
  BY <1>2, <1>3, <1>4, <1>5, <1>7 DEF Updating
<1>9. Sound(DB, now) /\ now \in 0 .. MaxTime
  BY SoundNow
<1>10. Steps(DB, e, now)
  BY <1>1, <1>7, <1>8, <1>9, UpdaterexSteps
<1> QED
  BY <1>6, <1>10, Committed

\* One bucket for all shares that have not matured.
LEMMA ConsolidateInstalled ==
  ASSUME RexInv, NEW owner \in Accounts, consolidate(owner)
  PROVE  RexInv' /\ Undiluted /\ SellersFirstStep
<1>1. PICK run : run = runrex(DB, 2)
  OBVIOUS
<1>2. PICK c : c = CollectFilled(run, owner)
  OBVIOUS
<1>3. PICK row : row = consolidate_rex_balance(c.bal[owner], now, RexInSellOrder(c, owner))
  OBVIOUS
<1>4. PICK e : e = RowSet(c, owner, row)
  OBVIOUS
<1>5. bal[owner] # NoRow /\ UNCHANGED stakingRest /\ Commit(e)
  <2>1. e = [c EXCEPT !.bal[owner] = consolidate_rex_balance(@, now, RexInSellOrder(c, owner))]
    BY <1>3, <1>4 DEF RowSet
  <2>2. c = update_rex_account(run, owner, 0, 0, FALSE)
    BY <1>2 DEF CollectFilled
  <2> QED
    BY <1>1, <2>1, <2>2, Zenon DEF consolidate
<1>6. DB.bal[owner] # NoRow /\ c.ok
  BY <1>4, <1>5 DEF DB, Commit, RowSet
<1>7. Steps(DB, e, now)
  BY <1>1, <1>2, <1>3, <1>4, <1>6, SoundNow, ConsolidateSteps
<1> QED
  BY <1>5, <1>7, Committed

\* Moving shares to savings.
LEMMA SavingInstalled ==
  ASSUME RexInv, NEW owner \in Accounts, NEW rex \in Int, mvtosavings(owner, rex)
  PROVE  RexInv' /\ Undiluted /\ SellersFirstStep
<1>1. PICK run : run = runrex(DB, 2)
  OBVIOUS
<1>2. PICK c : c = CollectFilled(run, owner)
  OBVIOUS
<1>3. PICK row : row = MovedToSavings(c.bal[owner], now, rex)
  OBVIOUS
<1>4. PICK e : e = RowSet(c, owner, row)
  OBVIOUS
<1>5. /\ bal[owner] # NoRow /\ UNCHANGED stakingRest /\ Commit(e) /\ rex > 0
      /\ RexInSellOrder(c, owner) <= row.matured_rex
  <2>1. c = update_rex_account(run, owner, 0, 0, FALSE)
    BY <1>2 DEF CollectFilled
  <2> QED
    BY <1>1, <1>3, <1>4, <2>1, Zenon DEF mvtosavings, RowSet
<1>6. DB.bal[owner] # NoRow /\ c.ok
  BY <1>4, <1>5 DEF DB, Commit, RowSet
<1>7. rex \in Nat
  BY <1>5
<1>8. Steps(DB, e, now)
  BY <1>1, <1>2, <1>3, <1>4, <1>5, <1>6, <1>7, SoundNow, SavingSteps
<1> QED
  BY <1>5, <1>8, Committed

\* And back.
LEMMA UnsavingInstalled ==
  ASSUME RexInv, NEW owner \in Accounts, NEW rex \in Int, mvfrsavings(owner, rex)
  PROVE  RexInv' /\ Undiluted /\ SellersFirstStep
<1>1. PICK run : run = runrex(DB, 2)
  OBVIOUS
<1>2. PICK row : row = MovedFromSavings(run.bal[owner], now, rex)
  OBVIOUS
<1>3. PICK d : d = RowSet(run, owner, row)
  OBVIOUS
<1>4. PICK e : e = CollectFilled(d, owner)
  OBVIOUS
<1>5. /\ bal[owner] # NoRow /\ UNCHANGED stakingRest /\ Commit(e) /\ rex > 0
      /\ rex <= Savings(run.bal[owner].rex_maturities)
  <2>1. d = [run EXCEPT !.bal[owner] = MovedFromSavings(@, now, rex)]
    BY <1>2, <1>3 DEF RowSet
  <2>2. e = update_rex_account(d, owner, 0, 0, FALSE)
    BY <1>4 DEF CollectFilled
  <2> QED
    BY <1>1, <2>1, <2>2, Zenon DEF mvfrsavings
<1>6. DB.bal[owner] # NoRow /\ e.ok
  BY <1>5 DEF DB, Commit
<1>7. rex \in Nat
  BY <1>5
<1>8. Steps(DB, e, now)
  BY <1>1, <1>2, <1>3, <1>4, <1>5, <1>6, <1>7, SoundNow, UnsavingSteps
<1> QED
  BY <1>5, <1>8, Committed

\* Closing an account.
LEMMA CloserexInstalled ==
  ASSUME RexInv, NEW owner \in Accounts, closerex(owner)
  PROVE  RexInv' /\ Undiluted /\ SellersFirstStep
<1>1. PICK run : run = IF rex_system_initialized(DB) THEN runrex(DB, 2) ELSE DB
  OBVIOUS
<1>2. PICK c : c = CollectFilled(run, owner)
  OBVIOUS
<1>3. PICK f : f = IF ~ HasLoans(c, owner) /\ c.fund[owner] = 0 THEN NoRow ELSE c.fund[owner]
  OBVIOUS
<1>4. PICK e : e = Closed(c, owner, f)
  OBVIOUS
<1>5. /\ UNCHANGED stakingRest /\ Commit(e)
      /\ c.bal[owner] # NoRow => c.bal[owner].rex_balance = 0
  <2>1. e = [c EXCEPT !.fund[owner] = IF ~ HasLoans(c, owner) /\ @ = 0 THEN NoRow ELSE @,
                      !.bal[owner] = NoRow]
    BY <1>3, <1>4 DEF Closed
  <2>2. c = update_rex_account(run, owner, 0, 0, FALSE)
    BY <1>2 DEF CollectFilled
  <2> QED
    BY <1>1, <2>1, <2>2, Zenon DEF closerex
<1>6. SharesOf(c, owner) = 0 /\ c.ok
  BY <1>4, <1>5 DEF SharesOf, Commit, Closed
<1>7. f = c.fund[owner] \/ (f = NoRow /\ FundOf(c, owner) = 0 /\ ~ HasLoans(c, owner))
  BY <1>3 DEF FundOf
<1>8. Steps(DB, e, now)
  BY <1>1, <1>2, <1>4, <1>6, <1>7, SoundNow, CloserexSteps
<1> QED
  BY <1>5, <1>8, Committed

\* A vote.
LEMMA VoteInstalled ==
  ASSUME RexInv, NEW owner \in Accounts, NEW qualifies \in BOOLEAN, voteproducer(owner, qualifies)
  PROVE  RexInv' /\ Undiluted /\ SellersFirstStep
<1>1. PICK d : d = update_rex_stake(DB, owner)
  OBVIOUS
<1>2. PICK row : row = [d.voters[owner] EXCEPT !.votes = qualifies]
  OBVIOUS
<1>3. PICK e : e = VoterSet(d, owner, row)
  OBVIOUS
<1>4. /\ voters[owner] # NoRow /\ UNCHANGED stakingRest /\ Commit(e)
      /\ bal[owner] # NoRow /\ bal[owner].rex_balance > 0 => qualifies
  <2>1. e = [d EXCEPT !.voters[owner].votes = qualifies]
    BY <1>2, <1>3, Zenon DEF VoterSet
  <2> QED
    BY <1>1, <2>1, Zenon DEF voteproducer
<1>5. DB.voters[owner] # NoRow
  BY <1>4 DEF DB
<1>6. Holding(DB, owner) => qualifies
  <2>1. DB.bal = bal
    BY DEF DB
  <2> QED
    BY <1>4, <2>1, Zenon DEF Holding
<1>7. Steps(DB, e, now)
  BY <1>1, <1>2, <1>3, <1>5, <1>6, SoundNow, VoteSteps
<1> QED
  BY <1>4, <1>7, Committed

\* A fee paid to the pool.
LEMMA FeeInstalled ==
  ASSUME RexInv, NEW payer \in Accounts, NEW fee \in Int, ramfee(payer, fee)
  PROVE  RexInv' /\ Undiluted /\ SellersFirstStep
<1>1. PICK e : e = FeePaid(DB, payer, fee)
  OBVIOUS
<1>2. Commit(e) /\ UNCHANGED stakingRest /\ rex_available(DB) /\ fee \in Nat /\ e.ok
  BY <1>1 DEF ramfee, FeePaid, Commit
<1>3. Steps(DB, e, now)
  BY <1>1, <1>2, SoundNow, FeeSteps
<1> QED
  BY <1>2, <1>3, Committed

\* A new loan.
LEMMA RentInstalled ==
  ASSUME RexInv, NEW from \in Accounts, NEW receiver \in Accounts, NEW kind \in Resource,
         NEW payment \in Int, NEW loan_fund \in Int, rent(from, receiver, kind, payment, loan_fund)
  PROVE  RexInv' /\ Undiluted /\ SellersFirstStep
<1>1. PICK run : run = runrex(DB, 2)
  OBVIOUS
<1>2. PICK paid : paid = transfer_from_fund(run, from, payment + loan_fund)
  OBVIOUS
<1>3. PICK rented : rented = RentedTokens(paid.pool, payment)
  OBVIOUS
<1>4. PICK id : id = paid.pool.loan_num + 1
  OBVIOUS
<1>5. PICK expiration \in Nat : expiration = now + LoanTerm
  BY SoundNow, RexAssumption DEF RexAssumption
<1>6. PICK row : row = NewLoan(kind, from, receiver, payment, loan_fund, rented, expiration)
  OBVIOUS
<1>7. PICK lent : lent = PoolSet(paid, LoanAdded(paid.pool, payment, rented, TRUE))
  OBVIOUS
<1>8. PICK added : added = LoanSet(lent, id, row)
  OBVIOUS
<1>9. PICK e : e = update_resource_limits(added, receiver, kind, rented)
  OBVIOUS
<1>10. /\ payment \in Nat /\ payment > 0 /\ loan_fund \in Nat /\ UNCHANGED stakingRest
       /\ id <= MaxLoans /\ rex_loans_available(paid) /\ payment < rented
       /\ Commit(e)
  <2>1. added = [paid EXCEPT
                   !.pool = LoanAdded(@, payment, rented, TRUE),
                   !.loan[id] = [kind |-> kind, from |-> from, receiver |-> receiver,
                                 payment |-> payment, balance |-> loan_fund,
                                 total_staked |-> rented, expiration |-> now + LoanTerm]]
    BY <1>5, <1>6, <1>7, <1>8 DEF LoanSet, PoolSet, NewLoan
  <2>2. /\ id <= MaxLoans /\ rex_loans_available(paid) /\ payment < rented /\ Commit(e)
    BY <1>1, <1>2, <1>3, <1>4, <1>9, <2>1, Zenon DEF rent
  <2>3. payment \in Nat /\ payment > 0 /\ loan_fund \in Nat /\ UNCHANGED stakingRest
    BY DEF rent
  <2> QED
    BY <2>2, <2>3
<1>11. Rental(DB, from, receiver, kind, payment, loan_fund, row, run, paid, rented, id, lent, added, e)
  <2>1. e.ok
    BY <1>10 DEF Commit
  <2> QED
    BY <1>1, <1>2, <1>3, <1>4, <1>7, <1>8, <1>9, <1>10, <2>1, Zenon DEF Rental
<1>12. now \in Nat /\ Sound(DB, now)
  BY SoundNow
<1>13. expiration <= now + LoanTerm
  BY <1>5
<1>14. Steps(DB, e, now)
  BY <1>6, <1>10, <1>11, <1>12, <1>13, RentSteps
<1> QED
  BY <1>10, <1>14, Committed

\* More funds for a loan.
LEMMA FundloanInstalled ==
  ASSUME RexInv, NEW from \in Accounts, NEW id \in LoanIds, NEW payment \in Int,
         fundloan(from, id, payment)
  PROVE  RexInv' /\ Undiluted /\ SellersFirstStep
<1>1. PICK e : e = LoanPaid(DB, from, id, payment)
  OBVIOUS
<1>2. Commit(e) /\ UNCHANGED stakingRest /\ loan[id] # NoRow
  BY <1>1, Zenon DEF fundloan, LoanPaid
<1>3. DB.loan[id] # NoRow /\ e.ok
  BY <1>2 DEF DB, Commit
<1>4. Steps(DB, e, now)
  BY <1>1, <1>3, SoundNow, FundloanSteps
<1> QED
  BY <1>2, <1>4, Committed

\* And fewer.
LEMMA DefloanInstalled ==
  ASSUME RexInv, NEW from \in Accounts, NEW id \in LoanIds, NEW amount \in Int,
         defloan(from, id, amount)
  PROVE  RexInv' /\ Undiluted /\ SellersFirstStep
<1>1. PICK e : e = LoanDefunded(DB, from, id, amount)
  OBVIOUS
<1>2. Commit(e) /\ UNCHANGED stakingRest /\ loan[id] # NoRow /\ loan[id].balance >= amount
  BY <1>1, Zenon DEF defloan, LoanDefunded
<1>3. DB.loan[id] # NoRow /\ DB.loan[id].balance >= amount /\ e.ok
  BY <1>2 DEF DB, Commit
<1>4. Steps(DB, e, now)
  BY <1>1, <1>3, SoundNow, DefloanSteps
<1> QED
  BY <1>2, <1>4, Committed

\* Maintenance by itself.
LEMMA RexexecInstalled ==
  ASSUME RexInv, NEW max \in Nat, rexexec(max)
  PROVE  RexInv' /\ Undiluted /\ SellersFirstStep
<1>1. PICK e : e = runrex(DB, max)
  OBVIOUS
<1>2. Commit(e) /\ UNCHANGED stakingRest /\ e.ok
  BY <1>1 DEF rexexec, Commit
<1>3. Steps(DB, e, now)
  BY <1>1, <1>2, SoundNow, RexexecSteps
<1> QED
  BY <1>2, <1>3, Committed

\* Another price of loans.
LEMMA SetrexInstalled ==
  ASSUME RexInv, NEW n \in Int, setrex(n)
  PROVE  RexInv' /\ Undiluted /\ SellersFirstStep
<1>1. PICK e : e = PoolSet(DB, RentSet(DB.pool, n))
  OBVIOUS
<1>2. Commit(e) /\ UNCHANGED stakingRest /\ n \in Nat /\ DB.pool # NoRow
  <2>1. e = [DB EXCEPT !.pool.total_rent = n]
    BY <1>1 DEF PoolSet, RentSet
  <2> QED
    BY <2>1 DEF setrex, rex_system_initialized
<1>3. Steps(DB, e, now)
  BY <1>1, <1>2, SoundNow, SetrexSteps
<1> QED
  BY <1>2, <1>3, Committed

\* A bid promised to the pool.
LEMMA ClosebidInstalled ==
  ASSUME RexInv, NEW bid \in Int, closebid(bid)
  PROVE  RexInv' /\ Undiluted /\ SellersFirstStep
<1>1. DB.pool = pool /\ DB.tokens = tokens /\ rex_available(DB) /\ pool # NoRow /\ pool \in Pool
  <2>1. DB.pool = pool /\ DB.tokens = tokens
    BY DEF DB
  <2>2. rex_available(DB)
    BY DEF closebid
  <2> QED
    BY <2>1, <2>2, SoundNow, DbFields DEF rex_available, rex_system_initialized
<1>2. PICK n \in Int : n = pool.namebid_proceeds + bid
  <2>1. pool \in Pool
    BY <1>1, Zenon
  <2>2. pool.namebid_proceeds \in Int
    BY <2>1 DEF Pool
  <2> QED
    BY <2>2
<1>3. PICK e : e = PoolSet(DB, NamebidsSet(DB.pool, n))
  OBVIOUS
<1>4. Commit(e) /\ UNCHANGED stakingRest /\ DB.tokens[NamesAccount] >= n
  <2>1. e = [DB EXCEPT !.pool.namebid_proceeds = @ + bid]
    BY <1>1, <1>2, <1>3 DEF PoolSet, NamebidsSet
  <2> QED
    BY <1>1, <1>2, <2>1 DEF closebid
<1>5. Steps(DB, e, now)
  BY <1>1, <1>3, <1>4, SoundNow, ClosebidSteps
<1> QED
  BY <1>4, <1>5, Committed

\* The amounts that actions carry are numbers.
LEMMA AmountTypes ==
  /\ \A x \in Deposits \cup Withdrawals \cup Purchases \cup Unstakes \cup Sales \cup Payments
              \cup Funds \cup Moves \cup Rents \cup Fees \cup Bids : x \in Int
  /\ \A q \in [Resource -> Unstakes] : q \in Weight
  /\ \A max \in Maxes : max \in Nat
<1>1. Unstakes \subseteq Int
  BY RexAssumption DEF RexAssumption
<1> QED
  BY <1>1, RexAssumption DEF RexAssumption, Weight

\* What an owner does.
LEMMA OwnerStepKeeps ==
  ASSUME RexInv, NEW owner \in Accounts, OwnerStep(owner)
  PROVE  RexInv' /\ Undiluted /\ SellersFirstStep
<1>1. CASE \E x \in Deposits : deposit(owner, x)
  BY <1>1, AmountTypes, DepositInstalled
<1>2. CASE \E x \in Withdrawals : withdraw(owner, x)
  BY <1>2, AmountTypes, WithdrawInstalled
<1>3. CASE \E x \in Purchases : buyrex(owner, x)
  BY <1>3, AmountTypes, BuyrexInstalled
<1>4. CASE \E receiver \in Accounts, q \in [Resource -> Unstakes] : unstaketorex(owner, receiver, q)
  <2>1. PICK receiver \in Accounts, q \in [Resource -> Unstakes] : unstaketorex(owner, receiver, q)
    BY <1>4
  <2>2. q \in Weight
    BY AmountTypes
  <2> QED
    BY <2>1, <2>2, UnstakeInstalled
<1>5. CASE \E x \in Sales : sellrex(owner, x)
  BY <1>5, AmountTypes, SellrexInstalled
<1>6. CASE cnclrexorder(owner) \/ updaterex(owner) \/ consolidate(owner) \/ closerex(owner)
  BY <1>6, CancelInstalled, UpdaterexInstalled, ConsolidateInstalled, CloserexInstalled
<1>7. CASE \E x \in Moves : mvtosavings(owner, x)
  BY <1>7, AmountTypes, SavingInstalled
<1>8. CASE \E x \in Moves : mvfrsavings(owner, x)
  BY <1>8, AmountTypes, UnsavingInstalled
<1>9. CASE \E qualifies \in BOOLEAN : voteproducer(owner, qualifies)
  BY <1>9, VoteInstalled
<1>10. CASE \E x \in Fees : ramfee(owner, x)
  BY <1>10, AmountTypes, FeeInstalled
<1> QED
  BY <1>1, <1>2, <1>3, <1>4, <1>5, <1>6, <1>7, <1>8, <1>9, <1>10 DEF OwnerStep

\* What a borrower does.
LEMMA LoanStepKeeps ==
  ASSUME RexInv, NEW from \in Accounts, LoanStep(from)
  PROVE  RexInv' /\ Undiluted /\ SellersFirstStep
<1>1. CASE \E receiver \in Accounts, kind \in Resource, x \in Payments, f \in Funds :
             rent(from, receiver, kind, x, f)
  <2>1. PICK receiver \in Accounts, kind \in Resource, x \in Payments, f \in Funds :
          rent(from, receiver, kind, x, f)
    BY <1>1
  <2>2. x \in Int /\ f \in Int
    BY AmountTypes
  <2> QED
    BY <2>1, <2>2, RentInstalled
<1>2. CASE \E id \in LoanIds, x \in Funds : fundloan(from, id, x)
  BY <1>2, AmountTypes, FundloanInstalled
<1>3. CASE \E id \in LoanIds, x \in Funds : defloan(from, id, x)
  BY <1>3, AmountTypes, DefloanInstalled
<1> QED
  BY <1>1, <1>2, <1>3 DEF LoanStep

\* Every step keeps the invariant, dilutes nobody and puts sellers first.
LEMMA RexNextKeeps ==
  ASSUME RexInv, [Next]_vars
  PROVE  RexInv' /\ Undiluted /\ SellersFirstStep
<1>1. CASE StakingStep
  BY <1>1, StakingStepKeeps
<1>2. CASE \E owner \in Accounts : OwnerStep(owner) \/ LoanStep(owner)
  BY <1>2, OwnerStepKeeps, LoanStepKeeps
<1>3. CASE \E max \in Maxes : rexexec(max)
  BY <1>3, AmountTypes, RexexecInstalled
<1>4. CASE \E x \in Rents : setrex(x)
  BY <1>4, AmountTypes, SetrexInstalled
<1>5. CASE \E x \in Bids : closebid(x)
  BY <1>5, AmountTypes, ClosebidInstalled
<1>6. CASE UNCHANGED vars
  <2>1. /\ UNCHANGED <<tokens, delband, userres, refunds, voters>> /\ UNCHANGED rexVars
        /\ now' = now /\ activated' = activated /\ deferred' = deferred
    BY <1>6 DEF vars, stakingVars
  <2>2. /\ now' \in 0 .. MaxTime /\ now' \in {now, now + 1} /\ activated' \in BOOLEAN
        /\ deferred' \in [Accounts -> Nat \cup {NoRow}]
    BY <2>1 DEF RexInv, StakingTypeOK
  <2> QED
    BY <2>1, <2>2, RexTablesKept
<1> QED
  BY <1>1, <1>2, <1>3, <1>4, <1>5, <1>6 DEF Next

\* The invariant holds of every reachable state.
LEMMA RexInvariant ==
  Spec => []RexInv
<1>1. RexInv /\ [Next]_vars => RexInv'
  BY RexNextKeeps
<1> QED
  BY <1>1, RexInitHolds, PTL DEF Spec

\* What the invariant says of the named properties.
LEMMA RexInvImplies ==
  ASSUME RexInv
  PROVE  /\ PoolAccounted /\ RexSolvent /\ LoansBacked /\ OrdersCovered /\ HoldersVote
         /\ NamebidsKept /\ StakeExplained
<1>1. /\ Good(DB, now) /\ AllCovered(DB) /\ Surplus(DB) = 0 /\ VotesOK(DB) /\ NamesOK(DB)
      /\ StakingTypeOK /\ StakeBacked /\ ResourcesExplained /\ DB \in Db
  BY DEF RexInv, Good
<1>2. /\ DB.pool = pool /\ DB.fund = fund /\ DB.bal = bal /\ DB.order = order /\ DB.loan = loan
      /\ DB.tokens = tokens /\ DB.voters = voters
  BY DEF DB
<1>3. RexSolvent
  <2>1. PICK v \in Int : v = tokens[RexAccount]
    BY <1>1, <1>2, SurplusIsInt
  <2>2. PICK c : c = Claims(DB) + LoanFunds(DB) + PoolOf(DB).total_lendable
    OBVIOUS
  <2>3. c \in Int
    <3>1. Claims(DB) \in Int /\ LoanFunds(DB) \in Int
      BY <1>1, SumsAreInts
    <3>2. PoolOf(DB).total_lendable \in Int
      BY <1>1, PoolOfType, PoolFields
    <3> QED
      BY <2>2, <3>1, <3>2
  <2>4. v - c = 0
    BY <1>1, <1>2, <2>1, <2>2 DEF Surplus
  <2> QED
    BY <2>1, <2>2, <2>3, <2>4 DEF RexSolvent
<1>4. LoansBacked
  BY <1>1, <1>3 DEF LoansBacked, LentIsStaked, Good, PoolGood
<1>5. StakeExplained
  BY <1>1, <1>3 DEF StakeExplained
<1>6. HoldersVote
  BY <1>1, <1>2, Zenon DEF VotesOK, Holding, Voting, HoldersVote
<1>7. NamebidsKept
  <2>1. pool # NoRow => PoolOf(DB) = pool
    BY <1>2 DEF PoolOf
  <2> QED
    BY <1>1, <1>2, <2>1 DEF NamesOK, NamebidsKept
<1>8. OrdersCovered
  <2> SUFFICES ASSUME NEW a \in Accounts
               PROVE  /\ bal[a] # NoRow => RowOK(bal[a])
                      /\ IsOpen(DB, a) => /\ bal[a] # NoRow
                                          /\ 0 < order[a].rex_requested
                                          /\ order[a].rex_requested <= bal[a].matured_rex
    BY DEF OrdersCovered
  <2>1. bal[a] # NoRow => RowOK(bal[a])
    BY <1>1, <1>2, SoundNow, GoodRowOK DEF Good, RowsGood
  <2>2. IsOpen(DB, a) => /\ bal[a] # NoRow
                         /\ 0 < order[a].rex_requested
                         /\ order[a].rex_requested <= bal[a].matured_rex
    BY <1>1, <1>2 DEF AllCovered, Covers
  <2> QED
    BY <2>1, <2>2
<1>9. PoolAccounted
  <2>1. pool = NoRow \/ pool \in Pool
    BY <1>1, <1>2, DbFields
  <2>2. ASSUME NEW a \in Accounts
        PROVE  /\ fund[a] = NoRow \/ fund[a] \in Nat
               /\ bal[a] = NoRow \/ bal[a] \in RexBalance
               /\ order[a] = NoRow \/ order[a] \in RexOrder
    BY <1>1, <1>2, DbFields
  <2>3. ASSUME NEW i \in Loans
        PROVE  loan[i] \in RexLoan /\ loan[i].balance >= 0 /\ loan[i].total_staked > 0
    <3>1. i \in LoanIds /\ loan[i] # NoRow
      BY DEF Loans
    <3>2. LoanGood(DB, i)
      BY <1>1, <3>1 DEF Good
    <3>3. loan[i] \in RexLoan
      BY <1>1, <1>2, <3>1, DbFields
    <3> QED
      BY <1>2, <3>1, <3>2, <3>3 DEF LoanGood
  <2>4. RexTypeOK
    BY <1>1, <2>1, <2>2, <2>3 DEF RexTypeOK
  <2>5. PoolConsistent
    BY <1>1, <1>2 DEF Good, PoolGood, PoolOf, PoolConsistent
  <2>6. SharesHeld
    BY <1>1 DEF Good, PoolGood, SharesHeld
  <2> QED
    BY <2>4, <2>5, <2>6 DEF PoolAccounted
<1> QED
  BY <1>3, <1>4, <1>5, <1>6, <1>7, <1>8, <1>9

\* The pool's row stays consistent with itself and with the shares its owners
\* hold: maintenance, sales, purchases and rounding never make one without the other.
THEOREM PoolIsAccounted ==
  Spec => []PoolAccounted
  BY RexInvariant, RexInvImplies, PTL

\* eosio.rex has exactly what funds, the pool, loans and filled orders promise.
THEOREM RexIsSolvent ==
  Spec => []RexSolvent
  BY RexInvariant, RexInvImplies, PTL

\* What the pool says is lent is what the open loans have staked.
THEOREM LoansAreBacked ==
  Spec => []LoansBacked
  BY RexInvariant, RexInvImplies, PTL

\* An open order asks for no more than its owner has matured.
THEOREM OrdersAreCovered ==
  Spec => []OrdersCovered
  BY RexInvariant, RexInvImplies, PTL

\* Whoever holds shares votes for a proxy or for 21 producers.
THEOREM HoldersDoVote ==
  Spec => []HoldersVote
  BY RexInvariant, RexInvImplies, PTL

\* Proceeds of names that were promised to the pool reach it.
THEOREM NamebidsAreKept ==
  Spec => []NamebidsKept
  BY RexInvariant, RexInvImplies, PTL

\* Stake that moves into the pool leaves both system accounts backed, and the
\* limits of every account explained by what is delegated and lent to it.
THEOREM StakeIsExplained ==
  Spec => []StakeExplained
  BY RexInvariant, RexInvImplies, PTL

\* No step makes a share worth less.
THEOREM NobodyIsDiluted ==
  Spec => NeverDiluted
<1>1. RexInv /\ [Next]_vars => [pool # NoRow /\ pool'.total_rex > 0 => NotCheaper(pool, pool')]_vars
  BY RexNextKeeps DEF Undiluted
<1> QED
  BY <1>1, RexInvariant, PTL DEF Spec, NeverDiluted

\* While a seller waits nothing is lent.
THEOREM SellersAreFirst ==
  Spec => SellersFirst
<1>1. RexInv /\ [Next]_vars =>
        [(\E a \in Accounts : IsOpen(DB, a) /\ order'[a] = order[a])
           => pool'.total_lent <= pool.total_lent]_vars
  BY RexNextKeeps DEF SellersFirstStep
<1> QED
  BY <1>1, RexInvariant, PTL DEF Spec, SellersFirst

-----------------------------------------------------------------------------
(***************************************************************************)
(* Maintenance works.                                                      *)
(***************************************************************************)
\* Nobody delegates less than nothing.
DelegationsOK == \A p \in Accounts \X Accounts : NonNegative(delband[p])

\* changebw refuses a change that would leave less than nothing.
LEMMA ChangeKeepsDelegations ==
  ASSUME StakingTypeOK, DelegationsOK, NEW source \in Accounts, NEW receiver \in Accounts,
         NEW delta, NEW transfer \in BOOLEAN, NEW rexDelta,
         changebw(source, receiver, delta, transfer, rexDelta)
  PROVE  DelegationsOK'
<1>1. PICK from \in Accounts : from = IF transfer THEN receiver ELSE source
  OBVIOUS
<1>2. PICK row : row = Plus(delband[<<from, receiver>>], delta)
  OBVIOUS
<1>3. NonNegative(row) /\ delband' = [delband EXCEPT ![<<from, receiver>>] = row]
  BY <1>1, <1>2, Zenon DEF changebw
<1>4. ASSUME NEW p \in Accounts \X Accounts PROVE NonNegative(delband[p]')
  <2>1. delband' [p] = IF p = <<from, receiver>> THEN row ELSE delband[p]
    BY <1>3 DEF StakingTypeOK
  <2> QED
    BY <1>3, <2>1 DEF DelegationsOK
<1> QED
  BY <1>4 DEF DelegationsOK

\* Nor does any step.
LEMMA DelegationsKept ==
  ASSUME StakingTypeOK, DelegationsOK, [Next]_vars
  PROVE  DelegationsOK'
<1>1. CASE UNCHANGED delband
  BY <1>1 DEF DelegationsOK
<1>2. ASSUME NEW from \in Accounts, NEW receiver \in Accounts, NEW q, NEW transfer \in BOOLEAN,
             RexDelegatebw(from, receiver, q, transfer)
      PROVE  DelegationsOK'
  <2>1. PICK x : changebw(from, receiver, q, transfer, x)
    BY <1>2 DEF RexDelegatebw
  <2> QED
    BY <2>1, ChangeKeepsDelegations
<1>3. ASSUME NEW from \in Accounts, NEW receiver \in Accounts, NEW q,
             RexUndelegatebw(from, receiver, q)
      PROVE  DelegationsOK'
  <2>1. PICK x, y : changebw(from, receiver, y, FALSE, x)
    BY <1>3 DEF RexUndelegatebw
  <2> QED
    BY <2>1, ChangeKeepsDelegations
<1>4. ASSUME NEW owner \in Accounts, NEW receiver \in Accounts, NEW q,
             unstaketorex(owner, receiver, q)
      PROVE  DelegationsOK'
  <2>1. PICK row : row = Plus(delband[<<owner, receiver>>], Negative(q))
    OBVIOUS
  <2>2. NonNegative(row) /\ delband' = [delband EXCEPT ![<<owner, receiver>>] = row]
    BY <1>4, <2>1, Zenon DEF unstaketorex
  <2>3. ASSUME NEW p \in Accounts \X Accounts PROVE NonNegative(delband[p]')
    <3>1. delband' [p] = IF p = <<owner, receiver>> THEN row ELSE delband[p]
      BY <2>2 DEF StakingTypeOK
    <3> QED
      BY <2>2, <3>1 DEF DelegationsOK
  <2> QED
    BY <2>3 DEF DelegationsOK
<1>5. CASE StakingStep
  <2>1. ASSUME NEW owner \in Accounts, refund(owner) \/ DeferredRefund(owner)
        PROVE  UNCHANGED delband
    BY <2>1 DEF refund, DeferredRefund, PayRefund
  <2>2. Activate \/ AdvanceTime => UNCHANGED delband
    BY DEF Activate, AdvanceTime
  <2> QED
    BY <1>1, <1>2, <1>3, <1>5, <2>1, <2>2 DEF StakingStep
<1>6. ASSUME NEW owner \in Accounts, OwnerStep(owner)
      PROVE  DelegationsOK'
  <2>1. CASE \E receiver \in Accounts, q \in [Resource -> Unstakes] :
               unstaketorex(owner, receiver, q)
    BY <1>4, <2>1
  <2>2. CASE ~ \E receiver \in Accounts, q \in [Resource -> Unstakes] :
               unstaketorex(owner, receiver, q)
    <3>1. \A x : deposit(owner, x) \/ withdraw(owner, x) \/ buyrex(owner, x) => UNCHANGED delband
      BY DEF deposit, withdraw, buyrex, stakingRest
    <3>2. \A x : sellrex(owner, x) \/ mvtosavings(owner, x) \/ mvfrsavings(owner, x)
                  => UNCHANGED delband
      BY DEF sellrex, mvtosavings, mvfrsavings, stakingRest
    <3>3. cnclrexorder(owner) \/ updaterex(owner) => UNCHANGED delband
      BY DEF cnclrexorder, updaterex, stakingRest
    <3>4. consolidate(owner) \/ closerex(owner) => UNCHANGED delband
      BY DEF consolidate, closerex, stakingRest
    <3>5. \A x : voteproducer(owner, x) \/ ramfee(owner, x) => UNCHANGED delband
      BY DEF voteproducer, ramfee, stakingRest
    <3>6. UNCHANGED delband
      BY <1>6, <2>2, <3>1, <3>2, <3>3, <3>4, <3>5, Zenon DEF OwnerStep
    <3> QED
      BY <1>1, <3>6
  <2> QED
    BY <2>1, <2>2
<1>7. ASSUME NEW from \in Accounts, LoanStep(from)
      PROVE  UNCHANGED delband
  <2>1. ASSUME NEW receiver, NEW kind, NEW x, NEW f, rent(from, receiver, kind, x, f)
        PROVE  UNCHANGED delband
    BY <2>1 DEF rent, stakingRest
  <2>2. ASSUME NEW id, NEW x, fundloan(from, id, x)
        PROVE  UNCHANGED delband
    BY <2>2 DEF fundloan, stakingRest
  <2>3. ASSUME NEW id, NEW x, defloan(from, id, x)
        PROVE  UNCHANGED delband
    BY <2>3 DEF defloan, stakingRest
  <2> QED
    BY <1>7, <2>1, <2>2, <2>3, Zenon DEF LoanStep
<1>8. \A x : rexexec(x) \/ setrex(x) \/ closebid(x) => UNCHANGED delband
  BY DEF rexexec, setrex, closebid, stakingRest
<1>9. UNCHANGED vars => UNCHANGED delband
  BY DEF vars, stakingVars
<1> QED
  BY <1>1, <1>5, <1>6, <1>7, <1>8, <1>9 DEF Next

\* No delegation is ever negative.
LEMMA DelegationsInvariant ==
  Spec => []DelegationsOK
<1>1. Init => DelegationsOK
  <2> SUFFICES ASSUME Init, NEW p \in Accounts \X Accounts
               PROVE  NonNegative(delband[p])
    BY DEF DelegationsOK
  <2> QED
    BY DEF Init, StakingInit, NonNegative, Zero
<1>2. RexInv /\ DelegationsOK /\ [Next]_vars => DelegationsOK'
  BY DelegationsKept DEF RexInv
<1> QED
  BY <1>1, <1>2, RexInvariant, PTL DEF Spec

\* What accounts have besides what was lent to them was delegated to them.
LEMMA DelegationsBack ==
  ASSUME RexInv, DelegationsOK
  PROVE  Backs(DB)
<1> SUFFICES ASSUME NEW a \in Accounts, NEW r \in Resource
             PROVE  Unlent(DB, a, r) >= 0
  BY DEF Backs
<1> DEFINE f == [b \in Accounts |-> delband[<<b, a>>][r]]
<1>1. f \in [Accounts -> Nat]
  <2> SUFFICES ASSUME NEW b \in Accounts
               PROVE  delband[<<b, a>>][r] \in Nat
    OBVIOUS
  <2>1. delband[<<b, a>>] \in Weight /\ NonNegative(delband[<<b, a>>])
    BY DEF RexInv, StakingTypeOK, DelegationsOK
  <2> QED
    BY <2>1 DEF NonNegative, Weight
<1>2. DelegatedTo(a)[r] = SumFunctionOnSet(f, Accounts)
  BY DEF DelegatedTo
<1>3. IsFiniteSet(Accounts) /\ f \in [Accounts -> Int]
  BY <1>1, StakingAssumption DEF StakingAssumption
<1> HIDE DEF f
<1>4. SumFunctionOnSet(f, Accounts) >= 0 /\ SumFunctionOnSet(f, Accounts) \in Int
  BY <1>1, <1>3, SumBound, SumIsInt
<1>5. PICK x \in Int : x = DelegatedTo(a)[r] /\ x >= 0
  BY <1>2, <1>4
<1>6. PICK y \in Int : y = LentTo(DB, a, r)
  BY SumsAreInts DEF RexInv, Good
<1>7. DB.userres[a][r] = x + y
  BY <1>5, <1>6 DEF RexInv, ResourcesExplained, DB
<1> QED
  BY <1>5, <1>6, <1>7 DEF Unlent

\* No check inside runrex fails, and borrowers have rows for what is left of a loan.
LEMMA MaintenanceIsSafe ==
  ASSUME RexInv, DelegationsOK
  PROVE  MaintenanceRuns /\ BorrowersHaveFunds
<1>1. IsNow(now) /\ Good(DB, now) /\ NamesOK(DB) /\ DB.ok /\ DB.pool = pool
  BY SoundNow DEF Sound, DB
<1>2. MaintenanceRuns
  <2> SUFFICES ASSUME pool # NoRow, NEW max \in Maxes \cup {2}
               PROVE  runrex(DB, max).ok
    BY DEF MaintenanceRuns
  <2>1. max \in Nat
    BY RexAssumption DEF RexAssumption
  <2> QED
    BY <1>1, <2>1, DelegationsBack, RunrexSucceeds
<1>3. BorrowersHaveFunds
  <2> SUFFICES ASSUME NEW i \in Loans
               PROVE  fund[loan[i].from] # NoRow
    BY DEF BorrowersHaveFunds
  <2>1. i \in LoanIds /\ DB.loan = loan /\ DB.fund = fund /\ loan[i] # NoRow
    BY DEF Loans, DB
  <2>2. TimelyLoan(DB, i, now)
    BY <1>1, <2>1 DEF Good, Timely
  <2> QED
    BY <2>1, <2>2 DEF TimelyLoan
<1> QED
  BY <1>2, <1>3

\* What processing an expired loan leaves, while a seller waits: nothing of the
\* loan, and the others.
LEMMA LoanEnds ==
  ASSUME NEW t, NEW db, Good(db, t), db.pool # NoRow, NEW id \in LoanIds, db.loan[id] # NoRow,
         NEW a \in Accounts, IsOpen(db, a), NEW d, d = process_expired_loan(db, id)
  PROVE  d.loan[id] = NoRow /\ \A i \in LoanIds \ {id} : d.loan[i] = db.loan[i]
<1>1. PICK row \in RexLoan, pay \in Nat, balance \in Nat, staked \in Nat :
        \E removed, rented :
          /\ Branches(db, id, row, pay, balance, staked, removed, rented, d)
          /\ pay > 0 /\ staked > 0 /\ staked <= PoolOf(db).total_lent
  BY LoanBranches
<1>2. PICK removed, rented :
        /\ Branches(db, id, row, pay, balance, staked, removed, rented, d)
        /\ pay > 0 /\ staked > 0 /\ staked <= PoolOf(db).total_lent
  BY <1>1
<1>3. LoanIs(db, id, row, pay, balance, staked)
      /\ removed = PoolSet(db, LoanRemoved(db.pool, staked))
  BY <1>2 DEF Branches
<1>4. row.from \in Accounts /\ row.receiver \in Accounts /\ row.kind \in Resource
      /\ row.balance = balance
  BY <1>3 DEF LoanIs
<1>5. db \in Db /\ PoolOf(db) = db.pool /\ PoolOK(db.pool)
  BY DEF Good, PoolGood, PoolOf
<1>6. PICK p : p = LoanRemoved(db.pool, staked)
  OBVIOUS
<1>7. p \in Pool
  BY <1>2, <1>5, <1>6, PoolWithout DEF PoolOK
<1>8. removed \in Db /\ removed.order = db.order /\ removed.loan = db.loan
  BY <1>3, <1>5, <1>6, <1>7, PoolReplaced
<1>9. ~ rex_loans_available(removed)
  BY <1>8 DEF rex_loans_available, IsOpen
<1>10. PICK returned : returned = BalanceReturned(removed, row)
  OBVIOUS
<1>11. PICK closed : closed = LoanSet(returned, id, NoRow)
  OBVIOUS
<1>12. d = update_resource_limits(closed, row.receiver, row.kind, - staked)
  BY <1>2, <1>9, <1>10, <1>11, Zenon DEF Branches
<1>13. returned \in Db /\ returned.loan = db.loan
  <2>1. CASE balance > 0
    <3>1. returned = transfer_to_fund(removed, row.from, balance)
      BY <1>4, <1>10, <2>1 DEF BalanceReturned
    <3> QED
      BY <1>4, <1>8, <2>1, <3>1, FundCredited DEF SameRest
  <2>2. CASE ~ (balance > 0)
    BY <1>4, <1>8, <1>10, <2>2 DEF BalanceReturned
  <2> QED
    BY <2>1, <2>2
<1>14. closed \in Db /\ closed.loan[id] = NoRow
       /\ \A i \in LoanIds \ {id} : closed.loan[i] = db.loan[i]
  BY <1>11, <1>13, LoanReplaced
<1>15. d.loan = closed.loan
  BY <1>12, <1>14 DEF update_resource_limits, Require, Db
<1> QED
  BY <1>14, <1>15

\* How far the loans have been closed after j turns: those there are were there
\* before, and the expired ones run out.
Closing(db, e, kind, j) ==
  /\ \A i \in LoanIds : e.loan[i] = NoRow \/ e.loan[i] = db.loan[i]
  /\ Expired(e, kind) = {} \/ Cardinality(Expired(e, kind)) + j <= MaxLoans

\* One turn closes one more.
LEMMA ClosingGoesOn ==
  ASSUME NEW t, NEW db, Good(db, t), db.pool # NoRow, Backs(db), NEW a \in Accounts, IsOpen(db, a),
         NEW kind, NEW s, NEW e, LoansGo(db, t, e), NEW j \in Nat, Closing(s, e, kind, j)
  PROVE  Closing(s, ProcessLoan(e, kind), kind, j + 1)
<1>1. PICK d : d = ProcessLoan(e, kind)
  OBVIOUS
<1>2. CASE Expired(e, kind) = {}
  BY <1>1, <1>2 DEF ProcessLoan, Closing
<1>3. CASE Expired(e, kind) # {}
  <2>1. PICK id : id = FirstExpired(e, kind)
    OBVIOUS
  <2>2. d = process_expired_loan(e, id)
    BY <1>1, <1>3, <2>1 DEF ProcessLoan
  <2>3. Good(e, t) /\ e.pool # NoRow /\ e.order = db.order
    BY DEF LoansGo, LoansRun
  <2>4. id \in Expired(e, kind)
    BY <1>3, <2>1, <2>3, FirstExpiredExists DEF Good
  <2>5. id \in LoanIds /\ e.loan[id] # NoRow /\ IsOpen(e, a)
    BY <2>3, <2>4 DEF Expired, IsOpen
  <2>6. d.loan[id] = NoRow /\ \A i \in LoanIds \ {id} : d.loan[i] = e.loan[i]
    BY <2>2, <2>3, <2>5, LoanEnds
  <2>7. Expired(d, kind) = Expired(e, kind) \ {id}
    BY <2>6 DEF Expired
  <2>8. IsFiniteSet(Expired(e, kind))
    <3>1. IsFiniteSet(LoanIds) /\ Expired(e, kind) \in SUBSET LoanIds
      BY <2>3, EntriesAreInts DEF Good, Expired
    <3> QED
      BY <3>1, FS_Subset
  <2>9. PICK n \in Nat : n = Cardinality(Expired(e, kind))
    BY <2>8, FS_CardinalityType
  <2>10. Cardinality(Expired(d, kind)) = n - 1
    BY <2>4, <2>7, <2>8, <2>9, FS_RemoveElement
  <2>11. n + j <= MaxLoans
    BY <1>3, <2>9 DEF Closing
  <2>12. Cardinality(Expired(d, kind)) + (j + 1) <= MaxLoans
    BY <2>9, <2>10, <2>11
  <2>13. \A i \in LoanIds : d.loan[i] = NoRow \/ d.loan[i] = s.loan[i]
    BY <2>6 DEF Closing
  <2> QED
    BY <1>1, <2>12, <2>13 DEF Closing
<1> QED
  BY <1>2, <1>3

\* As many turns as there can be loans close all that expired.
LEMMA AllClose ==
  ASSUME NEW t, NEW db, Good(db, t), db.pool # NoRow, Backs(db), NEW a \in Accounts, IsOpen(db, a),
         NEW kind, NEW max \in Nat, max >= MaxLoans,
         NEW e, LoansGo(db, t, e), NEW d, d = ProcessLoans(e, kind, max)
  PROVE  /\ Expired(d, kind) = {}
         /\ \A i \in LoanIds : d.loan[i] = NoRow \/ d.loan[i] = e.loan[i]
<1>1. PICK f : LoanSteps(f, e, kind, max) /\ d = f[max]
  BY LoansInSteps
<1> DEFINE Bad == {i \in 0 .. max : ~ (LoansGo(db, t, f[i]) /\ Closing(e, f[i], kind, i))}
<1>2. \A i \in 0 .. max : f[i] = IF i = 0 THEN e ELSE ProcessLoan(f[i - 1], kind)
  BY <1>1 DEF LoanSteps
<1>3. MaxLoans \in Nat
  BY RexAssumption DEF RexAssumption
<1>4. \A x \in Db : IsFiniteSet(Expired(x, kind)) /\ Cardinality(Expired(x, kind)) \in Nat
                    /\ Cardinality(Expired(x, kind)) <= MaxLoans
  <2> SUFFICES ASSUME NEW x \in Db
               PROVE  /\ IsFiniteSet(Expired(x, kind)) /\ Cardinality(Expired(x, kind)) \in Nat
                      /\ Cardinality(Expired(x, kind)) <= MaxLoans
    OBVIOUS
  <2>1. IsFiniteSet(1 .. MaxLoans) /\ Cardinality(1 .. MaxLoans) = MaxLoans
    BY <1>3, FS_Interval
  <2>2. Expired(x, kind) \in SUBSET (1 .. MaxLoans)
    BY DEF Expired, LoanIds
  <2>3. IsFiniteSet(Expired(x, kind)) /\ Cardinality(Expired(x, kind)) <= MaxLoans
    BY <2>1, <2>2, FS_Subset
  <2> QED
    BY <2>3, FS_CardinalityType
<1>5. Closing(e, e, kind, 0)
  <2>1. e \in Db
    BY DEF LoansGo, Good
  <2>2. PICK n \in Nat : n = Cardinality(Expired(e, kind)) /\ n <= MaxLoans
    BY <1>4, <2>1
  <2>3. n + 0 <= MaxLoans
    BY <1>3, <2>2
  <2> QED
    BY <2>2, <2>3 DEF Closing
<1>6. Bad = {}
  <2>1. SUFFICES ASSUME Bad # {} PROVE FALSE
    OBVIOUS
  <2>2. PICK i \in Bad : \A k \in Bad : i <= k
    <3>1. Bad \in SUBSET Nat
      OBVIOUS
    <3> HIDE DEF Bad
    <3> QED
      BY <2>1, <3>1, SmallestNumber
  <2>3. i \in 0 .. max /\ ~ (LoansGo(db, t, f[i]) /\ Closing(e, f[i], kind, i))
    OBVIOUS
  <2>4. i # 0
    BY <1>2, <1>5, <2>3
  <2>5. i - 1 \in 0 .. max /\ i - 1 \notin Bad
    BY <2>2, <2>3, <2>4
  <2>6. LoansGo(db, t, f[i - 1]) /\ Closing(e, f[i - 1], kind, i - 1)
    BY <2>5
  <2>7. f[i] = ProcessLoan(f[i - 1], kind)
    BY <1>2, <2>3, <2>4
  <2>8. PICK j \in Nat : j = i - 1 /\ j + 1 = i
    BY <2>3, <2>4
  <2>9. Closing(e, f[i], kind, j + 1)
    BY <2>6, <2>7, <2>8, ClosingGoesOn
  <2>10. LoansGo(db, t, f[i])
    BY <2>6, <2>7, LoanGoes
  <2> QED
    BY <2>3, <2>8, <2>9, <2>10
<1>7. LoansGo(db, t, f[max]) /\ Closing(e, f[max], kind, max)
  BY <1>6
<1> HIDE DEF Bad
<1>8. Expired(d, kind) = {}
  <2>1. d \in Db
    BY <1>1, <1>7 DEF LoansGo, Good
  <2>2. SUFFICES ASSUME Expired(d, kind) # {} PROVE FALSE
    OBVIOUS
  <2>3. PICK n \in Nat : n = Cardinality(Expired(d, kind))
    BY <1>4, <2>1
  <2>4. n + max <= MaxLoans
    BY <1>1, <1>7, <2>2, <2>3 DEF Closing
  <2>5. n = 0
    BY <1>3, <2>4
  <2> QED
    BY <1>4, <2>1, <2>2, <2>3, <2>5, FS_EmptySet
<1>9. \A i \in LoanIds : d.loan[i] = NoRow \/ d.loan[i] = e.loan[i]
  BY <1>1, <1>7 DEF Closing
<1> QED
  BY <1>8, <1>9

\* An order that has waited for a term outlived every loan there was.
Overdue(db, a, t) == IsOpen(db, a) /\ db.order[a].order_time + LoanTerm <= t

\* Nothing is lent any more.
LEMMA NothingLent ==
  ASSUME NEW t, IsNow(t), NEW db, Good(db, t), db.pool # NoRow, Backs(db),
         NEW a \in Accounts, Overdue(db, a, t), NEW max \in Nat, max >= MaxLoans,
         LoansGo(db, t, db), NEW cpu, cpu = ProcessLoans(db, "cpu", max),
         NEW net, net = ProcessLoans(cpu, "net", max)
  PROVE  LoansGo(db, t, net) /\ PoolOf(net).total_lent = 0
<1>1. IsOpen(db, a) /\ LoansGo(db, t, cpu)
  BY LoansAllGo DEF Overdue
<1>2. LoansGo(db, t, net)
  BY <1>1, LoansAllGo
<1>3. Expired(cpu, "cpu") = {}
  BY <1>1, AllClose
<1>4. /\ Expired(net, "net") = {}
      /\ \A i \in LoanIds : net.loan[i] = NoRow \/ net.loan[i] = cpu.loan[i]
  BY <1>1, AllClose
<1>5. Good(net, t) /\ net.order = db.order
  BY <1>2 DEF LoansGo, LoansRun
<1>6. ASSUME NEW i \in LoanIds PROVE net.loan[i] = NoRow
  <2>1. SUFFICES ASSUME net.loan[i] # NoRow PROVE FALSE
    OBVIOUS
  <2>2. net.loan[i] = cpu.loan[i] /\ net.loan[i] \in RexLoan
    BY <1>4, <1>5, <2>1, DbFields DEF Good
  <2>3. net.loan[i].expiration <= t
    <3>1. TimelyLoan(net, i, t) /\ IsOpen(net, a)
      BY <1>1, <1>5 DEF Good, Timely, IsOpen
    <3>2. net.loan[i].expiration <= db.order[a].order_time + LoanTerm
      BY <1>5, <2>1, <3>1 DEF TimelyLoan
    <3>3. db.order[a].order_time \in Nat /\ LoanTerm \in Nat /\ net.loan[i].expiration \in Nat
      BY <1>1, <2>2, DbFields, RexAssumption DEF Good, IsOpen, RexOrder, RexLoan, RexAssumption
    <3> QED
      BY <3>2, <3>3 DEF Overdue, IsNow
  <2>4. net.loan[i].kind \in {"net", "cpu"}
    BY <2>2 DEF RexLoan, Resource
  <2>5. net.loan[i].expiration <= now
    BY <2>3 DEF IsNow
  <2>6. CASE net.loan[i].kind = "net"
    BY <1>4, <2>1, <2>5, <2>6 DEF Expired
  <2>7. CASE net.loan[i].kind = "cpu"
    BY <1>3, <2>1, <2>2, <2>5, <2>7 DEF Expired
  <2> QED
    BY <2>4, <2>6, <2>7
<1>7. LoanStakes(net) = 0
  <2> DEFINE g == [i \in LoanIds |-> LoanStake(net, i)]
  <2>1. \A i \in LoanIds : g[i] = 0
    BY <1>6 DEF LoanStake
  <2>2. g \in [LoanIds -> Int] /\ IsFiniteSet(LoanIds)
    BY <1>5, EntriesAreInts DEF Good
  <2>3. LoanStakes(net) = SumFunctionOnSet(g, LoanIds)
    BY <1>5, SumsOfEntries DEF Good
  <2> HIDE DEF g
  <2> QED
    BY <2>1, <2>2, <2>3, SumZero
<1> QED
  BY <1>2, <1>5, <1>7 DEF Good, PoolGood

\* While nothing is lent the pool can pay for any shares.
LEMMA EmptyPoolPays ==
  ASSUME NEW p, PoolOK(p), p.total_lent = 0, NEW rex \in Nat, 0 < rex, rex <= p.total_rex
  PROVE  CanFill(p, rex)
<1>1. PICK l \in Nat, u \in Nat, s \in Nat :
        l = p.total_lendable /\ u = p.total_unlent /\ s = p.total_rex
  BY DEF PoolOK, Pool
<1>2. l = u /\ s > 0 /\ l > 0
  BY <1>1 DEF PoolOK
<1>3. (rex * l) \div s \in Nat /\ (rex * l) \div s <= l
  BY <1>1, <1>2, SellRounding
<1>4. AvailableUnlent(p) = u
  <2>1. (2 * 0) \div 10 = 0
    BY SMT
  <2> QED
    BY <1>1, <2>1 DEF AvailableUnlent
<1> QED
  BY <1>1, <1>2, <1>3, <1>4 DEF CanFill, Value

\* So an order that is looked at then is filled.
LEMMA TryFills ==
  ASSUME NEW t \in Nat, NEW db, Good(db, t), NEW owner \in Accounts, IsOpen(db, owner),
         Covers(db, owner), db.pool # NoRow, PoolOf(db).total_lent = 0,
         NEW d, d = TryOrder(db, owner)
  PROVE  ~ IsOpen(d, owner)
<1>1. /\ db \in Db /\ db.bal[owner] # NoRow /\ PoolOf(db) = db.pool /\ PoolOK(db.pool)
      /\ db.order[owner] \in RexOrder
  BY DbFields DEF Good, Covers, IsOpen, PoolGood, PoolOf
<1>2. PICK rex \in Nat : rex = db.order[owner].rex_requested /\ 0 < rex
                         /\ rex <= db.bal[owner].matured_rex
  BY <1>1 DEF Covers, RexOrder
<1>3. rex <= db.pool.total_rex
  <2>1. SharesOf(db, owner) = db.bal[owner].rex_balance /\ SharesOf(db, owner) <= db.pool.total_rex
    BY <1>1, SharesBounded DEF SharesOf
  <2>2. RowGood(db.bal[owner], t) /\ db.bal[owner] \in RexBalance
    BY <1>1 DEF Good, RowsGood, RowGood
  <2>3. db.bal[owner].rex_balance >= db.bal[owner].matured_rex
    BY <2>2, GoodRowOK
  <2>4. db.pool.total_rex \in Int
    BY <1>1 DEF PoolOK, Pool
  <2> QED
    BY <1>2, <2>1, <2>2, <2>3, <2>4 DEF RexBalance
<1>4. CanFill(db.pool, rex)
  BY <1>1, <1>2, <1>3, EmptyPoolPays
<1>5. PICK r : r = fill_rex_order(db, owner, rex)
  OBVIOUS
<1>6. r.success /\ r.db.order = db.order /\ DOMAIN r.db = DOMAIN db
  BY <1>1, <1>4, <1>5 DEF fill_rex_order, Db
<1>7. d = [r.db EXCEPT !.order[owner] = OrderFilled(@, r.proceeds, r.stake_change)]
  BY <1>2, <1>5, <1>6 DEF TryOrder
<1>8. PICK row : row = OrderFilled(db.order[owner], r.proceeds, r.stake_change)
  OBVIOUS
<1>9. d.order[owner] = row
  <2>1. db.order \in [Accounts -> RexOrder \cup {NoRow}]
    BY <1>1, DbFields
  <2>2. "order" \in DOMAIN r.db
    BY <1>1, <1>6 DEF Db
  <2> QED
    BY <1>6, <1>7, <1>8, <2>1, <2>2
<1>10. row.is_open = FALSE
  BY <1>1, <1>8 DEF OrderFilled, RexOrder
<1> QED
  BY <1>9, <1>10 DEF IsOpen

\* Other orders are not touched.
LEMMA TryTouches ==
  ASSUME NEW db \in Db, NEW owner \in Accounts, NEW d, d = TryOrder(db, owner)
  PROVE  \A a \in Accounts \ {owner} : d.order[a] = db.order[a]
<1>1. PICK r : r = fill_rex_order(db, owner, db.order[owner].rex_requested)
  OBVIOUS
<1>2. CASE ~ r.success
  BY <1>1, <1>2 DEF TryOrder
<1>3. CASE r.success
  <2>1. r.db.order = db.order /\ DOMAIN r.db = DOMAIN db
    BY <1>1, <1>3 DEF fill_rex_order, Db
  <2>2. d = [r.db EXCEPT !.order[owner] = OrderFilled(@, r.proceeds, r.stake_change)]
    BY <1>1, <1>3 DEF TryOrder
  <2>3. db.order \in [Accounts -> RexOrder \cup {NoRow}] /\ "order" \in DOMAIN r.db
    BY <2>1, DbFields DEF Db
  <2> QED
    BY <2>1, <2>2, <2>3
<1> QED
  BY <1>2, <1>3

\* How far the queue has been served after j orders: those left are those open.
Serving(w, j) ==
  /\ w.left = Queue(w.db)
  /\ w.left = {} \/ Cardinality(w.left) + j <= Cardinality(Accounts)

\* One more order is filled.
LEMMA ServingGoesOn ==
  ASSUME NEW t \in Nat, NEW db, Good(db, t), AllCovered(db), PoolOf(db).total_lent = 0,
         NEW w, WalkGood(db, t, w), NEW j \in Nat, Serving(w, j)
  PROVE  Serving(NextOrder(w), j + 1)
<1>1. CASE w.left = {}
  BY <1>1 DEF NextOrder, Serving
<1>2. CASE w.left # {}
  <2>1. PICK owner : owner = FirstOf(w.db, w.left)
    OBVIOUS
  <2>2. PICK m : m = w.db
    OBVIOUS
  <2>3. /\ Good(m, t) /\ OrdersRun(db, m)
        /\ \A a \in w.left : /\ a \in Accounts /\ IsOpen(db, a)
                             /\ m.order[a] = db.order[a] /\ m.bal[a] = db.bal[a]
    BY <2>2 DEF WalkGood
  <2>4. \A a \in w.left : IsOpen(m, a)
    BY <2>3 DEF IsOpen
  <2>5. owner \in w.left
    <3>1. m \in Db /\ w.left \in SUBSET Accounts
      BY <2>3 DEF Good
    <3> QED
      BY <1>2, <2>1, <2>2, <2>4, <3>1, FirstExists
  <2>6. owner \in Accounts /\ IsOpen(m, owner) /\ Covers(m, owner)
    BY <2>3, <2>4, <2>5 DEF AllCovered, Covers
  <2>7. m.pool # NoRow /\ PoolOf(m).total_lent = 0
    BY <2>3 DEF OrdersRun
  <2>8. PICK d : d = TryOrder(m, owner)
    OBVIOUS
  <2>9. ~ IsOpen(d, owner)
    BY <2>3, <2>6, <2>7, <2>8, TryFills
  <2>10. \A a \in Accounts \ {owner} : d.order[a] = m.order[a]
    BY <2>3, <2>6, <2>8, TryTouches DEF Good
  <2>11. PICK n : n = NextOrder(w)
    OBVIOUS
  <2>12. n.db = d /\ n.left = w.left \ {owner}
    BY <1>2, <2>1, <2>2, <2>8, <2>11 DEF NextOrder
  <2>13. n.left = Queue(n.db)
    BY <2>2, <2>9, <2>10, <2>12 DEF Serving, Queue, IsOpen
  <2>14. IsFiniteSet(w.left)
    <3>1. IsFiniteSet(Accounts) /\ w.left \in SUBSET Accounts
      BY <2>3, EntriesAreInts DEF Good
    <3> QED
      BY <3>1, FS_Subset
  <2>15. PICK k \in Nat : k = Cardinality(w.left)
    BY <2>14, FS_CardinalityType
  <2>16. Cardinality(n.left) = k - 1
    BY <2>5, <2>12, <2>14, <2>15, FS_RemoveElement
  <2>17. PICK all \in Nat : all = Cardinality(Accounts)
    BY StakingAssumption, FS_CardinalityType DEF StakingAssumption
  <2>18. k + j <= all
    BY <1>2, <2>15, <2>17 DEF Serving
  <2>19. Cardinality(n.left) + (j + 1) <= Cardinality(Accounts)
    BY <2>16, <2>17, <2>18
  <2> QED
    BY <2>11, <2>13, <2>19 DEF Serving
<1> QED
  BY <1>1, <1>2

\* As many orders as there can be serve the whole queue.
LEMMA AllServed ==
  ASSUME NEW t \in Nat, NEW db, Good(db, t), AllCovered(db), PoolOf(db).namebid_proceeds <= 0,
         db.pool # NoRow, PoolOf(db).total_lent = 0,
         NEW max \in Nat, max >= Cardinality(Accounts), NEW d, d = ProcessOrders(db, max)
  PROVE  \A a \in Accounts : ~ IsOpen(d, a)
<1>1. PICK start : start = [db |-> db, left |-> Queue(db)]
  OBVIOUS
<1>2. PICK f : OrderSteps(f, start, max) /\ d = f[max].db
  BY <1>1, OrdersInSteps
<1>3. start.db = db /\ start.left = Queue(db)
  BY <1>1
<1>4. WalkGood(db, t, start)
  <2>1. OrdersRun(db, db)
    BY DEF OrdersRun
  <2> QED
    BY <1>3, <2>1, KeepsSame DEF WalkGood, Queue
<1>5. PICK all \in Nat : all = Cardinality(Accounts)
  BY StakingAssumption, FS_CardinalityType DEF StakingAssumption
<1>6. Serving(start, 0)
  <2>1. IsFiniteSet(Accounts) /\ Queue(db) \in SUBSET Accounts
    BY StakingAssumption DEF StakingAssumption, Queue
  <2>2. Cardinality(Queue(db)) <= Cardinality(Accounts) /\ IsFiniteSet(Queue(db))
    BY <2>1, FS_Subset
  <2>3. PICK n \in Nat : n = Cardinality(start.left)
    BY <1>3, <2>2, FS_CardinalityType
  <2>4. n + 0 <= Cardinality(Accounts)
    BY <1>3, <1>5, <2>2, <2>3
  <2> QED
    BY <1>3, <2>3, <2>4 DEF Serving
<1> DEFINE Bad == {i \in 0 .. max : ~ (WalkGood(db, t, f[i]) /\ Serving(f[i], i))}
<1>7. \A i \in 0 .. max : f[i] = IF i = 0 THEN start ELSE NextOrder(f[i - 1])
  BY <1>2 DEF OrderSteps
<1>8. Bad = {}
  <2>1. SUFFICES ASSUME Bad # {} PROVE FALSE
    OBVIOUS
  <2>2. PICK i \in Bad : \A k \in Bad : i <= k
    <3>1. Bad \in SUBSET Nat
      OBVIOUS
    <3> HIDE DEF Bad
    <3> QED
      BY <2>1, <3>1, SmallestNumber
  <2>3. i \in 0 .. max /\ ~ (WalkGood(db, t, f[i]) /\ Serving(f[i], i))
    OBVIOUS
  <2>4. i # 0
    BY <1>4, <1>6, <1>7, <2>3
  <2>5. i - 1 \in 0 .. max /\ i - 1 \notin Bad
    BY <2>2, <2>3, <2>4
  <2>6. WalkGood(db, t, f[i - 1]) /\ Serving(f[i - 1], i - 1)
    BY <2>5
  <2>7. f[i] = NextOrder(f[i - 1])
    BY <1>7, <2>3, <2>4
  <2>8. PICK j \in Nat : j = i - 1 /\ j + 1 = i
    BY <2>3, <2>4
  <2>9. Serving(f[i], j + 1)
    BY <2>6, <2>7, <2>8, ServingGoesOn
  <2>10. WalkGood(db, t, f[i])
    BY <2>6, <2>7, WalkStep
  <2> QED
    BY <2>3, <2>8, <2>9, <2>10
<1>9. WalkGood(db, t, f[max]) /\ Serving(f[max], max)
  BY <1>8
<1> HIDE DEF Bad
<1>10. Queue(d) = {}
  <2>1. f[max].left = Queue(d)
    BY <1>2, <1>9 DEF Serving
  <2>2. SUFFICES ASSUME Queue(d) # {} PROVE FALSE
    OBVIOUS
  <2>3. IsFiniteSet(Queue(d))
    <3>1. IsFiniteSet(Accounts) /\ Queue(d) \in SUBSET Accounts
      BY StakingAssumption DEF StakingAssumption, Queue
    <3> QED
      BY <3>1, FS_Subset
  <2>4. PICK n \in Nat : n = Cardinality(Queue(d))
    BY <2>3, FS_CardinalityType
  <2>5. n + max <= all
    BY <1>5, <1>9, <2>1, <2>2, <2>4 DEF Serving
  <2>6. n = 0
    BY <1>5, <2>5
  <2> QED
    BY <2>2, <2>3, <2>4, <2>6, FS_EmptySet
<1> QED
  BY <1>10 DEF Queue

\* The README's promise: an order that has waited for a term is filled by
\* maintenance that looks at every loan and order.
THEOREM RunrexServes ==
  ASSUME NEW t, IsNow(t), NEW db, Good(db, t), AllCovered(db), NamesOK(db), Backs(db), db.ok,
         NEW a \in Accounts, Overdue(db, a, t),
         NEW max \in Nat, max >= MaxLoans, max >= Cardinality(Accounts)
  PROVE  \A b \in Accounts : ~ IsOpen(runrex(db, max), b)
<1>1. db.pool # NoRow
  BY PoolIsThere DEF AllCovered, Overdue, IsNow
<1>2. PICK d : d = runrex(db, max)
  OBVIOUS
<1>3. PICK named, cpu, net : Maintained(db, max, named, cpu, net, d)
  BY <1>1, <1>2, RunrexParts
<1>4. /\ Good(named, t) /\ named.order = db.order /\ named.ok /\ named.bal = db.bal
      /\ named.pool # NoRow /\ PoolOf(named).namebid_proceeds <= 0
      /\ LoansGo(named, t, net) /\ Backs(named)
  BY <1>1, <1>3, PartsGo
<1>5. Overdue(named, a, t)
  BY <1>4 DEF Overdue, IsOpen
<1>6. LoansGo(named, t, named)
  <2>1. LoansGood(named, t, named)
    BY <1>4, LoansStart, DbHasOk DEF Good
  <2> QED
    BY <1>4, <2>1 DEF LoansGood, LoansGo
<1>7. PoolOf(net).total_lent = 0
  <2>1. cpu = ProcessLoans(named, "cpu", max) /\ net = ProcessLoans(cpu, "net", max)
    BY <1>3 DEF Maintained
  <2> QED
    BY <1>4, <1>5, <1>6, <2>1, NothingLent
<1>8. /\ Good(net, t) /\ net.order = db.order /\ net.bal = db.bal /\ net.pool # NoRow
      /\ PoolOf(net).namebid_proceeds <= 0
  BY <1>4 DEF LoansGo, LoansRun
<1>9. AllCovered(net)
  BY <1>8 DEF AllCovered, Covers, IsOpen
<1>10. d = ProcessOrders(net, max) /\ t \in Nat
  BY <1>3 DEF Maintained, IsNow
<1> QED
  BY <1>2, <1>7, <1>8, <1>9, <1>10, AllServed

\* What the invariants say of maintenance.
LEMMA MaintenanceImplied ==
  ASSUME RexInv, DelegationsOK
  PROVE  MaintenanceWorks
<1>1. OverdueOrderFills
  <2>1. PICK max : max = MaxLoans + Cardinality(Accounts)
    OBVIOUS
  <2>2. max \in Nat /\ max >= MaxLoans /\ max >= Cardinality(Accounts)
    <3>1. MaxLoans \in Nat /\ Cardinality(Accounts) \in Nat
      BY RexAssumption, StakingAssumption, FS_CardinalityType DEF RexAssumption, StakingAssumption
    <3> QED
      BY <2>1, <3>1
  <2>3. SUFFICES ASSUME NEW a \in Accounts, IsOpen(DB, a), order[a].order_time + LoanTerm <= now
                 PROVE  ~ IsOpen(runrex(DB, max), a)
    BY <2>1 DEF OverdueOrderFills
  <2>4. Overdue(DB, a, now)
    BY <2>3 DEF Overdue, DB
  <2>5. IsNow(now) /\ Good(DB, now) /\ AllCovered(DB) /\ NamesOK(DB) /\ DB.ok
    BY SoundNow DEF Sound, DB
  <2> QED
    BY <2>2, <2>4, <2>5, DelegationsBack, RunrexServes
<1> QED
  BY <1>1, MaintenanceIsSafe DEF MaintenanceWorks

\* Maintenance on behalf of others never fails, finds the funds it pays balances
\* into, and fills every order that is overdue.
THEOREM MaintenanceDoesWork ==
  Spec => []MaintenanceWorks
  BY RexInvariant, DelegationsInvariant, MaintenanceImplied, PTL
=============================================================================
