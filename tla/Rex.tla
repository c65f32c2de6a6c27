--------------------------------- MODULE Rex ---------------------------------
(***************************************************************************)
(* REX, the resource exchange of eosio.system (rex.cpp), together with the *)
(* staking it shares tables with.  Owners buy shares of a pool of tokens   *)
(* and sell them back, at once or through a queue; the pool lends tokens   *)
(* as NET or CPU for a fixed term at a price set by two connectors; every  *)
(* action first runs a little maintenance, runrex, that closes or renews   *)
(* expired loans and fills queued orders.                                  *)
(*                                                                         *)
(* runrex threads many tables through several loops, so the handlers are   *)
(* written as functions on a record of all the tables (the "db") and an    *)
(* action installs the result.  A check that fails inside sets db.ok to    *)
(* FALSE, and such an action is not taken: the transaction is reverted.    *)
(***************************************************************************)
EXTENDS Staking, RexPool, RexBalance

CONSTANTS RexAccount,    \* eosio.rex
          NamesAccount,  \* eosio.names
          NameValue,     \* account -> its name as a number, the key of its rows
          LoanTerm,      \* 30 days, in ticks
          MaxLoans,      \* bound of loan_num
          Deposits, Withdrawals, Purchases, Unstakes, Sales, Payments, Funds,
          Moves, Maxes, Rents, Fees, Bids   \* amounts the actions may carry

\* Rows of rexbal, rexqueue and of cpuloan and netloan.
RexBalance == [vote_stake : Int, rex_balance : Int, matured_rex : Int, rex_maturities : Seq(Bucket)]

RexOrder == [rex_requested : Int, proceeds : Int, stake_change : Int, order_time : Nat,
             is_open : BOOLEAN]

RexLoan == [kind : Resource, from : Accounts, receiver : Accounts, payment : Int, balance : Int,
            total_staked : Int, expiration : Nat]

\* Names differ as numbers too, and no bucket matures as late as the savings.
ASSUME RexAssumption ==
  /\ {RexAccount, NamesAccount} \subseteq OtherHolders
  /\ RexAccount # NamesAccount
  /\ InitTokens[RexAccount] = 0
  /\ NameValue \in [Accounts -> Nat]
  /\ \A a, b \in Accounts : NameValue[a] = NameValue[b] => a = b
  /\ NoRow \notin Nat \cup Pool \cup RexBalance \cup RexOrder \cup RexLoan
  /\ LoanTerm \in Nat \ {0}
  /\ MaxLoans \in Nat
  /\ MaxTime + NumBuckets * DayLength < EndOfDays
  /\ Deposits \cup Withdrawals \cup Purchases \cup Unstakes \cup Sales \cup Payments \cup Funds
       \cup Moves \cup Rents \cup Fees \cup Bids \subseteq Int
  /\ Maxes \subseteq Nat

VARIABLES pool,     \* the row of rexpool, or NoRow before the first purchase
          fund,     \* owner -> balance of its REX fund, or NoRow
          bal,      \* owner -> rexbal row or NoRow
          order,    \* owner -> rexqueue row or NoRow
          loan      \* loan_num -> row of cpuloan or netloan, or NoRow

rexVars == <<pool, fund, bal, order, loan>>

vars == <<stakingVars, rexVars>>

LoanIds == 1..MaxLoans

Init ==
  /\ StakingInit
  /\ pool = NoRow
  /\ fund = [a \in Accounts |-> NoRow]
  /\ bal = [a \in Accounts |-> NoRow]
  /\ order = [a \in Accounts |-> NoRow]
  /\ loan = [i \in LoanIds |-> NoRow]

-----------------------------------------------------------------------------
(***************************************************************************)
(* The db record                                                           *)
(***************************************************************************)
DB == [tokens |-> tokens, userres |-> userres, voters |-> voters, pool |-> pool,
       fund |-> fund, bal |-> bal, order |-> order, loan |-> loan, ok |-> TRUE]

\* Installs every table but those of delegated bandwidth and refunds.
Commit(db) ==
  /\ db.ok
  /\ tokens' = db.tokens
  /\ userres' = db.userres
  /\ voters' = db.voters
  /\ pool' = db.pool
  /\ fund' = db.fund
  /\ bal' = db.bal
  /\ order' = db.order
  /\ loan' = db.loan

Require(db, condition) == [db EXCEPT !.ok = @ /\ condition]

\* The row of the pool, or the row the first purchase creates.
PoolOf(db) == IF db.pool = NoRow THEN EmptyPool ELSE db.pool

rex_system_initialized(db) == db.pool # NoRow

rex_available(db) == rex_system_initialized(db) /\ db.pool.total_rex > 0

IsOpen(db, a) == db.order[a] # NoRow /\ db.order[a].is_open

IsFilled(db, a) == db.order[a] # NoRow /\ ~ db.order[a].is_open

\* MUTANT: an order stays after its proceeds were collected.
OrderKept(db, a) == db

EraseOrder(db, a) == [db EXCEPT !.order[a] = NoRow]

\* MUTANT: sellers who wait are not looked at.
rex_loans_always_available(db) == rex_available(db)

rex_loans_available(db) == rex_available(db) /\ \A a \in Accounts : ~ IsOpen(db, a)

TokensMoved(db, from, to, amount) ==
  [Require(db, db.tokens[from] >= amount)
     EXCEPT !.tokens[from] = @ - amount, !.tokens[to] = @ + amount]

FundOf(db, owner) == IF db.fund[owner] = NoRow THEN 0 ELSE db.fund[owner]

transfer_from_fund(db, owner, amount) ==
  [Require(db, amount > 0 /\ db.fund[owner] # NoRow /\ FundOf(db, owner) >= amount)
     EXCEPT !.fund[owner] = FundOf(db, owner) - amount]

transfer_to_fund(db, owner, amount) ==
  [Require(db, amount > 0) EXCEPT !.fund[owner] = FundOf(db, owner) + amount]

\* MUTANT: the totals only ever grow.
update_resource_limits_growing(db, receiver, kind, delta) ==
  [db EXCEPT !.userres[receiver][kind] = @ + (IF delta > 0 THEN delta ELSE 0)]

update_resource_limits(db, receiver, kind, delta) ==
  [Require(db, db.userres[receiver][kind] + delta >= 0)
     EXCEPT !.userres[receiver][kind] = @ + delta]

\* The voter row is created when missing.
VoterWith(row, stake) ==
  IF row = NoRow THEN [staked |-> stake, votes |-> FALSE] ELSE [row EXCEPT !.staked = stake]

update_voting_power(db, voter, delta) ==
  LET stake == (IF db.voters[voter] = NoRow THEN 0 ELSE db.voters[voter].staked) + delta
  IN  [Require(db, stake >= 0)
         EXCEPT !.voters[voter] = VoterWith(db.voters[voter], stake)]

\* MUTANT: any vote will do.
check_any_vote(db, owner) == db.voters[owner] # NoRow

\* Voting for a proxy or for 21 producers.
check_voting_requirement(db, owner) == db.voters[owner] # NoRow /\ db.voters[owner].votes

\* Collects a filled order, credits the proceeds and counts the stake.
update_rex_account(db, owner, proceeds, delta_stake, force_vote_update) ==
  LET filled   == IsFilled(db, owner)
      to_fund  == proceeds + (IF filled THEN db.order[owner].proceeds ELSE 0)
      to_stake == delta_stake + (IF filled THEN db.order[owner].stake_change ELSE 0)
      erased   == IF filled THEN EraseOrder(db, owner) ELSE db
      funded   == IF to_fund > 0 THEN transfer_to_fund(erased, owner, to_fund) ELSE erased
  IN  IF force_vote_update \/ to_stake # 0
      THEN update_voting_power(funded, owner, to_stake) ELSE funded

\* MUTANT: the shares of the open order are not reported.
NothingInSellOrder(db, owner) == 0

RexInSellOrder(db, owner) == IF IsOpen(db, owner) THEN db.order[owner].rex_requested ELSE 0

\* What update_rex_stake adds to the stake counted for a voter.
RexStakeDelta(db, voter) ==
  IF db.bal[voter] # NoRow /\ rex_available(db)
  THEN Value(db.pool, db.bal[voter].rex_balance) - db.bal[voter].vote_stake ELSE 0

VoterAdded(row, delta) == IF row = NoRow THEN row ELSE [row EXCEPT !.staked = @ + delta]

\* MUTANT: the vote is brought up to date, the row of the shares is not.
update_voter_only(db, voter) ==
  [db EXCEPT !.voters[voter] = VoterAdded(@, RexStakeDelta(db, voter))]

update_rex_stake(db, voter) ==
  LET delta == RexStakeDelta(db, voter)
  IN  IF delta = 0 THEN db
      ELSE [db EXCEPT !.bal[voter].vote_stake = @ + delta,
                      !.voters[voter] = VoterAdded(@, delta)]

-----------------------------------------------------------------------------
(***************************************************************************)
(* runrex                                                                  *)
(***************************************************************************)
\* MUTANT: the promise stays after it was kept.
ChannelNamebidsAgain(db) ==
  IF db.pool.namebid_proceeds > 0 /\ rex_available(db)
  THEN [TokensMoved(db, NamesAccount, RexAccount, db.pool.namebid_proceeds)
          EXCEPT !.pool = Channelled(@, db.pool.namebid_proceeds)]
  ELSE db

\* Name bid proceeds promised to the pool are paid to it from eosio.names.
ChannelNamebids(db) ==
  LET amount == db.pool.namebid_proceeds
      paid   == IF rex_available(db)
                THEN [TokensMoved(db, NamesAccount, RexAccount, amount)
                        EXCEPT !.pool = Channelled(@, amount)]
                ELSE db
  IN  IF amount > 0 THEN [paid EXCEPT !.pool.namebid_proceeds = 0] ELSE db

\* MUTANT: a renewed loan keeps its first stake.
RenewedAtOldPrice(l, rented_tokens) ==
  [l EXCEPT !.expiration = @ + LoanTerm, !.balance = @ - l.payment]

update_renewed_loan(l, rented_tokens) ==
  [l EXCEPT !.total_staked = rented_tokens,
            !.expiration = @ + LoanTerm,
            !.balance = @ - l.payment]

\* MUTANT: the balance of a deleted loan is forgotten.
BalanceLost(db, l) == db

\* MUTANT: an empty balance is returned too, which transfer_to_fund refuses.
BalanceAlwaysReturned(db, l) == transfer_to_fund(db, l.from, l.balance)

\* What is left of a deleted loan's balance goes back to its owner's fund.
BalanceReturned(db, l) ==
  IF l.balance > 0 THEN transfer_to_fund(db, l.from, l.balance) ELSE db

\* A loan that has paid for another term is renewed at the present price when
\* that is favorable and no seller is waiting; otherwise it is deleted.
process_expired_loan(db, id) ==
  LET l       == db.loan[id]
      removed == [db EXCEPT !.pool = LoanRemoved(@, l.total_staked)]
      rented  == RentedTokens(removed.pool, l.payment)
      renewed == [removed EXCEPT
                    !.pool = LoanAdded(@, l.payment, rented, FALSE),
                    !.loan[id] = update_renewed_loan(l, rented)]
      closed  == [BalanceReturned(removed, l) EXCEPT !.loan[id] = NoRow]
  IN  IF /\ l.payment <= l.balance
         /\ l.payment < rented
         /\ rex_loans_available(removed)
      THEN update_resource_limits(renewed, l.receiver, l.kind, rented - l.total_staked)
      ELSE update_resource_limits(closed, l.receiver, l.kind, - l.total_staked)

Expired(db, kind) ==
  {i \in LoanIds : /\ db.loan[i] # NoRow
                   /\ db.loan[i].kind = kind
                   /\ db.loan[i].expiration <= now}

\* The loan that expired first, the smaller loan_num among equals.
FirstExpired(db, kind) ==
  CHOOSE i \in Expired(db, kind) : \A j \in Expired(db, kind) :
     \/ db.loan[i].expiration < db.loan[j].expiration
     \/ db.loan[i].expiration = db.loan[j].expiration /\ i <= j

ProcessLoan(db, kind) ==
  IF Expired(db, kind) = {} THEN db ELSE process_expired_loan(db, FirstExpired(db, kind))

\* As many of the expired loans as there are, at most max.
ProcessLoans(db, kind, max) ==
  LET after[i \in 0..max] == IF i = 0 THEN db ELSE ProcessLoan(after[i - 1], kind)
  IN  after[max]

\* The row of an owner who sold matured shares; the others are worth the stake.
Sold(row, rex, stake) ==
  [row EXCEPT !.vote_stake = stake, !.rex_balance = @ - rex, !.matured_rex = @ - rex]

\* fill_rex_order for shares that are not more than the owner has matured: the
\* pool pays their value, unless too much of it is lent.
fill_rex_order(db, owner, rex) ==
  LET p     == Value(db.pool, rex)
      stake == Value(db.pool, db.bal[owner].rex_balance) - p
  IN  IF CanFill(db.pool, rex)
      THEN [success |-> TRUE, proceeds |-> p,
            stake_change |-> stake - db.bal[owner].vote_stake,
            db |-> [db EXCEPT !.pool = Filled(@, rex),
                              !.bal[owner] = Sold(@, rex, stake)]]
      ELSE [success |-> FALSE, proceeds |-> 0, stake_change |-> 0, db |-> db]

\* The open orders in the order of the index: by time, then by owner.
Earlier(db, a, b) ==
  \/ db.order[a].order_time < db.order[b].order_time
  \/ /\ db.order[a].order_time = db.order[b].order_time
     /\ NameValue[a] <= NameValue[b]

Queue(db) == {a \in Accounts : IsOpen(db, a)}

FirstOf(db, queue) == CHOOSE a \in queue : \A b \in queue : Earlier(db, a, b)

OrderFilled(row, proceeds, stake_change) ==
  [row EXCEPT !.proceeds = proceeds, !.stake_change = stake_change, !.is_open = FALSE]

TryOrder(db, owner) ==
  LET result == fill_rex_order(db, owner, db.order[owner].rex_requested)
  IN  IF result.success
      THEN [result.db EXCEPT !.order[owner] =
              OrderFilled(@, result.proceeds, result.stake_change)]
      ELSE db

\* One order further; an order that cannot be filled is passed over.
NextOrder(walk) ==
  LET owner == FirstOf(walk.db, walk.left)
  IN  IF walk.left = {} THEN walk
      ELSE [db |-> TryOrder(walk.db, owner), left |-> walk.left \ {owner}]

\* The queue from its front, at most max orders of it.
ProcessOrders(db, max) ==
  LET after[i \in 0..max] ==
        IF i = 0 THEN [db |-> db, left |-> Queue(db)] ELSE NextOrder(after[i - 1])
  IN  after[max].db

runrex(db, max) ==
  IF ~ rex_system_initialized(db) THEN Require(db, FALSE)
  ELSE LET named == ChannelNamebids(db)
           cpu   == ProcessLoans(named, "cpu", max)
           net   == ProcessLoans(cpu, "net", max)
       IN  ProcessOrders(net, max)

-----------------------------------------------------------------------------
(***************************************************************************)
(* Funds and shares                                                        *)
(***************************************************************************)
stakingRest == <<now, delband, refunds, deferred, activated>>

deposit(owner, amount) ==
  /\ amount > 0
  /\ Commit(transfer_to_fund(TokensMoved(DB, owner, RexAccount, amount), owner, amount))
  /\ UNCHANGED stakingRest

withdraw(owner, amount) ==
  /\ amount > 0
  /\ LET collected == update_rex_account(DB, owner, 0, 0, FALSE)
     IN  Commit(TokensMoved(transfer_from_fund(collected, owner, amount),
                            RexAccount, owner, amount))
  /\ UNCHANGED stakingRest

\* add_to_rex_pool and add_to_rex_balance: the owner gets shares for the
\* payment, and the stake its vote counts for them is brought up to date.
BuyShares(db, owner, payment) ==
  LET before   == PoolOf(db)
      after    == AddedTo(before, payment)
      received == after.total_rex - before.total_rex
      row      == IF db.bal[owner] = NoRow
                  THEN [vote_stake |-> payment, rex_balance |-> received,
                        matured_rex |-> 0, rex_maturities |-> << >>]
                  ELSE [db.bal[owner] EXCEPT
                          !.rex_balance = @ + received,
                          !.vote_stake = Value(after, db.bal[owner].rex_balance + received)]
  IN  [db    |-> [Require(db, CanAddTo(before))
                    EXCEPT !.pool = after, !.bal[owner] = WithBought(row, now, received)],
       delta |-> row.vote_stake - (IF db.bal[owner] = NoRow THEN 0 ELSE db.bal[owner].vote_stake)]

buyrex(from, amount) ==
  /\ amount > 0
  /\ check_voting_requirement(DB, from)
  /\ LET bought == BuyShares(transfer_from_fund(DB, from, amount), from, amount)
     IN  Commit(update_rex_account(runrex(bought.db, 2), from, 0, bought.delta, FALSE))
  /\ UNCHANGED stakingRest

\* MUTANT: the inline transfer from eosio.stake is missing.
StakeStays(db, amount) == db

StakeToRex(db, amount) == TokensMoved(db, StakeAccount, RexAccount, amount)

\* The stake delta that add_to_rex_balance returns is not used here.
unstaketorex(owner, receiver, quantity) ==
  /\ NonNegative(quantity)
  /\ Sum(quantity) > 0
  /\ check_voting_requirement(DB, owner)
  /\ LET row     == Plus(delband[<<owner, receiver>>], Negative(quantity))
         total   == TotalAfter(receiver, Negative(quantity))
         freed   == [Require(DB, NonNegative(total)) EXCEPT !.userres[receiver] = total]
         moved   == StakeToRex(freed, Sum(quantity))
         bought  == BuyShares(moved, owner, Sum(quantity))
     IN  /\ NonNegative(row)
         /\ delband' = [delband EXCEPT ![<<owner, receiver>>] = row]
         /\ Commit(update_rex_account(runrex(bought.db, 2), owner, 0, 0, TRUE))
  /\ UNCHANGED <<now, refunds, deferred, activated>>

\* An order that cannot be filled is queued, or added to the one queued.
OrderWith(row, rex) ==
  IF row = NoRow
  THEN [rex_requested |-> rex, proceeds |-> 0, stake_change |-> 0,
        order_time |-> now, is_open |-> TRUE]
  ELSE [row EXCEPT !.rex_requested = @ + rex]

Queued(db, from, rex) == [db EXCEPT !.order[from] = OrderWith(@, rex)]

sellrex(from, rex) ==
  /\ rex > 0
  /\ bal[from] # NoRow
  /\ rex_system_initialized(DB)
  /\ LET run     == runrex(DB, 2)
         matured == [run EXCEPT !.bal[from] = process_rex_maturities(@, now)]
         current == fill_rex_order(matured, from, rex)
         updated == update_rex_account(current.db, from, current.proceeds,
                                       current.stake_change, FALSE)
         final   == IF current.success THEN updated ELSE Queued(updated, from, rex)
     IN  /\ rex <= matured.bal[from].matured_rex
         /\ current.success => current.proceeds > 0
         /\ RexInSellOrder(final, from) <= final.bal[from].matured_rex
         /\ Commit(final)
  /\ UNCHANGED stakingRest

cnclrexorder(owner) ==
  /\ IsOpen(DB, owner)
  /\ Commit(EraseOrder(DB, owner))
  /\ UNCHANGED stakingRest

updaterex(owner) ==
  /\ bal[owner] # NoRow
  /\ rex_system_initialized(DB)
  /\ LET run   == runrex(DB, 2)
         row   == run.bal[owner]
         stake == IF rex_available(run) THEN Value(run.pool, row.rex_balance) ELSE 0
         set   == [run EXCEPT !.bal[owner].vote_stake = stake]
         voted == update_rex_account(set, owner, 0, stake - row.vote_stake, TRUE)
     IN  Commit([voted EXCEPT !.bal[owner] = process_rex_maturities(@, now)])
  /\ UNCHANGED stakingRest

consolidate(owner) ==
  /\ bal[owner] # NoRow
  /\ rex_system_initialized(DB)
  /\ LET run == update_rex_account(runrex(DB, 2), owner, 0, 0, FALSE)
     IN  Commit([run EXCEPT !.bal[owner] =
                   consolidate_rex_balance(@, now, RexInSellOrder(run, owner))])
  /\ UNCHANGED stakingRest

mvtosavings(owner, rex) ==
  /\ bal[owner] # NoRow
  /\ rex > 0
  /\ rex_system_initialized(DB)
  /\ LET run   == update_rex_account(runrex(DB, 2), owner, 0, 0, FALSE)
         row   == run.bal[owner]
         moved == MovedToSavings(row, now, rex)
     IN  /\ rex + RexInSellOrder(run, owner) + Savings(row.rex_maturities) <= row.rex_balance
         /\ RexInSellOrder(run, owner) <= moved.matured_rex
         /\ Commit([run EXCEPT !.bal[owner] = moved])
  /\ UNCHANGED stakingRest

mvfrsavings(owner, rex) ==
  /\ bal[owner] # NoRow
  /\ rex > 0
  /\ rex_system_initialized(DB)
  /\ LET run == runrex(DB, 2)
     IN  /\ rex <= Savings(run.bal[owner].rex_maturities)
         /\ Commit(update_rex_account([run EXCEPT !.bal[owner] = MovedFromSavings(@, now, rex)],
                                      owner, 0, 0, FALSE))
  /\ UNCHANGED stakingRest

\* MUTANT: only one of the two loan tables is searched.
HasCpuLoans(db, owner) ==
  \E i \in LoanIds : /\ db.loan[i] # NoRow
                      /\ db.loan[i].from = owner
                      /\ db.loan[i].kind = "cpu"

HasLoans(db, owner) == \E i \in LoanIds : db.loan[i] # NoRow /\ db.loan[i].from = owner

\* Erases the fund's row when it is empty and no loan of the owner's can still
\* pay into it, and the balance's row, which must hold nothing.
closerex(owner) ==
  /\ LET run      == IF rex_system_initialized(DB) THEN runrex(DB, 2) ELSE DB
         updated  == update_rex_account(run, owner, 0, 0, FALSE)
     IN  /\ updated.bal[owner] # NoRow => updated.bal[owner].rex_balance = 0
         /\ Commit([updated EXCEPT
                      !.fund[owner] = IF ~ HasLoans(updated, owner) /\ @ = 0 THEN NoRow ELSE @,
                      !.bal[owner] = NoRow])
  /\ UNCHANGED stakingRest

-----------------------------------------------------------------------------
(***************************************************************************)
(* Loans and the rest                                                      *)
(***************************************************************************)
\* rentcpu and rentnet.
rent(from, receiver, kind, payment, loan_fund) ==
  /\ payment > 0
  /\ loan_fund >= 0
  /\ rex_system_initialized(DB)
  /\ LET paid    == transfer_from_fund(runrex(DB, 2), from, payment + loan_fund)
         rented  == RentedTokens(paid.pool, payment)
         id      == paid.pool.loan_num + 1
         lent    == [paid EXCEPT
                       !.pool = LoanAdded(@, payment, rented, TRUE),
                       !.loan[id] = [kind |-> kind, from |-> from, receiver |-> receiver,
                                     payment |-> payment, balance |-> loan_fund,
                                     total_staked |-> rented, expiration |-> now + LoanTerm]]
     IN  /\ id <= MaxLoans
         /\ rex_loans_available(paid)
         /\ payment < rented
         /\ Commit(update_resource_limits(lent, receiver, kind, rented))
  /\ UNCHANGED stakingRest

\* fundcpuloan and fundnetloan.
fundloan(from, id, payment) ==
  /\ loan[id] # NoRow
  /\ loan[id].from = from
  /\ loan[id].expiration > now
  /\ Commit([transfer_from_fund(DB, from, payment) EXCEPT !.loan[id].balance = @ + payment])
  /\ UNCHANGED stakingRest

\* defcpuloan and defnetloan.
defloan(from, id, amount) ==
  /\ loan[id] # NoRow
  /\ loan[id].from = from
  /\ loan[id].expiration > now
  /\ loan[id].balance >= amount
  /\ Commit([transfer_to_fund(DB, from, amount) EXCEPT !.loan[id].balance = @ - amount])
  /\ UNCHANGED stakingRest

rexexec(max) ==
  /\ Commit(runrex(DB, max))
  /\ UNCHANGED stakingRest

setrex(balance) ==
  /\ balance > 0
  /\ rex_system_initialized(DB)
  /\ Commit([DB EXCEPT !.pool.total_rent = balance])
  /\ UNCHANGED stakingRest

\* channel_to_rex with the fee of a RAM purchase or sale.
ramfee(payer, fee) ==
  /\ fee > 0
  /\ rex_available(DB)
  /\ Commit([TokensMoved(DB, payer, RexAccount, fee) EXCEPT !.pool = Channelled(@, fee)])
  /\ UNCHANGED stakingRest

\* channel_namebid_to_rex when onblock closes an auction: the bid is held by
\* eosio.names and is promised to the pool.
closebid(bid) ==
  /\ bid > 0
  /\ rex_available(DB)
  /\ tokens[NamesAccount] >= pool.namebid_proceeds + bid
  /\ Commit([DB EXCEPT !.pool.namebid_proceeds = @ + bid])
  /\ UNCHANGED stakingRest

\* voteproducer: qualifies says whether the new vote is for a proxy or for 21
\* producers.  Staking or a purchase of shares created the voter's row.
voteproducer(voter, qualifies) ==
  /\ voters[voter] # NoRow
  /\ bal[voter] # NoRow /\ bal[voter].rex_balance > 0 => qualifies
  /\ Commit([update_rex_stake(DB, voter) EXCEPT !.voters[voter].votes = qualifies])
  /\ UNCHANGED stakingRest

-----------------------------------------------------------------------------
(***************************************************************************)
(* Staking, which revalues the shares of the account whose stake changes.  *)
(***************************************************************************)
RevalueShares(a) ==
  /\ bal' = update_rex_stake(DB, a).bal
  /\ UNCHANGED <<pool, fund, order, loan>>

RexDelegatebw(from, receiver, quantity, transfer) ==
  LET owner == IF transfer THEN receiver ELSE from
  IN  /\ CanDelegate(from, receiver, quantity, transfer)
      /\ changebw(from, receiver, quantity, transfer, RexStakeDelta(DB, owner))
      /\ RevalueShares(owner)
      /\ UNCHANGED <<now, activated>>

RexUndelegatebw(from, receiver, quantity) ==
  /\ CanUndelegate(quantity)
  /\ changebw(from, receiver, Negative(quantity), FALSE, RexStakeDelta(DB, from))
  /\ RevalueShares(from)
  /\ UNCHANGED <<now, activated>>

StakingStep ==
  \/ \E from, receiver \in Accounts, q \in Quantities, transfer \in BOOLEAN :
        RexDelegatebw(from, receiver, q, transfer)
  \/ \E from, receiver \in Accounts, q \in Quantities : RexUndelegatebw(from, receiver, q)
  \/ \E owner \in Accounts : (refund(owner) \/ DeferredRefund(owner)) /\ UNCHANGED rexVars
  \/ Activate /\ UNCHANGED rexVars
  \/ AdvanceTime /\ UNCHANGED rexVars

OwnerStep(owner) ==
  \/ \E x \in Deposits : deposit(owner, x)
  \/ \E x \in Withdrawals : withdraw(owner, x)
  \/ \E x \in Purchases : buyrex(owner, x)
  \/ \E receiver \in Accounts, q \in [Resource -> Unstakes] : unstaketorex(owner, receiver, q)
  \/ \E x \in Sales : sellrex(owner, x)
  \/ cnclrexorder(owner)
  \/ updaterex(owner)
  \/ consolidate(owner)
  \/ \E x \in Moves : mvtosavings(owner, x)
  \/ \E x \in Moves : mvfrsavings(owner, x)
  \/ closerex(owner)
  \/ \E qualifies \in BOOLEAN : voteproducer(owner, qualifies)
  \/ \E x \in Fees : ramfee(owner, x)

LoanStep(from) ==
  \/ \E receiver \in Accounts, kind \in Resource, x \in Payments, f \in Funds :
        rent(from, receiver, kind, x, f)
  \/ \E id \in LoanIds, x \in Funds : fundloan(from, id, x)
  \/ \E id \in LoanIds, x \in Funds : defloan(from, id, x)

Next ==
  \/ StakingStep
  \/ \E owner \in Accounts : OwnerStep(owner) \/ LoanStep(owner)
  \/ \E max \in Maxes : rexexec(max)
  \/ \E x \in Rents : setrex(x)
  \/ \E x \in Bids : closebid(x)

Spec == Init /\ [][Next]_vars

\* Whether rexexec(max) would change anything: what ENABLED <<rexexec(max)>>_vars
\* amounts to.
MaintenanceDue(max) == pool # NoRow /\ runrex(DB, max).ok /\ runrex(DB, max) # DB

\* Time passes, and there is some traffic: now and then somebody calls rexexec
\* when it has something to do.  This is weak fairness, with the enabling
\* condition spelled out.
FairSpec ==
  /\ Spec
  /\ WF_vars(AdvanceTime /\ UNCHANGED rexVars)
  /\ \A max \in Maxes : \/ []<>(~ MaintenanceDue(max))
                         \/ []<><<rexexec(max)>>_vars

-----------------------------------------------------------------------------
(***************************************************************************)
(* Properties                                                              *)
(***************************************************************************)
Loans == {i \in LoanIds : loan[i] # NoRow}

\* Sums over the tables.
SharesOut(db) ==
  SumFunctionOnSet([a \in Accounts |-> IF db.bal[a] = NoRow THEN 0 ELSE db.bal[a].rex_balance],
                   Accounts)

Claims(db) ==
  SumFunctionOnSet([a \in Accounts |->
     FundOf(db, a) + (IF IsFilled(db, a) THEN db.order[a].proceeds ELSE 0)], Accounts)

LoanFunds(db) ==
  SumFunctionOnSet([i \in LoanIds |-> IF db.loan[i] = NoRow THEN 0 ELSE db.loan[i].balance],
                   LoanIds)

LoanStakes(db) ==
  SumFunctionOnSet([i \in LoanIds |-> IF db.loan[i] = NoRow THEN 0 ELSE db.loan[i].total_staked],
                   LoanIds)

LentTo(db, a, r) ==
  SumFunctionOnSet([i \in LoanIds |->
     IF db.loan[i] # NoRow /\ db.loan[i].receiver = a /\ db.loan[i].kind = r
     THEN db.loan[i].total_staked ELSE 0], LoanIds)

\* The shape of the tables; the amounts in funds and loans are not negative.
RexTypeOK ==
  /\ StakingTypeOK
  /\ pool = NoRow \/ pool \in Pool
  /\ \A a \in Accounts : /\ fund[a] = NoRow \/ fund[a] \in Nat
                         /\ bal[a] = NoRow \/ bal[a] \in RexBalance
                         /\ order[a] = NoRow \/ order[a] \in RexOrder
  /\ \A i \in Loans : loan[i] \in RexLoan /\ loan[i].balance >= 0 /\ loan[i].total_staked > 0

\* The pool's totals are consistent and it has shares exactly when it has
\* tokens: no division by zero, no negative unlent tokens.
PoolConsistent == pool # NoRow => PoolOK(pool)

\* What the pool thinks is lent is what the open loans have staked, through
\* creation, renewal at another price and expiry.
LentIsStaked == LoanStakes(DB) = PoolOf(DB).total_lent

\* The shares outstanding are the shares the owners hold.
SharesHeld == SharesOut(DB) = PoolOf(DB).total_rex

\* The pool accounts for itself: rows of their type, totals that agree with
\* each other and with the shares that owners hold.
PoolAccounted == RexTypeOK /\ PoolConsistent /\ SharesHeld

\* eosio.rex holds exactly the owners' funds, the pool, the funds of open loans
\* and the proceeds nobody has collected yet: nothing is promised twice and
\* nothing is left behind when rows are erased.
RexSolvent == tokens[RexAccount] = Claims(DB) + LoanFunds(DB) + PoolOf(DB).total_lendable

\* What is lent, and every token of eosio.rex, is accounted for while loans are
\* renewed at other prices, refused, closed and paid back.
LoansBacked == LentIsStaked /\ RexSolvent

\* Every row of shares adds up, and an open order never asks for more than has
\* matured, whatever is moved to or from savings, consolidated or sold besides.
OrdersCovered ==
  \A a \in Accounts :
    /\ bal[a] # NoRow => RowOK(bal[a])
    /\ IsOpen(DB, a) => /\ bal[a] # NoRow
                        /\ 0 < order[a].rex_requested
                        /\ order[a].rex_requested <= bal[a].matured_rex

\* An account's totals are what was delegated and lent to it, so that the
\* subtraction when a loan expires can never fail.
ResourcesExplained ==
  \A a \in Accounts : \A r \in Resource : userres[a][r] = DelegatedTo(a)[r] + LentTo(DB, a, r)

\* Staking and REX together: tokens that move from stake into the pool leave
\* both system accounts backed and every limit explained.
StakeExplained == StakeBacked /\ ResourcesExplained /\ RexSolvent

\* Maintenance cannot get stuck: no check inside runrex fails in any state, so
\* no loan or order can block every action that starts with it.
MaintenanceRuns == pool # NoRow => \A max \in Maxes \cup {2} : runrex(DB, max).ok

\* Whoever holds shares votes for a proxy or for 21 producers.
HoldersVote ==
  \A a \in Accounts : bal[a] # NoRow /\ bal[a].rex_balance > 0 =>
     voters[a] # NoRow /\ voters[a].votes

\* Proceeds of name auctions that were promised to the pool are never dropped:
\* while some are pending the pool has shares, so runrex pays them, and
\* eosio.names still holds them.
NamebidsKept ==
  pool # NoRow /\ pool.namebid_proceeds > 0 =>
    pool.total_rex > 0 /\ tokens[NamesAccount] >= pool.namebid_proceeds

\* A loan's owner has a fund row for the remainder of the loan's balance to go
\* back to when runrex, on behalf of somebody else, deletes the loan.
BorrowersHaveFunds == \A i \in Loans : fund[loan[i].from] # NoRow

\* The stake a voter counts is what it delegates, plus the stake recorded with
\* its shares, less the change that waits in a filled order.
VoteStakeCounted ==
  \A a \in Accounts :
     Staked(a) = DelegatedBy(a)
               + (IF bal[a] = NoRow THEN 0 ELSE bal[a].vote_stake)
               - (IF IsFilled(DB, a) THEN order[a].stake_change ELSE 0)

\* No step makes the shares of those who hold on to them worth less: rounding,
\* sales, loans, renewals and fees only ever favor the pool.
NeverDiluted ==
  [][pool # NoRow /\ pool'.total_rex > 0 => NotCheaper(pool, pool')]_vars

\* While a seller waits nobody is lent anything: no new loan and no renewal.
SellersFirst ==
  [][(\E a \in Accounts : IsOpen(DB, a) /\ order'[a] = order[a])
       => pool'.total_lent <= pool.total_lent]_vars

\* The README's promise that a sell order is processed within 30 days: once all
\* loans that existed when it was queued have run out, maintenance that looks
\* at every loan and order fills it.
OverdueOrderFills ==
  \A a \in Accounts :
    IsOpen(DB, a) /\ order[a].order_time + LoanTerm <= now =>
      ~ IsOpen(runrex(DB, MaxLoans + Cardinality(Accounts)), a)

\* Maintenance on behalf of others works: it never fails, can pay everybody it
\* has to pay, and fills what is overdue.
MaintenanceWorks == MaintenanceRuns /\ BorrowersHaveFunds /\ OverdueOrderFills

\* Every order is filled or cancelled in the end, though others sell, cancel and
\* come back meanwhile: a seller is never starved, given traffic and the time
\* its loans need to run out.
SellersServed ==
  \A a \in Accounts :
    (IsOpen(DB, a) /\ order[a].order_time + LoanTerm <= MaxTime) ~> ~ IsOpen(DB, a)
=============================================================================
