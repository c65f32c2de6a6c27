# The eosio system contracts in TLA+

This directory holds a model of the contracts under `src/contracts`: TLA+
modules translated from the C++ source, TLC configurations that check them on
small instances, and proofs checked by TLAPS.

## The system

| Component | Source | State | Operations |
|---|---|---|---|
| eosio.token | `eosio.token.cpp` | `stat` (supply, maximum, issuer per symbol), `accounts` (a balance row per owner and symbol) | create, issue, retire, transfer, open, close |
| Bandwidth staking | `delegate_bandwidth.cpp` | `delband`, `userres`, `refunds`, `voters.staked`; deferred transactions of the chain | delegatebw, undelegatebw, refund, the deferred refund |
| REX | `rex.cpp` | `rexpool`, `rexfund`, `rexbal`, `rexqueue`, `cpuloan`, `netloan` | deposit, withdraw, buyrex, unstaketorex, sellrex, cnclrexorder, rentcpu/rentnet, fund/def loans, updaterex, setrex, rexexec, consolidate, mvtosavings, mvfrsavings, closerex; `runrex` inside most of them |
| Voting | `voting.cpp` | `voters`, `producers`, `producers2`, vote totals and activated stake of the global state | regproducer, unregprod, voteproducer, regproxy, the vote again after every change of stake, the election in onblock |
| Producer pay | `producer_pay.cpp` | pay buckets, unpaid blocks, vote-pay shares | onblock, claimrewards, updtrevision |
| Name auction | `eosio.system.cpp`, onblock | `namebids`, `bidrefunds`; deferred transactions | bidname, bidrefund, closing, the claim in newaccount |
| RAM market | `exchange_state.cpp`, `delegate_bandwidth.cpp`, `eosio.system.cpp` | `rammarket`, RAM totals | init, buyram, buyrambytes, sellram, setram, setramrate |
| eosio.msig | `eosio.msig.cpp` | proposals, approvals (two tables), invalidations | propose, approve, unapprove, cancel, exec, invalidate |
| eosio.wrap | `eosio.wrap.cpp` | none | exec |
| eosio.bios | `eosio.bios.hpp` | ABI hashes | pass-through to host functions |
| Administration | `eosio.system.cpp`, `native.hpp` | managed-resource flags, the limits the chain enforces | newaccount, setalimits, setacctram, setacctnet, setacctcpu; setabi, setparams, setpriv, ... |

How they interact: a transaction is a sequence of actions, each atomic with the
inline actions it sends; a failed check anywhere reverts all of it. Staking,
REX, RAM and the auctions move tokens with inline transfers of the token
contract between users and system accounts (`eosio.stake`, `eosio.rex`,
`eosio.names`, ...). Staking and REX write the same rows of `userres` and
`voters`; `vote_stake_updater` makes every change of stake or vote revalue the
account's REX; onblock and the RAM actions feed REX. Deferred transactions
(the refund, an executed proposal) run later or are cancelled.

What is hard, and where the properties aim:

* nothing runs in parallel, but users' actions interleave in any order, and
  REX maintenance makes one user's action change the rows of others;
* amounts are kept redundantly: the pool's totals against loans, shares and
  funds, limits against delegations and loans, `staked` against delegations and
  `vote_stake`, the balance of each system account against all it owes;
* rows are created and erased, and an erased row may be expected later;
* time: refunds, maturities, loans and the promise that a sale is processed
  within 30 days; deferred transactions race with manual actions;
* truncating divisions and prices that divide by totals which can become zero;
* tallies and integrals kept by adding and taking away differences, through
  proxies and thresholds in time: a difference lost once is never repaired.

`PROJECT.json` lists the hazards one by one, each at its line, with the
properties that would catch it.

What makes each component correct:

* token: supply = sum of balances, within the maximum, nobody overdrawn;
* staking: `eosio.stake` = delegations + refunds, each table a sum of the
  other, no refund before its delay since the last undelegation, no lost refund;
* REX: `eosio.rex` = funds + pool + loan balances + uncollected proceeds,
  shares outstanding = shares held, maintenance never blocked, sellers before
  borrowers, no dilution;
* voting: a producer's votes = what those who vote for it last cast, a proxy's
  = what was cast through it, no chains or circles of proxies;
* producer pay: the total of the vote-pay shares = their sum, now and as time
  passes; the buckets are in their accounts; every claim can be paid; the
  schedule follows the votes;
* auction: `eosio.names` = open bids + refunds + proceeds, no bidder loses or
  gains, whoever is outbid is refunded, every auction closes;
* RAM: bytes owned + bytes for sale = all there are, `eosio.ram` covers every
  sale, no trade takes value out;
* limits: what the chain enforces = what the account has, unless the system
  account manages it;
* msig: a proposal is executed at most once, on approvals that still stand, and
  those it needs can always approve it anew; only an old proposal can be lost for
  good, to accounts that invalidated their own approvals.

## Modules

| Module | What it is |
|---|---|
| `Ledger` | abstract specification of a multi-symbol ledger |
| `Token` | eosio.token; implements `Ledger` |
| `SumProofs` | facts about sums of functions over finite sets, products, quotients and even numbers |
| `TokenAuctionProofs` | theorems about `Token`, the refinement included, and about `NameAuction` |
| `Staking` | delegatebw, undelegatebw, refund and the deferred refund |
| `StakingHistory` | `Staking` with the time of each account's last undelegation as a history variable |
| `RexPool` | arithmetic of the pool's row, no state |
| `RexBalance` | maturity buckets of one owner's row, no state |
| `Rex` | all of rex.cpp, composed with `Staking` |
| `RunrexProofs` | theorems about what the actions of `Rex` share: the pool's arithmetic, the buckets of a row, the helpers, maintenance |
| `RexProofs` | theorems about the actions of `Staking` and `Rex`, and about `StakingHistory` |
| `Consent` | abstract specification of agreement to proposals |
| `Msig` | eosio.msig; implements `Consent` |
| `MsigProofs` | theorems about `Msig`, the refinement included |
| `Voting` | all of voting.cpp and what changes of stake do to votes |
| `ProducerPay` | producer_pay.cpp, composed with `Voting` |
| `VotingProofs` | theorems about `Voting` and `ProducerPay` |
| `NameAuction` | name bids from the first bid to the claimed account |
| `RamMarket` | exchange_state and the RAM actions |
| `MarketProofs` | theorems about `RamMarket` |
| `AccountLimits` | what sets the limits that the chain enforces |
| `LimitsProofs` | theorems about `AccountLimits` |
| `MCToken`, `MCStaking`, `MCRex`, `MCMsig`, `MCVoting`, `MCProducerPay`, `MCNameAuction`, `MCRamMarket`, `MCAccountLimits` | instances for TLC |

### Token

`stat` and `accounts` are partial functions, since a row may exist or not
whatever it holds. `Issue` is one step with its inline transfer. `Names` are
all names that can be written in an action and `Accounts` those for which
`is_account()` holds; the model assumes only an account can authorize. A symbol
is its code: the check of its precision has no behaviour of its own.

### Staking

NET and CPU go together as a function on `Resource`. A row that the code erases
when it is empty is a row of zeros, except a refund request, whose existence
matters. `changebw` is one operator with the code's order of effects: row,
totals, refund (`Settle`), schedule (`Schedule`), payment, vote. The chain's
deferred transactions are one slot per owner, as `send` with replacement under
the sender id `from` makes them: `DeferredRefund` runs a due one and uses it up
whether `refund` succeeds in it or not. `Activate` stands for
`total_activated_stake` passing the threshold, which never reverts.

The contract does not record when somebody undelegated, only the `request_time`
of the one request that all pending undelegations share, and `refund` trusts it.
`StakingHistory` adds that record (`undelegated`), which no action reads, so that
`NoEarlyRefund` compares a payment with the undelegation itself: it fails if
`changebw` keeps the time of a request to which more is added.

### Rex

Almost every handler begins with `runrex`, which threads five tables through
loops. The handlers are therefore functions on a record of all tables, with the
names of the C++ functions, and an action commits the result. `ok` in that
record is FALSE once a check has failed. CPU and NET loans are one function
from `loan_num`, which the code draws from one counter, to loans with a `kind`;
`rent`, `fundloan` and `defloan` stand for the two actions each. `runrex(max)`
channels name bids, then processes up to `max` CPU loans, `max` NET loans and
`max` orders, in the order of the indices. A sale that cannot be filled is
queued; an order that is filled stays as a closed row until its owner's next
action. Actions of `Staking` revalue the shares of the account whose stake
changes (`RevalueShares`). The RAM market is represented by the fee it sends,
paid by the buyer (the code passes it through `eosio.ramfee`), and the name
auction by the bids it closes, which `eosio.names` must hold.

### Msig

A transaction is what the contract learns of it: its expiration and, from the
host, which sets of permission levels authorize it (`sufficient`); the hash of
`approve` stands for the transaction itself. Both tables of approvals hold rows
of the same shape. An approval in the old table has the time `NoTime`, earlier
than any invalidation, which is what `exec` makes of it: it counts only if its
actor never invalidated anything. Lists are sequences, as the code erases the
first equal entry and a level may be requested twice. Rows of the old table
exist only at first (`OldRows`). The chain keeps one deferred transaction per
sender id, and `send_deferred` without replacement fails while one is there;
`ChainRuns` runs or drops it later. Two facts of the code that are no error but
easily missed: an approval given in the block of an invalidation does not count,
and has to be taken back before it can be given again; and an approval of an old
proposal never counts once its actor has invalidated anything, even if it was
given after that. `StillExecutable` therefore says two things: an account that a
proposal in the new table needs can make its approval count in the next block
(`CanAgree`: approve, or unapprove and approve, without disturbing what else
counts), and for a proposal in the old table the same holds of every account but
those that have ever invalidated (`Withdrawn`).

### Voting

`update_votes`, `propagate_weight_change` and the two functions on vote-pay
shares are functions on a record of the tables they pass on, as `runrex` is in
`Rex`; the recursion through the proxy is bounded by the number of voters, which
`ProxiesAreRoots` shows is enough. A change of stake is `ChangeStake`, which
votes again if the voter votes; it stands for `update_voting_power` called from
delegatebw, undelegatebw and REX, whose other effects are in `Staking` and
`Rex`. What REX is worth more than when it was last looked at is an input of
`voteproducer` (`gain`), at least 0 since shares are never diluted. `rex_stake`
is the part of a voter's stake that comes from REX: undelegatebw cannot take it.

A unit of stake weighs `Growth[now]`, which the code computes as a power of two
of the weeks since 2000. The weights are exact and even instead of doubles, so
that the code's test `> 1` for a change, meant for noise, tells whether there is
one; noise itself, and tallies rounded to below zero, are out of the model.
Producers from before the table `producers2` (`Legacy`) have a row at first and
possibly a time of their last claim. `MaxActivated` bounds
`total_activated_stake`, which grows without end when a voter without weight
votes again. The chain may refuse a schedule, so `update_elected_producers` may
do nothing.

### ProducerPay

Every action of `Voting` is a step. The buckets, the unpaid blocks, the supply
and the accounts that inflation goes to are added. Inflation is a part of the
supply per tick (`Year` ticks double it; the code has 4.879% a year); a fifth of
it goes to producers, a quarter of that by blocks, as in the code. The inline
issue and transfers refuse zero and more than the maximum supply (`CanIssue`).
`onblock` is one step with `update_elected_producers`, which the code calls only
once a minute, and a schedule can be refused, so blocks without one are in.
Closing an auction in `onblock` is in `NameAuction`.

### NameAuction

A name is one of `TopNames`, sold by auction, or of `SubNames`, created by the
owner of their suffix. `bidname` has the increment of 10%, the refund row of the
bidder who was outbid and its deferred transaction, one slot per name and bidder
as the sender id makes it. Only one auction is looked at, the highest open bid
in the index (`IsHighest`; `Rank` decides ties), and `onblock` closes it or
nothing. `CollectProceeds` is `runrex` in REX, which keeps the proceeds or, when
it has no shares, drops them (`kept` sums them up, a history variable like
`spent`, what each bidder has paid for names it created). A day is as many ticks
as the configuration says; the code's comparisons are strict, so with 0 a tick
is longer than a day.

### RamMarket

Both connectors have weight 1/2, so the powers in `exchange_state` are a square
root and a square: `Issued` is the largest whole result, `Released` an exact
quotient truncated, which is what the truncated double is unless the exact value
is within rounding of a whole number. New RAM is a product in 32 bits
(`RamWidth`). Only the RAM part of user rows is kept, and fees go to REX or stay
in `eosio.ramfee`.

### AccountLimits

One account's row and limits, with `newaccount`, `setalimits`, `Manage` and
`Unmanage` (the three setacct actions with and without a value) and the parts of
`changebw`, of REX's `update_resource_limits` and of RAM trades that write
limits; stake and RAM change by any amount the row covers. Accounts share
nothing here, so one is enough.

Operators marked MUTANT are variants of the definition after them, with a bug
of the kind the properties are there to catch; no specification uses them.

## Runs

All runs check deadlock. Bounds are the constants in each `.cfg`; an empty set
of amounts takes an action out of that instance, and between them the passing
runs fire every action. Properties that belong together are checked as one
conjunction (`StakingSound`, `PoolAccounted`, `LoansBacked`, `MaintenanceWorks`,
`StakeExplained`, `MarketAccounted`, `EveryTokenPlaced`, `TalliesAddUp`,
`VotePayAddsUp`, `PayBacked`), whose parts are named and explained in the module.

| Run | Instance | Shows |
|---|---|---|
| `token` | 2 symbols, 2 accounts and a name that is no account, amounts -3..3, maximum supply up to 3 | the two tables stay in step; `Ledger` is implemented |
| `staking` | 2 accounts with 3 and 1 tokens, amounts 0..2 for each resource, delay 1, time 0..2 | `eosio.stake` is exactly backed; totals and votes match the delegations; nothing is paid before the delay since the last undelegation, and no scheduled refund is wasted |
| `rex_trade` | 2 owners, a loan of 13 of 26 tokens for one period (CPU, to the borrower itself: `OwnCpuLoans`), sales of a part and of everything, rexexec one at a time, under fairness | two orders wait at once, the pool is emptied and starts again; solvency, shares, votes, no dilution; every order is filled or cancelled |
| `rex_loans` | 1 seller, 1 borrower, 2 loans of either kind for either receiver, with and without money for renewal, a name bid, a RAM fee, time for renewals and expiry | lending is accounted for, maintenance is never blocked and fills overdue orders, sellers come before borrowers |
| `rex_staking` | an account without voter row and another, stake 3 a piece, unstaking into REX; 2-day maturities of 2-tick days in 5 ticks, savings, partial sales, loan, price reset, withdrawal; after the first instant and, while nobody has bought REX, the second, only states without stake and refunds are followed (`StakingIsEarly`) | an order stays covered by matured shares; staking and REX together are backed and explained; who holds shares votes |
| `rex_unstake` | staking and REX, shares revalued by a loan's fee | violation, see Findings |
| `msig` | 2 accounts, 2 proposals at a time (one may be old), transactions that need one or both levels and expire early or late, a level requested twice, 3 blocks of half a second | only approvals that stand count, both tables stay paired with the proposals, those a proposal needs can approve it anew whatever happened, `Consent` is implemented |
| `ram_market` | 2 accounts with 9 and 2 tokens, a market of 20 bytes and 5 virtual tokens, trades of 1 to 5 tokens and 3 or 8 bytes, one setram, RAM added by blocks | bytes and tokens are accounted for, every sale is covered, value never leaves |
| `name_auction` | 2 bidders with 4 tokens each, bids 1..4 on one name and 1 on the other, a name below the first, 4 days, under fairness | every token is placed, a sold name stays sold, refunds are paid, all auctions close |
| `account_limits` | 1 account, changes 0..2, gift 2, limits unlimited, 0 and 7 | limits follow rows, what was unstaked is gone, managed limits are kept |
| `voting` | 2 voters with stake up to 2 and 1 and 2 producers (one of them legacy), or 3 voters with stake 1, in the first tick also from REX, and one producer (`MCCases`); weights double in the second tick; voters are symmetric | tallies of producers and proxies add up, no chain of proxies, no weight without stake behind it |
| `producer_pay` | 1 voter, 2 producers (one legacy), up to 2 unpaid blocks in the second tick and 1 in the others (`MCCases`), a claim a tick, 2 ticks until votes stop to earn, both revisions, inflation up to a maximum supply | vote pay adds up, buckets are backed, every claim can be paid, schedules follow votes |

The amounts are chosen so that truncation happens (prices are never whole once
a fee has been paid), the fifth kept in reserve matters, and a sale can be
larger than what is unlent. In `name_auction` four bids on one name let a bidder
be outbid twice while its first refund waits, so that a refund row is added to;
the other name's bid is the one a closed or higher auction could hold up. In
`producer_pay` two unpaid blocks make a claim take a part of the bucket, and
three ticks let a producer be late, be found late and claim again. A third voter
lets two choose the same proxy, and makes a chain of proxies possible if the
checks allowed one. `StakingIsEarly` and `MCCases` cut off combinations of two
features each of which is followed by itself; `OwnCpuLoans` cuts off the kinds
and receivers that `rex_loans` tells apart, in states that fairness asks no step
into. Two accounts are enough for every conflict between
two rows; a queue of three and more than two concurrent loans are not checked.
`MaxTime` leaves room for one loan to expire, and in `rex_loans` to be renewed
and expire again, after everything else.

Fairness. Nothing in the code runs maintenance by itself: `runrex` is called by
users' actions. `FairSpec` assumes that time passes and that some user calls
`rexexec`, or anything that contains it, again and again while it has something
to do. `SellersServed` therefore says that other people's orders and
cancellations cannot starve a seller, not that the chain serves one unasked.
The enabling condition of `rexexec` is spelled out (`MaintenanceDue`), because
TLC evaluates ENABLED of a nested handler very slowly. `OverdueOrderFills` is
the safety form: at any moment after a loan term, a single large enough
`runrex` would fill the order.

`FairSpec` of `NameAuction` assumes that the chain produces blocks, which run
`onblock`, and runs the transactions that are scheduled, as the host does.
`OutbidRefunded` says that a refund is paid although outbidding cancels and
sends its transaction again, and `AuctionsClose` that an auction closes once the
chain is activated although only the highest bid is looked at, once a day.

## Findings

* `VoteStakeCounted` (`rex.cpp:114`, run `rex_unstake`). `unstaketorex` discards
  the change of stake that `add_to_rex_balance` returns. If the owner held
  shares whose value had changed, `vote_stake` takes the new value and the
  voter's `staked` does not, against the header's description of the field
  (line 244). In `rex_trade`, where shares are bought with `buyrex` only, the
  invariant holds. There is a second way to lose it, which that run's amounts do
  not reach: once a share is worth more than a purchase, `buyrex` takes the payment
  for no share at all and still counts it as `vote_stake` (`rex.cpp:1133`);
  `closerex` then finds no shares and removes the row, while the voter keeps the
  stake. At 10000 shares per token this takes payments of almost nothing.

The other findings have a configuration each, `tlc -config X.cfg M`, in which
TLC finds the statement of a comment or a document violated:

* `RefundScheduled` (`delegate_bandwidth.cpp:404`; `MCStakingRefund.cfg`,
  `MCStaking`). The README of eosio.system (line 45) and the header (line 507)
  say that unstaked tokens are sent back by a scheduled transaction. `changebw`
  cancels that transaction in every call that does not touch the refund:
  delegating to another account, or receiving stake from somebody with the
  transfer flag. The tokens are not lost, as `refund` can be pushed by hand.
* `VotesEarnOnce` (`producer_pay.cpp:182`; `MCLegacyShares.cfg`,
  `MCProducerPay`). A legacy producer that claimed long ago and registers again
  has its votes added to the total rate of vote-pay shares there
  (`voting.cpp:59`) and once more by its next claim. The total then grows faster
  than the shares, and all are paid less.
* `BuysExactBytes` (`delegate_bandwidth.cpp:93`; `MCRamBytes.cfg`,
  `MCRamMarket`). `buyrambytes` spends what the bytes would fetch in a sale, and
  the fee comes out of it: fewer bytes than asked for.
* `AllocatedAtOldRate` (`eosio.system.cpp:91`; `MCRamRate.cfg`, `MCRamMarket`).
  New RAM is computed in 32 bits: after a long pause too little is allocated.
* `FirstVoteActivates` (`voting.cpp:224`; `MCFirstVote.cfg`, `MCVoting`). A
  voter that registered as a proxy before it voted has a weight, so its first
  vote does not activate its stake.
* `ActivatedIsStaked` (`voting.cpp:225`; `MCRexActivation.cfg`, `MCVoting`). A
  comment says nobody can unstake before activation; a sale of REX can.
* `VotesWaitForProxy` (`voting.cpp:262`; `MCVoteWaits.cfg`, `MCVoting`). A comment
  (line 191) says that choosing a proxy changes no producer's votes until the
  proxy votes again. `update_votes` propagates the weight through the proxy to its
  producers in the same step.
* `WeightWaitsForVoter` (`delegate_bandwidth.cpp:441`; `MCProxyWeight.cfg`, `MCVoting`). A
  comment (`voting.cpp:325`) says that a proxy's weight is updated when others call
  voteproducer again. Every change of their stake updates it, and from there the
  producers. What the code does instead is `WeightsAreBacked`: a proxy that votes
  passes on all it was given, at once.

## Proofs

`TokenAuctionProofs` proves the safety invariants of `Token` for any finite set of
names, any accounts among them, any symbols and any largest amount
(`NamesAssumption`, `MaxAmountAssumption`). None of them is inductive alone:
`SupplyBounded` needs, for retire, that the issuer's balance is part of the
supply (`SupplyIsHeld`) and that no other balance is negative (`NoOverdraft`);
`NoStrandedTokens` needs the type of rows. `IInv` is their conjunction. Each
action has a lemma that it preserves `IInv`; they rest on facts of `SumProofs`
about the sum of a function over a finite set: changing one value changes the
sum by the difference (the lemma `SumUpdate`), moving an amount between two elements
leaves it (`SumMove`), and a sum of non-negative values bounds each of them
(`SumBound`). The library defines the sum by a fold; that it is determined by
its recursion (`FoldsAgree`) is proved by descending to a smallest
counterexample, since induction over an operator is out of the provers' reach.
The refinement of `Ledger` (`LedgerImplemented`) rests on the same invariant and
on what each action does to the four things the ledger sees (`Issuers`, `Caps`,
`Supplies`, `Held`): create registers, issue with its inline transfer mints once
(`IssueMints`), retire burns, transfer moves, and open and close are not seen.

The first part of `RexProofs` proves all properties of the run `staking` for any accounts,
balances and delay (`StakingAssumption`: finitely many accounts, no row for
`NoRow`, and voter rows that start without stake). `changebw` is first reduced to
a change of stake, a payment and the request that remains, which balance
(`Settled`, `ChangebwChanges`); from that each sum changes by the same amount on
both sides (`ChangeKeeps`). `DeferredNotEarly` is not inductive alone: a
transaction is scheduled one delay from now for a request that may keep its own
time, and is not early for it only because no request is from the future
(`RequestsPast`).
That no refund is early (`RefundsWait`) is proved of `StakingHistory`, which adds
that no row is a number (`HistoryAssumption`). Both paths pay only a request that
is due by its own time (`NotEarly`); that this time is never before the last
undelegation (`Noted`) is an invariant of its own. It holds because whatever is
left of a request after an undelegation is of now (`UndelegatedNow`), and without
one a request is only reduced, keeping its time, or erased (`RequestStays`).

The second half of `TokenAuctionProofs` proves the safety properties of the run `name_auction`, for any
bidders, names, balances and delay (`AuctionAssumption`). `EveryTokenPlaced` is
inductive as it stands. What `eosio.names` holds and what a bidder has committed are sums over names and
bidders; `RowWritten` and `RefundWritten` reduce them to the one row a step
writes. That a sold name stays sold until its buyer creates it (`SoldIsSold`)
follows from the invariant and a lemma about one step.

`RunrexProofs` and the rest of `RexProofs` prove ten properties of `Rex`, all the
safety properties that the three runs of `Rex` check but `VoteStakeCounted`, for any
accounts, amounts, prices, loan term and number of loans (`RexAssumption`: REX
starts without tokens, names differ as numbers, and the contract's end of days,
where savings mature, is later than any other maturity). It goes from the small
to the large:

1. The pool's row. For all amounts, what each operation preserves under the
   conditions its callers check: `PoolOK`, so that no later division is by zero
   and no part of the pool is negative, and the value of a share
   (`BuyingKeepsPool` and the four theorems after it). The steps with truncating
   division rest on three lemmas, one each for buying, selling and the connector
   formula, derived from the bounds of a quotient.
2. An owner's row. The buckets are a sequence with savings at the end or not;
   buying, maturing, consolidating and both moves of savings keep its sum
   (`BoughtKeepsRow`, `ConsolidationKeepsRow`, `SavingKeepsRow`,
   `UnsavingKeepsRow`).
3. The helpers, functions on the record of all tables. `Good` says that the
   tables have their types, the pool agrees with shares and loans, every row is
   the sum of its buckets, loans are numbered below `loan_num` and proceeds are
   not negative. `Keeps(db, d, x)` says that all but `x` of the tokens of
   `eosio.rex` stay accounted for (`Surplus`), together with what accounts have
   beside loans, `eosio.stake`, the votes of holders, pending name bids, and that
   no share is cheaper. Each helper keeps `Good` and has its own `x`; they add
   up along a handler (`LeadsOn`).
4. Maintenance (`RunrexKeeps`). `ProcessLoans` and `ProcessOrders` are recursive
   functions on the number of rows looked at; their invariants are proved by
   descending to a smallest counterexample. One loan may be renewed or closed,
   with or without a balance to give back; one order filled or passed over.
   That no check fails on the way (`RunrexSucceeds`) needs to know what the limits
   of an account hold besides what was lent to it (`Backs`): they are lowered by a
   loan's stake when it ends.
5. The actions. One lemma per action of rex.cpp says that it keeps `Steps`, and
   one that the state it installs satisfies `RexInv`, which is `Good` with
   `AllCovered` (orders ask for matured shares), no surplus, holders' votes, name
   bids, and from `Staking` its types, `StakeBacked`, `RequestsPast` and
   `ResourcesExplained`. The actions of `Staking` change at most
   the stake that rows of shares count for (`BesideKeeps`); `changebw` is reduced
   to a balanced change as for `Staking` alone (`RestakeKeeps`).

`RexInv` is needed as a whole: that a sale finds its shares needs the sum of
all rows to be the pool's; that a loan ends without the rent connector below zero
needs the sum of all stakes; that nothing of a name bid is dropped needs that the
pool does not run empty while one is pending. `NeverDiluted` and
`SellersFirst` follow from what `Steps` says of one step.

`MaintenanceWorks` is the promise that others may rely on (`MaintenanceDoesWork`).
Maintenance does not fail because `Backs` holds: what an account has besides its
loans was delegated to it (`ResourcesExplained`), and no delegation is negative
(`DelegationsOK`, an invariant of its own). `Timely`, a part of `Good`, says that
every open loan has an owner with a fund, and ends within a term from now and from
the time any open order was queued; it is inductive because nothing is lent or
renewed while an order is open. So when an order has waited for a term all loans
have expired. Maintenance with as many turns as there can be loans closes them
(`AllClose`: every turn leaves one less), nothing is lent any more (`NothingLent`),
the pool can pay for any shares (`EmptyPoolPays`), and as many turns as there are
accounts fill the queue (`AllServed`, `RunrexServes`).

`MsigProofs` proves all five properties of the run `msig`, for any accounts,
levels, requests and transactions (`MsigAssumption`, which also says that what
old proposals need is on their lists, as `propose` checked). `MsigTypeOK` is inductive and
contains what the others need: no approval or invalidation is later than now.
With `RowsPaired`, also inductive, every proposal has a row. Four lemmas say
what approve, unapprove, invalidate and the changes of other rows do to the
approvals that count (`CountAfterApprove`, ...); from these follow
`ConsentFollowsActors` and, action by action, the refinement of `Consent`
(`PromiseKept`). For `StillExecutable` (`StaysExecutable`) an invariant says that
whoever a proposal needs is on one of its two lists (`Listed`), and a lemma that
whoever is on a list can agree anew (`ListedCanAgree`): what is taken back is
requested again, an approval of the next block is later than any invalidation,
and neither touches another level's approval.

`LimitsProofs` proves the three properties of the run `account_limits`, for any
accounts, gift and settings (`LimitsAssumption`). The invariant is
`LimitsFollowRows` with the types: staking keeps the larger of the old RAM limit
and the owned RAM with the gift, which is right only because the old limit
followed the row. `OneFollows` reduces each action to the one account it
writes; staking and lending share one lemma (`StakeChangeKeeps`), buying and
selling RAM another (`RamTradeKeeps`). Each action property follows from the
invariant by a lemma about a single step (`StepOf`).

`MarketProofs` proves the four properties of the run `ram_market`, for any
accounts, sizes and rates (`RamAssumption`). Each conversion of the relay is
reduced to one inequality (`TradeBound`): what is paid out of one connector is in
no better proportion to it than what was paid in is to the other connector
afterwards. The product of the connectors therefore never falls by a trade and
stays at least what it was for all of the RAM at the virtual tokens of the start
(`PriceBacked`); with that in the invariant a seller can never get more than
`eosio.ram` holds (`SaleCovered`), and no trade takes value out
(`ValueNeverLeaves`).

`VotingProofs` proves all properties of the runs `voting` and `producer_pay`, for
any finite sets of voters and producers, any stakes, times and inflation
(`VotingAssumption`, `PayAssumption`: the weight of stake is even and does not
fall as time passes, no row equals the mark `NoRow`, the supply starts within
its maximum). The tallies are sums over voters of what is in their rows, but
within an action the rows lag behind: `propagate_weight_change` notes a weight
before it has reached the producers, and `update_votes` writes the voter's row
last. The invariant therefore keeps, beside the tables, two matrices: what each
voter has cast for each producer and what it gave each proxy to cast. `Tallied`
says that the tallies are their sums, always, and `Agree` that a voter's entries
are what its row says, for all voters but those an action is busy with. The
argument goes in steps:

1. `ChangeVotes`: the tallies of some producers change by given amounts. The
   tally of each, their total, the shares and the total of the shares move
   together (`ChangeVotesTally`, `ChangeVotesPaid`), also for producers whose
   shares expire by the change.
2. One call of `propagate_weight_change` (`PropagateOnceSound`): the weight did
   not change, it goes to a proxy, or to producers. That a change of one or less
   is dropped loses nothing because weights are even (`WeightsEven`, `EvenGap`).
3. The chain of calls (`PropagateSound`). No voters are each other's proxies in a
   circle (`Acyclic`), so from a voter a chain leads only through voters it has
   not been at, and is at its end before the bound on the number of calls. This
   is proved on the walk by descending to a smallest counterexample.
4. `update_votes` (`UpdateVotesSound`): leave the old proxy, join the new one,
   replace the votes, write the row. A chain started at either proxy never comes
   back to the voter (`ProxiesLeadAway`), whose entries are the ones that
   disagree with its row. The new proxy has no proxy of its own, so the graph
   stays free of circles (`ProxiesStayAcyclic`).
5. `VoteInv` is this with `Roots` (a registered proxy has no proxy), `Backed`
   (`WeightsAreBacked` of each row) and the ranges. One lemma per action.

`Paid` says that the total of the shares is their sum and its rate the sum of
their rates; it is in `VoteInv` under the hypothesis that no legacy producer has
claimed before (`LegacyClaims \subseteq {0}`), the one under which the run
checks `VotePayAddsUp` and without which it fails (`VotesEarnOnce` in Findings).
With `ClaimsMade`, a producer without a row in `producers2` has never claimed,
registration introduces its votes once. `PayBacked` is inductive next to
`VoteInv`: a claim changes four balances (`SumOfFour`), and its truncated parts
sum up to what it issues (`InflationSplits`). `PayCovered` follows from
`VotePayAddsUp` and `PayBacked`: no share is more than the sum of all.
`ElectedByVotes` is a fact about one step (`TopHaveMost`): producers ordered by
votes and rank, of which the first `MaxElected` are taken.

Only model-checked: of `Rex` `VoteStakeCounted`, which holds only while nobody
uses `unstaketorex` and every purchase gets at least one share (see Findings); and
liveness (`SellersServed`, `OutbidRefunded`, `AuctionsClose`; out of TLAPS's reach).

## Not modelled

* The rules special to the account b1, and `eosio.stake` as an actor.
* Doubles: `get_bancor_output` and the RAM market are taken exact, which they
  are for products below 2^53; beyond, the truncated double may be off by one.
  Vote weights are exact and even.
* Overflow: balances are bounded by the supply (`SupplyBounded`), and REX
  products are computed in 128 bits.
* eosio.wrap and eosio.bios keep no state of interest; setparams, setpriv and
  setabi hand their argument to the host or store its hash.
* Keys, urls, locations, memos and RAM payers.
* `Rex` and `Voting` are not composed: each has the other's effect as an input
  (who votes, what REX is worth).

## Plan

1. Done: all components with state, as listed above; proofs for `Token` with its
   refinement, `Staking`, `Rex`, `Voting`, `ProducerPay`, `Msig` with its
   refinement, `NameAuction`, the account limits and the RAM market.
2. Proofs: `VoteStakeCounted` for whoever buys shares with `buyrex` only.
