----------------------------- MODULE ProducerPay -----------------------------
(***************************************************************************)
(* What producers earn: onblock counts the blocks they produce and, once a *)
(* minute, proposes the most voted as the next schedule; claimrewards      *)
(* issues the inflation since the last claim of anybody, fills the buckets *)
(* for blocks and for votes, and pays the claimant its part of both.       *)
(*                                                                         *)
(* The votes and their shares are those of module Voting, of which every   *)
(* action is a step here.  onblock also closes name auctions, which is in  *)
(* module NameAuction.                                                     *)
(***************************************************************************)
EXTENDS Voting

CONSTANTS Savings, Bpay, Vpay,  \* eosio.saving, eosio.bpay and eosio.vpay
          ClaimDay,             \* a day in ticks
          Year,                 \* ticks in which the supply doubles
          MinPerVote,           \* min_pervote_daily_pay
          InitRevision,         \* 0, or 1 where it was updated already
          InitSupply, MaxSupply,
          MaxUnpaid             \* bound of the blocks that are not paid

Holders == {Savings, Bpay, Vpay} \cup Producers

ASSUME PayAssumption ==
  /\ Savings # Bpay /\ Savings # Vpay /\ Bpay # Vpay
  /\ Producers \cap {Savings, Bpay, Vpay} = {}
  /\ ClaimDay \in Nat /\ Year \in Nat \ {0} /\ MinPerVote \in Nat
  /\ InitRevision \in {0, 1} /\ MaxUnpaid \in Nat
  /\ MaxSupply \in Nat /\ InitSupply \in 0 .. MaxSupply

VARIABLES unpaid_blocks,        \* producer -> blocks it was not paid for
          total_unpaid_blocks,
          perblock_bucket, pervote_bucket,
          last_pervote_bucket_fill,
          revision,             \* 1 when vote pay follows the shares
          supply,               \* of the core token
          tokens                \* what the holders got from inflation

payVars == <<unpaid_blocks, total_unpaid_blocks, perblock_bucket, pervote_bucket,
             last_pervote_bucket_fill, revision, supply, tokens>>

vars == <<votingVars, payVars>>

Init ==
  /\ VotingInit
  /\ unpaid_blocks = [p \in Producers |-> 0]
  /\ total_unpaid_blocks = 0
  /\ perblock_bucket = 0 /\ pervote_bucket = 0
  /\ last_pervote_bucket_fill = 0
  /\ revision = InitRevision
  /\ supply = InitSupply
  /\ tokens = [h \in Holders |-> 0]

ChainActivated == global.total_activated_stake >= MinActivated

-----------------------------------------------------------------------------
\* MUTANT: blocks of producers that have unregistered count for the total only.
CountedIfActive(p) == IF p # None /\ Active(p) THEN 1 ELSE 0

\* The producer of a block need not be registered.
Counted(p) == IF p # None /\ Registered(p) THEN 1 ELSE 0

\* A block by producer p, or by an account that is none.
onblock(p) ==
  /\ ChainActivated
  /\ total_unpaid_blocks < MaxUnpaid
  /\ last_pervote_bucket_fill' =
       IF last_pervote_bucket_fill = 0 THEN now ELSE last_pervote_bucket_fill
  /\ IF p # None /\ Registered(p)
     THEN /\ total_unpaid_blocks' = total_unpaid_blocks + 1
          /\ unpaid_blocks' = [unpaid_blocks EXCEPT ![p] = @ + Counted(p)]
     ELSE UNCHANGED <<total_unpaid_blocks, unpaid_blocks>>
  /\ update_elected_producers
  /\ UNCHANGED <<now, voters, rex_stake, producers, producers2, perblock_bucket,
                 pervote_bucket, revision, supply, tokens>>

-----------------------------------------------------------------------------
(***************************************************************************)
(* claimrewards                                                            *)
(***************************************************************************)
\* The tokens issued by a claim now, and how they are divided.
Inflation ==
  LET elapsed == now - last_pervote_bucket_fill
      issued == IF last_pervote_bucket_fill > 0 /\ elapsed > 0
                THEN (supply * elapsed) \div Year ELSE 0
      to_producers == issued \div 5
  IN  [issued |-> issued,
       fills |-> last_pervote_bucket_fill > 0 /\ elapsed > 0,
       savings |-> issued - to_producers,
       perblock |-> to_producers \div 4,
       pervote |-> to_producers - to_producers \div 4]

\* issue and transfer refuse to move nothing, and issue to exceed the maximum.
CanIssue(i) ==
  i.fills => i.perblock > 0 /\ i.pervote > 0 /\ i.savings > 0 /\ supply + i.issued <= MaxSupply

ClaimCrossed(p) == Crossed(producers[p], now)

\* The producer's votes do not earn: it lost its share, or never had a row.
ClaimUpdated(p) == producers2[p] = NoRow \/ Updated(producers[p], producers2[p])

ClaimedShare(p) ==
  IF producers2[p] = NoRow THEN 0
  ELSE NewShare(producers2[p], now, IF ClaimUpdated(p) THEN 0 ELSE producers[p].total_votes)

BlockPay(p, bucket) ==
  IF total_unpaid_blocks > 0 THEN (bucket * unpaid_blocks[p]) \div total_unpaid_blocks ELSE 0

\* The globals after the shares were brought to now, if the revision uses them.
SharesNow == IF revision > 0 THEN UpdateTotalShare(global, now, 0, 0) ELSE global

VotePart(p, bucket) ==
  LET total == SharesNow.total_producer_votepay_share
  IN  IF revision > 0
      THEN IF total > 0 /\ ~ ClaimCrossed(p)
           THEN (ClaimedShare(p) * bucket) \div total ELSE 0
      ELSE IF global.total_producer_vote_weight > 0
           THEN (bucket * producers[p].total_votes) \div global.total_producer_vote_weight ELSE 0

lesser(i, j) == IF i < j THEN i ELSE j

\* Only the part of the shares is capped; too little is not paid at all.
VotePay(p, bucket) ==
  LET part == VotePart(p, bucket)
      pay == IF revision > 0 THEN lesser(part, bucket) ELSE part
  IN  IF pay < MinPerVote THEN 0 ELSE pay

\* MUTANT: the share stays in the total after it was paid.
SettledKept(p) ==
  UpdateTotalShare(SharesNow, now, 0, IF ClaimUpdated(p) THEN producers[p].total_votes ELSE 0)

\* The share that was paid leaves the total, and the votes earn again.
Settled(p) ==
  UpdateTotalShare(SharesNow, now, - ClaimedShare(p),
                   IF ClaimUpdated(p) THEN producers[p].total_votes ELSE 0)

\* MUTANT: the bucket keeps what was paid out of it.
PaidOutForgotten(bucket, pay) == bucket

PaidOut(bucket, pay) == bucket - pay

UnpaidAfter(p) == [unpaid_blocks EXCEPT ![p] = 0]

\* MUTANT: the share is paid and kept.
ClaimedRowKept(p) == [votepay_share |-> ClaimedShare(p), last_votepay_share_update |-> now]

ClaimedRow(p) == [votepay_share |-> 0, last_votepay_share_update |-> now]

claimrewards(p) ==
  LET i == Inflation
      bucket == perblock_bucket + i.perblock
      votebucket == pervote_bucket + i.pervote
      blockpay == BlockPay(p, bucket)
      votepay == VotePay(p, votebucket)
  IN  /\ Active(p)
      /\ ChainActivated
      /\ now - producers[p].last_claim_time > ClaimDay
      /\ CanIssue(i)
      /\ supply' = supply + i.issued
      /\ last_pervote_bucket_fill' = IF i.fills THEN now ELSE last_pervote_bucket_fill
      /\ perblock_bucket' = PaidOut(bucket, blockpay)
      /\ pervote_bucket' = votebucket - votepay
      /\ total_unpaid_blocks' = total_unpaid_blocks - unpaid_blocks[p]
      /\ unpaid_blocks' = UnpaidAfter(p)
      /\ global' = Settled(p)
      /\ producers' = [producers EXCEPT ![p].last_claim_time = now]
      /\ producers2' = [producers2 EXCEPT ![p] = ClaimedRow(p)]
      /\ tokens[Bpay] + i.perblock >= blockpay /\ tokens[Vpay] + i.pervote >= votepay
      /\ tokens' = [tokens EXCEPT ![Savings] = @ + i.savings,
                                  ![Bpay] = (@ + i.perblock) - blockpay,
                                  ![Vpay] = (@ + i.pervote) - votepay,
                                  ![p] = (@ + blockpay) + votepay]
      /\ UNCHANGED <<now, voters, rex_stake, schedule, revision>>

updtrevision ==
  /\ revision = 0
  /\ revision' = 1
  /\ UNCHANGED <<votingVars, unpaid_blocks, total_unpaid_blocks, perblock_bucket,
                 pervote_bucket, last_pervote_bucket_fill, supply, tokens>>

Next ==
  \/ VotingNext /\ UNCHANGED payVars
  \/ \E p \in Producers \cup {None} : onblock(p)
  \/ \E p \in Producers : claimrewards(p)
  \/ updtrevision

Spec == Init /\ [][Next]_vars

-----------------------------------------------------------------------------
(***************************************************************************)
(* Properties                                                              *)
(***************************************************************************)
\* Counters, buckets and balances have their types and never go below zero.
PayTypeOK ==
  /\ VotingTypeOK
  /\ unpaid_blocks \in [Producers -> Nat] /\ total_unpaid_blocks \in Nat
  /\ perblock_bucket \in Nat /\ pervote_bucket \in Nat
  /\ last_pervote_bucket_fill \in 0 .. now
  /\ revision \in {0, 1}
  /\ supply \in InitSupply .. MaxSupply
  /\ tokens \in [Holders -> Nat]

\* The blocks that wait for pay are the sum of what waits for each producer.
BlocksCounted == total_unpaid_blocks = Sum(unpaid_blocks, Producers)

\* The accounts for block pay and vote pay hold exactly the buckets, what was
\* issued is what all holders got, and producers get a fifth of it at most.
InflationBacked ==
  /\ tokens[Bpay] = perblock_bucket
  /\ tokens[Vpay] = pervote_bucket
  /\ supply = InitSupply + Sum(tokens, Holders)
  /\ 5 * tokens[Savings] >= 4 * (supply - InitSupply)

\* Blocks, buckets and tokens agree, and nothing is negative.
PayBacked == PayTypeOK /\ BlocksCounted /\ InflationBacked

\* Whatever was claimed before, the part of no producer is more than all
\* together have to get: a claim is never stuck for want of tokens.
PayCovered ==
  \A p \in {x \in Producers : Active(x)} :
    /\ BlockPay(p, perblock_bucket) <= tokens[Bpay]
    /\ VotePart(p, pervote_bucket) <= tokens[Vpay]

\* A schedule is only replaced by one that is no smaller, of active producers,
\* and leaves out none that has more votes than one it takes.
ElectedByVotes ==
  [][schedule' # schedule =>
       /\ Cardinality(schedule') >= Cardinality(schedule)
       /\ \A p \in schedule' : Active(p)
       /\ \A p \in schedule' : \A q \in {x \in Producers \ schedule' : Active(x)} :
            TotalVotes[q] <= TotalVotes[p]]_vars

\* The total of the shares grows as fast as producers have votes at most, "[the]
\* producer's votes must also be accounted for in the global" total (voting.cpp:59,
\* and tests/eosio.system_tests.cpp:2347), but once.
VotesEarnOnce == global.total_vpay_share_change_rate <= Sum(TotalVotes, Producers)
=============================================================================
