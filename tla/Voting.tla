------------------------------- MODULE Voting -------------------------------
(***************************************************************************)
(* Votes in eosio.system: stake becomes vote weight, a voter gives its     *)
(* weight to producers or to a proxy, and the weight of a proxy follows    *)
(* that of whoever chose it.  The tallies of producers are kept by adding  *)
(* and taking away what each voter last cast, and with them the vote-pay   *)
(* shares: for each producer the integral of its votes over time, for all  *)
(* together one integral whose rate must be the sum of theirs.             *)
(*                                                                         *)
(* Weights are exact and even where the code has doubles, so that its test *)
(* for changes of at most one, noise for real weights, tells no change     *)
(* from a change.  The floor of 0 under total_votes is for that noise too; *)
(* VotingTypeOK shows that exact tallies never need it.                    *)
(***************************************************************************)
EXTENDS Integers, FiniteSets, Functions

CONSTANTS Voters,
          Producers,
          Legacy,        \* producers from before the table producers2 existed
          LegacyClaims,  \* when they may have claimed last, 0 if never
          Rank,          \* order of the producers, as the primary key has it
          None,          \* the empty name
          NoRow,         \* a row that does not exist
          Growth,        \* time -> weight of a unit of stake
          ThreeDays,     \* after its last claim a producer's votes earn this long
          MinActivated,  \* min_activated_stake
          MaxElected,    \* producers in a schedule, 21 in the code
          RexMinVotes,   \* producers a buyer of REX must vote for, 21 in the code
          ProxyVoters,   \* the voters that may register as a proxy
          StakeAmounts,  \* amounts of stake that change at once
          RexAmounts,    \* the same for stake through REX
          MaxStake,      \* bound of a voter's stake
          MaxActivated,  \* bound of the stake that is counted as activated
          MaxTime        \* bound of the clock

\* The rows of the tables voters, producers and producers2.
VoterRow == [staked : Int, is_proxy : BOOLEAN, proxy : Voters \cup {None},
             producers : SUBSET Producers, last_vote_weight : Int, proxied_vote_weight : Int]

ProducerRow == [total_votes : Int, is_active : BOOLEAN, last_claim_time : Int]

ProducerRow2 == [votepay_share : Int, last_votepay_share_update : Int]

\* The fields of the global states about votes.
GlobalState(Number) ==
  [total_producer_vote_weight : Number, total_activated_stake : Number,
   thresh_activated_stake_time : Number, total_producer_votepay_share : Number,
   total_vpay_share_change_rate : Number, last_vpay_state_update : Number,
   last_producer_schedule_size : Number]

ASSUME VotingAssumption ==
  /\ IsFiniteSet(Voters) /\ IsFiniteSet(Producers)
  /\ ProxyVoters \subseteq Voters
  /\ Legacy \subseteq Producers /\ LegacyClaims \subseteq {0, 1}
  /\ None \notin Voters
  /\ NoRow \notin VoterRow \cup ProducerRow \cup ProducerRow2
  /\ Rank \in [Producers -> Nat]
  /\ \A p, q \in Producers : Rank[p] = Rank[q] => p = q
  /\ MaxTime \in Nat \ {0} /\ ThreeDays \in Nat \ {0} /\ MaxStake \in Nat
  /\ Growth \in [0 .. MaxTime -> Nat]
  /\ \A t \in 0 .. MaxTime : Growth[t] > 0 /\ Growth[t] % 2 = 0
  /\ \A t, u \in 0 .. MaxTime : t <= u => Growth[t] <= Growth[u]
  /\ MinActivated \in Nat /\ MaxActivated \in Nat /\ MaxElected \in Nat /\ RexMinVotes \in Nat
  /\ StakeAmounts \subseteq Nat /\ RexAmounts \subseteq Nat

VARIABLES now,
          voters,      \* voter -> voter_info or NoRow
          rex_stake,   \* voter -> the part of its stake that is its REX
          producers,   \* producer -> producer_info or NoRow
          producers2,  \* producer -> producer_info2 or NoRow
          global,      \* the fields of the global states about votes
          schedule     \* the producers last proposed to the chain

votingVars == <<now, voters, rex_stake, producers, producers2, global, schedule>>

NoVoter == [staked |-> 0, is_proxy |-> FALSE, proxy |-> None, producers |-> {},
            last_vote_weight |-> 0, proxied_vote_weight |-> 0]

NoGlobal == [total_producer_vote_weight |-> 0, total_activated_stake |-> 0,
             thresh_activated_stake_time |-> 0, total_producer_votepay_share |-> 0,
             total_vpay_share_change_rate |-> 0, last_vpay_state_update |-> 0,
             last_producer_schedule_size |-> 0]

VotingInit ==
  /\ now = 1
  /\ voters = [v \in Voters |-> NoRow]
  /\ rex_stake = [v \in Voters |-> 0]
  /\ \E claimed \in [Legacy -> LegacyClaims] :
       producers = [p \in Producers |->
         IF p \in Legacy
         THEN [total_votes |-> 0, is_active |-> TRUE, last_claim_time |-> claimed[p]]
         ELSE NoRow]
  /\ producers2 = [p \in Producers |-> NoRow]
  /\ global = NoGlobal
  /\ schedule = {}

larger(i, j) == IF i > j THEN i ELSE j

Sum(f, S) == SumFunctionOnSet(f, S)

-----------------------------------------------------------------------------
(***************************************************************************)
(* Vote-pay shares                                                         *)
(***************************************************************************)
\* update_total_votepay_share: the globals g brought to time ct.
UpdateTotalShare(g, ct, shares, rate) ==
  [g EXCEPT
     !.total_producer_votepay_share =
        larger(0, @ + shares + (IF ct > g.last_vpay_state_update
                                THEN g.total_vpay_share_change_rate
                                       * (ct - g.last_vpay_state_update)
                                ELSE 0)),
     !.total_vpay_share_change_rate = larger(0, @ + rate),
     !.last_vpay_state_update = ct]

\* update_producer_votepay_share before it is reset: a producer's share at ct.
NewShare(row2, ct, rate) ==
  row2.votepay_share
    + (IF rate > 0 /\ ct > row2.last_votepay_share_update
       THEN rate * (ct - row2.last_votepay_share_update) ELSE 0)

\* The tables that a vote changes, as they are passed from step to step.
Tables == [voters |-> voters, producers |-> producers, producers2 |-> producers2,
           global |-> global]

Crossed(row, ct) == row.last_claim_time + ThreeDays <= ct

\* The producer's votes have stopped to earn, and that was accounted for.
Updated(row, row2) == row.last_claim_time + ThreeDays <= row2.last_votepay_share_update

\* MUTANT: the shares of a producer that stops to earn stay in the total.
ExpiredKept(s, p, ct) == 0

\* The share a producer loses when it is found not to have claimed in time.
Expired(s, p, ct) == NewShare(s.producers2[p], ct, s.producers[p].total_votes)

\* The votes of the producers in the domain of delta change by that much.
ChangeVotes(s, delta, ct) ==
  LET P == DOMAIN delta
      total == s.global.total_producer_vote_weight + Sum(delta, P)
      counted == {p \in P : s.producers2[p] # NoRow}
      earning == {p \in counted : ~ Crossed(s.producers[p], ct)}
      expires == {p \in counted \ earning : ~ Updated(s.producers[p], s.producers2[p])}
      share(p) == NewShare(s.producers2[p], ct,
                    IF p \in earning \cup expires THEN s.producers[p].total_votes ELSE 0)
      lost == Sum([p \in expires |-> Expired(s, p, ct)], expires)
      rate == Sum([p \in earning |-> delta[p]], earning)
              - Sum([p \in expires |-> s.producers[p].total_votes], expires)
  IN [s EXCEPT
        !.producers = [p \in Producers |->
           IF p \in P
           THEN [s.producers[p] EXCEPT !.total_votes = s.producers[p].total_votes + delta[p]]
           ELSE s.producers[p]],
        !.producers2 = [p \in Producers |->
           IF p \in counted
           THEN [votepay_share |-> IF p \in expires THEN 0 ELSE share(p),
                 last_votepay_share_update |-> ct]
           ELSE s.producers2[p]],
        !.global = UpdateTotalShare(
           [s.global EXCEPT !.total_producer_vote_weight = total], ct, - lost, rate)]

-----------------------------------------------------------------------------
(***************************************************************************)
(* Vote weights                                                            *)
(***************************************************************************)
stake2vote(staked) == staked * Growth[now]

Weight(row) ==
  stake2vote(row.staked) + (IF row.is_proxy THEN row.proxied_vote_weight ELSE 0)

\* MUTANT: only growth is propagated.
ChangedUp(old, new) == new - old > 1

Changed(old, new) == new - old > 1 \/ old - new > 1

\* One call of propagate_weight_change, for the voter w.at; the next call is
\* for its proxy.
PropagateOnce(w) ==
  LET row == w.tables.voters[w.at]
      new == Weight(row)
      change == new - row.last_vote_weight
      noted == [w.tables EXCEPT !.voters[w.at].last_vote_weight = new]
  IN  IF ~ Changed(row.last_vote_weight, new)
      THEN [tables |-> noted, at |-> None]
      ELSE IF row.proxy # None
      THEN [tables |-> [noted EXCEPT !.voters[row.proxy].proxied_vote_weight = @ + change],
            at |-> row.proxy]
      ELSE [tables |-> ChangeVotes(noted, [p \in row.producers |-> change], now), at |-> None]

\* propagate_weight_change.  Its check that a proxy has no proxy cannot fail,
\* and its chain of calls ends (ProxiesAreRoots).
Propagate(s, v) ==
  LET walk[n \in 0 .. Cardinality(Voters)] ==
        IF n = 0 THEN [tables |-> s, at |-> v]
        ELSE IF walk[n - 1].at = None THEN walk[n - 1]
        ELSE PropagateOnce(walk[n - 1])
  IN  walk[Cardinality(Voters)].tables

\* A vote of a voter without weight activates its stake.
Activated(g, row) ==
  g.total_activated_stake + (IF row.last_vote_weight <= 0 THEN row.staked ELSE 0)

Activate(g, row) ==
  LET total == Activated(g, row)
  IN  [g EXCEPT !.total_activated_stake = total,
                !.thresh_activated_stake_time =
                   IF total >= MinActivated /\ @ = 0 THEN now ELSE @]

\* MUTANT: the proxy that the voter leaves keeps its weight.
LeaveProxyForgotten(s, row) == s

\* The weight that was cast is taken away from the proxy it was given to.
LeaveProxy(s, row) ==
  IF row.last_vote_weight > 0 /\ row.proxy # None
  THEN Propagate([s EXCEPT !.voters[row.proxy].proxied_vote_weight = @ - row.last_vote_weight],
                 row.proxy)
  ELSE s

JoinProxy(s, proxy, weight) ==
  IF proxy # None
  THEN Propagate([s EXCEPT !.voters[proxy].proxied_vote_weight = @ + weight], proxy)
  ELSE s

\* update_votes, once its checks have passed.
UpdateVotes(s, v, proxy, prods) ==
  LET row == s.voters[v]
      weight == Weight(row)
      moved == JoinProxy(LeaveProxy([s EXCEPT !.global = Activate(@, row)], row), proxy, weight)
      old == IF row.last_vote_weight > 0 /\ row.proxy = None THEN row.producers ELSE {}
      new == IF proxy = None THEN prods ELSE {}
      delta == [p \in old \cup new |-> (IF p \in new THEN weight ELSE 0)
                                       - (IF p \in old THEN row.last_vote_weight ELSE 0)]
  IN  [ChangeVotes(moved, delta, now) EXCEPT
         !.voters[v].last_vote_weight = weight,
         !.voters[v].producers = prods,
         !.voters[v].proxy = proxy]

SetTables(s) ==
  /\ s.global.total_activated_stake <= MaxActivated
  /\ voters' = s.voters
  /\ producers' = s.producers
  /\ producers2' = s.producers2
  /\ global' = s.global

-----------------------------------------------------------------------------
(***************************************************************************)
(* Actions of voters                                                       *)
(***************************************************************************)
\* MUTANT: whoever uses a proxy can be one.
MayProxyAlways(v, proxy) == v # proxy /\ voters[proxy] # NoRow /\ voters[proxy].is_proxy

MayProxy(v, proxy) ==
  /\ v # proxy /\ ~ voters[v].is_proxy
  /\ voters[proxy] # NoRow /\ voters[proxy].is_proxy

Registered(p) == producers[p] # NoRow

Active(p) == Registered(p) /\ producers[p].is_active

\* gain is what the voter's REX is worth more than when it was last looked at.
voteproducer(v, gain, proxy, prods) ==
  /\ voters[v] # NoRow
  /\ gain > 0 => rex_stake[v] > 0 /\ voters[v].staked + gain <= MaxStake
  /\ proxy # None => prods = {} /\ MayProxy(v, proxy)
  /\ \A p \in prods : Active(p)
  /\ rex_stake[v] + gain > 0 => proxy # None \/ Cardinality(prods) >= RexMinVotes
  /\ rex_stake' = [rex_stake EXCEPT ![v] = @ + gain]
  /\ SetTables(UpdateVotes([Tables EXCEPT !.voters[v].staked = @ + gain], v, proxy, prods))
  /\ UNCHANGED <<now, schedule>>

Votes(row) == row.producers # {} \/ row.proxy # None

\* update_voting_power.
ChangeStake(v, change) ==
  LET row == IF voters[v] = NoRow THEN NoVoter ELSE voters[v]
      staked == [Tables EXCEPT !.voters[v] = [row EXCEPT !.staked = row.staked + change]]
  IN  /\ row.staked + change \in 0 .. MaxStake
      /\ SetTables(IF Votes(row) THEN UpdateVotes(staked, v, row.proxy, row.producers)
                   ELSE staked)
      /\ UNCHANGED <<now, schedule>>

delegatebw(v, amount) ==
  /\ amount > 0
  /\ ChangeStake(v, amount)
  /\ UNCHANGED rex_stake

undelegatebw(v, amount) ==
  /\ voters[v] # NoRow
  /\ amount \in 1 .. voters[v].staked - rex_stake[v]
  /\ global.total_activated_stake >= MinActivated
  /\ ChangeStake(v, - amount)
  /\ UNCHANGED rex_stake

\* buyrex: the tokens are from the REX fund and count as stake from now on.
BuyRex(v, amount) ==
  /\ voters[v] # NoRow
  /\ amount > 0
  /\ voters[v].proxy # None \/ Cardinality(voters[v].producers) >= RexMinVotes
  /\ ChangeStake(v, amount)
  /\ rex_stake' = [rex_stake EXCEPT ![v] = @ + amount]

\* A sale of REX that is filled.
SellRex(v, amount) ==
  /\ amount \in 1 .. rex_stake[v]
  /\ ChangeStake(v, - amount)
  /\ rex_stake' = [rex_stake EXCEPT ![v] = @ - amount]

\* MUTANT: the weight of a proxy is not propagated when it stops being one.
RegproxyQuiet(s, v) == s

Reweighed(s, v) == Propagate(s, v)

regproxy(v, isproxy) ==
  /\ IF voters[v] = NoRow
     THEN SetTables([Tables EXCEPT !.voters[v] = [NoVoter EXCEPT !.is_proxy = isproxy]])
     ELSE /\ isproxy # voters[v].is_proxy
          /\ isproxy => voters[v].proxy = None
          /\ SetTables(Reweighed([Tables EXCEPT !.voters[v].is_proxy = isproxy], v))
  /\ UNCHANGED <<now, rex_stake, schedule>>

-----------------------------------------------------------------------------
(***************************************************************************)
(* Actions of producers, and the election                                  *)
(***************************************************************************)
NewProducer == [total_votes |-> 0, is_active |-> TRUE, last_claim_time |-> now]

NewProducer2 == [votepay_share |-> 0, last_votepay_share_update |-> now]

\* MUTANT: the votes of a legacy producer are not counted for the total.
LegacyUncounted(p) == 0

\* The rate that the total gains with the producer's row in producers2.
Introduced(p) ==
  IF Registered(p) /\ producers2[p] = NoRow THEN producers[p].total_votes ELSE 0

\* A producer that never claimed starts to count time when it registers again.
FirstClaim(p) ==
  IF producers[p].last_claim_time = 0 THEN now ELSE producers[p].last_claim_time

regproducer(p) ==
  /\ producers' = [producers EXCEPT ![p] =
       IF Registered(p)
       THEN [producers[p] EXCEPT !.is_active = TRUE, !.last_claim_time = FirstClaim(p)]
       ELSE NewProducer]
  /\ producers2' = [producers2 EXCEPT ![p] = IF @ = NoRow THEN NewProducer2 ELSE @]
  /\ global' = IF Registered(p) /\ producers2[p] = NoRow
               THEN UpdateTotalShare(global, now, 0, Introduced(p)) ELSE global
  /\ UNCHANGED <<now, voters, rex_stake, schedule>>

\* unregprod by the producer, rmvproducer by the system account.
unregprod(p) ==
  /\ Registered(p)
  /\ producers' = [producers EXCEPT ![p].is_active = FALSE]
  /\ UNCHANGED <<now, voters, rex_stake, producers2, global, schedule>>

Ahead(p, q) ==
  \/ producers[p].total_votes > producers[q].total_votes
  \/ producers[p].total_votes = producers[q].total_votes /\ Rank[p] < Rank[q]

Electable == {p \in Producers : Active(p) /\ producers[p].total_votes > 0}

TopProducers ==
  {p \in Electable : Cardinality({q \in Electable : Ahead(q, p)}) < MaxElected}

\* MUTANT: a schedule may be smaller than the one before.
LargeAlways(top) == TRUE

LargeEnough(top) == Cardinality(top) >= global.last_producer_schedule_size

\* The chain may refuse a proposal, for instance while another is on its way.
update_elected_producers ==
  \/ /\ LargeEnough(TopProducers)
     /\ schedule' = TopProducers
     /\ global' = [global EXCEPT !.last_producer_schedule_size = Cardinality(TopProducers)]
  \/ UNCHANGED <<schedule, global>>

AdvanceTime ==
  /\ now < MaxTime
  /\ now' = now + 1
  /\ UNCHANGED <<voters, rex_stake, producers, producers2, global, schedule>>

VotingNext ==
  \/ \E v \in Voters, gain \in RexAmounts \cup {0}, proxy \in Voters \cup {None},
        prods \in SUBSET Producers : voteproducer(v, gain, proxy, prods)
  \/ \E v \in Voters, amount \in StakeAmounts : delegatebw(v, amount) \/ undelegatebw(v, amount)
  \/ \E v \in Voters, amount \in RexAmounts : BuyRex(v, amount) \/ SellRex(v, amount)
  \/ \E v \in ProxyVoters, isproxy \in BOOLEAN : regproxy(v, isproxy)
  \/ \E p \in Producers : regproducer(p) \/ unregprod(p)
  \/ AdvanceTime

VotingSpec == VotingInit /\ [][VotingNext]_votingVars

-----------------------------------------------------------------------------
(***************************************************************************)
(* Properties                                                              *)
(***************************************************************************)
Voter == [staked : 0 .. MaxStake, is_proxy : BOOLEAN, proxy : Voters \cup {None},
          producers : SUBSET Producers, last_vote_weight : Nat, proxied_vote_weight : Nat]

\* The rows have their types: no weight, tally or share ever goes below zero,
\* although all are kept by adding and taking away.
VotingTypeOK ==
  /\ now \in 0 .. MaxTime
  /\ voters \in [Voters -> Voter \cup {NoRow}]
  /\ rex_stake \in [Voters -> Nat]
  /\ producers \in [Producers ->
       [total_votes : Nat, is_active : BOOLEAN, last_claim_time : 0 .. now] \cup {NoRow}]
  /\ producers2 \in [Producers ->
       [votepay_share : Nat, last_votepay_share_update : 0 .. now] \cup {NoRow}]
  /\ global \in GlobalState(Nat)
  /\ schedule \subseteq Producers

Known == {v \in Voters : voters[v] # NoRow}

Cast(S) == Sum([v \in S |-> voters[v].last_vote_weight], S)

TotalVotes == [p \in Producers |-> IF Registered(p) THEN producers[p].total_votes ELSE 0]

\* The tally of every producer is what those who vote for it last cast, and
\* the tally of all is their sum: no vote is counted twice or left behind when
\* voters change their vote, their stake or their proxy, or stop being a proxy.
VotesAddUp ==
  /\ \A p \in Producers : TotalVotes[p] = Cast({v \in Known : p \in voters[v].producers})
  /\ global.total_producer_vote_weight = Sum(TotalVotes, Producers)

\* What a proxy votes with for others is what those who chose it last cast,
\* also while it is not registered as a proxy.
ProxiedAddUp ==
  \A x \in Known : voters[x].proxied_vote_weight = Cast({v \in Known : voters[v].proxy = x})

\* All tallies add up, of producers and of proxies, and no weight, tally or
\* share falls below zero.
TalliesAddUp == VotingTypeOK /\ VotesAddUp /\ ProxiedAddUp

\* A proxy has no proxy itself, and no voters are each other's proxies in a
\* circle: a change of weight has an end.
ProxiesAreRoots ==
  /\ \A v \in Known : voters[v].is_proxy => voters[v].proxy = None
  /\ \A v \in Known : voters[v].proxy \in Known \cup {None}
  /\ \A S \in SUBSET Known : S # {} => \E v \in S : voters[v].proxy \notin S

\* Whoever votes has cast no more than its stake now weighs and, as a proxy,
\* what others cast through it; and a proxy that votes has passed all of that
\* on without voting again (update_votes and propagate_weight_change), which is
\* not what two comments of the code say: VotesWaitForProxy, WeightWaitsForVoter.
WeightsAreBacked ==
  \A v \in Known : Votes(voters[v]) =>
    /\ voters[v].last_vote_weight <= Weight(voters[v])
    /\ voters[v].is_proxy => voters[v].last_vote_weight >= voters[v].proxied_vote_weight

Earning(p) ==
  producers2[p] # NoRow /\ ~ Updated(producers[p], producers2[p])

\* The total of the shares grows as fast as the shares of those producers
\* that still earn, or whose time is over but was not accounted for.
RateAddsUp ==
  LET P == {p \in Producers : Earning(p)}
  IN  global.total_vpay_share_change_rate = Sum([p \in P |-> TotalVotes[p]], P)

ShareNow(p) ==
  IF producers2[p] = NoRow THEN 0
  ELSE NewShare(producers2[p], now, IF Earning(p) THEN TotalVotes[p] ELSE 0)

\* Brought to the present, the total of the shares is their sum: what is paid
\* for the votes of one is not taken from the others.
SharesAddUp ==
  UpdateTotalShare(global, now, 0, 0).total_producer_votepay_share
    = Sum([p \in Producers |-> ShareNow(p)], Producers)

\* Vote pay is accounted for: the total of the shares is right now and stays
\* right as time passes.
VotePayAddsUp == RateAddsUp /\ SharesAddUp

\* "The first time someone votes ... [we] should consider their stake
\* activated" (voting.cpp:220-223): stake that votes has activated some stake.
FirstVoteActivates ==
  (\E v \in Known : Votes(voters[v]) /\ voters[v].staked > 0) => global.total_activated_stake > 0

\* "they cannot unstake until after total_activated_stake hits threshold"
\* (voting.cpp:220-221): until then what was activated is staked.
ActivatedIsStaked ==
  global.thresh_activated_stake_time = 0 =>
    global.total_activated_stake <= Sum([v \in Known |-> voters[v].staked], Known)

\* "If voting for a proxy, the producer votes will not change until the proxy
\* updates their own vote" (voting.cpp:191): when somebody without a vote chooses
\* a proxy, no producer gains or loses votes in that step.
VotesWaitForProxy ==
  [][\A v, proxy \in Voters :
       voteproducer(v, 0, proxy, {}) /\ ~ Votes(voters[v]) => TotalVotes' = TotalVotes]_votingVars

\* "Other accounts must refresh their voteproducer to update the proxy's weight"
\* (voting.cpp:325-327): what a proxy votes with for others changes only when
\* somebody calls voteproducer.
WeightWaitsForVoter ==
  [][\A x \in Known : voters'[x].proxied_vote_weight # voters[x].proxied_vote_weight =>
       \E v \in Voters, gain \in RexAmounts \cup {0}, proxy \in Voters \cup {None},
          prods \in SUBSET Producers : voteproducer(v, gain, proxy, prods)]_votingVars
=============================================================================
